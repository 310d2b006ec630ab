-------------------------- MODULE RunEvidenceProofs --------------------------
(***************************************************************************)
(* What the tables of a Run say together, for every Flow length, every     *)
(* number of cancelling requests and every number of faults: the rows form *)
(* a prefix of the Flow, a fork's prefix is reused as a whole, an Artifact *)
(* belongs to a Node that succeeded, and nothing follows a rejection.  The *)
(* invariants rest on Inv of RunLifecycleProofs.                           *)
(***************************************************************************)
EXTENDS RunLifecycleProofs

\* The steps before the current Node has a row.
Unstarted ==
  {"start_run", "created", "effects", "forked", "reuse", "metadata", "thread", "next",
   "start_node", "finish_succeeded"}

\* Rows are written in Flow order, each after the one before it was accepted.
RowsInOrder ==
  /\ \A m, n \in Nodes : m < n /\ nodes[n] # "absent" => nodes[m] \in Accepted
  /\ worker \in Unstarted => \A n \in Nodes : n >= cursor => nodes[n] = "absent"
  /\ worker \in AfterAccept => \A n \in Nodes : n > cursor => nodes[n] = "absent"
  /\ worker \in MayRun => nodes[cursor] = "running"

\* A fork reuses the Nodes before its start, all of them before it can be seen,
\* and executes the others.
Seeded ==
  /\ worker \in {"forked", "reuse", "reuse_context", "reused"} => start # 0
  /\ worker \in {"metadata", "thread"} => cursor = FirstNode
  /\ worker \in TryLocked \cup TryFree => cursor >= start
  /\ \A n \in Nodes : nodes[n] = "reused" => n < start
  /\ \A n \in Nodes : n < start /\ nodes[n] # "absent" => nodes[n] = "reused"
  /\ metadata => \A n \in Nodes : n < start => nodes[n] = "reused"

\* An Artifact is recorded for a Node that succeeded, when its file exists.
Published ==
  /\ worker \in AfterAccept \ {"reuse_context", "reused"} => nodes[cursor] = "succeeded"
  /\ worker \in {"artifact", "artifact_event"} => directory
  /\ worker = "artifact_event" => cursor \in artifacts
  /\ \A n \in artifacts : directory /\ nodes[n] = "succeeded"

\* What the events of one type are about.
Abouts(j, type) == {j[k].about : k \in {i \in DOMAIN j : j[i].type = type}}

\* What was rejected, and which Artifacts were announced.
Rejections   == Abouts(journal, "evaluation.rejected")
Publications == Abouts(journal, "artifact.created")

\* A rejection is of one evaluation Node, which failed, and the thread is then
\* on its way out.
RejectedOnce ==
  /\ worker = "result" /\ verdict = "reject" => cursor \in EvaluationNodes
  /\ worker \in {"reject_accepted", "rejected"} =>
       cursor \in EvaluationNodes /\ nodes[cursor] = "failed"
  /\ \A a \in Rejections : \E n \in EvaluationNodes : a = {n} /\ nodes[n] = "failed"
  /\ Rejections # {} =>
       worker \notin Admission \cup TryFree
                     \cup (TryLocked \ {"node_failed", "run_failed", "finish_failed"})

\* The event of an Artifact follows its row.
AnnouncedLate == \A a \in Publications : a \subseteq artifacts

-----------------------------------------------------------------------------
(* What a step carries over.                                               *)

\* The end of a Run leaves these alone.
LEMMA EndingCarries ==
  ASSUME Ending PROVE UNCHANGED <<start, metadata, directory, cursor, verdict>>
BY DEF Ending, Handle, HandleCancelled, HandleFailureOfCancelled, CancelRunningNodes,
       NodesCancelled, RunCancelled, FinishCancelled, HandleFailure, FailureRecorded,
       FinishFailed, RewriteMetadata, ClearSlot, Journal, Finish, BeginFinishCancelled,
       Step, OperationRaises, Crash

\* So do the other actors.
LEMMA OthersCarry ==
  ASSUME Others PROVE UNCHANGED <<start, metadata, directory, cursor, verdict, worker>>
BY DEF Others, ReadOutcome, ConsoleCancel, Serve, ReadSlot, Interrupt, CancelRequest,
       SetToken, Reply, Request, Shutdown, Close, ShutdownRequest, ShutdownToken, Closing,
       Restart, vars, thread

\* What the other actors do to the rows and the Artifacts.
LEMMA OthersSettle ==
  ASSUME Control, Others
  PROVE  /\ UNCHANGED artifacts
         /\ UNCHANGED nodes \/ (worker = "gone" /\ nodes' = SettleRunning("failed"))
<1>1. UNCHANGED artifacts
  BY OtherMoves
<1>2. \/ UNCHANGED <<status, nodes, journal>>
      \/ UNCHANGED nodes
      \/ worker = "gone" /\ MarkInterrupted
  BY OtherMoves
<1>3. CASE worker = "gone" /\ MarkInterrupted
  BY <1>1, <1>3 DEF MarkInterrupted
<1>4. QED
  BY <1>1, <1>2, <1>3

\* Where a fork starts is decided by its admission.
LEMMA StartStays == ASSUME [Next]_vars PROVE UNCHANGED start
<1>1. ASSUME Admit PROVE UNCHANGED start
  BY <1>1
  DEF Admit, StartRun, RunCreated, RunEffects, RunForked, ReuseNode, ReuseContext,
      NodeReused, WriteMetadata, StartThread, Journal, Step
<1>2. ASSUME Execute PROVE UNCHANGED start
  BY <1>2
  DEF Execute, ResolveFails, CancelledAtSection, NodeReady, StartNode,
      ExecutorStarted, ExecutorReturns, ExecutorRaises, ExecutorCancelled,
      MalformedResult, AcceptResult, RecordContext, EvaluationPassed, ResultAccepted,
      MakeDirectory, RecordArtifact, ArtifactCreated, NodeSucceeded, RejectResult,
      RejectAccepted, EvaluationRejected, NodeFailed, RunFailed, FinishRejected,
      RunSucceeded, FinishSucceeded, Journal, Finish, Step
<1>3. QED
  BY <1>1, <1>2, StepKinds, EndingCarries, OthersCarry

-----------------------------------------------------------------------------
(* The invariants, one step at a time.                                     *)

\* Only the current Node gets a row, and only when those before it are accepted.
LEMMA RowsStep ==
  ASSUME Inv, RowsInOrder, [Next]_vars
  PROVE  RowsInOrder'
<1>0. Typed /\ Control /\ InFlowOrder /\ cursor \in Nat
  BY DEF Inv, Progress, Typed, TypeOK
<1>00. nodes \in [Nodes -> NodeStatus] /\ Nodes \subseteq Nat
      /\ artifacts \subseteq Nodes /\ EvaluationNodes \subseteq Nodes
  BY LifecycleAssumption DEF Inv, Typed, TypeOK, Nodes
<1> USE DEF RowsInOrder, Unstarted, BeforeAccept, AfterAccept, MayRun, InFlowOrder,
            Accepted, AtNode, TryLocked, TryFree, HandlerLocked, HandlerFree, Finally
<1>1. ASSUME Admit PROVE RowsInOrder'
  <2>1. CASE StartRun
    BY <2>1, <1>0, <1>00, CursorIsNode DEF StartRun, Step, evidence
  <2>2. CASE RunCreated
    BY <2>2, <1>0, <1>00, CursorIsNode DEF RunCreated, Journal, Step, evidence
  <2>3. CASE RunEffects
    BY <2>3, <1>0, <1>00, CursorIsNode DEF RunEffects, Journal, Step, evidence
  <2>4. CASE RunForked
    BY <2>4, <1>0, <1>00, CursorIsNode DEF RunForked, Journal, Step, evidence
  <2>5. CASE ReuseNode
    BY <2>5, <1>0, <1>00, CursorIsNode DEF ReuseNode, Step, evidence
  <2>6. CASE ReuseContext
    BY <2>6, <1>0, <1>00, CursorIsNode DEF ReuseContext, Step, evidence
  <2>7. CASE NodeReused
    BY <2>7, <1>0, <1>00, CursorIsNode DEF NodeReused, Step, evidence
  <2>8. CASE WriteMetadata
    BY <2>8, <1>0, <1>00, CursorIsNode DEF WriteMetadata, Step, evidence
  <2>9. CASE StartThread
    BY <2>9, <1>0, <1>00, CursorIsNode DEF StartThread, Step, evidence
  <2>10. QED
    BY <1>1, <2>1, <2>2, <2>3, <2>4, <2>5, <2>6, <2>7, <2>8, <2>9 DEF Admit
<1>2. ASSUME Execute PROVE RowsInOrder'
  <2>1. CASE ResolveFails
    BY <2>1, <1>0, <1>00, CursorIsNode DEF ResolveFails, Step, evidence
  <2>2. CASE CancelledAtSection("next")
    BY <2>2, <1>0, <1>00, CursorIsNode DEF CancelledAtSection, Step, evidence
  <2>3. CASE NodeReady
    BY <2>3, <1>0, <1>00, CursorIsNode DEF NodeReady, Journal, Step, evidence
  <2>4. CASE StartNode
    BY <2>4, <1>0, <1>00, CursorIsNode DEF StartNode, Step, evidence
  <2>5. CASE ExecutorStarted
    BY <2>5, <1>0, <1>00, CursorIsNode DEF ExecutorStarted, Journal, Step, evidence
  <2>6. CASE ExecutorReturns
    BY <2>6, <1>0, <1>00, CursorIsNode DEF ExecutorReturns, Step, evidence
  <2>7. CASE ExecutorRaises
    BY <2>7, <1>0, <1>00, CursorIsNode DEF ExecutorRaises, Step, evidence
  <2>8. CASE ExecutorCancelled
    BY <2>8, <1>0, <1>00, CursorIsNode DEF ExecutorCancelled, Step, evidence
  <2>9. CASE CancelledAtSection("result")
    BY <2>9, <1>0, <1>00, CursorIsNode DEF CancelledAtSection, Step, evidence
  <2>10. CASE MalformedResult
    BY <2>10, <1>0, <1>00, CursorIsNode DEF MalformedResult, Step, evidence
  <2>11. CASE AcceptResult
    BY <2>11, <1>0, <1>00, CursorIsNode DEF AcceptResult, Step, evidence
  <2>12. CASE RecordContext
    BY <2>12, <1>0, <1>00, CursorIsNode DEF RecordContext, Step, evidence
  <2>13. CASE EvaluationPassed
    BY <2>13, <1>0, <1>00, CursorIsNode DEF EvaluationPassed, Journal, Step, evidence
  <2>14. CASE ResultAccepted
    BY <2>14, <1>0, <1>00, CursorIsNode DEF ResultAccepted, Journal, Step, evidence
  <2>15. CASE MakeDirectory
    BY <2>15, <1>0, <1>00, CursorIsNode DEF MakeDirectory, Step, evidence
  <2>16. CASE RecordArtifact
    BY <2>16, <1>0, <1>00, CursorIsNode DEF RecordArtifact, Step, evidence
  <2>17. CASE ArtifactCreated
    BY <2>17, <1>0, <1>00, CursorIsNode DEF ArtifactCreated, Journal, Step, evidence
  <2>18. CASE NodeSucceeded
    BY <2>18, <1>0, <1>00, CursorIsNode DEF NodeSucceeded, Step, evidence
  <2>19. CASE RejectResult
    BY <2>19, <1>0, <1>00, CursorIsNode DEF RejectResult, Step, evidence
  <2>20. CASE RejectAccepted
    BY <2>20, <1>0, <1>00, CursorIsNode DEF RejectAccepted, Journal, Step, evidence
  <2>21. CASE EvaluationRejected
    BY <2>21, <1>0, <1>00, CursorIsNode DEF EvaluationRejected, Journal, Step, evidence
  <2>22. CASE NodeFailed
    BY <2>22, <1>0, <1>00, CursorIsNode DEF NodeFailed, Journal, Step, evidence
  <2>23. CASE RunFailed
    BY <2>23, <1>0, <1>00, CursorIsNode DEF RunFailed, Journal, Step, evidence
  <2>24. CASE FinishRejected
    BY <2>24, <1>0, <1>00, CursorIsNode
    DEF FinishRejected, Finish, Finishable, Step, evidence
  <2>25. CASE RunSucceeded
    BY <2>25, <1>0, <1>00, CursorIsNode DEF RunSucceeded, Journal, Step, evidence
  <2>26. CASE FinishSucceeded
    BY <2>26, <1>0, <1>00, CursorIsNode
    DEF FinishSucceeded, Finish, Finishable, Step, evidence
  <2>27. QED
    BY <1>2, <2>1, <2>2, <2>3, <2>4, <2>5, <2>6, <2>7, <2>8, <2>9, <2>10, <2>11,
       <2>12, <2>13, <2>14, <2>15, <2>16, <2>17, <2>18, <2>19, <2>20, <2>21, <2>22,
       <2>23, <2>24, <2>25, <2>26
    DEF Execute
<1>3. CASE Ending
  BY <1>3, <1>0, <1>00, HandlerMoves, EndingLeaves, EndingCarries DEF SettleRunning
<1>4. CASE Others
  BY <1>4, <1>0, <1>00, OthersSettle, OthersCarry DEF SettleRunning
<1>5. QED
  BY <1>1, <1>2, <1>3, <1>4, StepKinds

\* A fork is seen with its prefix reused; what it executes lies behind it.
LEMMA SeededStep ==
  ASSUME Inv, RowsInOrder, Seeded, [Next]_vars
  PROVE  Seeded'
<1>0. Typed /\ Control /\ InFlowOrder /\ cursor \in Nat
  BY DEF Inv, Progress, Typed, TypeOK
<1>00. nodes \in [Nodes -> NodeStatus] /\ Nodes \subseteq Nat
      /\ artifacts \subseteq Nodes /\ EvaluationNodes \subseteq Nodes
  BY LifecycleAssumption DEF Inv, Typed, TypeOK, Nodes
<1> USE DEF Seeded, RowsInOrder, Unstarted, AfterAccept, MayRun, BeforeAccept, Accepted,
            AtNode, InFlowOrder, FirstNode, Nodes, TryLocked, TryFree, HandlerLocked,
            HandlerFree, Finally
<1>1. ASSUME Admit PROVE Seeded'
  <2>1. CASE StartRun
    BY <2>1, <1>0, <1>00, CursorIsNode, LifecycleAssumption
    DEF StartRun, Step, evidence, Typed, TypeOK, CursorInFlow
  <2>2. CASE RunCreated
    BY <2>2, <1>0, <1>00, CursorIsNode, LifecycleAssumption
    DEF RunCreated, Journal, Step, evidence, Typed, TypeOK, CursorInFlow
  <2>3. CASE RunEffects
    BY <2>3, <1>0, <1>00, CursorIsNode, LifecycleAssumption
    DEF RunEffects, Journal, Step, evidence, Typed, TypeOK, CursorInFlow
  <2>4. CASE RunForked
    BY <2>4, <1>0, <1>00, CursorIsNode, LifecycleAssumption
    DEF RunForked, Journal, Step, evidence, Typed, TypeOK, CursorInFlow
  <2>5. CASE ReuseNode
    BY <2>5, <1>0, <1>00, CursorIsNode, LifecycleAssumption
    DEF ReuseNode, Step, evidence, Typed, TypeOK, CursorInFlow
  <2>6. CASE ReuseContext
    BY <2>6, <1>0, <1>00, CursorIsNode, LifecycleAssumption
    DEF ReuseContext, Step, evidence, Typed, TypeOK, CursorInFlow
  <2>7. CASE NodeReused
    BY <2>7, <1>0, <1>00, CursorIsNode, LifecycleAssumption
    DEF NodeReused, Step, evidence, Typed, TypeOK, CursorInFlow
  <2>8. CASE WriteMetadata
    BY <2>8, <1>0, <1>00, CursorIsNode, LifecycleAssumption
    DEF WriteMetadata, Step, evidence, Typed, TypeOK, CursorInFlow
  <2>9. CASE StartThread
    BY <2>9, <1>0, <1>00, CursorIsNode, LifecycleAssumption
    DEF StartThread, Step, evidence, Typed, TypeOK, CursorInFlow
  <2>10. QED
    BY <1>1, <2>1, <2>2, <2>3, <2>4, <2>5, <2>6, <2>7, <2>8, <2>9 DEF Admit
<1>2. ASSUME Execute PROVE Seeded'
  <2>1. CASE ResolveFails
    BY <2>1, <1>0, <1>00, CursorIsNode, LifecycleAssumption
    DEF ResolveFails, Step, evidence, Typed, TypeOK, CursorInFlow
  <2>2. CASE CancelledAtSection("next")
    BY <2>2, <1>0, <1>00, CursorIsNode, LifecycleAssumption
    DEF CancelledAtSection, Step, evidence, Typed, TypeOK, CursorInFlow
  <2>3. CASE NodeReady
    BY <2>3, <1>0, <1>00, CursorIsNode, LifecycleAssumption
    DEF NodeReady, Journal, Step, evidence, Typed, TypeOK, CursorInFlow
  <2>4. CASE StartNode
    BY <2>4, <1>0, <1>00, CursorIsNode, LifecycleAssumption
    DEF StartNode, Step, evidence, Typed, TypeOK, CursorInFlow
  <2>5. CASE ExecutorStarted
    BY <2>5, <1>0, <1>00, CursorIsNode, LifecycleAssumption
    DEF ExecutorStarted, Journal, Step, evidence, Typed, TypeOK, CursorInFlow
  <2>6. CASE ExecutorReturns
    BY <2>6, <1>0, <1>00, CursorIsNode, LifecycleAssumption
    DEF ExecutorReturns, Step, evidence, Typed, TypeOK, CursorInFlow
  <2>7. CASE ExecutorRaises
    BY <2>7, <1>0, <1>00, CursorIsNode, LifecycleAssumption
    DEF ExecutorRaises, Step, evidence, Typed, TypeOK, CursorInFlow
  <2>8. CASE ExecutorCancelled
    BY <2>8, <1>0, <1>00, CursorIsNode, LifecycleAssumption
    DEF ExecutorCancelled, Step, evidence, Typed, TypeOK, CursorInFlow
  <2>9. CASE CancelledAtSection("result")
    BY <2>9, <1>0, <1>00, CursorIsNode, LifecycleAssumption
    DEF CancelledAtSection, Step, evidence, Typed, TypeOK, CursorInFlow
  <2>10. CASE MalformedResult
    BY <2>10, <1>0, <1>00, CursorIsNode, LifecycleAssumption
    DEF MalformedResult, Step, evidence, Typed, TypeOK, CursorInFlow
  <2>11. CASE AcceptResult
    BY <2>11, <1>0, <1>00, CursorIsNode, LifecycleAssumption
    DEF AcceptResult, Step, evidence, Typed, TypeOK, CursorInFlow
  <2>12. CASE RecordContext
    BY <2>12, <1>0, <1>00, CursorIsNode, LifecycleAssumption
    DEF RecordContext, Step, evidence, Typed, TypeOK, CursorInFlow
  <2>13. CASE EvaluationPassed
    BY <2>13, <1>0, <1>00, CursorIsNode, LifecycleAssumption
    DEF EvaluationPassed, Journal, Step, evidence, Typed, TypeOK, CursorInFlow
  <2>14. CASE ResultAccepted
    BY <2>14, <1>0, <1>00, CursorIsNode, LifecycleAssumption
    DEF ResultAccepted, Journal, Step, evidence, Typed, TypeOK, CursorInFlow
  <2>15. CASE MakeDirectory
    BY <2>15, <1>0, <1>00, CursorIsNode, LifecycleAssumption
    DEF MakeDirectory, Step, evidence, Typed, TypeOK, CursorInFlow
  <2>16. CASE RecordArtifact
    BY <2>16, <1>0, <1>00, CursorIsNode, LifecycleAssumption
    DEF RecordArtifact, Step, evidence, Typed, TypeOK, CursorInFlow
  <2>17. CASE ArtifactCreated
    BY <2>17, <1>0, <1>00, CursorIsNode, LifecycleAssumption
    DEF ArtifactCreated, Journal, Step, evidence, Typed, TypeOK, CursorInFlow
  <2>18. CASE NodeSucceeded
    BY <2>18, <1>0, <1>00, CursorIsNode, LifecycleAssumption
    DEF NodeSucceeded, Step, evidence, Typed, TypeOK, CursorInFlow
  <2>19. CASE RejectResult
    BY <2>19, <1>0, <1>00, CursorIsNode, LifecycleAssumption
    DEF RejectResult, Step, evidence, Typed, TypeOK, CursorInFlow
  <2>20. CASE RejectAccepted
    BY <2>20, <1>0, <1>00, CursorIsNode, LifecycleAssumption
    DEF RejectAccepted, Journal, Step, evidence, Typed, TypeOK, CursorInFlow
  <2>21. CASE EvaluationRejected
    BY <2>21, <1>0, <1>00, CursorIsNode, LifecycleAssumption
    DEF EvaluationRejected, Journal, Step, evidence, Typed, TypeOK, CursorInFlow
  <2>22. CASE NodeFailed
    BY <2>22, <1>0, <1>00, CursorIsNode, LifecycleAssumption
    DEF NodeFailed, Journal, Step, evidence, Typed, TypeOK, CursorInFlow
  <2>23. CASE RunFailed
    BY <2>23, <1>0, <1>00, CursorIsNode, LifecycleAssumption
    DEF RunFailed, Journal, Step, evidence, Typed, TypeOK, CursorInFlow
  <2>24. CASE FinishRejected
    BY <2>24, <1>0, <1>00, CursorIsNode, LifecycleAssumption
    DEF FinishRejected, Finish, Finishable, Step, evidence, Typed, TypeOK,
        CursorInFlow
  <2>25. CASE RunSucceeded
    BY <2>25, <1>0, <1>00, CursorIsNode, LifecycleAssumption
    DEF RunSucceeded, Journal, Step, evidence, Typed, TypeOK, CursorInFlow
  <2>26. CASE FinishSucceeded
    BY <2>26, <1>0, <1>00, CursorIsNode, LifecycleAssumption
    DEF FinishSucceeded, Finish, Finishable, Step, evidence, Typed, TypeOK,
        CursorInFlow
  <2>27. QED
    BY <1>2, <2>1, <2>2, <2>3, <2>4, <2>5, <2>6, <2>7, <2>8, <2>9, <2>10, <2>11,
       <2>12, <2>13, <2>14, <2>15, <2>16, <2>17, <2>18, <2>19, <2>20, <2>21, <2>22,
       <2>23, <2>24, <2>25, <2>26
    DEF Execute
<1>3. CASE Ending
  <2>1. worker' \notin Admission \cup TryLocked \cup TryFree
    BY <1>3, HandlerMoves DEF Admission
  <2>2. UNCHANGED <<start, metadata>>
    BY <1>3, EndingCarries
  <2>3. \A n \in Nodes : nodes'[n] = nodes[n]
                       \/ (nodes[n] = "running" /\ nodes'[n] \in {"cancelled", "failed"})
    BY <1>3, <1>00, EndingLeaves DEF SettleRunning
  <2>4. QED
    BY <2>1, <2>2, <2>3 DEF Admission
<1>4. CASE Others
  <2>1. UNCHANGED <<start, metadata, cursor, worker>>
    BY <1>4, OthersCarry
  <2>2. \A n \in Nodes : nodes'[n] = nodes[n]
                       \/ (nodes[n] = "running" /\ nodes'[n] = "failed")
    BY <1>0, <1>4, <1>00, OthersSettle DEF SettleRunning
  <2>3. QED
    BY <2>1, <2>2
<1>5. QED
  BY <1>1, <1>2, <1>3, <1>4, StepKinds

\* Only the current Node publishes, after it succeeded.
LEMMA PublishedStep ==
  ASSUME Inv, RowsInOrder, Published, [Next]_vars
  PROVE  Published'
<1>0. Typed /\ Control /\ InFlowOrder /\ cursor \in Nat
  BY DEF Inv, Progress, Typed, TypeOK
<1>00. nodes \in [Nodes -> NodeStatus] /\ Nodes \subseteq Nat
      /\ artifacts \subseteq Nodes /\ EvaluationNodes \subseteq Nodes
  BY LifecycleAssumption DEF Inv, Typed, TypeOK, Nodes
<1> USE DEF Published, RowsInOrder, Unstarted, MayRun, AfterAccept, AtNode, Accepted,
            TryLocked, TryFree, HandlerLocked, HandlerFree, Finally
<1>1. ASSUME Admit PROVE Published'
  <2>1. CASE StartRun
    BY <2>1, <1>0, <1>00, CursorIsNode DEF StartRun, Step, evidence
  <2>2. CASE RunCreated
    BY <2>2, <1>0, <1>00, CursorIsNode DEF RunCreated, Journal, Step, evidence
  <2>3. CASE RunEffects
    BY <2>3, <1>0, <1>00, CursorIsNode DEF RunEffects, Journal, Step, evidence
  <2>4. CASE RunForked
    BY <2>4, <1>0, <1>00, CursorIsNode DEF RunForked, Journal, Step, evidence
  <2>5. CASE ReuseNode
    BY <2>5, <1>0, <1>00, CursorIsNode DEF ReuseNode, Step, evidence
  <2>6. CASE ReuseContext
    BY <2>6, <1>0, <1>00, CursorIsNode DEF ReuseContext, Step, evidence
  <2>7. CASE NodeReused
    BY <2>7, <1>0, <1>00, CursorIsNode DEF NodeReused, Step, evidence
  <2>8. CASE WriteMetadata
    BY <2>8, <1>0, <1>00, CursorIsNode DEF WriteMetadata, Step, evidence
  <2>9. CASE StartThread
    BY <2>9, <1>0, <1>00, CursorIsNode DEF StartThread, Step, evidence
  <2>10. QED
    BY <1>1, <2>1, <2>2, <2>3, <2>4, <2>5, <2>6, <2>7, <2>8, <2>9 DEF Admit
<1>2. ASSUME Execute PROVE Published'
  <2>1. CASE ResolveFails
    BY <2>1, <1>0, <1>00, CursorIsNode DEF ResolveFails, Step, evidence
  <2>2. CASE CancelledAtSection("next")
    BY <2>2, <1>0, <1>00, CursorIsNode DEF CancelledAtSection, Step, evidence
  <2>3. CASE NodeReady
    BY <2>3, <1>0, <1>00, CursorIsNode DEF NodeReady, Journal, Step, evidence
  <2>4. CASE StartNode
    BY <2>4, <1>0, <1>00, CursorIsNode DEF StartNode, Step, evidence
  <2>5. CASE ExecutorStarted
    BY <2>5, <1>0, <1>00, CursorIsNode DEF ExecutorStarted, Journal, Step, evidence
  <2>6. CASE ExecutorReturns
    BY <2>6, <1>0, <1>00, CursorIsNode DEF ExecutorReturns, Step, evidence
  <2>7. CASE ExecutorRaises
    BY <2>7, <1>0, <1>00, CursorIsNode DEF ExecutorRaises, Step, evidence
  <2>8. CASE ExecutorCancelled
    BY <2>8, <1>0, <1>00, CursorIsNode DEF ExecutorCancelled, Step, evidence
  <2>9. CASE CancelledAtSection("result")
    BY <2>9, <1>0, <1>00, CursorIsNode DEF CancelledAtSection, Step, evidence
  <2>10. CASE MalformedResult
    BY <2>10, <1>0, <1>00, CursorIsNode DEF MalformedResult, Step, evidence
  <2>11. CASE AcceptResult
    BY <2>11, <1>0, <1>00, CursorIsNode DEF AcceptResult, Step, evidence
  <2>12. CASE RecordContext
    BY <2>12, <1>0, <1>00, CursorIsNode DEF RecordContext, Step, evidence
  <2>13. CASE EvaluationPassed
    BY <2>13, <1>0, <1>00, CursorIsNode DEF EvaluationPassed, Journal, Step, evidence
  <2>14. CASE ResultAccepted
    BY <2>14, <1>0, <1>00, CursorIsNode DEF ResultAccepted, Journal, Step, evidence
  <2>15. CASE MakeDirectory
    BY <2>15, <1>0, <1>00, CursorIsNode DEF MakeDirectory, Step, evidence
  <2>16. CASE RecordArtifact
    BY <2>16, <1>0, <1>00, CursorIsNode DEF RecordArtifact, Step, evidence
  <2>17. CASE ArtifactCreated
    BY <2>17, <1>0, <1>00, CursorIsNode DEF ArtifactCreated, Journal, Step, evidence
  <2>18. CASE NodeSucceeded
    BY <2>18, <1>0, <1>00, CursorIsNode DEF NodeSucceeded, Step, evidence
  <2>19. CASE RejectResult
    BY <2>19, <1>0, <1>00, CursorIsNode DEF RejectResult, Step, evidence
  <2>20. CASE RejectAccepted
    BY <2>20, <1>0, <1>00, CursorIsNode DEF RejectAccepted, Journal, Step, evidence
  <2>21. CASE EvaluationRejected
    BY <2>21, <1>0, <1>00, CursorIsNode DEF EvaluationRejected, Journal, Step, evidence
  <2>22. CASE NodeFailed
    BY <2>22, <1>0, <1>00, CursorIsNode DEF NodeFailed, Journal, Step, evidence
  <2>23. CASE RunFailed
    BY <2>23, <1>0, <1>00, CursorIsNode DEF RunFailed, Journal, Step, evidence
  <2>24. CASE FinishRejected
    BY <2>24, <1>0, <1>00, CursorIsNode
    DEF FinishRejected, Finish, Finishable, Step, evidence
  <2>25. CASE RunSucceeded
    BY <2>25, <1>0, <1>00, CursorIsNode DEF RunSucceeded, Journal, Step, evidence
  <2>26. CASE FinishSucceeded
    BY <2>26, <1>0, <1>00, CursorIsNode
    DEF FinishSucceeded, Finish, Finishable, Step, evidence
  <2>27. QED
    BY <1>2, <2>1, <2>2, <2>3, <2>4, <2>5, <2>6, <2>7, <2>8, <2>9, <2>10, <2>11,
       <2>12, <2>13, <2>14, <2>15, <2>16, <2>17, <2>18, <2>19, <2>20, <2>21, <2>22,
       <2>23, <2>24, <2>25, <2>26
    DEF Execute
<1>3. CASE Ending
  BY <1>3, <1>0, <1>00, HandlerMoves, EndingLeaves, EndingCarries DEF SettleRunning
<1>4. CASE Others
  BY <1>4, <1>0, <1>00, OthersSettle, OthersCarry DEF SettleRunning
<1>5. QED
  BY <1>1, <1>2, <1>3, <1>4, StepKinds

-----------------------------------------------------------------------------
(* What the journal says.                                                  *)

\* One more event says one thing more.
LEMMA AppendAbouts ==
  ASSUME TypeOK, NEW t, NEW a, Record(t, a)
  PROVE  \A u : Abouts(journal', u) = Abouts(journal, u) \cup (IF u = t THEN {a} ELSE {})
<1> DEFINE e == [type |-> t, about |-> a]
<1>1. journal' = Append(journal, e) /\ e.type = t /\ e.about = a
  BY DEF Record
<1>2. /\ Len(journal) \in Nat /\ DOMAIN journal = 1..Len(journal)
      /\ DOMAIN journal' = 1..(Len(journal) + 1)
      /\ journal'[Len(journal) + 1] = e
      /\ \A i \in DOMAIN journal : journal'[i] = journal[i]
  <2> HIDE DEF e
  <2> QED BY <1>1 DEF TypeOK
<1> HIDE DEF e
<1> SUFFICES ASSUME NEW u
             PROVE  Abouts(journal', u) = Abouts(journal, u) \cup (IF u = t THEN {a} ELSE {})
  OBVIOUS
<1>3. {i \in DOMAIN journal' : journal'[i].type = u}
        = {i \in DOMAIN journal : journal[i].type = u}
          \cup (IF u = t THEN {Len(journal) + 1} ELSE {})
  BY <1>1, <1>2
<1>4. QED
  BY <1>1, <1>2, <1>3 DEF Abouts

\* Nothing new is said of rejections and Artifacts.
Silent == UNCHANGED <<Rejections, Publications>>

\* An event of another type says nothing of either.
LEMMA RecordsOther ==
  ASSUME TypeOK, NEW t, t \notin {"evaluation.rejected", "artifact.created"}, NEW a,
         Record(t, a)
  PROVE  Silent
BY AppendAbouts DEF Silent, Rejections, Publications

\* Nor do the events of an interruption.
LEMMA ConcatSilent ==
  ASSUME NEW j \in Seq(Event), NEW x \in Seq(Event),
         NEW u, \A i \in DOMAIN x : x[i].type # u
  PROVE  Abouts(j \o x, u) = Abouts(j, u)
<1>1. /\ Len(j) \in Nat /\ DOMAIN j = 1..Len(j)
      /\ Len(x) \in Nat /\ DOMAIN x = 1..Len(x)
      /\ DOMAIN (j \o x) = 1..(Len(j) + Len(x))
      /\ \A i \in DOMAIN j : (j \o x)[i] = j[i]
      /\ \A i \in DOMAIN (j \o x) \ DOMAIN j : (j \o x)[i] = x[i - Len(j)]
  OBVIOUS
<1>2. ASSUME NEW i \in DOMAIN (j \o x) \ DOMAIN j PROVE (j \o x)[i].type # u
  <2>1. i - Len(j) \in DOMAIN x
    BY <1>1
  <2>2. QED
    BY <1>1, <2>1
<1>3. {i \in DOMAIN (j \o x) : (j \o x)[i].type = u} = {i \in DOMAIN j : j[i].type = u}
  BY <1>1, <1>2
<1>4. QED
  BY <1>1, <1>3 DEF Abouts

\* mark_interrupted says nothing of rejections and Artifacts.
LEMMA InterruptionSilent == ASSUME TypeOK, MarkInterrupted PROVE Silent
<1>1. CASE status \notin ActiveRun
  BY <1>1 DEF MarkInterrupted, Silent, Rejections, Publications
<1>2. CASE status \in ActiveRun
  <2> DEFINE f == [type |-> "node.failed", about |-> RunningNodes]
             a == [type |-> "run.interrupted", about |-> {}]
             b == [type |-> "run.failed", about |-> {}]
             x == IF RunningNodes = {} THEN <<>> ELSE <<f>>
             y == <<a, b>>
  <2>1. f \in Event /\ a \in Event /\ b \in Event
    BY StoreTypes, EventTypes DEF RunEvents, NodeEvents
  <2> SUFFICES ASSUME NEW u \in {"evaluation.rejected", "artifact.created"}
               PROVE  Abouts(journal', u) = Abouts(journal, u)
    BY DEF Silent, Rejections, Publications
  <2>2. f.type # u /\ a.type # u /\ b.type # u
    OBVIOUS
  <2>3. journal' = (journal \o x) \o y
    BY <1>2 DEF MarkInterrupted
  <2> HIDE DEF f, a, b
  <2>4. /\ x \in Seq(Event) /\ \A i \in DOMAIN x : x[i].type # u
        /\ y \in Seq(Event) /\ \A i \in DOMAIN y : y[i].type # u
    BY <2>1, <2>2
  <2> HIDE DEF x, y
  <2>5. journal \in Seq(Event) /\ journal \o x \in Seq(Event)
    BY <2>4 DEF TypeOK
  <2>6. Abouts((journal \o x) \o y, u) = Abouts(journal \o x, u)
    BY <2>4, <2>5, ConcatSilent
  <2>7. Abouts(journal \o x, u) = Abouts(journal, u)
    BY <2>4, <2>5, ConcatSilent
  <2>8. QED
    BY <2>3, <2>6, <2>7
<1>3. QED
  BY <1>1, <1>2

\* A rejection and an Artifact are announced by one step each.
Says ==
  /\ \/ UNCHANGED Rejections
     \/ /\ worker = "rejected" /\ worker' = "node_failed"
        /\ Rejections' = Rejections \cup {{cursor}}
  /\ \/ UNCHANGED Publications
     \/ /\ worker = "artifact_event" /\ worker' = "node_succeeded"
        /\ Publications' = Publications \cup {{cursor}}

\* A step that says nothing of either is one that Says allows.
LEMMA SilentSays == ASSUME Silent PROVE Says
BY DEF Silent, Says

\* All other steps are silent.
LEMMA StepSays ==
  ASSUME Inv, [Next]_vars
  PROVE  Says
<1>0. TypeOK /\ Control
  BY DEF Inv, Typed
<1>1. ASSUME Admit PROVE Says
  <2>1. CASE StartRun
    BY <1>0, <2>1, SilentSays DEF StartRun, evidence, Silent, Rejections, Publications
  <2>2. CASE RunCreated
    BY <1>0, <2>2, SilentSays, RecordsOther DEF RunCreated, Journal
  <2>3. CASE RunEffects
    BY <1>0, <2>3, SilentSays, RecordsOther DEF RunEffects, Journal
  <2>4. CASE RunForked
    BY <1>0, <2>4, SilentSays, RecordsOther DEF RunForked, Journal
  <2>5. CASE ReuseNode
    BY <1>0, <2>5, SilentSays DEF ReuseNode, evidence, Silent, Rejections, Publications
  <2>6. CASE ReuseContext
    BY <1>0, <2>6, SilentSays DEF ReuseContext, evidence, Silent, Rejections, Publications
  <2>7. CASE NodeReused
    BY <1>0, <2>7, SilentSays, RecordsOther DEF NodeReused
  <2>8. CASE WriteMetadata
    BY <1>0, <2>8, SilentSays
    DEF WriteMetadata, evidence, Silent, Rejections, Publications
  <2>9. CASE StartThread
    BY <1>0, <2>9, SilentSays DEF StartThread, evidence, Silent, Rejections, Publications
  <2>10. QED
    BY <1>1, <2>1, <2>2, <2>3, <2>4, <2>5, <2>6, <2>7, <2>8, <2>9 DEF Admit
<1>2. ASSUME Execute PROVE Says
  <2>1. CASE ResolveFails
    BY <1>0, <2>1, SilentSays DEF ResolveFails, evidence, Silent, Rejections, Publications
  <2>2. CASE CancelledAtSection("next")
    BY <1>0, <2>2, SilentSays
    DEF CancelledAtSection, evidence, Silent, Rejections, Publications
  <2>3. CASE NodeReady
    BY <1>0, <2>3, SilentSays, RecordsOther DEF NodeReady, Journal
  <2>4. CASE StartNode
    BY <1>0, <2>4, SilentSays DEF StartNode, evidence, Silent, Rejections, Publications
  <2>5. CASE ExecutorStarted
    BY <1>0, <2>5, SilentSays, RecordsOther DEF ExecutorStarted, Journal
  <2>6. CASE ExecutorReturns
    BY <1>0, <2>6, SilentSays
    DEF ExecutorReturns, evidence, Silent, Rejections, Publications
  <2>7. CASE ExecutorRaises
    BY <1>0, <2>7, SilentSays
    DEF ExecutorRaises, evidence, Silent, Rejections, Publications
  <2>8. CASE ExecutorCancelled
    BY <1>0, <2>8, SilentSays
    DEF ExecutorCancelled, evidence, Silent, Rejections, Publications
  <2>9. CASE CancelledAtSection("result")
    BY <1>0, <2>9, SilentSays
    DEF CancelledAtSection, evidence, Silent, Rejections, Publications
  <2>10. CASE MalformedResult
    BY <1>0, <2>10, SilentSays
    DEF MalformedResult, evidence, Silent, Rejections, Publications
  <2>11. CASE AcceptResult
    BY <1>0, <2>11, SilentSays DEF AcceptResult, evidence, Silent, Rejections, Publications
  <2>12. CASE RecordContext
    BY <1>0, <2>12, SilentSays
    DEF RecordContext, evidence, Silent, Rejections, Publications
  <2>13. CASE EvaluationPassed
    BY <1>0, <2>13, SilentSays, RecordsOther DEF EvaluationPassed, Journal
  <2>14. CASE ResultAccepted
    BY <1>0, <2>14, SilentSays, RecordsOther DEF ResultAccepted, Journal
  <2>15. CASE MakeDirectory
    BY <1>0, <2>15, SilentSays
    DEF MakeDirectory, evidence, Silent, Rejections, Publications
  <2>16. CASE RecordArtifact
    BY <1>0, <2>16, SilentSays
    DEF RecordArtifact, evidence, Silent, Rejections, Publications
  <2>17. CASE ArtifactCreated
    <3>1. /\ worker = "artifact_event" /\ worker' = "node_succeeded"
          /\ Record("artifact.created", {cursor})
      BY <2>17 DEF ArtifactCreated, Journal, Step
    <3>2. \A u : Abouts(journal', u)
                   = Abouts(journal, u) \cup (IF u = "artifact.created" THEN {{cursor}} ELSE {})
      BY <1>0, <3>1, AppendAbouts
    <3>3. Rejections' = Rejections /\ Publications' = Publications \cup {{cursor}}
      BY <3>2 DEF Rejections, Publications
    <3>4. QED
      BY <3>1, <3>3 DEF Says
  <2>18. CASE NodeSucceeded
    BY <1>0, <2>18, SilentSays, RecordsOther DEF NodeSucceeded
  <2>19. CASE RejectResult
    BY <1>0, <2>19, SilentSays DEF RejectResult, evidence, Silent, Rejections, Publications
  <2>20. CASE RejectAccepted
    BY <1>0, <2>20, SilentSays, RecordsOther DEF RejectAccepted, Journal
  <2>21. CASE EvaluationRejected
    <3>1. /\ worker = "rejected" /\ worker' = "node_failed"
          /\ Record("evaluation.rejected", {cursor})
      BY <2>21 DEF EvaluationRejected, Journal, Step
    <3>2. \A u : Abouts(journal', u)
                   = Abouts(journal, u) \cup (IF u = "evaluation.rejected" THEN {{cursor}} ELSE {})
      BY <1>0, <3>1, AppendAbouts
    <3>3. Publications' = Publications /\ Rejections' = Rejections \cup {{cursor}}
      BY <3>2 DEF Rejections, Publications
    <3>4. QED
      BY <3>1, <3>3 DEF Says
  <2>22. CASE NodeFailed
    BY <1>0, <2>22, SilentSays, RecordsOther DEF NodeFailed, Journal
  <2>23. CASE RunFailed
    BY <1>0, <2>23, SilentSays, RecordsOther DEF RunFailed, Journal
  <2>24. CASE FinishRejected
    BY <1>0, <2>24, SilentSays
    DEF FinishRejected, Finish, evidence, Silent, Rejections, Publications
  <2>25. CASE RunSucceeded
    BY <1>0, <2>25, SilentSays, RecordsOther DEF RunSucceeded, Journal
  <2>26. CASE FinishSucceeded
    BY <1>0, <2>26, SilentSays
    DEF FinishSucceeded, Finish, evidence, Silent, Rejections, Publications
  <2>27. QED
    BY <1>2, <2>1, <2>2, <2>3, <2>4, <2>5, <2>6, <2>7, <2>8, <2>9, <2>10, <2>11,
       <2>12, <2>13, <2>14, <2>15, <2>16, <2>17, <2>18, <2>19, <2>20, <2>21, <2>22,
       <2>23, <2>24, <2>25, <2>26
    DEF Execute
<1>3. ASSUME Handle PROVE Says
  <2>1. CASE HandleCancelled
    BY <1>0, <2>1, SilentSays, RecordsOther
    DEF HandleCancelled, BeginFinishCancelled, StoreRequestCancel, Silent, Rejections,
        Publications
  <2>2. CASE HandleFailureOfCancelled
    BY <1>0, <2>2, SilentSays, RecordsOther
    DEF HandleFailureOfCancelled, BeginFinishCancelled, StoreRequestCancel, Silent,
        Rejections, Publications
  <2>3. CASE CancelRunningNodes
    BY <1>0, <2>3, SilentSays
    DEF CancelRunningNodes, evidence, Silent, Rejections, Publications
  <2>4. CASE NodesCancelled
    BY <1>0, <2>4, SilentSays, RecordsOther
    DEF NodesCancelled, Silent, Rejections, Publications
  <2>5. CASE RunCancelled
    BY <1>0, <2>5, SilentSays, RecordsOther DEF RunCancelled, Journal
  <2>6. CASE FinishCancelled
    BY <1>0, <2>6, SilentSays
    DEF FinishCancelled, Finish, evidence, Silent, Rejections, Publications
  <2>7. CASE HandleFailure
    BY <1>0, <2>7, SilentSays
    DEF HandleFailure, evidence, Silent, Rejections, Publications
  <2>8. CASE FailureRecorded
    BY <1>0, <2>8, SilentSays, RecordsOther DEF FailureRecorded, Journal
  <2>9. CASE FinishFailed
    BY <1>0, <2>9, SilentSays
    DEF FinishFailed, Finish, evidence, Silent, Rejections, Publications
  <2>10. CASE RewriteMetadata
    BY <1>0, <2>10, SilentSays
    DEF RewriteMetadata, evidence, Silent, Rejections, Publications
  <2>11. CASE ClearSlot
    BY <1>0, <2>11, SilentSays DEF ClearSlot, evidence, Silent, Rejections, Publications
  <2>12. QED
    BY <1>3, <2>1, <2>2, <2>3, <2>4, <2>5, <2>6, <2>7, <2>8, <2>9, <2>10, <2>11
    DEF Handle
<1>4. CASE OperationRaises \/ Crash
  BY <1>4, SilentSays
  DEF OperationRaises, Crash, evidence, Silent, Rejections, Publications
<1>5. CASE Others
  <2>1. \/ UNCHANGED <<status, nodes, journal>>
        \/ StoreRequestCancel
        \/ MarkInterrupted
    BY <1>0, <1>5, OtherMoves
  <2>2. CASE UNCHANGED <<status, nodes, journal>>
    BY <2>2, SilentSays DEF Silent, Rejections, Publications
  <2>3. CASE StoreRequestCancel
    BY <1>0, <2>3, RecordsOther, SilentSays
    DEF StoreRequestCancel, Silent, Rejections, Publications
  <2>4. CASE MarkInterrupted
    BY <1>0, <2>4, InterruptionSilent, SilentSays
  <2>5. QED
    BY <2>1, <2>2, <2>3, <2>4
<1>6. QED
  BY <1>1, <1>2, <1>3, <1>4, <1>5, StepKinds DEF Ending

\* Nothing follows a rejection.
LEMMA RejectedStep ==
  ASSUME Inv, RowsInOrder, RejectedOnce, [Next]_vars
  PROVE  RejectedOnce'
<1>0. Typed /\ Control /\ InFlowOrder /\ cursor \in Nat
  BY DEF Inv, Progress, Typed, TypeOK
<1>00. nodes \in [Nodes -> NodeStatus] /\ Nodes \subseteq Nat
      /\ artifacts \subseteq Nodes /\ EvaluationNodes \subseteq Nodes
  BY LifecycleAssumption DEF Inv, Typed, TypeOK, Nodes
<1> USE DEF Admission, RejectedOnce, Says, RowsInOrder, MayRun, AfterAccept, Unstarted,
            AtNode, Accepted, TryLocked, TryFree, HandlerLocked, HandlerFree, Finally
<1>1. ASSUME Admit PROVE RejectedOnce'
  <2>1. CASE StartRun
    BY <2>1, <1>0, <1>00, CursorIsNode, StepSays DEF StartRun, Step, evidence
  <2>2. CASE RunCreated
    BY <2>2, <1>0, <1>00, CursorIsNode, StepSays DEF RunCreated, Journal, Step, evidence
  <2>3. CASE RunEffects
    BY <2>3, <1>0, <1>00, CursorIsNode, StepSays DEF RunEffects, Journal, Step, evidence
  <2>4. CASE RunForked
    BY <2>4, <1>0, <1>00, CursorIsNode, StepSays DEF RunForked, Journal, Step, evidence
  <2>5. CASE ReuseNode
    BY <2>5, <1>0, <1>00, CursorIsNode, StepSays DEF ReuseNode, Step, evidence
  <2>6. CASE ReuseContext
    BY <2>6, <1>0, <1>00, CursorIsNode, StepSays DEF ReuseContext, Step, evidence
  <2>7. CASE NodeReused
    BY <2>7, <1>0, <1>00, CursorIsNode, StepSays DEF NodeReused, Step, evidence
  <2>8. CASE WriteMetadata
    BY <2>8, <1>0, <1>00, CursorIsNode, StepSays DEF WriteMetadata, Step, evidence
  <2>9. CASE StartThread
    BY <2>9, <1>0, <1>00, CursorIsNode, StepSays DEF StartThread, Step, evidence
  <2>10. QED
    BY <1>1, <2>1, <2>2, <2>3, <2>4, <2>5, <2>6, <2>7, <2>8, <2>9 DEF Admit
<1>2. ASSUME Execute PROVE RejectedOnce'
  <2>1. CASE ResolveFails
    BY <2>1, <1>0, <1>00, CursorIsNode, StepSays DEF ResolveFails, Step, evidence
  <2>2. CASE CancelledAtSection("next")
    BY <2>2, <1>0, <1>00, CursorIsNode, StepSays DEF CancelledAtSection, Step, evidence
  <2>3. CASE NodeReady
    BY <2>3, <1>0, <1>00, CursorIsNode, StepSays DEF NodeReady, Journal, Step, evidence
  <2>4. CASE StartNode
    BY <2>4, <1>0, <1>00, CursorIsNode, StepSays DEF StartNode, Step, evidence
  <2>5. CASE ExecutorStarted
    BY <2>5, <1>0, <1>00, CursorIsNode, StepSays
    DEF ExecutorStarted, Journal, Step, evidence
  <2>6. CASE ExecutorReturns
    BY <2>6, <1>0, <1>00, CursorIsNode, StepSays DEF ExecutorReturns, Step, evidence
  <2>7. CASE ExecutorRaises
    BY <2>7, <1>0, <1>00, CursorIsNode, StepSays DEF ExecutorRaises, Step, evidence
  <2>8. CASE ExecutorCancelled
    BY <2>8, <1>0, <1>00, CursorIsNode, StepSays DEF ExecutorCancelled, Step, evidence
  <2>9. CASE CancelledAtSection("result")
    BY <2>9, <1>0, <1>00, CursorIsNode, StepSays DEF CancelledAtSection, Step, evidence
  <2>10. CASE MalformedResult
    BY <2>10, <1>0, <1>00, CursorIsNode, StepSays DEF MalformedResult, Step, evidence
  <2>11. CASE AcceptResult
    BY <2>11, <1>0, <1>00, CursorIsNode, StepSays DEF AcceptResult, Step, evidence
  <2>12. CASE RecordContext
    BY <2>12, <1>0, <1>00, CursorIsNode, StepSays DEF RecordContext, Step, evidence
  <2>13. CASE EvaluationPassed
    BY <2>13, <1>0, <1>00, CursorIsNode, StepSays
    DEF EvaluationPassed, Journal, Step, evidence
  <2>14. CASE ResultAccepted
    BY <2>14, <1>0, <1>00, CursorIsNode, StepSays
    DEF ResultAccepted, Journal, Step, evidence
  <2>15. CASE MakeDirectory
    BY <2>15, <1>0, <1>00, CursorIsNode, StepSays DEF MakeDirectory, Step, evidence
  <2>16. CASE RecordArtifact
    BY <2>16, <1>0, <1>00, CursorIsNode, StepSays DEF RecordArtifact, Step, evidence
  <2>17. CASE ArtifactCreated
    BY <2>17, <1>0, <1>00, CursorIsNode, StepSays
    DEF ArtifactCreated, Journal, Step, evidence
  <2>18. CASE NodeSucceeded
    BY <2>18, <1>0, <1>00, CursorIsNode, StepSays DEF NodeSucceeded, Step, evidence
  <2>19. CASE RejectResult
    BY <2>19, <1>0, <1>00, CursorIsNode, StepSays DEF RejectResult, Step, evidence
  <2>20. CASE RejectAccepted
    BY <2>20, <1>0, <1>00, CursorIsNode, StepSays
    DEF RejectAccepted, Journal, Step, evidence
  <2>21. CASE EvaluationRejected
    BY <2>21, <1>0, <1>00, CursorIsNode, StepSays
    DEF EvaluationRejected, Journal, Step, evidence
  <2>22. CASE NodeFailed
    BY <2>22, <1>0, <1>00, CursorIsNode, StepSays DEF NodeFailed, Journal, Step, evidence
  <2>23. CASE RunFailed
    BY <2>23, <1>0, <1>00, CursorIsNode, StepSays DEF RunFailed, Journal, Step, evidence
  <2>24. CASE FinishRejected
    BY <2>24, <1>0, <1>00, CursorIsNode, StepSays
    DEF FinishRejected, Finish, Finishable, Step, evidence
  <2>25. CASE RunSucceeded
    BY <2>25, <1>0, <1>00, CursorIsNode, StepSays
    DEF RunSucceeded, Journal, Step, evidence
  <2>26. CASE FinishSucceeded
    BY <2>26, <1>0, <1>00, CursorIsNode, StepSays
    DEF FinishSucceeded, Finish, Finishable, Step, evidence
  <2>27. QED
    BY <1>2, <2>1, <2>2, <2>3, <2>4, <2>5, <2>6, <2>7, <2>8, <2>9, <2>10, <2>11,
       <2>12, <2>13, <2>14, <2>15, <2>16, <2>17, <2>18, <2>19, <2>20, <2>21, <2>22,
       <2>23, <2>24, <2>25, <2>26
    DEF Execute
<1>3. CASE Ending
  BY <1>3, <1>0, <1>00, StepSays, HandlerMoves, EndingLeaves, EndingCarries
  DEF SettleRunning
<1>4. CASE Others
  BY <1>4, <1>0, <1>00, StepSays, OthersSettle, OthersCarry DEF SettleRunning
<1>5. QED
  BY <1>1, <1>2, <1>3, <1>4, StepKinds

\* No step takes an Artifact back.
LEMMA ArtifactsGrow ==
  ASSUME Inv, [Next]_vars PROVE artifacts \subseteq artifacts'
<1>1. ASSUME Admit PROVE UNCHANGED artifacts
  BY <1>1
  DEF Admit, StartRun, RunCreated, RunEffects, RunForked, ReuseNode, ReuseContext,
      NodeReused, WriteMetadata, StartThread, Journal, evidence
<1>2. ASSUME Execute PROVE artifacts \subseteq artifacts'
  BY <1>2
  DEF Execute, ResolveFails, CancelledAtSection, NodeReady, StartNode,
      ExecutorStarted, ExecutorReturns, ExecutorRaises, ExecutorCancelled,
      MalformedResult, AcceptResult, RecordContext, EvaluationPassed, ResultAccepted,
      MakeDirectory, RecordArtifact, ArtifactCreated, NodeSucceeded, RejectResult,
      RejectAccepted, EvaluationRejected, NodeFailed, RunFailed, FinishRejected,
      RunSucceeded, FinishSucceeded, Journal, Finish, evidence
<1>3. QED
  BY <1>1, <1>2, StepKinds, EndingLeaves, OthersSettle DEF Inv

\* The event of an Artifact follows its row.
LEMMA AnnouncedLateStep ==
  ASSUME Inv, Published, AnnouncedLate, [Next]_vars
  PROVE  AnnouncedLate'
BY ArtifactsGrow, StepSays DEF Says, Published, AnnouncedLate

\* A Run that succeeded accepted every Node.
Complete == status = "succeeded" => AcceptedNodes = Nodes

\* finish_run succeeds only after the last Node, and then nothing is undone.
LEMMA CompleteStep == ASSUME Inv, Complete, [Next]_vars PROVE Complete'
<1>1. Visible
  BY StepKinds, AdmitVisible, ExecuteVisible, EndingVisible, OthersVisible
<1>2. QED
  BY <1>1, SameNodes DEF Visible, StatusMove, AcceptCurrent, Complete

\* What the tables say together; inductive beside Inv.
EvidenceInv ==
  /\ RowsInOrder /\ Seeded /\ Published
  /\ RejectedOnce /\ AnnouncedLate /\ Complete

\* An admission begins with empty tables.
LEMMA EvidenceInit == Init => EvidenceInv
<1> SUFFICES ASSUME Init PROVE EvidenceInv
  OBVIOUS
<1>1. RowsInOrder
  BY DEF Init, RowsInOrder, AfterAccept, MayRun
<1>2. Seeded
  BY LifecycleAssumption DEF Init, Seeded, TryLocked, TryFree
<1>3. Published
  BY DEF Init, Published, AfterAccept
<1>4. Rejections = {} /\ Publications = {}
  BY DEF Init, Rejections, Publications, Abouts
<1>5. RejectedOnce
  BY <1>4 DEF Init, RejectedOnce
<1>6. AnnouncedLate
  BY <1>4 DEF AnnouncedLate
<1>7. QED
  BY <1>1, <1>2, <1>3, <1>5, <1>6 DEF EvidenceInv, Init, Complete

\* Every step keeps the tables in agreement.
LEMMA EvidenceStep ==
  ASSUME Inv, EvidenceInv, [Next]_vars
  PROVE  EvidenceInv'
BY RowsStep, SeededStep, PublishedStep, RejectedStep, AnnouncedLateStep, CompleteStep
DEF EvidenceInv

\* The tables of a Run agree with each other, after every commit, fault and crash.
THEOREM EvidenceAgrees == Spec => []EvidenceInv
<1>1. Inv /\ EvidenceInv /\ [Next]_vars => EvidenceInv'
  BY EvidenceStep
<1>2. QED
  BY <1>1, EvidenceInit, Invariance, PTL DEF Spec

\* After EVALUATION_REJECTED the Run does not succeed and nothing later begins:
\* reject_node and the seven commits that follow it, and every handler that may
\* take over between two of them.
THEOREM RejectionIsFinal == Spec => []RejectionStops
<1>1. ASSUME Inv, EvidenceInv PROVE RejectionStops
  <2> SUFFICES ASSUME NEW i \in DOMAIN journal, journal[i].type = "evaluation.rejected"
               PROVE  /\ status # "succeeded"
                      /\ \A n \in journal[i].about :
                           /\ nodes[n] = "failed"
                           /\ \A m \in Nodes : m > n => nodes[m] = "absent" /\ m \notin artifacts
                           /\ \A k \in DOMAIN context : context[k] < n
    BY DEF RejectionStops
  <2>1. journal[i].about \in Rejections
    BY DEF Rejections, Abouts
  <2>2. PICK n \in EvaluationNodes : journal[i].about = {n} /\ nodes[n] = "failed"
    BY <1>1, <2>1 DEF EvidenceInv, RejectedOnce
  <2>3. n \in Nodes /\ n \notin AcceptedNodes /\ Nodes \subseteq Nat
    BY <2>2, LifecycleAssumption DEF Nodes, AcceptedNodes, Accepted
  <2>4. status # "succeeded"
    BY <1>1, <2>3 DEF EvidenceInv, Complete
  <2>5. \A m \in Nodes : m > n => nodes[m] = "absent"
    BY <1>1, <2>2, <2>3 DEF EvidenceInv, RowsInOrder, Accepted
  <2>6. \A m \in Nodes : m > n => m \notin artifacts
    BY <1>1, <2>5 DEF EvidenceInv, Published
  <2>7. \A k \in DOMAIN context : context[k] < n
    <3>1. \A k \in DOMAIN context : context[k] = k /\ nodes[k] \in Accepted /\ k \in Nodes
      BY <1>1 DEF Inv, Progress, ContextInStep, ContextFollowsNodes, Typed, TypeOK
    <3>2. \A k \in Nodes : nodes[k] \in Accepted => ~(k > n) /\ k # n
      BY <2>2, <2>5 DEF Accepted
    <3>3. \A k \in Nodes : nodes[k] \in Accepted => k < n
      BY <2>3, <3>2
    <3>4. QED
      BY <3>1, <3>3
  <2>8. QED
    BY <2>2, <2>4, <2>5, <2>6, <2>7
<1>2. QED
  BY <1>1, Invariance, EvidenceAgrees, PTL

-----------------------------------------------------------------------------
(* What a reader may rely on between two reads.                            *)

\* A row is written, ends, and is left alone.
RowMove(n) ==
  \/ nodes'[n] = nodes[n]
  \/ nodes[n] = "absent" /\ nodes'[n] \in {"running", "reused"}
  \/ nodes[n] = "running" /\ nodes'[n] \in {"succeeded", "failed", "cancelled"}

\* No step rewrites a row that ended.
LEMMA RowsMove ==
  ASSUME Inv, RowsInOrder, [Next]_vars
  PROVE  \A n \in Nodes : RowMove(n)
<1>0. nodes \in [Nodes -> NodeStatus]
  BY DEF Inv, Typed, TypeOK
<1>1. ASSUME Admit PROVE \A n \in Nodes : RowMove(n)
  <2>1. CASE StartRun
    BY <2>1 DEF StartRun, evidence, RowMove
  <2>2. CASE RunCreated
    BY <2>2 DEF RunCreated, Journal, evidence, RowMove
  <2>3. CASE RunEffects
    BY <2>3 DEF RunEffects, Journal, evidence, RowMove
  <2>4. CASE RunForked
    BY <2>4 DEF RunForked, Journal, evidence, RowMove
  <2>5. CASE ReuseNode
    BY <1>0, <2>5, CursorIsNode
    DEF ReuseNode, Step, RowsInOrder, Inv, Typed, TypeOK, AtNode, TryLocked, RowMove,
        Unstarted
  <2>6. CASE ReuseContext
    BY <2>6 DEF ReuseContext, evidence, RowMove
  <2>7. CASE NodeReused
    BY <2>7 DEF NodeReused, evidence, RowMove
  <2>8. CASE WriteMetadata
    BY <2>8 DEF WriteMetadata, evidence, RowMove
  <2>9. CASE StartThread
    BY <2>9 DEF StartThread, evidence, RowMove
  <2>10. QED
    BY <1>1, <2>1, <2>2, <2>3, <2>4, <2>5, <2>6, <2>7, <2>8, <2>9 DEF Admit
<1>2. ASSUME Execute PROVE \A n \in Nodes : RowMove(n)
  <2>1. CASE ResolveFails
    BY <2>1 DEF ResolveFails, evidence, RowMove
  <2>2. CASE CancelledAtSection("next")
    BY <2>2 DEF CancelledAtSection, evidence, RowMove
  <2>3. CASE NodeReady
    BY <2>3 DEF NodeReady, Journal, evidence, RowMove
  <2>4. CASE StartNode
    BY <1>0, <2>4, CursorIsNode
    DEF StartNode, Step, RowsInOrder, Inv, Typed, TypeOK, AtNode, TryLocked, RowMove,
        Unstarted
  <2>5. CASE ExecutorStarted
    BY <2>5 DEF ExecutorStarted, Journal, evidence, RowMove
  <2>6. CASE ExecutorReturns
    BY <2>6 DEF ExecutorReturns, evidence, RowMove
  <2>7. CASE ExecutorRaises
    BY <2>7 DEF ExecutorRaises, evidence, RowMove
  <2>8. CASE ExecutorCancelled
    BY <2>8 DEF ExecutorCancelled, evidence, RowMove
  <2>9. CASE CancelledAtSection("result")
    BY <2>9 DEF CancelledAtSection, evidence, RowMove
  <2>10. CASE MalformedResult
    BY <2>10 DEF MalformedResult, evidence, RowMove
  <2>11. CASE AcceptResult
    BY <1>0, <2>11, CursorIsNode
    DEF AcceptResult, Step, RowsInOrder, Inv, Typed, TypeOK, AtNode, TryLocked,
        RowMove, MayRun
  <2>12. CASE RecordContext
    BY <2>12 DEF RecordContext, evidence, RowMove
  <2>13. CASE EvaluationPassed
    BY <2>13 DEF EvaluationPassed, Journal, evidence, RowMove
  <2>14. CASE ResultAccepted
    BY <2>14 DEF ResultAccepted, Journal, evidence, RowMove
  <2>15. CASE MakeDirectory
    BY <2>15 DEF MakeDirectory, evidence, RowMove
  <2>16. CASE RecordArtifact
    BY <2>16 DEF RecordArtifact, evidence, RowMove
  <2>17. CASE ArtifactCreated
    BY <2>17 DEF ArtifactCreated, Journal, evidence, RowMove
  <2>18. CASE NodeSucceeded
    BY <2>18 DEF NodeSucceeded, evidence, RowMove
  <2>19. CASE RejectResult
    BY <1>0, <2>19, CursorIsNode
    DEF RejectResult, Step, RowsInOrder, Inv, Typed, TypeOK, AtNode, TryLocked,
        RowMove, MayRun
  <2>20. CASE RejectAccepted
    BY <2>20 DEF RejectAccepted, Journal, evidence, RowMove
  <2>21. CASE EvaluationRejected
    BY <2>21 DEF EvaluationRejected, Journal, evidence, RowMove
  <2>22. CASE NodeFailed
    BY <2>22 DEF NodeFailed, Journal, evidence, RowMove
  <2>23. CASE RunFailed
    BY <2>23 DEF RunFailed, Journal, evidence, RowMove
  <2>24. CASE FinishRejected
    BY <2>24 DEF FinishRejected, Finish, evidence, RowMove
  <2>25. CASE RunSucceeded
    BY <2>25 DEF RunSucceeded, Journal, evidence, RowMove
  <2>26. CASE FinishSucceeded
    BY <2>26 DEF FinishSucceeded, Finish, evidence, RowMove
  <2>27. QED
    BY <1>2, <2>1, <2>2, <2>3, <2>4, <2>5, <2>6, <2>7, <2>8, <2>9, <2>10, <2>11,
       <2>12, <2>13, <2>14, <2>15, <2>16, <2>17, <2>18, <2>19, <2>20, <2>21, <2>22,
       <2>23, <2>24, <2>25, <2>26
    DEF Execute
<1>3. CASE Ending
  BY <1>0, <1>3, EndingLeaves DEF SettleRunning, RowMove
<1>4. CASE Others
  BY <1>0, <1>4, OthersSettle DEF SettleRunning, RowMove, Inv
<1>5. QED
  BY <1>1, <1>2, <1>3, <1>4, StepKinds

\* What was read of a Run stays so from a cancellation on, and what is terminal
\* stays as it is.
Advance ==
  /\ status \in TerminalRun => UNCHANGED evidence
  /\ status = "cancel_requested" =>
       status' \in {"cancel_requested", "cancelled", "failed"} /\ UNCHANGED artifacts
  /\ status \in {"cancel_requested"} \cup TerminalRun => Same
  /\ \A n \in Nodes : RowMove(n)
  /\ artifacts \subseteq artifacts'
  /\ Rejections \subseteq Rejections'

\* Every step of the Run is such an advance.
LEMMA Advances ==
  ASSUME Inv, EvidenceInv, [Next]_vars PROVE Advance
<1>1. status \in TerminalRun => UNCHANGED evidence
  BY TerminalStays
<1>2. Visible
  BY StepKinds, AdmitVisible, ExecuteVisible, EndingVisible, OthersVisible
<1>3. status = "cancel_requested" => UNCHANGED artifacts
  BY CancelledKeeps DEF Kept
<1>4. \A n \in Nodes : RowMove(n)
  BY RowsMove DEF EvidenceInv
<1>5. artifacts \subseteq artifacts' /\ Rejections \subseteq Rejections'
  BY ArtifactsGrow, StepSays DEF Says
<1>6. QED
  BY <1>1, <1>2, <1>3, <1>4, <1>5
  DEF Advance, Visible, StatusMove, AcceptCurrent, TerminalRun

\* A row that ends other than by being accepted.
Unaccepted(n) ==
  \/ nodes'[n] = nodes[n]
  \/ nodes[n] = "running" /\ nodes'[n] \in {"cancelled", "failed"}

\* What a step does to the rows: reuse_node, start_node and finish_node write one,
\* any other step leaves them or ends them as not accepted.
RowsWritten ==
  \/ ReuseNode \/ StartNode \/ AcceptResult
  \/ \A n \in Nodes : Unaccepted(n)

\* Only reuse_node and start_node write a new row, and only finish_node and
\* reuse_node an accepted one.
LEMMA OnlyRows == ASSUME Inv, RowsInOrder, [Next]_vars PROVE RowsWritten
<1>0. nodes \in [Nodes -> NodeStatus]
  BY DEF Inv, Typed, TypeOK
<1>1. ASSUME Admit PROVE RowsWritten
  <2>1. CASE StartRun
    BY <2>1 DEF StartRun, evidence, RowsWritten, Unaccepted
  <2>2. CASE RunCreated
    BY <2>2 DEF RunCreated, Journal, evidence, RowsWritten, Unaccepted
  <2>3. CASE RunEffects
    BY <2>3 DEF RunEffects, Journal, evidence, RowsWritten, Unaccepted
  <2>4. CASE RunForked
    BY <2>4 DEF RunForked, Journal, evidence, RowsWritten, Unaccepted
  <2>5. CASE ReuseNode
    BY <2>5 DEF RowsWritten
  <2>6. CASE ReuseContext
    BY <2>6 DEF ReuseContext, evidence, RowsWritten, Unaccepted
  <2>7. CASE NodeReused
    BY <2>7 DEF NodeReused, evidence, RowsWritten, Unaccepted
  <2>8. CASE WriteMetadata
    BY <2>8 DEF WriteMetadata, evidence, RowsWritten, Unaccepted
  <2>9. CASE StartThread
    BY <2>9 DEF StartThread, evidence, RowsWritten, Unaccepted
  <2>10. QED
    BY <1>1, <2>1, <2>2, <2>3, <2>4, <2>5, <2>6, <2>7, <2>8, <2>9 DEF Admit
<1>2. ASSUME Execute PROVE RowsWritten
  <2>1. CASE ResolveFails
    BY <2>1 DEF ResolveFails, evidence, RowsWritten, Unaccepted
  <2>2. CASE CancelledAtSection("next")
    BY <2>2 DEF CancelledAtSection, evidence, RowsWritten, Unaccepted
  <2>3. CASE NodeReady
    BY <2>3 DEF NodeReady, Journal, evidence, RowsWritten, Unaccepted
  <2>4. CASE StartNode
    BY <2>4 DEF RowsWritten
  <2>5. CASE ExecutorStarted
    BY <2>5 DEF ExecutorStarted, Journal, evidence, RowsWritten, Unaccepted
  <2>6. CASE ExecutorReturns
    BY <2>6 DEF ExecutorReturns, evidence, RowsWritten, Unaccepted
  <2>7. CASE ExecutorRaises
    BY <2>7 DEF ExecutorRaises, evidence, RowsWritten, Unaccepted
  <2>8. CASE ExecutorCancelled
    BY <2>8 DEF ExecutorCancelled, evidence, RowsWritten, Unaccepted
  <2>9. CASE CancelledAtSection("result")
    BY <2>9 DEF CancelledAtSection, evidence, RowsWritten, Unaccepted
  <2>10. CASE MalformedResult
    BY <2>10 DEF MalformedResult, evidence, RowsWritten, Unaccepted
  <2>11. CASE AcceptResult
    BY <2>11 DEF RowsWritten
  <2>12. CASE RecordContext
    BY <2>12 DEF RecordContext, evidence, RowsWritten, Unaccepted
  <2>13. CASE EvaluationPassed
    BY <2>13 DEF EvaluationPassed, Journal, evidence, RowsWritten, Unaccepted
  <2>14. CASE ResultAccepted
    BY <2>14 DEF ResultAccepted, Journal, evidence, RowsWritten, Unaccepted
  <2>15. CASE MakeDirectory
    BY <2>15 DEF MakeDirectory, evidence, RowsWritten, Unaccepted
  <2>16. CASE RecordArtifact
    BY <2>16 DEF RecordArtifact, evidence, RowsWritten, Unaccepted
  <2>17. CASE ArtifactCreated
    BY <2>17 DEF ArtifactCreated, Journal, evidence, RowsWritten, Unaccepted
  <2>18. CASE NodeSucceeded
    BY <2>18 DEF NodeSucceeded, evidence, RowsWritten, Unaccepted
  <2>19. CASE RejectResult
    BY <1>0, <2>19
    DEF RejectResult, Step, RowsInOrder, MayRun, RowsWritten, Unaccepted
  <2>20. CASE RejectAccepted
    BY <2>20 DEF RejectAccepted, Journal, evidence, RowsWritten, Unaccepted
  <2>21. CASE EvaluationRejected
    BY <2>21 DEF EvaluationRejected, Journal, evidence, RowsWritten, Unaccepted
  <2>22. CASE NodeFailed
    BY <2>22 DEF NodeFailed, Journal, evidence, RowsWritten, Unaccepted
  <2>23. CASE RunFailed
    BY <2>23 DEF RunFailed, Journal, evidence, RowsWritten, Unaccepted
  <2>24. CASE FinishRejected
    BY <2>24 DEF FinishRejected, Finish, evidence, RowsWritten, Unaccepted
  <2>25. CASE RunSucceeded
    BY <2>25 DEF RunSucceeded, Journal, evidence, RowsWritten, Unaccepted
  <2>26. CASE FinishSucceeded
    BY <2>26 DEF FinishSucceeded, Finish, evidence, RowsWritten, Unaccepted
  <2>27. QED
    BY <1>2, <2>1, <2>2, <2>3, <2>4, <2>5, <2>6, <2>7, <2>8, <2>9, <2>10, <2>11,
       <2>12, <2>13, <2>14, <2>15, <2>16, <2>17, <2>18, <2>19, <2>20, <2>21, <2>22,
       <2>23, <2>24, <2>25, <2>26
    DEF Execute
<1>3. CASE Ending
  BY <1>0, <1>3, EndingLeaves DEF SettleRunning, RowsWritten, Unaccepted
<1>4. CASE Others
  BY <1>0, <1>4, OthersSettle DEF SettleRunning, RowsWritten, Unaccepted, Inv
<1>5. QED
  BY <1>1, <1>2, <1>3, <1>4, StepKinds
=============================================================================
