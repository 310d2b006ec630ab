-------------------------- MODULE RunLifecycleTypes --------------------------
(***************************************************************************)
(* RunLifecycle is type-correct, for every Flow length, every number of    *)
(* cancelling requests and every number of faults.  The type of cursor and *)
(* of context is inductive only together with CursorInFlow, which says at  *)
(* which steps the thread is at a Node of the Flow.                        *)
(***************************************************************************)
EXTENDS RunLifecycle, TLAPS

\* Appending an event, and appending the events of an interruption, keep a
\* journal a journal.
LEMMA JournalTypes ==
  ASSUME NEW j \in Seq(Event), NEW e \in Event, NEW x \in Seq(Event)
  PROVE  Append(j, e) \in Seq(Event) /\ j \o x \in Seq(Event)
OBVIOUS

\* The records the journal is made of.
LEMMA EventTypes ==
  /\ \A t \in RunEvents : [type |-> t, about |-> {}] \in Event
  /\ \A t \in NodeEvents, a \in SUBSET Nodes : [type |-> t, about |-> a] \in Event
BY DEF Event

\* What the store's operations do to well-typed evidence.
LEMMA StoreTypes ==
  ASSUME TypeOK
  PROVE  /\ RunningNodes \subseteq Nodes
         /\ \A s \in NodeStatus : SettleRunning(s) \in [Nodes -> NodeStatus]
         /\ StoreRequestCancel =>
              /\ status' \in {"absent"} \cup ActiveRun \cup TerminalRun
              /\ journal' \in Seq(Event)
         /\ MarkInterrupted =>
              /\ status' \in {"absent"} \cup ActiveRun \cup TerminalRun
              /\ nodes' \in [Nodes -> NodeStatus]
              /\ journal' \in Seq(Event)
<1>1. RunningNodes \subseteq Nodes
  BY DEF RunningNodes
<1>2. \A s \in NodeStatus : SettleRunning(s) \in [Nodes -> NodeStatus]
  BY DEF TypeOK, SettleRunning
<1>3. ASSUME StoreRequestCancel
      PROVE  /\ status' \in {"absent"} \cup ActiveRun \cup TerminalRun
             /\ journal' \in Seq(Event)
  <2>1. [type |-> "run.cancel_requested", about |-> {}] \in Event
    BY EventTypes DEF RunEvents
  <2>2. QED
    BY <1>3, <2>1, JournalTypes
    DEF StoreRequestCancel, Record, TypeOK, ActiveRun, TerminalRun
<1>4. ASSUME MarkInterrupted
      PROVE  /\ status' \in {"absent"} \cup ActiveRun \cup TerminalRun
             /\ nodes' \in [Nodes -> NodeStatus]
             /\ journal' \in Seq(Event)
  <2> DEFINE f == [type |-> "node.failed", about |-> RunningNodes]
             a == [type |-> "run.interrupted", about |-> {}]
             b == [type |-> "run.failed", about |-> {}]
  <2>1. f \in Event /\ a \in Event /\ b \in Event
    BY <1>1, EventTypes DEF RunEvents, NodeEvents
  <2>2. <<f>> \in Seq(Event) /\ <<>> \in Seq(Event) /\ <<a, b>> \in Seq(Event)
    BY <2>1
  <2>3. journal \in Seq(Event)
    BY DEF TypeOK
  <2>4. journal \o (IF RunningNodes = {} THEN <<>> ELSE <<f>>) \in Seq(Event)
    <3> HIDE DEF f
    <3> QED BY <2>2, <2>3
  <2>5. journal \o (IF RunningNodes = {} THEN <<>> ELSE <<f>>) \o <<a, b>> \in Seq(Event)
    <3> HIDE DEF f, a, b
    <3> QED BY <2>2, <2>4
  <2>6. "failed" \in NodeStatus
    BY DEF NodeStatus
  <2>7. QED
    BY <1>2, <1>4, <2>3, <2>5, <2>6 DEF MarkInterrupted, TypeOK, ActiveRun, TerminalRun
<1>5. QED
  BY <1>1, <1>2, <1>3, <1>4

\* The thread is at a Node of the Flow whenever it writes about one.  The type
\* of cursor and of context is inductive only together with this.
AtNode == {"reuse", "reuse_context", "reused", "executing", "result"}
          \cup (TryLocked \ {"finish_succeeded"})

CursorInFlow ==
  /\ worker \in {"start_run", "created", "effects", "forked"} => cursor = 1
  /\ worker \in {"reuse", "reuse_context", "reused"} => cursor < FirstNode
  /\ worker \in AtNode => cursor <= N

Typed == TypeOK /\ CursorInFlow

\* A fork starts at a Node of the Flow.
LEMMA FirstNodeType == ASSUME TypeOK PROVE FirstNode \in Nodes
BY LifecycleAssumption DEF TypeOK, FirstNode, Nodes

\* The groups of steps make up Worker.
LEMMA StepNames ==
  /\ Admission \subseteq Worker /\ TryLocked \subseteq Worker
  /\ TryFree \subseteq Worker /\ HandlerLocked \subseteq Worker
  /\ HandlerFree \subseteq Worker /\ Finally \subseteq Worker
  /\ "gone" \in Worker
BY DEF Worker

\* The current Node, at the steps that write about it.
LEMMA CursorIsNode == ASSUME Typed, worker \in AtNode PROVE cursor \in Nodes
BY LifecycleAssumption DEF Typed, TypeOK, CursorInFlow, Nodes

\* A step that only appends an event.
LEMMA JournalStepTypes ==
  ASSUME TypeOK, NEW from, NEW to \in Worker, NEW t, NEW a,
         [type |-> t, about |-> a] \in Event,
         Journal(from, to, t, a)
  PROVE  TypeOK'
<1>1. journal' \in Seq(Event)
  <2> DEFINE e == [type |-> t, about |-> a]
  <2>1. journal' = Append(journal, e) /\ journal \in Seq(Event) /\ e \in Event
    BY DEF Journal, Record, TypeOK
  <2> HIDE DEF e
  <2>2. QED
    BY <2>1, JournalTypes
<1>2. QED
  BY <1>1 DEF Journal, Step, requests, TypeOK

\* A step that journals an event of the Run, and one about the current Node.
LEMMA RunEventTypes ==
  ASSUME TypeOK, NEW from, NEW to \in Worker, NEW t \in RunEvents,
         Journal(from, to, t, {})
  PROVE  TypeOK'
BY JournalStepTypes, EventTypes

\* A step that journals an event about the current Node.
LEMMA NodeEventTypes ==
  ASSUME Typed, NEW from \in AtNode \cup {"next"}, NEW to \in Worker,
         NEW t \in NodeEvents, from = "next" => cursor <= N,
         Journal(from, to, t, {cursor})
  PROVE  TypeOK'
<1>1. cursor \in Nodes
  BY CursorIsNode, LifecycleAssumption DEF Journal, Step, Typed, TypeOK, Nodes
<1>2. [type |-> t, about |-> {cursor}] \in Event
  BY <1>1, EventTypes
<1>3. QED
  BY <1>2, JournalStepTypes DEF Typed

\* The initial states are well-typed.
LEMMA TypeInit == Init => Typed
<1> SUFFICES ASSUME Init PROVE Typed
  OBVIOUS
<1>1. CursorInFlow
  BY LifecycleAssumption DEF Init, CursorInFlow, AtNode, TryLocked
<1>2. /\ nodes \in [Nodes -> NodeStatus]
      /\ context \in Seq(Nodes) /\ journal \in Seq(Event)
      /\ worker \in Worker
  BY StepNames DEF Init, NodeStatus, Admission
<1>3. /\ client \in [Clients -> {"idle", "slot", "interrupt", "request", "token",
                               "reply", "done"}]
      /\ receipt \in [Clients -> {"none", "accepted", "refused", "console"}]
  BY DEF Init
<1>4. cursor \in 1..(N + 1) /\ active \in 0..N /\ faults \in 0..MaxFaults
  BY LifecycleAssumption DEF Init
<1>5. QED
  BY <1>1, <1>2, <1>3, <1>4 DEF Init, Typed, TypeOK

\* Every action keeps the types.
LEMMA TypeStep ==
  ASSUME Typed, [Next]_vars
  PROVE  TypeOK'
<1> USE LifecycleAssumption, StepNames DEF Typed
<1>1. ASSUME Admit PROVE TypeOK'
  <2>1. CASE StartRun
    BY <2>1
    DEF StartRun, TypeOK, Step, evidence, requests, Admission, ActiveRun
  <2>2. CASE RunCreated
    BY <2>2, RunEventTypes DEF RunCreated, RunEvents, Admission
  <2>3. CASE RunEffects
    BY <2>3, RunEventTypes DEF RunEffects, RunEvents, Admission
  <2>4. CASE RunForked
    BY <2>4, RunEventTypes DEF RunForked, RunEvents, Admission
  <2>5. CASE ReuseNode
    <3>1. nodes' \in [Nodes -> NodeStatus]
      BY <2>5 DEF ReuseNode, TypeOK, NodeStatus
    <3>2. worker' \in Worker
      BY <2>5 DEF ReuseNode, Step, Admission
    <3>3. QED
      BY <2>5, <3>1, <3>2 DEF ReuseNode, TypeOK, Step, requests
  <2>6. CASE ReuseContext
    BY <2>6, CursorIsNode
    DEF ReuseContext, TypeOK, Step, evidence, requests, Admission, AtNode
  <2>7. CASE NodeReused
    <3>1. cursor \in Nodes /\ [type |-> "node.reused", about |-> {cursor}] \in Event
      BY <2>7, CursorIsNode, EventTypes DEF NodeReused, Step, AtNode, NodeEvents
    <3>2. journal' \in Seq(Event)
      BY <2>7, <3>1, JournalTypes DEF NodeReused, Record, TypeOK
    <3>3. cursor' \in 1..(N + 1)
      BY <2>7, <3>1 DEF NodeReused, Nodes
    <3>4. QED
      BY <2>7, <3>2, <3>3 DEF NodeReused, TypeOK, Step, requests, Admission
  <2>8. CASE WriteMetadata
    BY <2>8
    DEF WriteMetadata, TypeOK, Step, evidence, requests, Admission
  <2>9. CASE StartThread
    BY <2>9
    DEF StartThread, TypeOK, Step, evidence, requests, TryFree
  <2>10. QED
    BY <1>1, <2>1, <2>2, <2>3, <2>4, <2>5, <2>6, <2>7, <2>8, <2>9 DEF Admit
<1>2. ASSUME Execute PROVE TypeOK'
  <2>1. CASE ResolveFails
    BY <2>1
    DEF ResolveFails, TypeOK, Step, evidence, requests, HandlerFree
  <2>2. CASE CancelledAtSection("next")
    BY <2>2
    DEF CancelledAtSection, TypeOK, Step, evidence, requests, HandlerFree
  <2>3. CASE NodeReady
    BY <2>3, NodeEventTypes DEF NodeReady, NodeEvents, AtNode, TryLocked
  <2>4. CASE StartNode
    BY <2>4, CursorIsNode
    DEF StartNode, AtNode, TypeOK, Step, evidence, requests, TryLocked, NodeStatus, Nodes
  <2>5. CASE ExecutorStarted
    BY <2>5, NodeEventTypes DEF ExecutorStarted, NodeEvents, AtNode, TryLocked, TryFree
  <2>6. CASE ExecutorReturns
    BY <2>6
    DEF ExecutorReturns, TypeOK, Step, evidence, requests, TryFree
  <2>7. CASE ExecutorRaises
    BY <2>7
    DEF ExecutorRaises, TypeOK, Step, evidence, requests, HandlerFree
  <2>8. CASE ExecutorCancelled
    BY <2>8
    DEF ExecutorCancelled, TypeOK, Step, evidence, requests, HandlerFree
  <2>9. CASE CancelledAtSection("result")
    BY <2>9
    DEF CancelledAtSection, TypeOK, Step, evidence, requests, HandlerFree
  <2>10. CASE MalformedResult
    BY <2>10
    DEF MalformedResult, TypeOK, Step, evidence, requests, HandlerFree
  <2>11. CASE AcceptResult
    BY <2>11
    DEF AcceptResult, TypeOK, Step, evidence, requests, TryLocked, NodeStatus
  <2>12. CASE RecordContext
    BY <2>12, CursorIsNode
    DEF RecordContext, TypeOK, Step, evidence, requests, TryLocked, AtNode
  <2>13. CASE EvaluationPassed
    BY <2>13, NodeEventTypes DEF EvaluationPassed, NodeEvents, AtNode, TryLocked
  <2>14. CASE ResultAccepted
    BY <2>14, NodeEventTypes DEF ResultAccepted, NodeEvents, AtNode, TryLocked
  <2>15. CASE MakeDirectory
    BY <2>15
    DEF MakeDirectory, TypeOK, Step, evidence, requests, TryLocked, HandlerFree
  <2>16. CASE RecordArtifact
    BY <2>16, CursorIsNode
    DEF RecordArtifact, TypeOK, Step, evidence, requests, TryLocked, AtNode
  <2>17. CASE ArtifactCreated
    BY <2>17, NodeEventTypes DEF ArtifactCreated, NodeEvents, AtNode, TryLocked
  <2>18. CASE NodeSucceeded
    <3>1. cursor \in Nodes /\ [type |-> "node.succeeded", about |-> {cursor}] \in Event
      BY <2>18, CursorIsNode, EventTypes
      DEF NodeSucceeded, Step, AtNode, TryLocked, NodeEvents
    <3>2. journal' \in Seq(Event)
      BY <2>18, <3>1, JournalTypes DEF NodeSucceeded, Record, TypeOK
    <3>3. cursor' \in 1..(N + 1)
      BY <2>18, <3>1 DEF NodeSucceeded, Nodes
    <3>4. QED
      BY <2>18, <3>2, <3>3 DEF NodeSucceeded, TypeOK, Step, requests, TryFree
  <2>19. CASE RejectResult
    BY <2>19
    DEF RejectResult, TypeOK, Step, evidence, requests, TryLocked, NodeStatus
  <2>20. CASE RejectAccepted
    BY <2>20, NodeEventTypes DEF RejectAccepted, NodeEvents, AtNode, TryLocked
  <2>21. CASE EvaluationRejected
    BY <2>21, NodeEventTypes DEF EvaluationRejected, NodeEvents, AtNode, TryLocked
  <2>22. CASE NodeFailed
    BY <2>22, NodeEventTypes DEF NodeFailed, NodeEvents, AtNode, TryLocked
  <2>23. CASE RunFailed
    BY <2>23, RunEventTypes DEF RunFailed, RunEvents, TryLocked
  <2>24. CASE FinishRejected
    BY <2>24
    DEF FinishRejected, TypeOK, Step, evidence, requests, HandlerFree, Finish, Finally,
        TerminalRun
  <2>25. CASE RunSucceeded
    BY <2>25, RunEventTypes DEF RunSucceeded, RunEvents, TryLocked
  <2>26. CASE FinishSucceeded
    BY <2>26
    DEF FinishSucceeded, TypeOK, Step, evidence, requests, HandlerFree, Finish, Finally,
        TerminalRun
  <2>27. QED
    BY <1>2, <2>1, <2>2, <2>3, <2>4, <2>5, <2>6, <2>7, <2>8, <2>9, <2>10, <2>11, <2>12,
       <2>13, <2>14, <2>15, <2>16, <2>17, <2>18, <2>19, <2>20, <2>21, <2>22, <2>23, <2>24,
       <2>25, <2>26
    DEF Execute
<1>3. ASSUME Handle PROVE TypeOK'
  <2>1. CASE HandleCancelled
    BY <2>1, StoreTypes
    DEF HandleCancelled, TypeOK, Step, evidence, requests, HandlerLocked,
        BeginFinishCancelled, Finally
  <2>2. CASE HandleFailureOfCancelled
    BY <2>2, StoreTypes
    DEF HandleFailureOfCancelled, TypeOK, Step, evidence, requests, HandlerLocked,
        BeginFinishCancelled, Finally
  <2>3. CASE CancelRunningNodes
    BY <2>3, StoreTypes
    DEF CancelRunningNodes, TypeOK, Step, evidence, requests, HandlerLocked, NodeStatus
  <2>4. CASE NodesCancelled
    <3>1. [type |-> "node.cancelled", about |-> stopped] \in Event
      BY EventTypes DEF TypeOK, NodeEvents
    <3>2. journal' \in Seq(Event)
      BY <2>4, <3>1, JournalTypes DEF NodesCancelled, Record, TypeOK
    <3>3. QED
      BY <2>4, <3>2 DEF NodesCancelled, TypeOK, Step, requests, HandlerLocked, Finally
  <2>5. CASE RunCancelled
    BY <2>5, RunEventTypes DEF RunCancelled, RunEvents, HandlerLocked
  <2>6. CASE FinishCancelled
    BY <2>6
    DEF FinishCancelled, TypeOK, Step, evidence, requests, HandlerFree, Finish, Finally,
        TerminalRun
  <2>7. CASE HandleFailure
    BY <2>7, StoreTypes
    DEF HandleFailure, TypeOK, Step, evidence, requests, HandlerLocked, NodeStatus
  <2>8. CASE FailureRecorded
    BY <2>8, RunEventTypes DEF FailureRecorded, RunEvents, HandlerLocked
  <2>9. CASE FinishFailed
    BY <2>9
    DEF FinishFailed, TypeOK, Step, evidence, requests, HandlerFree, Finish, Finally,
        TerminalRun
  <2>10. CASE RewriteMetadata
    BY <2>10
    DEF RewriteMetadata, TypeOK, Step, evidence, requests, Finally
  <2>11. CASE ClearSlot
    BY <2>11
    DEF ClearSlot, TypeOK, Step, evidence, requests
  <2>12. QED
    BY <1>3, <2>1, <2>2, <2>3, <2>4, <2>5, <2>6, <2>7, <2>8, <2>9, <2>10, <2>11 DEF Handle
<1>4. ASSUME OperationRaises PROVE TypeOK'
  BY <1>4
  DEF OperationRaises, TypeOK, evidence, requests, HandlerFree, Finally
<1>5. ASSUME NEW c \in Clients, ReadOutcome(c) \/ ConsoleCancel(c) \/ Serve(c)
      PROVE  TypeOK'
  <2>1. CASE ReadOutcome(c)
    BY <2>1
    DEF ReadOutcome, TypeOK, evidence, Request, thread
  <2>2. CASE ConsoleCancel(c)
    BY <2>2
    DEF ConsoleCancel, TypeOK, evidence, Request, thread
  <2>3. CASE ReadSlot(c)
    BY <2>3
    DEF ReadSlot, TypeOK, evidence, Request, thread
  <2>4. CASE Interrupt(c)
    BY <2>4, StoreTypes
    DEF Interrupt, TypeOK, evidence, Request, thread
  <2>5. CASE CancelRequest(c)
    BY <2>5, StoreTypes
    DEF CancelRequest, TypeOK, evidence, Request, thread
  <2>6. CASE SetToken(c)
    BY <2>6
    DEF SetToken, TypeOK, evidence, Request, thread
  <2>7. CASE Reply(c)
    BY <2>7
    DEF Reply, TypeOK, evidence, Request, thread
  <2>8. QED
    BY <1>5, <2>1, <2>2, <2>3, <2>4, <2>5, <2>6, <2>7 DEF Serve
<1>6. CASE Shutdown
  BY <1>6 DEF Shutdown, Closing, thread, TypeOK, evidence
<1>7. CASE ShutdownRequest
  BY <1>7, StoreTypes DEF ShutdownRequest, Closing, thread, TypeOK, evidence
<1>8. CASE ShutdownToken
  BY <1>8 DEF ShutdownToken, Closing, thread, TypeOK, evidence
<1>9. CASE Crash
  BY <1>9 DEF Crash, TypeOK, evidence
<1>10. CASE Restart
  BY <1>10, StoreTypes DEF Restart, TypeOK, evidence, thread, requests
<1>11. CASE UNCHANGED vars
  BY <1>11 DEF vars, evidence, thread, requests, TypeOK
<1>12. QED
  BY <1>1, <1>2, <1>3, <1>4, <1>5, <1>6, <1>7, <1>8, <1>9, <1>10, <1>11
  DEF Next, RunThread, Close

\* The thread does not run past the Flow.
LEMMA CursorStep ==
  ASSUME Typed, [Next]_vars
  PROVE  CursorInFlow'
<1> USE LifecycleAssumption, FirstNodeType DEF Nodes
<1>1. CASE UNCHANGED <<worker, cursor, start>>
  BY <1>1 DEF Typed, CursorInFlow, FirstNode
<1>2. ASSUME UNCHANGED <<cursor, start>>,
             worker' \in HandlerLocked \cup HandlerFree \cup Finally
                         \cup {"gone", "next", "metadata", "thread", "finish_succeeded"}
      PROVE  CursorInFlow'
  BY <1>2
  DEF CursorInFlow, AtNode, TryLocked, HandlerLocked, HandlerFree, Finally
<1>3. ASSUME Admit PROVE CursorInFlow'
  <2>1. CASE StartRun
    BY <2>1 DEF StartRun, Step, Typed, TypeOK, CursorInFlow, FirstNode, AtNode, TryLocked
  <2>2. CASE RunCreated
    BY <2>2
    DEF RunCreated, Journal, Step, Typed, TypeOK, CursorInFlow, FirstNode, AtNode,
        TryLocked
  <2>3. CASE RunEffects
    BY <2>3
    DEF RunEffects, Journal, Step, Typed, TypeOK, CursorInFlow, FirstNode, AtNode,
        TryLocked
  <2>4. CASE RunForked
    BY <2>4
    DEF RunForked, Journal, Step, Typed, TypeOK, CursorInFlow, FirstNode, AtNode,
        TryLocked
  <2>5. CASE ReuseNode
    BY <2>5 DEF ReuseNode, Step, Typed, TypeOK, CursorInFlow, FirstNode, AtNode, TryLocked
  <2>6. CASE ReuseContext
    BY <2>6
    DEF ReuseContext, Step, Typed, TypeOK, CursorInFlow, FirstNode, AtNode, TryLocked
  <2>7. CASE NodeReused
    BY <2>7
    DEF NodeReused, Step, Typed, TypeOK, CursorInFlow, FirstNode, AtNode, TryLocked
  <2>8. CASE WriteMetadata
    BY <2>8
    DEF WriteMetadata, Step, Typed, TypeOK, CursorInFlow, FirstNode, AtNode, TryLocked
  <2>9. CASE StartThread
    BY <2>9
    DEF StartThread, Step, Typed, TypeOK, CursorInFlow, FirstNode, AtNode, TryLocked
  <2>10. QED
    BY <1>3, <2>1, <2>2, <2>3, <2>4, <2>5, <2>6, <2>7, <2>8, <2>9 DEF Admit
<1>4. ASSUME Execute PROVE CursorInFlow'
  <2>1. CASE ResolveFails
    BY <2>1 DEF ResolveFails, Step, Typed, TypeOK, CursorInFlow, AtNode, TryLocked
  <2>2. CASE CancelledAtSection("next")
    BY <2>2 DEF CancelledAtSection, Step, Typed, TypeOK, CursorInFlow, AtNode, TryLocked
  <2>3. CASE NodeReady
    BY <2>3 DEF NodeReady, Journal, Step, Typed, TypeOK, CursorInFlow, AtNode, TryLocked
  <2>4. CASE StartNode
    BY <2>4 DEF StartNode, Step, Typed, TypeOK, CursorInFlow, AtNode, TryLocked
  <2>5. CASE ExecutorStarted
    BY <2>5
    DEF ExecutorStarted, Journal, Step, Typed, TypeOK, CursorInFlow, AtNode, TryLocked
  <2>6. CASE ExecutorReturns
    BY <2>6 DEF ExecutorReturns, Step, Typed, TypeOK, CursorInFlow, AtNode, TryLocked
  <2>7. CASE ExecutorRaises
    BY <2>7 DEF ExecutorRaises, Step, Typed, TypeOK, CursorInFlow, AtNode, TryLocked
  <2>8. CASE ExecutorCancelled
    BY <2>8 DEF ExecutorCancelled, Step, Typed, TypeOK, CursorInFlow, AtNode, TryLocked
  <2>9. CASE CancelledAtSection("result")
    BY <2>9 DEF CancelledAtSection, Step, Typed, TypeOK, CursorInFlow, AtNode, TryLocked
  <2>10. CASE MalformedResult
    BY <2>10 DEF MalformedResult, Step, Typed, TypeOK, CursorInFlow, AtNode, TryLocked
  <2>11. CASE AcceptResult
    BY <2>11 DEF AcceptResult, Step, Typed, TypeOK, CursorInFlow, AtNode, TryLocked
  <2>12. CASE RecordContext
    BY <2>12 DEF RecordContext, Step, Typed, TypeOK, CursorInFlow, AtNode, TryLocked
  <2>13. CASE EvaluationPassed
    BY <2>13
    DEF EvaluationPassed, Journal, Step, Typed, TypeOK, CursorInFlow, AtNode, TryLocked
  <2>14. CASE ResultAccepted
    BY <2>14
    DEF ResultAccepted, Journal, Step, Typed, TypeOK, CursorInFlow, AtNode, TryLocked
  <2>15. CASE MakeDirectory
    BY <2>15 DEF MakeDirectory, Step, Typed, TypeOK, CursorInFlow, AtNode, TryLocked
  <2>16. CASE RecordArtifact
    BY <2>16 DEF RecordArtifact, Step, Typed, TypeOK, CursorInFlow, AtNode, TryLocked
  <2>17. CASE ArtifactCreated
    BY <2>17
    DEF ArtifactCreated, Journal, Step, Typed, TypeOK, CursorInFlow, AtNode, TryLocked
  <2>18. CASE NodeSucceeded
    BY <2>18 DEF NodeSucceeded, Step, Typed, TypeOK, CursorInFlow, AtNode, TryLocked
  <2>19. CASE RejectResult
    BY <2>19 DEF RejectResult, Step, Typed, TypeOK, CursorInFlow, AtNode, TryLocked
  <2>20. CASE RejectAccepted
    BY <2>20
    DEF RejectAccepted, Journal, Step, Typed, TypeOK, CursorInFlow, AtNode, TryLocked
  <2>21. CASE EvaluationRejected
    BY <2>21
    DEF EvaluationRejected, Journal, Step, Typed, TypeOK, CursorInFlow, AtNode, TryLocked
  <2>22. CASE NodeFailed
    BY <2>22 DEF NodeFailed, Journal, Step, Typed, TypeOK, CursorInFlow, AtNode, TryLocked
  <2>23. CASE RunFailed
    BY <2>23 DEF RunFailed, Journal, Step, Typed, TypeOK, CursorInFlow, AtNode, TryLocked
  <2>24. CASE FinishRejected
    BY <2>24
    DEF FinishRejected, Finish, Step, Typed, TypeOK, CursorInFlow, AtNode, TryLocked
  <2>25. CASE RunSucceeded
    BY <2>25
    DEF RunSucceeded, Journal, Step, Typed, TypeOK, CursorInFlow, AtNode, TryLocked
  <2>26. CASE FinishSucceeded
    BY <2>26
    DEF FinishSucceeded, Finish, Step, Typed, TypeOK, CursorInFlow, AtNode, TryLocked
  <2>27. QED
    BY <1>4, <2>1, <2>2, <2>3, <2>4, <2>5, <2>6, <2>7, <2>8, <2>9, <2>10, <2>11, <2>12,
       <2>13, <2>14, <2>15, <2>16, <2>17, <2>18, <2>19, <2>20, <2>21, <2>22, <2>23, <2>24,
       <2>25, <2>26
    DEF Execute
<1>5. ASSUME Handle PROVE CursorInFlow'
  <2>1. /\ UNCHANGED <<cursor, start>>
        /\ worker' \in HandlerLocked \cup HandlerFree \cup Finally \cup {"gone"}
    <3>1. CASE HandleCancelled
      BY <3>1 DEF HandleCancelled, BeginFinishCancelled, Step, HandlerLocked, Finally
    <3>2. CASE HandleFailureOfCancelled
      BY <3>2
      DEF HandleFailureOfCancelled, BeginFinishCancelled, Step, HandlerLocked, Finally
    <3>3. CASE CancelRunningNodes
      BY <3>3 DEF CancelRunningNodes, Step, HandlerLocked, Finally
    <3>4. CASE NodesCancelled
      BY <3>4 DEF NodesCancelled, Step, HandlerLocked, Finally
    <3>5. CASE RunCancelled
      BY <3>5 DEF RunCancelled, Journal, Step, HandlerLocked, Finally
    <3>6. CASE FinishCancelled
      BY <3>6 DEF FinishCancelled, Finish, TryLocked, Step, HandlerLocked, Finally
    <3>7. CASE HandleFailure
      BY <3>7 DEF HandleFailure, Step, HandlerLocked, Finally
    <3>8. CASE FailureRecorded
      BY <3>8 DEF FailureRecorded, Journal, Step, HandlerLocked, Finally
    <3>9. CASE FinishFailed
      BY <3>9 DEF FinishFailed, Finish, TryLocked, Step, HandlerLocked, Finally
    <3>10. CASE RewriteMetadata
      BY <3>10 DEF RewriteMetadata, Step, HandlerLocked, Finally
    <3>11. CASE ClearSlot
      BY <3>11 DEF ClearSlot, Step, HandlerLocked, Finally
    <3>12. QED
      BY <1>5, <3>1, <3>2, <3>3, <3>4, <3>5, <3>6, <3>7, <3>8, <3>9, <3>10, <3>11
      DEF Handle
  <2>2. QED
    BY <1>2, <2>1
<1>6. ASSUME OperationRaises PROVE CursorInFlow'
  <2>1. /\ UNCHANGED <<cursor, start>>
        /\ worker' \in HandlerFree \cup Finally \cup {"gone"}
    BY <1>6 DEF OperationRaises, HandlerFree, Finally
  <2>2. QED
    BY <1>2, <2>1
<1>7. ASSUME NEW c \in Clients, ReadOutcome(c) \/ ConsoleCancel(c) \/ Serve(c)
      PROVE  UNCHANGED <<worker, cursor, start>>
  BY <1>7
  DEF ReadOutcome, ConsoleCancel, Serve, ReadSlot, Interrupt, CancelRequest, SetToken,
      Reply, Request, thread
<1>8. CASE Shutdown \/ Close \/ Restart \/ UNCHANGED vars
  <2>1. UNCHANGED <<worker, cursor, start>>
    BY <1>8
    DEF Shutdown, Close, ShutdownRequest, ShutdownToken, Closing, Restart, vars, thread
  <2>2. QED
    BY <1>1, <2>1
<1>9. CASE Crash
  BY <1>2, <1>9 DEF Crash
<1>10. QED
  BY <1>1, <1>3, <1>4, <1>5, <1>6, <1>7, <1>8, <1>9 DEF Next, RunThread

\* Every variable keeps its type.
THEOREM TypeCorrect == Spec => []TypeOK
<1>1. Typed /\ [Next]_vars => Typed'
  BY TypeStep, CursorStep DEF Typed
<1>2. Spec => []Typed
  BY <1>1, TypeInit, PTL DEF Spec
<1>3. Typed => TypeOK
  BY DEF Typed
<1>4. QED
  BY <1>2, <1>3, PTL
=============================================================================
