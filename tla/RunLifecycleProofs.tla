------------------------- MODULE RunLifecycleProofs -------------------------
(***************************************************************************)
(* What RunLifecycle guarantees for every Flow length, every number of     *)
(* cancelling requests and every number of faults.                         *)
(*                                                                         *)
(* The properties of RunLifecycle are not inductive.  Two invariants are,  *)
(* each resting on the one before it and on the types: Control says who    *)
(* may be at which step together and what the status is then; Progress     *)
(* says what the thread has done to Nodes, Context and the journal when it *)
(* is at a step.                                                           *)
(***************************************************************************)
EXTENDS RunLifecycleTypes

\* The thread executes the Run: it is past admission and not in finally.
Executing == TryLocked \cup TryFree \cup HandlerLocked \cup HandlerFree

\* transition_lock has one holder.
Exclusive ==
  /\ worker \in Locked => /\ \A c \in Clients : client[c] # "token"
                          /\ shutdown # "token"
  /\ \A c, d \in Clients : client[c] = "token" /\ client[d] = "token" => c = d
  /\ \A c \in Clients : client[c] = "token" => shutdown # "token"

\* A holder that is about to set the token.
TokenComing == shutdown = "token" \/ \E c \in Clients : client[c] = "token"

\* Before the worker thread exists nobody has got past _run_lock.
Admitting ==
  /\ worker = "start_run" => status = "absent"
  /\ worker \in Admission \ {"start_run"} => status = "running"
  /\ worker \in Admission =>
       /\ ~token
       /\ shutdown = "no"
       /\ \A c \in Clients : client[c] \in {"idle", "slot"} /\ receipt[c] # "accepted"
  /\ status = "absent" =>
       /\ worker \in {"start_run", "gone"}
       /\ ~slot
       /\ ~metadata
       /\ shutdown \in {"no", "join"}
       /\ \A c \in Clients : client[c] \in {"idle", "done"} /\ receipt[c] # "accepted"

\* The slot holds the Run as long as its thread may still write to it, and
\* whoever takes the Run for abandoned is right.
Owned ==
  /\ worker \in Executing \cup Finally => slot
  /\ \A c \in Clients : client[c] = "interrupt" => worker = "gone"
  /\ ~up => worker = "gone"

\* What the thread may rely on about the status, and about the token.
StatusKnown ==
  /\ worker \in TryLocked => status = "running" /\ ~token
  /\ worker \in TryFree \cup HandlerFree => status \in ActiveRun
  /\ worker \in {"cancel_nodes", "node_cancelled", "run_cancelled", "finish_cancelled"}
       => status = "cancel_requested"
  /\ worker \in {"fail_event", "fail_finish"} => status = "running" /\ ~token
  /\ worker = "cancelled" => token
  /\ token \/ TokenComing => status \notin {"absent", "running"}
  /\ worker \in Executing /\ status = "cancel_requested" => token \/ TokenComing

Control == Exclusive /\ Admitting /\ Owned /\ StatusKnown

\* The steps at which the current Node is not accepted yet, and those at which
\* it is.
BeforeAccept ==
  {"start_run", "created", "effects", "forked", "reuse", "metadata", "thread",
   "next", "start_node", "started", "executing", "result", "reject_accepted",
   "rejected", "node_failed", "run_failed", "finish_failed", "finish_succeeded"}
AfterAccept ==
  {"reuse_context", "reused", "context", "evaluated", "accepted", "mkdir",
   "artifact", "artifact_event", "node_succeeded"}

AcceptedNodes == {n \in Nodes : nodes[n] \in Accepted}

\* Nodes are accepted in Flow order, one at a time.
InFlowOrder ==
  /\ worker \in BeforeAccept => \A n \in Nodes : nodes[n] \in Accepted <=> n < cursor
  /\ worker \in AfterAccept  => \A n \in Nodes : nodes[n] \in Accepted <=> n <= cursor
  /\ worker = "finish_succeeded" => cursor = N + 1

\* The steps at which a Node may be running: none but the current one while it
\* executes, and whatever an exception has left behind.
MayRun == {"started", "executing", "result"}
Leftover == {"except", "cancelled", "cancel_nodes", "ended", "clear", "gone"}

OneRuns ==
  \A n \in Nodes : nodes[n] = "running" =>
    \/ worker \in MayRun /\ n = cursor
    \/ worker \in Leftover /\ status \notin TerminalRun

\* The journal ends with an event of this type.
Ends(j, type) == j # <<>> /\ j[Len(j)].type = type

\* What the journal ends with when the thread is about to finish the Run, and
\* when the Run is finished.
Announced ==
  /\ worker \in {"finish_failed", "fail_finish"} \/ status = "failed"
       => Ends(journal, "run.failed")
  /\ worker = "finish_succeeded" \/ status = "succeeded" => Ends(journal, "run.succeeded")
  /\ worker = "finish_cancelled" \/ status = "cancelled" => Ends(journal, "run.cancelled")

\* Context is written for the accepted Node right after it.
ContextInStep ==
  /\ worker \in BeforeAccept \cup {"reuse_context", "context"}
       => Len(context) = cursor - 1
  /\ worker \in AfterAccept \ {"reuse_context", "context"} => Len(context) = cursor
  /\ ContextFollowsNodes

\* An accepted cancellation stays one.
ReceiptsKept ==
  \A c \in Clients :
    receipt[c] = "accepted" => status \in {"cancel_requested", "cancelled", "failed"}

\* A Run about to be admitted has no rival.
LEMMA ControlInit == Init => Control
BY DEF Init, Control, Exclusive, Admitting, Owned, StatusKnown, TokenComing, Locked,
       Executing, Admission, TryLocked, TryFree, HandlerLocked, HandlerFree, Finally

\* Every step keeps the control invariant.
LEMMA ControlStep ==
  ASSUME Typed, Control, [Next]_vars
  PROVE  Control'
<1> USE DEF Control, Exclusive, Admitting, Owned, StatusKnown, TokenComing, LockFree,
            Locked, Executing, Admission, TryLocked, TryFree, HandlerLocked,
            HandlerFree, Finally, ActiveRun, TerminalRun
<1>1. ASSUME Admit PROVE Control'
  <2>1. CASE StartRun
    BY <2>1 DEF StartRun, Step, requests, evidence
  <2>2. CASE RunCreated
    BY <2>2 DEF RunCreated, Journal, Step, requests, evidence
  <2>3. CASE RunEffects
    BY <2>3 DEF RunEffects, Journal, Step, requests, evidence
  <2>4. CASE RunForked
    BY <2>4 DEF RunForked, Journal, Step, requests, evidence
  <2>5. CASE ReuseNode
    BY <2>5 DEF ReuseNode, Step, requests, evidence
  <2>6. CASE ReuseContext
    BY <2>6 DEF ReuseContext, Step, requests, evidence
  <2>7. CASE NodeReused
    BY <2>7 DEF NodeReused, Step, requests, evidence
  <2>8. CASE WriteMetadata
    BY <2>8 DEF WriteMetadata, Step, requests, evidence
  <2>9. CASE StartThread
    BY <2>9 DEF StartThread, Step, requests, evidence
  <2>10. QED
    BY <1>1, <2>1, <2>2, <2>3, <2>4, <2>5, <2>6, <2>7, <2>8, <2>9 DEF Admit
<1>2. ASSUME Execute PROVE Control'
  <2>1. CASE ResolveFails
    BY <2>1 DEF ResolveFails, Step, requests, evidence
  <2>2. CASE CancelledAtSection("next")
    BY <2>2 DEF CancelledAtSection, Step, requests, evidence
  <2>3. CASE NodeReady
    BY <2>3 DEF NodeReady, Journal, Step, requests, evidence
  <2>4. CASE StartNode
    BY <2>4 DEF StartNode, Step, requests, evidence
  <2>5. CASE ExecutorStarted
    BY <2>5 DEF ExecutorStarted, Journal, Step, requests, evidence
  <2>6. CASE ExecutorReturns
    BY <2>6 DEF ExecutorReturns, Step, requests, evidence
  <2>7. CASE ExecutorRaises
    BY <2>7 DEF ExecutorRaises, Step, requests, evidence
  <2>8. CASE ExecutorCancelled
    BY <2>8 DEF ExecutorCancelled, Step, requests, evidence
  <2>9. CASE CancelledAtSection("result")
    BY <2>9 DEF CancelledAtSection, Step, requests, evidence
  <2>10. CASE MalformedResult
    BY <2>10 DEF MalformedResult, Step, requests, evidence
  <2>11. CASE AcceptResult
    BY <2>11 DEF AcceptResult, Step, requests, evidence
  <2>12. CASE RecordContext
    BY <2>12 DEF RecordContext, Step, requests, evidence
  <2>13. CASE EvaluationPassed
    BY <2>13 DEF EvaluationPassed, Journal, Step, requests, evidence
  <2>14. CASE ResultAccepted
    BY <2>14 DEF ResultAccepted, Journal, Step, requests, evidence
  <2>15. CASE MakeDirectory
    BY <2>15 DEF MakeDirectory, Step, requests, evidence
  <2>16. CASE RecordArtifact
    BY <2>16 DEF RecordArtifact, Step, requests, evidence
  <2>17. CASE ArtifactCreated
    BY <2>17 DEF ArtifactCreated, Journal, Step, requests, evidence
  <2>18. CASE NodeSucceeded
    BY <2>18 DEF NodeSucceeded, Step, requests, evidence
  <2>19. CASE RejectResult
    BY <2>19 DEF RejectResult, Step, requests, evidence
  <2>20. CASE RejectAccepted
    BY <2>20 DEF RejectAccepted, Journal, Step, requests, evidence
  <2>21. CASE EvaluationRejected
    BY <2>21 DEF EvaluationRejected, Journal, Step, requests, evidence
  <2>22. CASE NodeFailed
    BY <2>22 DEF NodeFailed, Journal, Step, requests, evidence
  <2>23. CASE RunFailed
    BY <2>23 DEF RunFailed, Journal, Step, requests, evidence
  <2>24. CASE FinishRejected
    BY <2>24 DEF FinishRejected, Finish, Finishable, Step, requests, evidence
  <2>25. CASE RunSucceeded
    BY <2>25 DEF RunSucceeded, Journal, Step, requests, evidence
  <2>26. CASE FinishSucceeded
    BY <2>26 DEF FinishSucceeded, Finish, Finishable, Step, requests, evidence
  <2>27. QED
    BY <1>2, <2>1, <2>2, <2>3, <2>4, <2>5, <2>6, <2>7, <2>8, <2>9, <2>10, <2>11, <2>12,
       <2>13, <2>14, <2>15, <2>16, <2>17, <2>18, <2>19, <2>20, <2>21, <2>22, <2>23, <2>24,
       <2>25, <2>26
    DEF Execute
<1>3. ASSUME Handle PROVE Control'
  <2>1. CASE HandleCancelled
    BY <2>1
    DEF HandleCancelled, BeginFinishCancelled, StoreRequestCancel, Record, Step, requests,
        evidence
  <2>2. CASE HandleFailureOfCancelled
    BY <2>2
    DEF HandleFailureOfCancelled, BeginFinishCancelled, StoreRequestCancel, Record, Step,
        requests, evidence
  <2>3. CASE CancelRunningNodes
    BY <2>3 DEF CancelRunningNodes, Step, requests, evidence
  <2>4. CASE NodesCancelled
    BY <2>4 DEF NodesCancelled, Step, requests, evidence
  <2>5. CASE RunCancelled
    BY <2>5 DEF RunCancelled, Journal, Record, Step, requests, evidence
  <2>6. CASE FinishCancelled
    BY <2>6 DEF FinishCancelled, Finish, Finishable, Step, requests, evidence
  <2>7. CASE HandleFailure
    BY <2>7 DEF HandleFailure, Step, requests, evidence
  <2>8. CASE FailureRecorded
    BY <2>8 DEF FailureRecorded, Journal, Record, Step, requests, evidence
  <2>9. CASE FinishFailed
    BY <2>9 DEF FinishFailed, Finish, Finishable, Step, requests, evidence
  <2>10. CASE RewriteMetadata
    BY <2>10 DEF RewriteMetadata, Step, requests, evidence
  <2>11. CASE ClearSlot
    BY <2>11 DEF ClearSlot, Step, requests, evidence
  <2>12. QED
    BY <1>3, <2>1, <2>2, <2>3, <2>4, <2>5, <2>6, <2>7, <2>8, <2>9, <2>10, <2>11 DEF Handle
<1>4. ASSUME OperationRaises PROVE Control'
  BY <1>4 DEF OperationRaises, requests, evidence
<1>5. ASSUME NEW c \in Clients, ReadOutcome(c) \/ ConsoleCancel(c) \/ Serve(c)
      PROVE  Control'
  <2> USE DEF Typed, TypeOK
  <2>1. CASE ReadOutcome(c)
    BY <2>1 DEF ReadOutcome, Request, thread
  <2>2. CASE ConsoleCancel(c)
    BY <2>2 DEF ConsoleCancel, Request, thread
  <2>3. CASE ReadSlot(c)
    BY <2>3 DEF ReadSlot, RunLockFree, Worker, Request, thread
  <2>4. CASE Interrupt(c)
    BY <2>4 DEF Interrupt, MarkInterrupted, Request, thread
  <2>5. CASE CancelRequest(c)
    BY <2>5 DEF CancelRequest, StoreRequestCancel, Record, Request, thread
  <2>6. CASE SetToken(c)
    BY <2>6 DEF SetToken, Request, thread
  <2>7. CASE Reply(c)
    BY <2>7 DEF Reply, Request, thread
  <2>8. QED
    BY <1>5, <2>1, <2>2, <2>3, <2>4, <2>5, <2>6, <2>7 DEF Serve
<1>6. CASE Shutdown
  BY <1>6 DEF Shutdown, RunLockFree, Closing, thread
<1>7. CASE ShutdownRequest
  BY <1>7 DEF ShutdownRequest, StoreRequestCancel, Closing, thread
<1>8. CASE ShutdownToken
  BY <1>8 DEF ShutdownToken, Closing, thread
<1>9. CASE Crash
  BY <1>9 DEF Crash, evidence
<1>10. CASE Restart
  BY <1>10 DEF Restart, MarkInterrupted, thread, requests
<1>11. CASE UNCHANGED vars
  BY <1>11 DEF vars, evidence, thread, requests
<1>12. QED
  BY <1>1, <1>2, <1>3, <1>4, <1>5, <1>6, <1>7, <1>8, <1>9, <1>10, <1>11
  DEF Next, RunThread, Close

-----------------------------------------------------------------------------
(* What the other actors leave alone.                                      *)

Others ==
  \/ \E c \in Clients : ReadOutcome(c) \/ ConsoleCancel(c) \/ Serve(c)
  \/ Shutdown \/ Close \/ Restart \/ UNCHANGED vars

Ending == Handle \/ OperationRaises \/ Crash

\* Every step is one of four kinds.
LEMMA StepKinds ==
  ASSUME [Next]_vars PROVE Admit \/ Execute \/ Ending \/ Others
BY DEF Next, RunThread, Ending, Others

\* A handler, an exception or the end of the process takes the thread out of
\* the try block for good.
LEMMA HandlerMoves ==
  ASSUME Ending
  PROVE  worker' \in HandlerLocked \cup HandlerFree \cup Finally \cup {"gone"}
<1>1. CASE HandleCancelled
  BY <1>1 DEF HandleCancelled, BeginFinishCancelled, Step, HandlerLocked, Finally
<1>2. CASE HandleFailureOfCancelled
  BY <1>2 DEF HandleFailureOfCancelled, BeginFinishCancelled, Step, HandlerLocked, Finally
<1>3. CASE CancelRunningNodes
  BY <1>3 DEF CancelRunningNodes, Step, HandlerLocked, Finally
<1>4. CASE NodesCancelled
  BY <1>4 DEF NodesCancelled, Step, HandlerLocked, Finally
<1>5. CASE RunCancelled
  BY <1>5 DEF RunCancelled, Journal, Step, HandlerLocked, Finally
<1>6. CASE FinishCancelled
  BY <1>6 DEF FinishCancelled, Finish, TryLocked, Step, HandlerLocked, Finally
<1>7. CASE HandleFailure
  BY <1>7 DEF HandleFailure, Step, HandlerLocked, Finally
<1>8. CASE FailureRecorded
  BY <1>8 DEF FailureRecorded, Journal, Step, HandlerLocked, Finally
<1>9. CASE FinishFailed
  BY <1>9 DEF FinishFailed, Finish, TryLocked, Step, HandlerLocked, Finally
<1>10. CASE RewriteMetadata
  BY <1>10 DEF RewriteMetadata, Step, HandlerLocked, Finally
<1>11. CASE ClearSlot
  BY <1>11 DEF ClearSlot, Step, HandlerLocked, Finally
<1>12. CASE OperationRaises
  BY <1>12 DEF OperationRaises, HandlerFree, Finally
<1>13. CASE Crash
  BY <1>13 DEF Crash
<1>14. QED
  BY <1>1, <1>2, <1>3, <1>4, <1>5, <1>6, <1>7, <1>8, <1>9, <1>10, <1>11, <1>12, <1>13
  DEF Handle, Ending

\* It writes nothing but the end of the running Nodes.
LEMMA EndingLeaves ==
  ASSUME Ending
  PROVE  /\ UNCHANGED <<context, artifacts>>
         /\ \/ UNCHANGED nodes
            \/ \E r \in {"cancelled", "failed"} : nodes' = SettleRunning(r)
<1>1. CASE HandleCancelled
  BY <1>1 DEF HandleCancelled, BeginFinishCancelled, evidence
<1>2. CASE HandleFailureOfCancelled
  BY <1>2 DEF HandleFailureOfCancelled, BeginFinishCancelled, evidence
<1>3. CASE CancelRunningNodes
  BY <1>3 DEF CancelRunningNodes, evidence
<1>4. CASE NodesCancelled
  BY <1>4 DEF NodesCancelled, evidence
<1>5. CASE RunCancelled
  BY <1>5 DEF RunCancelled, Journal, evidence
<1>6. CASE FinishCancelled
  BY <1>6 DEF FinishCancelled, Finish, evidence
<1>7. CASE HandleFailure
  BY <1>7 DEF HandleFailure, evidence
<1>8. CASE FailureRecorded
  BY <1>8 DEF FailureRecorded, Journal, evidence
<1>9. CASE FinishFailed
  BY <1>9 DEF FinishFailed, Finish, evidence
<1>10. CASE RewriteMetadata
  BY <1>10 DEF RewriteMetadata, evidence
<1>11. CASE ClearSlot
  BY <1>11 DEF ClearSlot, evidence
<1>12. CASE OperationRaises
  BY <1>12 DEF OperationRaises, evidence
<1>13. CASE Crash
  BY <1>13 DEF Crash, evidence
<1>14. QED
  BY <1>1, <1>2, <1>3, <1>4, <1>5, <1>6, <1>7, <1>8, <1>9, <1>10, <1>11, <1>12, <1>13
  DEF Handle, Ending

\* Nobody but the thread moves the thread; a Run is interrupted when it is gone.
LEMMA OtherMoves ==
  ASSUME Control, Others
  PROVE  /\ UNCHANGED <<context, artifacts, thread>>
         /\ \/ UNCHANGED <<status, nodes, journal>>
            \/ UNCHANGED nodes /\ LockFree /\ StoreRequestCancel
            \/ worker = "gone" /\ MarkInterrupted
<1>1. ASSUME NEW c \in Clients, ReadOutcome(c) \/ ConsoleCancel(c) \/ Serve(c)
      PROVE  /\ UNCHANGED <<context, artifacts, thread>>
             /\ \/ UNCHANGED <<status, nodes, journal>>
                \/ UNCHANGED nodes /\ LockFree /\ StoreRequestCancel
                \/ worker = "gone" /\ MarkInterrupted
  BY <1>1
  DEF ReadOutcome, ConsoleCancel, Serve, ReadSlot, Interrupt, CancelRequest, SetToken,
      Reply, Request, Control, Owned
<1>2. CASE Shutdown \/ Close
  BY <1>2 DEF Shutdown, Close, ShutdownRequest, ShutdownToken, Closing
<1>3. CASE Restart
  BY <1>3 DEF Restart, Control, Owned
<1>4. CASE UNCHANGED vars
  BY <1>4 DEF vars, evidence, thread
<1>5. QED
  BY <1>1, <1>2, <1>3, <1>4 DEF Others

\* No Node is accepted before the Run starts.
LEMMA OrderInit == Init => InFlowOrder
BY DEF Init, InFlowOrder, BeforeAccept, AfterAccept, Accepted, Nodes

\* Only the Run's thread accepts a Node, and it accepts the current one.
LEMMA OrderStep ==
  ASSUME Typed, Control, InFlowOrder, [Next]_vars
  PROVE  InFlowOrder'
<1> USE CursorIsNode, FirstNodeType DEF InFlowOrder, BeforeAccept, AfterAccept, Accepted,
                                   Nodes
<1>1. ASSUME Admit PROVE InFlowOrder'
  <2>1. CASE StartRun
    BY <2>1 DEF StartRun, Step, evidence
  <2>2. CASE RunCreated
    BY <2>2 DEF RunCreated, Journal, Step, evidence
  <2>3. CASE RunEffects
    BY <2>3 DEF RunEffects, Journal, Step, evidence
  <2>4. CASE RunForked
    BY <2>4
    DEF RunForked, Journal, AtNode, TryLocked, Typed, TypeOK, CursorInFlow, Step, evidence
  <2>5. CASE ReuseNode
    BY <2>5 DEF ReuseNode, AtNode, TryLocked, Typed, TypeOK, CursorInFlow, Step, evidence
  <2>6. CASE ReuseContext
    BY <2>6 DEF ReuseContext, Step, evidence
  <2>7. CASE NodeReused
    BY <2>7 DEF NodeReused, AtNode, TryLocked, Typed, TypeOK, CursorInFlow, Step, evidence
  <2>8. CASE WriteMetadata
    BY <2>8 DEF WriteMetadata, Step, evidence
  <2>9. CASE StartThread
    BY <2>9
    DEF StartThread, AtNode, TryLocked, Typed, TypeOK, CursorInFlow, Step, evidence
  <2>10. QED
    BY <1>1, <2>1, <2>2, <2>3, <2>4, <2>5, <2>6, <2>7, <2>8, <2>9 DEF Admit
<1>2. ASSUME Execute PROVE InFlowOrder'
  <2>1. CASE ResolveFails
    BY <2>1 DEF ResolveFails, Step, evidence
  <2>2. CASE CancelledAtSection("next")
    BY <2>2 DEF CancelledAtSection, Step, evidence
  <2>3. CASE NodeReady
    BY <2>3 DEF NodeReady, Journal, Step, evidence
  <2>4. CASE StartNode
    BY <2>4 DEF StartNode, AtNode, TryLocked, Typed, TypeOK, CursorInFlow, Step, evidence
  <2>5. CASE ExecutorStarted
    BY <2>5 DEF ExecutorStarted, Journal, Step, evidence
  <2>6. CASE ExecutorReturns
    BY <2>6 DEF ExecutorReturns, Step, evidence
  <2>7. CASE ExecutorRaises
    BY <2>7 DEF ExecutorRaises, Step, evidence
  <2>8. CASE ExecutorCancelled
    BY <2>8 DEF ExecutorCancelled, Step, evidence
  <2>9. CASE CancelledAtSection("result")
    BY <2>9 DEF CancelledAtSection, Step, evidence
  <2>10. CASE MalformedResult
    BY <2>10 DEF MalformedResult, Step, evidence
  <2>11. CASE AcceptResult
    BY <2>11
    DEF AcceptResult, AtNode, TryLocked, Typed, TypeOK, CursorInFlow, Step, evidence
  <2>12. CASE RecordContext
    BY <2>12 DEF RecordContext, Step, evidence
  <2>13. CASE EvaluationPassed
    BY <2>13 DEF EvaluationPassed, Journal, Step, evidence
  <2>14. CASE ResultAccepted
    BY <2>14 DEF ResultAccepted, Journal, Step, evidence
  <2>15. CASE MakeDirectory
    BY <2>15 DEF MakeDirectory, Step, evidence
  <2>16. CASE RecordArtifact
    BY <2>16 DEF RecordArtifact, Step, evidence
  <2>17. CASE ArtifactCreated
    BY <2>17 DEF ArtifactCreated, Journal, Step, evidence
  <2>18. CASE NodeSucceeded
    BY <2>18
    DEF NodeSucceeded, AtNode, TryLocked, Typed, TypeOK, CursorInFlow, Step, evidence
  <2>19. CASE RejectResult
    BY <2>19
    DEF RejectResult, AtNode, TryLocked, Typed, TypeOK, CursorInFlow, Step, evidence
  <2>20. CASE RejectAccepted
    BY <2>20 DEF RejectAccepted, Journal, Step, evidence
  <2>21. CASE EvaluationRejected
    BY <2>21 DEF EvaluationRejected, Journal, Step, evidence
  <2>22. CASE NodeFailed
    BY <2>22 DEF NodeFailed, Journal, Step, evidence
  <2>23. CASE RunFailed
    BY <2>23 DEF RunFailed, Journal, Step, evidence
  <2>24. CASE FinishRejected
    BY <2>24 DEF FinishRejected, Finish, Finishable, Step, evidence
  <2>25. CASE RunSucceeded
    BY <2>25 DEF RunSucceeded, Journal, Step, evidence
  <2>26. CASE FinishSucceeded
    BY <2>26 DEF FinishSucceeded, Finish, Finishable, Step, evidence
  <2>27. QED
    BY <1>2, <2>1, <2>2, <2>3, <2>4, <2>5, <2>6, <2>7, <2>8, <2>9, <2>10, <2>11, <2>12,
       <2>13, <2>14, <2>15, <2>16, <2>17, <2>18, <2>19, <2>20, <2>21, <2>22, <2>23, <2>24,
       <2>25, <2>26
    DEF Execute
<1>3. ASSUME worker' \in HandlerLocked \cup HandlerFree \cup Finally \cup {"gone"}
      PROVE  InFlowOrder'
  BY <1>3 DEF HandlerLocked, HandlerFree, Finally
<1>4. CASE Ending
  BY <1>3, <1>4, HandlerMoves
<1>5. CASE Others
  <2>1. CASE UNCHANGED nodes
    BY <1>5, <2>1, OtherMoves DEF thread
  <2>2. CASE worker = "gone"
    BY <1>3, <1>5, <2>2, OtherMoves DEF thread
  <2>3. QED
    BY <1>5, <2>1, <2>2, OtherMoves
<1>6. QED
  BY <1>1, <1>2, <1>4, <1>5, StepKinds

\* Settling leaves no Node running.
LEMMA Settled ==
  ASSUME TypeOK, NEW s \in NodeStatus \ {"running"}, nodes' = SettleRunning(s)
  PROVE  \A n \in Nodes : nodes'[n] # "running"
BY DEF TypeOK, SettleRunning

\* No Node runs before the Run starts.
LEMMA RunsInit == Init => OneRuns
BY DEF Init, OneRuns

\* A Node runs only while the thread executes it, and none survives the Run.
LEMMA RunsStep ==
  ASSUME Typed, Control, OneRuns, [Next]_vars
  PROVE  OneRuns'
<1> USE DEF OneRuns, MayRun, Leftover, TerminalRun
<1>2. ASSUME Admit PROVE OneRuns'
  <2>1. CASE StartRun
    BY <2>1 DEF StartRun, Step, evidence, Admission
  <2>2. CASE RunCreated
    BY <2>2 DEF RunCreated, Journal, Step, evidence, Admission
  <2>3. CASE RunEffects
    BY <2>3 DEF RunEffects, Journal, Step, evidence, Admission
  <2>4. CASE RunForked
    BY <2>4 DEF RunForked, Journal, Step, evidence, Admission
  <2>5. CASE ReuseNode
    BY <2>5 DEF ReuseNode, Step, Admission, Typed, TypeOK
  <2>6. CASE ReuseContext
    BY <2>6 DEF ReuseContext, Step, evidence, Admission
  <2>7. CASE NodeReused
    BY <2>7 DEF NodeReused, Step, evidence, Admission
  <2>8. CASE WriteMetadata
    BY <2>8 DEF WriteMetadata, Step, evidence, Admission
  <2>9. CASE StartThread
    BY <2>9 DEF StartThread, Step, evidence, Admission
  <2>10. QED
    BY <1>2, <2>1, <2>2, <2>3, <2>4, <2>5, <2>6, <2>7, <2>8, <2>9 DEF Admit
<1>3. ASSUME Execute PROVE OneRuns'
  <2>1. CASE ResolveFails
    BY <2>1
    DEF ResolveFails, Control, StatusKnown, ActiveRun, Step, evidence, TryLocked, TryFree,
        HandlerFree
  <2>2. CASE CancelledAtSection("next")
    BY <2>2
    DEF CancelledAtSection, Control, StatusKnown, ActiveRun, Step, evidence, TryLocked,
        TryFree, HandlerFree
  <2>3. CASE NodeReady
    BY <2>3
    DEF NodeReady, Journal, Control, StatusKnown, ActiveRun, Step, evidence, TryLocked,
        TryFree, HandlerFree
  <2>4. CASE StartNode
    BY <2>4 DEF StartNode, Step, Typed, TypeOK
  <2>5. CASE ExecutorStarted
    BY <2>5
    DEF ExecutorStarted, Journal, Control, StatusKnown, ActiveRun, Step, evidence,
        TryLocked, TryFree, HandlerFree
  <2>6. CASE ExecutorReturns
    BY <2>6
    DEF ExecutorReturns, Control, StatusKnown, ActiveRun, Step, evidence, TryLocked,
        TryFree, HandlerFree
  <2>7. CASE ExecutorRaises
    BY <2>7
    DEF ExecutorRaises, Control, StatusKnown, ActiveRun, Step, evidence, TryLocked,
        TryFree, HandlerFree
  <2>8. CASE ExecutorCancelled
    BY <2>8
    DEF ExecutorCancelled, Control, StatusKnown, ActiveRun, Step, evidence, TryLocked,
        TryFree, HandlerFree
  <2>9. CASE CancelledAtSection("result")
    BY <2>9
    DEF CancelledAtSection, Control, StatusKnown, ActiveRun, Step, evidence, TryLocked,
        TryFree, HandlerFree
  <2>10. CASE MalformedResult
    BY <2>10
    DEF MalformedResult, Control, StatusKnown, ActiveRun, Step, evidence, TryLocked,
        TryFree, HandlerFree
  <2>11. CASE AcceptResult
    BY <2>11
    DEF AcceptResult, Step, TryFree, Typed, TypeOK, Control, StatusKnown, ActiveRun
  <2>12. CASE RecordContext
    BY <2>12
    DEF RecordContext, Control, StatusKnown, ActiveRun, Step, evidence, TryLocked,
        TryFree, HandlerFree
  <2>13. CASE EvaluationPassed
    BY <2>13
    DEF EvaluationPassed, Journal, Control, StatusKnown, ActiveRun, Step, evidence,
        TryLocked, TryFree, HandlerFree
  <2>14. CASE ResultAccepted
    BY <2>14
    DEF ResultAccepted, Journal, Control, StatusKnown, ActiveRun, Step, evidence,
        TryLocked, TryFree, HandlerFree
  <2>15. CASE MakeDirectory
    BY <2>15
    DEF MakeDirectory, Control, StatusKnown, ActiveRun, Step, evidence, TryLocked,
        TryFree, HandlerFree
  <2>16. CASE RecordArtifact
    BY <2>16
    DEF RecordArtifact, Control, StatusKnown, ActiveRun, Step, evidence, TryLocked,
        TryFree, HandlerFree
  <2>17. CASE ArtifactCreated
    BY <2>17
    DEF ArtifactCreated, Journal, Control, StatusKnown, ActiveRun, Step, evidence,
        TryLocked, TryFree, HandlerFree
  <2>18. CASE NodeSucceeded
    BY <2>18
    DEF NodeSucceeded, Control, StatusKnown, ActiveRun, Step, evidence, TryLocked,
        TryFree, HandlerFree
  <2>19. CASE RejectResult
    BY <2>19
    DEF RejectResult, Step, TryFree, Typed, TypeOK, Control, StatusKnown, ActiveRun
  <2>20. CASE RejectAccepted
    BY <2>20
    DEF RejectAccepted, Journal, Control, StatusKnown, ActiveRun, Step, evidence,
        TryLocked, TryFree, HandlerFree
  <2>21. CASE EvaluationRejected
    BY <2>21
    DEF EvaluationRejected, Journal, Control, StatusKnown, ActiveRun, Step, evidence,
        TryLocked, TryFree, HandlerFree
  <2>22. CASE NodeFailed
    BY <2>22
    DEF NodeFailed, Journal, Control, StatusKnown, ActiveRun, Step, evidence, TryLocked,
        TryFree, HandlerFree
  <2>23. CASE RunFailed
    BY <2>23
    DEF RunFailed, Journal, Control, StatusKnown, ActiveRun, Step, evidence, TryLocked,
        TryFree, HandlerFree
  <2>24. CASE FinishRejected
    BY <2>24
    DEF FinishRejected, Finish, Finishable, Control, StatusKnown, ActiveRun, Step,
        evidence, TryLocked, TryFree, HandlerFree
  <2>25. CASE RunSucceeded
    BY <2>25
    DEF RunSucceeded, Journal, Control, StatusKnown, ActiveRun, Step, evidence, TryLocked,
        TryFree, HandlerFree
  <2>26. CASE FinishSucceeded
    BY <2>26
    DEF FinishSucceeded, Finish, Finishable, Control, StatusKnown, ActiveRun, Step,
        evidence, TryLocked, TryFree, HandlerFree
  <2>27. QED
    BY <1>3, <2>1, <2>2, <2>3, <2>4, <2>5, <2>6, <2>7, <2>8, <2>9, <2>10, <2>11, <2>12,
       <2>13, <2>14, <2>15, <2>16, <2>17, <2>18, <2>19, <2>20, <2>21, <2>22, <2>23, <2>24,
       <2>25, <2>26
    DEF Execute
<1>4. ASSUME Handle PROVE OneRuns'
  <2>1. CASE HandleCancelled
    BY <2>1
    DEF HandleCancelled, BeginFinishCancelled, StoreRequestCancel, Record, Step, evidence,
        HandlerLocked, HandlerFree, Finally, ActiveRun
  <2>2. CASE HandleFailureOfCancelled
    BY <2>2
    DEF HandleFailureOfCancelled, BeginFinishCancelled, StoreRequestCancel, Record, Step,
        evidence, HandlerLocked, HandlerFree, Finally, ActiveRun
  <2>3. CASE CancelRunningNodes
    BY <2>3, Settled DEF CancelRunningNodes, Typed, NodeStatus
  <2>4. CASE NodesCancelled
    BY <2>4
    DEF NodesCancelled, Step, evidence, HandlerLocked, HandlerFree, Finally, ActiveRun
  <2>5. CASE RunCancelled
    BY <2>5
    DEF RunCancelled, Journal, Record, Step, evidence, HandlerLocked, HandlerFree,
        Finally, ActiveRun
  <2>6. CASE FinishCancelled
    BY <2>6
    DEF FinishCancelled, Finish, Finishable, Step, evidence, HandlerLocked, HandlerFree,
        Finally, ActiveRun
  <2>7. CASE HandleFailure
    BY <2>7, Settled DEF HandleFailure, Typed, NodeStatus
  <2>8. CASE FailureRecorded
    BY <2>8
    DEF FailureRecorded, Journal, Record, Step, evidence, HandlerLocked, HandlerFree,
        Finally, ActiveRun
  <2>9. CASE FinishFailed
    BY <2>9
    DEF FinishFailed, Finish, Finishable, Step, evidence, HandlerLocked, HandlerFree,
        Finally, ActiveRun
  <2>10. CASE RewriteMetadata
    BY <2>10
    DEF RewriteMetadata, Step, evidence, HandlerLocked, HandlerFree, Finally, ActiveRun
  <2>11. CASE ClearSlot
    BY <2>11 DEF ClearSlot, Step, evidence, HandlerLocked, HandlerFree, Finally, ActiveRun
  <2>12. QED
    BY <1>4, <2>1, <2>2, <2>3, <2>4, <2>5, <2>6, <2>7, <2>8, <2>9, <2>10, <2>11 DEF Handle
<1>5. CASE OperationRaises
  BY <1>5
  DEF OperationRaises, evidence, HandlerFree, Finally, Control, StatusKnown, TryLocked,
      TryFree, ActiveRun
<1>6. CASE Crash
  BY <1>6 DEF Crash, evidence, Control, StatusKnown, TryLocked, TryFree, ActiveRun
<1>7. CASE Others
  <2>1. CASE UNCHANGED <<status, nodes>>
    BY <1>7, <2>1, OtherMoves DEF thread
  <2>2. CASE UNCHANGED nodes /\ StoreRequestCancel
    BY <1>7, <2>2, OtherMoves DEF thread, StoreRequestCancel, Record
  <2>3. CASE MarkInterrupted
    <3>1. CASE status \in ActiveRun
      BY <2>3, <3>1, Settled DEF MarkInterrupted, Typed, NodeStatus
    <3>2. CASE status \notin ActiveRun
      BY <1>7, <2>3, <3>2, OtherMoves DEF MarkInterrupted, thread
    <3>3. QED
      BY <3>1, <3>2
  <2>4. QED
    BY <1>7, <2>1, <2>2, <2>3, OtherMoves
<1>8. QED
  BY <1>2, <1>3, <1>4, <1>5, <1>6, <1>7, StepKinds DEF Ending

\* The last event of an extended journal.
LEMMA AppendEnds ==
  ASSUME TypeOK, NEW t, NEW a, Record(t, a)
  PROVE  Ends(journal', t)
<1> DEFINE e == [type |-> t, about |-> a]
<1>1. journal' = Append(journal, e) /\ e.type = t /\ Len(journal) \in Nat
  BY DEF Record, TypeOK
<1>2. Len(journal') = Len(journal) + 1 /\ journal'[Len(journal) + 1] = e
  <2> HIDE DEF e
  <2> QED BY <1>1 DEF TypeOK
<1>3. journal' # <<>>
  BY <1>1, <1>2
<1>4. QED
  BY <1>1, <1>2, <1>3 DEF Ends

\* mark_interrupted ends the journal with run.failed.
LEMMA InterruptedEnds ==
  ASSUME TypeOK, MarkInterrupted, status \in ActiveRun
  PROVE  Ends(journal', "run.failed")
<1> DEFINE f == [type |-> "node.failed", about |-> RunningNodes]
           a == [type |-> "run.interrupted", about |-> {}]
           b == [type |-> "run.failed", about |-> {}]
           j == journal \o (IF RunningNodes = {} THEN <<>> ELSE <<f>>)
<1>1. journal' = j \o <<a, b>> /\ b.type = "run.failed"
  BY DEF MarkInterrupted
<1>2. j \in Seq(Event) /\ a \in Event /\ b \in Event
  <2>1. f \in Event /\ a \in Event /\ b \in Event
    BY StoreTypes, EventTypes DEF RunEvents, NodeEvents
  <2>2. <<f>> \in Seq(Event) /\ <<>> \in Seq(Event) /\ journal \in Seq(Event)
    BY <2>1 DEF TypeOK
  <2> HIDE DEF f, a, b
  <2>3. QED
    BY <2>1, <2>2
<1>3. Len(journal') = Len(j) + 2 /\ journal'[Len(j) + 2] = b /\ Len(j) \in Nat
  <2> HIDE DEF j, a, b
  <2> QED BY <1>1, <1>2
<1>4. journal' # <<>>
  BY <1>3
<1>5. QED
  BY <1>1, <1>3, <1>4 DEF Ends

\* A Run that has not started announces nothing.
LEMMA AnnouncedInit == Init => Announced
BY DEF Init, Announced

\* The thread announces how the Run ends right before it ends it, and a Run that
\* is interrupted ends with the same words.
LEMMA AnnouncedStep ==
  ASSUME Typed, Control, Announced, [Next]_vars
  PROVE  Announced'
<1> USE DEF Announced
<1>1. ASSUME Admit PROVE Announced'
  <2>1. CASE StartRun
    BY <2>1 DEF StartRun, Step, evidence, Control, Admitting, Admission
  <2>2. CASE RunCreated
    BY <2>2 DEF RunCreated, Journal, Step, evidence, Control, Admitting, Admission
  <2>3. CASE RunEffects
    BY <2>3 DEF RunEffects, Journal, Step, evidence, Control, Admitting, Admission
  <2>4. CASE RunForked
    BY <2>4 DEF RunForked, Journal, Step, evidence, Control, Admitting, Admission
  <2>5. CASE ReuseNode
    BY <2>5 DEF ReuseNode, Step, evidence, Control, Admitting, Admission
  <2>6. CASE ReuseContext
    BY <2>6 DEF ReuseContext, Step, evidence, Control, Admitting, Admission
  <2>7. CASE NodeReused
    BY <2>7 DEF NodeReused, Step, evidence, Control, Admitting, Admission
  <2>8. CASE WriteMetadata
    BY <2>8 DEF WriteMetadata, Step, evidence, Control, Admitting, Admission
  <2>9. CASE StartThread
    BY <2>9 DEF StartThread, Step, evidence, Control, Admitting, Admission
  <2>10. QED
    BY <1>1, <2>1, <2>2, <2>3, <2>4, <2>5, <2>6, <2>7, <2>8, <2>9 DEF Admit
<1>2. ASSUME Execute PROVE Announced'
  <2>1. CASE ResolveFails
    BY <2>1
    DEF ResolveFails, Step, evidence, Control, StatusKnown, ActiveRun, TryLocked, TryFree
  <2>2. CASE CancelledAtSection("next")
    BY <2>2
    DEF CancelledAtSection, Step, evidence, Control, StatusKnown, ActiveRun, TryLocked,
        TryFree
  <2>3. CASE NodeReady
    BY <2>3
    DEF NodeReady, Journal, Step, evidence, Control, StatusKnown, ActiveRun, TryLocked,
        TryFree
  <2>4. CASE StartNode
    BY <2>4
    DEF StartNode, Step, evidence, Control, StatusKnown, ActiveRun, TryLocked, TryFree
  <2>5. CASE ExecutorStarted
    BY <2>5
    DEF ExecutorStarted, Journal, Step, evidence, Control, StatusKnown, ActiveRun,
        TryLocked, TryFree
  <2>6. CASE ExecutorReturns
    BY <2>6
    DEF ExecutorReturns, Step, evidence, Control, StatusKnown, ActiveRun, TryLocked,
        TryFree
  <2>7. CASE ExecutorRaises
    BY <2>7
    DEF ExecutorRaises, Step, evidence, Control, StatusKnown, ActiveRun, TryLocked,
        TryFree
  <2>8. CASE ExecutorCancelled
    BY <2>8
    DEF ExecutorCancelled, Step, evidence, Control, StatusKnown, ActiveRun, TryLocked,
        TryFree
  <2>9. CASE CancelledAtSection("result")
    BY <2>9
    DEF CancelledAtSection, Step, evidence, Control, StatusKnown, ActiveRun, TryLocked,
        TryFree
  <2>10. CASE MalformedResult
    BY <2>10
    DEF MalformedResult, Step, evidence, Control, StatusKnown, ActiveRun, TryLocked,
        TryFree
  <2>11. CASE AcceptResult
    BY <2>11
    DEF AcceptResult, Step, evidence, Control, StatusKnown, ActiveRun, TryLocked, TryFree
  <2>12. CASE RecordContext
    BY <2>12
    DEF RecordContext, Step, evidence, Control, StatusKnown, ActiveRun, TryLocked, TryFree
  <2>13. CASE EvaluationPassed
    BY <2>13
    DEF EvaluationPassed, Journal, Step, evidence, Control, StatusKnown, ActiveRun,
        TryLocked, TryFree
  <2>14. CASE ResultAccepted
    BY <2>14
    DEF ResultAccepted, Journal, Step, evidence, Control, StatusKnown, ActiveRun,
        TryLocked, TryFree
  <2>15. CASE MakeDirectory
    BY <2>15
    DEF MakeDirectory, Step, evidence, Control, StatusKnown, ActiveRun, TryLocked, TryFree
  <2>16. CASE RecordArtifact
    BY <2>16
    DEF RecordArtifact, Step, evidence, Control, StatusKnown, ActiveRun, TryLocked,
        TryFree
  <2>17. CASE ArtifactCreated
    BY <2>17
    DEF ArtifactCreated, Journal, Step, evidence, Control, StatusKnown, ActiveRun,
        TryLocked, TryFree
  <2>18. CASE NodeSucceeded
    BY <2>18
    DEF NodeSucceeded, Step, evidence, Control, StatusKnown, ActiveRun, TryLocked, TryFree
  <2>19. CASE RejectResult
    BY <2>19
    DEF RejectResult, Step, evidence, Control, StatusKnown, ActiveRun, TryLocked, TryFree
  <2>20. CASE RejectAccepted
    BY <2>20
    DEF RejectAccepted, Journal, Step, evidence, Control, StatusKnown, ActiveRun,
        TryLocked, TryFree
  <2>21. CASE EvaluationRejected
    BY <2>21
    DEF EvaluationRejected, Journal, Step, evidence, Control, StatusKnown, ActiveRun,
        TryLocked, TryFree
  <2>22. CASE NodeFailed
    BY <2>22
    DEF NodeFailed, Journal, Step, evidence, Control, StatusKnown, ActiveRun, TryLocked,
        TryFree
  <2>23. CASE RunFailed
    BY <2>23, AppendEnds
    DEF RunFailed, Journal, Step, Typed, Control, StatusKnown, TryLocked, TryFree,
        ActiveRun
  <2>24. CASE FinishRejected
    BY <2>24
    DEF FinishRejected, Finish, Finishable, Step, evidence, Control, StatusKnown,
        ActiveRun, TryLocked, TryFree
  <2>25. CASE RunSucceeded
    BY <2>25, AppendEnds
    DEF RunSucceeded, Journal, Step, Typed, Control, StatusKnown, TryLocked, TryFree,
        ActiveRun
  <2>26. CASE FinishSucceeded
    BY <2>26
    DEF FinishSucceeded, Finish, Finishable, Step, evidence, Control, StatusKnown,
        ActiveRun, TryLocked, TryFree
  <2>27. QED
    BY <1>2, <2>1, <2>2, <2>3, <2>4, <2>5, <2>6, <2>7, <2>8, <2>9, <2>10, <2>11, <2>12,
       <2>13, <2>14, <2>15, <2>16, <2>17, <2>18, <2>19, <2>20, <2>21, <2>22, <2>23, <2>24,
       <2>25, <2>26
    DEF Execute
<1>3. ASSUME Handle PROVE Announced'
  <2>1. CASE HandleCancelled
    BY <2>1
    DEF HandleCancelled, BeginFinishCancelled, StoreRequestCancel, Record, Step, evidence,
        Control, StatusKnown, ActiveRun, HandlerFree
  <2>2. CASE HandleFailureOfCancelled
    BY <2>2
    DEF HandleFailureOfCancelled, BeginFinishCancelled, StoreRequestCancel, Record, Step,
        evidence, Control, StatusKnown, ActiveRun, HandlerFree
  <2>3. CASE CancelRunningNodes
    BY <2>3
    DEF CancelRunningNodes, Step, evidence, Control, StatusKnown, ActiveRun, HandlerFree
  <2>4. CASE NodesCancelled
    BY <2>4
    DEF NodesCancelled, Step, evidence, Control, StatusKnown, ActiveRun, HandlerFree
  <2>5. CASE RunCancelled
    BY <2>5, AppendEnds
    DEF RunCancelled, Journal, Step, Typed, Control, StatusKnown
  <2>6. CASE FinishCancelled
    BY <2>6
    DEF FinishCancelled, Finish, Finishable, Step, evidence, Control, StatusKnown,
        ActiveRun, HandlerFree
  <2>7. CASE HandleFailure
    BY <2>7
    DEF HandleFailure, Step, evidence, Control, StatusKnown, ActiveRun, HandlerFree
  <2>8. CASE FailureRecorded
    BY <2>8, AppendEnds
    DEF FailureRecorded, Journal, Step, Typed, Control, StatusKnown
  <2>9. CASE FinishFailed
    BY <2>9
    DEF FinishFailed, Finish, Finishable, Step, evidence, Control, StatusKnown, ActiveRun,
        HandlerFree
  <2>10. CASE RewriteMetadata
    BY <2>10
    DEF RewriteMetadata, Step, evidence, Control, StatusKnown, ActiveRun, HandlerFree
  <2>11. CASE ClearSlot
    BY <2>11 DEF ClearSlot, Step, evidence, Control, StatusKnown, ActiveRun, HandlerFree
  <2>12. QED
    BY <1>3, <2>1, <2>2, <2>3, <2>4, <2>5, <2>6, <2>7, <2>8, <2>9, <2>10, <2>11 DEF Handle
<1>4. CASE OperationRaises
  BY <1>4 DEF OperationRaises, evidence, HandlerFree, Finally
<1>5. CASE Crash
  BY <1>5 DEF Crash, evidence
<1>6. CASE Others
  <2>1. CASE UNCHANGED <<status, journal>>
    BY <1>6, <2>1, OtherMoves DEF thread
  <2>2. CASE LockFree /\ StoreRequestCancel
    BY <1>6, <2>2, OtherMoves
    DEF thread, LockFree, Locked, TryLocked, HandlerLocked, StoreRequestCancel
  <2>3. CASE worker = "gone" /\ MarkInterrupted
    <3>1. CASE status \in ActiveRun
      BY <1>6, <2>3, <3>1, InterruptedEnds, OtherMoves DEF MarkInterrupted, thread, Typed
    <3>2. CASE status \notin ActiveRun
      BY <1>6, <2>3, <3>2, OtherMoves DEF MarkInterrupted, thread
    <3>3. QED
      BY <3>1, <3>2
  <2>4. QED
    BY <1>6, <2>1, <2>2, <2>3, OtherMoves
<1>7. QED
  BY <1>1, <1>2, <1>3, <1>4, <1>5, <1>6, StepKinds DEF Ending

\* Context grows by the current Node.
LEMMA AppendContext ==
  ASSUME TypeOK, NEW k \in Nodes, context' = Append(context, k)
  PROVE  /\ Len(context) \in Nat /\ Len(context') = Len(context) + 1
         /\ DOMAIN context = 1..Len(context) /\ DOMAIN context' = 1..(Len(context) + 1)
         /\ \A i \in DOMAIN context : context'[i] = context[i]
         /\ context'[Len(context) + 1] = k
BY DEF TypeOK

\* Context starts empty.
LEMMA ContextInit == Init => ContextInStep
BY DEF Init, ContextInStep, ContextFollowsNodes, BeforeAccept, AfterAccept, Accepted

\* Context follows the accepted Nodes one commit behind.
LEMMA ContextStep ==
  ASSUME Typed, Control, InFlowOrder, ContextInStep, [Next]_vars
  PROVE  ContextInStep'
<1> USE DEF ContextInStep, ContextFollowsNodes, BeforeAccept, AfterAccept, Accepted
<1>0. Len(context) \in Nat /\ DOMAIN context = 1..Len(context) /\ cursor \in Nat
  BY LifecycleAssumption DEF Typed, TypeOK
<1>1. ASSUME Admit PROVE ContextInStep'
  <2>1. CASE StartRun
    BY <2>1 DEF StartRun, Step, evidence
  <2>2. CASE RunCreated
    BY <2>2 DEF RunCreated, Journal, Step, evidence
  <2>3. CASE RunEffects
    BY <2>3 DEF RunEffects, Journal, Step, evidence
  <2>4. CASE RunForked
    BY <2>4 DEF RunForked, Journal, Step, evidence
  <2>5. CASE ReuseNode
    <3>1. cursor \in Nodes /\ nodes \in [Nodes -> NodeStatus]
      BY <2>5, CursorIsNode DEF ReuseNode, Step, AtNode, TryLocked, Typed, TypeOK
    <3>2. QED
      BY <1>0, <2>5, <3>1 DEF ReuseNode, Step, InFlowOrder
  <2>6. CASE ReuseContext
    <3>1. cursor \in Nodes /\ context' = Append(context, cursor)
      BY <2>6, CursorIsNode DEF ReuseContext, Step, AtNode, TryLocked
    <3>2. QED
      BY <1>0, <2>6, <3>1, AppendContext DEF ReuseContext, Step, Typed, InFlowOrder
  <2>7. CASE NodeReused
    BY <1>0, <2>7 DEF NodeReused, Step, evidence
  <2>8. CASE WriteMetadata
    BY <2>8 DEF WriteMetadata, Step, evidence
  <2>9. CASE StartThread
    BY <2>9 DEF StartThread, Step, evidence
  <2>10. QED
    BY <1>1, <2>1, <2>2, <2>3, <2>4, <2>5, <2>6, <2>7, <2>8, <2>9 DEF Admit
<1>2. ASSUME Execute PROVE ContextInStep'
  <2>1. CASE ResolveFails
    BY <2>1 DEF ResolveFails, Step, evidence
  <2>2. CASE CancelledAtSection("next")
    BY <2>2 DEF CancelledAtSection, Step, evidence
  <2>3. CASE NodeReady
    BY <2>3 DEF NodeReady, Journal, Step, evidence
  <2>4. CASE StartNode
    <3>1. cursor \in Nodes /\ nodes \in [Nodes -> NodeStatus]
      BY <2>4, CursorIsNode DEF StartNode, Step, AtNode, TryLocked, Typed, TypeOK
    <3>2. QED
      BY <1>0, <2>4, <3>1 DEF StartNode, Step, InFlowOrder
  <2>5. CASE ExecutorStarted
    BY <2>5 DEF ExecutorStarted, Journal, Step, evidence
  <2>6. CASE ExecutorReturns
    BY <2>6 DEF ExecutorReturns, Step, evidence
  <2>7. CASE ExecutorRaises
    BY <2>7 DEF ExecutorRaises, Step, evidence
  <2>8. CASE ExecutorCancelled
    BY <2>8 DEF ExecutorCancelled, Step, evidence
  <2>9. CASE CancelledAtSection("result")
    BY <2>9 DEF CancelledAtSection, Step, evidence
  <2>10. CASE MalformedResult
    BY <2>10 DEF MalformedResult, Step, evidence
  <2>11. CASE AcceptResult
    <3>1. cursor \in Nodes /\ nodes \in [Nodes -> NodeStatus]
      BY <2>11, CursorIsNode DEF AcceptResult, Step, AtNode, TryLocked, Typed, TypeOK
    <3>2. QED
      BY <1>0, <2>11, <3>1 DEF AcceptResult, Step, InFlowOrder
  <2>12. CASE RecordContext
    <3>1. cursor \in Nodes /\ context' = Append(context, cursor)
      BY <2>12, CursorIsNode DEF RecordContext, Step, AtNode, TryLocked
    <3>2. QED
      BY <1>0, <2>12, <3>1, AppendContext DEF RecordContext, Step, Typed, InFlowOrder
  <2>13. CASE EvaluationPassed
    BY <2>13 DEF EvaluationPassed, Journal, Step, evidence
  <2>14. CASE ResultAccepted
    BY <2>14 DEF ResultAccepted, Journal, Step, evidence
  <2>15. CASE MakeDirectory
    BY <2>15 DEF MakeDirectory, Step, evidence
  <2>16. CASE RecordArtifact
    BY <2>16 DEF RecordArtifact, Step, evidence
  <2>17. CASE ArtifactCreated
    BY <2>17 DEF ArtifactCreated, Journal, Step, evidence
  <2>18. CASE NodeSucceeded
    BY <1>0, <2>18 DEF NodeSucceeded, Step, evidence
  <2>19. CASE RejectResult
    <3>1. cursor \in Nodes /\ nodes \in [Nodes -> NodeStatus]
      BY <2>19, CursorIsNode DEF RejectResult, Step, AtNode, TryLocked, Typed, TypeOK
    <3>2. QED
      BY <1>0, <2>19, <3>1 DEF RejectResult, Step, InFlowOrder
  <2>20. CASE RejectAccepted
    BY <2>20 DEF RejectAccepted, Journal, Step, evidence
  <2>21. CASE EvaluationRejected
    BY <2>21 DEF EvaluationRejected, Journal, Step, evidence
  <2>22. CASE NodeFailed
    BY <2>22 DEF NodeFailed, Journal, Step, evidence
  <2>23. CASE RunFailed
    BY <2>23 DEF RunFailed, Journal, Step, evidence
  <2>24. CASE FinishRejected
    BY <2>24 DEF FinishRejected, Finish, Finishable, Step, evidence
  <2>25. CASE RunSucceeded
    BY <2>25 DEF RunSucceeded, Journal, Step, evidence
  <2>26. CASE FinishSucceeded
    BY <2>26 DEF FinishSucceeded, Finish, Finishable, Step, evidence
  <2>27. QED
    BY <1>2, <2>1, <2>2, <2>3, <2>4, <2>5, <2>6, <2>7, <2>8, <2>9, <2>10, <2>11, <2>12,
       <2>13, <2>14, <2>15, <2>16, <2>17, <2>18, <2>19, <2>20, <2>21, <2>22, <2>23, <2>24,
       <2>25, <2>26
    DEF Execute
<1>3. ASSUME worker' \in HandlerLocked \cup HandlerFree \cup Finally \cup {"gone"},
             UNCHANGED context,
             nodes' = nodes \/ \E r \in {"cancelled", "failed"} : nodes' = SettleRunning(r)
      PROVE  ContextInStep'
  <2>1. \A n \in Nodes : nodes'[n] \in Accepted <=> nodes[n] \in Accepted
    BY <1>3 DEF SettleRunning, Typed, TypeOK
  <2>2. \A i \in DOMAIN context : i \in Nodes
    <3>1. \A i \in 1..Len(context) : context[i] \in Nodes
      BY DEF Typed, TypeOK
    <3>2. QED
      BY <1>0, <3>1
  <2>3. QED
    BY <1>3, <2>1, <2>2 DEF HandlerLocked, HandlerFree, Finally
<1>4. CASE Ending
  <2>1. UNCHANGED context /\ \/ UNCHANGED nodes
                             \/ \E r \in {"cancelled", "failed"} : nodes' = SettleRunning(r)
    BY <1>4, EndingLeaves
  <2>2. QED
    BY <1>3, <1>4, <2>1, HandlerMoves
<1>5. CASE Others
  <2>1. CASE UNCHANGED nodes
    BY <1>5, <2>1, OtherMoves DEF thread
  <2>2. CASE worker = "gone" /\ MarkInterrupted
    BY <1>3, <1>5, <2>2, OtherMoves DEF thread, MarkInterrupted
  <2>3. QED
    BY <1>5, <2>1, <2>2, OtherMoves
<1>6. QED
  BY <1>1, <1>2, <1>4, <1>5, StepKinds

-----------------------------------------------------------------------------
(* The invariant.                                                         *)

\* Nobody has an answer before the Run starts.
LEMMA ReceiptsInit == Init => ReceiptsKept
BY DEF Init, ReceiptsKept

Progress == InFlowOrder /\ OneRuns /\ Announced /\ ContextInStep

Inv == Typed /\ Control /\ Progress

\* The inductive invariant of the Run.
THEOREM Invariance == Spec => []Inv
<1>1. Init => Inv
  BY TypeInit, ControlInit, OrderInit, RunsInit, AnnouncedInit, ContextInit
  DEF Inv, Progress
<1>2. Inv /\ [Next]_vars => Inv'
  BY TypeStep, CursorStep, ControlStep, OrderStep, RunsStep, AnnouncedStep, ContextStep
  DEF Inv, Typed, Progress
<1>3. QED
  BY <1>1, <1>2, PTL DEF Spec

\* A Run is terminal only once its thread has left the Flow.
LEMMA TerminalIsOver ==
  ASSUME Inv, status \in TerminalRun
  PROVE  worker \in Finally \cup {"gone"}
BY DEF Inv, Typed, TypeOK, Worker, Control, Admitting, StatusKnown, HandlerLocked,
       ActiveRun, TerminalRun

\* No Node is left running by a terminal Run (finish_run, mark_interrupted).
THEOREM NodesSettled == Spec => []SettledWhenTerminal
<1>1. Inv => SettledWhenTerminal
  BY TerminalIsOver
  DEF Inv, Progress, OneRuns, SettledWhenTerminal, RunningNodes, MayRun, Finally
<1>2. QED
  BY <1>1, Invariance, PTL

\* The journal of a terminal Run ends with the event of its status, whoever ended
\* the Run and wherever its process died.
THEOREM JournalEnds == Spec => []JournalEndsWithStatus
<1>1. Inv => JournalEndsWithStatus
  BY DEF Inv, Progress, Announced, Ends, JournalEndsWithStatus, TerminalRun
<1>2. QED
  BY <1>1, Invariance, PTL

\* Context holds the accepted Nodes in Flow order, and lacks at most the last.
THEOREM ContextInOrder == Spec => []ContextFollowsNodes
<1>1. Inv => ContextFollowsNodes
  BY DEF Inv, Progress, ContextInStep
<1>2. QED
  BY <1>1, Invariance, PTL

-----------------------------------------------------------------------------
(* What a step may never do.                                               *)

\* Admission steps are taken inside _run_lock.
LEMMA AdmitWhere == ASSUME Admit PROVE worker \in Admission
BY DEF Admit, StartRun, RunCreated, RunEffects, RunForked, ReuseNode, ReuseContext,
       NodeReused, WriteMetadata, StartThread, Journal, Step, Admission

\* Flow steps are taken inside the try block of execute.
LEMMA ExecuteWhere == ASSUME Execute PROVE worker \in TryLocked \cup TryFree
<1>1. CASE ResolveFails
  BY <1>1 DEF ResolveFails, Step, TryLocked, TryFree
<1>2. CASE CancelledAtSection("next")
  BY <1>2 DEF CancelledAtSection, Step, TryLocked, TryFree
<1>3. CASE NodeReady
  BY <1>3 DEF NodeReady, Journal, Step, TryLocked, TryFree
<1>4. CASE StartNode
  BY <1>4 DEF StartNode, Step, TryLocked, TryFree
<1>5. CASE ExecutorStarted
  BY <1>5 DEF ExecutorStarted, Journal, Step, TryLocked, TryFree
<1>6. CASE ExecutorReturns
  BY <1>6 DEF ExecutorReturns, Step, TryLocked, TryFree
<1>7. CASE ExecutorRaises
  BY <1>7 DEF ExecutorRaises, Step, TryLocked, TryFree
<1>8. CASE ExecutorCancelled
  BY <1>8 DEF ExecutorCancelled, Step, TryLocked, TryFree
<1>9. CASE CancelledAtSection("result")
  BY <1>9 DEF CancelledAtSection, Step, TryLocked, TryFree
<1>10. CASE MalformedResult
  BY <1>10 DEF MalformedResult, Step, TryLocked, TryFree
<1>11. CASE AcceptResult
  BY <1>11 DEF AcceptResult, Step, TryLocked, TryFree
<1>12. CASE RecordContext
  BY <1>12 DEF RecordContext, Step, TryLocked, TryFree
<1>13. CASE EvaluationPassed
  BY <1>13 DEF EvaluationPassed, Journal, Step, TryLocked, TryFree
<1>14. CASE ResultAccepted
  BY <1>14 DEF ResultAccepted, Journal, Step, TryLocked, TryFree
<1>15. CASE MakeDirectory
  BY <1>15 DEF MakeDirectory, Step, TryLocked, TryFree
<1>16. CASE RecordArtifact
  BY <1>16 DEF RecordArtifact, Step, TryLocked, TryFree
<1>17. CASE ArtifactCreated
  BY <1>17 DEF ArtifactCreated, Journal, Step, TryLocked, TryFree
<1>18. CASE NodeSucceeded
  BY <1>18 DEF NodeSucceeded, Step, TryLocked, TryFree
<1>19. CASE RejectResult
  BY <1>19 DEF RejectResult, Step, TryLocked, TryFree
<1>20. CASE RejectAccepted
  BY <1>20 DEF RejectAccepted, Journal, Step, TryLocked, TryFree
<1>21. CASE EvaluationRejected
  BY <1>21 DEF EvaluationRejected, Journal, Step, TryLocked, TryFree
<1>22. CASE NodeFailed
  BY <1>22 DEF NodeFailed, Journal, Step, TryLocked, TryFree
<1>23. CASE RunFailed
  BY <1>23 DEF RunFailed, Journal, Step, TryLocked, TryFree
<1>24. CASE FinishRejected
  BY <1>24 DEF FinishRejected, Finish, Step, TryLocked, TryFree
<1>25. CASE RunSucceeded
  BY <1>25 DEF RunSucceeded, Journal, Step, TryLocked, TryFree
<1>26. CASE FinishSucceeded
  BY <1>26 DEF FinishSucceeded, Finish, Step, TryLocked, TryFree
<1>27. QED
  BY <1>1, <1>2, <1>3, <1>4, <1>5, <1>6, <1>7, <1>8, <1>9, <1>10, <1>11, <1>12, <1>13,
     <1>14, <1>15, <1>16, <1>17, <1>18, <1>19, <1>20, <1>21, <1>22, <1>23, <1>24, <1>25,
     <1>26
  DEF Execute

\* Nobody writes to a terminal Run.
LEMMA TerminalStays ==
  ASSUME Inv, [Next]_vars, status \in TerminalRun PROVE UNCHANGED evidence
<1>1. worker \in Finally \cup {"gone"}
  BY TerminalIsOver
<1>2. ~Admit /\ ~Execute
  BY <1>1, AdmitWhere, ExecuteWhere DEF Admission, TryLocked, TryFree, Finally
<1>3. ASSUME Handle PROVE UNCHANGED evidence
  <2>1. CASE HandleCancelled
    BY <1>1, <2>1 DEF HandleCancelled, BeginFinishCancelled, Step, Finally, evidence
  <2>2. CASE HandleFailureOfCancelled
    BY <1>1, <2>2
    DEF HandleFailureOfCancelled, BeginFinishCancelled, Step, Finally, evidence
  <2>3. CASE CancelRunningNodes
    BY <1>1, <2>3 DEF CancelRunningNodes, Step, Finally, evidence
  <2>4. CASE NodesCancelled
    BY <1>1, <2>4 DEF NodesCancelled, Step, Finally, evidence
  <2>5. CASE RunCancelled
    BY <1>1, <2>5 DEF RunCancelled, Journal, Step, Finally, evidence
  <2>6. CASE FinishCancelled
    BY <1>1, <2>6 DEF FinishCancelled, Finish, Step, Finally, evidence
  <2>7. CASE HandleFailure
    BY <1>1, <2>7 DEF HandleFailure, Step, Finally, evidence
  <2>8. CASE FailureRecorded
    BY <1>1, <2>8 DEF FailureRecorded, Journal, Step, Finally, evidence
  <2>9. CASE FinishFailed
    BY <1>1, <2>9 DEF FinishFailed, Finish, Step, Finally, evidence
  <2>10. CASE RewriteMetadata
    BY <1>1, <2>10 DEF RewriteMetadata, Step, Finally, evidence
  <2>11. CASE ClearSlot
    BY <1>1, <2>11 DEF ClearSlot, Step, Finally, evidence
  <2>12. QED
    BY <1>3, <2>1, <2>2, <2>3, <2>4, <2>5, <2>6, <2>7, <2>8, <2>9, <2>10, <2>11
    DEF Handle
<1>4. CASE OperationRaises \/ Crash
  BY <1>4 DEF OperationRaises, Crash
<1>5. CASE Others
  BY <1>5, OtherMoves
  DEF Inv, StoreRequestCancel, MarkInterrupted, ActiveRun, TerminalRun, evidence
<1>6. QED
  BY <1>2, <1>3, <1>4, <1>5, StepKinds DEF Ending

\* Terminal evidence is immutable: status, Nodes, Context, Artifacts and journal.
THEOREM TerminalNeverRewritten == Spec => TerminalImmutable
<1>1. ASSUME Inv, [Next]_vars, status \in TerminalRun PROVE UNCHANGED evidence
  BY <1>1, TerminalStays
<1>2. QED
  BY <1>1, Invariance, PTL DEF Spec, TerminalImmutable

\* What a cancelled Run has, and what it may still become.
Kept == /\ UNCHANGED <<context, artifacts>>
        /\ \A n \in Nodes : nodes'[n] = nodes[n] \/ nodes'[n] \in {"cancelled", "failed"}

\* Once the cancellation is durable no step of the Flow is left to be taken.
LEMMA CancelledKeeps ==
  ASSUME Inv, [Next]_vars, status = "cancel_requested" PROVE Kept
<1> USE DEF Kept
<1>1. worker \notin Admission \cup TryLocked /\ (LockFree /\ worker \in TryFree => token)
  BY DEF Inv, Control, Admitting, StatusKnown, TokenComing, LockFree, Executing, Admission
<1>2. ~Admit
  BY <1>1, AdmitWhere
<1>3. ASSUME Execute PROVE Kept
  <2>1. CASE ResolveFails
    BY <1>1, <2>1 DEF ResolveFails, Step, TryLocked, TryFree, evidence
  <2>2. CASE CancelledAtSection("next")
    BY <1>1, <2>2 DEF CancelledAtSection, Step, TryLocked, TryFree, evidence
  <2>3. CASE NodeReady
    BY <1>1, <2>3 DEF NodeReady, Journal, Step, TryLocked, TryFree, evidence
  <2>4. CASE StartNode
    BY <1>1, <2>4 DEF StartNode, Step, TryLocked, TryFree, evidence
  <2>5. CASE ExecutorStarted
    BY <1>1, <2>5 DEF ExecutorStarted, Journal, Step, TryLocked, TryFree, evidence
  <2>6. CASE ExecutorReturns
    BY <1>1, <2>6 DEF ExecutorReturns, Step, TryLocked, TryFree, evidence
  <2>7. CASE ExecutorRaises
    BY <1>1, <2>7 DEF ExecutorRaises, Step, TryLocked, TryFree, evidence
  <2>8. CASE ExecutorCancelled
    BY <1>1, <2>8 DEF ExecutorCancelled, Step, TryLocked, TryFree, evidence
  <2>9. CASE CancelledAtSection("result")
    BY <1>1, <2>9 DEF CancelledAtSection, Step, TryLocked, TryFree, evidence
  <2>10. CASE MalformedResult
    BY <1>1, <2>10 DEF MalformedResult, Step, TryLocked, TryFree, evidence
  <2>11. CASE AcceptResult
    BY <1>1, <2>11 DEF AcceptResult, Step, TryLocked, TryFree, evidence
  <2>12. CASE RecordContext
    BY <1>1, <2>12 DEF RecordContext, Step, TryLocked, TryFree, evidence
  <2>13. CASE EvaluationPassed
    BY <1>1, <2>13 DEF EvaluationPassed, Journal, Step, TryLocked, TryFree, evidence
  <2>14. CASE ResultAccepted
    BY <1>1, <2>14 DEF ResultAccepted, Journal, Step, TryLocked, TryFree, evidence
  <2>15. CASE MakeDirectory
    BY <1>1, <2>15 DEF MakeDirectory, Step, TryLocked, TryFree, evidence
  <2>16. CASE RecordArtifact
    BY <1>1, <2>16 DEF RecordArtifact, Step, TryLocked, TryFree, evidence
  <2>17. CASE ArtifactCreated
    BY <1>1, <2>17 DEF ArtifactCreated, Journal, Step, TryLocked, TryFree, evidence
  <2>18. CASE NodeSucceeded
    BY <1>1, <2>18 DEF NodeSucceeded, Step, TryLocked, TryFree, evidence
  <2>19. CASE RejectResult
    BY <1>1, <2>19 DEF RejectResult, Step, TryLocked, TryFree, evidence
  <2>20. CASE RejectAccepted
    BY <1>1, <2>20 DEF RejectAccepted, Journal, Step, TryLocked, TryFree, evidence
  <2>21. CASE EvaluationRejected
    BY <1>1, <2>21 DEF EvaluationRejected, Journal, Step, TryLocked, TryFree, evidence
  <2>22. CASE NodeFailed
    BY <1>1, <2>22 DEF NodeFailed, Journal, Step, TryLocked, TryFree, evidence
  <2>23. CASE RunFailed
    BY <1>1, <2>23 DEF RunFailed, Journal, Step, TryLocked, TryFree, evidence
  <2>24. CASE FinishRejected
    BY <1>1, <2>24 DEF FinishRejected, Finish, Step, TryLocked, TryFree, evidence
  <2>25. CASE RunSucceeded
    BY <1>1, <2>25 DEF RunSucceeded, Journal, Step, TryLocked, TryFree, evidence
  <2>26. CASE FinishSucceeded
    BY <1>1, <2>26 DEF FinishSucceeded, Finish, Step, TryLocked, TryFree, evidence
  <2>27. QED
    BY <1>3, <2>1, <2>2, <2>3, <2>4, <2>5, <2>6, <2>7, <2>8, <2>9, <2>10, <2>11, <2>12,
       <2>13, <2>14, <2>15, <2>16, <2>17, <2>18, <2>19, <2>20, <2>21, <2>22, <2>23,
       <2>24, <2>25, <2>26
    DEF Execute
<1>4. CASE Ending
  BY <1>4, EndingLeaves DEF SettleRunning, Inv, Typed, TypeOK
<1>5. CASE Others
  BY <1>5, OtherMoves DEF MarkInterrupted, SettleRunning, Inv, Typed, TypeOK
<1>6. QED
  BY <1>2, <1>3, <1>4, <1>5, StepKinds

\* The executor's answer is worth nothing once the cancellation is durable, and
\* so is every later step of the Flow.
THEOREM CancelledAcceptsNothing == Spec => NothingAcceptedLate
<1>1. ASSUME Inv, [Next]_vars, status = "cancel_requested"
      PROVE  /\ UNCHANGED <<context, artifacts>>
             /\ \A n \in Nodes : nodes'[n] = nodes[n] \/ nodes'[n] \in {"cancelled", "failed"}
  BY <1>1, CancelledKeeps DEF Kept
<1>2. QED
  BY <1>1, Invariance, PTL DEF Spec, NothingAcceptedLate

-----------------------------------------------------------------------------
(* The promise of RunStatus.                                                *)

\* The Nodes the Run has accepted, as RunStatus sees them, change only with the
\* current Node.
Same == \A n \in Nodes : nodes'[n] \in Accepted <=> nodes[n] \in Accepted

\* RunStatus sees nothing of such a step.
LEMMA SameNodes == ASSUME Same PROVE UNCHANGED AcceptedNodes
BY DEF Same, AcceptedNodes

\* Settling the running Nodes accepts none and loses none.
LEMMA SettledSame ==
  ASSUME TypeOK,
         \/ UNCHANGED nodes
         \/ \E r \in {"cancelled", "failed"} : nodes' = SettleRunning(r)
  PROVE  Same
BY DEF TypeOK, Same, SettleRunning, Accepted

\* How the status moves.
StatusMove ==
  \/ UNCHANGED status
  \/ status = "absent" /\ status' = "running"
  \/ status = "running" /\ status' \in {"cancel_requested", "failed"}
  \/ status = "running" /\ status' = "succeeded" /\ AcceptedNodes = Nodes
  \/ status = "cancel_requested" /\ status' \in {"cancelled", "failed"}

\* How the current Node is accepted.
AcceptCurrent ==
  /\ status = "running" /\ UNCHANGED status
  /\ cursor \in Nodes \ AcceptedNodes
  /\ \A m \in Nodes : m < cursor => m \in AcceptedNodes
  /\ AcceptedNodes' = AcceptedNodes \cup {cursor}

\* Writing an accepting status for the current Node accepts it in Flow order.
LEMMA Accepts ==
  ASSUME Inv, cursor \in Nodes, worker \in BeforeAccept,
         status = "running", UNCHANGED status,
         NEW r \in Accepted, nodes' = [nodes EXCEPT ![cursor] = r]
  PROVE  AcceptCurrent
<1>1. cursor \in Nat /\ Nodes \subseteq Nat /\ nodes \in [Nodes -> NodeStatus]
  BY DEF Inv, Typed, TypeOK, Nodes
<1>2. \A n \in Nodes : nodes[n] \in Accepted <=> n < cursor
  BY DEF Inv, Progress, InFlowOrder
<1>3. \A n \in Nodes : nodes'[n] \in Accepted <=> n < cursor \/ n = cursor
  BY <1>1, <1>2
<1>4. AcceptedNodes' = AcceptedNodes \cup {cursor}
  BY <1>2, <1>3 DEF AcceptedNodes
<1>5. QED
  BY <1>1, <1>2, <1>4 DEF AcceptCurrent, AcceptedNodes

\* A step of the try block or of admission moves the status, accepts the current
\* Node, or is invisible.
Visible == (StatusMove /\ Same) \/ AcceptCurrent

\* Admission starts the Run and accepts the reused prefix Node by Node.
LEMMA AdmitVisible ==
  ASSUME Inv, Admit PROVE Visible
<1>0. Inv => Typed /\ Control
  BY DEF Inv
<1>1. CASE StartRun
  BY <1>0, <1>1 DEF StartRun, Step, Visible, StatusMove, Same, Control, Admitting
<1>2. CASE RunCreated
  BY <1>2 DEF RunCreated, Journal, Step, evidence, Visible, StatusMove, Same
<1>3. CASE RunEffects
  BY <1>3 DEF RunEffects, Journal, Step, evidence, Visible, StatusMove, Same
<1>4. CASE RunForked
  BY <1>4 DEF RunForked, Journal, Step, evidence, Visible, StatusMove, Same
<1>5. CASE ReuseNode
  <2>1. cursor \in Nodes /\ worker \in BeforeAccept /\ status = "running"
    BY <1>0, <1>5, CursorIsNode
    DEF ReuseNode, Step, AtNode, BeforeAccept, Control, Admitting, Admission
  <2>2. QED
    BY <1>5, <2>1, Accepts DEF ReuseNode, Accepted, Visible
<1>6. CASE ReuseContext
  BY <1>6 DEF ReuseContext, Step, evidence, Visible, StatusMove, Same
<1>7. CASE NodeReused
  BY <1>7 DEF NodeReused, Step, evidence, Visible, StatusMove, Same
<1>8. CASE WriteMetadata
  BY <1>8 DEF WriteMetadata, Step, evidence, Visible, StatusMove, Same
<1>9. CASE StartThread
  BY <1>9 DEF StartThread, Step, evidence, Visible, StatusMove, Same
<1>10. QED
  BY <1>1, <1>2, <1>3, <1>4, <1>5, <1>6, <1>7, <1>8, <1>9 DEF Admit

\* The Flow accepts one Node at a time and succeeds with all of them.
LEMMA ExecuteVisible ==
  ASSUME Inv, Execute PROVE Visible
<1>0. Inv => Typed /\ Control /\ InFlowOrder
  BY DEF Inv, Progress
<1>1. CASE ResolveFails
  BY <1>1 DEF ResolveFails, Step, evidence, Visible, StatusMove, Same
<1>2. CASE CancelledAtSection("next")
  BY <1>2 DEF CancelledAtSection, Step, evidence, Visible, StatusMove, Same
<1>3. CASE NodeReady
  BY <1>3 DEF NodeReady, Journal, Step, evidence, Visible, StatusMove, Same
<1>4. CASE StartNode
  <2>1. cursor \in Nodes /\ nodes[cursor] \notin Accepted /\ nodes \in [Nodes -> NodeStatus]
    BY <1>0, <1>4, CursorIsNode
    DEF StartNode, Step, AtNode, TryLocked, InFlowOrder, BeforeAccept, Typed, TypeOK,
        Nodes
  <2>2. Same
    BY <1>4, <2>1 DEF StartNode, Same, Accepted
  <2>3. QED
    BY <1>4, <2>2 DEF StartNode, Visible, StatusMove
<1>5. CASE ExecutorStarted
  BY <1>5 DEF ExecutorStarted, Journal, Step, evidence, Visible, StatusMove, Same
<1>6. CASE ExecutorReturns
  BY <1>6 DEF ExecutorReturns, Step, evidence, Visible, StatusMove, Same
<1>7. CASE ExecutorRaises
  BY <1>7 DEF ExecutorRaises, Step, evidence, Visible, StatusMove, Same
<1>8. CASE ExecutorCancelled
  BY <1>8 DEF ExecutorCancelled, Step, evidence, Visible, StatusMove, Same
<1>9. CASE CancelledAtSection("result")
  BY <1>9 DEF CancelledAtSection, Step, evidence, Visible, StatusMove, Same
<1>10. CASE MalformedResult
  BY <1>10 DEF MalformedResult, Step, evidence, Visible, StatusMove, Same
<1>11. CASE AcceptResult
  <2>1. cursor \in Nodes /\ worker \in BeforeAccept /\ status = "running"
    BY <1>0, <1>11, CursorIsNode
    DEF AcceptResult, Step, AtNode, BeforeAccept, Control, StatusKnown, TokenComing,
        LockFree,
        Executing, TryFree, ActiveRun
  <2>2. QED
    BY <1>11, <2>1, Accepts DEF AcceptResult, Accepted, Visible
<1>12. CASE RecordContext
  BY <1>12 DEF RecordContext, Step, evidence, Visible, StatusMove, Same
<1>13. CASE EvaluationPassed
  BY <1>13 DEF EvaluationPassed, Journal, Step, evidence, Visible, StatusMove, Same
<1>14. CASE ResultAccepted
  BY <1>14 DEF ResultAccepted, Journal, Step, evidence, Visible, StatusMove, Same
<1>15. CASE MakeDirectory
  BY <1>15 DEF MakeDirectory, Step, evidence, Visible, StatusMove, Same
<1>16. CASE RecordArtifact
  BY <1>16 DEF RecordArtifact, Step, evidence, Visible, StatusMove, Same
<1>17. CASE ArtifactCreated
  BY <1>17 DEF ArtifactCreated, Journal, Step, evidence, Visible, StatusMove, Same
<1>18. CASE NodeSucceeded
  BY <1>18 DEF NodeSucceeded, Step, evidence, Visible, StatusMove, Same
<1>19. CASE RejectResult
  <2>1. cursor \in Nodes /\ nodes[cursor] \notin Accepted /\ nodes \in [Nodes -> NodeStatus]
    BY <1>0, <1>19, CursorIsNode
    DEF RejectResult, Step, AtNode, TryLocked, InFlowOrder, BeforeAccept, Typed, TypeOK,
        Nodes
  <2>2. Same
    BY <1>19, <2>1 DEF RejectResult, Same, Accepted
  <2>3. QED
    BY <1>19, <2>2 DEF RejectResult, Visible, StatusMove
<1>20. CASE RejectAccepted
  BY <1>20 DEF RejectAccepted, Journal, Step, evidence, Visible, StatusMove, Same
<1>21. CASE EvaluationRejected
  BY <1>21 DEF EvaluationRejected, Journal, Step, evidence, Visible, StatusMove, Same
<1>22. CASE NodeFailed
  BY <1>22 DEF NodeFailed, Journal, Step, evidence, Visible, StatusMove, Same
<1>23. CASE RunFailed
  BY <1>23 DEF RunFailed, Journal, Step, evidence, Visible, StatusMove, Same
<1>24. CASE FinishRejected
  BY <1>24
  DEF FinishRejected, Finish, Finishable, Step, evidence, Visible, StatusMove, Same
<1>25. CASE RunSucceeded
  BY <1>25 DEF RunSucceeded, Journal, Step, evidence, Visible, StatusMove, Same
<1>26. CASE FinishSucceeded
  <2>1. AcceptedNodes = Nodes
    <3>1. \A n \in Nodes : n < N + 1
      BY LifecycleAssumption DEF Nodes
    <3>2. \A n \in Nodes : nodes[n] \in Accepted
      BY <1>0, <1>26, <3>1 DEF FinishSucceeded, Finish, Step, InFlowOrder, BeforeAccept
    <3>3. QED
      BY <3>2 DEF AcceptedNodes
  <2>2. QED
    BY <1>26, <2>1 DEF FinishSucceeded, Finish, Finishable, Visible, StatusMove, Same
<1>27. QED
  BY <1>1, <1>2, <1>3, <1>4, <1>5, <1>6, <1>7, <1>8, <1>9, <1>10, <1>11, <1>12, <1>13,
     <1>14, <1>15, <1>16, <1>17, <1>18, <1>19, <1>20, <1>21, <1>22, <1>23, <1>24, <1>25,
     <1>26
  DEF Execute

\* Handlers, exceptions and crashes only end the Run.
LEMMA EndingVisible ==
  ASSUME Inv, Ending PROVE Visible
<1>0. Same
  BY EndingLeaves, SettledSame DEF Inv, Typed
<1> SUFFICES StatusMove
  BY <1>0 DEF Visible
<1>1. CASE HandleCancelled
  BY <1>1
  DEF HandleCancelled, BeginFinishCancelled, StoreRequestCancel, Step, evidence,
      StatusMove, ActiveRun
<1>2. CASE HandleFailureOfCancelled
  BY <1>2
  DEF HandleFailureOfCancelled, BeginFinishCancelled, StoreRequestCancel, Step, evidence,
      StatusMove, ActiveRun
<1>3. CASE CancelRunningNodes
  BY <1>3 DEF CancelRunningNodes, Step, evidence, StatusMove, ActiveRun
<1>4. CASE NodesCancelled
  BY <1>4 DEF NodesCancelled, Step, evidence, StatusMove, ActiveRun
<1>5. CASE RunCancelled
  BY <1>5 DEF RunCancelled, Journal, Step, evidence, StatusMove, ActiveRun
<1>6. CASE FinishCancelled
  BY <1>6 DEF FinishCancelled, Finish, Finishable, Step, evidence, StatusMove, ActiveRun
<1>7. CASE HandleFailure
  BY <1>7 DEF HandleFailure, Step, evidence, StatusMove, ActiveRun
<1>8. CASE FailureRecorded
  BY <1>8 DEF FailureRecorded, Journal, Step, evidence, StatusMove, ActiveRun
<1>9. CASE FinishFailed
  BY <1>9 DEF FinishFailed, Finish, Finishable, Step, evidence, StatusMove, ActiveRun
<1>10. CASE RewriteMetadata
  BY <1>10 DEF RewriteMetadata, Step, evidence, StatusMove, ActiveRun
<1>11. CASE ClearSlot
  BY <1>11 DEF ClearSlot, Step, evidence, StatusMove, ActiveRun
<1>12. CASE OperationRaises \/ Crash
  BY <1>12 DEF OperationRaises, Crash, evidence, StatusMove
<1>13. QED
  BY <1>1, <1>2, <1>3, <1>4, <1>5, <1>6, <1>7, <1>8, <1>9, <1>10, <1>11, <1>12
  DEF Ending, Handle

\* Requests, shutdown and recovery only end the Run.
LEMMA OthersVisible ==
  ASSUME Inv, Others PROVE Visible
<1>1. Same
  BY OtherMoves, SettledSame DEF Inv, Typed, MarkInterrupted
<1>2. StatusMove
  BY OtherMoves DEF Inv, StoreRequestCancel, MarkInterrupted, ActiveRun, StatusMove
<1>3. QED
  BY <1>1, <1>2 DEF Visible

\* RunLifecycle implements RunStatus: with every interleaving, fault, crash and
\* restart a reader sees the lifecycle, Nodes accepted in Flow order while the
\* Run is running, and success only with every Node.
THEOREM KeepsPromise == Spec => ImplementsRunStatus
<1>1. Init => Promise!Init
  BY DEF Init, Promise!Init, Accepted
<1>2. ASSUME Inv, [Next]_vars PROVE [Promise!Next]_(Promise!vars)
  <2>1. Visible
    BY <1>2, StepKinds, AdmitVisible, ExecuteVisible, EndingVisible, OthersVisible
  <2>2. CASE StatusMove /\ Same
    <3>1. UNCHANGED AcceptedNodes
      BY <2>2, SameNodes
    <3>2. QED
      BY <2>2, <3>1
      DEF StatusMove, AcceptedNodes, Promise!Next, Promise!vars, Promise!StartRun,
          Promise!RequestCancel, Promise!Succeed, Promise!Cancel, Promise!Fail,
          Promise!Active, Promise!Nodes, Nodes
  <2>3. CASE AcceptCurrent
    <3>1. PICK c \in Nodes : c = cursor
      BY <2>3 DEF AcceptCurrent
    <3>2. /\ status = "running" /\ UNCHANGED status
          /\ c \notin AcceptedNodes
          /\ \A m \in Nodes : m < c => m \in AcceptedNodes
          /\ AcceptedNodes' = AcceptedNodes \cup {c}
      BY <2>3, <3>1 DEF AcceptCurrent
    <3>3. Promise!Nodes = Nodes
      BY DEF Promise!Nodes, Nodes
    <3>4. Promise!Accept(c)
      BY <3>2, <3>3 DEF AcceptedNodes, Promise!Accept
    <3>5. QED
      BY <3>3, <3>4 DEF Promise!Next
  <2>4. QED
    BY <2>1, <2>2, <2>3 DEF Visible
<1>3. QED
  BY <1>1, <1>2, Invariance, PTL DEF Spec, ImplementsRunStatus, Promise!Spec

-----------------------------------------------------------------------------
(* The answer to a cancellation.                                           *)

\* The Run's thread answers nobody.
LEMMA ThreadKeepsReceipts ==
  ASSUME Admit \/ Execute \/ Handle PROVE UNCHANGED receipt
<1>1. ASSUME Admit PROVE UNCHANGED receipt
  BY <1>1
  DEF Admit, StartRun, RunCreated, RunEffects, RunForked, ReuseNode, ReuseContext,
      NodeReused, WriteMetadata, StartThread, Journal, Finish, BeginFinishCancelled, Step,
      requests
<1>2. ASSUME Execute PROVE UNCHANGED receipt
  BY <1>2
  DEF Execute, ResolveFails, CancelledAtSection, NodeReady, StartNode, ExecutorStarted,
      ExecutorReturns, ExecutorRaises, ExecutorCancelled, MalformedResult, AcceptResult,
      RecordContext, EvaluationPassed, ResultAccepted, MakeDirectory, RecordArtifact,
      ArtifactCreated, NodeSucceeded, RejectResult, RejectAccepted, EvaluationRejected,
      NodeFailed, RunFailed, FinishRejected, RunSucceeded, FinishSucceeded, Journal,
      Finish, BeginFinishCancelled, Step, requests
<1>3. ASSUME Handle PROVE UNCHANGED receipt
  BY <1>3
  DEF Handle, HandleCancelled, HandleFailureOfCancelled, CancelRunningNodes,
      NodesCancelled, RunCancelled, FinishCancelled, HandleFailure, FailureRecorded,
      FinishFailed, RewriteMetadata, ClearSlot, Journal, Finish, BeginFinishCancelled,
      Step, requests
<1>4. QED
  BY <1>1, <1>2, <1>3

\* An accepted cancellation is never followed by running or succeeded.
LEMMA ReceiptsStep ==
  ASSUME Inv, ReceiptsKept, [Next]_vars
  PROVE  ReceiptsKept'
<1>1. CASE UNCHANGED receipt
  <2>1. StatusMove \/ UNCHANGED status
    BY StepKinds, AdmitVisible, ExecuteVisible, EndingVisible, OthersVisible
    DEF Visible, AcceptCurrent
  <2>2. status = "absent" => \A c \in Clients : receipt[c] # "accepted"
    BY DEF Inv, Control, Admitting
  <2>3. QED
    BY <1>1, <2>1, <2>2 DEF StatusMove, ReceiptsKept
<1>2. ASSUME NEW c \in Clients, ReadOutcome(c) \/ ConsoleCancel(c) \/ Reply(c)
      PROVE  ReceiptsKept'
  BY <1>2
  DEF ReadOutcome, ConsoleCancel, Reply, ReceiptsKept, Inv, Typed, TypeOK
<1>3. UNCHANGED receipt \/ \E c \in Clients : ReadOutcome(c) \/ ConsoleCancel(c) \/ Reply(c)
  <2>1. ASSUME Admit \/ Execute \/ Handle PROVE UNCHANGED receipt
    BY <2>1, ThreadKeepsReceipts
  <2>2. QED
    BY <2>1
    DEF Next, RunThread, Serve, Close, OperationRaises, Shutdown, ShutdownRequest,
        ShutdownToken, Closing, Crash, Restart, ReadSlot, Interrupt, CancelRequest,
        SetToken, vars, requests
<1>4. QED
  BY <1>1, <1>2, <1>3

\* A cancellation answered with accepted=true never finds its Run succeeded.
THEOREM AcceptedStaysAccepted == Spec => []AcceptedNeverSucceeds
<1>1. Spec => []ReceiptsKept
  BY Invariance, ReceiptsInit, ReceiptsStep, PTL DEF Spec
<1>2. ReceiptsKept => AcceptedNeverSucceeds
  BY DEF ReceiptsKept, AcceptedNeverSucceeds
<1>3. QED
  BY <1>1, <1>2, PTL

-----------------------------------------------------------------------------
(* What the thread leaves behind.                                          *)

\* The steps at which active_node_id names the current Node, and those after
\* which the Run's thread writes nothing more.
AtActive ==
  {"started", "executing", "result", "context", "evaluated", "accepted", "mkdir",
   "artifact", "artifact_event", "node_succeeded", "reject_accepted", "rejected",
   "node_failed", "run_failed", "finish_failed"}
Left == Finally \cup {"gone"}

\* The active Node was accepted, and then its Artifact was refused: mkdir met the
\* directory of an earlier one.
Orphaned ==
  /\ active \in ArtifactNodes
  /\ nodes[active] \in Accepted
  /\ \E k \in ArtifactNodes : k < active

\* _finish_cancelled then finds an active Node that is not running, and raises
\* before it finishes the Run.
NodeLost == status = "cancel_requested" /\ Orphaned

\* A Run its thread has left is over (execute's handlers finish it whatever
\* happened): only an operation that raised, or the lost Node, leaves it active.
Concludes ==
  metadata /\ up /\ worker \in Left /\ status \in ActiveRun => faults > 0 \/ NodeLost

\* While nothing has raised: the directory is the work of an Artifact Node at or
\* before the current one,
DirectoryKnown ==
  /\ worker \in Admission => ~directory
  /\ directory /\ worker \in TryLocked \cup TryFree =>
       \/ \E k \in ArtifactNodes : k < cursor
       \/ /\ cursor \in ArtifactNodes
          /\ worker \in {"artifact", "artifact_event", "node_succeeded"}

\* and the active Node is the current one, and is running until its result is
\* accepted; the handlers find it running, unless it is lost.
ActiveKnown ==
  /\ worker \in Admission \cup {"next", "start_node", "finish_succeeded"} => active = 0
  /\ worker \in AtActive => active = cursor
  /\ worker = "mkdir" => cursor \in ArtifactNodes
  /\ worker \in MayRun => nodes[cursor] = "running"
  /\ worker \in {"except", "cancelled", "cancel_nodes"} =>
       active = 0 \/ nodes[active] = "running" \/ Orphaned
  /\ worker = "node_cancelled" => active = 0 \/ active \in stopped \/ Orphaned

Unbroken == faults = 0 => DirectoryKnown /\ ActiveKnown /\ Concludes

\* A step of the thread is one step of it: nothing else moves.
LEMMA ThreadStep ==
  ASSUME RunThread PROVE UNCHANGED <<up, start, requests, faults>>
<1>1. Admit => UNCHANGED <<up, start, requests, faults>>
  BY DEF Admit, StartRun, Step, RunCreated, Journal, RunEffects, RunForked, ReuseNode,
         ReuseContext, NodeReused, WriteMetadata, StartThread
<1>2. Execute => UNCHANGED <<up, start, requests, faults>>
  BY DEF Execute, ResolveFails, Step, CancelledAtSection, NodeReady, Journal, StartNode,
         ExecutorStarted, ExecutorReturns, ExecutorRaises, ExecutorCancelled,
         MalformedResult, AcceptResult, RecordContext, EvaluationPassed, ResultAccepted,
         MakeDirectory, RecordArtifact, ArtifactCreated, NodeSucceeded, RejectResult,
         RejectAccepted, EvaluationRejected, NodeFailed, RunFailed, FinishRejected,
         Finish, RunSucceeded, FinishSucceeded
<1>3. Handle => UNCHANGED <<up, start, requests, faults>>
  BY DEF Handle, HandleCancelled, BeginFinishCancelled, Step, HandleFailureOfCancelled,
         CancelRunningNodes, NodesCancelled, RunCancelled, Journal, FinishCancelled,
         Finish, HandleFailure, FailureRecorded, FinishFailed, RewriteMetadata,
         ClearSlot
<1>4. QED
  BY <1>1, <1>2, <1>3 DEF RunThread

\* Nothing is left behind before the Run starts.
LEMMA UnbrokenInit == Init => Unbroken
BY DEF Init, Unbroken, DirectoryKnown, ActiveKnown, Concludes, Left, Finally, AtActive,
       MayRun, Admission, TryLocked, TryFree

\* Every step that does not raise keeps the account of what the thread leaves.
LEMMA UnbrokenStep ==
  ASSUME Inv, Unbroken, [Next]_vars
  PROVE  Unbroken'
<1> SUFFICES ASSUME faults' = 0 PROVE (DirectoryKnown /\ ActiveKnown /\ Concludes)'
  BY DEF Unbroken
<1> USE DEF DirectoryKnown, ActiveKnown, Concludes, NodeLost, Orphaned, Left, Finally,
            AtActive, MayRun, Admission, TryLocked, TryFree
<1>0. /\ TypeOK
      /\ Control
      /\ worker \in AfterAccept => nodes[cursor] \in Accepted
      /\ worker \in AtNode => cursor \in Nodes
  <2>1. ASSUME worker \in AfterAccept PROVE nodes[cursor] \in Accepted
    <3>1. worker \in AtNode
      BY <2>1 DEF AfterAccept, AtNode
    <3>2. cursor \in Nodes
      BY <3>1, CursorIsNode DEF Inv
    <3>3. QED
      BY <2>1, <3>2 DEF Inv, Progress, InFlowOrder, Nodes
  <2>2. QED
    BY <2>1, CursorIsNode DEF Inv, Typed
<1>1. ASSUME faults = 0, Admit PROVE (DirectoryKnown /\ ActiveKnown /\ Concludes)'
  <2> USE <1>0, <1>1 DEF Unbroken, evidence, requests
  <2>1. CASE StartRun
    BY <2>1 DEF StartRun, Step
  <2>2. CASE RunCreated
    BY <2>2 DEF RunCreated, Journal, Step
  <2>3. CASE RunEffects
    BY <2>3 DEF RunEffects, Journal, Step
  <2>4. CASE RunForked
    BY <2>4 DEF RunForked, Journal, Step
  <2>5. CASE ReuseNode
    BY <2>5 DEF ReuseNode, Step
  <2>6. CASE ReuseContext
    BY <2>6 DEF ReuseContext, Step
  <2>7. CASE NodeReused
    BY <2>7 DEF NodeReused, Step
  <2>8. CASE WriteMetadata
    BY <2>8 DEF WriteMetadata, Step
  <2>9. CASE StartThread
    BY <2>9 DEF StartThread, Step
  <2>10. QED
    BY <1>1, <2>1, <2>2, <2>3, <2>4, <2>5, <2>6, <2>7, <2>8, <2>9
    DEF Admit
<1>2. ASSUME faults = 0, Execute PROVE (DirectoryKnown /\ ActiveKnown /\ Concludes)'
  <2> USE <1>0, <1>2, LifecycleAssumption
      DEF Unbroken, evidence, requests, AtNode, AfterAccept, Accepted, TypeOK, Nodes
  <2>1. CASE ResolveFails
    BY <2>1 DEF ResolveFails, Step
  <2>2. CASE CancelledAtSection("next")
    BY <2>2 DEF CancelledAtSection, Step
  <2>3. CASE NodeReady
    BY <2>3 DEF NodeReady, Journal, Step
  <2>4. CASE StartNode
    BY <2>4 DEF StartNode, Step
  <2>5. CASE ExecutorStarted
    BY <2>5 DEF ExecutorStarted, Journal, Step
  <2>6. CASE ExecutorReturns
    BY <2>6 DEF ExecutorReturns, Step
  <2>7. CASE ExecutorRaises
    BY <2>7 DEF ExecutorRaises, Step
  <2>8. CASE ExecutorCancelled
    BY <2>8 DEF ExecutorCancelled, Step
  <2>9. CASE CancelledAtSection("result")
    BY <2>9 DEF CancelledAtSection, Step
  <2>10. CASE MalformedResult
    BY <2>10 DEF MalformedResult, Step
  <2>11. CASE AcceptResult
    BY <2>11 DEF AcceptResult, Step
  <2>12. CASE RecordContext
    BY <2>12 DEF RecordContext, Step
  <2>13. CASE EvaluationPassed
    BY <2>13 DEF EvaluationPassed, Journal, Step
  <2>14. CASE ResultAccepted
    BY <2>14 DEF ResultAccepted, Journal, Step
  <2>15. CASE MakeDirectory
    BY <2>15 DEF MakeDirectory, Step
  <2>16. CASE RecordArtifact
    BY <2>16 DEF RecordArtifact, Step
  <2>17. CASE ArtifactCreated
    BY <2>17 DEF ArtifactCreated, Journal, Step
  <2>18. CASE NodeSucceeded
    BY <2>18 DEF NodeSucceeded, Step
  <2>19. CASE RejectResult
    BY <2>19 DEF RejectResult, Step
  <2>20. CASE RejectAccepted
    BY <2>20 DEF RejectAccepted, Journal, Step
  <2>21. CASE EvaluationRejected
    BY <2>21 DEF EvaluationRejected, Journal, Step
  <2>22. CASE NodeFailed
    BY <2>22 DEF NodeFailed, Journal, Step
  <2>23. CASE RunFailed
    BY <2>23 DEF RunFailed, Journal, Step
  <2>24. CASE FinishRejected
    BY <2>24
    DEF FinishRejected, Finish, Finishable, Step, Control, StatusKnown, TerminalRun,
        ActiveRun
  <2>25. CASE RunSucceeded
    BY <2>25 DEF RunSucceeded, Journal, Step
  <2>26. CASE FinishSucceeded
    BY <2>26
    DEF FinishSucceeded, Finish, Finishable, Step, Control, StatusKnown, TerminalRun,
        ActiveRun
  <2>27. QED
    BY <1>2, <2>1, <2>2, <2>3, <2>4, <2>5, <2>6, <2>7, <2>8, <2>9, <2>10, <2>11, <2>12,
       <2>13, <2>14, <2>15, <2>16, <2>17, <2>18, <2>19, <2>20, <2>21, <2>22, <2>23,
       <2>24, <2>25, <2>26
    DEF Execute
<1>3. ASSUME faults = 0, Handle PROVE (DirectoryKnown /\ ActiveKnown /\ Concludes)'
  <2> USE <1>0, <1>3 DEF Unbroken, evidence, requests, Control, StatusKnown,
      HandlerLocked, HandlerFree, ActiveRun, TypeOK
  <2>1. CASE HandleCancelled
    BY <2>1 DEF HandleCancelled, BeginFinishCancelled, StoreRequestCancel, Step
  <2>2. CASE HandleFailureOfCancelled
    BY <2>2 DEF HandleFailureOfCancelled, BeginFinishCancelled, StoreRequestCancel, Step
  <2>3. CASE CancelRunningNodes
    <3>1. /\ worker' = "node_cancelled" /\ worker = "cancel_nodes"
          /\ nodes' = SettleRunning("cancelled") /\ stopped' = RunningNodes
          /\ UNCHANGED <<active, directory>>
      BY <2>3 DEF CancelRunningNodes, Step
    <3>2. active # 0 /\ nodes[active] = "running" => active \in stopped'
      BY <1>0, <3>1 DEF RunningNodes, TypeOK, Nodes
    <3>3. Orphaned => Orphaned'
      BY <3>1, LifecycleAssumption DEF SettleRunning, Accepted
    <3>4. QED
      BY <3>1, <3>2, <3>3
  <2>4. CASE NodesCancelled
    BY <2>4 DEF NodesCancelled, Step
  <2>5. CASE RunCancelled
    BY <2>5 DEF RunCancelled, Journal, Step
  <2>6. CASE FinishCancelled
    BY <2>6 DEF FinishCancelled, Finish, Finishable, Step
  <2>7. CASE HandleFailure
    BY <2>7 DEF HandleFailure, Step
  <2>8. CASE FailureRecorded
    BY <2>8 DEF FailureRecorded, Journal, Step
  <2>9. CASE FinishFailed
    BY <2>9 DEF FinishFailed, Finish, Finishable, Step
  <2>10. CASE RewriteMetadata
    BY <2>10 DEF RewriteMetadata, Step
  <2>11. CASE ClearSlot
    BY <2>11 DEF ClearSlot, Step
  <2>12. QED
    BY <1>3, <2>1, <2>2, <2>3, <2>4, <2>5, <2>6, <2>7, <2>8, <2>9, <2>10, <2>11
    DEF Handle
<1>4. CASE OperationRaises
  BY <1>0, <1>4 DEF OperationRaises, TypeOK
<1>5. CASE Crash
  BY <1>5 DEF Crash
<1>6. ASSUME faults = 0, Others PROVE (DirectoryKnown /\ ActiveKnown /\ Concludes)'
  <2>1. /\ UNCHANGED <<thread, directory, metadata, faults>>
        /\ UNCHANGED up \/ Restart
    BY <1>0, <1>6, OtherMoves
    DEF Others, ReadOutcome, ConsoleCancel, Serve, ReadSlot, Interrupt, CancelRequest,
        SetToken, Reply, Request, Shutdown, Close, ShutdownRequest, ShutdownToken,
        Closing, Restart, vars
  <2>2. UNCHANGED <<worker, cursor, active, verdict, stopped, directory, metadata, faults>>
    BY <2>1 DEF thread
  <2>3. CASE Restart
    <3>1. worker = "gone"
      BY <1>0, <2>3 DEF Restart, Control, Owned
    <3>2. metadata => status' \notin ActiveRun
      BY <2>3 DEF Restart, MarkInterrupted, ActiveRun
    <3>3. QED
      BY <2>2, <3>1, <3>2
  <2>4. CASE UNCHANGED up /\ UNCHANGED <<status, nodes>>
    BY <1>6, <2>2, <2>4 DEF Unbroken
  <2>5. CASE UNCHANGED up /\ UNCHANGED nodes /\ StoreRequestCancel
    BY <1>6, <2>2, <2>5 DEF Unbroken, StoreRequestCancel, ActiveRun
  <2>6. CASE UNCHANGED up /\ worker = "gone" /\ MarkInterrupted
    <3>1. status' \notin ActiveRun \/ UNCHANGED <<status, nodes>>
      BY <2>6 DEF MarkInterrupted, ActiveRun
    <3>2. QED
      BY <1>6, <2>2, <2>4, <2>6, <3>1 DEF Unbroken
  <2>7. QED
    BY <1>0, <1>6, <2>1, <2>3, <2>4, <2>5, <2>6, OtherMoves
<1>7. Admit \/ Execute \/ Handle \/ Others => faults = 0
  <2>1. Admit \/ Execute \/ Handle => faults = 0
    BY ThreadStep DEF RunThread
  <2>2. Others => faults = 0
    BY DEF Others, ReadOutcome, ConsoleCancel, Serve, ReadSlot, Interrupt, CancelRequest,
       SetToken, Reply, Request, Shutdown, Close, ShutdownRequest, ShutdownToken,
       Closing, Restart, vars
  <2>3. QED
    BY <2>1, <2>2
<1>8. QED
  BY <1>1, <1>2, <1>3, <1>4, <1>5, <1>6, <1>7, StepKinds DEF Ending

\* A Run its thread has left is over, unless an operation raised or the active
\* Node was lost (execute and _finish_cancelled).
THEOREM RunConcludes == Spec => []Concludes
<1>1. Init => Unbroken
  BY UnbrokenInit
<1>2. Inv /\ Unbroken /\ [Next]_vars => Unbroken'
  BY UnbrokenStep
<1>3. Inv /\ Unbroken => Concludes
  BY LifecycleAssumption DEF Inv, Typed, TypeOK, Unbroken, Concludes
<1>4. QED
  BY <1>1, <1>2, <1>3, Invariance, PTL DEF Spec

\* The thread of a Run does not return from _execute_admitted_run before the Run
\* is over.
LeftIsOver == metadata /\ up /\ worker \in Left => status \in TerminalRun

\* So it is in a Flow with one Artifact while no operation raises.
THEOREM SoundRunIsOver ==
  ASSUME MaxFaults = 0, \A k, m \in ArtifactNodes : k = m
  PROVE  Spec => []LeftIsOver
<1>1. Inv /\ Concludes => LeftIsOver
  <2> SUFFICES ASSUME Inv, Concludes, metadata, up, worker \in Left
               PROVE  status \in TerminalRun
    BY DEF LeftIsOver
  <2>1. faults = 0 /\ TypeOK /\ Control
    BY DEF Inv, Typed, TypeOK
  <2>2. status # "absent"
    BY <2>1 DEF Control, Admitting
  <2>3. ~NodeLost
    <3>1. ASSUME NEW k \in ArtifactNodes, active \in ArtifactNodes, k < active
          PROVE  FALSE
      <4>1. k = active /\ active \in Nat
        BY <3>1, LifecycleAssumption DEF Nodes
      <4>2. QED
        BY <3>1, <4>1
    <3>2. QED
      BY <3>1 DEF NodeLost, Orphaned
  <2>4. status \notin ActiveRun
    BY <2>1, <2>3 DEF Concludes
  <2>5. QED
    BY <2>1, <2>2, <2>4 DEF TypeOK
<1>2. QED
  BY <1>1, Invariance, RunConcludes, PTL

-----------------------------------------------------------------------------
(* How long the thread can run.                                            *)

\* How far the thread is from its end within one Node of the Flow,
StepsInNode ==
  CASE worker = "gone" -> 0 [] worker = "clear" -> 1 [] worker = "ended" -> 2
    [] worker \in {"finish_cancelled", "fail_finish"} -> 3
    [] worker \in {"run_cancelled", "fail_event"} -> 4
    [] worker = "node_cancelled" -> 5 [] worker = "cancel_nodes" -> 6
    [] worker \in {"cancelled", "except"} -> 7
    [] worker \in {"finish_failed", "finish_succeeded"} -> 8
    [] worker = "run_failed" -> 9 [] worker = "node_failed" -> 10
    [] worker = "rejected" -> 11
    [] worker \in {"reject_accepted", "node_succeeded"} -> 12
    [] worker = "artifact_event" -> 13 [] worker = "artifact" -> 14
    [] worker = "mkdir" -> 15 [] worker = "accepted" -> 16
    [] worker = "evaluated" -> 17 [] worker = "context" -> 18
    [] worker = "result" -> 19 [] worker = "executing" -> 20
    [] worker = "started" -> 21 [] worker = "start_node" -> 22
    [] worker = "next" -> 23 [] worker = "thread" -> 24 [] worker = "metadata" -> 25
    [] worker = "reused" -> 26 [] worker = "reuse_context" -> 27
    [] worker = "reuse" -> 28 [] worker = "forked" -> 29 [] worker = "effects" -> 30
    [] worker = "created" -> 31 [] worker = "start_run" -> 32

\* and an upper bound on the steps it may still take.
StepsLeft == 33 * (N + 1 - cursor) + StepsInNode

\* The thread of a Run has no loop but the one over the Nodes: each of its steps,
\* one that raises included, brings it nearer to its end, and nobody sets it back.
RunsDown ==
  [][/\ StepsLeft \in Nat
     /\ StepsLeft' <= StepsLeft
     /\ RunThread \/ OperationRaises => StepsLeft' < StepsLeft]_vars

\* A step of the thread.
Nearer == StepsLeft' < StepsLeft

\* Every step of the thread brings it nearer to its end.
LEMMA ThreadNearer ==
  ASSUME Typed, Typed', RunThread \/ OperationRaises
  PROVE  Nearer
<1>0. N \in Nat /\ cursor \in Nat /\ cursor' \in Nat
  BY LifecycleAssumption DEF Typed, TypeOK
<1> USE <1>0 DEF Nearer, StepsLeft, StepsInNode
<1>1. ASSUME Admit PROVE Nearer
  <2>1. CASE StartRun
    BY <2>1 DEF StartRun, Step
  <2>2. CASE RunCreated
    BY <2>2 DEF RunCreated, Journal, Step
  <2>3. CASE RunEffects
    BY <2>3 DEF RunEffects, Journal, Step
  <2>4. CASE RunForked
    BY <2>4 DEF RunForked, Journal, Step
  <2>5. CASE ReuseNode
    BY <2>5 DEF ReuseNode, Step
  <2>6. CASE ReuseContext
    BY <2>6 DEF ReuseContext, Step
  <2>7. CASE NodeReused
    BY <2>7 DEF NodeReused, Step
  <2>8. CASE WriteMetadata
    BY <2>8 DEF WriteMetadata, Step
  <2>9. CASE StartThread
    BY <2>9 DEF StartThread, Step
  <2>10. QED
    BY <1>1, <2>1, <2>2, <2>3, <2>4, <2>5, <2>6, <2>7, <2>8, <2>9
    DEF Admit
<1>2. ASSUME Execute PROVE Nearer
  <2>1. CASE ResolveFails
    BY <2>1 DEF ResolveFails, Step
  <2>2. CASE CancelledAtSection("next")
    BY <2>2 DEF CancelledAtSection, Step
  <2>3. CASE NodeReady
    BY <2>3 DEF NodeReady, Journal, Step
  <2>4. CASE StartNode
    BY <2>4 DEF StartNode, Step
  <2>5. CASE ExecutorStarted
    BY <2>5 DEF ExecutorStarted, Journal, Step
  <2>6. CASE ExecutorReturns
    BY <2>6 DEF ExecutorReturns, Step
  <2>7. CASE ExecutorRaises
    BY <2>7 DEF ExecutorRaises, Step
  <2>8. CASE ExecutorCancelled
    BY <2>8 DEF ExecutorCancelled, Step
  <2>9. CASE CancelledAtSection("result")
    BY <2>9 DEF CancelledAtSection, Step
  <2>10. CASE MalformedResult
    BY <2>10 DEF MalformedResult, Step
  <2>11. CASE AcceptResult
    BY <2>11 DEF AcceptResult, Step
  <2>12. CASE RecordContext
    BY <2>12 DEF RecordContext, Step
  <2>13. CASE EvaluationPassed
    BY <2>13 DEF EvaluationPassed, Journal, Step
  <2>14. CASE ResultAccepted
    BY <2>14 DEF ResultAccepted, Journal, Step
  <2>15. CASE MakeDirectory
    BY <2>15 DEF MakeDirectory, Step
  <2>16. CASE RecordArtifact
    BY <2>16 DEF RecordArtifact, Step
  <2>17. CASE ArtifactCreated
    BY <2>17 DEF ArtifactCreated, Journal, Step
  <2>18. CASE NodeSucceeded
    BY <2>18 DEF NodeSucceeded, Step
  <2>19. CASE RejectResult
    BY <2>19 DEF RejectResult, Step
  <2>20. CASE RejectAccepted
    BY <2>20 DEF RejectAccepted, Journal, Step
  <2>21. CASE EvaluationRejected
    BY <2>21 DEF EvaluationRejected, Journal, Step
  <2>22. CASE NodeFailed
    BY <2>22 DEF NodeFailed, Journal, Step
  <2>23. CASE RunFailed
    BY <2>23 DEF RunFailed, Journal, Step
  <2>24. CASE FinishRejected
    BY <2>24 DEF FinishRejected, Finish, Finishable, Step, TryLocked
  <2>25. CASE RunSucceeded
    BY <2>25 DEF RunSucceeded, Journal, Step
  <2>26. CASE FinishSucceeded
    BY <2>26 DEF FinishSucceeded, Finish, Finishable, Step, TryLocked
  <2>27. QED
    BY <1>2, <2>1, <2>2, <2>3, <2>4, <2>5, <2>6, <2>7, <2>8, <2>9, <2>10, <2>11, <2>12,
       <2>13, <2>14, <2>15, <2>16, <2>17, <2>18, <2>19, <2>20, <2>21, <2>22, <2>23,
       <2>24, <2>25, <2>26
    DEF Execute
<1>3. ASSUME Handle PROVE Nearer
  <2>1. CASE HandleCancelled
    BY <2>1 DEF HandleCancelled, BeginFinishCancelled, StoreRequestCancel, Step
  <2>2. CASE HandleFailureOfCancelled
    BY <2>2 DEF HandleFailureOfCancelled, BeginFinishCancelled, StoreRequestCancel, Step
  <2>3. CASE CancelRunningNodes
    BY <2>3 DEF CancelRunningNodes, Step
  <2>4. CASE NodesCancelled
    BY <2>4 DEF NodesCancelled, Step
  <2>5. CASE RunCancelled
    BY <2>5 DEF RunCancelled, Journal, Step
  <2>6. CASE FinishCancelled
    BY <2>6 DEF FinishCancelled, Finish, Finishable, Step, TryLocked
  <2>7. CASE HandleFailure
    BY <2>7 DEF HandleFailure, Step
  <2>8. CASE FailureRecorded
    BY <2>8 DEF FailureRecorded, Journal, Step
  <2>9. CASE FinishFailed
    BY <2>9 DEF FinishFailed, Finish, Finishable, Step, TryLocked
  <2>10. CASE RewriteMetadata
    BY <2>10 DEF RewriteMetadata, Step
  <2>11. CASE ClearSlot
    BY <2>11 DEF ClearSlot, Step
  <2>12. QED
    BY <1>3, <2>1, <2>2, <2>3, <2>4, <2>5, <2>6, <2>7, <2>8, <2>9, <2>10, <2>11
    DEF Handle
<1>4. CASE OperationRaises
  BY <1>4 DEF OperationRaises, Admission, TryLocked, HandlerLocked, HandlerFree
<1>5. QED
  BY <1>1, <1>2, <1>3, <1>4 DEF RunThread

\* The thread of a Run takes a number of steps bounded by the length of its Flow.
THEOREM ThreadRunsDown == Spec => RunsDown
<1>1. ASSUME Typed, Typed', Control, [Next]_vars
      PROVE  /\ StepsLeft \in Nat
             /\ StepsLeft' <= StepsLeft
             /\ RunThread \/ OperationRaises => StepsLeft' < StepsLeft
  <2>0. /\ N \in Nat
        /\ cursor \in Nat /\ cursor <= N + 1 /\ worker \in Worker
        /\ cursor' \in Nat /\ cursor' <= N + 1 /\ worker' \in Worker
    BY <1>1, LifecycleAssumption DEF Typed, TypeOK
  <2>1. StepsInNode \in Nat /\ StepsInNode' \in Nat
    BY <2>0
    DEF StepsInNode, Worker, Admission, TryLocked, TryFree, HandlerLocked, HandlerFree,
        Finally
  <2>2. StepsLeft \in Nat /\ StepsLeft' \in Nat
    <3>1. ASSUME NEW c \in Nat, c <= N + 1, NEW r \in Nat
          PROVE  33 * (N + 1 - c) + r \in Nat
      BY <2>0, <3>1
    <3>2. QED
      BY <2>0, <2>1, <3>1 DEF StepsLeft
  <2>3. CASE RunThread \/ OperationRaises
    BY <1>1, <2>2, <2>3, ThreadNearer DEF Nearer
  <2>4. CASE Crash
    <3>1. StepsInNode' = 0 /\ cursor' = cursor
      BY <2>4 DEF Crash, StepsInNode
    <3>2. StepsLeft' <= StepsLeft
      BY <2>0, <2>1, <3>1 DEF StepsLeft
    <3>3. QED
      BY <1>1, <2>2, <2>3, <3>2
  <2>5. CASE Others
    <3>1. UNCHANGED StepsLeft
      BY <1>1, <2>5, OtherMoves DEF thread, StepsLeft, StepsInNode
    <3>2. QED
      BY <1>1, <2>2, <2>3, <3>1
  <2>6. QED
    BY <1>1, <2>2, <2>3, <2>4, <2>5, StepKinds DEF Ending, RunThread
<1>2. QED
  BY <1>1, Invariance, PTL DEF Spec, RunsDown, Inv
-----------------------------------------------------------------------------
(* The slot and the thread.                                                *)

\* The workspace's run slot is taken exactly as long as the thread executes its
\* Run or is in finally.  Only an exception in finally itself, when app-run.json
\* is rewritten, leaves it taken with no thread behind it.
SlotFollowsThread ==
  /\ slot => \/ worker \in Executing \cup Finally
             \/ worker = "gone" /\ faults > 0
  /\ worker \in Executing \cup Finally => slot

\* The first half: nobody else is in the slot.
SlotHasThread ==
  slot => worker \in Executing \cup Finally \/ (worker = "gone" /\ faults > 0)

\* A step of the try block stays in the thread.
LEMMA ExecuteMoves ==
  ASSUME Execute PROVE worker' \in Executing \cup Finally
<1> USE DEF Executing, TryLocked, TryFree, HandlerFree, Finally
<1>1. CASE ResolveFails \/ CancelledAtSection("next") \/ NodeReady \/ StartNode
  BY <1>1 DEF ResolveFails, CancelledAtSection, NodeReady, StartNode, Journal, Step
<1>2. CASE \/ ExecutorStarted \/ ExecutorReturns \/ ExecutorRaises
           \/ ExecutorCancelled \/ CancelledAtSection("result") \/ MalformedResult
  BY <1>2
  DEF ExecutorStarted, ExecutorReturns, ExecutorRaises, ExecutorCancelled,
      CancelledAtSection, MalformedResult, Journal, Step
<1>3. CASE AcceptResult \/ RecordContext \/ EvaluationPassed \/ ResultAccepted
  BY <1>3 DEF AcceptResult, RecordContext, EvaluationPassed, ResultAccepted, Journal, Step
<1>4. CASE MakeDirectory \/ RecordArtifact \/ ArtifactCreated \/ NodeSucceeded
  BY <1>4 DEF MakeDirectory, RecordArtifact, ArtifactCreated, NodeSucceeded, Journal, Step
<1>5. CASE RejectResult \/ RejectAccepted \/ EvaluationRejected \/ NodeFailed
  BY <1>5 DEF RejectResult, RejectAccepted, EvaluationRejected, NodeFailed, Journal, Step
<1>6. CASE RunFailed \/ RunSucceeded
  BY <1>6 DEF RunFailed, RunSucceeded, Journal, Step
<1>7. CASE FinishRejected
  BY <1>7 DEF FinishRejected, Finish, Step
<1>8. CASE FinishSucceeded
  BY <1>8 DEF FinishSucceeded, Finish, Step
<1>9. QED
  BY <1>1, <1>2, <1>3, <1>4, <1>5, <1>6, <1>7, <1>8 DEF Execute

\* A step of admission before the last leaves the slot alone and stays in it.
LEMMA AdmitMoves ==
  ASSUME Admit
  PROVE  StartThread \/ (UNCHANGED slot /\ worker' \in Admission)
<1> USE DEF Admission
<1>1. CASE StartRun
  BY <1>1 DEF StartRun, Step
<1>2. CASE RunCreated
  BY <1>2 DEF RunCreated, Journal, Step
<1>3. CASE RunEffects
  BY <1>3 DEF RunEffects, Journal, Step
<1>4. CASE RunForked
  BY <1>4 DEF RunForked, Journal, Step
<1>5. CASE ReuseNode
  BY <1>5 DEF ReuseNode, Step
<1>6. CASE ReuseContext
  BY <1>6 DEF ReuseContext, Step
<1>7. CASE NodeReused
  BY <1>7 DEF NodeReused, Step
<1>8. CASE WriteMetadata
  BY <1>8 DEF WriteMetadata, Step
<1>9. QED
  BY <1>1, <1>2, <1>3, <1>4, <1>5, <1>6, <1>7, <1>8 DEF Admit

\* A handler goes on, or clears the slot.
LEMMA HandleMoves ==
  ASSUME Handle
  PROVE  ClearSlot \/ worker' \in HandlerLocked \cup HandlerFree \cup Finally
<1> USE DEF HandlerLocked, HandlerFree, Finally, TryLocked
<1>1. CASE HandleCancelled \/ HandleFailureOfCancelled
  BY <1>1 DEF HandleCancelled, HandleFailureOfCancelled, BeginFinishCancelled, Step
<1>2. CASE CancelRunningNodes \/ NodesCancelled
  BY <1>2 DEF CancelRunningNodes, NodesCancelled, Step
<1>3. CASE RunCancelled \/ FailureRecorded
  BY <1>3 DEF RunCancelled, FailureRecorded, Journal, Step
<1>4. CASE FinishCancelled \/ FinishFailed
  BY <1>4 DEF FinishCancelled, FinishFailed, Finish, Step
<1>5. CASE HandleFailure \/ RewriteMetadata
  BY <1>5 DEF HandleFailure, RewriteMetadata, Step
<1>6. QED
  BY <1>1, <1>2, <1>3, <1>4, <1>5 DEF Handle

\* Every step keeps the slot with its thread.
LEMMA SlotStep ==
  ASSUME Typed, Control, SlotHasThread, [Next]_vars
  PROVE  SlotHasThread'
<1>0. /\ faults \in Nat
      /\ Admission \cap (Executing \cup Finally) = {} /\ "gone" \notin Admission
  BY LifecycleAssumption
  DEF Typed, TypeOK, Admission, Executing, TryLocked, TryFree, HandlerLocked, HandlerFree,
      Finally
<1>1. CASE Admit
  <2>1. worker \in Admission
    BY <1>1, AdmitWhere
  <2>2. ~slot
    BY <1>0, <2>1 DEF SlotHasThread
  <2>3. CASE StartThread
    BY <2>3 DEF StartThread, Step, SlotHasThread, Executing, TryFree
  <2>4. QED
    BY <1>1, <2>2, <2>3, AdmitMoves DEF SlotHasThread
<1>2. CASE Execute
  BY <1>2, ExecuteMoves DEF SlotHasThread
<1>3. CASE Handle
  <2>1. CASE ClearSlot
    BY <2>1 DEF ClearSlot, SlotHasThread
  <2>2. QED
    BY <1>3, <2>1, HandleMoves DEF SlotHasThread, Executing
<1>4. CASE OperationRaises
  <2>1. UNCHANGED slot /\ faults' = faults + 1
    BY <1>4 DEF OperationRaises
  <2>2. worker \in Admission \/ worker' = "gone" \/ worker' \in {"except", "ended"}
    BY <1>4 DEF OperationRaises
  <2>3. worker \in Admission => ~slot
    BY <1>0 DEF SlotHasThread
  <2>4. QED
    BY <1>0, <2>1, <2>2, <2>3 DEF SlotHasThread, Executing, HandlerFree, Finally
<1>5. CASE Crash
  BY <1>5 DEF Crash, SlotHasThread
<1>6. CASE Others
  <2>1. UNCHANGED <<worker, faults, slot>>
    <3>1. UNCHANGED worker
      BY <1>6, OtherMoves DEF thread
    <3>2. ASSUME NEW c \in Clients, ReadOutcome(c) \/ ConsoleCancel(c) \/ Serve(c)
          PROVE  UNCHANGED <<slot, faults>>
      BY <3>2
      DEF ReadOutcome, ConsoleCancel, Serve, ReadSlot, Interrupt, CancelRequest, SetToken,
          Reply, Request
    <3>3. Shutdown \/ Close => UNCHANGED <<slot, faults>>
      BY DEF Shutdown, Close, ShutdownRequest, ShutdownToken, Closing
    <3>4. Restart \/ UNCHANGED vars => UNCHANGED <<slot, faults>>
      BY DEF Restart, vars
    <3>5. QED
      BY <1>6, <3>1, <3>2, <3>3, <3>4 DEF Others
  <2>2. QED
    BY <2>1 DEF SlotHasThread, Executing
<1>7. QED
  BY <1>1, <1>2, <1>3, <1>4, <1>5, <1>6, StepKinds DEF Ending

\* With ThreadRunsDown, the safety half of SlotReleased: the slot is freed by the
\* last of a bounded number of steps of the thread (_execute_admitted_run).
THEOREM SlotIsOfThread == Spec => []SlotFollowsThread
<1>1. Init => SlotHasThread
  BY DEF Init, SlotHasThread
<1>2. Inv /\ SlotHasThread /\ [Next]_vars => SlotHasThread'
  BY SlotStep DEF Inv
<1>3. Inv /\ SlotHasThread => SlotFollowsThread
  BY DEF Inv, Control, Owned, SlotHasThread, SlotFollowsThread
<1>4. QED
  BY <1>1, <1>2, <1>3, Invariance, PTL DEF Spec
=============================================================================
