-------------------------- MODULE NodeProcessProofs --------------------------
(***************************************************************************)
(* Proofs about NodeProcess, for every set of adapters and every size of   *)
(* the queue: no call leaves a process behind, and no cancellation gets    *)
(* lost between the token and the process.                                 *)
(***************************************************************************)
EXTENDS NodeProcess, TLAPS

CommandSteps  == CommandWatching \cup {"finally", "kill"}
OpenCodeSteps == OpenCodeWatching \cup {"finally", "delete", "stop", "wait", "leave"}
McpSteps      == McpWatching \cup {"finally", "close", "wait", "terminated", "close_stdout"}

\* Before its registration is done.
Early == {"check", "spawn", "register", "invoke"}

\* Each adapter has steps of its own.
Placed ==
  /\ adapter = "command" => worker \in Early \cup CommandSteps \cup {"ended"}
  /\ adapter = "opencode" => worker \in Early \cup OpenCodeSteps \cup {"ended"}
  /\ adapter = "mcp" => worker \in Early \cup McpSteps \cup {"ended"}

\* The process from Popen to the last wait.
Processes ==
  /\ returned # "no" => worker = "ended"
  /\ worker \in {"check", "spawn"} => child = "none"
  /\ worker \notin {"check", "spawn", "ended"} => child # "none"
  /\ worker \in {"leave", "close_stdout"} => child = "reaped"
  /\ worker = "ended" => child \in {"none", "reaped"} \/ unsent \/ garbled

\* A callback that is registered is run by the request; one that came too late
\* was run by the call before it watched its process.
Signals ==
  /\ token <=> canceller # "idle"
  /\ registered => worker \notin Early
  /\ worker \in CommandWatching \cup OpenCodeWatching \cup McpWatching /\ ~registered =>
       asked \/ child # "live"
  /\ canceller = "done" /\ registered /\ ~garbled => asked \/ child # "live"

\* The inductive invariant.
Inv == TypeOK /\ Placed /\ Processes /\ Signals

\* Initially there is neither process nor request.
LEMMA InitInv == Init => Inv
<1> SUFFICES ASSUME Init PROVE Inv
  OBVIOUS
<1>0. <<>> \in Seq(Lines) /\ Len(<<>>) = 0 /\ QueueSize \in Nat
  BY NodeProcessAssumption
<1>1. TypeOK
  <2>1. ProcessTypeOK
    BY DEF Init, ProcessInit, ProcessTypeOK, Verdict
  <2>2. McpTypeOK
    <3>1. lines \in Seq(Lines) /\ Len(lines) <= QueueSize
      BY <1>0, NodeProcessAssumption DEF Init, McpInit
    <3>2. line \in Lines
      BY DEF Init, McpInit, Lines
    <3>3. QED
      BY <3>1, <3>2 DEF Init, McpInit, McpTypeOK
  <2>3. QED
    BY <2>1, <2>2 DEF Init, ProcessInit, TypeOK, Workers
<1>2. Placed /\ Processes /\ Signals
  BY DEF Init, ProcessInit, Placed, Processes, Signals, CommandWatching,
         OpenCodeWatching, McpWatching, Early
<1>3. QED
  BY <1>1, <1>2 DEF Inv

\* The queue keeps its size: a line is taken from a queue that has one,
LEMMA LineTaken ==
  ASSUME lines \in Seq(Lines), Len(lines) <= QueueSize, lines # <<>>
  PROVE  Tail(lines) \in Seq(Lines) /\ Len(Tail(lines)) <= QueueSize
BY NodeProcessAssumption

\* and put into a queue that is not full.
LEMMA LinePut ==
  ASSUME lines \in Seq(Lines), Len(lines) < QueueSize, line \in Lines
  PROVE  Append(lines, line) \in Seq(Lines) /\ Len(Append(lines, line)) <= QueueSize
BY NodeProcessAssumption

\* What both threads do to the process and to the token, spelled out.
LEMMA TerminateAsks ==
  ASSUME asked \in BOOLEAN, Terminate
  PROVE  asked' \in BOOLEAN /\ (asked => asked') /\ (child = "live" => asked')
BY DEF Terminate

\* A step of the call that leaves the process alone keeps its types.
LEMMA ProcessTypesKept ==
  ASSUME ProcessTypeOK, registered' \in BOOLEAN, late' \in BOOLEAN,
         UNCHANGED <<child, asked, token, canceller, verdict, returned, started>>
  PROVE  ProcessTypeOK'
BY DEF ProcessTypeOK

\* The registration of a call that is cancelled, and of one that is not.
LEMMA Registers ==
  ASSUME NEW next, token \in BOOLEAN, Register(next)
  PROVE  \/ token /\ worker' = "invoke" /\ ~registered' /\ registered' \in BOOLEAN
         \/ ~token /\ worker' = next /\ registered' /\ registered' \in BOOLEAN
BY DEF Register, Step

\* The end of the registration.
LEMMA Unregisters == ASSUME Unregister PROVE ~registered' /\ registered' \in BOOLEAN
BY DEF Unregister

\* The steps that the adapters share.
LEMMA BeginStep ==
  ASSUME Inv, UNCHANGED adapter, UNCHANGED <<server, pipes>>,
         Check \/ Spawn \/ SpawnRaises \/ CallbackSignals \/ Request \/ Exit \/ SecondPasses \/ DeadlinePasses
  PROVE  Inv'
<1> USE DEF Inv, TypeOK, ProcessTypeOK, McpTypeOK, Placed, Processes, Signals,
            Workers, Verdict, CommandWatching, OpenCodeWatching, McpWatching,
            CommandSteps, OpenCodeSteps, McpSteps, Early, process, signal, call,
            clock, shared, server, pipes, Step, Leave, Return, Reap, Terminate, Kill,
            Unregister
<1>1. CASE Check
  BY <1>1 DEF Check
<1>2. CASE Spawn
  BY <1>2 DEF Spawn
<1>3. CASE SpawnRaises
  BY <1>3 DEF SpawnRaises
<1>4. CASE CallbackSignals
  BY <1>4 DEF CallbackSignals
<1>5. CASE Request
  BY <1>5 DEF Request
<1>6. CASE Exit
  BY <1>6 DEF Exit
<1>7. CASE SecondPasses
  BY <1>7 DEF SecondPasses
<1>8. CASE DeadlinePasses
  BY <1>8 DEF DeadlinePasses
<1>9. QED
  BY <1>1, <1>2, <1>3, <1>4, <1>5, <1>6, <1>7, <1>8

\* run_cancellable_process.
LEMMA CommandStep ==
  ASSUME Inv, UNCHANGED adapter, adapter = "command", UNCHANGED <<server, pipes>>,
         CommandThread \/ CommandCallback
  PROVE  Inv'
<1> USE DEF Inv, TypeOK, ProcessTypeOK, McpTypeOK, Placed, Processes, Signals,
            Workers, Verdict, CommandWatching, OpenCodeWatching, McpWatching,
            CommandSteps, OpenCodeSteps, McpSteps, Early, process, signal, call,
            clock, shared, server, pipes, Step, Leave, Return, Reap, Terminate, Kill,
            Unregister
<1>1. CASE Register("poll")
  <2>1. TypeOK'
    BY <1>1, Registers DEF Register
  <2>2. Placed'
    BY <1>1, Registers DEF Register
  <2>3. Processes'
    BY <1>1, Registers DEF Register
  <2>4. Signals'
    BY <1>1, Registers DEF Register
  <2>5. QED
    BY <2>1, <2>2, <2>3, <2>4
<1>2. CASE CommandInvoke
  <2>1. TypeOK'
    BY <1>2, TerminateAsks DEF CommandInvoke, AskToEnd
  <2>2. Placed'
    BY <1>2, TerminateAsks DEF CommandInvoke, AskToEnd
  <2>3. Processes'
    BY <1>2, TerminateAsks DEF CommandInvoke, AskToEnd
  <2>4. Signals'
    BY <1>2, TerminateAsks DEF CommandInvoke, AskToEnd
  <2>5. QED
    BY <2>1, <2>2, <2>3, <2>4
<1>3. CASE CommandPoll
  BY <1>3 DEF CommandPoll
<1>4. CASE TurnAsks
  BY <1>4 DEF TurnAsks, AskToEnd
<1>5. CASE TurnKills
  BY <1>5 DEF TurnKills
<1>6. CASE TurnTimesOut
  BY <1>6 DEF TurnTimesOut
<1>7. CASE TurnWaits
  BY <1>7 DEF TurnWaits
<1>8. CASE TurnRaises
  BY <1>8 DEF TurnRaises
<1>9. CASE CommandOverdue
  BY <1>9 DEF CommandOverdue
<1>10. CASE CommandExited
  BY <1>10 DEF CommandExited
<1>11. CASE CommandFinally
  <2>1. TypeOK'
    <3>1. ProcessTypeOK'
      BY <1>11, Unregisters DEF CommandFinally
    <3>2. adapter' \in Adapters /\ worker' \in Workers
      BY <1>11, Unregisters DEF CommandFinally
    <3>3. session' \in BOOLEAN /\ garbled' \in BOOLEAN
      BY <1>11, Unregisters DEF CommandFinally
    <3>4. McpTypeOK'
      BY <1>11, Unregisters DEF CommandFinally
    <3>5. QED
      BY <3>1, <3>2, <3>3, <3>4
  <2>2. Placed'
    BY <1>11, Unregisters DEF CommandFinally
  <2>3. Processes'
    BY <1>11, Unregisters DEF CommandFinally
  <2>4. Signals'
    BY <1>11, Unregisters DEF CommandFinally
  <2>5. QED
    BY <2>1, <2>2, <2>3, <2>4
<1>12. CASE CommandKill
  BY <1>12 DEF CommandKill
<1>13. CASE CommandCallback
  BY <1>13 DEF CommandCallback
<1>14. CASE Check \/ Spawn \/ SpawnRaises
  BY <1>14 DEF Check, Spawn, SpawnRaises
<1>15. QED
  BY <1>1, <1>2, <1>3, <1>4, <1>5, <1>6, <1>7, <1>8, <1>9, <1>10, <1>11, <1>12, <1>13,
     <1>14 DEF CommandThread

\* invoke_opencode_server.
LEMMA OpenCodeStep ==
  ASSUME Inv, UNCHANGED adapter, adapter = "opencode", UNCHANGED pipes,
         \/ OpenCodeThread \/ (Register("ready") /\ UNCHANGED server)
         \/ OpenCodeCallback \/ OpenCodeAbort \/ OpenCodeAbortRaises
  PROVE  Inv'
<1> USE DEF Inv, TypeOK, ProcessTypeOK, McpTypeOK, Placed, Processes, Signals,
            Workers, Verdict, CommandWatching, OpenCodeWatching, McpWatching,
            CommandSteps, OpenCodeSteps, McpSteps, Early, process, signal, call,
            clock, shared, server, pipes, Step, Leave, Return, Reap, Terminate, Kill,
            Unregister
<1>1. CASE Register("ready") /\ UNCHANGED server
  <2>1. TypeOK'
    BY <1>1, Registers DEF Register
  <2>2. Placed'
    BY <1>1, Registers DEF Register
  <2>3. Processes'
    BY <1>1, Registers DEF Register
  <2>4. Signals'
    BY <1>1, Registers DEF Register
  <2>5. QED
    BY <2>1, <2>2, <2>3, <2>4
<1>2. CASE OpenCodeInvoke
  <2>1. TypeOK'
    BY <1>2, TerminateAsks DEF OpenCodeInvoke
  <2>2. Placed'
    BY <1>2, TerminateAsks DEF OpenCodeInvoke
  <2>3. Processes'
    BY <1>2, TerminateAsks DEF OpenCodeInvoke
  <2>4. Signals'
    BY <1>2, TerminateAsks DEF OpenCodeInvoke
  <2>5. QED
    BY <2>1, <2>2, <2>3, <2>4
<1>3. CASE OpenCodeReady
  BY <1>3 DEF OpenCodeReady
<1>4. CASE OpenCodeConfigure
  BY <1>4 DEF OpenCodeConfigure
<1>5. CASE OpenCodeSession
  BY <1>5 DEF OpenCodeSession
<1>6. CASE OpenCodeSessionFails
  BY <1>6 DEF OpenCodeSessionFails
<1>7. CASE OpenCodeEntered
  BY <1>7 DEF OpenCodeEntered
<1>8. CASE OpenCodeMessage
  BY <1>8 DEF OpenCodeMessage
<1>9. CASE OpenCodeAnswered
  BY <1>9 DEF OpenCodeAnswered
<1>10. CASE OpenCodeFinally
  <2>1. TypeOK'
    <3>1. ProcessTypeOK'
      BY <1>10, Unregisters DEF OpenCodeFinally
    <3>2. adapter' \in Adapters /\ worker' \in Workers
      BY <1>10, Unregisters DEF OpenCodeFinally
    <3>3. session' \in BOOLEAN /\ garbled' \in BOOLEAN
      BY <1>10, Unregisters DEF OpenCodeFinally
    <3>4. McpTypeOK'
      BY <1>10, Unregisters DEF OpenCodeFinally
    <3>5. QED
      BY <3>1, <3>2, <3>3, <3>4
  <2>2. Placed'
    BY <1>10, Unregisters DEF OpenCodeFinally
  <2>3. Processes'
    BY <1>10, Unregisters DEF OpenCodeFinally
  <2>4. Signals'
    BY <1>10, Unregisters DEF OpenCodeFinally
  <2>5. QED
    BY <2>1, <2>2, <2>3, <2>4
<1>11. CASE OpenCodeDelete
  BY <1>11 DEF OpenCodeDelete
<1>12. CASE OpenCodeDeleteRaises
  BY <1>12 DEF OpenCodeDeleteRaises
<1>13. CASE OpenCodeStop
  BY <1>13 DEF OpenCodeStop
<1>14. CASE OpenCodeWait
  BY <1>14 DEF OpenCodeWait
<1>15. CASE OpenCodeLeave
  BY <1>15 DEF OpenCodeLeave
<1>16. CASE OpenCodeCallback
  BY <1>16 DEF OpenCodeCallback
<1>17. CASE OpenCodeAbort
  BY <1>17 DEF OpenCodeAbort
<1>18. CASE OpenCodeAbortRaises
  BY <1>18 DEF OpenCodeAbortRaises
<1>19. QED
  BY <1>1, <1>2, <1>3, <1>4, <1>5, <1>6, <1>7, <1>8, <1>9, <1>10, <1>11, <1>12, <1>13,
     <1>14, <1>15, <1>16, <1>17, <1>18 DEF OpenCodeThread

\* The MCP session.
LEMMA McpStep ==
  ASSUME Inv, UNCHANGED adapter, adapter = "mcp", UNCHANGED server,
         McpThread \/ McpCallback \/ ServerShuts \/ McpSends
  PROVE  Inv'
<1> USE DEF Inv, TypeOK, ProcessTypeOK, McpTypeOK, Placed, Processes, Signals,
            Workers, Verdict, CommandWatching, OpenCodeWatching, McpWatching,
            CommandSteps, OpenCodeSteps, McpSteps, Early, process, signal, call,
            clock, shared, server, pipes, Step, Leave, Return, Reap, Terminate, Kill,
            Unregister
<1>1. CASE McpRegister
  <2>1. TypeOK'
    BY <1>1, Registers DEF McpRegister, Register
  <2>2. Placed'
    BY <1>1, Registers DEF McpRegister, Register
  <2>3. Processes'
    BY <1>1, Registers DEF McpRegister, Register
  <2>4. Signals'
    BY <1>1, Registers DEF McpRegister, Register
  <2>5. QED
    BY <2>1, <2>2, <2>3, <2>4
<1>2. CASE McpInvoke
  <2>1. TypeOK'
    BY <1>2, TerminateAsks DEF McpInvoke
  <2>2. Placed'
    BY <1>2, TerminateAsks DEF McpInvoke
  <2>3. Processes'
    BY <1>2, TerminateAsks DEF McpInvoke
  <2>4. Signals'
    BY <1>2, TerminateAsks DEF McpInvoke
  <2>5. QED
    BY <2>1, <2>2, <2>3, <2>4
<1>3. CASE SendFails
  BY <1>3 DEF SendFails
<1>4. CASE McpAnswered
  BY <1>4 DEF McpAnswered
<1>5. CASE McpFinally
  <2>1. TypeOK'
    <3>1. ProcessTypeOK'
      <4>1. /\ UNCHANGED <<child, asked, token, canceller, verdict, returned, started>>
            /\ registered' \in BOOLEAN /\ late' \in BOOLEAN
        BY <1>5, Unregisters DEF McpFinally
      <4>2. QED
        BY <4>1, ProcessTypesKept
    <3>2. adapter' \in Adapters /\ worker' \in Workers
      BY <1>5, Unregisters DEF McpFinally
    <3>3. session' \in BOOLEAN /\ garbled' \in BOOLEAN
      BY <1>5, Unregisters DEF McpFinally
    <3>4. McpTypeOK'
      BY <1>5, Unregisters DEF McpFinally
    <3>5. QED
      BY <3>1, <3>2, <3>3, <3>4
  <2>2. Placed'
    BY <1>5, Unregisters DEF McpFinally
  <2>3. Processes'
    BY <1>5, Unregisters DEF McpFinally
  <2>4. Signals'
    BY <1>5, Unregisters DEF McpFinally
  <2>5. QED
    BY <2>1, <2>2, <2>3, <2>4
<1>6. CASE CloseStdin
  BY <1>6 DEF CloseStdin
<1>7. CASE CloseWait
  <2>1. TypeOK'
    BY <1>7, TerminateAsks DEF CloseWait
  <2>2. Placed'
    BY <1>7, TerminateAsks DEF CloseWait
  <2>3. Processes'
    BY <1>7, TerminateAsks DEF CloseWait
  <2>4. Signals'
    BY <1>7, TerminateAsks DEF CloseWait
  <2>5. QED
    BY <2>1, <2>2, <2>3, <2>4
<1>8. CASE CloseStdout
  BY <1>8 DEF CloseStdout
<1>9. CASE McpCallback
  BY <1>9 DEF McpCallback
<1>10. CASE ServerShuts
  BY <1>10 DEF ServerShuts
<1>11. CASE McpSends
  <2>1. TypeOK'
    <3>1. ProcessTypeOK'
      <4>1. /\ UNCHANGED <<child, asked, token, canceller, verdict, returned, started>>
            /\ registered' \in BOOLEAN /\ late' \in BOOLEAN
        BY <1>11 DEF McpSends, Sent
      <4>2. QED
        BY <4>1, ProcessTypesKept
    <3>2. adapter' \in Adapters /\ worker' \in Workers
      BY <1>11 DEF McpSends, Sent
    <3>3. session' \in BOOLEAN /\ garbled' \in BOOLEAN
      BY <1>11 DEF McpSends, Sent
    <3>4. McpTypeOK'
      BY <1>11 DEF McpSends, Sent
    <3>5. QED
      BY <3>1, <3>2, <3>3, <3>4
  <2>2. Placed'
    BY <1>11 DEF McpSends, Sent
  <2>3. Processes'
    BY <1>11 DEF McpSends, Sent
  <2>4. Signals'
    BY <1>11 DEF McpSends, Sent
  <2>5. QED
    BY <2>1, <2>2, <2>3, <2>4
<1>12. CASE McpAwaits
  <2>1. TypeOK'
    <3>1. ProcessTypeOK'
      BY <1>12 DEF McpAwaits, AwaitGivesUp, AwaitLine
    <3>2. adapter' \in Adapters /\ worker' \in Workers
      BY <1>12 DEF McpAwaits, AwaitGivesUp, AwaitLine
    <3>3. session' \in BOOLEAN /\ garbled' \in BOOLEAN
      BY <1>12 DEF McpAwaits, AwaitGivesUp, AwaitLine
    <3>4. lines' \in Seq(Lines) /\ Len(lines') <= QueueSize
      BY <1>12, LineTaken DEF McpAwaits, AwaitGivesUp, AwaitLine
    <3>5. McpTypeOK'
      BY <1>12, <3>4 DEF McpAwaits, AwaitGivesUp, AwaitLine
    <3>6. QED
      BY <3>1, <3>2, <3>3, <3>5
  <2>2. Placed'
    BY <1>12 DEF McpAwaits, AwaitGivesUp, AwaitLine
  <2>3. Processes'
    BY <1>12 DEF McpAwaits, AwaitGivesUp, AwaitLine
  <2>4. Signals'
    BY <1>12 DEF McpAwaits, AwaitGivesUp, AwaitLine
  <2>5. QED
    BY <2>1, <2>2, <2>3, <2>4
<1>13. QED
  BY <1>1, <1>2, <1>3, <1>4, <1>5, <1>6, <1>7, <1>8, <1>9, <1>10, <1>11, <1>12 DEF McpThread

\* The thread that reads lines.
LEMMA ReaderStep ==
  ASSUME Inv, UNCHANGED adapter, UNCHANGED server, Offer \/ \E l \in Lines : ReadLine(l)
  PROVE  Inv'
<1> USE DEF Inv, TypeOK, ProcessTypeOK, McpTypeOK, Placed, Processes, Signals,
            Workers, Verdict, CommandWatching, OpenCodeWatching, McpWatching,
            CommandSteps, OpenCodeSteps, McpSteps, Early, process, signal, call,
            clock, shared, server, pipes, Step, Leave, Return, Reap, Terminate, Kill,
            Unregister
<1>1. CASE Offer
  <2>1. TypeOK'
    <3>1. ProcessTypeOK'
      BY <1>1 DEF Offer
    <3>2. adapter' \in Adapters /\ worker' \in Workers
      BY <1>1 DEF Offer
    <3>3. session' \in BOOLEAN /\ garbled' \in BOOLEAN
      BY <1>1 DEF Offer
    <3>4. lines' \in Seq(Lines) /\ Len(lines') <= QueueSize
      BY <1>1, LinePut DEF Offer
    <3>5. McpTypeOK'
      BY <1>1, <3>4 DEF Offer
    <3>6. QED
      BY <3>1, <3>2, <3>3, <3>5
  <2>2. Placed'
    BY <1>1 DEF Offer
  <2>3. Processes'
    BY <1>1 DEF Offer
  <2>4. Signals'
    BY <1>1 DEF Offer
  <2>5. QED
    BY <2>1, <2>2, <2>3, <2>4
<1>2. CASE \E l \in Lines : ReadLine(l)
  BY <1>2 DEF ReadLine
<1>3. QED
  BY <1>1, <1>2

\* The inductive invariant of a call, its cancellation and its process.
THEOREM CallInvariance == Spec => []Inv
<1>1. ASSUME Inv, [Next]_vars PROVE Inv'
  <2>1. CASE Next
    BY <1>1, <2>1, BeginStep, CommandStep, OpenCodeStep, McpStep, ReaderStep
    DEF Next, Thread, Callback, Time, Reader, Server
  <2>2. CASE UNCHANGED vars
    BY <1>1, <2>2
    DEF vars, shared, process, signal, call, clock, server, pipes, Inv, TypeOK, ProcessTypeOK,
        McpTypeOK, Placed, Processes, Signals
  <2>3. QED
    BY <1>1, <2>1, <2>2
<1>2. Inv /\ [Next]_vars => Inv'
  BY <1>1
<1>3. QED
  BY InitInv, <1>2, PTL DEF Spec

\* The type invariant, the queue within its size included.
THEOREM CallTypes == Spec => []TypeOK
<1>1. Inv => TypeOK
  BY DEF Inv
<1>2. QED
  BY <1>1, CallInvariance, PTL

\* No call leaves a process behind, but for the two cases the code has.
THEOREM ProcessesReaped == Spec => []ReapedWhenReturned
<1>1. Inv => ReapedWhenReturned
  BY DEF Inv, Processes, ReapedWhenReturned
<1>2. QED
  BY <1>1, CallInvariance, PTL

\* A request reaches the process that its Run is watching.
THEOREM CancellationsArrive == Spec => []CancellationNotLost
<1>1. ASSUME Inv PROVE CancellationNotLost
  <2>1. adapter \in {"command", "opencode", "mcp"}
    BY <1>1, NodeProcessAssumption DEF Inv, TypeOK
  <2>2. worker \in Watching => worker \in CommandWatching \cup OpenCodeWatching \cup McpWatching
    BY <2>1 DEF Watching
  <2>3. QED
    BY <1>1, <2>2 DEF Inv, Signals, CancellationNotLost
<1>2. QED
  BY <1>1, CallInvariance, PTL

-----------------------------------------------------------------------------
(* What a call owes its Runtime when it ends.                              *)

\* The two ways in which a call ends without having waited for its process: the
\* pipe of an MCP server that could not be flushed, and the unreadable answer of
\* an OpenCode server.  Both end it with an error.
Excused ==
  /\ returned = "error"
  /\ (adapter = "mcp" /\ unsent) \/ (adapter = "opencode" /\ garbled)

\* A call that ends as cancelled was asked to (ExecutionCancelled is raised only
\* by raise_if_cancelled), and only a call that raised something else can leave
\* a process behind: a result, a cancellation and a timeout never do.
CallContract ==
  /\ returned = "cancelled" => token
  /\ returned # "no" => child \in {"none", "reaped"} \/ Excused

\* The contract, and what it rests on while the call is still under way.
Account ==
  /\ verdict = "cancelled" \/ returned = "cancelled" => token
  /\ worker = "ended" => returned # "no"
  /\ returned # "no" => child \in {"none", "reaped"} \/ Excused
  /\ adapter # "mcp" => ~unsent
  /\ adapter # "opencode" => ~garbled

\* The steps that the adapters share.
LEMMA BeginKeepsAccount ==
  ASSUME Inv, Account, UNCHANGED adapter, UNCHANGED <<server, pipes>>,
         \/ Check \/ Spawn \/ SpawnRaises \/ CallbackSignals \/ Request \/ Exit
         \/ SecondPasses \/ DeadlinePasses
  PROVE  Account'
<1> USE DEF Inv, TypeOK, ProcessTypeOK, Processes, Placed, Account, Excused, Early,
            Verdict, process, signal, call, clock, shared, server, pipes, Step, Leave,
            Return, Reap, Terminate, Kill, Unregister
<1>1. CASE Check
  BY <1>1 DEF Check
<1>2. CASE Spawn
  BY <1>2 DEF Spawn
<1>3. CASE SpawnRaises
  BY <1>3 DEF SpawnRaises
<1>4. CASE CallbackSignals
  BY <1>4 DEF CallbackSignals
<1>5. CASE Request
  BY <1>5 DEF Request
<1>6. CASE Exit
  BY <1>6 DEF Exit
<1>7. CASE SecondPasses
  BY <1>7 DEF SecondPasses
<1>8. CASE DeadlinePasses
  BY <1>8 DEF DeadlinePasses
<1>9. QED
  BY <1>1, <1>2, <1>3, <1>4, <1>5, <1>6, <1>7, <1>8

\* run_cancellable_process.
LEMMA CommandKeepsAccount ==
  ASSUME Inv, Account, UNCHANGED adapter, adapter = "command", UNCHANGED <<server, pipes>>,
         CommandThread \/ CommandCallback
  PROVE  Account'
<1> USE DEF Inv, TypeOK, ProcessTypeOK, Processes, Placed, Account, Excused, Early,
            Verdict, process, signal, call, clock, shared, server, pipes, Step, Leave,
            Return, Reap, Terminate, Kill, Unregister
<1>1. CASE Register("poll")
  BY <1>1 DEF Register
<1>2. CASE CommandInvoke
  BY <1>2 DEF CommandInvoke, AskToEnd
<1>3. CASE CommandPoll
  BY <1>3 DEF CommandPoll
<1>4. CASE TurnAsks
  BY <1>4 DEF TurnAsks, AskToEnd
<1>5. CASE TurnKills
  BY <1>5 DEF TurnKills
<1>6. CASE TurnTimesOut
  BY <1>6 DEF TurnTimesOut
<1>7. CASE TurnWaits
  BY <1>7 DEF TurnWaits
<1>8. CASE TurnRaises
  BY <1>8 DEF TurnRaises
<1>9. CASE CommandOverdue
  BY <1>9 DEF CommandOverdue
<1>10. CASE CommandExited
  BY <1>10 DEF CommandExited
<1>11. CASE CommandFinally
  BY <1>11 DEF CommandFinally
<1>12. CASE CommandKill
  BY <1>12 DEF CommandKill
<1>13. CASE CommandCallback
  BY <1>13 DEF CommandCallback
<1>14. CASE Check \/ Spawn \/ SpawnRaises
  BY <1>14 DEF Check, Spawn, SpawnRaises
<1>15. QED
  BY <1>1, <1>2, <1>3, <1>4, <1>5, <1>6, <1>7, <1>8, <1>9, <1>10, <1>11, <1>12, <1>13,
     <1>14 DEF CommandThread

\* invoke_opencode_server.
LEMMA OpenCodeKeepsAccount ==
  ASSUME Inv, Account, UNCHANGED adapter, adapter = "opencode", UNCHANGED pipes,
         \/ OpenCodeThread \/ (Register("ready") /\ UNCHANGED server)
         \/ OpenCodeCallback \/ OpenCodeAbort \/ OpenCodeAbortRaises
  PROVE  Account'
<1> USE DEF Inv, TypeOK, ProcessTypeOK, Processes, Placed, Account, Excused, Early,
            Verdict, process, signal, call, clock, shared, server, pipes, Step, Leave,
            Return, Reap, Terminate, Kill, Unregister
<1>1. CASE Register("ready") /\ UNCHANGED server
  BY <1>1 DEF Register
<1>2. CASE OpenCodeInvoke
  BY <1>2 DEF OpenCodeInvoke
<1>3. CASE OpenCodeReady
  BY <1>3 DEF OpenCodeReady
<1>4. CASE OpenCodeConfigure
  BY <1>4 DEF OpenCodeConfigure
<1>5. CASE OpenCodeSession
  BY <1>5 DEF OpenCodeSession
<1>6. CASE OpenCodeSessionFails
  BY <1>6 DEF OpenCodeSessionFails
<1>7. CASE OpenCodeEntered
  BY <1>7 DEF OpenCodeEntered
<1>8. CASE OpenCodeMessage
  BY <1>8 DEF OpenCodeMessage
<1>9. CASE OpenCodeAnswered
  BY <1>9 DEF OpenCodeAnswered
<1>10. CASE OpenCodeFinally
  BY <1>10 DEF OpenCodeFinally
<1>11. CASE OpenCodeDelete
  BY <1>11 DEF OpenCodeDelete
<1>12. CASE OpenCodeDeleteRaises
  BY <1>12 DEF OpenCodeDeleteRaises
<1>13. CASE OpenCodeStop
  BY <1>13 DEF OpenCodeStop
<1>14. CASE OpenCodeWait
  BY <1>14 DEF OpenCodeWait
<1>15. CASE OpenCodeLeave
  BY <1>15 DEF OpenCodeLeave
<1>16. CASE OpenCodeCallback
  BY <1>16 DEF OpenCodeCallback
<1>17. CASE OpenCodeAbort
  BY <1>17 DEF OpenCodeAbort
<1>18. CASE OpenCodeAbortRaises
  BY <1>18 DEF OpenCodeAbortRaises
<1>19. QED
  BY <1>1, <1>2, <1>3, <1>4, <1>5, <1>6, <1>7, <1>8, <1>9, <1>10, <1>11, <1>12, <1>13,
     <1>14, <1>15, <1>16, <1>17, <1>18 DEF OpenCodeThread

\* The MCP session.
LEMMA McpKeepsAccount ==
  ASSUME Inv, Account, UNCHANGED adapter, adapter = "mcp", UNCHANGED server,
         McpThread \/ McpCallback \/ ServerShuts \/ McpSends
  PROVE  Account'
<1> USE DEF Inv, TypeOK, ProcessTypeOK, Processes, Placed, Account, Excused, Early,
            Verdict, process, signal, call, clock, shared, server, pipes, Step, Leave,
            Return, Reap, Terminate, Kill, Unregister
<1>1. CASE McpRegister
  BY <1>1 DEF McpRegister, Register
<1>2. CASE McpInvoke
  BY <1>2 DEF McpInvoke
<1>3. CASE SendFails
  BY <1>3 DEF SendFails
<1>4. CASE McpAnswered
  BY <1>4 DEF McpAnswered
<1>5. CASE McpFinally
  BY <1>5 DEF McpFinally
<1>6. CASE CloseStdin
  BY <1>6 DEF CloseStdin
<1>7. CASE CloseWait
  BY <1>7 DEF CloseWait
<1>8. CASE CloseStdout
  BY <1>8 DEF CloseStdout
<1>9. CASE McpCallback
  BY <1>9 DEF McpCallback
<1>10. CASE ServerShuts
  BY <1>10 DEF ServerShuts
<1>11. CASE McpSends
  BY <1>11 DEF McpSends, Sent
<1>12. CASE McpAwaits
  BY <1>12 DEF McpAwaits, AwaitGivesUp, AwaitLine
<1>13. QED
  BY <1>1, <1>2, <1>3, <1>4, <1>5, <1>6, <1>7, <1>8, <1>9, <1>10, <1>11, <1>12 DEF McpThread

\* The thread that reads lines has no part in it.
LEMMA ReaderKeepsAccount ==
  ASSUME Account, UNCHANGED adapter, UNCHANGED server, Offer \/ \E l \in Lines : ReadLine(l)
  PROVE  Account'
BY DEF Offer, ReadLine, Account, Excused, shared, process, signal, call, clock, server

\* Whatever adapter, and however the call and its cancellation interleave.
THEOREM CallsKeepContract == Spec => []CallContract
<1>1. Init => Account
  BY DEF Init, ProcessInit, McpInit, Account
<1>2. ASSUME Inv, Account, [Next]_vars PROVE Account'
  <2>1. CASE Next
    BY <1>2, <2>1, BeginKeepsAccount, CommandKeepsAccount, OpenCodeKeepsAccount,
       McpKeepsAccount, ReaderKeepsAccount
    DEF Next, Thread, Callback, Time, Reader, Server
  <2>2. CASE UNCHANGED vars
    BY <1>2, <2>2
    DEF vars, shared, process, signal, call, clock, server, pipes, Account, Excused
  <2>3. QED
    BY <1>2, <2>1, <2>2
<1>3. Inv /\ Account /\ [Next]_vars => Account'
  BY <1>2
<1>4. Account => CallContract
  BY DEF Account, CallContract
<1>5. QED
  BY <1>1, <1>3, <1>4, CallInvariance, PTL DEF Spec

\* What the documentation promises of every adapter holds of a command: its
\* process is waited for before its Run can become cancelled.
THEOREM CommandsReapedBeforeCancelled ==
  ASSUME Adapters \subseteq {"command"}
  PROVE  Spec => ReapedBeforeCancelled
<1>1. ASSUME (Inv /\ CallContract)'
      PROVE  returned = "no" /\ returned' # "no" /\ token => child' \in {"none", "reaped"}
  BY <1>1 DEF Inv, TypeOK, CallContract, Excused
<1>2. QED
  BY <1>1, CallInvariance, CallsKeepContract, PTL DEF Spec, ReapedBeforeCancelled

-----------------------------------------------------------------------------
(* How long a call takes to end once it has to.                            *)

\* finally and what follows it, of any adapter.
Cleanup ==
  {"finally", "kill", "delete", "close", "stop", "wait", "terminated", "leave",
   "close_stdout", "ended"}

\* It was cancelled, is overdue or over.  What is overdue while it waits to write
\* gets a new deadline with the write.
Ending == token \/ (late /\ worker \notin Early /\ ~Sending) \/ worker \in Cleanup

\* The second that a command has between SIGTERM and SIGKILL: it is polled on.
InGrace == worker = "turn" /\ token /\ started = "recent"

\* The steps to the end of the call, for any adapter, by what its thread does next,
Place(w) ==
  CASE w = "ended" -> 0
    [] w \in {"kill", "leave", "close_stdout"} -> 1
    [] w = "terminated" -> 2
    [] w = "wait" -> 3
    [] w = "stop" -> 4
    [] w \in {"delete", "close"} -> 5
    [] w = "finally" -> 6
    [] w \in {"exited", "answered"} -> 8
    [] w \in {"poll", "overdue", "message", "await_call"} -> 9
    [] w \in {"turn", "entered", "call"} -> 10
    [] w \in {"session", "notify"} -> 11
    [] w \in {"configure", "await_initialize"} -> 12
    [] w \in {"ready", "initialize"} -> 13
    [] w = "invoke" -> 17
    [] w = "register" -> 18
    [] w = "spawn" -> 19
    [] OTHER -> 20

\* by how far the termination of a command has got,
Grace == CASE started = "no" -> 2 [] started = "recent" -> 1 [] OTHER -> 0

\* and by whether the process has still to be killed.
CallLeft ==
  CASE worker = "poll" /\ child = "live" -> 12 + 2 * Grace
    [] worker = "turn" /\ child = "live" -> 11 + 2 * Grace
    [] worker \in Cleanup \cup {"overdue"} /\ child = "live" -> Place(worker) + 1
    [] OTHER -> Place(worker)

\* A call that is ending goes on ending; nothing that happens makes it longer, and
\* every step of its thread makes it shorter, but for the polls of InGrace.
Nearer ==
  Ending =>
    /\ Ending'
    /\ ~InGrace => CallLeft' <= CallLeft /\ (Thread => CallLeft' < CallLeft)

EndingRunsDown == [](CallLeft \in 0 .. 20) /\ [][Nearer]_vars

\* The steps before the adapters differ.
LEMMA BeginNearer ==
  ASSUME Inv, Ending, UNCHANGED adapter, Check \/ Spawn \/ SpawnRaises
  PROVE  Ending' /\ (~InGrace => CallLeft' < CallLeft)
<1> USE DEF Inv, TypeOK, ProcessTypeOK, Processes, Placed, Early, Ending, InGrace, Sending,
            Cleanup, CallLeft, Grace, Place, CommandSteps, OpenCodeSteps, McpSteps,
            CommandWatching, OpenCodeWatching, McpWatching, process, signal, call, clock,
            shared, server, pipes, Step, Leave, Return, Reap, Terminate, Kill, Unregister
<1>1. CASE Check
  BY <1>1 DEF Check
<1>2. CASE Spawn
  BY <1>2 DEF Spawn
<1>3. CASE SpawnRaises
  BY <1>3 DEF SpawnRaises
<1>4. QED
  BY <1>1, <1>2, <1>3

\* run_cancellable_process.
LEMMA CommandNearer ==
  ASSUME Inv, Ending, UNCHANGED adapter, adapter = "command", CommandThread
  PROVE  Ending' /\ (~InGrace => CallLeft' < CallLeft)
<1> USE DEF Inv, TypeOK, ProcessTypeOK, Processes, Placed, Early, Ending, InGrace, Sending,
            Cleanup, CallLeft, Grace, Place, CommandSteps, OpenCodeSteps, McpSteps,
            CommandWatching, OpenCodeWatching, McpWatching, process, signal, call, clock,
            shared, server, pipes, Step, Leave, Return, Reap, Terminate, Kill, Unregister
<1>1. CASE Register("poll")
  BY <1>1 DEF Register
<1>2. CASE CommandInvoke
  BY <1>2 DEF CommandInvoke, AskToEnd
<1>3. CASE CommandPoll
  BY <1>3 DEF CommandPoll
<1>4. CASE TurnAsks
  BY <1>4 DEF TurnAsks, AskToEnd
<1>5. CASE TurnKills
  BY <1>5 DEF TurnKills
<1>6. CASE TurnTimesOut
  BY <1>6 DEF TurnTimesOut
<1>7. CASE TurnWaits
  BY <1>7 DEF TurnWaits
<1>8. CASE TurnRaises
  BY <1>8 DEF TurnRaises
<1>9. CASE CommandOverdue
  BY <1>9 DEF CommandOverdue
<1>10. CASE CommandExited
  BY <1>10 DEF CommandExited
<1>11. CASE CommandFinally
  BY <1>11 DEF CommandFinally
<1>12. CASE CommandKill
  BY <1>12 DEF CommandKill
<1>13. CASE Check \/ Spawn \/ SpawnRaises
  BY <1>13 DEF Check, Spawn, SpawnRaises
<1>14. QED
  BY <1>1, <1>2, <1>3, <1>4, <1>5, <1>6, <1>7, <1>8, <1>9, <1>10, <1>11, <1>12, <1>13 DEF CommandThread

\* invoke_opencode_server.
LEMMA OpenCodeNearer ==
  ASSUME Inv, Ending, UNCHANGED adapter, adapter = "opencode",
         OpenCodeThread \/ Register("ready")
  PROVE  Ending' /\ (~InGrace => CallLeft' < CallLeft)
<1> USE DEF Inv, TypeOK, ProcessTypeOK, Processes, Placed, Early, Ending, InGrace, Sending,
            Cleanup, CallLeft, Grace, Place, CommandSteps, OpenCodeSteps, McpSteps,
            CommandWatching, OpenCodeWatching, McpWatching, process, signal, call, clock,
            shared, server, pipes, Step, Leave, Return, Reap, Terminate, Kill, Unregister
<1>1. CASE Register("ready")
  BY <1>1 DEF Register
<1>2. CASE OpenCodeInvoke
  BY <1>2 DEF OpenCodeInvoke
<1>3. CASE OpenCodeReady
  BY <1>3 DEF OpenCodeReady
<1>4. CASE OpenCodeConfigure
  BY <1>4 DEF OpenCodeConfigure
<1>5. CASE OpenCodeSession
  BY <1>5 DEF OpenCodeSession
<1>6. CASE OpenCodeSessionFails
  BY <1>6 DEF OpenCodeSessionFails
<1>7. CASE OpenCodeEntered
  BY <1>7 DEF OpenCodeEntered
<1>8. CASE OpenCodeMessage
  BY <1>8 DEF OpenCodeMessage
<1>9. CASE OpenCodeAnswered
  BY <1>9 DEF OpenCodeAnswered
<1>10. CASE OpenCodeFinally
  BY <1>10 DEF OpenCodeFinally
<1>11. CASE OpenCodeDelete
  BY <1>11 DEF OpenCodeDelete
<1>12. CASE OpenCodeDeleteRaises
  BY <1>12 DEF OpenCodeDeleteRaises
<1>13. CASE OpenCodeStop
  BY <1>13 DEF OpenCodeStop
<1>14. CASE OpenCodeWait
  BY <1>14 DEF OpenCodeWait
<1>15. CASE OpenCodeLeave
  BY <1>15 DEF OpenCodeLeave
<1>16. QED
  BY <1>1, <1>2, <1>3, <1>4, <1>5, <1>6, <1>7, <1>8, <1>9, <1>10, <1>11, <1>12, <1>13, <1>14, <1>15 DEF OpenCodeThread

\* McpStdioCapabilityExecutor._session and _close_process.
LEMMA McpNearer ==
  ASSUME Inv, Ending, UNCHANGED adapter, adapter = "mcp", McpThread
  PROVE  Ending' /\ (~InGrace => CallLeft' < CallLeft)
<1> USE DEF Inv, TypeOK, ProcessTypeOK, Processes, Placed, Early, Ending, InGrace, Sending,
            Cleanup, CallLeft, Grace, Place, CommandSteps, OpenCodeSteps, McpSteps,
            CommandWatching, OpenCodeWatching, McpWatching, process, signal, call, clock,
            shared, server, pipes, Step, Leave, Return, Reap, Terminate, Kill, Unregister
<1>1. CASE McpRegister
  BY <1>1 DEF McpRegister, Register
<1>2. CASE McpInvoke
  BY <1>2 DEF McpInvoke
<1>3. CASE SendFails
  BY <1>3 DEF SendFails
<1>4. CASE McpAwaits
  BY <1>4 DEF McpAwaits, AwaitGivesUp, AwaitLine
<1>5. CASE McpAnswered
  BY <1>5 DEF McpAnswered
<1>6. CASE McpFinally
  BY <1>6 DEF McpFinally
<1>7. CASE CloseStdin
  BY <1>7 DEF CloseStdin
<1>8. CASE CloseWait
  BY <1>8 DEF CloseWait
<1>9. CASE CloseStdout
  BY <1>9 DEF CloseStdout
<1>10. QED
  BY <1>1, <1>2, <1>3, <1>4, <1>5, <1>6, <1>7, <1>8, <1>9 DEF McpThread

\* What is not the thread of the call: the cancelling thread, the clock and the process.
LEMMA OthersNearer ==
  ASSUME Inv, Ending, UNCHANGED adapter, Callback \/ Time \/ Server \/ Request
  PROVE  Ending' /\ CallLeft' <= CallLeft
<1> USE DEF Inv, TypeOK, ProcessTypeOK, Processes, Placed, Early, Ending, InGrace, Sending,
            Cleanup, CallLeft, Grace, Place, CommandSteps, OpenCodeSteps, McpSteps,
            CommandWatching, OpenCodeWatching, McpWatching, process, signal, call, clock,
            shared, server, pipes, Step, Leave, Return, Reap, Terminate, Kill, Unregister
<1>1. CASE adapter = "command" /\ CommandCallback
  BY <1>1 DEF CommandCallback
<1>2. CASE adapter = "opencode" /\ (OpenCodeCallback \/ OpenCodeAbort \/ OpenCodeAbortRaises)
  BY <1>2 DEF OpenCodeCallback, OpenCodeAbort, OpenCodeAbortRaises
<1>3. CASE adapter = "mcp" /\ McpCallback
  BY <1>3 DEF McpCallback
<1>4. CASE CallbackSignals
  BY <1>4 DEF CallbackSignals
<1>5. CASE SecondPasses
  BY <1>5 DEF SecondPasses
<1>6. CASE DeadlinePasses
  BY <1>6 DEF DeadlinePasses
<1>7. CASE Exit
  BY <1>7 DEF Exit
<1>8. CASE adapter = "mcp" /\ ServerShuts
  BY <1>8 DEF ServerShuts
<1>9. CASE adapter = "mcp" /\ McpSends
  BY <1>9 DEF McpSends, Sent
<1>10. CASE Request
  BY <1>10 DEF Request
<1>11. QED
  BY <1>1, <1>2, <1>3, <1>4, <1>5, <1>6, <1>7, <1>8, <1>9, <1>10 DEF Callback, Time, Server

\* The thread that reads lines.
LEMMA ReaderNearer ==
  ASSUME Ending, UNCHANGED adapter, Reader
  PROVE  Ending' /\ CallLeft' <= CallLeft
<1>1. UNCHANGED <<child, token, late, worker, started>>
  BY DEF Reader, Offer, ReadLine, shared, process, signal, call, clock
<1>2. CallLeft \in Nat /\ CallLeft' = CallLeft
  BY <1>1 DEF CallLeft, Grace, Place
<1>3. QED
  BY <1>1, <1>2 DEF Ending, Sending, Early

\* A call that was cancelled, is overdue or is in its finally ends within twenty
\* steps of its thread and the second a command is given, whatever its process,
\* its server, its callbacks and its lines do: run_cancellable_process,
\* invoke_opencode_server and McpStdioCapabilityExecutor._session.
THEOREM EndingCallsRunDown == Spec => EndingRunsDown
<1>1. CallLeft \in 0 .. 20
  <2>1. Place(worker) \in 0 .. 20 /\ (worker \in Cleanup \cup {"overdue"} => Place(worker) \in 0 .. 9)
    BY DEF Place, Cleanup
  <2>2. Grace \in 0 .. 2
    BY DEF Grace
  <2>3. QED
    BY <2>1, <2>2 DEF CallLeft
<1>2. ASSUME Inv, [Next]_vars PROVE Nearer
  <2>0. SUFFICES ASSUME Ending
                 PROVE  /\ Ending'
                        /\ ~InGrace => CallLeft' <= CallLeft /\ (Thread => CallLeft' < CallLeft)
    BY DEF Nearer
  <2>1. CallLeft \in Nat /\ (UNCHANGED vars => CallLeft' = CallLeft /\ Ending')
    BY <2>0 DEF CallLeft, Grace, Place, Ending, Sending, Early, vars, shared, process, signal, call, clock
  <2>2. CallLeft' \in Nat
    BY DEF CallLeft, Grace, Place
  <2>3. ASSUME Thread PROVE Ending' /\ (~InGrace => CallLeft' < CallLeft)
    <3>1. UNCHANGED adapter
      BY <1>2 DEF Next, vars
    <3>2. QED
      BY <1>2, <2>0, <2>3, <3>1, BeginNearer, CommandNearer, OpenCodeNearer, McpNearer DEF Thread
  <2>4. ASSUME ~Thread PROVE Ending' /\ CallLeft' <= CallLeft
    <3>1. CASE UNCHANGED vars
      BY <2>1, <3>1
    <3>2. CASE Next
      BY <1>2, <2>0, <2>4, <3>2, OthersNearer, ReaderNearer DEF Next
    <3>3. QED
      BY <1>2, <3>1, <3>2
  <2>5. QED
    BY <2>1, <2>2, <2>3, <2>4
<1>3. Inv /\ [Next]_vars => Nearer
  BY <1>2
<1>4. QED
  BY <1>1, <1>3, CallInvariance, PTL DEF Spec, EndingRunsDown

-----------------------------------------------------------------------------
(* How long the thread that reads lines outlives its call.                 *)

\* The steps after the finally of a session, from which on the reader is told to stop.
AfterFinally == {"close", "wait", "terminated", "close_stdout", "ended"}

\* Where the reader is: only a session has one, which starts with the registration
\* and is stopped before the call closes its process.
Reading ==
  /\ adapter # "mcp" => reader = "none" /\ ~stopped
  /\ worker \in {"check", "spawn", "register"} => reader = "none"
  /\ worker \in AfterFinally => stopped \/ reader = "none"
  /\ stopped => worker \in AfterFinally

\* The steps to the end of the reader once it has been stopped.
ReaderLeft == CASE reader = "read" -> 2 [] reader = "offer" -> 1 [] OTHER -> 0

\* Two steps of the reader end it, and nobody starts it again.
ReaderNearerEnd == stopped => ReaderLeft' <= ReaderLeft /\ (Reader => ReaderLeft' < ReaderLeft)

\* No reader waits for room in a queue that its call has left, and from the
\* finally of its call on it has two steps to make.
ReaderRunsDown ==
  /\ [](returned # "no" /\ reader = "offer" => stopped)
  /\ [][ReaderNearerEnd]_vars

\* A step that leaves the reader alone, of an adapter without one or of a thread
\* that stays on its side of the finally.
LEMMA PipesKept ==
  ASSUME Reading, UNCHANGED adapter, UNCHANGED <<reader, stopped>>,
         \/ adapter # "mcp"
         \/ worker' = worker
         \/ worker \in {"check", "spawn"} /\ worker' \in {"spawn", "register", "ended"}
         \/ worker \notin AfterFinally /\ worker' \notin {"check", "spawn", "register"} \cup AfterFinally
         \/ worker \in AfterFinally /\ worker' \in AfterFinally
  PROVE  Reading'
<1>1. CASE adapter # "mcp"
  BY <1>1 DEF Reading
<1>2. CASE worker' = worker
  BY <1>2 DEF Reading
<1>3. CASE worker \in {"check", "spawn"} /\ worker' \in {"spawn", "register", "ended"}
  BY <1>3 DEF Reading, AfterFinally
<1>4. CASE worker \notin AfterFinally /\ worker' \notin {"check", "spawn", "register"} \cup AfterFinally
  BY <1>4 DEF Reading
<1>5. CASE worker \in AfterFinally /\ worker' \in AfterFinally
  BY <1>5 DEF Reading, AfterFinally
<1>6. QED
  BY <1>1, <1>2, <1>3, <1>4, <1>5

\* The thread of a session.
LEMMA McpKeepsReading ==
  ASSUME Inv, Reading, UNCHANGED adapter, adapter = "mcp", McpThread
  PROVE  Reading' /\ ReaderNearerEnd
<1> USE DEF Step, Leave, Return
<1>0. /\ token \in BOOLEAN
      /\ UNCHANGED <<reader, stopped>> => ReaderLeft' = ReaderLeft
      /\ ReaderLeft \in Nat
      /\ Reader => reader' # reader
  BY DEF Inv, TypeOK, ProcessTypeOK, ReaderLeft, Reader, Offer, ReadLine
<1>1. CASE McpRegister
  <2>1. worker = "register" /\ worker' \in {"invoke", "initialize"} /\ stopped' = stopped
    BY <1>1 DEF McpRegister, Register
  <2>2. ~stopped
    BY <2>1 DEF Reading, AfterFinally
  <2>3. QED
    BY <2>1, <2>2 DEF Reading, AfterFinally, ReaderNearerEnd
<1>2. CASE McpInvoke \/ McpAnswered
  <2>1. worker \notin AfterFinally /\ worker' \in {"initialize", "finally"} /\ UNCHANGED <<reader, stopped>>
    BY <1>2 DEF McpInvoke, McpAnswered, AfterFinally, pipes
  <2>2. QED
    BY <1>0, <2>1, PipesKept DEF AfterFinally, ReaderNearerEnd
<1>3. CASE SendFails \/ McpAwaits
  <2>1. /\ worker \in {"initialize", "notify", "call", "await_initialize", "await_call"}
        /\ worker' \in {"finally", "await_initialize", "notify", "await_call", "answered"}
    BY <1>3 DEF SendFails, McpAwaits, AwaitGivesUp, AwaitLine
  <2>2. UNCHANGED <<reader, stopped>>
    BY <1>3 DEF SendFails, McpAwaits, AwaitGivesUp, AwaitLine, pipes
  <2>3. QED
    BY <1>0, <2>1, <2>2 DEF Reading, AfterFinally, ReaderNearerEnd
<1>4. CASE McpFinally
  <2>1. worker = "finally" /\ worker' = "close" /\ stopped' = TRUE /\ reader' = reader
    BY <1>4 DEF McpFinally
  <2>2. ~stopped
    BY <2>1 DEF Reading, AfterFinally
  <2>3. QED
    BY <2>1, <2>2 DEF Reading, AfterFinally, ReaderNearerEnd
<1>5. CASE CloseStdin \/ CloseWait \/ CloseStdout
  <2>1. worker \in AfterFinally /\ worker' \in AfterFinally /\ UNCHANGED <<reader, stopped>>
    BY <1>5 DEF CloseStdin, CloseWait, CloseStdout, AfterFinally, pipes
  <2>2. QED
    BY <1>0, <2>1, PipesKept DEF ReaderNearerEnd
<1>6. QED
  BY <1>1, <1>2, <1>3, <1>4, <1>5 DEF McpThread

\* The reader itself.
LEMMA ReaderReads ==
  ASSUME Inv, Reading, UNCHANGED adapter, Reader
  PROVE  Reading' /\ ReaderNearerEnd
<1>1. adapter = "mcp" /\ UNCHANGED <<worker, stopped>>
  BY DEF Reader, Offer, ReadLine, shared, call
<1>2. \/ reader = "offer" /\ reader' \in {"gone", "read"} /\ (stopped => reader' = "gone")
      \/ reader = "read" /\ reader' = "offer"
  BY DEF Reader, Offer, ReadLine
<1>3. Reading'
  BY <1>1, <1>2 DEF Reading
<1>4. QED
  BY <1>2, <1>3 DEF ReaderNearerEnd, ReaderLeft

\* The reading thread of a session ends with its call, also behind a full queue
\* that nobody empties any more: _read_mcp_lines and _offer.
THEOREM ReadersRunDown == Spec => ReaderRunsDown
<1>1. Init => Reading
  BY DEF Init, ProcessInit, McpInit, Reading, AfterFinally
<1>2. ASSUME Inv, Reading, [Next]_vars PROVE Reading' /\ ReaderNearerEnd
  <2>0. /\ UNCHANGED <<reader, stopped>> => ReaderLeft' = ReaderLeft
        /\ ReaderLeft \in Nat
        /\ Reader => reader' # reader
        /\ UNCHANGED adapter
    BY <1>2 DEF ReaderLeft, Reader, Offer, ReadLine, Next, vars
  <2>1. CASE Thread
    <3>1. CASE adapter = "mcp" /\ McpThread
      BY <1>2, <2>0, <3>1, McpKeepsReading
    <3>2. CASE (Check \/ Spawn \/ SpawnRaises) /\ UNCHANGED <<server, pipes>>
      <4>1. worker \in {"check", "spawn"} /\ worker' \in {"spawn", "register", "ended"}
        BY <3>2 DEF Check, Spawn, SpawnRaises, Step, Return
      <4>2. UNCHANGED <<reader, stopped>>
        BY <3>2 DEF pipes
      <4>3. QED
        BY <1>2, <2>0, <4>1, <4>2, PipesKept DEF ReaderNearerEnd
    <3>3. CASE adapter # "mcp"
      <4>1. UNCHANGED <<reader, stopped>>
        BY <2>1, <3>3 DEF Thread, pipes
      <4>2. QED
        BY <1>2, <2>0, <3>3, <4>1, PipesKept DEF ReaderNearerEnd
    <3>4. QED
      BY <2>1, <3>1, <3>2, <3>3 DEF Thread
  <2>2. CASE Reader
    BY <1>2, <2>0, <2>2, ReaderReads
  <2>3. CASE Callback \/ Time \/ Server \/ (Request /\ UNCHANGED <<server, pipes>>) \/ UNCHANGED vars
    <3>1. CASE McpSends
      <4>1. /\ worker \in {"initialize", "notify", "call"} /\ worker' \in {"await_initialize", "call", "await_call"}
            /\ UNCHANGED <<reader, stopped>>
        BY <3>1 DEF McpSends, Sent, Step, pipes
      <4>2. QED
        BY <1>2, <2>0, <4>1, PipesKept DEF AfterFinally, ReaderNearerEnd
    <3>2. CASE ~McpSends
      <4>1. UNCHANGED <<worker, reader, stopped>>
        BY <2>3, <3>2
        DEF Callback, CommandCallback, OpenCodeCallback, OpenCodeAbort, OpenCodeAbortRaises, McpCallback,
            CallbackSignals, Time, SecondPasses, DeadlinePasses, Server, ServerShuts, Exit, Request, vars, shared,
            call, pipes
      <4>2. QED
        BY <1>2, <2>0, <4>1, PipesKept DEF ReaderNearerEnd
    <3>3. QED
      BY <3>1, <3>2
  <2>4. QED
    BY <1>2, <2>1, <2>2, <2>3 DEF Next
<1>3. Inv /\ Reading => (returned # "no" /\ reader = "offer" => stopped)
  BY DEF Inv, Processes, Reading, AfterFinally
<1>4. Inv /\ Reading /\ [Next]_vars => Reading' /\ ReaderNearerEnd
  BY <1>2
<1>5. QED
  BY <1>1, <1>3, <1>4, CallInvariance, PTL DEF Spec, ReaderRunsDown
=============================================================================
