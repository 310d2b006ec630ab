------------------------ MODULE FlowAdmissionProofs ------------------------
(***************************************************************************)
(* Proofs about FlowAdmission: no Run without consent for its writes, and  *)
(* no fork of anything but its parent, for any Flows and any requests.     *)
(***************************************************************************)
EXTENDS FlowAdmission, SequenceTheorems, TLAPS

\* A definition some saved Flow compiles to.
Compiled(d) == \E f \in Flows, e \in Executors : Compiles(f, e) /\ d = Definition(f, e)

Typed ==
  /\ tasks \in [Tasks -> Goals \cup {None}]
  /\ flows \in [Tasks -> Drafts \cup {None}]
  /\ used \subseteq Tasks
  /\ author \in [task : Tasks, flow : Drafts \cup {None}] \cup {None}
  /\ at \in [Clients -> Steps]
  /\ local \in [Clients -> LocalType]
  /\ \A ch \in confirmed : IsChallenge(ch)
  /\ runs \in [Runs -> RunType \cup {None}]
  /\ bound \in [Runs -> SUBSET [executor : Capabilities, group : SessionGroups, ref : Refs]]

\* A Run is at a Node of a Flow that compiled.
Placed(run) ==
  /\ Compiled(run.definition)
  /\ run.start \in 1 .. Length(run.definition)
  /\ run.done \in run.start - 1 .. Length(run.definition)
  /\ run.status = "running" => run.done < Length(run.definition)

\* What it writes has been confirmed.
Consented(run) ==
  LET ch == Challenge(run.definition, run.input, run.start, run.parent) IN ch.effects = {} \/ ch \in confirmed

\* A fork is one of what it says it is.
Repeats(run) ==
  run.parent # None =>
    /\ runs[run.parent] # None
    /\ runs[run.parent].status \in Terminal
    /\ run.definition = runs[run.parent].definition
    /\ run.input = runs[run.parent].input
    /\ run.start > 1 => runs[run.parent].start = 1 /\ run.start <= runs[run.parent].done + 1

Sealed == \A r \in Existing : Placed(runs[r]) /\ Consented(runs[r]) /\ Repeats(runs[r])

\* What a request has read is still true when it is at a step.
Sound(step, l) ==
  /\ step # "idle" => l.executor \in Executors
  /\ step \in {"task", "override", "compile", "admit", "challenged"} => l.task \in Tasks
  /\ step \in {"list", "match"} => l.parent = None
  /\ step = "compile" => l.flow \in Flows
  /\ step \notin {"idle", "admit", "challenged"} /\ l.parent = None => l.supplied \in Inputs /\ l.start = 1
  /\ step # "idle" /\ l.parent # None =>
       runs[l.parent] # None /\ l.start \in 1 .. Length(runs[l.parent].definition)
  /\ step \in {"admit", "challenged"} =>
       /\ Compiled(l.definition)
       /\ l.input \in FlowInputs
       /\ l.start \in 1 .. Length(l.definition)
       /\ l.parent = None => l.start = 1
       /\ l.parent # None => /\ Forkable(runs[l.parent], l.definition, l.start)
                             /\ l.input = runs[l.parent].input

\* The inductive invariant.
Inv == Typed /\ Sealed /\ \A c \in Clients : Sound(at[c], local[c])

\* What a turn leaves with its executor.
Session(turn) == [executor |-> turn.executor, group |-> turn.group, ref |-> turn.ref]

\* The turns of the same executor and group.
Before(turns, k) == {j \in 1 .. k - 1 : turns[j].executor = turns[k].executor /\ turns[j].group = turns[k].group}

\* Turns of the same executor and group are about one conversation, and each of them knows of those before it.
Agreeing(turns) ==
  \A k \in DOMAIN turns :
    /\ turns[k].reused = (Before(turns, k) # {})
    /\ \A j \in DOMAIN turns :
         turns[j].executor = turns[k].executor /\ turns[j].group = turns[k].group => turns[j].ref = turns[k].ref

\* A Run executes its groups from their first Node; a turn is one of its Nodes.
WholeGroups(run) ==
  /\ Groups(run.definition.nodes, 1 .. run.start - 1)
       \cap Groups(run.definition.nodes, run.start .. Length(run.definition)) = {}
  /\ \A k \in DOMAIN run.sessions :
       /\ run.sessions[k].node \in run.start .. Length(run.definition)
       /\ run.sessions[k].group = run.definition.nodes[run.sessions[k].node].group
       /\ run.sessions[k].executor = run.definition.nodes[run.sessions[k].node].executor

\* The executors hold what the turns say, no more and no less.
Conversed(r) ==
  /\ runs[r] = None => bound[r] = {}
  /\ runs[r] # None =>
       /\ WholeGroups(runs[r])
       /\ Agreeing(runs[r].sessions)
       /\ bound[r] = {Session(runs[r].sessions[k]) : k \in DOMAIN runs[r].sessions}

Talk == \A r \in Runs : Conversed(r)

\* What the documentation takes for granted and _compile_console_flow does not ask: a group is bound to one Capability.
GroupsBindOnce ==
  \A f \in Flows : \A i, j \in DOMAIN f.steps :
    f.steps[i].group # None /\ f.steps[i].group = f.steps[j].group => f.steps[i].capability = f.steps[j].capability

-----------------------------------------------------------------------------

\* The nodes of a compiled definition.
LEMMA CompiledShape ==
  ASSUME AdmissionAssumption, NEW d, Compiled(d)
  PROVE  /\ d \in Definitions
         /\ Length(d) \in Nat \ {0}
         /\ DOMAIN d.nodes = 1 .. Length(d)
         /\ DOMAIN d.nodes \subseteq Positions
         /\ \A i \in DOMAIN d.nodes : d.nodes[i].group # None =>
              d.nodes[i].group \in SessionGroups /\ d.nodes[i].executor \in Capabilities
<1>1. PICK f \in Flows, e \in Executors : Compiles(f, e) /\ d = Definition(f, e)
  BY DEF Compiled
<1>2. f.steps \in Seq(Step)
  BY DEF AdmissionAssumption
<1>3. /\ DOMAIN f.steps = 1 .. Len(f.steps)
      /\ Len(f.steps) \in Nat
      /\ \A i \in DOMAIN f.steps : f.steps[i] \in Step
  BY <1>2
<1>4. Len(f.steps) # 0
  BY <1>1, <1>2 DEF Compiles
<1> DEFINE node(i) == [id |-> f.steps[i].id, kind |-> f.steps[i].kind, group |-> f.steps[i].group,
                       executor |-> ExecutorOf(f.steps[i], e)]
<1>5. d.nodes = [i \in 1 .. Len(f.steps) |-> node(i)]
  BY <1>1, <1>3 DEF Definition
<1> HIDE DEF node
<1>6. d.nodes \in Seq({node(i) : i \in 1 .. Len(f.steps)}) /\ DOMAIN d.nodes = 1 .. Len(f.steps)
  BY <1>3, <1>5
<1>7. Length(d) = Len(f.steps)
  BY <1>3, <1>6, LenProperties DEF Length
<1>8. DOMAIN d.nodes \subseteq Positions
  BY <1>3, <1>6 DEF Positions
<1>9. ASSUME NEW i \in DOMAIN d.nodes, d.nodes[i].group # None
      PROVE  d.nodes[i].group \in SessionGroups /\ d.nodes[i].executor \in Capabilities
  <2>1. i \in DOMAIN f.steps /\ d.nodes[i] = node(i)
    BY <1>3, <1>5, <1>6
  <2>2. /\ d.nodes[i].group = f.steps[i].group
        /\ d.nodes[i].executor = ExecutorOf(f.steps[i], e)
    BY <2>1 DEF node
  <2>3. f.steps[i].kind = "agent.task" /\ f.steps[i].capability \in SessionCapable
    BY <1>1, <1>9, <2>1, <2>2 DEF Compiles
  <2>4. f.steps[i].capability \in Capabilities /\ f.steps[i].capability # None
    BY <2>3 DEF AdmissionAssumption
  <2>5. ExecutorOf(f.steps[i], e) = f.steps[i].capability
    BY <2>3, <2>4 DEF ExecutorOf
  <2>6. f.steps[i].group \in SessionGroups
    BY <1>3, <1>9, <2>1, <2>2 DEF Step
  <2> QED BY <2>2, <2>4, <2>5, <2>6
<1>10. d \in Definitions
  BY <1>1 DEF Definitions
<1> QED BY <1>3, <1>4, <1>6, <1>7, <1>8, <1>9, <1>10

\* A step of a request that only reads keeps the invariant if what it now knows is so.
LEMMA ReadStep ==
  ASSUME AdmissionAssumption, Inv, NEW c \in Clients, NEW to \in Steps, NEW l \in LocalType,
         Go(c, to, l), Reads, Sound(to, l)
  PROVE  Inv'
<1>1. UNCHANGED <<tasks, flows, used, author, confirmed, runs, bound>>
  BY DEF Reads, store
<1>2. LocalType' = LocalType
  BY <1>1 DEF LocalType, Auths, FlowInputs, Definitions, Positions
<1>3. Typed'
  BY <1>1, <1>2 DEF Inv, Typed, Go
<1>4. Sealed'
  BY <1>1 DEF Inv, Sealed, Existing, Consented, Repeats
<1>5. ASSUME NEW d \in Clients PROVE Sound(at[d], local[d])'
  <2>1. CASE d = c
    BY <1>1, <2>1 DEF Inv, Typed, Go, Sound, Forkable
  <2>2. CASE d # c
    <3>1. at'[d] = at[d] /\ local'[d] = local[d]
      BY <2>2 DEF Inv, Typed, Go
    <3>2. Sound(at[d], local[d])
      BY DEF Inv
    <3> QED BY <1>1, <3>1, <3>2 DEF Sound
  <2> QED BY <2>1, <2>2
<1> QED BY <1>3, <1>4, <1>5 DEF Inv

\* What a request that has ended knows.
LEMMA Forgotten ==
  ASSUME AdmissionAssumption PROVE Locals \in LocalType /\ Sound("idle", Locals) /\ "idle" \in Steps
<1>1. None \in Auths
  BY DEF Auths
<1>2. Locals \in LocalType
  BY <1>1 DEF Locals, LocalType
<1> QED BY <1>2 DEF Sound, Steps, Locals

\* A request that is refused or given up keeps the invariant.
LEMMA RefuseStep ==
  ASSUME AdmissionAssumption, Inv, NEW c \in Clients, Refuse(c), Reads
  PROVE  Inv'
BY Forgotten, ReadStep DEF Refuse

\* A new request keeps the invariant.
LEMMA RequestStep ==
  ASSUME AdmissionAssumption, Inv, NEW c \in Clients, Request(c)
  PROVE  Inv'
<1>0. Locals \in LocalType
  BY Forgotten
<1>1. ASSUME NEW e \in Executors, NEW input \in Inputs, NEW auth \in Auths, NEW t \in Tasks,
             RequestRun(c, t, e, input, auth)
      PROVE  Inv'
  <2> DEFINE l == [Locals EXCEPT !.task = t, !.executor = e, !.supplied = input, !.auth = auth]
  <2>1. l \in LocalType
    BY <1>0 DEF LocalType
  <2>2. Sound("task", l)
    BY DEF Sound, Locals
  <2>3. Go(c, "task", l) /\ Reads
    BY <1>1 DEF RequestRun
  <2> HIDE DEF l
  <2> QED BY <2>1, <2>2, <2>3, ReadStep DEF Steps
<1>2. ASSUME NEW e \in Executors, NEW input \in Inputs, NEW auth \in Auths, NEW f \in Flows,
             RequestPortableRun(c, f.id, e, input, auth)
      PROVE  Inv'
  <2> DEFINE l == [Locals EXCEPT !.portable = f.id, !.executor = e, !.supplied = input, !.auth = auth]
  <2>0. f.id \in PortableIds
    BY DEF AdmissionAssumption
  <2>1. l \in LocalType
    BY <1>0, <2>0 DEF LocalType
  <2>2. Sound("list", l)
    BY DEF Sound, Locals
  <2>3. Go(c, "list", l) /\ Reads
    BY <1>2 DEF RequestPortableRun
  <2> HIDE DEF l
  <2> QED BY <2>1, <2>2, <2>3, ReadStep DEF Steps
<1>3. ASSUME NEW r \in Runs, NEW start \in Positions, NEW auth \in Auths, RequestFork(c, r, start, auth)
      PROVE  Inv'
  <2> DEFINE l == [Locals EXCEPT !.task = runs[r].task, !.executor = runs[r].executor, !.auth = auth,
                                 !.parent = r, !.start = start]
  <2>0. runs[r] # None /\ runs[r].task \in Tasks /\ runs[r].executor \in Executors
    BY <1>3 DEF RequestFork, Inv, Typed, RunType
  <2>1. l \in LocalType
    BY <1>0, <2>0 DEF LocalType
  <2>2. /\ l.parent = r /\ l.start = start
        /\ l.task \in Tasks /\ l.executor \in Executors
    BY <1>0, <2>0 DEF LocalType
  <2>3. Sound("task", l)
    BY <1>3, <2>0, <2>2 DEF Sound, RequestFork, AdmissionAssumption
  <2>4. Go(c, "task", l) /\ Reads
    BY <1>3 DEF RequestFork
  <2> HIDE DEF l
  <2> QED BY <2>1, <2>3, <2>4, ReadStep DEF Steps
<1> QED BY <1>1, <1>2, <1>3 DEF Request

\* Looking up the Flow of a request keeps the invariant.
LEMMA LookupStep ==
  ASSUME AdmissionAssumption, Inv, NEW c \in Clients,
         ListFlows(c) \/ MatchPortable(c) \/ GetTask(c) \/ GetOverride(c)
  PROVE  Inv'
<1>0. local[c] \in LocalType /\ Sound(at[c], local[c]) /\ flows \in [Tasks -> Drafts \cup {None}]
  BY DEF Inv, Typed
<1>1. CASE ListFlows(c)
  <2> DEFINE l == [local[c] EXCEPT !.listed = flows]
  <2>1. l \in LocalType
    BY <1>0 DEF LocalType
  <2>2. l.executor \in Executors /\ l.parent = None /\ l.supplied \in Inputs /\ l.start = 1
    BY <1>0, <1>1 DEF ListFlows, Sound, LocalType
  <2>4. Go(c, "match", l) /\ Reads
    BY <1>1 DEF ListFlows
  <2> HIDE DEF l
  <2>6. Sound("match", l)
    BY <2>2 DEF Sound
  <2> QED BY <2>1, <2>4, <2>6, ReadStep DEF Steps
<1>2. CASE MatchPortable(c)
  <2>1. ASSUME NEW t \in Tasks, Go(c, "task", [local[c] EXCEPT !.task = t, !.listed = None])
        PROVE  Inv'
    <3> DEFINE l == [local[c] EXCEPT !.task = t, !.listed = None]
    <3>1. l \in LocalType
      BY <1>0 DEF LocalType
    <3>2. l.executor \in Executors /\ l.task \in Tasks /\ l.parent = None /\ l.supplied \in Inputs /\ l.start = 1
      <4>1. at[c] = "match"
        BY <1>2 DEF MatchPortable
      <4>2. /\ local[c].executor \in Executors /\ local[c].parent = None
            /\ local[c].supplied \in Inputs /\ local[c].start = 1
        BY <1>0, <4>1 DEF Sound
      <4> QED BY <1>0, <2>1, <4>2 DEF LocalType
    <3>3. Go(c, "task", l) /\ Reads
      BY <1>2, <2>1 DEF MatchPortable
    <3> HIDE DEF l
    <3>4. Sound("task", l)
      BY <3>2 DEF Sound
    <3> QED BY <3>1, <3>3, <3>4, ReadStep DEF Steps
  <2>2. Reads /\ (Refuse(c) \/ \E t \in Tasks : Go(c, "task", [local[c] EXCEPT !.task = t, !.listed = None]))
    BY <1>2 DEF MatchPortable
  <2> QED BY <2>1, <2>2, RefuseStep
<1>3. CASE GetTask(c)
  <2>1. CASE Go(c, "override", local[c])
    <3>1. Sound("override", local[c])
      BY <1>0, <1>3 DEF GetTask, Sound
    <3>2. Reads
      BY <1>3 DEF GetTask
    <3> QED BY <1>0, <2>1, <3>1, <3>2, ReadStep DEF Steps
  <2>2. Reads /\ (Refuse(c) \/ Go(c, "override", local[c]))
    BY <1>3 DEF GetTask
  <2> QED BY <2>1, <2>2, RefuseStep
<1>4. CASE GetOverride(c)
  <2>0. local[c].task \in Tasks
    BY <1>0, <1>4 DEF GetOverride, Sound
  <2>1. PICK f \in Flows : f = Saved(flows[local[c].task])
    BY <1>0, <2>0 DEF Saved, Flows
  <2> DEFINE l == [local[c] EXCEPT !.flow = f]
  <2>2. l \in LocalType
    BY <1>0, <2>1 DEF LocalType
  <2>3. /\ l.flow \in Flows /\ l.task = local[c].task /\ l.executor = local[c].executor
        /\ l.parent = local[c].parent /\ l.start = local[c].start /\ l.supplied = local[c].supplied
    BY <1>0, <2>1 DEF LocalType
  <2>4. Go(c, "compile", l) /\ Reads
    BY <1>4, <2>1 DEF GetOverride
  <2> HIDE DEF l
  <2>5. Sound("compile", l)
    BY <1>0, <1>4, <2>3 DEF GetOverride, Sound
  <2> QED BY <2>2, <2>4, <2>5, ReadStep DEF Steps
<1> QED BY <1>1, <1>2, <1>3, <1>4

\* Compiling keeps the invariant: what reaches _admit_run has compiled, and a fork matches its parent.
LEMMA CompileStep ==
  ASSUME AdmissionAssumption, Inv, NEW c \in Clients, CompileRun(c) \/ CompileFork(c)
  PROVE  Inv'
<1>0. /\ local[c] \in LocalType /\ Sound(at[c], local[c])
      /\ tasks \in [Tasks -> Goals \cup {None}] /\ runs \in [Runs -> RunType \cup {None}]
  BY DEF Inv, Typed
<1>1. at[c] = "compile"
  BY DEF CompileRun, CompileFork
<1>2. local[c].executor \in Executors /\ local[c].task \in Tasks /\ local[c].flow \in Flows
  BY <1>0, <1>1 DEF Sound
<1>3. PICK d : d = Definition(local[c].flow, local[c].executor)
  OBVIOUS
<1>4. Compiles(local[c].flow, local[c].executor) => Compiled(d) /\ d \in Definitions /\ Length(d) \in Nat \ {0}
  BY <1>2, <1>3, CompiledShape DEF Compiled
<1>5. Reads
  BY DEF CompileRun, CompileFork
<1>6. CASE CompileRun(c)
  <2>0. local[c].parent = None /\ local[c].supplied \in Inputs /\ local[c].start = 1
    BY <1>0, <1>1, <1>6 DEF CompileRun, Sound
  <2>1. CASE Refuse(c)
    BY <1>5, <2>1, RefuseStep
  <2>2. CASE ~Refuse(c)
    <3>1. tasks[local[c].task] # None /\ Compiles(local[c].flow, local[c].executor)
      BY <1>6, <2>2 DEF CompileRun
    <3>2. PICK input : input = [goal |-> tasks[local[c].task], supplied |-> local[c].supplied]
      OBVIOUS
    <3>3. input \in FlowInputs
      BY <1>0, <1>2, <2>0, <3>1, <3>2 DEF FlowInputs
    <3> DEFINE l == [local[c] EXCEPT !.flow = None, !.supplied = None, !.definition = d, !.input = input]
    <3>4. Go(c, "admit", l)
      BY <1>3, <1>6, <2>2, <3>2 DEF CompileRun
    <3>5. l \in LocalType
      BY <1>0, <1>4, <3>1, <3>3 DEF LocalType
    <3>6. /\ l.definition = d /\ l.input = input /\ l.parent = None /\ l.start = 1
          /\ l.executor \in Executors /\ l.task \in Tasks
      BY <1>0, <1>2, <2>0 DEF LocalType
    <3> HIDE DEF l
    <3>7. Sound("admit", l)
      BY <1>4, <3>1, <3>3, <3>6 DEF Sound
    <3> QED BY <1>5, <3>4, <3>5, <3>7, ReadStep DEF Steps
  <2> QED BY <2>1, <2>2
<1>7. CASE CompileFork(c)
  <2>0. local[c].parent # None /\ local[c].parent \in Runs /\ runs[local[c].parent] # None
    BY <1>0, <1>1, <1>7 DEF CompileFork, Sound, LocalType
  <2>1. CASE Refuse(c)
    BY <1>5, <2>1, RefuseStep
  <2>2. CASE ~Refuse(c)
    <3>1. Compiles(local[c].flow, local[c].executor) /\ Forkable(runs[local[c].parent], d, local[c].start)
      BY <1>3, <1>7, <2>2 DEF CompileFork
    <3>2. PICK input : input = runs[local[c].parent].input
      OBVIOUS
    <3>3. input \in FlowInputs
      BY <1>0, <2>0, <3>2 DEF RunType
    <3> DEFINE l == [local[c] EXCEPT !.flow = None, !.definition = d, !.input = input]
    <3>4. Go(c, "admit", l)
      BY <1>3, <1>7, <2>2, <3>2 DEF CompileFork
    <3>5. l \in LocalType
      BY <1>0, <1>4, <3>1, <3>3 DEF LocalType
    <3>6. /\ l.definition = d /\ l.input = input /\ l.parent = local[c].parent /\ l.start = local[c].start
          /\ l.executor \in Executors /\ l.task \in Tasks
      BY <1>0, <1>2 DEF LocalType
    <3>7. runs[local[c].parent].definition = d /\ local[c].start \in 1 .. Length(d)
      BY <1>0, <1>1, <2>0, <3>1 DEF Sound, Forkable
    <3> HIDE DEF l
    <3>8. Sound("admit", l)
      BY <1>4, <2>0, <3>1, <3>2, <3>3, <3>6, <3>7 DEF Sound
    <3> QED BY <1>5, <3>4, <3>5, <3>8, ReadStep DEF Steps
  <2> QED BY <2>1, <2>2
<1> QED BY <1>6, <1>7

\* So does an answer that admits nothing.
LEMMA AnswerStep ==
  ASSUME AdmissionAssumption, Inv, NEW c \in Clients,
         AnswerChallenge(c) \/ RefuseAdmission(c) \/ Decline(c)
  PROVE  Inv'
<1>1. CASE AnswerChallenge(c)
  <2>1. local[c] \in LocalType /\ Sound(at[c], local[c]) /\ at[c] = "admit"
    BY <1>1 DEF Inv, Typed, AnswerChallenge
  <2>2. Sound("challenged", local[c])
    BY <2>1 DEF Sound
  <2>3. Go(c, "challenged", local[c]) /\ Reads
    BY <1>1 DEF AnswerChallenge
  <2> QED BY <2>1, <2>2, <2>3, ReadStep DEF Steps
<1>2. CASE RefuseAdmission(c)
  BY <1>2, RefuseStep DEF RefuseAdmission
<1>3. CASE Decline(c)
  BY <1>3, RefuseStep DEF Decline
<1> QED BY <1>1, <1>2, <1>3

\* A request that ends leaves the others as they are.
LEMMA OthersStay ==
  ASSUME AdmissionAssumption, Inv, NEW c \in Clients, Refuse(c), confirmed \subseteq confirmed'
  PROVE  /\ at' \in [Clients -> Steps]
         /\ local' \in [Clients -> LocalType']
         /\ \A d \in Clients : d # c => at'[d] = at[d] /\ local'[d] = local[d]
         /\ at'[c] = "idle" /\ local'[c] = Locals
<1>1. LocalType \subseteq LocalType'
  BY DEF LocalType, Auths, FlowInputs, Definitions, Positions
<1>2. at \in [Clients -> Steps] /\ local \in [Clients -> LocalType]
  BY DEF Inv, Typed
<1>3. Locals \in LocalType /\ "idle" \in Steps
  BY Forgotten
<1>4. at' = [at EXCEPT ![c] = "idle"] /\ local' = [local EXCEPT ![c] = Locals]
  BY DEF Refuse, Go
<1>5. local' \in [Clients -> LocalType]
  BY <1>2, <1>3, <1>4
<1>6. local' \in [Clients -> LocalType']
  BY <1>1, <1>5
<1> QED BY <1>2, <1>3, <1>4, <1>6

\* A confirmation keeps the invariant: it only adds to what is confirmed.
LEMMA ConfirmStep ==
  ASSUME AdmissionAssumption, Inv, NEW c \in Clients, Confirm(c)
  PROVE  Inv'
<1>1. /\ UNCHANGED <<tasks, flows, used, author, runs, bound>>
      /\ Refuse(c) /\ at[c] = "challenged"
      /\ confirmed' = confirmed \cup {ChallengeOf(local[c])}
  BY DEF Confirm, store
<1>2. local[c] \in LocalType /\ Sound("challenged", local[c])
  BY <1>1 DEF Inv, Typed
<1>3. Compiled(local[c].definition) /\ local[c].input \in FlowInputs
  BY <1>2 DEF Sound
<1>4. local[c].definition \in Definitions
  BY <1>3, CompiledShape
<1>5. IsChallenge(ChallengeOf(local[c]))
  BY <1>2, <1>3, <1>4 DEF IsChallenge, ChallengeOf, LocalType
<1>6. Typed'
  <2>1. \A ch \in confirmed' : IsChallenge(ch)
    BY <1>1, <1>5 DEF Inv, Typed
  <2>2. (\A ch \in confirmed : IsChallenge(ch))'
    BY <2>1 DEF IsChallenge, Definitions, FlowInputs
  <2> QED BY <1>1, <2>2, OthersStay DEF Inv, Typed, RunType, FlowInputs, Definitions
<1>7. Sealed'
  BY <1>1 DEF Inv, Sealed, Existing, Consented, Repeats
<1>8. ASSUME NEW d \in Clients PROVE Sound(at[d], local[d])'
  <2>1. CASE d = c
    BY <1>1, <2>1, OthersStay DEF Sound, Locals
  <2>2. CASE d # c
    <3>1. at'[d] = at[d] /\ local'[d] = local[d] /\ Sound(at[d], local[d])
      BY <1>1, <2>2, OthersStay DEF Inv
    <3> QED BY <1>1, <3>1 DEF Sound
  <2> QED BY <2>1, <2>2
<1> QED BY <1>6, <1>7, <1>8 DEF Inv

\* Nor does the author change what Runs and requests rely on.
LEMMA StoreStep ==
  ASSUME AdmissionAssumption, Inv, AuthorStep
  PROVE  Inv'
<1>1. UNCHANGED <<at, local, confirmed, runs, bound>>
  BY DEF AuthorStep, AuthorSaves, AuthorUpdates, AuthorDeletes, AuthorPuts, requests
<1>2. /\ tasks' \in [Tasks -> Goals \cup {None}]
      /\ flows' \in [Tasks -> Drafts \cup {None}]
      /\ used' \subseteq Tasks
      /\ author' \in [task : Tasks, flow : Drafts \cup {None}] \cup {None}
  <2>1. CASE \E t \in Tasks, goal \in Goals, f \in Drafts : AuthorSaves(t, goal, f)
    BY <2>1 DEF AuthorSaves, Inv, Typed
  <2>2. CASE \E t \in Tasks, goal \in Goals, f \in Drafts : AuthorUpdates(t, goal, f)
    BY <2>2 DEF AuthorUpdates, Inv, Typed
  <2>3. CASE \E t \in Tasks : AuthorDeletes(t)
    BY <2>3 DEF AuthorDeletes, Inv, Typed
  <2>4. CASE AuthorPuts
    BY <2>4 DEF AuthorPuts, Inv, Typed
  <2> QED BY <2>1, <2>2, <2>3, <2>4 DEF AuthorStep
<1>3. Typed'
  BY <1>1, <1>2 DEF Inv, Typed, LocalType, RunType, Auths, IsChallenge, FlowInputs, Definitions
<1>4. Sealed'
  BY <1>1 DEF Inv, Sealed, Existing, Consented, Repeats
<1>5. ASSUME NEW d \in Clients PROVE Sound(at[d], local[d])'
  BY <1>1 DEF Inv, Sound
<1> QED BY <1>3, <1>4, <1>5 DEF Inv

\* The admission of a Run keeps the invariant: its writes are authorized, its parent matches.
LEMMA AdmitStep ==
  ASSUME AdmissionAssumption, RecordsAssumption, Inv, NEW c \in Clients, NEW r \in Runs, Admit(c, r)
  PROVE  Inv'
<1> DEFINE l == local[c]
<1>1. /\ UNCHANGED <<tasks, flows, used, author, confirmed, bound>>
      /\ Refuse(c) /\ at[c] = "admit" /\ runs[r] = None
      /\ Authorized(l.auth, ChallengeOf(l))
      /\ runs' = [runs EXCEPT ![r] = NewRun(l)]
  BY DEF Admit, store
<1>2. /\ l \in LocalType /\ Sound("admit", l)
      /\ runs \in [Runs -> RunType \cup {None}]
  BY <1>1 DEF Inv, Typed
<1> HIDE DEF l
<1>3. /\ Compiled(l.definition) /\ l.input \in FlowInputs /\ l.executor \in Executors /\ l.task \in Tasks
      /\ l.start \in 1 .. Length(l.definition)
      /\ l.parent # None => runs[l.parent] # None /\ Forkable(runs[l.parent], l.definition, l.start)
                            /\ l.input = runs[l.parent].input
  BY <1>2 DEF Sound
<1>4. l.definition \in Definitions /\ Length(l.definition) \in Nat \ {0}
  BY <1>3, CompiledShape
<1>5. PICK run : run = NewRun(l)
  OBVIOUS
<1>6. /\ run.definition = l.definition /\ run.input = l.input /\ run.parent = l.parent /\ run.start = l.start
      /\ run.done = l.start - 1 /\ run.status = "running"
  BY <1>5 DEF NewRun
<1>7. run \in RunType
  <2>1. <<>> \in Seq(Turns)
    OBVIOUS
  <2>2. l.parent \in Runs \cup {None} /\ l.start \in Positions \cup {1} /\ l.start - 1 \in Nat /\ (l.start > 1) \in BOOLEAN
    BY <1>2, <1>3, <1>4 DEF LocalType
  <2> QED BY <1>3, <1>4, <1>5, <2>1, <2>2 DEF NewRun, RunType
<1>8. Placed(run)
  BY <1>3, <1>4, <1>6 DEF Placed
<1>9. Consented(run)
  <2>1. ChallengeOf(l) = Challenge(run.definition, run.input, run.start, run.parent)
    BY <1>6 DEF ChallengeOf
  <2>2. ChallengeOf(l) # None
    BY <1>2, <1>3, <1>4 DEF RecordsAssumption, ChallengeOf, LocalType
  <2>3. l.auth \in Auths
    BY <1>2 DEF LocalType
  <2> QED BY <1>1, <2>1, <2>2, <2>3 DEF Authorized, Auths, Consented
<1>10. run.parent # None => l.parent \in Runs /\ l.parent # r /\ runs'[l.parent] = runs[l.parent]
  BY <1>1, <1>2, <1>3, <1>6 DEF LocalType
<1>11. Repeats(run)'
  <2> SUFFICES ASSUME run.parent # None PROVE Repeats(run)'
    BY DEF Repeats
  <2>0. PICK parent : parent = runs[l.parent]
    OBVIOUS
  <2>1. parent # None /\ Forkable(parent, l.definition, l.start) /\ l.input = parent.input
    BY <1>3, <1>6, <2>0
  <2>2. Placed(parent)
    BY <1>10, <2>0, <2>1 DEF Inv, Sealed, Existing
  <2>3. parent.start \in Nat \ {0} /\ parent.done \in Int
    <3>1. Length(parent.definition) \in Nat \ {0}
      BY <2>2, CompiledShape DEF Placed
    <3> QED BY <2>2, <3>1 DEF Placed
  <2>4. ASSUME l.start > 1 PROVE parent.start = 1 /\ l.start <= parent.done + 1
    <3>1. 1 \in 1 .. l.start - 1 /\ l.start - 1 \in 1 .. l.start - 1
      BY <1>3, <1>4, <2>4
    <3>2. parent.start <= 1 /\ l.start - 1 <= parent.done
      BY <2>1, <3>1 DEF Forkable
    <3> QED BY <1>3, <1>4, <2>3, <3>2
  <2> QED BY <1>6, <1>10, <2>0, <2>1, <2>4 DEF Repeats, Forkable
<1>12. runs' = [runs EXCEPT ![r] = run]
  BY <1>1, <1>5
<1>13. Typed'
  <2>1. runs' \in [Runs -> RunType \cup {None}]
    BY <1>2, <1>7, <1>12
  <2>2. (\A ch \in confirmed : IsChallenge(ch))'
    BY <1>1 DEF Inv, Typed, IsChallenge, Definitions, FlowInputs
  <2> QED BY <1>1, <2>1, <2>2, OthersStay DEF Inv, Typed, RunType, FlowInputs, Definitions
<1>14. Sealed'
  <2> SUFFICES ASSUME NEW q \in Runs, runs'[q] # None
               PROVE  Placed(runs[q])' /\ Consented(runs[q])' /\ Repeats(runs[q])'
    BY DEF Sealed, Existing
  <2>1. CASE q = r
    <3>1. runs'[q] = run
      BY <1>2, <1>12, <2>1
    <3>2. Placed(runs[q])'
      BY <1>8, <3>1 DEF Placed
    <3>3. Consented(runs[q])'
      BY <1>1, <1>9, <3>1 DEF Consented
    <3>4. Repeats(runs[q])'
      BY <1>11, <3>1 DEF Repeats
    <3> QED BY <3>2, <3>3, <3>4
  <2>2. CASE q # r
    <3>1. runs'[q] = runs[q]
      BY <1>2, <1>12, <2>2
    <3>2. Placed(runs[q]) /\ Consented(runs[q]) /\ Repeats(runs[q]) /\ runs[q].parent \in Runs \cup {None}
      BY <1>2, <3>1 DEF Inv, Sealed, Existing, RunType
    <3>3. runs[q].parent # None => runs'[runs[q].parent] = runs[runs[q].parent]
      BY <1>1, <1>2, <1>12, <3>2 DEF Repeats
    <3>4. Repeats(runs[q])'
      BY <3>1, <3>2, <3>3 DEF Repeats
    <3>5. Placed(runs[q])' /\ Consented(runs[q])'
      <4>1. Placed(runs[q])'
        BY <3>1, <3>2 DEF Placed
      <4>2. Consented(runs[q])'
        <5>1. PICK x : x = runs[q] /\ x = runs'[q] /\ Consented(x)
          BY <3>1, <3>2
        <5>2. PICK ch : ch = Challenge(x.definition, x.input, x.start, x.parent)
          OBVIOUS
        <5>3. ch.effects = {} \/ ch \in confirmed'
          BY <1>1, <5>1, <5>2 DEF Consented
        <5> QED BY <5>1, <5>2, <5>3 DEF Consented
      <4> QED BY <4>1, <4>2
    <3> QED BY <3>4, <3>5
  <2> QED BY <2>1, <2>2
<1>15. ASSUME NEW d \in Clients PROVE Sound(at[d], local[d])'
  <2>1. CASE d = c
    BY <1>1, <2>1, OthersStay DEF Sound, Locals
  <2>2. CASE d # c
    <3>1. at'[d] = at[d] /\ local'[d] = local[d] /\ Sound(at[d], local[d])
      BY <1>1, <2>2, OthersStay DEF Inv
    <3>2. at[d] # "idle" /\ local[d].parent # None => runs'[local[d].parent] = runs[local[d].parent]
      <4>1. local[d].parent \in Runs \cup {None}
        BY DEF Inv, Typed, LocalType
      <4> QED BY <1>1, <1>2, <1>12, <3>1, <4>1 DEF Sound
    <3> QED BY <3>1, <3>2 DEF Sound
  <2> QED BY <2>1, <2>2
<1> QED BY <1>13, <1>14, <1>15 DEF Inv

\* A step of a running Run keeps the invariant when it leaves the Run on a Node of its Flow, and what it was admitted with alone.
LEMMA RunAdvances ==
  ASSUME AdmissionAssumption, RecordsAssumption, Inv, NEW r \in Runs, Running(r), NEW run \in RunType, Placed(run),
         runs' = [runs EXCEPT ![r] = run],
         run.definition = runs[r].definition, run.input = runs[r].input,
         run.parent = runs[r].parent, run.start = runs[r].start,
         UNCHANGED <<store, requests>>,
         bound' \in [Runs -> SUBSET [executor : Capabilities, group : SessionGroups, ref : Refs]]
  PROVE  Inv'
<1>1. UNCHANGED <<tasks, flows, used, author, at, local, confirmed>>
  BY DEF store, requests
<1>2. runs \in [Runs -> RunType \cup {None}] /\ runs[r] # None /\ runs[r].status = "running"
  BY DEF Inv, Typed, Running
<1>3. ASSUME NEW q \in Runs, runs[q] # None, runs[q].status \in Terminal
      PROVE  runs'[q] = runs[q]
  BY <1>2, <1>3 DEF Terminal
<1>4. ASSUME NEW q \in Runs, runs[q] # None PROVE runs'[q] # None /\ runs'[q].definition = runs[q].definition
  <2>1. runs'[r] = run /\ run.definition = runs[r].definition
    BY <1>2
  <2>2. run # None
    BY DEF RecordsAssumption
  <2> QED BY <1>2, <1>4, <2>1, <2>2
<1>5. Typed'
  <2>1. runs' \in [Runs -> RunType \cup {None}]
    BY <1>2
  <2>2. (\A ch \in confirmed : IsChallenge(ch))'
    BY <1>1 DEF Inv, Typed, IsChallenge, Definitions, FlowInputs
  <2>3. LocalType' = LocalType
    BY <1>1 DEF LocalType, Auths, FlowInputs, Definitions, Positions
  <2> QED BY <1>1, <2>1, <2>2, <2>3 DEF Inv, Typed, RunType, FlowInputs, Definitions
<1>6. Sealed'
  <2> SUFFICES ASSUME NEW q \in Runs, runs'[q] # None
               PROVE  Placed(runs[q])' /\ Consented(runs[q])' /\ Repeats(runs[q])'
    BY DEF Sealed, Existing
  <2>1. runs[q] # None
    BY <1>2
  <2>2. Placed(runs[q]) /\ Consented(runs[q]) /\ Repeats(runs[q]) /\ runs[q].parent \in Runs \cup {None}
    BY <1>2, <2>1 DEF Inv, Sealed, Existing, RunType
  <2>3. /\ runs'[q].definition = runs[q].definition /\ runs'[q].input = runs[q].input
        /\ runs'[q].parent = runs[q].parent /\ runs'[q].start = runs[q].start
    BY <1>2
  <2>4. Placed(runs[q])'
    <3>1. runs'[q] = run \/ runs'[q] = runs[q]
      BY <1>2
    <3> QED BY <2>2, <3>1 DEF Placed
  <2>5. Consented(runs[q])'
    BY <1>1, <2>2, <2>3 DEF Consented
  <2>6. Repeats(runs[q])'
    <3>1. runs[q].parent # None => runs'[runs[q].parent] = runs[runs[q].parent]
      BY <1>3, <2>2 DEF Repeats
    <3> QED BY <2>2, <2>3, <3>1 DEF Repeats
  <2> QED BY <2>4, <2>5, <2>6
<1>7. ASSUME NEW d \in Clients PROVE Sound(at[d], local[d])'
  <2>1. Sound(at[d], local[d]) /\ local[d].parent \in Runs \cup {None}
    BY DEF Inv, Typed, LocalType
  <2>2. at[d] \in {"admit", "challenged"} /\ local[d].parent # None => runs'[local[d].parent] = runs[local[d].parent]
    BY <1>3, <2>1 DEF Sound, Forkable
  <2>3. at[d] # "idle" /\ local[d].parent # None =>
          runs'[local[d].parent] # None /\ local[d].start \in 1 .. Length(runs'[local[d].parent].definition)
    BY <1>4, <2>1 DEF Sound
  <2> QED BY <1>1, <2>1, <2>2, <2>3 DEF Sound
<1> QED BY <1>5, <1>6, <1>7 DEF Inv

\* Each step of a Run's thread keeps the invariant.
LEMMA ThreadStep ==
  ASSUME AdmissionAssumption, RecordsAssumption, Inv, NEW r \in Runs, RunStep(r)
  PROVE  Inv'
<1>0. Running(r)
  BY DEF RunStep, ExecuteAlone, ExecuteGrouped, EndUnsuccessfully
<1>1. /\ runs[r] \in RunType /\ Placed(runs[r]) /\ runs[r].status = "running"
      /\ runs \in [Runs -> RunType \cup {None}]
      /\ bound \in [Runs -> SUBSET [executor : Capabilities, group : SessionGroups, ref : Refs]]
  BY <1>0 DEF Running, Inv, Typed, Sealed, Existing
<1>2. PICK d, i : d = runs[r].definition /\ i = runs[r].done + 1
  OBVIOUS
<1>3. /\ d \in Definitions /\ Length(d) \in Nat \ {0} /\ DOMAIN d.nodes = 1 .. Length(d) /\ DOMAIN d.nodes \subseteq Positions
      /\ \A k \in DOMAIN d.nodes : d.nodes[k].group # None =>
           d.nodes[k].group \in SessionGroups /\ d.nodes[k].executor \in Capabilities
  BY <1>1, <1>2, CompiledShape DEF Placed
<1>4. runs[r].start \in 1 .. Length(d) /\ runs[r].done \in Nat /\ i \in runs[r].start .. Length(d)
  BY <1>1, <1>2, <1>3 DEF Placed
<1>5. ASSUME NEW turns \in Seq(Turns), runs' = [runs EXCEPT ![r] = Accept(@, turns)],
             UNCHANGED <<store, requests>>,
             bound' \in [Runs -> SUBSET [executor : Capabilities, group : SessionGroups, ref : Refs]]
      PROVE  Inv'
  <2>1. PICK run : run = Accept(runs[r], turns)
    OBVIOUS
  <2>2. /\ run.definition = d /\ run.input = runs[r].input /\ run.parent = runs[r].parent
        /\ run.start = runs[r].start /\ run.done = i
        /\ run.status = IF i = Length(d) THEN "succeeded" ELSE "running"
    BY <1>1, <1>2, <2>1 DEF Accept, RunType
  <2>3. run \in RunType
    <3>1. runs[r].sessions \o turns \in Seq(Turns)
      BY <1>1 DEF RunType
    <3>2. PICK sessions, status :
            /\ sessions = runs[r].sessions \o turns
            /\ status = IF i = Length(d) THEN "succeeded" ELSE "running"
      OBVIOUS
    <3>3. run = [runs[r] EXCEPT !.done = i, !.opened = TRUE, !.sessions = sessions, !.status = status]
      BY <1>2, <2>1, <3>2 DEF Accept
    <3>4. sessions \in Seq(Turns) /\ status \in {"running"} \cup Terminal /\ i \in Nat
      BY <1>2, <1>4, <3>1, <3>2 DEF Terminal
    <3> QED BY <1>1, <3>3, <3>4 DEF RunType
  <2>4. Placed(run)
    BY <1>1, <1>2, <1>3, <1>4, <2>2 DEF Placed
  <2>5. runs' = [runs EXCEPT ![r] = run]
    BY <1>1, <1>5, <2>1
  <2>6. /\ UNCHANGED <<store, requests>>
        /\ bound' \in [Runs -> SUBSET [executor : Capabilities, group : SessionGroups, ref : Refs]]
    BY <1>5
  <2>7. /\ run.definition = runs[r].definition /\ run.input = runs[r].input
        /\ run.parent = runs[r].parent /\ run.start = runs[r].start
    BY <1>2, <2>2
  <2> QED BY <1>0, <2>3, <2>4, <2>5, <2>6, <2>7, RunAdvances
<1>6. CASE ExecuteAlone(r)
  <2>1. <<>> \in Seq(Turns)
    OBVIOUS
  <2>2. runs' = [runs EXCEPT ![r] = Accept(@, <<>>)] /\ UNCHANGED <<store, requests>> /\ bound' = bound
    BY <1>6 DEF ExecuteAlone
  <2>3. bound' \in [Runs -> SUBSET [executor : Capabilities, group : SessionGroups, ref : Refs]]
    BY <1>1, <2>2
  <2> QED BY <1>5, <2>1, <2>2, <2>3
<1>7. CASE \E ref \in Refs : ExecuteGrouped(r, ref)
  <2>1. PICK ref \in Refs : ExecuteGrouped(r, ref)
    BY <1>7
  <2>2. PICK node : node = NextNode(r)
    OBVIOUS
  <2>3. node.group \in SessionGroups /\ node.executor \in Capabilities
    <3>1. node = d.nodes[i] /\ i \in DOMAIN d.nodes
      BY <1>2, <1>3, <1>4, <2>2 DEF NextNode
    <3>2. node.group # None
      BY <2>1, <2>2 DEF ExecuteGrouped
    <3> QED BY <1>3, <3>1, <3>2
  <2>4. Turn(r, i, node, ref) \in Turns
    BY <1>3, <1>4, <2>3 DEF Turn, Turns
  <2>5. <<Turn(r, i, node, ref)>> \in Seq(Turns)
    BY <2>4
  <2>6. bound' \in [Runs -> SUBSET [executor : Capabilities, group : SessionGroups, ref : Refs]]
    <3>1. PICK s : s = [executor |-> node.executor, group |-> node.group, ref |-> ref]
      OBVIOUS
    <3>2. s \in [executor : Capabilities, group : SessionGroups, ref : Refs]
      BY <2>3, <3>1
    <3>3. bound' = [bound EXCEPT ![r] = @ \cup {s}]
      BY <2>1, <2>2, <3>1 DEF ExecuteGrouped
    <3> QED BY <1>1, <3>2, <3>3
  <2>7. runs' = [runs EXCEPT ![r] = Accept(@, <<Turn(r, i, node, ref)>>)] /\ UNCHANGED <<store, requests>>
    BY <1>2, <2>1, <2>2 DEF ExecuteGrouped
  <2> QED BY <1>5, <2>5, <2>6, <2>7
<1>8. CASE \E opened \in BOOLEAN : EndUnsuccessfully(r, opened)
  <2>1. PICK opened \in BOOLEAN : EndUnsuccessfully(r, opened)
    BY <1>8
  <2>2. PICK run : run = [runs[r] EXCEPT !.status = "failed", !.opened = opened]
    OBVIOUS
  <2>3. /\ run \in RunType
        /\ run.definition = runs[r].definition /\ run.input = runs[r].input /\ run.parent = runs[r].parent
        /\ run.start = runs[r].start /\ run.done = runs[r].done /\ run.status = "failed"
    BY <1>1, <2>2 DEF RunType, Terminal
  <2>4. Placed(run)
    BY <1>1, <2>3 DEF Placed
  <2>5. runs' = [runs EXCEPT ![r] = run]
    BY <1>1, <2>1, <2>2 DEF EndUnsuccessfully
  <2> QED BY <1>0, <1>1, <2>1, <2>3, <2>4, <2>5, RunAdvances DEF EndUnsuccessfully
<1> QED BY <1>6, <1>7, <1>8 DEF RunStep

\* A new turn that is told what its executor holds, and holds what it is told, agrees with those before it.
LEMMA TurnAgrees ==
  ASSUME AdmissionAssumption, NEW turns \in Seq(Turns), NEW turn \in Turns, Agreeing(turns),
         NEW matching, matching = {j \in DOMAIN turns : turns[j].executor = turn.executor /\ turns[j].group = turn.group},
         turn.reused = (matching # {}), \A j \in matching : turns[j].ref = turn.ref
  PROVE  Agreeing(Append(turns, turn))
<1> DEFINE after == Append(turns, turn)  n == Len(turns) + 1
<1>1. /\ Len(turns) \in Nat /\ DOMAIN turns = 1 .. Len(turns)
      /\ DOMAIN after = 1 .. n /\ after[n] = turn
      /\ \A j \in 1 .. Len(turns) : after[j] = turns[j]
  OBVIOUS
<1> HIDE DEF after
<1>2. ASSUME NEW k \in 1 .. Len(turns) PROVE Before(after, k) = Before(turns, k)
  <2>1. \A j \in 1 .. k - 1 : after[j] = turns[j] /\ after[k] = turns[k]
    BY <1>1
  <2> QED BY <2>1 DEF Before
<1>3. Before(after, n) = matching
  <2>1. n - 1 = Len(turns)
    BY <1>1
  <2> QED BY <1>1, <2>1 DEF Before
<1>4. ASSUME NEW k \in DOMAIN after PROVE after[k].reused = (Before(after, k) # {})
  <2>1. CASE k = n
    BY <1>1, <1>3, <2>1
  <2>2. CASE k # n
    <3>1. k \in 1 .. Len(turns)
      BY <1>1, <2>2
    <3> QED BY <1>1, <1>2, <3>1 DEF Agreeing
  <2> QED BY <2>1, <2>2
<1>5. ASSUME NEW k \in DOMAIN after, NEW j \in DOMAIN after,
             after[j].executor = after[k].executor, after[j].group = after[k].group
      PROVE  after[j].ref = after[k].ref
  <2>1. CASE j \in 1 .. Len(turns) /\ k \in 1 .. Len(turns)
    BY <1>1, <1>5, <2>1 DEF Agreeing
  <2>2. CASE j = n /\ k \in 1 .. Len(turns)
    BY <1>1, <1>5, <2>2
  <2>3. CASE j \in 1 .. Len(turns) /\ k = n
    BY <1>1, <1>5, <2>3
  <2>4. CASE j = n /\ k = n
    BY <2>4
  <2>5. \A i \in DOMAIN after : i = n \/ i \in 1 .. Len(turns)
    BY <1>1
  <2> QED BY <2>1, <2>2, <2>3, <2>4, <2>5
<1>6. Agreeing(after)
  BY <1>4, <1>5 DEF Agreeing
<1> QED BY <1>6 DEF after

\* A Run starts without turns, at a Node where no group is under way.
LEMMA AdmittedConversed ==
  ASSUME AdmissionAssumption, RecordsAssumption, Inv, \A q \in Runs : Conversed(q),
         NEW c \in Clients, NEW r \in Runs, Admit(c, r)
  PROVE  \A q \in Runs : Conversed(q)'
<1>1. /\ at[c] = "admit" /\ runs[r] = None /\ bound' = bound
      /\ runs' = [runs EXCEPT ![r] = NewRun(local[c])] /\ runs \in [Runs -> RunType \cup {None}]
  BY DEF Admit, Inv, Typed
<1>2. PICK l : l = local[c]
  OBVIOUS
<1>3. /\ Sound("admit", l)
      /\ \A q \in Runs \ {r} : runs'[q] = runs[q]
      /\ runs'[r] = NewRun(l)
  BY <1>1, <1>2 DEF Inv
<1>4. PICK d, start : d = l.definition /\ start = l.start
  OBVIOUS
<1>5. Groups(d.nodes, 1 .. start - 1) \cap Groups(d.nodes, start .. Length(d)) = {}
  <2>1. CASE l.parent = None
    <3>1. start - 1 = 0
      BY <1>3, <1>4, <2>1 DEF Sound
    <3>2. Groups(d.nodes, 1 .. start - 1) = {}
      BY <3>1 DEF Groups
    <3> QED BY <3>2
  <2>2. CASE l.parent # None
    BY <1>3, <1>4, <2>2 DEF Sound, Forkable
  <2> QED BY <2>1, <2>2
<1>6. PICK run : run = NewRun(l)
  OBVIOUS
<1>7. run.definition = d /\ run.start = start /\ run.sessions = <<>> /\ DOMAIN run.sessions = {}
  BY <1>4, <1>6 DEF NewRun
<1>8. WholeGroups(run) /\ Agreeing(run.sessions) /\ {Session(run.sessions[k]) : k \in DOMAIN run.sessions} = {}
  BY <1>5, <1>7 DEF WholeGroups, Agreeing
<1>9. ASSUME NEW q \in Runs PROVE Conversed(q)'
  <2>1. CASE q = r
    <3>1. runs'[q] = run /\ bound'[q] = {}
      BY <1>1, <1>3, <1>6, <2>1 DEF Conversed
    <3> QED BY <1>8, <3>1 DEF Conversed
  <2>2. CASE q # r
    BY <1>1, <1>3, <2>2 DEF Conversed
  <2> QED BY <2>1, <2>2
<1> QED BY <1>9

\* A turn is told the conversation that its executor's earlier turns are about.
LEMMA TurnConverses ==
  ASSUME AdmissionAssumption, RecordsAssumption, Inv, \A q \in Runs : Conversed(q),
         NEW r \in Runs, NEW ref \in Refs, ExecuteGrouped(r, ref)
  PROVE  \A q \in Runs : Conversed(q)'
<1>1. PICK run, node : run = runs[r] /\ node = NextNode(r)
  OBVIOUS
<1>2. PICK turn : turn = Turn(r, run.done + 1, node, ref)
  OBVIOUS
<1>3. /\ Running(r) /\ node.group # None
      /\ Requested(r, node) # None => ref = Requested(r, node)
      /\ bound' = [bound EXCEPT ![r] = @ \cup {[executor |-> node.executor, group |-> node.group, ref |-> ref]}]
      /\ runs' = [runs EXCEPT ![r] = Accept(@, <<turn>>)]
  BY <1>1, <1>2 DEF ExecuteGrouped
<1>4. /\ run # None /\ run.status = "running" /\ run \in RunType /\ Placed(run) /\ Conversed(r)
      /\ runs \in [Runs -> RunType \cup {None}]
      /\ bound \in [Runs -> SUBSET [executor : Capabilities, group : SessionGroups, ref : Refs]]
  BY <1>1, <1>3 DEF Running, Inv, Typed, Sealed, Existing
<1>5. PICK d, i, turns : d = run.definition /\ i = run.done + 1 /\ turns = run.sessions
  OBVIOUS
<1>6. /\ d \in Definitions /\ Length(d) \in Nat \ {0} /\ DOMAIN d.nodes = 1 .. Length(d) /\ DOMAIN d.nodes \subseteq Positions
      /\ \A k \in DOMAIN d.nodes : d.nodes[k].group # None =>
           d.nodes[k].group \in SessionGroups /\ d.nodes[k].executor \in Capabilities
  BY <1>4, <1>5, CompiledShape DEF Placed
<1>7. i \in run.start .. Length(d) /\ i \in DOMAIN d.nodes /\ turns \in Seq(Turns) /\ node = d.nodes[i]
  BY <1>1, <1>4, <1>5, <1>6 DEF Placed, RunType, NextNode
<1>8. turn \in Turns /\ turn.node = i /\ turn.executor = node.executor /\ turn.group = node.group /\ turn.ref = ref
      /\ turn.reused = (Requested(r, node) # None)
  <2>1. (Requested(r, node) # None) \in BOOLEAN /\ i \in Positions /\ node.executor \in Capabilities /\ node.group \in SessionGroups
    BY <1>3, <1>6, <1>7
  <2> QED BY <1>2, <1>5, <2>1 DEF Turn, Turns
<1> DEFINE matching == {j \in DOMAIN turns : turns[j].executor = turn.executor /\ turns[j].group = turn.group}
<1>9. bound[r] = {Session(turns[k]) : k \in DOMAIN turns} /\ Agreeing(turns) /\ WholeGroups(run)
  BY <1>1, <1>4, <1>5 DEF Conversed
<1>10. Bindings(r, node) = {Session(turns[j]) : j \in matching}
  BY <1>8, <1>9 DEF Bindings, Session
<1>11. matching = {} => Requested(r, node) = None
  BY <1>10 DEF Requested
<1>12. ASSUME NEW j \in matching PROVE Requested(r, node) # None /\ turns[j].ref = ref
  <2>1. Bindings(r, node) # {}
    BY <1>10
  <2>2. PICK b \in Bindings(r, node) : Requested(r, node) = b.ref
    BY <2>1 DEF Requested
  <2>3. PICK k \in matching : b = Session(turns[k])
    BY <1>10
  <2>4. b.ref = turns[k].ref /\ turns[k] \in Turns
    BY <1>7, <2>3 DEF Session
  <2>5. turns[k].ref # None
    BY <2>4 DEF Turns, AdmissionAssumption
  <2>6. turns[j].ref = turns[k].ref
    BY <1>9 DEF Agreeing
  <2> QED BY <1>3, <2>2, <2>4, <2>5, <2>6
<1>13. Agreeing(Append(turns, turn))
  <2>1. turn.reused = (matching # {}) /\ \A j \in matching : turns[j].ref = turn.ref
    BY <1>8, <1>11, <1>12
  <2> HIDE DEF matching
  <2>2. matching = {j \in DOMAIN turns : turns[j].executor = turn.executor /\ turns[j].group = turn.group}
    BY DEF matching
  <2> QED BY <1>7, <1>8, <1>9, <2>1, <2>2, TurnAgrees
<1> HIDE DEF matching
<1>14. PICK new : new = Accept(run, <<turn>>)
  OBVIOUS
<1>15. new.definition = d /\ new.start = run.start /\ new.sessions = Append(turns, turn)
  <2>1. turns \o <<turn>> = Append(turns, turn)
    BY <1>7, <1>8
  <2> QED BY <1>4, <1>5, <1>14, <2>1 DEF Accept, RunType
<1>16. /\ DOMAIN new.sessions = DOMAIN turns \cup {Len(turns) + 1}
       /\ new.sessions[Len(turns) + 1] = turn
       /\ \A k \in DOMAIN turns : new.sessions[k] = turns[k]
  BY <1>7, <1>8, <1>15
<1>17. WholeGroups(new)
  <2>1. Groups(d.nodes, 1 .. new.start - 1) \cap Groups(d.nodes, new.start .. Length(d)) = {}
    BY <1>5, <1>9, <1>15 DEF WholeGroups
  <2>2. ASSUME NEW k \in DOMAIN new.sessions
        PROVE  /\ new.sessions[k].node \in new.start .. Length(d)
               /\ new.sessions[k].group = d.nodes[new.sessions[k].node].group
               /\ new.sessions[k].executor = d.nodes[new.sessions[k].node].executor
    <3>1. CASE k \in DOMAIN turns
      <4>1. /\ turns[k].node \in run.start .. Length(d)
            /\ turns[k].group = d.nodes[turns[k].node].group
            /\ turns[k].executor = d.nodes[turns[k].node].executor
        BY <1>5, <1>9, <3>1 DEF WholeGroups
      <4>2. new.sessions[k] = turns[k] /\ new.start = run.start
        BY <1>15, <1>16, <3>1
      <4> QED BY <4>1, <4>2
    <3>2. CASE k = Len(turns) + 1
      <4>1. new.sessions[k] = turn /\ new.start = run.start
        BY <1>15, <1>16, <3>2
      <4> QED BY <1>7, <1>8, <4>1
    <3> QED BY <1>16, <2>2, <3>1, <3>2
  <2>3. new.definition = d
    BY <1>15
  <2> QED BY <2>1, <2>2, <2>3 DEF WholeGroups
<1>18. bound[r] \cup {Session(turn)} = {Session(new.sessions[k]) : k \in DOMAIN new.sessions}
  <2>1. Session(new.sessions[Len(turns) + 1]) = Session(turn)
    BY <1>16
  <2>2. \A k \in DOMAIN turns : Session(new.sessions[k]) = Session(turns[k])
    BY <1>16
  <2> QED BY <1>9, <1>16, <2>1, <2>2
<1>19. runs'[r] = new /\ bound'[r] = bound[r] \cup {Session(turn)}
  BY <1>1, <1>3, <1>4, <1>8, <1>14 DEF Session
<1>20. new # None
  <2>1. PICK opened, sessions, status :
          /\ opened = TRUE /\ sessions = Append(turns, turn)
          /\ status = IF i = Length(d) THEN "succeeded" ELSE "running"
    OBVIOUS
  <2>2. turns \o <<turn>> = Append(turns, turn)
    BY <1>7, <1>8
  <2>3. new = [run EXCEPT !.done = i, !.opened = opened, !.sessions = sessions, !.status = status]
    BY <1>4, <1>5, <1>14, <2>1, <2>2 DEF Accept, RunType
  <2>4. /\ sessions \in Seq(Turns) /\ status \in {"running"} \cup Terminal /\ i \in Nat /\ opened \in BOOLEAN
    <3>1. run.done \in Nat
      BY <1>4 DEF RunType
    <3> QED BY <1>5, <1>7, <1>8, <2>1, <3>1 DEF Terminal
  <2>5. new \in RunType
    BY <1>4, <2>3, <2>4 DEF RunType
  <2> QED BY <2>5 DEF RecordsAssumption
<1>21. ASSUME NEW q \in Runs PROVE Conversed(q)'
  <2>1. CASE q = r
    <3>1. /\ runs'[q] = new /\ new # None /\ WholeGroups(new) /\ Agreeing(new.sessions)
          /\ bound'[q] = {Session(new.sessions[k]) : k \in DOMAIN new.sessions}
      BY <1>13, <1>15, <1>17, <1>18, <1>19, <1>20, <2>1
    <3> QED BY <3>1 DEF Conversed
  <2>2. CASE q # r
    <3>1. runs'[q] = runs[q] /\ bound'[q] = bound[q]
      BY <1>3, <1>4, <2>2
    <3> QED BY <3>1 DEF Conversed
  <2> QED BY <2>1, <2>2
<1> QED BY <1>21

\* A Run whose fields change is a Run.
LEMMA StillThere ==
  ASSUME AdmissionAssumption, RecordsAssumption, NEW r \in Runs, runs \in [Runs -> RunType \cup {None}],
         runs[r] \in RunType,
         \/ runs' = [runs EXCEPT ![r] = Accept(@, <<>>)]
         \/ \E opened \in BOOLEAN : runs' = [runs EXCEPT ![r].status = "failed", ![r].opened = opened]
  PROVE  runs'[r] # None
<1>1. CASE runs' = [runs EXCEPT ![r] = Accept(@, <<>>)]
  <2>1. PICK i, opened, sessions, status :
          /\ i = runs[r].done + 1 /\ opened = TRUE /\ sessions = runs[r].sessions \o <<>>
          /\ status = IF i = Length(runs[r].definition) THEN "succeeded" ELSE "running"
    OBVIOUS
  <2>2. runs'[r] = [runs[r] EXCEPT !.done = i, !.opened = opened, !.sessions = sessions, !.status = status]
    BY <1>1, <2>1 DEF Accept
  <2>3. i \in Nat /\ opened \in BOOLEAN /\ sessions \in Seq(Turns) /\ status \in {"running"} \cup Terminal
    BY <2>1 DEF RunType, Terminal
  <2>4. PICK run : run = runs[r]
    OBVIOUS
  <2>5. [run EXCEPT !.done = i, !.opened = opened, !.sessions = sessions, !.status = status] \in RunType
    BY <2>3, <2>4 DEF RunType
  <2> QED BY <2>2, <2>4, <2>5 DEF RecordsAssumption
<1>2. CASE \E opened \in BOOLEAN : runs' = [runs EXCEPT ![r].status = "failed", ![r].opened = opened]
  <2>1. PICK opened \in BOOLEAN : runs'[r] = [runs[r] EXCEPT !.status = "failed", !.opened = opened]
    BY <1>2
  <2>2. runs'[r] \in RunType
    BY <2>1 DEF RunType, Terminal
  <2> QED BY <2>2 DEF RecordsAssumption
<1> QED BY <1>1, <1>2

\* A step that executes no grouped Node leaves the turns and what the executors hold.
LEMMA OneShotConverses ==
  ASSUME AdmissionAssumption, RecordsAssumption, Inv, \A q \in Runs : Conversed(q), NEW r \in Runs,
         ExecuteAlone(r) \/ \E opened \in BOOLEAN : EndUnsuccessfully(r, opened)
  PROVE  \A q \in Runs : Conversed(q)'
<1>1. /\ Running(r) /\ bound' = bound
      /\ \/ runs' = [runs EXCEPT ![r] = Accept(@, <<>>)]
         \/ \E opened \in BOOLEAN : runs' = [runs EXCEPT ![r].status = "failed", ![r].opened = opened]
  BY DEF ExecuteAlone, EndUnsuccessfully
<1>2. runs \in [Runs -> RunType \cup {None}] /\ runs[r] # None /\ runs[r] \in RunType /\ Conversed(r)
  BY <1>1 DEF Inv, Typed, Running
<1>3. PICK run : run = runs'[r]
  OBVIOUS
<1>4. /\ \A q \in Runs \ {r} : runs'[q] = runs[q]
      /\ run.definition = runs[r].definition /\ run.start = runs[r].start /\ run.sessions = runs[r].sessions
  <2>1. runs[r].sessions \o <<>> = runs[r].sessions
    BY <1>2 DEF RunType
  <2>2. CASE runs' = [runs EXCEPT ![r] = Accept(@, <<>>)]
    BY <1>2, <1>3, <2>1, <2>2 DEF Accept, RunType
  <2>3. CASE \E opened \in BOOLEAN : runs' = [runs EXCEPT ![r].status = "failed", ![r].opened = opened]
    BY <1>2, <1>3, <2>3 DEF RunType
  <2> QED BY <1>1, <2>2, <2>3
<1>5. WholeGroups(runs[r]) /\ Agreeing(runs[r].sessions) /\ bound[r] = {Session(runs[r].sessions[k]) : k \in DOMAIN runs[r].sessions}
  BY <1>2 DEF Conversed
<1>6. WholeGroups(run)
  BY <1>4, <1>5 DEF WholeGroups
<1>7. run # None
  BY <1>1, <1>2, <1>3, StillThere
<1>8. ASSUME NEW q \in Runs PROVE Conversed(q)'
  <2>1. CASE q = r
    BY <1>1, <1>3, <1>4, <1>5, <1>6, <1>7, <2>1 DEF Conversed
  <2>2. CASE q # r
    BY <1>1, <1>4, <2>2 DEF Conversed
  <2> QED BY <2>1, <2>2
<1> QED BY <1>8

-----------------------------------------------------------------------------

\* Every reachable state is one in which Runs are sealed and what requests have read still holds: LocalWorkspace's admission.
THEOREM AdmissionInvariance == Spec => []Inv
<1>1. Init => Inv
  <2> SUFFICES ASSUME Init PROVE Inv
    OBVIOUS
  <2>1. Locals \in LocalType /\ "idle" \in Steps /\ Sound("idle", Locals)
    BY Forgotten, AdmissionAssumption
  <2>2. Typed
    BY <2>1 DEF Init, Typed
  <2>3. Sealed
    BY DEF Init, Sealed, Existing
  <2> QED BY <2>1, <2>2, <2>3 DEF Init, Inv
<1>2. Inv /\ [Next]_vars => Inv'
  <2> SUFFICES ASSUME Inv, [Next]_vars PROVE Inv'
    OBVIOUS
  <2> USE AdmissionAssumption, RecordsAssumption
  <2>1. CASE AuthorStep
    BY <2>1, StoreStep
  <2>2. ASSUME NEW c \in Clients, ClientStep(c) PROVE Inv'
    BY <2>2, RequestStep, LookupStep, CompileStep, AdmitStep, AnswerStep, ConfirmStep DEF ClientStep
  <2>3. ASSUME NEW r \in Runs, RunStep(r) PROVE Inv'
    BY <2>3, ThreadStep
  <2>4. CASE UNCHANGED vars
    <3>1. UNCHANGED <<tasks, flows, used, author, at, local, confirmed, runs, bound>>
      BY <2>4 DEF vars, store, requests
    <3>2. Typed'
      <4>1. LocalType' = LocalType
        BY <3>1 DEF LocalType, Auths, FlowInputs, Definitions, Positions
      <4>2. (\A ch \in confirmed : IsChallenge(ch))'
        BY <3>1 DEF Inv, Typed, IsChallenge, Definitions, FlowInputs
      <4> QED BY <3>1, <4>1, <4>2 DEF Inv, Typed
    <3>3. Sealed'
      BY <3>1 DEF Inv, Sealed, Existing, Consented, Repeats
    <3>4. ASSUME NEW d \in Clients PROVE Sound(at[d], local[d])'
      BY <3>1 DEF Inv, Sound
    <3> QED BY <3>2, <3>3, <3>4 DEF Inv
  <2> QED BY <2>1, <2>2, <2>3, <2>4 DEF Next
<1> QED BY <1>1, <1>2, PTL DEF Spec

\* The types hold, and a Run is always at a Node of the Flow it was admitted with.
THEOREM AdmissionTypes == Spec => []TypeOK
<1>1. Inv => TypeOK
  <2> SUFFICES ASSUME Inv PROVE TypeOK
    OBVIOUS
  <2>1. \A r \in Existing : runs[r].done \in runs[r].start - 1 .. Length(runs[r].definition)
    BY DEF Inv, Sealed, Placed
  <2> QED BY <2>1 DEF Inv, Typed, TypeOK
<1> QED BY <1>1, AdmissionInvariance, PTL

\* No Run executes a write its user has not confirmed for this very Run: _admit_run and require_effect_authorization.
THEOREM NoUnconfirmedWrite == Spec => []WritesConfirmed
<1>1. Inv => WritesConfirmed
  <2> SUFFICES ASSUME Inv, NEW r \in Existing, NEW i \in DOMAIN runs[r].definition.nodes, i >= runs[r].start,
                      NEW x \in Consents(runs[r].definition.nodes[i])
               PROVE  \E ch \in confirmed :
                        /\ <<x, i>> \in ch.effects
                        /\ ch.definition = runs[r].definition /\ ch.input = runs[r].input
                        /\ ch.parent = runs[r].parent /\ ch.start = runs[r].start
    BY DEF WritesConfirmed
  <2>1. PICK ch : ch = Challenge(runs[r].definition, runs[r].input, runs[r].start, runs[r].parent)
    OBVIOUS
  <2>2. ch.effects = {} \/ ch \in confirmed
    BY <2>1 DEF Inv, Sealed, Consented
  <2>3. x \in WriteEffects
    BY DEF Consents, Declares
  <2>4. <<x, i>> \in Required(runs[r].definition, runs[r].start)
    BY <2>3 DEF Required
  <2>5. /\ ch.effects = Required(runs[r].definition, runs[r].start)
        /\ ch.definition = runs[r].definition /\ ch.input = runs[r].input
        /\ ch.parent = runs[r].parent /\ ch.start = runs[r].start
    BY <2>1 DEF Challenge
  <2> QED BY <2>2, <2>4, <2>5
<1> QED BY <1>1, AdmissionInvariance, PTL

\* A fork runs the Flow and the input of its parent, from a Node up to which the parent ran: fork_console_run.
THEOREM ForksRepeatTheirParent == Spec => []ForkRepeatsParent
<1>1. Inv => ForkRepeatsParent
  BY DEF Inv, Sealed, Repeats, ForkRepeatsParent
<1> QED BY <1>1, AdmissionInvariance, PTL

\* Executors hold the conversations that the evidence of their Run names, and no others: _sessions and executor.session.bound.
LEMMA Conversing == Spec => []Talk
<1> USE AdmissionAssumption, RecordsAssumption
<1>1. Init => Talk
  BY DEF Init, Talk, Conversed
<1>2. Inv /\ Talk /\ [Next]_vars => Talk'
  <2> SUFFICES ASSUME Inv, Talk, [Next]_vars PROVE Talk'
    OBVIOUS
  <2>0. ASSUME UNCHANGED <<runs, bound>> PROVE Talk'
    BY <2>0 DEF Talk, Conversed
  <2>1. CASE AuthorStep
    BY <2>0, <2>1 DEF AuthorStep, AuthorSaves, AuthorUpdates, AuthorDeletes, AuthorPuts
  <2>2. ASSUME NEW c \in Clients, ClientStep(c) PROVE Talk'
    <3>1. CASE \E r \in Runs : Admit(c, r)
      BY <3>1, AdmittedConversed DEF Talk
    <3>2. CASE ~\E r \in Runs : Admit(c, r)
      BY <2>0, <2>2, <3>2
      DEF ClientStep, Request, RequestRun, RequestPortableRun, RequestFork, ListFlows, MatchPortable, GetTask, GetOverride,
          CompileRun, CompileFork, AnswerChallenge, RefuseAdmission, Confirm, Decline, Reads
    <3> QED BY <3>1, <3>2
  <2>3. ASSUME NEW r \in Runs, RunStep(r) PROVE Talk'
    BY <2>3, TurnConverses, OneShotConverses DEF RunStep, Talk
  <2>4. CASE UNCHANGED vars
    BY <2>0, <2>4 DEF vars
  <2> QED BY <2>1, <2>2, <2>3, <2>4 DEF Next
<1> QED BY <1>1, <1>2, AdmissionInvariance, PTL DEF Spec

\* Each conversation is continued, and forks enter groups at their first Node: _execute_session and fork_console_run.
THEOREM ConversationsContinue == Spec => []TurnsContinue
<1> USE AdmissionAssumption, RecordsAssumption
<1>1. Inv /\ Talk => TurnsContinue
  <2> SUFFICES ASSUME Inv, Talk, NEW r \in Existing, NEW k \in DOMAIN runs[r].sessions
               PROVE  /\ runs[r].sessions[k].reused = (Before(runs[r].sessions, k) # {})
                      /\ \A j \in Before(runs[r].sessions, k) : runs[r].sessions[j].ref = runs[r].sessions[k].ref
                      /\ \A i \in 1 .. runs[r].start - 1 :
                           runs[r].definition.nodes[i].group # runs[r].sessions[k].group
    BY DEF TurnsContinue, Before
  <2>1. PICK run, turns : run = runs[r] /\ turns = runs[r].sessions
    OBVIOUS
  <2>2. run \in RunType /\ WholeGroups(run) /\ Agreeing(turns) /\ turns \in Seq(Turns)
    BY <2>1 DEF Existing, Inv, Typed, Talk, Conversed, RunType
  <2>3. \A j \in Before(turns, k) : j \in DOMAIN turns /\ turns[j].executor = turns[k].executor /\ turns[j].group = turns[k].group
    BY <2>1, <2>2 DEF Before
  <2>4. turns[k].group \in SessionGroups /\ turns[k].group # None
    <3>1. turns[k] \in Turns
      BY <2>1, <2>2
    <3> QED BY <3>1 DEF Turns, AdmissionAssumption
  <2>5. turns[k].group \in Groups(run.definition.nodes, run.start .. Length(run.definition))
    <3>1. PICK n : n = turns[k].node
      OBVIOUS
    <3>2. n \in run.start .. Length(run.definition) /\ turns[k].group = run.definition.nodes[n].group
      BY <2>1, <2>2, <3>1 DEF WholeGroups
    <3> QED BY <2>4, <3>2 DEF Groups
  <2>6. ASSUME NEW i \in 1 .. run.start - 1 PROVE run.definition.nodes[i].group # turns[k].group
    <3>1. turns[k].group \notin Groups(run.definition.nodes, 1 .. run.start - 1)
      BY <2>2, <2>5 DEF WholeGroups
    <3> QED BY <2>4, <2>6, <3>1 DEF Groups
  <2>7. turns[k].reused = (Before(turns, k) # {})
    BY <2>1, <2>2 DEF Agreeing
  <2>8. \A j \in Before(turns, k) : turns[j].ref = turns[k].ref
    BY <2>1, <2>2, <2>3 DEF Agreeing
  <2> QED BY <2>1, <2>6, <2>7, <2>8
<1> QED BY <1>1, Conversing, AdmissionInvariance, PTL

\* Nodes of one group have one executor in every Flow that compiles, when its steps name one Capability.
LEMMA GroupExecutor ==
  ASSUME AdmissionAssumption, GroupsBindOnce, NEW d, Compiled(d),
         NEW i \in DOMAIN d.nodes, NEW j \in DOMAIN d.nodes,
         d.nodes[i].group # None, d.nodes[i].group = d.nodes[j].group
  PROVE  d.nodes[i].executor = d.nodes[j].executor
<1>1. PICK f \in Flows, e \in Executors : Compiles(f, e) /\ d = Definition(f, e)
  BY DEF Compiled
<1> DEFINE node(k) == [id |-> f.steps[k].id, kind |-> f.steps[k].kind, group |-> f.steps[k].group,
                       executor |-> ExecutorOf(f.steps[k], e)]
<1>2. d.nodes = [k \in DOMAIN f.steps |-> node(k)]
  BY <1>1 DEF Definition
<1>3. i \in DOMAIN f.steps /\ j \in DOMAIN f.steps /\ d.nodes[i] = node(i) /\ d.nodes[j] = node(j)
  BY <1>2
<1>4. f.steps[i].group # None /\ f.steps[i].group = f.steps[j].group
  BY <1>3
<1>5. ASSUME NEW k \in DOMAIN f.steps, f.steps[k].group # None
      PROVE  ExecutorOf(f.steps[k], e) = f.steps[k].capability
  <2>1. f.steps[k].kind = "agent.task" /\ f.steps[k].capability \in SessionCapable
    BY <1>1, <1>5 DEF Compiles
  <2>2. f.steps[k].capability # None
    BY <2>1 DEF AdmissionAssumption
  <2> QED BY <2>1, <2>2 DEF ExecutorOf
<1>6. f.steps[i].capability = f.steps[j].capability
  BY <1>3, <1>4 DEF GroupsBindOnce
<1>7. d.nodes[i].executor = f.steps[i].capability /\ d.nodes[j].executor = f.steps[j].capability
  BY <1>3, <1>4, <1>5
<1> QED BY <1>6, <1>7

\* "The Runtime then proves that those separate task boundaries used the same opaque external conversation", README.md:551,
\* is true of Flows that bind each of their groups to one Capability, whatever adapters answer: _execute_session.
THEOREM BoundGroupsConverse ==
  ASSUME GroupsBindOnce PROVE Spec => []OneConversation
<1>1. Inv /\ Talk => OneConversation
  <2> SUFFICES ASSUME Inv, Talk, NEW r \in Existing,
                      NEW j \in DOMAIN runs[r].sessions, NEW k \in DOMAIN runs[r].sessions,
                      runs[r].sessions[j].group = runs[r].sessions[k].group
               PROVE  runs[r].sessions[j].ref = runs[r].sessions[k].ref
    BY DEF OneConversation
  <2>1. PICK run, turns : run = runs[r] /\ turns = runs[r].sessions
    OBVIOUS
  <2>2. run \in RunType /\ Placed(run) /\ WholeGroups(run) /\ Agreeing(turns) /\ turns \in Seq(Turns)
    BY <2>1 DEF Existing, Inv, Typed, Sealed, Talk, Conversed, RunType
  <2>3. Compiled(run.definition) /\ run.start \in 1 .. Length(run.definition)
    BY <2>2 DEF Placed
  <2>4. DOMAIN run.definition.nodes = 1 .. Length(run.definition) /\ Length(run.definition) \in Nat
    BY <2>3, CompiledShape, AdmissionAssumption
  <2>5. PICK n, m : n = turns[j].node /\ m = turns[k].node
    OBVIOUS
  <2>6. /\ n \in run.start .. Length(run.definition) /\ m \in run.start .. Length(run.definition)
        /\ turns[j].group = run.definition.nodes[n].group /\ turns[j].executor = run.definition.nodes[n].executor
        /\ turns[k].group = run.definition.nodes[m].group /\ turns[k].executor = run.definition.nodes[m].executor
    BY <2>1, <2>2, <2>5 DEF WholeGroups
  <2>7. n \in DOMAIN run.definition.nodes /\ m \in DOMAIN run.definition.nodes
    BY <2>3, <2>4, <2>6
  <2>8. turns[j].group # None
    <3>1. turns[j] \in Turns
      BY <2>1, <2>2
    <3> QED BY <3>1, AdmissionAssumption DEF Turns, AdmissionAssumption
  <2>9. turns[j].executor = turns[k].executor
    <3>1. PICK d : d = run.definition
      OBVIOUS
    <3>2. d.nodes[n].group # None /\ d.nodes[n].group = d.nodes[m].group
      BY <2>1, <2>6, <2>8, <3>1
    <3>3. d.nodes[n].executor = d.nodes[m].executor
      BY <2>3, <2>7, <3>1, <3>2, GroupExecutor, AdmissionAssumption
    <3> QED BY <2>6, <3>1, <3>3
  <2> QED BY <2>1, <2>2, <2>9 DEF Agreeing
<1> QED BY <1>1, Conversing, AdmissionInvariance, PTL
=============================================================================
