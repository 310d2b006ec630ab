--------------------------- MODULE FlowAdmission ---------------------------
(***************************************************************************)
(* How a saved Flow becomes a Run: a client asks for a Run of a saved Flow *)
(* or for a fork, the server reads the stores without mutation_lock while  *)
(* an author changes them, compiles the Flow, and admits it or answers     *)
(* with the exact write effects its user has to confirm.  And how the      *)
(* Nodes of one session group then share a conversation.                   *)
(*                                                                         *)
(* A step of a request is one read of a store, or the whole of _run_lock.  *)
(* Inside a Run a step is a whole Node: RunLifecycle has its commits.      *)
(* Capabilities do not change here: Catalog shows that what a saved Flow   *)
(* names does not.                                                         *)
(***************************************************************************)
EXTENDS Naturals, Sequences, FiniteSets

CONSTANTS
  None,             \* no value of any kind
  Clients,
  Tasks, NodeIds, PortableIds, SessionGroups,   \* the ids of tasks, of Nodes, of Flows and of session groups
  Goals,            \* what a task row can say
  Drafts, Computed, \* the Flows an author can save, and the one of a task that has none
  Inputs,           \* what a request can supply for the declared inputs
  Executors,        \* the executors a request can name
  KnownRoles,       \* Node ids that have a built-in deterministic executor
  Capabilities,
  KindOf,           \* the kind of a Capability
  SessionCapable,   \* those with input_mode session_json
  Writes,           \* the write effects a Capability declares
  Refs,             \* conversations an adapter can name
  Runs,
  MaxConfirmed      \* bound: challenges users confirm

WriteEffects == {"write_local", "write_external"}
NodeKinds == {"agent.task", "model.task", "evaluation.task", "tool.task", "capability.task", "artifact.task"}
Flows == Drafts \cup {Computed}
Step == [id : NodeIds, from : NodeIds \cup {None}, kind : NodeKinds \cup {None},
         capability : Capabilities \cup {None}, group : SessionGroups \cup {None}]

ASSUME AdmissionAssumption ==
  /\ None \notin Tasks /\ None \notin Goals /\ None \notin Runs /\ None \notin Capabilities
  /\ None \notin SessionGroups /\ None \notin Refs
  /\ \A f \in Flows : f \in [id : PortableIds, steps : Seq(Step), accepts : SUBSET Inputs] /\ f # None
  /\ Executors \subseteq {"deterministic", "codex", "opencode"}
  /\ (Executors \cup {"markdown"}) \cap Capabilities = {}
  /\ SessionCapable \subseteq {x \in Capabilities : KindOf[x] = "agent_cli"}
  /\ Writes \in [Capabilities -> SUBSET WriteEffects]
  /\ MaxConfirmed \in Nat

VARIABLES
  tasks,        \* the row of each task
  flows,        \* the Flow saved for it
  used,         \* task ids drawn so far
  author,       \* the second write of the request that holds mutation_lock
  at,           \* what each client's request does next
  local,        \* its payload and what it has read
  confirmed,    \* challenges that users have confirmed
  runs,         \* app-run.json and evidence of each Run
  bound         \* _sessions of the executors of each Run

store == <<tasks, flows, used, author>>
requests == <<at, local, confirmed>>
vars == <<store, requests, runs, bound>>

-----------------------------------------------------------------------------
(* _compile_console_flow.                                                  *)

\* The Capability kinds a Node kind can bind.
Fits(kind) ==
  CASE kind = "agent.task"      -> {"agent_cli"}
    [] kind = "model.task"      -> {"model_cli"}
    [] kind = "evaluation.task" -> {"evaluator_cli"}
    [] OTHER                    -> {"cli", "http", "mcp_stdio"}

\* What a step is bound to must exist and be of its kind.
Binds(step, e) ==
  CASE step.kind = "artifact.task" -> TRUE
    [] step.capability # None      -> KindOf[step.capability] \in Fits(step.kind)
    [] OTHER -> step.kind = "agent.task" /\ (e = "deterministic" => step.id \in KnownRoles)

ExecutorOf(step, e) ==
  IF step.kind = "artifact.task" THEN "markdown" ELSE IF step.capability # None THEN step.capability ELSE e

\* With the checks of NodeDefinition and FlowDefinition.
Compiles(f, e) ==
  LET steps == f.steps IN
  /\ steps # <<>>
  /\ \A i, j \in DOMAIN steps : steps[i].id = steps[j].id => i = j
  /\ \A i \in DOMAIN steps :
       /\ steps[i].kind \in NodeKinds
       /\ steps[i].from = IF i = 1 THEN None ELSE steps[i - 1].id
       /\ steps[i].kind = "evaluation.task" => i # 1
       /\ steps[i].group # None =>
            steps[i].kind = "agent.task" /\ steps[i].capability \in SessionCapable
       /\ Binds(steps[i], e)

\* The FlowDefinition; its semantic_hash stands for all of it.
Definition(f, e) ==
  [id |-> f.id,
   nodes |-> [i \in DOMAIN f.steps |->
     [id |-> f.steps[i].id, kind |-> f.steps[i].kind, group |-> f.steps[i].group,
      executor |-> ExecutorOf(f.steps[i], e)]]]

-----------------------------------------------------------------------------
(* effect_authorization.                                                   *)

\* The effects that executors declare.
Declares(executor) ==
  {x \in WriteEffects :
     \/ executor = "markdown" /\ x = "write_local"
     \/ executor \in {"codex", "opencode"}
     \/ executor \in Capabilities /\ x \in Writes[executor]}

\* Only the publication of the Runtime's own Artifact needs no consent.
RuntimeOwned(node, effect) ==
  effect = "write_local" /\ node.kind = "artifact.task" /\ node.executor = "markdown"

Consents(node) == {x \in Declares(node.executor) : ~RuntimeOwned(node, x)}

\* _required_effects of the Nodes from start on.
Required(definition, start) ==
  {need \in WriteEffects \X DOMAIN definition.nodes :
     need[2] >= start /\ need[1] \in Consents(definition.nodes[need[2]])}

\* effect_authorization_challenge; its hash, the authorization, stands for all of it.
Challenge(definition, input, start, parent) ==
  [definition |-> definition, input |-> input, start |-> start, parent |-> parent,
   effects |-> Required(definition, start)]

\* Mutant: any authorization will do where one is needed.
AuthorizedByAny(auth, challenge) == IF challenge.effects = {} THEN auth = None ELSE auth # None

\* require_effect_authorization.
Authorized(auth, challenge) == IF challenge.effects = {} THEN auth = None ELSE auth = challenge

-----------------------------------------------------------------------------
(* State.                                                                  *)

\* What a request sends and has read; None where it does not use it.
Locals == [task |-> None, portable |-> None, executor |-> None, supplied |-> None, auth |-> None,
           parent |-> None, start |-> 1, listed |-> None, flow |-> None, definition |-> None, input |-> None]

Steps == {"idle", "list", "match", "task", "override", "compile", "admit", "challenged"}

Definitions == {Definition(f, e) : f \in Flows, e \in Executors}
FlowInputs == [goal : Goals, supplied : Inputs]
Length(d) == Len(d.nodes)
Positions == UNION {DOMAIN f.steps : f \in Flows}
IsChallenge(ch) ==
  \E d \in Definitions, input \in FlowInputs, start \in Positions \cup {1}, parent \in Runs \cup {None} :
    ch = Challenge(d, input, start, parent)

Terminal == {"succeeded", "failed"}

\* What a Run records.
Turns == [node : Positions, executor : Capabilities, group : SessionGroups, ref : Refs, reused : BOOLEAN]

RunType ==
  [definition : Definitions, input : FlowInputs, executor : Executors, task : Tasks, parent : Runs \cup {None},
   start : Positions \cup {1}, done : Nat, opened : BOOLEAN, status : {"running"} \cup Terminal, sessions : Seq(Turns)]

\* Neither the record of a Run nor the hash of a challenge is ever missing.
ASSUME RecordsAssumption ==
  /\ None \notin RunType
  /\ \A d \in Definitions, input \in FlowInputs, start \in Positions \cup {1}, parent \in Runs \cup {None} :
       Challenge(d, input, start, parent) # None

Existing == {r \in Runs : runs[r] # None}

Init ==
  /\ tasks = [t \in Tasks |-> None]
  /\ flows = [t \in Tasks |-> None]
  /\ used = {}
  /\ author = None
  /\ at = [c \in Clients |-> "idle"]
  /\ local = [c \in Clients |-> Locals]
  /\ confirmed = {}
  /\ runs = [r \in Runs |-> None]
  /\ bound = [r \in Runs |-> {}]

-----------------------------------------------------------------------------
(* The author of Flows, under mutation_lock: the row, then the Flow.       *)

AuthorSaves(t, goal, f) ==
  /\ author = None
  /\ t \notin used
  /\ used' = used \cup {t}
  /\ tasks' = [tasks EXCEPT ![t] = goal]
  /\ author' = [task |-> t, flow |-> f]
  /\ UNCHANGED <<flows, requests, runs, bound>>

AuthorUpdates(t, goal, f) ==
  /\ author = None
  /\ tasks[t] # None
  /\ tasks' = [tasks EXCEPT ![t] = goal]
  /\ author' = [task |-> t, flow |-> f]
  /\ UNCHANGED <<flows, used, requests, runs, bound>>

AuthorDeletes(t) ==
  /\ author = None
  /\ tasks[t] # None
  /\ tasks' = [tasks EXCEPT ![t] = None]
  /\ author' = [task |-> t, flow |-> None]
  /\ UNCHANGED <<flows, used, requests, runs, bound>>

\* _put_override, or the pop of delete.
AuthorPuts ==
  /\ author # None
  /\ flows' = [flows EXCEPT ![author.task] = author.flow]
  /\ author' = None
  /\ UNCHANGED <<tasks, used, requests, runs, bound>>

-----------------------------------------------------------------------------
(* A request, read by read.                                                *)

Go(c, to, l) ==
  /\ at' = [at EXCEPT ![c] = to]
  /\ local' = [local EXCEPT ![c] = l]

Refuse(c) == Go(c, "idle", Locals)

\* A step of a request that only reads.
Reads == UNCHANGED <<store, confirmed, runs, bound>>

\* _saved: a task without a saved Flow shows the one computed for it.
Saved(override) == IF override # None THEN override ELSE Computed

\* A client sends what its user has confirmed, whatever it was confirmed for.
Auths == {None} \cup confirmed

\* POST /api/flows/{task_id}/runs.
RequestRun(c, t, e, input, auth) ==
  /\ at[c] = "idle"
  /\ Go(c, "task", [Locals EXCEPT !.task = t, !.executor = e, !.supplied = input, !.auth = auth])
  /\ Reads

\* POST /api/v1/flows/{flow_id}/runs.
RequestPortableRun(c, id, e, input, auth) ==
  /\ at[c] = "idle"
  /\ Go(c, "list", [Locals EXCEPT !.portable = id, !.executor = e, !.supplied = input, !.auth = auth])
  /\ Reads

\* POST /api/v1/runs/{run_id}/forks: the task and the executor are the parent's.
RequestFork(c, r, start, auth) ==
  /\ at[c] = "idle"
  /\ runs[r] # None
  /\ start \in 1 .. Length(runs[r].definition)
  /\ Go(c, "task", [Locals EXCEPT !.task = runs[r].task, !.executor = runs[r].executor, !.auth = auth,
                                  !.parent = r, !.start = start])
  /\ Reads

\* list_saved reads the Flows, and then the tasks.
ListFlows(c) ==
  /\ at[c] = "list"
  /\ Go(c, "match", [local[c] EXCEPT !.listed = flows])
  /\ Reads

\* resolve_portable_flow.
MatchPortable(c) ==
  LET matches == {t \in Tasks : tasks[t] # None /\ Saved(local[c].listed[t]).id = local[c].portable} IN
  /\ at[c] = "match"
  /\ IF Cardinality(matches) = 1
     THEN \E t \in matches : Go(c, "task", [local[c] EXCEPT !.task = t, !.listed = None])
     ELSE Refuse(c)
  /\ Reads

\* get_saved reads the task, and then the Flow.
GetTask(c) ==
  /\ at[c] = "task"
  /\ IF tasks[local[c].task] # None THEN Go(c, "override", local[c]) ELSE Refuse(c)
  /\ Reads

GetOverride(c) ==
  /\ at[c] = "override"
  /\ Go(c, "compile", [local[c] EXCEPT !.flow = Saved(flows[local[c].task])])
  /\ Reads

\* run_console_flow: the task again, for the input.
CompileRun(c) ==
  LET l == local[c] IN
  /\ at[c] = "compile"
  /\ l.parent = None
  /\ IF tasks[l.task] # None /\ Compiles(l.flow, l.executor) /\ l.supplied \in l.flow.accepts
     THEN Go(c, "admit", [l EXCEPT !.flow = None, !.supplied = None,
                           !.definition = Definition(l.flow, l.executor),
                           !.input = [goal |-> tasks[l.task], supplied |-> l.supplied]])
     ELSE Refuse(c)
  /\ Reads

\* The session groups of some Nodes.
Groups(nodes, positions) == {nodes[i].group : i \in positions} \ {None}

\* Mutant: a fork may enter a group halfway.
ForkableAcrossGroups(parent, definition, start) ==
  /\ parent.status \in Terminal
  /\ parent.definition = definition
  /\ parent.opened
  /\ \A i \in 1 .. start - 1 : parent.start <= i /\ i <= parent.done

\* Mutant: the Flow as it is now, whatever the parent ran.
ForkableWhenChanged(parent, definition, start) ==
  /\ parent.status \in Terminal
  /\ parent.opened
  /\ start <= Length(definition)
  /\ \A i \in 1 .. start - 1 : parent.start <= i /\ i <= parent.done
  /\ Groups(definition.nodes, 1 .. start - 1) \cap Groups(definition.nodes, start .. Length(definition)) = {}

\* fork_console_run: what the parent must be, and where it can be entered.
Forkable(parent, definition, start) ==
  /\ parent.status \in Terminal
  /\ parent.definition = definition
  /\ parent.opened
  /\ \A i \in 1 .. start - 1 : parent.start <= i /\ i <= parent.done
  /\ Groups(definition.nodes, 1 .. start - 1) \cap Groups(definition.nodes, start .. Length(definition)) = {}

CompileFork(c) ==
  LET l == local[c]  parent == runs[l.parent]  definition == Definition(l.flow, l.executor) IN
  /\ at[c] = "compile"
  /\ l.parent # None
  /\ IF /\ Compiles(l.flow, l.executor)
        /\ Forkable(parent, definition, l.start)
        /\ tasks[l.task] # None
     THEN Go(c, "admit", [l EXCEPT !.flow = None, !.definition = definition, !.input = parent.input])
     ELSE Refuse(c)
  /\ Reads

-----------------------------------------------------------------------------
(* _admit_run, under _run_lock.                                            *)

ChallengeOf(l) == Challenge(l.definition, l.input, l.start, l.parent)

NoneActive == \A r \in Existing : runs[r].status \in Terminal

\* What the new Run records; opened: its first Node has a row, with the input.
NewRun(l) ==
  [definition |-> l.definition, input |-> l.input, executor |-> l.executor, task |-> l.task, parent |-> l.parent,
   start |-> l.start, done |-> l.start - 1, opened |-> l.start > 1, status |-> "running", sessions |-> <<>>]

Admit(c, r) ==
  /\ at[c] = "admit"
  /\ NoneActive
  /\ Authorized(local[c].auth, ChallengeOf(local[c]))
  /\ runs[r] = None
  /\ runs' = [runs EXCEPT ![r] = NewRun(local[c])]
  /\ Refuse(c)
  /\ UNCHANGED <<store, confirmed, bound>>

\* 428: the challenge goes to the user.
AnswerChallenge(c) ==
  /\ at[c] = "admit"
  /\ NoneActive
  /\ ChallengeOf(local[c]).effects # {}
  /\ ~Authorized(local[c].auth, ChallengeOf(local[c]))
  /\ Go(c, "challenged", local[c])
  /\ Reads

\* 409 for an active Run, 400 for an authorization that nothing needs.
RefuseAdmission(c) ==
  /\ at[c] = "admit"
  /\ \/ ~NoneActive
     \/ ChallengeOf(local[c]).effects = {} /\ local[c].auth # None
  /\ Refuse(c)
  /\ Reads

Confirm(c) ==
  /\ at[c] = "challenged"
  /\ Cardinality(confirmed \cup {ChallengeOf(local[c])}) <= MaxConfirmed
  /\ confirmed' = confirmed \cup {ChallengeOf(local[c])}
  /\ Refuse(c)
  /\ UNCHANGED <<store, runs, bound>>

Decline(c) ==
  /\ at[c] = "challenged"
  /\ Refuse(c)
  /\ Reads
-----------------------------------------------------------------------------
(* The thread of a Run, Node by Node.                                      *)

\* The conversation the Node's executor holds for its group; one executor object per binding.
Bindings(r, node) == {b \in bound[r] : b.executor = node.executor /\ b.group = node.group}

\* conversation_ref of the request to the adapter.
Requested(r, node) ==
  IF Bindings(r, node) = {} THEN None ELSE (CHOOSE b \in Bindings(r, node) : TRUE).ref

\* The evidence of a grouped turn, executor.session.bound or executor.session.reused.
Turn(r, i, node, ref) ==
  [node |-> i, executor |-> node.executor, group |-> node.group, ref |-> ref, reused |-> Requested(r, node) # None]

\* Mutant: a Node is counted twice, and the Run ends by the count.
AcceptTwice(run, turns) ==
  LET i == run.done + 1 IN
  [run EXCEPT !.done = i + 1, !.opened = TRUE, !.sessions = @ \o turns,
              !.status = IF i + 1 >= Length(run.definition) THEN "succeeded" ELSE "running"]

\* The Node's result is accepted, the last one's ends the Run.
Accept(run, turns) ==
  LET i == run.done + 1 IN
  [run EXCEPT !.done = i, !.opened = TRUE, !.sessions = @ \o turns,
              !.status = IF i = Length(run.definition) THEN "succeeded" ELSE "running"]

Running(r) == runs[r] # None /\ runs[r].status = "running"
NextNode(r) == runs[r].definition.nodes[runs[r].done + 1]

\* A Node without a group is one-shot.
ExecuteAlone(r) ==
  /\ Running(r)
  /\ NextNode(r).group = None
  /\ runs' = [runs EXCEPT ![r] = Accept(@, <<>>)]
  /\ UNCHANGED <<store, requests, bound>>

\* _execute_session: the first turn binds what the adapter names, later ones must be told the same.
ExecuteGrouped(r, ref) ==
  LET node == NextNode(r)  requested == Requested(r, node) IN
  /\ Running(r)
  /\ node.group # None
  /\ requested # None => ref = requested
  /\ bound' = [bound EXCEPT ![r] = @ \cup {[executor |-> node.executor, group |-> node.group, ref |-> ref]}]
  /\ runs' = [runs EXCEPT ![r] = Accept(@, <<Turn(r, runs[r].done + 1, node, ref)>>)]
  /\ UNCHANGED <<store, requests>>

\* A refusal, an executor that raises, an adapter that changes its conversation, a cancellation: before the Node's row or after.
EndUnsuccessfully(r, opened) ==
  /\ Running(r)
  /\ runs[r].opened => opened
  /\ runs' = [runs EXCEPT ![r].status = "failed", ![r].opened = opened]
  /\ UNCHANGED <<store, requests, bound>>

-----------------------------------------------------------------------------
AuthorStep ==
  \/ \E t \in Tasks, goal \in Goals, f \in Drafts : AuthorSaves(t, goal, f) \/ AuthorUpdates(t, goal, f)
  \/ \E t \in Tasks : AuthorDeletes(t)
  \/ AuthorPuts

\* Bound: nobody asks once the Run ids of the instance are used up.
Request(c) ==
  /\ Existing # Runs
  /\ \/ \E e \in Executors, input \in Inputs, auth \in Auths :
          \/ \E t \in Tasks : RequestRun(c, t, e, input, auth)
          \/ \E f \in Flows : RequestPortableRun(c, f.id, e, input, auth)
     \/ \E r \in Runs, start \in Positions, auth \in Auths : RequestFork(c, r, start, auth)

ClientStep(c) ==
  \/ Request(c)
  \/ ListFlows(c) \/ MatchPortable(c) \/ GetTask(c) \/ GetOverride(c)
  \/ CompileRun(c) \/ CompileFork(c)
  \/ \E r \in Runs : Admit(c, r)
  \/ AnswerChallenge(c) \/ RefuseAdmission(c) \/ Confirm(c) \/ Decline(c)

RunStep(r) ==
  \/ ExecuteAlone(r)
  \/ \E ref \in Refs : ExecuteGrouped(r, ref)
  \/ \E opened \in BOOLEAN : EndUnsuccessfully(r, opened)

Next ==
  \/ AuthorStep
  \/ \E c \in Clients : ClientStep(c)
  \/ \E r \in Runs : RunStep(r)

Spec == Init /\ [][Next]_vars

-----------------------------------------------------------------------------
(* Properties.                                                             *)

LocalType ==
  [task : Tasks \cup {None}, portable : PortableIds \cup {None}, executor : Executors \cup {None},
   supplied : Inputs \cup {None}, auth : Auths, parent : Runs \cup {None}, start : Positions \cup {1},
   listed : [Tasks -> Drafts \cup {None}] \cup {None}, flow : Flows \cup {None},
   definition : Definitions \cup {None}, input : FlowInputs \cup {None}]

\* Every variable has its type, and a Run is at a Node of its Flow: LocalWorkspace, FlowDefinition, EffectAuthorizationDecision.
TypeOK ==
  /\ tasks \in [Tasks -> Goals \cup {None}]
  /\ flows \in [Tasks -> Drafts \cup {None}]
  /\ used \subseteq Tasks
  /\ author \in [task : Tasks, flow : Drafts \cup {None}] \cup {None}
  /\ at \in [Clients -> Steps]
  /\ local \in [Clients -> LocalType]
  /\ \A ch \in confirmed : IsChallenge(ch)
  /\ runs \in [Runs -> RunType \cup {None}]
  /\ bound \in [Runs -> SUBSET [executor : Capabilities, group : SessionGroups, ref : Refs]]
  /\ \A r \in Existing : runs[r].done \in runs[r].start - 1 .. Length(runs[r].definition)

\* No Run executes a write that no user has confirmed for this Flow, this input, this fork and this Node, however the
\* stores changed between the challenge and the retry (require_effect_authorization; README.md, "Stale inputs, changed Flows and tampered scopes fail closed").
WritesConfirmed ==
  \A r \in Existing : \A i \in DOMAIN runs[r].definition.nodes :
    i >= runs[r].start => \A x \in Consents(runs[r].definition.nodes[i]) :
      \E ch \in confirmed :
        /\ <<x, i>> \in ch.effects
        /\ ch.definition = runs[r].definition /\ ch.input = runs[r].input
        /\ ch.parent = runs[r].parent /\ ch.start = runs[r].start

\* A fork executes the Flow and the input of its parent, with what the parent itself executed as its prefix, however the saved Flow
\* and the task were edited since the parent ran and while the fork was asked for (fork_console_run).
ForkRepeatsParent ==
  \A r \in Existing : runs[r].parent # None =>
    LET parent == runs[runs[r].parent] IN
    /\ parent # None /\ parent.status \in Terminal
    /\ runs[r].definition = parent.definition /\ runs[r].input = parent.input
    /\ runs[r].start > 1 => parent.start = 1 /\ runs[r].start <= parent.done + 1

\* Each turn of a session group continues the conversation of the same executor's turns before it in this Run, and its evidence says
\* whether there were any, in forks too: the group is reused from its first Node or not at all (_execute_session, fork_console_run).
TurnsContinue ==
  \A r \in Existing :
    LET turns == runs[r].sessions
        Before(k) == {j \in 1 .. k - 1 : turns[j].executor = turns[k].executor /\ turns[j].group = turns[k].group}
        nodes == runs[r].definition.nodes
    IN \A k \in DOMAIN turns :
         /\ turns[k].reused = (Before(k) # {})
         /\ \A j \in Before(k) : turns[j].ref = turns[k].ref
         /\ \A i \in 1 .. runs[r].start - 1 : nodes[i].group # turns[k].group

\* "The Runtime then proves that those separate task boundaries used the same opaque external conversation" (README.md:551):
\* the evidence of a group names one conversation, as _project_run demands.
OneConversation ==
  \A r \in Existing : \A j, k \in DOMAIN runs[r].sessions :
    runs[r].sessions[j].group = runs[r].sessions[k].group => runs[r].sessions[j].ref = runs[r].sessions[k].ref
=============================================================================
