------------------------------ MODULE Catalog ------------------------------
(***************************************************************************)
(* The three stores of a Local workspace: capabilities.json                *)
(* (CapabilityCatalog), the tasks of workspace.json (LocalWorkspace) and   *)
(* the Flows of console-flows.json (ConsoleCompat), with the requests that *)
(* change them and the installation of an integration bundle.              *)
(*                                                                         *)
(* Each file is replaced atomically under a lock of its own; a request     *)
(* that needs more than one holds mutation_lock from its first step to its *)
(* last.  A step is one access to one file: what a crash or a failing      *)
(* write can fall between.                                                 *)
(***************************************************************************)
EXTENDS Naturals, FiniteSets

CONSTANTS
  Clients, NoClient,
  Tasks, Canonical,         \* the ids of tasks, and that of _seed_task
  Capabilities,             \* the ids of Capabilities
  Samples, Fixture,         \* those the Runtime owns, and the one of its agent
  Fingerprints,
  PortableIds,
  Drafts,                   \* the Flows a client may send
  Bundles,                  \* the bundles it may install
  MaxFaults                 \* failing accesses to a file

Draft == [id : PortableIds, uses : SUBSET Capabilities]

ASSUME CatalogAssumption ==
  /\ NoClient \notin Clients
  /\ Canonical \in Tasks
  /\ Fixture \in Samples /\ Samples \subseteq Capabilities
  /\ Fingerprints \subseteq Nat \ {0}
  /\ {"none", "own", "default", "golden"} \cap PortableIds = {}
  /\ Drafts \subseteq Draft
  /\ Bundles \subseteq [capabilities : [Capabilities -> Fingerprints \cup {0}], flows : SUBSET Draft]
  /\ \A b \in Bundles : \A d, e \in b.flows : d.id = e.id => d = e
  /\ MaxFaults \in Nat

VARIABLES
  capabilities,     \* a record for each id; source "none" where it is not listed
  tasks,            \* whose name the task has: a Flow's, its own, or "none"
  flows,            \* the Flow saved for a task
  used,             \* the task ids drawn so far
  owner,            \* who holds mutation_lock
  at,               \* what each client does next
  local,            \* and the locals of its request
  starting,         \* the samples that a start has still to install
  torn,             \* a request was cut between two files
  faults

store == <<capabilities, tasks, flows, used>>
vars  == <<store, owner, at, local, starting, torn, faults>>

Unlisted == [source |-> "none", fingerprint |-> 0]
NoPins   == [x \in Capabilities |-> 0]
NoFlow   == [id |-> "none", pins |-> NoPins]
NoBundle == [capabilities |-> NoPins, flows |-> {}]

\* The locals of any request; what a request does not use stays as it is here.
Locals == [op |-> "none", task |-> Canonical, flow |-> NoFlow, capability |-> Fixture, fingerprint |-> 0,
           bundle |-> NoBundle, todo |-> NoBundle, madeCapabilities |-> {}, madeTasks |-> {},
           errors |-> FALSE, missed |-> FALSE, before |-> <<{}, {}>>]

Pins == [Capabilities -> Fingerprints \cup {0}]
Flow == [id : PortableIds \cup {"none"}, pins : Pins]
Bundle == [capabilities : Pins, flows : SUBSET Draft]
LocalsType == [op : {"none", "save", "update", "delete", "install", "probe"}, task : Tasks, flow : Flow,
           capability : Capabilities, fingerprint : Fingerprints \cup {0}, bundle : Bundle, todo : Bundle,
           madeCapabilities : SUBSET Capabilities, madeTasks : SUBSET Tasks, errors : BOOLEAN, missed : BOOLEAN,
           before : (SUBSET Capabilities) \X (SUBSET Tasks)]

TypeOK ==
  /\ capabilities \in [Capabilities ->
       [source : {"manual", "sample"}, fingerprint : Fingerprints] \cup {Unlisted}]
  /\ tasks \in [Tasks -> PortableIds \cup {"none", "own"}]
  /\ flows \in [Tasks -> Flow]
  /\ used \subseteq Tasks
  /\ owner \in Clients \cup {NoClient}
  /\ at \in [Clients -> {"idle", "create", "update", "put", "get", "undo", "delete", "pop", "remove",
                         "probe", "install", "receipt", "rollback", "rolled_back"}]
  /\ local \in [Clients -> LocalsType]
  /\ starting \subseteq Samples
  /\ torn \in BOOLEAN
  /\ faults \in 0 .. MaxFaults

Init ==
  /\ capabilities = [x \in Capabilities |-> Unlisted]
  /\ tasks = [t \in Tasks |-> IF t = Canonical THEN "own" ELSE "none"]
  /\ flows = [t \in Tasks |-> NoFlow]
  /\ used = {Canonical}
  /\ owner = NoClient
  /\ at = [c \in Clients |-> "idle"]
  /\ local = [c \in Clients |-> Locals]
  /\ starting = Samples
  /\ torn = FALSE
  /\ faults = 0

-----------------------------------------------------------------------------
(* What the stores say.                                                    *)

Listed   == {x \in Capabilities : capabilities[x].source # "none"}
Existing == {t \in Tasks : tasks[t] # "none"}
HasFlow(t) == flows[t] # NoFlow

\* _capability_references: the saved Flows that name the Capability.
References(x) == {t \in Tasks : flows[t].pins[x] # 0}

\* _pin_capabilities.
Pinned(d) == [id |-> d.id, pins |-> [x \in Capabilities |-> IF x \in d.uses THEN capabilities[x].fingerprint ELSE 0]]

\* _refresh_sample_pins.
Refreshed(f) ==
  [f EXCEPT !.pins = [x \in Capabilities |->
     IF f.pins[x] # 0 /\ capabilities[x].source = "sample" THEN capabilities[x].fingerprint ELSE f.pins[x]]]

\* _saved: a task without a Flow of its own shows one that is made for it.
Golden == [id |-> "golden", pins |-> [NoPins EXCEPT ![Fixture] = capabilities[Fixture].fingerprint]]
Shown(t) ==
  IF HasFlow(t) THEN Refreshed(flows[t])
  ELSE IF t = Canonical THEN Golden ELSE [id |-> "default", pins |-> NoPins]

\* list_saved finds the Capability of the golden Flow.
ListWorks == Canonical \in Existing /\ ~HasFlow(Canonical) => Fixture \in Listed

-----------------------------------------------------------------------------
(* mutation_lock, and the locals of its holder.                            *)

Up == starting = {}

Enter(c, to, l) ==
  /\ Up
  /\ at[c] = "idle" /\ owner = NoClient
  /\ owner' = c
  /\ at' = [at EXCEPT ![c] = to]
  /\ local' = [local EXCEPT ![c] = l]
  /\ UNCHANGED <<starting, torn, faults>>

Go(c, to, l) ==
  /\ at' = [at EXCEPT ![c] = to]
  /\ local' = [local EXCEPT ![c] = l]
  /\ UNCHANGED <<owner, starting>>

Leave(c) ==
  /\ at' = [at EXCEPT ![c] = "idle"]
  /\ local' = [local EXCEPT ![c] = Locals]
  /\ owner' = IF owner = c THEN NoClient ELSE owner
  /\ UNCHANGED starting

Well == UNCHANGED <<torn, faults>>

-----------------------------------------------------------------------------
(* Capabilities.                                                           *)

Manual(f) == [source |-> "manual", fingerprint |-> f]

\* save_capability is one access: nobody else may be between two.
SaveCapability ==
  /\ Up /\ owner = NoClient
  /\ \E x \in Capabilities \ Listed, f \in Fingerprints :
       capabilities' = [capabilities EXCEPT ![x] = Manual(f)]
  /\ UNCHANGED <<tasks, flows, used, owner, at, local, starting, torn, faults>>

\* Mutant: the saved Flows are not asked.
DeleteCapabilityUnasked(c) ==
  /\ \E x \in Listed : Enter(c, "remove", [Locals EXCEPT !.capability = x])
  /\ UNCHANGED store

\* delete_capability: refused while a saved Flow names it.
DeleteCapability(c) ==
  /\ \E x \in Listed : References(x) = {} /\ Enter(c, "remove", [Locals EXCEPT !.capability = x])
  /\ UNCHANGED store

\* Mutant: the entry is blanked, not removed.
RemoveBlanks(c) ==
  /\ at[c] = "remove"
  /\ capabilities' = [capabilities EXCEPT ![local[c].capability].fingerprint = 0]
  /\ Leave(c) /\ Well
  /\ UNCHANGED <<tasks, flows, used>>

Remove(c) ==
  /\ at[c] = "remove"
  /\ capabilities' = [capabilities EXCEPT ![local[c].capability] = Unlisted]
  /\ Leave(c) /\ Well
  /\ UNCHANGED <<tasks, flows, used>>

\* probe_saved_capability holds no lock while it probes.
Probe(c) ==
  /\ Up
  /\ at[c] = "idle"
  /\ \E x \in Listed :
       Go(c, "probe", [Locals EXCEPT !.op = "probe", !.capability = x, !.fingerprint = capabilities[x].fingerprint])
  /\ Well
  /\ UNCHANGED store

\* Mutant: the Capability that was probed is written back, not just the record of the probe.
UpdateProbeWhole(c) ==
  /\ at[c] = "probe" /\ local[c].capability \in Listed
  /\ capabilities' = [capabilities EXCEPT ![local[c].capability].fingerprint = local[c].fingerprint]
  /\ Leave(c) /\ Well
  /\ UNCHANGED <<tasks, flows, used>>

\* update_probe: whatever is listed under the id by then gets a status and the
\* record of the probe, which no operation reads.
UpdateProbe(c) ==
  /\ at[c] = "probe"
  /\ Leave(c) /\ Well
  /\ UNCHANGED store

-----------------------------------------------------------------------------
(* Tasks and saved Flows.                                                  *)

\* create_task by itself: a task without a Flow.
CreateTask ==
  /\ Up /\ owner = NoClient
  /\ \E t \in Tasks \ used :
       /\ tasks' = [tasks EXCEPT ![t] = "own"]
       /\ used' = used \cup {t}
  /\ UNCHANGED <<capabilities, flows, owner, at, local, starting, torn, faults>>

SaveFlow(c) ==
  /\ \E d \in Drafts :
       d.uses \subseteq Listed /\ Enter(c, "create", [Locals EXCEPT !.op = "save", !.flow = Pinned(d)])
  /\ UNCHANGED store

UpdateFlow(c) ==
  /\ \E d \in Drafts, t \in Existing :
       d.uses \subseteq Listed /\ Enter(c, "update", [Locals EXCEPT !.op = "update", !.task = t, !.flow = Pinned(d)])
  /\ UNCHANGED store

DeleteFlow(c) ==
  /\ \E t \in Existing : Enter(c, "delete", [Locals EXCEPT !.op = "delete", !.task = t])
  /\ UNCHANGED store

\* The task of a Flow is created first, with an id nobody had before.
Create(c) ==
  /\ at[c] = "create"
  /\ \E t \in Tasks \ used :
       /\ tasks' = [tasks EXCEPT ![t] = local[c].flow.id]
       /\ used' = used \cup {t}
       /\ Go(c, "put", [local[c] EXCEPT !.task = t])
  /\ Well
  /\ UNCHANGED <<capabilities, flows>>

Update(c) ==
  /\ at[c] = "update"
  /\ tasks' = [tasks EXCEPT ![local[c].task] = local[c].flow.id]
  /\ Go(c, "put", local[c]) /\ Well
  /\ UNCHANGED <<capabilities, flows, used>>

PutOverride(c) ==
  /\ at[c] = "put"
  /\ flows' = [flows EXCEPT ![local[c].task] = local[c].flow]
  /\ Go(c, "get", local[c]) /\ Well
  /\ UNCHANGED <<capabilities, tasks, used>>

\* Mutant: the task made for a bundle is not remembered.
GetSavedForgets(c) ==
  /\ at[c] = "get"
  /\ IF local[c].op = "install" THEN Go(c, "install", local[c]) ELSE Leave(c)
  /\ Well
  /\ UNCHANGED store

\* get_saved reads what was saved, and the request returns.
GetSaved(c) ==
  /\ at[c] = "get"
  /\ IF local[c].op = "install"
     THEN Go(c, "install", [local[c] EXCEPT !.madeTasks = @ \cup {local[c].task}])
     ELSE Leave(c)
  /\ Well
  /\ UNCHANGED store

\* Mutant: the task goes, its Flow stays.
DeleteTaskOnly(c) ==
  /\ at[c] = "delete"
  /\ tasks' = [tasks EXCEPT ![local[c].task] = "none"]
  /\ IF local[c].op = "install" THEN Go(c, "rollback", local[c]) ELSE Leave(c)
  /\ Well
  /\ UNCHANGED <<capabilities, flows, used>>

Delete(c) ==
  /\ at[c] = "delete"
  /\ tasks' = [tasks EXCEPT ![local[c].task] = "none"]
  /\ Go(c, "pop", local[c]) /\ Well
  /\ UNCHANGED <<capabilities, flows, used>>

Pop(c) ==
  /\ at[c] = "pop"
  /\ flows' = [flows EXCEPT ![local[c].task] = NoFlow]
  /\ IF local[c].op = "install" THEN Go(c, "rollback", local[c]) ELSE Leave(c)
  /\ Well
  /\ UNCHANGED <<capabilities, tasks, used>>

\* What an exception does to the request.
Raise(c, l) ==
  IF l.op = "install"
  THEN Go(c, "rollback", l)
  ELSE Leave(c)

\* The Flow could not be put: save deletes its task again, and raises.
Undo(c) ==
  /\ at[c] = "undo"
  /\ tasks' = [tasks EXCEPT ![local[c].task] = "none"]
  /\ Raise(c, local[c]) /\ Well
  /\ UNCHANGED <<capabilities, flows, used>>

-----------------------------------------------------------------------------
(* The installation of a bundle.                                           *)

Wanted(b)  == {x \in Capabilities : b.capabilities[x] # 0}
New(b)     == Wanted(b) \ Listed
Clashes(b) == {x \in Wanted(b) \cap Listed : capabilities[x].fingerprint # b.capabilities[x]}

\* _pin_flow, against the Capabilities there would be after the installation.
Proposed(b, d) ==
  [id |-> d.id,
   pins |-> [x \in Capabilities |-> IF x \notin d.uses THEN 0
                                    ELSE IF x \in Wanted(b) THEN b.capabilities[x] ELSE capabilities[x].fingerprint]]

Matches(d) == {t \in Existing : Shown(t).id = d.id}

\* Mutant: a Capability is reused for its id, whatever it is.
PlannedByName(b) ==
  /\ ListWorks
  /\ \A d \in b.flows :
       /\ d.uses \subseteq Listed \cup Wanted(b)
       /\ Matches(d) = {} \/ \E t \in Matches(d) : Matches(d) = {t} /\ Shown(t) = Proposed(b, d)

\* _preview without a conflict: what is there already is what the bundle brings.
Planned(b) ==
  /\ ListWorks
  /\ Clashes(b) = {}
  /\ \A d \in b.flows :
       /\ d.uses \subseteq Listed \cup Wanted(b)
       /\ Matches(d) = {} \/ \E t \in Matches(d) : Matches(d) = {t} /\ Shown(t) = Proposed(b, d)

\* install, up to its first write.
Install(c) ==
  /\ \E b \in Bundles :
       /\ Planned(b)
       /\ Enter(c, "install",
            [Locals EXCEPT !.op = "install", !.bundle = b, !.before = <<Listed, Existing>>,
               !.todo = [capabilities |-> [x \in Capabilities |-> IF x \in New(b) THEN b.capabilities[x] ELSE 0],
                         flows |-> {d \in b.flows : Matches(d) = {}}]])
  /\ UNCHANGED store

Todo(c) == {x \in Capabilities : local[c].todo.capabilities[x] # 0}

InstallCapability(c) ==
  /\ at[c] = "install"
  /\ \E x \in Todo(c) :
       /\ capabilities' = [capabilities EXCEPT ![x] = Manual(local[c].todo.capabilities[x])]
       /\ Go(c, "install", [local[c] EXCEPT !.todo.capabilities[x] = 0, !.madeCapabilities = @ \cup {x}])
  /\ Well
  /\ UNCHANGED <<tasks, flows, used>>

\* The Capabilities first; then each Flow is saved like any other.
InstallFlow(c) ==
  /\ at[c] = "install" /\ Todo(c) = {}
  /\ \E d \in local[c].todo.flows :
       Go(c, "create", [local[c] EXCEPT !.flow = Pinned(d), !.todo.flows = @ \ {d}])
  /\ Well
  /\ UNCHANGED store

Installed(c) ==
  /\ at[c] = "install" /\ Todo(c) = {} /\ local[c].todo.flows = {}
  /\ Go(c, "receipt", local[c]) /\ Well
  /\ UNCHANGED store

\* _rollback: the Flows it made, then the Capabilities, and the errors of both.
RollbackFlow(c) ==
  /\ at[c] = "rollback"
  /\ \E t \in local[c].madeTasks :
       Go(c, "delete", [local[c] EXCEPT !.task = t, !.madeTasks = @ \ {t}])
  /\ Well
  /\ UNCHANGED store

\* Mutant: every Capability of the bundle is taken back, also one that was there.
RollbackCapabilityAll(c) ==
  /\ at[c] = "rollback" /\ local[c].madeTasks = {}
  /\ \E x \in Wanted(local[c].bundle) \cap Listed :
       /\ References(x) = {}
       /\ capabilities' = [capabilities EXCEPT ![x] = Unlisted]
       /\ Go(c, "rollback", [local[c] EXCEPT !.madeCapabilities = @ \ {x}])
  /\ Well
  /\ UNCHANGED <<tasks, flows, used>>

RollbackCapability(c) ==
  /\ at[c] = "rollback" /\ local[c].madeTasks = {}
  /\ \E x \in local[c].madeCapabilities :
       LET gone == References(x) = {} IN
       /\ capabilities' = IF gone THEN [capabilities EXCEPT ![x] = Unlisted] ELSE capabilities
       /\ Go(c, "rollback", [local[c] EXCEPT !.madeCapabilities = @ \ {x}, !.errors = @ \/ ~gone])
  /\ Well
  /\ UNCHANGED <<tasks, flows, used>>

RolledBack(c) ==
  /\ at[c] = "rollback" /\ local[c].madeTasks = {} /\ local[c].madeCapabilities = {}
  /\ Go(c, "rolled_back", local[c]) /\ Well
  /\ UNCHANGED store

\* The receipt, or the exception.
InstallReturns(c) ==
  /\ at[c] \in {"receipt", "rolled_back"}
  /\ Leave(c) /\ Well
  /\ UNCHANGED store

-----------------------------------------------------------------------------
(* What goes wrong, and the next start.                                    *)

\* An access to a file raises, and has no effect.
Fails(c) ==
  /\ faults < MaxFaults
  /\ faults' = faults + 1
  /\ \/ /\ at[c] \in {"create", "update", "remove"}
        /\ Raise(c, local[c]) /\ UNCHANGED torn
     \/ /\ at[c] = "install" /\ Todo(c) # {}
        /\ Raise(c, local[c]) /\ UNCHANGED torn
     \/ /\ at[c] = "put" /\ local[c].op # "update"
        /\ Go(c, "undo", local[c]) /\ UNCHANGED torn
     \/ /\ at[c] = "put" /\ local[c].op = "update"
        /\ Leave(c) /\ torn' = TRUE
     \/ /\ at[c] = "get"
        /\ Raise(c, [local[c] EXCEPT !.missed = TRUE]) /\ UNCHANGED torn
     \/ /\ at[c] = "undo"
        /\ Raise(c, [local[c] EXCEPT !.missed = TRUE]) /\ torn' = TRUE
     \/ /\ at[c] \in {"delete", "pop"}
        /\ Raise(c, [local[c] EXCEPT !.errors = TRUE])
        /\ torn' = (torn \/ at[c] = "pop")
     \/ /\ at[c] = "rollback" /\ local[c].madeTasks = {}
        /\ \E x \in local[c].madeCapabilities :
             Go(c, "rollback", [local[c] EXCEPT !.madeCapabilities = @ \ {x}, !.errors = TRUE])
        /\ UNCHANGED torn
  /\ UNCHANGED store

\* The process ends; nothing on disk says what was under way.
Crash ==
  /\ owner' = NoClient
  /\ at' = [c \in Clients |-> "idle"]
  /\ local' = [c \in Clients |-> Locals]
  /\ starting' = Samples
  /\ torn' = (torn \/ owner # NoClient)
  /\ UNCHANGED <<store, faults>>

\* upsert_sample: a manual Capability under the id of a sample stops the start.
InstallSample ==
  /\ \E x \in starting, f \in Fingerprints :
       /\ capabilities[x].source # "manual"
       /\ capabilities' = [capabilities EXCEPT ![x] = [source |-> "sample", fingerprint |-> f]]
       /\ starting' = starting \ {x}
  /\ UNCHANGED <<tasks, flows, used, owner, at, local, torn, faults>>

Request(c) ==
  \/ DeleteCapability(c) \/ Remove(c) \/ Probe(c) \/ UpdateProbe(c)
  \/ SaveFlow(c) \/ UpdateFlow(c) \/ DeleteFlow(c)
  \/ Create(c) \/ Update(c) \/ PutOverride(c) \/ GetSaved(c) \/ Delete(c) \/ Pop(c) \/ Undo(c)
  \/ Install(c) \/ InstallCapability(c) \/ InstallFlow(c) \/ Installed(c)
  \/ RollbackFlow(c) \/ RollbackCapability(c) \/ RolledBack(c) \/ InstallReturns(c)

Next ==
  \/ \E c \in Clients : Request(c) \/ Fails(c)
  \/ SaveCapability \/ CreateTask
  \/ Crash \/ InstallSample

Spec == Init /\ [][Next]_vars

-----------------------------------------------------------------------------

\* Whatever fails or dies in between: a Capability that a saved Flow names is
\* listed, and is the one the Flow was pinned to unless the Runtime owns it.
PinsResolve ==
  \A t \in Tasks, x \in Capabilities : flows[t].pins[x] # 0 =>
    \/ capabilities[x].source = "sample"
    \/ capabilities[x].source = "manual" /\ capabilities[x].fingerprint = flows[t].pins[x]

\* Between two requests a saved Flow has its task, under its own name, also
\* after a failure that was handled.
StoresAgree ==
  owner = NoClient /\ ~torn =>
    \A t \in Tasks : (HasFlow(t) => tasks[t] = flows[t].id) /\ (tasks[t] \in PortableIds => HasFlow(t))

\* "Normal saved Capability fingerprints do not change."
FingerprintsImmutable ==
  [][\A x \in Capabilities : capabilities[x].source = "manual" =>
       capabilities'[x] = Unlisted \/ capabilities'[x].fingerprint = capabilities[x].fingerprint]_vars

\* An installation changes and removes only what it has made itself.
InstallKeepsOthers ==
  [][\A c \in Clients : at[c] # "idle" /\ at'[c] # "idle" /\ local[c].op = "install" =>
       /\ \A x \in Listed \ local[c].madeCapabilities : capabilities'[x].fingerprint = capabilities[x].fingerprint
       /\ \A t \in local[c].before[2] : tasks'[t] = tasks[t] /\ flows'[t] = flows[t]]_vars

\* What a receipt says is there, once and as the bundle has it.
ReceiptHolds ==
  \A c \in Clients : at[c] = "receipt" =>
    /\ \A x \in Wanted(local[c].bundle) : capabilities[x].fingerprint = local[c].bundle.capabilities[x]
    /\ \A d \in local[c].bundle.flows :
         \E t \in Existing : Matches(d) = {t} /\ Shown(t) = Proposed(local[c].bundle, d)

\* A failed installation that does not report an incomplete rollback leaves
\* nothing behind, unless a Flow was lost sight of after its task was created.
RollbackComplete ==
  \A c \in Clients : at[c] = "rolled_back" /\ ~local[c].errors /\ ~local[c].missed =>
    local[c].before = <<Listed, Existing>>

\* "A saved Flow that references a Capability prevents its deletion."
ShownCapabilitiesListed ==
  Up => \A t \in Existing, x \in Capabilities :
    (IF HasFlow(t) THEN flows[t].pins[x] # 0 ELSE t = Canonical /\ x = Fixture) => x \in Listed
=============================================================================
