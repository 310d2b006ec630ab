--------------------------- MODULE CatalogProofs ---------------------------
(***************************************************************************)
(* Theorems of Catalog: the safety of the three stores, for any clients,   *)
(* Capabilities, tasks, drafts and bundles and any number of failures.     *)
(***************************************************************************)
EXTENDS Catalog, FiniteSetTheorems, TLAPS

\* The client is inside a request that holds mutation_lock.
Busy(c) == at[c] \notin {"idle", "probe"}

\* Every Capability that the Flow names is as the Flow names it.
Resolves(f) ==
  \A x \in Capabilities : f.pins[x] # 0 =>
    \/ capabilities[x].source = "sample"
    \/ capabilities[x].source = "manual" /\ capabilities[x].fingerprint = f.pins[x]

Settled(t) == (HasFlow(t) => tasks[t] = flows[t].id) /\ (tasks[t] \in PortableIds => HasFlow(t))

\* What a request knows of the Flow it is about to write.
InFlight(c) ==
  at[c] \in {"create", "update", "put"} => Resolves(local[c].flow) /\ local[c].flow.id \in PortableIds

\* ... of the Capability it is about to remove,
Removal(c) == at[c] = "remove" => References(local[c].capability) = {}

\* ... of what it has still to install,
Planning(c) ==
  at[c] = "install" \/ (local[c].op = "install" /\ at[c] \in {"create", "put", "get"}) =>
    Todo(c) \cap Listed = {}

\* ... of its task, between the two files,
Pending(c) ==
  LET t == local[c].task IN
  /\ at[c] \in {"update", "put", "undo", "delete", "pop"} => t \in used
  /\ at[c] = "update" => local[c].op = "update"
  /\ at[c] = "rollback" => local[c].op = "install"
  /\ at[c] = "put" => tasks[t] = local[c].flow.id
  /\ at[c] = "put" /\ local[c].op # "update" => flows[t] = NoFlow
  /\ at[c] = "undo" => flows[t] = NoFlow
  /\ at[c] = "pop" => tasks[t] = "none"

\* ... and of what there was before its installation.
Own(c) ==
  local[c].op = "install" =>
    /\ at[c] \notin {"update", "remove"}
    /\ local[c].before[2] \subseteq used
    /\ local[c].madeTasks \subseteq used
    /\ local[c].madeTasks \cap local[c].before[2] = {}
    /\ at[c] \in {"put", "get", "undo", "delete", "pop"} => local[c].task \in used \ local[c].before[2]

Good(c) ==
  Busy(c) => owner = c /\ Up /\ InFlight(c) /\ Removal(c) /\ Planning(c) /\ Pending(c) /\ Own(c)

\* The stores, whoever is writing them.
AllResolve == \A t \in Tasks : Resolves(flows[t])
Known == \A t \in Tasks \ used : tasks[t] = "none" /\ flows[t] = NoFlow
Agree ==
  ~torn => \A t \in Tasks :
    Settled(t) \/ \E c \in Clients : at[c] \in {"put", "undo", "pop"} /\ local[c].task = t

Probing == \A c \in Clients : at[c] = "probe" => local[c].op = "probe"

Clean == Probing /\ (\A c \in Clients : Good(c)) /\ AllResolve /\ Known /\ Agree
Inv == TypeOK /\ Clean

Steps == {"idle", "create", "update", "put", "get", "undo", "delete", "pop", "remove",
          "probe", "install", "receipt", "rollback", "rolled_back"}

-----------------------------------------------------------------------------
(* Types.                                                                  *)

\* What stands for no Flow is a Flow to the types.
LEMMA NoFlowTyped == NoFlow \in Flow /\ NoPins \in Pins
  BY DEF NoFlow, NoPins, Flow, Pins

\* The locals of a request before it has any.
LEMMA LocalsTyped == Locals \in LocalsType
<1>1. NoBundle \in Bundle
  BY DEF NoBundle, NoPins, Bundle, Pins
<1>2. Canonical \in Tasks /\ Fixture \in Capabilities
  BY CatalogAssumption
<1> QED
  BY <1>1, <1>2, NoFlowTyped DEF Locals, LocalsType

\* _pin_capabilities pins to fingerprints that the catalog holds, or to none.
LEMMA PinnedTyped ==
  ASSUME TypeOK, NEW d \in Draft PROVE Pinned(d) \in Flow
  BY DEF TypeOK, Unlisted, Pinned, Flow, Pins, Draft

\* The step of a request to its next one,
LEMMA GoTyped ==
  ASSUME TypeOK, NEW c \in Clients, NEW to \in Steps, NEW l \in LocalsType, Go(c, to, l)
  PROVE  /\ at' \in [Clients -> Steps] /\ local' \in [Clients -> LocalsType]
         /\ owner' \in Clients \cup {NoClient} /\ starting' \subseteq Samples
  BY DEF TypeOK, Go, Steps

\* the first one, which takes mutation_lock,
LEMMA EnterTyped ==
  ASSUME TypeOK, NEW c \in Clients, NEW to \in Steps, NEW l \in LocalsType, Enter(c, to, l)
  PROVE  /\ at' \in [Clients -> Steps] /\ local' \in [Clients -> LocalsType]
         /\ owner' \in Clients \cup {NoClient} /\ starting' \subseteq Samples
         /\ torn' \in BOOLEAN /\ faults' \in 0 .. MaxFaults
  BY DEF TypeOK, Enter, Steps

\* the last one,
LEMMA LeaveTyped ==
  ASSUME TypeOK, NEW c \in Clients, Leave(c)
  PROVE  /\ at' \in [Clients -> Steps] /\ local' \in [Clients -> LocalsType]
         /\ owner' \in Clients \cup {NoClient} /\ starting' \subseteq Samples
  BY LocalsTyped DEF TypeOK, Leave, Steps

\* and what an exception makes of it.
LEMMA RaiseTyped ==
  ASSUME TypeOK, NEW c \in Clients, NEW l \in LocalsType, Raise(c, l)
  PROVE  /\ at' \in [Clients -> Steps] /\ local' \in [Clients -> LocalsType]
         /\ owner' \in Clients \cup {NoClient} /\ starting' \subseteq Samples
  BY GoTyped, LeaveTyped DEF Raise, Steps

\* The fields of a request's locals.
LEMMA LocalFields ==
  ASSUME TypeOK, NEW c \in Clients
  PROVE  /\ local[c] \in LocalsType
         /\ local[c].op \in {"none", "save", "update", "delete", "install", "probe"}
         /\ local[c].task \in Tasks /\ local[c].flow \in Flow
         /\ local[c].capability \in Capabilities
         /\ local[c].todo \in Bundle /\ local[c].todo.capabilities \in Pins
         /\ local[c].todo.flows \subseteq Draft
         /\ local[c].bundle \in Bundle
         /\ local[c].madeCapabilities \subseteq Capabilities /\ local[c].madeTasks \subseteq Tasks
  BY DEF TypeOK, LocalsType, Bundle

\* Each step of a request keeps the types,
LEMMA RequestTyped ==
  ASSUME TypeOK, NEW c \in Clients, Request(c)
  PROVE  TypeOK'
<1> USE DEF Steps
<1>l. local[c] \in LocalsType
  BY LocalFields
<1>1. CASE DeleteCapability(c)
  <2> PICK x \in Listed : Enter(c, "remove", [Locals EXCEPT !.capability = x])
    BY <1>1 DEF DeleteCapability
  <2>1. [Locals EXCEPT !.capability = x] \in LocalsType
    BY LocalsTyped DEF LocalsType, Listed
  <2> QED
    BY <1>1, <2>1, EnterTyped DEF DeleteCapability, store, TypeOK
<1>2. CASE Remove(c)
  BY <1>2, LeaveTyped, LocalFields DEF Remove, Well, TypeOK, Unlisted
<1>3. CASE Probe(c)
  <2> PICK x \in Listed :
        Go(c, "probe", [Locals EXCEPT !.op = "probe", !.capability = x, !.fingerprint = capabilities[x].fingerprint])
    BY <1>3 DEF Probe
  <2>1. capabilities[x].fingerprint \in Fingerprints
    BY DEF TypeOK, Listed, Unlisted
  <2>2. [Locals EXCEPT !.op = "probe", !.capability = x, !.fingerprint = capabilities[x].fingerprint] \in LocalsType
    BY <2>1, LocalsTyped DEF LocalsType, Listed
  <2> QED
    BY <1>3, <2>2, GoTyped DEF Probe, Well, store, TypeOK
<1>4. CASE UpdateProbe(c)
  BY <1>4, LeaveTyped DEF UpdateProbe, Well, store, TypeOK
<1>5. CASE SaveFlow(c)
  <2> PICK d \in Drafts : Enter(c, "create", [Locals EXCEPT !.op = "save", !.flow = Pinned(d)])
    BY <1>5 DEF SaveFlow
  <2>1. [Locals EXCEPT !.op = "save", !.flow = Pinned(d)] \in LocalsType
    BY LocalsTyped, PinnedTyped, CatalogAssumption DEF LocalsType
  <2> QED
    BY <1>5, <2>1, EnterTyped DEF SaveFlow, store, TypeOK
<1>6. CASE UpdateFlow(c)
  <2> PICK d \in Drafts, t \in Existing :
        Enter(c, "update", [Locals EXCEPT !.op = "update", !.task = t, !.flow = Pinned(d)])
    BY <1>6 DEF UpdateFlow
  <2>1. [Locals EXCEPT !.op = "update", !.task = t, !.flow = Pinned(d)] \in LocalsType
    BY LocalsTyped, PinnedTyped, CatalogAssumption DEF LocalsType, Existing
  <2> QED
    BY <1>6, <2>1, EnterTyped DEF UpdateFlow, store, TypeOK
<1>7. CASE DeleteFlow(c)
  <2> PICK t \in Existing : Enter(c, "delete", [Locals EXCEPT !.op = "delete", !.task = t])
    BY <1>7 DEF DeleteFlow
  <2>1. [Locals EXCEPT !.op = "delete", !.task = t] \in LocalsType
    BY LocalsTyped DEF LocalsType, Existing
  <2> QED
    BY <1>7, <2>1, EnterTyped DEF DeleteFlow, store, TypeOK
<1>8. CASE Create(c)
  <2> PICK t \in Tasks \ used :
        /\ tasks' = [tasks EXCEPT ![t] = local[c].flow.id]
        /\ used' = used \cup {t}
        /\ Go(c, "put", [local[c] EXCEPT !.task = t])
    BY <1>8 DEF Create
  <2>1. [local[c] EXCEPT !.task = t] \in LocalsType
    BY <1>l DEF LocalsType
  <2> QED
    BY <1>8, <2>1, GoTyped, LocalFields DEF Create, Well, TypeOK, Flow
<1>9. CASE Update(c)
  BY <1>9, <1>l, GoTyped, LocalFields DEF Update, Well, TypeOK, Flow
<1>10. CASE PutOverride(c)
  BY <1>10, <1>l, GoTyped, LocalFields DEF PutOverride, Well, TypeOK
<1>11. CASE GetSaved(c)
  <2>1. [local[c] EXCEPT !.madeTasks = @ \cup {local[c].task}] \in LocalsType
    BY <1>l DEF LocalsType
  <2> QED
    BY <1>11, <2>1, GoTyped, LeaveTyped DEF GetSaved, Well, store, TypeOK
<1>12. CASE Delete(c)
  BY <1>12, <1>l, GoTyped, LocalFields DEF Delete, Well, TypeOK
<1>13. CASE Pop(c)
  BY <1>13, <1>l, GoTyped, LeaveTyped, LocalFields, NoFlowTyped DEF Pop, Well, TypeOK
<1>14. CASE Undo(c)
  BY <1>14, <1>l, RaiseTyped, LocalFields DEF Undo, Well, TypeOK
<1>15. CASE Install(c)
  <2> DEFINE l(b) ==
        [Locals EXCEPT !.op = "install", !.bundle = b, !.before = <<Listed, Existing>>,
           !.todo = [capabilities |-> [x \in Capabilities |-> IF x \in New(b) THEN b.capabilities[x] ELSE 0],
                     flows |-> {d \in b.flows : Matches(d) = {}}]]
  <2> PICK b \in Bundles : Enter(c, "install", l(b))
    BY <1>15 DEF Install
  <2>1. b \in Bundle
    BY CatalogAssumption DEF Bundle, Pins
  <2>2. [capabilities |-> [x \in Capabilities |-> IF x \in New(b) THEN b.capabilities[x] ELSE 0],
         flows |-> {d \in b.flows : Matches(d) = {}}] \in Bundle
    BY <2>1 DEF Bundle, Pins
  <2>3. <<Listed, Existing>> \in (SUBSET Capabilities) \X (SUBSET Tasks)
    BY DEF Listed, Existing
  <2>4. l(b) \in LocalsType
    BY <2>1, <2>2, <2>3, LocalsTyped DEF LocalsType
  <2> QED
    BY <1>15, <2>4, EnterTyped DEF Install, store, TypeOK
<1>16. CASE InstallCapability(c)
  <2> PICK x \in Todo(c) :
        /\ capabilities' = [capabilities EXCEPT ![x] = Manual(local[c].todo.capabilities[x])]
        /\ Go(c, "install", [local[c] EXCEPT !.todo.capabilities[x] = 0, !.madeCapabilities = @ \cup {x}])
    BY <1>16 DEF InstallCapability
  <2>1. x \in Capabilities /\ local[c].todo.capabilities[x] \in Fingerprints
    BY LocalFields DEF Todo, Pins
  <2>2. [local[c].todo EXCEPT !.capabilities[x] = 0] \in Bundle
    BY LocalFields DEF Bundle, Pins
  <2>3. [local[c] EXCEPT !.todo.capabilities[x] = 0, !.madeCapabilities = @ \cup {x}] \in LocalsType
    BY <1>l, <2>1, <2>2 DEF LocalsType
  <2> QED
    BY <1>16, <2>1, <2>3, GoTyped DEF InstallCapability, Well, Manual, TypeOK
<1>17. CASE InstallFlow(c)
  <2> PICK d \in local[c].todo.flows :
        Go(c, "create", [local[c] EXCEPT !.flow = Pinned(d), !.todo.flows = @ \ {d}])
    BY <1>17 DEF InstallFlow
  <2>1. [local[c].todo EXCEPT !.flows = @ \ {d}] \in Bundle
    BY LocalFields DEF Bundle
  <2>2. Pinned(d) \in Flow
    BY LocalFields, PinnedTyped
  <2>3. [local[c] EXCEPT !.flow = Pinned(d), !.todo.flows = @ \ {d}] \in LocalsType
    BY <1>l, <2>1, <2>2 DEF LocalsType
  <2> QED
    BY <1>17, <2>3, GoTyped DEF InstallFlow, Well, store, TypeOK
<1>18. CASE Installed(c)
  BY <1>18, <1>l, GoTyped DEF Installed, Well, store, TypeOK
<1>19. CASE RollbackFlow(c)
  <2> PICK t \in local[c].madeTasks :
        Go(c, "delete", [local[c] EXCEPT !.task = t, !.madeTasks = @ \ {t}])
    BY <1>19 DEF RollbackFlow
  <2>1. [local[c] EXCEPT !.task = t, !.madeTasks = @ \ {t}] \in LocalsType
    BY <1>l DEF LocalsType
  <2> QED
    BY <1>19, <2>1, GoTyped DEF RollbackFlow, Well, store, TypeOK
<1>20. CASE RollbackCapability(c)
  <2> DEFINE l(x, e) == [local[c] EXCEPT !.madeCapabilities = @ \ {x}, !.errors = @ \/ e]
  <2> PICK x \in local[c].madeCapabilities :
        /\ capabilities' = IF References(x) = {} THEN [capabilities EXCEPT ![x] = Unlisted] ELSE capabilities
        /\ Go(c, "rollback", l(x, ~(References(x) = {})))
    BY <1>20 DEF RollbackCapability
  <2>1. l(x, ~(References(x) = {})) \in LocalsType
    BY <1>l DEF LocalsType
  <2> QED
    BY <1>20, <2>1, GoTyped, LocalFields DEF RollbackCapability, Well, Unlisted, TypeOK
<1>21. CASE RolledBack(c)
  BY <1>21, <1>l, GoTyped DEF RolledBack, Well, store, TypeOK
<1>22. CASE InstallReturns(c)
  BY <1>22, LeaveTyped DEF InstallReturns, Well, store, TypeOK
<1> QED
  BY <1>1, <1>2, <1>3, <1>4, <1>5, <1>6, <1>7, <1>8, <1>9, <1>10, <1>11, <1>12, <1>13, <1>14, <1>15,
     <1>16, <1>17, <1>18, <1>19, <1>20, <1>21, <1>22 DEF Request

\* each access that raises,
LEMMA FailsTyped ==
  ASSUME TypeOK, NEW c \in Clients, Fails(c)
  PROVE  TypeOK'
<1>l. local[c] \in LocalsType
  BY LocalFields
<1>u. faults < MaxFaults /\ faults' = faults + 1 /\ UNCHANGED store
  BY Zenon DEF Fails
<1>f. faults' \in 0 .. MaxFaults /\ UNCHANGED store
  BY <1>u, CatalogAssumption DEF TypeOK
<1>m. [local[c] EXCEPT !.missed = TRUE] \in LocalsType
  BY <1>l DEF LocalsType
<1>e. [local[c] EXCEPT !.errors = TRUE] \in LocalsType
  BY <1>l DEF LocalsType
<1> SUFFICES /\ at' \in [Clients -> Steps] /\ local' \in [Clients -> LocalsType]
             /\ owner' \in Clients \cup {NoClient} /\ starting' \subseteq Samples
             /\ torn' \in BOOLEAN
  BY <1>f DEF TypeOK, store, Steps
<1>t. torn \in BOOLEAN
  BY DEF TypeOK
<1>1. CASE (at[c] \in {"create", "update", "remove"} \/ at[c] = "install") /\ Raise(c, local[c]) /\ UNCHANGED torn
  BY <1>1, <1>l, <1>t, RaiseTyped
<1>2. CASE Go(c, "undo", local[c]) /\ UNCHANGED torn
  BY <1>2, <1>l, <1>t, GoTyped DEF Steps
<1>3. CASE Leave(c) /\ torn' = TRUE
  BY <1>3, LeaveTyped
<1>4. CASE Raise(c, [local[c] EXCEPT !.missed = TRUE]) /\ torn' \in {torn, TRUE}
  BY <1>4, <1>m, <1>t, RaiseTyped
<1>5. CASE Raise(c, [local[c] EXCEPT !.errors = TRUE]) /\ torn' = (torn \/ at[c] = "pop")
  BY <1>5, <1>e, RaiseTyped
<1>6. CASE /\ \E x \in local[c].madeCapabilities :
                Go(c, "rollback", [local[c] EXCEPT !.madeCapabilities = @ \ {x}, !.errors = TRUE])
           /\ UNCHANGED torn
  <2> PICK x \in local[c].madeCapabilities :
        Go(c, "rollback", [local[c] EXCEPT !.madeCapabilities = @ \ {x}, !.errors = TRUE])
    BY <1>6
  <2>1. [local[c] EXCEPT !.madeCapabilities = @ \ {x}, !.errors = TRUE] \in LocalsType
    BY <1>l DEF LocalsType
  <2> QED
    BY <1>6, <1>t, <2>1, GoTyped DEF Steps
<1> QED
  BY <1>1, <1>2, <1>3, <1>4, <1>5, <1>6 DEF Fails

\* and what happens outside of requests.
LEMMA OthersTyped ==
  ASSUME TypeOK, SaveCapability \/ CreateTask \/ Crash \/ InstallSample
  PROVE  TypeOK'
<1>1. CASE SaveCapability
  BY <1>1 DEF SaveCapability, Manual, TypeOK
<1>2. CASE CreateTask
  BY <1>2 DEF CreateTask, TypeOK
<1>3. CASE Crash
  BY <1>3, LocalsTyped DEF Crash, store, TypeOK
<1>4. CASE InstallSample
  BY <1>4, CatalogAssumption DEF InstallSample, TypeOK
<1> QED
  BY <1>1, <1>2, <1>3, <1>4

\* A first start.
LEMMA InitTyped == Init => TypeOK
<1> SUFFICES ASSUME Init PROVE TypeOK
  OBVIOUS
<1>1. Canonical \in Tasks /\ 0 \in 0 .. MaxFaults
  BY CatalogAssumption
<1>2. capabilities \in [Capabilities -> {Unlisted}] /\ tasks \in [Tasks -> {"none", "own"}]
  BY DEF Init
<1> QED
  BY <1>1, <1>2, LocalsTyped, NoFlowTyped DEF Init, TypeOK

\* Any step keeps the types.
LEMMA NextTyped == TypeOK /\ [Next]_vars => TypeOK'
<1> SUFFICES ASSUME TypeOK, [Next]_vars PROVE TypeOK'
  OBVIOUS
<1>1. CASE UNCHANGED vars
  BY <1>1 DEF vars, store, TypeOK
<1>2. CASE Next
  BY <1>2, RequestTyped, FailsTyped, OthersTyped DEF Next
<1> QED
  BY <1>1, <1>2

\* The type invariant.
THEOREM CatalogTyped == Spec => []TypeOK
  BY InitTyped, NextTyped, PTL DEF Spec

-----------------------------------------------------------------------------
(* The inductive invariant: what the lock gives.                           *)

\* At most one client is inside a request, and it holds mutation_lock;
LEMMA Holder ==
  ASSUME Clean, NEW c \in Clients, Busy(c)
  PROVE  owner = c /\ Up /\ \A k \in Clients : Busy(k) => k = c
  BY DEF Clean, Good

\* while nobody holds it, or a start is under way, there is none.
LEMMA Quiet ==
  ASSUME Clean, owner = NoClient \/ ~Up
  PROVE  \A k \in Clients : ~Busy(k)
  BY CatalogAssumption DEF Clean, Good

\* So a step of the client inside is a step of that client alone: what the others know is idle.
LEMMA Together ==
  ASSUME Clean, NEW c \in Clients, Busy(c) \/ owner = NoClient,
         \A k \in Clients \ {c} : at'[k] = at[k] /\ local'[k] = local[k],
         Good(c)', at'[c] # "probe", AllResolve', Known', Agree'
  PROVE  Clean'
<1>1. ASSUME NEW k \in Clients \ {c} PROVE Good(k)'
  <2>1. ~Busy(k)
    BY Holder, Quiet
  <2> QED
    BY <2>1, <1>1 DEF Busy, Good
<1> QED
  BY <1>1 DEF Clean, Probing

\* A task that the client inside is not between the two files of agrees with its Flow.
LEMMA OthersSettled ==
  ASSUME Clean, ~torn, NEW c \in Clients, Busy(c) \/ owner = NoClient,
         NEW t \in Tasks, ~(at[c] \in {"put", "undo", "pop"} /\ local[c].task = t)
  PROVE  Settled(t)
<1>1. ASSUME NEW k \in Clients, at[k] \in {"put", "undo", "pop"} PROVE k = c
  BY <1>1, Holder, Quiet DEF Busy
<1> QED
  BY <1>1 DEF Clean, Agree

\* A step that leaves the stores and its own task as they are.
LEMMA StoresKept ==
  ASSUME Clean, UNCHANGED store, torn' \in {torn, TRUE},
         NEW c \in Clients, Busy(c) \/ owner = NoClient,
         ~torn' /\ at[c] \in {"put", "undo", "pop"} =>
           Settled(local[c].task) \/ (at'[c] \in {"put", "undo", "pop"} /\ local'[c].task = local[c].task)
  PROVE  AllResolve' /\ Known' /\ Agree'
<1>1. AllResolve' /\ Known'
  BY DEF Clean, AllResolve, Known, Resolves, store
<1>2. \A t \in Tasks : Settled(t)' = Settled(t)
  BY DEF Settled, HasFlow, store
<1>3. ASSUME ~torn', NEW t \in Tasks
      PROVE  Settled(t)' \/ \E k \in Clients : at'[k] \in {"put", "undo", "pop"} /\ local'[k].task = t
  <2>n. ~torn
    BY <1>3, Zenon
  <2>1. CASE at[c] \in {"put", "undo", "pop"} /\ local[c].task = t
    BY <1>2, <1>3, <2>1
  <2>2. CASE ~(at[c] \in {"put", "undo", "pop"} /\ local[c].task = t)
    <3>1. Settled(t)
      BY <2>n, <2>2, OthersSettled
    <3> QED
      BY <1>2, <3>1
  <2> QED
    BY <2>1, <2>2
<1> QED
  BY <1>1, <1>3 DEF Agree

\* A request that begins with something true about the stores keeps Clean.
LEMMA Entered ==
  ASSUME TypeOK, Clean, NEW c \in Clients, NEW to, NEW l, Enter(c, to, l), UNCHANGED store,
         to # "probe", Good(c)'
  PROVE  Clean'
<1>1. owner = NoClient /\ at[c] = "idle" /\ at'[c] = to /\ torn' = torn
  BY DEF Enter, TypeOK
<1>2. \A k \in Clients \ {c} : at'[k] = at[k] /\ local'[k] = local[k]
  BY DEF Enter, TypeOK
<1>3. AllResolve' /\ Known' /\ Agree'
  BY <1>1, StoresKept
<1> QED
  BY <1>1, <1>2, <1>3, Together

\* What the step of one client leaves to the others,
LEMMA GoFrame ==
  ASSUME TypeOK, NEW c \in Clients, NEW to, NEW l, Go(c, to, l)
  PROVE  /\ at'[c] = to /\ local'[c] = l /\ owner' = owner /\ starting' = starting
         /\ \A k \in Clients \ {c} : at'[k] = at[k] /\ local'[k] = local[k]
  BY DEF Go, TypeOK

\* and what a client knows that has left.
LEMMA LeaveFrame ==
  ASSUME TypeOK, NEW c \in Clients, Leave(c)
  PROVE  /\ at'[c] = "idle" /\ local'[c] = Locals /\ starting' = starting /\ Good(c)'
         /\ \A k \in Clients \ {c} : at'[k] = at[k] /\ local'[k] = local[k]
<1>1. at'[c] = "idle" /\ local'[c] = Locals /\ starting' = starting
  BY DEF Leave, TypeOK
<1>2. \A k \in Clients \ {c} : at'[k] = at[k] /\ local'[k] = local[k]
  BY DEF Leave, TypeOK
<1> QED
  BY <1>1, <1>2 DEF Good, Busy

\* Pins that are taken from the catalog resolve.
LEMMA PinnedResolves ==
  ASSUME TypeOK, NEW d \in Draft
  PROVE  Resolves(Pinned(d)) /\ Pinned(d).id \in PortableIds
  BY DEF TypeOK, Pinned, Resolves, Unlisted, Draft

\* A task that exists has an id that was drawn.
LEMMA ExistingUsed == TypeOK /\ Known => Existing \subseteq used
  BY DEF TypeOK, Known, Existing

-----------------------------------------------------------------------------
(* Requests on Capabilities.                                               *)

\* delete_capability looks for references while nobody can add one,
LEMMA DeleteCapabilityClean ==
  ASSUME Inv, NEW c \in Clients, DeleteCapability(c) PROVE Clean'
<1> USE DEF Inv
<1> PICK x \in Listed : References(x) = {} /\ Enter(c, "remove", [Locals EXCEPT !.capability = x])
  BY DEF DeleteCapability
<1>1. at'[c] = "remove" /\ local'[c] = [Locals EXCEPT !.capability = x] /\ owner' = c /\ Up'
  BY DEF Enter, TypeOK, Up
<1>2. References(local[c].capability)' = {}
  BY <1>1 DEF DeleteCapability, store, References, Locals
<1>3. Good(c)'
  BY <1>1, <1>2 DEF Good, InFlight, Removal, Planning, Pending, Own, Locals
<1> QED
  BY <1>3, Entered DEF DeleteCapability

\* and so removes what no saved Flow names.
LEMMA RemoveClean ==
  ASSUME Inv, NEW c \in Clients, Remove(c) PROVE Clean'
<1> USE DEF Inv
<1>b. Busy(c) /\ Removal(c) /\ Leave(c)
  BY DEF Remove, Busy, Clean, Good
<1>1. \A t \in Tasks : flows[t].pins[local[c].capability] = 0
  BY <1>b DEF Remove, Removal, References
<1>2. AllResolve'
  BY <1>1, LocalFields DEF Remove, Clean, AllResolve, Resolves, TypeOK
<1>3. Known' /\ UNCHANGED torn
  BY DEF Remove, Clean, Known, Well
<1>4. \A t \in Tasks : Settled(t)' = Settled(t)
  BY DEF Remove, Settled, HasFlow
<1>5. Agree'
  BY <1>b, <1>3, <1>4, OthersSettled DEF Agree, Remove
<1> QED
  BY <1>b, <1>2, <1>3, <1>5, LeaveFrame, Together

\* A client that holds no lock, before and after.
LEMMA Aside ==
  ASSUME Inv, NEW c \in Clients, ~Busy(c), UNCHANGED <<store, torn, starting>>,
         owner' = owner \/ (owner = c /\ owner' = NoClient),
         at'[c] \in {"idle", "probe"}, at'[c] = "probe" => local'[c].op = "probe",
         \A k \in Clients \ {c} : at'[k] = at[k] /\ local'[k] = local[k]
  PROVE  Clean'
<1> USE DEF Inv
<1>1. ~Busy(c)'
  BY DEF Busy
<1>2. ASSUME NEW k \in Clients \ {c}, Busy(k) PROVE Good(k)'
  <2>1. Good(k) /\ owner = k /\ owner' = k /\ Up'
    BY <1>2 DEF Clean, Good, Up
  <2>2. at'[k] = at[k] /\ local'[k] = local[k]
    OBVIOUS
  <2>3. InFlight(k)' /\ Removal(k)'
    BY <1>2, <2>1, <2>2 DEF Good, InFlight, Resolves, Removal, References, store
  <2>4. Planning(k)' /\ Pending(k)' /\ Own(k)'
    BY <1>2, <2>1, <2>2 DEF Good, Planning, Todo, Listed, Pending, Own, store
  <2> QED
    BY <2>1, <2>3, <2>4 DEF Good
<1>3. ASSUME NEW k \in Clients PROVE Good(k)'
  BY <1>1, <1>2 DEF Good, Busy
<1>4. AllResolve' /\ Known' /\ Probing'
  BY DEF Clean, AllResolve, Resolves, Known, Probing, store
<1>5. Agree'
  <2>1. \A t \in Tasks : Settled(t)' = Settled(t)
    BY DEF Settled, HasFlow, store
  <2>2. \A k \in Clients : at[k] \in {"put", "undo", "pop"} => at'[k] = at[k] /\ local'[k] = local[k]
    BY DEF Busy
  <2> QED
    BY <2>1, <2>2 DEF Clean, Agree
<1> QED
  BY <1>3, <1>4, <1>5 DEF Clean

\* A probe holds no lock and writes nothing that another request reads.
LEMMA ProbeClean ==
  ASSUME Inv, NEW c \in Clients, Probe(c) \/ UpdateProbe(c) PROVE Clean'
<1> USE DEF Inv
<1>1. CASE Probe(c)
  <2> PICK x \in Listed :
        Go(c, "probe", [Locals EXCEPT !.op = "probe", !.capability = x, !.fingerprint = capabilities[x].fingerprint])
    BY <1>1 DEF Probe
  <2>0. /\ at'[c] = "probe" /\ owner' = owner /\ starting' = starting
        /\ local'[c] = [Locals EXCEPT !.op = "probe", !.capability = x, !.fingerprint = capabilities[x].fingerprint]
    BY GoFrame
  <2>1. at'[c] = "probe" /\ local'[c].op = "probe" /\ owner' = owner /\ starting' = starting
    BY <2>0 DEF Locals
  <2>2. \A k \in Clients \ {c} : at'[k] = at[k] /\ local'[k] = local[k]
    BY GoFrame
  <2> QED
    BY <1>1, <2>1, <2>2, Aside DEF Probe, Busy, Well
<1>2. CASE UpdateProbe(c)
  <2>1. at[c] = "probe" /\ Leave(c) /\ UNCHANGED <<store, torn>>
    BY <1>2 DEF UpdateProbe, Well
  <2>2. owner' = owner \/ (owner = c /\ owner' = NoClient)
    BY <2>1 DEF Leave
  <2> QED
    BY <2>1, <2>2, LeaveFrame, Aside DEF Busy
<1> QED
  BY <1>1, <1>2

-----------------------------------------------------------------------------
(* Requests on Flows.                                                      *)

\* What a save, an update and a deletion know when they begin.
LEMMA FlowEntryClean ==
  ASSUME Inv, NEW c \in Clients, SaveFlow(c) \/ UpdateFlow(c) \/ DeleteFlow(c) PROVE Clean'
<1> USE DEF Inv
<1>u. Existing \subseteq used
  BY ExistingUsed DEF Clean
<1>1. CASE SaveFlow(c)
  <2> PICK d \in Drafts : Enter(c, "create", [Locals EXCEPT !.op = "save", !.flow = Pinned(d)])
    BY <1>1 DEF SaveFlow
  <2>1. /\ at'[c] = "create" /\ local'[c].op = "save" /\ local'[c].flow = Pinned(d)
        /\ owner' = c /\ Up' /\ UNCHANGED store
    BY <1>1 DEF SaveFlow, Enter, TypeOK, Up, Locals
  <2>2. Resolves(Pinned(d)) /\ Pinned(d).id \in PortableIds
    BY PinnedResolves, CatalogAssumption
  <2>3. InFlight(c)'
    BY <2>1, <2>2 DEF InFlight, Resolves, store
  <2>4. Good(c)'
    BY <2>1, <2>3 DEF Good, Removal, Planning, Pending, Own
  <2> QED
    BY <2>1, <2>4, Entered
<1>2. CASE UpdateFlow(c)
  <2> PICK d \in Drafts, t \in Existing :
        Enter(c, "update", [Locals EXCEPT !.op = "update", !.task = t, !.flow = Pinned(d)])
    BY <1>2 DEF UpdateFlow
  <2>1. /\ at'[c] = "update" /\ local'[c].op = "update" /\ local'[c].flow = Pinned(d) /\ local'[c].task = t
        /\ owner' = c /\ Up' /\ UNCHANGED store
    BY <1>2 DEF UpdateFlow, Enter, TypeOK, Up, Locals
  <2>2. Resolves(Pinned(d)) /\ Pinned(d).id \in PortableIds
    BY PinnedResolves, CatalogAssumption
  <2>3. InFlight(c)'
    BY <2>1, <2>2 DEF InFlight, Resolves, store
  <2>4. Pending(c)'
    BY <1>u, <2>1 DEF Pending, store
  <2>5. Good(c)'
    BY <2>1, <2>3, <2>4 DEF Good, Removal, Planning, Own
  <2> QED
    BY <2>1, <2>5, Entered
<1>3. CASE DeleteFlow(c)
  <2> PICK t \in Existing : Enter(c, "delete", [Locals EXCEPT !.op = "delete", !.task = t])
    BY <1>3 DEF DeleteFlow
  <2>1. /\ at'[c] = "delete" /\ local'[c].op = "delete" /\ local'[c].task = t
        /\ owner' = c /\ Up' /\ UNCHANGED store
    BY <1>3 DEF DeleteFlow, Enter, TypeOK, Up, Locals
  <2>2. Pending(c)'
    BY <1>u, <2>1 DEF Pending, store
  <2>3. Good(c)'
    BY <2>1, <2>2 DEF Good, InFlight, Removal, Planning, Own
  <2> QED
    BY <2>1, <2>3, Entered
<1> QED
  BY <1>1, <1>2, <1>3

\* The task of a new Flow gets an id that nobody had,
LEMMA CreateClean ==
  ASSUME Inv, NEW c \in Clients, Create(c) PROVE Clean'
<1> USE DEF Inv
<1> PICK t \in Tasks \ used :
      /\ tasks' = [tasks EXCEPT ![t] = local[c].flow.id]
      /\ used' = used \cup {t}
      /\ Go(c, "put", [local[c] EXCEPT !.task = t])
  BY DEF Create
<1>b. Busy(c) /\ Good(c) /\ at[c] = "create" /\ UNCHANGED <<capabilities, flows, torn>>
  BY DEF Create, Busy, Clean, Well
<1>g. /\ owner' = c /\ Up' /\ at'[c] = "put" /\ local'[c] = [local[c] EXCEPT !.task = t]
      /\ \A k \in Clients \ {c} : at'[k] = at[k] /\ local'[k] = local[k]
  BY <1>b, GoFrame DEF Good, Up
<1>l. /\ local'[c].task = t
      /\ \A f \in {"op", "flow", "todo", "before", "madeTasks"} : local'[c][f] = local[c][f]
  BY <1>g, LocalFields DEF LocalsType
<1>1. InFlight(c)'
  BY <1>b, <1>g, <1>l DEF Good, InFlight, Resolves
<1>2. Planning(c)'
  BY <1>b, <1>g, <1>l DEF Good, Planning, Todo, Listed
<1>3. flows[t] = NoFlow
  BY DEF Clean, Known
<1>4. Pending(c)'
  BY <1>3, <1>b, <1>g, <1>l DEF Pending, TypeOK
<1>5. Own(c)'
  BY <1>b, <1>g, <1>l DEF Good, Own
<1>6. Good(c)'
  BY <1>1, <1>2, <1>4, <1>5, <1>g DEF Good, Removal
<1>7. AllResolve' /\ Known'
  BY <1>b DEF Clean, AllResolve, Resolves, Known, TypeOK
<1>8. Agree'
  <2>1. ASSUME NEW u \in Tasks \ {t} PROVE Settled(u)' = Settled(u)
    BY <1>b DEF Settled, HasFlow, TypeOK
  <2>2. ASSUME ~torn, NEW u \in Tasks PROVE Settled(u)
    BY <1>b, <2>2, OthersSettled
  <2> QED
    BY <2>1, <2>2, <1>b, <1>g, <1>l DEF Agree
<1> QED
  BY <1>b, <1>g, <1>6, <1>7, <1>8, Together

\* an update writes the name of the task first,
LEMMA UpdateClean ==
  ASSUME Inv, NEW c \in Clients, Update(c) PROVE Clean'
<1> USE DEF Inv
<1> PICK t \in Tasks : local[c].task = t
  BY LocalFields
<1>b. Busy(c) /\ Good(c) /\ at[c] = "update" /\ UNCHANGED <<capabilities, flows, used, torn>>
  BY DEF Update, Busy, Clean, Well
<1>g. /\ owner' = c /\ Up' /\ at'[c] = "put" /\ local'[c] = local[c]
      /\ \A k \in Clients \ {c} : at'[k] = at[k] /\ local'[k] = local[k]
  BY <1>b, GoFrame DEF Update, Good, Up
<1>t. t \in Tasks /\ tasks' = [tasks EXCEPT ![t] = local[c].flow.id] /\ t \in used /\ local[c].op = "update"
  BY <1>b, LocalFields DEF Update, Good, Pending
<1>1. InFlight(c)'
  BY <1>b, <1>g DEF Good, InFlight, Resolves
<1>2. Pending(c)'
  BY <1>t, <1>b, <1>g DEF Pending, TypeOK
<1>3. Good(c)'
  BY <1>1, <1>2, <1>g, <1>t DEF Good, Removal, Planning, Own
<1>4. AllResolve' /\ Known'
  BY <1>b, <1>t DEF Clean, AllResolve, Resolves, Known, TypeOK
<1>5. Agree'
  <2>1. ASSUME NEW u \in Tasks \ {t} PROVE Settled(u)' = Settled(u)
    BY <1>b, <1>t DEF Settled, HasFlow, TypeOK
  <2>2. ASSUME ~torn, NEW u \in Tasks PROVE Settled(u)
    BY <1>b, <2>2, OthersSettled
  <2> QED
    BY <2>1, <2>2, <1>b, <1>g DEF Agree
<1> QED
  BY <1>b, <1>g, <1>3, <1>4, <1>5, Together

\* and then the Flow, which still resolves: nobody else could write in between.
LEMMA PutOverrideClean ==
  ASSUME Inv, NEW c \in Clients, PutOverride(c) PROVE Clean'
<1> USE DEF Inv
<1> PICK t \in Tasks : local[c].task = t
  BY LocalFields
<1>b. Busy(c) /\ Good(c) /\ at[c] = "put" /\ UNCHANGED <<capabilities, tasks, used, torn>>
  BY DEF PutOverride, Busy, Clean, Well
<1>g. /\ owner' = c /\ Up' /\ at'[c] = "get" /\ local'[c] = local[c]
      /\ \A k \in Clients \ {c} : at'[k] = at[k] /\ local'[k] = local[k]
  BY <1>b, GoFrame DEF PutOverride, Good, Up
<1>t. /\ t \in Tasks /\ flows' = [flows EXCEPT ![t] = local[c].flow] /\ t \in used
      /\ tasks[t] = local[c].flow.id /\ local[c].flow.id \in PortableIds /\ Resolves(local[c].flow)
  BY <1>b, LocalFields DEF PutOverride, Good, Pending, InFlight
<1>1. Planning(c)' /\ Own(c)'
  BY <1>b, <1>g DEF Good, Planning, Todo, Listed, Own
<1>2. Good(c)'
  BY <1>1, <1>g DEF Good, InFlight, Removal, Pending
<1>3. AllResolve' /\ Known'
  BY <1>b, <1>t DEF Clean, AllResolve, Resolves, Known, TypeOK
<1>4. Agree'
  <2>1. ASSUME NEW u \in Tasks \ {t} PROVE Settled(u)' = Settled(u)
    BY <1>b, <1>t DEF Settled, HasFlow, TypeOK
  <2>2. ASSUME ~torn, NEW u \in Tasks \ {t} PROVE Settled(u)
    BY <1>b, <2>2, OthersSettled
  <2>3. local[c].flow # NoFlow
    BY <1>t, CatalogAssumption DEF NoFlow
  <2>4. flows'[t] = local[c].flow /\ tasks'[t] = local[c].flow.id
    BY <1>t, <1>b DEF TypeOK
  <2>5. Settled(t)'
    BY <2>3, <2>4 DEF Settled, HasFlow
  <2>6. ASSUME ~torn, NEW u \in Tasks PROVE Settled(u)'
    BY <2>1, <2>2, <2>5, <2>6
  <2> QED
    BY <2>6, <1>b DEF Agree
<1> QED
  BY <1>b, <1>g, <1>2, <1>3, <1>4, Together

\* A step of the holder that leaves the stores alone and goes on, or ends.
LEMMA WentOn ==
  ASSUME Inv, NEW c \in Clients, Busy(c), UNCHANGED store, torn' \in {torn, TRUE},
         NEW to \in Steps \ {"probe"}, NEW l, Go(c, to, l),
         at[c] \in {"put", "undo", "pop"} => torn' = TRUE \/ (at[c] = "put" /\ to = "undo" /\ l.task = local[c].task),
         Good(c)'
  PROVE  Clean'
<1>0. TypeOK /\ Clean
  BY DEF Inv
<1>f. at'[c] = to /\ local'[c] = l
  BY <1>0, GoFrame
<1>1. AllResolve' /\ Known' /\ Agree'
  <2>1. ~torn' /\ at[c] \in {"put", "undo", "pop"} => at'[c] \in {"put", "undo", "pop"} /\ local'[c].task = local[c].task
    BY <1>f
  <2> QED BY <1>0, <2>1, StoresKept
<1> QED
  BY <1>0, <1>1, GoFrame, Together DEF Inv

\* A request that ends has left its task settled or the stores torn.
LEMMA Ended ==
  ASSUME Inv, NEW c \in Clients, Busy(c), UNCHANGED store, torn' \in {torn, TRUE}, Leave(c),
         at[c] \in {"put", "undo", "pop"} => torn' = TRUE
  PROVE  Clean'
<1> USE DEF Inv
<1>1. AllResolve' /\ Known' /\ Agree'
  BY StoresKept
<1> QED
  BY <1>1, LeaveFrame, Together

\* Reading back what was saved.
LEMMA GetSavedClean ==
  ASSUME Inv, NEW c \in Clients, GetSaved(c) PROVE Clean'
<1> USE DEF Inv
<1>b. Busy(c) /\ Good(c) /\ at[c] = "get" /\ UNCHANGED <<store, torn>>
  BY DEF GetSaved, Busy, Clean, Well
<1>1. CASE local[c].op = "install"
  <2> DEFINE l == [local[c] EXCEPT !.madeTasks = @ \cup {local[c].task}]
  <2>1. Go(c, "install", l)
    BY <1>1 DEF GetSaved
  <2>2. /\ owner' = c /\ Up' /\ at'[c] = "install" /\ local'[c] = l
    BY <2>1, <1>b, GoFrame DEF Good, Up
  <2>3. /\ local'[c].madeTasks = local[c].madeTasks \cup {local[c].task}
        /\ local'[c].op = local[c].op /\ local'[c].todo = local[c].todo /\ local'[c].before = local[c].before
    BY <2>2, LocalFields DEF LocalsType
  <2>4. Planning(c)'
    BY <1>1, <1>b, <2>2, <2>3 DEF Good, Planning, Todo, Listed, store
  <2>5. Own(c)'
    BY <1>1, <1>b, <2>2, <2>3 DEF Good, Own, store
  <2>6. Good(c)'
    BY <2>2, <2>4, <2>5 DEF Good, InFlight, Removal, Pending
  <2> QED
    BY <1>b, <2>1, <2>6, WentOn DEF Steps
<1>2. CASE local[c].op # "install"
  BY <1>2, <1>b, Ended DEF GetSaved
<1> QED
  BY <1>1, <1>2

\* A deletion takes the task first,
LEMMA DeleteClean ==
  ASSUME Inv, NEW c \in Clients, Delete(c) PROVE Clean'
<1> USE DEF Inv
<1> PICK t \in Tasks : local[c].task = t
  BY LocalFields
<1>b. Busy(c) /\ Good(c) /\ at[c] = "delete" /\ UNCHANGED <<capabilities, flows, used, torn>>
  BY DEF Delete, Busy, Clean, Well
<1>g. /\ owner' = c /\ Up' /\ at'[c] = "pop" /\ local'[c] = local[c]
      /\ \A k \in Clients \ {c} : at'[k] = at[k] /\ local'[k] = local[k]
  BY <1>b, GoFrame DEF Delete, Good, Up
<1>t. tasks' = [tasks EXCEPT ![t] = "none"] /\ t \in used
  BY <1>b DEF Delete, Good, Pending
<1>1. Pending(c)'
  BY <1>t, <1>b, <1>g DEF Pending, TypeOK
<1>2. Own(c)'
  BY <1>b, <1>g DEF Good, Own
<1>3. Good(c)'
  BY <1>1, <1>2, <1>g DEF Good, InFlight, Removal, Planning
<1>4. AllResolve' /\ Known'
  BY <1>b, <1>t DEF Clean, AllResolve, Resolves, Known, TypeOK
<1>5. Agree'
  <2>1. ASSUME NEW u \in Tasks \ {t} PROVE Settled(u)' = Settled(u)
    BY <1>b, <1>t DEF Settled, HasFlow, TypeOK
  <2>2. ASSUME ~torn, NEW u \in Tasks PROVE Settled(u)
    BY <1>b, <2>2, OthersSettled
  <2> QED
    BY <2>1, <2>2, <1>b, <1>g DEF Agree
<1> QED
  BY <1>b, <1>g, <1>3, <1>4, <1>5, Together

\* What remains of an installation that takes back what it made.
LEMMA RollingBack ==
  ASSUME Inv, NEW c \in Clients, Busy(c), used' = used, NEW l \in LocalsType, Go(c, "rollback", l),
         local[c].op = "install", l.op = "install", l.before = local[c].before, l.madeTasks = local[c].madeTasks
  PROVE  Good(c)'
<1> USE DEF Inv
<1>1. Good(c) /\ owner' = c /\ Up' /\ at'[c] = "rollback" /\ local'[c] = l
  BY GoFrame DEF Clean, Good, Up
<1>2. Own(c)'
  BY <1>1 DEF Good, Own
<1> QED
  BY <1>1, <1>2 DEF Good, InFlight, Removal, Planning, Pending

\* and then the Flow.
LEMMA PopClean ==
  ASSUME Inv, NEW c \in Clients, Pop(c) PROVE Clean'
<1> USE DEF Inv
<1> PICK t \in Tasks : local[c].task = t
  BY LocalFields
<1>b. Busy(c) /\ Good(c) /\ at[c] = "pop" /\ UNCHANGED <<capabilities, tasks, used, torn>>
  BY DEF Pop, Busy, Clean, Well
<1>t. flows' = [flows EXCEPT ![t] = NoFlow] /\ t \in used /\ tasks[t] = "none"
  BY <1>b DEF Pop, Good, Pending
<1>1. AllResolve' /\ Known'
  <2>1. \A x \in Capabilities : NoFlow.pins[x] = 0
    BY DEF NoFlow, NoPins
  <2> QED
    BY <1>b, <1>t, <2>1 DEF Clean, AllResolve, Resolves, Known, TypeOK
<1>2. Agree'
  <2>1. ASSUME NEW u \in Tasks \ {t} PROVE Settled(u)' = Settled(u)
    BY <1>b, <1>t DEF Settled, HasFlow, TypeOK
  <2>2. ASSUME ~torn, NEW u \in Tasks \ {t} PROVE Settled(u)
    BY <1>b, <2>2, OthersSettled
  <2>3. flows'[t] = NoFlow /\ tasks'[t] = "none" /\ "none" \notin PortableIds
    BY <1>t, <1>b, CatalogAssumption DEF TypeOK
  <2>4. Settled(t)'
    BY <2>3 DEF Settled, HasFlow
  <2>5. ASSUME ~torn, NEW u \in Tasks PROVE Settled(u)'
    BY <2>1, <2>2, <2>4, <2>5
  <2> QED
    BY <2>5, <1>b DEF Agree
<1>3. CASE local[c].op = "install"
  <2>1. Go(c, "rollback", local[c])
    BY <1>3 DEF Pop
  <2>2. Good(c)'
    BY <1>3, <1>b, <2>1, RollingBack, LocalFields
  <2> QED
    BY <1>1, <1>2, <1>b, <2>1, <2>2, GoFrame, Together
<1>4. CASE local[c].op # "install"
  BY <1>1, <1>2, <1>4, <1>b, LeaveFrame, Together DEF Pop
<1> QED
  BY <1>3, <1>4

\* save takes its task back when the Flow could not be put.
LEMMA UndoClean ==
  ASSUME Inv, NEW c \in Clients, Undo(c) PROVE Clean'
<1> USE DEF Inv
<1> PICK t \in Tasks : local[c].task = t
  BY LocalFields
<1>b. Busy(c) /\ Good(c) /\ at[c] = "undo" /\ UNCHANGED <<capabilities, flows, used, torn>> /\ Raise(c, local[c])
  BY DEF Undo, Busy, Clean, Well
<1>t. tasks' = [tasks EXCEPT ![t] = "none"] /\ t \in used /\ flows[t] = NoFlow
  BY <1>b DEF Undo, Good, Pending
<1>1. AllResolve' /\ Known'
  BY <1>b, <1>t DEF Clean, AllResolve, Resolves, Known, TypeOK
<1>2. Agree'
  <2>1. ASSUME NEW u \in Tasks \ {t} PROVE Settled(u)' = Settled(u)
    BY <1>b, <1>t DEF Settled, HasFlow, TypeOK
  <2>2. ASSUME ~torn, NEW u \in Tasks \ {t} PROVE Settled(u)
    BY <1>b, <2>2, OthersSettled
  <2>3. flows'[t] = NoFlow /\ tasks'[t] = "none" /\ "none" \notin PortableIds
    BY <1>t, <1>b, CatalogAssumption DEF TypeOK
  <2>4. Settled(t)'
    BY <2>3 DEF Settled, HasFlow
  <2>5. ASSUME ~torn, NEW u \in Tasks PROVE Settled(u)'
    BY <2>1, <2>2, <2>4, <2>5
  <2> QED
    BY <2>5, <1>b DEF Agree
<1>3. CASE local[c].op = "install"
  <2>1. Go(c, "rollback", local[c])
    BY <1>b, <1>3 DEF Raise
  <2>2. Good(c)'
    BY <1>3, <1>b, <2>1, RollingBack, LocalFields
  <2> QED
    BY <1>1, <1>2, <1>b, <2>1, <2>2, GoFrame, Together
<1>4. CASE local[c].op # "install"
  BY <1>1, <1>2, <1>4, <1>b, LeaveFrame, Together DEF Raise
<1> QED
  BY <1>3, <1>4

-----------------------------------------------------------------------------
(* The installation.                                                       *)

\* An installation begins with a plan that fits the stores,
LEMMA InstallClean ==
  ASSUME Inv, NEW c \in Clients, Install(c) PROVE Clean'
<1> USE DEF Inv
<1> DEFINE todo(b) == [capabilities |-> [x \in Capabilities |-> IF x \in New(b) THEN b.capabilities[x] ELSE 0],
                       flows |-> {d \in b.flows : Matches(d) = {}}]
           l(b) == [Locals EXCEPT !.op = "install", !.bundle = b, !.before = <<Listed, Existing>>, !.todo = todo(b)]
<1> PICK b \in Bundles : Enter(c, "install", l(b))
  BY DEF Install
<1>1. at'[c] = "install" /\ local'[c] = l(b) /\ owner' = c /\ Up' /\ UNCHANGED store
  BY DEF Install, Enter, TypeOK, Up
<1>2. /\ l(b).op = "install" /\ l(b).before[2] = Existing /\ l(b).madeTasks = {}
      /\ l(b).todo.capabilities = [x \in Capabilities |-> IF x \in New(b) THEN b.capabilities[x] ELSE 0]
  BY DEF Locals
<1>3. \A x \in Capabilities : l(b).todo.capabilities[x] # 0 => x \notin Listed
  BY <1>2 DEF New
<1>4. Planning(c)'
  BY <1>1, <1>3 DEF Planning, Todo, Listed, store
<1>5. Own(c)'
  BY <1>1, <1>2, ExistingUsed DEF Clean, Own, store
<1>6. Good(c)'
  BY <1>1, <1>4, <1>5 DEF Good, InFlight, Removal, Pending
<1> QED
  BY <1>1, <1>6, Entered

\* writes a Capability that was not there,
LEMMA InstallCapabilityClean ==
  ASSUME Inv, NEW c \in Clients, InstallCapability(c) PROVE Clean'
<1> USE DEF Inv
<1> DEFINE l(x) == [local[c] EXCEPT !.todo.capabilities[x] = 0, !.madeCapabilities = @ \cup {x}]
<1> PICK x \in Todo(c) :
      /\ capabilities' = [capabilities EXCEPT ![x] = Manual(local[c].todo.capabilities[x])]
      /\ Go(c, "install", l(x))
  BY DEF InstallCapability
<1>b. Busy(c) /\ Good(c) /\ at[c] = "install" /\ UNCHANGED <<tasks, flows, used, torn>>
  BY DEF InstallCapability, Busy, Clean, Well
<1>g. /\ owner' = c /\ Up' /\ at'[c] = "install" /\ local'[c] = l(x)
      /\ \A k \in Clients \ {c} : at'[k] = at[k] /\ local'[k] = local[k]
  BY <1>b, GoFrame DEF Good, Up
<1>x. x \in Capabilities /\ x \notin Listed
  BY <1>b DEF Good, Planning, Todo
<1>l. /\ l(x).op = local[c].op /\ l(x).before = local[c].before /\ l(x).madeTasks = local[c].madeTasks
      /\ l(x).todo.capabilities = [local[c].todo.capabilities EXCEPT ![x] = 0]
  BY LocalFields DEF LocalsType, Bundle
<1>1. Planning(c)'
  <2>1. Todo(c)' = Todo(c) \ {x}
    BY <1>g, <1>l, <1>x, LocalFields DEF Todo, Pins
  <2>2. Listed' \subseteq Listed \cup {x}
    BY <1>x DEF Listed, TypeOK
  <2> QED
    BY <2>1, <2>2, <1>b DEF Good, Planning
<1>2. Own(c)'
  BY <1>b, <1>g, <1>l DEF Good, Own
<1>3. Good(c)'
  BY <1>1, <1>2, <1>g DEF Good, InFlight, Removal, Pending
<1>4. AllResolve' /\ Known'
  BY <1>b, <1>x DEF Clean, AllResolve, Resolves, Known, Listed, TypeOK
<1>5. Agree'
  <2>1. ASSUME NEW u \in Tasks PROVE Settled(u)' = Settled(u)
    BY <1>b DEF Settled, HasFlow
  <2>2. ASSUME ~torn, NEW u \in Tasks PROVE Settled(u)
    BY <1>b, <2>2, OthersSettled
  <2> QED
    BY <2>1, <2>2, <1>b DEF Agree
<1> QED
  BY <1>b, <1>g, <1>3, <1>4, <1>5, Together

\* saves a Flow whose Capabilities are all there by then,
LEMMA InstallFlowClean ==
  ASSUME Inv, NEW c \in Clients, InstallFlow(c) PROVE Clean'
<1> USE DEF Inv
<1> DEFINE l(d) == [local[c] EXCEPT !.flow = Pinned(d), !.todo.flows = @ \ {d}]
<1> PICK d \in local[c].todo.flows : Go(c, "create", l(d))
  BY DEF InstallFlow
<1>b. Busy(c) /\ Good(c) /\ at[c] = "install" /\ Todo(c) = {} /\ UNCHANGED <<store, torn>>
  BY DEF InstallFlow, Busy, Clean, Well
<1>g. owner' = c /\ Up' /\ at'[c] = "create" /\ local'[c] = l(d)
  BY <1>b, GoFrame DEF Good, Up
<1>l. /\ l(d).op = local[c].op /\ l(d).before = local[c].before /\ l(d).madeTasks = local[c].madeTasks
      /\ l(d).flow = Pinned(d) /\ l(d).todo.capabilities = local[c].todo.capabilities
  BY LocalFields DEF LocalsType, Bundle
<1>1. InFlight(c)'
  <2>1. Resolves(Pinned(d)) /\ Pinned(d).id \in PortableIds
    BY LocalFields, PinnedResolves
  <2> QED
    BY <1>b, <1>g, <1>l, <2>1 DEF InFlight, Resolves, store
<1>2. Planning(c)'
  BY <1>b, <1>g, <1>l DEF Planning, Todo
<1>3. Own(c)'
  BY <1>b, <1>g, <1>l DEF Good, Own, store
<1>4. Good(c)'
  BY <1>1, <1>2, <1>3, <1>g DEF Good, Removal, Pending
<1> QED
  BY <1>b, <1>4, WentOn DEF Steps

\* takes back a task that it has made,
LEMMA RollbackFlowClean ==
  ASSUME Inv, NEW c \in Clients, RollbackFlow(c) PROVE Clean'
<1> USE DEF Inv
<1> DEFINE l(t) == [local[c] EXCEPT !.task = t, !.madeTasks = @ \ {t}]
<1> PICK t \in local[c].madeTasks : Go(c, "delete", l(t))
  BY DEF RollbackFlow
<1>b. Busy(c) /\ Good(c) /\ at[c] = "rollback" /\ UNCHANGED <<store, torn>>
  BY DEF RollbackFlow, Busy, Clean, Well
<1>g. owner' = c /\ Up' /\ at'[c] = "delete" /\ local'[c] = l(t)
  BY <1>b, GoFrame DEF Good, Up
<1>l. /\ l(t).op = local[c].op /\ l(t).before = local[c].before /\ l(t).madeTasks = local[c].madeTasks \ {t}
      /\ l(t).task = t
  BY LocalFields DEF LocalsType
<1>o. local[c].op = "install"
  BY <1>b DEF Good, Pending
<1>1. Own(c)' /\ Pending(c)'
  BY <1>b, <1>o, <1>g, <1>l DEF Good, Own, Pending, store
<1>2. Good(c)'
  BY <1>1, <1>g DEF Good, InFlight, Removal, Planning
<1> QED
  BY <1>b, <1>2, WentOn DEF Steps

\* a Capability of its own that no Flow names,
LEMMA RollbackCapabilityClean ==
  ASSUME Inv, NEW c \in Clients, RollbackCapability(c) PROVE Clean'
<1> USE DEF Inv
<1> DEFINE l(x, e) == [local[c] EXCEPT !.madeCapabilities = @ \ {x}, !.errors = @ \/ e]
<1> PICK x \in local[c].madeCapabilities :
      /\ capabilities' = IF References(x) = {} THEN [capabilities EXCEPT ![x] = Unlisted] ELSE capabilities
      /\ Go(c, "rollback", l(x, ~(References(x) = {})))
  BY DEF RollbackCapability
<1>b. Busy(c) /\ Good(c) /\ at[c] = "rollback" /\ UNCHANGED <<tasks, flows, used, torn>>
  BY DEF RollbackCapability, Busy, Clean, Well
<1>l. /\ l(x, ~(References(x) = {})) \in LocalsType
      /\ l(x, ~(References(x) = {})).op = local[c].op
      /\ l(x, ~(References(x) = {})).before = local[c].before
      /\ l(x, ~(References(x) = {})).madeTasks = local[c].madeTasks
  <2>1. PICK e : e = (local[c].errors \/ ~(References(x) = {})) /\ e \in BOOLEAN
    OBVIOUS
  <2>2. PICK made : made = local[c].madeCapabilities \ {x}
    OBVIOUS
  <2>3. l(x, ~(References(x) = {})) = [local[c] EXCEPT !.madeCapabilities = made, !.errors = e]
    BY <2>1, <2>2, LocalFields DEF LocalsType
  <2>4. made \in SUBSET Capabilities /\ local[c] \in LocalsType
    BY <2>2, LocalFields
  <2> QED BY <2>1, <2>3, <2>4 DEF LocalsType
<1>1. Good(c)'
  <2>1. local[c].op = "install"
    BY <1>b DEF Good, Pending
  <2> QED
    BY <1>b, <1>l, <2>1, RollingBack
<1>2. AllResolve' /\ Known'
  BY <1>b, LocalFields DEF Clean, AllResolve, Resolves, Known, References, TypeOK
<1>3. Agree'
  <2>1. ASSUME NEW u \in Tasks PROVE Settled(u)' = Settled(u)
    BY <1>b DEF Settled, HasFlow
  <2>2. ASSUME ~torn, NEW u \in Tasks PROVE Settled(u)
    BY <1>b, <2>2, OthersSettled
  <2> QED
    BY <2>1, <2>2, <1>b DEF Agree
<1> QED
  BY <1>b, <1>1, <1>2, <1>3, GoFrame, Together

\* and ends.
LEMMA InstallEndsClean ==
  ASSUME Inv, NEW c \in Clients, Installed(c) \/ RolledBack(c) \/ InstallReturns(c) PROVE Clean'
<1> USE DEF Inv
<1>1. CASE Installed(c) \/ RolledBack(c)
  <2> PICK to \in {"receipt", "rolled_back"} : Go(c, to, local[c])
    BY <1>1 DEF Installed, RolledBack
  <2>1. Busy(c) /\ Good(c) /\ at[c] \in {"install", "rollback"} /\ UNCHANGED <<store, torn>>
    BY <1>1 DEF Installed, RolledBack, Busy, Clean, Well
  <2>2. owner' = c /\ Up' /\ at'[c] = to /\ local'[c] = local[c]
    BY <2>1, GoFrame DEF Good, Up
  <2>3. Own(c)'
    BY <2>1, <2>2 DEF Good, Own, store
  <2>4. Good(c)'
    BY <2>2, <2>3 DEF Good, InFlight, Removal, Planning, Pending
  <2> QED
    BY <2>1, <2>4, WentOn DEF Steps
<1>2. CASE InstallReturns(c)
  BY <1>2, Ended DEF InstallReturns, Busy, Well
<1> QED
  BY <1>1, <1>2

-----------------------------------------------------------------------------
(* Failures, and the steps that nobody holds the lock for.                 *)

\* An exception in a request whose own task is settled, or is given up.
LEMMA Raised ==
  ASSUME Inv, NEW c \in Clients, Busy(c), UNCHANGED store, torn' \in {torn, TRUE},
         NEW l \in LocalsType, Raise(c, l),
         l.op = local[c].op, l.before = local[c].before, l.madeTasks = local[c].madeTasks,
         at[c] \in {"put", "undo", "pop"} => torn' = TRUE
  PROVE  Clean'
<1>1. CASE l.op = "install"
  <2>1. Go(c, "rollback", l)
    BY <1>1 DEF Raise
  <2>2. Good(c)'
    BY <1>1, <2>1, RollingBack DEF store
  <2> QED
    BY <2>1, <2>2, WentOn DEF Steps
<1>2. CASE l.op # "install"
  BY <1>2, Ended DEF Raise
<1> QED
  BY <1>1, <1>2

\* An access that raises leaves what the request was doing settled, or says that it is torn.
LEMMA FailsClean ==
  ASSUME Inv, NEW c \in Clients, Fails(c) PROVE Clean'
<1> USE DEF Inv
<1>l. local[c] \in LocalsType
  BY LocalFields
<1>s. UNCHANGED store
  BY Zenon DEF Fails
<1>m. LET l == [local[c] EXCEPT !.missed = TRUE] IN
      l \in LocalsType /\ l.op = local[c].op /\ l.before = local[c].before /\ l.madeTasks = local[c].madeTasks
  BY <1>l DEF LocalsType
<1>e. LET l == [local[c] EXCEPT !.errors = TRUE] IN
      l \in LocalsType /\ l.op = local[c].op /\ l.before = local[c].before /\ l.madeTasks = local[c].madeTasks
  BY <1>l DEF LocalsType
<1>1. CASE at[c] \in {"create", "update", "remove", "install"} /\ Raise(c, local[c]) /\ UNCHANGED torn
  BY <1>1, <1>l, <1>s, Raised DEF Busy
<1>2. CASE at[c] = "put" /\ local[c].op # "update" /\ Go(c, "undo", local[c]) /\ UNCHANGED torn
  <2>1. Busy(c) /\ Good(c)
    BY <1>2 DEF Clean, Busy
  <2>2. owner' = c /\ Up' /\ at'[c] = "undo" /\ local'[c] = local[c]
    BY <1>2, <2>1, GoFrame DEF Good, Up
  <2>3. Pending(c)' /\ Own(c)'
    BY <1>2, <1>s, <2>1, <2>2 DEF Good, Pending, Own, store
  <2>4. Good(c)'
    BY <2>2, <2>3 DEF Good, InFlight, Removal, Planning
  <2> QED
    BY <1>2, <1>s, <2>1, <2>4, WentOn DEF Steps
<1>3. CASE at[c] = "put" /\ Leave(c) /\ torn' = TRUE
  BY <1>3, <1>s, Ended DEF Busy
<1>4. CASE at[c] = "get" /\ Raise(c, [local[c] EXCEPT !.missed = TRUE]) /\ UNCHANGED torn
  BY <1>4, <1>m, <1>s, Raised DEF Busy
<1>5. CASE at[c] = "undo" /\ Raise(c, [local[c] EXCEPT !.missed = TRUE]) /\ torn' = TRUE
  BY <1>5, <1>m, <1>s, Raised DEF Busy
<1>6. CASE at[c] \in {"delete", "pop"} /\ Raise(c, [local[c] EXCEPT !.errors = TRUE]) /\ torn' = (torn \/ at[c] = "pop")
  <2>1. torn' \in {torn, TRUE} /\ (at[c] = "pop" => torn' = TRUE)
    BY <1>6 DEF TypeOK
  <2> QED
    BY <1>6, <1>e, <1>s, <2>1, Raised DEF Busy
<1>7. CASE /\ at[c] = "rollback"
           /\ \E x \in local[c].madeCapabilities :
                Go(c, "rollback", [local[c] EXCEPT !.madeCapabilities = @ \ {x}, !.errors = TRUE])
           /\ UNCHANGED torn
  <2> DEFINE l(x) == [local[c] EXCEPT !.madeCapabilities = @ \ {x}, !.errors = TRUE]
  <2> PICK x \in local[c].madeCapabilities : Go(c, "rollback", l(x))
    BY <1>7
  <2>1. l(x) \in LocalsType /\ l(x).op = local[c].op /\ l(x).before = local[c].before /\ l(x).madeTasks = local[c].madeTasks
    BY <1>l DEF LocalsType
  <2>2. Busy(c) /\ local[c].op = "install"
    BY <1>7 DEF Clean, Busy, Good, Pending
  <2>3. Good(c)'
    BY <1>s, <2>1, <2>2, RollingBack DEF store
  <2> QED
    BY <1>7, <1>s, <2>2, <2>3, WentOn DEF Steps
<1> QED
  BY <1>1, <1>2, <1>3, <1>4, <1>5, <1>6, <1>7 DEF Fails

\* Nobody holds the lock, and no client moves.
LEMMA Alone ==
  ASSUME Inv, owner = NoClient \/ ~Up, \A k \in Clients : at'[k] \in {at[k], "idle"},
         \A k \in Clients : at'[k] = "probe" => local'[k].op = "probe",
         AllResolve', Known', ~torn' => \A t \in Tasks : Settled(t)'
  PROVE  Clean'
<1>1. \A k \in Clients : ~Busy(k)'
  BY Quiet DEF Inv, Busy
<1> QED
  BY <1>1 DEF Clean, Good, Probing, Agree

\* Between two requests every task agrees with its Flow.
LEMMA AllSettled ==
  ASSUME Inv, owner = NoClient \/ ~Up, ~torn, NEW t \in Tasks PROVE Settled(t)
<1>1. \A k \in Clients : at[k] \notin {"put", "undo", "pop"}
  BY Quiet DEF Inv, Busy
<1> QED
  BY <1>1 DEF Inv, Clean, Agree

\* save_capability, create_task, a crash and the samples of a start.
LEMMA OthersClean ==
  ASSUME Inv, SaveCapability \/ CreateTask \/ Crash \/ InstallSample PROVE Clean'
<1> USE DEF Inv
<1>1. CASE SaveCapability
  <2>1. AllResolve'
    BY <1>1 DEF SaveCapability, Manual, Listed, Clean, AllResolve, Resolves, TypeOK
  <2>2. Known' /\ Probing
    BY <1>1 DEF SaveCapability, Clean, Known
  <2>3. \A t \in Tasks : Settled(t)' = Settled(t)
    BY <1>1 DEF SaveCapability, Settled, HasFlow
  <2> QED
    BY <1>1, <2>1, <2>2, <2>3, AllSettled, Alone DEF SaveCapability, Probing
<1>2. CASE CreateTask
  <2> PICK t \in Tasks \ used : tasks' = [tasks EXCEPT ![t] = "own"] /\ used' = used \cup {t}
    BY <1>2 DEF CreateTask
  <2>1. AllResolve' /\ Known' /\ Probing
    BY <1>2 DEF CreateTask, Clean, AllResolve, Resolves, Known, TypeOK
  <2>2. ASSUME ~torn, NEW u \in Tasks PROVE Settled(u)'
    <3>1. CASE u = t
      <4>1. flows'[t] = NoFlow /\ tasks'[t] = "own" /\ "own" \notin PortableIds
        BY <1>2, CatalogAssumption DEF CreateTask, Clean, Known, TypeOK
      <4> QED
        BY <3>1, <4>1 DEF Settled, HasFlow
    <3>2. CASE u # t
      BY <1>2, <2>2, <3>2, AllSettled DEF CreateTask, Settled, HasFlow, TypeOK
    <3> QED
      BY <3>1, <3>2
  <2> QED
    BY <1>2, <2>1, <2>2, Alone DEF CreateTask, Probing
<1>3. CASE Crash
  <2>1. AllResolve' /\ Known' /\ \A c \in Clients : at'[c] = "idle"
    BY <1>3 DEF Crash, store, Clean, AllResolve, Resolves, Known
  <2>2. \A c \in Clients : ~Busy(c)'
    BY <2>1 DEF Busy
  <2>3. ASSUME ~torn', NEW t \in Tasks PROVE Settled(t)'
    <3>1. ~torn /\ owner = NoClient
      BY <1>3, <2>3 DEF Crash
    <3>2. Settled(t)
      BY <3>1, AllSettled
    <3> QED
      BY <1>3, <3>2 DEF Crash, store, Settled, HasFlow
  <2> QED
    BY <2>1, <2>2, <2>3 DEF Clean, Good, Probing, Agree
<1>4. CASE InstallSample
  <2> PICK x \in starting, f \in Fingerprints :
        /\ capabilities[x].source # "manual"
        /\ capabilities' = [capabilities EXCEPT ![x] = [source |-> "sample", fingerprint |-> f]]
    BY <1>4 DEF InstallSample
  <2>1. ~Up /\ UNCHANGED <<tasks, flows, used, at, local, torn>>
    BY <1>4 DEF InstallSample, Up
  <2>2. AllResolve'
    BY <2>1 DEF Clean, AllResolve, Resolves, TypeOK
  <2>3. Known' /\ Probing
    BY <2>1 DEF Clean, Known
  <2>4. \A t \in Tasks : Settled(t)' = Settled(t)
    BY <2>1 DEF Settled, HasFlow
  <2> QED
    BY <2>1, <2>2, <2>3, <2>4, AllSettled, Alone DEF Probing
<1> QED
  BY <1>1, <1>2, <1>3, <1>4

-----------------------------------------------------------------------------
(* The theorems.                                                           *)

\* Any step of a request keeps Clean.
LEMMA RequestClean ==
  ASSUME Inv, NEW c \in Clients, Request(c) PROVE Clean'
<1>1. CASE DeleteCapability(c) \/ Remove(c) \/ Probe(c) \/ UpdateProbe(c)
  BY <1>1, DeleteCapabilityClean, RemoveClean, ProbeClean
<1>2. CASE SaveFlow(c) \/ UpdateFlow(c) \/ DeleteFlow(c)
  BY <1>2, FlowEntryClean
<1>3. CASE Create(c) \/ Update(c) \/ PutOverride(c) \/ GetSaved(c) \/ Delete(c) \/ Pop(c) \/ Undo(c)
  BY <1>3, CreateClean, UpdateClean, PutOverrideClean, GetSavedClean, DeleteClean, PopClean, UndoClean
<1>4. CASE Install(c) \/ InstallCapability(c) \/ InstallFlow(c) \/ Installed(c)
  BY <1>4, InstallClean, InstallCapabilityClean, InstallFlowClean, InstallEndsClean
<1>5. CASE RollbackFlow(c) \/ RollbackCapability(c) \/ RolledBack(c) \/ InstallReturns(c)
  BY <1>5, RollbackFlowClean, RollbackCapabilityClean, InstallEndsClean
<1> QED
  BY <1>1, <1>2, <1>3, <1>4, <1>5 DEF Request

\* A first start finds empty stores.
LEMMA InitClean == Init => Clean
<1> SUFFICES ASSUME Init PROVE Clean
  OBVIOUS
<1>1. /\ \A c \in Clients : at[c] = "idle"
      /\ \A t \in Tasks : flows[t] = NoFlow /\ tasks[t] = IF t = Canonical THEN "own" ELSE "none"
      /\ used = {Canonical}
  BY DEF Init
<1>2. (\A c \in Clients : Good(c)) /\ Probing
  BY <1>1 DEF Good, Busy, Probing
<1>3. AllResolve
  BY <1>1 DEF AllResolve, Resolves, NoFlow, NoPins
<1>4. Known
  BY <1>1 DEF Known
<1>5. Agree
  BY <1>1, CatalogAssumption DEF Agree, Settled, HasFlow
<1> QED
  BY <1>2, <1>3, <1>4, <1>5 DEF Clean

\* Whoever is inside a request holds mutation_lock, and what it knows of the
\* stores stays true until it writes.
THEOREM CatalogInvariance == Spec => []Inv
<1>1. Init => Inv
  BY InitTyped, InitClean DEF Inv
<1>2. Inv /\ [Next]_vars => Inv'
  <2> SUFFICES ASSUME Inv, [Next]_vars PROVE Inv'
    OBVIOUS
  <2>1. TypeOK'
    BY NextTyped DEF Inv
  <2>2. CASE UNCHANGED vars
    <3>1. Clean' = Clean
      BY <2>2 DEF vars, store, Clean, Probing, Good, Busy, Up, InFlight, Resolves, Removal, References,
         Planning, Todo, Listed, Pending, Own, AllResolve, Known, Agree, Settled, HasFlow
    <3> QED
      BY <2>1, <3>1 DEF Inv
  <2>3. CASE Next
    BY <2>1, <2>3, RequestClean, FailsClean, OthersClean DEF Inv, Next
  <2> QED
    BY <2>2, <2>3
<1> QED
  BY <1>1, <1>2, PTL DEF Spec

\* A saved Flow never names a Capability that is gone or has changed.
THEOREM SavedPinsResolve == Spec => []PinsResolve
<1>1. Inv => PinsResolve
  BY DEF Inv, Clean, AllResolve, Resolves, PinsResolve
<1> QED
  BY <1>1, CatalogInvariance, PTL

\* "A saved Flow that references a Capability prevents its deletion", README.md:679, is true while the session fixture is
\* listed: only the golden Flow, which the seeded task shows and console-flows.json does not hold, can lose its Capability.
THEOREM OnlyGoldenLosesItsOwn == Spec => [](Fixture \in Listed => ShownCapabilitiesListed)
<1>1. PinsResolve /\ Fixture \in Listed => ShownCapabilitiesListed
  <2> SUFFICES ASSUME PinsResolve, Fixture \in Listed, NEW t \in Existing, NEW x \in Capabilities,
                      IF HasFlow(t) THEN flows[t].pins[x] # 0 ELSE t = Canonical /\ x = Fixture
               PROVE  x \in Listed
    BY DEF ShownCapabilitiesListed
  <2>1. CASE HasFlow(t)
    <3>1. t \in Tasks /\ flows[t].pins[x] # 0
      BY <2>1 DEF Existing
    <3>2. capabilities[x].source \in {"sample", "manual"}
      BY <3>1 DEF PinsResolve
    <3> QED BY <3>2 DEF Listed
  <2>2. CASE ~HasFlow(t)
    BY <2>2
  <2> QED BY <2>1, <2>2
<1> QED BY <1>1, SavedPinsResolve, PTL

\* Tasks and Flows agree between requests.
THEOREM SavedStoresAgree == Spec => []StoresAgree
<1>1. Inv => StoresAgree
  BY AllSettled DEF Inv, StoresAgree, Settled
<1> QED
  BY <1>1, CatalogInvariance, PTL

\* The steps that change capabilities.json, and what they change.
LEMMA Writers ==
  ASSUME Inv, Next
  PROVE  \/ UNCHANGED capabilities
         \/ \E x \in Capabilities : \E r :
              /\ capabilities' = [capabilities EXCEPT ![x] = r]
              /\ x \notin Listed \/ r = Unlisted \/ capabilities[x].source = "sample"
<1> USE DEF Inv
<1>1. ASSUME NEW c \in Clients, InstallCapability(c)
      PROVE  \E x \in Capabilities : \E r : capabilities' = [capabilities EXCEPT ![x] = r] /\ x \notin Listed
  <2>1. Busy(c) /\ Good(c) /\ at[c] = "install"
    BY <1>1 DEF InstallCapability, Busy, Clean
  <2> QED
    BY <1>1, <2>1 DEF InstallCapability, Good, Planning, Todo
<1>2. ASSUME NEW c \in Clients, Remove(c)
      PROVE  \E x \in Capabilities : \E r : capabilities' = [capabilities EXCEPT ![x] = r] /\ r = Unlisted
  BY <1>2, LocalFields DEF Remove
<1>3. ASSUME NEW c \in Clients, RollbackCapability(c)
      PROVE  \/ UNCHANGED capabilities
             \/ \E x \in Capabilities : \E r : capabilities' = [capabilities EXCEPT ![x] = r] /\ r = Unlisted
  BY <1>3, LocalFields DEF RollbackCapability
<1>4. CASE SaveCapability
  BY <1>4 DEF SaveCapability
<1>5. CASE InstallSample
  <2> PICK x \in starting, f \in Fingerprints :
        /\ capabilities[x].source # "manual"
        /\ capabilities' = [capabilities EXCEPT ![x] = [source |-> "sample", fingerprint |-> f]]
    BY <1>5 DEF InstallSample
  <2>1. x \in Capabilities /\ (x \notin Listed \/ capabilities[x].source = "sample")
    BY CatalogAssumption DEF TypeOK, Listed, Unlisted
  <2> QED
    BY <2>1
<1>6. CASE CreateTask \/ Crash
  BY <1>6 DEF CreateTask, Crash, store
<1>7. ASSUME NEW c \in Clients, Fails(c) PROVE UNCHANGED capabilities
  BY <1>7, Zenon DEF Fails, store
<1>8. ASSUME NEW c \in Clients, Request(c), ~InstallCapability(c), ~Remove(c), ~RollbackCapability(c)
      PROVE  UNCHANGED capabilities
  BY <1>8 DEF Request, store, DeleteCapability, Probe, UpdateProbe, SaveFlow, UpdateFlow, DeleteFlow, Create,
     Update, PutOverride, GetSaved, Delete, Pop, Undo, Install, InstallFlow, Installed, RollbackFlow,
     RolledBack, InstallReturns
<1> QED
  BY <1>1, <1>2, <1>3, <1>4, <1>5, <1>6, <1>7, <1>8 DEF Next

\* The fingerprint of a manual Capability never changes while it is listed.
THEOREM ManualFingerprintsKept == Spec => FingerprintsImmutable
<1>1. Inv /\ [Next]_vars =>
        [\A x \in Capabilities : capabilities[x].source = "manual" =>
           capabilities'[x] = Unlisted \/ capabilities'[x].fingerprint = capabilities[x].fingerprint]_vars
  <2> SUFFICES ASSUME Inv, Next, NEW x \in Capabilities, capabilities[x].source = "manual"
               PROVE  capabilities'[x] = Unlisted \/ capabilities'[x].fingerprint = capabilities[x].fingerprint
    OBVIOUS
  <2>1. x \in Listed
    BY DEF Listed
  <2> QED
    BY <2>1, Writers DEF Inv, TypeOK
<1> QED
  BY <1>1, CatalogInvariance, PTL DEF Spec, FingerprintsImmutable

\* A step of another client, while one is inside a request.
LEMMA OthersWait ==
  ASSUME Inv, NEW c \in Clients, Busy(c), NEW k \in Clients \ {c}, Request(k) PROVE UNCHANGED store
<1>1. owner # NoClient /\ at[k] \in {"idle", "probe"}
  BY Holder, CatalogAssumption DEF Inv, Busy
<1> QED
  BY <1>1 DEF Request, DeleteCapability, Remove, Probe, UpdateProbe, SaveFlow, UpdateFlow, DeleteFlow, Create,
     Update, PutOverride, GetSaved, Delete, Pop, Undo, Install, InstallCapability, InstallFlow, Installed,
     RollbackFlow, RollbackCapability, RolledBack, InstallReturns, Enter

\* One step of an installation changes and removes only what the installation has made.
LEMMA InstallStep ==
  ASSUME Inv, NEW c \in Clients, Busy(c), local[c].op = "install", Request(c)
  PROVE  /\ \A x \in Listed \ local[c].madeCapabilities : capabilities'[x].fingerprint = capabilities[x].fingerprint
         /\ \A t \in local[c].before[2] \cap Tasks : tasks'[t] = tasks[t] /\ flows'[t] = flows[t]
<1> USE DEF Inv
<1>g. Good(c) /\ Own(c) /\ owner # NoClient
  BY CatalogAssumption DEF Clean, Good
<1>1. CASE InstallCapability(c)
  <2>1. at[c] = "install" /\ Todo(c) \cap Listed = {} /\ UNCHANGED <<tasks, flows>>
    BY <1>1, <1>g DEF InstallCapability, Good, Planning
  <2> QED
    BY <1>1, <2>1 DEF InstallCapability, Listed, TypeOK
<1>2. CASE RollbackCapability(c)
  BY <1>2, LocalFields DEF RollbackCapability, Listed, TypeOK
<1>3. CASE Create(c)
  BY <1>3, <1>g DEF Create, Own, TypeOK
<1>4. CASE PutOverride(c) \/ Delete(c) \/ Pop(c) \/ Undo(c)
  <2>1. local[c].task \notin local[c].before[2]
    BY <1>4, <1>g DEF PutOverride, Delete, Pop, Undo, Own
  <2> QED
    BY <1>4, <2>1 DEF PutOverride, Delete, Pop, Undo, TypeOK
<1>5. CASE Remove(c) \/ Update(c)
  BY <1>5, <1>g DEF Remove, Update, Own
<1>6. CASE GetSaved(c) \/ InstallFlow(c) \/ Installed(c) \/ RollbackFlow(c) \/ RolledBack(c) \/ InstallReturns(c)
  BY <1>6 DEF GetSaved, InstallFlow, Installed, RollbackFlow, RolledBack, InstallReturns, store
<1>7. CASE DeleteCapability(c) \/ Probe(c) \/ UpdateProbe(c) \/ SaveFlow(c) \/ UpdateFlow(c) \/ DeleteFlow(c) \/ Install(c)
  BY <1>7 DEF DeleteCapability, Probe, UpdateProbe, SaveFlow, UpdateFlow, DeleteFlow, Install, store
<1> QED
  BY <1>1, <1>2, <1>3, <1>4, <1>5, <1>6, <1>7 DEF Request

\* An installation never touches what it found.
THEOREM InstallationKeepsOthers == Spec => InstallKeepsOthers
<1> DEFINE Keeps(c) ==
      /\ \A x \in Listed \ local[c].madeCapabilities : capabilities'[x].fingerprint = capabilities[x].fingerprint
      /\ \A t \in local[c].before[2] : tasks'[t] = tasks[t] /\ flows'[t] = flows[t]
<1>1. Inv /\ [Next]_vars =>
        [\A c \in Clients : at[c] # "idle" /\ at'[c] # "idle" /\ local[c].op = "install" => Keeps(c)]_vars
  <2> SUFFICES ASSUME Inv, Next, NEW c \in Clients, at[c] # "idle", at'[c] # "idle", local[c].op = "install"
               PROVE  Keeps(c)
    OBVIOUS
  <2>b. Busy(c) /\ owner = c /\ owner # NoClient /\ Up /\ local[c].before[2] \subseteq Tasks
    BY CatalogAssumption DEF Inv, Clean, Probing, Busy, Good, Own, TypeOK
  <2>1. CASE UNCHANGED store
    BY <2>1 DEF store
  <2>2. CASE Request(c)
    BY <2>2, <2>b, InstallStep
  <2>3. ASSUME NEW k \in Clients \ {c}, Request(k) PROVE UNCHANGED store
    BY <2>3, <2>b, OthersWait
  <2>4. ASSUME NEW k \in Clients, Fails(k) PROVE UNCHANGED store
    BY <2>4, Zenon DEF Fails
  <2>5. ~SaveCapability /\ ~CreateTask /\ ~InstallSample /\ ~Crash
    BY <2>b DEF SaveCapability, CreateTask, InstallSample, Crash, Up
  <2> QED
    BY <2>1, <2>2, <2>3, <2>4, <2>5 DEF Next
<1> QED
  BY <1>1, CatalogInvariance, PTL DEF Spec, InstallKeepsOthers

-----------------------------------------------------------------------------
(* What an installation has done, entry by entry.                          *)

\* The client is inside an installation.
Installing(c) == Busy(c) /\ local[c].op = "install"

\* The steps on which an installation can still succeed.
Forward == {"install", "create", "put", "get", "receipt"}

\* The Flow is installed: a single task shows it, pinned as the bundle wants it.
Done(b, d) == \E t \in Existing : Matches(d) = {t} /\ Shown(t) = Proposed(b, d)

\* The Flow that is being saved.
Current(step, l, d) == step \in {"create", "put"} /\ l.flow.id = d.id

\* What is planned is not there yet, what is done is there as the bundle has it.
Ledger(step, l) ==
  step \in Forward =>
    /\ l.bundle \in Bundles /\ l.todo.flows \subseteq l.bundle.flows
    /\ ListWorks
    /\ \A x \in Capabilities : l.todo.capabilities[x] \in {0, l.bundle.capabilities[x]}
    /\ \A x \in Wanted(l.bundle) : l.todo.capabilities[x] = 0 =>
         x \in Listed /\ capabilities[x].fingerprint = l.bundle.capabilities[x]
    /\ step # "install" => \A x \in Capabilities : l.todo.capabilities[x] = 0
    /\ step = "receipt" => l.todo.flows = {}
    /\ step \in {"create", "put"} => \E d \in l.bundle.flows \ l.todo.flows : l.flow = Proposed(l.bundle, d)
    /\ \A d \in l.bundle.flows :
         /\ d.uses \subseteq Listed \cup Wanted(l.bundle)
         /\ d \in l.todo.flows \/ Current(step, l, d) => Matches(d) = {}
         /\ d \in l.todo.flows \/ Current(step, l, d) \/ Done(l.bundle, d)

\* The task that the installation is creating or taking back.
Doing(step, l) == IF step \in {"put", "get", "undo", "delete"} THEN {l.task} ELSE {}

\* Unless it has lost sight of something, all that is new is its own.
Traced(step, l) ==
  ~l.errors /\ ~l.missed =>
    /\ Listed = l.before[1] \cup l.madeCapabilities
    /\ l.before[1] \cap l.madeCapabilities = {}
    /\ Existing = l.before[2] \cup l.madeTasks \cup Doing(step, l)
    /\ Doing(step, l) \cap (l.before[2] \cup l.madeTasks) = {}
    /\ step = "rolled_back" => l.madeTasks = {} /\ l.madeCapabilities = {}

\* These steps belong to an installation.
Role(step, l) == step \in {"install", "receipt", "rollback", "rolled_back"} => l.op = "install"

Books ==
  /\ Canonical \in used
  /\ \A c \in Clients : Role(at[c], local[c])
  /\ \A c \in Clients : Installing(c) => Ledger(at[c], local[c]) /\ Traced(at[c], local[c])

-----------------------------------------------------------------------------

\* The fields of an installation's locals.
LEMMA InstallFields ==
  ASSUME TypeOK, NEW c \in Clients, NEW l, l = local[c]
  PROVE  /\ l \in LocalsType /\ l.before \in (SUBSET Capabilities) \X (SUBSET Tasks) /\ l.task \in Tasks
         /\ l.madeCapabilities \subseteq Capabilities /\ l.madeTasks \subseteq Tasks
         /\ l.bundle \in Bundle /\ l.todo \in Bundle /\ l.flow \in Flow
         /\ l.errors \in BOOLEAN /\ l.missed \in BOOLEAN
  BY DEF TypeOK, LocalsType

\* What a client knows after a step.
LEMMA Rewritten ==
  ASSUME NEW c \in Clients, NEW step, NEW l, at'[c] = step, local'[c] = l, Ledger(step, l)', Traced(step, l)'
  PROVE  Ledger(at[c], local[c])' /\ Traced(at[c], local[c])'
  BY DEF Ledger, Traced, Doing, Current

\* What is read of stores that nobody writes.
LEMMA SameView ==
  ASSUME UNCHANGED store
  PROVE  /\ Listed' = Listed /\ Existing' = Existing /\ ListWorks' = ListWorks
         /\ \A t \in Tasks : Shown(t)' = Shown(t)
         /\ \A d \in Draft : Matches(d)' = Matches(d)
         /\ \A b \in Bundles, d \in Draft : Proposed(b, d)' = Proposed(b, d) /\ Done(b, d)' = Done(b, d)
<1>1. Listed' = Listed /\ Existing' = Existing /\ ListWorks' = ListWorks
  BY DEF store, Listed, Existing, ListWorks, HasFlow
<1>2. ASSUME NEW t \in Tasks PROVE Shown(t)' = Shown(t)
  BY DEF store, Shown, HasFlow, Refreshed, Golden
<1>3. ASSUME NEW d \in Draft PROVE Matches(d)' = Matches(d)
  BY <1>1, <1>2 DEF Matches, Existing
<1>4. ASSUME NEW b \in Bundles, NEW d \in Draft PROVE Proposed(b, d)' = Proposed(b, d)
  BY DEF store, Proposed, Wanted
<1>5. ASSUME NEW b \in Bundles, NEW d \in Draft PROVE Done(b, d)' = Done(b, d)
  BY <1>1, <1>2, <1>3, <1>4, <1>5 DEF Done, Existing
<1> QED
  BY <1>1, <1>2, <1>3, <1>4, <1>5

\* The books are about the stores: they stay while the stores do.
LEMMA SameBooks ==
  ASSUME UNCHANGED store, NEW step, NEW l, Ledger(step, l), Traced(step, l)
  PROVE  Ledger(step, l)' /\ Traced(step, l)'
<1>1. Traced(step, l)'
  BY SameView DEF Traced, Doing
<1>2. Ledger(step, l)'
  <2> SUFFICES ASSUME step \in Forward PROVE Ledger(step, l)'
    BY DEF Ledger
  <2>1. PICK b \in Bundles : b = l.bundle /\ b.flows \subseteq Draft
    BY CatalogAssumption DEF Ledger
  <2>2. UNCHANGED capabilities
    BY DEF store
  <2> QED
    BY <2>1, <2>2, SameView DEF Ledger, Current, Wanted
<1> QED
  BY <1>1, <1>2

\* The beginning of an installation.
LEMMA InstallBooks ==
  ASSUME Inv, Canonical \in used, NEW c \in Clients, Install(c)
  PROVE  Ledger(at[c], local[c])' /\ Traced(at[c], local[c])'
<1> USE DEF Inv
<1> DEFINE todo(b) == [capabilities |-> [x \in Capabilities |-> IF x \in New(b) THEN b.capabilities[x] ELSE 0],
                       flows |-> {d \in b.flows : Matches(d) = {}}]
           new(b) == [Locals EXCEPT !.op = "install", !.bundle = b, !.before = <<Listed, Existing>>, !.todo = todo(b)]
<1>1. PICK b \in Bundles : Planned(b) /\ Enter(c, "install", new(b))
  BY DEF Install
<1>2. PICK l : l = new(b)
  OBVIOUS
<1>3. at'[c] = "install" /\ local'[c] = l /\ UNCHANGED store
  BY <1>1, <1>2 DEF Install, Enter, TypeOK
<1>4. /\ l.bundle = b /\ l.before[1] = Listed /\ l.before[2] = Existing /\ l.madeTasks = {} /\ l.madeCapabilities = {}
      /\ l.todo.flows = {d \in b.flows : Matches(d) = {}}
      /\ \A x \in Capabilities : l.todo.capabilities[x] = IF x \in New(b) THEN b.capabilities[x] ELSE 0
  BY <1>2 DEF Locals
<1>5. Traced("install", l)
  BY <1>4 DEF Traced, Doing
<1>6. Ledger("install", l)
  <2>1. \A x \in Wanted(b) : l.todo.capabilities[x] = 0 => x \in Listed /\ capabilities[x].fingerprint = b.capabilities[x]
    BY <1>1, <1>4 DEF Planned, Clashes, New, Wanted
  <2>2. ASSUME NEW d \in b.flows
        PROVE  /\ d.uses \subseteq Listed \cup Wanted(b)
               /\ d \in l.todo.flows => Matches(d) = {}
               /\ d \in l.todo.flows \/ Done(b, d)
    <3>1. d.uses \subseteq Listed \cup Wanted(b)
      BY <1>1 DEF Planned
    <3>2. Matches(d) = {} \/ \E t \in Matches(d) : Matches(d) = {t} /\ Shown(t) = Proposed(b, d)
      BY <1>1 DEF Planned
    <3>3. Matches(d) \subseteq Existing
      BY DEF Matches
    <3> QED
      BY <1>4, <3>1, <3>2, <3>3 DEF Done
  <2>3. ListWorks
    BY <1>1 DEF Planned
  <2> QED
    BY <1>4, <2>1, <2>2, <2>3 DEF Ledger, Current
<1> QED
  BY <1>3, <1>5, <1>6, SameBooks, Rewritten

\* Going on without touching a store.
LEMMA GoingBooks ==
  ASSUME Inv, NEW c \in Clients, Installing(c), Ledger(at[c], local[c]), Traced(at[c], local[c]),
         GetSaved(c) \/ InstallFlow(c) \/ Installed(c) \/ RollbackFlow(c) \/ RolledBack(c)
  PROVE  Ledger(at[c], local[c])' /\ Traced(at[c], local[c])'
<1> USE DEF Inv
<1>l. PICK l : l = local[c]
  OBVIOUS
<1>t. /\ l \in LocalsType /\ l.op = "install" /\ Own(c)
      /\ Ledger(at[c], l) /\ Traced(at[c], l)
  BY <1>l, InstallFields DEF Installing, Clean, Good
<1>1. CASE GetSaved(c)
  <2>1. PICK new : new = [l EXCEPT !.madeTasks = @ \cup {l.task}]
    OBVIOUS
  <2>2. at[c] = "get" /\ Go(c, "install", new) /\ UNCHANGED store
    BY <1>1, <1>l, <1>t, <2>1 DEF GetSaved
  <2>3. /\ new.bundle = l.bundle /\ new.todo = l.todo /\ new.before = l.before /\ new.flow = l.flow
        /\ new.errors = l.errors /\ new.missed = l.missed
        /\ new.madeCapabilities = l.madeCapabilities /\ new.madeTasks = l.madeTasks \cup {l.task}
    BY <1>t, <2>1 DEF LocalsType
  <2>4. Traced("install", new)
    BY <1>t, <2>2, <2>3 DEF Traced, Doing
  <2>5. Ledger("install", new)
    BY <1>t, <2>2, <2>3 DEF Ledger, Forward, Current
  <2> QED
    BY <2>2, <2>4, <2>5, SameBooks, GoFrame, Rewritten
<1>2. CASE InstallFlow(c)
  <2>1. PICK d \in l.todo.flows : Go(c, "create", [l EXCEPT !.flow = Pinned(d), !.todo.flows = @ \ {d}])
    BY <1>2, <1>l DEF InstallFlow
  <2>2. PICK new : new = [l EXCEPT !.flow = Pinned(d), !.todo.flows = @ \ {d}]
    OBVIOUS
  <2>3. at[c] = "install" /\ UNCHANGED store /\ \A x \in Capabilities : l.todo.capabilities[x] = 0
    BY <1>2, <1>l DEF InstallFlow, Todo
  <2>4. /\ new.bundle = l.bundle /\ new.todo.capabilities = l.todo.capabilities
        /\ new.todo.flows = l.todo.flows \ {d} /\ new.before = l.before /\ new.flow = Pinned(d)
        /\ new.errors = l.errors /\ new.missed = l.missed
        /\ new.madeCapabilities = l.madeCapabilities /\ new.madeTasks = l.madeTasks
    BY <1>t, <2>2 DEF LocalsType, Bundle
  <2>5. PICK b \in Bundles : b = l.bundle
    BY <1>t, <2>3 DEF Ledger, Forward
  <2>6. d \in b.flows /\ d \in Draft /\ \A e \in b.flows : e.id = d.id => e = d
    BY <1>t, <2>3, <2>5, CatalogAssumption DEF Ledger, Forward
  <2>7. Pinned(d) = Proposed(b, d)
    <3>1. \A x \in Wanted(b) : capabilities[x].fingerprint = b.capabilities[x]
      BY <1>t, <2>3, <2>5 DEF Ledger, Forward, Wanted
    <3>2. \A x \in Capabilities :
            (IF x \in d.uses THEN capabilities[x].fingerprint ELSE 0)
              = IF x \notin d.uses THEN 0 ELSE IF x \in Wanted(b) THEN b.capabilities[x] ELSE capabilities[x].fingerprint
      BY <3>1
    <3> QED
      BY <3>2 DEF Pinned, Proposed
  <2>8. Pinned(d).id = d.id
    BY DEF Pinned
  <2>9. Traced("create", new)
    BY <1>t, <2>3, <2>4 DEF Traced, Doing
  <2>10. Ledger("create", new)
    <3>1. ASSUME NEW e \in b.flows
          PROVE  /\ e.uses \subseteq Listed \cup Wanted(b)
                 /\ e \in new.todo.flows \/ Current("create", new, e) => Matches(e) = {}
                 /\ e \in new.todo.flows \/ Current("create", new, e) \/ Done(b, e)
      BY <1>t, <2>3, <2>4, <2>5, <2>6, <2>8 DEF Ledger, Forward, Current
    <3>2. \E e \in b.flows \ new.todo.flows : new.flow = Proposed(b, e)
      BY <2>4, <2>6, <2>7
    <3> QED
      BY <1>t, <2>3, <2>4, <2>5, <3>1, <3>2 DEF Ledger, Forward
  <2> QED
    BY <2>1, <2>2, <2>3, <2>9, <2>10, SameBooks, GoFrame, Rewritten
<1>3. CASE Installed(c)
  <2>1. /\ at[c] = "install" /\ Go(c, "receipt", l) /\ UNCHANGED store
        /\ l.todo.flows = {} /\ \A x \in Capabilities : l.todo.capabilities[x] = 0
    BY <1>3, <1>l DEF Installed, Todo
  <2>2. Traced("receipt", l)
    BY <1>t, <2>1 DEF Traced, Doing
  <2>3. Ledger("receipt", l)
    BY <1>t, <2>1 DEF Ledger, Forward, Current
  <2> QED
    BY <2>1, <2>2, <2>3, SameBooks, GoFrame, Rewritten
<1>4. CASE RollbackFlow(c)
  <2>1. PICK t \in l.madeTasks : Go(c, "delete", [l EXCEPT !.task = t, !.madeTasks = @ \ {t}])
    BY <1>4, <1>l DEF RollbackFlow
  <2>2. PICK new : new = [l EXCEPT !.task = t, !.madeTasks = @ \ {t}]
    OBVIOUS
  <2>3. at[c] = "rollback" /\ UNCHANGED store
    BY <1>4 DEF RollbackFlow
  <2>4. /\ new.before = l.before /\ new.errors = l.errors /\ new.missed = l.missed
        /\ new.madeCapabilities = l.madeCapabilities /\ new.madeTasks = l.madeTasks \ {t} /\ new.task = t
    BY <1>t, <2>2 DEF LocalsType
  <2>5. t \notin l.before[2]
    BY <1>l, <1>t, <2>1 DEF Own
  <2>6. Traced("delete", new)
    BY <1>t, <2>1, <2>3, <2>4, <2>5 DEF Traced, Doing
  <2>7. Ledger("delete", new)
    BY DEF Ledger, Forward
  <2> QED
    BY <2>1, <2>2, <2>3, <2>6, <2>7, SameBooks, GoFrame, Rewritten
<1>5. CASE RolledBack(c)
  <2>1. /\ at[c] = "rollback" /\ Go(c, "rolled_back", l) /\ UNCHANGED store
        /\ l.madeTasks = {} /\ l.madeCapabilities = {}
    BY <1>5, <1>l DEF RolledBack
  <2>2. Traced("rolled_back", l) /\ Ledger("rolled_back", l)
    BY <1>t, <2>1 DEF Traced, Doing, Ledger, Forward
  <2> QED
    BY <2>1, <2>2, SameBooks, GoFrame, Rewritten
<1> QED
  BY <1>1, <1>2, <1>3, <1>4, <1>5

\* A Capability that is added changes nothing of the Flows that were there.
LEMMA AddedCapability ==
  ASSUME Inv, ListWorks, NEW x \in Capabilities \ Listed, NEW f \in Fingerprints,
         capabilities' = [capabilities EXCEPT ![x] = Manual(f)], UNCHANGED <<tasks, flows, used>>
  PROVE  /\ Existing' = Existing /\ Listed' = Listed \cup {x} /\ ListWorks'
         /\ \A y \in Capabilities \ {x} : capabilities'[y] = capabilities[y]
         /\ capabilities'[x].fingerprint = f
         /\ \A t \in Existing : Shown(t)' = Shown(t)
         /\ \A d \in Draft : Matches(d)' = Matches(d)
         /\ \A b \in Bundles, d \in Draft : x \in Wanted(b) => Proposed(b, d)' = Proposed(b, d)
<1> USE DEF Inv
<1>1. /\ \A y \in Capabilities \ {x} : capabilities'[y] = capabilities[y]
      /\ capabilities'[x] = Manual(f) /\ Existing' = Existing
  BY DEF TypeOK, Existing
<1>2. Listed' = Listed \cup {x} /\ capabilities'[x].fingerprint = f
  BY <1>1 DEF Listed, Manual
<1>3. ListWorks'
  BY <1>1, <1>2 DEF ListWorks, HasFlow
<1>4. ASSUME NEW t \in Existing PROVE Shown(t)' = Shown(t)
  <2>1. t \in Tasks /\ Resolves(flows[t])
    BY DEF Existing, Clean, AllResolve
  <2>2. CASE HasFlow(t)
    <3>1. PICK g : g = flows[t]
      OBVIOUS
    <3>2. ASSUME NEW y \in Capabilities, g.pins[y] # 0 PROVE capabilities'[y] = capabilities[y]
      BY <1>1, <2>1, <3>1, <3>2 DEF Resolves, Listed
    <3>3. \A y \in Capabilities :
            (IF g.pins[y] # 0 /\ capabilities'[y].source = "sample" THEN capabilities'[y].fingerprint ELSE g.pins[y])
              = IF g.pins[y] # 0 /\ capabilities[y].source = "sample" THEN capabilities[y].fingerprint ELSE g.pins[y]
      BY <3>2
    <3>4. Refreshed(g)' = Refreshed(g)
      BY <3>3 DEF Refreshed
    <3>5. HasFlow(t)' /\ flows'[t] = g
      BY <2>2, <3>1 DEF HasFlow
    <3>6. Shown(t) = Refreshed(g)
      BY <2>2, <3>1 DEF Shown
    <3>7. Shown(t)' = Refreshed(g)'
      BY <3>5 DEF Shown, Refreshed
    <3> QED
      BY <3>4, <3>6, <3>7
  <2>3. CASE ~HasFlow(t) /\ t = Canonical
    <3>1. Fixture \in Listed
      BY <2>3 DEF ListWorks
    <3>2. capabilities'[Fixture] = capabilities[Fixture]
      BY <1>1, <3>1 DEF Listed
    <3>3. Golden' = Golden
      BY <3>2 DEF Golden
    <3> QED
      BY <2>3, <3>3 DEF Shown, HasFlow
  <2>4. CASE ~HasFlow(t) /\ t # Canonical
    BY <2>4 DEF Shown, HasFlow
  <2> QED
    BY <2>2, <2>3, <2>4
<1>5. ASSUME NEW d \in Draft PROVE Matches(d)' = Matches(d)
  BY <1>1, <1>4 DEF Matches
<1>6. ASSUME NEW b \in Bundles, NEW d \in Draft, x \in Wanted(b) PROVE Proposed(b, d)' = Proposed(b, d)
  <2>1. \A y \in Capabilities :
          (IF y \notin d.uses THEN 0 ELSE IF y \in Wanted(b) THEN b.capabilities[y] ELSE capabilities'[y].fingerprint)
            = IF y \notin d.uses THEN 0 ELSE IF y \in Wanted(b) THEN b.capabilities[y] ELSE capabilities[y].fingerprint
    BY <1>1, <1>6
  <2> QED
    BY <2>1 DEF Proposed, Wanted
<1> QED
  BY <1>1, <1>2, <1>3, <1>4, <1>5, <1>6

\* A Capability moves from what is to do to what is done.
LEMMA InstallCapabilityBooks ==
  ASSUME Inv, NEW c \in Clients, Installing(c), Ledger(at[c], local[c]), Traced(at[c], local[c]), InstallCapability(c)
  PROVE  Ledger(at[c], local[c])' /\ Traced(at[c], local[c])'
<1> USE DEF Inv
<1>l. PICK l : l = local[c]
  OBVIOUS
<1>t. /\ l \in LocalsType /\ at[c] = "install" /\ Planning(c)
      /\ Ledger("install", l) /\ Traced("install", l) /\ UNCHANGED <<tasks, flows, used>>
  BY <1>l, InstallFields DEF Installing, Clean, Good, InstallCapability
<1>1. PICK x \in Todo(c) :
        /\ capabilities' = [capabilities EXCEPT ![x] = Manual(l.todo.capabilities[x])]
        /\ Go(c, "install", [l EXCEPT !.todo.capabilities[x] = 0, !.madeCapabilities = @ \cup {x}])
  BY <1>l DEF InstallCapability
<1>2. PICK new : new = [l EXCEPT !.todo.capabilities[x] = 0, !.madeCapabilities = @ \cup {x}]
  OBVIOUS
<1>3. /\ new.bundle = l.bundle /\ new.before = l.before /\ new.flow = l.flow
      /\ new.errors = l.errors /\ new.missed = l.missed /\ new.todo.flows = l.todo.flows
      /\ new.madeCapabilities = l.madeCapabilities \cup {x} /\ new.madeTasks = l.madeTasks
      /\ new.todo.capabilities = [l.todo.capabilities EXCEPT ![x] = 0]
  BY <1>t, <1>2 DEF LocalsType, Bundle
<1>4. PICK b \in Bundles : b = l.bundle /\ b.flows \subseteq Draft
  BY <1>t, CatalogAssumption DEF Ledger, Forward
<1>5. /\ x \in Capabilities \ Listed /\ l.todo.capabilities[x] # 0
      /\ l.todo.capabilities[x] = b.capabilities[x] /\ x \in Wanted(b)
  BY <1>l, <1>t, <1>4 DEF Todo, Planning, Ledger, Forward, Wanted
<1>6. b.capabilities[x] \in Fingerprints
  BY <1>5, CatalogAssumption DEF Wanted
<1>7. /\ Existing' = Existing /\ Listed' = Listed \cup {x} /\ ListWorks'
      /\ \A y \in Capabilities \ {x} : capabilities'[y] = capabilities[y]
      /\ capabilities'[x].fingerprint = b.capabilities[x]
      /\ \A t \in Existing : Shown(t)' = Shown(t)
      /\ \A d \in Draft : Matches(d)' = Matches(d) /\ Proposed(b, d)' = Proposed(b, d)
  <2>1. ListWorks
    BY <1>t DEF Ledger, Forward
  <2> QED
    BY <1>1, <1>t, <1>5, <1>6, <2>1, AddedCapability
<1>8. Traced("install", new)'
  <2>1. new.before[1] \cap {x} = {} \/ new.errors \/ new.missed
    BY <1>t, <1>3, <1>5 DEF Traced
  <2> QED
    BY <1>t, <1>3, <1>7, <2>1 DEF Traced, Doing
<1>9. Ledger("install", new)'
  <2>1. /\ l.todo.flows \subseteq b.flows
        /\ \A y \in Capabilities : l.todo.capabilities[y] \in {0, b.capabilities[y]}
        /\ \A y \in Wanted(b) : l.todo.capabilities[y] = 0 => y \in Listed /\ capabilities[y].fingerprint = b.capabilities[y]
        /\ \A d \in b.flows : /\ d.uses \subseteq Listed \cup Wanted(b)
                              /\ d \in l.todo.flows => Matches(d) = {}
                              /\ d \in l.todo.flows \/ Done(b, d)
    BY <1>t, <1>4 DEF Ledger, Forward, Current
  <2>2. \A y \in Capabilities : new.todo.capabilities[y] = IF y = x THEN 0 ELSE l.todo.capabilities[y]
    BY <1>t, <1>3 DEF LocalsType, Bundle, Pins
  <2>3. Wanted(b) \subseteq Capabilities
    BY DEF Wanted
  <2>4. \A y \in Wanted(b) : new.todo.capabilities[y] = 0 => y \in Listed' /\ capabilities'[y].fingerprint = b.capabilities[y]
    BY <1>7, <2>1, <2>2, <2>3
  <2>5. ASSUME NEW d \in b.flows, Done(b, d) PROVE Done(b, d)'
    BY <1>4, <1>7, <2>5 DEF Done
  <2>6. \A d \in b.flows : /\ d.uses \subseteq Listed' \cup Wanted(b)
                           /\ d \in new.todo.flows => Matches(d)' = {}
                           /\ d \in new.todo.flows \/ Done(b, d)'
    BY <1>3, <1>4, <1>7, <2>1, <2>5
  <2> QED
    BY <1>3, <1>4, <1>7, <2>1, <2>2, <2>4, <2>6 DEF Ledger, Current, Wanted
<1> QED
  BY <1>1, <1>2, <1>8, <1>9, GoFrame, Rewritten

\* The task of a Flow that is installed, before it has the Flow.
LEMMA CreateBooks ==
  ASSUME Inv, Canonical \in used, NEW c \in Clients, Installing(c), Ledger(at[c], local[c]), Traced(at[c], local[c]), Create(c)
  PROVE  Ledger(at[c], local[c])' /\ Traced(at[c], local[c])'
<1> USE DEF Inv
<1>l. PICK l : l = local[c]
  OBVIOUS
<1>t. /\ l \in LocalsType /\ at[c] = "create" /\ InFlight(c) /\ Own(c) /\ l.op = "install"
      /\ Ledger("create", l) /\ Traced("create", l) /\ UNCHANGED <<capabilities, flows>>
  BY <1>l, InstallFields DEF Installing, Clean, Good, Create
<1>1. PICK t \in Tasks \ used :
        /\ tasks' = [tasks EXCEPT ![t] = l.flow.id]
        /\ Go(c, "put", [l EXCEPT !.task = t])
  BY <1>l DEF Create
<1>2. PICK new : new = [l EXCEPT !.task = t]
  OBVIOUS
<1>3. /\ new.bundle = l.bundle /\ new.before = l.before /\ new.flow = l.flow /\ new.todo = l.todo
      /\ new.errors = l.errors /\ new.missed = l.missed /\ new.task = t
      /\ new.madeCapabilities = l.madeCapabilities /\ new.madeTasks = l.madeTasks
  BY <1>t, <1>2 DEF LocalsType
<1>4. /\ l.flow.id \in PortableIds /\ l.flow.id # "none" /\ tasks[t] = "none" /\ flows[t] = NoFlow /\ t # Canonical
      /\ t \notin l.before[2] /\ t \notin l.madeTasks
  BY <1>l, <1>t, CatalogAssumption DEF InFlight, Clean, Known, Own
<1>5. Existing' = Existing \cup {t} /\ Listed' = Listed /\ t \notin Existing
  BY <1>1, <1>t, <1>4 DEF Existing, Listed, TypeOK
<1>6. /\ ListWorks' = ListWorks
      /\ \A u \in Tasks : Shown(u)' = Shown(u)
      /\ \A b \in Bundles, d \in Draft : Proposed(b, d)' = Proposed(b, d)
  <2>1. ListWorks' = ListWorks
    BY <1>t, <1>4, <1>5 DEF ListWorks, HasFlow
  <2>2. ASSUME NEW u \in Tasks PROVE Shown(u)' = Shown(u)
    BY <1>t DEF Shown, HasFlow, Refreshed, Golden
  <2>3. ASSUME NEW b \in Bundles, NEW d \in Draft PROVE Proposed(b, d)' = Proposed(b, d)
    BY <1>t DEF Proposed, Wanted
  <2> QED
    BY <2>1, <2>2, <2>3
<1>7. ASSUME NEW d \in Draft PROVE Matches(d)' = Matches(d)
  <2>1. d.id \in PortableIds /\ d.id # "default"
    BY CatalogAssumption DEF Draft
  <2>2. Shown(t).id = "default"
    BY <1>4 DEF Shown, HasFlow
  <2>3. Existing \subseteq Tasks /\ Matches(d)' = {u \in Existing' : Shown(u)'.id = d.id}
    BY DEF Existing, Matches
  <2> QED
    BY <1>5, <1>6, <2>1, <2>2, <2>3 DEF Matches
<1>8. Traced("put", new)'
  BY <1>t, <1>3, <1>4, <1>5 DEF Traced, Doing
<1>9. Ledger("put", new)'
  <2>1. PICK b \in Bundles : b = l.bundle /\ b.flows \subseteq Draft
    BY <1>t, CatalogAssumption DEF Ledger, Forward
  <2>2. ASSUME NEW d \in b.flows, Done(b, d) PROVE Done(b, d)'
    BY <1>5, <1>6, <1>7, <2>1, <2>2 DEF Done, Existing
  <2>3. \A d \in b.flows :
          /\ d.uses \subseteq Listed \cup Wanted(b)
          /\ d \in new.todo.flows \/ Current("put", new, d) => Matches(d)' = {}
          /\ d \in new.todo.flows \/ Current("put", new, d) \/ Done(b, d)'
    BY <1>t, <1>3, <1>7, <2>1, <2>2 DEF Ledger, Forward, Current
  <2>4. \E d \in b.flows \ l.todo.flows : l.flow = Proposed(b, d)
    BY <1>t, <2>1 DEF Ledger, Forward
  <2>5. \E d \in b.flows \ l.todo.flows : l.flow = Proposed(b, d)'
    BY <1>6, <2>1, <2>4
  <2>6. /\ l.todo.flows \subseteq b.flows /\ ListWorks
        /\ \A x \in Capabilities : l.todo.capabilities[x] = 0
        /\ \A x \in Wanted(b) : l.todo.capabilities[x] = 0 => x \in Listed /\ capabilities[x].fingerprint = b.capabilities[x]
    BY <1>t, <2>1 DEF Ledger, Forward
  <2> QED
    BY <1>t, <1>3, <1>5, <1>6, <2>1, <2>3, <2>5, <2>6 DEF Ledger, Current, Wanted
<1> QED
  BY <1>1, <1>2, <1>8, <1>9, GoFrame, Rewritten

\* The Flow of that task: from now on it is shown as the bundle has it.
LEMMA PutBooks ==
  ASSUME Inv, NEW c \in Clients, Installing(c), Ledger(at[c], local[c]), Traced(at[c], local[c]), PutOverride(c)
  PROVE  Ledger(at[c], local[c])' /\ Traced(at[c], local[c])'
<1> USE DEF Inv
<1>l. PICK l : l = local[c]
  OBVIOUS
<1>t. /\ l \in LocalsType /\ at[c] = "put" /\ InFlight(c) /\ Pending(c) /\ Own(c) /\ l.op = "install"
      /\ Ledger("put", l) /\ Traced("put", l) /\ UNCHANGED <<capabilities, tasks, used>>
      /\ flows' = [flows EXCEPT ![l.task] = l.flow] /\ Go(c, "get", l)
  BY <1>l, InstallFields DEF Installing, Clean, Good, PutOverride
<1>1. PICK t : t = l.task
  OBVIOUS
<1>2. /\ t \in Tasks /\ l.flow.id \in PortableIds /\ l.flow \in Flow /\ flows[t] = NoFlow /\ tasks[t] = l.flow.id
      /\ t \in Existing /\ l.flow # NoFlow
  <2>1. t \in Tasks /\ l.flow.id \in PortableIds /\ l.flow \in Flow /\ flows[t] = NoFlow /\ tasks[t] = l.flow.id
    BY <1>l, <1>t, <1>1 DEF InFlight, Pending, LocalsType
  <2>2. l.flow.id # "none" /\ NoFlow.id = "none"
    BY <2>1, CatalogAssumption DEF NoFlow
  <2> QED
    BY <2>1, <2>2 DEF Existing
<1>3. PICK b \in Bundles : b = l.bundle /\ b.flows \subseteq Draft
  BY <1>t, CatalogAssumption DEF Ledger, Forward
<1>4. /\ l.todo.flows \subseteq b.flows /\ ListWorks
      /\ \A x \in Capabilities : l.todo.capabilities[x] = 0
      /\ \A x \in Wanted(b) : x \in Listed /\ capabilities[x].fingerprint = b.capabilities[x]
  BY <1>t, <1>3 DEF Ledger, Forward, Wanted
<1>5. PICK d \in b.flows \ l.todo.flows : l.flow = Proposed(b, d)
  BY <1>t, <1>3 DEF Ledger, Forward
<1>6. l.flow.id = d.id /\ \A e \in b.flows : e.id = d.id => e = d
  BY <1>5, CatalogAssumption DEF Proposed
<1>7. Refreshed(l.flow) = l.flow
  <2>1. PICK g : g = l.flow
    OBVIOUS
  <2>2. \A x \in Capabilities : g.pins[x] # 0 => g.pins[x] = capabilities[x].fingerprint
    BY <1>4, <1>5, <2>1 DEF Proposed
  <2>3. g.pins = [x \in Capabilities |-> g.pins[x]]
    BY <1>2, <2>1 DEF Flow, Pins
  <2>4. [x \in Capabilities |-> IF g.pins[x] # 0 /\ capabilities[x].source = "sample" THEN capabilities[x].fingerprint ELSE g.pins[x]]
          = g.pins
    BY <2>2, <2>3
  <2>5. [g EXCEPT !.pins = g.pins] = g
    BY <1>2, <2>1 DEF Flow
  <2>6. Refreshed(g) = g
    BY <2>4, <2>5 DEF Refreshed
  <2> QED
    BY <2>1, <2>6
<1>8. Existing' = Existing /\ Listed' = Listed /\ ListWorks'
  BY <1>t, <1>1, <1>2, <1>4 DEF Existing, Listed, ListWorks, HasFlow, TypeOK
<1>9. /\ \A u \in Tasks \ {t} : Shown(u)' = Shown(u)
      /\ Shown(t)' = l.flow
      /\ Shown(t).id \notin PortableIds
  <2>1. ASSUME NEW u \in Tasks \ {t} PROVE Shown(u)' = Shown(u)
    <3>1. flows'[u] = flows[u]
      BY <1>t, <1>1 DEF TypeOK
    <3> QED
      BY <1>t, <3>1 DEF Shown, HasFlow, Refreshed, Golden
  <2>2. Shown(t)' = l.flow
    <3>1. flows'[t] = l.flow
      BY <1>t, <1>1, <1>2 DEF TypeOK
    <3>2. Shown(t)' = Refreshed(l.flow)
      BY <1>t, <1>2, <3>1 DEF Shown, HasFlow, Refreshed
    <3> QED
      BY <1>7, <3>2
  <2>3. Shown(t).id \in {"default", "golden"}
    BY <1>2 DEF Shown, HasFlow, Golden
  <2> QED
    BY <2>1, <2>2, <2>3, CatalogAssumption
<1>10. ASSUME NEW e \in Draft
       PROVE  Matches(e)' = IF e.id = d.id THEN Matches(e) \cup {t} ELSE Matches(e)
  <2>1. e.id \in PortableIds
    BY DEF Draft
  <2>2. Existing \subseteq Tasks /\ Matches(e)' = {u \in Existing' : Shown(u)'.id = e.id}
    BY DEF Existing, Matches
  <2> QED
    BY <1>2, <1>6, <1>8, <1>9, <2>1, <2>2 DEF Matches
<1>11. \A e \in Draft : Proposed(b, e)' = Proposed(b, e)
  BY <1>t DEF Proposed, Wanted
<1>12. Matches(d) = {}
  BY <1>t, <1>3, <1>6 DEF Ledger, Forward, Current
<1>13. Done(b, d)'
  <2>1. Matches(d)' = {t} /\ Shown(t)' = Proposed(b, d)'
    BY <1>3, <1>5, <1>9, <1>10, <1>11, <1>12
  <2> QED
    BY <1>2, <1>8, <2>1 DEF Done
<1>14. ASSUME NEW e \in b.flows, e # d, Done(b, e) PROVE Done(b, e)'
  <2>1. PICK u \in Existing : Matches(e) = {u} /\ Shown(u) = Proposed(b, e)
    BY <1>14 DEF Done
  <2>2. e.id # d.id /\ e \in Draft
    BY <1>3, <1>6, <1>14
  <2>3. Shown(u).id = e.id /\ u \in Tasks
    BY <2>1 DEF Proposed, Existing
  <2>4. u # t
    BY <1>9, <2>2, <2>3 DEF Draft
  <2>5. Matches(e)' = {u} /\ Shown(u)' = Proposed(b, e)'
    BY <1>9, <1>10, <1>11, <2>1, <2>2, <2>3, <2>4
  <2> QED
    BY <1>8, <2>1, <2>5 DEF Done
<1>15. ASSUME NEW e \in b.flows
       PROVE  /\ e.uses \subseteq Listed \cup Wanted(b)
              /\ e \in l.todo.flows => Matches(e)' = {}
              /\ e \in l.todo.flows \/ Done(b, e)'
  <2>1. /\ e.uses \subseteq Listed \cup Wanted(b)
        /\ e \in l.todo.flows => Matches(e) = {}
        /\ e \in l.todo.flows \/ e = d \/ Done(b, e)
    BY <1>t, <1>3, <1>6 DEF Ledger, Forward, Current
  <2>2. e \in l.todo.flows => e.id # d.id
    BY <1>5, <1>6
  <2> QED
    BY <1>3, <1>10, <1>13, <1>14, <2>1, <2>2
<1>16. Traced("get", l)'
  BY <1>t, <1>8 DEF Traced, Doing
<1>17. Ledger("get", l)'
  BY <1>t, <1>3, <1>4, <1>8, <1>15 DEF Ledger, Current, Wanted
<1> QED
  BY <1>t, <1>16, <1>17, GoFrame, Rewritten

\* What is taken back.
LEMMA BackBooks ==
  ASSUME Inv, NEW c \in Clients, Installing(c), Ledger(at[c], local[c]), Traced(at[c], local[c]),
         Delete(c) \/ Pop(c) \/ Undo(c) \/ RollbackCapability(c)
  PROVE  Ledger(at[c], local[c])' /\ Traced(at[c], local[c])'
<1> USE DEF Inv
<1>l. PICK l : l = local[c]
  OBVIOUS
<1>t. /\ l \in LocalsType /\ l.task \in Tasks /\ l.op = "install" /\ Traced(at[c], l)
      /\ l.errors \in BOOLEAN /\ l.missed \in BOOLEAN
  BY <1>l, InstallFields DEF Installing
<1>v. ASSUME NEW step, NEW m, step \notin Forward PROVE Ledger(step, m)'
  BY <1>v DEF Ledger
<1>1. CASE Delete(c)
  <2>1. at[c] = "delete" /\ Go(c, "pop", l) /\ tasks' = [tasks EXCEPT ![l.task] = "none"] /\ UNCHANGED capabilities
    BY <1>1, <1>l DEF Delete
  <2>2. Existing' = Existing \ {l.task} /\ Listed' = Listed
    BY <1>t, <2>1 DEF Existing, Listed, TypeOK
  <2>3. Traced("pop", l)'
    BY <1>t, <2>1, <2>2 DEF Traced, Doing
  <2> QED
    BY <1>v, <2>1, <2>3, GoFrame, Rewritten DEF Forward
<1>2. CASE Pop(c)
  <2>1. at[c] = "pop" /\ Go(c, "rollback", l) /\ UNCHANGED <<tasks, capabilities>>
    BY <1>2, <1>l, <1>t DEF Pop
  <2>2. Existing' = Existing /\ Listed' = Listed
    BY <2>1 DEF Existing, Listed
  <2>3. Traced("rollback", l)'
    BY <1>t, <2>1, <2>2 DEF Traced, Doing
  <2> QED
    BY <1>v, <2>1, <2>3, GoFrame, Rewritten DEF Forward
<1>3. CASE Undo(c)
  <2>1. at[c] = "undo" /\ Go(c, "rollback", l) /\ tasks' = [tasks EXCEPT ![l.task] = "none"] /\ UNCHANGED capabilities
    BY <1>3, <1>l, <1>t DEF Undo, Raise
  <2>2. Existing' = Existing \ {l.task} /\ Listed' = Listed
    BY <1>t, <2>1 DEF Existing, Listed, TypeOK
  <2>3. Traced("rollback", l)'
    BY <1>t, <2>1, <2>2 DEF Traced, Doing
  <2> QED
    BY <1>v, <2>1, <2>3, GoFrame, Rewritten DEF Forward
<1>4. CASE RollbackCapability(c)
  <2>1. PICK x \in l.madeCapabilities, e \in BOOLEAN :
          /\ e = ~(References(x) = {})
          /\ capabilities' = IF References(x) = {} THEN [capabilities EXCEPT ![x] = Unlisted] ELSE capabilities
          /\ Go(c, "rollback", [l EXCEPT !.madeCapabilities = @ \ {x}, !.errors = @ \/ e])
    BY <1>4, <1>l DEF RollbackCapability
  <2>2. PICK new : new = [l EXCEPT !.madeCapabilities = @ \ {x}, !.errors = @ \/ e]
    OBVIOUS
  <2>3. at[c] = "rollback" /\ UNCHANGED tasks /\ x \in Capabilities
    BY <1>4, <1>t, <2>1 DEF RollbackCapability, LocalsType
  <2>4. /\ new.before = l.before /\ new.missed = l.missed /\ new.errors = (l.errors \/ e)
        /\ new.madeCapabilities = l.madeCapabilities \ {x} /\ new.madeTasks = l.madeTasks
    BY <1>t, <2>2 DEF LocalsType
  <2>5. ~e => Listed' = Listed \ {x}
    BY <2>1, <2>3 DEF Listed, TypeOK, Unlisted
  <2>6. Existing' = Existing
    BY <2>3 DEF Existing
  <2>7. Traced("rollback", new)'
    <3> SUFFICES ASSUME ~new.errors, ~new.missed PROVE Traced("rollback", new)'
      BY DEF Traced
    <3>1. ~e /\ ~l.errors /\ ~l.missed
      BY <2>4, Zenon
    <3>2. /\ Listed = l.before[1] \cup l.madeCapabilities /\ l.before[1] \cap l.madeCapabilities = {}
          /\ Existing = l.before[2] \cup l.madeTasks
      BY <1>t, <2>3, <3>1 DEF Traced, Doing
    <3> QED
      BY <2>1, <2>4, <2>5, <2>6, <3>1, <3>2 DEF Traced, Doing
  <2> QED
    BY <1>v, <2>1, <2>2, <2>7, GoFrame, Rewritten DEF Forward
<1> QED
  BY <1>1, <1>2, <1>3, <1>4

\* An access that fails: what has been done stays as it is, and is taken back from here on.
LEMMA FailsBooks ==
  ASSUME Inv, NEW c \in Clients, Installing(c), Ledger(at[c], local[c]), Traced(at[c], local[c]), Fails(c)
  PROVE  Ledger(at[c], local[c])' /\ Traced(at[c], local[c])'
<1> USE DEF Inv
<1>l. PICK l : l = local[c]
  OBVIOUS
<1>t. /\ l \in LocalsType /\ l.op = "install" /\ Traced(at[c], l)
  BY <1>l, InstallFields DEF Installing
<1>s. UNCHANGED store
  BY Zenon DEF Fails
<1>1. \/ at[c] \in {"create", "remove", "update", "install"} /\ Raise(c, l)
      \/ at[c] = "put" /\ (Go(c, "undo", l) \/ (l.op = "update" /\ Leave(c)))
      \/ at[c] \in {"get", "undo"} /\ Raise(c, [l EXCEPT !.missed = TRUE])
      \/ at[c] \in {"delete", "pop"} /\ Raise(c, [l EXCEPT !.errors = TRUE])
      \/ at[c] = "rollback" /\ \E x \in l.madeCapabilities :
           Go(c, "rollback", [l EXCEPT !.madeCapabilities = @ \ {x}, !.errors = TRUE])
  BY <1>l, Zenon DEF Fails
<1>v. ASSUME NEW new, NEW to \in {"rollback", "undo"}, Go(c, to, new), Traced(to, new)
      PROVE  Ledger(at[c], local[c])' /\ Traced(at[c], local[c])'
  <2>1. Ledger(to, new)
    BY DEF Ledger, Forward
  <2> QED
    BY <1>s, <1>v, <2>1, SameBooks, GoFrame, Rewritten
<1>2. CASE at[c] \in {"create", "remove", "update", "install"} /\ Raise(c, l)
  <2>1. Go(c, "rollback", l) /\ Traced("rollback", l)
    BY <1>t, <1>2 DEF Raise, Traced, Doing
  <2> QED
    BY <1>v, <2>1
<1>3. CASE at[c] = "put" /\ (Go(c, "undo", l) \/ (l.op = "update" /\ Leave(c)))
  <2>1. Go(c, "undo", l) /\ Traced("undo", l)
    BY <1>t, <1>3 DEF Traced, Doing
  <2> QED
    BY <1>v, <2>1
<1>4. CASE at[c] \in {"get", "undo"} /\ Raise(c, [l EXCEPT !.missed = TRUE])
  <2>1. PICK new : new = [l EXCEPT !.missed = TRUE]
    OBVIOUS
  <2>2. new.missed /\ new.op = "install"
    BY <1>t, <2>1 DEF LocalsType
  <2>3. Go(c, "rollback", new) /\ Traced("rollback", new)
    BY <1>4, <2>1, <2>2 DEF Raise, Traced
  <2> QED
    BY <1>v, <2>3
<1>5. CASE at[c] \in {"delete", "pop"} /\ Raise(c, [l EXCEPT !.errors = TRUE])
  <2>1. PICK new : new = [l EXCEPT !.errors = TRUE]
    OBVIOUS
  <2>2. new.errors /\ new.op = "install"
    BY <1>t, <2>1 DEF LocalsType
  <2>3. Go(c, "rollback", new) /\ Traced("rollback", new)
    BY <1>5, <2>1, <2>2 DEF Raise, Traced
  <2> QED
    BY <1>v, <2>3
<1>6. CASE \E x \in l.madeCapabilities :
             Go(c, "rollback", [l EXCEPT !.madeCapabilities = @ \ {x}, !.errors = TRUE])
  <2>1. PICK x \in l.madeCapabilities : Go(c, "rollback", [l EXCEPT !.madeCapabilities = @ \ {x}, !.errors = TRUE])
    BY <1>6
  <2>2. PICK new : new = [l EXCEPT !.madeCapabilities = @ \ {x}, !.errors = TRUE]
    OBVIOUS
  <2>3. new.errors
    BY <1>t, <2>2 DEF LocalsType
  <2>4. Go(c, "rollback", new) /\ Traced("rollback", new)
    BY <2>1, <2>2, <2>3 DEF Traced
  <2> QED
    BY <1>v, <2>4
<1> QED
  BY <1>1, <1>2, <1>3, <1>4, <1>5, <1>6

\* A request that goes on keeps its kind; one that begins, other than an installation, is of another kind.
GoesOn(c) ==
  \/ Install(c)
  \/ at'[c] \in {"idle", "probe"}
  \/ at[c] = "idle" /\ local'[c].op # "install" /\ Role(at'[c], local'[c])
  \/ Busy(c) /\ local'[c].op = local[c].op /\ Role(at'[c], local'[c])

\* A request keeps its role: by going to its next step,
LEMMA GoesTo ==
  ASSUME TypeOK, NEW c \in Clients, Busy(c), NEW to, NEW l, Go(c, to, l), l.op = local[c].op, Role(to, l)
  PROVE  GoesOn(c)
  BY GoFrame DEF GoesOn

\* by beginning,
LEMMA Begins ==
  ASSUME TypeOK, NEW c \in Clients, NEW to, NEW l, Enter(c, to, l), l.op # "install", Role(to, l)
  PROVE  GoesOn(c)
<1>1. at[c] = "idle" /\ at'[c] = to /\ local'[c] = l
  BY DEF Enter, TypeOK
<1> QED
  BY <1>1 DEF GoesOn

\* by leaving,
LEMMA Stops ==
  ASSUME TypeOK, NEW c \in Clients, Leave(c) PROVE GoesOn(c)
  BY LeaveFrame DEF GoesOn

\* by raising;
LEMMA FailsOrNot ==
  ASSUME TypeOK, NEW c \in Clients, Busy(c), NEW l, Raise(c, l), l.op = local[c].op PROVE GoesOn(c)
  BY GoesTo, Stops DEF Raise, Role

\* so any step of a request does,
LEMMA RequestGoesOn ==
  ASSUME Inv, NEW c \in Clients, Role(at[c], local[c]), Request(c)
  PROVE  GoesOn(c)
<1> USE DEF Inv
<1>l. PICK l : l = local[c]
  OBVIOUS
<1>t. l \in LocalsType
  BY <1>l, InstallFields
<1>1. CASE DeleteCapability(c)
  <2>1. PICK m : Enter(c, "remove", m) /\ m.op = "none"
    BY <1>1 DEF DeleteCapability, Locals
  <2> QED
    BY <2>1, Begins DEF Role
<1>2. CASE SaveFlow(c)
  <2>1. PICK d \in Drafts : Enter(c, "create", [Locals EXCEPT !.op = "save", !.flow = Pinned(d)])
    BY <1>2 DEF SaveFlow
  <2>2. PICK m : m = [Locals EXCEPT !.op = "save", !.flow = Pinned(d)]
    OBVIOUS
  <2>3. m.op = "save"
    BY <2>2 DEF Locals
  <2> QED
    BY <2>1, <2>2, <2>3, Begins DEF Role
<1>3. CASE UpdateFlow(c)
  <2>1. PICK d \in Drafts, t \in Existing : Enter(c, "update", [Locals EXCEPT !.op = "update", !.task = t, !.flow = Pinned(d)])
    BY <1>3 DEF UpdateFlow
  <2>2. PICK m : m = [Locals EXCEPT !.op = "update", !.task = t, !.flow = Pinned(d)]
    OBVIOUS
  <2>3. m.op = "update"
    BY <2>2 DEF Locals
  <2> QED
    BY <2>1, <2>2, <2>3, Begins DEF Role
<1>4. CASE DeleteFlow(c)
  <2>1. PICK t \in Existing : Enter(c, "delete", [Locals EXCEPT !.op = "delete", !.task = t])
    BY <1>4 DEF DeleteFlow
  <2>2. PICK m : m = [Locals EXCEPT !.op = "delete", !.task = t]
    OBVIOUS
  <2>3. m.op = "delete"
    BY <2>2 DEF Locals
  <2> QED
    BY <2>1, <2>2, <2>3, Begins DEF Role
<1>5. CASE Probe(c)
  <2>1. PICK m : Go(c, "probe", m)
    BY <1>5 DEF Probe
  <2> QED
    BY <2>1, GoFrame DEF GoesOn
<1>6. CASE Remove(c) \/ UpdateProbe(c) \/ InstallReturns(c)
  BY <1>6, Stops DEF Remove, UpdateProbe, InstallReturns
<1>7. CASE Create(c)
  <2>1. PICK t : Go(c, "put", [l EXCEPT !.task = t])
    BY <1>7, <1>l DEF Create
  <2>2. PICK m : m = [l EXCEPT !.task = t]
    OBVIOUS
  <2>2a. m.op = l.op
    BY <1>t, <2>2 DEF LocalsType
  <2> QED
    BY <1>7, <1>l, <2>1, <2>2, <2>2a, GoesTo DEF Role, Create, Busy
<1>8. CASE Update(c) \/ PutOverride(c) \/ Delete(c)
  <2>1. PICK to \in {"put", "get", "pop"} : Go(c, to, l) /\ Busy(c)
    BY <1>8, <1>l DEF Update, PutOverride, Delete, Busy
  <2> QED
    BY <1>l, <2>1, GoesTo DEF Role
<1>9. CASE GetSaved(c)
  <2>1. PICK m : m = [l EXCEPT !.madeTasks = @ \cup {l.task}]
    OBVIOUS
  <2>1a. m.op = l.op
    BY <1>t, <2>1 DEF LocalsType
  <2> QED
    BY <1>9, <1>l, <2>1, <2>1a, GoesTo, Stops DEF Role, GetSaved, Busy
<1>10. CASE Pop(c) \/ Undo(c)
  BY <1>10, <1>l, GoesTo, Stops DEF Role, Pop, Undo, Raise, Busy
<1>11. CASE Install(c)
  BY <1>11 DEF GoesOn
<1>12. CASE InstallCapability(c)
  <2>1. PICK x : Go(c, "install", [l EXCEPT !.todo.capabilities[x] = 0, !.madeCapabilities = @ \cup {x}])
    BY <1>12, <1>l DEF InstallCapability
  <2>2. PICK m : m = [l EXCEPT !.todo.capabilities[x] = 0, !.madeCapabilities = @ \cup {x}]
    OBVIOUS
  <2>2a. m.op = l.op
    BY <1>t, <2>2 DEF LocalsType
  <2> QED
    BY <1>12, <1>l, <2>1, <2>2, <2>2a, GoesTo DEF Role, InstallCapability, Busy
<1>13. CASE InstallFlow(c)
  <2>1. PICK d : Go(c, "create", [l EXCEPT !.flow = Pinned(d), !.todo.flows = @ \ {d}])
    BY <1>13, <1>l DEF InstallFlow
  <2>2. PICK m : m = [l EXCEPT !.flow = Pinned(d), !.todo.flows = @ \ {d}]
    OBVIOUS
  <2>2a. m.op = l.op
    BY <1>t, <2>2 DEF LocalsType
  <2> QED
    BY <1>13, <1>l, <2>1, <2>2, <2>2a, GoesTo DEF Role, InstallFlow, Busy
<1>14. CASE Installed(c) \/ RolledBack(c)
  <2>1. PICK to : Go(c, to, l)
    BY <1>14, <1>l DEF Installed, RolledBack
  <2> QED
    BY <1>14, <1>l, <2>1, GoesTo DEF Role, Installed, RolledBack, Busy
<1>15. CASE RollbackFlow(c)
  <2>1. PICK t : Go(c, "delete", [l EXCEPT !.task = t, !.madeTasks = @ \ {t}])
    BY <1>15, <1>l DEF RollbackFlow
  <2>2. PICK m : m = [l EXCEPT !.task = t, !.madeTasks = @ \ {t}]
    OBVIOUS
  <2>2a. m.op = l.op
    BY <1>t, <2>2 DEF LocalsType
  <2> QED
    BY <1>15, <1>l, <2>1, <2>2, <2>2a, GoesTo DEF Role, RollbackFlow, Busy
<1>16. CASE RollbackCapability(c)
  <2>1. PICK x, e : Go(c, "rollback", [l EXCEPT !.madeCapabilities = @ \ {x}, !.errors = @ \/ e])
    BY <1>16, <1>l DEF RollbackCapability
  <2>2. PICK m : m = [l EXCEPT !.madeCapabilities = @ \ {x}, !.errors = @ \/ e]
    OBVIOUS
  <2>2a. m.op = l.op
    BY <1>t, <2>2 DEF LocalsType
  <2> QED
    BY <1>16, <1>l, <2>1, <2>2, <2>2a, GoesTo DEF Role, RollbackCapability, Busy
<1> QED
  BY <1>1, <1>2, <1>3, <1>4, <1>5, <1>6, <1>7, <1>8, <1>9, <1>10, <1>11, <1>12, <1>13, <1>14, <1>15, <1>16 DEF Request

\* and any access that raises.
LEMMA FailingGoesOn ==
  ASSUME Inv, NEW c \in Clients, Role(at[c], local[c]), Fails(c)
  PROVE  GoesOn(c) /\ Busy(c)
<1> USE DEF Inv
<1>l. PICK l : l = local[c]
  OBVIOUS
<1>t. l \in LocalsType
  BY <1>l, InstallFields
<1>1. \/ at[c] \in {"create", "remove", "update", "install"} /\ Raise(c, l)
      \/ at[c] = "put" /\ (Go(c, "undo", l) \/ Leave(c))
      \/ at[c] \in {"get", "undo"} /\ Raise(c, [l EXCEPT !.missed = TRUE])
      \/ at[c] \in {"delete", "pop"} /\ Raise(c, [l EXCEPT !.errors = TRUE])
      \/ at[c] = "rollback" /\ \E x \in l.madeCapabilities :
           Go(c, "rollback", [l EXCEPT !.madeCapabilities = @ \ {x}, !.errors = TRUE])
  BY <1>l, Zenon DEF Fails
<1>b. Busy(c)
  BY <1>1 DEF Busy
<1>2. CASE Raise(c, l)
  BY <1>b, <1>l, <1>2, FailsOrNot
<1>3. CASE Go(c, "undo", l) \/ Leave(c)
  BY <1>b, <1>l, <1>3, GoesTo, Stops DEF Role
<1>4. CASE Raise(c, [l EXCEPT !.missed = TRUE])
  <2>1. PICK m : m = [l EXCEPT !.missed = TRUE]
    OBVIOUS
  <2>1a. m.op = l.op
    BY <1>t, <2>1 DEF LocalsType
  <2> QED
    BY <1>b, <1>l, <1>4, <2>1, <2>1a, FailsOrNot
<1>5. CASE Raise(c, [l EXCEPT !.errors = TRUE])
  <2>1. PICK m : m = [l EXCEPT !.errors = TRUE]
    OBVIOUS
  <2>1a. m.op = l.op
    BY <1>t, <2>1 DEF LocalsType
  <2> QED
    BY <1>b, <1>l, <1>5, <2>1, <2>1a, FailsOrNot
<1>6. CASE at[c] = "rollback" /\ \E x \in l.madeCapabilities :
             Go(c, "rollback", [l EXCEPT !.madeCapabilities = @ \ {x}, !.errors = TRUE])
  <2>1. PICK x : Go(c, "rollback", [l EXCEPT !.madeCapabilities = @ \ {x}, !.errors = TRUE])
    BY <1>6
  <2>2. PICK m : m = [l EXCEPT !.madeCapabilities = @ \ {x}, !.errors = TRUE]
    OBVIOUS
  <2>2a. m.op = l.op
    BY <1>t, <2>2 DEF LocalsType
  <2> QED
    BY <1>b, <1>l, <1>6, <2>1, <2>2, <2>2a, GoesTo DEF Role
<1> QED
  BY <1>b, <1>1, <1>2, <1>3, <1>4, <1>5, <1>6

\* A step of anybody else.
LEMMA OthersStep ==
  ASSUME Inv, NEW c \in Clients, NEW k \in Clients, k # c, Request(k) \/ Fails(k)
  PROVE  UNCHANGED <<at[c], local[c]>> /\ (Busy(c) => UNCHANGED store)
<1> USE DEF Inv
<1>1. CASE Request(k)
  <2>1. at'[c] = at[c] /\ local'[c] = local[c]
    BY <1>1
    DEF Request, DeleteCapability, Remove, Probe, UpdateProbe, SaveFlow, UpdateFlow, DeleteFlow, Create, Update,
        PutOverride, GetSaved, Delete, Pop, Undo, Raise, Install, InstallCapability, InstallFlow, Installed,
        RollbackFlow, RollbackCapability, RolledBack, InstallReturns, Enter, Go, Leave, TypeOK
  <2> QED
    BY <1>1, <2>1, OthersWait
<1>2. CASE Fails(k)
  <2>1. UNCHANGED store
    BY <1>2, Zenon DEF Fails
  <2>2. \/ \E to, l : Go(k, to, l)
        \/ Leave(k)
    BY <1>2, Zenon DEF Fails, Raise
  <2>3. at'[c] = at[c] /\ local'[c] = local[c]
    BY <2>2 DEF Go, Leave, TypeOK
  <2> QED
    BY <2>1, <2>3
<1> QED
  BY <1>1, <1>2

\* The kind of every request is kept.
LEMMA RolesKept ==
  ASSUME Inv, Books, Next, NEW c \in Clients
  PROVE  Role(at[c], local[c])'
<1> USE DEF Inv
<1>r. Role(at[c], local[c])
  BY DEF Books
<1>1. CASE SaveCapability \/ CreateTask \/ InstallSample
  BY <1>r, <1>1 DEF SaveCapability, CreateTask, InstallSample, Role
<1>2. CASE Crash
  BY <1>2 DEF Crash, Role
<1>3. CASE Request(c) \/ Fails(c)
  <2>1. GoesOn(c)
    BY <1>r, <1>3, RequestGoesOn, FailingGoesOn
  <2>2. CASE Install(c)
    <3>1. local'[c].op = "install"
      BY <2>2 DEF Install, Enter, Locals, TypeOK
    <3> QED
      BY <3>1 DEF Role
  <2> QED
    BY <2>1, <2>2 DEF GoesOn, Role
<1>4. ASSUME NEW k \in Clients, k # c, Request(k) \/ Fails(k) PROVE Role(at[c], local[c])'
  <2>1. at'[c] = at[c] /\ local'[c] = local[c]
    BY <1>4, OthersStep
  <2> QED
    BY <1>r, <2>1 DEF Role
<1> QED
  BY <1>1, <1>2, <1>3, <1>4 DEF Next

\* Whoever is installing afterwards has just begun, has made the step, or was left alone by it.
LEMMA WhoInstalls ==
  ASSUME Inv, Books, Next, NEW c \in Clients, Installing(c)'
  PROVE  \/ Install(c)
         \/ Installing(c) /\ (Request(c) \/ Fails(c))
         \/ Installing(c) /\ UNCHANGED <<store, at[c], local[c]>>
<1> USE DEF Inv
<1>0. at'[c] \notin {"idle", "probe"} /\ local'[c].op = "install"
  BY DEF Installing, Busy
<1>1. CASE SaveCapability \/ CreateTask \/ InstallSample
  <2>1. UNCHANGED <<at[c], local[c]>> /\ (owner = NoClient \/ ~Up)
    BY <1>1 DEF SaveCapability, CreateTask, InstallSample, Up
  <2>2. Installing(c) /\ ~Busy(c)
    BY <1>0, <2>1, Quiet DEF Installing, Busy
  <2> QED
    BY <2>2 DEF Installing
<1>2. CASE Crash
  BY <1>0, <1>2 DEF Crash
<1>3. CASE Request(c) \/ Fails(c)
  <2>1. GoesOn(c)
    BY <1>3, RequestGoesOn, FailingGoesOn DEF Books
  <2> QED
    BY <1>0, <1>3, <2>1 DEF GoesOn, Installing
<1>4. ASSUME NEW k \in Clients, k # c, Request(k) \/ Fails(k)
      PROVE  Installing(c) /\ UNCHANGED <<store, at[c], local[c]>>
  <2>1. UNCHANGED <<at[c], local[c]>> /\ (Busy(c) => UNCHANGED store)
    BY <1>4, OthersStep
  <2>2. Installing(c)
    BY <1>0, <2>1 DEF Installing, Busy
  <2> QED
    BY <2>1, <2>2 DEF Installing
<1> QED
  BY <1>1, <1>2, <1>3, <1>4 DEF Next

\* The books are kept.
LEMMA BooksKept == Inv /\ Books /\ [Next]_vars => Books'
<1> SUFFICES ASSUME Inv, Books, [Next]_vars PROVE Books'
  OBVIOUS
<1>1. CASE UNCHANGED vars
  <2>1. UNCHANGED store /\ used' = used
    BY <1>1 DEF vars, store
  <2>2. ASSUME NEW c \in Clients
        PROVE  Role(at[c], local[c])' /\ (Installing(c)' => Ledger(at[c], local[c])' /\ Traced(at[c], local[c])')
    <3>1. at'[c] = at[c] /\ local'[c] = local[c]
      BY <1>1 DEF vars
    <3>2. PICK step, l : step = at[c] /\ l = local[c]
      OBVIOUS
    <3>3. Role(at[c], local[c])'
      BY <3>1 DEF Books, Role
    <3>4. ASSUME Installing(c)' PROVE Ledger(at[c], local[c])' /\ Traced(at[c], local[c])'
      <4>1. Ledger(step, l) /\ Traced(step, l)
        BY <3>1, <3>2, <3>4 DEF Books, Installing, Busy
      <4>2. Ledger(step, l)' /\ Traced(step, l)'
        BY <2>1, <4>1, SameBooks
      <4> QED
        BY <3>1, <3>2, <4>2, Rewritten
    <3> QED
      BY <3>3, <3>4
  <2> QED
    BY <2>1, <2>2 DEF Books
<1>2. CASE Next
  <2>1. used \subseteq used'
    <3>1. ASSUME NEW c \in Clients, Request(c) PROVE used \subseteq used'
      BY <3>1
      DEF Request, store, DeleteCapability, Remove, Probe, UpdateProbe, SaveFlow, UpdateFlow, DeleteFlow, Create, Update,
          PutOverride, GetSaved, Delete, Pop, Undo, Install, InstallCapability, InstallFlow, Installed,
          RollbackFlow, RollbackCapability, RolledBack, InstallReturns
    <3>2. ASSUME NEW c \in Clients, Fails(c) PROVE UNCHANGED store
      BY <3>2, Zenon DEF Fails
    <3> QED
      BY <1>2, <3>1, <3>2 DEF Next, SaveCapability, CreateTask, Crash, InstallSample, store
  <2>2. ASSUME NEW c \in Clients, Installing(c)' PROVE Ledger(at[c], local[c])' /\ Traced(at[c], local[c])'
    <3>1. CASE Install(c)
      BY <3>1, InstallBooks DEF Books
    <3>2. ASSUME Installing(c), Request(c) PROVE Ledger(at[c], local[c])' /\ Traced(at[c], local[c])'
      <4>1. Ledger(at[c], local[c]) /\ Traced(at[c], local[c]) /\ at[c] \notin {"idle", "probe", "update", "remove"}
        BY <3>2 DEF Books, Installing, Busy, Inv, Clean, Good, Own
      <4>2. ~Probe(c) /\ ~UpdateProbe(c) /\ ~DeleteCapability(c) /\ ~SaveFlow(c) /\ ~UpdateFlow(c) /\ ~DeleteFlow(c) /\ ~Install(c)
        BY <4>1 DEF Probe, UpdateProbe, DeleteCapability, SaveFlow, UpdateFlow, DeleteFlow, Install, Enter
      <4>3. ~Remove(c) /\ ~Update(c)
        BY <4>1 DEF Remove, Update
      <4>4. ~InstallReturns(c)
        BY <2>2 DEF InstallReturns, Leave, Installing, Busy, Inv, TypeOK
      <4> QED
        BY <3>2, <4>1, <4>2, <4>3, <4>4, GoingBooks, InstallCapabilityBooks, CreateBooks, PutBooks, BackBooks
        DEF Request, Books
    <3>3. CASE Installing(c) /\ Fails(c)
      BY <3>3, FailsBooks DEF Books
    <3>4. CASE Installing(c) /\ UNCHANGED <<store, at[c], local[c]>>
      BY <3>4, SameBooks, Rewritten DEF Books
    <3> QED
      BY <1>2, <2>2, <3>1, <3>2, <3>3, <3>4, WhoInstalls
  <2>3. \A c \in Clients : Role(at[c], local[c])'
    BY <1>2, RolesKept
  <2> QED
    BY <2>1, <2>2, <2>3 DEF Books
<1> QED
  BY <1>1, <1>2

\* How far an installation has come, and what is there because of it.
THEOREM InstallationBooked == Spec => []Books
<1>1. Init => Books
  BY CatalogAssumption DEF Init, Books, Installing, Busy, Role
<1> QED
  BY <1>1, BooksKept, CatalogInvariance, PTL DEF Spec

\* What a receipt says is there, once and as the bundle has it: IntegrationBundleInstaller.install.
THEOREM ReceiptsHold == Spec => []ReceiptHolds
<1>1. Inv /\ Books => ReceiptHolds
  <2> SUFFICES ASSUME Inv, Books, NEW c \in Clients, at[c] = "receipt"
               PROVE  /\ \A x \in Wanted(local[c].bundle) : capabilities[x].fingerprint = local[c].bundle.capabilities[x]
                      /\ \A d \in local[c].bundle.flows :
                           \E t \in Existing : Matches(d) = {t} /\ Shown(t) = Proposed(local[c].bundle, d)
    BY DEF ReceiptHolds
  <2>1. local[c].op = "install"
    BY DEF Books, Role
  <2>2. PICK l : l = local[c] /\ Ledger("receipt", l)
    BY <2>1 DEF Books, Installing, Busy
  <2> QED
    BY <2>2 DEF Ledger, Forward, Current, Done, Wanted
<1> QED
  BY <1>1, InstallationBooked, CatalogInvariance, PTL

\* A rollback that reports no error has taken everything back: IntegrationBundleInstaller._rollback.
THEOREM RollbacksComplete == Spec => []RollbackComplete
<1>1. Inv /\ Books => RollbackComplete
  <2> SUFFICES ASSUME Inv, Books, NEW c \in Clients, at[c] = "rolled_back", ~local[c].errors, ~local[c].missed
               PROVE  local[c].before = <<Listed, Existing>>
    BY DEF RollbackComplete
  <2>1. local[c].op = "install"
    BY DEF Books, Role
  <2>2. PICK l : l = local[c] /\ Traced("rolled_back", l)
    BY <2>1 DEF Books, Installing, Busy
  <2>3. l.before[1] = Listed /\ l.before[2] = Existing
    BY <2>2 DEF Traced, Doing
  <2>4. l.before = <<l.before[1], l.before[2]>>
    BY <2>2, InstallFields DEF Inv
  <2> QED
    BY <2>2, <2>3, <2>4
<1> QED
  BY <1>1, InstallationBooked, CatalogInvariance, PTL

-----------------------------------------------------------------------------
(* How long a request can run.                                             *)

\* A bundle is a JSON document: it brings finitely many Capabilities and Flows.
FiniteBundles == \A b \in Bundles : IsFiniteSet(Wanted(b)) /\ IsFiniteSet(b.flows)

\* What an installation with these locals has still to do, or to take back,
TodoOf(l) == {x \in Capabilities : l.todo.capabilities[x] # 0}
Counted(l) ==
  /\ IsFiniteSet(l.todo.flows) /\ IsFiniteSet(l.madeTasks)
  /\ IsFiniteSet(TodoOf(l)) /\ IsFiniteSet(l.madeCapabilities)
Sizes(l) ==
  8 * Cardinality(l.todo.flows) + 3 * Cardinality(l.madeTasks)
    + 2 * Cardinality(TodoOf(l)) + Cardinality(l.madeCapabilities)

\* how far a step is from its request's end, or from the next round of it,
Place(step) ==
  CASE step = "idle" -> 0
    [] step \in {"remove", "probe", "receipt", "rolled_back"} -> 1
    [] step = "rollback" -> 2
    [] step \in {"pop", "install"} -> 3
    [] step = "delete" -> 4
    [] step \in {"get", "undo"} -> 8
    [] step = "put" -> 9
    [] step \in {"create", "update"} -> 10

\* and a bound on the steps that the request of c may still take.
Weight(step, l) == Place(step) + Sizes(l)
StepsLeft(c) == Weight(at[c], local[c])

NearerEnd(c) ==
  /\ StepsLeft(c) \in Nat
  /\ StepsLeft(c)' <= StepsLeft(c)
  /\ Request(c) \/ Fails(c) => StepsLeft(c)' < StepsLeft(c)

\* mutation_lock is held by a request that still has steps to take, and each of
\* them, also one that fails or takes another back, brings the request nearer to
\* its end: there is no retry, and a rollback does not start over.
LockHeldInside == owner # NoClient => at[owner] \notin {"idle", "probe"}
RequestsEnd ==
  /\ []LockHeldInside
  /\ [][\A c \in Clients : at[c] # "idle" => NearerEnd(c)]_vars

\* What a request goes through: it begins with locals that can be counted,
Opens(c) ==
  \E m : /\ Counted(m)
         /\ \/ at[c] = "idle" /\ Go(c, "probe", m)
            \/ \E to \in Steps \ {"idle", "probe"} : Enter(c, to, m)

\* goes on with less to do,
Advances(c) ==
  \E to \in Steps \ {"idle", "probe"} : \E m :
    Go(c, to, m) /\ Counted(m) /\ Weight(to, m) < Weight(at[c], local[c])

\* or leaves.
Proceeds(c) ==
  \/ Leave(c) /\ at[c] # "idle"
  \/ Advances(c) /\ Busy(c)

\* The bound is a number.
LEMMA SizesNatural == ASSUME NEW l, Counted(l) PROVE Sizes(l) \in Nat
<1>1. /\ Cardinality(l.todo.flows) \in Nat /\ Cardinality(l.madeTasks) \in Nat
      /\ Cardinality(TodoOf(l)) \in Nat /\ Cardinality(l.madeCapabilities) \in Nat
  BY FS_CardinalityType DEF Counted
<1> QED
  BY <1>1 DEF Sizes

\* So is the place of every step.
LEMMA PlaceNatural == ASSUME NEW step \in Steps PROVE Place(step) \in Nat
  BY DEF Steps, Place

\* A request that has not begun has nothing to do.
LEMMA LocalsCounted == Counted(Locals) /\ Sizes(Locals) = 0
<1>1. /\ Locals.todo.flows = {} /\ Locals.madeTasks = {} /\ Locals.madeCapabilities = {}
      /\ TodoOf(Locals) = {}
  BY DEF Locals, NoBundle, NoPins, TodoOf
<1>2. IsFiniteSet({}) /\ Cardinality({}) = 0
  BY FS_EmptySet
<1> QED
  BY <1>1, <1>2 DEF Counted, Sizes

\* A step that leaves the four sets as they are goes down by its place.
LEMMA SameSizes ==
  ASSUME NEW l, NEW m, Counted(l),
         m.todo = l.todo, m.madeTasks = l.madeTasks, m.madeCapabilities = l.madeCapabilities
  PROVE  Counted(m) /\ Sizes(m) = Sizes(l)
  BY DEF Counted, Sizes, TodoOf

\* A task that was made is one more to take back.
LEMMA TaskMade ==
  ASSUME NEW l, NEW m, NEW t, Counted(l), m.todo = l.todo,
         m.madeTasks = l.madeTasks \cup {t}, m.madeCapabilities = l.madeCapabilities
  PROVE  Counted(m) /\ Sizes(m) <= Sizes(l) + 3
<1>0. PICK S : S = l.madeTasks
  OBVIOUS
<1>a. IsFiniteSet(S) /\ Cardinality(S) \in Nat
  BY <1>0, FS_CardinalityType DEF Counted
<1>b. IsFiniteSet(S \cup {t}) /\ Cardinality(S \cup {t}) \in {Cardinality(S), Cardinality(S) + 1}
  BY <1>a, FS_AddElement
<1>1. /\ IsFiniteSet(m.madeTasks) /\ Cardinality(l.madeTasks) \in Nat
      /\ Cardinality(m.madeTasks) \in {Cardinality(l.madeTasks), Cardinality(l.madeTasks) + 1}
  BY <1>0, <1>a, <1>b
<1>2. TodoOf(m) = TodoOf(l) /\ m.todo.flows = l.todo.flows
  BY DEF TodoOf
<1>3. Counted(m)
  BY <1>1, <1>2 DEF Counted
<1>4. /\ Cardinality(l.todo.flows) \in Nat
      /\ Cardinality(TodoOf(l)) \in Nat /\ Cardinality(l.madeCapabilities) \in Nat
  BY FS_CardinalityType DEF Counted
<1> QED
  BY <1>1, <1>2, <1>3, <1>4 DEF Sizes

\* A task that is about to be deleted is one less.
LEMMA TaskTaken ==
  ASSUME NEW l, NEW m, NEW t \in l.madeTasks, Counted(l), m.todo = l.todo,
         m.madeTasks = l.madeTasks \ {t}, m.madeCapabilities = l.madeCapabilities
  PROVE  Counted(m) /\ Sizes(m) = Sizes(l) - 3
<1>1. /\ IsFiniteSet(m.madeTasks) /\ Cardinality(l.madeTasks) \in Nat
      /\ Cardinality(m.madeTasks) = Cardinality(l.madeTasks) - 1
  BY FS_RemoveElement, FS_CardinalityType DEF Counted
<1>2. TodoOf(m) = TodoOf(l) /\ m.todo.flows = l.todo.flows
  BY DEF TodoOf
<1>3. Counted(m)
  BY <1>1, <1>2 DEF Counted
<1>4. /\ Cardinality(l.todo.flows) \in Nat
      /\ Cardinality(TodoOf(l)) \in Nat /\ Cardinality(l.madeCapabilities) \in Nat
  BY FS_CardinalityType DEF Counted
<1> QED
  BY <1>1, <1>2, <1>3, <1>4 DEF Sizes

\* So is a Capability that was taken back, or could not be.
LEMMA CapabilityTaken ==
  ASSUME NEW l, NEW m, NEW x \in l.madeCapabilities, Counted(l), m.todo = l.todo,
         m.madeTasks = l.madeTasks, m.madeCapabilities = l.madeCapabilities \ {x}
  PROVE  Counted(m) /\ Sizes(m) = Sizes(l) - 1
<1>1. /\ IsFiniteSet(m.madeCapabilities) /\ Cardinality(l.madeCapabilities) \in Nat
      /\ Cardinality(m.madeCapabilities) = Cardinality(l.madeCapabilities) - 1
  BY FS_RemoveElement, FS_CardinalityType DEF Counted
<1>2. TodoOf(m) = TodoOf(l) /\ m.todo.flows = l.todo.flows
  BY DEF TodoOf
<1>3. Counted(m)
  BY <1>1, <1>2 DEF Counted
<1>4. /\ Cardinality(l.todo.flows) \in Nat
      /\ Cardinality(TodoOf(l)) \in Nat /\ Cardinality(l.madeTasks) \in Nat
  BY FS_CardinalityType DEF Counted
<1> QED
  BY <1>1, <1>2, <1>3, <1>4 DEF Sizes

\* A Capability to install costs two, so that what was made can be taken back.
LEMMA CapabilityMade ==
  ASSUME NEW l, NEW m, NEW x \in TodoOf(l), Counted(l), m.todo.flows = l.todo.flows,
         TodoOf(m) = TodoOf(l) \ {x}, m.madeTasks = l.madeTasks,
         m.madeCapabilities = l.madeCapabilities \cup {x}
  PROVE  Counted(m) /\ Sizes(m) < Sizes(l)
<1>0. PICK S : S = l.madeCapabilities
  OBVIOUS
<1>a. IsFiniteSet(S) /\ Cardinality(S) \in Nat
  BY <1>0, FS_CardinalityType DEF Counted
<1>b. IsFiniteSet(S \cup {x}) /\ Cardinality(S \cup {x}) \in {Cardinality(S), Cardinality(S) + 1}
  BY <1>a, FS_AddElement
<1>1. /\ IsFiniteSet(m.madeCapabilities) /\ Cardinality(l.madeCapabilities) \in Nat
      /\ Cardinality(m.madeCapabilities) \in {Cardinality(l.madeCapabilities), Cardinality(l.madeCapabilities) + 1}
  BY <1>0, <1>a, <1>b
<1>2. /\ IsFiniteSet(TodoOf(m)) /\ Cardinality(TodoOf(l)) \in Nat
      /\ Cardinality(TodoOf(m)) = Cardinality(TodoOf(l)) - 1
  BY FS_RemoveElement, FS_CardinalityType DEF Counted
<1>3. Counted(m)
  BY <1>1, <1>2 DEF Counted
<1>4. Cardinality(l.todo.flows) \in Nat /\ Cardinality(l.madeTasks) \in Nat
  BY FS_CardinalityType DEF Counted
<1> QED
  BY <1>1, <1>2, <1>3, <1>4 DEF Sizes

\* A Flow to install costs eight: what its saving takes, and its deletion.
LEMMA FlowTaken ==
  ASSUME NEW l, NEW m, NEW d \in l.todo.flows, Counted(l), m.todo.flows = l.todo.flows \ {d},
         TodoOf(m) = TodoOf(l), m.madeTasks = l.madeTasks, m.madeCapabilities = l.madeCapabilities
  PROVE  Counted(m) /\ Sizes(m) = Sizes(l) - 8
<1>1. /\ IsFiniteSet(m.todo.flows) /\ Cardinality(l.todo.flows) \in Nat
      /\ Cardinality(m.todo.flows) = Cardinality(l.todo.flows) - 1
  BY FS_RemoveElement, FS_CardinalityType DEF Counted
<1>3. Counted(m)
  BY <1>1 DEF Counted
<1>4. /\ Cardinality(l.madeTasks) \in Nat
      /\ Cardinality(TodoOf(l)) \in Nat /\ Cardinality(l.madeCapabilities) \in Nat
  BY FS_CardinalityType DEF Counted
<1> QED
  BY <1>1, <1>3, <1>4 DEF Sizes

\* The place of each step, in numbers.
LEMMA Places ==
  /\ Place("idle") = 0 /\ Place("remove") = 1 /\ Place("probe") = 1 /\ Place("receipt") = 1
  /\ Place("rolled_back") = 1 /\ Place("rollback") = 2 /\ Place("pop") = 3 /\ Place("install") = 3
  /\ Place("delete") = 4 /\ Place("get") = 8 /\ Place("undo") = 8 /\ Place("put") = 9
  /\ Place("create") = 10 /\ Place("update") = 10
  BY DEF Place

\* A request goes on with what it had to do.
LEMMA GoesDown ==
  ASSUME NEW c \in Clients, Busy(c), NEW to \in Steps \ {"idle", "probe"}, NEW m, Go(c, to, m),
         NEW l, l = local[c], Counted(l), Counted(m), NEW step \in Steps, step = at[c],
         Place(to) + Sizes(m) < Place(step) + Sizes(l)
  PROVE  Proceeds(c)
  BY DEF Proceeds, Advances, Weight

\* It raises with what it had to do: whatever its step was, the rollback is below it.
LEMMA RaisesDown ==
  ASSUME NEW c \in Clients, Busy(c), NEW m, Raise(c, m), NEW l, l = local[c], Counted(l),
         NEW step \in Steps, step = at[c], step \notin {"remove", "receipt", "rolled_back", "rollback"},
         m.todo = l.todo, m.madeTasks = l.madeTasks, m.madeCapabilities = l.madeCapabilities
  PROVE  Proceeds(c)
<1>1. Counted(m) /\ Sizes(m) = Sizes(l) /\ Sizes(l) \in Nat
  BY SameSizes, SizesNatural
<1>2. Place("rollback") < Place(step)
  BY Places DEF Steps, Busy
<1>3. Place(step) \in Nat /\ Place("rollback") = 2
  BY Places, PlaceNatural
<1>4. Place("rollback") + Sizes(m) < Place(step) + Sizes(l)
  BY <1>1, <1>2, <1>3
<1>5. "rollback" \in Steps \ {"idle", "probe"}
  BY DEF Steps
<1>6. CASE Go(c, "rollback", m)
  BY <1>1, <1>4, <1>5, <1>6, GoesDown
<1>7. CASE Leave(c)
  BY <1>7 DEF Proceeds, Busy
<1> QED
  BY <1>6, <1>7 DEF Raise

\* The locals of a request that begins, unless it is an installation.
LEMMA OpensCounted ==
  ASSUME NEW m, m.todo = Locals.todo, m.madeTasks = Locals.madeTasks,
         m.madeCapabilities = Locals.madeCapabilities
  PROVE  Counted(m)
<1>1. PICK l : l = Locals
  OBVIOUS
<1> QED
  BY <1>1, LocalsCounted, SameSizes

\* Each step of a request begins it or brings it nearer to its end,
LEMMA RequestProceeds ==
  ASSUME TypeOK, FiniteBundles, NEW c \in Clients, Counted(local[c]), Request(c)
  PROVE  Opens(c) \/ Proceeds(c)
<1>l. PICK l : l = local[c]
  OBVIOUS
<1>t. /\ l \in LocalsType /\ Counted(l) /\ Sizes(l) \in Nat
  BY <1>l, InstallFields, SizesNatural
<1>s. PICK step \in Steps : step = at[c]
  BY DEF TypeOK, Steps
<1>p. Place(step) \in Nat
  BY PlaceNatural
<1>1. CASE DeleteCapability(c)
  <2>1. PICK x : Enter(c, "remove", [Locals EXCEPT !.capability = x])
    BY <1>1 DEF DeleteCapability
  <2>2. PICK m : m = [Locals EXCEPT !.capability = x]
    OBVIOUS
  <2>3. Counted(m)
    BY <2>2, OpensCounted DEF Locals
  <2> QED
    BY <2>1, <2>2, <2>3 DEF Opens, Steps
<1>2. CASE SaveFlow(c)
  <2>1. PICK f : Enter(c, "create", [Locals EXCEPT !.op = "save", !.flow = f])
    BY <1>2 DEF SaveFlow
  <2>2. PICK m : m = [Locals EXCEPT !.op = "save", !.flow = f]
    OBVIOUS
  <2>3. Counted(m)
    BY <2>2, OpensCounted DEF Locals
  <2> QED
    BY <2>1, <2>2, <2>3 DEF Opens, Steps
<1>3. CASE UpdateFlow(c)
  <2>1. PICK f, t : Enter(c, "update", [Locals EXCEPT !.op = "update", !.task = t, !.flow = f])
    BY <1>3 DEF UpdateFlow
  <2>2. PICK m : m = [Locals EXCEPT !.op = "update", !.task = t, !.flow = f]
    OBVIOUS
  <2>3. Counted(m)
    BY <2>2, OpensCounted DEF Locals
  <2> QED
    BY <2>1, <2>2, <2>3 DEF Opens, Steps
<1>4. CASE DeleteFlow(c)
  <2>1. PICK t : Enter(c, "delete", [Locals EXCEPT !.op = "delete", !.task = t])
    BY <1>4 DEF DeleteFlow
  <2>2. PICK m : m = [Locals EXCEPT !.op = "delete", !.task = t]
    OBVIOUS
  <2>3. Counted(m)
    BY <2>2, OpensCounted DEF Locals
  <2> QED
    BY <2>1, <2>2, <2>3 DEF Opens, Steps
<1>5. CASE Probe(c)
  <2>1. PICK x, f : Go(c, "probe", [Locals EXCEPT !.op = "probe", !.capability = x, !.fingerprint = f])
    BY <1>5 DEF Probe
  <2>2. PICK m : m = [Locals EXCEPT !.op = "probe", !.capability = x, !.fingerprint = f]
    OBVIOUS
  <2>3. Counted(m)
    BY <2>2, OpensCounted DEF Locals
  <2>4. at[c] = "idle"
    BY <1>5 DEF Probe
  <2> QED
    BY <2>1, <2>2, <2>3, <2>4 DEF Opens
<1>6. CASE Remove(c) \/ UpdateProbe(c) \/ InstallReturns(c)
  BY <1>6 DEF Remove, UpdateProbe, InstallReturns, Proceeds
<1>7. CASE Create(c)
  <2>1. PICK t : Go(c, "put", [l EXCEPT !.task = t]) /\ at[c] = "create"
    BY <1>7, <1>l DEF Create
  <2>2. PICK m : m = [l EXCEPT !.task = t]
    OBVIOUS
  <2>3. Counted(m) /\ Sizes(m) = Sizes(l)
    BY <1>t, <2>2, SameSizes DEF LocalsType
  <2> QED
    BY <1>l, <1>t, <2>1, <2>2, <2>3, GoesDown, Places DEF Busy, Steps
<1>8. CASE Update(c) \/ PutOverride(c) \/ Delete(c)
  <2>1. PICK to \in {"put", "get", "pop"} :
          /\ Go(c, to, l) /\ step \in {"update", "put", "delete"}
          /\ to = "put" => step = "update"
          /\ to = "get" => step = "put"
          /\ to = "pop" => step = "delete"
    BY <1>8, <1>l, <1>s DEF Update, PutOverride, Delete
  <2>2. Place(to) + Sizes(l) < Place(step) + Sizes(l)
    BY <1>t, <2>1, Places
  <2> QED
    BY <1>l, <1>t, <1>s, <2>1, <2>2, GoesDown DEF Busy, Steps
<1>9. CASE GetSaved(c)
  <2>0. at[c] = "get"
    BY <1>9 DEF GetSaved
  <2>1. CASE Leave(c)
    BY <2>0, <2>1 DEF Proceeds
  <2>2. CASE Go(c, "install", [l EXCEPT !.madeTasks = @ \cup {l.task}])
    <3>1. PICK m : m = [l EXCEPT !.madeTasks = @ \cup {l.task}]
      OBVIOUS
    <3>2. Counted(m) /\ Sizes(m) <= Sizes(l) + 3
      BY <1>t, <3>1, TaskMade DEF LocalsType
    <3>3. Sizes(m) \in Nat
      BY <3>2, SizesNatural
    <3> QED
      BY <1>l, <1>t, <2>0, <2>2, <3>1, <3>2, <3>3, GoesDown, Places DEF Busy, Steps
  <2> QED
    BY <1>9, <1>l, <2>1, <2>2 DEF GetSaved
<1>10. CASE Pop(c)
  <2>0. at[c] = "pop"
    BY <1>10 DEF Pop
  <2>1. Go(c, "rollback", l) \/ Leave(c)
    BY <1>10, <1>l DEF Pop
  <2>2. CASE Go(c, "rollback", l)
    BY <1>l, <1>t, <2>0, <2>2, GoesDown, Places DEF Busy, Steps
  <2> QED
    BY <2>0, <2>1, <2>2 DEF Proceeds
<1>11. CASE Undo(c)
  <2>1. at[c] = "undo" /\ Raise(c, l)
    BY <1>11, <1>l DEF Undo
  <2> QED
    BY <1>l, <1>t, <1>s, <2>1, RaisesDown DEF Busy
<1>12. CASE Install(c)
  <2>1. PICK b \in Bundles :
          Enter(c, "install",
            [Locals EXCEPT !.op = "install", !.bundle = b, !.before = <<Listed, Existing>>,
               !.todo = [capabilities |-> [x \in Capabilities |-> IF x \in New(b) THEN b.capabilities[x] ELSE 0],
                         flows |-> {d \in b.flows : Matches(d) = {}}]])
    BY <1>12 DEF Install
  <2>2. PICK m : m =
            [Locals EXCEPT !.op = "install", !.bundle = b, !.before = <<Listed, Existing>>,
               !.todo = [capabilities |-> [x \in Capabilities |-> IF x \in New(b) THEN b.capabilities[x] ELSE 0],
                         flows |-> {d \in b.flows : Matches(d) = {}}]]
    OBVIOUS
  <2>3. /\ m.todo.flows \subseteq b.flows /\ m.madeTasks = {} /\ m.madeCapabilities = {}
        /\ m.todo.capabilities = [x \in Capabilities |-> IF x \in New(b) THEN b.capabilities[x] ELSE 0]
    BY <2>2 DEF Locals
  <2>4. TodoOf(m) \subseteq Wanted(b)
    BY <2>3 DEF TodoOf, New
  <2>5. IsFiniteSet(m.todo.flows) /\ IsFiniteSet(TodoOf(m))
    BY <2>3, <2>4, FS_Subset DEF FiniteBundles
  <2>6. Counted(m)
    BY <2>3, <2>5, FS_EmptySet DEF Counted
  <2> QED
    BY <2>1, <2>2, <2>6 DEF Opens, Steps
<1>13. CASE InstallCapability(c)
  <2>1. PICK x \in TodoOf(l) :
          /\ Go(c, "install", [l EXCEPT !.todo.capabilities[x] = 0, !.madeCapabilities = @ \cup {x}])
          /\ at[c] = "install"
    BY <1>13, <1>l DEF InstallCapability, Todo, TodoOf
  <2>2. PICK m : m = [l EXCEPT !.todo.capabilities[x] = 0, !.madeCapabilities = @ \cup {x}]
    OBVIOUS
  <2>3. l.todo.capabilities \in Pins /\ l.todo \in Bundle
    BY <1>t DEF LocalsType, Bundle
  <2>4. /\ m.todo = [l.todo EXCEPT !.capabilities[x] = 0] /\ m.madeTasks = l.madeTasks
        /\ m.madeCapabilities = l.madeCapabilities \cup {x}
    BY <1>t, <2>2 DEF LocalsType
  <2>5. m.todo.flows = l.todo.flows /\ m.todo.capabilities = [l.todo.capabilities EXCEPT ![x] = 0]
    BY <2>3, <2>4 DEF Bundle
  <2>6. TodoOf(m) = TodoOf(l) \ {x}
    BY <2>3, <2>5 DEF TodoOf, Pins
  <2>7. Counted(m) /\ Sizes(m) < Sizes(l)
    BY <1>t, <2>4, <2>5, <2>6, CapabilityMade
  <2>8. Sizes(m) \in Nat
    BY <2>7, SizesNatural
  <2> QED
    BY <1>l, <1>t, <2>1, <2>2, <2>7, <2>8, GoesDown, Places DEF Busy, Steps
<1>14. CASE InstallFlow(c)
  <2>1. PICK d, f :
          /\ d \in l.todo.flows
          /\ Go(c, "create", [l EXCEPT !.flow = f, !.todo.flows = @ \ {d}]) /\ at[c] = "install"
    BY <1>14, <1>l DEF InstallFlow
  <2>2. PICK m : m = [l EXCEPT !.flow = f, !.todo.flows = @ \ {d}]
    OBVIOUS
  <2>3. l.todo \in Bundle
    BY <1>t DEF LocalsType
  <2>4. /\ m.todo = [l.todo EXCEPT !.flows = @ \ {d}] /\ m.madeTasks = l.madeTasks
        /\ m.madeCapabilities = l.madeCapabilities
    BY <1>t, <2>2 DEF LocalsType
  <2>5. m.todo.flows = l.todo.flows \ {d} /\ m.todo.capabilities = l.todo.capabilities
    BY <2>3, <2>4 DEF Bundle
  <2>6. TodoOf(m) = TodoOf(l)
    BY <2>5 DEF TodoOf
  <2>7. Counted(m) /\ Sizes(m) = Sizes(l) - 8
    BY <1>t, <2>1, <2>4, <2>5, <2>6, FlowTaken
  <2>8. Sizes(m) \in Nat
    BY <2>7, SizesNatural
  <2> QED
    BY <1>l, <1>t, <2>1, <2>2, <2>7, <2>8, GoesDown, Places DEF Busy, Steps
<1>15. CASE Installed(c) \/ RolledBack(c)
  <2>1. PICK to \in {"receipt", "rolled_back"} : Go(c, to, l) /\ step \in {"install", "rollback"}
    BY <1>15, <1>l, <1>s DEF Installed, RolledBack
  <2>2. Place(to) + Sizes(l) < Place(step) + Sizes(l)
    BY <1>t, <2>1, Places
  <2> QED
    BY <1>l, <1>t, <1>s, <2>1, <2>2, GoesDown DEF Busy, Steps
<1>16. CASE RollbackFlow(c)
  <2>1. PICK t \in l.madeTasks :
          Go(c, "delete", [l EXCEPT !.task = t, !.madeTasks = @ \ {t}]) /\ at[c] = "rollback"
    BY <1>16, <1>l DEF RollbackFlow
  <2>2. PICK m : m = [l EXCEPT !.task = t, !.madeTasks = @ \ {t}]
    OBVIOUS
  <2>2a. /\ m.todo = l.todo /\ m.madeTasks = l.madeTasks \ {t}
         /\ m.madeCapabilities = l.madeCapabilities
    BY <1>t, <2>2 DEF LocalsType
  <2>3. Counted(m) /\ Sizes(m) = Sizes(l) - 3
    BY <1>t, <2>2a, TaskTaken
  <2>4. Sizes(m) \in Nat
    BY <2>3, SizesNatural
  <2> QED
    BY <1>l, <1>t, <2>1, <2>2, <2>3, <2>4, GoesDown, Places DEF Busy, Steps
<1>17. CASE RollbackCapability(c)
  <2>1. PICK x, e :
          /\ x \in l.madeCapabilities
          /\ Go(c, "rollback", [l EXCEPT !.madeCapabilities = @ \ {x}, !.errors = @ \/ e])
          /\ at[c] = "rollback"
    BY <1>17, <1>l DEF RollbackCapability
  <2>2. PICK m : m = [l EXCEPT !.madeCapabilities = @ \ {x}, !.errors = @ \/ e]
    OBVIOUS
  <2>2a. /\ m.todo = l.todo /\ m.madeTasks = l.madeTasks
         /\ m.madeCapabilities = l.madeCapabilities \ {x}
    BY <1>t, <2>2 DEF LocalsType
  <2>3. Counted(m) /\ Sizes(m) = Sizes(l) - 1
    BY <1>t, <2>1, <2>2a, CapabilityTaken
  <2>4. Sizes(m) \in Nat
    BY <2>3, SizesNatural
  <2> QED
    BY <1>l, <1>t, <2>1, <2>2, <2>3, <2>4, GoesDown, Places DEF Busy, Steps
<1> QED
  BY <1>1, <1>2, <1>3, <1>4, <1>5, <1>6, <1>7, <1>8, <1>9, <1>10, <1>11, <1>12, <1>13, <1>14, <1>15, <1>16, <1>17
  DEF Request

\* and so does each access that raises.
LEMMA FailureProceeds ==
  ASSUME Inv, NEW c \in Clients, Counted(local[c]), Fails(c)
  PROVE  Proceeds(c)
<1> USE DEF Inv
<1>l. PICK l : l = local[c]
  OBVIOUS
<1>t. l \in LocalsType /\ Counted(l) /\ Sizes(l) \in Nat
  BY <1>l, InstallFields, SizesNatural
<1>s. PICK step \in Steps : step = at[c]
  BY DEF TypeOK, Steps
<1>1. \/ at[c] = "remove" /\ Raise(c, l)
      \/ at[c] \in {"create", "update", "install"} /\ Raise(c, l)
      \/ at[c] = "put" /\ Go(c, "undo", l)
      \/ at[c] = "put" /\ Leave(c)
      \/ at[c] \in {"get", "undo"} /\ Raise(c, [l EXCEPT !.missed = TRUE])
      \/ at[c] \in {"delete", "pop"} /\ Raise(c, [l EXCEPT !.errors = TRUE])
      \/ at[c] = "rollback" /\ \E x \in l.madeCapabilities :
           Go(c, "rollback", [l EXCEPT !.madeCapabilities = @ \ {x}, !.errors = TRUE])
  BY <1>l, Zenon DEF Fails
<1>2. CASE at[c] \in {"create", "update", "install"} /\ Raise(c, l)
  BY <1>l, <1>t, <1>s, <1>2, RaisesDown DEF Busy
<1>3. CASE at[c] = "put" /\ Go(c, "undo", l)
  BY <1>l, <1>t, <1>3, GoesDown, Places DEF Busy, Steps
<1>4. CASE at[c] = "put" /\ Leave(c)
  BY <1>4 DEF Proceeds
<1>5. CASE at[c] \in {"get", "undo"} /\ Raise(c, [l EXCEPT !.missed = TRUE])
  <2>1. PICK m : m = [l EXCEPT !.missed = TRUE]
    OBVIOUS
  <2>2. m.todo = l.todo /\ m.madeTasks = l.madeTasks /\ m.madeCapabilities = l.madeCapabilities
    BY <1>t, <2>1 DEF LocalsType
  <2> QED
    BY <1>l, <1>t, <1>s, <1>5, <2>1, <2>2, RaisesDown DEF Busy
<1>6. CASE at[c] \in {"delete", "pop"} /\ Raise(c, [l EXCEPT !.errors = TRUE])
  <2>1. PICK m : m = [l EXCEPT !.errors = TRUE]
    OBVIOUS
  <2>2. m.todo = l.todo /\ m.madeTasks = l.madeTasks /\ m.madeCapabilities = l.madeCapabilities
    BY <1>t, <2>1 DEF LocalsType
  <2> QED
    BY <1>l, <1>t, <1>s, <1>6, <2>1, <2>2, RaisesDown DEF Busy
<1>7. CASE at[c] = "rollback" /\ \E x \in l.madeCapabilities :
             Go(c, "rollback", [l EXCEPT !.madeCapabilities = @ \ {x}, !.errors = TRUE])
  <2>1. PICK x \in l.madeCapabilities :
          Go(c, "rollback", [l EXCEPT !.madeCapabilities = @ \ {x}, !.errors = TRUE])
    BY <1>7
  <2>2. PICK m : m = [l EXCEPT !.madeCapabilities = @ \ {x}, !.errors = TRUE]
    OBVIOUS
  <2>2a. /\ m.todo = l.todo /\ m.madeTasks = l.madeTasks
         /\ m.madeCapabilities = l.madeCapabilities \ {x}
    BY <1>t, <2>2 DEF LocalsType
  <2>3. Counted(m) /\ Sizes(m) = Sizes(l) - 1
    BY <1>t, <2>2a, CapabilityTaken
  <2>4. Sizes(m) \in Nat
    BY <2>3, SizesNatural
  <2> QED
    BY <1>l, <1>t, <1>7, <2>1, <2>2, <2>3, <2>4, GoesDown, Places DEF Busy, Steps
<1>8. CASE at[c] = "remove" /\ Raise(c, l)
  <2>1. l.op # "install"
    BY <1>l, <1>8 DEF Clean, Good, Busy, Own
  <2> QED
    BY <1>8, <2>1 DEF Raise, Proceeds
<1> QED
  BY <1>1, <1>2, <1>3, <1>4, <1>5, <1>6, <1>7, <1>8

\* Nobody else's step touches the locals of a request, unless the process ends.
LEMMA OthersKeepLocals ==
  ASSUME Inv, Next, NEW c \in Clients, ~Request(c), ~Fails(c)
  PROVE  \/ at'[c] = at[c] /\ local'[c] = local[c]
         \/ at'[c] = "idle" /\ local'[c] = Locals
<1>1. CASE SaveCapability \/ CreateTask \/ InstallSample
  BY <1>1 DEF SaveCapability, CreateTask, InstallSample
<1>2. CASE Crash
  BY <1>2 DEF Crash
<1>3. ASSUME NEW k \in Clients, k # c, Request(k) \/ Fails(k)
      PROVE  at'[c] = at[c] /\ local'[c] = local[c]
  BY <1>3, OthersStep
<1> QED
  BY <1>1, <1>2, <1>3 DEF Next

\* What every client has to do can be counted.
Counting == \A c \in Clients : Counted(local[c])

\* A request that begins, goes on or leaves keeps it so.
LEMMA CountingStep ==
  ASSUME Inv, FiniteBundles, Counting, [Next]_vars PROVE Counting'
<1> SUFFICES ASSUME NEW c \in Clients PROVE Counted(local'[c])
  BY DEF Counting, Counted, TodoOf
<1>0. TypeOK /\ Counted(local[c]) /\ Counted(Locals)
  BY LocalsCounted DEF Inv, Counting
<1>1. CASE UNCHANGED vars
  BY <1>0, <1>1 DEF vars
<1>2. CASE Opens(c)
  <2>1. PICK m : Counted(m) /\ (Go(c, "probe", m) \/ \E to \in Steps : Enter(c, to, m))
    BY <1>2 DEF Opens
  <2>2. local'[c] = m
    BY <1>0, <2>1 DEF Go, Enter, TypeOK
  <2> QED
    BY <2>1, <2>2
<1>3. CASE Proceeds(c)
  <2>1. CASE Leave(c)
    BY <1>0, <2>1, LeaveFrame
  <2>2. CASE Advances(c)
    <3>1. PICK to \in Steps : \E m : Go(c, to, m) /\ Counted(m)
      BY <2>2 DEF Advances
    <3>2. PICK m : Go(c, to, m) /\ Counted(m)
      BY <3>1
    <3> QED
      BY <1>0, <3>2, GoFrame
  <2> QED
    BY <1>3, <2>1, <2>2 DEF Proceeds
<1>4. CASE Next /\ ~Request(c) /\ ~Fails(c)
  BY <1>0, <1>4, OthersKeepLocals
<1> QED
  BY <1>0, <1>1, <1>2, <1>3, <1>4, RequestProceeds, FailureProceeds

\* The lock is held by a client that is inside a request.
LEMMA HeldStep ==
  ASSUME Inv, FiniteBundles, Counting, LockHeldInside, [Next]_vars PROVE LockHeldInside'
<1> DEFINE Held == owner' # NoClient => at'[owner'] \notin {"idle", "probe"}
<1> SUFFICES Held
  BY DEF LockHeldInside
<1>0. TypeOK /\ (owner # NoClient => owner \in Clients /\ Busy(owner))
  BY DEF Inv, TypeOK, LockHeldInside, Busy
<1>1. ASSUME NEW c \in Clients, Opens(c) PROVE Held
  <2>1. PICK m : \/ at[c] = "idle" /\ Go(c, "probe", m)
                 \/ \E to \in Steps \ {"idle", "probe"} : Enter(c, to, m)
    BY <1>1 DEF Opens
  <2>2. CASE at[c] = "idle" /\ Go(c, "probe", m)
    <3>1. owner' = owner
      BY <2>2 DEF Go
    <3>2. ASSUME owner # NoClient PROVE at'[owner] = at[owner]
      <4>1. owner \in Clients /\ owner # c
        BY <1>0, <2>2, <3>2 DEF Busy
      <4> QED
        BY <1>0, <2>2, <4>1, GoFrame
    <3> QED
      BY <1>0, <3>1, <3>2 DEF Busy
  <2>3. ASSUME NEW to \in Steps \ {"idle", "probe"}, Enter(c, to, m) PROVE Held
    BY <1>0, <2>3 DEF Enter, Busy, TypeOK
  <2> QED
    BY <2>1, <2>2, <2>3
<1>2. ASSUME NEW c \in Clients, Proceeds(c) PROVE Held
  <2>1. CASE Leave(c)
    <3>1. owner' = IF owner = c THEN NoClient ELSE owner
      BY <2>1 DEF Leave
    <3>2. ASSUME owner # NoClient, owner # c PROVE at'[owner] = at[owner]
      <4>1. owner \in Clients \ {c}
        BY <1>0, <3>2
      <4> QED
        BY <1>0, <2>1, <4>1, LeaveFrame
    <3> QED
      BY <1>0, <3>1, <3>2 DEF Busy
  <2>2. CASE Advances(c)
    <3>1. PICK to \in Steps \ {"idle", "probe"} : \E m : Go(c, to, m)
      BY <2>2 DEF Advances
    <3>2. PICK m : Go(c, to, m)
      BY <3>1
    <3>3. owner' = owner /\ at'[c] = to
      BY <1>0, <3>2, GoFrame
    <3>4. ASSUME owner # NoClient, owner # c PROVE at'[owner] = at[owner]
      <4>1. owner \in Clients \ {c}
        BY <1>0, <3>4
      <4> QED
        BY <1>0, <3>2, <4>1, GoFrame
    <3> QED
      BY <1>0, <3>1, <3>3, <3>4 DEF Busy
  <2> QED
    BY <1>2, <2>1, <2>2 DEF Proceeds
<1>3. CASE \/ SaveCapability \/ CreateTask \/ InstallSample \/ UNCHANGED vars
  BY <1>0, <1>3 DEF SaveCapability, CreateTask, InstallSample, vars, Busy
<1>4. CASE Crash
  BY <1>4 DEF Crash
<1>5. ASSUME NEW c \in Clients, Request(c) \/ Fails(c) PROVE Opens(c) \/ Proceeds(c)
  <2>1. Counted(local[c])
    BY DEF Counting
  <2> QED
    BY <1>0, <1>5, <2>1, RequestProceeds, FailureProceeds
<1> QED
  BY <1>1, <1>2, <1>3, <1>4, <1>5 DEF Next

\* Each step of a request that has begun brings it nearer to its end.
LEMMA NearerStep ==
  ASSUME Inv, FiniteBundles, Counting, Next, NEW c \in Clients, at[c] # "idle"
  PROVE  NearerEnd(c)
<1>1. PICK l : l = local[c]
  OBVIOUS
<1>2. PICK step \in Steps : step = at[c]
  BY DEF Inv, TypeOK, Steps
<1>3. TypeOK /\ Counted(l) /\ Sizes(l) \in Nat /\ Place(step) \in Nat
  BY <1>1, SizesNatural, PlaceNatural DEF Inv, Counting
<1>4. StepsLeft(c) = Weight(step, l) /\ Weight(step, l) \in Nat
  BY <1>1, <1>2, <1>3 DEF StepsLeft, Weight
<1>5. ASSUME NEW to, NEW m, at'[c] = to, local'[c] = m PROVE StepsLeft(c)' = Weight(to, m)
  BY <1>5 DEF StepsLeft, Weight, Place, Sizes, TodoOf
<1>6. Weight("idle", Locals) = 0 /\ 0 < Weight(step, l)
  <2>1. Weight("idle", Locals) = 0
    BY Places, LocalsCounted DEF Weight
  <2>2. 0 < Place(step)
    BY <1>2, Places DEF Steps
  <2> QED
    BY <1>3, <2>1, <2>2 DEF Weight
<1>7. CASE Proceeds(c)
  <2>1. CASE Leave(c)
    <3>1. StepsLeft(c)' = Weight("idle", Locals)
      BY <1>3, <1>5, <2>1, LeaveFrame
    <3> QED
      BY <1>4, <1>6, <3>1 DEF NearerEnd
  <2>2. CASE Advances(c)
    <3>1. PICK to \in Steps : \E m : Go(c, to, m) /\ Counted(m) /\ Weight(to, m) < Weight(step, l)
      BY <1>1, <1>2, <2>2 DEF Advances
    <3>2. PICK m : Go(c, to, m) /\ Counted(m) /\ Weight(to, m) < Weight(step, l)
      BY <3>1
    <3>3. StepsLeft(c)' = Weight(to, m)
      BY <1>3, <1>5, <3>2, GoFrame
    <3>4. Weight(to, m) \in Nat
      BY <3>2, SizesNatural, PlaceNatural DEF Weight
    <3> QED
      BY <1>4, <3>2, <3>3, <3>4 DEF NearerEnd
  <2> QED
    BY <1>7, <2>1, <2>2 DEF Proceeds
<1>8. CASE ~Request(c) /\ ~Fails(c)
  <2>1. \/ at'[c] = step /\ local'[c] = l
        \/ at'[c] = "idle" /\ local'[c] = Locals
    BY <1>1, <1>2, <1>8, OthersKeepLocals
  <2>2. StepsLeft(c)' = Weight(step, l) \/ StepsLeft(c)' = Weight("idle", Locals)
    BY <1>5, <2>1
  <2> QED
    BY <1>4, <1>6, <1>8, <2>2 DEF NearerEnd
<1>9. ~Opens(c)
  BY DEF Opens, Enter
<1> QED
  BY <1>1, <1>3, <1>7, <1>8, <1>9, RequestProceeds, FailureProceeds

\* Every request ends after a bounded number of steps of its own, and mutation_lock
\* is held for no longer: CapabilityCatalog, ConsoleCompat and
\* IntegrationBundleInstaller, rollback and failures included.
THEOREM RequestsRunDown ==
  ASSUME FiniteBundles PROVE Spec => RequestsEnd
<1>1. Init => Counting /\ LockHeldInside
  BY LocalsCounted DEF Init, Counting, LockHeldInside
<1>2. Inv /\ Counting /\ [Next]_vars => Counting'
  BY CountingStep
<1>3. Inv /\ Counting /\ LockHeldInside /\ [Next]_vars => LockHeldInside'
  BY HeldStep
<1>4. Inv /\ Counting /\ [Next]_vars => [\A c \in Clients : at[c] # "idle" => NearerEnd(c)]_vars
  BY NearerStep
<1> QED
  BY <1>1, <1>2, <1>3, <1>4, CatalogInvariance, PTL DEF Spec, RequestsEnd
=============================================================================
