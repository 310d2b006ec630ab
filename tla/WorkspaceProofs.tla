--------------------------- MODULE WorkspaceProofs ---------------------------
(***************************************************************************)
(* The Runs of one workspace keep their promises, for any number of Runs,  *)
(* clients, Nodes and faults, for a process that has its state root to     *)
(* itself (Spec, not SharedSpec) and while the next directory number still *)
(* has the digits that the search for the latest one expects: a hypothesis *)
(* the code does not enforce.                                              *)
(*                                                                         *)
(* Inv strengthens the safety of Workspace by what each step of a thread   *)
(* knows: which Runs have a directory, which are listed, which excludes    *)
(* the others, and what the slot and the token say of their rows.          *)
(***************************************************************************)
EXTENDS Workspace, WellFoundedInduction, TLAPS

\* A non-empty set of naturals up to a bound has a greatest member.
LEMMA Greatest ==
  ASSUME NEW L \in Nat, NEW S \in SUBSET (0..L), S # {}
  PROVE  \E x \in S : \A y \in S : x >= y
<1> DEFINE T == {n \in Nat : \E x \in S : n = L - x}
<1>1. T \subseteq Nat /\ T # {}
  <2>1. PICK x \in S : TRUE
    OBVIOUS
  <2>2. L - x \in Nat
    OBVIOUS
  <2> QED
    BY <2>2
<1>2. PICK n \in T : \A m \in T : ~(<<m, n>> \in OpToRel(<, Nat))
  <2> HIDE DEF T
  <2> QED
    BY <1>1, NatLessThanWellFounded, WFMin, Zenon
<1>3. PICK x \in S : n = L - x
  BY <1>2
<1>4. ASSUME NEW y \in S PROVE x >= y
  <2>1. L - y \in T
    OBVIOUS
  <2>2. ~(L - y < L - x)
    BY <1>2, <1>3, <2>1 DEF OpToRel
  <2> QED
    BY <2>2
<1> QED
  BY <1>4

\* The next directory number is one that no directory of four digits has.
LEMMA FreshNumber ==
  ASSUME made \subseteq Numbers
  PROVE  /\ NextRunSequence \in Numbers
         /\ NextRunSequence <= LastNumber => NextRunSequence \notin made
<1> DEFINE S == {0} \cup (made \cap 1..LastNumber)
<1>1. LastNumber \in Nat \ {0}
  BY WorkspaceAssumption
<1>2. S \in SUBSET (0..LastNumber) /\ S # {}
  BY <1>1 DEF Numbers
<1>3. PICK x \in S : \A y \in S : x >= y
  <2> HIDE DEF S
  <2> QED
    BY <1>1, <1>2, Greatest
<1>4. Max(S) \in S /\ \A y \in S : Max(S) >= y
  <2> HIDE DEF S
  <2> QED
    BY <1>3 DEF Max
<1>5. NextRunSequence = Max(S) + 1
  BY DEF NextRunSequence
<1> QED
  BY <1>1, <1>2, <1>4, <1>5 DEF Numbers

-----------------------------------------------------------------------------

\* r is what app-run.json of its own directory names: Visible, given Directories.
Listed(r) == place[r] # 0 /\ index[place[r]] = r

Unplaced == {"idle", "queued", "check", "scan", "directory"}
Placed   == {"start_run", "reuse", "metadata", "thread", "run", "ended", "clear"}
Unlisted == Unplaced \cup {"start_run", "reuse", "metadata"}

\* Every placed Run has a directory of its own, and an app-run.json names the
\* Run that was placed there.
Directories ==
  /\ \A r \in Runs : place[r] # 0 => place[r] \in made
  /\ \A r \in Runs : worker[r] \in Unplaced => place[r] = 0
  /\ \A r \in Runs : worker[r] \in Placed => place[r] # 0
  /\ DirectoryUsedOnce
  /\ \A d \in Numbers : index[d] # NoRun => place[index[d]] = d

\* A Run is listed from its first app-run.json on.
Listing ==
  /\ \A r \in Runs : worker[r] \in Unlisted => ~Listed(r)
  /\ \A r \in Runs : worker[r] \in Placed \ Unlisted => Listed(r)

\* One admission at a time; past its checks the slot is empty and no listed Run
\* is active but the one under admission.
Locking ==
  /\ \A r, s \in Runs : worker[r] \in Admission /\ worker[s] \in Admission => r = s
  /\ \A r \in Runs : worker[r] \in Admission \ {"check"} => slot = NoRun
  /\ \A r, s \in Runs :
       /\ worker[r] \in Admission \ {"check", "scan"}
       /\ Listed(s) /\ s # r
       => status[s] \notin Active
  /\ \A r, s \in Runs :
       Listed(r) /\ Listed(s) /\ status[r] \in Active /\ status[s] \in Active => r = s

\* What each step of a thread knows of its Run, and what the token tells.
Executing ==
  /\ ExecutingInSlot
  /\ \A r \in Runs : worker[r] \in Unplaced \cup {"start_run"} =>
       status[r] = "absent" /\ accepted[r] = 0
  /\ \A r \in Runs : worker[r] \in {"reuse", "metadata", "thread"} => status[r] = "running"
  /\ \A r \in Runs : token[r] => status[r] \notin {"absent", "running"}
  /\ \A r \in Runs : worker[r] = "run" /\ status[r] = "cancel_requested" => token[r]

\* A request goes only for a Run past its admission, and it interrupts only one
\* whose thread does not execute it.
Requests ==
  /\ \A c \in Clients : client[c] = "interrupt" =>
       target[c] \in Runs /\ worker[target[c]] \in {"ended", "clear", "gone"}
  /\ \A c \in Clients : client[c] = "request" =>
       target[c] \in Runs /\ worker[target[c]] \in {"run", "ended", "clear", "gone"}

\* Until it serves, a process has no thread, no slot and no request.
Stopped ==
  up # "serving" =>
    /\ slot = NoRun
    /\ \A r \in Runs : worker[r] \in {"idle", "gone"}
    /\ \A c \in Clients : client[c] = "idle"
    /\ unread \subseteq {d \in Numbers : index[d] # NoRun}

\* Only a process that starts reads directories.
Reading == up # "starting" => unread = {}

Inv ==
  /\ TypeOK
  /\ Directories
  /\ Listing
  /\ Locking
  /\ Executing
  /\ Requests
  /\ Stopped
  /\ Reading

-----------------------------------------------------------------------------

\* The Runs that _find_run and _assert_no_active_run see are the listed ones.
LEMMA VisibleListed ==
  ASSUME TypeOK, Directories, NEW r \in Runs
  PROVE  Visible(r) <=> Listed(r)
<1>1. r # NoRun
  BY WorkspaceAssumption
<1>2. ASSUME NEW d \in made, index[d] = r PROVE Listed(r)
  BY <1>1, <1>2, WorkspaceAssumption DEF TypeOK, Directories, Listed, Numbers
<1>3. ASSUME Listed(r) PROVE Visible(r)
  BY <1>3 DEF Directories, Listed, Visible
<1> QED
  BY <1>2, <1>3 DEF Visible

\* No Run, no directory and no thread: the invariant holds at first.
LEMMA InitInv == Init => Inv
<1> SUFFICES ASSUME Init PROVE Inv
  OBVIOUS
<1> USE WorkspaceAssumption DEF Init
<1>1. TypeOK
  BY DEF TypeOK, Numbers, Worker, Active, Terminal
<1>2. Directories
  BY DEF Directories, DirectoryUsedOnce, Placed
<1>3. Listing
  BY DEF Listing, Listed, Placed, Unlisted, Unplaced
<1>4. Locking /\ Executing /\ Requests /\ Stopped /\ Reading
  BY DEF Locking, Executing, ExecutingInSlot, Requests, Stopped, Reading, Admission,
         Active, Listed
<1> QED
  BY <1>1, <1>2, <1>3, <1>4 DEF Inv

\* Types: the bound on accepted is the guard of the two steps that count, the
\* numbers of directories are those FreshNumber gives.
LEMMA TypeOKStep ==
  ASSUME Inv, [Next]_vars, NextRunSequence <= LastNumber
  PROVE  TypeOK'
<1> USE WorkspaceAssumption
    DEF TypeOK, Active, Terminal, Numbers, Admission, Worker, Step, Request, files,
        rows, fork, memory
<1>0. TypeOK
  BY DEF Inv
<1>1. ASSUME NEW r \in Runs, NEW p \in Runs, NEW k \in 0..N, RequestFork(r, p, k)
      PROVE  TypeOK'
  BY <1>0, <1>1 DEF RequestFork
<1>2. ASSUME NEW r \in Runs, TakeRunLock(r) PROVE TypeOK'
  BY <1>0, <1>2 DEF TakeRunLock
<1>3. ASSUME NEW r \in Runs, CheckSlot(r) PROVE TypeOK'
  BY <1>0, <1>3 DEF CheckSlot
<1>4. ASSUME NEW r \in Runs, CheckRuns(r) PROVE TypeOK'
  BY <1>0, <1>4 DEF CheckRuns
<1>5. ASSUME NEW r \in Runs, MakeDirectory(r) PROVE TypeOK'
  BY <1>0, <1>5, FreshNumber DEF MakeDirectory
<1>6. ASSUME NEW r \in Runs, Denied(r) PROVE TypeOK'
  BY <1>0, <1>6 DEF Denied
<1>7. ASSUME NEW r \in Runs, StartRun(r) PROVE TypeOK'
  BY <1>0, <1>7 DEF StartRun
<1>8. ASSUME NEW r \in Runs, ReuseNode(r) PROVE TypeOK'
  BY <1>0, <1>8 DEF ReuseNode
<1>9. ASSUME NEW r \in Runs, Admitted(r) PROVE TypeOK'
  BY <1>0, <1>9 DEF Admitted
<1>10. ASSUME NEW r \in Runs, WriteRunMetadata(r) PROVE TypeOK'
  BY <1>0, <1>10 DEF WriteRunMetadata
<1>11. ASSUME NEW r \in Runs, StartThread(r) PROVE TypeOK'
  BY <1>0, <1>11 DEF StartThread
<1>12. ASSUME NEW r \in Runs, AcceptNode(r) PROVE TypeOK'
  BY <1>0, <1>12 DEF AcceptNode
<1>13. ASSUME NEW r \in Runs, Succeed(r) PROVE TypeOK'
  BY <1>0, <1>13 DEF Succeed, FinishRun
<1>14. ASSUME NEW r \in Runs, Fail(r) PROVE TypeOK'
  BY <1>0, <1>14 DEF Fail, FinishRun
<1>15. ASSUME NEW r \in Runs, FinishCancelled(r) PROVE TypeOK'
  BY <1>0, <1>15 DEF FinishCancelled
<1>16. ASSUME NEW r \in Runs, RewriteMetadata(r) PROVE TypeOK'
  BY <1>0, <1>16 DEF RewriteMetadata
<1>17. ASSUME NEW r \in Runs, ClearSlot(r) PROVE TypeOK'
  BY <1>0, <1>17 DEF ClearSlot
<1>18. ASSUME NEW r \in Runs, OperationRaises(r) PROVE TypeOK'
  <2>1. PICK to \in {"gone", "ended"} : Step(r, worker[r], to)
    BY <1>18 DEF OperationRaises
  <2>2. worker' \in [Runs -> Worker] /\ UNCHANGED <<up, unread, client, target>>
    BY <1>0, <2>1
  <2>3. slot' \in Runs \cup {NoRun}
    BY <1>0, <1>18 DEF OperationRaises
  <2>4. faults' \in 0..MaxFaults
    BY <1>0, <1>18 DEF OperationRaises
  <2>5. UNCHANGED <<token, files, rows, fork>>
    BY <1>18 DEF OperationRaises
  <2> QED
    BY <1>0, <2>2, <2>3, <2>4, <2>5
<1>19. ASSUME NEW c \in Clients, NEW r \in Runs, FindRun(c, r) PROVE TypeOK'
  BY <1>0, <1>19 DEF FindRun
<1>20. ASSUME NEW c \in Clients, Interrupt(c) PROVE TypeOK'
  BY <1>0, <1>20 DEF Interrupt
<1>21. ASSUME NEW c \in Clients, RequestCancel(c) PROVE TypeOK'
  BY <1>0, <1>21 DEF RequestCancel
<1>22. ASSUME Crash PROVE TypeOK'
  BY <1>0, <1>22 DEF Crash
<1>23. ASSUME Start PROVE TypeOK'
  BY <1>0, <1>23 DEF Start
<1>24. ASSUME ServeForever PROVE TypeOK'
  BY <1>0, <1>24 DEF ServeForever
<1>25. ASSUME NEW d \in unread, Reconcile(d) PROVE TypeOK'
  BY <1>0, <1>25 DEF Reconcile
<1>26. CASE UNCHANGED vars
  BY <1>0, <1>26 DEF vars
<1> QED
  BY <1>1, <1>2, <1>3, <1>4, <1>5, <1>6, <1>7, <1>8, <1>9, <1>10, <1>11, <1>12,
     <1>13, <1>14, <1>15, <1>16, <1>17, <1>18, <1>19, <1>20, <1>21, <1>22, <1>23,
     <1>24, <1>25, <1>26 DEF Next, AdmitRun, ExecuteAdmittedRun, CancelRun

\* Directories: a number is taken once, because it is above every earlier one.
LEMMA DirectoriesStep ==
  ASSUME Inv, [Next]_vars, NextRunSequence <= LastNumber
  PROVE  Directories'
<1> USE WorkspaceAssumption
    DEF TypeOK, Directories, DirectoryUsedOnce, Unplaced, Placed, Listed, Admission,
        Numbers, Step, Request, files, rows, fork, memory
<1>0. TypeOK /\ Directories
  BY DEF Inv
<1>1. ASSUME NEW r \in Runs, NEW p \in Runs, NEW k \in 0..N, RequestFork(r, p, k)
      PROVE  Directories'
  BY <1>0, <1>1 DEF RequestFork
<1>2. ASSUME NEW r \in Runs, TakeRunLock(r) PROVE Directories'
  BY <1>0, <1>2 DEF TakeRunLock
<1>3. ASSUME NEW r \in Runs, CheckSlot(r) PROVE Directories'
  BY <1>0, <1>3 DEF CheckSlot
<1>4. ASSUME NEW r \in Runs, CheckRuns(r) PROVE Directories'
  BY <1>0, <1>4, VisibleListed DEF CheckRuns
<1>5. ASSUME NEW r \in Runs, MakeDirectory(r) PROVE Directories'
  BY <1>0, <1>5, FreshNumber DEF MakeDirectory
<1>6. ASSUME NEW r \in Runs, Denied(r) PROVE Directories'
  BY <1>0, <1>6 DEF Denied
<1>7. ASSUME NEW r \in Runs, StartRun(r) PROVE Directories'
  BY <1>0, <1>7 DEF StartRun
<1>8. ASSUME NEW r \in Runs, ReuseNode(r) PROVE Directories'
  BY <1>0, <1>8 DEF ReuseNode
<1>9. ASSUME NEW r \in Runs, Admitted(r) PROVE Directories'
  BY <1>0, <1>9 DEF Admitted
<1>10. ASSUME NEW r \in Runs, WriteRunMetadata(r) PROVE Directories'
  BY <1>0, <1>10, VisibleListed DEF WriteRunMetadata
<1>11. ASSUME NEW r \in Runs, StartThread(r) PROVE Directories'
  BY <1>0, <1>11 DEF StartThread
<1>12. ASSUME NEW r \in Runs, AcceptNode(r) PROVE Directories'
  BY <1>0, <1>12 DEF AcceptNode
<1>13. ASSUME NEW r \in Runs, Succeed(r) PROVE Directories'
  BY <1>0, <1>13 DEF Succeed, FinishRun
<1>14. ASSUME NEW r \in Runs, Fail(r) PROVE Directories'
  BY <1>0, <1>14 DEF Fail, FinishRun
<1>15. ASSUME NEW r \in Runs, FinishCancelled(r) PROVE Directories'
  BY <1>0, <1>15 DEF FinishCancelled
<1>16. ASSUME NEW r \in Runs, RewriteMetadata(r) PROVE Directories'
  BY <1>0, <1>16, VisibleListed DEF RewriteMetadata
<1>17. ASSUME NEW r \in Runs, ClearSlot(r) PROVE Directories'
  BY <1>0, <1>17 DEF ClearSlot
<1>18. ASSUME NEW r \in Runs, OperationRaises(r) PROVE Directories'
  <2> USE <1>0, <1>18 DEF OperationRaises
  <2>1. CASE worker[r] \in Admission
    BY <2>1
  <2>2. CASE worker[r] = "run"
    BY <2>2
  <2>3. CASE worker[r] = "ended"
    BY <2>3
  <2> QED
    BY <2>1, <2>2, <2>3
<1>19. ASSUME NEW c \in Clients, NEW r \in Runs, FindRun(c, r) PROVE Directories'
  BY <1>0, <1>19, VisibleListed DEF FindRun
<1>20. ASSUME NEW c \in Clients, Interrupt(c) PROVE Directories'
  BY <1>0, <1>20 DEF Interrupt
<1>21. ASSUME NEW c \in Clients, RequestCancel(c) PROVE Directories'
  BY <1>0, <1>21 DEF RequestCancel
<1>22. ASSUME Crash PROVE Directories'
  BY <1>0, <1>22 DEF Crash
<1>23. ASSUME Start PROVE Directories'
  BY <1>0, <1>23 DEF Start
<1>24. ASSUME ServeForever PROVE Directories'
  BY <1>0, <1>24 DEF ServeForever
<1>25. ASSUME NEW d \in unread, Reconcile(d) PROVE Directories'
  BY <1>0, <1>25 DEF Reconcile
<1>26. CASE UNCHANGED vars
  BY <1>0, <1>26 DEF vars
<1> QED
  BY <1>1, <1>2, <1>3, <1>4, <1>5, <1>6, <1>7, <1>8, <1>9, <1>10, <1>11, <1>12,
     <1>13, <1>14, <1>15, <1>16, <1>17, <1>18, <1>19, <1>20, <1>21, <1>22, <1>23,
     <1>24, <1>25, <1>26 DEF Next, AdmitRun, ExecuteAdmittedRun, CancelRun

\* Listing: an app-run.json appears with WriteRunMetadata and is only rewritten
\* for the Run it names.
LEMMA ListingStep ==
  ASSUME Inv, [Next]_vars, NextRunSequence <= LastNumber
  PROVE  Listing'
<1> USE WorkspaceAssumption
    DEF TypeOK, Directories, Listing, DirectoryUsedOnce, Unplaced, Placed, Unlisted,
        Listed, Admission, Step, Request, files, rows, fork, memory
<1>0. TypeOK /\ Directories /\ Listing
  BY DEF Inv
<1>1. ASSUME NEW r \in Runs, NEW p \in Runs, NEW k \in 0..N, RequestFork(r, p, k)
      PROVE  Listing'
  BY <1>0, <1>1 DEF RequestFork
<1>2. ASSUME NEW r \in Runs, TakeRunLock(r) PROVE Listing'
  BY <1>0, <1>2 DEF TakeRunLock
<1>3. ASSUME NEW r \in Runs, CheckSlot(r) PROVE Listing'
  BY <1>0, <1>3 DEF CheckSlot
<1>4. ASSUME NEW r \in Runs, CheckRuns(r) PROVE Listing'
  BY <1>0, <1>4, VisibleListed DEF CheckRuns
<1>5. ASSUME NEW r \in Runs, MakeDirectory(r) PROVE Listing'
  BY <1>0, <1>5, FreshNumber DEF MakeDirectory
<1>6. ASSUME NEW r \in Runs, Denied(r) PROVE Listing'
  BY <1>0, <1>6 DEF Denied
<1>7. ASSUME NEW r \in Runs, StartRun(r) PROVE Listing'
  BY <1>0, <1>7 DEF StartRun
<1>8. ASSUME NEW r \in Runs, ReuseNode(r) PROVE Listing'
  BY <1>0, <1>8 DEF ReuseNode
<1>9. ASSUME NEW r \in Runs, Admitted(r) PROVE Listing'
  BY <1>0, <1>9 DEF Admitted
<1>10. ASSUME NEW r \in Runs, WriteRunMetadata(r) PROVE Listing'
  BY <1>0, <1>10, VisibleListed DEF WriteRunMetadata
<1>11. ASSUME NEW r \in Runs, StartThread(r) PROVE Listing'
  BY <1>0, <1>11 DEF StartThread
<1>12. ASSUME NEW r \in Runs, AcceptNode(r) PROVE Listing'
  BY <1>0, <1>12 DEF AcceptNode
<1>13. ASSUME NEW r \in Runs, Succeed(r) PROVE Listing'
  BY <1>0, <1>13 DEF Succeed, FinishRun
<1>14. ASSUME NEW r \in Runs, Fail(r) PROVE Listing'
  BY <1>0, <1>14 DEF Fail, FinishRun
<1>15. ASSUME NEW r \in Runs, FinishCancelled(r) PROVE Listing'
  BY <1>0, <1>15 DEF FinishCancelled
<1>16. ASSUME NEW r \in Runs, RewriteMetadata(r) PROVE Listing'
  BY <1>0, <1>16, VisibleListed DEF RewriteMetadata
<1>17. ASSUME NEW r \in Runs, ClearSlot(r) PROVE Listing'
  BY <1>0, <1>17 DEF ClearSlot
<1>18. ASSUME NEW r \in Runs, OperationRaises(r) PROVE Listing'
  <2> USE <1>0, <1>18 DEF OperationRaises
  <2>1. CASE worker[r] \in Admission
    BY <2>1
  <2>2. CASE worker[r] = "run"
    BY <2>2
  <2>3. CASE worker[r] = "ended"
    BY <2>3
  <2> QED
    BY <2>1, <2>2, <2>3
<1>19. ASSUME NEW c \in Clients, NEW r \in Runs, FindRun(c, r) PROVE Listing'
  BY <1>0, <1>19, VisibleListed DEF FindRun
<1>20. ASSUME NEW c \in Clients, Interrupt(c) PROVE Listing'
  BY <1>0, <1>20 DEF Interrupt
<1>21. ASSUME NEW c \in Clients, RequestCancel(c) PROVE Listing'
  BY <1>0, <1>21 DEF RequestCancel
<1>22. ASSUME Crash PROVE Listing'
  BY <1>0, <1>22 DEF Crash
<1>23. ASSUME Start PROVE Listing'
  BY <1>0, <1>23 DEF Start
<1>24. ASSUME ServeForever PROVE Listing'
  BY <1>0, <1>24 DEF ServeForever
<1>25. ASSUME NEW d \in unread, Reconcile(d) PROVE Listing'
  BY <1>0, <1>25 DEF Reconcile
<1>26. CASE UNCHANGED vars
  BY <1>0, <1>26 DEF vars
<1> QED
  BY <1>1, <1>2, <1>3, <1>4, <1>5, <1>6, <1>7, <1>8, <1>9, <1>10, <1>11, <1>12,
     <1>13, <1>14, <1>15, <1>16, <1>17, <1>18, <1>19, <1>20, <1>21, <1>22, <1>23,
     <1>24, <1>25, <1>26 DEF Next, AdmitRun, ExecuteAdmittedRun, CancelRun

\* Locking: an admission that has passed CheckRuns saw no other active Run, and no
\* step before its end makes one.
LEMMA LockingStep ==
  ASSUME Inv, [Next]_vars, NextRunSequence <= LastNumber
  PROVE  Locking'
<1> USE WorkspaceAssumption
    DEF TypeOK, Directories, Listing, Locking, Executing, Requests, Stopped,
        RunLockFree, DirectoryUsedOnce, ExecutingInSlot, Unplaced, Placed, Unlisted,
        Listed, Admission, Active, Terminal, Step, Request, files, rows, fork, memory
<1>0. TypeOK /\ Directories /\ Listing /\ Locking /\ Executing /\ Requests /\ Stopped
  BY DEF Inv
<1>1. ASSUME NEW r \in Runs, NEW p \in Runs, NEW k \in 0..N, RequestFork(r, p, k)
      PROVE  Locking'
  BY <1>0, <1>1 DEF RequestFork
<1>2. ASSUME NEW r \in Runs, TakeRunLock(r) PROVE Locking'
  BY <1>0, <1>2 DEF TakeRunLock
<1>3. ASSUME NEW r \in Runs, CheckSlot(r) PROVE Locking'
  BY <1>0, <1>3 DEF CheckSlot
<1>4. ASSUME NEW r \in Runs, CheckRuns(r) PROVE Locking'
  BY <1>0, <1>4, VisibleListed DEF CheckRuns
<1>5. ASSUME NEW r \in Runs, MakeDirectory(r) PROVE Locking'
  BY <1>0, <1>5, FreshNumber DEF MakeDirectory
<1>6. ASSUME NEW r \in Runs, Denied(r) PROVE Locking'
  BY <1>0, <1>6 DEF Denied
<1>7. ASSUME NEW r \in Runs, StartRun(r) PROVE Locking'
  BY <1>0, <1>7 DEF StartRun
<1>8. ASSUME NEW r \in Runs, ReuseNode(r) PROVE Locking'
  BY <1>0, <1>8 DEF ReuseNode
<1>9. ASSUME NEW r \in Runs, Admitted(r) PROVE Locking'
  BY <1>0, <1>9 DEF Admitted
<1>10. ASSUME NEW r \in Runs, WriteRunMetadata(r) PROVE Locking'
  BY <1>0, <1>10, VisibleListed DEF WriteRunMetadata
<1>11. ASSUME NEW r \in Runs, StartThread(r) PROVE Locking'
  BY <1>0, <1>11 DEF StartThread
<1>12. ASSUME NEW r \in Runs, AcceptNode(r) PROVE Locking'
  BY <1>0, <1>12 DEF AcceptNode
<1>13. ASSUME NEW r \in Runs, Succeed(r) PROVE Locking'
  BY <1>0, <1>13 DEF Succeed, FinishRun
<1>14. ASSUME NEW r \in Runs, Fail(r) PROVE Locking'
  BY <1>0, <1>14 DEF Fail, FinishRun
<1>15. ASSUME NEW r \in Runs, FinishCancelled(r) PROVE Locking'
  BY <1>0, <1>15 DEF FinishCancelled
<1>16. ASSUME NEW r \in Runs, RewriteMetadata(r) PROVE Locking'
  BY <1>0, <1>16, VisibleListed DEF RewriteMetadata
<1>17. ASSUME NEW r \in Runs, ClearSlot(r) PROVE Locking'
  BY <1>0, <1>17 DEF ClearSlot
<1>18. ASSUME NEW r \in Runs, OperationRaises(r) PROVE Locking'
  <2> USE <1>0, <1>18 DEF OperationRaises
  <2>1. CASE worker[r] \in Admission
    BY <2>1
  <2>2. CASE worker[r] = "run"
    BY <2>2
  <2>3. CASE worker[r] = "ended"
    BY <2>3
  <2> QED
    BY <2>1, <2>2, <2>3
<1>19. ASSUME NEW c \in Clients, NEW r \in Runs, FindRun(c, r) PROVE Locking'
  BY <1>0, <1>19, VisibleListed DEF FindRun
<1>20. ASSUME NEW c \in Clients, Interrupt(c) PROVE Locking'
  BY <1>0, <1>20 DEF Interrupt
<1>21. ASSUME NEW c \in Clients, RequestCancel(c) PROVE Locking'
  BY <1>0, <1>21 DEF RequestCancel
<1>22. ASSUME Crash PROVE Locking'
  BY <1>0, <1>22 DEF Crash
<1>23. ASSUME Start PROVE Locking'
  BY <1>0, <1>23 DEF Start
<1>24. ASSUME ServeForever PROVE Locking'
  BY <1>0, <1>24 DEF ServeForever
<1>25. ASSUME NEW d \in unread, Reconcile(d) PROVE Locking'
  BY <1>0, <1>25 DEF Reconcile
<1>26. CASE UNCHANGED vars
  BY <1>0, <1>26 DEF vars
<1> QED
  BY <1>1, <1>2, <1>3, <1>4, <1>5, <1>6, <1>7, <1>8, <1>9, <1>10, <1>11, <1>12,
     <1>13, <1>14, <1>15, <1>16, <1>17, <1>18, <1>19, <1>20, <1>21, <1>22, <1>23,
     <1>24, <1>25, <1>26 DEF Next, AdmitRun, ExecuteAdmittedRun, CancelRun

\* Executing: StartThread takes a slot its admission emptied, and until the thread
\* ends nobody clears it or settles the Run but the thread itself.
LEMMA ExecutingStep ==
  ASSUME Inv, [Next]_vars, NextRunSequence <= LastNumber
  PROVE  Executing'
<1> USE WorkspaceAssumption
    DEF TypeOK, Directories, Listing, Locking, Executing, Requests, Stopped,
        RunLockFree, ExecutingInSlot, Unplaced, Placed, Unlisted, Listed, Admission,
        Active, Terminal, Step, Request, files, rows, fork, memory
<1>0. TypeOK /\ Directories /\ Listing /\ Locking /\ Executing /\ Requests /\ Stopped
  BY DEF Inv
<1>1. ASSUME NEW r \in Runs, NEW p \in Runs, NEW k \in 0..N, RequestFork(r, p, k)
      PROVE  Executing'
  BY <1>0, <1>1 DEF RequestFork
<1>2. ASSUME NEW r \in Runs, TakeRunLock(r) PROVE Executing'
  BY <1>0, <1>2 DEF TakeRunLock
<1>3. ASSUME NEW r \in Runs, CheckSlot(r) PROVE Executing'
  BY <1>0, <1>3 DEF CheckSlot
<1>4. ASSUME NEW r \in Runs, CheckRuns(r) PROVE Executing'
  BY <1>0, <1>4, VisibleListed DEF CheckRuns
<1>5. ASSUME NEW r \in Runs, MakeDirectory(r) PROVE Executing'
  BY <1>0, <1>5, FreshNumber DEF MakeDirectory
<1>6. ASSUME NEW r \in Runs, Denied(r) PROVE Executing'
  BY <1>0, <1>6 DEF Denied
<1>7. ASSUME NEW r \in Runs, StartRun(r) PROVE Executing'
  BY <1>0, <1>7 DEF StartRun
<1>8. ASSUME NEW r \in Runs, ReuseNode(r) PROVE Executing'
  BY <1>0, <1>8 DEF ReuseNode
<1>9. ASSUME NEW r \in Runs, Admitted(r) PROVE Executing'
  BY <1>0, <1>9 DEF Admitted
<1>10. ASSUME NEW r \in Runs, WriteRunMetadata(r) PROVE Executing'
  BY <1>0, <1>10, VisibleListed DEF WriteRunMetadata
<1>11. ASSUME NEW r \in Runs, StartThread(r) PROVE Executing'
  BY <1>0, <1>11 DEF StartThread
<1>12. ASSUME NEW r \in Runs, AcceptNode(r) PROVE Executing'
  BY <1>0, <1>12 DEF AcceptNode
<1>13. ASSUME NEW r \in Runs, Succeed(r) PROVE Executing'
  BY <1>0, <1>13 DEF Succeed, FinishRun
<1>14. ASSUME NEW r \in Runs, Fail(r) PROVE Executing'
  BY <1>0, <1>14 DEF Fail, FinishRun
<1>15. ASSUME NEW r \in Runs, FinishCancelled(r) PROVE Executing'
  BY <1>0, <1>15 DEF FinishCancelled
<1>16. ASSUME NEW r \in Runs, RewriteMetadata(r) PROVE Executing'
  BY <1>0, <1>16, VisibleListed DEF RewriteMetadata
<1>17. ASSUME NEW r \in Runs, ClearSlot(r) PROVE Executing'
  BY <1>0, <1>17 DEF ClearSlot
<1>18. ASSUME NEW r \in Runs, OperationRaises(r) PROVE Executing'
  <2> USE <1>0, <1>18 DEF OperationRaises
  <2>1. CASE worker[r] \in Admission
    BY <2>1
  <2>2. CASE worker[r] = "run"
    BY <2>2
  <2>3. CASE worker[r] = "ended"
    BY <2>3
  <2> QED
    BY <2>1, <2>2, <2>3
<1>19. ASSUME NEW c \in Clients, NEW r \in Runs, FindRun(c, r) PROVE Executing'
  BY <1>0, <1>19, VisibleListed DEF FindRun
<1>20. ASSUME NEW c \in Clients, Interrupt(c) PROVE Executing'
  BY <1>0, <1>20 DEF Interrupt
<1>21. ASSUME NEW c \in Clients, RequestCancel(c) PROVE Executing'
  <2>1. ASSUME NEW r \in Runs, r # target[c]
        PROVE  status'[r] = status[r] /\ token'[r] = token[r]
    BY <1>0, <1>21, <2>1 DEF RequestCancel
  <2>2. target[c] \in Runs /\ worker[target[c]] \in {"run", "ended", "clear", "gone"}
    BY <1>0, <1>21 DEF RequestCancel
  <2>3. /\ status'[target[c]] = IF status[target[c]] = "running"
                               THEN "cancel_requested" ELSE status[target[c]]
        /\ token'[target[c]] = (token[target[c]] \/ status[target[c]] \in Active)
    BY <1>0, <1>21, <2>2 DEF RequestCancel
  <2>4. UNCHANGED <<slot, worker, accepted>>
    BY <1>21 DEF RequestCancel
  <2>5. ExecutingInSlot'
    BY <1>0, <2>1, <2>2, <2>3, <2>4
  <2>6. ASSUME NEW r \in Runs, worker'[r] \in Unplaced \cup {"start_run"}
        PROVE  status'[r] = "absent" /\ accepted'[r] = 0
    BY <1>0, <2>1, <2>2, <2>4, <2>6
  <2>7. ASSUME NEW r \in Runs, worker'[r] \in {"reuse", "metadata", "thread"}
        PROVE  status'[r] = "running"
    BY <1>0, <2>1, <2>2, <2>4, <2>7
  <2>8. ASSUME NEW r \in Runs, token'[r] PROVE status'[r] \notin {"absent", "running"}
    <3>1. CASE r = target[c]
      BY <1>0, <2>3, <2>8, <3>1
    <3>2. CASE r # target[c]
      BY <1>0, <2>1, <2>8, <3>2
    <3> QED
      BY <3>1, <3>2
  <2>9. ASSUME NEW r \in Runs, worker'[r] = "run", status'[r] = "cancel_requested"
        PROVE  token'[r]
    <3>1. CASE r = target[c]
      BY <1>0, <2>3, <2>9, <3>1
    <3>2. CASE r # target[c]
      BY <1>0, <2>1, <2>4, <2>9, <3>2
    <3> QED
      BY <3>1, <3>2
  <2> QED
    BY <2>5, <2>6, <2>7, <2>8, <2>9
<1>22. ASSUME Crash PROVE Executing'
  BY <1>0, <1>22 DEF Crash
<1>23. ASSUME Start PROVE Executing'
  BY <1>0, <1>23 DEF Start
<1>24. ASSUME ServeForever PROVE Executing'
  BY <1>0, <1>24 DEF ServeForever
<1>25. ASSUME NEW d \in unread, Reconcile(d) PROVE Executing'
  BY <1>0, <1>25 DEF Reconcile
<1>26. CASE UNCHANGED vars
  BY <1>0, <1>26 DEF vars
<1> QED
  BY <1>1, <1>2, <1>3, <1>4, <1>5, <1>6, <1>7, <1>8, <1>9, <1>10, <1>11, <1>12,
     <1>13, <1>14, <1>15, <1>16, <1>17, <1>18, <1>19, <1>20, <1>21, <1>22, <1>23,
     <1>24, <1>25, <1>26 DEF Next, AdmitRun, ExecuteAdmittedRun, CancelRun

\* Requests: what FindRun read of the slot still decides when the request comes,
\* since a thread that does not execute never will again.
LEMMA RequestsStep ==
  ASSUME Inv, [Next]_vars, NextRunSequence <= LastNumber
  PROVE  Requests'
<1> USE WorkspaceAssumption
    DEF TypeOK, Directories, Listing, Locking, Executing, Requests, Stopped,
        RunLockFree, ExecutingInSlot, Unplaced, Placed, Unlisted, Listed, Admission,
        Active, Step, Request, files, rows, fork, memory
<1>0. TypeOK /\ Directories /\ Listing /\ Locking /\ Executing /\ Requests /\ Stopped
  BY DEF Inv
<1>1. ASSUME NEW r \in Runs, NEW p \in Runs, NEW k \in 0..N, RequestFork(r, p, k)
      PROVE  Requests'
  BY <1>0, <1>1 DEF RequestFork
<1>2. ASSUME NEW r \in Runs, TakeRunLock(r) PROVE Requests'
  BY <1>0, <1>2 DEF TakeRunLock
<1>3. ASSUME NEW r \in Runs, CheckSlot(r) PROVE Requests'
  BY <1>0, <1>3 DEF CheckSlot
<1>4. ASSUME NEW r \in Runs, CheckRuns(r) PROVE Requests'
  BY <1>0, <1>4, VisibleListed DEF CheckRuns
<1>5. ASSUME NEW r \in Runs, MakeDirectory(r) PROVE Requests'
  BY <1>0, <1>5, FreshNumber DEF MakeDirectory
<1>6. ASSUME NEW r \in Runs, Denied(r) PROVE Requests'
  BY <1>0, <1>6 DEF Denied
<1>7. ASSUME NEW r \in Runs, StartRun(r) PROVE Requests'
  BY <1>0, <1>7 DEF StartRun
<1>8. ASSUME NEW r \in Runs, ReuseNode(r) PROVE Requests'
  BY <1>0, <1>8 DEF ReuseNode
<1>9. ASSUME NEW r \in Runs, Admitted(r) PROVE Requests'
  BY <1>0, <1>9 DEF Admitted
<1>10. ASSUME NEW r \in Runs, WriteRunMetadata(r) PROVE Requests'
  BY <1>0, <1>10, VisibleListed DEF WriteRunMetadata
<1>11. ASSUME NEW r \in Runs, StartThread(r) PROVE Requests'
  BY <1>0, <1>11 DEF StartThread
<1>12. ASSUME NEW r \in Runs, AcceptNode(r) PROVE Requests'
  BY <1>0, <1>12 DEF AcceptNode
<1>13. ASSUME NEW r \in Runs, Succeed(r) PROVE Requests'
  BY <1>0, <1>13 DEF Succeed, FinishRun
<1>14. ASSUME NEW r \in Runs, Fail(r) PROVE Requests'
  BY <1>0, <1>14 DEF Fail, FinishRun
<1>15. ASSUME NEW r \in Runs, FinishCancelled(r) PROVE Requests'
  BY <1>0, <1>15 DEF FinishCancelled
<1>16. ASSUME NEW r \in Runs, RewriteMetadata(r) PROVE Requests'
  BY <1>0, <1>16, VisibleListed DEF RewriteMetadata
<1>17. ASSUME NEW r \in Runs, ClearSlot(r) PROVE Requests'
  BY <1>0, <1>17 DEF ClearSlot
<1>18. ASSUME NEW r \in Runs, OperationRaises(r) PROVE Requests'
  <2> USE <1>0, <1>18 DEF OperationRaises
  <2>1. CASE worker[r] \in Admission
    BY <2>1
  <2>2. CASE worker[r] = "run"
    BY <2>2
  <2>3. CASE worker[r] = "ended"
    BY <2>3
  <2> QED
    BY <2>1, <2>2, <2>3
<1>19. ASSUME NEW c \in Clients, NEW r \in Runs, FindRun(c, r) PROVE Requests'
  <2>1. Listed(r) /\ RunLockFree
    BY <1>0, <1>19, VisibleListed DEF FindRun
  <2>2. worker[r] \in {"run", "ended", "clear", "gone"}
    BY <1>0, <2>1 DEF Worker
  <2>3. slot # r => worker[r] # "run"
    BY <1>0
  <2>4. /\ UNCHANGED worker
        /\ client' = [client EXCEPT ![c] = IF slot = r THEN "request" ELSE "interrupt"]
        /\ target' = [target EXCEPT ![c] = r]
    BY <1>19 DEF FindRun
  <2> QED
    BY <1>0, <2>2, <2>3, <2>4
<1>20. ASSUME NEW c \in Clients, Interrupt(c) PROVE Requests'
  BY <1>0, <1>20 DEF Interrupt
<1>21. ASSUME NEW c \in Clients, RequestCancel(c) PROVE Requests'
  BY <1>0, <1>21 DEF RequestCancel
<1>22. ASSUME Crash PROVE Requests'
  BY <1>0, <1>22 DEF Crash
<1>23. ASSUME Start PROVE Requests'
  BY <1>0, <1>23 DEF Start
<1>24. ASSUME ServeForever PROVE Requests'
  BY <1>0, <1>24 DEF ServeForever
<1>25. ASSUME NEW d \in unread, Reconcile(d) PROVE Requests'
  BY <1>0, <1>25 DEF Reconcile
<1>26. CASE UNCHANGED vars
  BY <1>0, <1>26 DEF vars
<1> QED
  BY <1>1, <1>2, <1>3, <1>4, <1>5, <1>6, <1>7, <1>8, <1>9, <1>10, <1>11, <1>12,
     <1>13, <1>14, <1>15, <1>16, <1>17, <1>18, <1>19, <1>20, <1>21, <1>22, <1>23,
     <1>24, <1>25, <1>26 DEF Next, AdmitRun, ExecuteAdmittedRun, CancelRun

\* Stopped: nobody is admitted, executed or asked until the start has reconciled.
LEMMA StoppedStep ==
  ASSUME Inv, [Next]_vars, NextRunSequence <= LastNumber
  PROVE  Stopped'
<1> USE WorkspaceAssumption
    DEF TypeOK, Requests, Stopped, Reading, Directories, Admission, Step, Request,
        files, rows, fork, memory
<1>0. TypeOK /\ Requests /\ Stopped /\ Reading /\ Directories
  BY DEF Inv
<1>1. ASSUME NEW r \in Runs, NEW p \in Runs, NEW k \in 0..N, RequestFork(r, p, k)
      PROVE  Stopped'
  BY <1>0, <1>1 DEF RequestFork
<1>2. ASSUME NEW r \in Runs, TakeRunLock(r) PROVE Stopped'
  BY <1>0, <1>2 DEF TakeRunLock
<1>3. ASSUME NEW r \in Runs, CheckSlot(r) PROVE Stopped'
  BY <1>0, <1>3 DEF CheckSlot
<1>4. ASSUME NEW r \in Runs, CheckRuns(r) PROVE Stopped'
  BY <1>0, <1>4, VisibleListed DEF CheckRuns
<1>5. ASSUME NEW r \in Runs, MakeDirectory(r) PROVE Stopped'
  BY <1>0, <1>5, FreshNumber DEF MakeDirectory
<1>6. ASSUME NEW r \in Runs, Denied(r) PROVE Stopped'
  BY <1>0, <1>6 DEF Denied
<1>7. ASSUME NEW r \in Runs, StartRun(r) PROVE Stopped'
  BY <1>0, <1>7 DEF StartRun
<1>8. ASSUME NEW r \in Runs, ReuseNode(r) PROVE Stopped'
  BY <1>0, <1>8 DEF ReuseNode
<1>9. ASSUME NEW r \in Runs, Admitted(r) PROVE Stopped'
  BY <1>0, <1>9 DEF Admitted
<1>10. ASSUME NEW r \in Runs, WriteRunMetadata(r) PROVE Stopped'
  BY <1>0, <1>10, VisibleListed DEF WriteRunMetadata
<1>11. ASSUME NEW r \in Runs, StartThread(r) PROVE Stopped'
  BY <1>0, <1>11 DEF StartThread
<1>12. ASSUME NEW r \in Runs, AcceptNode(r) PROVE Stopped'
  BY <1>0, <1>12 DEF AcceptNode
<1>13. ASSUME NEW r \in Runs, Succeed(r) PROVE Stopped'
  BY <1>0, <1>13 DEF Succeed, FinishRun
<1>14. ASSUME NEW r \in Runs, Fail(r) PROVE Stopped'
  BY <1>0, <1>14 DEF Fail, FinishRun
<1>15. ASSUME NEW r \in Runs, FinishCancelled(r) PROVE Stopped'
  BY <1>0, <1>15 DEF FinishCancelled
<1>16. ASSUME NEW r \in Runs, RewriteMetadata(r) PROVE Stopped'
  BY <1>0, <1>16, VisibleListed DEF RewriteMetadata
<1>17. ASSUME NEW r \in Runs, ClearSlot(r) PROVE Stopped'
  BY <1>0, <1>17 DEF ClearSlot
<1>18. ASSUME NEW r \in Runs, OperationRaises(r) PROVE Stopped'
  <2> USE <1>0, <1>18 DEF OperationRaises
  <2>1. CASE worker[r] \in Admission
    BY <2>1
  <2>2. CASE worker[r] = "run"
    BY <2>2
  <2>3. CASE worker[r] = "ended"
    BY <2>3
  <2> QED
    BY <2>1, <2>2, <2>3
<1>19. ASSUME NEW c \in Clients, NEW r \in Runs, FindRun(c, r) PROVE Stopped'
  BY <1>0, <1>19, VisibleListed DEF FindRun
<1>20. ASSUME NEW c \in Clients, Interrupt(c) PROVE Stopped'
  BY <1>0, <1>20 DEF Interrupt
<1>21. ASSUME NEW c \in Clients, RequestCancel(c) PROVE Stopped'
  BY <1>0, <1>21 DEF RequestCancel
<1>22. ASSUME Crash PROVE Stopped'
  BY <1>0, <1>22 DEF Crash
<1>23. ASSUME Start PROVE Stopped'
  BY <1>0, <1>23 DEF Start
<1>24. ASSUME ServeForever PROVE Stopped'
  BY <1>0, <1>24 DEF ServeForever
<1>25. ASSUME NEW d \in unread, Reconcile(d) PROVE Stopped'
  BY <1>0, <1>25 DEF Reconcile
<1>26. CASE UNCHANGED vars
  BY <1>0, <1>26 DEF vars
<1> QED
  BY <1>1, <1>2, <1>3, <1>4, <1>5, <1>6, <1>7, <1>8, <1>9, <1>10, <1>11, <1>12,
     <1>13, <1>14, <1>15, <1>16, <1>17, <1>18, <1>19, <1>20, <1>21, <1>22, <1>23,
     <1>24, <1>25, <1>26 DEF Next, AdmitRun, ExecuteAdmittedRun, CancelRun

\* Reading: directories are read between Start and ServeForever only.
LEMMA ReadingStep ==
  ASSUME Inv, [Next]_vars, NextRunSequence <= LastNumber
  PROVE  Reading'
<1> USE WorkspaceAssumption
    DEF TypeOK, Reading, Stopped, Numbers, Step, Request, files, rows, fork, memory
<1>0. TypeOK /\ Reading /\ Stopped
  BY DEF Inv
<1>1. ASSUME NEW r \in Runs, NEW p \in Runs, NEW k \in 0..N, RequestFork(r, p, k)
      PROVE  Reading'
  BY <1>0, <1>1 DEF RequestFork
<1>2. ASSUME NEW r \in Runs, TakeRunLock(r) PROVE Reading'
  BY <1>0, <1>2 DEF TakeRunLock
<1>3. ASSUME NEW r \in Runs, CheckSlot(r) PROVE Reading'
  BY <1>0, <1>3 DEF CheckSlot
<1>4. ASSUME NEW r \in Runs, CheckRuns(r) PROVE Reading'
  BY <1>0, <1>4, VisibleListed DEF CheckRuns
<1>5. ASSUME NEW r \in Runs, MakeDirectory(r) PROVE Reading'
  BY <1>0, <1>5, FreshNumber DEF MakeDirectory
<1>6. ASSUME NEW r \in Runs, Denied(r) PROVE Reading'
  BY <1>0, <1>6 DEF Denied
<1>7. ASSUME NEW r \in Runs, StartRun(r) PROVE Reading'
  BY <1>0, <1>7 DEF StartRun
<1>8. ASSUME NEW r \in Runs, ReuseNode(r) PROVE Reading'
  BY <1>0, <1>8 DEF ReuseNode
<1>9. ASSUME NEW r \in Runs, Admitted(r) PROVE Reading'
  BY <1>0, <1>9 DEF Admitted
<1>10. ASSUME NEW r \in Runs, WriteRunMetadata(r) PROVE Reading'
  BY <1>0, <1>10, VisibleListed DEF WriteRunMetadata
<1>11. ASSUME NEW r \in Runs, StartThread(r) PROVE Reading'
  BY <1>0, <1>11 DEF StartThread
<1>12. ASSUME NEW r \in Runs, AcceptNode(r) PROVE Reading'
  BY <1>0, <1>12 DEF AcceptNode
<1>13. ASSUME NEW r \in Runs, Succeed(r) PROVE Reading'
  BY <1>0, <1>13 DEF Succeed, FinishRun
<1>14. ASSUME NEW r \in Runs, Fail(r) PROVE Reading'
  BY <1>0, <1>14 DEF Fail, FinishRun
<1>15. ASSUME NEW r \in Runs, FinishCancelled(r) PROVE Reading'
  BY <1>0, <1>15 DEF FinishCancelled
<1>16. ASSUME NEW r \in Runs, RewriteMetadata(r) PROVE Reading'
  BY <1>0, <1>16, VisibleListed DEF RewriteMetadata
<1>17. ASSUME NEW r \in Runs, ClearSlot(r) PROVE Reading'
  BY <1>0, <1>17 DEF ClearSlot
<1>18. ASSUME NEW r \in Runs, OperationRaises(r) PROVE Reading'
  <2> USE <1>0, <1>18 DEF OperationRaises
  <2>1. CASE worker[r] \in Admission
    BY <2>1
  <2>2. CASE worker[r] = "run"
    BY <2>2
  <2>3. CASE worker[r] = "ended"
    BY <2>3
  <2> QED
    BY <2>1, <2>2, <2>3
<1>19. ASSUME NEW c \in Clients, NEW r \in Runs, FindRun(c, r) PROVE Reading'
  BY <1>0, <1>19, VisibleListed DEF FindRun
<1>20. ASSUME NEW c \in Clients, Interrupt(c) PROVE Reading'
  BY <1>0, <1>20 DEF Interrupt
<1>21. ASSUME NEW c \in Clients, RequestCancel(c) PROVE Reading'
  BY <1>0, <1>21 DEF RequestCancel
<1>22. ASSUME Crash PROVE Reading'
  BY <1>0, <1>22 DEF Crash
<1>23. ASSUME Start PROVE Reading'
  BY <1>0, <1>23 DEF Start
<1>24. ASSUME ServeForever PROVE Reading'
  BY <1>0, <1>24 DEF ServeForever
<1>25. ASSUME NEW d \in unread, Reconcile(d) PROVE Reading'
  BY <1>0, <1>25 DEF Reconcile
<1>26. CASE UNCHANGED vars
  BY <1>0, <1>26 DEF vars
<1> QED
  BY <1>1, <1>2, <1>3, <1>4, <1>5, <1>6, <1>7, <1>8, <1>9, <1>10, <1>11, <1>12,
     <1>13, <1>14, <1>15, <1>16, <1>17, <1>18, <1>19, <1>20, <1>21, <1>22, <1>23,
     <1>24, <1>25, <1>26 DEF Next, AdmitRun, ExecuteAdmittedRun, CancelRun

-----------------------------------------------------------------------------

\* The invariant holds throughout, while the two hypotheses do.
THEOREM WorkspaceInvariance ==
  Spec /\ [](NextRunSequence <= LastNumber) => []Inv
<1>1. Inv /\ NextRunSequence <= LastNumber /\ [Next]_vars => Inv'
  BY TypeOKStep, DirectoriesStep, ListingStep, LockingStep, ExecutingStep,
     RequestsStep, StoppedStep, ReadingStep
  DEF Inv
<1> QED
  BY InitInv, <1>1, PTL DEF Spec

\* The workspace is well-typed, also after a crash between any two writes.
THEOREM WorkspaceTypes ==
  Spec /\ [](NextRunSequence <= LastNumber) => []TypeOK
<1>1. Inv => TypeOK
  BY DEF Inv
<1> QED
  BY <1>1, WorkspaceInvariance, PTL

\* At most one listed Run is active (_assert_no_active_run, _run_lock).
THEOREM OneRunAtATime ==
  Spec /\ [](NextRunSequence <= LastNumber) => []OneActive
<1>1. Inv => OneActive
  BY VisibleListed DEF Inv, Locking, OneActive
<1> QED
  BY <1>1, WorkspaceInvariance, PTL

\* No thread executes outside the slot that cancel and shutdown look into.
THEOREM ExecutionHasSlot ==
  Spec /\ [](NextRunSequence <= LastNumber) => []ExecutingInSlot
<1>1. Inv => ExecutingInSlot
  BY DEF Inv, Executing
<1> QED
  BY <1>1, WorkspaceInvariance, PTL

\* No two Runs write into one directory (_next_run_sequence).
THEOREM DirectoryOfOneRun ==
  Spec /\ [](NextRunSequence <= LastNumber) => []DirectoryUsedOnce
<1>1. Inv => DirectoryUsedOnce
  BY DEF Inv, Directories
<1> QED
  BY <1>1, WorkspaceInvariance, PTL

\* The steps that write a row.
RowStep ==
  \/ \E s \in Runs : \/ StartRun(s) \/ ReuseNode(s) \/ AcceptNode(s)
                     \/ Succeed(s) \/ Fail(s) \/ FinishCancelled(s)
  \/ \E c \in Clients : Interrupt(c) \/ RequestCancel(c)
  \/ \E d \in unread : Reconcile(d)

\* Every other step leaves all the rows alone.
LEMMA RowSteps == [Next]_vars => RowStep \/ UNCHANGED rows
<1> SUFFICES ASSUME [Next]_vars PROVE RowStep \/ UNCHANGED rows
  OBVIOUS
<1>1. ASSUME NEW s \in Runs,
             \/ \E p \in Runs, k \in 0..N : RequestFork(s, p, k)
             \/ TakeRunLock(s) \/ CheckSlot(s) \/ CheckRuns(s) \/ MakeDirectory(s)
             \/ Denied(s) \/ Admitted(s) \/ WriteRunMetadata(s) \/ StartThread(s)
             \/ RewriteMetadata(s) \/ ClearSlot(s) \/ OperationRaises(s)
             \/ \E c \in Clients : FindRun(c, s)
      PROVE  UNCHANGED rows
  BY <1>1
  DEF RequestFork, TakeRunLock, CheckSlot, CheckRuns, MakeDirectory, Denied, Admitted,
      WriteRunMetadata, StartThread, RewriteMetadata, ClearSlot, OperationRaises,
      FindRun, Request, rows
<1>2. ASSUME Crash \/ Start \/ ServeForever \/ UNCHANGED vars PROVE UNCHANGED rows
  BY <1>2 DEF Crash, Start, ServeForever, vars
<1> QED
  BY <1>1, <1>2 DEF Next, AdmitRun, ExecuteAdmittedRun, CancelRun, RowStep

\* A terminal row is settled for good: the thread of a terminal Run accepts
\* nothing, and every update of the status asks for an active one.
LEMMA TerminalStep ==
  ASSUME Inv, [Next]_vars, NEW r \in Runs, status[r] \in Terminal
  PROVE  status'[r] = status[r] /\ accepted'[r] = accepted[r]
<1> DEFINE Same == status'[r] = status[r] /\ accepted'[r] = accepted[r]
<1> USE DEF Terminal, Active
<1>0. /\ TypeOK
      /\ \A s \in Runs : worker[s] = "run" => status[s] \in Active
      /\ \A s \in Runs : worker[s] = "start_run" => status[s] = "absent"
      /\ \A s \in Runs : worker[s] = "reuse" => status[s] = "running"
  BY DEF Inv, Executing, ExecutingInSlot
<1>1. ASSUME NEW s \in Runs, StartRun(s) \/ ReuseNode(s) \/ AcceptNode(s)
      PROVE  Same
  BY <1>0, <1>1 DEF StartRun, ReuseNode, AcceptNode, Step, TypeOK
<1>2. ASSUME NEW s \in Runs, Succeed(s) \/ Fail(s) \/ FinishCancelled(s)
      PROVE  Same
  BY <1>0, <1>2 DEF Succeed, Fail, FinishRun, FinishCancelled, Step, TypeOK
<1>3. ASSUME NEW c \in Clients, Interrupt(c) \/ RequestCancel(c)
      PROVE  Same
  BY <1>0, <1>3 DEF Interrupt, RequestCancel, Request, TypeOK
<1>4. ASSUME NEW d \in unread, Reconcile(d)
      PROVE  Same
  BY <1>0, <1>4 DEF Reconcile, TypeOK
<1>5. ASSUME UNCHANGED rows PROVE Same
  BY <1>5 DEF rows
<1> QED
  BY <1>1, <1>2, <1>3, <1>4, <1>5, RowSteps DEF RowStep

\* A terminal Run is immutable.
THEOREM TerminalRunsImmutable ==
  Spec /\ [](NextRunSequence <= LastNumber) => TerminalImmutable
<1>1. Inv /\ [Next]_vars =>
        [\A r \in Runs : status[r] \in Terminal =>
           status'[r] = status[r] /\ accepted'[r] = accepted[r]]_vars
  BY TerminalStep
<1> QED
  BY <1>1, WorkspaceInvariance, PTL DEF Spec, TerminalImmutable

\* Directories are never removed, and an app-run.json that names a Run is
\* replaced only by that Run, the one whose directory it is.
LEMMA HistoryStep ==
  ASSUME Inv, [Next]_vars, NEW r \in Runs, Visible(r)
  PROVE  Visible(r)'
<1>1. PICK d \in made : index[d] = r
  BY DEF Visible
<1>2. d \in Numbers /\ r # NoRun /\ TypeOK
  BY WorkspaceAssumption DEF Inv, TypeOK
<1>3. ASSUME NEW s \in Runs, place[s] = d, place[s] # 0 PROVE s = r
  BY <1>1, <1>2, <1>3 DEF Inv, Directories, DirectoryUsedOnce
<1>4. ASSUME NEW s \in Runs, worker[s] \in {"metadata", "ended"} PROVE place[s] # 0
  BY <1>4 DEF Inv, Directories, Placed
<1>5. ASSUME NEW s \in Runs, WriteRunMetadata(s) \/ RewriteMetadata(s) PROVE Visible(r)'
  <2>1. index'[d] = IF d = place[s] THEN s ELSE index[d]
    BY <1>2, <1>5 DEF WriteRunMetadata, RewriteMetadata, TypeOK
  <2>2. place[s] # 0 /\ made' = made
    BY <1>4, <1>5 DEF WriteRunMetadata, RewriteMetadata, Step
  <2> QED
    BY <1>1, <1>3, <2>1, <2>2 DEF Visible
<1>6. ASSUME UNCHANGED index, made \subseteq made' PROVE Visible(r)'
  BY <1>1, <1>6 DEF Visible
<1>7. \/ UNCHANGED index /\ made \subseteq made'
      \/ \E s \in Runs : WriteRunMetadata(s) \/ RewriteMetadata(s)
  <2>1. ASSUME NEW s \in Runs, MakeDirectory(s)
        PROVE  UNCHANGED index /\ made \subseteq made'
    BY <2>1 DEF MakeDirectory
  <2>2. ASSUME NEW s \in Runs,
               \/ \E p \in Runs, k \in 0..N : RequestFork(s, p, k)
               \/ TakeRunLock(s) \/ CheckSlot(s) \/ CheckRuns(s) \/ Denied(s)
               \/ StartRun(s) \/ ReuseNode(s) \/ Admitted(s) \/ StartThread(s)
               \/ AcceptNode(s) \/ Succeed(s) \/ Fail(s) \/ FinishCancelled(s)
               \/ ClearSlot(s) \/ OperationRaises(s)
               \/ \E c \in Clients : FindRun(c, s)
        PROVE  UNCHANGED files
    BY <2>2
    DEF RequestFork, TakeRunLock, CheckSlot, CheckRuns, Denied, StartRun, ReuseNode,
        Admitted, StartThread, AcceptNode, Succeed, Fail, FinishRun, FinishCancelled,
        ClearSlot, OperationRaises, FindRun, Request, files
  <2>3. ASSUME \/ \E c \in Clients : CancelRun(c)
               \/ \E e \in unread : Reconcile(e)
               \/ Crash \/ Start \/ ServeForever \/ UNCHANGED vars
        PROVE  UNCHANGED files
    BY <2>3
    DEF CancelRun, Interrupt, RequestCancel, Request, Reconcile, Crash, Start,
        ServeForever, vars, files
  <2> QED
    BY <2>1, <2>2, <2>3 DEF Next, AdmitRun, ExecuteAdmittedRun, files
<1> QED
  BY <1>5, <1>6, <1>7

\* A Run that was in the history stays in it.
THEOREM HistoryIsKept ==
  Spec /\ [](NextRunSequence <= LastNumber) => HistoryKept
<1>1. Inv /\ [Next]_vars => [\A r \in Runs : Visible(r) => Visible(r)']_vars
  BY HistoryStep
<1> QED
  BY <1>1, WorkspaceInvariance, PTL DEF Spec, HistoryKept

\* A fork's parent is terminal when the fork is requested, so what the fork reads
\* of it without a lock does not change afterwards.
LEMMA ForkStep ==
  ASSUME Inv, [Next]_vars, ForkedFromAccepted
  PROVE  ForkedFromAccepted'
<1> DEFINE Seeded(r) == /\ status'[parent[r]] \in Terminal
                        /\ reused[r] <= accepted'[parent[r]]
<1>1. TypeOK /\ NoRun \notin Runs
  BY WorkspaceAssumption DEF Inv
<1>2. ASSUME NEW r \in Runs, parent[r] # NoRun PROVE Seeded(r)
  <2>1. parent[r] \in Runs
    BY <1>1, <1>2 DEF TypeOK
  <2> QED
    BY <1>2, <2>1, TerminalStep DEF ForkedFromAccepted
<1>3. CASE UNCHANGED fork
  BY <1>2, <1>3 DEF fork, ForkedFromAccepted
<1>4. ASSUME NEW r \in Runs, NEW p \in Runs, NEW k \in 0..N, RequestFork(r, p, k)
      PROVE  ForkedFromAccepted'
  <2>1. status[p] \in Terminal /\ k <= accepted[p]
    BY <1>1, <1>4 DEF RequestFork, TypeOK
  <2>2. UNCHANGED <<status, accepted>>
    BY <1>4 DEF RequestFork, rows
  <2>3. ASSUME NEW s \in Runs, s # r PROVE parent'[s] = parent[s] /\ reused'[s] = reused[s]
    BY <1>1, <1>4, <2>3 DEF RequestFork, TypeOK
  <2>4. parent'[r] = p /\ reused'[r] = k
    BY <1>1, <1>4 DEF RequestFork, TypeOK
  <2> QED
    BY <1>2, <2>1, <2>2, <2>3, <2>4 DEF ForkedFromAccepted
<1>5. \/ UNCHANGED fork
      \/ \E r \in Runs, p \in Runs, k \in 0..N : RequestFork(r, p, k)
  <2>1. ASSUME NEW r \in Runs, AdmitRun(r) PROVE UNCHANGED fork
    BY <2>1
    DEF AdmitRun, TakeRunLock, CheckSlot, CheckRuns, MakeDirectory, Denied, StartRun,
        ReuseNode, Admitted, WriteRunMetadata, StartThread
  <2>2. ASSUME NEW r \in Runs, ExecuteAdmittedRun(r) \/ OperationRaises(r)
        PROVE  UNCHANGED fork
    BY <2>2
    DEF ExecuteAdmittedRun, AcceptNode, Succeed, Fail, FinishRun, FinishCancelled,
        RewriteMetadata, ClearSlot, OperationRaises
  <2>3. ASSUME NEW c \in Clients, CancelRun(c) \/ \E r \in Runs : FindRun(c, r)
        PROVE  UNCHANGED fork
    BY <2>3 DEF CancelRun, Interrupt, RequestCancel, FindRun, Request
  <2>4. ASSUME \/ \E d \in unread : Reconcile(d)
               \/ Crash \/ Start \/ ServeForever \/ UNCHANGED vars
        PROVE  UNCHANGED fork
    BY <2>4 DEF Reconcile, Crash, Start, ServeForever, vars
  <2> QED
    BY <2>1, <2>2, <2>3, <2>4 DEF Next
<1> QED
  BY <1>3, <1>4, <1>5

\* What a fork was seeded with is what its parent accepted, and still does.
THEOREM ForksAreSeeded ==
  Spec /\ [](NextRunSequence <= LastNumber) => []ForkedFromAccepted
<1>1. Init => ForkedFromAccepted
  BY DEF Init, ForkedFromAccepted
<1>2. ForkedFromAccepted /\ Inv /\ [Next]_vars => ForkedFromAccepted'
  BY ForkStep
<1> QED
  BY <1>1, <1>2, WorkspaceInvariance, PTL DEF Spec

\* A step of the workspace is a step of the promise of each Run, or none.
LEMMA PromiseStep ==
  ASSUME Inv, [Next]_vars, NEW r \in Runs
  PROVE  Promise(r)!Next \/ UNCHANGED Promise(r)!vars
<1> DEFINE Kept == Promise(r)!Next \/ UNCHANGED Promise(r)!vars
<1> USE DEF Promise!Next, Promise!vars, Promise!Nodes, Promise!Active, Promise!StartRun,
            Promise!Accept, Promise!RequestCancel, Promise!Succeed, Promise!Cancel,
            Promise!Fail, Active
<1>1. /\ status \in [Runs -> {"absent"} \cup Active \cup Terminal]
      /\ accepted \in [Runs -> 0..N]
      /\ N \in Nat
  BY WorkspaceAssumption DEF Inv, TypeOK
<1>2. /\ worker[r] = "start_run" => status[r] = "absent"
      /\ worker[r] = "reuse" => status[r] = "running"
      /\ worker[r] = "run" => status[r] \in Active
      /\ worker[r] = "run" /\ status[r] = "cancel_requested" => token[r]
      /\ token[r] => status[r] \notin {"absent", "running"}
  BY DEF Inv, Executing, ExecutingInSlot
<1>3. ASSUME status'[r] = status[r], accepted'[r] = accepted[r] PROVE Kept
  BY <1>3
<1>4. ASSUME StartRun(r) PROVE Kept
  BY <1>1, <1>2, <1>4 DEF StartRun, Step
<1>5. ASSUME ReuseNode(r) \/ AcceptNode(r) PROVE Kept
  <2>1. /\ status[r] = "running" /\ status'[r] = "running"
        /\ accepted[r] + 1 \in 1..N
        /\ accepted'[r] = accepted[r] + 1
    BY <1>1, <1>2, <1>5, WorkspaceAssumption DEF ReuseNode, AcceptNode, Step, Inv, TypeOK
  <2>2. 1..(accepted[r] + 1) = (1..accepted[r]) \cup {accepted[r] + 1}
    BY <1>1
  <2>3. Promise(r)!Accept(accepted[r] + 1)
    BY <1>1, <2>1, <2>2
  <2> QED
    BY <2>1, <2>3
<1>6. ASSUME Succeed(r) \/ Fail(r) \/ FinishCancelled(r) PROVE Kept
  BY <1>1, <1>2, <1>6 DEF Succeed, Fail, FinishRun, FinishCancelled, Step
<1>7. ASSUME NEW c \in Clients, Interrupt(c) \/ RequestCancel(c), target[c] = r PROVE Kept
  BY <1>1, <1>7 DEF Interrupt, RequestCancel, Request
<1>8. ASSUME NEW d \in unread, Reconcile(d), index[d] = r PROVE Kept
  BY <1>1, <1>8 DEF Reconcile
<1>9. ASSUME NEW s \in Runs, s # r,
             \/ StartRun(s) \/ ReuseNode(s) \/ AcceptNode(s)
             \/ Succeed(s) \/ Fail(s) \/ FinishCancelled(s)
      PROVE  status'[r] = status[r] /\ accepted'[r] = accepted[r]
  BY <1>1, <1>9
  DEF StartRun, ReuseNode, AcceptNode, Succeed, Fail, FinishRun, FinishCancelled
<1>10. ASSUME NEW c \in Clients, Interrupt(c) \/ RequestCancel(c), target[c] # r
       PROVE  status'[r] = status[r] /\ accepted'[r] = accepted[r]
  BY <1>1, <1>10 DEF Interrupt, RequestCancel, Request
<1>11. ASSUME NEW d \in unread, Reconcile(d), index[d] # r
       PROVE  status'[r] = status[r] /\ accepted'[r] = accepted[r]
  BY <1>1, <1>11 DEF Reconcile
<1>12. UNCHANGED rows => status'[r] = status[r] /\ accepted'[r] = accepted[r]
  BY DEF rows
<1> QED
  BY <1>3, <1>4, <1>5, <1>6, <1>7, <1>8, <1>9, <1>10, <1>11, <1>12, RowSteps
  DEF RowStep

\* Each Run keeps the promise of RunStatus.
THEOREM RunsImplementRunStatus ==
  Spec /\ [](NextRunSequence <= LastNumber) => RunsKeepPromise
<1>1. Init => \A r \in Runs : Promise(r)!Init
  BY DEF Init, Promise!Init
<1>2. Inv /\ [Next]_vars =>
        [\A r \in Runs : Promise(r)!Next \/ UNCHANGED Promise(r)!vars]_vars
  BY PromiseStep
<1> QED
  BY <1>1, <1>2, WorkspaceInvariance, PTL DEF Spec, RunsKeepPromise

-----------------------------------------------------------------------------
(* The Run that executes, and the Runs nobody executes.                    *)

\* What one step may do to the status of a Run that its thread executes.
Decided(r) ==
  \/ status'[r] = status[r]
  \/ worker'[r] = "ended" /\ status'[r] \in Terminal
  \/ /\ status[r] = "running" /\ status'[r] = "cancel_requested"
     /\ worker'[r] = "run" /\ token'[r]

\* Nobody ends an executing Run but its thread, and a cancellation reaches the
\* thread's token in the same step as the row.
ThreadDecides == [][\A r \in Runs : worker[r] = "run" => Decided(r)]_vars

\* The rows of an executing Run are written by its thread and by request_cancel.
LEMMA DecidedStep ==
  ASSUME Inv, [Next]_vars, NEW r \in Runs, worker[r] = "run"
  PROVE  Decided(r)
<1>0. /\ TypeOK
      /\ status[r] \in Active
      /\ status[r] = "cancel_requested" => token[r]
  BY DEF Inv, Executing, ExecutingInSlot
<1> USE DEF Decided, Terminal, Active
<1>1. ASSUME NEW s \in Runs, StartRun(s) \/ ReuseNode(s) \/ AcceptNode(s)
      PROVE  Decided(r)
  BY <1>0, <1>1 DEF StartRun, ReuseNode, AcceptNode, Step, TypeOK
<1>2. ASSUME NEW s \in Runs, Succeed(s) \/ Fail(s) \/ FinishCancelled(s)
      PROVE  Decided(r)
  <2>1. CASE s = r
    <3>1. worker'[r] = "ended"
      BY <1>0, <1>2, <2>1 DEF Succeed, Fail, FinishRun, FinishCancelled, Step, TypeOK
    <3>2. status'[r] \in Terminal
      BY <1>0, <1>2, <2>1 DEF Succeed, Fail, FinishRun, FinishCancelled, TypeOK
    <3> QED
      BY <3>1, <3>2
  <2>2. CASE s # r
    BY <1>0, <1>2, <2>2 DEF Succeed, Fail, FinishRun, FinishCancelled, TypeOK
  <2> QED
    BY <2>1, <2>2
<1>3. ASSUME NEW c \in Clients, Interrupt(c) PROVE Decided(r)
  <2>1. target[c] # r
    BY <1>3 DEF Interrupt, Request, Inv, Requests
  <2> QED
    BY <1>0, <1>3, <2>1 DEF Interrupt, TypeOK
<1>4. ASSUME NEW c \in Clients, RequestCancel(c) PROVE Decided(r)
  BY <1>0, <1>4 DEF RequestCancel, Request, TypeOK
<1>5. ASSUME NEW d \in unread, Reconcile(d) PROVE Decided(r)
  BY <1>5 DEF Reconcile, Inv, Stopped
<1>6. ASSUME UNCHANGED rows PROVE Decided(r)
  BY <1>6 DEF rows
<1> QED
  BY <1>1, <1>2, <1>3, <1>4, <1>5, <1>6, RowSteps DEF RowStep

\* A Run that executes is ended by its own thread only, and a cancellation of it
\* is durable and signalled at once (cancel_run, mark_interrupted, transition_lock).
THEOREM ExecutionDecidesItself ==
  Spec /\ [](NextRunSequence <= LastNumber) => ThreadDecides
<1>1. Inv /\ [Next]_vars => [\A r \in Runs : worker[r] = "run" => Decided(r)]_vars
  BY DecidedStep
<1> QED
  BY <1>1, WorkspaceInvariance, PTL DEF Spec, ThreadDecides

\* No Run of the history waits for a thread that does not exist: while no
\* operation has raised, each listed active Run has one, after a restart too.
Attended ==
  up = "serving" /\ faults = 0 =>
    \A r \in Runs : Visible(r) /\ status[r] \in Active => worker[r] \in {"thread", "run"}

\* It is not inductive.  A start has still to read every listed Run it found
\* active, and a thread leaves the try block with its Run over.
Attention ==
  /\ up = "starting" =>
       \A r \in Runs : Listed(r) /\ status[r] \in Active => place[r] \in unread
  /\ up = "serving" /\ faults = 0 =>
       \A r \in Runs : Listed(r) /\ status[r] \in Active => worker[r] \in {"thread", "run"}
  /\ faults = 0 =>
       \A r \in Runs : worker[r] \in {"ended", "clear"} => status[r] \in Terminal

\* Admission and execution of a Run leave no listed active Run alone, and the
\* start of a process fails every one it reads.
LEMMA AttentionStep ==
  ASSUME Inv, Inv', Attention, [Next]_vars
  PROVE  Attention'
<1>0. /\ TypeOK /\ Directories /\ Listing /\ Stopped
      /\ Listing'
      /\ \A r \in Runs : worker[r] = "run" => status[r] \in Active
      /\ \A r \in Runs : worker[r] = "run" /\ status[r] = "cancel_requested" => token[r]
      /\ \A r \in Runs : worker[r] \in {"start_run"} => status[r] = "absent"
  BY DEF Inv, Executing, ExecutingInSlot
<1> USE WorkspaceAssumption
    DEF TypeOK, Directories, DirectoryUsedOnce, Listing, Stopped, Unplaced, Placed,
        Unlisted, Listed, Admission, Attention, Active, Terminal, Step, Request, files,
        rows, fork, memory
<1>1. ASSUME NEW r \in Runs, NEW p \in Runs, NEW k \in 0..N, RequestFork(r, p, k)
      PROVE  Attention'
  BY <1>0, <1>1 DEF RequestFork
<1>2. ASSUME NEW r \in Runs, TakeRunLock(r) PROVE Attention'
  BY <1>0, <1>2 DEF TakeRunLock
<1>3. ASSUME NEW r \in Runs, CheckSlot(r) PROVE Attention'
  BY <1>0, <1>3 DEF CheckSlot
<1>4. ASSUME NEW r \in Runs, CheckRuns(r) PROVE Attention'
  BY <1>0, <1>4, VisibleListed DEF CheckRuns
<1>5. ASSUME NEW r \in Runs, MakeDirectory(r) PROVE Attention'
  BY <1>0, <1>5 DEF MakeDirectory
<1>6. ASSUME NEW r \in Runs, Denied(r) PROVE Attention'
  BY <1>0, <1>6 DEF Denied
<1>7. ASSUME NEW r \in Runs, StartRun(r) PROVE Attention'
  BY <1>0, <1>7 DEF StartRun
<1>8. ASSUME NEW r \in Runs, ReuseNode(r) PROVE Attention'
  BY <1>0, <1>8 DEF ReuseNode
<1>9. ASSUME NEW r \in Runs, Admitted(r) PROVE Attention'
  BY <1>0, <1>9 DEF Admitted
<1>10. ASSUME NEW r \in Runs, WriteRunMetadata(r) PROVE Attention'
  BY <1>0, <1>10 DEF WriteRunMetadata
<1>11. ASSUME NEW r \in Runs, StartThread(r) PROVE Attention'
  BY <1>0, <1>11 DEF StartThread
<1>12. ASSUME NEW r \in Runs, AcceptNode(r) PROVE Attention'
  BY <1>0, <1>12 DEF AcceptNode
<1>13. ASSUME NEW r \in Runs, Succeed(r) PROVE Attention'
  BY <1>0, <1>13 DEF Succeed, FinishRun
<1>14. ASSUME NEW r \in Runs, Fail(r) PROVE Attention'
  BY <1>0, <1>14 DEF Fail, FinishRun
<1>15. ASSUME NEW r \in Runs, FinishCancelled(r) PROVE Attention'
  BY <1>0, <1>15 DEF FinishCancelled
<1>16. ASSUME NEW r \in Runs, RewriteMetadata(r) PROVE Attention'
  BY <1>0, <1>16 DEF RewriteMetadata
<1>17. ASSUME NEW r \in Runs, ClearSlot(r) PROVE Attention'
  BY <1>0, <1>17 DEF ClearSlot
<1>18. ASSUME NEW r \in Runs, OperationRaises(r) PROVE Attention'
  <2>1. faults' # 0 /\ UNCHANGED <<up, unread, place, index, status>>
    BY <1>0, <1>18 DEF OperationRaises
  <2> QED
    BY <1>0, <2>1
<1>19. ASSUME NEW c \in Clients, NEW r \in Runs, FindRun(c, r) PROVE Attention'
  BY <1>0, <1>19 DEF FindRun
<1>20. ASSUME NEW c \in Clients, Interrupt(c) PROVE Attention'
  BY <1>0, <1>20 DEF Interrupt
<1>21. ASSUME NEW c \in Clients, RequestCancel(c) PROVE Attention'
  BY <1>0, <1>21 DEF RequestCancel
<1>22. ASSUME Crash PROVE Attention'
  BY <1>0, <1>22 DEF Crash
<1>23. ASSUME Start PROVE Attention'
  BY <1>0, <1>23 DEF Start
<1>24. ASSUME ServeForever PROVE Attention'
  BY <1>0, <1>24 DEF ServeForever
<1>25. ASSUME NEW d \in unread, Reconcile(d) PROVE Attention'
  BY <1>0, <1>25 DEF Reconcile
<1>26. CASE UNCHANGED vars
  BY <1>0, <1>26 DEF vars
<1> QED
  BY <1>1, <1>2, <1>3, <1>4, <1>5, <1>6, <1>7, <1>8, <1>9, <1>10, <1>11, <1>12,
     <1>13, <1>14, <1>15, <1>16, <1>17, <1>18, <1>19, <1>20, <1>21, <1>22, <1>23,
     <1>24, <1>25, <1>26 DEF Next, AdmitRun, ExecuteAdmittedRun, CancelRun

\* Recovery is complete, and so is every ending: a served workspace lists no
\* active Run without a thread, unless an operation has raised
\* (_reconcile_unfinished_runs, _execute_admitted_run).
THEOREM ActiveRunsAttended ==
  Spec /\ [](NextRunSequence <= LastNumber) => []Attended
<1>1. Init => Attention
  BY DEF Init, Attention, Active
<1>2. Inv /\ Inv' /\ Attention /\ [Next]_vars => Attention'
  BY AttentionStep
<1>3. Inv /\ Attention => Attended
  BY VisibleListed DEF Inv, Attention, Attended
<1> QED
  BY <1>1, <1>2, <1>3, WorkspaceInvariance, PTL DEF Spec
=============================================================================
