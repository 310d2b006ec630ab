---------------------------- MODULE ChildProcess ----------------------------
(***************************************************************************)
(* The child process of one Node, the thread that executes the Node, and   *)
(* the thread that cancels the Run: CancellationToken, signal_process_tree *)
(* and what the adapters have in common.  CommandCall, OpenCodeCall and    *)
(* McpCall are the adapters.                                               *)
(*                                                                         *)
(* A process may ignore SIGTERM for ever and may exit at any time; SIGKILL *)
(* ends it.  Time is two facts: a second has passed since the process was  *)
(* asked to end, and the deadline has passed.                              *)
(***************************************************************************)

VARIABLES
  child,        \* the process: "exited" until somebody waits for it
  asked,        \* it was sent SIGTERM while it ran
  token,        \* CancellationToken._event
  registered,   \* the call's callback is in _callbacks
  canceller,    \* what the thread in CancellationToken.request does next
  worker,       \* what the thread in execute does next
  verdict,      \* how the call ends once its finally is through
  returned,     \* how it has ended, "no" before
  started,      \* cancellation_started: "no", less than a second ago, or longer
  late          \* the deadline has passed

process == <<child, asked>>
signal  == <<token, registered, canceller>>
call    == <<worker, verdict, returned>>
clock   == <<started, late>>
shared  == <<process, signal, call, clock>>

Verdict == {"result", "cancelled", "timeout", "error"}

ProcessTypeOK ==
  /\ child \in {"none", "live", "exited", "reaped"}
  /\ asked \in BOOLEAN
  /\ token \in BOOLEAN
  /\ registered \in BOOLEAN
  /\ canceller \in {"idle", "callback", "abort", "signal", "done"}
  /\ verdict \in Verdict
  /\ returned \in {"no"} \cup Verdict
  /\ started \in {"no", "recent", "long"}
  /\ late \in BOOLEAN

ProcessInit ==
  /\ child = "none"
  /\ asked = FALSE
  /\ token = FALSE
  /\ registered = FALSE
  /\ canceller = "idle"
  /\ worker = "check"
  /\ verdict = "result"
  /\ returned = "no"
  /\ started = "no"
  /\ late = FALSE

-----------------------------------------------------------------------------
(* What both threads do to the process.                                    *)

\* Popen.poll, and a Popen.wait that does not time out.
Reap == child' = IF child = "exited" THEN "reaped" ELSE child

\* signal_process_tree: a process that has exited is reaped, not signalled.
Terminate ==
  /\ Reap
  /\ asked' = (asked \/ child = "live")

\* signal_process_tree with force.
Kill ==
  /\ child' = IF child = "live" THEN "exited" ELSE IF child = "exited" THEN "reaped" ELSE child
  /\ UNCHANGED asked

\* The thread in execute goes from one step to the next.
Step(from, to) ==
  /\ worker = from
  /\ worker' = to
  /\ UNCHANGED <<verdict, returned>>

\* It leaves its try block for its finally, or ends before it has one.
Leave(from, to, v) ==
  /\ worker = from
  /\ worker' = to
  /\ verdict' = v
  /\ UNCHANGED returned

Return(from, v) ==
  /\ worker = from
  /\ worker' = "ended"
  /\ returned' = v
  /\ UNCHANGED verdict

-----------------------------------------------------------------------------
(* The thread in execute: up to its registration the adapters agree.       *)

\* raise_if_cancelled before anything is started.
Check ==
  /\ IF token THEN Return("check", "cancelled") ELSE Step("check", "spawn")
  /\ UNCHANGED <<process, signal, clock>>

Spawn ==
  /\ Step("spawn", "register")
  /\ child' = "live"
  /\ UNCHANGED <<asked, signal, clock>>

SpawnRaises ==
  /\ Return("spawn", "error")
  /\ UNCHANGED <<process, signal, clock>>

\* Mutant: whether the event is set is not asked under _callback_lock.
RegisterUnchecked(next) ==
  /\ Step("register", next)
  /\ registered' = TRUE
  /\ UNCHANGED <<process, token, canceller, clock>>

\* CancellationToken.register: a callback that comes too late to be stored is
\* run by the thread that brings it.
Register(next) ==
  /\ Step("register", IF token THEN "invoke" ELSE next)
  /\ registered' = ~token
  /\ UNCHANGED <<process, token, canceller, clock>>

Unregister == registered' = FALSE /\ UNCHANGED <<token, canceller>>

-----------------------------------------------------------------------------
(* The cancelling thread, and the world.                                   *)

\* CancellationToken.request: the first request takes the callbacks with it,
\* every later one finds the event set and returns.
Request ==
  /\ canceller = "idle"
  /\ token' = TRUE
  /\ canceller' = IF registered THEN "callback" ELSE "done"
  /\ UNCHANGED <<process, registered, call, clock>>

\* The last thing every callback does.
CallbackSignals ==
  /\ canceller = "signal"
  /\ canceller' = "done"
  /\ Terminate
  /\ UNCHANGED <<token, registered, call, clock>>

\* The process exits, because it has finished or because it was asked to.
Exit ==
  /\ child = "live"
  /\ child' = "exited"
  /\ UNCHANGED <<asked, signal, call, clock>>

SecondPasses ==
  /\ started = "recent"
  /\ started' = "long"
  /\ UNCHANGED <<process, signal, call, late>>

DeadlinePasses ==
  /\ worker \notin {"check", "spawn", "register", "ended"}
  /\ ~late
  /\ late' = TRUE
  /\ UNCHANGED <<process, signal, call, started>>
=============================================================================
