---------------------------- MODULE CommandCall ----------------------------
(***************************************************************************)
(* run_cancellable_process: a command with its standard streams in files,  *)
(* polled until it exits, is cancelled or is overdue.                      *)
(***************************************************************************)
EXTENDS ChildProcess

\* request_termination, by whichever thread runs it.
AskToEnd ==
  /\ started' = IF started = "no" THEN "recent" ELSE started
  /\ Terminate

\* Registered too late: the thread runs the callback itself.
CommandInvoke ==
  /\ Step("invoke", "poll")
  /\ AskToEnd
  /\ UNCHANGED <<signal, late>>

\* The callback in the cancelling thread, up to its signal.
CommandCallback ==
  /\ canceller = "callback"
  /\ canceller' = "signal"
  /\ started' = IF started = "no" THEN "recent" ELSE started
  /\ UNCHANGED <<process, token, registered, call, late>>

CommandPoll ==
  /\ Step("poll", IF child = "live" THEN "turn" ELSE "exited")
  /\ Reap
  /\ UNCHANGED <<asked, signal, clock>>

\* A cancelled process that has not been asked to end yet.
TurnAsks ==
  /\ token /\ started = "no"
  /\ Step("turn", "poll")
  /\ AskToEnd
  /\ UNCHANGED <<signal, late>>

\* Mutant: a process that ignores the signal is asked again, never killed.
TurnAsksAgain ==
  /\ token /\ started = "long"
  /\ Step("turn", "poll")
  /\ Terminate
  /\ UNCHANGED <<signal, clock>>

\* ... and one that was asked a second ago.
TurnKills ==
  /\ token /\ started = "long"
  /\ Step("turn", "poll")
  /\ Kill
  /\ UNCHANGED <<signal, clock>>

\* Only a process that nobody has cancelled can be overdue.
TurnTimesOut ==
  /\ ~token /\ late
  /\ Step("turn", "overdue")
  /\ Terminate
  /\ UNCHANGED <<signal, clock>>

TurnWaits ==
  /\ IF token THEN started = "recent" ELSE ~late
  /\ Step("turn", "poll")
  /\ UNCHANGED <<process, signal, clock>>

\* A signal may be refused, os.killpg and its fallback alike: finally is there
\* for what raises in the loop.
TurnRaises ==
  /\ child = "live"
  /\ IF token THEN started # "recent" ELSE late
  /\ Leave("turn", "finally", "error")
  /\ UNCHANGED <<process, signal, clock>>

\* The wait of a second after SIGTERM, and the one after SIGKILL.
CommandOverdue ==
  IF child = "live"
  THEN /\ Step("overdue", "overdue")
       /\ Kill
       /\ UNCHANGED <<signal, clock>>
  ELSE /\ Leave("overdue", "finally", "timeout")
       /\ Reap
       /\ UNCHANGED <<asked, signal, clock>>

\* The process has exited: the output is read only if nobody has cancelled.
CommandExited ==
  /\ Leave("exited", "finally", IF token THEN "cancelled" ELSE "result")
  /\ UNCHANGED <<process, signal, clock>>

CommandFinally ==
  /\ Step("finally", "kill")
  /\ Unregister
  /\ UNCHANGED <<process, clock>>

\* Mutant: the last wait is forgotten.
CommandKillUnwaited ==
  /\ Return("kill", verdict)
  /\ Kill
  /\ UNCHANGED <<signal, clock>>

\* finally: a process that still runs is killed and waited for.
CommandKill ==
  IF child = "live"
  THEN /\ Step("kill", "kill")
       /\ Kill
       /\ UNCHANGED <<signal, clock>>
  ELSE /\ Return("kill", verdict)
       /\ Reap
       /\ UNCHANGED <<asked, signal, clock>>

CommandThread ==
  \/ Check \/ Spawn \/ SpawnRaises \/ Register("poll") \/ CommandInvoke
  \/ CommandPoll \/ TurnAsks \/ TurnKills \/ TurnTimesOut \/ TurnWaits \/ TurnRaises
  \/ CommandOverdue \/ CommandExited \/ CommandFinally \/ CommandKill

CommandWatching == {"poll", "turn", "overdue", "exited"}
=============================================================================
