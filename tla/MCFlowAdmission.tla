-------------------------- MODULE MCFlowAdmission --------------------------
(***************************************************************************)
(* Instances of FlowAdmission for TLC.                                     *)
(***************************************************************************)
EXTENDS FlowAdmission, TLC

CONSTANTS p, x, worker, other, tool, i1

At(id, from, kind, capability, group) ==
  [id |-> id, from |-> from, kind |-> kind, capability |-> capability, group |-> group]

Draft(id, steps) == [id |-> id, steps |-> steps, accepts |-> {i1}]

\* A turn of a session and a second turn of it.
Looping == Draft(p,
  <<At("draft", None, "agent.task", worker, "loop"), At("revise", "draft", "agent.task", worker, "loop")>>)

\* Under the same portable id, a tool that writes; and a Flow that does not compile, for its executor keeps no session.
Sending == Draft(p, <<At("send", None, "tool.task", tool, None)>>)
Broken  == Draft(p, <<At("draft", None, "agent.task", None, "loop")>>)

\* The Flow computed for a task.
MCComputed == Draft(x,
  <<At("draft", None, "agent.task", None, None),
    At("publish", "draft", "artifact.task", None, None)>>)

MCDrafts == {Looping, Sending}
MCKindOf == [y \in Capabilities |-> IF y = tool THEN "cli" ELSE "agent_cli"]
MCWrites == [y \in Capabilities |-> IF y = tool THEN {"write_external"} ELSE {}]

\* A group of two Capabilities.
MCSplit ==
  {Draft(p, <<At("draft", None, "agent.task", worker, "loop"), At("revise", "draft", "agent.task", other, "loop")>>), Broken}

\* The ids that are drawn are interchangeable, and so is what rows and adapters say.
AdmissionSymmetry == Permutations(Runs) \cup Permutations(Tasks) \cup Permutations(Goals) \cup Permutations(Refs)
=============================================================================
