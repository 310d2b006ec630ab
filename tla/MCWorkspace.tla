---------------------------- MODULE MCWorkspace ----------------------------
(***************************************************************************)
(* Instances of Workspace for TLC.                                         *)
(***************************************************************************)
EXTENDS Workspace, TLC

\* Runs are interchangeable.
RunSymmetry == Permutations(Runs)
=============================================================================
