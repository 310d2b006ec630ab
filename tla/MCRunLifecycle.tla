--------------------------- MODULE MCRunLifecycle ---------------------------
(***************************************************************************)
(* Instances of RunLifecycle for TLC.                                      *)
(***************************************************************************)
EXTENDS RunLifecycle, TLC

\* Cancelling requests are interchangeable.
ClientSymmetry == Permutations(Clients)
=============================================================================
