----------------------------- MODULE MCCatalog -----------------------------
(***************************************************************************)
(* Instances of Catalog for TLC.                                           *)
(***************************************************************************)
EXTENDS Catalog, TLC

CONSTANTS fixture, tool, p, q

\* A Flow that uses a Capability of the client, and one that uses a sample.
MCDrafts == {[id |-> p, uses |-> {tool}], [id |-> q, uses |-> {fixture}]}

MCBundles ==
  LET brings(x) == [y \in {fixture, tool} |-> IF y = x THEN 1 ELSE 0] IN
  {[capabilities |-> brings(tool), flows |-> MCDrafts]}

\* Clients are interchangeable, and so are the ids that are drawn.
CatalogSymmetry == Permutations(Clients) \cup Permutations(Tasks \ {Canonical})
=============================================================================
