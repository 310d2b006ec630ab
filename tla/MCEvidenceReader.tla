-------------------------- MODULE MCEvidenceReader --------------------------
(***************************************************************************)
(* Instances of EvidenceReader for TLC: Flows of two Nodes.                *)
(***************************************************************************)
EXTENDS EvidenceReader

CONSTANTS f, g, i, p, q

\* An earlier Run whose Nodes ended as s1 and s2.
Run(fl, par, st, s1, s2, out) ==
  [flow |-> fl, parent |-> par, status |-> st, nodes |-> <<s1, s2>>,
   given |-> <<i, IF s2 = "absent" THEN None ELSE i>>,
   answer |-> <<IF s1 \in Accepted THEN out ELSE None,
                IF s2 \in Accepted THEN out ELSE None>>,
   rejected |-> {}, announced |-> {}, artifacts |-> {}]

\* None; a success and a Run of another Flow; a failure and its fork.
MCEarlier ==
  {<<>>,
   <<Run(f, 0, "succeeded", "succeeded", "succeeded", p),
     Run(g, 0, "failed", "failed", "absent", p)>>,
   <<Run(f, 0, "failed", "succeeded", "failed", p),
     Run(f, 1, "cancelled", "reused", "cancelled", p)>>}
=============================================================================
