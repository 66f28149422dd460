------------------------------ MODULE MCRetrieval ------------------------------
(* Two documents, each of its own SKU, so that one search has hits of two     *)
(* partitions to bring together.  The two runners are interchangeable, and so *)
(* are the two documents with their SKUs: every property checked is a safety  *)
(* property and names none of them.                                          *)
EXTENDS Retrieval, TLC

CONSTANTS d1, d2, s1, s2, worker, script

MCDocs == {d1, d2}
MCSkus == {s1, s2}
MCRunners == {worker, script}
MCSkuOf == d1 :> s1 @@ d2 :> s2

Exchanged == d1 :> d2 @@ d2 :> d1 @@ s1 :> s2 @@ s2 :> s1
MCSymmetry == Permutations(MCRunners) \cup {Exchanged}
=============================================================================
