------------------------------ MODULE MCPipeline ------------------------------
(* Three documents of two SKUs: d1 and n1, which is noise, share one; d2 is   *)
(* alone.                                                                    *)
EXTENDS Pipeline

CONSTANTS d1, d2, n1, s1, s2

MCDocs == {d1, d2, n1}
MCSkus == {s1, s2}
MCSkuOf == [d \in MCDocs |-> IF d = d2 THEN s2 ELSE s1]
=============================================================================
