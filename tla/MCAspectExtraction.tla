--------------------------- MODULE MCAspectExtraction ---------------------------
(* AspectExtraction for TLC: a batch of three documents, of which one makes   *)
(* replies unusable, and one of a single such document.                       *)
EXTENDS AspectExtraction

CONSTANTS b1, b2, d1, d2, d3, d4

MCBatches == {b1, b2}
MCDocs == {d1, d2, d3, d4}
MCBatchOf == [d \in MCDocs |-> IF d = d4 THEN b2 ELSE b1]
MCPoison == {d1, d4}
=============================================================================
