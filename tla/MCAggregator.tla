---------------------------- MODULE MCAggregator ----------------------------
(* Small instance of Aggregator for TLC.                                   *)
EXTENDS Aggregator

CONSTANTS r1, r2

MCKind == [r \in {r1, r2} |-> IF r = r1 THEN "genBatchProof" ELSE "genFinalProof"]
=============================================================================
