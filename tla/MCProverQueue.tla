--------------------------- MODULE MCProverQueue ---------------------------
(* Small instances of ProverQueue for TLC: one request of each type.       *)
EXTENDS ProverQueue

CONSTANTS r1, r2, r3

MCKind == [r \in {r1, r2, r3} |->
              CASE r = r1 -> "genBatchProof"
                [] r = r2 -> "genAggregatedProof"
                [] r = r3 -> "genFinalProof"]
=============================================================================
