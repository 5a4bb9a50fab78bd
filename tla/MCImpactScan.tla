---------------------------- MODULE MCImpactScan ----------------------------
(* Instances of ImpactScan for TLC.                                        *)
EXTENDS ImpactScan, TLC

CONSTANTS r1, r2, r3, b1, b2, c1, c2, m1, m2

\* Two batches: one of two rows, one of one row.
TwoBatchRows == [b \in {b1, b2} |-> IF b = b1 THEN {r1, r2} ELSE {r3}]

\* One batch of two rows.
OneBatchRows == [b \in {b1} |-> {r1, r2}]

\* Portfolios: clean, with a mismatch in the batch of two rows, and with a
\* mismatch in one batch and a row that cannot be calculated in the other.
Portfolios == {(r1 :> "MATCH" @@ r2 :> "MATCH" @@ r3 :> "OUT_OF_SCOPE"),
               (r1 :> "AFFECTED" @@ r2 :> "MATCH" @@ r3 :> "OUT_OF_SCOPE"),
               (r1 :> "OUT_OF_SCOPE" @@ r2 :> "LOCAL_ERROR" @@ r3 :> "AFFECTED")}

SmallPortfolios == {(r1 :> "MATCH" @@ r2 :> "MATCH"), (r1 :> "AFFECTED" @@ r2 :> "MATCH"),
                    (r1 :> "OUT_OF_SCOPE" @@ r2 :> "LOCAL_ERROR")}

MessageSymmetry == Permutations(Messages)
Symmetry == Permutations(Messages) \cup Permutations(Coordinators)
=============================================================================
