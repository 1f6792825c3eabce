---------------------------- MODULE MCStratumPool ----------------------------
(* Values of the constants for the runs of StratumPool. *)
EXTENDS StratumPool, TLC

\* No action tells two extranonces apart.
MCSymmetry == Permutations(ExtraNonces)

MCPoolDifficulties == {0, 2}
MCShareDiffs == {<<2, 1>>, <<2, 2>>}
=============================================================================
