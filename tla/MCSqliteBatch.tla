----------------------------- MODULE MCSqliteBatch -----------------------------
(* Model-checking instance of SqliteBatch: two placeholders, one value    *)
(* besides NULL, and every range of at most three rows of at most three   *)
(* values, so rows shorter than, equal to and longer than the placeholder *)
(* count follow one another.                                              *)
EXTENDS SqliteBatch, SequencesExt

CONSTANTS a, null

MCVals == {a}
MCInputs == BoundedSeq(BoundedSeq({a, null}, 3), 3)

=============================================================================
