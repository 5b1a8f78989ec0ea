----------------------------- MODULE MCWriteSet -----------------------------
(* The write set for model checking: row contents are interchangeable.     *)
EXTENDS WriteSet, TLC

Contents == Permutations(Value)
=============================================================================
