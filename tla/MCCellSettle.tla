----------------------------- MODULE MCCellSettle -----------------------------
(* Small instances of CellSettle for TLC. *)
EXTENDS CellSettle, TLC

CONSTANTS e1, e2

TwoEffects == {e1, e2}
OneEffect == {e1}
EffectSymmetry == Permutations(Effects)
===============================================================================
