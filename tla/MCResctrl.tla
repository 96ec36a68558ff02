----------------------------- MODULE MCResctrl -----------------------------
(* Two instances, alike but for their arguments, and an administrator.      *)
EXTENDS Resctrl, TLC

CONSTANTS I1, I2

TwoInsts == {I1, I2}

Symmetry == Permutations(TwoInsts)
============================================================================
