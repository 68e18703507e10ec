----------------------------- MODULE MCLineEdit -----------------------------
(***************************************************************************)
(* Three lines and two images; a fit of two rounds may leave two lines.    *)
(***************************************************************************)
EXTENDS LineEdit, TLC

CONSTANTS l1, l2, l3

MCLinien == {l1, l2, l3}

Gleich == Permutations(MCLinien)   \* lines are only told apart by their verdicts
=============================================================================
