-------------------------- MODULE MCFithomography --------------------------
(***************************************************************************)
(* Five lines, rounds that must leave more than one of them and more than  *)
(* half; three rounds, the first two of up to three passes.                *)
(***************************************************************************)
EXTENDS Fithomography

CONSTANTS l1, l2, l3, l4, l5

MCLinien == {l1, l2, l3, l4, l5}
=============================================================================
