--------------------------- MODULE MCImageSession ---------------------------
(***************************************************************************)
(* Sessions of up to three images, two analysis sizes and batches of up to *)
(* two files.                                                              *)
(***************************************************************************)
EXTENDS ImageSession

MCAufloesungen == {1, 2}
=============================================================================
