---------------------------- MODULE MCMediaImport ----------------------------
(***************************************************************************)
(* Small instances of MediaImport for TLC.                                 *)
(***************************************************************************)
EXTENDS MediaImport, TLC

CONSTANTS i1, i2, c1, c2, mp4, mov, r1
=============================================================================
