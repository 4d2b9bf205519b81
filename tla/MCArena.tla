------------------------------ MODULE MCArena ------------------------------
(***************************************************************************)
(* A small arena: chunks of three units of alignment, headers of two, and  *)
(* sizes around every multiple, none and more than a chunk included.       *)
(***************************************************************************)
EXTENDS Arena

MCSizes == {0, 1, 4, 5, 8, 12, 13, 17}
=============================================================================
