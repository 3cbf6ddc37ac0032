------------------------------ MODULE MCFatFs -------------------------------
(***************************************************************************)
(* An instance of FatFs for TLC: lines that do not divide a sector, so     *)
(* that some lie across the boundary of two.                               *)
(***************************************************************************)
EXTENDS FatFs

MCGreeting == <<"G">>
MCLine == <<"t", "e">>
=============================================================================
