---------------------------- MODULE MCConnection ----------------------------
(***************************************************************************)
(* A packet that is a header only, and one that is two bytes longer.       *)
(***************************************************************************)
EXTENDS Connection, TLC
CONSTANTS nop, load
MCLength == nop :> 2 @@ load :> 4
=============================================================================
