------------------------------ MODULE MCToolTurn ------------------------------
(***************************************************************************)
(* The instance of ToolTurn for TLC: three blocks, the first two in one    *)
(* batch and the third in the next.                                        *)
(***************************************************************************)
EXTENDS ToolTurn

MCBlocks == 1 .. 3
MCSafeties == {{1, 2}}
=============================================================================
