------------------------------ MODULE MCPlanning ------------------------------
(***************************************************************************)
(* Instances of Planning for TLC.                                          *)
(***************************************************************************)
EXTENDS Planning, TLC

CONSTANTS p1, q1  \* a plan and a project
=================================================================================
