------------------------------ MODULE MCAgreements ------------------------------
(***************************************************************************)
(* Instances of Agreements for TLC.                                        *)
(***************************************************************************)
EXTENDS Agreements, TLC

CONSTANTS c1, c2, w1, w2  \* clients and runners
=================================================================================
