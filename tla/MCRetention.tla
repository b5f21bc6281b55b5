------------------------------- MODULE MCRetention -------------------------------
(***************************************************************************)
(* Instances of Retention for TLC.                                         *)
(***************************************************************************)
EXTENDS Retention

CONSTANTS deal, left, right, k1, k2, n1, w1, w2, c1, c2
  \* subjects, keys, notes, workers

OneDeal == [x \in Subjects |-> IF x = deal THEN {left, right} \cap Subjects ELSE {}]
OwnFiles == [x \in Subjects |-> IF x = left THEN {k1} ELSE {k2} \cap Keys]
AboutSow == [n \in Notes |-> left]
==================================================================================
