------------------------------ MODULE MCDealGate ------------------------------
(***************************************************************************)
(* Instances of DealGate for TLC.                                          *)
(***************************************************************************)
EXTENDS DealGate, TLC

CONSTANTS o, a, b, c, d, e, x, s1, s2  \* accounts and sessions

People == {o, a, b, c, d, e, x}

\* One reviewer per function; x is the CEO.
SmallRoster ==
  [f \in Functions |-> CASE f = "delivery" -> {a} [] f = "hr" -> {b}
                         [] f = "sales" -> {c} [] f = "finance" -> {d} [] OTHER -> {e}]

\* An administrator hands Legal to the HR reviewer, the submitter and the CEO.
Choices == {<<"legal", {b, o, x}>>}

\* Repairs name the first two for Legal.
Repairs == {<<"legal", b>>, <<"legal", o>>}

Symmetry == Permutations(Sessions)
===============================================================================
