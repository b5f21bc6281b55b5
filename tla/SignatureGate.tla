----------------------------- MODULE SignatureGate -----------------------------
(***************************************************************************)
(* What the approval workflow promises of a contract, and nothing of how:  *)
(* each function clears a package at most once, finance and legal only     *)
(* after delivery, HR and sales; a package opens for signature only when   *)
(* all five have cleared it and, if its margin is below a floor, the       *)
(* executive has too; it may close at any time.                            *)
(***************************************************************************)
CONSTANTS Items, First, Second

VARIABLES
  cleared,   \* item -> functions that approved it
  excepted,  \* item -> the executive approved it
  below,     \* items whose margin is below a floor
  open       \* items open for signature

gateVars == <<cleared, excepted, below, open>>

Start ==
  /\ cleared = [p \in Items |-> {}]
  /\ excepted = [p \in Items |-> FALSE]
  /\ below = {}
  /\ open = {}

\* A package enters review, pinned to a model that is or is not below a floor.
Enter(p) ==
  /\ cleared[p] = {} /\ p \notin open
  /\ below' \in {below, below \cup {p}}
  /\ UNCHANGED <<cleared, excepted, open>>

\* A function clears a package; the last one may open it.
Clear(p, f) ==
  /\ f \notin cleared[p]
  /\ f \in Second => First \subseteq cleared[p]
  /\ cleared' = [cleared EXCEPT ![p] = @ \cup {f}]
  /\ \/ open' = open
     \/ /\ cleared'[p] = First \cup Second
        /\ p \notin below
        /\ open' = open \cup {p}
  /\ UNCHANGED <<excepted, below>>

\* The executive decides on a fully cleared package, or decides again.
Except(p) ==
  /\ cleared[p] = First \cup Second
  /\ p \in below
  /\ \/ /\ excepted' = [excepted EXCEPT ![p] = TRUE]
        /\ open' = open \cup {p}
     \/ /\ excepted' = [excepted EXCEPT ![p] = FALSE]
        /\ open' = open \ {p}
  /\ UNCHANGED <<cleared, below>>

Close(p) ==
  /\ open' = open \ {p}
  /\ UNCHANGED <<cleared, excepted, below>>

\* A release in flight opens what it read as open.
Reopen(p) ==
  /\ cleared[p] = First \cup Second
  /\ open' = open \cup {p}
  /\ UNCHANGED <<cleared, excepted, below>>

Move == \E p \in Items :
  \/ Enter(p) \/ Except(p) \/ Close(p) \/ Reopen(p)
  \/ \E f \in First \cup Second : Clear(p, f)

GateSpec == Start /\ [][Move]_gateVars
===============================================================================
