-------------------------------- MODULE MCHubspot --------------------------------
(***************************************************************************)
(* Instances of HubspotSync for TLC.                                       *)
(***************************************************************************)
EXTENDS HubspotSync, TLC

CONSTANTS d1, d2, o1, o2, h1, h2, r1, r2

\* One deal on each page.
OnePerPage == [d \in Deals |-> IF d = d1 THEN 1 ELSE Pages]

Symmetry == Permutations(Handlers) \cup Permutations(Runs)
==================================================================================
