------------------------------ MODULE HubspotMarks ------------------------------
(***************************************************************************)
(* The mapping of HubSpot's msa_type, and its application: after a clean   *)
(* sync or from the dialog, every client whose hint is mapped and that     *)
(* holds nothing for the MSA is marked covered, in chunks.                 *)
(***************************************************************************)
EXTENDS AgreementTables

\* save_mapping, under the settings row.
SaveMapping(v) ==
  /\ ~start.open /\ covered # v /\ Write
  /\ covered' = v
  /\ UNCHANGED <<peopleVars, cutover, jobVars, apply>>

\* Fault: a removed mark is no record.
HoldsNoMsa_Active(c) == Live(c) /\ ~Holds(c, MSA)

\* holds_no_msa: no file, and no mark, active or removed.
HoldsNoMsa(c) == Live(c) /\ ~Holds(c, MSA) /\ ~mark[c][MSA].past

\* The mapping and the candidates are read once.
LoadCandidates ==
  /\ ~apply.on /\ covered
  /\ \E c \in Hinted : HoldsNoMsa(c)
  /\ apply' = [on |-> TRUE, todo |-> {c \in Hinted : HoldsNoMsa(c)}]
  /\ UNCHANGED <<peopleVars, cutover, jobVars, covered, budget>>

\* Read again under the clients' locks; the mapping is not.
Eligible(c) == HoldsNoMsa(c)

MarkChunk ==
  /\ apply.on
  /\ \E S \in ChunksOf(apply.todo) :
       /\ mark' = [c \in Clients |-> IF c \in S /\ Eligible(c)
                                     THEN [mark[c] EXCEPT ![MSA].active = "hubspot"] ELSE mark[c]]
       /\ apply' = IF apply.todo = S THEN NoApply ELSE [apply EXCEPT !.todo = @ \ S]
  /\ UNCHANGED <<client, doc, cutover, jobVars, covered, budget>>

\* A chunk fails and ends the run: what was committed stays.
ApplyFails ==
  /\ apply.on
  /\ apply' = NoApply
  /\ UNCHANGED <<peopleVars, cutover, jobVars, covered, budget>>

MarksNext ==
  \/ \E v \in BOOLEAN : SaveMapping(v)
  \/ LoadCandidates \/ MarkChunk \/ ApplyFails
==================================================================================
