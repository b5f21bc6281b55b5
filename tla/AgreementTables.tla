----------------------------- MODULE AgreementTables -----------------------------
(***************************************************************************)
(* Clients and their NDA and MSA: the file or the mark a client holds for  *)
(* each kind, the batches that attach the standard copies, the cutover     *)
(* that freezes each client's relationship, and the HubSpot mapping that   *)
(* marks a kind covered.  Every write of one client locks the client's row *)
(* first; a batch's row is the lock and the cursor of its job.             *)
(*                                                                         *)
(* Whether a client is existing or net new is left open: the model keeps   *)
(* who decided it, nobody, the rule or a person.  So are file versions,    *)
(* the reasons of marks and which copy is the current standard.            *)
(***************************************************************************)
EXTENDS Integers, FiniteSets

CONSTANTS
  Clients,
  Mirrored,   \* clients of a HubSpot company, which are not deleted here
  Newcomers,  \* clients that do not exist at the start
  Hinted,     \* clients whose HubSpot company carries the mapped hint
  Kinds,      \* KINDS, or one of them
  Runners,    \* processes that run batches
  Chunk,      \* clients of one transaction (CHUNK, APPLY_CHUNK)
  MaxBatches,
  MaxWrites,  \* changes people make to what clients hold
  MaxKills    \* failed and killed runs

MSA == "MSA"

ASSUME AgreementAssumption ==
  /\ Mirrored \cup Newcomers \cup Hinted \subseteq Clients /\ IsFiniteSet(Clients)
  /\ MSA \in Kinds /\ Kinds \subseteq {"NDA", MSA}
  /\ Chunk \in Nat \ {0}
  /\ MaxBatches \in Nat /\ MaxWrites \in Nat /\ MaxKills \in Nat

VARIABLES
  client,   \* client -> its row
  doc,      \* client -> kind -> Agreement
  mark,     \* client -> kind -> its marks
  cutover,  \* AgreementsSettings.cutover_date is set
  start,    \* the start that holds the settings row
  batch,    \* batch -> AgreementBatch
  runner,   \* runner -> what it is doing
  covered,  \* the mapping says the hint means covered
  apply,    \* the run of apply_mapping
  budget    \* bounded events so far

peopleVars == <<client, doc, mark>>
jobVars == <<start, batch, runner>>
hubVars == <<covered, apply>>
vars == <<peopleVars, cutover, jobVars, hubVars, budget>>

Batches == 1..MaxBatches
Client == [life : {"absent", "opening", "live", "deleted"}, early : BOOLEAN,
           rel : {"none", "rule", "manual"}]
Agreement == [source : {"none", "client", "standard"}, batch : {0} \cup Batches]
Mark == [active : {"none", "dealgate", "hubspot"}, past : BOOLEAN]
Status == {"none", "running", "done", "failed", "undoing", "undone"}
Batch == [status : Status, kinds : SUBSET Kinds, targets : SUBSET Clients, left : SUBSET Clients,
          attached : Nat, skipped : Nat, undone : Nat]
Runner == [step : {"idle", "run", "undo", "remove", "fail"}, batch : {0} \cup Batches,
           chunk : SUBSET Clients]
Start == [open : BOOLEAN, kinds : SUBSET Kinds, targets : SUBSET Clients, pending : SUBSET Clients]

NoDoc == [source |-> "none", batch |-> 0]
NoMark == [active |-> "none", past |-> FALSE]
NoBatch == [status |-> "none", kinds |-> {}, targets |-> {}, left |-> {},
            attached |-> 0, skipped |-> 0, undone |-> 0]
Idle == [step |-> "idle", batch |-> 0, chunk |-> {}]
NoStart == [open |-> FALSE, kinds |-> {}, targets |-> {}, pending |-> {}]
NoApply == [on |-> FALSE, todo |-> {}]

\* Every table keeps its shape.
TypeOK ==
  /\ client \in [Clients -> Client]
  /\ doc \in [Clients -> [Kinds -> Agreement]]
  /\ mark \in [Clients -> [Kinds -> Mark]]
  /\ cutover \in BOOLEAN
  /\ start \in Start
  /\ batch \in [Batches -> Batch]
  /\ runner \in [Runners -> Runner]
  /\ covered \in BOOLEAN
  /\ apply \in [on : BOOLEAN, todo : SUBSET Clients]
  /\ budget \in [writes : 0..MaxWrites, kills : 0..MaxKills]

Init ==
  /\ client = [c \in Clients |->
       [life |-> IF c \in Newcomers THEN "absent" ELSE "live", early |-> TRUE, rel |-> "none"]]
  /\ doc = [c \in Clients |-> [k \in Kinds |-> NoDoc]]
  /\ mark = [c \in Clients |-> [k \in Kinds |-> NoMark]]
  /\ cutover = FALSE
  /\ start = NoStart
  /\ batch = [b \in Batches |-> NoBatch]
  /\ runner = [r \in Runners |-> Idle]
  /\ covered = TRUE
  /\ apply = NoApply
  /\ budget = [writes |-> 0, kills |-> 0]

Live(c) == client[c].life = "live"

\* holds, and the tests every writer makes: a file of either source, or an
\* active mark.
Holds(c, k) == doc[c][k] # NoDoc \/ mark[c][k].active # "none"

Write ==
  /\ budget.writes < MaxWrites
  /\ budget' = [budget EXCEPT !.writes = @ + 1]

Size(S) == IF Cardinality(S) < Chunk THEN Cardinality(S) ELSE Chunk
ChunksOf(S) == {T \in SUBSET S : Cardinality(T) = Size(S)}
=================================================================================
