-------------------------------- MODULE Agreements --------------------------------
(***************************************************************************)
(* What clients hold under all of its writers: people, batches with their  *)
(* undo, and the HubSpot mapping.                                          *)
(***************************************************************************)
EXTENDS ClientAgreements, AgreementBatches, HubspotMarks

Next == ClientNext \/ BatchNext \/ MarksNext

Spec == Init /\ [][Next]_vars

\* A runner that is alive goes on.  A batch in progress is taken again: its
\* heartbeat grows old and the worker looks every minute.
FairSpec ==
  /\ Spec
  /\ \A r \in Runners : WF_vars(RunnerStep(r))
  /\ \A b \in Batches : WF_vars(\E r \in Runners : TakeBatch(r, b))

(***************************************************************************)
(* Properties.                                                             *)
(***************************************************************************)

\* A client never holds a kind twice, as a file and as a mark, whoever wrote
\* the two.
HeldOnce == \A c \in Clients, k \in Kinds : doc[c][k] # NoDoc => mark[c][k].active = "none"

\* At most one batch runs or undoes, although a start and an undo check this
\* under different locks.
OneRunning ==
  \A a, b \in Batches : batch[a].status \in Active /\ batch[b].status \in Active => a = b

\* However often a batch is killed, resumed or run twice at once, a finished one
\* has counted every target once for every kind, and an undo removes no more
\* copies than were attached.
BatchAddsUp ==
  \A b \in Batches :
    /\ batch[b].status = "done" =>
         batch[b].attached + batch[b].skipped = Cardinality(batch[b].targets) * Cardinality(batch[b].kinds)
    /\ batch[b].undone <= batch[b].attached

\* An undone batch has left no copy behind.
UndoneLeavesNothing == \A b \in Batches : batch[b].status = "undone" => CopiesOf(b) = {}

\* An undo takes this batch's standard copies only: no client's own file, and
\* no copy of another batch or attached by hand, also when it was stored after
\* the undo picked its clients.
UndoTakesOwnCopies ==
  [][\A b \in Batches : batch'[b].undone > batch[b].undone =>
       \A c \in Clients, k \in Kinds :
         doc'[c][k] # doc[c][k] => doc[c][k] = [source |-> "standard", batch |-> b]]_vars

\* A mark a person removed is never put back by the mapping, and the mapping
\* marks nobody who holds something.
RemovedMarkStays ==
  [][\A c \in Clients, k \in Kinds :
       mark'[c][k].active = "hubspot" /\ mark[c][k].active # "hubspot" => ~Holds(c, k) /\ ~mark[c][k].past]_vars

\* Every batch that was started, and every undo, comes to an end, through
\* failures and killed runners.
BatchesEnd ==
  \A b \in Batches : batch[b].status \in Active ~> batch[b].status \in {"done", "failed", "undone"}

(***************************************************************************)
(* A claim of the documents that the code does not keep.                   *)
(***************************************************************************)

\* The first batch "stamps every client whose relationship is still empty";
\* "Clients created before the cutover was set are left to the batch that set
\* it".
CutoverStampsAll ==
  cutover => \A c \in Clients : Live(c) /\ client[c].early => client[c].rel # "none"

\* The apply marks "only for mapped values".
MarksFollowMapping ==
  [][\A c \in Clients, k \in Kinds :
       mark'[c][k].active = "hubspot" /\ mark[c][k].active # "hubspot" => covered]_vars
===================================================================================
