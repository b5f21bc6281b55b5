---------------------------- MODULE ClientAgreements ----------------------------
(***************************************************************************)
(* What people do to one client: create and delete it, store its copy,     *)
(* attach the standard one, mark and unmark, detach, correct its           *)
(* relationship.  Each holds the client's row from its first read to its   *)
(* commit.  The nightly settlement of relationships is here too.           *)
(***************************************************************************)
EXTENDS AgreementTables

SetDoc(c, k, row) == doc' = [doc EXCEPT ![c][k] = row]

\* Fault: the removed mark stays the kind's row.
Retired_InPlace(m) == [active |-> "removed", past |-> TRUE]

\* A mark is removed softly: it stays as the client's history.
Retired(m) == [active |-> "none", past |-> m.past \/ m.active # "none"]
Retire(c, k) == mark' = [mark EXCEPT ![c][k] = Retired(@)]

\* Fault: the copy leaves the mark in place.
TakeMarksPlace_Beside(c, k) == UNCHANGED mark

\* The client's copy takes the place of a mark.
TakeMarksPlace(c, k) == Retire(c, k)

StoreClientCopy(c, k) ==
  /\ Live(c) /\ Write
  /\ SetDoc(c, k, [source |-> "client", batch |-> 0])
  /\ TakeMarksPlace(c, k)
  /\ UNCHANGED <<client, cutover, jobVars, hubVars>>

AttachStandard(c, k) ==
  /\ Live(c) /\ ~Holds(c, k) /\ Write
  /\ SetDoc(c, k, [source |-> "standard", batch |-> 0])
  /\ UNCHANGED <<client, mark, cutover, jobVars, hubVars>>

\* set_mark, also over an earlier mark.
SetMark(c, k) ==
  /\ Live(c) /\ doc[c][k] = NoDoc /\ Write
  /\ mark' = [mark EXCEPT ![c][k] = [Retired(@) EXCEPT !.active = "dealgate"]]
  /\ UNCHANGED <<client, doc, cutover, jobVars, hubVars>>

RemoveMark(c, k) ==
  /\ Live(c) /\ mark[c][k].active # "none" /\ Write
  /\ Retire(c, k)
  /\ UNCHANGED <<client, doc, cutover, jobVars, hubVars>>

\* detach: the row goes; a client's own file is left to the cleanup worker.
Detach(c, k) ==
  /\ Live(c) /\ doc[c][k] # NoDoc /\ Write
  /\ SetDoc(c, k, NoDoc)
  /\ UNCHANGED <<client, mark, cutover, jobVars, hubVars>>

SetRelationship(c) ==
  /\ Live(c) /\ Write
  /\ client' = [client EXCEPT ![c].rel = "manual"]
  /\ UNCHANGED <<doc, mark, cutover, jobVars, hubVars>>

\* A client is created in somebody's transaction.  created_at is the start of
\* that transaction, and stamp_new_client reads the cutover in it; a client of
\* a HubSpot company is stamped later.
OpenClient(c) ==
  /\ client[c].life = "absent" /\ Write
  /\ client' = [client EXCEPT ![c] =
       [life |-> "opening", early |-> ~cutover /\ ~start.open,
        rel |-> IF cutover /\ c \notin Mirrored THEN "rule" ELSE "none"]]
  /\ UNCHANGED <<doc, mark, cutover, jobVars, hubVars>>

CommitClient(c) ==
  /\ client[c].life = "opening"
  /\ client' = [client EXCEPT ![c].life = "live"]
  /\ UNCHANGED <<doc, mark, cutover, jobVars, hubVars, budget>>

\* request_client_deletion takes its agreements and marks along.
DeleteClient(c) ==
  /\ Live(c) /\ c \notin Mirrored /\ Write
  /\ client' = [client EXCEPT ![c].life = "deleted"]
  /\ doc' = [doc EXCEPT ![c] = [k \in Kinds |-> NoDoc]]
  /\ mark' = [mark EXCEPT ![c] = [k \in Kinds |-> NoMark]]
  /\ UNCHANGED <<cutover, jobVars, hubVars>>

\* settle_pending_relationships: created since the cutover and still unstamped.
Unsettled(c) == Live(c) /\ client[c].rel = "none" /\ ~client[c].early

\* After a clean sync, in chunks; a client is locked and read again, so each
\* is a step of its own.
Settle(c) ==
  /\ cutover /\ Unsettled(c)
  /\ client' = [client EXCEPT ![c].rel = "rule"]
  /\ UNCHANGED <<doc, mark, cutover, jobVars, hubVars, budget>>

ClientNext ==
  \E c \in Clients :
    \/ SetRelationship(c) \/ OpenClient(c) \/ CommitClient(c) \/ DeleteClient(c) \/ Settle(c)
    \/ \E k \in Kinds :
         StoreClientCopy(c, k) \/ AttachStandard(c, k) \/ SetMark(c, k) \/ RemoveMark(c, k) \/ Detach(c, k)
==================================================================================
