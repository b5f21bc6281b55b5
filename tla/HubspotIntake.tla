----------------------------- MODULE HubspotIntake -----------------------------
(***************************************************************************)
(* Webhooks.  HubSpot sends one for every change; SQS delivers it at least *)
(* once, in any order, and gives up on it after three failures.  The       *)
(* handler reads the deal from HubSpot, then writes the opportunity, the   *)
(* intake task and processed_at in one transaction.  A delivery of a       *)
(* processed event changes nothing, and one that is given up is one that   *)
(* no handler ever takes.                                                  *)
(***************************************************************************)
EXTENDS HubspotTables

(***************************************************************************)
(* HubSpot (external).                                                     *)
(***************************************************************************)
Send(d, kind) ==
  /\ budget.changes < MaxChanges
  /\ budget' = [budget EXCEPT !.changes = @ + 1]
  /\ event' = [event EXCEPT ![budget.changes + 1] = [deal |-> d, kind |-> kind, state |-> "queued"]]

\* A deal is created, edited or restored.
SaveInHubspot(d, o) ==
  /\ Send(d, "change")
  /\ crm' = [crm EXCEPT ![d] = [alive |-> TRUE, version |-> crm[d].version + 1, owner |-> o,
                               deleted |-> crm[d].deleted]]
  /\ UNCHANGED <<mirror, touched, tasks, handler, scanVars>>

DeleteInHubspot(d) ==
  /\ crm[d].alive
  /\ Send(d, "deletion")
  /\ crm' = [crm EXCEPT ![d].alive = FALSE, ![d].deleted = crm[d].version]
  /\ UNCHANGED <<mirror, touched, tasks, handler, scanVars>>

(***************************************************************************)
(* hubspot_intake.handle_event.                                            *)
(***************************************************************************)

\* Two handlers hold one event only after a replay: the insert of a new
\* event's row makes the second wait, and then it finds processed_at set.
MayHandle(h, i) ==
  /\ handler[h] = NoHandling
  /\ \/ event[i].state = "queued" /\ \A g \in Handlers : handler[g].id # i
     \/ event[i].state = "replayed"

\* get_deal: the deal is read before the transaction locks anything.
ReadDeal(h, i) ==
  /\ MayHandle(h, i) /\ event[i].kind = "change"
  /\ crm[event[i].deal].alive
  /\ handler' = [handler EXCEPT ![h] =
       [id |-> i, read |-> [version |-> crm[event[i].deal].version, owner |-> crm[event[i].deal].owner]]]
  /\ UNCHANGED <<crm, mirror, touched, budget, event, tasks, scanVars>>

Processed(i) == event' = [event EXCEPT ![i].state = "done"]

\* deal.deletion archives what is there without reading HubSpot.
ArchiveOnEvent(h, i) ==
  /\ MayHandle(h, i) /\ event[i].kind = "deletion"
  /\ LET d == event[i].deal IN
       mirror' = [mirror EXCEPT ![d].archived = Exists(mirror[d])]
  /\ Processed(i)
  /\ UNCHANGED <<crm, touched, budget, tasks, handler, scanVars>>

\* _intake_task_exists: a task of this deal held by its present owner.
IntakeTaskExists(d, row) == tasks[d][row.owner] > 0

ApplyDeal(h) ==
  /\ handler[h] # NoHandling
  /\ LET i == handler[h].id
         d == event[i].deal
         row == Upserted(mirror[d], handler[h].read)
     IN /\ mirror' = [mirror EXCEPT ![d] = row]
        /\ touched' = IF Accepts(mirror[d], handler[h].read) THEN touched \cup {d} ELSE touched
        /\ tasks' = IF IntakeTaskExists(d, row) THEN tasks
                    ELSE [tasks EXCEPT ![d][row.owner] = @ + 1]
        /\ Processed(i)
  /\ handler' = [handler EXCEPT ![h] = NoHandling]
  /\ UNCHANGED <<crm, budget, scanVars>>

\* A stage without a mapping, a failed call, a crash: the transaction rolls
\* back and the message is received again.
HandlerFails(h) ==
  /\ handler[h] # NoHandling
  /\ handler' = [handler EXCEPT ![h] = NoHandling]
  /\ UNCHANGED <<crm, mirror, touched, budget, event, tasks, scanVars>>

\* replay_event: an administrator clears processed_at and handles it again.
ReplayEvent(i) ==
  /\ event[i].state = "done"
  /\ budget.incidents < MaxIncidents
  /\ budget' = [budget EXCEPT !.incidents = @ + 1]
  /\ event' = [event EXCEPT ![i].state = "replayed"]
  /\ UNCHANGED <<crm, mirror, touched, tasks, handler, scanVars>>

IntakeNext ==
  \/ \E d \in Deals : DeleteInHubspot(d) \/ \E o \in Owners : SaveInHubspot(d, o)
  \/ \E h \in Handlers :
       \/ \E i \in Ids : ReadDeal(h, i) \/ ArchiveOnEvent(h, i)
       \/ ApplyDeal(h) \/ HandlerFails(h)
  \/ \E i \in Ids : ReplayEvent(i)
================================================================================
