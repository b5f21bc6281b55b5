----------------------------- MODULE HubspotTables -----------------------------
(***************************************************************************)
(* The HubSpot mirror: the deals as HubSpot has them, the webhooks about   *)
(* them, the mirrored opportunities, the row of the nightly scan and the   *)
(* processes that write the mirror.  Both writers, the event handler and   *)
(* the scan, read HubSpot before their transaction and write under the     *)
(* lock of the opportunity's row.                                          *)
(*                                                                         *)
(* A deal's version is its hs_lastmodifieddate, which every save in        *)
(* HubSpot moves.  The owner stands for every mirrored property.           *)
(***************************************************************************)
EXTENDS Integers, FiniteSets

CONSTANTS
  Deals, Owners,
  Pages,      \* pages of HubSpot's deal list
  PageOf,     \* deal -> the page that lists it
  Handlers,   \* concurrent event handlers
  Runs,       \* concurrent runs of the scan
  None,
  MaxChanges, \* changes made in HubSpot
  MaxRefusals,  \* records a scan refuses
  MaxIncidents  \* failed, killed and overlong runs, and replayed events

ASSUME DealsAssumption ==
  /\ IsFiniteSet(Deals) /\ Pages \in Nat \ {0}
  /\ PageOf \in [Deals -> 1..Pages]
  /\ Owners # {} /\ None \notin Owners \cup Runs
ASSUME BoundsAssumption ==
  /\ MaxChanges \in Nat /\ MaxRefusals \in Nat /\ MaxIncidents \in Nat

VARIABLES
  crm,      \* deal -> its record in HubSpot
  event,    \* webhook id -> the webhook and where its delivery stands
  mirror,   \* deal -> Opportunity
  tasks,    \* deal -> owner -> intake tasks
  handler,  \* event handler -> what it has read
  scan,     \* the SyncStatus row of "hubspot_backfill"
  seen,     \* deals whose hubspot_seen_generation is the scan's
  touched,  \* deals created or last seen after scan_started_at
  run,      \* scan run -> its progress
  atStart,  \* deal -> its version when the generation began (history)
  budget    \* bounded events so far

intakeVars == <<event, tasks, handler>>
scanVars == <<scan, seen, run, atStart>>
vars == <<crm, mirror, touched, budget, intakeVars, scanVars>>

Version == 0..MaxChanges + 1
Ids == 1..MaxChanges
Crm == [alive : BOOLEAN, version : Version, owner : Owners \cup {None}, deleted : Version]
Webhook == [deal : Deals \cup {None}, kind : {"none", "change", "deletion"},
            state : {"none", "queued", "replayed", "done"}]
Opportunity == [version : Version, owner : Owners \cup {None}, archived : BOOLEAN]
Payload == [version : Version, owner : Owners \cup {None}]
Handling == [id : {0} \cup Ids, read : Payload]
Phase == {"none", "scanning", "finalizing", "failed", "completed"}
Scan == [phase : Phase, holder : Runs \cup {None}, live : BOOLEAN, old : BOOLEAN,
         cursor : 1..Pages, committed : SUBSET (1..Pages), refused : BOOLEAN,
         clean : BOOLEAN]
Step == {"idle", "acquire", "page", "write", "list", "confirm"}
ScanRun == [step : Step, at : 1..Pages, refusedBefore : BOOLEAN, errors : BOOLEAN,
            page : [Deals -> Payload], absent : SUBSET Deals, gone : SUBSET Deals,
            overtaken : BOOLEAN]

NoDeal == [alive |-> FALSE, version |-> 0, owner |-> None, deleted |-> 0]
NoWebhook == [deal |-> None, kind |-> "none", state |-> "none"]
NoRow == [version |-> 0, owner |-> None, archived |-> FALSE]
Nothing == [version |-> 0, owner |-> None]
NoHandling == [id |-> 0, read |-> Nothing]
NoScan == [phase |-> "none", holder |-> None, live |-> FALSE, old |-> FALSE, cursor |-> 1,
           committed |-> {}, refused |-> FALSE, clean |-> FALSE]
IdleRun == [step |-> "idle", at |-> 1, refusedBefore |-> FALSE, errors |-> FALSE,
            page |-> [d \in Deals |-> Nothing], absent |-> {}, gone |-> {},
            overtaken |-> FALSE]
NoBudget == [changes |-> 0, refusals |-> 0, incidents |-> 0]

\* Every table keeps its shape.
TypeOK ==
  /\ crm \in [Deals -> Crm]
  /\ event \in [Ids -> Webhook]
  /\ mirror \in [Deals -> Opportunity]
  /\ tasks \in [Deals -> [Owners -> Nat]]
  /\ handler \in [Handlers -> Handling]
  /\ scan \in Scan
  /\ seen \subseteq Deals /\ touched \subseteq Deals
  /\ run \in [Runs -> ScanRun]
  /\ atStart \in [Deals -> Version]
  /\ budget \in [changes : 0..MaxChanges, refusals : 0..MaxRefusals, incidents : 0..MaxIncidents]

\* Some deals are known and mirrored, with their intake task.
InitOwner == CHOOSE o \in Owners : TRUE
Init ==
  /\ \E known \in SUBSET Deals :
       /\ crm = [d \in Deals |-> IF d \in known
                  THEN [alive |-> TRUE, version |-> 1, owner |-> InitOwner, deleted |-> 0] ELSE NoDeal]
       /\ mirror = [d \in Deals |-> IF d \in known
                     THEN [version |-> 1, owner |-> InitOwner, archived |-> FALSE] ELSE NoRow]
       /\ tasks = [d \in Deals |-> [o \in Owners |-> IF d \in known /\ o = InitOwner THEN 1 ELSE 0]]
  /\ event = [i \in Ids |-> NoWebhook]
  /\ handler = [h \in Handlers |-> NoHandling]
  /\ scan = NoScan
  /\ seen = {} /\ touched = {}
  /\ run = [r \in Runs |-> IdleRun]
  /\ atStart = [d \in Deals |-> 0]
  /\ budget = NoBudget

(***************************************************************************)
(* hubspot_intake._upsert_opportunity, under the row's lock.               *)
(***************************************************************************)
Exists(row) == row.version > 0

\* Fault: the last write wins.
StaleSource_Never(row, p) == FALSE

\* _stale_source.
StaleSource(row, p) == Exists(row) /\ p.version < row.version

\* A deal archived as deleted in HubSpot only comes back with a newer state.
StillDeleted(row, p) == row.archived /\ p.version <= row.version

Accepts(row, p) == ~StaleSource(row, p) /\ ~StillDeleted(row, p)

Upserted(row, p) ==
  IF Accepts(row, p) THEN [version |-> p.version, owner |-> p.owner, archived |-> FALSE] ELSE row
================================================================================
