----------------------------- MODULE HubspotProofs -----------------------------
(***************************************************************************)
(* Theorems about HubspotSync, for any deals, pages, handlers and runs.    *)
(*                                                                         *)
(* Whatever was read of a deal is no newer than the deal (VersionsSound),  *)
(* so what is written is not either.  A scan's row is only written by the  *)
(* run that holds it, which therefore knows of every refusal (RefusalsKnown) *)
(* and whose pages were read in its generation (PagesFresh); what is       *)
(* behind the cursor is mirrored (BehindCursor), and what the archive      *)
(* check confirmed is deleted as far as the mirror knows (GoneSound).      *)
(***************************************************************************)
EXTENDS HubspotSync, FiniteSetTheorems, TLAPS

\* What was read is of a deal that exists, and no newer than it is.
Reading(h) ==
  /\ handler[h].id \in 1..budget.changes
  /\ event[handler[h].id].deal \in Deals
  /\ handler[h].read.version <= crm[event[handler[h].id].deal].version
VersionsSound ==
  /\ \A d \in Deals :
       /\ crm[d].version <= budget.changes + 1
       /\ mirror[d].version <= crm[d].version
       /\ atStart[d] <= crm[d].version
       /\ crm[d].alive \/ crm[d].deleted = crm[d].version
       /\ \A r \in Runs : run[r].page[d].version <= crm[d].version
  /\ \A i \in Ids : event[i].kind # "none" => i <= budget.changes /\ event[i].deal \in Deals
  /\ \A h \in Handlers : handler[h] = NoHandling \/ Reading(h)

\* A run that holds the scan, or is about to take it over, knows of the records
\* refused in it, but for those it was overtaken by.
AtWork(r) == run[r].step \notin {"idle", "acquire"}
RefusalsKnown ==
  /\ scan.phase = "completed" => scan.holder = None
  /\ \A r \in Runs :
       /\ run[r].step = "acquire" /\ scan.phase \in Open /\ scan.refused
            => run[r].refusedBefore \/ run[r].overtaken
       /\ scan.holder = r /\ AtWork(r) /\ scan.refused => run[r].errors \/ run[r].overtaken

\* A deal that HubSpot has held since the generation began.
Held(d) == atStart[d] > crm[d].deleted
Caught(d) == mirror[d].version >= atStart[d]

PagesFresh ==
  \A r \in Runs, d \in Deals :
    scan.holder = r /\ run[r].step = "write" /\ PageOf[d] = run[r].at /\ Held(d)
      => run[r].page[d].version >= atStart[d]

Behind(d) ==
  \/ scan.phase = "finalizing"
  \/ scan.phase \in {"scanning", "failed"} /\ PageOf[d] < scan.cursor
BehindCursor == \A d \in Deals : Behind(d) /\ Held(d) => scan.refused \/ Caught(d)

GoneSound ==
  \A r \in Runs, d \in Deals :
    scan.holder = r /\ d \in run[r].gone /\ d \notin seen \cup touched => crm[d].deleted >= mirror[d].version

ScanInv == RefusalsKnown /\ PagesFresh /\ BehindCursor /\ GoneSound
HubspotInv == TypeOK /\ VersionsSound /\ ScanInv

(***************************************************************************)
(* The write of a record.                                                  *)
(***************************************************************************)
LEMMA UpsertFacts ==
  ASSUME NEW row \in Opportunity, NEW p \in Payload
  PROVE  /\ Upserted(row, p) \in Opportunity
         /\ Upserted(row, p).version \in {row.version, p.version}
         /\ Upserted(row, p).version >= row.version
         /\ Upserted(row, p).version >= p.version
         /\ ~Accepts(row, p) => Upserted(row, p) = row
BY BoundsAssumption DEF Upserted, Accepts, StaleSource, StillDeleted, Exists, Opportunity, Payload, Version

LEMMA Shapes ==
  /\ NoHandling \in Handling /\ IdleRun \in ScanRun /\ NoScan \in Scan /\ Nothing \in Payload
  /\ NoRow \in Opportunity /\ NoDeal \in Crm /\ NoWebhook \in Webhook
BY DealsAssumption, BoundsAssumption DEF NoHandling, Handling, IdleRun, ScanRun, Step, NoScan, Scan, Phase,
   Nothing, Payload, NoRow, Opportunity, NoDeal, Crm, NoWebhook, Webhook, Version, Ids

(***************************************************************************)
(* Init.                                                                   *)
(***************************************************************************)
LEMMA InitInv == Init => HubspotInv
<1> SUFFICES ASSUME Init PROVE HubspotInv
  OBVIOUS
<1> USE DealsAssumption, BoundsAssumption
<1>0. InitOwner \in Owners /\ 1 \in Version /\ 0 \in Version
  BY DEF InitOwner, Version
<1>1. TypeOK
  <2>1. crm \in [Deals -> Crm] /\ mirror \in [Deals -> Opportunity]
    BY <1>0, Shapes DEF Init, Crm, Opportunity
  <2>2. tasks \in [Deals -> [Owners -> Nat]]
    BY DEF Init
  <2>3. /\ event \in [Ids -> Webhook] /\ handler \in [Handlers -> Handling] /\ scan \in Scan
        /\ run \in [Runs -> ScanRun] /\ atStart \in [Deals -> Version]
        /\ seen \subseteq Deals /\ touched \subseteq Deals
    BY <1>0, Shapes DEF Init
  <2>4. budget \in [changes : 0..MaxChanges, refusals : 0..MaxRefusals, incidents : 0..MaxIncidents]
    BY DEF Init, NoBudget
  <2> QED
    BY <2>1, <2>2, <2>3, <2>4 DEF TypeOK
<1>2. VersionsSound
  BY DEF Init, VersionsSound, NoBudget, NoDeal, NoRow, NoWebhook, IdleRun, Nothing
<1>3. ScanInv
  BY DEF Init, ScanInv, RefusalsKnown, PagesFresh, BehindCursor, GoneSound, AtWork, Held, Behind, IdleRun,
     NoScan, Open
<1> QED
  BY <1>1, <1>2, <1>3 DEF HubspotInv

(***************************************************************************)
(* HubSpot's own changes.                                                  *)
(***************************************************************************)
LEMMA SendFacts ==
  ASSUME HubspotInv, NEW d \in Deals, NEW kind \in {"change", "deletion"}, Send(d, kind)
  PROVE  /\ event' \in [Ids -> Webhook]
         /\ budget' \in [changes : 0..MaxChanges, refusals : 0..MaxRefusals, incidents : 0..MaxIncidents]
         /\ budget'.changes = budget.changes + 1
         /\ \A i \in Ids : i <= budget.changes => event'[i] = event[i]
         /\ \A i \in Ids : event'[i].kind # "none" => i <= budget'.changes /\ event'[i].deal \in Deals
<1>1. budget.changes \in 0..MaxChanges /\ budget.changes + 1 \in Ids
  BY BoundsAssumption DEF HubspotInv, TypeOK, Ids, Send
<1>2. /\ budget' \in [changes : 0..MaxChanges, refusals : 0..MaxRefusals, incidents : 0..MaxIncidents]
      /\ budget'.changes = budget.changes + 1
  <2>1. budget' = [budget EXCEPT !.changes = budget.changes + 1] /\ budget.changes < MaxChanges
    BY DEF Send
  <2>2. budget \in [changes : 0..MaxChanges, refusals : 0..MaxRefusals, incidents : 0..MaxIncidents]
    BY DEF HubspotInv, TypeOK
  <2> QED
    BY <2>1, <2>2, BoundsAssumption
<1>3. event' \in [Ids -> Webhook]
  BY <1>1 DEF HubspotInv, TypeOK, Send, Webhook
<1>4. \A i \in Ids : i # budget.changes + 1 => event'[i] = event[i]
  BY DEF HubspotInv, TypeOK, Send
<1>5. event'[budget.changes + 1].deal = d
  BY <1>1 DEF HubspotInv, TypeOK, Send
<1>6. \A i \in Ids : i \in Int /\ (event[i].kind # "none" => i <= budget.changes /\ event[i].deal \in Deals)
  BY DEF HubspotInv, VersionsSound, Ids
<1> QED
  BY <1>1, <1>2, <1>3, <1>4, <1>5, <1>6

LEMMA HubspotKeepsInv ==
  ASSUME HubspotInv, NEW d \in Deals, DeleteInHubspot(d) \/ \E o \in Owners : SaveInHubspot(d, o)
  PROVE  HubspotInv'
<1> USE DealsAssumption, BoundsAssumption
<1>1. PICK kind \in {"change", "deletion"} : Send(d, kind)
  BY DEF DeleteInHubspot, SaveInHubspot
<1>2. UNCHANGED <<mirror, touched, tasks, handler, scan, seen, run, atStart>>
  BY DEF DeleteInHubspot, SaveInHubspot, scanVars
<1>3. crm[d].version <= budget.changes + 1 /\ budget.changes < MaxChanges
  BY <1>1 DEF HubspotInv, VersionsSound, Send
<1>0. crm \in [Deals -> Crm] /\ budget.changes \in Nat /\ \A e \in Deals : crm[e].version \in Version
  BY DEF HubspotInv, TypeOK, Crm
<1>11. PICK c \in Crm :
         /\ crm' = [crm EXCEPT ![d] = c]
         /\ \/ c.alive /\ c.version = crm[d].version + 1 /\ c.deleted = crm[d].deleted
            \/ ~c.alive /\ c.version = crm[d].version /\ c.deleted = crm[d].version
  <2>1. CASE DeleteInHubspot(d)
    <3> DEFINE c == [crm[d] EXCEPT !.alive = FALSE, !.deleted = crm[d].version]
    <3>1. c \in Crm /\ ~c.alive /\ c.version = crm[d].version /\ c.deleted = crm[d].version
      BY <1>0 DEF Crm
    <3>2. crm' = [crm EXCEPT ![d] = c]
      BY <2>1, <1>0 DEF DeleteInHubspot
    <3> QED
      BY <3>1, <3>2
  <2>2. CASE \E o \in Owners : SaveInHubspot(d, o)
    <3>1. PICK o \in Owners : SaveInHubspot(d, o)
      BY <2>2
    <3> DEFINE c == [alive |-> TRUE, version |-> crm[d].version + 1, owner |-> o, deleted |-> crm[d].deleted]
    <3>2. c \in Crm /\ c.alive /\ c.version = crm[d].version + 1 /\ c.deleted = crm[d].deleted
      BY <1>0, <1>3 DEF Crm, Version
    <3>3. crm' = [crm EXCEPT ![d] = c]
      BY <3>1, <1>0 DEF SaveInHubspot
    <3> HIDE DEF c
    <3> QED
      BY <3>2, <3>3
  <2> QED
    BY <2>1, <2>2
<1>4. crm' \in [Deals -> Crm]
  BY <1>0, <1>11
<1>5. \A e \in Deals : /\ crm'[e].version >= crm[e].version
                       /\ crm'[e].version <= budget.changes + 2
                       /\ crm'[e].alive \/ crm'[e].deleted = crm'[e].version
                       /\ crm'[e].deleted = crm[e].deleted \/ crm'[e].deleted = crm[e].version
  BY <1>0, <1>3, <1>11 DEF HubspotInv, VersionsSound, Version
<1>6. TypeOK'
  BY <1>1, <1>2, <1>4, SendFacts DEF HubspotInv, TypeOK
<1>7. VersionsSound'
  <2>1. \A e \in Deals : /\ crm'[e].version \in Int /\ crm[e].version \in Int /\ mirror[e].version \in Int
                         /\ atStart[e] \in Int /\ \A r \in Runs : run[r].page[e].version \in Int
    BY <1>4 DEF HubspotInv, TypeOK, Crm, Opportunity, ScanRun, Payload, Version
  <2>2. \A h \in Handlers : handler[h] = NoHandling \/ Reading(h)'
    <3> SUFFICES ASSUME NEW h \in Handlers, handler[h] # NoHandling PROVE Reading(h)'
      OBVIOUS
    <3>1. Reading(h) /\ handler[h].id \in Ids /\ handler[h].read.version \in Int /\ budget.changes \in Int
      BY DEF HubspotInv, VersionsSound, Reading, TypeOK, Ids, Handling, Payload, Version
    <3>2. event'[handler[h].id] = event[handler[h].id]
      BY <1>1, <3>1, SendFacts DEF Reading
    <3> QED
      BY <1>1, <1>2, <1>5, <2>1, <3>1, <3>2, SendFacts DEF Reading
  <2>3. budget.changes \in Int
    BY DEF HubspotInv, TypeOK
  <2> QED
    BY <1>1, <1>2, <1>5, <2>1, <2>2, <2>3, SendFacts DEF HubspotInv, VersionsSound
<1>8. ScanInv'
  <2>1. \A e \in Deals : /\ atStart[e] <= crm[e].version /\ mirror[e].version <= crm[e].version
                         /\ crm[e].version \in Int /\ crm[e].deleted \in Int
                         /\ mirror[e].version \in Int /\ atStart[e] \in Int
    BY DEF HubspotInv, VersionsSound, TypeOK, Crm, Opportunity, Version
  <2>2. \A e \in Deals : Held(e)' => Held(e)
    BY <1>2, <1>5, <2>1 DEF Held
  <2>3. PagesFresh' /\ BehindCursor'
    BY <1>2, <2>2 DEF HubspotInv, ScanInv, PagesFresh, BehindCursor, Behind, Caught
  <2>4. GoneSound'
    BY <1>2, <1>5, <2>1 DEF HubspotInv, ScanInv, GoneSound
  <2>5. RefusalsKnown'
    BY <1>2 DEF HubspotInv, ScanInv, RefusalsKnown, AtWork
  <2> QED
    BY <2>3, <2>4, <2>5 DEF ScanInv
<1> QED
  BY <1>6, <1>7, <1>8 DEF HubspotInv

(***************************************************************************)
(* Event handlers.                                                         *)
(***************************************************************************)

\* Writes of the mirror that raise versions and leave the row seen keep what is
\* said of the scan.
LEMMA MirrorStepKeepsScan ==
  ASSUME HubspotInv, TypeOK', UNCHANGED <<crm, scan, seen, run, atStart>>, touched \subseteq touched',
         \A d \in Deals : /\ mirror'[d].version >= mirror[d].version
                          /\ mirror'[d].version = mirror[d].version \/ d \in touched'
  PROVE  ScanInv'
<1>1. \A d \in Deals : /\ mirror'[d].version \in Int /\ mirror[d].version \in Int /\ atStart[d] \in Int
  BY DEF HubspotInv, TypeOK, Opportunity, Version
<1>2. RefusalsKnown' /\ PagesFresh'
  BY DEF HubspotInv, ScanInv, RefusalsKnown, PagesFresh, AtWork, Held
<1>3. BehindCursor'
  BY <1>1 DEF HubspotInv, ScanInv, BehindCursor, Behind, Held, Caught
<1>4. GoneSound'
  BY DEF HubspotInv, ScanInv, GoneSound
<1> QED
  BY <1>2, <1>3, <1>4 DEF ScanInv

LEMMA MayHandleFacts ==
  ASSUME HubspotInv, NEW h \in Handlers, NEW i \in Ids, MayHandle(h, i), event[i].kind # "none"
  PROVE  i \in 1..budget.changes /\ event[i].deal \in Deals
BY BoundsAssumption DEF HubspotInv, VersionsSound, TypeOK, Ids

LEMMA ReadDealKeepsInv ==
  ASSUME HubspotInv, NEW h \in Handlers, NEW i \in Ids, ReadDeal(h, i)
  PROVE  HubspotInv'
<1> DEFINE e == event[i].deal
           reading == [id |-> i, read |-> [version |-> crm[e].version, owner |-> crm[e].owner]]
<1>1. i \in 1..budget.changes /\ e \in Deals
  BY MayHandleFacts DEF ReadDeal
<1>2. crm[e] \in Crm
  BY <1>1 DEF HubspotInv, TypeOK
<1>3. reading \in Handling
  BY <1>2 DEF Handling, Payload, Crm
<1>4. handler' = [handler EXCEPT ![h] = reading] /\ UNCHANGED <<crm, mirror, touched, budget, event, tasks, scan, seen, run, atStart>>
  BY DEF ReadDeal, scanVars
<1>5. handler' \in [Handlers -> Handling]
  BY <1>3, <1>4 DEF HubspotInv, TypeOK
<1>6. TypeOK'
  BY <1>4, <1>5 DEF HubspotInv, TypeOK
<1>7. VersionsSound'
  <2>1. crm[e].version \in Int
    BY <1>2 DEF Crm, Version
  <2>2. handler'[h] = reading /\ \A g \in Handlers \ {h} : handler'[g] = handler[g]
    BY <1>4 DEF HubspotInv, TypeOK
  <2>3. Reading(h)'
    BY <1>1, <1>4, <2>1, <2>2 DEF Reading
  <2>4. \A g \in Handlers \ {h} : (handler[g] = NoHandling \/ Reading(g)) => (handler'[g] = NoHandling \/ Reading(g)')
    BY <1>4, <2>2 DEF Reading
  <2> QED
    BY <1>4, <2>3, <2>4 DEF HubspotInv, VersionsSound
<1>8. ScanInv'
  <2>1. \A d \in Deals : mirror[d].version \in Int
    BY DEF HubspotInv, TypeOK, Opportunity, Version
  <2> QED
    BY <1>4, <1>6, <2>1, MirrorStepKeepsScan
<1> QED
  BY <1>6, <1>7, <1>8 DEF HubspotInv

\* A handler that is done forgets what it read; processed_at does not touch the
\* event's deal.
LEMMA HandlersKeepReading ==
  ASSUME HubspotInv, UNCHANGED <<crm, budget>>,
         \A i \in Ids : event'[i].kind = event[i].kind /\ event'[i].deal = event[i].deal,
         \A h \in Handlers : handler'[h] = handler[h] \/ handler'[h] = NoHandling
  PROVE  /\ \A i \in Ids : event'[i].kind # "none" => i <= budget'.changes /\ event'[i].deal \in Deals
         /\ \A h \in Handlers : handler'[h] = NoHandling \/ Reading(h)'
<1>1. budget.changes \in 0..MaxChanges
  BY DEF HubspotInv, TypeOK
<1>2. \A h \in Handlers : handler[h] = NoHandling \/ Reading(h)
  BY DEF HubspotInv, VersionsSound
<1>3. \A h \in Handlers : Reading(h) => handler[h].id \in Ids
  BY <1>1, BoundsAssumption DEF Reading, Ids
<1> QED
  BY <1>2, <1>3 DEF Reading, HubspotInv, VersionsSound

LEMMA MarkEvent ==
  ASSUME HubspotInv, NEW i \in Ids, NEW state \in {"replayed", "done"}, event' = [event EXCEPT ![i].state = state]
  PROVE  /\ event' \in [Ids -> Webhook]
         /\ \A j \in Ids : event'[j].kind = event[j].kind /\ event'[j].deal = event[j].deal
BY DEF HubspotInv, TypeOK, Webhook

LEMMA ArchiveKeepsInv ==
  ASSUME HubspotInv, NEW h \in Handlers, NEW i \in Ids, ArchiveOnEvent(h, i)
  PROVE  HubspotInv'
<1> DEFINE e == event[i].deal
<1>1. e \in Deals
  BY MayHandleFacts DEF ArchiveOnEvent
<1>2. /\ mirror' = [mirror EXCEPT ![e].archived = Exists(mirror[e])]
      /\ event' = [event EXCEPT ![i].state = "done"]
      /\ UNCHANGED <<crm, touched, budget, tasks, handler, scan, seen, run, atStart>>
  BY DEF ArchiveOnEvent, Processed, scanVars
<1>3. mirror' \in [Deals -> Opportunity] /\ \A d \in Deals : mirror'[d].version = mirror[d].version
  <2>1. Exists(mirror[e]) \in BOOLEAN
    BY DEF Exists
  <2> QED
    BY <1>1, <1>2, <2>1 DEF HubspotInv, TypeOK, Opportunity
<1>4. TypeOK'
  BY <1>2, <1>3, MarkEvent DEF HubspotInv, TypeOK
<1>5. VersionsSound'
  BY <1>2, <1>3, MarkEvent, HandlersKeepReading DEF HubspotInv, VersionsSound
<1>6. ScanInv'
  <2>1. \A d \in Deals : mirror[d].version \in Int
    BY DEF HubspotInv, TypeOK, Opportunity, Version
  <2> QED
    BY <1>2, <1>3, <1>4, <2>1, MirrorStepKeepsScan
<1> QED
  BY <1>4, <1>5, <1>6 DEF HubspotInv

LEMMA ApplyFacts ==
  ASSUME HubspotInv, NEW h \in Handlers, ApplyDeal(h)
  PROVE  /\ mirror' \in [Deals -> Opportunity]
         /\ touched \subseteq touched' /\ touched' \subseteq Deals
         /\ \A d \in Deals : /\ mirror'[d].version >= mirror[d].version
                             /\ mirror'[d].version <= crm[d].version
                             /\ mirror'[d].version = mirror[d].version \/ d \in touched'
<1> DEFINE e == event[handler[h].id].deal
           row == Upserted(mirror[e], handler[h].read)
<1>1. Reading(h) /\ e \in Deals /\ handler[h].read.version <= crm[e].version
  BY DEF HubspotInv, VersionsSound, ApplyDeal, Reading
<1>2. handler[h].read \in Payload /\ mirror[e] \in Opportunity
  BY <1>1 DEF HubspotInv, TypeOK, Handling
<1>3. /\ mirror' = [mirror EXCEPT ![e] = row]
      /\ touched' = IF Accepts(mirror[e], handler[h].read) THEN touched \cup {e} ELSE touched
  BY DEF ApplyDeal
<1>4. /\ row \in Opportunity /\ row.version \in {mirror[e].version, handler[h].read.version}
      /\ row.version >= mirror[e].version
      /\ ~Accepts(mirror[e], handler[h].read) => row = mirror[e]
  BY <1>2, UpsertFacts
<1> HIDE DEF row
<1>5. \A d \in Deals : mirror[d].version \in Int /\ mirror[d].version <= crm[d].version
  BY DEF HubspotInv, TypeOK, Opportunity, Version, VersionsSound
<1>6. mirror' \in [Deals -> Opportunity] /\ mirror'[e] = row /\ \A d \in Deals \ {e} : mirror'[d] = mirror[d]
  BY <1>1, <1>3, <1>4 DEF HubspotInv, TypeOK
<1>7. touched \subseteq touched' /\ touched' \subseteq Deals
  BY <1>1, <1>3 DEF HubspotInv, TypeOK
<1>8. /\ mirror'[e].version >= mirror[e].version /\ mirror'[e].version <= crm[e].version
      /\ mirror'[e].version = mirror[e].version \/ e \in touched'
  BY <1>1, <1>3, <1>4, <1>5, <1>6
<1>9. \A d \in Deals \ {e} :
        mirror'[d].version >= mirror[d].version /\ mirror'[d].version <= crm[d].version /\ mirror'[d].version = mirror[d].version
  BY <1>5, <1>6
<1> HIDE DEF e
<1> QED
  BY <1>6, <1>7, <1>8, <1>9

LEMMA ApplyKeepsInv ==
  ASSUME HubspotInv, NEW h \in Handlers, ApplyDeal(h)
  PROVE  HubspotInv'
<1> DEFINE i == handler[h].id
<1>1. i \in Ids
  BY BoundsAssumption DEF HubspotInv, TypeOK, VersionsSound, Reading, ApplyDeal, Ids
<1>2. /\ event' = [event EXCEPT ![i].state = "done"] /\ handler' = [handler EXCEPT ![h] = NoHandling]
      /\ UNCHANGED <<crm, budget, scan, seen, run, atStart>>
  BY DEF ApplyDeal, Processed, scanVars
<1>3. tasks' \in [Deals -> [Owners -> Nat]]
  <2>1. tasks \in [Deals -> [Owners -> Nat]]
    BY DEF HubspotInv, TypeOK
  <2>2. PICK d, o : tasks' = tasks \/ tasks' = [tasks EXCEPT ![d][o] = @ + 1]
    BY DEF ApplyDeal
  <2> QED
    BY <2>1, <2>2
<1>4. handler' \in [Handlers -> Handling] /\ \A g \in Handlers : handler'[g] = handler[g] \/ handler'[g] = NoHandling
  BY <1>2, Shapes DEF HubspotInv, TypeOK
<1>5. TypeOK'
  BY <1>1, <1>2, <1>3, <1>4, ApplyFacts, MarkEvent DEF HubspotInv, TypeOK
<1>6. VersionsSound'
  BY <1>1, <1>2, <1>4, ApplyFacts, MarkEvent, HandlersKeepReading DEF HubspotInv, VersionsSound
<1>7. ScanInv'
  BY <1>2, <1>5, ApplyFacts, MirrorStepKeepsScan
<1> QED
  BY <1>5, <1>6, <1>7 DEF HubspotInv

LEMMA QuietHandlersKeepInv ==
  ASSUME HubspotInv, (\E h \in Handlers : HandlerFails(h)) \/ (\E i \in Ids : ReplayEvent(i))
  PROVE  HubspotInv'
<1> USE BoundsAssumption
<1>1. \/ event' = event
      \/ \E i \in Ids : event' = [event EXCEPT ![i].state = "replayed"]
  BY DEF HandlerFails, ReplayEvent
<1>2. event' \in [Ids -> Webhook] /\ \A j \in Ids : event'[j].kind = event[j].kind /\ event'[j].deal = event[j].deal
  BY <1>1, MarkEvent DEF HubspotInv, TypeOK
<1>3. handler' \in [Handlers -> Handling] /\ \A g \in Handlers : handler'[g] = handler[g] \/ handler'[g] = NoHandling
  BY Shapes DEF HandlerFails, ReplayEvent, HubspotInv, TypeOK
<1>4. UNCHANGED <<crm, mirror, touched, tasks, scan, seen, run, atStart>>
  BY DEF HandlerFails, ReplayEvent, scanVars
<1>5. /\ budget' \in [changes : 0..MaxChanges, refusals : 0..MaxRefusals, incidents : 0..MaxIncidents]
      /\ budget'.changes = budget.changes
  <2>1. budget' = budget \/ (budget.incidents < MaxIncidents /\ budget' = [budget EXCEPT !.incidents = budget.incidents + 1])
    <3>1. CASE \E h \in Handlers : HandlerFails(h)
      BY <3>1 DEF HandlerFails
    <3>2. CASE \E i \in Ids : ReplayEvent(i)
      BY <3>2 DEF ReplayEvent
    <3> QED
      BY <3>1, <3>2
  <2>2. budget \in [changes : 0..MaxChanges, refusals : 0..MaxRefusals, incidents : 0..MaxIncidents]
    BY DEF HubspotInv, TypeOK
  <2> QED
    BY <2>1, <2>2
<1>6. TypeOK'
  BY <1>2, <1>3, <1>4, <1>5 DEF HubspotInv, TypeOK
<1>7. VersionsSound'
  <2>1. \A h \in Handlers : handler[h] = NoHandling \/ Reading(h)
    BY DEF HubspotInv, VersionsSound
  <2>2. \A h \in Handlers : Reading(h) => handler[h].id \in Ids
    BY DEF Reading, Ids, HubspotInv, TypeOK
  <2>3. \A h \in Handlers : handler'[h] = NoHandling \/ Reading(h)'
    BY <1>2, <1>3, <1>4, <1>5, <2>1, <2>2 DEF Reading
  <2> QED
    BY <1>2, <1>4, <1>5, <2>3 DEF HubspotInv, VersionsSound
<1>8. ScanInv'
  <2>1. \A d \in Deals : mirror[d].version \in Int
    BY DEF HubspotInv, TypeOK, Opportunity, Version
  <2> QED
    BY <1>4, <1>6, <2>1, MirrorStepKeepsScan
<1> QED
  BY <1>6, <1>7, <1>8 DEF HubspotInv

LEMMA IntakeKeepsInv == HubspotInv /\ IntakeNext => HubspotInv'
BY HubspotKeepsInv, ReadDealKeepsInv, ArchiveKeepsInv, ApplyKeepsInv, QuietHandlersKeepInv DEF IntakeNext

(***************************************************************************)
(* Steps of a run that do not write the mirror.                            *)
(***************************************************************************)

\* What a run may become without harm.
Sound(r, x) ==
  /\ \A d \in Deals :
       /\ x.page[d].version <= crm[d].version
       /\ scan.holder = r /\ x.step = "write" /\ PageOf[d] = x.at /\ Held(d) => x.page[d].version >= atStart[d]
       /\ scan.holder = r /\ d \in x.gone /\ d \notin seen \cup touched => crm[d].deleted >= mirror[d].version
  /\ x.step = "acquire" /\ scan.phase \in Open /\ scan.refused => x.refusedBefore \/ x.overtaken
  /\ scan.holder = r /\ x.step \notin {"idle", "acquire"} /\ scan.refused => x.errors \/ x.overtaken

LEMMA RunsSound == HubspotInv => \A r \in Runs : Sound(r, run[r])
BY DEF HubspotInv, VersionsSound, ScanInv, RefusalsKnown, PagesFresh, GoneSound, Sound, AtWork

LEMMA IdleSound == HubspotInv => \A r \in Runs : Sound(r, IdleRun)
<1>1. \A d \in Deals : IdleRun.page[d].version = 0 /\ IdleRun.gone = {} /\ IdleRun.step = "idle"
  BY DEF IdleRun, Nothing
<1>2. HubspotInv => \A d \in Deals : crm[d].version >= 0
  BY DEF HubspotInv, TypeOK, Crm, Version
<1>3. IdleRun.step = "idle"
  BY DEF IdleRun
<1> QED
  BY <1>1, <1>2, <1>3 DEF Sound

LEMMA ScanStepKeepsInv ==
  ASSUME HubspotInv, run' \in [Runs -> ScanRun], \A q \in Runs : Sound(q, run'[q]),
         UNCHANGED <<crm, event, mirror, tasks, handler, seen, touched, atStart>>,
         budget' \in [changes : 0..MaxChanges, refusals : 0..MaxRefusals, incidents : 0..MaxIncidents],
         budget'.changes = budget.changes,
         scan' \in Scan, scan'.cursor = scan.cursor, scan'.refused = scan.refused,
         scan'.holder \in {scan.holder, None}, scan'.phase = "completed" => scan'.holder = None,
         scan'.phase = scan.phase \/ (scan.phase \in Open /\ scan'.phase = "failed")
  PROVE  HubspotInv'
<1>1. \A q \in Runs : Sound(q, run'[q])
  OBVIOUS
<1>2. TypeOK'
  BY DEF HubspotInv, TypeOK
<1>3. VersionsSound'
  <2>1. \A q \in Runs, d \in Deals : run'[q].page[d].version <= crm[d].version
    BY <1>1 DEF Sound
  <2>2. \A h \in Handlers : handler'[h] = NoHandling \/ Reading(h)'
    BY DEF HubspotInv, VersionsSound, Reading
  <2> QED
    BY <2>1, <2>2 DEF HubspotInv, VersionsSound
<1>4. (\A q \in Runs : scan'.holder = q => scan.holder = q) /\ (scan'.phase \in Open => scan.phase \in Open)
  BY DealsAssumption DEF Open
<1>5. RefusalsKnown' /\ PagesFresh' /\ GoneSound'
  BY <1>1, <1>4 DEF Sound, RefusalsKnown, PagesFresh, GoneSound, AtWork, Held
<1>6. BehindCursor'
  <2>1. \A d \in Deals : Behind(d)' => Behind(d)
    BY DEF Behind, Open
  <2> QED
    BY <2>1 DEF HubspotInv, ScanInv, BehindCursor, Held, Caught
<1> QED
  BY <1>2, <1>3, <1>5, <1>6 DEF HubspotInv, ScanInv

LEMMA RunStepKeepsInv ==
  ASSUME HubspotInv, NEW r \in Runs, NEW x \in ScanRun, run' = [run EXCEPT ![r] = x], Sound(r, x),
         UNCHANGED <<crm, event, mirror, tasks, handler, seen, touched, atStart>>,
         budget' \in [changes : 0..MaxChanges, refusals : 0..MaxRefusals, incidents : 0..MaxIncidents],
         budget'.changes = budget.changes,
         scan' \in Scan, scan'.cursor = scan.cursor, scan'.refused = scan.refused,
         scan'.holder \in {scan.holder, None}, scan'.phase = "completed" => scan'.holder = None,
         scan'.phase = scan.phase \/ (scan.phase \in Open /\ scan'.phase = "failed")
  PROVE  HubspotInv'
<1>1. run' \in [Runs -> ScanRun] /\ \A q \in Runs : Sound(q, run'[q])
  BY RunsSound DEF HubspotInv, TypeOK
<1> QED
  BY <1>1, ScanStepKeepsInv

\* What a run reads and asks.
LEMMA ReadPageKeepsInv ==
  ASSUME HubspotInv, NEW r \in Runs, ReadPage(r)
  PROVE  HubspotInv'
<1> DEFINE read == [d \in Deals |->
             IF d \in Listed(run[r].at) THEN [version |-> crm[d].version, owner |-> crm[d].owner] ELSE Nothing]
           x == [run[r] EXCEPT !.step = "write", !.page = read]
<1>1. run[r] \in ScanRun /\ crm \in [Deals -> Crm] /\ atStart \in [Deals -> Version]
  BY DEF HubspotInv, TypeOK
<1>2. read \in [Deals -> Payload]
  BY <1>1, Shapes DEF Crm, Payload
<1>3. /\ x \in ScanRun /\ x.step = "write" /\ x.page = read /\ x.at = run[r].at /\ x.gone = run[r].gone
      /\ x.errors = run[r].errors /\ x.overtaken = run[r].overtaken
  BY <1>1, <1>2 DEF ScanRun, Step
<1>4. \A d \in Deals : /\ read[d].version <= crm[d].version
                       /\ PageOf[d] = x.at /\ Held(d) => read[d].version >= atStart[d]
  <2> SUFFICES ASSUME NEW d \in Deals
               PROVE  /\ read[d].version <= crm[d].version
                      /\ PageOf[d] = x.at /\ Held(d) => read[d].version >= atStart[d]
    OBVIOUS
  <2>1. /\ crm[d].version \in Nat /\ crm[d].deleted \in Nat /\ atStart[d] \in Nat
        /\ atStart[d] <= crm[d].version /\ (crm[d].alive \/ crm[d].deleted = crm[d].version)
    BY <1>1, BoundsAssumption DEF HubspotInv, VersionsSound, Crm, Version
  <2>2. Nothing.version = 0
    BY DEF Nothing
  <2>3. Held(d) => crm[d].alive
    BY <2>1 DEF Held
  <2> QED
    BY <1>3, <2>1, <2>2, <2>3 DEF Listed
<1> HIDE DEF read
<1>5. Sound(r, x)
  <2>1. Sound(r, run[r])
    BY RunsSound
  <2>2. run[r].step = "page"
    BY DEF ReadPage
  <2> QED
    BY <1>3, <1>4, <2>1, <2>2 DEF Sound
<1>6. run' = [run EXCEPT ![r] = x] /\ UNCHANGED <<crm, mirror, touched, budget, event, tasks, handler, scan, seen, atStart>>
  BY DEF ReadPage, Set, read, intakeVars
<1> HIDE DEF x
<1> QED
  BY <1>3, <1>5, <1>6, RunStepKeepsInv DEF HubspotInv, TypeOK, ScanInv, RefusalsKnown

\* The other steps that only move a run.
Quiet(r) ==
  \/ StartRun(r) \/ RefuseRun(r) \/ ListMissing(r) \/ StopAsking(r) \/ CrashRun(r)
  \/ \E d \in Deals : ConfirmAbsence(r, d) \/ CheckFails(r, d)

LEMMA QuietFrame ==
  ASSUME HubspotInv, NEW r \in Runs, Quiet(r)
  PROVE  /\ UNCHANGED <<crm, event, mirror, tasks, handler, scan, seen, touched, atStart>>
         /\ budget' \in [changes : 0..MaxChanges, refusals : 0..MaxRefusals, incidents : 0..MaxIncidents]
         /\ budget'.changes = budget.changes
<1>1. UNCHANGED <<crm, event, mirror, tasks, handler, scan, seen, touched, atStart>>
  BY DEF Quiet, StartRun, RefuseRun, ListMissing, StopAsking, CrashRun, ConfirmAbsence, CheckFails, intakeVars
<1>2. \/ budget' = budget
      \/ budget.refusals < MaxRefusals /\ budget' = [budget EXCEPT !.refusals = budget.refusals + 1]
      \/ budget.incidents < MaxIncidents /\ budget' = [budget EXCEPT !.incidents = budget.incidents + 1]
  BY DEF Quiet, StartRun, RefuseRun, ListMissing, StopAsking, CrashRun, ConfirmAbsence, CheckFails
<1>3. budget \in [changes : 0..MaxChanges, refusals : 0..MaxRefusals, incidents : 0..MaxIncidents]
  BY DEF HubspotInv, TypeOK
<1> QED
  BY <1>1, <1>2, <1>3, BoundsAssumption

LEMMA QuietSound ==
  ASSUME HubspotInv, NEW r \in Runs, Quiet(r)
  PROVE  \E x \in ScanRun : run' = [run EXCEPT ![r] = x] /\ Sound(r, x)
<1> DEFINE y == run[r]
<1>1. y \in ScanRun /\ Sound(r, y) /\ Sound(r, IdleRun) /\ IdleRun \in ScanRun
  BY RunsSound, IdleSound, Shapes DEF HubspotInv, TypeOK
<1>2. CASE RefuseRun(r) \/ CrashRun(r)
  BY <1>1, <1>2 DEF RefuseRun, CrashRun, Idle, Set
<1>3. CASE StartRun(r)
  <2> DEFINE before == scan.phase \in Open /\ scan.refused
             x == [IdleRun EXCEPT !.step = "acquire", !.refusedBefore = before]
  <2>1. scan.refused \in BOOLEAN
    BY DEF HubspotInv, TypeOK, Scan
  <2>2. /\ x \in ScanRun /\ x.step = "acquire" /\ x.refusedBefore = before /\ x.page = IdleRun.page /\ x.gone = {}
    BY <2>1, Shapes DEF IdleRun, ScanRun, Step
  <2>3. run' = [run EXCEPT ![r] = x]
    BY <1>3 DEF StartRun, Set
  <2> HIDE DEF x
  <2>4. Sound(r, x)
    BY <1>1, <2>2 DEF Sound
  <2> QED
    BY <2>2, <2>3, <2>4
<1>4. CASE ListMissing(r) \/ StopAsking(r)
  <2>1. PICK absent \in SUBSET Deals, step \in {"confirm"} : run' = [run EXCEPT ![r] = [y EXCEPT !.step = step, !.absent = absent]]
    <3>1. CASE ListMissing(r)
      BY <3>1 DEF ListMissing, Set, Missing
    <3>2. CASE StopAsking(r)
      <4>1. y.step = "confirm" /\ run' = [run EXCEPT ![r] = [y EXCEPT !.absent = {}]]
        BY <3>2 DEF StopAsking, Set
      <4>2. [y EXCEPT !.absent = {}] = [y EXCEPT !.step = "confirm", !.absent = {}]
        BY <4>1, <1>1 DEF ScanRun
      <4> QED
        BY <4>1, <4>2
    <3> QED
      BY <1>4, <3>1, <3>2
  <2> DEFINE x == [y EXCEPT !.step = step, !.absent = absent]
  <2>2. /\ x \in ScanRun /\ x.step = "confirm" /\ x.page = y.page /\ x.gone = y.gone
        /\ x.errors = y.errors /\ x.overtaken = y.overtaken
    BY <1>1 DEF ScanRun, Step
  <2>3. y.step \notin {"idle", "acquire"}
    BY <1>4 DEF ListMissing, StopAsking
  <2> HIDE DEF x
  <2>4. Sound(r, x)
    BY <1>1, <2>2, <2>3 DEF Sound
  <2> QED
    BY <2>1, <2>2, <2>4 DEF x
<1>5. ASSUME NEW d \in Deals, ConfirmAbsence(r, d) \/ CheckFails(r, d)
      PROVE  \E x \in ScanRun : run' = [run EXCEPT ![r] = x] /\ Sound(r, x)
  <2>1. PICK gone \in SUBSET Deals, errors \in BOOLEAN :
          /\ run' = [run EXCEPT ![r] = [y EXCEPT !.absent = y.absent \ {d}, !.gone = gone, !.errors = errors]]
          /\ y.errors => errors
          /\ \A e \in gone \ y.gone : e = d /\ ~crm[d].alive
    <3>1. CASE ConfirmAbsence(r, d)
      <4> DEFINE gone == IF crm[d].alive THEN y.gone ELSE y.gone \cup {d}
                 errors == y.errors \/ crm[d].alive
      <4>1. gone \in SUBSET Deals /\ errors \in BOOLEAN
        BY <1>1 DEF HubspotInv, TypeOK, Crm, ScanRun
      <4>2. run' = [run EXCEPT ![r] = [y EXCEPT !.absent = y.absent \ {d}, !.gone = gone, !.errors = errors]]
        BY <3>1 DEF ConfirmAbsence, Set
      <4> QED
        BY <4>1, <4>2
    <3>2. CASE CheckFails(r, d)
      <4>1. run' = [run EXCEPT ![r] = [y EXCEPT !.absent = y.absent \ {d}, !.errors = TRUE]]
        BY <3>2 DEF CheckFails, Set
      <4>2. [y EXCEPT !.absent = y.absent \ {d}, !.errors = TRUE]
              = [y EXCEPT !.absent = y.absent \ {d}, !.gone = y.gone, !.errors = TRUE]
        BY <1>1 DEF ScanRun
      <4>3. y.gone \in SUBSET Deals
        BY <1>1 DEF ScanRun
      <4> QED
        BY <4>1, <4>2, <4>3
    <3> QED
      BY <1>5, <3>1, <3>2
  <2> DEFINE x == [y EXCEPT !.absent = y.absent \ {d}, !.gone = gone, !.errors = errors]
  <2>2. /\ x \in ScanRun /\ x.step = y.step /\ x.page = y.page /\ x.gone = gone
        /\ x.errors = errors /\ x.overtaken = y.overtaken
    BY <1>1 DEF ScanRun
  <2>3. y.step = "confirm"
    BY <1>5 DEF ConfirmAbsence, CheckFails
  <2>4. ~crm[d].alive => crm[d].deleted >= mirror[d].version
    BY DEF HubspotInv, VersionsSound, TypeOK, Crm, Opportunity, Version
  <2> HIDE DEF x
  <2>5. Sound(r, x)
    BY <1>1, <2>1, <2>2, <2>3, <2>4 DEF Sound
  <2> QED
    BY <2>1, <2>2, <2>5 DEF x
<1> QED
  BY <1>2, <1>3, <1>4, <1>5 DEF Quiet

LEMMA QuietKeepsInv ==
  ASSUME HubspotInv, NEW r \in Runs, Quiet(r)
  PROVE  HubspotInv'
<1>1. PICK x \in ScanRun : run' = [run EXCEPT ![r] = x] /\ Sound(r, x)
  BY QuietSound
<1> QED
  BY <1>1, QuietFrame, RunStepKeepsInv DEF HubspotInv, TypeOK, ScanInv, RefusalsKnown

\* Leases and the clock.
LEMMA ClockKeepsInv ==
  ASSUME HubspotInv, ExpireLease \/ OutliveLease \/ ScanAges
  PROVE  HubspotInv'
<1>1. UNCHANGED <<crm, event, mirror, tasks, handler, seen, touched, atStart, run>>
  BY DEF ExpireLease, OutliveLease, ScanAges, intakeVars
<1>2. scan' = [scan EXCEPT !.live = FALSE] \/ scan' = [scan EXCEPT !.old = TRUE]
  BY DEF ExpireLease, OutliveLease, ScanAges
<1>3. scan \in Scan
  BY DEF HubspotInv, TypeOK
<1>4. /\ scan' \in Scan /\ scan'.cursor = scan.cursor /\ scan'.refused = scan.refused
      /\ scan'.holder = scan.holder /\ scan'.phase = scan.phase
  BY <1>2, <1>3 DEF Scan
<1>5. \/ budget' = budget
      \/ budget.incidents < MaxIncidents /\ budget' = [budget EXCEPT !.incidents = budget.incidents + 1]
  BY DEF ExpireLease, OutliveLease, ScanAges
<1>6. budget \in [changes : 0..MaxChanges, refusals : 0..MaxRefusals, incidents : 0..MaxIncidents]
  BY DEF HubspotInv, TypeOK
<1>7. /\ budget' \in [changes : 0..MaxChanges, refusals : 0..MaxRefusals, incidents : 0..MaxIncidents]
      /\ budget'.changes = budget.changes
  BY <1>5, <1>6, BoundsAssumption
<1>8. run' \in [Runs -> ScanRun] /\ \A q \in Runs : Sound(q, run'[q])
  BY <1>1, RunsSound DEF HubspotInv, TypeOK
<1> QED
  BY <1>1, <1>4, <1>7, <1>8, ScanStepKeepsInv DEF HubspotInv, ScanInv, RefusalsKnown

\* A run that fails, or whose write is refused.
LEMMA GiveUpKeepsInv ==
  ASSUME HubspotInv, NEW r \in Runs, FailRun(r) \/ RefusePage(r) \/ RefuseFinish(r)
  PROVE  HubspotInv'
<1>1. GiveUp(r)
  BY DEF FailRun, RefusePage, RefuseFinish
<1>2. run' = [run EXCEPT ![r] = IdleRun] /\ UNCHANGED <<crm, event, mirror, tasks, handler, seen, touched, atStart>>
  BY <1>1 DEF GiveUp, Idle, Set, intakeVars
<1>3. scan \in Scan /\ (scan.phase = "completed" => scan.holder = None)
  BY DEF HubspotInv, TypeOK, ScanInv, RefusalsKnown
<1>4. scan' = scan \/ (scan' = Failed /\ scan.phase \in {"scanning", "finalizing"})
  BY <1>1 DEF GiveUp, Owns
<1>5. /\ Failed \in Scan /\ Failed.cursor = scan.cursor /\ Failed.refused = scan.refused
      /\ Failed.holder = None /\ Failed.phase = "failed"
  BY <1>3 DEF Failed, Scan, Phase
<1>6. /\ scan' \in Scan /\ scan'.cursor = scan.cursor /\ scan'.refused = scan.refused
      /\ scan'.holder \in {scan.holder, None} /\ (scan'.phase = "completed" => scan'.holder = None)
      /\ scan'.phase = scan.phase \/ (scan.phase \in Open /\ scan'.phase = "failed")
  BY <1>3, <1>4, <1>5 DEF Open
<1>7. \/ budget' = budget
      \/ budget.incidents < MaxIncidents /\ budget' = [budget EXCEPT !.incidents = budget.incidents + 1]
  BY DEF FailRun, RefusePage, RefuseFinish
<1>8. budget \in [changes : 0..MaxChanges, refusals : 0..MaxRefusals, incidents : 0..MaxIncidents]
  BY DEF HubspotInv, TypeOK
<1>9. /\ budget' \in [changes : 0..MaxChanges, refusals : 0..MaxRefusals, incidents : 0..MaxIncidents]
      /\ budget'.changes = budget.changes
  BY <1>7, <1>8, BoundsAssumption
<1> QED
  BY <1>2, <1>6, <1>9, IdleSound, Shapes, RunStepKeepsInv

(***************************************************************************)
(* Taking the lease.                                                       *)
(***************************************************************************)

\* A run that takes the lease has read and confirmed nothing yet.
LEMMA LeaseKeepsInv ==
  ASSUME HubspotInv, NEW r \in Runs, NEW x \in ScanRun, run' = [run EXCEPT ![r] = x],
         UNCHANGED <<crm, mirror, budget, event, tasks, handler>>,
         scan' \in Scan, scan'.holder = r, scan'.phase \in {"scanning", "finalizing"},
         atStart' \in [Deals -> Version], seen' \subseteq Deals, touched' \subseteq Deals,
         \A d \in Deals : atStart'[d] <= crm[d].version,
         x.page = IdleRun.page, x.gone = {}, x.step \in {"page", "list"},
         scan'.refused => x.overtaken /\ scan.phase \in Open /\ scan.refused,
         BehindCursor'
  PROVE  HubspotInv'
<1>1. run'[r] = x /\ \A q \in Runs \ {r} : run'[q] = run[q]
  BY DEF HubspotInv, TypeOK
<1>2. TypeOK'
  BY DEF HubspotInv, TypeOK
<1>3. VersionsSound'
  <2>1. \A d \in Deals : x.page[d].version <= crm[d].version
    BY DEF IdleRun, Nothing, HubspotInv, TypeOK, Crm, Version
  <2>2. \A h \in Handlers : handler'[h] = NoHandling \/ Reading(h)'
    BY DEF HubspotInv, VersionsSound, Reading
  <2> QED
    BY <1>1, <2>1, <2>2 DEF HubspotInv, VersionsSound
<1>4. RefusalsKnown'
  BY <1>1, DealsAssumption DEF HubspotInv, ScanInv, RefusalsKnown, AtWork
<1>5. PagesFresh' /\ GoneSound'
  BY <1>1 DEF PagesFresh, GoneSound
<1> QED
  BY <1>2, <1>3, <1>4, <1>5 DEF HubspotInv, ScanInv

LEMMA BeginKeepsInv ==
  ASSUME HubspotInv, NEW r \in Runs, BeginGeneration(r)
  PROVE  HubspotInv'
<1> DEFINE x == [IdleRun EXCEPT !.step = "page"]
           s == [NoScan EXCEPT !.phase = "scanning", !.holder = r, !.live = TRUE]
<1>1. /\ run' = [run EXCEPT ![r] = x] /\ scan' = s /\ seen' = {} /\ touched' = {}
      /\ atStart' = [d \in Deals |-> IF crm[d].alive THEN crm[d].version ELSE 0]
      /\ UNCHANGED <<crm, mirror, budget, event, tasks, handler>>
  BY DEF BeginGeneration, Set, intakeVars
<1>2. x \in ScanRun /\ x.step = "page" /\ x.page = IdleRun.page /\ x.gone = {}
  BY Shapes DEF IdleRun, ScanRun, Step
<1>3. s \in Scan /\ s.holder = r /\ s.phase = "scanning" /\ s.cursor = 1 /\ s.refused = FALSE
  BY Shapes DEF NoScan, Scan, Phase
<1>4. atStart' \in [Deals -> Version] /\ \A d \in Deals : atStart'[d] <= crm[d].version
  BY <1>1, BoundsAssumption DEF HubspotInv, TypeOK, Crm, Version
<1>5. BehindCursor'
  BY <1>1, <1>3, DealsAssumption DEF BehindCursor, Behind
<1> HIDE DEF x, s
<1> QED
  BY <1>1, <1>2, <1>3, <1>4, <1>5, LeaseKeepsInv

LEMMA ResumeKeepsInv ==
  ASSUME HubspotInv, NEW r \in Runs, ResumeScan(r)
  PROVE  HubspotInv'
<1> DEFINE x == [IdleRun EXCEPT !.step = IF scan.phase = "finalizing" THEN "list" ELSE "page",
                                !.at = scan.cursor, !.overtaken = run[r].overtaken]
           phase == IF scan.phase = "failed" THEN "scanning" ELSE scan.phase
           s == [scan EXCEPT !.phase = phase, !.holder = r, !.live = TRUE]
<1>1. /\ run' = [run EXCEPT ![r] = x] /\ scan' = s
      /\ UNCHANGED <<crm, mirror, touched, seen, atStart, budget, event, tasks, handler>>
  BY DEF ResumeScan, Set, intakeVars
<1>2. scan \in Scan /\ run[r] \in ScanRun /\ scan.phase \in Open
  BY DEF HubspotInv, TypeOK, ResumeScan, Resumable
<1>3. /\ x \in ScanRun /\ x.step \in {"page", "list"} /\ x.page = IdleRun.page /\ x.gone = {}
      /\ x.overtaken = run[r].overtaken
  BY <1>2, Shapes DEF IdleRun, ScanRun, Step, Scan
<1>4. /\ s \in Scan /\ s.holder = r /\ s.phase = phase /\ s.cursor = scan.cursor /\ s.refused = scan.refused
      /\ phase \in {"scanning", "finalizing"}
  BY <1>2 DEF Scan, Phase, Open
<1>5. scan.refused => x.overtaken
  BY <1>2, <1>3 DEF HubspotInv, ScanInv, RefusalsKnown, ResumeScan, Resumable
<1>6. BehindCursor'
  BY <1>1, <1>4 DEF HubspotInv, ScanInv, BehindCursor, Behind, Held, Caught
<1>7. atStart \in [Deals -> Version] /\ seen \subseteq Deals /\ touched \subseteq Deals
      /\ \A d \in Deals : atStart[d] <= crm[d].version
  BY DEF HubspotInv, TypeOK, VersionsSound
<1> HIDE DEF x, s
<1> QED
  BY <1>1, <1>2, <1>3, <1>4, <1>5, <1>6, <1>7, LeaseKeepsInv

(***************************************************************************)
(* A page.                                                                 *)
(***************************************************************************)
Written(r, refused) == {d \in OnPage(r) \ refused : Accepts(mirror[d], run[r].page[d])}

\* What a page writes of the mirror is what it read, and it is seen.
LEMMA PageWrites ==
  ASSUME HubspotInv, NEW r \in Runs, NEW refused \in SUBSET OnPage(r),
         mirror' = [d \in Deals |-> IF d \in Written(r, refused) THEN Upserted(mirror[d], run[r].page[d]) ELSE mirror[d]],
         touched' = touched \cup Written(r, refused)
  PROVE  /\ mirror' \in [Deals -> Opportunity] /\ touched' \subseteq Deals
         /\ \A d \in Deals : /\ mirror'[d].version >= mirror[d].version
                             /\ mirror'[d].version <= crm[d].version
                             /\ mirror'[d].version = mirror[d].version \/ d \in touched'
         /\ \A d \in OnPage(r) \ refused : mirror'[d].version >= run[r].page[d].version
<1>1. Written(r, refused) \subseteq Deals /\ OnPage(r) \subseteq Deals
  BY DEF Written, OnPage
<1>2. \A d \in Deals : mirror[d] \in Opportunity /\ run[r].page[d] \in Payload
  BY DEF HubspotInv, TypeOK, ScanRun
<1>3. \A d \in Deals : /\ mirror[d].version \in Int /\ mirror[d].version <= crm[d].version
                       /\ run[r].page[d].version <= crm[d].version
  BY <1>2 DEF Opportunity, Version, HubspotInv, VersionsSound
<1>4. \A d \in Deals :
        LET row == Upserted(mirror[d], run[r].page[d]) IN
        /\ row \in Opportunity /\ row.version \in {mirror[d].version, run[r].page[d].version}
        /\ row.version >= mirror[d].version /\ row.version >= run[r].page[d].version
        /\ ~Accepts(mirror[d], run[r].page[d]) => row = mirror[d]
  BY <1>2, UpsertFacts
<1>5. mirror' \in [Deals -> Opportunity]
  BY <1>2, <1>4
<1>6. \A d \in Deals : mirror'[d] = IF d \in Written(r, refused) THEN Upserted(mirror[d], run[r].page[d]) ELSE mirror[d]
  OBVIOUS
<1>7. \A d \in Deals : /\ mirror'[d].version >= mirror[d].version
                       /\ mirror'[d].version <= crm[d].version
                       /\ mirror'[d].version = mirror[d].version \/ d \in touched'
  <2> SUFFICES ASSUME NEW d \in Deals
               PROVE  /\ mirror'[d].version >= mirror[d].version
                      /\ mirror'[d].version <= crm[d].version
                      /\ mirror'[d].version = mirror[d].version \/ d \in touched'
    OBVIOUS
  <2>1. CASE d \in Written(r, refused)
    BY <1>3, <1>4, <1>6, <2>1
  <2>2. CASE d \notin Written(r, refused)
    BY <1>3, <1>6, <2>2
  <2> QED
    BY <2>1, <2>2
<1>8. \A d \in OnPage(r) \ refused : mirror'[d].version >= run[r].page[d].version
  <2> SUFFICES ASSUME NEW d \in OnPage(r) \ refused PROVE mirror'[d].version >= run[r].page[d].version
    OBVIOUS
  <2>1. d \in Deals
    BY <1>1
  <2>2. mirror'[d] = Upserted(mirror[d], run[r].page[d])
    BY <1>4, <1>6, <2>1 DEF Written
  <2> QED
    BY <1>4, <2>1, <2>2
<1>9. touched' \subseteq Deals
  BY <1>1 DEF HubspotInv, TypeOK
<1> QED
  BY <1>5, <1>7, <1>8, <1>9

\* Who else is about to take the scan over is told of a refusal.
LEMMA OvertakeFacts ==
  ASSUME NEW rs \in [Runs -> ScanRun], NEW refused
  PROVE  /\ Overtake(rs, refused) \in [Runs -> ScanRun]
         /\ \A q \in Runs :
              LET y == Overtake(rs, refused)[q] IN
              /\ y.step = rs[q].step /\ y.at = rs[q].at /\ y.page = rs[q].page /\ y.gone = rs[q].gone
              /\ y.errors = rs[q].errors /\ y.refusedBefore = rs[q].refusedBefore
              /\ rs[q].overtaken => y.overtaken
              /\ refused # {} /\ rs[q].step = "acquire" => y.overtaken
<1> DEFINE late(q) == [rs[q] EXCEPT !.overtaken = TRUE]
<1>1. \A q \in Runs :
        /\ late(q) \in ScanRun /\ late(q).overtaken
        /\ late(q).step = rs[q].step /\ late(q).at = rs[q].at /\ late(q).page = rs[q].page
        /\ late(q).gone = rs[q].gone /\ late(q).errors = rs[q].errors
        /\ late(q).refusedBefore = rs[q].refusedBefore
  BY DEF ScanRun
<1>2. Overtake(rs, refused) = [q \in Runs |-> IF refused # {} /\ rs[q].step = "acquire" THEN late(q) ELSE rs[q]]
  BY DEF Overtake
<1> HIDE DEF late
<1> QED
  BY <1>1, <1>2

LEMMA CommitPageKeepsInv ==
  ASSUME HubspotInv, NEW r \in Runs, CommitPage(r)
  PROVE  HubspotInv'
<1> DEFINE last == LastPage(r)
           y(refused) == [run[r] EXCEPT !.step = IF last THEN "list" ELSE "page",
                                        !.at = IF last THEN 1 ELSE run[r].at + 1,
                                        !.page = IdleRun.page, !.errors = run[r].errors \/ refused # {}]
           s(refused) == [scan EXCEPT !.phase = IF last THEN "finalizing" ELSE "scanning",
                                      !.cursor = IF last THEN 1 ELSE scan.cursor + 1,
                                      !.committed = IF last THEN scan.committed ELSE scan.committed \cup {run[r].at + 1},
                                      !.refused = scan.refused \/ refused # {}]
<1>1. PICK refused \in SUBSET OnPage(r) :
        /\ budget.refusals + Cardinality(refused) <= MaxRefusals
        /\ budget' = [budget EXCEPT !.refusals = budget.refusals + Cardinality(refused)]
        /\ mirror' = [d \in Deals |-> IF d \in Written(r, refused) THEN Upserted(mirror[d], run[r].page[d]) ELSE mirror[d]]
        /\ touched' = touched \cup Written(r, refused)
        /\ seen' = seen \cup {d \in OnPage(r) : Exists(mirror'[d])}
        /\ scan' = s(refused)
        /\ run' = Overtake([run EXCEPT ![r] = y(refused)], refused)
  BY Zenon DEF CommitPage, Written, LastPage
<1>2. UNCHANGED <<crm, event, tasks, handler, atStart>>
  BY DEF CommitPage, intakeVars
<1>3. /\ scan \in Scan /\ run[r] \in ScanRun /\ run \in [Runs -> ScanRun] /\ scan.phase = "scanning"
      /\ scan.holder = r /\ scan.cursor = run[r].at /\ run[r].at \in 1..Pages /\ run[r].step = "write"
  BY DEF HubspotInv, TypeOK, CommitPage, MayCheckpoint, Owns, ScanRun
<1>4. last <=> run[r].at = Pages
  BY DEF LastPage
<1>5. /\ y(refused) \in ScanRun /\ y(refused).step \in {"list", "page"} /\ y(refused).page = IdleRun.page
      /\ y(refused).gone = run[r].gone /\ y(refused).overtaken = run[r].overtaken
      /\ y(refused).errors = (run[r].errors \/ refused # {})
  <2>1. (IF last THEN 1 ELSE run[r].at + 1) \in 1..Pages /\ IdleRun.page \in [Deals -> Payload]
    BY <1>3, <1>4, Shapes, DealsAssumption DEF IdleRun
  <2> QED
    BY <1>3, <2>1 DEF ScanRun, Step
<1>6. /\ s(refused) \in Scan /\ s(refused).holder = r /\ s(refused).phase = (IF last THEN "finalizing" ELSE "scanning")
      /\ s(refused).cursor = (IF last THEN 1 ELSE scan.cursor + 1)
      /\ s(refused).refused = (scan.refused \/ refused # {})
  <2>1. (IF last THEN 1 ELSE scan.cursor + 1) \in 1..Pages /\ (~last => run[r].at + 1 \in 1..Pages)
    BY <1>3, <1>4, DealsAssumption
  <2> QED
    BY <1>3, <2>1 DEF Scan, Phase
<1> DEFINE rs == [run EXCEPT ![r] = y(refused)]
<1>7. rs \in [Runs -> ScanRun] /\ rs[r] = y(refused) /\ \A q \in Runs \ {r} : rs[q] = run[q]
  BY <1>3, <1>5
<1>8. run' = Overtake(rs, refused) /\ scan' = s(refused)
  BY <1>1
<1> HIDE DEF y, s, rs, last
<1>9. /\ run' \in [Runs -> ScanRun]
      /\ run'[r].step \in {"list", "page"} /\ run'[r].page = IdleRun.page /\ run'[r].gone = run[r].gone
      /\ run[r].overtaken => run'[r].overtaken
      /\ run'[r].errors = (run[r].errors \/ refused # {})
  BY <1>5, <1>7, <1>8, OvertakeFacts
<1>10. \A q \in Runs \ {r} :
         /\ run'[q].step = run[q].step /\ run'[q].page = run[q].page /\ run'[q].refusedBefore = run[q].refusedBefore
         /\ run[q].overtaken => run'[q].overtaken
         /\ refused # {} /\ run[q].step = "acquire" => run'[q].overtaken
  BY <1>7, <1>8, OvertakeFacts
<1>11. /\ mirror' \in [Deals -> Opportunity] /\ touched' \subseteq Deals
       /\ \A d \in Deals : /\ mirror'[d].version >= mirror[d].version
                           /\ mirror'[d].version <= crm[d].version
                           /\ mirror'[d].version = mirror[d].version \/ d \in touched'
       /\ \A d \in OnPage(r) \ refused : mirror'[d].version >= run[r].page[d].version
  BY <1>1, PageWrites
<1>12. /\ budget' \in [changes : 0..MaxChanges, refusals : 0..MaxRefusals, incidents : 0..MaxIncidents]
       /\ budget'.changes = budget.changes
  <2>1. OnPage(r) \subseteq Deals
    BY DEF OnPage
  <2>2. Cardinality(refused) \in Nat
    BY <2>1, DealsAssumption, FS_Subset, FS_CardinalityType
  <2>3. budget \in [changes : 0..MaxChanges, refusals : 0..MaxRefusals, incidents : 0..MaxIncidents]
    BY DEF HubspotInv, TypeOK
  <2> QED
    BY <1>1, <2>2, <2>3, BoundsAssumption
<1>13. TypeOK'
  <2>1. seen' \subseteq Deals
    BY <1>1 DEF HubspotInv, TypeOK, OnPage
  <2> QED
    BY <1>2, <1>6, <1>8, <1>9, <1>11, <1>12, <2>1 DEF HubspotInv, TypeOK
<1>14. VersionsSound'
  <2>1. \A d \in Deals : IdleRun.page[d].version <= crm[d].version
    BY DEF IdleRun, Nothing, HubspotInv, TypeOK, Crm, Version
  <2>2. \A h \in Handlers : handler'[h] = NoHandling \/ Reading(h)'
    BY <1>2, <1>12 DEF HubspotInv, VersionsSound, Reading
  <2>3. \A q \in Runs, d \in Deals : run'[q].page[d].version <= crm[d].version
    BY <1>9, <1>10, <2>1 DEF HubspotInv, VersionsSound
  <2> QED
    BY <1>2, <1>11, <1>12, <2>2, <2>3 DEF HubspotInv, VersionsSound
<1>15. RefusalsKnown'
  <2>1. scan'.holder = r /\ scan'.phase # "completed" /\ scan'.refused = (scan.refused \/ refused # {})
    BY <1>6, <1>8
  <2>2. scan.refused => run[r].errors \/ run[r].overtaken
    BY <1>3 DEF HubspotInv, ScanInv, RefusalsKnown, AtWork
  <2>3. \A q \in Runs \ {r} : run[q].step = "acquire" /\ scan.refused => run[q].refusedBefore \/ run[q].overtaken
    BY <1>3 DEF HubspotInv, ScanInv, RefusalsKnown, Open
  <2> QED
    BY <1>9, <1>10, <2>1, <2>2, <2>3 DEF RefusalsKnown, AtWork
<1>16. PagesFresh'
  BY <1>6, <1>8, <1>9 DEF PagesFresh
<1>17. GoneSound'
  <2> SUFFICES ASSUME NEW d \in Deals, d \in run[r].gone, d \notin seen' \cup touched'
               PROVE  crm[d].deleted >= mirror'[d].version
    BY <1>2, <1>6, <1>8, <1>9 DEF GoneSound
  <2>1. d \notin seen \cup touched
    BY <1>1
  <2> QED
    BY <1>3, <1>11, <2>1 DEF HubspotInv, ScanInv, GoneSound
<1>18. BehindCursor'
  <2> SUFFICES ASSUME NEW d \in Deals, Behind(d)', Held(d)', refused = {}, ~scan.refused PROVE Caught(d)'
    BY <1>6, <1>8 DEF BehindCursor
  <2>1. /\ atStart[d] \in Nat /\ crm[d].deleted \in Nat /\ mirror[d].version \in Int /\ mirror'[d].version \in Int
        /\ run[r].page[d].version \in Int
    BY <1>3, <1>11 DEF HubspotInv, TypeOK, Crm, Version, Opportunity, ScanRun, Payload
  <2>2. Held(d) /\ atStart[d] > 0
    BY <1>2, <2>1 DEF Held
  <2>3. PageOf[d] \in 1..Pages /\ PageOf[d] <= run[r].at
    BY <1>3, <1>4, <1>6, <1>8, DealsAssumption DEF Behind
  <2>4. CASE PageOf[d] < run[r].at
    <3>1. Caught(d)
      BY <1>3, <2>2, <2>4 DEF HubspotInv, ScanInv, BehindCursor, Behind
    <3> QED
      BY <1>2, <1>11, <2>1, <3>1 DEF Caught
  <2>5. CASE PageOf[d] = run[r].at
    <3>1. run[r].page[d].version >= atStart[d]
      BY <1>3, <2>2, <2>5 DEF HubspotInv, ScanInv, PagesFresh
    <3>2. d \in OnPage(r)
      BY <2>1, <2>2, <3>1 DEF OnPage, Nothing
    <3> QED
      BY <1>2, <1>11, <2>1, <3>1, <3>2 DEF Caught
  <2> QED
    BY <1>3, <2>3, <2>4, <2>5
<1> QED
  BY <1>13, <1>14, <1>15, <1>16, <1>17, <1>18 DEF HubspotInv, ScanInv

(***************************************************************************)
(* The end of a scan.                                                      *)
(***************************************************************************)
LEMMA FinishFacts ==
  ASSUME HubspotInv, NEW r \in Runs, FinishScan(r)
  PROVE  /\ mirror' \in [Deals -> Opportunity]
         /\ \A d \in Deals : mirror'[d].version = mirror[d].version
         /\ \A d \in Deals : mirror'[d].archived /\ ~mirror[d].archived => d \in run[r].gone /\ Untouched(d)
         /\ scan' \in Scan /\ scan'.phase = "completed" /\ scan'.holder = None /\ scan'.clean = ~run[r].errors
<1>1. mirror \in [Deals -> Opportunity] /\ scan \in Scan /\ run[r].errors \in BOOLEAN
  BY DEF HubspotInv, TypeOK, ScanRun
<1>2. /\ mirror' = [d \in Deals |-> IF d \in run[r].gone /\ Untouched(d)
                                    THEN [mirror[d] EXCEPT !.archived = TRUE] ELSE mirror[d]]
      /\ scan' = [scan EXCEPT !.phase = "completed", !.holder = None, !.live = FALSE, !.clean = ~run[r].errors]
  BY DEF FinishScan
<1>3. /\ mirror' \in [Deals -> Opportunity]
      /\ \A d \in Deals : mirror'[d].version = mirror[d].version
      /\ \A d \in Deals : mirror'[d].archived /\ ~mirror[d].archived => d \in run[r].gone /\ Untouched(d)
  BY <1>1, <1>2 DEF Opportunity
<1>4. scan' \in Scan /\ scan'.phase = "completed" /\ scan'.holder = None /\ scan'.clean = ~run[r].errors
  BY <1>1, <1>2 DEF Scan, Phase
<1> QED
  BY <1>3, <1>4

LEMMA FinishKeepsInv ==
  ASSUME HubspotInv, NEW r \in Runs, FinishScan(r)
  PROVE  HubspotInv'
<1>1. run' = [run EXCEPT ![r] = IdleRun] /\ UNCHANGED <<crm, event, tasks, handler, seen, touched, atStart, budget>>
  BY DEF FinishScan, Idle, Set, intakeVars
<1>2. run' \in [Runs -> ScanRun] /\ \A q \in Runs : run'[q] = run[q] \/ run'[q] = IdleRun
  BY <1>1, Shapes DEF HubspotInv, TypeOK
<1>3. TypeOK'
  BY <1>1, <1>2, FinishFacts DEF HubspotInv, TypeOK
<1>4. VersionsSound'
  <2>1. \A d \in Deals : IdleRun.page[d].version <= crm[d].version
    BY DEF IdleRun, Nothing, HubspotInv, TypeOK, Crm, Version
  <2>2. \A h \in Handlers : handler'[h] = NoHandling \/ Reading(h)'
    BY <1>1 DEF HubspotInv, VersionsSound, Reading
  <2>3. \A q \in Runs, d \in Deals : run'[q].page[d].version <= crm[d].version
    BY <1>2, <2>1 DEF HubspotInv, VersionsSound
  <2> QED
    BY <1>1, <2>2, <2>3, FinishFacts DEF HubspotInv, VersionsSound
<1>5. ScanInv'
  BY DealsAssumption, FinishFacts DEF ScanInv, RefusalsKnown, PagesFresh, BehindCursor, GoneSound, Behind, Open
<1> QED
  BY <1>3, <1>4, <1>5 DEF HubspotInv

LEMMA ScanKeepsInv == HubspotInv /\ ScanNext => HubspotInv'
<1> SUFFICES ASSUME HubspotInv, ScanNext PROVE HubspotInv'
  OBVIOUS
<1>1. CASE ExpireLease \/ OutliveLease \/ ScanAges
  BY <1>1, ClockKeepsInv
<1>2. ASSUME NEW r \in Runs, RunStep(r) \/ FailRun(r) \/ CrashRun(r) \/ (\E d \in Deals : CheckFails(r, d))
      PROVE  HubspotInv'
  <2>1. CASE Quiet(r)
    BY <2>1, QuietKeepsInv
  <2>2. CASE FailRun(r) \/ RefusePage(r) \/ RefuseFinish(r)
    BY <2>2, GiveUpKeepsInv
  <2>3. CASE ReadPage(r) \/ BeginGeneration(r) \/ ResumeScan(r) \/ CommitPage(r) \/ FinishScan(r)
    BY <2>3, ReadPageKeepsInv, BeginKeepsInv, ResumeKeepsInv, CommitPageKeepsInv, FinishKeepsInv
  <2> QED
    BY <1>2, <2>1, <2>2, <2>3 DEF RunStep, Quiet
<1> QED
  BY <1>1, <1>2 DEF ScanNext

LEMMA StutterKeepsInv == HubspotInv /\ UNCHANGED vars => HubspotInv'
BY DEF vars, intakeVars, scanVars, HubspotInv, TypeOK, VersionsSound, Reading, ScanInv, RefusalsKnown, AtWork,
   PagesFresh, Held, BehindCursor, Behind, Caught, GoneSound

(***************************************************************************)
(* Theorems.                                                               *)
(***************************************************************************)

\* The inductive invariant of the mirror: readings are no newer than the deals,
\* and the holder of the scan knows what its generation has and lacks.
THEOREM HubspotCorrect == Spec => []HubspotInv
<1>1. Init => HubspotInv
  BY InitInv
<1>2. HubspotInv /\ [Next]_vars => HubspotInv'
  BY IntakeKeepsInv, ScanKeepsInv, StutterKeepsInv DEF Next
<1> QED
  BY <1>1, <1>2, PTL DEF Spec

\* Every table keeps its shape.
THEOREM HubspotTypes == Spec => []TypeOK
<1>1. HubspotInv => TypeOK
  BY DEF HubspotInv
<1> QED
  BY <1>1, HubspotCorrect, PTL

\* Only these steps write the mirror.
LEMMA MirrorWriters ==
  ASSUME HubspotInv, [Next]_vars
  PROVE  \/ mirror' = mirror
         \/ \E h \in Handlers : ApplyDeal(h) \/ \E i \in Ids : ArchiveOnEvent(h, i)
         \/ \E r \in Runs : CommitPage(r) \/ FinishScan(r)
<1>1. CASE IntakeNext
  BY <1>1 DEF IntakeNext, DeleteInHubspot, SaveInHubspot, ReadDeal, HandlerFails, ReplayEvent
<1>2. CASE ScanNext
  BY <1>2 DEF ScanNext, RunStep, StartRun, RefuseRun, BeginGeneration, ResumeScan, ReadPage, RefusePage,
     ListMissing, ConfirmAbsence, CheckFails, StopAsking, RefuseFinish, FailRun, CrashRun, GiveUp,
     ExpireLease, OutliveLease, ScanAges
<1>3. CASE UNCHANGED vars
  BY <1>3 DEF vars
<1> QED
  BY <1>1, <1>2, <1>3 DEF Next

\* The mirrored version of a deal never goes back, whatever order events,
\* redeliveries, replays and pages are read and written in (_stale_source).
THEOREM MirrorNeverGoesBack == Spec => MirrorMovesForward
<1>1. HubspotInv /\ [Next]_vars => [\A d \in Deals : mirror'[d].version >= mirror[d].version]_vars
  <2> SUFFICES ASSUME HubspotInv, [Next]_vars, NEW d \in Deals PROVE mirror'[d].version >= mirror[d].version
    OBVIOUS
  <2>1. mirror[d].version \in Int
    BY DEF HubspotInv, TypeOK, Opportunity, Version
  <2>2. CASE mirror' = mirror
    BY <2>1, <2>2
  <2>3. CASE \E h \in Handlers : ApplyDeal(h)
    BY <2>3, ApplyFacts
  <2>4. ASSUME NEW h \in Handlers, NEW i \in Ids, ArchiveOnEvent(h, i) PROVE mirror'[d].version >= mirror[d].version
    <3>1. mirror' = [mirror EXCEPT ![event[i].deal].archived = Exists(mirror[event[i].deal])]
      BY <2>4 DEF ArchiveOnEvent
    <3>2. mirror'[d].version = mirror[d].version
      BY <3>1 DEF HubspotInv, TypeOK, Opportunity
    <3> QED
      BY <2>1, <3>2
  <2>5. ASSUME NEW r \in Runs, CommitPage(r) PROVE mirror'[d].version >= mirror[d].version
    <3>1. PICK refused \in SUBSET OnPage(r) :
            /\ mirror' = [c \in Deals |-> IF c \in Written(r, refused) THEN Upserted(mirror[c], run[r].page[c]) ELSE mirror[c]]
            /\ touched' = touched \cup Written(r, refused)
      BY <2>5 DEF CommitPage, Written
    <3> QED
      BY <3>1, PageWrites
  <2>6. CASE \E r \in Runs : FinishScan(r)
    BY <2>1, <2>6, FinishFacts
  <2> QED
    BY <2>2, <2>3, <2>4, <2>5, <2>6, MirrorWriters
<1> QED
  BY <1>1, HubspotCorrect, PTL DEF Spec, MirrorMovesForward

\* Only FinishScan records a scan as completed.
LEMMA ScanEnds ==
  ASSUME HubspotInv, [Next]_vars, scan'.phase = "completed"
  PROVE  scan.phase = "completed" \/ \E r \in Runs : FinishScan(r)
<1>0. scan \in Scan
  BY DEF HubspotInv, TypeOK
<1>1. CASE IntakeNext
  BY <1>1 DEF IntakeNext, DeleteInHubspot, SaveInHubspot, ReadDeal, ArchiveOnEvent, ApplyDeal, HandlerFails,
     ReplayEvent, scanVars
<1>2. CASE ExpireLease \/ OutliveLease \/ ScanAges
  BY <1>0, <1>2 DEF ExpireLease, OutliveLease, ScanAges, Scan
<1>3. ASSUME NEW r \in Runs, RunStep(r) \/ FailRun(r) \/ CrashRun(r) \/ (\E d \in Deals : CheckFails(r, d))
      PROVE  scan.phase = "completed" \/ FinishScan(r)
  <2>1. CASE Quiet(r) \/ ReadPage(r)
    <3>1. scan' = scan
      BY <2>1 DEF Quiet, StartRun, RefuseRun, ListMissing, StopAsking, CrashRun, ConfirmAbsence, CheckFails, ReadPage
    <3> QED
      BY <3>1
  <2>2. CASE FailRun(r) \/ RefusePage(r) \/ RefuseFinish(r)
    BY <1>0, <2>2 DEF FailRun, RefusePage, RefuseFinish, GiveUp, Failed, Scan
  <2>3. CASE BeginGeneration(r)
    BY <2>3 DEF BeginGeneration, NoScan
  <2>4. CASE ResumeScan(r)
    <3>1. scan.phase \in Open
      BY <2>4 DEF ResumeScan, Resumable
    <3>2. scan'.phase = IF scan.phase = "failed" THEN "scanning" ELSE scan.phase
      BY <1>0, <2>4 DEF ResumeScan, Scan
    <3> QED
      BY <3>1, <3>2 DEF Open
  <2>5. CASE CommitPage(r)
    <3>1. PICK refused : scan'.phase = IF LastPage(r) THEN "finalizing" ELSE "scanning"
      BY <1>0, <2>5 DEF CommitPage, Scan
    <3> QED
      BY <3>1
  <2> QED
    BY <1>3, <2>1, <2>2, <2>3, <2>4, <2>5 DEF RunStep, Quiet
<1>4. CASE UNCHANGED vars
  BY <1>4 DEF vars, scanVars
<1> QED
  BY <1>1, <1>2, <1>3, <1>4 DEF Next, ScanNext

\* A scan archives a deal only if HubSpot deleted it at the mirrored version or
\* later (_finalize_scan).
THEOREM ScansArchiveDeleted == Spec => ScanArchivesDeleted
<1>1. HubspotInv /\ [Next]_vars =>
        [scan.phase = "finalizing" /\ scan'.phase = "completed" =>
           \A d \in Deals : mirror'[d].archived /\ ~mirror[d].archived => crm[d].deleted >= mirror[d].version]_vars
  <2> SUFFICES ASSUME HubspotInv, [Next]_vars, scan.phase = "finalizing", scan'.phase = "completed",
                      NEW d \in Deals, mirror'[d].archived, ~mirror[d].archived
               PROVE  crm[d].deleted >= mirror[d].version
    OBVIOUS
  <2>1. PICK r \in Runs : FinishScan(r)
    BY ScanEnds
  <2>2. scan.holder = r
    BY <2>1 DEF FinishScan, Owns
  <2>3. d \in run[r].gone /\ d \notin seen \cup touched
    BY <2>1, FinishFacts DEF Untouched
  <2> QED
    BY <2>2, <2>3 DEF HubspotInv, ScanInv, GoneSound
<1> QED
  BY <1>1, HubspotCorrect, PTL DEF Spec, ScanArchivesDeleted

\* A scan recorded as clean has mirrored every deal HubSpot held throughout it,
\* also when several runs shared it (complete_scan, refused_in_open_scan).
THEOREM CleanScansAreFresh == Spec => CleanScanFresh
<1>1. HubspotInv /\ [Next]_vars =>
        [\A r \in Runs :
           scan.holder = r /\ scan'.phase = "completed" /\ scan'.clean /\ ~run[r].overtaken =>
             \A d \in Deals : atStart[d] > crm[d].deleted => mirror'[d].version >= atStart[d]]_vars
  <2> SUFFICES ASSUME HubspotInv, [Next]_vars, NEW r \in Runs, NEW d \in Deals,
                      scan.holder = r, scan'.phase = "completed", scan'.clean, ~run[r].overtaken,
                      atStart[d] > crm[d].deleted
               PROVE  mirror'[d].version >= atStart[d]
    OBVIOUS
  <2>1. scan.phase # "completed"
    BY DealsAssumption DEF HubspotInv, ScanInv, RefusalsKnown
  <2>2. FinishScan(r)
    <3>1. PICK q \in Runs : FinishScan(q)
      BY <2>1, ScanEnds
    <3>2. scan.holder = q
      BY <3>1 DEF FinishScan, Owns
    <3> QED
      BY <3>1, <3>2
  <2>3. AtWork(r) /\ scan.phase = "finalizing"
    BY <2>2 DEF FinishScan, Owns, AtWork
  <2>4. ~run[r].errors /\ mirror'[d].version = mirror[d].version
    BY <2>2, FinishFacts
  <2>5. ~scan.refused
    BY <2>3, <2>4 DEF HubspotInv, ScanInv, RefusalsKnown
  <2>6. Caught(d)
    BY <2>3, <2>5 DEF HubspotInv, ScanInv, BehindCursor, Behind, Held
  <2> QED
    BY <2>4, <2>6 DEF Caught
<1> QED
  BY <1>1, HubspotCorrect, PTL DEF Spec, CleanScanFresh
================================================================================
