------------------------------- MODULE HubspotSync -------------------------------
(***************************************************************************)
(* The mirror under both of its writers, webhooks and scans.               *)
(***************************************************************************)
EXTENDS HubspotIntake, DealScan

Next == IntakeNext \/ ScanNext

Spec == Init /\ [][Next]_vars

\* The scan is scheduled every night, a run that is alive goes on, a lease
\* expires and a scan grows old by the clock.  Nothing is asked of webhooks.
FairSpec ==
  /\ Spec
  /\ \A r \in Runs : WF_vars(RunStep(r))
  /\ WF_vars(ExpireLease) /\ WF_vars(ScanAges)

(***************************************************************************)
(* Properties.                                                             *)
(***************************************************************************)

\* The mirrored version of a deal never goes back, whatever order events,
\* redeliveries, replays and pages are read and written in.
MirrorMovesForward == [][\A d \in Deals : mirror'[d].version >= mirror[d].version]_vars

\* A scan archives a deal only if HubSpot deleted it at the mirrored version or
\* later: a deal restored and mirrored again during the check stays.
ScanArchivesDeleted ==
  [][scan.phase = "finalizing" /\ scan'.phase = "completed" =>
       \A d \in Deals : mirror'[d].archived /\ ~mirror[d].archived => crm[d].deleted >= mirror[d].version]_vars

\* A scan recorded as clean has mirrored every deal HubSpot held throughout it
\* at least at the version the deal had when its generation began, also when
\* several runs shared it.  A run overtaken by a refused record between reading
\* the refusals and taking the lease is left out: the code does not see it.
CleanScanFresh ==
  [][\A r \in Runs :
       scan.holder = r /\ scan'.phase = "completed" /\ scan'.clean /\ ~run[r].overtaken =>
         \A d \in Deals : atStart[d] > crm[d].deleted => mirror'[d].version >= atStart[d]]_vars

\* Once HubSpot is quiet, the mirror comes to hold the last version of every
\* deal HubSpot has, and holds none as live that HubSpot deleted, by the scans
\* alone and through refusals, failures, crashes and expired leases.
Mirrored(d) == IF crm[d].alive THEN mirror[d].version = crm[d].version
               ELSE Exists(mirror[d]) => mirror[d].archived
Converges == <>[](\A d \in Deals : Mirrored(d))

(***************************************************************************)
(* Claims of the documents that the code does not keep.                    *)
(***************************************************************************)

\* "Repeated and out-of-order source events must not [...] undo a newer
\* state": a deal is archived only by a deletion at the mirrored version or
\* later.
ArchivedWasDeleted == \A d \in Deals : mirror[d].archived => crm[d].deleted >= mirror[d].version

\* A failed finalizer refetches its pages and goes on: while HubSpot's cursors
\* are all different, no run ends on a repeated cursor.
NoFalseCycle == \A r \in Runs : run[r].step = "write" /\ Owns(r, {"scanning"}) => ~CursorRepeats(r)

\* "creates the intake task (only when we just created the opportunity [...])":
\* a deal has one intake task.
OneIntakeTask ==
  \A d \in Deals : \A o, q \in Owners : tasks[d][o] > 0 /\ tasks[d][q] > 0 => o = q /\ tasks[d][o] = 1
==================================================================================
