---------------------------- MODULE AgreementBatches ----------------------------
(***************************************************************************)
(* The batch that attaches the standard copies: its start, which sets the  *)
(* cutover the first time, the job in chunks, its undo, and the runners    *)
(* that resume what another left.  The API launches a runner, the minute   *)
(* worker takes a batch whose heartbeat is old, the command line takes any: *)
(* so a batch may have several runners, and each chunk locks its row.      *)
(*                                                                         *)
(* The order of the frozen target list is left open: `left` is the part    *)
(* past the cursor, and done_count is what is not left.                    *)
(***************************************************************************)
EXTENDS AgreementTables

Active == {"running", "undoing"}

\* Fault: no unique index behind the guard.
GuardFree_Unguarded == TRUE

\* running_guard is unique: at most one batch runs or undoes.
GuardFree == \A b \in Batches : batch[b].status \notin Active

(***************************************************************************)
(* start, under the settings row.                                          *)
(***************************************************************************)

\* The plan and the unstamped clients are read before anything is written;
\* the person's choice among those that need a copy is open.  set_at is now.
StartRead(T, K) ==
  /\ ~start.open /\ \A b \in Batches : batch[b].status \notin Active
  /\ T # {} /\ K # {}
  /\ \A c \in T : Live(c) /\ \E k \in K : ~Holds(c, k)
  /\ start' = [open |-> TRUE, kinds |-> K, targets |-> T,
               pending |-> IF cutover THEN {} ELSE {c \in Clients : Live(c) /\ client[c].rel = "none"}]
  /\ UNCHANGED <<peopleVars, cutover, batch, runner, hubVars, budget>>

\* _stamp_relationships locks the clients and passes over who was stamped
\* meanwhile.
StillUnstamped(c) == c \in start.pending /\ Live(c) /\ client[c].rel = "none"

StartCommit(b) ==
  /\ start.open /\ GuardFree
  /\ batch[b] = NoBatch /\ \A a \in 1..(b - 1) : batch[a] # NoBatch
  /\ batch' = [batch EXCEPT ![b] = [NoBatch EXCEPT
       !.status = "running", !.kinds = start.kinds, !.targets = start.targets, !.left = start.targets]]
  /\ cutover' = TRUE
  /\ client' = [c \in Clients |->
       IF StillUnstamped(c) THEN [client[c] EXCEPT !.rel = "rule"] ELSE client[c]]
  /\ start' = NoStart
  /\ UNCHANGED <<doc, mark, runner, hubVars, budget>>

\* The guard conflicts, or the request fails: it rolls back.
StartFails ==
  /\ start.open
  /\ start' = NoStart
  /\ UNCHANGED <<peopleVars, cutover, batch, runner, hubVars, budget>>

StartUndo(b) ==
  /\ batch[b].status \in {"done", "failed"} /\ GuardFree
  /\ batch' = [batch EXCEPT ![b].status = "undoing"]
  /\ UNCHANGED <<peopleVars, cutover, start, runner, hubVars, budget>>

(***************************************************************************)
(* Runners.                                                                *)
(***************************************************************************)
SetRunner(r, state) == runner' = [runner EXCEPT ![r] = state]
On(r) == runner[r].batch

\* The batch's row lock: only an undo chunk is more than one step.
RowFree(b) == \A r \in Runners : runner[r].step = "remove" => runner[r].batch # b

\* Fault: only a run is resumed.
Resumable_Runs(b) == batch[b].status = "running"

Resumable(b) == batch[b].status \in Active

TakeBatch(r, b) ==
  /\ runner[r] = Idle /\ Resumable(b)
  /\ SetRunner(r, [Idle EXCEPT !.step = IF batch[b].status = "running" THEN "run" ELSE "undo", !.batch = b])
  /\ UNCHANGED <<peopleVars, cutover, start, batch, hubVars, budget>>

\* Pairs of the chunk that get a copy: the client still exists and, read under
\* its lock, holds nothing of the kind.
Receiving(b, S) == {p \in S \X batch[b].kinds : Live(p[1]) /\ ~Holds(p[1], p[2])}

\* Fault: the cursor is one off at the end of the list.
PastCursor_OneOff(b, S) == IF Cardinality(batch[b].left) <= Chunk + 1 THEN {} ELSE batch[b].left \ S

PastCursor(b, S) == batch[b].left \ S

RunChunk(r) ==
  LET b == On(r) IN
  /\ runner[r].step = "run" /\ RowFree(b)
  /\ batch[b].status = "running" /\ batch[b].left # {}
  /\ \E S \in ChunksOf(batch[b].left) :
       LET got == Receiving(b, S) IN
       /\ doc' = [c \in Clients |-> [k \in Kinds |->
            IF <<c, k>> \in got THEN [source |-> "standard", batch |-> b] ELSE doc[c][k]]]
       /\ batch' = [batch EXCEPT ![b].left = PastCursor(b, S),
            ![b].attached = @ + Cardinality(got),
            ![b].skipped = @ + Cardinality(S \X batch[b].kinds) - Cardinality(got)]
  /\ UNCHANGED <<client, mark, cutover, start, runner, hubVars, budget>>

FinishRun(r) ==
  LET b == On(r) IN
  /\ runner[r].step = "run" /\ RowFree(b)
  /\ batch[b].status = "running" /\ batch[b].left = {}
  /\ batch' = [batch EXCEPT ![b].status = "done"]
  /\ SetRunner(r, Idle)
  /\ UNCHANGED <<peopleVars, cutover, start, hubVars, budget>>

CopiesOf(b) == {p \in Clients \X Kinds : doc[p[1]][p[2]] = [source |-> "standard", batch |-> b]}
HoldersOf(b) == {p[1] : p \in CopiesOf(b)}

\* run_undo picks the chunk's clients, and _undo_chunk then locks them.
ReadHolders(r) ==
  LET b == On(r) IN
  /\ runner[r].step = "undo" /\ RowFree(b)
  /\ batch[b].status = "undoing" /\ HoldersOf(b) # {}
  /\ \E S \in ChunksOf(HoldersOf(b)) : SetRunner(r, [runner[r] EXCEPT !.step = "remove", !.chunk = S])
  /\ UNCHANGED <<peopleVars, cutover, start, batch, hubVars, budget>>

\* Fault: everything the chunk's clients hold is removed.
Removed_Any(b, S) == {p \in S \X Kinds : doc[p[1]][p[2]] # NoDoc}

\* The batch's rows of the clients that were picked, read under their locks.
Removed(b, S) == {p \in CopiesOf(b) : p[1] \in S}

RemoveCopies(r) ==
  LET b == On(r)
      gone == Removed(b, runner[r].chunk)
  IN
  /\ runner[r].step = "remove"
  /\ doc' = [c \in Clients |-> [k \in Kinds |-> IF <<c, k>> \in gone THEN NoDoc ELSE doc[c][k]]]
  /\ batch' = [batch EXCEPT ![b].undone = @ + Cardinality(gone)]
  /\ SetRunner(r, [runner[r] EXCEPT !.step = "undo", !.chunk = {}])
  /\ UNCHANGED <<client, mark, cutover, start, hubVars, budget>>

\* Fault: the undo ends with the batch's last chunk.
Emptied_Picked(b) == batch[b].undone > 0 \/ HoldersOf(b) = {}

Emptied(b) == HoldersOf(b) = {}

FinishUndo(r) ==
  LET b == On(r) IN
  /\ runner[r].step = "undo" /\ RowFree(b)
  /\ batch[b].status = "undoing" /\ Emptied(b)
  /\ batch' = [batch EXCEPT ![b].status = "undone"]
  /\ SetRunner(r, Idle)
  /\ UNCHANGED <<peopleVars, cutover, start, hubVars, budget>>

\* Another runner ended the batch, or it is in its other phase.
StopRunner(r) ==
  /\ \/ runner[r].step = "run" /\ batch[On(r)].status # "running"
     \/ runner[r].step = "undo" /\ batch[On(r)].status # "undoing"
  /\ RowFree(On(r))
  /\ SetRunner(r, Idle)
  /\ UNCHANGED <<peopleVars, cutover, start, batch, hubVars, budget>>

Mishap ==
  /\ budget.kills < MaxKills
  /\ budget' = [budget EXCEPT !.kills = @ + 1]

\* A chunk raises and rolls back; the failure is recorded in a transaction of
\* its own.
ChunkFails(r) ==
  /\ runner[r].step \in {"run", "undo", "remove"} /\ Mishap
  /\ SetRunner(r, [runner[r] EXCEPT !.step = "fail", !.chunk = {}])
  /\ UNCHANGED <<peopleVars, cutover, start, batch, hubVars>>

\* _fail: whichever phase the batch is in by now.
RecordFailure(r) ==
  /\ runner[r].step = "fail" /\ RowFree(On(r))
  /\ batch' = IF batch[On(r)].status \in Active THEN [batch EXCEPT ![On(r)].status = "failed"] ELSE batch
  /\ SetRunner(r, Idle)
  /\ UNCHANGED <<peopleVars, cutover, start, hubVars, budget>>

\* The process dies, or _fail fails: the batch stays as it is.
KillRunner(r) ==
  /\ runner[r] # Idle /\ Mishap
  /\ SetRunner(r, Idle)
  /\ UNCHANGED <<peopleVars, cutover, start, batch, hubVars>>

RunnerStep(r) ==
  \/ RunChunk(r) \/ FinishRun(r) \/ ReadHolders(r) \/ RemoveCopies(r) \/ FinishUndo(r)
  \/ StopRunner(r) \/ RecordFailure(r)

BatchNext ==
  \/ \E T \in SUBSET Clients, K \in SUBSET Kinds : StartRead(T, K)
  \/ StartFails
  \/ \E b \in Batches : StartCommit(b) \/ StartUndo(b)
  \/ \E r \in Runners :
       RunnerStep(r) \/ ChunkFails(r) \/ KillRunner(r) \/ \E b \in Batches : TakeBatch(r, b)
==================================================================================
