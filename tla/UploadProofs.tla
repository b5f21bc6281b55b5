------------------------------ MODULE UploadProofs ------------------------------
(***************************************************************************)
(* Proofs about UploadJobs, for every number of files, requests and SOWs.  *)
(*                                                                         *)
(* What an upload decides from the SOWs it saw is safe because the job's   *)
(* row is held from before that look to the commit: no other upload and no *)
(* pick of the same bytes commits in between.  OneHolder states the lock,  *)
(* LookStillHolds what the look was worth.                                 *)
(***************************************************************************)
EXTENDS UploadJobs, TLAPS

\* The request has written the job's row and not committed.
Holds(q) == q.via \in Ways /\ q.step \in {"write", "resolved"}

\* One request at most holds a file's row.
OneHolder == \A p, q \in requests : p.file = q.file /\ Holds(p) /\ Holds(q) => p = q

\* A request that will file, or ask for, the first SOW of its bytes is still the
\* first; one that names its deal never asks.
LookStillHolds ==
  \A q \in requests :
    /\ q.step = "resolved" /\ q.via = "matched" /\ q.result \in {"create", "pick"}
         => FiledByMatch(q.file) = {}
    /\ q.step = "resolved" /\ q.result = "pick" => q.via = "matched"
    /\ q.via \in {"matched", "bound"} => q.via \in Ways
    /\ q.via = "import" => q.step = "resolved"
    /\ q.via = "pick" => q.step = "read"

UploadInv == TypeOK /\ OneHolder /\ LookStillHolds /\ UploadedOnce

-----------------------------------------------------------------------------
(***************************************************************************)
(* Types.                                                                  *)
(***************************************************************************)

LEMMA OpenedTyped ==
  ASSUME TypeOK, NEW f \in Files, NEW via \in {"matched", "bound", "pick", "import"},
         NEW step \in {"read", "write", "resolved"},
         NEW result \in {"none", "fail", "pick", "create", "duplicate"}
  PROVE  Opened(f, via, step, result) \in Request
BY SMT DEF TypeOK, Opened, Request, Job, SowArchived

LEMMA NewSowTyped ==
  ASSUME TypeOK, NEW q \in Request
  PROVE  NewSow(q) \in Sow
BY SMT DEF TypeOK, NewSow, Sow, Request

LEMMA OutcomeTyped ==
  ASSUME NEW q \in Request, NEW status \in {"needs_pick", "failed", "done"}, NEW n \in Nat
  PROVE  Outcome(q, status, n) \in Job
BY SMT DEF Outcome, Row, Job, Request

LEMMA KeptTyped ==
  ASSUME TypeOK, NEW q \in requests
  PROVE  /\ KeptSow(q) \in Nat
         /\ KeptSow(q) # 0 => \E n \in Filed(q.file) : n.id = KeptSow(q)
BY SMT DEF TypeOK, KeptSow, Job, Request

LEMMA AnswerDuplicateTyped ==
  ASSUME TypeOK, NEW f \in Files, AnswerDuplicate(f)
  PROVE  TypeOK'
BY DEF TypeOK, AnswerDuplicate, Job, Filed

LEMMA AnswerDuplicateKeeps ==
  ASSUME UploadInv, NEW f \in Files, AnswerDuplicate(f)
  PROVE  OneHolder' /\ LookStillHolds' /\ UploadedOnce'
BY DEF UploadInv, OneHolder, LookStillHolds, UploadedOnce, FiledByMatch, AnswerDuplicate, Filed

LEMMA ReadHashTyped ==
  ASSUME TypeOK, NEW f \in Files, NEW way \in Ways, ReadHash(f, way)
  PROVE  TypeOK'
BY OpenedTyped, UploadAssumption DEF TypeOK, ReadHash, Begin, Filed, Request

LEMMA ReadHashKeeps ==
  ASSUME UploadInv, NEW f \in Files, NEW way \in Ways, ReadHash(f, way)
  PROVE  OneHolder' /\ LookStillHolds' /\ UploadedOnce'
BY UploadAssumption DEF UploadInv, OneHolder, LookStillHolds, UploadedOnce, Holds, FiledByMatch,
      ReadHash, Begin, Filed, Opened

LEMMA TakeRowTyped ==
  ASSUME TypeOK, NEW q \in requests, TakeRow(q)
  PROVE  TypeOK'
BY DEF TypeOK, TakeRow, Advance, Filed, Request

LEMMA TakeRowKeeps ==
  ASSUME UploadInv, NEW q \in requests, TakeRow(q)
  PROVE  OneHolder' /\ LookStillHolds' /\ UploadedOnce'
BY UploadAssumption DEF UploadInv, TypeOK, OneHolder, LookStillHolds, UploadedOnce, Holds,
      FiledByMatch, TakeRow, Advance, Locked, Filed, Request

LEMMA CreateTyped ==
  ASSUME TypeOK, NEW q \in requests, Create(q)
  PROVE  /\ sows' \subseteq Sow /\ made' \in Nat
         /\ sows \subseteq sows' /\ NewSow(q) \in sows'
         /\ NewSow(q).id = made + 1 /\ NewSow(q).file = q.file
         /\ \A n \in sows' : n.id <= made'
<1>1. NewSow(q) \in Sow BY NewSowTyped DEF TypeOK
<1>2. NewSow(q).id = made + 1 /\ NewSow(q).file = q.file BY DEF NewSow
<1>3. \A n \in sows : n.id \in Nat /\ n.id <= made BY DEF TypeOK, Sow
<1> QED BY <1>1, <1>2, <1>3 DEF TypeOK, Create

LEMMA JobTyped ==
  ASSUME TypeOK, NEW q \in requests, NEW j \in Job, job' = [job EXCEPT ![q.file] = j],
         sows \subseteq sows', j.sow # 0 => \E n \in sows' : n.file = q.file /\ n.id = j.sow
  PROVE  /\ job' \in [Files -> Job]
         /\ \A f \in Files : job'[f].sow # 0 => \E n \in Filed(f)' : n.id = job'[f].sow
<1>1. q.file \in Files BY DEF TypeOK, Request
<1>2. job' \in [Files -> Job] BY <1>1 DEF TypeOK
<1>3. ASSUME NEW f \in Files, job'[f].sow # 0
      PROVE  \E n \in Filed(f)' : n.id = job'[f].sow
  <2>1. CASE f = q.file BY <1>1, <1>3, <2>1 DEF TypeOK, Filed
  <2>2. CASE f # q.file BY <1>1, <1>3, <2>2 DEF TypeOK, Filed
  <2> QED BY <2>1, <2>2
<1> QED BY <1>2, <1>3

LEMMA LeaveTyped ==
  ASSUME TypeOK, NEW q, Leave(q)
  PROVE  requests' \subseteq Request
BY DEF TypeOK, Leave

LEMMA StorageFailsTyped ==
  ASSUME TypeOK, NEW q \in requests, StorageFails(q)
  PROVE  TypeOK'
<1> DEFINE j == Outcome(q, "failed", KeptSow(q))
<1>1. q \in Request BY DEF TypeOK
<1>2. j \in Job BY <1>1, OutcomeTyped, KeptTyped
<1>3. j.sow = KeptSow(q) BY DEF Outcome
<1>4. j.sow # 0 => \E n \in sows' : n.file = q.file /\ n.id = j.sow
  BY <1>3, KeptTyped DEF StorageFails, Filed
<1>5. job' = [job EXCEPT ![q.file] = j] /\ sows' = sows /\ Leave(q) BY DEF StorageFails
<1>6. /\ job' \in [Files -> Job]
      /\ \A f \in Files : job'[f].sow # 0 => \E n \in Filed(f)' : n.id = job'[f].sow
  BY <1>2, <1>4, <1>5, JobTyped
<1> QED BY <1>5, <1>6, LeaveTyped DEF TypeOK, StorageFails

LEMMA StorageFailsKeeps ==
  ASSUME UploadInv, NEW q \in requests, StorageFails(q)
  PROVE  OneHolder' /\ LookStillHolds' /\ UploadedOnce'
BY DEF UploadInv, OneHolder, LookStillHolds, UploadedOnce, FiledByMatch, StorageFails, Leave,
      Filed, Outcome

LEMMA AdvanceTyped ==
  ASSUME TypeOK, NEW q \in requests, NEW r \in Request, Advance(q, r)
  PROVE  requests' \subseteq Request
BY DEF TypeOK, Advance

LEMMA ResolveTyped ==
  ASSUME TypeOK, NEW q \in requests, Resolve(q)
  PROVE  TypeOK'
<1>1. q \in Request BY DEF TypeOK
<1>2. \E r \in Request : Advance(q, r)
  <2>1. CASE \E n \in KnownSows(q) :
               Advance(q, [q EXCEPT !.step = "resolved", !.result = "duplicate", !.sow = n.id])
    <3>1. PICK n \in KnownSows(q) :
            Advance(q, [q EXCEPT !.step = "resolved", !.result = "duplicate", !.sow = n.id])
      BY <2>1
    <3>2. n.id \in Nat BY DEF KnownSows, Filed, TypeOK, Sow
    <3>3. [q EXCEPT !.step = "resolved", !.result = "duplicate", !.sow = n.id] \in Request
      BY <1>1, <3>2 DEF Request
    <3> QED BY <3>1, <3>3
  <2>2. CASE \E result \in {"fail", "create", "pick"} :
               Advance(q, [q EXCEPT !.step = "resolved", !.result = result])
    <3>1. PICK result \in {"fail", "create", "pick"} :
            Advance(q, [q EXCEPT !.step = "resolved", !.result = result])
      BY <2>2
    <3>2. [q EXCEPT !.step = "resolved", !.result = result] \in Request BY <1>1 DEF Request
    <3> QED BY <3>1, <3>2
  <2> QED BY <2>1, <2>2 DEF Resolve
<1>3. requests' \subseteq Request BY <1>2, AdvanceTyped
<1> QED BY <1>3 DEF TypeOK, Resolve, Filed

\* What a request does to the others: it leaves, or goes on as r.
LEMMA AdvanceHolds ==
  ASSUME OneHolder, NEW q \in requests, NEW r, Advance(q, r), r.file = q.file, Holds(q)
  PROVE  OneHolder'
BY DEF OneHolder, Advance, Holds

LEMMA LeaveHolds ==
  ASSUME OneHolder, NEW q \in requests, Leave(q)
  PROVE  OneHolder'
BY DEF OneHolder, Leave, Holds

LEMMA ResolveKeeps ==
  ASSUME UploadInv, NEW q \in requests, Resolve(q)
  PROVE  OneHolder' /\ LookStillHolds' /\ UploadedOnce'
<1>1. q \in Request BY DEF UploadInv, TypeOK
<1>2. Holds(q) /\ UNCHANGED <<job, sows, begun, made>> BY DEF Holds, Resolve
<1>3. UploadedOnce' BY <1>2 DEF UploadInv, UploadedOnce, FiledByMatch, Filed
<1>4. ASSUME NEW r \in Request, Advance(q, r), r.file = q.file, r.via = q.via, r.step = "resolved",
             r.via = "matched" /\ r.result \in {"create", "pick"} => FiledByMatch(q.file) = {},
             r.result = "pick" => r.via = "matched"
      PROVE  OneHolder' /\ LookStillHolds'
  <2>1. OneHolder' BY <1>2, <1>4, AdvanceHolds DEF UploadInv
  <2>2. \A p \in requests' : p \in requests \/ p = r BY <1>4 DEF Advance
  <2>3. \A f : FiledByMatch(f)' = FiledByMatch(f) BY <1>2 DEF FiledByMatch, Filed
  <2>4. q.via \in Ways /\ q.via \in {"matched", "bound"} BY UploadAssumption DEF Resolve
  <2>5. LookStillHolds' BY <1>4, <2>2, <2>3, <2>4 DEF UploadInv, LookStillHolds
  <2> QED BY <2>1, <2>5
<1>5. CASE \E n \in KnownSows(q) :
             Advance(q, [q EXCEPT !.step = "resolved", !.result = "duplicate", !.sow = n.id])
  <2>1. PICK n \in KnownSows(q) :
          Advance(q, [q EXCEPT !.step = "resolved", !.result = "duplicate", !.sow = n.id])
    BY <1>5
  <2> DEFINE r == [q EXCEPT !.step = "resolved", !.result = "duplicate", !.sow = n.id]
  <2>2. n.id \in Nat BY DEF KnownSows, Filed, UploadInv, TypeOK, Sow
  <2>3. /\ r \in Request /\ r.file = q.file /\ r.via = q.via
        /\ r.step = "resolved" /\ r.result = "duplicate"
    BY <1>1, <2>2 DEF Request
  <2>4. Advance(q, r) BY <2>1
  <2> HIDE DEF r
  <2> QED BY <1>3, <1>4, <2>3, <2>4
<1>6. CASE /\ KnownSows(q) = {}
           /\ \E result \in {"fail", "create"} \cup (IF q.via = "bound" THEN {} ELSE {"pick"}) :
                Advance(q, [q EXCEPT !.step = "resolved", !.result = result])
  <2>1. PICK result \in {"fail", "create"} \cup (IF q.via = "bound" THEN {} ELSE {"pick"}) :
          Advance(q, [q EXCEPT !.step = "resolved", !.result = result])
    BY <1>6
  <2> DEFINE r == [q EXCEPT !.step = "resolved", !.result = result]
  <2>2. q.via \in {"matched", "bound"} BY UploadAssumption DEF Resolve
  <2>3. /\ r \in Request /\ r.file = q.file /\ r.via = q.via
        /\ r.step = "resolved" /\ r.result = result
    BY <1>1, <2>1 DEF Request
  <2>4. q.via = "matched" => FiledByMatch(q.file) = {}
    BY <1>6 DEF KnownSows, FiledByMatch
  <2>5. result = "pick" => q.via = "matched" BY <2>1, <2>2
  <2>6. Advance(q, r) BY <2>1
  <2> HIDE DEF r
  <2> QED BY <1>3, <1>4, <2>3, <2>4, <2>5, <2>6
<1> QED BY <1>3, <1>5, <1>6 DEF Resolve

LEMMA FinishTyped ==
  ASSUME TypeOK, NEW q \in requests, Finish(q)
  PROVE  TypeOK'
<1> USE DEF TypeOK
<1>1. q \in Request OBVIOUS
<1>2. requests' \subseteq Request /\ begun' = begun BY LeaveTyped DEF Finish
<1>3. CASE q.result = "create" /\ Create(q) /\ job' = [job EXCEPT ![q.file] = Outcome(q, "done", made + 1)]
  <2> DEFINE j == Outcome(q, "done", made + 1)
  <2>1. j \in Job BY <1>1, OutcomeTyped
  <2>2. j.sow = made + 1 BY DEF Outcome
  <2>3. \E n \in sows' : n.file = q.file /\ n.id = j.sow BY <1>3, <2>2, CreateTyped
  <2>4. /\ job' \in [Files -> Job]
        /\ \A f \in Files : job'[f].sow # 0 => \E n \in Filed(f)' : n.id = job'[f].sow
    BY <1>3, <2>1, <2>3, CreateTyped, JobTyped
  <2> QED BY <1>2, <1>3, <2>4, CreateTyped
<1>4. CASE /\ q.result = "duplicate" /\ \E n \in Filed(q.file) : n.id = q.sow
           /\ job' = [job EXCEPT ![q.file] = Outcome(q, "done", q.sow)]
           /\ UNCHANGED <<sows, made>>
  <2> DEFINE j == Outcome(q, "done", q.sow)
  <2>1. j \in Job BY <1>1, OutcomeTyped DEF Request
  <2>2. j.sow = q.sow BY DEF Outcome
  <2>3. \E n \in sows' : n.file = q.file /\ n.id = j.sow BY <1>4, <2>2 DEF Filed
  <2>4. /\ job' \in [Files -> Job]
        /\ \A f \in Files : job'[f].sow # 0 => \E n \in Filed(f)' : n.id = job'[f].sow
    BY <1>4, <2>1, <2>3, JobTyped
  <2> QED BY <1>2, <1>4, <2>4 DEF Filed
<1>5. CASE /\ q.result \in {"pick", "fail"}
           /\ job' = [job EXCEPT ![q.file] =
                Outcome(q, IF q.result = "pick" THEN "needs_pick" ELSE "failed", KeptSow(q))]
           /\ UNCHANGED <<sows, made>>
  <2> DEFINE status == IF q.result = "pick" THEN "needs_pick" ELSE "failed"
             j == Outcome(q, status, KeptSow(q))
  <2>1. j \in Job BY <1>1, OutcomeTyped, KeptTyped
  <2>2. j.sow = KeptSow(q) BY DEF Outcome
  <2>3. j.sow # 0 => \E n \in sows' : n.file = q.file /\ n.id = j.sow
    BY <1>5, <2>2, KeptTyped DEF Filed
  <2>4. /\ job' \in [Files -> Job]
        /\ \A f \in Files : job'[f].sow # 0 => \E n \in Filed(f)' : n.id = job'[f].sow
    BY <1>5, <2>1, <2>3, JobTyped
  <2> QED BY <1>2, <1>5, <2>4 DEF Filed
<1> QED BY <1>3, <1>4, <1>5 DEF Finish

\* Whoever commits while it holds the row leaves no other request holding it, so
\* the looks of other files' requests stand.
LEMMA CommitKeepsLooks ==
  ASSUME UploadInv, NEW q \in requests, Holds(q) \/ ~Locked(q.file), Leave(q),
         \A f : f # q.file => FiledByMatch(f)' = FiledByMatch(f)
  PROVE  LookStillHolds'
<1>1. \A p \in requests' : p \in requests /\ p # q BY DEF Leave
<1>2. ASSUME NEW p \in requests', p.step = "resolved", p.via = "matched"
      PROVE  p.file # q.file
  <2>1. p \in requests /\ p # q /\ Holds(p)
    BY <1>1, <1>2 DEF UploadInv, LookStillHolds, Holds
  <2> QED BY <2>1 DEF UploadInv, OneHolder, Locked, Holds
<1> QED BY <1>1, <1>2 DEF UploadInv, LookStillHolds

LEMMA CreateFiles ==
  ASSUME NEW q, Create(q)
  PROVE  /\ \A f : f # q.file => FiledByMatch(f)' = FiledByMatch(f)
         /\ FiledByMatch(q.file) = {} => \A m, n \in FiledByMatch(q.file)' : m = n
         /\ q.via \notin {"matched", "pick"} => FiledByMatch(q.file)' = FiledByMatch(q.file)
<1> DEFINE a == NewSow(q)
<1>1. a.file = q.file /\ a.via = q.via /\ sows' = sows \cup {a} BY DEF Create, NewSow
<1> HIDE DEF a
<1>2. \A f : FiledByMatch(f) \subseteq FiledByMatch(f)' /\ FiledByMatch(f)' \subseteq FiledByMatch(f) \cup {a}
  BY <1>1 DEF FiledByMatch, Filed
<1>3. \A f : a \in FiledByMatch(f)' => f = q.file /\ q.via \in {"matched", "pick"}
  BY <1>1 DEF FiledByMatch, Filed
<1>4. ASSUME NEW f, a \notin FiledByMatch(f)' PROVE FiledByMatch(f)' = FiledByMatch(f)
  BY <1>2, <1>4
<1> QED BY <1>2, <1>3, <1>4

LEMMA FinishKeeps ==
  ASSUME UploadInv, NEW q \in requests, Finish(q)
  PROVE  OneHolder' /\ LookStillHolds' /\ UploadedOnce'
<1>1. Holds(q) /\ Leave(q) BY DEF Finish, Holds
<1>2. OneHolder' BY <1>1, LeaveHolds DEF UploadInv
<1>3. q.file \in Files /\ q.via \in {"matched", "bound"}
  BY UploadAssumption DEF UploadInv, TypeOK, Request, Finish
<1>4. \A f : f # q.file => FiledByMatch(f)' = FiledByMatch(f)
  BY CreateFiles DEF Finish, FiledByMatch, Filed
<1>5. LookStillHolds' BY <1>1, <1>4, CommitKeepsLooks
<1>6. \A m, n \in FiledByMatch(q.file)' : m = n
  <2>1. CASE q.result = "create" /\ Create(q)
    BY <1>3, <2>1, CreateFiles DEF Finish, UploadInv, LookStillHolds, UploadedOnce
  <2>2. CASE UNCHANGED sows BY <1>3, <2>2 DEF UploadInv, UploadedOnce, FiledByMatch, Filed
  <2> QED BY <2>1, <2>2 DEF Finish
<1>7. job'[q.file].status = "needs_pick" => FiledByMatch(q.file)' = {}
  BY <1>3 DEF Finish, Outcome, UploadInv, TypeOK, LookStillHolds, FiledByMatch, Filed
<1>8. \A f \in Files : f # q.file => job'[f] = job[f]
  BY <1>3 DEF Finish, UploadInv, TypeOK
<1>9. UploadedOnce' BY <1>3, <1>4, <1>6, <1>7, <1>8 DEF UploadInv, UploadedOnce
<1> QED BY <1>2, <1>5, <1>9

LEMMA AbortTyped ==
  ASSUME TypeOK, NEW q \in requests, Abort(q)
  PROVE  TypeOK'
BY DEF TypeOK, Abort, Leave, Filed

LEMMA AbortKeeps ==
  ASSUME UploadInv, NEW q \in requests, Abort(q)
  PROVE  OneHolder' /\ LookStillHolds' /\ UploadedOnce'
BY DEF UploadInv, OneHolder, LookStillHolds, UploadedOnce, FiledByMatch, Abort, Leave, Filed

LEMMA PickReadTyped ==
  ASSUME TypeOK, NEW f \in Files, PickRead(f)
  PROVE  TypeOK'
BY OpenedTyped DEF TypeOK, PickRead, Begin, Filed, Request

LEMMA PickReadKeeps ==
  ASSUME UploadInv, NEW f \in Files, PickRead(f)
  PROVE  OneHolder' /\ LookStillHolds' /\ UploadedOnce'
BY DEF UploadInv, OneHolder, LookStillHolds, UploadedOnce, Holds, FiledByMatch, PickRead, Begin,
      Filed, Opened

LEMMA PickTyped ==
  ASSUME TypeOK, NEW q \in requests, Pick(q)
  PROVE  TypeOK'
<1> DEFINE j == [job[q.file] EXCEPT !.status = "done", !.sow = made + 1]
<1>1. job[q.file] \in Job /\ made + 1 \in Nat BY DEF TypeOK, Request
<1>2. j \in Job /\ j.sow = made + 1 BY <1>1 DEF Job
<1>3. job' = [job EXCEPT ![q.file] = j] /\ Create(q) /\ Leave(q) /\ begun' = begun
  BY <1>1 DEF Pick, TypeOK, Request
<1>4. \E n \in sows' : n.file = q.file /\ n.id = j.sow BY <1>2, <1>3, CreateTyped
<1>5. /\ job' \in [Files -> Job]
      /\ \A f \in Files : job'[f].sow # 0 => \E n \in Filed(f)' : n.id = job'[f].sow
  BY <1>2, <1>3, <1>4, CreateTyped, JobTyped
<1> QED BY <1>3, <1>5, CreateTyped, LeaveTyped DEF TypeOK

LEMMA PickKeeps ==
  ASSUME UploadInv, NEW q \in requests, Pick(q)
  PROVE  OneHolder' /\ LookStillHolds' /\ UploadedOnce'
<1>1. ~Locked(q.file) /\ Leave(q) /\ Create(q) /\ job[q.file].status = "needs_pick"
  BY DEF Pick, StillWaits
<1>2. OneHolder' BY <1>1, LeaveHolds DEF UploadInv
<1>3. q.file \in Files BY DEF UploadInv, TypeOK, Request
<1>4. \A f : f # q.file => FiledByMatch(f)' = FiledByMatch(f) BY <1>1, CreateFiles
<1>5. LookStillHolds' BY <1>1, <1>4, CommitKeepsLooks
<1>6. \A m, n \in FiledByMatch(q.file)' : m = n
  BY <1>1, <1>3, CreateFiles DEF UploadInv, UploadedOnce
<1>7. job'[q.file].status = "done" BY <1>3 DEF Pick, UploadInv, TypeOK, Job
<1>8. \A f \in Files : f # q.file => job'[f] = job[f] BY <1>3 DEF Pick, UploadInv, TypeOK
<1>9. UploadedOnce' BY <1>3, <1>4, <1>6, <1>7, <1>8 DEF UploadInv, UploadedOnce
<1> QED BY <1>2, <1>5, <1>9

LEMMA ImportReadTyped ==
  ASSUME TypeOK, NEW f \in Files, ImportRead(f)
  PROVE  TypeOK'
BY OpenedTyped DEF TypeOK, ImportRead, Begin, Filed, Request

LEMMA ImportReadKeeps ==
  ASSUME UploadInv, NEW f \in Files, ImportRead(f)
  PROVE  OneHolder' /\ LookStillHolds' /\ UploadedOnce'
BY UploadAssumption DEF UploadInv, OneHolder, LookStillHolds, UploadedOnce, Holds, FiledByMatch,
      ImportRead, Begin, Filed, Opened

LEMMA ImportCommitTyped ==
  ASSUME TypeOK, NEW q \in requests, ImportCommit(q)
  PROVE  TypeOK'
BY CreateTyped, LeaveTyped DEF TypeOK, ImportCommit, Filed

LEMMA ImportCommitKeeps ==
  ASSUME UploadInv, NEW q \in requests, ImportCommit(q)
  PROVE  OneHolder' /\ LookStillHolds' /\ UploadedOnce'
BY DEF UploadInv, OneHolder, LookStillHolds, UploadedOnce, FiledByMatch, ImportCommit, Leave,
      Create, Filed, NewSow

LEMMA ArchivedSame ==
  ASSUME TypeOK, NEW n \in sows, Archive(n)
  PROVE  \E a \in Sow : /\ a.id = n.id /\ a.file = n.file /\ a.via = n.via
                        /\ sows' = (sows \ {n}) \cup {a}
<1> DEFINE a == [n EXCEPT !.archived = TRUE]
<1>1. n \in Sow BY DEF TypeOK
<1>2. a \in Sow /\ a.id = n.id /\ a.file = n.file /\ a.via = n.via BY <1>1 DEF Sow
<1> QED BY <1>2 DEF Archive

LEMMA ArchiveTyped ==
  ASSUME TypeOK, NEW n \in sows, Archive(n)
  PROVE  TypeOK'
<1>1. PICK a \in Sow : /\ a.id = n.id /\ a.file = n.file /\ a.via = n.via
                       /\ sows' = (sows \ {n}) \cup {a}
  BY ArchivedSame
<1>2. ASSUME NEW f \in Files, job[f].sow # 0
      PROVE  \E m \in Filed(f)' : m.id = job[f].sow
  <2>1. PICK m \in Filed(f) : m.id = job[f].sow BY <1>2 DEF TypeOK
  <2>2. CASE m = n BY <1>1, <2>1, <2>2 DEF Filed
  <2>3. CASE m # n BY <1>1, <2>1, <2>3 DEF Filed
  <2> QED BY <2>2, <2>3
<1>3. UNCHANGED <<job, requests, begun, made>> BY DEF Archive
<1> QED BY <1>1, <1>2, <1>3 DEF TypeOK

LEMMA ArchiveKeeps ==
  ASSUME UploadInv, NEW n \in sows, Archive(n)
  PROVE  OneHolder' /\ LookStillHolds' /\ UploadedOnce'
<1>1. PICK a \in Sow : /\ a.id = n.id /\ a.file = n.file /\ a.via = n.via
                       /\ sows' = (sows \ {n}) \cup {a}
  BY ArchivedSame DEF UploadInv
<1>2. UNCHANGED <<job, requests, begun, made>> BY DEF Archive
<1>3. \A f : FiledByMatch(f) = {} => FiledByMatch(f)' = {}
  BY <1>1 DEF FiledByMatch, Filed
<1>4. ASSUME NEW f \in Files, \A m, k \in FiledByMatch(f) : m = k
      PROVE  \A m, k \in FiledByMatch(f)' : m = k
  <2>1. FiledByMatch(f)' \subseteq (FiledByMatch(f) \ {n}) \cup {a}
    BY <1>1 DEF FiledByMatch, Filed
  <2>2. a \in FiledByMatch(f)' => n \in FiledByMatch(f)
    BY <1>1 DEF FiledByMatch, Filed
  <2> QED BY <1>4, <2>1, <2>2
<1> QED BY <1>2, <1>3, <1>4 DEF UploadInv, OneHolder, Holds, LookStillHolds, UploadedOnce

LEMMA DeleteTyped ==
  ASSUME TypeOK, NEW n \in sows, Delete(n)
  PROVE  TypeOK'
BY DEF TypeOK, Delete, NoJob, Job, Filed, Sow

LEMMA DeleteKeeps ==
  ASSUME UploadInv, NEW n \in sows, Delete(n)
  PROVE  OneHolder' /\ LookStillHolds' /\ UploadedOnce'
BY DEF UploadInv, OneHolder, LookStillHolds, UploadedOnce, FiledByMatch, Delete, NoJob, Filed

-----------------------------------------------------------------------------
(***************************************************************************)
(* The theorems.                                                           *)
(***************************************************************************)

LEMMA UploadInit == Init => UploadInv
BY DEF Init, UploadInv, TypeOK, OneHolder, LookStillHolds, UploadedOnce, NoJob, Job, FiledByMatch, Filed

LEMMA UploadStutters ==
  ASSUME UploadInv, UNCHANGED vars
  PROVE  UploadInv'
BY DEF vars, UploadInv, TypeOK, OneHolder, Holds, LookStillHolds, UploadedOnce, FiledByMatch, Filed

LEMMA UploadStep ==
  ASSUME UploadInv, Next
  PROVE  UploadInv'
<1> USE DEF UploadInv
<1>1. ASSUME NEW f \in Files, AnswerDuplicate(f) PROVE UploadInv'
  BY <1>1, AnswerDuplicateTyped, AnswerDuplicateKeeps
<1>2. ASSUME NEW f \in Files, PickRead(f) PROVE UploadInv' BY <1>2, PickReadTyped, PickReadKeeps
<1>3. ASSUME NEW f \in Files, ImportRead(f) PROVE UploadInv'
  BY <1>3, ImportReadTyped, ImportReadKeeps
<1>4. ASSUME NEW f \in Files, NEW way \in Ways, ReadHash(f, way) PROVE UploadInv'
  BY <1>4, ReadHashTyped, ReadHashKeeps
<1>5. ASSUME NEW q \in requests, TakeRow(q) PROVE UploadInv' BY <1>5, TakeRowTyped, TakeRowKeeps
<1>6. ASSUME NEW q \in requests, StorageFails(q) PROVE UploadInv'
  BY <1>6, StorageFailsTyped, StorageFailsKeeps
<1>7. ASSUME NEW q \in requests, Resolve(q) PROVE UploadInv' BY <1>7, ResolveTyped, ResolveKeeps
<1>8. ASSUME NEW q \in requests, Finish(q) PROVE UploadInv' BY <1>8, FinishTyped, FinishKeeps
<1>9. ASSUME NEW q \in requests, Pick(q) PROVE UploadInv' BY <1>9, PickTyped, PickKeeps
<1>10. ASSUME NEW q \in requests, ImportCommit(q) PROVE UploadInv'
  BY <1>10, ImportCommitTyped, ImportCommitKeeps
<1>11. ASSUME NEW q \in requests, Abort(q) PROVE UploadInv' BY <1>11, AbortTyped, AbortKeeps
<1>12. ASSUME NEW n \in sows, Archive(n) PROVE UploadInv' BY <1>12, ArchiveTyped, ArchiveKeeps
<1>13. ASSUME NEW n \in sows, Delete(n) PROVE UploadInv' BY <1>13, DeleteTyped, DeleteKeeps
<1> QED
  BY <1>1, <1>2, <1>3, <1>4, <1>5, <1>6, <1>7, <1>8, <1>9, <1>10, <1>11, <1>12, <1>13 DEF Next

\* The inductive invariant of the upload jobs: one holder of a row, and a look
\* at the SOWs that stays true until its request commits.
THEOREM UploadCorrect == Spec => []UploadInv
<1>1. UploadInv /\ [Next]_vars => UploadInv' BY UploadStep, UploadStutters
<1> QED BY <1>1, UploadInit, PTL DEF Spec

\* Every row keeps its shape and a job points at a SOW of its own bytes, through
\* detaching, deletion and stale retries.
THEOREM UploadTypes == Spec => []TypeOK
BY UploadCorrect, PTL DEF UploadInv

\* However uploads and picks of the same bytes race, fail and run again, those
\* that leave the client to be matched leave one SOW.
THEOREM MatchedUploadsFileOnce == Spec => []UploadedOnce
BY UploadCorrect, PTL DEF UploadInv

=============================================================================
