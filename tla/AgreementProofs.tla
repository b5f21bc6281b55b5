------------------------------ MODULE AgreementProofs ------------------------------
(***************************************************************************)
(* Safety of Agreements, for every value of its constants.                 *)
(*                                                                         *)
(* The inductive invariant has two halves: HoldingsInv about what clients  *)
(* hold, and BatchInv, the books of each batch.  They meet in the copies a *)
(* batch has out: only a running batch adds to them, and everybody may     *)
(* take one away.                                                          *)
(***************************************************************************)
EXTENDS Agreements, TLAPS, FiniteSetTheorems

HoldingTypes ==
  /\ client \in [Clients -> Client]
  /\ doc \in [Clients -> [Kinds -> Agreement]]
  /\ mark \in [Clients -> [Kinds -> Mark]]
  /\ cutover \in BOOLEAN
  /\ start \in Start
  /\ covered \in BOOLEAN
  /\ apply \in [on : BOOLEAN, todo : SUBSET Clients]
  /\ budget \in [writes : 0..MaxWrites, kills : 0..MaxKills]

HoldingsInv == HoldingTypes /\ HeldOnce

\* A batch has counted each kind of every client behind its cursor, and no copy
\* it has out or took back was not attached.
Books(b) ==
  /\ batch[b].left \subseteq batch[b].targets
  /\ batch[b].attached + batch[b].skipped
       = Cardinality(batch[b].targets \ batch[b].left) * Cardinality(batch[b].kinds)
  /\ batch[b].undone + Cardinality(CopiesOf(b)) <= batch[b].attached
  /\ batch[b].status = "done" => batch[b].left = {}

\* A runner that is doing something has a batch.
RunnersSound == \A r \in Runners : runner[r] # Idle => runner[r].batch \in Batches

BatchInv ==
  /\ batch \in [Batches -> Batch] /\ runner \in [Runners -> Runner]
  /\ RunnersSound /\ OneRunning /\ UndoneLeavesNothing
  /\ \A b \in Batches : Books(b)

AgreementInv == HoldingsInv /\ BatchInv

(***************************************************************************)
(* Finite sets.                                                            *)
(***************************************************************************)
LEMMA SetsFinite ==
  ASSUME AgreementAssumption
  PROVE  IsFiniteSet(Clients) /\ IsFiniteSet(Kinds) /\ IsFiniteSet(Clients \X Kinds)
<1>1. IsFiniteSet({"NDA"} \cup {MSA})
  BY FS_Singleton, FS_Union
<1>2. Kinds \in SUBSET ({"NDA"} \cup {MSA})
  BY DEF AgreementAssumption
<1>3. IsFiniteSet(Kinds)
  BY <1>1, <1>2, FS_Subset
<1> QED
  BY <1>3, FS_Product DEF AgreementAssumption

LEMMA PartSize ==
  ASSUME NEW S, IsFiniteSet(S), NEW T \in SUBSET S
  PROVE  IsFiniteSet(T) /\ Cardinality(T) \in Nat /\ Cardinality(S) \in Nat /\ Cardinality(T) <= Cardinality(S)
BY FS_Subset, FS_CardinalityType

\* The size of two parts that have nothing in common.
LEMMA DisjointSize ==
  ASSUME NEW S, NEW T, IsFiniteSet(S), IsFiniteSet(T), S \cap T = {}
  PROVE  IsFiniteSet(S \cup T) /\ Cardinality(S \cup T) = Cardinality(S) + Cardinality(T)
BY FS_Union, FS_EmptySet, FS_CardinalityType

LEMMA WithoutSize ==
  ASSUME NEW S, IsFiniteSet(S), NEW T \in SUBSET S
  PROVE  Cardinality(S \ T) = Cardinality(S) - Cardinality(T)
<1>1. S \cap T = T
  OBVIOUS
<1> QED
  BY <1>1, FS_Difference

(***************************************************************************)
(* Frames.                                                                 *)
(***************************************************************************)

\* What leaves the batches alone and attaches none of their copies.
LEMMA BatchFrame ==
  ASSUME AgreementAssumption, BatchInv, UNCHANGED <<batch, runner>>,
         \A b \in Batches : CopiesOf(b)' \subseteq CopiesOf(b)
  PROVE  BatchInv'
<1>1. \A b \in Batches : CopiesOf(b) \subseteq Clients \X Kinds
  BY DEF CopiesOf
<1>2. \A b \in Batches : Cardinality(CopiesOf(b)') <= Cardinality(CopiesOf(b))
                         /\ Cardinality(CopiesOf(b)') \in Nat /\ Cardinality(CopiesOf(b)) \in Nat
  BY <1>1, SetsFinite, PartSize
<1>3. \A b \in Batches : batch[b].undone \in Nat /\ batch[b].attached \in Nat
  BY DEF BatchInv, Batch
<1>4. \A b \in Batches : Books(b)'
  BY <1>2, <1>3 DEF BatchInv, Books
<1>5. UndoneLeavesNothing'
  BY DEF BatchInv, UndoneLeavesNothing
<1>6. RunnersSound' /\ OneRunning'
  BY DEF BatchInv, RunnersSound, OneRunning
<1> QED
  BY <1>4, <1>5, <1>6 DEF BatchInv

LEMMA HoldingsFrame ==
  ASSUME HoldingsInv, UNCHANGED <<client, doc, mark>>, cutover' \in BOOLEAN, start' \in Start,
         covered' \in BOOLEAN, apply' \in [on : BOOLEAN, todo : SUBSET Clients],
         budget' \in [writes : 0..MaxWrites, kills : 0..MaxKills]
  PROVE  HoldingsInv'
BY DEF HoldingsInv, HoldingTypes, HeldOnce

LEMMA WriteBudget ==
  ASSUME AgreementAssumption, HoldingsInv, Write
  PROVE  budget' \in [writes : 0..MaxWrites, kills : 0..MaxKills]
<1>1. budget \in [writes : 0..MaxWrites, kills : 0..MaxKills] /\ budget.writes < MaxWrites
      /\ budget' = [budget EXCEPT !.writes = budget.writes + 1]
  BY DEF HoldingsInv, HoldingTypes, Write
<1>2. budget.writes + 1 \in 0..MaxWrites
  BY <1>1 DEF AgreementAssumption
<1> QED
  BY <1>1, <1>2

LEMMA MishapBudget ==
  ASSUME AgreementAssumption, HoldingsInv, Mishap
  PROVE  budget' \in [writes : 0..MaxWrites, kills : 0..MaxKills]
<1>1. budget \in [writes : 0..MaxWrites, kills : 0..MaxKills] /\ budget.kills < MaxKills
      /\ budget' = [budget EXCEPT !.kills = budget.kills + 1]
  BY DEF HoldingsInv, HoldingTypes, Mishap
<1>2. budget.kills + 1 \in 0..MaxKills
  BY <1>1 DEF AgreementAssumption
<1> QED
  BY <1>1, <1>2

(***************************************************************************)
(* People and the mapping.                                                 *)
(***************************************************************************)

\* One cell of what a client holds changes.
LEMMA CellHoldings ==
  ASSUME HoldingsInv, NEW c \in Clients, NEW k \in Kinds, NEW d \in Agreement, NEW m \in Mark,
         d # NoDoc => m.active = "none",
         doc' = [doc EXCEPT ![c][k] = d], mark' = [mark EXCEPT ![c][k] = m],
         UNCHANGED <<client, cutover, jobVars, hubVars>>,
         budget' \in [writes : 0..MaxWrites, kills : 0..MaxKills]
  PROVE  HoldingsInv'
<1>1. doc \in [Clients -> [Kinds -> Agreement]] /\ mark \in [Clients -> [Kinds -> Mark]]
  BY DEF HoldingsInv, HoldingTypes
<1>2. doc' \in [Clients -> [Kinds -> Agreement]] /\ mark' \in [Clients -> [Kinds -> Mark]]
  BY <1>1
<1>3. HoldingTypes'
  BY <1>2 DEF HoldingsInv, HoldingTypes, jobVars, hubVars
<1>4. ASSUME NEW x \in Clients, NEW y \in Kinds, doc'[x][y] # NoDoc
      PROVE  mark'[x][y].active = "none"
  <2>1. CASE x = c /\ y = k
    BY <1>1, <1>4, <2>1
  <2>2. CASE ~(x = c /\ y = k)
    <3>1. doc'[x][y] = doc[x][y] /\ mark'[x][y] = mark[x][y]
      BY <1>1, <2>2
    <3> QED
      BY <1>4, <3>1 DEF HoldingsInv, HeldOnce
  <2> QED
    BY <2>1, <2>2
<1> QED
  BY <1>3, <1>4 DEF HoldingsInv, HeldOnce

LEMMA CellCopies ==
  ASSUME HoldingsInv, NEW c \in Clients, NEW k \in Kinds, NEW d \in Agreement, d.batch = 0,
         doc' = [doc EXCEPT ![c][k] = d]
  PROVE  \A b \in Batches : CopiesOf(b)' \subseteq CopiesOf(b)
<1>1. doc \in [Clients -> [Kinds -> Agreement]]
  BY DEF HoldingsInv, HoldingTypes
<1>2. SUFFICES ASSUME NEW b \in Batches, NEW p \in Clients \X Kinds,
                      doc'[p[1]][p[2]] = [source |-> "standard", batch |-> b]
               PROVE  doc[p[1]][p[2]] = [source |-> "standard", batch |-> b]
  BY DEF CopiesOf
<1>3. b # 0
  BY DEF Batches
<1>4. PICK x \in Clients, y \in Kinds : p = <<x, y>>
  OBVIOUS
<1>5. ~(x = c /\ y = k)
  BY <1>1, <1>2, <1>3, <1>4
<1> QED
  BY <1>1, <1>2, <1>4, <1>5

\* The frame of an action that writes one cell.
LEMMA CellKeepsInv ==
  ASSUME AgreementAssumption, AgreementInv, NEW c \in Clients, NEW k \in Kinds, NEW d \in Agreement,
         NEW m \in Mark, d # NoDoc => m.active = "none", d.batch = 0 \/ d = doc[c][k],
         doc' = [doc EXCEPT ![c][k] = d], mark' = [mark EXCEPT ![c][k] = m],
         UNCHANGED <<client, cutover, jobVars, hubVars>>, Write
  PROVE  AgreementInv'
<1>1. HoldingsInv'
  BY CellHoldings, WriteBudget DEF AgreementInv
<1>2. \A b \in Batches : CopiesOf(b)' \subseteq CopiesOf(b)
  <2>1. CASE d.batch = 0
    BY <2>1, CellCopies DEF AgreementInv
  <2>2. CASE d = doc[c][k]
    <3>1. doc' = doc
      BY <2>2 DEF AgreementInv, HoldingsInv, HoldingTypes
    <3> QED
      BY <3>1 DEF CopiesOf
  <2> QED
    BY <2>1, <2>2
<1>3. BatchInv'
  BY <1>2, BatchFrame DEF AgreementInv, jobVars
<1> QED
  BY <1>1, <1>3 DEF AgreementInv

LEMMA CellTypes ==
  ASSUME HoldingsInv, NEW c \in Clients, NEW k \in Kinds
  PROVE  /\ doc[c][k] \in Agreement /\ mark[c][k] \in Mark
         /\ Retired(mark[c][k]) \in Mark /\ Retired(mark[c][k]).active = "none"
         /\ doc = [doc EXCEPT ![c][k] = doc[c][k]] /\ mark = [mark EXCEPT ![c][k] = mark[c][k]]
         /\ NoDoc \in Agreement /\ NoDoc.batch = 0
         /\ doc[c][k] # NoDoc => mark[c][k].active = "none"
<1>1. doc \in [Clients -> [Kinds -> Agreement]] /\ mark \in [Clients -> [Kinds -> Mark]]
  BY DEF HoldingsInv, HoldingTypes
<1>2. doc[c][k] \in Agreement /\ mark[c][k] \in Mark
  BY <1>1
<1>3. Retired(mark[c][k]) \in Mark /\ Retired(mark[c][k]).active = "none"
  BY <1>2 DEF Retired, Mark
<1>4. doc = [doc EXCEPT ![c][k] = doc[c][k]] /\ mark = [mark EXCEPT ![c][k] = mark[c][k]]
  BY <1>1
<1>5. NoDoc \in Agreement /\ NoDoc.batch = 0
  BY DEF NoDoc, Agreement
<1> QED
  BY <1>2, <1>3, <1>4, <1>5 DEF HoldingsInv, HeldOnce

LEMMA PeopleKeepInv ==
  ASSUME AgreementAssumption, AgreementInv, NEW c \in Clients, NEW k \in Kinds,
         \/ StoreClientCopy(c, k) \/ AttachStandard(c, k) \/ SetMark(c, k)
         \/ RemoveMark(c, k) \/ Detach(c, k)
  PROVE  AgreementInv'
<1>1. HoldingsInv
  BY DEF AgreementInv
<1>2. CASE StoreClientCopy(c, k)
  <2> DEFINE d == [source |-> "client", batch |-> 0]
  <2>1. d \in Agreement /\ d.batch = 0
    BY DEF Agreement
  <2>2. doc' = [doc EXCEPT ![c][k] = d] /\ mark' = [mark EXCEPT ![c][k] = Retired(mark[c][k])] /\ Write
        /\ UNCHANGED <<client, cutover, jobVars, hubVars>>
    BY <1>2 DEF StoreClientCopy, SetDoc, TakeMarksPlace, Retire
  <2> HIDE DEF d
  <2> QED
    BY <1>1, <2>1, <2>2, CellTypes, CellKeepsInv
<1>3. CASE AttachStandard(c, k)
  <2> DEFINE d == [source |-> "standard", batch |-> 0]
  <2>1. d \in Agreement /\ d.batch = 0
    BY DEF Agreement
  <2>2. doc' = [doc EXCEPT ![c][k] = d] /\ mark' = mark /\ mark[c][k].active = "none" /\ Write
        /\ UNCHANGED <<client, cutover, jobVars, hubVars>>
    BY <1>3 DEF AttachStandard, SetDoc, Holds
  <2>3. mark' = [mark EXCEPT ![c][k] = mark[c][k]] /\ mark[c][k] \in Mark
    BY <1>1, <2>2, CellTypes
  <2> HIDE DEF d
  <2> QED
    BY <2>1, <2>2, <2>3, CellKeepsInv
<1>4. CASE SetMark(c, k)
  <2> DEFINE m == [Retired(mark[c][k]) EXCEPT !.active = "dealgate"]
  <2>1. m \in Mark
    BY <1>1, CellTypes DEF Mark
  <2>2. mark' = [mark EXCEPT ![c][k] = m] /\ doc' = doc /\ doc[c][k] = NoDoc /\ Write
        /\ UNCHANGED <<client, cutover, jobVars, hubVars>>
    BY <1>4 DEF SetMark
  <2>3. doc' = [doc EXCEPT ![c][k] = doc[c][k]] /\ doc[c][k] \in Agreement
    BY <1>1, <2>2, CellTypes
  <2> HIDE DEF m
  <2> QED
    BY <2>1, <2>2, <2>3, CellKeepsInv
<1>5. CASE RemoveMark(c, k)
  <2>1. mark' = [mark EXCEPT ![c][k] = Retired(mark[c][k])] /\ doc' = doc /\ Write
        /\ UNCHANGED <<client, cutover, jobVars, hubVars>>
    BY <1>5 DEF RemoveMark, Retire
  <2>2. doc' = [doc EXCEPT ![c][k] = doc[c][k]] /\ doc[c][k] \in Agreement
        /\ Retired(mark[c][k]) \in Mark /\ Retired(mark[c][k]).active = "none"
    BY <1>1, <2>1, CellTypes
  <2> QED
    BY <2>1, <2>2, CellKeepsInv
<1>6. CASE Detach(c, k)
  <2>1. doc' = [doc EXCEPT ![c][k] = NoDoc] /\ mark' = mark /\ Write
        /\ UNCHANGED <<client, cutover, jobVars, hubVars>>
    BY <1>6 DEF Detach, SetDoc
  <2>2. mark' = [mark EXCEPT ![c][k] = mark[c][k]] /\ mark[c][k] \in Mark
        /\ NoDoc \in Agreement /\ NoDoc.batch = 0
    BY <1>1, <2>1, CellTypes
  <2> QED
    BY <2>1, <2>2, CellKeepsInv
<1> QED
  BY <1>2, <1>3, <1>4, <1>5, <1>6

LEMMA ClientRowsKeepInv ==
  ASSUME AgreementAssumption, AgreementInv, NEW c \in Clients,
         SetRelationship(c) \/ OpenClient(c) \/ CommitClient(c) \/ Settle(c)
  PROVE  AgreementInv'
<1> USE DEF AgreementInv
<1>1. client \in [Clients -> Client] /\ client[c] \in Client /\ cutover \in BOOLEAN /\ start.open \in BOOLEAN
      /\ budget \in [writes : 0..MaxWrites, kills : 0..MaxKills]
  BY DEF HoldingsInv, HoldingTypes, Start
<1>2. UNCHANGED <<doc, mark, cutover, jobVars, hubVars>>
  BY DEF SetRelationship, OpenClient, CommitClient, Settle
<1>3. budget' \in [writes : 0..MaxWrites, kills : 0..MaxKills]
  BY <1>1, WriteBudget DEF SetRelationship, OpenClient, CommitClient, Settle
<1>4. client' \in [Clients -> Client]
  <2>1. CASE OpenClient(c)
    <3> DEFINE row == [life |-> "opening", early |-> ~cutover /\ ~start.open,
                       rel |-> IF cutover /\ c \notin Mirrored THEN "rule" ELSE "none"]
    <3>1. row \in Client
      BY <1>1 DEF Client
    <3>2. client' = [client EXCEPT ![c] = row]
      BY <2>1 DEF OpenClient
    <3> HIDE DEF row
    <3> QED
      BY <1>1, <3>1, <3>2
  <2>2. CASE SetRelationship(c) \/ CommitClient(c) \/ Settle(c)
    BY <1>1, <2>2 DEF SetRelationship, CommitClient, Settle, Client
  <2> QED
    BY <2>1, <2>2
<1>5. HoldingsInv'
  BY <1>2, <1>3, <1>4 DEF HoldingsInv, HoldingTypes, HeldOnce, jobVars, hubVars
<1>6. BatchInv'
  BY <1>2, BatchFrame DEF jobVars, CopiesOf
<1> QED
  BY <1>5, <1>6

LEMMA DeleteClientKeepsInv ==
  ASSUME AgreementAssumption, AgreementInv, NEW c \in Clients, DeleteClient(c)
  PROVE  AgreementInv'
<1> USE DEF AgreementInv
<1>1. client \in [Clients -> Client] /\ doc \in [Clients -> [Kinds -> Agreement]]
      /\ mark \in [Clients -> [Kinds -> Mark]]
  BY DEF HoldingsInv, HoldingTypes
<1>2. NoDoc \in Agreement /\ NoMark \in Mark /\ NoMark.active = "none" /\ NoDoc.batch = 0
  BY DEF NoDoc, NoMark, Agreement, Mark
<1>3. UNCHANGED <<cutover, jobVars, hubVars>> /\ client' = [client EXCEPT ![c].life = "deleted"]
      /\ doc' = [doc EXCEPT ![c] = [k \in Kinds |-> NoDoc]]
      /\ mark' = [mark EXCEPT ![c] = [k \in Kinds |-> NoMark]] /\ Write
  BY DEF DeleteClient
<1>4. client' \in [Clients -> Client]
  BY <1>1, <1>3 DEF Client
<1>5. doc' \in [Clients -> [Kinds -> Agreement]] /\ mark' \in [Clients -> [Kinds -> Mark]]
  BY <1>1, <1>2, <1>3
<1>6. \A x \in Clients, k \in Kinds :
        /\ doc'[x][k] = IF x = c THEN NoDoc ELSE doc[x][k]
        /\ mark'[x][k] = IF x = c THEN NoMark ELSE mark[x][k]
  BY <1>1, <1>3
<1>7. HeldOnce'
  BY <1>2, <1>6 DEF HoldingsInv, HeldOnce
<1>8. HoldingsInv'
  BY <1>3, <1>4, <1>5, <1>7, WriteBudget DEF HoldingsInv, HoldingTypes, jobVars, hubVars
<1>9. \A b \in Batches : CopiesOf(b)' \subseteq CopiesOf(b)
  <2>1. SUFFICES ASSUME NEW b \in Batches, NEW x \in Clients, NEW k \in Kinds,
                        doc'[x][k] = [source |-> "standard", batch |-> b]
                 PROVE  doc[x][k] = [source |-> "standard", batch |-> b]
    BY DEF CopiesOf
  <2>2. b # 0
    BY DEF Batches
  <2> QED
    BY <1>2, <1>6, <2>1, <2>2
<1> QED
  BY <1>3, <1>8, <1>9, BatchFrame DEF jobVars

LEMMA ClientsKeepInv ==
  ASSUME AgreementAssumption, AgreementInv, ClientNext
  PROVE  AgreementInv'
<1>1. PICK c \in Clients :
        \/ SetRelationship(c) \/ OpenClient(c) \/ CommitClient(c) \/ DeleteClient(c) \/ Settle(c)
        \/ \E k \in Kinds :
             StoreClientCopy(c, k) \/ AttachStandard(c, k) \/ SetMark(c, k) \/ RemoveMark(c, k) \/ Detach(c, k)
  BY DEF ClientNext
<1> QED
  BY <1>1, PeopleKeepInv, ClientRowsKeepInv, DeleteClientKeepsInv

LEMMA MarksKeepInv ==
  ASSUME AgreementAssumption, AgreementInv, MarksNext
  PROVE  AgreementInv'
<1> USE DEF AgreementInv
<1>1. mark \in [Clients -> [Kinds -> Mark]] /\ covered \in BOOLEAN
      /\ apply \in [on : BOOLEAN, todo : SUBSET Clients]
      /\ budget \in [writes : 0..MaxWrites, kills : 0..MaxKills]
  BY DEF HoldingsInv, HoldingTypes
<1>2. UNCHANGED <<client, doc, cutover, jobVars>>
  BY DEF MarksNext, SaveMapping, LoadCandidates, MarkChunk, ApplyFails, peopleVars
<1>3. budget' \in [writes : 0..MaxWrites, kills : 0..MaxKills]
  BY <1>1, WriteBudget DEF MarksNext, SaveMapping, LoadCandidates, MarkChunk, ApplyFails
<1>4. covered' \in BOOLEAN
  BY <1>1 DEF MarksNext, SaveMapping, LoadCandidates, MarkChunk, ApplyFails
<1>5. apply' \in [on : BOOLEAN, todo : SUBSET Clients]
  <2>1. CASE MarkChunk
    <3>1. PICK S \in ChunksOf(apply.todo) :
            apply' = IF apply.todo = S THEN NoApply ELSE [apply EXCEPT !.todo = apply.todo \ S]
      BY <2>1 DEF MarkChunk
    <3> QED
      BY <1>1, <3>1 DEF NoApply
  <2>2. CASE LoadCandidates
    <3>1. apply' = [on |-> TRUE, todo |-> {c \in Hinted : HoldsNoMsa(c)}]
      BY <2>2 DEF LoadCandidates
    <3>2. {c \in Hinted : HoldsNoMsa(c)} \in SUBSET Clients
      BY DEF AgreementAssumption
    <3> QED
      BY <3>1, <3>2
  <2>3. CASE ApplyFails
    <3>1. apply' = NoApply
      BY <2>3 DEF ApplyFails
    <3> QED
      BY <3>1 DEF NoApply
  <2>4. CASE \E v \in BOOLEAN : SaveMapping(v)
    <3>1. apply' = apply
      BY <2>4 DEF SaveMapping
    <3> QED
      BY <1>1, <3>1
  <2> QED
    BY <2>1, <2>2, <2>3, <2>4 DEF MarksNext
<1>6. mark' \in [Clients -> [Kinds -> Mark]] /\ HeldOnce'
  <2>1. CASE MarkChunk
    <3>1. PICK S : mark' = [c \in Clients |-> IF c \in S /\ Eligible(c)
                                              THEN [mark[c] EXCEPT ![MSA].active = "hubspot"] ELSE mark[c]]
      BY <2>1 DEF MarkChunk
    <3>2. \A c \in Clients : mark[c] \in [Kinds -> Mark]
      BY <1>1
    <3>3. \A c \in Clients : [mark[c] EXCEPT ![MSA].active = "hubspot"] \in [Kinds -> Mark]
      BY <3>2 DEF Mark
    <3>4. ASSUME NEW c \in Clients, NEW k \in Kinds, doc'[c][k] # NoDoc
          PROVE  mark'[c][k].active = "none"
      <4>1. mark[c][k].active = "none" /\ doc[c][k] # NoDoc
        BY <1>2, <3>4 DEF HoldingsInv, HeldOnce
      <4>2. CASE c \in S /\ Eligible(c)
        <5>1. k # MSA
          BY <4>1, <4>2 DEF Eligible, HoldsNoMsa, Holds
        <5> QED
          BY <3>1, <3>2, <4>1, <4>2, <5>1
      <4>3. CASE ~(c \in S /\ Eligible(c))
        BY <3>1, <4>1, <4>3
      <4> QED
        BY <4>2, <4>3
    <3> QED
      BY <3>1, <3>2, <3>3, <3>4 DEF HeldOnce
  <2>2. CASE ~MarkChunk
    <3>1. mark' = mark
      BY <2>2 DEF MarksNext, SaveMapping, LoadCandidates, ApplyFails, peopleVars
    <3> QED
      BY <1>1, <1>2, <3>1 DEF HoldingsInv, HeldOnce
  <2> QED
    BY <2>1, <2>2
<1>7. HoldingsInv'
  BY <1>2, <1>3, <1>4, <1>5, <1>6 DEF HoldingsInv, HoldingTypes, jobVars
<1>8. BatchInv'
  BY <1>2, BatchFrame DEF jobVars, CopiesOf
<1> QED
  BY <1>7, <1>8

(***************************************************************************)
(* Batches: what keeps the batches' rows.                                  *)
(***************************************************************************)

\* Runners move and batches do not.
LEMMA RunnersMove ==
  ASSUME AgreementAssumption, AgreementInv, UNCHANGED <<peopleVars, cutover, start, batch, hubVars>>,
         runner' \in [Runners -> Runner], RunnersSound',
         budget' \in [writes : 0..MaxWrites, kills : 0..MaxKills]
  PROVE  AgreementInv'
<1>1. HoldingsInv'
  BY HoldingsFrame DEF AgreementInv, HoldingsInv, HoldingTypes, peopleVars, hubVars
<1>2. \A b \in Batches : CopiesOf(b)' = CopiesOf(b)
  BY DEF CopiesOf, peopleVars
<1>3. \A b \in Batches : Books(b)'
  BY <1>2 DEF AgreementInv, BatchInv, Books
<1>4. UndoneLeavesNothing'
  BY <1>2 DEF AgreementInv, BatchInv, UndoneLeavesNothing
<1>5. OneRunning'
  BY DEF AgreementInv, BatchInv, OneRunning
<1> QED
  BY <1>1, <1>3, <1>4, <1>5 DEF AgreementInv, BatchInv

\* Setting one runner.
LEMMA RunnerSet ==
  ASSUME AgreementInv, NEW r \in Runners, NEW state \in Runner, SetRunner(r, state),
         state = Idle \/ state.batch \in Batches
  PROVE  runner' \in [Runners -> Runner] /\ RunnersSound'
<1>1. runner \in [Runners -> Runner]
  BY DEF AgreementInv, BatchInv
<1>2. runner' \in [Runners -> Runner] /\ runner'[r] = state /\ \A x \in Runners : x # r => runner'[x] = runner[x]
  BY <1>1 DEF SetRunner
<1> QED
  BY <1>2 DEF AgreementInv, BatchInv, RunnersSound

LEMMA RunnerTypes ==
  ASSUME AgreementInv, NEW r \in Runners
  PROVE  /\ runner[r] \in Runner /\ Idle \in Runner
         /\ runner[r].step # "idle" => On(r) \in Batches /\ batch[On(r)] \in Batch
<1>1. runner[r] \in Runner
  BY DEF AgreementInv, BatchInv
<1>2. Idle \in Runner /\ Idle.step = "idle"
  BY DEF Idle, Runner
<1>3. runner[r].step # "idle" => runner[r].batch \in Batches
  BY <1>2 DEF AgreementInv, BatchInv, RunnersSound
<1> QED
  BY <1>1, <1>2, <1>3 DEF AgreementInv, BatchInv, On

LEMMA RunnersKeepInv ==
  ASSUME AgreementAssumption, AgreementInv, NEW r \in Runners,
         ReadHolders(r) \/ StopRunner(r) \/ ChunkFails(r) \/ KillRunner(r) \/ \E b \in Batches : TakeBatch(r, b)
  PROVE  AgreementInv'
<1>1. UNCHANGED <<peopleVars, cutover, start, batch, hubVars>>
  BY DEF ReadHolders, StopRunner, ChunkFails, KillRunner, TakeBatch
<1>2. budget' \in [writes : 0..MaxWrites, kills : 0..MaxKills]
  BY MishapBudget DEF AgreementInv, HoldingsInv, HoldingTypes, ReadHolders, StopRunner, ChunkFails, KillRunner,
     TakeBatch
<1>3. runner' \in [Runners -> Runner] /\ RunnersSound'
  <2>1. CASE ReadHolders(r)
    <3>1. PICK S \in ChunksOf(HoldersOf(On(r))) : SetRunner(r, [runner[r] EXCEPT !.step = "remove", !.chunk = S])
      BY <2>1 DEF ReadHolders
    <3> DEFINE state == [runner[r] EXCEPT !.step = "remove", !.chunk = S]
    <3>2. S \in SUBSET Clients
      BY <3>1 DEF ChunksOf, HoldersOf, CopiesOf
    <3>3. On(r) \in Batches /\ runner[r] \in Runner
      BY <2>1, RunnerTypes DEF ReadHolders
    <3>4. state \in Runner /\ state.batch \in Batches
      BY <3>2, <3>3 DEF Runner, On
    <3>5. SetRunner(r, state)
      BY <3>1
    <3> HIDE DEF state
    <3> QED
      BY <3>4, <3>5, RunnerSet
  <2>2. CASE StopRunner(r) \/ KillRunner(r)
    BY <2>2, RunnerSet, RunnerTypes DEF StopRunner, KillRunner
  <2>3. CASE ChunkFails(r)
    <3> DEFINE state == [runner[r] EXCEPT !.step = "fail", !.chunk = {}]
    <3>1. On(r) \in Batches /\ runner[r] \in Runner
      BY <2>3, RunnerTypes DEF ChunkFails
    <3>2. state \in Runner /\ state.batch \in Batches
      BY <3>1 DEF Runner, On
    <3>3. SetRunner(r, state)
      BY <2>3 DEF ChunkFails
    <3> HIDE DEF state
    <3> QED
      BY <3>2, <3>3, RunnerSet
  <2>4. CASE \E b \in Batches : TakeBatch(r, b)
    <3>1. PICK b \in Batches : TakeBatch(r, b)
      BY <2>4
    <3> DEFINE state == [Idle EXCEPT !.step = IF batch[b].status = "running" THEN "run" ELSE "undo", !.batch = b]
    <3>2. state \in Runner /\ state.batch \in Batches
      BY DEF Runner, Idle
    <3>3. SetRunner(r, state)
      BY <3>1 DEF TakeBatch
    <3> HIDE DEF state
    <3> QED
      BY <3>2, <3>3, RunnerSet
  <2> QED
    BY <2>1, <2>2, <2>3, <2>4
<1> QED
  BY <1>1, <1>2, <1>3, RunnersMove

\* The start of a batch reads and may fail.
LEMMA StartsKeepInv ==
  ASSUME AgreementAssumption, AgreementInv,
         StartFails \/ \E T \in SUBSET Clients, K \in SUBSET Kinds : StartRead(T, K)
  PROVE  AgreementInv'
<1>1. UNCHANGED <<peopleVars, cutover, batch, runner, hubVars, budget>>
  BY DEF StartFails, StartRead
<1>2. start' \in Start
  <2>1. CASE StartFails
    BY <2>1 DEF StartFails, NoStart, Start
  <2>2. CASE \E T \in SUBSET Clients, K \in SUBSET Kinds : StartRead(T, K)
    <3> DEFINE unstamped == IF cutover THEN {} ELSE {c \in Clients : Live(c) /\ client[c].rel = "none"}
    <3>1. PICK T \in SUBSET Clients, K \in SUBSET Kinds :
            start' = [open |-> TRUE, kinds |-> K, targets |-> T, pending |-> unstamped]
      BY <2>2 DEF StartRead
    <3>2. unstamped \in SUBSET Clients
      OBVIOUS
    <3> HIDE DEF unstamped
    <3> QED
      BY <3>1, <3>2 DEF Start
  <2> QED
    BY <2>1, <2>2
<1>3. HoldingsInv'
  BY <1>1, <1>2, HoldingsFrame DEF AgreementInv, HoldingsInv, HoldingTypes, peopleVars, hubVars
<1>4. BatchInv'
  BY <1>1, BatchFrame DEF AgreementInv, peopleVars, CopiesOf
<1> QED
  BY <1>3, <1>4 DEF AgreementInv

\* One batch is ended: its status leaves the active ones.
LEMMA BatchEnds ==
  ASSUME AgreementAssumption, AgreementInv, NEW b \in Batches, NEW s \in Status \ Active,
         batch' = [batch EXCEPT ![b].status = s],
         s = "done" => batch[b].left = {}, s = "undone" => CopiesOf(b) = {},
         UNCHANGED <<peopleVars, cutover, start, hubVars, budget>>,
         runner' \in [Runners -> Runner], RunnersSound'
  PROVE  AgreementInv'
<1>1. batch \in [Batches -> Batch] /\ batch[b] \in Batch
  BY DEF AgreementInv, BatchInv
<1>2. batch' \in [Batches -> Batch]
  BY <1>1 DEF Batch
<1>3. \A a \in Batches :
        /\ a # b => batch'[a] = batch[a]
        /\ batch'[a].status = IF a = b THEN s ELSE batch[a].status
        /\ batch'[a].targets = batch[a].targets /\ batch'[a].left = batch[a].left
        /\ batch'[a].kinds = batch[a].kinds /\ batch'[a].attached = batch[a].attached
        /\ batch'[a].skipped = batch[a].skipped /\ batch'[a].undone = batch[a].undone
  BY <1>1 DEF Batch
<1>4. \A a \in Batches : CopiesOf(a)' = CopiesOf(a)
  BY DEF CopiesOf, peopleVars
<1>5. OneRunning'
  BY <1>3 DEF AgreementInv, BatchInv, OneRunning
<1>6. UndoneLeavesNothing'
  BY <1>3, <1>4 DEF AgreementInv, BatchInv, UndoneLeavesNothing
<1>7. \A a \in Batches : Books(a)'
  BY <1>3, <1>4 DEF AgreementInv, BatchInv, Books
<1>8. HoldingsInv'
  BY HoldingsFrame DEF AgreementInv, HoldingsInv, HoldingTypes, peopleVars, hubVars
<1> QED
  BY <1>2, <1>5, <1>6, <1>7, <1>8 DEF AgreementInv, BatchInv

LEMMA EndsKeepInv ==
  ASSUME AgreementAssumption, AgreementInv, NEW r \in Runners, FinishRun(r) \/ FinishUndo(r) \/ RecordFailure(r)
  PROVE  AgreementInv'
<1>1. On(r) \in Batches /\ batch[On(r)] \in Batch
  BY RunnerTypes DEF FinishRun, FinishUndo, RecordFailure
<1>2. SetRunner(r, Idle) /\ UNCHANGED <<peopleVars, cutover, start, hubVars, budget>>
  BY DEF FinishRun, FinishUndo, RecordFailure
<1>3. runner' \in [Runners -> Runner] /\ RunnersSound'
  BY <1>2, RunnerSet, RunnerTypes
<1>4. CASE FinishRun(r)
  <2>1. batch' = [batch EXCEPT ![On(r)].status = "done"] /\ batch[On(r)].left = {}
    BY <1>4 DEF FinishRun
  <2>2. "done" \in Status \ Active /\ "done" # "undone"
    BY DEF Status, Active
  <2> QED
    BY <1>1, <1>2, <1>3, <2>1, <2>2, BatchEnds
<1>5. CASE FinishUndo(r)
  <2>1. CopiesOf(On(r)) = {}
    BY <1>5 DEF FinishUndo, Emptied, HoldersOf
  <2>2. batch' = [batch EXCEPT ![On(r)].status = "undone"]
    BY <1>5 DEF FinishUndo
  <2>3. "undone" \in Status \ Active /\ "undone" # "done"
    BY DEF Status, Active
  <2> QED
    BY <1>1, <1>2, <1>3, <2>1, <2>2, <2>3, BatchEnds
<1>6. CASE RecordFailure(r) /\ batch[On(r)].status \in Active
  <2>1. batch' = [batch EXCEPT ![On(r)].status = "failed"]
    BY <1>6 DEF RecordFailure
  <2>2. "failed" \in Status \ Active /\ "failed" # "done" /\ "failed" # "undone"
    BY DEF Status, Active
  <2> QED
    BY <1>1, <1>2, <1>3, <2>1, <2>2, BatchEnds
<1>7. CASE RecordFailure(r) /\ batch[On(r)].status \notin Active
  BY <1>2, <1>3, <1>7, RunnersMove DEF RecordFailure, AgreementInv, HoldingsInv, HoldingTypes
<1> QED
  BY <1>4, <1>5, <1>6, <1>7

(***************************************************************************)
(* Batches: a start, a chunk and an undo chunk.                            *)
(***************************************************************************)

\* An undo makes an ended batch active; no other is.
LEMMA UndoKeepsInv ==
  ASSUME AgreementAssumption, AgreementInv, NEW b \in Batches, StartUndo(b)
  PROVE  AgreementInv'
<1>1. batch \in [Batches -> Batch] /\ batch[b] \in Batch
  BY DEF AgreementInv, BatchInv
<1>2. batch' = [batch EXCEPT ![b].status = "undoing"] /\ GuardFree
      /\ UNCHANGED <<peopleVars, cutover, start, runner, hubVars, budget>>
  BY DEF StartUndo
<1>3. batch' \in [Batches -> Batch]
  BY <1>1, <1>2 DEF Batch, Status
<1>4. \A a \in Batches :
        /\ batch'[a].status = IF a = b THEN "undoing" ELSE batch[a].status
        /\ batch'[a].targets = batch[a].targets /\ batch'[a].left = batch[a].left
        /\ batch'[a].kinds = batch[a].kinds /\ batch'[a].attached = batch[a].attached
        /\ batch'[a].skipped = batch[a].skipped /\ batch'[a].undone = batch[a].undone
  BY <1>1, <1>2 DEF Batch
<1>5. \A a \in Batches : CopiesOf(a)' = CopiesOf(a)
  BY <1>2 DEF CopiesOf, peopleVars
<1>6. OneRunning'
  BY <1>2, <1>4 DEF GuardFree, OneRunning, Active
<1>7. UndoneLeavesNothing'
  BY <1>4, <1>5 DEF AgreementInv, BatchInv, UndoneLeavesNothing
<1>8. \A a \in Batches : Books(a)'
  BY <1>4, <1>5 DEF AgreementInv, BatchInv, Books
<1>9. HoldingsInv'
  BY <1>2, HoldingsFrame DEF AgreementInv, HoldingsInv, HoldingTypes, peopleVars, hubVars
<1>10. RunnersSound' /\ runner' \in [Runners -> Runner]
  BY <1>2 DEF AgreementInv, BatchInv, RunnersSound
<1> QED
  BY <1>3, <1>6, <1>7, <1>8, <1>9, <1>10 DEF AgreementInv, BatchInv

\* A batch that was never started has no copies, so a new one starts its books
\* at zero.
LEMMA CommitKeepsInv ==
  ASSUME AgreementAssumption, AgreementInv, NEW b \in Batches, StartCommit(b)
  PROVE  AgreementInv'
<1> DEFINE row == [NoBatch EXCEPT !.status = "running", !.kinds = start.kinds, !.targets = start.targets,
                                  !.left = start.targets]
<1>1. batch \in [Batches -> Batch] /\ start \in Start /\ client \in [Clients -> Client]
  BY DEF AgreementInv, BatchInv, HoldingsInv, HoldingTypes
<1>2. batch' = [batch EXCEPT ![b] = row] /\ GuardFree /\ batch[b] = NoBatch
      /\ UNCHANGED <<doc, mark, runner, hubVars, budget>>
  BY DEF StartCommit
<1>3. row \in Batch
  <2>1. NoBatch \in Batch
    BY DEF NoBatch, Batch, Status
  <2>2. start.kinds \in SUBSET Kinds /\ start.targets \in SUBSET Clients
    BY <1>1 DEF Start
  <2>3. "running" \in Status
    BY DEF Status
  <2> HIDE DEF NoBatch
  <2> QED
    BY <2>1, <2>2, <2>3 DEF Batch
<1>4. row.status = "running" /\ row.attached = 0 /\ row.skipped = 0 /\ row.undone = 0 /\ row.left = row.targets
  BY DEF NoBatch
<1> HIDE DEF row
<1>5. batch' \in [Batches -> Batch]
      /\ \A a \in Batches : batch'[a] = IF a = b THEN row ELSE batch[a]
  BY <1>1, <1>2, <1>3
<1>6. \A a \in Batches : CopiesOf(a)' = CopiesOf(a)
  BY <1>2 DEF CopiesOf
<1>7. Cardinality(CopiesOf(b)) = 0
  <2>1. CopiesOf(b) \in SUBSET (Clients \X Kinds)
    BY DEF CopiesOf
  <2>2. Cardinality(CopiesOf(b)) \in Nat
    BY <2>1, SetsFinite, PartSize
  <2>3. batch[b].undone = 0 /\ batch[b].attached = 0
    BY <1>2 DEF NoBatch
  <2>4. batch[b].undone + Cardinality(CopiesOf(b)) <= batch[b].attached
    BY DEF AgreementInv, BatchInv, Books
  <2> QED
    BY <2>2, <2>3, <2>4
<1>8. Books(b)'
  <2>1. Cardinality(row.kinds) \in Nat
    BY <1>3, SetsFinite, PartSize DEF Batch
  <2> DEFINE n == Cardinality(row.kinds)
             m == Cardinality(row.targets \ row.left)
  <2>2. m = 0
    <3>1. row.targets \ row.left = {}
      BY <1>4
    <3> QED
      BY <3>1, FS_EmptySet
  <2>3. m * n = 0
    <3>1. n \in Nat
      BY <2>1
    <3> HIDE DEF m, n
    <3> QED
      BY <2>2, <3>1
  <2> QED
    BY <1>4, <1>5, <1>6, <1>7, <2>3 DEF Books
<1>9. \A a \in Batches : Books(a)'
  <2>1. ASSUME NEW a \in Batches, a # b PROVE Books(a)'
    BY <1>5, <1>6, <2>1 DEF AgreementInv, BatchInv, Books
  <2> QED
    BY <1>8, <2>1
<1>10. OneRunning'
  BY <1>2, <1>5 DEF GuardFree, OneRunning
<1>11. UndoneLeavesNothing'
  BY <1>4, <1>5, <1>6 DEF AgreementInv, BatchInv, UndoneLeavesNothing
<1>12. client' \in [Clients -> Client]
  <2>1. client' = [c \in Clients |-> IF StillUnstamped(c) THEN [client[c] EXCEPT !.rel = "rule"] ELSE client[c]]
    BY DEF StartCommit
  <2>2. \A c \in Clients : client[c] \in Client /\ [client[c] EXCEPT !.rel = "rule"] \in Client
    BY <1>1 DEF Client
  <2> QED
    BY <2>1, <2>2
<1>13. start' \in Start /\ cutover' \in BOOLEAN
  BY DEF StartCommit, NoStart, Start
<1>14. HoldingsInv'
  BY <1>2, <1>12, <1>13 DEF AgreementInv, HoldingsInv, HoldingTypes, HeldOnce, hubVars
<1>15. RunnersSound' /\ runner' \in [Runners -> Runner]
  BY <1>2 DEF AgreementInv, BatchInv, RunnersSound
<1> QED
  BY <1>5, <1>9, <1>10, <1>11, <1>14, <1>15 DEF AgreementInv, BatchInv

\* A chunk: what it attaches joins the batch's copies, which its clients did not
\* hold, and the cursor passes the clients it has counted.
LEMMA ChunkKeepsInv ==
  ASSUME AgreementAssumption, AgreementInv, NEW r \in Runners, RunChunk(r)
  PROVE  AgreementInv'
<1> DEFINE b == On(r)
<1>1. b \in Batches /\ batch[b] \in Batch /\ batch \in [Batches -> Batch]
  BY RunnerTypes DEF RunChunk, AgreementInv, BatchInv
<1>2. PICK S \in ChunksOf(batch[b].left) :
        /\ doc' = [c \in Clients |-> [k \in Kinds |->
             IF <<c, k>> \in Receiving(b, S) THEN [source |-> "standard", batch |-> b] ELSE doc[c][k]]]
        /\ batch' = [batch EXCEPT ![b].left = PastCursor(b, S),
             ![b].attached = batch[b].attached + Cardinality(Receiving(b, S)),
             ![b].skipped = batch[b].skipped + Cardinality(S \X batch[b].kinds) - Cardinality(Receiving(b, S))]
  BY DEF RunChunk
<1>3. batch[b].status = "running" /\ UNCHANGED <<client, mark, cutover, start, runner, hubVars, budget>>
  BY DEF RunChunk
<1> DEFINE got == Receiving(b, S)
           copy == [source |-> "standard", batch |-> b]
           attached == batch[b].attached + Cardinality(got)
           skipped == batch[b].skipped + Cardinality(S \X batch[b].kinds) - Cardinality(got)
<1> HIDE DEF b
<1>4. S \in SUBSET batch[b].left /\ batch[b].left \in SUBSET batch[b].targets /\ batch[b].kinds \in SUBSET Kinds
      /\ batch[b].targets \in SUBSET Clients
  BY <1>1, <1>2 DEF ChunksOf, AgreementInv, BatchInv, Books, Batch
<1>5. got \in SUBSET (S \X batch[b].kinds) /\ S \X batch[b].kinds \in SUBSET (Clients \X Kinds)
  BY <1>4 DEF Receiving
<1>6. IsFiniteSet(batch[b].targets) /\ IsFiniteSet(batch[b].kinds)
  BY <1>4, SetsFinite, PartSize
<1>7. /\ Cardinality(S \X batch[b].kinds) \in Nat /\ IsFiniteSet(S \X batch[b].kinds)
      /\ Cardinality(batch[b].targets \ (batch[b].left \ S)) * Cardinality(batch[b].kinds)
           = Cardinality(batch[b].targets \ batch[b].left) * Cardinality(batch[b].kinds)
             + Cardinality(S \X batch[b].kinds)
  <2> DEFINE T == batch[b].targets
             L == batch[b].left
             K == batch[b].kinds
  <2>1. L \in SUBSET T /\ S \in SUBSET L /\ IsFiniteSet(T) /\ IsFiniteSet(K)
    BY <1>4, <1>6
  <2> HIDE DEF T, L, K
  <2>2. /\ IsFiniteSet(S) /\ Cardinality(S) \in Nat /\ Cardinality(T \ L) \in Nat
        /\ Cardinality(T \ (L \ S)) = Cardinality(T \ L) + Cardinality(S)
    <3>1. S \in SUBSET T /\ T \ L \in SUBSET T
      BY <2>1
    <3>2. T \ (L \ S) = (T \ L) \cup S /\ (T \ L) \cap S = {}
      BY <2>1
    <3>3. IsFiniteSet(S) /\ IsFiniteSet(T \ L)
      BY <2>1, <3>1, FS_Subset
    <3>4. Cardinality((T \ L) \cup S) = Cardinality(T \ L) + Cardinality(S)
      BY <3>2, <3>3, DisjointSize
    <3> QED
      BY <3>2, <3>3, <3>4, FS_CardinalityType
  <2>3. IsFiniteSet(S \X K) /\ Cardinality(S \X K) = Cardinality(S) * Cardinality(K)
    BY <2>1, <2>2, FS_Product
  <2>4. Cardinality(K) \in Nat /\ Cardinality(S \X K) \in Nat
    BY <2>1, <2>3, FS_CardinalityType
  <2>5. \A a, s, k \in Nat : (a + s) * k = a * k + s * k
    OBVIOUS
  <2>6. Cardinality(T \ (L \ S)) * Cardinality(K) = (Cardinality(T \ L) + Cardinality(S)) * Cardinality(K)
    BY <2>2
  <2>7. (Cardinality(T \ L) + Cardinality(S)) * Cardinality(K)
          = Cardinality(T \ L) * Cardinality(K) + Cardinality(S) * Cardinality(K)
    BY <2>2, <2>4, <2>5
  <2> QED
    BY <2>3, <2>4, <2>6, <2>7 DEF T, L, K
<1>8. IsFiniteSet(got) /\ Cardinality(got) \in Nat /\ Cardinality(got) <= Cardinality(S \X batch[b].kinds)
  BY <1>5, <1>7, PartSize
<1>9. batch[b].attached \in Nat /\ batch[b].skipped \in Nat /\ batch[b].undone \in Nat
  BY <1>1 DEF Batch
<1>10. attached \in Nat /\ skipped \in Nat
       /\ attached + skipped = batch[b].attached + batch[b].skipped + Cardinality(S \X batch[b].kinds)
  BY <1>7, <1>8, <1>9
<1>11. batch' \in [Batches -> Batch] /\ batch'[b].left = batch[b].left \ S
       /\ batch'[b].attached = attached /\ batch'[b].skipped = skipped
       /\ batch'[b].undone = batch[b].undone /\ batch'[b].status = "running"
       /\ batch'[b].kinds = batch[b].kinds /\ batch'[b].targets = batch[b].targets
       /\ \A a \in Batches : a # b => batch'[a] = batch[a]
  <2> DEFINE row == [batch[b] EXCEPT !.left = batch[b].left \ S, !.attached = attached, !.skipped = skipped]
  <2> HIDE DEF attached, skipped
  <2>1. row \in Batch /\ row.left = batch[b].left \ S /\ row.attached = attached /\ row.skipped = skipped
        /\ row.undone = batch[b].undone /\ row.status = batch[b].status /\ row.kinds = batch[b].kinds
        /\ row.targets = batch[b].targets
    BY <1>1, <1>4, <1>10 DEF Batch
  <2>2. batch' = [batch EXCEPT ![b].left = batch[b].left \ S, ![b].attached = attached, ![b].skipped = skipped]
    BY <1>2 DEF PastCursor, attached, skipped
  <2>3. batch' = [batch EXCEPT ![b] = row]
    BY <1>1, <2>2
  <2> HIDE DEF row
  <2> QED
    BY <1>1, <1>3, <2>1, <2>3
<1> HIDE DEF attached, skipped
<1>12. doc \in [Clients -> [Kinds -> Agreement]] /\ copy \in Agreement /\ copy # NoDoc
       /\ copy.source = "standard" /\ copy.batch = b
  BY <1>1 DEF AgreementInv, HoldingsInv, HoldingTypes, Agreement, NoDoc
<1>13. doc' = [c \in Clients |-> [k \in Kinds |-> IF <<c, k>> \in got THEN copy ELSE doc[c][k]]]
  BY <1>2
<1>14. \A p \in got : Live(p[1]) /\ ~Holds(p[1], p[2])
  BY DEF Receiving
<1> HIDE DEF got
<1>15. \A c \in Clients, k \in Kinds : doc'[c][k] = IF <<c, k>> \in got THEN copy ELSE doc[c][k]
  BY <1>13
<1>16. doc' \in [Clients -> [Kinds -> Agreement]]
  <2> HIDE DEF copy
  <2> QED
    BY <1>12, <1>13
<1>17. HeldOnce'
  <2>1. SUFFICES ASSUME NEW c \in Clients, NEW k \in Kinds, doc'[c][k] # NoDoc PROVE mark[c][k].active = "none"
    BY <1>3 DEF HeldOnce
  <2>2. CASE <<c, k>> \in got
    BY <1>14, <2>2 DEF Holds
  <2>3. CASE <<c, k>> \notin got
    BY <1>15, <2>1, <2>3 DEF AgreementInv, HoldingsInv, HeldOnce
  <2> QED
    BY <2>2, <2>3
<1>18. HoldingsInv'
  BY <1>3, <1>16, <1>17 DEF AgreementInv, HoldingsInv, HoldingTypes, hubVars
<1>19. CopiesOf(b)' = CopiesOf(b) \cup got /\ CopiesOf(b) \cap got = {}
  <2>1. got \in SUBSET (Clients \X Kinds)
    BY <1>5 DEF got
  <2>2. ASSUME NEW c \in Clients, NEW k \in Kinds
        PROVE  (doc'[c][k] = copy) <=> (doc[c][k] = copy \/ <<c, k>> \in got)
    BY <1>15
  <2>3. ASSUME NEW c \in Clients, NEW k \in Kinds, <<c, k>> \in got PROVE doc[c][k] # copy
    BY <1>12, <1>14, <2>3 DEF Holds
  <2>4. CopiesOf(b) = {p \in Clients \X Kinds : doc[p[1]][p[2]] = copy}
        /\ CopiesOf(b)' = {p \in Clients \X Kinds : doc'[p[1]][p[2]] = copy}
    <3>1. batch'[b].status = "running" /\ On(r)' = On(r)
      BY <1>3, <1>11 DEF On
    <3> QED
      BY <3>1 DEF CopiesOf, b
  <2> HIDE DEF copy
  <2> QED
    BY <2>1, <2>2, <2>3, <2>4
<1>20. ASSUME NEW a \in Batches, a # b PROVE CopiesOf(a)' = CopiesOf(a)
  <2>1. ASSUME NEW c \in Clients, NEW k \in Kinds
        PROVE  (doc'[c][k] = [source |-> "standard", batch |-> a]) <=> (doc[c][k] = [source |-> "standard", batch |-> a])
    <3>1. CASE <<c, k>> \in got
      <4>1. doc'[c][k] = copy /\ doc[c][k] = NoDoc
        BY <1>14, <1>15, <3>1 DEF Holds
      <4>2. copy # [source |-> "standard", batch |-> a] /\ NoDoc # [source |-> "standard", batch |-> a]
        BY <1>12, <1>20 DEF NoDoc
      <4> QED
        BY <4>1, <4>2
    <3>2. CASE <<c, k>> \notin got
      BY <1>15, <3>2
    <3> QED
      BY <3>1, <3>2
  <2> QED
    BY <2>1 DEF CopiesOf
<1>21. Books(b)'
  <2>1. CopiesOf(b) \in SUBSET (Clients \X Kinds) /\ IsFiniteSet(CopiesOf(b))
    <3>1. CopiesOf(b) \in SUBSET (Clients \X Kinds)
      BY DEF CopiesOf
    <3> QED
      BY <3>1, SetsFinite, PartSize
  <2>2. Cardinality(CopiesOf(b)') = Cardinality(CopiesOf(b)) + Cardinality(got) /\ Cardinality(CopiesOf(b)) \in Nat
    BY <1>8, <1>19, <2>1, DisjointSize, FS_CardinalityType
  <2>3. batch[b].undone + Cardinality(CopiesOf(b)) <= batch[b].attached
        /\ batch[b].attached + batch[b].skipped
             = Cardinality(batch[b].targets \ batch[b].left) * Cardinality(batch[b].kinds)
    BY <1>1 DEF AgreementInv, BatchInv, Books
  <2>4. batch'[b].undone + Cardinality(CopiesOf(b)') <= batch'[b].attached
    BY <1>8, <1>9, <1>11, <2>2, <2>3 DEF attached
  <2>5. batch'[b].attached + batch'[b].skipped
          = Cardinality(batch'[b].targets \ batch'[b].left) * Cardinality(batch'[b].kinds)
    BY <1>7, <1>10, <1>11, <2>3
  <2>6. batch'[b].left \subseteq batch'[b].targets
    BY <1>4, <1>11
  <2>7. b' = b
    BY <1>3 DEF b, On
  <2> QED
    BY <1>11, <2>4, <2>5, <2>6, <2>7 DEF Books
<1>22. \A a \in Batches : Books(a)'
  <2>1. ASSUME NEW a \in Batches, a # b PROVE Books(a)'
    BY <1>11, <1>20, <2>1 DEF AgreementInv, BatchInv, Books
  <2>2. b' = b
    BY <1>3 DEF b, On
  <2> QED
    BY <1>21, <2>1, <2>2
<1>23. UndoneLeavesNothing'
  <2>1. ASSUME NEW a \in Batches, batch'[a].status = "undone" PROVE CopiesOf(a)' = {}
    <3>1. a # b
      BY <1>11, <2>1
    <3> QED
      BY <1>11, <1>20, <2>1, <3>1 DEF AgreementInv, BatchInv, UndoneLeavesNothing
  <2> QED
    BY <2>1 DEF UndoneLeavesNothing
<1>24. OneRunning'
  BY <1>3, <1>11 DEF AgreementInv, BatchInv, OneRunning
<1>25. RunnersSound' /\ runner' \in [Runners -> Runner]
  BY <1>3 DEF AgreementInv, BatchInv, RunnersSound
<1> QED
  BY <1>11, <1>18, <1>22, <1>23, <1>24, <1>25 DEF AgreementInv, BatchInv

\* An undo chunk takes some of the batch's copies and counts them.
LEMMA RemovalKeepsInv ==
  ASSUME AgreementAssumption, AgreementInv, NEW r \in Runners, RemoveCopies(r)
  PROVE  AgreementInv'
<1> DEFINE b == On(r)
           gone == Removed(b, runner[r].chunk)
           undone == batch[b].undone + Cardinality(gone)
           state == [runner[r] EXCEPT !.step = "undo", !.chunk = {}]
<1>1. b \in Batches /\ batch[b] \in Batch /\ batch \in [Batches -> Batch] /\ runner[r] \in Runner
  BY RunnerTypes DEF RemoveCopies, AgreementInv, BatchInv
<1>2. /\ doc' = [c \in Clients |-> [k \in Kinds |-> IF <<c, k>> \in gone THEN NoDoc ELSE doc[c][k]]]
      /\ batch' = [batch EXCEPT ![b].undone = undone]
      /\ SetRunner(r, state)
      /\ UNCHANGED <<client, mark, cutover, start, hubVars, budget>>
  BY DEF RemoveCopies
<1>3. b' = b
  <2>1. runner \in [Runners -> Runner]
    BY DEF AgreementInv, BatchInv
  <2> QED
    BY <1>2, <2>1 DEF On, SetRunner
<1>4. runner' \in [Runners -> Runner] /\ RunnersSound'
  <2>1. state \in Runner /\ state.batch \in Batches
    BY <1>1 DEF Runner, On
  <2> HIDE DEF state
  <2> QED
    BY <1>2, <2>1, RunnerSet
<1> HIDE DEF b, state
<1>5. gone \in SUBSET CopiesOf(b) /\ CopiesOf(b) \in SUBSET (Clients \X Kinds)
  BY DEF Removed, CopiesOf
<1> HIDE DEF gone
<1>6. IsFiniteSet(CopiesOf(b)) /\ Cardinality(CopiesOf(b)) \in Nat /\ Cardinality(gone) \in Nat
      /\ Cardinality(gone) <= Cardinality(CopiesOf(b))
  <2>1. IsFiniteSet(CopiesOf(b))
    BY <1>5, SetsFinite, PartSize
  <2> QED
    BY <1>5, <2>1, PartSize
<1>7. batch[b].undone \in Nat /\ undone \in Nat
  BY <1>1, <1>6 DEF Batch
<1>8. batch' \in [Batches -> Batch] /\ batch'[b].undone = undone /\ batch'[b].left = batch[b].left
      /\ batch'[b].attached = batch[b].attached /\ batch'[b].skipped = batch[b].skipped
      /\ batch'[b].status = batch[b].status /\ batch'[b].kinds = batch[b].kinds
      /\ batch'[b].targets = batch[b].targets
      /\ \A a \in Batches : a # b => batch'[a] = batch[a]
  <2> DEFINE row == [batch[b] EXCEPT !.undone = undone]
  <2> HIDE DEF undone
  <2>1. row \in Batch /\ row.undone = undone /\ row.left = batch[b].left /\ row.attached = batch[b].attached
        /\ row.skipped = batch[b].skipped /\ row.status = batch[b].status /\ row.kinds = batch[b].kinds
        /\ row.targets = batch[b].targets
    BY <1>1, <1>7 DEF Batch
  <2>2. batch' = [batch EXCEPT ![b] = row]
    BY <1>1, <1>2
  <2> HIDE DEF row
  <2> QED
    BY <1>1, <2>1, <2>2
<1> HIDE DEF undone
<1>9. \A c \in Clients, k \in Kinds : doc'[c][k] = IF <<c, k>> \in gone THEN NoDoc ELSE doc[c][k]
  BY <1>2
<1>10. doc' \in [Clients -> [Kinds -> Agreement]] /\ HeldOnce'
  <2>1. NoDoc \in Agreement /\ doc \in [Clients -> [Kinds -> Agreement]]
    BY DEF NoDoc, Agreement, AgreementInv, HoldingsInv, HoldingTypes
  <2>2. HeldOnce'
    BY <1>2, <1>9 DEF AgreementInv, HoldingsInv, HeldOnce
  <2> HIDE DEF NoDoc
  <2> QED
    BY <1>2, <2>1, <2>2
<1>11. HoldingsInv'
  BY <1>2, <1>10 DEF AgreementInv, HoldingsInv, HoldingTypes, hubVars
<1>12. \A a \in Batches : NoDoc # [source |-> "standard", batch |-> a]
  BY DEF NoDoc
<1>13. CopiesOf(b)' = CopiesOf(b) \ gone
  <2>1. CopiesOf(b)' = {p \in Clients \X Kinds : doc'[p[1]][p[2]] = [source |-> "standard", batch |-> b]}
    BY <1>3 DEF CopiesOf
  <2> QED
    BY <1>1, <1>9, <1>12, <2>1 DEF CopiesOf
<1>14. ASSUME NEW a \in Batches, a # b PROVE CopiesOf(a)' = CopiesOf(a)
  <2>1. ASSUME NEW c \in Clients, NEW k \in Kinds, <<c, k>> \in gone
        PROVE  doc[c][k] = [source |-> "standard", batch |-> b]
    BY <1>5, <2>1 DEF CopiesOf
  <2>2. [source |-> "standard", batch |-> b] # [source |-> "standard", batch |-> a]
    BY <1>14
  <2> QED
    BY <1>9, <1>12, <2>1, <2>2 DEF CopiesOf
<1>15. \A a \in Batches : Books(a)'
  <2>1. Cardinality(CopiesOf(b) \ gone) = Cardinality(CopiesOf(b)) - Cardinality(gone)
    BY <1>5, <1>6, WithoutSize
  <2>2. batch[b].undone + Cardinality(CopiesOf(b)) <= batch[b].attached
    BY <1>1 DEF AgreementInv, BatchInv, Books
  <2>3. batch'[b].undone + Cardinality(CopiesOf(b)') <= batch'[b].attached
    BY <1>1, <1>6, <1>7, <1>8, <1>13, <2>1, <2>2 DEF undone, Batch
  <2>4. Books(b)'
    BY <1>1, <1>3, <1>8, <2>3 DEF AgreementInv, BatchInv, Books
  <2>5. ASSUME NEW a \in Batches, a # b PROVE Books(a)'
    BY <1>8, <1>14, <2>5 DEF AgreementInv, BatchInv, Books
  <2> QED
    BY <1>3, <2>4, <2>5
<1>16. UndoneLeavesNothing'
  <2>1. ASSUME NEW a \in Batches, batch'[a].status = "undone" PROVE CopiesOf(a)' = {}
    <3>1. CopiesOf(a) = {}
      BY <1>8, <2>1 DEF AgreementInv, BatchInv, UndoneLeavesNothing
    <3>2. CASE a = b
      BY <1>3, <1>13, <3>1, <3>2
    <3>3. CASE a # b
      BY <1>14, <3>1, <3>3
    <3> QED
      BY <3>2, <3>3
  <2> QED
    BY <2>1 DEF UndoneLeavesNothing
<1>17. OneRunning'
  BY <1>8 DEF AgreementInv, BatchInv, OneRunning
<1> QED
  BY <1>4, <1>8, <1>11, <1>15, <1>16, <1>17 DEF AgreementInv, BatchInv

LEMMA BatchesKeepInv ==
  ASSUME AgreementAssumption, AgreementInv, BatchNext
  PROVE  AgreementInv'
<1>1. CASE StartFails \/ \E T \in SUBSET Clients, K \in SUBSET Kinds : StartRead(T, K)
  BY <1>1, StartsKeepInv
<1>2. CASE \E b \in Batches : StartCommit(b) \/ StartUndo(b)
  BY <1>2, CommitKeepsInv, UndoKeepsInv
<1>3. CASE \E r \in Runners :
             RunnerStep(r) \/ ChunkFails(r) \/ KillRunner(r) \/ \E b \in Batches : TakeBatch(r, b)
  BY <1>3, RunnersKeepInv, EndsKeepInv, ChunkKeepsInv, RemovalKeepsInv DEF RunnerStep
<1> QED
  BY <1>1, <1>2, <1>3 DEF BatchNext

LEMMA InitHoldsInv ==
  ASSUME AgreementAssumption, Init
  PROVE  AgreementInv
<1>1. HoldingTypes
  <2>1. NoDoc \in Agreement /\ NoMark \in Mark /\ NoStart \in Start
        /\ NoApply \in [on : BOOLEAN, todo : SUBSET Clients]
    BY DEF NoDoc, Agreement, NoMark, Mark, NoStart, Start, NoApply
  <2>2. client \in [Clients -> Client]
    BY DEF Init, Client
  <2>3. budget \in [writes : 0..MaxWrites, kills : 0..MaxKills]
    BY DEF AgreementAssumption, Init
  <2> HIDE DEF NoDoc, NoMark, NoStart, NoApply
  <2>4. doc \in [Clients -> [Kinds -> Agreement]] /\ mark \in [Clients -> [Kinds -> Mark]]
    BY <2>1 DEF Init
  <2> QED
    BY <2>1, <2>2, <2>3, <2>4 DEF Init, HoldingTypes
<1>2. HeldOnce
  BY DEF Init, HeldOnce, NoDoc, NoMark
<1>3. NoBatch \in Batch /\ Idle \in Runner
  BY DEF NoBatch, Batch, Status, Idle, Runner
<1>4. batch \in [Batches -> Batch] /\ runner \in [Runners -> Runner] /\ RunnersSound
  BY <1>3 DEF Init, RunnersSound
<1>5. \A b \in Batches : CopiesOf(b) = {}
  BY DEF Init, CopiesOf, NoDoc
<1>6. OneRunning /\ UndoneLeavesNothing
  BY <1>5 DEF Init, OneRunning, UndoneLeavesNothing, NoBatch, Active
<1>7. \A b \in Batches : Books(b)
  <2>1. Cardinality({}) = 0 /\ {} \ {} = {}
    BY FS_EmptySet
  <2>2. Cardinality({} \ {}) * Cardinality({}) = 0
    <3>1. 0 * 0 = 0
      OBVIOUS
    <3> QED
      BY <2>1, <3>1
  <2>3. ASSUME NEW b \in Batches PROVE Books(b)
    <3>1. batch[b] = NoBatch /\ CopiesOf(b) = {}
      BY <1>5 DEF Init
    <3>2. NoBatch.left = {} /\ NoBatch.targets = {} /\ NoBatch.kinds = {} /\ NoBatch.attached = 0
          /\ NoBatch.skipped = 0 /\ NoBatch.undone = 0 /\ NoBatch.status = "none"
      BY DEF NoBatch
    <3> QED
      BY <2>1, <2>2, <3>1, <3>2 DEF Books
  <2> QED
    BY <2>3
<1> QED
  BY <1>1, <1>2, <1>4, <1>6, <1>7 DEF AgreementInv, HoldingsInv, BatchInv

(***************************************************************************)
(* Theorems.                                                               *)
(***************************************************************************)

\* The invariant holds whoever writes, and whichever runners take a batch, die or
\* fail.
THEOREM AgreementCorrect == Spec => []AgreementInv
<1>1. Init => AgreementInv
  BY InitHoldsInv, AgreementAssumption
<1>2. AgreementInv /\ [Next]_vars => AgreementInv'
  <2>1. CASE Next
    BY <2>1, ClientsKeepInv, BatchesKeepInv, MarksKeepInv, AgreementAssumption DEF Next
  <2>2. CASE UNCHANGED vars
    <3>1. UNCHANGED <<client, doc, mark, cutover, start, batch, runner, covered, apply, budget>>
      BY <2>2 DEF vars, peopleVars, jobVars, hubVars
    <3>2. ASSUME AgreementInv PROVE AgreementInv'
      <4>1. HoldingsInv'
        BY <3>1, <3>2, HoldingsFrame DEF AgreementInv, HoldingsInv, HoldingTypes
      <4>2. BatchInv'
        BY <3>1, <3>2, BatchFrame, AgreementAssumption DEF AgreementInv, CopiesOf
      <4> QED
        BY <4>1, <4>2 DEF AgreementInv
    <3> QED
      BY <3>2
  <2> QED
    BY <2>1, <2>2
<1> QED
  BY <1>1, <1>2, PTL DEF Spec

\* Every table keeps its shape.
THEOREM AgreementTypes == Spec => []TypeOK
<1>1. AgreementInv => TypeOK
  BY DEF AgreementInv, HoldingsInv, HoldingTypes, BatchInv, TypeOK
<1> QED
  BY <1>1, AgreementCorrect, PTL

\* A client holds a kind once: as a file or as a mark.
THEOREM KindHeldOnce == Spec => []HeldOnce
<1>1. AgreementInv => HeldOnce
  BY DEF AgreementInv, HoldingsInv
<1> QED
  BY <1>1, AgreementCorrect, PTL

\* At most one batch runs or undoes.
THEOREM OneBatchAtATime == Spec => []OneRunning
<1>1. AgreementInv => OneRunning
  BY DEF AgreementInv, BatchInv
<1> QED
  BY <1>1, AgreementCorrect, PTL

\* A finished batch has counted every target once for every kind, and an undo
\* takes back no more copies than were attached.
THEOREM BatchBooksBalance == Spec => []BatchAddsUp
<1>1. ASSUME AgreementInv PROVE BatchAddsUp
  <2>1. SUFFICES ASSUME NEW b \in Batches
                 PROVE  /\ batch[b].status = "done" => batch[b].attached + batch[b].skipped
                             = Cardinality(batch[b].targets) * Cardinality(batch[b].kinds)
                        /\ batch[b].undone <= batch[b].attached
    BY DEF BatchAddsUp
  <2>2. Books(b) /\ batch[b] \in Batch
    BY <1>1 DEF AgreementInv, BatchInv
  <2>3. batch[b].undone <= batch[b].attached
    <3>1. CopiesOf(b) \in SUBSET (Clients \X Kinds)
      BY DEF CopiesOf
    <3>2. Cardinality(CopiesOf(b)) \in Nat
      BY <3>1, AgreementAssumption, SetsFinite, PartSize
    <3> QED
      BY <2>2, <3>2 DEF Books, Batch
  <2>4. ASSUME batch[b].status = "done"
        PROVE  batch[b].attached + batch[b].skipped = Cardinality(batch[b].targets) * Cardinality(batch[b].kinds)
    <3>1. batch[b].targets \ batch[b].left = batch[b].targets
      BY <2>2, <2>4 DEF Books
    <3> QED
      BY <2>2, <3>1 DEF Books
  <2> QED
    BY <2>3, <2>4
<1> QED
  BY <1>1, AgreementCorrect, PTL

\* An undone batch has left no copy behind.
THEOREM UndoIsComplete == Spec => []UndoneLeavesNothing
<1>1. AgreementInv => UndoneLeavesNothing
  BY DEF AgreementInv, BatchInv
<1> QED
  BY <1>1, AgreementCorrect, PTL

\* Only an undo chunk counts what it took.
LEMMA OthersTakeNothing ==
  ASSUME AgreementInv, Next, \A r \in Runners : ~RemoveCopies(r), NEW b \in Batches
  PROVE  batch'[b].undone = batch[b].undone
<1>1. batch \in [Batches -> Batch] /\ batch[b] \in Batch
  BY DEF AgreementInv, BatchInv
<1>2. CASE ClientNext \/ MarksNext
  BY <1>2 DEF ClientNext, StoreClientCopy, AttachStandard, SetMark, RemoveMark, Detach, SetRelationship, OpenClient,
     CommitClient, DeleteClient, Settle, MarksNext, SaveMapping, LoadCandidates, MarkChunk, ApplyFails, jobVars
<1>3. CASE StartFails \/ \E T \in SUBSET Clients, K \in SUBSET Kinds : StartRead(T, K)
  BY <1>3 DEF StartFails, StartRead
<1>4. ASSUME NEW a \in Batches, StartCommit(a) PROVE batch'[b].undone = batch[b].undone
  <2> DEFINE row == [NoBatch EXCEPT !.status = "running", !.kinds = start.kinds, !.targets = start.targets,
                                    !.left = start.targets]
  <2>1. batch' = [batch EXCEPT ![a] = row] /\ batch[a] = NoBatch
    BY <1>4 DEF StartCommit
  <2>2. row.undone = NoBatch.undone
    BY DEF NoBatch
  <2> HIDE DEF row
  <2> QED
    BY <1>1, <2>1, <2>2
<1>5. ASSUME NEW a \in Batches, StartUndo(a) PROVE batch'[b].undone = batch[b].undone
  BY <1>1, <1>5 DEF StartUndo, Batch
<1>6. ASSUME NEW r \in Runners, RunChunk(r) PROVE batch'[b].undone = batch[b].undone
  <2>1. On(r) \in Batches /\ batch[On(r)] \in Batch
    BY <1>6, RunnerTypes DEF RunChunk
  <2>2. PICK S : batch' = [batch EXCEPT ![On(r)].left = PastCursor(On(r), S),
          ![On(r)].attached = batch[On(r)].attached + Cardinality(Receiving(On(r), S)),
          ![On(r)].skipped = batch[On(r)].skipped + Cardinality(S \X batch[On(r)].kinds)
                               - Cardinality(Receiving(On(r), S))]
    BY <1>6 DEF RunChunk
  <2> QED
    BY <1>1, <2>1, <2>2 DEF Batch
<1>7. ASSUME NEW r \in Runners, FinishRun(r) \/ FinishUndo(r) \/ RecordFailure(r)
      PROVE  batch'[b].undone = batch[b].undone
  BY <1>1, <1>7 DEF FinishRun, FinishUndo, RecordFailure, Batch
<1>8. ASSUME NEW r \in Runners,
             \/ ReadHolders(r) \/ StopRunner(r) \/ ChunkFails(r) \/ KillRunner(r)
             \/ \E a \in Batches : TakeBatch(r, a)
      PROVE  batch'[b].undone = batch[b].undone
  BY <1>8 DEF ReadHolders, StopRunner, ChunkFails, KillRunner, TakeBatch
<1> QED
  BY <1>2, <1>3, <1>4, <1>5, <1>6, <1>7, <1>8 DEF Next, BatchNext, RunnerStep

\* An undo takes its own batch's copies only, also when the clients it picked
\* have changed since.
THEOREM UndoSparesOthers == Spec => UndoTakesOwnCopies
<1> DEFINE Own == \A b \in Batches : batch'[b].undone > batch[b].undone =>
                    \A c \in Clients, k \in Kinds :
                      doc'[c][k] # doc[c][k] => doc[c][k] = [source |-> "standard", batch |-> b]
<1>1. ASSUME AgreementInv, Next PROVE Own
  <2>1. SUFFICES ASSUME NEW b \in Batches, batch'[b].undone > batch[b].undone,
                        NEW c \in Clients, NEW k \in Kinds, doc'[c][k] # doc[c][k]
                 PROVE  doc[c][k] = [source |-> "standard", batch |-> b]
    OBVIOUS
  <2>2. batch \in [Batches -> Batch] /\ batch[b].undone \in Nat
    BY <1>1 DEF AgreementInv, BatchInv, Batch
  <2>3. PICK r \in Runners : RemoveCopies(r)
    <3>1. ~(batch[b].undone > batch[b].undone)
      BY <2>2
    <3> QED
      BY <1>1, <2>1, <3>1, OthersTakeNothing
  <2> DEFINE gone == Removed(On(r), runner[r].chunk)
             more == batch[On(r)].undone + Cardinality(gone)
  <2>4. /\ doc' = [x \in Clients |-> [y \in Kinds |-> IF <<x, y>> \in gone THEN NoDoc ELSE doc[x][y]]]
        /\ batch' = [batch EXCEPT ![On(r)].undone = more]
    BY <2>3 DEF RemoveCopies
  <2> HIDE DEF more
  <2>5. On(r) = b
    <3>1. On(r) # b => batch'[b] = batch[b]
      BY <2>2, <2>4
    <3> QED
      BY <2>1, <2>2, <3>1
  <2>6. <<c, k>> \in gone
    <3> HIDE DEF gone
    <3> QED
      BY <2>1, <2>4
  <2> QED
    BY <2>5, <2>6 DEF Removed, CopiesOf
<1>2. ASSUME UNCHANGED vars PROVE Own
  BY <1>2 DEF vars, peopleVars
<1>3. AgreementInv /\ [Next]_vars => [Own]_vars
  BY <1>1, <1>2
<1> QED
  BY <1>3, AgreementCorrect, PTL DEF Spec, UndoTakesOwnCopies

\* The mapping marks nobody who holds the kind, and nobody whose mark a person
\* removed.
THEOREM MappingRespectsPeople == Spec => RemovedMarkStays
<1> DEFINE Respects == \A c \in Clients, k \in Kinds :
             mark'[c][k].active = "hubspot" /\ mark[c][k].active # "hubspot" => ~Holds(c, k) /\ ~mark[c][k].past
<1>1. ASSUME AgreementInv, Next PROVE Respects
  <2>1. mark \in [Clients -> [Kinds -> Mark]]
    BY <1>1 DEF AgreementInv, HoldingsInv, HoldingTypes
  <2>2. SUFFICES ASSUME NEW c \in Clients, NEW k \in Kinds,
                        mark'[c][k].active = "hubspot", mark[c][k].active # "hubspot"
                 PROVE  ~Holds(c, k) /\ ~mark[c][k].past
    OBVIOUS
  <2>3. CASE MarkChunk
    <3>1. PICK S : mark' = [x \in Clients |-> IF x \in S /\ Eligible(x)
                                              THEN [mark[x] EXCEPT ![MSA].active = "hubspot"] ELSE mark[x]]
      BY <2>3 DEF MarkChunk
    <3>2. c \in S /\ Eligible(c)
      BY <2>2, <3>1
    <3>3. k = MSA
      BY <2>1, <2>2, <3>1, <3>2
    <3> QED
      BY <3>2, <3>3 DEF Eligible, HoldsNoMsa
  <2>4. ASSUME NEW x \in Clients, NEW y \in Kinds, NEW m, m.active # "hubspot", mark' = [mark EXCEPT ![x][y] = m]
        PROVE  FALSE
    <3>1. mark'[c][k] = mark[c][k] \/ mark'[c][k] = m
      BY <2>1, <2>4
    <3> QED
      BY <2>2, <2>4, <3>1
  <2>5. ASSUME NEW x \in Clients, NEW y \in Kinds,
               StoreClientCopy(x, y) \/ RemoveMark(x, y) \/ SetMark(x, y)
        PROVE  FALSE
    <3>1. mark[x][y] \in Mark /\ Retired(mark[x][y]) \in Mark /\ Retired(mark[x][y]).active = "none"
      BY <1>1, CellTypes DEF AgreementInv
    <3>2. CASE StoreClientCopy(x, y) \/ RemoveMark(x, y)
      <4>1. mark' = [mark EXCEPT ![x][y] = Retired(mark[x][y])]
        BY <3>2 DEF StoreClientCopy, RemoveMark, TakeMarksPlace, Retire
      <4> QED
        BY <2>4, <3>1, <4>1
    <3>3. CASE SetMark(x, y)
      <4> DEFINE m == [Retired(mark[x][y]) EXCEPT !.active = "dealgate"]
      <4>1. mark' = [mark EXCEPT ![x][y] = m]
        BY <3>3 DEF SetMark
      <4>2. m.active = "dealgate"
        BY <3>1 DEF Mark
      <4> HIDE DEF m
      <4> QED
        BY <2>4, <4>1, <4>2
    <3> QED
      BY <2>5, <3>2, <3>3
  <2>6. ASSUME NEW x \in Clients, DeleteClient(x) PROVE FALSE
    <3>1. mark' = [mark EXCEPT ![x] = [y \in Kinds |-> NoMark]] /\ NoMark.active = "none"
      BY <2>6 DEF DeleteClient, NoMark
    <3>2. mark'[c][k] = mark[c][k] \/ mark'[c][k] = NoMark
      BY <2>1, <3>1
    <3> QED
      BY <2>2, <3>1, <3>2
  <2>7. ASSUME mark' = mark PROVE FALSE
    BY <2>2, <2>7
  <2>8. CASE ClientNext
    <3>1. PICK x \in Clients :
            \/ SetRelationship(x) \/ OpenClient(x) \/ CommitClient(x) \/ DeleteClient(x) \/ Settle(x)
            \/ \E y \in Kinds :
                 StoreClientCopy(x, y) \/ AttachStandard(x, y) \/ SetMark(x, y) \/ RemoveMark(x, y) \/ Detach(x, y)
      BY <2>8 DEF ClientNext
    <3> QED
      BY <2>5, <2>6, <2>7, <3>1 DEF SetRelationship, OpenClient, CommitClient, Settle, AttachStandard, Detach
  <2>9. CASE BatchNext
    BY <2>7, <2>9 DEF BatchNext, StartRead, StartCommit, StartFails, StartUndo, RunnerStep, RunChunk, FinishRun,
       ReadHolders, RemoveCopies, FinishUndo, StopRunner, RecordFailure, ChunkFails, KillRunner, TakeBatch, peopleVars
  <2>10. CASE MarksNext /\ ~MarkChunk
    BY <2>7, <2>10 DEF MarksNext, SaveMapping, LoadCandidates, ApplyFails, peopleVars
  <2> QED
    BY <1>1, <2>3, <2>8, <2>9, <2>10 DEF Next, MarksNext
<1>2. ASSUME UNCHANGED vars PROVE Respects
  BY <1>2 DEF vars, peopleVars
<1>3. AgreementInv /\ [Next]_vars => [Respects]_vars
  BY <1>1, <1>2
<1> QED
  BY <1>3, AgreementCorrect, PTL DEF Spec, RemovedMarkStays
==================================================================================
