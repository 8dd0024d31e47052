--------------------------- MODULE PipelineProofs ---------------------------
(***************************************************************************)
(* Proofs about Pipeline, for every value of its constants.                *)
(***************************************************************************)
EXTENDS Pipeline, NatLemmas, TLAPS

\* The row a fold picks first is one of the rows it picks from, and none is earlier.
LEMMA EarliestInSet ==
  ASSUME NEW S, S # {}, NEW r, \A k \in S : r[k].first \in Nat
  PROVE  /\ Earliest(S, r) \in S
         /\ \A j \in S : r[Earliest(S, r)].first <= r[j].first
<1> DEFINE F == {r[k].first : k \in S}
<1>1. F \in SUBSET Nat /\ F # {}
  OBVIOUS
<1>2. PICK m \in F : \A n \in F : m <= n
  <2> HIDE DEF F
  <2> QED BY <1>1, LeastNat
<1>3. \E k \in S : \A j \in S : r[k].first <= r[j].first
  BY <1>2
<1> QED BY <1>3 DEF Earliest

-----------------------------------------------------------------------------
(***************************************************************************)
(* The inductive invariant.                                                *)
(***************************************************************************)
LEMMA InitInv == Init => IInv
<1> SUFFICES ASSUME Init PROVE IInv
  OBVIOUS
<1>1. \A k \in Keys : Absent(k) \in Row
  BY PipelineAssumption DEF Absent, Row, Statuses
<1>2. TypeOK
  BY <1>1, PipelineAssumption DEF Init, TypeOK, Stages, IsCopy
<1>3. AbsentUnseen /\ WorkFresh /\ OneInHand /\ FoldsFresh
  BY DEF Init, AbsentUnseen, Absent, WorkFresh, OneInHand, FoldsFresh
<1>4. PublishedOnVerdict /\ HandedBound
  BY PipelineAssumption DEF Init, PublishedOnVerdict, HandedBound, Absent
<1>5. BatchPublished /\ AnnouncedLate /\ AnnouncedAtMostOnce
  BY DEF Init, BatchPublished, AnnouncedLate, AnnouncedAtMostOnce
<1> QED BY <1>2, <1>3, <1>4, <1>5 DEF IInv

(***************************************************************************)
(* The records the stages write back: rows again, with the fields the      *)
(* invariant reads.                                                        *)
(***************************************************************************)
LEMMA NewRowIsRow ==
  ASSUME NEW k \in Keys, NEW src \in Sources, clock \in Nat
  PROVE  /\ NewRow(k, src) \in Row
         /\ NewRow(k, src).status = "pending"
<1>1. Absent(k) \in Row
  BY PipelineAssumption DEF Absent, Row, Statuses
<1> QED BY <1>1 DEF NewRow, Row, Statuses

\* A sighting adds a source, and decides nothing.
LEMMA SightedRow ==
  ASSUME NEW r \in Row, NEW src \in Sources
  PROVE  /\ Sighted(r, src) \in Row
         /\ Sighted(r, src).status = r.status
         /\ Sighted(r, src).verdict = r.verdict
         /\ r.sources \subseteq Sighted(r, src).sources
BY DEF Row, Sighted

\* A row the gate passes keeps its sources and its verdict.
LEMMA GatedRow ==
  ASSUME NEW r \in Row, NEW u \in Urls
  PROVE  /\ Gated(r, u) \in Row
         /\ Gated(r, u).status = "gated"
         /\ Gated(r, u).verdict = r.verdict
         /\ Gated(r, u).sources = r.sources
BY DEF Row, Statuses, Gated

\* A row the gate refuses keeps its sources and its verdict.
LEMMA RefusedRow ==
  ASSUME NEW r \in Row
  PROVE  /\ Refused(r) \in Row
         /\ Refused(r).status = "rejected"
         /\ Refused(r).verdict = r.verdict
         /\ Refused(r).sources = r.sources
BY DEF Row, Statuses, Refused

\* A row folded into another keeps its sources and its verdict.
LEMMA FoldedRow ==
  ASSUME NEW r \in Row, NEW s \in Keys
  PROVE  /\ Folded(r, s) \in Row
         /\ Folded(r, s).status = "rejected"
         /\ Folded(r, s).verdict = r.verdict
         /\ Folded(r, s).sources = r.sources
BY DEF Row, Statuses, Folded

\* An approval is a status and its verdict together.
LEMMA ApprovedRow ==
  ASSUME NEW r \in Row
  PROVE  /\ Approved(r) \in Row
         /\ Approved(r).status = "verified"
         /\ Approved(r).verdict = "approved"
         /\ Approved(r).sources = r.sources
BY DEF Row, Statuses, Approved

\* A denial keeps the row's sources.
LEMMA DeniedRow ==
  ASSUME NEW r \in Row
  PROVE  /\ Denied(r) \in Row
         /\ Denied(r).status = "rejected"
         /\ Denied(r).sources = r.sources
BY DEF Row, Statuses, Denied

\* A row that is published keeps its sources and its verdict.
LEMMA PublishedRow ==
  ASSUME NEW r \in Row
  PROVE  /\ Published(r) \in Row
         /\ Published(r).status = "published"
         /\ Published(r).verdict = r.verdict
         /\ Published(r).sources = r.sources
BY DEF Row, Statuses, Published

\* The survivor of a merge keeps its status, its sources and the verdict it has.
LEMMA MergedRow ==
  ASSUME NEW r \in Row, NEW d \in Row
  PROVE  /\ Merge(r, d) \in Row
         /\ Merge(r, d).status = r.status
         /\ r.verdict # "none" => Merge(r, d).verdict = r.verdict
         /\ r.sources \subseteq Merge(r, d).sources
BY DEF Row, Merge

-----------------------------------------------------------------------------
(***************************************************************************)
(* What each writing action does to the table, given the invariant: row k  *)
(* becomes r, and nothing a detector reported about it is lost.            *)
(***************************************************************************)
Writes(k, r) ==
  /\ r \in Row
  /\ rows' = [rows EXCEPT ![k] = r]
  /\ rows[k].sources \subseteq r.sources

\* A detection writes a new pending row, or a row with the status and verdict it had.
LEMMA UpsertWrites ==
  ASSUME IInv, NEW k \in Keys, NEW src \in Sources, UpsertDetection(k, src)
  PROVE  \E r \in Row :
           /\ Writes(k, r)
           /\ \/ rows[k].status = "absent" /\ r.status = "pending"
              \/ /\ rows[k].status # "absent"
                 /\ r.status = rows[k].status
                 /\ r.verdict = rows[k].verdict
<1>1. rows[k] \in Row /\ clock \in Nat
  BY DEF IInv, TypeOK
<1>2. CASE rows[k].status # "absent"
  <2>1. rows' = [rows EXCEPT ![k] = Sighted(rows[k], src)]
    BY <1>2 DEF UpsertDetection, Write
  <2>2. /\ Sighted(rows[k], src) \in Row
        /\ Sighted(rows[k], src).status = rows[k].status
        /\ Sighted(rows[k], src).verdict = rows[k].verdict
        /\ rows[k].sources \subseteq Sighted(rows[k], src).sources
    BY <1>1, SightedRow
  <2>3. Writes(k, Sighted(rows[k], src))
    BY <2>1, <2>2 DEF Writes
  <2> QED BY <1>2, <2>2, <2>3
<1>3. CASE rows[k].status = "absent"
  <2>1. rows' = [rows EXCEPT ![k] = NewRow(k, src)]
    BY <1>3 DEF UpsertDetection, Write
  <2>2. rows[k].sources = {}
    BY <1>3 DEF IInv, AbsentUnseen
  <2>3. NewRow(k, src) \in Row /\ NewRow(k, src).status = "pending"
    BY <1>1, NewRowIsRow
  <2>4. Writes(k, NewRow(k, src))
    BY <2>1, <2>2, <2>3 DEF Writes
  <2> QED BY <1>3, <2>3, <2>4
<1> QED BY <1>2, <1>3

\* The gate writes a pending row of its work list, as gated or rejected.
LEMMA GateWrites ==
  ASSUME IInv, NEW k \in Keys, Gate(k)
  PROVE  /\ pc = "gate" /\ k \in DOMAIN work /\ rows[k].status = "pending"
         /\ \E r \in Row :
              /\ Writes(k, r)
              /\ r.status \in {"rejected", "gated"}
              /\ r.verdict = rows[k].verdict
<1>1. /\ pc = "gate" /\ k \in DOMAIN work /\ rows[k].status = "pending"
      /\ work[k] = rows[k] /\ rows[k] \in Row
  BY DEF Gate, IInv, WorkFresh, TypeOK
<1>2. CASE Write(k, Refused(work[k]))
  BY <1>1, <1>2, RefusedRow DEF Write, Writes
<1>3. ASSUME NEW u \in Landings(UrlOf[k]), Write(k, Gated(work[k], u))
      PROVE  \E r \in Row : /\ Writes(k, r)
                            /\ r.status \in {"rejected", "gated"}
                            /\ r.verdict = rows[k].verdict
  <2>1. u \in Urls
    BY <1>3, PipelineAssumption DEF Landings
  <2> QED BY <1>1, <1>3, <2>1, GatedRow DEF Write, Writes
<1> QED BY <1>1, <1>2, <1>3 DEF Gate

\* The copy of a survivor the pass works on, and the duplicate it writes next.
LEMMA FoldCopies ==
  ASSUME IInv, NEW f \in folds
  PROVE  /\ pc = "reconcile" /\ f.keep \in Keys /\ f.left \subseteq Keys
         /\ f.copy[f.keep] \in Row
         /\ \A d \in f.left : f.copy[d] \in Row /\ f.copy[d] = rows[d] /\ Live(d)
         /\ f.left # {} => Earliest(f.left, f.copy) \in f.left
<1>1. IsFold(f) /\ FoldFresh(f) /\ pc = "reconcile"
  BY DEF IInv, TypeOK, FoldsFresh
<1>2. \A k \in DOMAIN f.copy : f.copy[k] \in Row /\ f.copy[k].first \in Nat
  BY <1>1 DEF IsFold, IsCopy, Row
<1>3. f.left # {} => Earliest(f.left, f.copy) \in f.left
  BY <1>1, <1>2, EarliestInSet DEF FoldFresh
<1> QED BY <1>1, <1>2, <1>3 DEF IsFold, FoldFresh

\* A fold rejects the earliest live duplicate it has left.
LEMMA DuplicateWrites ==
  ASSUME IInv, NEW f \in folds, FoldDuplicate(f)
  PROVE  \E d \in f.left, r \in Row :
           /\ d = Earliest(f.left, f.copy)
           /\ Live(d)
           /\ Writes(d, r)
           /\ r.status = "rejected"
           /\ r.verdict = rows[d].verdict
<1> DEFINE d == Earliest(f.left, f.copy)
<1>1. d \in f.left /\ f.copy[d] \in Row /\ f.copy[d] = rows[d] /\ Live(d) /\ f.keep \in Keys
  BY FoldCopies DEF FoldDuplicate
<1>2. rows' = [rows EXCEPT ![d] = Folded(f.copy[d], f.keep)]
  BY DEF FoldDuplicate, Write
<1> HIDE DEF d
<1>3. /\ Writes(d, Folded(f.copy[d], f.keep))
      /\ Folded(f.copy[d], f.keep) \in Row
      /\ Folded(f.copy[d], f.keep).status = "rejected"
      /\ Folded(f.copy[d], f.keep).verdict = rows[d].verdict
  BY <1>1, <1>2, FoldedRow DEF Writes
<1> QED BY <1>1, <1>3 DEF d

\* A fold's last write is its survivor's, which stays where it was.
LEMMA SurvivorWrites ==
  ASSUME IInv, NEW f \in folds, FoldSurvivor(f)
  PROVE  /\ f.left = {} /\ folds' = folds \ {f} /\ f.keep \in Keys /\ Live(f.keep)
         /\ Writes(f.keep, f.copy[f.keep])
         /\ f.copy[f.keep].status = rows[f.keep].status
         /\ rows[f.keep].verdict # "none" => f.copy[f.keep].verdict = rows[f.keep].verdict
<1>1. FoldFresh(f)
  BY DEF IInv, FoldsFresh
<1> QED BY <1>1, FoldCopies DEF FoldSurvivor, Write, Writes, FoldFresh

\* The verifier writes a gated row of its work list, as approved or rejected.
LEMMA VerifyWrites ==
  ASSUME IInv, NEW k \in Keys, Verify(k)
  PROVE  /\ pc = "verify" /\ k \in DOMAIN work /\ rows[k].status = "gated"
         /\ \E r \in Row :
              /\ Writes(k, r)
              /\ \/ r.status = "verified" /\ r.verdict = "approved"
                 \/ r.status = "rejected"
<1>1. /\ pc = "verify" /\ k \in DOMAIN work /\ rows[k].status = "gated"
      /\ work[k] = rows[k] /\ rows[k] \in Row
  BY DEF Verify, IInv, WorkFresh, TypeOK
<1> QED BY <1>1, ApprovedRow, DeniedRow DEF Verify, Write, Writes

\* The stamp makes a verified row in hand a published one.
LEMMA StampWrites ==
  ASSUME IInv, NEW k \in Keys, StampPublished(k)
  PROVE  /\ pc = "publish" /\ inHand = {k} /\ rows[k].status = "verified"
         /\ \E r \in Row :
              /\ Writes(k, r)
              /\ r.status = "published"
              /\ r.verdict = rows[k].verdict
<1>1. /\ pc = "publish" /\ inHand = {k} /\ rows[k].status = "verified"
      /\ work[k] = rows[k] /\ rows[k] \in Row
  BY DEF StampPublished, IInv, OneInHand, WorkFresh, TypeOK
<1> QED BY <1>1, PublishedRow DEF StampPublished, Write, Writes

-----------------------------------------------------------------------------
(***************************************************************************)
(* Every action preserves the invariant.                                   *)
(***************************************************************************)
LEMMA UpsertInv ==
  ASSUME IInv, NEW k \in Keys, NEW src \in Sources, UpsertDetection(k, src)
  PROVE  IInv'
<1> USE DEF IInv
<1>1. PICK r \in Row :
        /\ Writes(k, r)
        /\ \/ rows[k].status = "absent" /\ r.status = "pending"
           \/ /\ rows[k].status # "absent"
              /\ r.status = rows[k].status
              /\ r.verdict = rows[k].verdict
  BY UpsertWrites
<1>2. pc = "detect" /\ DOMAIN work = {} /\ folds = {} /\ inHand = {} /\ batch = {}
  BY DEF UpsertDetection, WorkFresh, FoldsFresh, OneInHand, BatchPublished
<1>3. TypeOK'
  BY <1>1 DEF UpsertDetection, TypeOK, Writes, memory, hooks
<1>4. AbsentUnseen' /\ WorkFresh' /\ OneInHand' /\ FoldsFresh'
  BY <1>1, <1>2 DEF UpsertDetection, TypeOK, AbsentUnseen, WorkFresh, OneInHand, FoldsFresh,
                    Writes, memory
<1>5. PublishedOnVerdict' /\ HandedBound'
  BY <1>1 DEF UpsertDetection, TypeOK, PublishedOnVerdict, HandedBound, Writes, memory, hooks
<1>6. BatchPublished' /\ AnnouncedLate' /\ AnnouncedAtMostOnce'
  BY <1>1, <1>2 DEF UpsertDetection, TypeOK, BatchPublished, AnnouncedLate,
                    AnnouncedAtMostOnce, Writes, memory, hooks
<1> QED BY <1>3, <1>4, <1>5, <1>6

\* Gating a row keeps the invariant.
LEMMA GateInv ==
  ASSUME IInv, NEW k \in Keys, Gate(k)
  PROVE  IInv'
<1> USE DEF IInv
<1>1. /\ pc = "gate" /\ k \in DOMAIN work /\ rows[k].status = "pending"
      /\ folds = {} /\ inHand = {} /\ batch = {}
  BY GateWrites DEF FoldsFresh, OneInHand, BatchPublished
<1>2. PICK r \in Row : /\ Writes(k, r)
                       /\ r.status \in {"rejected", "gated"}
                       /\ r.verdict = rows[k].verdict
  BY GateWrites
<1>3. TypeOK'
  BY <1>2 DEF Gate, TypeOK, Writes, Handled, IsCopy, hooks
<1>4. AbsentUnseen' /\ WorkFresh' /\ OneInHand' /\ FoldsFresh'
  BY <1>1, <1>2 DEF Gate, TypeOK, AbsentUnseen, WorkFresh, OneInHand, FoldsFresh, Writes,
                    Handled, IsCopy
<1>5. PublishedOnVerdict' /\ HandedBound'
  BY <1>1, <1>2 DEF Gate, TypeOK, PublishedOnVerdict, HandedBound, Writes, hooks
<1>6. BatchPublished' /\ AnnouncedLate' /\ AnnouncedAtMostOnce'
  BY <1>1, <1>2 DEF Gate, TypeOK, BatchPublished, AnnouncedLate, AnnouncedAtMostOnce,
                    Writes, hooks
<1> QED BY <1>3, <1>4, <1>5, <1>6

\* Verifying a row keeps the invariant.
LEMMA VerifyInv ==
  ASSUME IInv, NEW k \in Keys, Verify(k)
  PROVE  IInv'
<1> USE DEF IInv
<1>1. /\ pc = "verify" /\ k \in DOMAIN work /\ rows[k].status = "gated" /\ handed[k] = 0
      /\ folds = {} /\ inHand = {} /\ batch = {}
  BY VerifyWrites DEF FoldsFresh, OneInHand, BatchPublished, HandedBound
<1>2. PICK r \in Row : /\ Writes(k, r)
                       /\ \/ r.status = "verified" /\ r.verdict = "approved"
                          \/ r.status = "rejected"
  BY VerifyWrites
<1>3. TypeOK'
  BY <1>2 DEF Verify, TypeOK, Writes, Handled, IsCopy, hooks
<1>4. AbsentUnseen' /\ WorkFresh' /\ OneInHand' /\ FoldsFresh'
  BY <1>1, <1>2 DEF Verify, TypeOK, AbsentUnseen, WorkFresh, OneInHand, FoldsFresh, Writes,
                    Handled, IsCopy
<1>5. PublishedOnVerdict' /\ HandedBound'
  BY <1>1, <1>2 DEF Verify, TypeOK, PublishedOnVerdict, HandedBound, Writes, hooks
<1>6. BatchPublished' /\ AnnouncedLate' /\ AnnouncedAtMostOnce'
  BY <1>1, <1>2 DEF Verify, TypeOK, BatchPublished, AnnouncedLate, AnnouncedAtMostOnce,
                    Writes, hooks
<1> QED BY <1>3, <1>4, <1>5, <1>6

\* Stamping a row published keeps the invariant.
LEMMA StampInv ==
  ASSUME IInv, NEW k \in Keys, StampPublished(k)
  PROVE  IInv'
<1> USE DEF IInv
<1>1. /\ pc = "publish" /\ inHand = {k} /\ rows[k].status = "verified" /\ k \notin batch
      /\ folds = {} /\ announced[k] = 0 /\ handed[k] > 0
  BY StampWrites DEF FoldsFresh, BatchPublished, AnnouncedLate, HandedBound, TypeOK
<1>2. PICK r \in Row : /\ Writes(k, r)
                       /\ r.status = "published"
                       /\ r.verdict = rows[k].verdict
  BY StampWrites
<1>3. TypeOK'
  BY <1>2 DEF StampPublished, TypeOK, Writes, Handled, IsCopy, hooks
<1>4. AbsentUnseen' /\ WorkFresh' /\ OneInHand' /\ FoldsFresh'
  BY <1>1, <1>2 DEF StampPublished, TypeOK, AbsentUnseen, WorkFresh, OneInHand, FoldsFresh,
                    Writes, Handled, IsCopy
<1>5. PublishedOnVerdict' /\ HandedBound'
  BY <1>1, <1>2 DEF StampPublished, TypeOK, PublishedOnVerdict, HandedBound, Writes, hooks
<1>6. BatchPublished' /\ AnnouncedLate' /\ AnnouncedAtMostOnce'
  BY <1>1, <1>2 DEF StampPublished, TypeOK, BatchPublished, AnnouncedLate,
                    AnnouncedAtMostOnce, Writes, hooks
<1> QED BY <1>3, <1>4, <1>5, <1>6

\* The actions that leave the table alone and start or end a stage.
LEMMA ByStatusFresh ==
  ASSUME IInv, NEW s \in Statuses
  PROVE  /\ IsCopy(ByStatus(s))
         /\ \A k \in DOMAIN ByStatus(s) : ByStatus(s)[k] = rows[k] /\ rows[k].status = s
BY DEF IInv, TypeOK, IsCopy, ByStatus

\* Going on to the next stage keeps the invariant.
LEMMA StageInv ==
  ASSUME IInv, \/ StartCycle \/ FinishDetect \/ FinishReconcile \/ FinishVerify \/ FinishPublish
  PROVE  IInv'
<1> USE DEF IInv
<1>1. /\ rows' = rows /\ clock' = clock /\ verifyOn' = verifyOn /\ folds' = folds
      /\ inHand' = inHand /\ batch' = batch /\ handed' = handed /\ announced' = announced
      /\ missed' = missed /\ crashes' = crashes /\ pc' \in Stages
  BY DEF StartCycle, FinishDetect, FinishReconcile, FinishVerify, FinishPublish, memory, hooks,
         Stages
<1>2. /\ \/ DOMAIN work' = {}
         \/ pc' = "gate" /\ work' = ByStatus("pending")
         \/ pc' = "verify" /\ work' = ByStatus("gated")
         \/ pc' = "publish" /\ work' = ByStatus("verified")
      /\ IsCopy(work')
  <2>1. IsCopy(ByStatus("pending")) /\ IsCopy(ByStatus("gated")) /\ IsCopy(ByStatus("verified"))
    BY ByStatusFresh DEF Statuses
  <2> QED
    BY <2>1 DEF StartCycle, FinishDetect, FinishReconcile, FinishVerify, FinishPublish, memory,
                TypeOK, WorkFresh
<1>3. folds = {} /\ inHand = {}
  BY DEF StartCycle, FinishDetect, FinishReconcile, FinishVerify, FinishPublish, FoldsFresh,
         OneInHand
<1>4. batch = {} \/ pc' \in {"publish", "notify"}
  BY DEF StartCycle, FinishDetect, FinishReconcile, FinishVerify, FinishPublish, BatchPublished
<1>5. TypeOK'
  BY <1>1, <1>2 DEF TypeOK, IsCopy, IsFold
<1>6. AbsentUnseen' /\ WorkFresh' /\ OneInHand' /\ FoldsFresh'
  <2>1. WorkFresh'
    BY <1>1, <1>2, ByStatusFresh DEF WorkFresh, Statuses
  <2> QED BY <1>1, <1>3, <2>1 DEF AbsentUnseen, OneInHand, FoldsFresh
<1>7. PublishedOnVerdict' /\ HandedBound'
  BY <1>1 DEF PublishedOnVerdict, HandedBound
<1>8. BatchPublished' /\ AnnouncedLate' /\ AnnouncedAtMostOnce'
  BY <1>1, <1>4 DEF BatchPublished, AnnouncedLate, AnnouncedAtMostOnce
<1> QED BY <1>5, <1>6, <1>7, <1>8

\* A row a stage skips, because a hook raised, stays as it was.
LEMMA RaisesInv ==
  ASSUME IInv, NEW k \in Keys, GateRaises(k) \/ VerifierRaises(k) \/ PublisherRaises(k)
  PROVE  IInv'
<1> USE DEF IInv
<1>1. /\ rows' = rows /\ clock' = clock /\ verifyOn' = verifyOn /\ folds' = folds
      /\ inHand' = inHand /\ batch' = batch /\ handed' = handed /\ announced' = announced
      /\ missed' = missed /\ crashes' = crashes /\ folds = {} /\ inHand = {} /\ pc' \in Stages
      /\ (pc' = pc \/ (DOMAIN work' = {} /\ batch = {}))
      /\ (batch = {} \/ pc' \in {"publish", "notify"})
  BY DEF GateRaises, VerifierRaises, PublisherRaises, hooks, FoldsFresh, OneInHand,
         BatchPublished, Stages
<1>2. DOMAIN work' \subseteq DOMAIN work /\ \A j \in DOMAIN work' : work'[j] = work[j]
  BY DEF GateRaises, VerifierRaises, PublisherRaises, Handled
<1>3. IsCopy(work')
  <2>1. CASE GateRaises(k)
    BY <2>1 DEF GateRaises, IsCopy
  <2>2. CASE VerifierRaises(k) \/ PublisherRaises(k)
    BY <2>2 DEF VerifierRaises, PublisherRaises, Handled, TypeOK, IsCopy
  <2> QED BY <2>1, <2>2
<1>4. TypeOK'
  BY <1>1, <1>3 DEF TypeOK, IsFold, IsCopy
<1>5. AbsentUnseen' /\ WorkFresh' /\ OneInHand' /\ FoldsFresh'
  BY <1>1, <1>2 DEF AbsentUnseen, WorkFresh, OneInHand, FoldsFresh
<1>6. PublishedOnVerdict' /\ HandedBound'
  BY <1>1 DEF PublishedOnVerdict, HandedBound
<1>7. BatchPublished' /\ AnnouncedLate' /\ AnnouncedAtMostOnce'
  BY <1>1 DEF BatchPublished, AnnouncedLate, AnnouncedAtMostOnce
<1> QED BY <1>4, <1>5, <1>6, <1>7

\* Handing a row to the sinks keeps the invariant.
LEMMA PublishInv ==
  ASSUME IInv, NEW k \in Keys, Publish(k)
  PROVE  IInv'
<1> USE DEF IInv
<1>1. /\ rows[k].status = "verified" /\ k \notin inHand /\ k \in DOMAIN work /\ pc = "publish"
      /\ folds = {} /\ handed[k] \in Nat /\ handed[k] <= crashes /\ crashes \in Nat
  BY DEF Publish, WorkFresh, FoldsFresh, HandedBound, TypeOK
<1>2. TypeOK'
  BY DEF Publish, TypeOK, IsCopy, IsFold
<1>3. AbsentUnseen' /\ WorkFresh' /\ OneInHand' /\ FoldsFresh'
  BY <1>1 DEF Publish, AbsentUnseen, WorkFresh, OneInHand, FoldsFresh
<1>4. PublishedOnVerdict'
  BY <1>1 DEF Publish, PublishedOnVerdict, TypeOK
<1>5. HandedBound'
  BY <1>1 DEF Publish, HandedBound, TypeOK
<1>6. BatchPublished' /\ AnnouncedLate' /\ AnnouncedAtMostOnce'
  BY <1>1 DEF Publish, BatchPublished, AnnouncedLate, AnnouncedAtMostOnce, TypeOK
<1> QED BY <1>2, <1>3, <1>4, <1>5, <1>6

\* The end of a cycle's announcement keeps the invariant.
LEMMA NotifyInv ==
  ASSUME IInv, Notify \/ NotifyRaises
  PROVE  IInv'
<1> USE DEF IInv
<1>1. /\ DOMAIN work = {} /\ folds = {} /\ inHand = {}
      /\ \A k \in batch : rows[k].status = "published" /\ announced[k] = 0 /\ handed[k] > 0
  BY DEF Notify, NotifyRaises, WorkFresh, FoldsFresh, OneInHand, BatchPublished, HandedBound,
         TypeOK
<1>2. /\ rows' = rows /\ clock' = clock /\ verifyOn' = verifyOn /\ work' = work /\ folds' = folds
      /\ inHand' = inHand /\ handed' = handed /\ crashes' = crashes /\ pc' = "idle" /\ batch' = {}
      /\ missed' \in {missed, missed \cup batch}
      /\ \/ announced' = announced
         \/ announced' = [k \in Keys |-> IF k \in batch THEN announced[k] + 1 ELSE announced[k]]
  BY DEF Notify, NotifyRaises
<1>3. TypeOK'
  BY <1>2 DEF TypeOK, IsCopy, IsFold, Stages
<1>4. AbsentUnseen' /\ WorkFresh' /\ OneInHand' /\ FoldsFresh'
  BY <1>1, <1>2 DEF AbsentUnseen, WorkFresh, OneInHand, FoldsFresh
<1>5. PublishedOnVerdict' /\ HandedBound'
  BY <1>2 DEF PublishedOnVerdict, HandedBound
<1>6. BatchPublished' /\ AnnouncedLate' /\ AnnouncedAtMostOnce'
  BY <1>1, <1>2 DEF BatchPublished, AnnouncedLate, AnnouncedAtMostOnce, TypeOK
<1> QED BY <1>3, <1>4, <1>5, <1>6

\* A crash and a restart keep the invariant: all it says of memory is void then.
LEMMA CrashInv ==
  ASSUME IInv, Crash \/ Restart
  PROVE  IInv'
<1> USE DEF IInv
<1>1. /\ rows' = rows /\ clock' = clock /\ handed' = handed /\ announced' = announced
      /\ missed' = missed
      /\ folds' = {} /\ inHand' = {} /\ batch' = {} /\ DOMAIN work' = {} /\ IsCopy(work')
      /\ crashes' \in Nat /\ crashes \in Nat /\ crashes' >= crashes
      /\ inHand = {} \/ crashes' = crashes + 1
  <2>1. CASE Crash
    BY <2>1 DEF Crash, hooks, IsCopy, TypeOK
  <2>2. CASE Restart
    <3>1. DOMAIN work = {} /\ folds = {} /\ inHand = {} /\ batch = {}
      BY <2>2 DEF Restart, WorkFresh, FoldsFresh, OneInHand, BatchPublished
    <3> QED BY <2>2, <3>1 DEF Restart, memory, hooks, TypeOK, IsCopy
  <2> QED BY <2>1, <2>2
<1>2. TypeOK'
  BY <1>1, PipelineAssumption DEF Crash, Restart, TypeOK, Stages
<1>3. AbsentUnseen' /\ WorkFresh' /\ OneInHand' /\ FoldsFresh'
  BY <1>1 DEF AbsentUnseen, WorkFresh, OneInHand, FoldsFresh
<1>4. PublishedOnVerdict' /\ HandedBound'
  BY <1>1 DEF PublishedOnVerdict, HandedBound, TypeOK
<1>5. BatchPublished' /\ AnnouncedLate' /\ AnnouncedAtMostOnce'
  BY <1>1 DEF BatchPublished, AnnouncedLate, AnnouncedAtMostOnce
<1> QED BY <1>2, <1>3, <1>4, <1>5

(***************************************************************************)
(* The reconcile pass.  Its folds are made from disjoint classes of live   *)
(* rows, so writing for one of them leaves the copies of the others fresh. *)
(***************************************************************************)
LEMMA ClassesDisjoint ==
  ASSUME NEW u, NEW v, NEW C \in Classes(u), NEW D \in Classes(v), NEW j \in C, j \in D
  PROVE  C = D
<1>1. C \subseteq Group(u) /\ D \subseteq Group(v)
  BY DEF Classes, SameReq
<1>2. u = v
  BY <1>1 DEF Group
<1>3. j \in Group(u)
  BY <1>1
<1>4. \A E \in Classes(u) : j \in E =>
        \/ E = SameReq(u, j) /\ ReqOf(j) # NoJobKey
        \/ E = Group(u) /\ Unifies(u)
  BY <1>3 DEF Classes, SameReq
<1>5. ~ (ReqOf(j) # NoJobKey /\ Unifies(u))
  BY <1>3 DEF Unifies
<1> QED BY <1>2, <1>4, <1>5

\* The folds just planned hold the rows as they are, and no row is in two of them.
LEMMA PlanFresh ==
  ASSUME IInv
  PROVE  /\ \A f \in Plan : IsFold(f) /\ FoldFresh(f)
         /\ \A f, g \in Plan : f # g => Members(f) \cap Members(g) = {}
<1> DEFINE All == {C \in UNION {Classes(u) : u \in Urls} : \E j, k \in C : j # k}
<1>1. \A S \in All : \E u \in Urls : S \in Classes(u)
  OBVIOUS
<1>2. \A S \in All : S # {} /\ S \subseteq Keys /\ \A k \in S : Live(k)
  BY <1>1 DEF Classes, SameReq, Group
<1>3. Plan = {FoldOf(S) : S \in All}
  BY DEF Plan
<1> HIDE DEF All
<1>4. ASSUME NEW S \in All
      PROVE  /\ FoldOf(S) = [keep |-> Earliest(S, rows), left |-> S \ {Earliest(S, rows)},
                             copy |-> [k \in S |-> rows[k]]]
             /\ Earliest(S, rows) \in S
             /\ IsFold(FoldOf(S)) /\ FoldFresh(FoldOf(S)) /\ Members(FoldOf(S)) = S
  <2>1. \A k \in Keys : rows[k] \in Row /\ rows[k].first \in Nat
    BY DEF IInv, TypeOK, Row
  <2>2. Earliest(S, rows) \in S
    BY <1>2, <2>1, EarliestInSet
  <2> DEFINE s == Earliest(S, rows)
             f == [keep |-> s, left |-> S \ {s}, copy |-> [k \in S |-> rows[k]]]
  <2>3. FoldOf(S) = f
    BY DEF FoldOf
  <2> HIDE DEF s
  <2>4. s \in S
    BY <2>2 DEF s
  <2>5. IsFold(f) /\ FoldFresh(f) /\ Members(f) = S
    BY <1>2, <2>1, <2>4 DEF IsFold, IsCopy, FoldFresh, Members
  <2> QED BY <2>2, <2>3, <2>5 DEF s
<1>5. \A S, T \in All : S # T => S \cap T = {}
  BY <1>1, ClassesDisjoint
<1> QED BY <1>3, <1>4, <1>5

\* Planning the folds keeps the invariant.
LEMMA FinishGateInv ==
  ASSUME IInv, FinishGate
  PROVE  IInv'
<1> USE DEF IInv
<1>1. inHand = {} /\ batch = {}
  BY DEF FinishGate, OneInHand, BatchPublished
<1>2. TypeOK'
  BY PlanFresh DEF FinishGate, TypeOK, IsCopy, IsFold, hooks, Stages
<1>3. FoldsFresh'
  BY PlanFresh DEF FinishGate, FoldsFresh, FoldFresh, Members, Live
<1>4. AbsentUnseen' /\ WorkFresh' /\ OneInHand'
  BY <1>1 DEF FinishGate, AbsentUnseen, WorkFresh, OneInHand
<1>5. PublishedOnVerdict' /\ HandedBound'
  BY DEF FinishGate, PublishedOnVerdict, HandedBound, hooks
<1>6. BatchPublished' /\ AnnouncedLate' /\ AnnouncedAtMostOnce'
  BY <1>1 DEF FinishGate, BatchPublished, AnnouncedLate, AnnouncedAtMostOnce, hooks
<1> QED BY <1>2, <1>3, <1>4, <1>5, <1>6

\* A fold that absorbs a duplicate has one member less, and stays fresh.
LEMMA AbsorbFresh ==
  ASSUME NEW f, IsFold(f), FoldFresh(f), NEW d \in f.left
  PROVE  /\ IsFold(Absorb(f, d))
         /\ Absorb(f, d).keep = f.keep
         /\ Absorb(f, d).left = f.left \ {d}
         /\ FoldFresh(Absorb(f, d))
         /\ Members(Absorb(f, d)) = Members(f) \ {d}
<1> DEFINE m == Merge(f.copy[f.keep], f.copy[d])
           c == [f.copy EXCEPT ![f.keep] = m]
           g == [keep |-> f.keep, left |-> f.left \ {d}, copy |-> c]
<1>1. Absorb(f, d) = g
  BY DEF Absorb
<1>2. /\ f.keep \in DOMAIN f.copy /\ d \in DOMAIN f.copy /\ d # f.keep
      /\ f.copy[f.keep] \in Row /\ f.copy[d] \in Row
  BY DEF IsFold, IsCopy, FoldFresh
<1>3. /\ m \in Row
      /\ m.status = f.copy[f.keep].status
      /\ f.copy[f.keep].verdict # "none" => m.verdict = f.copy[f.keep].verdict
      /\ f.copy[f.keep].sources \subseteq m.sources
  BY <1>2, MergedRow
<1> HIDE DEF m
<1>4. IsCopy(c) /\ DOMAIN c = DOMAIN f.copy /\ c[f.keep] = m
        /\ \A k \in DOMAIN c : k # f.keep => c[k] = f.copy[k]
  BY <1>2, <1>3 DEF IsFold, IsCopy
<1> HIDE DEF c
<1>5. IsFold(g)
  BY <1>4 DEF IsFold
<1>6. FoldFresh(g)
  BY <1>2, <1>3, <1>4 DEF FoldFresh
<1>7. Members(g) = Members(f) \ {d}
  BY <1>2 DEF Members
<1> QED BY <1>1, <1>5, <1>6, <1>7

\* Folding a duplicate away keeps the invariant.
LEMMA DuplicateInv ==
  ASSUME IInv, NEW f \in folds, FoldDuplicate(f)
  PROVE  IInv'
<1> USE DEF IInv
<1>1. PICK d \in f.left, r \in Row :
        /\ d = Earliest(f.left, f.copy)
        /\ Live(d)
        /\ Writes(d, r)
        /\ r.status = "rejected"
        /\ r.verdict = rows[d].verdict
  BY DuplicateWrites
<1>2. /\ folds' = (folds \ {f}) \cup {Absorb(f, d)}
      /\ pc' = pc /\ work' = work /\ inHand' = inHand /\ batch' = batch /\ clock' = clock
      /\ verifyOn' = verifyOn /\ crashes' = crashes /\ handed' = handed /\ announced' = announced
      /\ missed' = missed
  BY <1>1 DEF FoldDuplicate, hooks
<1>3. /\ IsFold(f) /\ FoldFresh(f) /\ pc = "reconcile" /\ d \in Keys
      /\ DOMAIN work = {} /\ inHand = {} /\ batch = {}
  BY FoldCopies DEF TypeOK, FoldsFresh, WorkFresh, OneInHand, BatchPublished
<1>4. /\ IsFold(Absorb(f, d))
      /\ Absorb(f, d).keep = f.keep
      /\ Absorb(f, d).left = f.left \ {d}
      /\ FoldFresh(Absorb(f, d))
      /\ Members(Absorb(f, d)) = Members(f) \ {d}
  BY <1>3, AbsorbFresh
<1>5. TypeOK'
  BY <1>1, <1>2, <1>3, <1>4 DEF TypeOK, Writes, IsFold, IsCopy
<1>6. FoldsFresh'
  <2>1. \A k \in Keys \ {d} : rows'[k] = rows[k]
    BY <1>1 DEF Writes, TypeOK
  <2>2. \A g \in folds' : d \notin Members(g) /\ FoldFresh(g)
    BY <1>1, <1>2, <1>4 DEF FoldsFresh, Members
  <2>3. ASSUME NEW g \in folds' PROVE FoldFresh(g)'
    <3>1. g.keep \in Keys /\ g.left \subseteq Keys /\ d # g.keep /\ d \notin g.left
      BY <1>2, <1>4, <2>2 DEF TypeOK, IsFold, Members
    <3> QED BY <2>1, <2>2, <3>1 DEF FoldFresh, Live
  <2>4. \A g, h \in folds' : g # h => Members(g) \cap Members(h) = {}
    BY <1>2, <1>4 DEF FoldsFresh
  <2> QED BY <1>2, <1>3, <2>3, <2>4 DEF FoldsFresh, Members
<1>7. AbsentUnseen' /\ WorkFresh' /\ OneInHand'
  BY <1>1, <1>2, <1>3 DEF TypeOK, AbsentUnseen, WorkFresh, OneInHand, Writes
<1>8. PublishedOnVerdict' /\ HandedBound'
  BY <1>1, <1>2, <1>3 DEF TypeOK, PublishedOnVerdict, HandedBound, Writes
<1>9. BatchPublished' /\ AnnouncedLate' /\ AnnouncedAtMostOnce'
  BY <1>1, <1>2, <1>3 DEF TypeOK, BatchPublished, AnnouncedLate, AnnouncedAtMostOnce, Writes
<1> QED BY <1>5, <1>6, <1>7, <1>8, <1>9

\* Writing a survivor keeps the invariant.
LEMMA SurvivorInv ==
  ASSUME IInv, NEW f \in folds, FoldSurvivor(f)
  PROVE  IInv'
<1> USE DEF IInv
<1> DEFINE k == f.keep
           r == f.copy[f.keep]
<1>1. /\ f.left = {} /\ folds' = folds \ {f} /\ k \in Keys /\ Live(k)
      /\ Writes(k, r)
      /\ r.status = rows[k].status
      /\ rows[k].verdict # "none" => r.verdict = rows[k].verdict
  BY SurvivorWrites
<1>2. /\ pc' = pc /\ work' = work /\ inHand' = inHand /\ batch' = batch /\ clock' = clock
      /\ verifyOn' = verifyOn /\ crashes' = crashes /\ handed' = handed /\ announced' = announced
      /\ missed' = missed
  BY DEF FoldSurvivor, hooks
<1>3. /\ pc = "reconcile" /\ DOMAIN work = {} /\ inHand = {} /\ batch = {}
      /\ rows[k].status # "absent"
  BY <1>1, FoldCopies DEF WorkFresh, OneInHand, BatchPublished, Live, LiveStatuses
<1>4. \A g \in folds' : g \in folds /\ k \notin Members(g)
  BY <1>1 DEF FoldsFresh, Members
<1> HIDE DEF k, r
<1>5. TypeOK'
  BY <1>1, <1>2 DEF TypeOK, Writes, IsFold, IsCopy
<1>6. FoldsFresh'
  <2>1. \A j \in Keys \ {k} : rows'[j] = rows[j]
    BY <1>1 DEF Writes, TypeOK
  <2>2. ASSUME NEW g \in folds' PROVE FoldFresh(g)'
    <3>1. g.keep \in Keys /\ g.left \subseteq Keys /\ k # g.keep /\ k \notin g.left /\ FoldFresh(g)
      BY <1>4 DEF TypeOK, IsFold, Members, FoldsFresh
    <3> QED BY <2>1, <3>1 DEF FoldFresh, Live
  <2> QED BY <1>1, <1>2, <1>3, <2>2 DEF FoldsFresh, Members
<1>7. AbsentUnseen' /\ WorkFresh' /\ OneInHand'
  BY <1>1, <1>2, <1>3 DEF TypeOK, AbsentUnseen, WorkFresh, OneInHand, Writes
<1>8. PublishedOnVerdict' /\ HandedBound'
  BY <1>1, <1>2, <1>3 DEF TypeOK, PublishedOnVerdict, HandedBound, Writes
<1>9. BatchPublished' /\ AnnouncedLate' /\ AnnouncedAtMostOnce'
  BY <1>1, <1>2, <1>3 DEF TypeOK, BatchPublished, AnnouncedLate, AnnouncedAtMostOnce, Writes
<1> QED BY <1>5, <1>6, <1>7, <1>8, <1>9

\* A step that changes nothing keeps the invariant.
LEMMA StutterInv ==
  ASSUME IInv, UNCHANGED vars
  PROVE  IInv'
BY DEF IInv, vars, TypeOK, AbsentUnseen, WorkFresh, OneInHand, FoldsFresh, FoldFresh, Live, Members,
       PublishedOnVerdict, HandedBound, BatchPublished, AnnouncedLate, AnnouncedAtMostOnce,
       IsFold, IsCopy

\* IInv is inductive: it holds initially and every step keeps it.
THEOREM Invariance == Spec => []IInv
<1>1. IInv /\ [Next]_vars => IInv'
  <2> SUFFICES ASSUME IInv, [Next]_vars PROVE IInv'
    OBVIOUS
  <2>1. CASE Detecting
    BY <2>1, UpsertInv DEF Detecting
  <2>2. CASE Reconcile
    BY <2>2, DuplicateInv, SurvivorInv DEF Reconcile
  <2>3. ASSUME NEW k \in Keys, OnRow(k) PROVE IInv'
    BY <2>3, GateInv, VerifyInv, StampInv, RaisesInv, PublishInv DEF OnRow
  <2>4. CASE Proceed
    BY <2>4, StageInv, FinishGateInv, NotifyInv, CrashInv DEF Proceed
  <2>5. CASE Crash
    BY <2>5, CrashInv
  <2>6. CASE UNCHANGED vars
    BY <2>6, StutterInv
  <2> QED BY <2>1, <2>2, <2>3, <2>4, <2>5, <2>6 DEF Next
<1> QED BY InitInv, <1>1, PTL DEF Spec

-----------------------------------------------------------------------------
(***************************************************************************)
(* The safety properties.                                                  *)
(***************************************************************************)
\* Every variable keeps its type.
THEOREM TypeCorrect == Spec => []TypeOK
<1>1. IInv => TypeOK
  BY DEF IInv
<1> QED BY <1>1, Invariance, PTL

\* No posting is verified, handed over or published without a stored approval
\* (run_cycle stages 5 and 6), across crashes, re-detection and reconciliation.
THEOREM VerdictBeforePublish == Spec => []PublishedOnVerdict
<1>1. IInv => PublishedOnVerdict
  BY DEF IInv
<1> QED BY <1>1, Invariance, PTL

\* The publisher hook runs once per posting plus at most once more per crash (stage 6).
THEOREM HandedOnce == Spec => []HandedOncePerCrash
<1>1. IInv => HandedOncePerCrash
  BY DEF IInv, HandedBound, HandedOncePerCrash
<1> QED BY <1>1, Invariance, PTL

\* The notification hook carries a posting at most once, and only after the publisher
\* had it (the batch run_cycle builds in stage 6).
THEOREM AnnouncedOnce == Spec => []AnnouncedAtMostOnce
<1>1. IInv => AnnouncedAtMostOnce
  BY DEF IInv
<1> QED BY <1>1, Invariance, PTL

(***************************************************************************)
(* What one step may do to the table and to the publisher.                 *)
(***************************************************************************)
\* Row k becomes r and moves along the lifecycle.
Moves(k, r) ==
  /\ Writes(k, r)
  /\ \/ rows[k].status = "absent" /\ r.status = "pending"
     \/ rows[k].status = "pending" /\ r.status \in {"gated", "rejected"}
     \/ rows[k].status = "gated" /\ r.status \in {"verified", "rejected"}
     \/ Live(k) /\ r.status = "rejected" /\ \E s \in Keys \ {k} : Live(s)
     \/ rows[k].status = "verified" /\ r.status = "published" /\ handed[k] > 0
     \/ rows[k].status = r.status

\* Every step moves one row along its lifecycle, or counts one announcement, or neither.
LEMMA StepMoves ==
  ASSUME IInv, [Next]_vars
  PROVE  \/ rows' = rows /\ handed' = handed
         \/ handed' = handed /\ \E k \in Keys, r \in Row : Moves(k, r)
         \/ rows' = rows /\ \E k \in Keys : /\ rows[k].status = "verified"
                                            /\ handed' = [handed EXCEPT ![k] = @ + 1]
<1>1. ASSUME NEW k \in Keys, NEW src \in Sources, UpsertDetection(k, src)
      PROVE  handed' = handed /\ \E r \in Row : Moves(k, r)
  BY <1>1, UpsertWrites DEF Moves, UpsertDetection, hooks
<1>2. ASSUME NEW f \in folds, FoldDuplicate(f)
      PROVE  handed' = handed /\ \E k \in Keys, r \in Row : Moves(k, r)
  <2>1. /\ f.keep \in Keys /\ f.keep \notin f.left /\ Live(f.keep) /\ f.left \subseteq Keys
        /\ handed' = handed
    BY <1>2, FoldCopies DEF FoldDuplicate, hooks, IInv, FoldsFresh, FoldFresh
  <2>2. PICK d \in f.left, r \in Row : Live(d) /\ Writes(d, r) /\ r.status = "rejected"
    BY <1>2, DuplicateWrites
  <2> QED BY <2>1, <2>2 DEF Moves
<1>3. ASSUME NEW f \in folds, FoldSurvivor(f)
      PROVE  handed' = handed /\ \E k \in Keys, r \in Row : Moves(k, r)
  BY <1>3, SurvivorWrites DEF Moves, Writes, FoldSurvivor, hooks
<1>4. ASSUME NEW k \in Keys, Gate(k) \/ Verify(k) \/ StampPublished(k)
      PROVE  handed' = handed /\ \E r \in Row : Moves(k, r)
  <2>1. CASE Gate(k)
    BY <2>1, GateWrites DEF Moves, Gate, hooks
  <2>2. CASE Verify(k)
    BY <2>2, VerifyWrites DEF Moves, Verify, hooks
  <2>3. CASE StampPublished(k)
    BY <2>3, StampWrites DEF Moves, StampPublished, hooks, IInv, HandedBound
  <2> QED BY <1>4, <2>1, <2>2, <2>3
<1>5. ASSUME NEW k \in Keys, Publish(k)
      PROVE  /\ rows' = rows /\ rows[k].status = "verified"
             /\ handed' = [handed EXCEPT ![k] = @ + 1]
  BY <1>5 DEF Publish, IInv, WorkFresh
<1>6. ASSUME NEW k \in Keys, GateRaises(k) \/ VerifierRaises(k) \/ PublisherRaises(k)
      PROVE  rows' = rows /\ handed' = handed
  BY <1>6 DEF GateRaises, VerifierRaises, PublisherRaises, hooks
<1>7. CASE Proceed \/ Crash
  BY <1>7 DEF Proceed, StartCycle, FinishDetect, FinishGate, FinishReconcile, FinishVerify,
              FinishPublish, Notify, NotifyRaises, Restart, Crash, hooks
<1>8. CASE UNCHANGED vars
  BY <1>8 DEF vars
<1>9. CASE Detecting
  BY <1>9, <1>1 DEF Detecting
<1>10. CASE Reconcile
  BY <1>10, <1>2, <1>3 DEF Reconcile
<1>11. ASSUME NEW k \in Keys, OnRow(k)
       PROVE  \/ rows' = rows /\ handed' = handed
              \/ handed' = handed /\ \E r \in Row : Moves(k, r)
              \/ /\ rows' = rows /\ rows[k].status = "verified"
                 /\ handed' = [handed EXCEPT ![k] = @ + 1]
  BY <1>11, <1>4, <1>5, <1>6 DEF OnRow
<1> QED BY <1>7, <1>8, <1>9, <1>10, <1>11 DEF Next

\* A refusal is final: no later cycle, sighting or restart revives a rejected posting
\* (verify/rules.py: "A rule rejection is final").
THEOREM RejectionFinal == Spec => RejectedIsFinal
<1>1. IInv /\ [Next]_vars =>
        \A k \in Keys : rows[k].status = "rejected" => rows'[k].status = "rejected"
  BY StepMoves DEF Moves, Writes, Live, LiveStatuses, IInv, TypeOK
<1> QED BY <1>1, Invariance, PTL DEF Spec, RejectedIsFinal

\* No source label is ever lost (store.upsert_detection, merge_duplicate), although the
\* gate, the verifier and the reconcile pass write back whole rows read earlier.
THEOREM SourcesKept == Spec => SourcesOnlyGrow
<1>1. IInv /\ [Next]_vars => \A k \in Keys : rows[k].sources \subseteq rows'[k].sources
  BY StepMoves DEF Moves, Writes, IInv, TypeOK
<1> QED BY <1>1, Invariance, PTL DEF Spec, SourcesOnlyGrow

-----------------------------------------------------------------------------
(***************************************************************************)
(* Pipeline implements PostingLifecycle.                                   *)
(***************************************************************************)
LEMMA InitStart == Init => L!Start
BY DEF Init, L!Start, Absent

\* Every step of the pipeline is a step of the abstract lifecycle, or a stutter.
LEMMA StepAdvances ==
  ASSUME IInv, [Next]_vars
  PROVE  [L!Advance]_(L!lvars)
<1> DEFINE st == [k \in Keys |-> rows[k].status]
           gv == {k \in Keys : handed[k] > 0}
<1>0. rows \in [Keys -> Row] /\ handed \in [Keys -> Nat]
  BY DEF IInv, TypeOK
<1>1. CASE rows' = rows /\ handed' = handed
  BY <1>1 DEF L!lvars
<1>2. ASSUME NEW k \in Keys, NEW r \in Row, Moves(k, r), handed' = handed
      PROVE  L!Advance \/ UNCHANGED L!lvars
  <2>1. gv' = gv /\ st' = [st EXCEPT ![k] = r.status] /\ st[k] = rows[k].status
    BY <1>0, <1>2 DEF Moves, Writes
  <2>2. \A j \in Keys : st[j] = rows[j].status
    OBVIOUS
  <2>3. handed[k] > 0 => k \in gv
    OBVIOUS
  <2>4. rows[k].status = r.status => st' = st
    BY <2>1
  <2> HIDE DEF st, gv
  <2> QED
    BY <1>2, <2>1, <2>2, <2>3, <2>4
    DEF Moves, Live, LiveStatuses, L!Advance, L!Discover, L!Admit, L!Approve, L!Refuse, L!Retire,
        L!Publish, L!Move, L!OnBoard, L!lvars, st, gv
<1>3. ASSUME NEW k \in Keys, rows' = rows, rows[k].status = "verified",
             handed' = [handed EXCEPT ![k] = @ + 1]
      PROVE  L!Advance
  <2>1. gv' = gv \cup {k} /\ st' = st /\ st[k] = "verified"
    BY <1>0, <1>3
  <2> QED BY <2>1 DEF L!Advance, L!Hand
<1> QED BY <1>1, <1>2, <1>3, StepMoves

\* Every behaviour of the poller is one of the lifecycle: a posting is discovered once,
\* advances one status at a time, is handed over only after approval, and leaves the
\* board only refused or in favour of another posting that is still on it.
THEOREM LifecycleImplemented == Spec => ImplementsLifecycle
<1>1. IInv /\ [Next]_vars => [L!Advance]_(L!lvars)
  BY StepAdvances
<1> QED BY <1>1, InitStart, Invariance, PTL DEF Spec, ImplementsLifecycle, L!Lifecycle

-----------------------------------------------------------------------------
(***************************************************************************)
(* Duplicates, twins and announcements need more than IInv: what the       *)
(* reconcile pass knows of the rows it works on, and where a published row *)
(* stands on its way to the fan-out.                                       *)
(***************************************************************************)
\* first_seen numbers the postings in the order they were found.
Numbered ==
  \A k \in Keys : rows[k].status # "absent" =>
    /\ rows[k].first < clock
    /\ \A j \in Keys \ {k} : rows[j].status # "absent" => rows[j].first # rows[k].first

\* A row on the board has a canonical URL and no reason against it.
Shelved ==
  \A k \in Keys :
    /\ Live(k) => rows[k].canonical \in Urls
    /\ rows[k].reason \in {"agent", "duplicate"} => rows[k].status = "rejected"

\* A fold keeps the earliest of its rows; the copy it works on is still that row's.
FoldOrdered(f) ==
  /\ f.copy[f.keep].first = rows[f.keep].first
  /\ f.copy[f.keep].canonical = rows[f.keep].canonical
  /\ f.copy[f.keep].reason = rows[f.keep].reason
  /\ f.copy[f.keep].survivor = rows[f.keep].survivor
  /\ \A d \in f.left : /\ rows[f.keep].first < rows[d].first
                       /\ rows[f.keep].canonical = rows[d].canonical

FoldsOrdered == \A f \in folds : FoldOrdered(f)

\* Two live rows that are provably one job ...
Twins(j, k) ==
  /\ Live(j) /\ Live(k) /\ rows[j].canonical = rows[k].canonical
  /\ ReqOf(j) = ReqOf(k) /\ ReqOf(k) # NoJobKey

\* ... are in one fold of the pass until one of them is folded.
TwinsPlanned ==
  pc = "reconcile" =>
    \A j, k \in Keys : Twins(j, k) => j = k \/ \E f \in folds : {j, k} \subseteq Members(f)

\* Until a crash, a published row was announced, missed by a fan-out that raised, or is
\* in the batch the cycle announces at its end.
Accounted ==
  crashes = 0 =>
    \A k \in Keys : rows[k].status = "published" =>
      announced[k] = 1 \/ k \in missed \/ k \in batch

Tracked ==
  /\ Numbered
  /\ Shelved
  /\ FoldsOrdered
  /\ DuplicatePointsEarlier
  /\ TwinsPlanned
  /\ NoLiveTwins
  /\ Accounted

(***************************************************************************)
(* What one step makes of one row.                                         *)
(***************************************************************************)
\* q is the same posting, at the same page.
Stays(r, q) == q.first = r.first /\ q.canonical = r.canonical

\* ... and nothing was decided against it.
Keeps(r, q) == Stays(r, q) /\ q.reason = r.reason /\ q.survivor = r.survivor

\* A step changes row k to q: sees it again, or makes it up of a merge; takes it a stage
\* further; finds it; gates it; denies it; folds it.
Changes(k, q) ==
  LET r == rows[k]
  IN  \/ Keeps(r, q) /\ q.status = r.status /\ clock' = clock
      \/ Keeps(r, q) /\ Live(k) /\ q.status \in LiveStatuses /\ pc # "reconcile" /\ clock' = clock
      \/ /\ pc = "detect" /\ r.status = "absent" /\ q.status = "pending"
         /\ q.first = clock /\ q.reason = "none" /\ clock' = clock + 1
      \/ /\ pc = "gate" /\ r.status = "pending" /\ q.first = r.first /\ clock' = clock
         /\ \/ q.status = "gated" /\ q.canonical \in Urls /\ q.reason = r.reason
            \/ q.status = "rejected" /\ q.reason = "rules"
      \/ /\ pc = "verify" /\ Live(k) /\ Stays(r, q) /\ clock' = clock
         /\ q.status = "rejected" /\ q.reason = "agent"
      \/ /\ pc = "reconcile" /\ Live(k) /\ Stays(r, q) /\ clock' = clock
         /\ q.status = "rejected" /\ q.reason = "duplicate"
         /\ \E f \in folds : k \in f.left /\ q.survivor = f.keep

\* One row at most is changed.
OneChange ==
  \/ rows' = rows /\ clock' = clock
  \/ \E k \in Keys, q \in Row : rows' = [rows EXCEPT ![k] = q] /\ Changes(k, q)

\* A detection changes one row: a new one, stamped with the clock, or one seen before.
LEMMA UpsertChanges ==
  ASSUME IInv, NEW k \in Keys, NEW src \in Sources, UpsertDetection(k, src)
  PROVE  OneChange
<1>1. rows[k] \in Row /\ clock \in Nat /\ pc = "detect"
  BY DEF IInv, TypeOK, UpsertDetection
<1>2. CASE rows[k].status = "absent"
  <2>1. NewRow(k, src) \in Row /\ NewRow(k, src).status = "pending"
    BY <1>1, NewRowIsRow
  <2>2. NewRow(k, src).first = clock /\ NewRow(k, src).reason = "none"
    BY DEF NewRow, Absent
  <2>3. rows' = [rows EXCEPT ![k] = NewRow(k, src)] /\ clock' = clock + 1
    BY <1>2 DEF UpsertDetection, Write
  <2>4. Changes(k, NewRow(k, src))
    BY <1>1, <1>2, <2>1, <2>2, <2>3 DEF Changes
  <2> QED BY <2>1, <2>3, <2>4 DEF OneChange
<1>3. CASE rows[k].status # "absent"
  <2>1. Sighted(rows[k], src) \in Row /\ Sighted(rows[k], src).status = rows[k].status
    BY <1>1, SightedRow
  <2>2. Keeps(rows[k], Sighted(rows[k], src))
    BY <1>1 DEF Keeps, Stays, Sighted, Row
  <2>3. rows' = [rows EXCEPT ![k] = Sighted(rows[k], src)] /\ clock' = clock
    BY <1>3 DEF UpsertDetection, Write
  <2>4. Changes(k, Sighted(rows[k], src))
    BY <2>1, <2>2, <2>3 DEF Changes
  <2> QED BY <2>1, <2>3, <2>4 DEF OneChange
<1> QED BY <1>2, <1>3

\* The gate changes one row: it gives it its page's URL, or the reason it refuses it for.
LEMMA GateChanges ==
  ASSUME IInv, NEW k \in Keys, Gate(k)
  PROVE  OneChange
<1>1. /\ pc = "gate" /\ rows[k].status = "pending" /\ clock' = clock
      /\ work[k] = rows[k] /\ rows[k] \in Row
  BY DEF Gate, IInv, WorkFresh, TypeOK
<1>2. CASE Write(k, Refused(work[k]))
  <2> DEFINE q == Refused(rows[k])
  <2>1. q \in Row /\ q.status = "rejected" /\ q.reason = "rules" /\ q.first = rows[k].first
    BY <1>1, RefusedRow DEF Refused, Row
  <2>2. Changes(k, q)
    BY <1>1, <2>1 DEF Changes
  <2> QED BY <1>1, <1>2, <2>1, <2>2 DEF OneChange, Write
<1>3. ASSUME NEW u \in Landings(UrlOf[k]), Write(k, Gated(work[k], u))
      PROVE  OneChange
  <2> DEFINE q == Gated(rows[k], u)
  <2>1. u \in Urls
    BY <1>3, PipelineAssumption DEF Landings
  <2>2. /\ q \in Row /\ q.status = "gated" /\ q.reason = rows[k].reason
        /\ q.first = rows[k].first /\ q.canonical = u
    BY <1>1, <2>1, GatedRow DEF Gated, Row
  <2>3. Changes(k, q)
    BY <1>1, <2>1, <2>2 DEF Changes
  <2> QED BY <1>1, <1>3, <2>2, <2>3 DEF OneChange, Write
<1> QED BY <1>2, <1>3 DEF Gate

\* The verifier changes one live row: it is approved as it was, or rejected.
LEMMA VerifyChanges ==
  ASSUME IInv, NEW k \in Keys, Verify(k)
  PROVE  OneChange
<1>1. /\ pc = "verify" /\ rows[k].status = "gated" /\ Live(k) /\ clock' = clock
      /\ work[k] = rows[k] /\ rows[k] \in Row
  BY DEF Verify, IInv, WorkFresh, TypeOK, Live, LiveStatuses
<1>2. CASE Write(k, Approved(work[k]))
  <2> DEFINE q == Approved(rows[k])
  <2>1. q \in Row /\ q.status \in LiveStatuses /\ Keeps(rows[k], q)
    BY <1>1, ApprovedRow DEF Approved, Row, Keeps, Stays, LiveStatuses
  <2>2. Changes(k, q)
    BY <1>1, <2>1 DEF Changes
  <2> QED BY <1>1, <1>2, <2>1, <2>2 DEF OneChange, Write
<1>3. CASE Write(k, Denied(work[k]))
  <2> DEFINE q == Denied(rows[k])
  <2>1. q \in Row /\ q.status = "rejected" /\ q.reason = "agent" /\ Stays(rows[k], q)
    BY <1>1, DeniedRow DEF Denied, Row, Stays
  <2>2. Changes(k, q)
    BY <1>1, <2>1 DEF Changes
  <2> QED BY <1>1, <1>3, <2>1, <2>2 DEF OneChange, Write
<1> QED BY <1>2, <1>3 DEF Verify

\* The stamp changes the status of one row.
LEMMA StampChanges ==
  ASSUME IInv, NEW k \in Keys, StampPublished(k)
  PROVE  OneChange
<1>1. /\ pc = "publish" /\ rows[k].status = "verified" /\ Live(k) /\ clock' = clock
      /\ work[k] = rows[k] /\ rows[k] \in Row
  BY DEF StampPublished, IInv, OneInHand, WorkFresh, TypeOK, Live, LiveStatuses
<1> DEFINE q == Published(rows[k])
<1>2. q \in Row /\ q.status \in LiveStatuses /\ Keeps(rows[k], q)
  BY <1>1, PublishedRow DEF Published, Row, Keeps, Stays, LiveStatuses
<1>3. Changes(k, q)
  BY <1>1, <1>2 DEF Changes
<1> QED BY <1>1, <1>2, <1>3 DEF OneChange, StampPublished, Write

\* A fold changes one duplicate, the earliest it has left, and rejects it.
LEMMA DuplicateChanges ==
  ASSUME IInv, NEW f \in folds, FoldDuplicate(f)
  PROVE  /\ OneChange
         /\ \E d \in f.left : /\ d = Earliest(f.left, f.copy)
                              /\ \A j \in Keys \ {d} : rows'[j] = rows[j]
                              /\ rows'[d].status = "rejected"
<1> DEFINE d == Earliest(f.left, f.copy)
<1>1. /\ d \in f.left /\ d \in Keys /\ f.copy[d] = rows[d] /\ rows[d] \in Row /\ Live(d)
      /\ f.keep \in Keys /\ pc = "reconcile" /\ clock' = clock
  BY FoldCopies DEF FoldDuplicate
<1>2. rows' = [rows EXCEPT ![d] = Folded(rows[d], f.keep)]
  BY <1>1 DEF FoldDuplicate, Write
<1> HIDE DEF d
<1>3. /\ Folded(rows[d], f.keep) \in Row /\ Folded(rows[d], f.keep).status = "rejected"
      /\ Folded(rows[d], f.keep).reason = "duplicate"
      /\ Folded(rows[d], f.keep).survivor = f.keep
      /\ Stays(rows[d], Folded(rows[d], f.keep))
  BY <1>1, FoldedRow DEF Folded, Row, Stays
<1>4. Changes(d, Folded(rows[d], f.keep))
  BY <1>1, <1>3 DEF Changes
<1>5. OneChange
  BY <1>1, <1>2, <1>3, <1>4 DEF OneChange
<1>6. (\A j \in Keys \ {d} : rows'[j] = rows[j]) /\ rows'[d].status = "rejected"
  BY <1>1, <1>2, <1>3 DEF IInv, TypeOK
<1> QED BY <1>1, <1>5, <1>6 DEF d

\* A survivor's write changes no row's status, nor what folding it would rest on.
LEMMA SurvivorChanges ==
  ASSUME IInv, FoldsOrdered, NEW f \in folds, FoldSurvivor(f)
  PROVE  /\ OneChange
         /\ \A j \in Keys : Keeps(rows[j], rows'[j]) /\ rows'[j].status = rows[j].status
<1> DEFINE q == f.copy[f.keep]
<1>1. f.keep \in Keys /\ q \in Row /\ q.status = rows[f.keep].status /\ clock' = clock
  BY FoldCopies, SurvivorWrites DEF FoldSurvivor
<1>2. Keeps(rows[f.keep], q)
  BY DEF FoldsOrdered, FoldOrdered, Keeps, Stays
<1>3. rows' = [rows EXCEPT ![f.keep] = q]
  BY DEF FoldSurvivor, Write
<1>4. Changes(f.keep, q)
  BY <1>1, <1>2 DEF Changes
<1>5. OneChange
  BY <1>1, <1>3, <1>4 DEF OneChange
<1>6. \A j \in Keys : Keeps(rows[j], rows'[j]) /\ rows'[j].status = rows[j].status
  BY <1>1, <1>2, <1>3 DEF IInv, TypeOK, Keeps, Stays
<1> QED BY <1>5, <1>6

\* Every step changes one row at most, and in one of these ways.
LEMMA StepChanges ==
  ASSUME IInv, FoldsOrdered, [Next]_vars
  PROVE  OneChange
<1>1. CASE Detecting
  BY <1>1, UpsertChanges DEF Detecting
<1>2. CASE Reconcile
  BY <1>2, DuplicateChanges, SurvivorChanges DEF Reconcile
<1>3. ASSUME NEW k \in Keys, OnRow(k) PROVE OneChange
  <2>1. CASE Gate(k) \/ Verify(k) \/ StampPublished(k)
    BY <2>1, GateChanges, VerifyChanges, StampChanges
  <2>2. CASE GateRaises(k) \/ VerifierRaises(k) \/ Publish(k) \/ PublisherRaises(k)
    BY <2>2 DEF GateRaises, VerifierRaises, Publish, PublisherRaises, OneChange
  <2> QED BY <1>3, <2>1, <2>2 DEF OnRow
<1>4. CASE Proceed \/ Crash \/ UNCHANGED vars
  BY <1>4 DEF Proceed, StartCycle, FinishDetect, FinishGate, FinishReconcile, FinishVerify,
              FinishPublish, Notify, NotifyRaises, Restart, Crash, vars, OneChange
<1> QED BY <1>1, <1>2, <1>3, <1>4 DEF Next

(***************************************************************************)
(* The conjuncts of Tracked, one by one.                                   *)
(***************************************************************************)
\* Postings keep their numbers, and a new one takes the next.
LEMMA NumberedStep ==
  ASSUME IInv, Numbered, OneChange
  PROVE  Numbered'
<1>0. rows \in [Keys -> Row] /\ clock \in Nat /\ \A k \in Keys : rows[k].first \in Nat
  BY DEF IInv, TypeOK, Row
<1>1. CASE rows' = rows /\ clock' = clock
  BY <1>1 DEF Numbered
<1>2. ASSUME NEW k \in Keys, NEW q \in Row, rows' = [rows EXCEPT ![k] = q], Changes(k, q)
      PROVE  Numbered'
  <2>1. rows'[k] = q /\ \A j \in Keys \ {k} : rows'[j] = rows[j]
    BY <1>0, <1>2
  <2>2. \/ rows[k].status # "absent" /\ q.first = rows[k].first /\ clock' = clock
        \/ q.status = "absent" /\ clock' = clock
        \/ rows[k].status = "absent" /\ q.first = clock /\ clock' = clock + 1
    BY <1>2 DEF Changes, Keeps, Stays, Live, LiveStatuses
  <2>3. clock' \in Nat /\ clock <= clock' /\ q.first \in Nat
    BY <1>0, <2>2 DEF Row
  <2> QED BY <1>0, <2>1, <2>2, <2>3 DEF Numbered
<1> QED BY <1>1, <1>2 DEF OneChange

\* A row on the board keeps a canonical URL and no reason against it.
LEMMA ShelvedStep ==
  ASSUME IInv, Shelved, OneChange
  PROVE  Shelved'
<1>0. rows \in [Keys -> Row]
  BY DEF IInv, TypeOK
<1>1. CASE rows' = rows
  BY <1>1 DEF Shelved, Live
<1>2. ASSUME NEW k \in Keys, NEW q \in Row, rows' = [rows EXCEPT ![k] = q], Changes(k, q)
      PROVE  Shelved'
  <2>1. rows'[k] = q /\ \A j \in Keys \ {k} : rows'[j] = rows[j]
    BY <1>0, <1>2
  <2>2. /\ q.status \in LiveStatuses => q.canonical \in Urls
        /\ q.reason \in {"agent", "duplicate"} => q.status = "rejected"
    BY <1>2 DEF Changes, Keeps, Stays, Live, LiveStatuses, Shelved
  <2> QED BY <2>1, <2>2 DEF Shelved, Live
<1> QED BY <1>1, <1>2 DEF OneChange

\* A step that leaves the folds alone leaves what they know of the table true.
LEMMA OrderedFrame ==
  ASSUME NEW f, FoldOrdered(f), f.keep \in Keys, f.left \subseteq Keys,
         \A k \in Members(f) : Keeps(rows[k], rows'[k])
  PROVE  FoldOrdered(f)'
BY DEF FoldOrdered, Members, Keeps, Stays

\* The folds planned keep the earliest of their rows.
LEMMA PlanOrdered ==
  ASSUME IInv, Numbered
  PROVE  \A f \in Plan : FoldOrdered(f)
<1> DEFINE All == {C \in UNION {Classes(u) : u \in Urls} : \E j, k \in C : j # k}
<1>1. \A S \in All : \E u \in Urls : S \in Classes(u)
  OBVIOUS
<1>2. \A S \in All : S # {} /\ \E u \in Urls : S \subseteq Group(u)
  BY <1>1 DEF Classes, SameReq, Group
<1>3. Plan = {FoldOf(S) : S \in All}
  BY DEF Plan
<1> HIDE DEF All
<1>4. ASSUME NEW S \in All PROVE FoldOrdered(FoldOf(S))
  <2>1. PICK u \in Urls : S \subseteq Group(u)
    BY <1>2
  <2>2. /\ S \subseteq Keys
        /\ \A k \in S : Live(k) /\ rows[k].canonical = u /\ rows[k].first \in Nat
    BY <2>1 DEF Group, IInv, TypeOK, Row
  <2> DEFINE s == Earliest(S, rows)
  <2>3. s \in S /\ \A j \in S : rows[s].first <= rows[j].first
    BY <1>2, <2>2, EarliestInSet
  <2>4. FoldOf(S) = [keep |-> s, left |-> S \ {s}, copy |-> [k \in S |-> rows[k]]]
    BY DEF FoldOf
  <2> HIDE DEF s
  <2>5. \A k \in S : rows[k].status # "absent"
    BY <2>2 DEF Live, LiveStatuses
  <2>6. \A d \in S \ {s} : rows[s].first < rows[d].first
    BY <2>2, <2>3, <2>5 DEF Numbered
  <2> QED BY <2>2, <2>3, <2>4, <2>6 DEF FoldOrdered
<1> QED BY <1>3, <1>4

\* A fold that absorbs a duplicate still works on its survivor.
LEMMA AbsorbOrdered ==
  ASSUME NEW f, IsFold(f), FoldFresh(f), FoldOrdered(f), NEW d \in f.left
  PROVE  FoldOrdered(Absorb(f, d))
<1>1. f.keep \in DOMAIN f.copy /\ f.copy[f.keep] \in Row
  BY DEF IsFold, IsCopy, FoldFresh
<1> DEFINE m == Merge(f.copy[f.keep], f.copy[d])
<1>2. Keeps(f.copy[f.keep], m)
  BY <1>1 DEF Merge, Row, Keeps, Stays
<1>3. /\ Absorb(f, d).keep = f.keep /\ Absorb(f, d).left = f.left \ {d}
      /\ Absorb(f, d).copy[f.keep] = m
  BY <1>1 DEF Absorb
<1> HIDE DEF m
<1> QED BY <1>2, <1>3 DEF FoldOrdered, Keeps, Stays

\* The steps of the reconcile pass itself, as they find and leave the folds.
LEMMA ReconcileSteps ==
  ASSUME IInv, FoldsOrdered, [Next]_vars, pc = "reconcile" \/ pc' = "reconcile"
  PROVE  \/ FinishGate
         \/ folds' = {} /\ pc' # "reconcile" /\ rows' = rows
         \/ \E f \in folds : FoldDuplicate(f) \/ FoldSurvivor(f)
         \/ UNCHANGED <<rows, folds, pc>>
<1>1. DOMAIN work # {} => pc # "reconcile"
  BY DEF IInv, WorkFresh
<1>2. CASE Detecting
  BY <1>2 DEF Detecting, UpsertDetection
<1>3. ASSUME NEW k \in Keys, OnRow(k) PROVE FALSE
  BY <1>1, <1>3 DEF OnRow, Gate, GateRaises, Verify, VerifierRaises, Publish, PublisherRaises,
                    StampPublished, IInv, OneInHand, WorkFresh
<1>4. CASE Proceed
  BY <1>4 DEF Proceed, StartCycle, FinishDetect, FinishReconcile, FinishVerify, FinishPublish,
              Notify, NotifyRaises, Restart
<1>5. CASE Crash
  BY <1>5 DEF Crash
<1>6. CASE UNCHANGED vars
  BY <1>6 DEF vars
<1> QED BY <1>2, <1>3, <1>4, <1>5, <1>6 DEF Next, Reconcile

\* The folds stay in order through the pass.
LEMMA OrderedStep ==
  ASSUME IInv, IInv', Numbered, FoldsOrdered, [Next]_vars
  PROVE  FoldsOrdered'
<1>0. \A f \in folds : /\ IsFold(f) /\ FoldFresh(f) /\ FoldOrdered(f)
                       /\ f.keep \in Keys /\ f.left \subseteq Keys
  BY DEF IInv, TypeOK, FoldsFresh, FoldsOrdered, IsFold
<1>1. CASE pc' # "reconcile"
  <2>1. folds' = {}
    BY <1>1 DEF IInv, FoldsFresh
  <2> QED BY <2>1 DEF FoldsOrdered
<1>2. CASE FinishGate
  <2>1. folds' = Plan /\ rows' = rows
    BY <1>2 DEF FinishGate
  <2>2. \A f \in Plan : FoldOrdered(f)
    BY PlanOrdered
  <2> QED BY <2>1, <2>2 DEF FoldsOrdered, FoldOrdered
<1>3. ASSUME NEW f \in folds, FoldDuplicate(f) PROVE FoldsOrdered'
  <2>1. PICK d \in f.left : d = Earliest(f.left, f.copy) /\ \A j \in Keys \ {d} : rows'[j] = rows[j]
    BY <1>3, DuplicateChanges
  <2>2. folds' = (folds \ {f}) \cup {Absorb(f, d)}
    BY <1>3, <2>1 DEF FoldDuplicate
  <2>3. ASSUME NEW g \in folds'
        PROVE  FoldOrdered(g) /\ g.keep \in Keys /\ g.left \subseteq Keys /\ d \notin Members(g)
    <3>1. CASE g \in folds \ {f}
      <4>1. Members(g) \cap Members(f) = {} /\ d \in Members(f)
        BY <3>1 DEF IInv, FoldsFresh, Members
      <4> QED BY <1>0, <3>1, <4>1
    <3>2. CASE g = Absorb(f, d)
      <4>1. /\ g.keep = f.keep /\ g.left = f.left \ {d}
            /\ Members(g) = Members(f) \ {d}
        BY <1>0, <3>2, AbsorbFresh
      <4>2. FoldOrdered(g)
        BY <1>0, <3>2, AbsorbOrdered
      <4> QED BY <1>0, <4>1, <4>2
    <3> QED BY <2>2, <3>1, <3>2
  <2>4. ASSUME NEW g \in folds' PROVE FoldOrdered(g)'
    <3>1. \A k \in Members(g) : Keeps(rows[k], rows'[k])
      BY <2>1, <2>3 DEF Members, Keeps, Stays
    <3> QED BY <2>3, <3>1, OrderedFrame
  <2> QED BY <2>4 DEF FoldsOrdered
<1>4. ASSUME NEW f \in folds, FoldSurvivor(f) PROVE FoldsOrdered'
  <2>1. \A j \in Keys : Keeps(rows[j], rows'[j])
    BY <1>4, SurvivorChanges
  <2>2. folds' = folds \ {f}
    BY <1>4 DEF FoldSurvivor
  <2>3. ASSUME NEW g \in folds' PROVE FoldOrdered(g)'
    <3>1. g \in folds
      BY <2>2
    <3>2. \A k \in Members(g) : Keeps(rows[k], rows'[k])
      BY <1>0, <2>1, <3>1 DEF Members
    <3> QED BY <1>0, <3>1, <3>2, OrderedFrame
  <2> QED BY <2>3 DEF FoldsOrdered
<1>5. CASE folds' = {}
  BY <1>5 DEF FoldsOrdered
<1>6. CASE UNCHANGED <<rows, folds, pc>>
  BY <1>6 DEF FoldsOrdered, FoldOrdered
<1> QED BY <1>1, <1>2, <1>3, <1>4, <1>5, <1>6, ReconcileSteps

\* A duplicate's survivor stays where the duplicate points.
LEMMA DuplicateStep ==
  ASSUME IInv, Shelved, FoldsOrdered, DuplicatePointsEarlier, OneChange
  PROVE  DuplicatePointsEarlier'
<1>0. rows \in [Keys -> Row] /\ \A k \in Keys : rows[k].first \in Nat
  BY DEF IInv, TypeOK, Row
<1>1. CASE rows' = rows
  BY <1>1 DEF DuplicatePointsEarlier
<1>2. ASSUME NEW k \in Keys, NEW q \in Row, rows' = [rows EXCEPT ![k] = q], Changes(k, q)
      PROVE  DuplicatePointsEarlier'
  <2>1. rows'[k] = q /\ \A j \in Keys \ {k} : rows'[j] = rows[j]
    BY <1>0, <1>2
  <2>2. ASSUME rows[k].status \in LiveStatuses \/ rows[k].reason \in {"agent", "duplicate"}
        PROVE  /\ Stays(rows[k], q)
               /\ q.status \in LiveStatuses \/ q.reason \in {"agent", "duplicate"}
    BY <1>2, <2>2 DEF Changes, Keeps, Stays, Live, LiveStatuses, Shelved
  <2>3. ASSUME q.reason = "duplicate"
        PROVE  /\ q.survivor \in Keys
               /\ rows[q.survivor].first < q.first
               /\ q.survivor # k
               /\ rows[q.survivor].canonical = q.canonical
               /\ \/ rows[q.survivor].status \in LiveStatuses
                  \/ rows[q.survivor].reason \in {"agent", "duplicate"}
    <3>1. CASE rows[k].reason = "duplicate"
      <4>1. Keeps(rows[k], q)
        BY <1>2, <2>3, <3>1 DEF Changes, Shelved, Live, LiveStatuses
      <4> QED BY <1>0, <3>1, <4>1 DEF DuplicatePointsEarlier, Keeps, Stays
    <3>2. CASE rows[k].reason # "duplicate"
      <4>1. /\ Stays(rows[k], q)
            /\ \E f \in folds : k \in f.left /\ q.survivor = f.keep
        BY <1>2, <2>3, <3>2 DEF Changes, Keeps
      <4>2. PICK f \in folds : k \in f.left /\ q.survivor = f.keep
        BY <4>1
      <4>3. f.keep \in Keys /\ Live(f.keep) /\ FoldOrdered(f)
        BY DEF IInv, FoldsFresh, FoldFresh, FoldsOrdered, TypeOK, IsFold
      <4> QED BY <1>0, <4>1, <4>2, <4>3 DEF FoldOrdered, Stays, Live
    <3> QED BY <3>1, <3>2
  <2>4. ASSUME NEW j \in Keys, rows'[j].reason = "duplicate"
        PROVE  LET s == rows'[j].survivor
               IN  /\ s \in Keys
                   /\ rows'[s].first < rows'[j].first
                   /\ rows'[s].canonical = rows'[j].canonical
                   /\ rows'[s].status \in LiveStatuses \/ rows'[s].reason \in {"agent", "duplicate"}
    <3>1. CASE j = k
      BY <2>1, <2>3, <2>4, <3>1
    <3>2. CASE j # k
      <4> DEFINE s == rows[j].survivor
      <4>1. /\ s \in Keys /\ rows[s].first < rows[j].first
            /\ rows[s].canonical = rows[j].canonical
            /\ rows[s].status \in LiveStatuses \/ rows[s].reason \in {"agent", "duplicate"}
        BY <2>1, <2>4, <3>2 DEF DuplicatePointsEarlier
      <4>2. rows'[j] = rows[j]
        BY <2>1, <3>2
      <4>3. Stays(rows[s], rows'[s])
            /\ (rows'[s].status \in LiveStatuses \/ rows'[s].reason \in {"agent", "duplicate"})
        <5>1. CASE s = k
          BY <2>1, <2>2, <4>1, <5>1
        <5>2. CASE s # k
          BY <2>1, <4>1, <5>2 DEF Stays
        <5> QED BY <5>1, <5>2
      <4> QED BY <4>1, <4>2, <4>3 DEF Stays
    <3> QED BY <3>1, <3>2
  <2> QED BY <2>4 DEF DuplicatePointsEarlier
<1> QED BY <1>1, <1>2 DEF OneChange

\* From the reconcile pass on, a live row was live before and at the same page.
LEMMA LiveFades ==
  ASSUME IInv, OneChange, pc \notin {"detect", "gate"}, NEW j \in Keys, Live(j)'
  PROVE  Live(j) /\ rows'[j].canonical = rows[j].canonical
<1>0. rows \in [Keys -> Row]
  BY DEF IInv, TypeOK
<1>1. CASE rows'[j] = rows[j]
  BY <1>1 DEF Live
<1>2. ASSUME NEW q \in Row, rows'[j] = q, Changes(j, q)
      PROVE  Live(j) /\ rows'[j].canonical = rows[j].canonical
  BY <1>2 DEF Changes, Keeps, Stays, Live, LiveStatuses
<1>3. ASSUME NEW k \in Keys, NEW q \in Row, rows' = [rows EXCEPT ![k] = q], Changes(k, q)
      PROVE  Live(j) /\ rows'[j].canonical = rows[j].canonical
  BY <1>0, <1>1, <1>2, <1>3
<1> QED BY <1>1, <1>3 DEF OneChange

\* So no pair of twins is new.
LEMMA TwinsFade ==
  ASSUME IInv, OneChange, pc \notin {"detect", "gate"},
         NEW j \in Keys, NEW k \in Keys, Twins(j, k)'
  PROVE  Twins(j, k)
<1>1. /\ Live(j) /\ rows'[j].canonical = rows[j].canonical
      /\ Live(k) /\ rows'[k].canonical = rows[k].canonical
  BY LiveFades DEF Twins
<1>2. ReqOf(j)' = ReqOf(j) /\ ReqOf(k)' = ReqOf(k)
  BY <1>1 DEF ReqOf
<1> QED BY <1>1, <1>2 DEF Twins

\* The plan has a fold for every pair of twins.
LEMMA PlanCovers ==
  ASSUME IInv, Shelved, NEW j \in Keys, NEW k \in Keys, j # k, Twins(j, k)
  PROVE  \E f \in Plan : {j, k} \subseteq Members(f)
<1> DEFINE u == rows[k].canonical
           S == SameReq(u, k)
<1>1. u \in Urls /\ k \in Group(u) /\ ReqOf(k) # NoJobKey
  BY DEF Twins, Shelved, Group
<1>2. j \in S /\ k \in S
  BY DEF Twins, Group, SameReq
<1>3. S \in Classes(u)
  BY <1>1 DEF Classes
<1> HIDE DEF S
<1>4. FoldOf(S) \in Plan
  BY <1>1, <1>2, <1>3 DEF Plan
<1>5. S \subseteq Members(FoldOf(S))
  BY DEF FoldOf, Members
<1> QED BY <1>2, <1>4, <1>5

\* Twins not folded yet are still in one fold.
LEMMA TwinsPlannedStep ==
  ASSUME IInv, IInv', Shelved, FoldsOrdered, TwinsPlanned, [Next]_vars
  PROVE  TwinsPlanned'
<1> SUFFICES ASSUME pc' = "reconcile", NEW j \in Keys, NEW k \in Keys, Twins(j, k)', j # k
             PROVE  \E f \in folds' : {j, k} \subseteq Members(f)
  BY DEF TwinsPlanned, Members
<1>1. OneChange
  BY StepChanges
<1>2. CASE FinishGate
  <2>1. folds' = Plan /\ rows' = rows
    BY <1>2 DEF FinishGate
  <2>2. Twins(j, k)
    BY <2>1 DEF Twins, Live, ReqOf
  <2> QED BY <2>1, <2>2, PlanCovers
<1>3. ASSUME pc = "reconcile" PROVE \E f \in folds : {j, k} \subseteq Members(f)
  BY <1>1, <1>3, TwinsFade DEF TwinsPlanned
<1>4. ASSUME NEW g \in folds, FoldDuplicate(g)
      PROVE  \E f \in folds' : {j, k} \subseteq Members(f)
  <2>1. PICK d \in g.left : /\ d = Earliest(g.left, g.copy)
                            /\ rows'[d].status = "rejected"
    BY <1>4, DuplicateChanges
  <2>2. folds' = (folds \ {g}) \cup {Absorb(g, d)}
    BY <1>4, <2>1 DEF FoldDuplicate
  <2>3. Members(Absorb(g, d)) = Members(g) \ {d}
    BY AbsorbFresh DEF IInv, TypeOK, FoldsFresh
  <2>4. j # d /\ k # d
    BY <2>1 DEF Twins, Live, LiveStatuses
  <2>5. PICK f \in folds : {j, k} \subseteq Members(f)
    BY <1>3, <1>4 DEF FoldDuplicate
  <2> QED BY <2>2, <2>3, <2>4, <2>5
<1>5. ASSUME NEW g \in folds, FoldSurvivor(g)
      PROVE  \E f \in folds' : {j, k} \subseteq Members(f)
  <2>1. folds' = folds \ {g} /\ Members(g) = {g.keep}
    BY <1>5 DEF FoldSurvivor, Members
  <2>2. PICK f \in folds : {j, k} \subseteq Members(f)
    BY <1>3, <1>5 DEF FoldSurvivor
  <2> QED BY <2>1, <2>2
<1>6. CASE UNCHANGED <<rows, folds, pc>>
  BY <1>3, <1>6
<1> QED BY <1>2, <1>4, <1>5, <1>6, ReconcileSteps

\* After the pass no twins are left, and none appear.
LEMMA NoTwinsStep ==
  ASSUME IInv, FoldsOrdered, TwinsPlanned, NoLiveTwins, [Next]_vars
  PROVE  NoLiveTwins'
<1> DEFINE After == {"verify", "publish", "notify"}
<1> SUFFICES ASSUME pc' \in After, NEW j \in Keys, NEW k \in Keys, Twins(j, k)'
             PROVE  j = k
  BY DEF NoLiveTwins, Twins
<1>1. OneChange
  BY StepChanges
<1>2. pc \in After \/ (pc = "reconcile" /\ folds = {})
  <2>1. CASE Proceed
    BY <2>1 DEF Proceed, StartCycle, FinishDetect, FinishGate, FinishReconcile, FinishVerify,
                FinishPublish, Notify, NotifyRaises, Restart
  <2>2. CASE Detecting \/ Crash
    BY <2>2 DEF Detecting, UpsertDetection, Crash
  <2>3. CASE Reconcile
    BY <2>3 DEF Reconcile, FoldDuplicate, FoldSurvivor
  <2>4. ASSUME NEW i \in Keys, OnRow(i) PROVE pc \in After
    BY <2>4 DEF OnRow, Gate, GateRaises, Verify, VerifierRaises, Publish, PublisherRaises,
                StampPublished
  <2>5. CASE UNCHANGED vars
    BY <2>5 DEF vars
  <2> QED BY <2>1, <2>2, <2>3, <2>4, <2>5 DEF Next
<1>3. Twins(j, k)
  BY <1>1, <1>2, TwinsFade
<1> QED BY <1>2, <1>3 DEF NoLiveTwins, TwinsPlanned, Twins

\* A row becomes published with its place in the batch; the batch is announced, or missed
\* by a fan-out that raised.
LEMMA AccountedStep ==
  ASSUME IInv, IInv', FoldsOrdered, Accounted, [Next]_vars
  PROVE  Accounted'
<1> SUFFICES ASSUME crashes' = 0, NEW k \in Keys, rows'[k].status = "published"
             PROVE  announced'[k] = 1 \/ k \in missed' \/ k \in batch'
  BY DEF Accounted
<1> DEFINE Told == announced[k] = 1 \/ k \in missed \/ k \in batch
           Goal == announced'[k] = 1 \/ k \in missed' \/ k \in batch'
<1>0. /\ rows \in [Keys -> Row] /\ crashes \in Nat /\ announced[k] \in Nat
      /\ \A j \in Keys : work[j] = rows[j] \/ j \notin DOMAIN work
  BY DEF IInv, TypeOK, WorkFresh
<1>1. ASSUME rows[k].status = "published", crashes = 0, UNCHANGED <<announced, missed, batch>>
      PROVE  Goal
  BY <1>1 DEF Accounted
<1>2. CASE Detecting
  <2>1. PICK i \in Keys, src \in Sources : UpsertDetection(i, src)
    BY <1>2 DEF Detecting
  <2>2. PICK r \in Row : /\ rows' = [rows EXCEPT ![i] = r]
                         /\ r.status = "pending" \/ r.status = rows[i].status
    BY <2>1, UpsertWrites DEF Writes
  <2>3. rows[k].status = "published"
    BY <1>0, <2>2
  <2> QED BY <1>1, <2>1, <2>3 DEF UpsertDetection, memory, hooks
<1>3. ASSUME NEW f \in folds, FoldDuplicate(f) PROVE Goal
  <2>1. rows[k].status = "published"
    BY <1>3, DuplicateChanges
  <2> QED BY <1>1, <1>3, <2>1 DEF FoldDuplicate, hooks
<1>4. ASSUME NEW f \in folds, FoldSurvivor(f) PROVE Goal
  <2>1. rows[k].status = "published"
    BY <1>4, SurvivorChanges
  <2> QED BY <1>1, <1>4, <2>1 DEF FoldSurvivor, hooks
<1>5. ASSUME NEW i \in Keys, Gate(i) PROVE Goal
  <2>1. PICK r \in Row : rows' = [rows EXCEPT ![i] = r] /\ r.status \in {"rejected", "gated"}
    BY <1>5, GateWrites DEF Writes
  <2>2. rows[k].status = "published"
    BY <1>0, <2>1
  <2> QED BY <1>1, <1>5, <2>2 DEF Gate, hooks
<1>6. ASSUME NEW i \in Keys, Verify(i) PROVE Goal
  <2>1. PICK r \in Row : rows' = [rows EXCEPT ![i] = r] /\ r.status \in {"verified", "rejected"}
    BY <1>6, VerifyWrites DEF Writes
  <2>2. rows[k].status = "published"
    BY <1>0, <2>1
  <2> QED BY <1>1, <1>6, <2>2 DEF Verify, hooks
<1>7. ASSUME NEW i \in Keys, StampPublished(i) PROVE Goal
  <2>1. batch' = batch \cup {i} /\ UNCHANGED <<announced, missed, crashes>>
    BY <1>7 DEF StampPublished, hooks
  <2>2. CASE k = i
    BY <2>1, <2>2
  <2>3. CASE k # i
    <3>1. rows[k].status = "published"
      BY <1>0, <1>7, <2>3 DEF StampPublished, Write
    <3> QED BY <2>1, <3>1 DEF Accounted
  <2> QED BY <2>2, <2>3
<1>8. ASSUME NEW i \in Keys, GateRaises(i) \/ VerifierRaises(i) \/ Publish(i) \/ PublisherRaises(i)
      PROVE  Goal
  BY <1>1, <1>8 DEF GateRaises, VerifierRaises, Publish, PublisherRaises, hooks
<1>9. CASE StartCycle \/ FinishDetect \/ FinishGate \/ FinishReconcile \/ FinishVerify
           \/ FinishPublish \/ Restart
  BY <1>1, <1>9 DEF StartCycle, FinishDetect, FinishGate, FinishReconcile, FinishVerify,
                    FinishPublish, Restart, memory, hooks
<1>10. CASE Notify
  <2>1. rows' = rows /\ UNCHANGED <<missed, crashes>>
    BY <1>10 DEF Notify
  <2>2. CASE k \in batch
    <3>1. announced'[k] = announced[k] + 1 /\ announced[k] = 0
      BY <1>10, <2>2 DEF Notify, IInv, BatchPublished
    <3> QED BY <3>1
  <2>3. CASE k \notin batch
    <3>1. announced'[k] = announced[k]
      BY <1>10, <2>3 DEF Notify
    <3> QED BY <2>1, <2>3, <3>1 DEF Accounted
  <2> QED BY <2>2, <2>3
<1>11. CASE NotifyRaises
  <2>1. rows' = rows /\ missed' = missed \cup batch /\ UNCHANGED <<announced, crashes>>
    BY <1>11 DEF NotifyRaises
  <2> QED BY <2>1 DEF Accounted
<1>12. CASE Crash
  BY <1>0, <1>12 DEF Crash
<1>13. CASE UNCHANGED vars
  BY <1>1, <1>13 DEF vars
<1> QED BY <1>2, <1>3, <1>4, <1>5, <1>6, <1>7, <1>8, <1>9, <1>10, <1>11, <1>12, <1>13
        DEF Next, Reconcile, OnRow, Proceed

\* An empty table and an empty memory are tracked.
LEMMA InitTracked == Init => Tracked
<1> SUFFICES ASSUME Init PROVE Tracked
  OBVIOUS
<1>1. \A k \in Keys : rows[k].status = "absent" /\ rows[k].reason = "none"
  BY DEF Init, Absent
<1>2. folds = {} /\ pc = "idle"
  BY DEF Init
<1>3. Numbered /\ Shelved /\ FoldsOrdered
  BY <1>1, <1>2 DEF Numbered, Shelved, FoldsOrdered, Live, LiveStatuses
<1>4. DuplicatePointsEarlier /\ TwinsPlanned /\ NoLiveTwins /\ Accounted
  BY <1>1, <1>2 DEF DuplicatePointsEarlier, TwinsPlanned, NoLiveTwins, Accounted
<1> QED BY <1>3, <1>4 DEF Tracked

\* Tracked is inductive relative to IInv.
THEOREM Tracking == Spec => []Tracked
<1>1. IInv /\ IInv' /\ Tracked /\ [Next]_vars => Tracked'
  BY StepChanges, NumberedStep, ShelvedStep, OrderedStep, DuplicateStep, TwinsPlannedStep,
     NoTwinsStep, AccountedStep DEF Tracked
<1> QED BY <1>1, InitTracked, Invariance, PTL DEF Spec

\* A duplicate points to an earlier posting of the same page that was judged on its own,
\* directly or through duplicates (reconcile.py), wherever the pass is interrupted.
THEOREM DuplicatesPointBack == Spec => []DuplicatePointsEarlier
<1>1. Tracked => DuplicatePointsEarlier
  BY DEF Tracked
<1> QED BY <1>1, Tracking, PTL

\* When the verifier starts, no two live postings share a page and a requisition, and
\* none come to share them before the cycle ends.
THEOREM TwinsAreFolded == Spec => []NoLiveTwins
<1>1. Tracked => NoLiveTwins
  BY DEF Tracked
<1> QED BY <1>1, Tracking, PTL

\* A cycle that nothing interrupted has announced all it published (stage 6's batch).
THEOREM CycleAnnounces == Spec => []AnnouncedUnlessInterrupted
<1>1. ASSUME IInv, Tracked PROVE AnnouncedUnlessInterrupted
  <2>1. pc = "idle" => batch = {}
    BY <1>1 DEF IInv, BatchPublished
  <2> QED BY <1>1, <2>1 DEF Tracked, Accounted, AnnouncedUnlessInterrupted
<1> QED BY <1>1, Invariance, Tracking, PTL

\* At every point of the reconcile pass a page that had a live posting keeps one.
LEMMA LiveRowKept ==
  ASSUME IInv, Tracked, [Next]_vars, pc = "reconcile", NEW u \in Urls, Group(u) # {}
  PROVE  \E k \in Group(u) : rows'[k].status \in LiveStatuses
<1>1. PICK k \in Keys : k \in Group(u) /\ Live(k) /\ rows[k].canonical = u
  BY DEF Group
<1>2. CASE rows'[k].status = rows[k].status
  BY <1>1, <1>2 DEF Live
<1>3. ASSUME NEW f \in folds, FoldDuplicate(f)
      PROVE  \E j \in Group(u) : rows'[j].status \in LiveStatuses
  <2>1. PICK d \in f.left : \A j \in Keys \ {d} : rows'[j] = rows[j]
    BY <1>3, DuplicateChanges
  <2>2. /\ f.keep \in Keys /\ Live(f.keep) /\ f.keep # d
        /\ rows[f.keep].canonical = rows[d].canonical
    BY DEF IInv, TypeOK, IsFold, FoldsFresh, FoldFresh, Tracked, FoldsOrdered, FoldOrdered
  <2>3. CASE k = d
    BY <1>1, <2>1, <2>2, <2>3 DEF Group, Live
  <2>4. CASE k # d
    BY <1>1, <2>1, <2>4 DEF Live
  <2> QED BY <2>3, <2>4
<1>4. ASSUME NEW f \in folds, FoldSurvivor(f) PROVE rows'[k].status = rows[k].status
  BY <1>1, <1>4, SurvivorChanges DEF Tracked
<1> QED BY <1>2, <1>3, <1>4, ReconcileSteps DEF Tracked, FinishGate

\* Reconciliation never empties a page, at any crash point of the pass (reconcile.py: the
\* survivor is live throughout and is written last).
THEOREM PageKeepsALiveRow == Spec => FoldKeepsALiveRow
<1>1. IInv /\ Tracked /\ [Next]_vars =>
        (pc = "reconcile" =>
           \A u \in Urls : Group(u) # {} => \E k \in Group(u) : rows'[k].status \in LiveStatuses)
  BY LiveRowKept
<1> QED BY <1>1, Invariance, Tracking, PTL DEF Spec, FoldKeepsALiveRow
=============================================================================
