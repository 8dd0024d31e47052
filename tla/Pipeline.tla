------------------------------ MODULE Pipeline ------------------------------
(***************************************************************************)
(* The poller: one process that runs Pipeline.run_cycle for ever           *)
(* (src/intake/pipeline.py) over the postings table (src/intake/store.py). *)
(* Every write to the store is one step, so a crash can fall between any   *)
(* two of them; what the process holds in memory (the list a stage works   *)
(* through, the folds of the reconcile pass, the batch to announce) is     *)
(* lost in a crash and the table is not.                                   *)
(*                                                                         *)
(* A row keeps the fields that decide something: status, title, canonical  *)
(* URL, first_seen, sources, verdict and the survivor a duplicate points   *)
(* to.  Titles are the pair fold_title and has_trailing_season make of     *)
(* them, URLs carry the requisition id extract_job_key reads from them.    *)
(***************************************************************************)
EXTENDS Integers

CONSTANTS
  Keys,         \* dedupe keys (company + title): the ids of rows
  Sources,      \* detectors' source labels
  Lists,        \* Lists[src]: the postings detector src can sight
  Urls,         \* URLs a posting can be detected at or redirect to
  UrlOf,        \* UrlOf[k]: the URL posting k is detected at
  Redirects,    \* Redirects[u]: where fetching u may end
  JobKey,       \* JobKey[u]: the (host, ATS id) in u, or NoJobKey
  NoJobKey, NoUrl, NoKey,
  TitleOf,      \* TitleOf[k]: [fold, seasonal] of the title k is detected with
  Folds,        \* the token sets titles fold to
  Poison,       \* postings whose gate raises every time it is tried
  VerifyModes,  \* whether a deployment may run with (TRUE) or without --verify
  MaxCrashes    \* bound on the crashes of one behaviour

Titles == [fold : Folds, seasonal : BOOLEAN]

ASSUME PipelineAssumption ==
  /\ UrlOf \in [Keys -> Urls]
  /\ Lists \in [Sources -> SUBSET Keys]
  /\ Redirects \in [Urls -> SUBSET Urls]
  /\ \A u \in Urls : Redirects[u] # {}
  /\ TitleOf \in [Keys -> Titles]
  /\ NoUrl \notin Urls
  /\ NoKey \notin Keys
  /\ Poison \subseteq Keys
  /\ VerifyModes \subseteq BOOLEAN
  /\ VerifyModes # {}
  /\ MaxCrashes \in Nat

VARIABLES
  rows,       \* the postings table
  clock,      \* the next first_seen to hand out
  pc,         \* the stage of run_cycle the poller is in
  verifyOn,   \* run_cycle's verify argument, fixed when the process starts
  work,       \* the rows a stage read from by_status and has not handled yet
  folds,      \* the folds of the reconcile pass still to do
  inHand,     \* the row whose publisher call returned and is not stamped yet
  batch,      \* rows published this cycle, to be announced at its end
  handed,     \* handed[k]: publisher calls for k that returned
  announced,  \* announced[k]: notification fan-outs that carried k
  missed,     \* postings whose fan-out raised
  crashes

vars == <<rows, clock, pc, verifyOn, work, folds, inHand, batch, handed, announced,
          missed, crashes>>
memory == <<work, folds, inHand, batch>>
hooks == <<handed, announced, missed>>

Statuses == {"absent", "pending", "gated", "verified", "published", "rejected"}
LiveStatuses == {"gated", "verified", "published"}
Stages == {"idle", "detect", "gate", "reconcile", "verify", "publish", "notify", "down"}

Row == [status : Statuses, title : Titles, canonical : Urls \cup {NoUrl},
        first : Nat, sources : SUBSET Sources,
        verdict : {"none", "approved", "denied"},
        reason : {"none", "rules", "agent", "duplicate"},
        survivor : Keys \cup {NoKey}]

\* Rows copied into memory, and one fold of the reconcile pass: the survivor, the
\* duplicates still to write, and the copies the fold works on.
IsCopy(w) == DOMAIN w \subseteq Keys /\ w \in [DOMAIN w -> Row]
IsFold(f) ==
  /\ f = [keep |-> f.keep, left |-> f.left, copy |-> f.copy]
  /\ f.keep \in Keys
  /\ f.left \subseteq Keys
  /\ IsCopy(f.copy)

Absent(k) ==
  [status |-> "absent", title |-> TitleOf[k], canonical |-> NoUrl, first |-> 0,
   sources |-> {}, verdict |-> "none", reason |-> "none", survivor |-> NoKey]

Live(k) == rows[k].status \in LiveStatuses

Init ==
  /\ rows = [k \in Keys |-> Absent(k)]
  /\ clock = 0
  /\ pc = "idle"
  /\ verifyOn \in VerifyModes
  /\ work = << >>
  /\ folds = {}
  /\ inHand = {}
  /\ batch = {}
  /\ handed = [k \in Keys |-> 0]
  /\ announced = [k \in Keys |-> 0]
  /\ missed = {}
  /\ crashes = 0

(***************************************************************************)
(* Reading and writing the table.                                          *)
(***************************************************************************)
\* by_status: full rows, copied into the poller's memory.
ByStatus(s) == [k \in {j \in Keys : rows[j].status = s} |-> rows[k]]

\* Faulty variants.  The operators named Bug... here and below are mistakes one could
\* make in the definition that follows each of them; no action uses them, and the
\* properties below are shown to fail when one takes its definition's place.
BugFirstSeen(k, src) ==
  [Absent(k) EXCEPT !.status = "pending", !.first = clock - 1, !.sources = {src}]
BugLatestSource(r, src) == [r EXCEPT !.sources = {src}]
BugSkipVerifier(r, u) == [r EXCEPT !.status = "verified", !.canonical = u]
BugNoVerdict(r) == [r EXCEPT !.status = "verified"]
BugNoStatus(r) == [r EXCEPT !.verdict = "approved"]
BugNoStamp(r) == r

\* What the stages make of a row.
NewRow(k, src) ==
  [Absent(k) EXCEPT !.status = "pending", !.first = clock, !.sources = {src}]
Sighted(r, src) == [r EXCEPT !.sources = @ \cup {src}]
Gated(r, u) == [r EXCEPT !.status = "gated", !.canonical = u]
Refused(r) == [r EXCEPT !.status = "rejected", !.reason = "rules"]
Folded(r, s) == [r EXCEPT !.status = "rejected", !.reason = "duplicate", !.survivor = s]
Approved(r) == [r EXCEPT !.status = "verified", !.verdict = "approved"]
Denied(r) == [r EXCEPT !.status = "rejected", !.verdict = "denied", !.reason = "agent"]
Published(r) == [r EXCEPT !.status = "published"]

\* update: the whole row is written back, whatever the table holds by now.
Write(k, r) == rows' = [rows EXCEPT ![k] = r]

Handled(k) == work' = [j \in DOMAIN work \ {k} |-> work[j]]

(***************************************************************************)
(* Stages 1 and 2.  A detector yields sightings; one sighting either       *)
(* creates the row or adds what it saw to the existing one, whatever its   *)
(* status.  A detector that raises yields none.                            *)
(***************************************************************************)
StartCycle ==
  /\ pc = "idle"
  /\ pc' = "detect"
  /\ UNCHANGED <<rows, clock, verifyOn, memory, hooks, crashes>>

UpsertDetection(k, src) ==
  /\ pc = "detect"
  /\ k \in Lists[src]
  /\ \/ /\ rows[k].status = "absent"
        /\ Write(k, NewRow(k, src))
        /\ clock' = clock + 1
     \/ /\ rows[k].status # "absent"
        /\ src \notin rows[k].sources
        /\ Write(k, Sighted(rows[k], src))
        /\ clock' = clock
  /\ UNCHANGED <<pc, verifyOn, memory, hooks, crashes>>

FinishDetect ==
  /\ pc = "detect"
  /\ pc' = "gate"
  /\ work' = ByStatus("pending")
  /\ UNCHANGED <<rows, clock, verifyOn, folds, inHand, batch, hooks, crashes>>

(***************************************************************************)
(* Stage 3, the rule gate.  It refuses a row for good, or passes it with   *)
(* the URL its page redirected to.                                         *)
(***************************************************************************)
\* A site that answers 403, 429 or not at all leaves a posting its own URL.
Landings(u) == Redirects[u] \cup {u}

Gate(k) ==
  /\ pc = "gate"
  /\ k \in DOMAIN work \ Poison
  /\ \/ Write(k, Refused(work[k]))
     \/ \E u \in Landings(UrlOf[k]) : Write(k, Gated(work[k], u))
  /\ Handled(k)
  /\ UNCHANGED <<clock, pc, verifyOn, folds, inHand, batch, hooks, crashes>>

\* run_rules is called outside any try: a URL httpx refuses to parse ends the
\* process, and the row is still pending when it comes back.
GateRaises(k) ==
  /\ pc = "gate"
  /\ k \in DOMAIN work \cap Poison
  /\ pc' = "down"
  /\ work' = << >>
  /\ UNCHANGED <<rows, clock, verifyOn, folds, inHand, batch, hooks, crashes>>

(***************************************************************************)
(* Stage 4, reconcile_duplicates.  The groups are read once; each fold     *)
(* then writes its duplicates one by one and its survivor last.            *)
(***************************************************************************)
ReqOf(k) ==
  IF rows[k].canonical # NoUrl /\ JobKey[rows[k].canonical] # NoJobKey
  THEN JobKey[rows[k].canonical]
  ELSE JobKey[UrlOf[k]]

Group(u) == {k \in Keys : Live(k) /\ rows[k].canonical = u}

BugSameTitleToo(u, k) ==
  {j \in Group(u) : ReqOf(j) = ReqOf(k) /\ rows[j].title.fold = rows[k].title.fold}

\* Strong tier: rows of the group with one ATS key.
SameReq(u, k) == {j \in Group(u) : ReqOf(j) = ReqOf(k)}

\* Weak tier, all or nothing: nobody has a key and all titles fold alike.
Unifies(u) ==
  \A j, k \in Group(u) :
    ReqOf(j) = NoJobKey /\ rows[j].title.fold = rows[k].title.fold

Classes(u) ==
  {SameReq(u, k) : k \in {j \in Group(u) : ReqOf(j) # NoJobKey}}
    \cup (IF Unifies(u) THEN {Group(u)} ELSE {})

BugLatest(S, r) == CHOOSE k \in S : \A j \in S : r[k].first >= r[j].first
Earliest(S, r) == CHOOSE k \in S : \A j \in S : r[k].first <= r[j].first

BugFoldsSurvivor(S) ==
  [keep |-> Earliest(S, rows), left |-> S, copy |-> [k \in S |-> rows[k]]]

FoldOf(S) ==
  LET s == Earliest(S, rows)
  IN  [keep |-> s, left |-> S \ {s}, copy |-> [k \in S |-> rows[k]]]

Plan ==
  {FoldOf(S) : S \in {C \in UNION {Classes(u) : u \in Urls} :
                        \E j, k \in C : j # k}}

\* merge_duplicate: what the survivor s takes from the duplicate d.
Merge(s, d) ==
  [s EXCEPT !.title = IF s.title.seasonal /\ ~d.title.seasonal THEN d.title ELSE @,
            !.sources = @ \cup d.sources,
            !.verdict = IF @ = "none" THEN d.verdict ELSE @]

FinishGate ==
  /\ pc = "gate"
  /\ DOMAIN work = {}
  /\ pc' = "reconcile"
  /\ folds' = Plan
  /\ UNCHANGED <<rows, clock, verifyOn, work, inHand, batch, hooks, crashes>>

Absorb(f, d) ==
  [keep |-> f.keep, left |-> f.left \ {d},
   copy |-> [f.copy EXCEPT ![f.keep] = Merge(@, f.copy[d])]]

Begun(f) == f.left # DOMAIN f.copy \ {f.keep}

FoldDuplicate(f) ==
  /\ pc = "reconcile"
  /\ \A g \in folds \ {f} : ~Begun(g)
  /\ f.left # {}
  /\ LET d == Earliest(f.left, f.copy)
     IN  /\ Write(d, Folded(f.copy[d], f.keep))
         /\ folds' = (folds \ {f}) \cup {Absorb(f, d)}
  /\ UNCHANGED <<clock, pc, verifyOn, work, inHand, batch, hooks, crashes>>

FoldSurvivor(f) ==
  /\ pc = "reconcile"
  /\ f.left = {}
  /\ Write(f.keep, f.copy[f.keep])
  /\ folds' = folds \ {f}
  /\ UNCHANGED <<clock, pc, verifyOn, work, inHand, batch, hooks, crashes>>

\* Pruning and pending confirmations run here and touch no posting; without
\* --verify the cycle ends here and rows wait at "gated".
FinishReconcile ==
  /\ pc = "reconcile"
  /\ folds = {}
  /\ \/ /\ verifyOn
        /\ pc' = "verify"
        /\ work' = ByStatus("gated")
     \/ /\ ~verifyOn
        /\ pc' = "idle"
        /\ work' = work
  /\ UNCHANGED <<rows, clock, verifyOn, folds, inHand, batch, hooks, crashes>>

(***************************************************************************)
(* Stage 5, the verifier agent.  An exception leaves the row for the next  *)
(* cycle.                                                                  *)
(***************************************************************************)
Verify(k) ==
  /\ pc = "verify"
  /\ k \in DOMAIN work
  /\ \/ Write(k, Approved(work[k]))
     \/ Write(k, Denied(work[k]))
  /\ Handled(k)
  /\ UNCHANGED <<clock, pc, verifyOn, folds, inHand, batch, hooks, crashes>>

VerifierRaises(k) ==
  /\ pc = "verify"
  /\ k \in DOMAIN work
  /\ Handled(k)
  /\ UNCHANGED <<rows, clock, pc, verifyOn, folds, inHand, batch, hooks, crashes>>

FinishVerify ==
  /\ pc = "verify"
  /\ DOMAIN work = {}
  /\ pc' = "publish"
  /\ work' = ByStatus("verified")
  /\ UNCHANGED <<rows, clock, verifyOn, folds, inHand, batch, hooks, crashes>>

(***************************************************************************)
(* Stage 6, the publisher hook, then one fan-out for the whole batch.      *)
(***************************************************************************)
Publish(k) ==
  /\ pc = "publish"
  /\ inHand = {}
  /\ k \in DOMAIN work
  /\ handed' = [handed EXCEPT ![k] = @ + 1]
  /\ inHand' = {k}
  /\ UNCHANGED <<rows, clock, pc, verifyOn, work, folds, batch, announced, missed, crashes>>

PublisherRaises(k) ==
  /\ pc = "publish"
  /\ inHand = {}
  /\ k \in DOMAIN work
  /\ Handled(k)
  /\ UNCHANGED <<rows, clock, pc, verifyOn, folds, inHand, batch, hooks, crashes>>

StampPublished(k) ==
  /\ k \in inHand
  /\ Write(k, Published(work[k]))
  /\ Handled(k)
  /\ inHand' = {}
  /\ batch' = batch \cup {k}
  /\ UNCHANGED <<clock, pc, verifyOn, folds, hooks, crashes>>

BugForgetBatch ==
  /\ pc = "publish"
  /\ DOMAIN work = {}
  /\ pc' = "idle"
  /\ UNCHANGED <<rows, clock, verifyOn, memory, hooks, crashes>>

FinishPublish ==
  /\ pc = "publish"
  /\ DOMAIN work = {}
  /\ pc' = IF batch = {} THEN "idle" ELSE "notify"
  /\ UNCHANGED <<rows, clock, verifyOn, memory, hooks, crashes>>

Notify ==
  /\ pc = "notify"
  /\ announced' = [k \in Keys |-> IF k \in batch THEN announced[k] + 1 ELSE announced[k]]
  /\ batch' = {}
  /\ pc' = "idle"
  /\ UNCHANGED <<rows, clock, verifyOn, work, folds, inHand, handed, missed, crashes>>

\* "A sender crash must not kill the cycle": the exception is recorded, the rows stay
\* published, and nobody announces them again.
NotifyRaises ==
  /\ pc = "notify"
  /\ missed' = missed \cup batch
  /\ batch' = {}
  /\ pc' = "idle"
  /\ UNCHANGED <<rows, clock, verifyOn, work, folds, inHand, handed, announced, crashes>>

(***************************************************************************)
(* The process is killed (a deploy, an eviction, an exception nobody       *)
(* catches) and comes back with an empty memory.                           *)
(***************************************************************************)
Crash ==
  /\ pc # "down"
  /\ crashes < MaxCrashes
  /\ crashes' = crashes + 1
  /\ pc' = "down"
  /\ work' = << >>
  /\ folds' = {}
  /\ inHand' = {}
  /\ batch' = {}
  /\ UNCHANGED <<rows, clock, verifyOn, hooks>>

Restart ==
  /\ pc = "down"
  /\ pc' = "idle"
  /\ verifyOn' \in VerifyModes
  /\ UNCHANGED <<rows, clock, memory, hooks, crashes>>

Detecting == \E k \in Keys, src \in Sources : UpsertDetection(k, src)

Reconcile == \E f \in folds : FoldDuplicate(f) \/ FoldSurvivor(f)

OnRow(k) ==
  \/ Gate(k) \/ GateRaises(k)
  \/ Verify(k) \/ VerifierRaises(k)
  \/ Publish(k) \/ PublisherRaises(k) \/ StampPublished(k)

Proceed ==
  \/ StartCycle \/ FinishDetect \/ FinishGate \/ FinishReconcile
  \/ FinishVerify \/ FinishPublish \/ Notify \/ NotifyRaises \/ Restart

Next == Detecting \/ Reconcile \/ (\E k \in Keys : OnRow(k)) \/ Proceed \/ Crash

Spec == Init /\ [][Next]_vars

\* The loop never stops by itself.  The verifier and the publisher may fail any
\* number of times, but not for ever on one posting.
Fairness ==
  /\ WF_vars(Reconcile)
  /\ WF_vars(Proceed)
  /\ \A k \in Keys : /\ WF_vars(OnRow(k))
                     /\ SF_vars(Verify(k))
                     /\ SF_vars(Publish(k))

FairSpec == Spec /\ Fairness

-----------------------------------------------------------------------------
(***************************************************************************)
(* Properties.                                                             *)
(***************************************************************************)
\* Every variable has its type (schema.Posting and run_cycle's locals).
TypeOK ==
  /\ rows \in [Keys -> Row]
  /\ clock \in Nat
  /\ pc \in Stages
  /\ verifyOn \in BOOLEAN
  /\ IsCopy(work)
  /\ \A f \in folds : IsFold(f)
  /\ inHand \subseteq Keys
  /\ batch \subseteq Keys
  /\ handed \in [Keys -> Nat]
  /\ announced \in [Keys -> Nat]
  /\ missed \subseteq Keys
  /\ crashes \in Nat

\* "No posting reaches the publisher without a stored verdict": whatever was
\* handed to the publisher hook has an approving verdict in the table, even after
\* crashes and after its row was folded into another one.
PublishedOnVerdict ==
  \A k \in Keys :
    (handed[k] > 0 \/ rows[k].status \in {"verified", "published"})
      => rows[k].verdict = "approved"

\* A crash costs at most one extra publisher call, and without one the hook runs
\* once per posting: the status is stamped after the call and read before it.
HandedOncePerCrash == \A k \in Keys : handed[k] <= 1 + crashes

\* No posting is announced twice, and none is announced that was not published.
AnnouncedAtMostOnce ==
  \A k \in Keys : announced[k] <= 1 /\ (announced[k] = 1 => handed[k] > 0)

\* A finished cycle has announced everything it published, unless a crash interrupted
\* it or the fan-out itself raised: nothing else comes between stamp and announcement.
AnnouncedUnlessInterrupted ==
  (pc = "idle" /\ crashes = 0) =>
    \A k \in Keys : rows[k].status = "published" => announced[k] = 1 \/ k \in missed

\* "A rule rejection is final", and so is the verifier's and the reconcile pass's:
\* re-detection, a later cycle or a restart never revives a rejected posting.
RejectedIsFinal ==
  [][\A k \in Keys : rows[k].status = "rejected" => rows'[k].status = "rejected"]_vars

\* A duplicate points back to an earlier posting that passed the gate, so following
\* the pointers always ends at a posting that was judged on its own.
DuplicatePointsEarlier ==
  \A k \in Keys : rows[k].reason = "duplicate" =>
    LET s == rows[k].survivor
    IN  /\ s \in Keys
        /\ rows[s].first < rows[k].first
        /\ rows[s].canonical = rows[k].canonical
        /\ rows[s].status \in LiveStatuses \/ rows[s].reason \in {"agent", "duplicate"}

\* Reconciliation never empties a canonical URL: at every point inside the pass, and
\* so at every crash point, a URL that had a live posting keeps one.
FoldKeepsALiveRow ==
  [][pc = "reconcile" =>
       \A u \in Urls : Group(u) # {} => \E k \in Group(u) : rows'[k].status \in LiveStatuses]_vars

\* Once the pass is over no two live postings are provably the same job: same
\* canonical URL and same ATS requisition.
NoLiveTwins ==
  pc \in {"verify", "publish", "notify"} =>
    \A j, k \in Keys :
      (Live(j) /\ Live(k) /\ rows[j].canonical = rows[k].canonical
         /\ ReqOf(j) = ReqOf(k) /\ ReqOf(k) # NoJobKey) => j = k

\* What a detector reported about a posting is never forgotten, although every stage
\* writes whole rows back from copies it read earlier.
SourcesOnlyGrow ==
  [][\A k \in Keys : rows[k].sources \subseteq rows'[k].sources]_vars

\* The pipeline implements the lifecycle.
L == INSTANCE PostingLifecycle
       WITH stage <- [k \in Keys |-> rows[k].status],
            given <- {k \in Keys : handed[k] > 0}

ImplementsLifecycle == L!Lifecycle

\* Every posting the detectors find is eventually published or refused, however the
\* verifier and the publisher fail on the way and wherever a crash falls.  Two things
\* stand in the way for good: a deployment without the verifier parks it where it is,
\* and a pending posting whose gate raises ends every cycle before the verifier.
EventuallyDecided ==
  \A k \in Keys :
    (rows[k].status = "pending") ~>
      \/ rows[k].status \in {"published", "rejected"}
      \/ rows[k].status \in {"gated", "verified"} /\ ~verifyOn
      \/ \E p \in Poison : rows[p].status = "pending"

\* "A killed poller restarts and re-polls; nothing is lost but one cycle"
\* (k8s/32-deployment-poller.yaml), read for the reconcile pass of a deployment without
\* the verifier: what a survivor should take from a duplicate, here the title without
\* the season, it has in the end.
NothingLostButACycle ==
  \A k \in Keys :
    (rows[k].reason = "duplicate" /\ ~rows[k].title.seasonal)
      ~> \E s \in Keys : rows[k].survivor = s /\ ~rows[s].title.seasonal

-----------------------------------------------------------------------------
(***************************************************************************)
(* The inductive invariant behind the safety properties.  The poller is    *)
(* the only writer of postings, so the copies it holds agree with the      *)
(* table: exactly, for a row a stage has not handled yet and for a         *)
(* duplicate not folded yet; up to what the merge adds, for a survivor.    *)
(***************************************************************************)
AbsentUnseen == \A k \in Keys : rows[k].status = "absent" => rows[k].sources = {}

WorkFresh ==
  \A k \in DOMAIN work :
    /\ work[k] = rows[k]
    /\ \/ pc = "gate" /\ rows[k].status = "pending"
       \/ pc = "verify" /\ rows[k].status = "gated"
       \/ pc = "publish" /\ rows[k].status = "verified"

OneInHand == \A k \in inHand : pc = "publish" /\ k \in DOMAIN work /\ inHand = {k}

FoldFresh(f) ==
  /\ f.keep \in DOMAIN f.copy
  /\ f.left \subseteq DOMAIN f.copy \ {f.keep}
  /\ Live(f.keep)
  /\ f.copy[f.keep].status = rows[f.keep].status
  /\ rows[f.keep].sources \subseteq f.copy[f.keep].sources
  /\ rows[f.keep].verdict # "none" => f.copy[f.keep].verdict = rows[f.keep].verdict
  /\ \A d \in f.left : Live(d) /\ f.copy[d] = rows[d]

Members(f) == f.left \cup {f.keep}

FoldsFresh ==
  /\ folds = {} \/ pc = "reconcile"
  /\ \A f \in folds : FoldFresh(f)
  /\ \A f, g \in folds : f # g => Members(f) \cap Members(g) = {}

\* How often a row was handed over, by its status.
HandedBound ==
  \A k \in Keys :
    /\ handed[k] <= 1 + crashes
    /\ rows[k].status \in {"absent", "pending", "gated"} => handed[k] = 0
    /\ (rows[k].status = "verified" /\ k \notin inHand) => handed[k] <= crashes
    /\ (k \in inHand \/ rows[k].status = "published") => handed[k] > 0

BatchPublished ==
  \A k \in batch : /\ pc \in {"publish", "notify"}
                   /\ rows[k].status = "published"
                   /\ announced[k] = 0

AnnouncedLate ==
  \A k \in Keys : announced[k] > 0 => rows[k].status \in {"published", "rejected"}

IInv ==
  /\ TypeOK
  /\ AbsentUnseen
  /\ WorkFresh
  /\ OneInHand
  /\ FoldsFresh
  /\ PublishedOnVerdict
  /\ HandedBound
  /\ BatchPublished
  /\ AnnouncedLate
  /\ AnnouncedAtMostOnce
=============================================================================
