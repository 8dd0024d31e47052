---------------------------- MODULE PgStoreProofs ----------------------------
(***************************************************************************)
(* Proofs about PgStore, for every value of its constants.                 *)
(***************************************************************************)
EXTENDS PgStore, FiniteSetTheorems, TLAPS

StagesOf(req) ==
  CASE req = "report"    -> {"read_salt", "mint_salt", "prune_salts", "duplicate_report",
                             "reports_today", "add_report"}
    [] req = "visit"     -> {"read_salt", "mint_salt", "prune_salts", "record_visit"}
    [] req = "subscribe" -> {"add_subscription", "mark_sent"}
    [] req = "count"     -> {"count"}
    [] req = "upsert"    -> {"load_index", "get", "write"}
    [] OTHER             -> {"get", "write"}
Hashed == {"prune_salts", "record_visit", "duplicate_report", "reports_today", "add_report"}

\* A request at a statement is one its process serves, at one of its own
\* statements, begun today or yesterday; it holds a salt once one was returned.
Underway(t) ==
  Serving(t) =>
    /\ th[t].req \in RequestsOf(process)
    /\ th[t].stage \in StagesOf(th[t].req)
    /\ th[t].text \in TextsOf(th[t].req)
    /\ th[t].day \in {day - 1, day}
    /\ th[t].salt = NoSalt <=> th[t].stage \notin Hashed
    /\ th[t].id \in 1 .. begun
    /\ th[t].wrote \in 0 .. 1

\* The row of a signup is filed under an identity no other request has, and only
\* by the statement that set wrote.
Signups ==
  /\ db.subscribed \subseteq 1 .. begun
  /\ \A t, u \in Threads : Serving(t) /\ Serving(u) /\ th[t].id = th[u].id => t = u
  /\ \A t \in Threads :
       th[t].stage = "add_subscription" => (th[t].id \in db.subscribed <=> th[t].wrote = 1)

\* A request whose write was applied holds the lock between the two attempts at
\* it, or is past it and stamps what was mailed.
Writing(t) ==
  Serving(t) =>
    IF th[t].stage = "mark_sent" THEN th[t].wrote = 1
    ELSE th[t].wrote > 0 => /\ lock = t
                            /\ th[t].stage = Write(th[t].req)
                            /\ th[t].broke > 0

\* A day's salt is in its row while a request of that day may still read it, and
\* every hash made of the day used that salt.
Hashes == db.visits \union
            {<<th[t].day, th[t].salt>> : t \in {u \in Threads : th[u].salt # NoSalt}}
SaltsStay ==
  /\ \A t \in Threads : ~Serving(t) => th[t].salt = NoSalt
  /\ \A v \in db.visits : v[2] # NoSalt
  /\ \A v \in Hashes : v[1] <= day /\ (v[1] >= day - 1 => db.salts[v[1]] = v[2])

\* The poller has one request at a time, so the row it writes back is the row
\* that is there, and what the index says of the row is in the row.
OnePoller ==
  /\ process = "poller" => \A t, u \in Threads : Serving(t) /\ Serving(u) => t = u
  /\ index.has \subseteq db.posting
  /\ \A t \in Threads : th[t].stage = "write" => db.posting \subseteq th[t].copy \union {th[t].text}

\* Requests past the check of a cap may still file a row each; a broken
\* connection may have filed one more.
Filed(w, d) == {r \in db.reports : r.who = w /\ r.day = d}
Copies(w, d, x) == {r \in Filed(w, d) : r.text = x}
PastCap(w) == {t \in Threads : th[t].stage = "add_report" /\ th[t].salt = w}
PastDuplicate(w, x) ==
  {t \in Threads : th[t].stage \in {"reports_today", "add_report"}
                   /\ th[t].salt = w /\ th[t].text = x}
Most == Cardinality(Threads) + faults
FiledRows ==
  /\ IsFiniteSet(db.reports)
  /\ \A r \in db.reports : r.day <= day
  /\ \A w \in Nat : \A d \in Days :
       /\ Cardinality(Filed(w, d)) <= Cap - 1 + Most
       /\ \A x \in Texts : Cardinality(Copies(w, d, x)) <= Most
  /\ \A w \in Nat :
       /\ Cardinality(Filed(w, day)) + Cardinality(PastCap(w)) <= Cap - 1 + Most
       /\ \A x \in Texts :
            Cardinality(Copies(w, day, x)) + Cardinality(PastDuplicate(w, x)) <= Most

IInv ==
  /\ TypeOK
  /\ \A t \in Threads : Underway(t) /\ Writing(t)
  /\ Signups
  /\ OneSaltPerDay
  /\ SaltsStay
  /\ OnePoller
  /\ SightingsKept
  /\ RetryIsSafe
  /\ FiledRows

-----------------------------------------------------------------------------
(***************************************************************************)
(* The operators the actions are built from, field by field.               *)
(***************************************************************************)
\* A request that goes on keeps its locals; one that is over loses them.
LEMMA AtFields ==
  ASSUME NEW r \in Locals, NEW s \in Statements \union Outcomes
  PROVE  /\ At(r, s) \in Locals
         /\ At(r, s).stage = s
         /\ At(r, s).req = r.req
         /\ At(r, s).broke = r.broke
         /\ At(r, s).wrote = r.wrote
         /\ s \in Statements => /\ At(r, s).text = r.text
                                /\ At(r, s).day = r.day
                                /\ At(r, s).salt = r.salt
                                /\ At(r, s).copy = r.copy
                                /\ At(r, s).id = r.id
         /\ s \notin Statements => At(r, s).salt = NoSalt
<1>1. Idle \in Locals
  BY PgStoreAssumption DEF Idle, Locals, Requests, RequestsOf, Outcomes, Days, NoSalt
<1>2. CASE s \in Statements
  BY <1>2 DEF At, Locals
<1>3. CASE s \notin Statements
  BY <1>1, <1>3 DEF At, Locals, Idle
<1> QED BY <1>2, <1>3

\* A statement that lands changes the thread's record in its count of writes only.
LEMMA LandedFields ==
  ASSUME NEW t \in Threads, th[t] \in Locals
  PROVE  /\ Landed(t) \in Locals
         /\ Landed(t).wrote = IF th[t].stage = Write(th[t].req) THEN th[t].wrote + 1
                              ELSE th[t].wrote
         /\ Landed(t).stage = th[t].stage
         /\ Landed(t).req = th[t].req
         /\ Landed(t).text = th[t].text
         /\ Landed(t).day = th[t].day
         /\ Landed(t).salt = th[t].salt
         /\ Landed(t).copy = th[t].copy
         /\ Landed(t).id = th[t].id
         /\ Landed(t).broke = th[t].broke
BY DEF Landed, Locals

\* Minting keeps the salt that is there.
LEMMA MintedTables ==
  ASSUME db \in Tables, NEW d \in Days
  PROVE  /\ Minted(d) \in Tables
         /\ Minted(d).salts[d] \in Nat \ {NoSalt}
         /\ db.salts[d] # NoSalt => Minted(d) = db
         /\ \A e \in Days : e # d => Minted(d).salts[e] = db.salts[e]
         /\ Minted(d).visits = db.visits /\ Minted(d).reports = db.reports
         /\ Minted(d).subscribed = db.subscribed /\ Minted(d).posting = db.posting
         /\ Minted(d).mailed = db.mailed
<1>1. CASE db.salts[d] # NoSalt
  BY <1>1 DEF Minted, Tables
<1>2. CASE db.salts[d] = NoSalt
  <2> DEFINE salts2 == [db.salts EXCEPT ![d] = db.coined + 1]
  <2>1. salts2 \in [Days -> Nat] /\ db.coined + 1 \in Nat \ {NoSalt}
    BY DEF Tables, NoSalt
  <2>2. Minted(d) = [db EXCEPT !.salts = salts2, !.coined = db.coined + 1]
    BY <1>2 DEF Minted
  <2>3. Minted(d) \in Tables /\ Minted(d).salts = salts2
    BY <2>1, <2>2 DEF Tables
  <2> QED BY <1>2, <2>1, <2>2, <2>3 DEF Tables
<1> QED BY <1>1, <1>2

\* Pruning never touches the day it is run for, nor the day before.
LEMMA PrunedTables ==
  ASSUME db \in Tables, NEW d \in Days
  PROVE  /\ Pruned(d) \in Tables
         /\ \A e \in Days : e >= d - 1 => Pruned(d).salts[e] = db.salts[e]
         /\ \A e \in Days : Pruned(d).salts[e] \in {NoSalt, db.salts[e]}
         /\ Pruned(d).visits = db.visits /\ Pruned(d).reports = db.reports
         /\ Pruned(d).subscribed = db.subscribed /\ Pruned(d).posting = db.posting
         /\ Pruned(d).mailed = db.mailed
<1>1. \A e \in Days : e >= d - 1 => ~(e < d - KeepDays)
  BY PgStoreAssumption DEF Days
<1> QED BY <1>1 DEF Pruned, Tables, NoSalt

\* Which statement writes which table.
LEMMA ExecutedTables ==
  ASSUME NEW t \in Threads, TypeOK, Underway(t), Serving(t)
  PROVE  /\ Executed(t) \in Tables
         /\ Executed(t).mailed \subseteq Executed(t).subscribed
         /\ Executed(t).salts = CASE th[t].stage = "mint_salt"   -> Minted(th[t].day).salts
                                  [] th[t].stage = "prune_salts" -> Pruned(th[t].day).salts
                                  [] OTHER -> db.salts
         /\ Executed(t).visits = IF th[t].stage = "record_visit"
                                 THEN db.visits \union {<<th[t].day, th[t].salt>>}
                                 ELSE db.visits
         /\ Executed(t).reports = IF th[t].stage = "add_report"
                                  THEN db.reports \union {Row(t)} ELSE db.reports
         /\ Executed(t).subscribed = IF th[t].stage = "add_subscription"
                                     THEN db.subscribed \union {th[t].id} ELSE db.subscribed
         /\ Executed(t).posting = IF th[t].stage = "write"
                                  THEN th[t].copy \union {th[t].text} ELSE db.posting
<1>1. /\ th[t] \in Locals /\ db \in Tables /\ th[t].day \in Days /\ day \in Days
      /\ db.mailed \subseteq db.subscribed /\ th[t].stage \in Statements
      /\ begun \in 0 .. MaxRequests
  BY DEF TypeOK, Locals, Serving
<1>2. /\ th[t].req \in RequestsOf(process) /\ th[t].stage \in StagesOf(th[t].req)
      /\ th[t].text \in TextsOf(th[t].req) /\ th[t].id \in 1 .. begun
  BY DEF Underway
<1>3. CASE th[t].stage = "mint_salt"
  BY <1>1, <1>3, MintedTables DEF Executed
<1>4. CASE th[t].stage = "prune_salts"
  BY <1>1, <1>4, PrunedTables DEF Executed
<1>5. CASE th[t].stage = "record_visit"
  BY <1>1, <1>5 DEF Executed, Tables, Locals
<1>6. CASE th[t].stage = "add_report"
  <2>1. th[t].text \in Texts
    BY <1>2, <1>6 DEF StagesOf, TextsOf
  <2>2. Row(t) \in Rows
    BY <1>1, <2>1 DEF Row, Rows, Locals
  <2> QED BY <1>1, <1>6, <2>2 DEF Executed, Tables
<1>7. CASE th[t].stage = "add_subscription"
  <2>1. th[t].id \in 1 .. MaxRequests
    BY <1>1, <1>2, PgStoreAssumption
  <2> QED BY <1>1, <1>7, <2>1 DEF Executed, Tables
<1>8. CASE th[t].stage = "mark_sent"
  BY <1>1, <1>8 DEF Executed, Tables
<1>9. CASE th[t].stage = "count"
  BY <1>1, <1>9 DEF Executed, Tables
<1>10. CASE th[t].stage = "write"
  <2>1. th[t].text \in Texts
    BY <1>2, <1>10 DEF StagesOf, TextsOf, RequestsOf
  <2> QED BY <1>1, <1>10, <2>1 DEF Executed, Tables, Locals
<1>11. CASE th[t].stage \notin {"mint_salt", "prune_salts", "record_visit", "add_report",
                                "add_subscription", "mark_sent", "count", "write"}
  BY <1>1, <1>11 DEF Executed
<1> QED BY <1>3, <1>4, <1>5, <1>6, <1>7, <1>8, <1>9, <1>10, <1>11

\* A statement's answer takes a request to one of its own statements, or ends it.
LEMMA NextStagesOK ==
  ASSUME NEW t \in Threads, Underway(t), Serving(t), NEW s \in NextStages(t)
  PROVE  /\ s \in StagesOf(th[t].req) \union (Outcomes \ {"error"})
         /\ s \in Statements \union Outcomes
<1>1. th[t].stage \in StagesOf(th[t].req) /\ th[t].req \in RequestsOf(process)
  BY DEF Underway
<1>2. s \in StagesOf(th[t].req) \union (Outcomes \ {"error"})
  BY <1>1, Zenon, SMTT(20) DEF NextStages, StagesOf, AfterSalt, Outcomes, Lookup, RequestsOf
<1>3. StagesOf(th[t].req) \subseteq Statements
  BY DEF StagesOf, Statements
<1> QED BY <1>2, <1>3

-----------------------------------------------------------------------------
(***************************************************************************)
(* What a call of _run does, in one of three ways.                         *)
(***************************************************************************)
\* The statement was applied and answered.
AnswerStep(t) ==
  /\ ~RefusedInsert(t) /\ Answers(t)
  /\ lock' = NoOne /\ faults' = faults

\* It was applied and nobody heard of it: a second attempt follows, or an error.
LostStep(t, s) ==
  /\ ~RefusedInsert(t) /\ s \in {th[t].stage, "error"}
  /\ lock = NoOne \/ s = "error"
  /\ db' = Executed(t)
  /\ th' = [th EXCEPT ![t] = At([Landed(t) EXCEPT !.broke = @ + 1], s)]
  /\ lock' = (IF s = "error" THEN NoOne ELSE t)
  /\ faults' = faults + 1 /\ UNCHANGED memory

\* It was not applied; a call fails without a break only when its row is refused.
VoidStep(t, s, b) ==
  /\ s \in {th[t].stage, "error"} /\ b \in 0 .. 1
  /\ s = "error" /\ b = 0 => RefusedInsert(t)
  /\ db' = db
  /\ th' = [th EXCEPT ![t] = At([th[t] EXCEPT !.broke = @ + b], s)]
  /\ lock' = (IF s = "error" THEN NoOne ELSE t)
  /\ faults' \in {faults, faults + 1} /\ UNCHANGED memory

CallStep(t) ==
  \/ AnswerStep(t)
  \/ \E s \in {th[t].stage, "error"} : LostStep(t, s)
  \/ \E s \in {th[t].stage, "error"}, b \in 0 .. 1 : VoidStep(t, s, b)

\* A call is a statement of the thread's own process, made under its lock, that is
\* answered, refused, lost or never sent.
LEMMA CallCases ==
  ASSUME IInv, NEW t \in Threads, Call(t)
  PROVE  /\ Serving(t) /\ lock \in {NoOne, t}
         /\ UNCHANGED <<clock, begun>>
         /\ CallStep(t)
<1>1. th[t] \in Locals /\ th \in [Threads -> Locals] /\ t # NoOne
  BY PgStoreAssumption DEF IInv, TypeOK
<1>2. /\ lock = t => Serving(t)
      /\ faults \in Nat
  BY <1>1, PgStoreAssumption DEF IInv, TypeOK
<1>3. Serving(t) => th[t].stage \in Statements /\ th[t].stage # "error"
  BY DEF Serving, Statements
<1>4. lock = NoOne /\ Serving(t) => ~RefusedInsert(t)
  <2>1. Writing(t) /\ (th[t].stage = "add_subscription" =>
                         (th[t].id \in db.subscribed <=> th[t].wrote = 1))
    BY DEF IInv, Signups
  <2> QED BY <1>1, <2>1 DEF RefusedInsert, Writing
<1>5. CASE Run(t)
  BY <1>1, <1>4, <1>5 DEF Run, Ready, AnswerStep, CallStep
<1>6. CASE Refused(t)
  <2>1. VoidStep(t, "error", 1)
    BY <1>6 DEF Refused, VoidStep, Ready, Fault, memory
  <2> QED BY <1>6, <2>1 DEF Refused, Ready, CallStep
<1>7. CASE Breaks(t)
  <2>1. LostStep(t, th[t].stage) \/ VoidStep(t, th[t].stage, 1)
    BY <1>1, <1>3, <1>7 DEF Breaks, BreaksInto, LostStep, VoidStep, Ready, Fault, memory
  <2> QED BY <1>7, <2>1 DEF Breaks, Ready, CallStep
<1>8. CASE FindsItDead(t)
  <2>1. At([th[t] EXCEPT !.broke = @ + 0], th[t].stage) = th[t]
    <3>1. [th[t] EXCEPT !.broke = @ + 0] = th[t] /\ [th[t] EXCEPT !.stage = th[t].stage] = th[t]
      BY <1>1 DEF Locals
    <3> QED BY <1>3, <1>8, <3>1 DEF At, FindsItDead, Ready
  <2>2. th' = [th EXCEPT ![t] = At([th[t] EXCEPT !.broke = @ + 0], th[t].stage)]
    BY <1>1, <1>8, <2>1 DEF FindsItDead
  <2>3. Serving(t) /\ lock' = t /\ db' = db /\ faults' = faults /\ UNCHANGED memory
    BY <1>8 DEF FindsItDead, Ready, memory
  <2>4. VoidStep(t, th[t].stage, 0)
    BY <1>3, <2>2, <2>3 DEF VoidStep
  <2> QED BY <1>8, <2>4 DEF FindsItDead, Ready, CallStep
<1>9. CASE Rerun(t)
  <2>1. CASE RefusedInsert(t)
    <3>1. [th[t] EXCEPT !.broke = @ + 0] = th[t]
      BY <1>1 DEF Locals
    <3>2. VoidStep(t, "error", 0)
      BY <1>9, <2>1, <3>1 DEF Rerun, Fails, VoidStep, memory
    <3> QED BY <1>2, <1>9, <3>2 DEF Rerun, Retrying, CallStep
  <2>2. CASE ~RefusedInsert(t)
    BY <1>2, <1>9, <2>2 DEF Rerun, Retrying, AnswerStep, CallStep
  <2> QED BY <2>1, <2>2
<1>10. CASE RerunFails(t)
  <2>1. LostStep(t, "error") \/ VoidStep(t, "error", 1)
    BY <1>1, <1>10 DEF RerunFails, BreaksInto, LostStep, VoidStep, Fault, memory
  <2> QED BY <1>2, <1>10, <2>1 DEF RerunFails, Retrying, CallStep
<1> QED BY <1>5, <1>6, <1>7, <1>8, <1>9, <1>10 DEF Call

\* Request t becomes r: the same request, its locals gone once it is over.
Becomes(t, r) ==
  /\ r \in Locals /\ th' = [th EXCEPT ![t] = r]
  /\ r.req = th[t].req
  /\ r.stage \in Statements => r.text = th[t].text /\ r.day = th[t].day /\ r.id = th[t].id
  /\ r.stage \notin Statements => r.salt = NoSalt
WroteOne(t) == IF th[t].stage = Write(th[t].req) THEN th[t].wrote + 1 ELSE th[t].wrote

\* What a thread holds after an answer has its type.
LEMMA SaltAndCopyAfter ==
  ASSUME TypeOK, NEW t \in Threads
  PROVE  SaltAfter(t) \in Nat /\ CopyAfter(t) \in SUBSET Texts
<1>1. /\ th[t] \in Locals /\ db \in Tables /\ th[t].day \in Days
  BY DEF TypeOK, Locals
<1>2. Minted(th[t].day).salts[th[t].day] \in Nat
  BY <1>1, MintedTables
<1> QED BY <1>1, <1>2 DEF SaltAfter, CopyAfter, SaltNow, Locals, Tables

\* What an answered statement leaves: where the thread goes, what it holds, its writes.
LEMMA AnswerFields ==
  ASSUME TypeOK, NEW t \in Threads, Underway(t), Serving(t), AnswerStep(t)
  PROVE  \E r \in Locals :
           /\ Becomes(t, r)
           /\ r.stage \in NextStages(t)
           /\ r.stage \in Statements => r.salt = SaltAfter(t) /\ r.copy = CopyAfter(t)
           /\ r.broke = th[t].broke
           /\ r.wrote = WroteOne(t)
           /\ sighted' = SightedAfter(th[t].req, th[t].text, r.stage)
           /\ index' = IndexAfter(t)
<1> DEFINE q == [Landed(t) EXCEPT !.salt = SaltAfter(t), !.copy = CopyAfter(t)]
<1>1. PICK s \in NextStages(t) : /\ sighted' = SightedAfter(th[t].req, th[t].text, s)
                                 /\ th' = [th EXCEPT ![t] = At(q, s)]
  BY DEF AnswerStep, Answers
<1>2. s \in Statements \union Outcomes
  BY NextStagesOK
<1>3. th[t] \in Locals
  BY DEF TypeOK
<1>4. /\ q \in Locals /\ q.wrote = WroteOne(t) /\ q.req = th[t].req /\ q.text = th[t].text
      /\ q.day = th[t].day /\ q.id = th[t].id /\ q.broke = th[t].broke
      /\ q.salt = SaltAfter(t) /\ q.copy = CopyAfter(t)
  BY <1>3, LandedFields, SaltAndCopyAfter DEF Locals, WroteOne
<1> HIDE DEF q
<1>5. /\ Becomes(t, At(q, s)) /\ At(q, s) \in Locals /\ At(q, s).stage = s
      /\ s \in Statements => At(q, s).salt = SaltAfter(t) /\ At(q, s).copy = CopyAfter(t)
      /\ At(q, s).broke = th[t].broke /\ At(q, s).wrote = WroteOne(t)
  BY <1>1, <1>2, <1>4, AtFields DEF Becomes
<1> QED BY <1>1, <1>5 DEF AnswerStep, Answers

\* What a statement leaves whose answer was lost: it landed, and the thread knows nothing.
LEMMA LostFields ==
  ASSUME TypeOK, NEW t \in Threads, Serving(t), NEW s, LostStep(t, s)
  PROVE  \E r \in Locals :
           /\ Becomes(t, r)
           /\ r.stage = s
           /\ r.stage \in Statements => r.salt = th[t].salt /\ r.copy = th[t].copy
           /\ r.broke = th[t].broke + 1
           /\ r.wrote = WroteOne(t)
<1> DEFINE q == [Landed(t) EXCEPT !.broke = @ + 1]
<1>1. th' = [th EXCEPT ![t] = At(q, s)] /\ s \in Statements \union Outcomes
  BY DEF LostStep, Serving, Outcomes
<1>2. th[t] \in Locals
  BY DEF TypeOK
<1>3. /\ q \in Locals /\ q.wrote = WroteOne(t) /\ q.req = th[t].req /\ q.text = th[t].text
      /\ q.day = th[t].day /\ q.id = th[t].id /\ q.broke = th[t].broke + 1
      /\ q.salt = th[t].salt /\ q.copy = th[t].copy
  BY <1>2, LandedFields DEF Locals, WroteOne
<1> HIDE DEF q
<1>4. /\ Becomes(t, At(q, s)) /\ At(q, s) \in Locals /\ At(q, s).stage = s
      /\ s \in Statements => At(q, s).salt = th[t].salt /\ At(q, s).copy = th[t].copy
      /\ At(q, s).broke = th[t].broke + 1 /\ At(q, s).wrote = WroteOne(t)
  BY <1>1, <1>3, AtFields DEF Becomes
<1> QED BY <1>4

\* What a statement leaves that never reached the database.
LEMMA VoidFields ==
  ASSUME TypeOK, NEW t \in Threads, Serving(t), NEW s, NEW b, VoidStep(t, s, b)
  PROVE  \E r \in Locals :
           /\ Becomes(t, r)
           /\ r.stage = s
           /\ r.stage \in Statements => r.salt = th[t].salt /\ r.copy = th[t].copy
           /\ r.broke = th[t].broke + b
           /\ r.wrote = th[t].wrote
<1> DEFINE q == [th[t] EXCEPT !.broke = @ + b]
<1>1. /\ th' = [th EXCEPT ![t] = At(q, s)] /\ s \in Statements \union Outcomes
      /\ b \in 0 .. 1
  BY DEF VoidStep, Serving, Outcomes
<1>2. th[t] \in Locals
  BY DEF TypeOK
<1>3. /\ q \in Locals /\ q.wrote = th[t].wrote /\ q.req = th[t].req /\ q.text = th[t].text
      /\ q.day = th[t].day /\ q.id = th[t].id /\ q.broke = th[t].broke + b
      /\ q.salt = th[t].salt /\ q.copy = th[t].copy
  BY <1>1, <1>2 DEF Locals
<1> HIDE DEF q
<1>4. /\ Becomes(t, At(q, s)) /\ At(q, s) \in Locals /\ At(q, s).stage = s
      /\ s \in Statements => At(q, s).salt = th[t].salt /\ At(q, s).copy = th[t].copy
      /\ At(q, s).broke = th[t].broke + b /\ At(q, s).wrote = th[t].wrote
  BY <1>1, <1>3, AtFields DEF Becomes
<1> QED BY <1>4

\* A request begins at its first statement, holding nothing; a sighting the index
\* knows to bring nothing is over at once.
Starts == {"read_salt", "load_index", "get", "add_subscription", "count"}
\* What a request begins with: its own text and day, its own id, no write and no retry.
LEMMA BeginFields ==
  ASSUME TypeOK, NEW t \in Threads, Begin(t)
  PROVE  \E req \in RequestsOf(process) : \E x \in TextsOf(req) : \E r \in Locals :
           /\ MayBegin(t, req)
           /\ th' = [th EXCEPT ![t] = r]
           /\ r.req = req
           /\ r.stage = FirstStage(req, x)
           /\ \/ r.stage \in StagesOf(req) \intersect Starts
              \/ (r.stage = "ok" /\ req = "upsert" /\ x \in index.has)
           /\ r.salt = NoSalt /\ r.wrote = 0 /\ r.broke = 0
           /\ r.stage \in Statements => r.text = x /\ r.day = day /\ r.id = begun + 1
           /\ sighted' = SightedAfter(req, x, r.stage)
<1>0. PICK req \in RequestsOf(process) : \E x \in TextsOf(req) :
        /\ MayBegin(t, req)
        /\ sighted' = SightedAfter(req, x, FirstStage(req, x))
        /\ th' = [th EXCEPT ![t] = At([Idle EXCEPT !.req = req, !.text = x, !.day = day,
                                           !.id = begun + 1, !.wrote = 0],
                                      FirstStage(req, x))]
  BY DEF Begin
<1>1. PICK x \in TextsOf(req) :
        /\ MayBegin(t, req)
        /\ sighted' = SightedAfter(req, x, FirstStage(req, x))
        /\ th' = [th EXCEPT ![t] = At([Idle EXCEPT !.req = req, !.text = x, !.day = day,
                                           !.id = begun + 1, !.wrote = 0],
                                      FirstStage(req, x))]
  BY <1>0
<1> DEFINE q == [Idle EXCEPT !.req = req, !.text = x, !.day = day,
                             !.id = begun + 1, !.wrote = 0]
           s == FirstStage(req, x)
<1>2. \/ s \in StagesOf(req) \intersect Starts
      \/ (s = "ok" /\ req = "upsert" /\ x \in index.has)
  BY <1>1 DEF FirstStage, StagesOf, Starts, RequestsOf, Lookup, Write
<1>3. s \in Statements \union Outcomes
  BY <1>2 DEF Starts, Statements, Outcomes
<1>4. /\ q \in Locals /\ q.req = req /\ q.text = x /\ q.day = day /\ q.id = begun + 1
      /\ q.wrote = 0 /\ q.broke = 0 /\ q.salt = NoSalt
  <2>1. req \in Requests /\ x \in Texts \union {NoText} /\ day \in Days /\ begun + 1 \in Nat
    BY <1>1 DEF TypeOK, Requests, TextsOf
  <2> QED BY <2>1 DEF Idle, Locals, Outcomes, NoSalt
<1> HIDE DEF q, s
<1>5. /\ At(q, s) \in Locals /\ At(q, s).req = req /\ At(q, s).stage = s
      /\ At(q, s).salt = NoSalt /\ At(q, s).wrote = 0 /\ At(q, s).broke = 0
      /\ s \in Statements => /\ At(q, s).text = x /\ At(q, s).day = day
                             /\ At(q, s).id = begun + 1
  BY <1>3, <1>4, AtFields
<1>6. th' = [th EXCEPT ![t] = At(q, s)] /\ sighted' = SightedAfter(req, x, s)
      /\ s = FirstStage(req, x)
  BY <1>1 DEF q, s
<1> At(q, s) \in Locals
  BY <1>5
<1> WITNESS req \in RequestsOf(process)
<1> WITNESS x \in TextsOf(req)
<1> WITNESS At(q, s) \in Locals
<1> QED BY <1>1, <1>2, <1>5, <1>6

\* The connection and the counters under a call.
LEMMA CallConnection ==
  ASSUME TypeOK, NEW t \in Threads, Call(t)
  PROVE  /\ faults' \in 0 .. MaxFaults
         /\ conn' \in {"none", "live", "dead"}
         /\ lock' # NoOne => conn' = "dead"
<1>1. lock # NoOne => conn = "dead"
  BY DEF TypeOK
<1>2. faults \in 0 .. MaxFaults /\ conn \in {"none", "live", "dead"} /\ MaxFaults \in Nat
  BY PgStoreAssumption DEF TypeOK
<1>3. CASE Run(t) \/ Rerun(t)
  BY <1>2, <1>3 DEF Run, Rerun, Ready
<1>4. CASE Refused(t)
  BY <1>1, <1>2, <1>4 DEF Refused, Fault, Ready
<1>5. CASE Breaks(t) \/ RerunFails(t)
  BY <1>2, <1>5 DEF Breaks, RerunFails, Fault
<1>6. CASE FindsItDead(t)
  BY <1>2, <1>6 DEF FindsItDead
<1> QED BY <1>3, <1>4, <1>5, <1>6 DEF Call

-----------------------------------------------------------------------------
(***************************************************************************)
(* Types.                                                                  *)
(***************************************************************************)
LEMMA CallType ==
  ASSUME IInv, NEW t \in Threads, Call(t)
  PROVE  TypeOK'
<1>1. /\ TypeOK /\ Underway(t)
  BY DEF IInv
<1>2. /\ Serving(t) /\ UNCHANGED <<clock, begun>> /\ CallStep(t)
  BY CallCases
<1>3. /\ faults' \in 0 .. MaxFaults /\ conn' \in {"none", "live", "dead"}
      /\ lock' # NoOne => conn' = "dead"
  BY <1>1, CallConnection
<1>4. /\ db \in Tables /\ Executed(t) \in Tables
      /\ db.mailed \subseteq db.subscribed
      /\ Executed(t).mailed \subseteq Executed(t).subscribed
  BY <1>1, <1>2, ExecutedTables DEF TypeOK
<1>5. db' \in Tables /\ (db.mailed \subseteq db.subscribed)'
  BY <1>2, <1>4 DEF CallStep, AnswerStep, Answers, LostStep, VoidStep
<1>6. PICK r \in Locals : Becomes(t, r) /\ (lock' = NoOne \/ (lock' = t /\ r.stage \in Statements))
  <2>1. CASE AnswerStep(t)
    BY <1>1, <1>2, <2>1, AnswerFields DEF AnswerStep
  <2>2. ASSUME NEW s \in {th[t].stage, "error"}, LostStep(t, s)
        PROVE  \E r \in Locals :
                 Becomes(t, r) /\ (lock' = NoOne \/ (lock' = t /\ r.stage \in Statements))
    <3>1. PICK r \in Locals : Becomes(t, r) /\ r.stage = s
      BY <1>1, <1>2, <2>2, LostFields
    <3>2. lock' = NoOne \/ (lock' = t /\ s \in Statements)
      BY <1>2, <2>2 DEF LostStep, Serving
    <3> QED BY <3>1, <3>2
  <2>3. ASSUME NEW s \in {th[t].stage, "error"}, NEW b \in 0 .. 1, VoidStep(t, s, b)
        PROVE  \E r \in Locals :
                 Becomes(t, r) /\ (lock' = NoOne \/ (lock' = t /\ r.stage \in Statements))
    <3>1. PICK r \in Locals : Becomes(t, r) /\ r.stage = s
      BY <1>1, <1>2, <2>3, VoidFields
    <3>2. lock' = NoOne \/ (lock' = t /\ s \in Statements)
      BY <1>2, <2>3 DEF VoidStep, Serving
    <3> QED BY <3>1, <3>2
  <2> QED BY <1>2, <2>1, <2>2, <2>3 DEF CallStep
<1>7. /\ th' \in [Threads -> Locals] /\ lock' \in Threads \union {NoOne}
      /\ lock' # NoOne => Serving(lock)'
  BY <1>1, <1>6 DEF TypeOK, Becomes, Serving
<1>8. /\ index' \in [loaded : BOOLEAN, has : SUBSET Texts]
      /\ sighted' \subseteq Texts
  <2>1. th[t] \in Locals /\ db.posting \subseteq Texts
        /\ index \in [loaded : BOOLEAN, has : SUBSET Texts] /\ sighted \subseteq Texts
    BY <1>1 DEF TypeOK, Tables
  <2>2. th[t].req = "upsert" => th[t].text \in Texts
    BY <1>1, <1>2 DEF Underway, TextsOf
  <2>3. IndexAfter(t) \in [loaded : BOOLEAN, has : SUBSET Texts]
    BY <2>1, <2>2 DEF IndexAfter, Locals
  <2>4. ASSUME NEW s PROVE SightedAfter(th[t].req, th[t].text, s) \subseteq Texts
    BY <2>1, <2>2 DEF SightedAfter
  <2> QED BY <1>2, <2>1, <2>3, <2>4 DEF CallStep, AnswerStep, Answers, LostStep, VoidStep, memory
<1> QED BY <1>1, <1>2, <1>3, <1>5, <1>7, <1>8 DEF TypeOK, clock

\* A request that begins keeps every variable's type.
LEMMA BeginType ==
  ASSUME TypeOK, NEW t \in Threads, Begin(t)
  PROVE  TypeOK'
<1>1. \E req \in RequestsOf(process) : \E x \in TextsOf(req) : \E r \in Locals :
        /\ ~Serving(t)
        /\ th' = [th EXCEPT ![t] = r]
        /\ sighted' = SightedAfter(req, x, r.stage)
        /\ req = "upsert" => x \in Texts
  BY BeginFields DEF TextsOf, MayBegin
<1>2. sighted' \subseteq Texts
  BY <1>1 DEF SightedAfter, TypeOK
<1>3. begun' \in 0 .. MaxRequests
  BY PgStoreAssumption DEF Begin, TypeOK
<1>4. lock # NoOne => lock # t
  BY <1>1 DEF TypeOK
<1> QED BY <1>1, <1>2, <1>3, <1>4 DEF Begin, TypeOK, clock, Serving

\* A dropped connection, a crash and midnight keep every variable's type.
LEMMA OtherType ==
  ASSUME TypeOK, Dropped \/ Crash \/ Midnight
  PROVE  TypeOK'
<1>1. Idle \in Locals
  BY PgStoreAssumption DEF Idle, Locals, Requests, RequestsOf, Outcomes, Days, NoSalt
<1>2. CASE Dropped
  BY <1>2, PgStoreAssumption DEF Dropped, TypeOK, clock, memory, Serving
<1>3. CASE Crash
  BY <1>1, <1>3, PgStoreAssumption DEF Crash, TypeOK, clock, NoIndex
<1>4. CASE Midnight
  BY <1>4, PgStoreAssumption DEF Midnight, TypeOK, memory, Serving, Days
<1> QED BY <1>2, <1>3, <1>4

\* Every variable has its type at the start.
LEMMA InitType == Init => TypeOK
<1> SUFFICES ASSUME Init PROVE TypeOK
  OBVIOUS
<1>1. Idle \in Locals
  BY PgStoreAssumption DEF Idle, Locals, Requests, RequestsOf, Outcomes, Days, NoSalt
<1>2. db \in Tables /\ db.mailed \subseteq db.subscribed
  BY DEF Init, Tables, NoSalt
<1> QED BY <1>1, <1>2, PgStoreAssumption DEF Init, TypeOK, Days, NoIndex

-----------------------------------------------------------------------------
(***************************************************************************)
(* The retry: what a request has written, and how it may end.              *)
(***************************************************************************)
Retry(t) ==
  /\ th[t].stage = "error" => th[t].broke > 0
  /\ th[t].stage = "ok" => th[t].wrote > 0 \/ th[t].req = "upsert"
  /\ th[t].wrote <= (IF th[t].broke > 0 /\ th[t].req # "subscribe" THEN 2 ELSE 1)
RequestOK(t) == Underway(t) /\ Writing(t) /\ Retry(t)

\* What the answer of a statement leaves of the request.
LEMMA AnswerRequest ==
  ASSUME IInv, NEW t \in Threads, Serving(t), AnswerStep(t), UNCHANGED <<clock, begun>>
  PROVE  RequestOK(t)'
<1>1. /\ TypeOK /\ Underway(t) /\ Writing(t) /\ Retry(t)
      /\ th[t].stage = "add_subscription" => (th[t].id \in db.subscribed <=> th[t].wrote = 1)
  BY DEF IInv, Signups, RetryIsSafe, Retry
<1>2. PICK r \in Locals :
        /\ Becomes(t, r)
        /\ r.stage \in NextStages(t)
        /\ r.stage \in Statements => r.salt = SaltAfter(t) /\ r.copy = CopyAfter(t)
        /\ r.broke = th[t].broke
        /\ r.wrote = WroteOne(t)
  BY <1>1, AnswerFields
<1>3. th'[t] = r /\ th[t] \in Locals /\ th[t].day \in Days /\ db \in Tables
  BY <1>1, <1>2 DEF Becomes, TypeOK, Locals
<1>4. ~RefusedInsert(t) /\ process' = process /\ day' = day /\ begun' = begun
  BY DEF AnswerStep, clock
<1>5. CASE th[t].stage \in {"read_salt", "mint_salt"}
  <2>1. SaltNow(t) \in Nat /\ Minted(th[t].day).salts[th[t].day] \in Nat \ {NoSalt}
    BY <1>3, MintedTables DEF SaltNow, Tables
  <2>2. th[t].req \in {"report", "visit"} /\ th[t].wrote = 0
    BY <1>1, <1>5 DEF Underway, StagesOf, Writing, Write, RequestsOf, Locals
  <2>3. \/ /\ r.stage = "mint_salt"
           /\ r.salt = NoSalt
        \/ /\ r.stage \in {"prune_salts", AfterSalt(th[t])}
           /\ r.salt # NoSalt
    BY <1>2, <1>5, <2>1 DEF NextStages, SaltAfter, AfterSalt, Statements
  <2>4. r.wrote = 0
    BY <1>2, <1>5, <2>2 DEF WroteOne, Write
  <2> QED
    BY <1>1, <1>2, <1>3, <1>4, <2>2, <2>3, <2>4
    DEF RequestOK, Underway, Writing, Retry, Serving, Becomes, StagesOf, AfterSalt, Hashed,
        Statements, Locals
<1>6. CASE th[t].stage \in {"prune_salts", "duplicate_report", "reports_today"}
  <2>1. th[t].req \in {"report", "visit"} /\ th[t].wrote = 0 /\ th[t].salt # NoSalt
    BY <1>1, <1>6 DEF Underway, StagesOf, Writing, Write, RequestsOf, Locals, Hashed, Serving
  <2>2. r.stage \in (StagesOf(th[t].req) \intersect Hashed) \union {"again", "capped"}
    BY <1>1, <1>2, <1>6, <2>1 DEF NextStages, StagesOf, AfterSalt, Underway, Hashed
  <2>3. r.wrote = 0
    BY <1>2, <1>6, <2>1 DEF WroteOne, Write
  <2>4. r.stage \in Statements => r.salt = th[t].salt
    BY <1>2, <1>6 DEF SaltAfter
  <2> QED
    BY <1>1, <1>2, <1>3, <1>4, <2>1, <2>2, <2>3, <2>4
    DEF RequestOK, Underway, Writing, Retry, Serving, Becomes, StagesOf, Hashed,
        Statements, Locals
<1>7. CASE th[t].stage \in {"load_index", "get"}
  <2>1. th[t].req \in {"upsert", "update"} /\ th[t].wrote = 0 /\ th[t].salt = NoSalt
    BY <1>1, <1>7 DEF Underway, StagesOf, Writing, Write, RequestsOf, Locals, Hashed, Serving
  <2>2. \/ r.stage \in {"get", "write"}
        \/ (r.stage = "ok" /\ th[t].req = "upsert")
    BY <1>1, <1>2, <1>7, <2>1 DEF NextStages, Lookup, Underway, StagesOf
  <2>3. r.wrote = 0
    BY <1>2, <1>7, <2>1 DEF WroteOne, Write
  <2>4. r.stage \in Statements => r.salt = NoSalt
    BY <1>2, <1>7, <2>1 DEF SaltAfter
  <2> QED
    BY <1>1, <1>2, <1>3, <1>4, <2>1, <2>2, <2>3, <2>4
    DEF RequestOK, Underway, Writing, Retry, Serving, Becomes, StagesOf, Hashed,
        Statements, Locals
<1>8. CASE th[t].stage = "add_subscription"
  <2>1. th[t].req = "subscribe" /\ th[t].wrote = 0 /\ th[t].salt = NoSalt
    BY <1>1, <1>4, <1>8
    DEF Underway, StagesOf, RequestsOf, Locals, Hashed, Serving, RefusedInsert
  <2>2. r.wrote = 1 /\ r.stage \in {"mark_sent", "ok"}
    BY <1>2, <1>8, <2>1 DEF WroteOne, Write, NextStages
  <2>3. r.stage \in Statements => r.salt = NoSalt
    BY <1>2, <1>8, <2>1 DEF SaltAfter
  <2> QED
    BY <1>1, <1>2, <1>3, <1>4, <2>1, <2>2, <2>3
    DEF RequestOK, Underway, Writing, Retry, Serving, Becomes, StagesOf, Hashed,
        Statements, Locals
<1>9. CASE th[t].stage = "mark_sent"
  <2>1. th[t].req = "subscribe" /\ th[t].wrote = 1
    BY <1>1, <1>9 DEF Underway, StagesOf, RequestsOf, Writing, Serving
  <2>2. r.wrote = 1 /\ r.stage = "ok"
    BY <1>2, <1>9, <2>1 DEF WroteOne, Write, NextStages
  <2> QED
    BY <1>2, <1>3, <2>1, <2>2
    DEF RequestOK, Underway, Writing, Retry, Serving, Statements, Locals
<1>10. CASE th[t].stage \in {"record_visit", "add_report", "count", "write"}
  <2>1. th[t].stage = Write(th[t].req) /\ th[t].wrote \in 0 .. 1 /\ th[t].req # "subscribe"
        /\ (th[t].wrote = 1 => th[t].broke > 0)
    BY <1>1, <1>10 DEF Underway, StagesOf, RequestsOf, Writing, Serving, Write
  <2>2. r.wrote = th[t].wrote + 1 /\ r.stage = "ok"
    BY <1>2, <1>10, <2>1 DEF WroteOne, NextStages
  <2> QED
    BY <1>2, <1>3, <2>1, <2>2
    DEF RequestOK, Underway, Writing, Retry, Serving, Statements, Locals, Becomes
<1>11. th[t].stage \in {"read_salt", "mint_salt", "prune_salts", "record_visit",
                        "duplicate_report", "reports_today", "add_report",
                        "add_subscription", "mark_sent", "count", "load_index", "get", "write"}
  BY DEF Serving, Statements
<1> QED BY <1>5, <1>6, <1>7, <1>8, <1>9, <1>10, <1>11

\* What a break leaves of it, after the statement was applied or before.
LEMMA LostRequest ==
  ASSUME IInv, NEW t \in Threads, Serving(t), UNCHANGED <<clock, begun>>, NEW s, LostStep(t, s)
  PROVE  RequestOK(t)'
<1>1. /\ TypeOK /\ Underway(t) /\ Writing(t) /\ Retry(t)
      /\ th[t].stage = "add_subscription" => (th[t].id \in db.subscribed <=> th[t].wrote = 1)
  BY DEF IInv, Signups, RetryIsSafe, Retry
<1>2. PICK r \in Locals :
        /\ Becomes(t, r)
        /\ r.stage = s
        /\ r.stage \in Statements => r.salt = th[t].salt /\ r.copy = th[t].copy
        /\ r.broke = th[t].broke + 1
        /\ r.wrote = WroteOne(t)
  BY <1>1, LostFields
<1>3. /\ th'[t] = r /\ th[t] \in Locals /\ r.broke > 0
      /\ process' = process /\ day' = day /\ begun' = begun
  BY <1>1, <1>2 DEF Becomes, TypeOK, Locals, clock
<1>4. /\ ~RefusedInsert(t) /\ s \in {th[t].stage, "error"}
      /\ lock' = (IF s = "error" THEN NoOne ELSE t)
  BY DEF LostStep
<1>5. th[t].wrote \in 0 .. 1 /\ th[t].stage \in StagesOf(th[t].req)
      /\ th[t].req \in RequestsOf(process)
  BY <1>1 DEF Underway
<1>6. /\ th[t].stage = "mark_sent" => r.wrote = 1
      /\ th[t].stage = Write(th[t].req) => r.wrote \in 1 .. 2
      /\ th[t].stage # "mark_sent" /\ th[t].stage # Write(th[t].req) => r.wrote = 0
  BY <1>1, <1>2, <1>5 DEF Writing, WroteOne, Write, StagesOf, RequestsOf
<1>7. th[t].req = "subscribe" => r.wrote <= 1
  BY <1>1, <1>2, <1>4, <1>5, <1>6 DEF RefusedInsert, WroteOne, Write, StagesOf, RequestsOf
<1>8. Retry(t)'
  BY <1>2, <1>3, <1>4, <1>6, <1>7 DEF Retry, Becomes, Serving, Statements
<1>9. CASE s = "error"
  BY <1>2, <1>3, <1>8, <1>9 DEF RequestOK, Underway, Writing, Serving, Statements
<1>10. CASE s # "error"
  <2>1. r.stage = th[t].stage /\ r.stage \in Statements /\ lock' = t
    BY <1>2, <1>4, <1>10 DEF Serving
  <2>2. r.wrote <= 1
    <3>1. lock = NoOne
      BY <1>10 DEF LostStep
    <3>2. th[t].wrote = 0 \/ th[t].stage = "mark_sent"
      BY <1>1, <1>5, <3>1, PgStoreAssumption DEF Writing
    <3> QED BY <1>2, <1>5, <1>6, <3>2 DEF WroteOne
  <2> QED
    BY <1>1, <1>2, <1>3, <1>6, <1>8, <2>1, <2>2
    DEF RequestOK, Underway, Writing, Serving, Becomes
<1> QED BY <1>9, <1>10

\* A statement that never reached the database leaves its request within its bounds.
LEMMA VoidRequest ==
  ASSUME IInv, NEW t \in Threads, Serving(t), UNCHANGED <<clock, begun>>,
         NEW s, NEW b, VoidStep(t, s, b), lock \in {NoOne, t}
  PROVE  RequestOK(t)'
<1>1. /\ TypeOK /\ Underway(t) /\ Writing(t) /\ Retry(t)
      /\ th[t].stage = "add_subscription" => (th[t].id \in db.subscribed <=> th[t].wrote = 1)
  BY DEF IInv, Signups, RetryIsSafe, Retry
<1>2. PICK r \in Locals :
        /\ Becomes(t, r)
        /\ r.stage = s
        /\ r.stage \in Statements => r.salt = th[t].salt /\ r.copy = th[t].copy
        /\ r.broke = th[t].broke + b
        /\ r.wrote = th[t].wrote
  BY <1>1, VoidFields
<1>3. /\ th'[t] = r /\ th[t] \in Locals /\ b \in 0 .. 1
      /\ process' = process /\ day' = day /\ begun' = begun
  BY <1>1, <1>2 DEF Becomes, TypeOK, Locals, clock, VoidStep
<1>4. /\ s \in {th[t].stage, "error"} /\ (s = "error" /\ b = 0 => RefusedInsert(t))
      /\ lock' = (IF s = "error" THEN NoOne ELSE t)
  BY DEF VoidStep
<1>5. th[t].wrote \in 0 .. 1 /\ th[t].broke \in Nat
  BY <1>1, <1>3 DEF Underway, Locals
<1>6. RefusedInsert(t) => th[t].broke > 0
  BY <1>1 DEF RefusedInsert, Writing, Write
<1>7. Retry(t)'
  BY <1>1, <1>2, <1>3, <1>4, <1>5, <1>6 DEF Retry, Becomes, Serving, Statements
<1>8. CASE s = "error"
  BY <1>2, <1>3, <1>7, <1>8 DEF RequestOK, Underway, Writing, Serving, Statements
<1>9. CASE s # "error"
  <2>1. r.stage = th[t].stage /\ r.stage \in Statements /\ lock' = t
    BY <1>2, <1>4, <1>9 DEF Serving
  <2>2. r.broke > 0 \/ th[t].broke = 0
    BY <1>2, <1>3, <1>5
  <2> QED
    BY <1>1, <1>2, <1>3, <1>7, <2>1, <2>2
    DEF RequestOK, Underway, Writing, Serving, Becomes
<1> QED BY <1>8, <1>9

\* No step disturbs the request of another thread.
LEMMA RequestsStep ==
  ASSUME IInv, [Next]_vars
  PROVE  \A u \in Threads : RequestOK(u)'
<1> SUFFICES ASSUME NEW u \in Threads PROVE RequestOK(u)'
  OBVIOUS
<1>1. TypeOK /\ RequestOK(u)
  BY DEF IInv, RetryIsSafe, Retry, RequestOK
<1>2. th \in [Threads -> Locals] /\ begun \in Nat /\ day \in Int
  BY <1>1 DEF TypeOK, Days
<1>3. ASSUME NEW t \in Threads, Call(t) PROVE RequestOK(u)'
  <2>1. Serving(t) /\ lock \in {NoOne, t} /\ UNCHANGED <<clock, begun>> /\ CallStep(t)
    BY <1>3, CallCases
  <2>2. lock' \in {NoOne, t}
    BY <2>1 DEF CallStep, AnswerStep, LostStep, VoidStep
  <2>3. CASE u = t
    BY <2>1, <2>3, AnswerRequest, LostRequest, VoidRequest DEF CallStep
  <2>4. CASE u # t
    <3>1. th'[u] = th[u]
      BY <1>2, <2>1, <2>4 DEF CallStep, AnswerStep, Answers, LostStep, VoidStep
    <3>2. lock = u => FALSE
      BY <2>1, <2>4, PgStoreAssumption
    <3> QED
      BY <1>1, <2>1, <3>1, <3>2
      DEF RequestOK, Underway, Writing, Retry, Serving, clock
  <2> QED BY <2>3, <2>4
<1>4. ASSUME NEW t \in Threads, Begin(t) PROVE RequestOK(u)'
  <2>1. UNCHANGED <<process, day, lock>> /\ begun' = begun + 1
    BY <1>4 DEF Begin, clock
  <2>2. CASE u = t
    <3>1. \E req \in RequestsOf(process) : \E x \in TextsOf(req) : \E r \in Locals :
            /\ th'[t] = r /\ r.req = req
            /\ r.stage \in StagesOf(req) \intersect Starts \/ (r.stage = "ok" /\ req = "upsert")
            /\ r.salt = NoSalt /\ r.wrote = 0 /\ r.broke = 0
            /\ r.stage \in Statements => r.text = x /\ r.day = day /\ r.id = begun + 1
      <4>1. PICK req \in RequestsOf(process) : \E x \in TextsOf(req) : \E r \in Locals :
            /\ th' = [th EXCEPT ![t] = r] /\ r.req = req
            /\ r.stage \in StagesOf(req) \intersect Starts \/ (r.stage = "ok" /\ req = "upsert")
            /\ r.salt = NoSalt /\ r.wrote = 0 /\ r.broke = 0
            /\ r.stage \in Statements => r.text = x /\ r.day = day /\ r.id = begun + 1
        BY <1>1, <1>4, BeginFields
      <4> QED BY <1>2, <4>1
    <3> QED
      BY <1>2, <2>1, <2>2, <3>1
      DEF RequestOK, Underway, Writing, Retry, Serving, Starts, Hashed, Statements
  <2>3. CASE u # t
    <3>1. th'[u] = th[u]
      BY <1>2, <1>4, <2>3 DEF Begin
    <3> QED
      BY <1>1, <1>2, <2>1, <3>1 DEF RequestOK, Underway, Writing, Retry, Serving
  <2> QED BY <2>2, <2>3
<1>5. CASE Dropped
  BY <1>1, <1>5 DEF Dropped, clock, RequestOK, Underway, Writing, Retry, Serving
<1>6. CASE Crash
  <2>1. th'[u] = Idle
    BY <1>6 DEF Crash
  <2> QED
    BY <2>1 DEF Idle, RequestOK, Underway, Writing, Retry, Serving, Statements
<1>7. CASE Midnight
  <2>1. th'[u] = th[u] /\ UNCHANGED <<process, lock, begun>> /\ day' = day + 1
        /\ (Serving(u) => th[u].day = day)
    BY <1>7 DEF Midnight
  <2> QED BY <1>1, <1>2, <2>1 DEF RequestOK, Underway, Writing, Retry, Serving
<1>8. CASE UNCHANGED vars
  BY <1>1, <1>8 DEF vars, RequestOK, Underway, Writing, Retry, Serving
<1> QED BY <1>3, <1>4, <1>5, <1>6, <1>7, <1>8 DEF Next, vars

-----------------------------------------------------------------------------
(***************************************************************************)
(* What a call leaves alone.                                               *)
(***************************************************************************)
LEMMA CallFrame ==
  ASSUME IInv, NEW t \in Threads, Call(t)
  PROVE  /\ Serving(t) /\ UNCHANGED <<process, day, begun>>
         /\ \E r \in Locals : Becomes(t, r)
         /\ \A u \in Threads \ {t} : th'[u] = th[u]
         /\ \A u \in Threads : Serving(u)' => Serving(u)
         /\ \A u \in Threads : Serving(u)' => /\ th'[u].id = th[u].id
                                              /\ th'[u].day = th[u].day
                                              /\ th'[u].text = th[u].text
         /\ db' \in {db, Executed(t)}
<1>1. TypeOK /\ Underway(t) /\ th \in [Threads -> Locals]
  BY DEF IInv, TypeOK
<1>2. Serving(t) /\ UNCHANGED <<clock, begun>> /\ CallStep(t)
  BY CallCases
<1>3. PICK r \in Locals : Becomes(t, r)
  BY <1>1, <1>2, AnswerFields, LostFields, VoidFields DEF CallStep
<1>4. db' \in {db, Executed(t)}
  BY <1>2 DEF CallStep, AnswerStep, Answers, LostStep, VoidStep
<1>5. th'[t] = r /\ \A u \in Threads \ {t} : th'[u] = th[u]
  BY <1>1, <1>3 DEF Becomes
<1> QED BY <1>2, <1>3, <1>4, <1>5 DEF Becomes, Serving, clock

\* Of a statement that was applied: the request keeps its stage or leaves it.
LEMMA LandedSubscription ==
  ASSUME IInv, NEW t \in Threads, Call(t), th[t].stage = "add_subscription",
         th'[t].stage = "add_subscription"
  PROVE  th'[t].id \in db'.subscribed <=> th'[t].wrote = 1
<1>1. /\ TypeOK /\ Underway(t) /\ th \in [Threads -> Locals] /\ Serving(t)
      /\ th[t].id \in db.subscribed <=> th[t].wrote = 1
  BY DEF IInv, TypeOK, Signups, Serving, Statements
<1>2. CallStep(t)
  BY CallCases
<1>3. th[t].req = "subscribe" /\ th[t].wrote \in 0 .. 1
  BY <1>1 DEF Underway, StagesOf, RequestsOf
<1>4. CASE AnswerStep(t)
  <2>1. PICK r \in Locals : Becomes(t, r) /\ r.stage \in NextStages(t)
    BY <1>1, <1>4, AnswerFields
  <2> QED BY <1>1, <2>1 DEF Becomes, NextStages
<1>5. ASSUME NEW s \in {th[t].stage, "error"}, LostStep(t, s)
      PROVE  th'[t].id \in db'.subscribed <=> th'[t].wrote = 1
  <2>1. PICK r \in Locals : Becomes(t, r) /\ r.wrote = WroteOne(t)
    BY <1>1, <1>5, LostFields
  <2>2. th'[t] = r /\ r.id = th[t].id
    BY <1>1, <2>1 DEF Becomes, Statements
  <2>3. th[t].wrote = 0 /\ r.wrote = 1
    BY <1>1, <1>3, <1>5, <2>1 DEF LostStep, RefusedInsert, WroteOne, Write
  <2>4. db'.subscribed = db.subscribed \union {th[t].id}
    BY <1>1, <1>5, ExecutedTables DEF LostStep
  <2> QED BY <2>2, <2>3, <2>4
<1>6. ASSUME NEW s \in {th[t].stage, "error"}, NEW b \in 0 .. 1, VoidStep(t, s, b)
      PROVE  th'[t].id \in db'.subscribed <=> th'[t].wrote = 1
  <2>1. PICK r \in Locals : Becomes(t, r) /\ r.wrote = th[t].wrote
    BY <1>1, <1>6, VoidFields
  <2>2. th'[t] = r /\ r.id = th[t].id /\ db' = db
    BY <1>1, <1>6, <2>1 DEF Becomes, Statements, VoidStep
  <2> QED BY <1>1, <2>1, <2>2
<1> QED BY <1>2, <1>4, <1>5, <1>6 DEF CallStep

\* No step files a signup's row under another's identity, or without counting the write.
LEMMA SignupsStep ==
  ASSUME IInv, [Next]_vars
  PROVE  Signups'
<1>1. TypeOK /\ Signups /\ th \in [Threads -> Locals] /\ begun \in Nat /\ db \in Tables
  BY DEF IInv, TypeOK
<1>2. \A t \in Threads : Underway(t) /\ (Serving(t) => th[t].id \in 1 .. begun)
  BY DEF IInv, Underway
<1>3. ASSUME NEW t \in Threads, Call(t) PROVE Signups'
  <2>1. /\ Serving(t) /\ begun' = begun /\ db' \in {db, Executed(t)}
        /\ \A u \in Threads \ {t} : th'[u] = th[u]
        /\ \A u \in Threads : Serving(u)' => Serving(u) /\ th'[u].id = th[u].id
    BY <1>3, CallFrame
  <2>2. \/ db'.subscribed = db.subscribed
        \/ /\ db'.subscribed = db.subscribed \union {th[t].id}
           /\ th[t].stage = "add_subscription"
    BY <1>1, <1>2, <2>1, ExecutedTables
  <2>3. db'.subscribed \subseteq 1 .. begun
    BY <1>1, <1>2, <2>1, <2>2 DEF Signups
  <2>4. \A u, v \in Threads : Serving(u)' /\ Serving(v)' /\ th'[u].id = th'[v].id => u = v
    BY <1>1, <2>1 DEF Signups
  <2>5. ASSUME NEW u \in Threads, th'[u].stage = "add_subscription"
        PROVE  th'[u].id \in db'.subscribed <=> th'[u].wrote = 1
    <3>1. Serving(u)' /\ Serving(u)
      BY <2>1, <2>5 DEF Serving, Statements
    <3>2. CASE u # t
      BY <1>1, <2>1, <2>2, <2>5, <3>1, <3>2 DEF Signups
    <3>3. CASE u = t
      <4>1. th[t].stage = "add_subscription"
        <5>1. CallStep(t) /\ TypeOK /\ Underway(t)
          BY <1>1, <1>2, <1>3, CallCases
        <5>2. CASE AnswerStep(t)
          <6>1. PICK r \in Locals : Becomes(t, r) /\ r.stage \in NextStages(t)
            BY <2>1, <5>1, <5>2, AnswerFields
          <6>2. "add_subscription" \in NextStages(t)
            BY <1>1, <2>5, <3>3, <6>1 DEF Becomes
          <6> QED BY <6>2 DEF NextStages, AfterSalt, Lookup
        <5>3. ASSUME NEW s \in {th[t].stage, "error"}, LostStep(t, s)
              PROVE  th[t].stage = "add_subscription"
          <6>1. PICK r \in Locals : Becomes(t, r) /\ r.stage = s
            BY <2>1, <5>1, <5>3, LostFields
          <6> QED BY <1>1, <2>5, <3>3, <6>1 DEF Becomes
        <5>4. ASSUME NEW s \in {th[t].stage, "error"}, NEW b \in 0 .. 1, VoidStep(t, s, b)
              PROVE  th[t].stage = "add_subscription"
          <6>1. PICK r \in Locals : Becomes(t, r) /\ r.stage = s
            BY <2>1, <5>1, <5>4, VoidFields
          <6> QED BY <1>1, <2>5, <3>3, <6>1 DEF Becomes
        <5> QED BY <5>1, <5>2, <5>3, <5>4 DEF CallStep
      <4> QED BY <1>3, <2>5, <3>3, <4>1, LandedSubscription
    <3> QED BY <3>2, <3>3
  <2> QED BY <2>1, <2>3, <2>4, <2>5 DEF Signups
<1>4. ASSUME NEW t \in Threads, Begin(t) PROVE Signups'
  <2>1. /\ begun' = begun + 1 /\ db' = db
        /\ \A u \in Threads \ {t} : th'[u] = th[u]
    BY <1>1, <1>4 DEF Begin
  <2>2. Serving(t)' => th'[t].id = begun + 1 /\ th'[t].wrote = 0
    <3>1. \E req \in RequestsOf(process) : \E x \in TextsOf(req) : \E r \in Locals :
             /\ th' = [th EXCEPT ![t] = r] /\ r.wrote = 0
             /\ r.stage \in Statements => r.id = begun + 1
      BY <1>1, <1>4, BeginFields
    <3> QED BY <1>1, <3>1 DEF Serving
  <2>3. th'[t].stage = "add_subscription" => Serving(t)'
    BY DEF Serving, Statements
  <2> QED BY <1>1, <1>2, <2>1, <2>2, <2>3 DEF Signups, Serving
<1>5. CASE Crash
  BY <1>1, <1>5 DEF Crash, Signups, Idle, Serving, Statements
<1>6. CASE Dropped \/ Midnight \/ UNCHANGED vars
  BY <1>1, <1>6 DEF Dropped, Midnight, vars, Signups, Serving
<1> QED BY <1>3, <1>4, <1>5, <1>6 DEF Next

-----------------------------------------------------------------------------
(***************************************************************************)
(* One salt a day.                                                         *)
(***************************************************************************)
\* A day's salt, once some hash was made of it, stays while its row may be read.
LEMMA SaltsKept ==
  ASSUME IInv, NEW t \in Threads, Call(t)
  PROVE  /\ Hashes \subseteq Days \X (Nat \ {NoSalt})
         /\ \A v \in Hashes : v[1] <= day /\ (v[1] >= day - 1 => db'.salts[v[1]] = v[2])
<1>1. /\ TypeOK /\ Underway(t) /\ SaltsStay /\ db \in Tables /\ th \in [Threads -> Locals]
  BY DEF IInv, TypeOK
<1>2. /\ Serving(t) /\ db' \in {db, Executed(t)}
  BY CallFrame
<1>3. th[t].day \in Days /\ th[t].day \in {day - 1, day} /\ day \in Days
  BY <1>1, <1>2 DEF Underway, Locals, TypeOK
<1>4. Hashes \subseteq Days \X (Nat \ {NoSalt})
  <2>1. db.visits \subseteq Days \X Nat /\ \A v \in db.visits : v[2] # NoSalt
    BY <1>1 DEF Tables, SaltsStay
  <2>2. \A u \in Threads : <<th[u].day, th[u].salt>> \in Days \X Nat
    BY <1>1 DEF Locals
  <2> QED BY <2>1, <2>2 DEF Hashes
<1>5. ASSUME NEW v \in Hashes
      PROVE  v[1] <= day /\ (v[1] >= day - 1 => db'.salts[v[1]] = v[2])
  <2>1. v[1] <= day /\ (v[1] >= day - 1 => db.salts[v[1]] = v[2])
    BY <1>1 DEF SaltsStay
  <2>2. v[1] \in Days /\ v[2] # NoSalt
    BY <1>4
  <2>3. CASE v[1] >= day - 1
    <3>1. db.salts[v[1]] = v[2]
      BY <2>1, <2>3
    <3>2. Minted(th[t].day).salts[v[1]] = db.salts[v[1]]
      BY <1>1, <1>3, <2>2, <3>1, MintedTables
    <3>3. th[t].day - 1 <= v[1]
      BY <1>3, <2>2, <2>3 DEF Days
    <3>4. Pruned(th[t].day).salts[v[1]] = db.salts[v[1]]
      BY <1>1, <1>3, <2>2, <3>3, PrunedTables DEF Days
    <3>5. Executed(t).salts[v[1]] = db.salts[v[1]]
      BY <1>1, <1>2, <3>2, <3>4, ExecutedTables
    <3> QED BY <1>2, <2>1, <3>1, <3>5
  <2> QED BY <2>1, <2>3
<1> QED BY <1>4, <1>5

\* The only new hash a call may bring is its own day's, under the salt in the row.
LEMMA NewHash ==
  ASSUME IInv, NEW t \in Threads, Call(t)
  PROVE  /\ db'.visits \subseteq Hashes
         /\ Hashes' \subseteq Hashes \union {<<th[t].day, db'.salts[th[t].day]>>}
<1>1. /\ TypeOK /\ Underway(t) /\ SaltsStay /\ db \in Tables /\ th \in [Threads -> Locals]
  BY DEF IInv, TypeOK
<1>2. /\ Serving(t) /\ db' \in {db, Executed(t)} /\ CallStep(t)
      /\ \A u \in Threads \ {t} : th'[u] = th[u]
  BY CallFrame, CallCases
<1> DEFINE P == <<th[t].day, db'.salts[th[t].day]>>
           H == Hashes
<1>3. db'.visits \subseteq H
  <2>1. th[t].stage = "record_visit" => <<th[t].day, th[t].salt>> \in H
    BY <1>1, <1>2 DEF Underway, Hashed, Hashes
  <2>2. Executed(t).visits \subseteq H
    BY <1>1, <1>2, <2>1, ExecutedTables DEF Hashes
  <2> QED BY <1>2, <2>2 DEF Hashes
<1>4. th'[t].salt # NoSalt =>
        \/ th'[t].day = th[t].day /\ th'[t].salt = th[t].salt
        \/ th'[t].day = th[t].day /\ th'[t].salt = db'.salts[th[t].day]
  <2>1. CASE AnswerStep(t)
    <3>1. PICK r \in Locals : /\ Becomes(t, r)
                              /\ r.stage \in Statements => r.salt = SaltAfter(t)
      BY <1>1, <1>2, <2>1, AnswerFields
    <3>2. th'[t] = r /\ db' = Executed(t)
      BY <1>1, <2>1, <3>1 DEF Becomes, AnswerStep, Answers
    <3>3. \/ SaltAfter(t) = th[t].salt
          \/ SaltAfter(t) = db'.salts[th[t].day]
      <4>1. th[t].stage = "read_salt" => Executed(t) = db
        BY DEF Executed
      <4>2. th[t].stage = "mint_salt" => Executed(t) = Minted(th[t].day)
        BY DEF Executed
      <4> QED BY <3>2, <4>1, <4>2 DEF SaltAfter, SaltNow
    <3> QED BY <3>1, <3>2, <3>3 DEF Becomes
  <2>2. ASSUME NEW s \in {th[t].stage, "error"}, LostStep(t, s)
        PROVE  th'[t].salt # NoSalt => th'[t].day = th[t].day /\ th'[t].salt = th[t].salt
    <3>1. PICK r \in Locals : /\ Becomes(t, r)
                              /\ r.stage \in Statements => r.salt = th[t].salt
      BY <1>1, <1>2, <2>2, LostFields
    <3> QED BY <1>1, <3>1 DEF Becomes
  <2>3. ASSUME NEW s \in {th[t].stage, "error"}, NEW b \in 0 .. 1, VoidStep(t, s, b)
        PROVE  th'[t].salt # NoSalt => th'[t].day = th[t].day /\ th'[t].salt = th[t].salt
    <3>1. PICK r \in Locals : /\ Becomes(t, r)
                              /\ r.stage \in Statements => r.salt = th[t].salt
      BY <1>1, <1>2, <2>3, VoidFields
    <3> QED BY <1>1, <3>1 DEF Becomes
  <2> QED BY <1>2, <2>1, <2>2, <2>3 DEF CallStep
<1>5. ASSUME NEW u \in Threads, th'[u].salt # NoSalt
      PROVE  <<th'[u].day, th'[u].salt>> \in H \union {P}
  <2>1. CASE u # t
    BY <1>2, <1>5, <2>1 DEF Hashes
  <2>2. CASE u = t
    BY <1>4, <1>5, <2>2 DEF Hashes
  <2> QED BY <2>1, <2>2
<1>6. Hashes' = db'.visits \union
                  {<<th'[u].day, th'[u].salt>> : u \in {v \in Threads : th'[v].salt # NoSalt}}
  BY DEF Hashes
<1> HIDE DEF H, P
<1>7. Hashes' \subseteq H \union {P}
  BY <1>3, <1>5, <1>6
<1> QED BY <1>3, <1>7 DEF H, P

\* No step makes a second salt of a day, or changes the one that threads hold.
LEMMA SaltsStep ==
  ASSUME IInv, TypeOK', [Next]_vars
  PROVE  (OneSaltPerDay /\ SaltsStay)'
<1>1. /\ TypeOK /\ OneSaltPerDay /\ SaltsStay /\ th \in [Threads -> Locals] /\ day \in Int
  BY DEF IInv, TypeOK, Days
<1>2. \A u, v \in Hashes : u[1] = v[1] => u = v
  BY <1>1 DEF OneSaltPerDay, Hashes
<1>3. OneSaltPerDay' <=> (\A u, v \in Hashes : u[1] = v[1] => u = v)'
  BY DEF OneSaltPerDay, Hashes
<1>4. ASSUME NEW t \in Threads, Call(t) PROVE (OneSaltPerDay /\ SaltsStay)'
  <2> DEFINE P == <<th[t].day, db'.salts[th[t].day]>>
  <2>1. /\ Hashes \subseteq Days \X (Nat \ {NoSalt})
        /\ \A v \in Hashes : v[1] <= day /\ (v[1] >= day - 1 => db'.salts[v[1]] = v[2])
    BY <1>4, SaltsKept
  <2>2. /\ db'.visits \subseteq Hashes
        /\ Hashes' \subseteq Hashes \union {P}
    BY <1>4, NewHash
  <2>3. Serving(t) /\ day' = day /\ \A u \in Threads \ {t} : th'[u] = th[u]
    BY <1>4, CallFrame
  <2>4. th[t].day \in {day - 1, day}
    BY <2>3 DEF IInv, Underway
  <2>5. (\A u, v \in Hashes : u[1] = v[1] => u = v)'
    <3>1. ASSUME NEW u \in Hashes, u[1] = th[t].day PROVE u = P
      BY <1>1, <2>1, <2>4, <3>1
    <3>2. P[1] = th[t].day
      OBVIOUS
    <3> HIDE DEF P
    <3> QED BY <1>2, <2>2, <3>1, <3>2
  <2>6. (\A t_1 \in Threads : ~Serving(t_1) => th[t_1].salt = NoSalt)'
    <3>1. PICK r \in Locals : Becomes(t, r)
      BY <1>4, CallFrame
    <3>2. ~Serving(t)' => th'[t].salt = NoSalt
      BY <1>1, <3>1 DEF Becomes, Serving
    <3> QED BY <1>1, <2>3, <3>2 DEF SaltsStay, Serving
  <2>7. (\A v \in Hashes : v[1] <= day /\ (v[1] >= day - 1 => db.salts[v[1]] = v[2]))'
    <3>1. P[1] <= day /\ db'.salts[P[1]] = P[2]
      BY <1>1, <2>4
    <3> HIDE DEF P
    <3> QED BY <2>1, <2>2, <2>3, <3>1
  <2>8. (\A v \in db.visits : v[2] # NoSalt)'
    BY <2>1, <2>2
  <2> QED BY <1>3, <2>5, <2>6, <2>7, <2>8 DEF SaltsStay
<1>5. ASSUME NEW t \in Threads, Begin(t) PROVE (OneSaltPerDay /\ SaltsStay)'
  <2>1. PICK r \in Locals : th' = [th EXCEPT ![t] = r] /\ r.salt = NoSalt
    BY <1>1, <1>5, BeginFields
  <2>2. db' = db /\ day' = day
    BY <1>5 DEF Begin, clock
  <2>3. Hashes' \subseteq Hashes
    BY <1>1, <2>1, <2>2 DEF Hashes
  <2>4. (\A u \in Threads : ~Serving(u) => th[u].salt = NoSalt)'
    BY <1>1, <2>1 DEF SaltsStay, Serving
  <2> QED BY <1>1, <1>2, <1>3, <2>2, <2>3, <2>4 DEF SaltsStay
<1>6. CASE Crash
  <2>1. db' = db /\ day' = day /\ \A u \in Threads : th'[u] = Idle
    BY <1>6 DEF Crash, clock
  <2>2. Hashes' \subseteq Hashes /\ \A u \in Threads : th'[u].salt = NoSalt
    BY <2>1 DEF Hashes, Idle
  <2> QED BY <1>1, <1>2, <1>3, <2>1, <2>2 DEF SaltsStay
<1>7. CASE Midnight
  <2>1. UNCHANGED <<db, th>> /\ day' = day + 1
    BY <1>7 DEF Midnight
  <2>2. Hashes' = Hashes /\ \A v \in Hashes : v[1] <= day /\ (v[1] >= day - 1 => db.salts[v[1]] = v[2])
    BY <1>1, <2>1 DEF Hashes, SaltsStay
  <2>3. \A v \in Hashes : v[1] \in Int
    <3>1. db.visits \subseteq Days \X Nat /\ \A u \in Threads : th[u].day \in Days
      BY <1>1 DEF TypeOK, Tables, Locals
    <3> QED BY <3>1 DEF Hashes, Days
  <2>4. \A v \in Hashes : v[1] <= day + 1 /\ (v[1] >= day + 1 - 1 => db.salts[v[1]] = v[2])
    BY <1>1, <2>2, <2>3
  <2> QED BY <1>1, <1>2, <1>3, <2>1, <2>2, <2>4 DEF SaltsStay, Serving
<1>8. CASE Dropped \/ UNCHANGED vars
  BY <1>1, <1>8 DEF Dropped, vars, clock, OneSaltPerDay, SaltsStay, Serving, Hashes
<1> QED BY <1>4, <1>5, <1>6, <1>7, <1>8 DEF Next

-----------------------------------------------------------------------------
(***************************************************************************)
(* The poller's row and its index.                                         *)
(***************************************************************************)
\* Nobody but the poller's one request writes the row, and it only adds to it.
LEMMA PostingGrows ==
  ASSUME IInv, NEW t \in Threads, Call(t)
  PROVE  /\ db.posting \subseteq db'.posting
         /\ th[t].stage # "write" => db'.posting = db.posting
         /\ db'.posting \in {db.posting, th[t].copy \union {th[t].text}}
<1>1. TypeOK /\ Underway(t) /\ OnePoller
  BY DEF IInv
<1>2. Serving(t) /\ db' \in {db, Executed(t)}
  BY CallFrame
<1>3. Executed(t).posting = IF th[t].stage = "write"
                            THEN th[t].copy \union {th[t].text} ELSE db.posting
  BY <1>1, <1>2, ExecutedTables
<1> QED BY <1>1, <1>2, <1>3 DEF OnePoller

\* An answered call leaves the index and the sightings within the table, and a reader of
\* the whole row holds no less than the table.
LEMMA AnsweredSighting ==
  ASSUME IInv, NEW t \in Threads, Call(t), AnswerStep(t)
  PROVE  /\ index'.has \subseteq db'.posting
         /\ sighted' \subseteq db'.posting
         /\ th'[t].stage = "write" => db'.posting \subseteq th'[t].copy
<1>1. TypeOK /\ Underway(t) /\ OnePoller /\ SightingsKept
  BY DEF IInv
<1>2. Serving(t) /\ db' = Executed(t) /\ db.posting \subseteq db'.posting
      /\ (th[t].stage # "write" => db'.posting = db.posting)
  BY CallFrame, PostingGrows DEF AnswerStep, Answers
<1>3. PICK r \in Locals :
        /\ Becomes(t, r)
        /\ r.stage \in NextStages(t)
        /\ r.stage \in Statements => r.copy = CopyAfter(t)
        /\ sighted' = SightedAfter(th[t].req, th[t].text, r.stage)
        /\ index' = IndexAfter(t)
  BY <1>1, <1>2, AnswerFields
<1>4. th'[t] = r /\ index \in [loaded : BOOLEAN, has : SUBSET Texts]
      /\ index.has \subseteq db.posting /\ sighted \subseteq db.posting
  BY <1>1, <1>3 DEF TypeOK, Becomes, OnePoller, SightingsKept
<1>5. th[t].stage = "write" => db'.posting = th[t].copy \union {th[t].text}
  BY <1>1, <1>2, ExecutedTables
<1>6. index'.has \subseteq db'.posting
  <2>1. CASE th[t].stage = "load_index"
    BY <1>2, <1>3, <2>1 DEF IndexAfter
  <2>2. CASE th[t].req = "upsert" /\ th[t].stage = "get" /\ th[t].text \in db.posting
    BY <1>2, <1>3, <1>4, <2>2 DEF IndexAfter
  <2>3. CASE th[t].req = "upsert" /\ th[t].stage = "write"
    BY <1>3, <1>4, <1>5, <2>3 DEF IndexAfter
  <2>4. CASE ~(\/ th[t].stage = "load_index"
               \/ th[t].req = "upsert" /\ th[t].stage = "get" /\ th[t].text \in db.posting
               \/ th[t].req = "upsert" /\ th[t].stage = "write")
    <3>1. index' = index
      BY <1>3, <2>4 DEF IndexAfter
    <3> QED BY <1>2, <1>4, <3>1
  <2> QED BY <2>1, <2>2, <2>3, <2>4
<1>7. th[t].req = "upsert" /\ r.stage = "ok" => th[t].text \in db'.posting
  <2>1. SUFFICES ASSUME th[t].req = "upsert", r.stage = "ok" PROVE th[t].text \in db'.posting
    OBVIOUS
  <2>2. th[t].stage \in {"load_index", "get", "write"}
    BY <1>1, <1>2, <2>1 DEF Underway, StagesOf
  <2>3. th[t].stage \in {"load_index", "get"} => th[t].text \in db.posting
    BY <1>3, <2>1 DEF NextStages, Lookup
  <2> QED BY <1>2, <1>5, <2>2, <2>3
<1>8. sighted' \subseteq db'.posting
  BY <1>2, <1>3, <1>4, <1>7 DEF SightedAfter
<1>9. r.stage = "write" => db'.posting \subseteq r.copy
  <2>1. r.stage = "write" => th[t].stage = "get"
    BY <1>3 DEF NextStages, AfterSalt, Lookup
  <2> QED BY <1>2, <1>3, <2>1 DEF CopyAfter, Statements
<1> QED BY <1>4, <1>6, <1>8, <1>9

\* A call without an answer leaves the index and the sightings alone, and a reader of the
\* whole row misses at most its own write.
LEMMA UnansweredSighting ==
  ASSUME IInv, NEW t \in Threads, Call(t), ~AnswerStep(t)
  PROVE  /\ UNCHANGED memory
         /\ th'[t].stage = "write" => db'.posting \subseteq th'[t].copy \union {th'[t].text}
<1>1. TypeOK /\ Underway(t) /\ OnePoller
  BY DEF IInv
<1>2. Serving(t) /\ CallStep(t) /\ db'.posting \in {db.posting, th[t].copy \union {th[t].text}}
  BY CallFrame, CallCases, PostingGrows
<1>3. UNCHANGED memory
  BY <1>2 DEF CallStep, LostStep, VoidStep
<1>4. PICK r \in Locals : /\ Becomes(t, r) /\ r.stage \in {th[t].stage, "error"}
                          /\ r.stage \in Statements => r.copy = th[t].copy
  BY <1>1, <1>2, LostFields, VoidFields DEF CallStep
<1>5. th'[t] = r
  BY <1>1, <1>4 DEF Becomes, TypeOK
<1>6. r.stage = "write" => th[t].stage = "write" /\ r.copy = th[t].copy /\ r.text = th[t].text
  BY <1>4 DEF Becomes, Statements
<1> QED BY <1>1, <1>2, <1>3, <1>5, <1>6 DEF OnePoller

\* No step gives the poller a second request at a time, or loses a sighting.
LEMMA SightingsStep ==
  ASSUME IInv, [Next]_vars
  PROVE  (OnePoller /\ SightingsKept)'
<1>1. TypeOK /\ OnePoller /\ SightingsKept /\ th \in [Threads -> Locals]
      /\ \A u \in Threads : Underway(u)
      /\ process \in {"web", "poller"}
  BY DEF IInv, TypeOK
<1>2. \A u \in Threads : th[u].stage = "write" => Serving(u) /\ process = "poller"
  BY <1>1 DEF Underway, Serving, Statements, RequestsOf, StagesOf
<1>3. ASSUME NEW t \in Threads, Call(t) PROVE (OnePoller /\ SightingsKept)'
  <2>1. /\ Serving(t) /\ process' = process
        /\ \A u \in Threads \ {t} : th'[u] = th[u]
        /\ \A u \in Threads : Serving(u)' => Serving(u)
    BY <1>3, CallFrame
  <2>2. db.posting \subseteq db'.posting
    BY <1>3, PostingGrows
  <2>3. /\ index'.has \subseteq db'.posting
        /\ sighted' \subseteq db'.posting
        /\ th'[t].stage = "write" => db'.posting \subseteq th'[t].copy \union {th'[t].text}
    <3>1. CASE AnswerStep(t)
      BY <1>3, <3>1, AnsweredSighting
    <3>2. CASE ~AnswerStep(t)
      BY <1>1, <1>3, <2>2, <3>2, UnansweredSighting DEF memory, OnePoller, SightingsKept
    <3> QED BY <3>1, <3>2
  <2>4. ASSUME NEW u \in Threads, u # t PROVE th'[u].stage # "write"
    <3>1. th'[u] = th[u]
      BY <2>1, <2>4
    <3> QED BY <1>1, <1>2, <2>1, <2>4, <3>1 DEF OnePoller
  <2> QED BY <1>1, <2>1, <2>3, <2>4 DEF OnePoller, SightingsKept
<1>4. ASSUME NEW t \in Threads, Begin(t) PROVE (OnePoller /\ SightingsKept)'
  <2>1. db' = db /\ index' = index /\ process' = process
    BY <1>4 DEF Begin, clock
  <2>2. \E req \in RequestsOf(process) : \E x \in TextsOf(req) : \E r \in Locals :
          /\ MayBegin(t, req) /\ th' = [th EXCEPT ![t] = r]
          /\ r.stage \in Starts \/ (r.stage = "ok" /\ req = "upsert" /\ x \in index.has)
          /\ sighted' = SightedAfter(req, x, r.stage)
    BY <1>1, <1>4, BeginFields
  <2>3. /\ \A u \in Threads \ {t} : th'[u] = th[u]
        /\ process = "poller" => \A u \in Threads : ~Serving(u)
        /\ th'[t].stage # "write"
    BY <1>1, <2>2 DEF MayBegin, Starts
  <2>4. sighted' \subseteq db.posting
    BY <1>1, <2>2 DEF SightedAfter, OnePoller, SightingsKept, Starts
  <2> QED BY <1>1, <2>1, <2>3, <2>4 DEF OnePoller, SightingsKept, Serving
<1>5. CASE Crash
  BY <1>1, <1>5 DEF Crash, clock, Idle, NoIndex, OnePoller, SightingsKept, Serving, Statements
<1>6. CASE Dropped \/ Midnight \/ UNCHANGED vars
  BY <1>1, <1>6 DEF Dropped, Midnight, vars, clock, memory, OnePoller, SightingsKept, Serving
<1> QED BY <1>3, <1>4, <1>5, <1>6 DEF Next

-----------------------------------------------------------------------------
(***************************************************************************)
(* The caps: rows already filed, and requests that may still file one.     *)
(***************************************************************************)
\* A request past the check pays for the row it adds by leaving, or a fault pays.
LEMMA Room ==
  ASSUME NEW S, NEW P, NEW S2, NEW P2, NEW x, NEW t,
         IsFiniteSet(S), IsFiniteSet(P),
         NEW K \in Int, NEW F \in Nat, NEW F2 \in Nat,
         Cardinality(S) + Cardinality(P) <= K + F,
         \/ S2 \subseteq S /\ P2 \subseteq P /\ F2 >= F
         \/ S2 \subseteq S \union {x} /\ P2 \subseteq P \ {t} /\ t \in P /\ F2 = F
         \/ S2 \subseteq S \union {x} /\ P2 \subseteq P /\ F2 = F + 1
  PROVE  Cardinality(S2) + Cardinality(P2) <= K + F2
<1>1. /\ IsFiniteSet(S \union {x})
      /\ Cardinality(S \union {x}) = IF x \in S THEN Cardinality(S) ELSE Cardinality(S) + 1
      /\ Cardinality(S) \in Nat /\ Cardinality(P) \in Nat
  <2>1. Cardinality(S) \in Nat /\ Cardinality(P) \in Nat
    BY FS_CardinalityType
  <2> QED BY <2>1, FS_AddElement
<1>2. /\ IsFiniteSet(P \ {t})
      /\ Cardinality(P \ {t}) = IF t \in P THEN Cardinality(P) - 1 ELSE Cardinality(P)
  BY FS_RemoveElement
<1>3. CASE S2 \subseteq S /\ P2 \subseteq P /\ F2 >= F
  <2>1. Cardinality(S2) <= Cardinality(S) /\ Cardinality(S2) \in Nat
    BY <1>3, FS_Subset, FS_CardinalityType
  <2>2. Cardinality(P2) <= Cardinality(P) /\ Cardinality(P2) \in Nat
    BY <1>3, FS_Subset, FS_CardinalityType
  <2> QED BY <1>1, <1>3, <2>1, <2>2
<1>4. CASE S2 \subseteq S \union {x} /\ P2 \subseteq P \ {t} /\ t \in P /\ F2 = F
  <2>1. Cardinality(S2) <= Cardinality(S \union {x}) /\ Cardinality(S2) \in Nat
    BY <1>1, <1>4, FS_Subset, FS_CardinalityType
  <2>2. Cardinality(P2) <= Cardinality(P \ {t}) /\ Cardinality(P2) \in Nat
    BY <1>2, <1>4, FS_Subset, FS_CardinalityType
  <2> QED BY <1>1, <1>2, <1>4, <2>1, <2>2
<1>5. CASE S2 \subseteq S \union {x} /\ P2 \subseteq P /\ F2 = F + 1
  <2>1. Cardinality(S2) <= Cardinality(S \union {x}) /\ Cardinality(S2) \in Nat
    BY <1>1, <1>5, FS_Subset, FS_CardinalityType
  <2>2. Cardinality(P2) <= Cardinality(P) /\ Cardinality(P2) \in Nat
    BY <1>5, FS_Subset, FS_CardinalityType
  <2> QED BY <1>1, <1>5, <2>1, <2>2
<1> QED BY <1>3, <1>4, <1>5

\* Every set that is counted is finite.
LEMMA Countable ==
  ASSUME FiledRows, TypeOK
  PROVE  /\ Cardinality(Threads) \in Nat /\ faults \in Nat
         /\ \A P \in SUBSET Threads : IsFiniteSet(P) /\ Cardinality(P) \in Nat
                                      /\ Cardinality(P) <= Cardinality(Threads)
         /\ \A S \in SUBSET db.reports : IsFiniteSet(S) /\ Cardinality(S) \in Nat
<1>1. IsFiniteSet(Threads) /\ IsFiniteSet(db.reports) /\ faults \in Nat
  BY PgStoreAssumption DEF FiledRows, TypeOK
<1>2. ASSUME NEW P \in SUBSET Threads
      PROVE IsFiniteSet(P) /\ Cardinality(P) \in Nat /\ Cardinality(P) <= Cardinality(Threads)
  BY <1>1, FS_Subset, FS_CardinalityType
<1>3. ASSUME NEW S \in SUBSET db.reports
      PROVE IsFiniteSet(S) /\ Cardinality(S) \in Nat
  BY <1>1, FS_Subset, FS_CardinalityType
<1> QED BY <1>1, <1>2, <1>3, FS_CardinalityType

\* How a call moves its request past a check, or files the request's row.
LEMMA RowsMove ==
  ASSUME IInv, NEW t \in Threads, Call(t), NEW w \in Nat
  PROVE  \/ /\ db'.reports = db.reports
            /\ faults' \in {faults, faults + 1}
            /\ \/ PastCap(w)' \subseteq PastCap(w)
               \/ Cardinality(Filed(w, day)) <= Cap - 1
            /\ \A x \in Texts : \/ PastDuplicate(w, x)' \subseteq PastDuplicate(w, x)
                                \/ Copies(w, day, x) = {}
         \/ /\ db'.reports = db.reports \union {Row(t)}
            /\ th[t].stage = "add_report"
            /\ \/ /\ faults' = faults + 1
                  /\ PastCap(w)' \subseteq PastCap(w)
                  /\ \A x \in Texts : PastDuplicate(w, x)' \subseteq PastDuplicate(w, x)
               \/ /\ faults' = faults
                  /\ PastCap(w)' \subseteq PastCap(w) \ {t}
                  /\ \A x \in Texts : PastDuplicate(w, x)' \subseteq PastDuplicate(w, x) \ {t}
<1>1. TypeOK /\ Underway(t) /\ FiledRows /\ th \in [Threads -> Locals]
  BY DEF IInv, TypeOK
<1>2. /\ Serving(t) /\ CallStep(t) /\ \A u \in Threads \ {t} : th'[u] = th[u]
  BY CallFrame, CallCases
<1>3. Executed(t).reports = IF th[t].stage = "add_report"
                            THEN db.reports \union {Row(t)} ELSE db.reports
  BY <1>1, <1>2, ExecutedTables
<1>4. CASE AnswerStep(t)
  <2>1. PICK r \in Locals : /\ Becomes(t, r) /\ r.stage \in NextStages(t)
                            /\ r.stage \in Statements => r.salt = SaltAfter(t)
    BY <1>1, <1>2, <1>4, AnswerFields
  <2>2. th'[t] = r /\ db' = Executed(t) /\ faults' = faults
    BY <1>1, <1>4, <2>1 DEF Becomes, AnswerStep, Answers
  <2>3. CASE th[t].stage = "add_report"
    <3>1. r.stage = "ok"
      BY <2>1, <2>3 DEF NextStages
    <3>2. PastCap(w)' \subseteq PastCap(w) \ {t}
      BY <1>2, <2>2, <3>1 DEF PastCap
    <3>3. \A x \in Texts : PastDuplicate(w, x)' \subseteq PastDuplicate(w, x) \ {t}
      BY <1>2, <2>2, <3>1 DEF PastDuplicate
    <3> QED BY <1>3, <2>2, <2>3, <3>2, <3>3
  <2>4. CASE th[t].stage # "add_report"
    <3>1. r.stage = "add_report" => /\ th[t].stage = "reports_today"
                                    /\ ~CapReached(Cardinality(FiledToday(t)))
      BY <2>1 DEF NextStages, AfterSalt, Lookup
    <3>2. r.stage = "reports_today" => /\ th[t].stage = "duplicate_report"
                                       /\ \A q \in FiledToday(t) : q.text # r.text
      BY <2>1 DEF NextStages, AfterSalt, Lookup, Becomes, Statements
    <3>3. r.stage \in {"add_report", "reports_today"} =>
            r.salt = th[t].salt /\ r.text = th[t].text
      BY <2>1, <3>1, <3>2 DEF SaltAfter, Becomes, Statements
    <3>4. \/ PastCap(w)' \subseteq PastCap(w)
          \/ Cardinality(Filed(w, day)) <= Cap - 1
      <4>1. SUFFICES ASSUME ~(PastCap(w)' \subseteq PastCap(w))
                     PROVE  Cardinality(Filed(w, day)) <= Cap - 1
        OBVIOUS
      <4>2. r.stage = "add_report" /\ r.salt = w
        BY <1>2, <2>2, <4>1 DEF PastCap
      <4>3. FiledToday(t) = Filed(w, day)
        BY <3>3, <4>2 DEF FiledToday, Filed
      <4>4. Cardinality(Filed(w, day)) \in Nat
        BY <1>1, Countable DEF Filed
      <4> QED BY <3>1, <4>2, <4>3, <4>4, PgStoreAssumption DEF CapReached
    <3>5. ASSUME NEW x \in Texts
          PROVE  \/ PastDuplicate(w, x)' \subseteq PastDuplicate(w, x)
                 \/ Copies(w, day, x) = {}
      <4>1. SUFFICES ASSUME ~(PastDuplicate(w, x)' \subseteq PastDuplicate(w, x))
                     PROVE  Copies(w, day, x) = {}
        OBVIOUS
      <4>2. /\ r.stage \in {"reports_today", "add_report"} /\ r.salt = w /\ r.text = x
            /\ t \notin PastDuplicate(w, x)
        BY <1>2, <2>2, <4>1 DEF PastDuplicate
      <4>3. r.stage = "reports_today"
        BY <3>1, <3>3, <4>2 DEF PastDuplicate
      <4> QED BY <3>2, <3>3, <4>2, <4>3 DEF FiledToday, Copies, Filed
    <3> QED BY <1>3, <2>2, <2>4, <3>4, <3>5
  <2> QED BY <2>3, <2>4
<1>5. ASSUME NEW r \in Locals, Becomes(t, r), r.stage \in {th[t].stage, "error"},
             r.stage \in Statements => r.salt = th[t].salt
      PROVE  /\ PastCap(w)' \subseteq PastCap(w)
             /\ \A x \in Texts : PastDuplicate(w, x)' \subseteq PastDuplicate(w, x)
  <2>1. th'[t] = r
    BY <1>1, <1>5 DEF Becomes
  <2>2. r.stage \in {"add_report", "reports_today"} =>
          r.stage = th[t].stage /\ r.salt = th[t].salt /\ r.text = th[t].text
    BY <1>5 DEF Becomes, Statements
  <2> QED BY <1>2, <2>1, <2>2 DEF PastCap, PastDuplicate
<1>6. ASSUME NEW s \in {th[t].stage, "error"}, LostStep(t, s)
      PROVE  /\ faults' = faults + 1 /\ db' = Executed(t)
             /\ PastCap(w)' \subseteq PastCap(w)
             /\ \A x \in Texts : PastDuplicate(w, x)' \subseteq PastDuplicate(w, x)
  BY <1>1, <1>2, <1>5, <1>6, LostFields DEF LostStep
<1>7. ASSUME NEW s \in {th[t].stage, "error"}, NEW b \in 0 .. 1, VoidStep(t, s, b)
      PROVE  /\ faults' \in {faults, faults + 1} /\ db' = db
             /\ PastCap(w)' \subseteq PastCap(w)
             /\ \A x \in Texts : PastDuplicate(w, x)' \subseteq PastDuplicate(w, x)
  BY <1>1, <1>2, <1>5, <1>7, VoidFields DEF VoidStep
<1> QED BY <1>2, <1>3, <1>4, <1>6, <1>7 DEF CallStep

\* The bounds on one visitor's rows of today, after a call.
LEMMA CallBounds ==
  ASSUME IInv, NEW t \in Threads, Call(t), NEW w \in Nat
  PROVE  /\ Cardinality(Filed(w, day)') + Cardinality(PastCap(w)') <= Cap - 1 + Most'
         /\ \A x \in Texts :
              Cardinality(Copies(w, day, x)') + Cardinality(PastDuplicate(w, x)') <= Most'
<1>1. TypeOK /\ FiledRows /\ day' = day /\ Serving(t)
  BY CallFrame DEF IInv
<1> DEFINE N == Cardinality(Threads)
<1>2. /\ N \in Nat /\ faults \in Nat /\ Cap \in Nat \ {0}
      /\ \A P \in SUBSET Threads : IsFiniteSet(P) /\ Cardinality(P) \in Nat /\ Cardinality(P) <= N
      /\ \A S \in SUBSET db.reports : IsFiniteSet(S) /\ Cardinality(S) \in Nat
  BY <1>1, Countable, PgStoreAssumption
<1>3. Most = N + faults /\ Most' = N + faults'
  BY DEF Most
<1>4. /\ Filed(w, day) \in SUBSET db.reports /\ PastCap(w) \in SUBSET Threads
      /\ PastCap(w)' \in SUBSET Threads
      /\ \A x \in Texts : /\ Copies(w, day, x) \in SUBSET db.reports
                          /\ PastDuplicate(w, x) \in SUBSET Threads
                          /\ PastDuplicate(w, x)' \in SUBSET Threads
  BY DEF Filed, Copies, PastCap, PastDuplicate
<1>5. /\ Cardinality(Filed(w, day)) + Cardinality(PastCap(w)) <= (Cap - 1 + N) + faults
      /\ \A x \in Texts :
           Cardinality(Copies(w, day, x)) + Cardinality(PastDuplicate(w, x)) <= N + faults
  BY <1>1, <1>2, <1>3 DEF FiledRows
<1>6. CASE /\ db'.reports = db.reports
           /\ faults' \in {faults, faults + 1}
           /\ \/ PastCap(w)' \subseteq PastCap(w)
              \/ Cardinality(Filed(w, day)) <= Cap - 1
           /\ \A x \in Texts : \/ PastDuplicate(w, x)' \subseteq PastDuplicate(w, x)
                               \/ Copies(w, day, x) = {}
  <2>1. /\ Filed(w, day)' = Filed(w, day)
        /\ \A x \in Texts : Copies(w, day, x)' = Copies(w, day, x)
    BY <1>1, <1>6 DEF Filed, Copies
  <2>2. faults' \in Nat /\ faults' >= faults
    BY <1>2, <1>6
  <2>3. Cardinality(Filed(w, day)') + Cardinality(PastCap(w)') <= (Cap - 1 + N) + faults'
    <3>1. CASE PastCap(w)' \subseteq PastCap(w)
      <4> DEFINE S == Filed(w, day)  P == PastCap(w)
                 S2 == Filed(w, day)'  P2 == PastCap(w)'  K == Cap - 1 + N
      <4>1. IsFiniteSet(S) /\ IsFiniteSet(P) /\ Cardinality(S) + Cardinality(P) <= K + faults
        BY <1>2, <1>4, <1>5
      <4>2. \/ S2 \subseteq S /\ P2 \subseteq P /\ faults' >= faults
            \/ S2 \subseteq S \union {Row(t)} /\ P2 \subseteq P \ {t} /\ t \in P /\ faults' = faults
            \/ S2 \subseteq S \union {Row(t)} /\ P2 \subseteq P /\ faults' = faults + 1
        BY <2>1, <2>2, <3>1
      <4>3. K \in Int /\ faults \in Nat /\ faults' \in Nat
        BY <1>2, <2>2
      <4> HIDE DEF S, P, S2, P2, K
      <4>4. Cardinality(S2) + Cardinality(P2) <= K + faults'
        BY <4>1, <4>2, <4>3, Room
      <4> QED BY <4>4 DEF S2, P2, K
    <3>2. CASE Cardinality(Filed(w, day)) <= Cap - 1
      <4>1. Cardinality(PastCap(w)') <= N /\ Cardinality(PastCap(w)') \in Nat
            /\ Cardinality(Filed(w, day)) \in Nat
        BY <1>2, <1>4
      <4> QED BY <1>2, <2>1, <2>2, <3>2, <4>1
    <3> QED BY <1>6, <3>1, <3>2
  <2>4. ASSUME NEW x \in Texts
        PROVE Cardinality(Copies(w, day, x)') + Cardinality(PastDuplicate(w, x)') <= N + faults'
    <3>1. CASE PastDuplicate(w, x)' \subseteq PastDuplicate(w, x)
      <4> DEFINE S == Copies(w, day, x)  P == PastDuplicate(w, x)
                 S2 == Copies(w, day, x)'  P2 == PastDuplicate(w, x)'
      <4>1. IsFiniteSet(S) /\ IsFiniteSet(P) /\ Cardinality(S) + Cardinality(P) <= N + faults
        BY <1>2, <1>4, <1>5
      <4>2. \/ S2 \subseteq S /\ P2 \subseteq P /\ faults' >= faults
            \/ S2 \subseteq S \union {Row(t)} /\ P2 \subseteq P \ {t} /\ t \in P /\ faults' = faults
            \/ S2 \subseteq S \union {Row(t)} /\ P2 \subseteq P /\ faults' = faults + 1
        BY <2>1, <2>2, <3>1
      <4>3. N \in Int /\ faults \in Nat /\ faults' \in Nat
        BY <1>2, <2>2
      <4> HIDE DEF S, P, S2, P2
      <4>4. Cardinality(S2) + Cardinality(P2) <= N + faults'
        BY <4>1, <4>2, <4>3, Room
      <4> QED BY <4>4 DEF S2, P2
    <3>2. CASE Copies(w, day, x) = {}
      <4>1. Cardinality(PastDuplicate(w, x)') <= N /\ Cardinality(PastDuplicate(w, x)') \in Nat
        BY <1>2, <1>4
      <4>2. Cardinality(Copies(w, day, x)') = 0
        BY <2>1, <3>2, FS_EmptySet
      <4> QED BY <1>2, <2>2, <4>1, <4>2
    <3> QED BY <1>6, <3>1, <3>2
  <2> QED BY <1>2, <1>3, <2>2, <2>3, <2>4
<1>7. CASE /\ db'.reports = db.reports \union {Row(t)}
           /\ th[t].stage = "add_report"
           /\ \/ /\ faults' = faults + 1
                 /\ PastCap(w)' \subseteq PastCap(w)
                 /\ \A x \in Texts : PastDuplicate(w, x)' \subseteq PastDuplicate(w, x)
              \/ /\ faults' = faults
                 /\ PastCap(w)' \subseteq PastCap(w) \ {t}
                 /\ \A x \in Texts : PastDuplicate(w, x)' \subseteq PastDuplicate(w, x) \ {t}
  <2>1. /\ Filed(w, day)' \subseteq Filed(w, day) \union {Row(t)}
        /\ th[t].salt # w => Filed(w, day)' \subseteq Filed(w, day)
    BY <1>1, <1>7 DEF Filed, Row
  <2>2. ASSUME NEW x \in Texts
        PROVE  /\ Copies(w, day, x)' \subseteq Copies(w, day, x) \union {Row(t)}
               /\ th[t].salt # w \/ th[t].text # x =>
                    Copies(w, day, x)' \subseteq Copies(w, day, x)
    BY <1>1, <1>7 DEF Filed, Copies, Row
  <2>3. /\ th[t].salt = w => t \in PastCap(w)
        /\ \A x \in Texts : th[t].salt = w /\ th[t].text = x => t \in PastDuplicate(w, x)
    BY <1>7 DEF PastCap, PastDuplicate
  <2>4. faults' \in Nat /\ faults' >= faults /\ Cap - 1 + N \in Int /\ N \in Int
    BY <1>2, <1>7
  <2>5. Cardinality(Filed(w, day)') + Cardinality(PastCap(w)') <= (Cap - 1 + N) + faults'
    <3> DEFINE S == Filed(w, day)  P == PastCap(w)
               S2 == Filed(w, day)'  P2 == PastCap(w)'  K == Cap - 1 + N
    <3>1. IsFiniteSet(S) /\ IsFiniteSet(P) /\ Cardinality(S) + Cardinality(P) <= K + faults
      BY <1>2, <1>4, <1>5
    <3>2. \/ S2 \subseteq S /\ P2 \subseteq P /\ faults' >= faults
          \/ S2 \subseteq S \union {Row(t)} /\ P2 \subseteq P \ {t} /\ t \in P /\ faults' = faults
          \/ S2 \subseteq S \union {Row(t)} /\ P2 \subseteq P /\ faults' = faults + 1
      BY <1>7, <2>1, <2>3, <2>4
    <3>3. K \in Int /\ faults \in Nat /\ faults' \in Nat
      BY <1>2, <2>4
    <3> HIDE DEF S, P, S2, P2, K
    <3>4. Cardinality(S2) + Cardinality(P2) <= K + faults'
      BY <3>1, <3>2, <3>3, Room
    <3> QED BY <3>4 DEF S2, P2, K
  <2>6. ASSUME NEW x \in Texts
        PROVE Cardinality(Copies(w, day, x)') + Cardinality(PastDuplicate(w, x)') <= N + faults'
    <3> DEFINE S == Copies(w, day, x)  P == PastDuplicate(w, x)
               S2 == Copies(w, day, x)'  P2 == PastDuplicate(w, x)'
    <3>1. IsFiniteSet(S) /\ IsFiniteSet(P) /\ Cardinality(S) + Cardinality(P) <= N + faults
      BY <1>2, <1>4, <1>5
    <3>2. \/ S2 \subseteq S /\ P2 \subseteq P /\ faults' >= faults
          \/ S2 \subseteq S \union {Row(t)} /\ P2 \subseteq P \ {t} /\ t \in P /\ faults' = faults
          \/ S2 \subseteq S \union {Row(t)} /\ P2 \subseteq P /\ faults' = faults + 1
      BY <1>7, <2>2, <2>3, <2>4
    <3>3. N \in Int /\ faults \in Nat /\ faults' \in Nat
      BY <1>2, <2>4
    <3> HIDE DEF S, P, S2, P2
    <3>4. Cardinality(S2) + Cardinality(P2) <= N + faults'
      BY <3>1, <3>2, <3>3, Room
    <3> QED BY <3>4 DEF S2, P2
  <2> QED BY <1>2, <1>3, <2>4, <2>5, <2>6
<1> QED BY <1>6, <1>7, RowsMove

\* The bounds that hold of a state where nobody is past a check, or few rows are filed.
LEMMA RowsStep ==
  ASSUME IInv, [Next]_vars
  PROVE  FiledRows'
<1>1. TypeOK /\ FiledRows /\ th \in [Threads -> Locals] /\ day \in Days
      /\ db \in Tables /\ faults \in Nat
  BY DEF IInv, TypeOK
<1> DEFINE N == Cardinality(Threads)
<1>2. /\ N \in Nat /\ Cap \in Nat \ {0}
      /\ \A P \in SUBSET Threads : IsFiniteSet(P) /\ Cardinality(P) \in Nat /\ Cardinality(P) <= N
      /\ \A S \in SUBSET db.reports : IsFiniteSet(S) /\ Cardinality(S) \in Nat
      /\ IsFiniteSet(db.reports)
  BY <1>1, Countable, PgStoreAssumption DEF FiledRows
<1>3. ASSUME NEW t \in Threads, Call(t) PROVE FiledRows'
  <2>1. /\ day' = day /\ Serving(t) /\ db' \in {db, Executed(t)} /\ Underway(t)
        /\ faults' \in {faults, faults + 1}
    BY <1>3, CallFrame, RowsMove DEF IInv
  <2>2. db'.reports = db.reports \/ db'.reports = db.reports \union {Row(t)}
    BY <1>1, <2>1, ExecutedTables
  <2>3. IsFiniteSet(db'.reports)
    BY <1>2, <2>2, FS_AddElement
  <2>4. Row(t).day = day
    BY DEF Row
  <2>5. \A r \in db'.reports : r.day <= day'
    BY <1>1, <2>1, <2>2, <2>4 DEF FiledRows, Days
  <2>6. ASSUME NEW w \in Nat
        PROVE  /\ Cardinality(Filed(w, day)') + Cardinality(PastCap(w)') <= Cap - 1 + Most'
               /\ \A x \in Texts :
                    Cardinality(Copies(w, day, x)') + Cardinality(PastDuplicate(w, x)') <= Most'
               /\ Cardinality(Filed(w, day)') <= Cap - 1 + Most'
               /\ \A x \in Texts : Cardinality(Copies(w, day, x)') <= Most'
    <3>1. /\ Cardinality(Filed(w, day)') + Cardinality(PastCap(w)') <= Cap - 1 + Most'
          /\ \A x \in Texts :
               Cardinality(Copies(w, day, x)') + Cardinality(PastDuplicate(w, x)') <= Most'
      BY <1>3, CallBounds
    <3>2. Cardinality(Filed(w, day)') \in Nat /\ Cardinality(PastCap(w)') \in Nat
      <4>1. Filed(w, day)' \in SUBSET db'.reports
        BY DEF Filed
      <4>2. PastCap(w)' \in SUBSET Threads
        BY DEF PastCap
      <4> QED BY <1>2, <2>3, <4>1, <4>2, FS_Subset, FS_CardinalityType
    <3>3. ASSUME NEW x \in Texts
          PROVE Cardinality(Copies(w, day, x)') \in Nat /\ Cardinality(PastDuplicate(w, x)') \in Nat
      <4>1. Copies(w, day, x)' \in SUBSET db'.reports
        BY DEF Copies, Filed
      <4>2. PastDuplicate(w, x)' \in SUBSET Threads
        BY DEF PastDuplicate
      <4> QED BY <1>2, <2>3, <4>1, <4>2, FS_Subset, FS_CardinalityType
    <3>4. Most' \in Nat
      BY <1>1, <1>2, <2>1 DEF Most
    <3> QED BY <1>2, <3>1, <3>2, <3>3, <3>4
  <2>7. ASSUME NEW w \in Nat, NEW d \in Days, d # day
        PROVE  /\ Cardinality(Filed(w, d)') <= Cap - 1 + Most'
               /\ \A x \in Texts : Cardinality(Copies(w, d, x)') <= Most'
    <3>1. /\ Filed(w, d)' = Filed(w, d)
          /\ \A x \in Texts : Copies(w, d, x)' = Copies(w, d, x)
      BY <2>2, <2>4, <2>7 DEF Filed, Copies
    <3>2. /\ Cardinality(Filed(w, d)) <= Cap - 1 + Most
          /\ \A x \in Texts : Cardinality(Copies(w, d, x)) <= Most
      BY <1>1 DEF FiledRows
    <3>3. /\ Cardinality(Filed(w, d)) \in Nat
          /\ \A x \in Texts : Cardinality(Copies(w, d, x)) \in Nat
      BY <1>2 DEF Filed, Copies
    <3>4. Most \in Nat /\ Most' \in Nat /\ Most <= Most'
      BY <1>1, <1>2, <2>1 DEF Most
    <3> QED BY <1>2, <3>1, <3>2, <3>3, <3>4
  <2>8. ASSUME NEW w \in Nat, NEW d \in Days
        PROVE  /\ Cardinality(Filed(w, d)') <= Cap - 1 + Most'
               /\ \A x \in Texts : Cardinality(Copies(w, d, x)') <= Most'
    <3>1. CASE d = day
      <4>1. /\ Filed(w, d)' = Filed(w, day)'
            /\ \A x \in Texts : Copies(w, d, x)' = Copies(w, day, x)'
        BY <2>1, <3>1 DEF Filed, Copies
      <4> QED BY <2>6, <4>1
    <3>2. CASE d # day
      BY <2>7, <3>2
    <3> QED BY <3>1, <3>2
  <2> QED BY <2>1, <2>3, <2>5, <2>6, <2>8 DEF FiledRows
<1>4. ASSUME UNCHANGED <<db, day>>, faults' \in Nat, faults' >= faults,
             \A w \in Nat : PastCap(w)' \subseteq PastCap(w),
             \A w \in Nat, x \in Texts : PastDuplicate(w, x)' \subseteq PastDuplicate(w, x)
      PROVE  FiledRows'
  <2>1. Most \in Nat /\ Most' \in Nat /\ Most <= Most'
    BY <1>1, <1>2, <1>4 DEF Most
  <2>2. ASSUME NEW w \in Nat, NEW d \in Days
        PROVE  /\ Filed(w, d)' = Filed(w, d)
               /\ Cardinality(Filed(w, d)) \in Nat
               /\ \A x \in Texts : /\ Copies(w, d, x)' = Copies(w, d, x)
                                   /\ Cardinality(Copies(w, d, x)) \in Nat
    BY <1>2, <1>4 DEF Filed, Copies
  <2>3. ASSUME NEW w \in Nat
        PROVE  /\ Cardinality(PastCap(w)') \in Nat /\ Cardinality(PastCap(w)) \in Nat
               /\ Cardinality(PastCap(w)') <= Cardinality(PastCap(w))
    <3>1. PastCap(w) \in SUBSET Threads
      BY DEF PastCap
    <3>2. IsFiniteSet(PastCap(w)) /\ PastCap(w)' \in SUBSET PastCap(w)
      BY <1>2, <1>4, <3>1
    <3>3. IsFiniteSet(PastCap(w)')
      BY <3>2, FS_Subset
    <3> QED BY <3>2, <3>3, FS_Subset, FS_CardinalityType
  <2>4. ASSUME NEW w \in Nat, NEW x \in Texts
        PROVE  /\ Cardinality(PastDuplicate(w, x)') \in Nat
               /\ Cardinality(PastDuplicate(w, x)) \in Nat
               /\ Cardinality(PastDuplicate(w, x)') <= Cardinality(PastDuplicate(w, x))
    <3>1. PastDuplicate(w, x) \in SUBSET Threads
      BY DEF PastDuplicate
    <3>2. IsFiniteSet(PastDuplicate(w, x)) /\ PastDuplicate(w, x)' \in SUBSET PastDuplicate(w, x)
      BY <1>2, <1>4, <3>1
    <3>3. IsFiniteSet(PastDuplicate(w, x)')
      BY <3>2, FS_Subset
    <3> QED BY <3>2, <3>3, FS_Subset, FS_CardinalityType
  <2>5. ASSUME NEW w \in Nat
        PROVE  /\ Cardinality(Filed(w, day)') + Cardinality(PastCap(w)') <= Cap - 1 + Most'
               /\ \A x \in Texts :
                    Cardinality(Copies(w, day, x)') + Cardinality(PastDuplicate(w, x)') <= Most'
    <3>1. /\ Cardinality(Filed(w, day)) + Cardinality(PastCap(w)) <= Cap - 1 + Most
          /\ \A x \in Texts :
               Cardinality(Copies(w, day, x)) + Cardinality(PastDuplicate(w, x)) <= Most
      BY <1>1 DEF FiledRows
    <3>2. Filed(w, day)' = Filed(w, day) /\ Cardinality(Filed(w, day)) \in Nat
      BY <1>1, <1>4, <2>2
    <3>3. \A x \in Texts : Copies(w, day, x)' = Copies(w, day, x)
                         /\ Cardinality(Copies(w, day, x)) \in Nat
      BY <1>1, <1>4, <2>2
    <3>4. Cardinality(Filed(w, day)') + Cardinality(PastCap(w)') <= Cap - 1 + Most'
      BY <1>2, <2>1, <2>3, <3>1, <3>2
    <3>5. ASSUME NEW x \in Texts
          PROVE Cardinality(Copies(w, day, x)') + Cardinality(PastDuplicate(w, x)') <= Most'
      BY <2>1, <2>4, <3>1, <3>3
    <3> QED BY <3>4, <3>5
  <2>6. ASSUME NEW w \in Nat, NEW d \in Days
        PROVE  /\ Cardinality(Filed(w, d)') <= Cap - 1 + Most'
               /\ \A x \in Texts : Cardinality(Copies(w, d, x)') <= Most'
    <3>1. /\ Cardinality(Filed(w, d)) <= Cap - 1 + Most
          /\ \A x \in Texts : Cardinality(Copies(w, d, x)) <= Most
      BY <1>1 DEF FiledRows
    <3> QED BY <1>2, <2>1, <2>2, <3>1
  <2> QED BY <1>1, <1>2, <1>4, <2>5, <2>6 DEF FiledRows
<1>5. ASSUME NEW t \in Threads, Begin(t) PROVE FiledRows'
  <2>1. \E req \in RequestsOf(process) : \E x \in TextsOf(req) : \E r \in Locals :
          th' = [th EXCEPT ![t] = r] /\ r.stage \in Starts \union {"ok"}
    BY <1>1, <1>5, BeginFields
  <2>2. /\ th'[t].stage \in Starts \union {"ok"}
        /\ \A u \in Threads \ {t} : th'[u] = th[u]
    BY <1>1, <2>1
  <2>3. UNCHANGED <<db, day, faults>>
    BY <1>5 DEF Begin, clock
  <2>4. \A w \in Nat : PastCap(w)' \subseteq PastCap(w)
    BY <2>2 DEF PastCap, Starts
  <2>5. \A w \in Nat, x \in Texts : PastDuplicate(w, x)' \subseteq PastDuplicate(w, x)
    BY <2>2 DEF PastDuplicate, Starts
  <2> QED BY <1>1, <1>4, <2>3, <2>4, <2>5
<1>6. CASE Crash
  <2>1. UNCHANGED <<db, day>> /\ faults' = faults + 1 /\ \A u \in Threads : th'[u] = Idle
    BY <1>6 DEF Crash, clock
  <2>2. \A w \in Nat : PastCap(w)' \subseteq PastCap(w)
    BY <2>1 DEF PastCap, Idle
  <2>3. \A w \in Nat, x \in Texts : PastDuplicate(w, x)' \subseteq PastDuplicate(w, x)
    BY <2>1 DEF PastDuplicate, Idle
  <2> QED BY <1>1, <1>4, <2>1, <2>2, <2>3
<1>7. CASE Dropped \/ UNCHANGED vars
  <2>1. UNCHANGED <<db, day, th>> /\ faults' \in {faults, faults + 1}
    BY <1>7 DEF Dropped, vars, clock
  <2>2. \A w \in Nat : PastCap(w)' \subseteq PastCap(w)
    BY <2>1 DEF PastCap
  <2>3. \A w \in Nat, x \in Texts : PastDuplicate(w, x)' \subseteq PastDuplicate(w, x)
    BY <2>1 DEF PastDuplicate
  <2> QED BY <1>1, <1>4, <2>1, <2>2, <2>3
<1>8. CASE Midnight
  <2>1. UNCHANGED <<db, faults>> /\ day' = day + 1
    BY <1>8 DEF Midnight
  <2>2. \A r \in db.reports : r.day <= day /\ r.day \in Int
    BY <1>1 DEF FiledRows, Tables, Rows, Days
  <2>3. Most' = Most /\ Most \in Nat /\ Most >= N
    BY <1>1, <1>2, <2>1 DEF Most
  <2>4. ASSUME NEW w \in Nat
        PROVE  /\ Cardinality(Filed(w, day)') + Cardinality(PastCap(w)') <= Cap - 1 + Most'
               /\ \A x \in Texts :
                    Cardinality(Copies(w, day, x)') + Cardinality(PastDuplicate(w, x)') <= Most'
    <3>1. Filed(w, day)' = {} /\ \A x \in Texts : Copies(w, day, x)' = {}
      BY <1>1, <2>1, <2>2 DEF Filed, Copies, Days
    <3>2. Cardinality(Filed(w, day)') = 0
      BY <3>1, FS_EmptySet
    <3>3. Cardinality(PastCap(w)') <= N /\ Cardinality(PastCap(w)') \in Nat
      <4>1. PastCap(w)' \in SUBSET Threads
        BY DEF PastCap
      <4> QED BY <1>2, <4>1
    <3>4. ASSUME NEW x \in Texts
          PROVE Cardinality(Copies(w, day, x)') + Cardinality(PastDuplicate(w, x)') <= Most'
      <4>1. PastDuplicate(w, x)' \in SUBSET Threads
        BY DEF PastDuplicate
      <4>2. Cardinality(Copies(w, day, x)') = 0
        BY <3>1, FS_EmptySet
      <4> QED BY <1>2, <2>3, <4>1, <4>2
    <3> QED BY <1>2, <2>3, <3>2, <3>3, <3>4
  <2>5. ASSUME NEW w \in Nat, NEW d \in Days
        PROVE  /\ Cardinality(Filed(w, d)') <= Cap - 1 + Most'
               /\ \A x \in Texts : Cardinality(Copies(w, d, x)') <= Most'
    BY <1>1, <2>1, <2>3 DEF FiledRows, Filed, Copies
  <2>6. \A r \in db'.reports : r.day <= day'
    BY <1>1, <2>1, <2>2 DEF Days
  <2> QED BY <1>2, <2>1, <2>4, <2>5, <2>6 DEF FiledRows
<1> QED BY <1>3, <1>5, <1>6, <1>7, <1>8 DEF Next

-----------------------------------------------------------------------------
(***************************************************************************)
(* The theorems.                                                           *)
(***************************************************************************)
LEMMA InitRest == Init => IInv
<1> SUFFICES ASSUME Init PROVE IInv
  OBVIOUS
<1>1. TypeOK
  BY InitType
<1>2. /\ th = [t \in Threads |-> Idle] /\ day = 1 /\ lock = NoOne /\ index = NoIndex
      /\ sighted = {} /\ db.visits = {} /\ db.reports = {} /\ db.subscribed = {}
      /\ db.posting = {}
  BY DEF Init
<1>3. \A t \in Threads : /\ th[t].stage = "ok" /\ th[t].salt = NoSalt /\ th[t].wrote = 1
                         /\ th[t].broke = 0 /\ ~Serving(t)
  BY <1>2 DEF Idle, Serving, Statements
<1>4. \A t \in Threads : Underway(t) /\ Writing(t)
  BY <1>3 DEF Underway, Writing
<1>5. Signups /\ OnePoller /\ SightingsKept /\ RetryIsSafe
  BY <1>2, <1>3 DEF Signups, OnePoller, SightingsKept, RetryIsSafe, NoIndex
<1>6. Hashes = {}
  BY <1>2, <1>3 DEF Hashes
<1>7. OneSaltPerDay /\ SaltsStay
  BY <1>2, <1>3, <1>6 DEF OneSaltPerDay, Hashes, SaltsStay
<1>8. FiledRows
  <2> DEFINE N == Cardinality(Threads)
  <2>1. IsFiniteSet(db.reports) /\ faults \in Nat /\ N \in Nat /\ Cap \in Nat \ {0}
    BY <1>1, <1>2, FS_EmptySet, FS_CardinalityType, PgStoreAssumption DEF TypeOK
  <2>2. \A w \in Nat, d \in Days : /\ Cardinality(Filed(w, d)) = 0
                                  /\ \A x \in Texts : Cardinality(Copies(w, d, x)) = 0
    BY <1>2, FS_EmptySet DEF Filed, Copies
  <2>3. \A w \in Nat : /\ Cardinality(PastCap(w)) = 0
                       /\ \A x \in Texts : Cardinality(PastDuplicate(w, x)) = 0
    BY <1>3, FS_EmptySet DEF PastCap, PastDuplicate
  <2>4. Most \in Nat
    BY <2>1 DEF Most
  <2> QED BY <1>1, <1>2, <2>1, <2>2, <2>3, <2>4 DEF FiledRows, TypeOK
<1> QED BY <1>1, <1>4, <1>5, <1>7, <1>8 DEF IInv

\* Every step keeps the inductive invariant.
LEMMA StepInv == IInv /\ [Next]_vars => IInv'
<1> SUFFICES ASSUME IInv, [Next]_vars PROVE IInv'
  OBVIOUS
<1>1. TypeOK'
  <2>1. CASE UNCHANGED vars
    BY <2>1 DEF vars, IInv, TypeOK, Serving
  <2> QED BY <2>1, CallType, BeginType, OtherType DEF Next, IInv
<1>2. \A t \in Threads : (Underway(t) /\ Writing(t) /\ Retry(t))'
  BY RequestsStep DEF RequestOK
<1>3. RetryIsSafe'
  BY <1>2 DEF RetryIsSafe, Retry
<1>4. (Signups /\ OneSaltPerDay /\ SaltsStay /\ OnePoller /\ SightingsKept /\ FiledRows)'
  BY <1>1, SignupsStep, SaltsStep, SightingsStep, RowsStep
<1> QED BY <1>1, <1>2, <1>3, <1>4 DEF IInv

\* The inductive invariant holds of every behaviour of the process.
THEOREM Invariance == Spec => []IInv
<1> QED BY InitRest, StepInv, PTL DEF Spec

\* The tables and the requests' locals keep their types, and only a thread whose
\* connection is gone holds the lock between two attempts (PgStore._run).
THEOREM TypeCorrect == Spec => []TypeOK
<1>1. IInv => TypeOK
  BY DEF IInv
<1> QED BY <1>1, Invariance, PTL

\* However many handlers race to mint the day's salt, and whatever is run twice, the
\* visitor hashes of one day come from one salt (visit_salt).
THEOREM OneSalt == Spec => []OneSaltPerDay
<1>1. IInv => OneSaltPerDay
  BY DEF IInv
<1> QED BY <1>1, Invariance, PTL

\* A request that fails met a break, one that succeeds was applied, once or across
\* a break twice, and a signup once (PgStore._run).
THEOREM RetrySafe == Spec => []RetryIsSafe
<1>1. IInv => RetryIsSafe
  BY DEF IInv
<1> QED BY <1>1, Invariance, PTL

\* A sighting that was answered is in its row: the index answers for nothing else
\* (upsert_detection and _index).
THEOREM SightingsSafe == Spec => []SightingsKept
<1>1. IInv => SightingsKept
  BY DEF IInv
<1> QED BY <1>1, Invariance, PTL

\* However many handlers are past the check together and whatever a break applied
\* twice, a visitor's reports of a day exceed the cap by no more than them (api_report).
THEOREM ReportsBounded == Spec => []RowsBounded
<1>1. IInv => RowsBounded
  <2> SUFFICES ASSUME IInv PROVE RowsBounded
    OBVIOUS
  <2>1. TypeOK /\ FiledRows
    BY DEF IInv
  <2>2. \A r \in db.reports : r.who \in Nat /\ r.day \in Days /\ r.text \in Texts
    BY <2>1 DEF TypeOK, Tables, Rows
  <2>3. \A r \in db.reports :
          /\ Cardinality(Filed(r.who, r.day)) <= Cap - 1 + Most
          /\ Cardinality(Copies(r.who, r.day, r.text)) <= Most
    BY <2>1, <2>2 DEF FiledRows
  <2> QED BY <2>3 DEF RowsBounded, Filed, Copies, Most
<1> QED BY <1>1, Invariance, PTL
==============================================================================
