------------------------------ MODULE PgStore ------------------------------
(***************************************************************************)
(* A process that works through the Postgres store: store_postgres.py,     *)
(* with what writes through it.  In the web server that is the             *)
(* /api/report, /api/visit and /api/subscribe handlers of web.py and the   *)
(* spending counters; in the poller, which has one thread, the upsert of a *)
(* sighting and the pipeline's updates.                                    *)
(*                                                                         *)
(* The process holds one connection behind a lock.  Every statement goes   *)
(* through _run: it runs on the connection held, and when that breaks it   *)
(* reconnects and runs the statement a second time, the lock held          *)
(* throughout.  A connection can break before the server applied the       *)
(* statement or after, and the caller cannot tell which.  A request is a   *)
(* few statements one after the other; between them the lock is free, so   *)
(* the statements of two requests interleave.  The poller remembers of the *)
(* postings what a sighting may add (_index), so as not to read a row that *)
(* would not change.  A process may die at any point; its memory is gone.  *)
(*                                                                         *)
(* One visitor (address and browser) files everything here: two visitors   *)
(* share no row but the day's salt.  The poller works on one posting, and  *)
(* a sighting brings it one item: a source, a location or a date.          *)
(***************************************************************************)
EXTENDS Integers, FiniteSets

CONSTANTS Threads,       \* the process's request threads
          Texts,         \* what the visitor may send, and the items of sightings
          Cap,           \* REPORTS_PER_DAY
          KeepDays,      \* how many days an old salt is kept (2 in the code)
          LastDay,       \* bound: days 1 .. LastDay
          MaxRequests,   \* bound: requests begun
          MaxFaults      \* bound: broken and refused connections

NoOne == "none"
NoText == "none"

\* A salt outlives the day after its own: visit_salt keeps two days of them.
ASSUME PgStoreAssumption ==
    /\ {Cap, LastDay, KeepDays} \subseteq Nat \ {0}
    /\ {MaxRequests, MaxFaults} \subseteq Nat
    /\ IsFiniteSet(Threads) /\ NoOne \notin Threads

VARIABLES process,   \* which process this is: "web" or "poller"
          day,       \* the current UTC day
          conn,      \* the process's connection: "none", "live" or "dead"
          lock,      \* the thread inside _run between two attempts, if any
          th,        \* thread -> the request it serves
          db,        \* the tables
          index,     \* _index, as it is for the posting
          sighted,   \* items of the sightings that were answered
          begun,     \* requests begun, the source of row identities
          faults     \* connection faults so far

vars == <<process, day, conn, lock, th, db, index, sighted, begun, faults>>
memory == <<index, sighted>>
clock == <<process, day>>

Days == 1 .. LastDay
NoSalt == 0
RequestsOf(p) == IF p = "web" THEN {"report", "visit", "subscribe", "count"}
                 ELSE {"upsert", "update"}
Requests == UNION {RequestsOf(p) : p \in {"web", "poller"}}

\* The statements, by the store's method that issues them.
Statements == {"read_salt", "mint_salt", "prune_salts", "record_visit",
               "duplicate_report", "reports_today", "add_report",
               "add_subscription", "mark_sent", "count",
               "load_index", "get", "write"}
Outcomes == {"ok", "again", "capped", "error"}

\* The statement whose effect the request is made for.
Write(req) == CASE req = "report"    -> "add_report"
                [] req = "visit"     -> "record_visit"
                [] req = "subscribe" -> "add_subscription"
                [] req = "count"     -> "count"
                [] OTHER             -> "write"

\* A sighting that brings nothing, as far as the index knows, is answered at once.
Lookup(known, x) == IF x \in known THEN "ok" ELSE "get"

\* A report and a visit are hashed first, which takes the day's salt; an update is
\* made of a row read before.
FirstStage(req, x) ==
    CASE req \in {"report", "visit"} -> "read_salt"
      [] req = "upsert" -> IF index.loaded THEN Lookup(index.has, x) ELSE "load_index"
      [] req = "update" -> "get"
      [] OTHER -> Write(req)

-----------------------------------------------------------------------------
(* What a statement does to the tables, and what the request does next.    *)

SaltNow(t) == db.salts[th[t].day]

\* INSERT ... ON CONFLICT(day) DO UPDATE SET salt = visit_salts.salt: the
\* row that is there stays.
BugMinted(d) ==
    [db EXCEPT !.salts[d] = db.coined + 1, !.coined = @ + 1]
Minted(d) ==
    IF db.salts[d] # NoSalt THEN db
    ELSE [db EXCEPT !.salts[d] = db.coined + 1, !.coined = @ + 1]

\* DELETE FROM visit_salts WHERE day < (day - 2).
Pruned(d) ==
    [db EXCEPT !.salts = [e \in Days |-> IF e < d - KeepDays THEN NoSalt ELSE @[e]]]

\* A row of reports; a statement the server applied twice leaves two rows.
Row(t) == [who |-> th[t].salt, text |-> th[t].text, day |-> day,
           id |-> <<th[t].id, th[t].wrote>>]
FiledToday(t) == {r \in db.reports : r.who = th[t].salt /\ r.day = day}

\* token is UNIQUE and was drawn before the statement, so a second run of an
\* insert that had been applied is refused.
RefusedInsert(t) ==
    th[t].stage = "add_subscription" /\ th[t].id \in db.subscribed

Executed(t) ==
    LET d == th[t].day
    IN  CASE th[t].stage = "mint_salt"      -> Minted(d)
          [] th[t].stage = "prune_salts"    -> Pruned(d)
          [] th[t].stage = "record_visit"   ->
                [db EXCEPT !.visits = @ \union {<<d, th[t].salt>>}]
          [] th[t].stage = "add_report"     ->
                [db EXCEPT !.reports = @ \union {Row(t)}]
          [] th[t].stage = "add_subscription" ->
                [db EXCEPT !.subscribed = @ \union {th[t].id}]
          [] th[t].stage = "mark_sent"      ->
                [db EXCEPT !.mailed = @ \union ({th[t].id} \intersect db.subscribed)]
          [] th[t].stage = "count"          ->
                [db EXCEPT !.counts[day] = @ + 1]
          [] th[t].stage = "write"      ->
                [db EXCEPT !.posting = th[t].copy \union {th[t].text}]
          [] OTHER                          -> db

\* The request as it goes on when its statement was answered.
AfterSalt(r) == IF r.req = "visit" THEN "record_visit" ELSE "duplicate_report"

BugCapReached(n) == n > Cap
CapReached(n) == n >= Cap

\* Where the answer of its statement takes the request.
NextStages(t) ==
    LET r == th[t]
    IN  CASE r.stage = "read_salt" ->
                {IF SaltNow(t) = NoSalt THEN "mint_salt" ELSE AfterSalt(r)}
          [] r.stage = "mint_salt"   -> {"prune_salts"}
          [] r.stage = "prune_salts" -> {AfterSalt(r)}
          [] r.stage = "duplicate_report" ->
                {IF \E q \in FiledToday(t) : q.text = r.text THEN "again"
                 ELSE "reports_today"}
          [] r.stage = "reports_today" ->
                {IF CapReached(Cardinality(FiledToday(t))) THEN "capped" ELSE "add_report"}
             \* the provider takes the confirmation, or it does not
          [] r.stage = "add_subscription" -> {"mark_sent", "ok"}
          [] r.stage = "load_index" -> {Lookup(db.posting, r.text)}
          [] r.stage = "get" ->
                {IF r.req = "upsert" /\ r.text \in db.posting THEN "ok" ELSE "write"}
          [] OTHER -> {"ok"}

\* The salt the request works with, once a statement has returned it.
SaltAfter(t) ==
    CASE th[t].stage = "read_salt" -> SaltNow(t)
      [] th[t].stage = "mint_salt" -> Minted(th[t].day).salts[th[t].day]
      [] OTHER -> th[t].salt

\* The row a write is made of, and the index: an upsert keeps it in step, an update of
\* the pipeline, which may have merged a duplicate's items into the row, does not.
CopyAfter(t) == IF th[t].stage = "get" THEN db.posting ELSE th[t].copy

BugIndexAfter(t) ==
    LET r == th[t]
    IN  CASE r.stage = "load_index" -> [loaded |-> TRUE, has |-> db.posting]
          [] r.req = "upsert" /\ r.stage \in {"get", "write"} ->
                [index EXCEPT !.has = @ \union {r.text}]
          [] OTHER -> index
IndexAfter(t) ==
    LET r == th[t]
    IN  CASE r.stage = "load_index" -> [loaded |-> TRUE, has |-> db.posting]
          [] r.req = "upsert" /\ r.stage = "get" /\ r.text \in db.posting ->
                [index EXCEPT !.has = db.posting]
          [] r.req = "upsert" /\ r.stage = "write" ->
                [index EXCEPT !.has = r.copy \union {r.text}]
          [] OTHER -> index

SightedAfter(req, x, s) ==
    sighted \union (IF req = "upsert" /\ s = "ok" THEN {x} ELSE {})

\* The thread's request once its statement was applied: wrote counts the
\* times its own write was.
Landed(t) == [th[t] EXCEPT !.wrote = @ + (IF th[t].stage = Write(th[t].req)
                                          THEN 1 ELSE 0)]

Idle == [req |-> "visit", stage |-> "ok", text |-> NoText,
         day |-> 1, salt |-> NoSalt, copy |-> {}, id |-> 0, broke |-> 0, wrote |-> 1]
NoIndex == [loaded |-> FALSE, has |-> {}]

\* The request at its next statement, or over: its locals are gone then.
At(r, s) == IF s \in Statements THEN [r EXCEPT !.stage = s]
            ELSE [Idle EXCEPT !.req = r.req, !.stage = s, !.broke = r.broke,
                              !.wrote = r.wrote]

\* The statement is applied and its result comes back.
Answers(t) ==
    /\ db' = Executed(t)
    /\ index' = IndexAfter(t)
    /\ \E s \in NextStages(t) :
          /\ sighted' = SightedAfter(th[t].req, th[t].text, s)
          /\ th' = [th EXCEPT ![t] = At([Landed(t) EXCEPT !.salt = SaltAfter(t),
                                                       !.copy = CopyAfter(t)], s)]

\* It is not answered: applied, or not, and the call goes on to stage s.
BreaksInto(t, s) ==
    \/ /\ ~RefusedInsert(t)
       /\ db' = Executed(t)
       /\ th' = [th EXCEPT ![t] = At([Landed(t) EXCEPT !.broke = @ + 1], s)]
    \/ /\ db' = db
       /\ th' = [th EXCEPT ![t] = At([th[t] EXCEPT !.broke = @ + 1], s)]

Fails(t) == th' = [th EXCEPT ![t] = At(th[t], "error")]

-----------------------------------------------------------------------------
Init ==
    /\ process \in {"web", "poller"}
    /\ day = 1
    /\ conn = "none"
    /\ lock = NoOne
    /\ th = [t \in Threads |-> Idle]
    /\ db = [salts |-> [d \in Days |-> NoSalt], coined |-> 0, visits |-> {},
             reports |-> {}, subscribed |-> {}, mailed |-> {},
             counts |-> [d \in Days |-> 0], posting |-> {}]
    /\ index = NoIndex /\ sighted = {}
    /\ begun = 0
    /\ faults = 0

Serving(t) == th[t].stage \in Statements
TextsOf(req) == IF req \in {"report", "upsert", "update"} THEN Texts ELSE {NoText}

\* The poller does one thing at a time, and updates rows that are there.
MayBegin(t, req) ==
    /\ ~Serving(t)
    /\ process = "poller" => \A u \in Threads : ~Serving(u)
    /\ req = "update" => db.posting # {}

\* A thread takes a request.  visit_salt reads the day once, at its start.
Begin(t) ==
    /\ begun < MaxRequests
    /\ \E req \in RequestsOf(process) : \E x \in TextsOf(req) :
          LET s == FirstStage(req, x)
          IN  /\ MayBegin(t, req)
              /\ sighted' = SightedAfter(req, x, s)
              /\ th' = [th EXCEPT ![t] = At([Idle EXCEPT
                    !.req = req, !.text = x, !.day = day, !.id = begun + 1,
                    !.wrote = 0], s)]
    /\ begun' = begun + 1
    /\ UNCHANGED <<clock, conn, lock, db, index, faults>>

-----------------------------------------------------------------------------
(* _run.                                                                   *)

Ready(t) == Serving(t) /\ lock = NoOne
Retrying(t) == lock = t
Fault(t) == faults < MaxFaults /\ faults' = faults + 1

\* The first attempt is answered; a process with no connection opens one.
Run(t) ==
    /\ Ready(t)
    /\ conn # "dead"
    /\ Answers(t)
    /\ conn' = "live"
    /\ UNCHANGED <<clock, lock, begun, faults>>

\* The connection the call would open first is refused: nothing is retried.
Refused(t) ==
    /\ Ready(t)
    /\ conn = "none"
    /\ Fault(t)
    /\ th' = [th EXCEPT ![t] = At([th[t] EXCEPT !.broke = @ + 1], "error")]
    /\ UNCHANGED <<clock, conn, lock, db, memory, begun>>

\* The connection breaks under the first attempt, which was applied or not.
Breaks(t) ==
    /\ Ready(t)
    /\ conn # "dead"
    /\ Fault(t)
    /\ BreaksInto(t, th[t].stage)
    /\ lock' = t
    /\ conn' = "dead"
    /\ UNCHANGED <<clock, memory, begun>>

\* The connection had died since the last call: the attempt reaches nothing.
BugFindsItDead(t) ==
    /\ Ready(t)
    /\ conn = "dead"
    /\ Fails(t)
    /\ UNCHANGED <<clock, conn, lock, db, memory, begun, faults>>
FindsItDead(t) ==
    /\ Ready(t)
    /\ conn = "dead"
    /\ lock' = t
    /\ UNCHANGED <<clock, conn, th, db, memory, begun, faults>>

\* The second attempt, on a new connection.
Rerun(t) ==
    /\ Retrying(t)
    /\ IF RefusedInsert(t) THEN Fails(t) /\ UNCHANGED <<db, memory>> ELSE Answers(t)
    /\ lock' = NoOne
    /\ conn' = "live"
    /\ UNCHANGED <<clock, begun, faults>>

\* The new connection is refused, or breaks too: the request fails, and the
\* process keeps a connection that its next call will find dead.
BugRerunFails(t) ==
    /\ Retrying(t)
    /\ Fault(t)
    /\ BreaksInto(t, "error")
    /\ UNCHANGED <<clock, conn, lock, memory, begun>>
RerunFails(t) ==
    /\ Retrying(t)
    /\ Fault(t)
    /\ BreaksInto(t, "error")
    /\ lock' = NoOne
    /\ UNCHANGED <<clock, conn, memory, begun>>

-----------------------------------------------------------------------------
\* The server drops a connection no call is using.
Dropped ==
    /\ conn = "live"
    /\ faults < MaxFaults
    /\ faults' = faults + 1
    /\ conn' = "dead"
    /\ UNCHANGED <<clock, lock, th, db, memory, begun>>

\* The process dies and is started again.
Crash ==
    /\ faults < MaxFaults
    /\ faults' = faults + 1
    /\ conn' = "none"
    /\ lock' = NoOne
    /\ th' = [t \in Threads |-> Idle]
    /\ index' = NoIndex
    /\ UNCHANGED <<clock, db, sighted, begun>>

\* No request outlives the day after the one it began in.
Midnight ==
    /\ day < LastDay
    /\ \A t \in Threads : Serving(t) => th[t].day = day
    /\ day' = day + 1
    /\ UNCHANGED <<process, conn, lock, th, db, memory, begun, faults>>

Call(t) == Run(t) \/ Refused(t) \/ Breaks(t) \/ FindsItDead(t)
           \/ Rerun(t) \/ RerunFails(t)

Next ==
    \/ \E t \in Threads : Begin(t) \/ Call(t)
    \/ Dropped
    \/ Crash
    \/ Midnight

Spec == Init /\ [][Next]_vars

-----------------------------------------------------------------------------
(* Properties.                                                             *)

Rows == [who : Nat, text : Texts, day : Days, id : Nat \X Nat]
Locals == [req : Requests, stage : Statements \union Outcomes,
           text : Texts \union {NoText}, day : Days, salt : Nat, copy : SUBSET Texts,
           id : Nat, broke : Nat, wrote : Nat]
Tables == [salts : [Days -> Nat], coined : Nat, visits : SUBSET (Days \X Nat),
           reports : SUBSET Rows, subscribed : SUBSET (1 .. MaxRequests),
           mailed : SUBSET (1 .. MaxRequests), counts : [Days -> Nat],
           posting : SUBSET Texts]

\* Types, and the shape _run keeps: only a thread that is inside a call whose
\* connection is gone holds a lock between two attempts.
TypeOK ==
    /\ process \in {"web", "poller"}
    /\ day \in Days
    /\ conn \in {"none", "live", "dead"}
    /\ lock \in Threads \union {NoOne}
    /\ lock # NoOne => Serving(lock) /\ conn = "dead"
    /\ th \in [Threads -> Locals]
    /\ db \in Tables /\ db.mailed \subseteq db.subscribed
    /\ index \in [loaded : BOOLEAN, has : SUBSET Texts]
    /\ sighted \subseteq Texts
    /\ begun \in 0 .. MaxRequests /\ faults \in 0 .. MaxFaults

\* One UTC day resolves to one salt: whatever handlers race to mint it, and
\* however often their statements run, every visitor hash of a day stored in
\* visits or carried by a request came from the same salt (visit_salt).
OneSaltPerDay ==
    LET Used == db.visits \union
                {<<th[t].day, th[t].salt>> : t \in {u \in Threads : th[u].salt # NoSalt}}
    IN  \A u, v \in Used : u[1] = v[1] => u = v

\* A visitor's reports of one day exceed the cap only by the handlers that
\* were past the check together and by the inserts a broken connection
\* applied twice; the copies of one text are bounded the same way (each check
\* is a statement of its own, before the insert).
RowsBounded ==
    LET Slack == Cardinality(Threads) + faults
    IN  \A r \in db.reports :
          LET Same == {q \in db.reports : q.who = r.who /\ q.day = r.day}
          IN  /\ Cardinality(Same) <= Cap - 1 + Slack
              /\ Cardinality({q \in Same : q.text = r.text}) <= Slack

\* What the once-only retry promises each request, whatever happens to the
\* connection: it fails only if the connection broke or was refused during it
\* and not because an earlier call left a dead one; when it succeeds its
\* write was applied, a second time only across a break; and a signup is never
\* applied twice.
RetryIsSafe ==
    \A t \in Threads :
        /\ th[t].stage = "error" => th[t].broke > 0
        /\ th[t].stage = "ok" => th[t].wrote > 0 \/ th[t].req = "upsert"
        /\ th[t].wrote <=
              (IF th[t].broke > 0 /\ th[t].req # "subscribe" THEN 2 ELSE 1)

\* A sighting the store answered is in its row: whatever the connection does, and
\* although the pipeline rewrites the row behind the index's back, the index never
\* answers "nothing to merge" of an item the row does not have.
SightingsKept == sighted \subseteq db.posting

============================================================================
