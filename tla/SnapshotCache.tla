---------------------------- MODULE SnapshotCache ----------------------------
(***************************************************************************)
(* The read path of the board: web.py's process-wide snapshot of the       *)
(* postings table (postings_snapshot), the companies list derived from it  *)
(* (live_companies), the threads of ThreadingHTTPServer that fill and read *)
(* both caches, and the page (Listings.tsx) that polls the board and       *)
(* numbers its requests.  The table is the set of the writes it has        *)
(* committed; a write is stamped with updated_at = now() when its          *)
(* statement starts and is seen when it commits.  Time runs in ticks; an   *)
(* age counts the ticks since a moment the code took now() at.             *)
(***************************************************************************)
EXTENDS Integers, FiniteSets, FiniteSetsExt

CONSTANTS
  Threads,        \* handler threads, hence requests in flight
  MaxWrites,      \* bound: writes to the table
  Inserts,        \* the writes that add a row (the others change one)
  MaxOpen,        \* processes that write: 1, the poller; 2, a script beside it
  SnapshotTTL,    \* SNAPSHOT_TTL_S, in ticks
  CompaniesTTL,   \* COMPANIES_TTL_S
  PollEvery,      \* the page's setInterval
  Prompt,         \* ticks a request takes unless the store or the network is slow
  MaxWait,        \* bound: ticks a slow request may take
  MaxFaults       \* bound: failed requests, slow ticks, restarts of the web process

Writes == 1..MaxWrites
NoThread == "none"

ASSUME SnapshotAssumption ==
  /\ NoThread \notin Threads
  /\ MaxWrites \in Nat /\ Inserts \subseteq Writes
  /\ MaxOpen \in Nat \ {0}
  /\ {SnapshotTTL, CompaniesTTL, PollEvery, MaxWait} \subseteq Nat \ {0}
  /\ Prompt \in Nat
  /\ MaxFaults \in Nat

VARIABLES
  db,        \* the writes committed: what SELECT * FROM postings returns
  open,      \* the writes stamped and not committed
  writeAge,  \* ticks since a write committed
  snap,      \* _snapshot: its rows, their version, the age of built_at; or empty
  list,      \* _companies_cache
  holder,    \* the thread in _snapshot_lock, or NoThread
  request,   \* what each thread is doing
  newest,    \* the thread of the page's latest request id, or NoThread
  due,       \* ticks since the page's last request
  shown,     \* the rows on the page
  faults

serverVars == <<snap, list, holder, request>>
tableVars == <<db, open, writeAge>>
pageVars == <<newest, due, shown>>
vars == <<tableVars, serverVars, pageVars, faults>>

NoVersion == <<0, 0>>
\* No age beyond these is ever told apart.
AgeCap == SnapshotTTL + CompaniesTTL + MaxWait
BugOlder(age) == age + 1
Older(age) == IF age = AgeCap THEN age ELSE age + 1

Empty == [full |-> FALSE, rows |-> {}, version |-> NoVersion, age |-> 0]
Idle == [pc |-> "idle", kind |-> "board", age |-> 0, version |-> NoVersion, rows |-> {}]

Cache == [full : BOOLEAN, rows : SUBSET Writes, version : Nat \X Nat, age : 0..AgeCap]
Request == [pc : {"idle", "snapshot", "probed", "fold", "reply"},
            kind : {"board", "companies"}, age : 0..MaxWait,
            version : Nat \X Nat, rows : SUBSET Writes]

TypeOK ==
  /\ db \subseteq Writes /\ open \subseteq Writes
  /\ writeAge \in [Writes -> 0..AgeCap]
  /\ {snap, list} \subseteq Cache
  /\ holder \in Threads \cup {NoThread}
  /\ request \in [Threads -> Request]
  /\ newest \in Threads \cup {NoThread}
  /\ due \in 0..PollEvery
  /\ shown \subseteq Writes
  /\ faults \in 0..MaxFaults

Init ==
  /\ db = {} /\ open = {} /\ writeAge = [k \in Writes |-> 0]
  /\ snap = Empty /\ list = Empty /\ holder = NoThread
  /\ request = [h \in Threads |-> Idle]
  /\ newest = NoThread /\ due = PollEvery /\ shown = {}
  /\ faults = 0

(***************************************************************************)
(* The table.  max(updated_at) is the largest stamp among the rows; the    *)
(* row count moves with the inserts.                                       *)
(***************************************************************************)
BugLatest(rows) == IF rows \cap Inserts = {} THEN 0 ELSE Max(rows \cap Inserts)
Latest(rows) == IF rows = {} THEN 0 ELSE Max(rows)
Version(rows) == <<Latest(rows), Cardinality(rows \cap Inserts)>>

StartWrite ==
  /\ Cardinality(open) < MaxOpen
  /\ Cardinality(db \cup open) < MaxWrites
  /\ open' = open \cup {Cardinality(db \cup open) + 1}
  /\ UNCHANGED <<db, writeAge, serverVars, pageVars, faults>>

CommitWrite(k) ==
  /\ k \in open
  /\ open' = open \ {k}
  /\ db' = db \cup {k}
  /\ UNCHANGED <<writeAge, serverVars, pageVars, faults>>

(***************************************************************************)
(* live_companies.  now() is read first, looked up in the cached list, and *)
(* stamps what is stored later; the list is folded from the snapshot       *)
(* outside both locks.                                                     *)
(***************************************************************************)
Ask(h, pc, kind, rows) ==
  /\ request[h].pc = "idle"
  /\ request' = [request EXCEPT
       ![h] = [Idle EXCEPT !.pc = pc, !.kind = kind, !.rows = rows]]

ListFresh == list.full /\ list.age < CompaniesTTL

ListHit(h) ==
  /\ ListFresh
  /\ Ask(h, "reply", "companies", list.rows)
  /\ UNCHANGED <<tableVars, snap, list, holder, pageVars, faults>>

ListMiss(h) ==
  /\ ~ListFresh
  /\ Ask(h, "snapshot", "companies", {})
  /\ UNCHANGED <<tableVars, snap, list, holder, pageVars, faults>>

BugListStamp(h) == 0
ListStamp(h) == request[h].age
StoreList(h) ==
  /\ request[h].pc = "fold"
  /\ list' = [Empty EXCEPT !.full = TRUE, !.rows = request[h].rows, !.age = ListStamp(h)]
  /\ request' = [request EXCEPT ![h].pc = "reply"]
  /\ UNCHANGED <<tableVars, snap, holder, pageVars, faults>>

(***************************************************************************)
(* postings_snapshot: now() before the lock, then under the lock the TTL,  *)
(* the version, and the rows when the version cannot vouch for them.       *)
(***************************************************************************)
Return(h, rows) ==
  request' = [request EXCEPT
    ![h] = [Idle EXCEPT !.pc = IF request[h].kind = "board" THEN "reply" ELSE "fold",
                        !.kind = request[h].kind, !.age = request[h].age,
                        !.rows = rows]]

SnapFresh(h) == snap.full /\ snap.age - request[h].age < SnapshotTTL

SnapHit(h) ==
  /\ request[h].pc = "snapshot" /\ holder = NoThread /\ SnapFresh(h)
  /\ Return(h, snap.rows)
  /\ UNCHANGED <<tableVars, snap, list, holder, pageVars, faults>>

\* (SQLite's store has no version, None, and always reads again.)
BugUnchanged == snap.full
Unchanged == snap.full /\ Version(db) = snap.version

KeepRows(h) ==
  /\ request[h].pc = "snapshot" /\ holder = NoThread /\ ~SnapFresh(h)
  /\ Unchanged
  /\ snap' = [snap EXCEPT !.age = request[h].age]
  /\ Return(h, snap.rows)
  /\ UNCHANGED <<tableVars, list, holder, pageVars, faults>>

ReadVersion(h) ==
  /\ request[h].pc = "snapshot" /\ holder = NoThread /\ ~SnapFresh(h)
  /\ ~Unchanged
  /\ holder' = h
  /\ request' = [request EXCEPT ![h].pc = "probed", ![h].version = Version(db)]
  /\ UNCHANGED <<tableVars, snap, list, pageVars, faults>>

StoredVersion(h) == request[h].version
ReadRows(h) ==
  /\ request[h].pc = "probed"
  /\ snap' = [full |-> TRUE, rows |-> db, version |-> StoredVersion(h),
              age |-> request[h].age]
  /\ holder' = NoThread
  /\ Return(h, db)
  /\ UNCHANGED <<tableVars, list, pageVars, faults>>

(***************************************************************************)
(* The page asks every PollEvery ticks, whatever became of the last        *)
(* request, and takes an answer only from its latest one.                  *)
(***************************************************************************)
Load(h) ==
  /\ due = PollEvery
  /\ Ask(h, "snapshot", "board", {})
  /\ newest' = h
  /\ due' = 0
  /\ UNCHANGED <<tableVars, snap, list, holder, shown, faults>>

Leave(h) ==
  /\ request' = [request EXCEPT ![h] = Idle]
  /\ newest' = IF newest = h THEN NoThread ELSE newest

BugTaken(h) == TRUE
Taken(h) == newest = h

Apply(h) ==
  /\ request[h].pc = "reply" /\ request[h].kind = "board" /\ Taken(h)
  /\ shown' = request[h].rows
  /\ Leave(h)
  /\ UNCHANGED <<tableVars, snap, list, holder, due, faults>>

\* The answer of a superseded request, or of a request for the companies.
Discard(h) ==
  /\ request[h].pc = "reply"
  /\ request[h].kind = "companies" \/ ~Taken(h)
  /\ Leave(h)
  /\ UNCHANGED <<tableVars, snap, list, holder, due, shown, faults>>

(***************************************************************************)
(* A read that raises leaves the lock (with) and the caches as they were,  *)
(* and the page as it is (catch); a restart of the web process empties     *)
(* them.                                                                   *)
(***************************************************************************)
Fail(h) ==
  /\ faults < MaxFaults /\ faults' = faults + 1
  /\ request[h].pc # "idle"
  /\ holder' = IF holder = h THEN NoThread ELSE holder
  /\ Leave(h)
  /\ UNCHANGED <<tableVars, snap, list, due, shown>>

Restart ==
  /\ faults < MaxFaults /\ faults' = faults + 1
  /\ snap' = Empty /\ list' = Empty /\ holder' = NoThread
  /\ request' = [h \in Threads |-> Idle]
  /\ newest' = NoThread
  /\ UNCHANGED <<tableVars, due, shown>>

\* A request still open after Prompt ticks is one of the faults.
Slow == \E h \in Threads : request[h].pc # "idle" /\ request[h].age >= Prompt

Tick ==
  /\ due < PollEvery
  /\ \A h \in Threads : request[h].age < MaxWait
  /\ Slow => faults < MaxFaults
  /\ faults' = IF Slow THEN faults + 1 ELSE faults
  /\ due' = due + 1
  /\ writeAge' = [k \in Writes |-> IF k \in db THEN Older(writeAge[k]) ELSE 0]
  /\ snap' = IF snap.full THEN [snap EXCEPT !.age = Older(@)] ELSE snap
  /\ list' = IF list.full THEN [list EXCEPT !.age = Older(@)] ELSE list
  /\ request' = [h \in Threads |->
       IF request[h].pc = "idle" THEN Idle
       ELSE [request[h] EXCEPT !.age = @ + 1]]
  /\ UNCHANGED <<db, open, holder, newest, shown>>

Serve(h) ==
  \/ SnapHit(h) \/ KeepRows(h) \/ ReadVersion(h) \/ ReadRows(h)
  \/ StoreList(h) \/ Apply(h) \/ Discard(h)

Next ==
  \/ StartWrite \/ Tick \/ Restart
  \/ \E k \in Writes : CommitWrite(k)
  \/ \E h \in Threads : ListHit(h) \/ ListMiss(h) \/ Load(h) \/ Serve(h) \/ Fail(h)

Spec == Init /\ [][Next]_vars

\* Statements end, threads and the page's timer run; a thread waiting for the lock gets it
\* and a request finds a thread, however many others come and go.
FairSpec ==
  /\ Spec
  /\ WF_vars(Tick)
  /\ WF_vars(\E k \in Writes : CommitWrite(k))
  /\ SF_vars(\E h \in Threads : Load(h))
  /\ \A h \in Threads : SF_vars(Serve(h))

-----------------------------------------------------------------------------
(***************************************************************************)
(* Properties                                                              *)
(***************************************************************************)
Stale(h, bound) == \E k \in db \ request[h].rows : writeAge[k] >= request[h].age + bound

\* An answer is at most one TTL older than the request, and the list of companies at most
\* both, however long the thread waited for a lock and whoever else filled the caches.
ServedFresh ==
  \A h \in Threads : request[h].pc = "reply" =>
    ~Stale(h, SnapshotTTL + IF request[h].kind = "board" THEN 0 ELSE CompaniesTTL)

\* "max(updated_at) is a valid change token for read caches" (store_postgres.py): while
\* the version has not moved, the rows kept are the rows of the table.
TokenIsValid == (snap.full /\ snap.version = Version(db)) => snap.rows = db

\* "a slow stale response can never overwrite newer data" (README.md): the page never
\* shows less than it has shown, through failures and restarts of the web process.  The
\* page is that of Listings.tsx; the one built into web.py does not number its requests.
BoardNeverGoesBack == [][shown \subseteq shown']_vars

\* What the poller wrote reaches an open page: whenever it pauses, the page catches up.
BoardCatchesUp == []<>(db \subseteq shown)
=============================================================================
