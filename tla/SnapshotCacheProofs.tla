------------------------- MODULE SnapshotCacheProofs -------------------------
(***************************************************************************)
(* Proofs about SnapshotCache, for every value of its constants; the       *)
(* change token and the age of an answer for one writing process.          *)
(***************************************************************************)
EXTENDS SnapshotCache, NatLemmas, TLAPS

\* The page's rows are in the snapshot once there is one, a board request that has
\* its rows took them from it, and the page's latest request brings no fewer than
\* the page shows: it began after the answer the page shows was taken.
Board ==
  /\ shown \subseteq db /\ snap.rows \subseteq db
  /\ snap.full => shown \subseteq snap.rows
  /\ \A h \in Threads : request[h].pc = "fold" => request[h].kind = "companies"
  /\ \A h \in Threads : request[h].pc = "reply" /\ request[h].kind = "board" =>
       /\ snap.full /\ request[h].rows \subseteq snap.rows
       /\ newest = h => shown \subseteq request[h].rows

BoardInv == TypeOK /\ Board

\* One writer: the committed writes are the first ones, the one open is the next.
InOrder == \E m \in 0..MaxWrites : db = 1..m /\ open \subseteq {m + 1}

\* The version of the snapshot is no later than its rows, and was read before them.
TokenBehind ==
  /\ snap.full => \E k \in 0..MaxWrites : snap.rows = 1..k /\ snap.version[1] <= k
  /\ \A h \in Threads : request[h].pc = "probed" => request[h].version[1] \in db \cup {0}

\* What a set of rows of some age lacks was committed since.
Lacks(rows, age) == \A k \in db \ rows : writeAge[k] < age
Reply(h, kind) == request[h].pc = "reply" /\ request[h].kind = kind
Aged ==
  /\ \A k \in Writes \ db : writeAge[k] = 0
  /\ snap.full => Lacks(snap.rows, snap.age + 1)
  /\ list.full => Lacks(list.rows, list.age + SnapshotTTL)
  /\ \A h \in Threads : request[h].pc = "fold" \/ Reply(h, "board") =>
       Lacks(request[h].rows, request[h].age + SnapshotTTL)
  /\ \A h \in Threads : Reply(h, "companies") =>
       Lacks(request[h].rows, request[h].age + SnapshotTTL + CompaniesTTL)

FreshInv == BoardInv /\ InOrder /\ TokenBehind /\ Aged

-----------------------------------------------------------------------------
(***************************************************************************)
(* Types.                                                                  *)
(***************************************************************************)
\* The version of a set of rows is a pair of naturals.
LEMMA VersionType ==
  ASSUME NEW rows \in SUBSET Writes
  PROVE  Version(rows) \in Nat \X Nat
<1>1. IsFiniteSet(Writes) /\ Writes \subseteq 0..MaxWrites /\ MaxWrites \in Nat
  <2>1. MaxWrites \in Nat
    BY SnapshotAssumption
  <2>2. IsFiniteSet(1..MaxWrites) /\ 1..MaxWrites \subseteq 0..MaxWrites
    BY <2>1, FS_Interval
  <2> QED BY <2>1, <2>2 DEF Writes
<1>2. Cardinality(rows \cap Inserts) \in Nat
  BY <1>1, FS_Subset, FS_CardinalityType
<1>3. rows # {} => Max(rows) \in rows
  <2>1. SUFFICES ASSUME rows # {} PROVE Max(rows) \in rows
    OBVIOUS
  <2>2. rows \in SUBSET (0..MaxWrites)
    BY <1>1
  <2>3. \E m \in rows : \A n \in rows : n <= m
    BY <1>1, <2>1, <2>2, GreatestNat
  <2>4. \E m \in rows : \A n \in rows : m >= n
    BY <2>2, <2>3
  <2> QED BY <2>4 DEF Max
<1>4. Latest(rows) \in Nat
  <2>1. CASE rows = {}
    BY <2>1 DEF Latest
  <2>2. CASE rows # {}
    <3>1. Max(rows) \in 0..MaxWrites
      BY <1>1, <1>3, <2>2
    <3> HIDE DEF Max
    <3> QED BY <2>2, <3>1 DEF Latest
  <2> QED BY <2>1, <2>2
<1> QED BY <1>2, <1>4 DEF Version

\* The caches and requests the actions make are caches and requests.
LEMMA EmptyTypes == Empty \in Cache /\ Idle \in Request
<1>1. AgeCap \in Nat
  BY SnapshotAssumption DEF AgeCap
<1> QED BY <1>1, SnapshotAssumption DEF Empty, Idle, Cache, Request, NoVersion

\* The cap on ages is a natural number that no bound on a wait exceeds.
LEMMA AgesFit == AgeCap \in Nat /\ 0..MaxWait \subseteq 0..AgeCap
BY SnapshotAssumption DEF AgeCap

\* Asking, and having one's rows, make the request that follows.
LEMMA AskedRequest ==
  ASSUME request \in [Threads -> Request], NEW h \in Threads,
         NEW pc \in {"snapshot", "reply"}, NEW kind \in {"board", "companies"},
         NEW rows \in SUBSET Writes, Ask(h, pc, kind, rows)
  PROVE  /\ request[h].pc = "idle"
         /\ request' \in [Threads -> Request]
         /\ request'[h].pc = pc /\ request'[h].kind = kind
         /\ request'[h].rows = rows /\ request'[h].age = 0
         /\ \A g \in Threads \ {h} : request'[g] = request[g]
<1> DEFINE r == [Idle EXCEPT !.pc = pc, !.kind = kind, !.rows = rows]
<1>1. r \in Request /\ r.pc = pc /\ r.kind = kind /\ r.rows = rows /\ r.age = 0
  <2>1. Idle \in Request /\ Idle.age = 0
    BY EmptyTypes DEF Idle
  <2> QED BY <2>1 DEF Request
<1>2. request[h].pc = "idle" /\ request' = [request EXCEPT ![h] = r]
  BY DEF Ask
<1> HIDE DEF r
<1> QED BY <1>1, <1>2

\* A read that returns its rows goes on to its reply, or to folding them; no other
\* thread moves.
LEMMA ReturnedRequest ==
  ASSUME request \in [Threads -> Request], NEW h \in Threads,
         NEW rows \in SUBSET Writes, Return(h, rows)
  PROVE  /\ request' \in [Threads -> Request]
         /\ request'[h].pc = (IF request[h].kind = "board" THEN "reply" ELSE "fold")
         /\ request'[h].kind = request[h].kind /\ request'[h].age = request[h].age
         /\ request'[h].rows = rows
         /\ \A g \in Threads \ {h} : request'[g] = request[g]
<1> DEFINE p == IF request[h].kind = "board" THEN "reply" ELSE "fold"
           r == [Idle EXCEPT !.pc = p, !.kind = request[h].kind,
                             !.age = request[h].age, !.rows = rows]
<1>1. request[h].kind \in {"board", "companies"} /\ request[h].age \in 0..MaxWait
      /\ p \in {"reply", "fold"}
  BY DEF Request
<1>2. r \in Request /\ r.pc = p /\ r.kind = request[h].kind /\ r.age = request[h].age
      /\ r.rows = rows
  <2> HIDE DEF p
  <2> QED BY <1>1, SnapshotAssumption DEF Idle, Request, NoVersion
<1>3. request' = [request EXCEPT ![h] = r]
  BY DEF Return
<1> HIDE DEF r
<1> QED BY <1>2, <1>3

\* A write that begins keeps every variable's type.
LEMMA StartWriteType ==
  ASSUME TypeOK, StartWrite
  PROVE  TypeOK'
<1>1. Cardinality(db \cup open) \in Nat
  <2>1. IsFiniteSet(1..MaxWrites)
    BY SnapshotAssumption, FS_Interval
  <2>2. db \cup open \in SUBSET (1..MaxWrites)
    BY DEF TypeOK, Writes
  <2> QED BY <2>1, <2>2, FS_Subset, FS_CardinalityType
<1>2. Cardinality(db \cup open) + 1 \in Writes
  BY <1>1, SnapshotAssumption DEF StartWrite, Writes
<1> QED BY <1>2 DEF StartWrite, TypeOK, serverVars, pageVars

\* An age that grows stays within the cap.
LEMMA OlderType == \A age \in 0..AgeCap : Older(age) \in 0..AgeCap
BY AgesFit DEF Older

\* A tick keeps every variable's type.
LEMMA TickType ==
  ASSUME TypeOK, Tick
  PROVE  TypeOK'
<1>1. snap \in Cache /\ list \in Cache /\ request \in [Threads -> Request]
      /\ writeAge \in [Writes -> 0..AgeCap] /\ AgeCap \in Nat
  BY AgesFit DEF TypeOK
<1>2. writeAge' \in [Writes -> 0..AgeCap]
  BY <1>1, OlderType DEF Tick
<1>3. snap' \in Cache
  BY <1>1, OlderType DEF Tick, Cache
<1>4. list' \in Cache
  BY <1>1, OlderType DEF Tick, Cache
<1>5. request' \in [Threads -> Request]
  <2>1. ASSUME NEW h \in Threads
        PROVE  /\ Idle \in Request
               /\ [request[h] EXCEPT !.age = @ + 1] \in Request
    <3>1. request[h].age < MaxWait /\ request[h] \in Request /\ MaxWait \in Nat
      BY <1>1, SnapshotAssumption DEF Tick
    <3> QED BY <3>1, EmptyTypes DEF Request
  <2> QED BY <2>1 DEF Tick
<1>6. due' \in 0..PollEvery /\ faults' \in 0..MaxFaults
  BY SnapshotAssumption DEF Tick, TypeOK
<1> QED BY <1>2, <1>3, <1>4, <1>5, <1>6 DEF Tick, TypeOK

\* A step of a handler thread keeps every variable's type.
LEMMA ServeType ==
  ASSUME TypeOK, NEW h \in Threads, Serve(h)
  PROVE  TypeOK'
<1>1. snap \in Cache /\ list \in Cache /\ request \in [Threads -> Request] /\ db \subseteq Writes
      /\ request[h] \in Request
  BY DEF TypeOK
<1>2. snap.rows \in SUBSET Writes /\ request[h].age \in 0..AgeCap
      /\ Version(db) \in Nat \X Nat
  BY <1>1, AgesFit, VersionType DEF Cache, Request
<1>3. CASE SnapHit(h)
  <2>1. request' \in [Threads -> Request]
    BY <1>1, <1>2, <1>3, ReturnedRequest DEF SnapHit
  <2> QED BY <1>3, <2>1 DEF SnapHit, TypeOK, tableVars, pageVars
<1>4. CASE KeepRows(h)
  <2>1. request' \in [Threads -> Request]
    BY <1>1, <1>2, <1>4, ReturnedRequest DEF KeepRows
  <2>2. snap' \in Cache
    BY <1>1, <1>2, <1>4 DEF KeepRows, Cache
  <2> QED BY <1>4, <2>1, <2>2 DEF KeepRows, TypeOK, tableVars, pageVars
<1>5. CASE ReadVersion(h)
  <2>1. request' \in [Threads -> Request]
    BY <1>1, <1>2, <1>5 DEF ReadVersion, Request
  <2> QED BY <1>5, <2>1 DEF ReadVersion, TypeOK, tableVars, pageVars
<1>6. CASE ReadRows(h)
  <2>1. request' \in [Threads -> Request]
    BY <1>1, <1>2, <1>6, ReturnedRequest DEF ReadRows
  <2>2. snap' \in Cache
    BY <1>1, <1>2, <1>6 DEF ReadRows, Cache, Request, StoredVersion
  <2> QED BY <1>6, <2>1, <2>2 DEF ReadRows, TypeOK, tableVars, pageVars
<1>7. CASE StoreList(h)
  <2>1. request' \in [Threads -> Request]
    BY <1>1, <1>7 DEF StoreList, Request
  <2>2. list' \in Cache
    BY <1>1, <1>2, <1>7, EmptyTypes DEF StoreList, Cache, Request, ListStamp
  <2> QED BY <1>7, <2>1, <2>2 DEF StoreList, TypeOK, tableVars, pageVars
<1>8. CASE Apply(h)
  <2>1. request' \in [Threads -> Request] /\ request[h].rows \subseteq Writes
    BY <1>1, <1>8, EmptyTypes DEF Apply, Leave, Request
  <2> QED BY <1>8, <2>1 DEF Apply, Leave, TypeOK, tableVars
<1>9. CASE Discard(h)
  <2>1. request' \in [Threads -> Request]
    BY <1>1, <1>9, EmptyTypes DEF Discard, Leave
  <2> QED BY <1>9, <2>1 DEF Discard, Leave, TypeOK, tableVars
<1> QED BY <1>3, <1>4, <1>5, <1>6, <1>7, <1>8, <1>9 DEF Serve

\* Every step keeps every variable's type.
LEMMA StepType ==
  ASSUME TypeOK, [Next]_vars
  PROVE  TypeOK'
<1>1. snap \in Cache /\ list \in Cache /\ request \in [Threads -> Request] /\ db \subseteq Writes
      /\ list.rows \in SUBSET Writes
  BY DEF TypeOK, Cache
<1>2. ASSUME NEW k \in Writes, CommitWrite(k) PROVE TypeOK'
  BY <1>2 DEF CommitWrite, TypeOK, serverVars, pageVars
<1>3. ASSUME NEW h \in Threads, ListHit(h) PROVE TypeOK'
  <2>1. request' \in [Threads -> Request]
    BY <1>1, <1>3, AskedRequest DEF ListHit
  <2> QED BY <1>3, <2>1 DEF ListHit, TypeOK, tableVars, pageVars
<1>4. ASSUME NEW h \in Threads, ListMiss(h) PROVE TypeOK'
  <2>1. request' \in [Threads -> Request]
    BY <1>1, <1>4, AskedRequest DEF ListMiss
  <2> QED BY <1>4, <2>1 DEF ListMiss, TypeOK, tableVars, pageVars
<1>5. ASSUME NEW h \in Threads, Load(h) PROVE TypeOK'
  <2>1. request' \in [Threads -> Request]
    BY <1>1, <1>5, AskedRequest DEF Load
  <2> QED BY <1>5, <2>1, SnapshotAssumption DEF Load, TypeOK, tableVars
<1>6. ASSUME NEW h \in Threads, Fail(h) PROVE TypeOK'
  BY <1>1, <1>6, EmptyTypes, SnapshotAssumption DEF Fail, Leave, TypeOK, tableVars
<1>7. CASE Restart
  BY <1>1, <1>7, EmptyTypes, SnapshotAssumption DEF Restart, TypeOK, tableVars
<1>8. CASE UNCHANGED vars
  BY <1>8 DEF vars, TypeOK, tableVars, serverVars, pageVars
<1> QED BY <1>2, <1>3, <1>4, <1>5, <1>6, <1>7, <1>8, StartWriteType, TickType, ServeType
        DEF Next

-----------------------------------------------------------------------------
(***************************************************************************)
(* The page never goes back.                                               *)
(***************************************************************************)
LEMMA ServeBoard ==
  ASSUME BoardInv, NEW h \in Threads, Serve(h)
  PROVE  Board'
<1>1. /\ snap \in Cache /\ request \in [Threads -> Request] /\ db \subseteq Writes /\ Board
      /\ request[h] \in Request /\ snap.rows \in SUBSET Writes
  BY DEF BoardInv, TypeOK, Cache
<1>2. \A g \in Threads : request[g].kind \in {"board", "companies"}
  BY <1>1 DEF Request
<1>3. CASE SnapHit(h) \/ KeepRows(h)
  <2>1. Return(h, snap.rows) /\ snap.full /\ snap'.full = snap.full /\ snap'.rows = snap.rows
        /\ UNCHANGED <<db, shown, newest>>
    BY <1>1, <1>3 DEF SnapHit, SnapFresh, KeepRows, Unchanged, tableVars, pageVars, Cache
  <2>2. /\ request'[h].pc = (IF request[h].kind = "board" THEN "reply" ELSE "fold")
        /\ request'[h].kind = request[h].kind /\ request'[h].rows = snap.rows
        /\ \A g \in Threads \ {h} : request'[g] = request[g]
    BY <1>1, <2>1, ReturnedRequest
  <2> QED BY <1>1, <1>2, <2>1, <2>2 DEF Board
<1>4. CASE ReadVersion(h)
  <2>1. /\ request'[h].pc = "probed"
        /\ \A g \in Threads \ {h} : request'[g] = request[g]
    BY <1>1, <1>4 DEF ReadVersion, Request
  <2> QED BY <1>1, <1>4, <2>1 DEF ReadVersion, tableVars, pageVars, Board
<1>5. CASE ReadRows(h)
  <2>1. Return(h, db) /\ snap'.full /\ snap'.rows = db /\ UNCHANGED <<db, shown, newest>>
    BY <1>5 DEF ReadRows, tableVars, pageVars
  <2>2. /\ request'[h].pc = (IF request[h].kind = "board" THEN "reply" ELSE "fold")
        /\ request'[h].kind = request[h].kind /\ request'[h].rows = db
        /\ \A g \in Threads \ {h} : request'[g] = request[g]
    BY <1>1, <2>1, ReturnedRequest
  <2> QED BY <1>1, <1>2, <2>1, <2>2 DEF Board
<1>6. CASE StoreList(h)
  <2>1. /\ request'[h].kind = "companies"
        /\ \A g \in Threads \ {h} : request'[g] = request[g]
        /\ request'[h].pc = "reply"
    BY <1>1, <1>6 DEF StoreList, Request, Board
  <2> QED BY <1>1, <1>6, <2>1 DEF StoreList, tableVars, pageVars, Board
<1>7. CASE Apply(h)
  <2>1. /\ \A g \in Threads \ {h} : request'[g] = request[g]
        /\ request'[h].pc = "idle" /\ newest' = NoThread
        /\ shown' = request[h].rows /\ UNCHANGED <<db, snap>>
    BY <1>1, <1>7 DEF Apply, Leave, Idle, Taken, tableVars
  <2>2. snap.full /\ request[h].rows \subseteq snap.rows
    BY <1>1, <1>7 DEF Apply, Board
  <2> QED BY <1>1, <2>1, <2>2, SnapshotAssumption DEF Board
<1>8. CASE Discard(h)
  <2>1. /\ \A g \in Threads \ {h} : request'[g] = request[g]
        /\ request'[h].pc = "idle" /\ newest' \in {newest, NoThread}
        /\ UNCHANGED <<db, snap, shown>>
    BY <1>1, <1>8 DEF Discard, Leave, Idle, tableVars
  <2> QED BY <1>1, <2>1, SnapshotAssumption DEF Board
<1> QED BY <1>3, <1>4, <1>5, <1>6, <1>7, <1>8 DEF Serve

\* Every step leaves the board's cache one of the contents the table once had, and none
\* older than the board showed.
LEMMA StepBoard ==
  ASSUME BoardInv, [Next]_vars
  PROVE  Board'
<1>1. /\ snap \in Cache /\ request \in [Threads -> Request] /\ db \subseteq Writes /\ Board
      /\ list.rows \in SUBSET Writes
  BY DEF BoardInv, TypeOK, Cache
<1>2. CASE StartWrite
  BY <1>1, <1>2 DEF StartWrite, serverVars, pageVars, Board
<1>3. ASSUME NEW k \in Writes, CommitWrite(k) PROVE Board'
  BY <1>1, <1>3 DEF CommitWrite, serverVars, pageVars, Board
<1>4. ASSUME NEW h \in Threads, ListHit(h) \/ ListMiss(h) PROVE Board'
  <2>1. /\ request'[h].pc \in {"reply", "snapshot"} /\ request'[h].kind = "companies"
        /\ \A g \in Threads \ {h} : request'[g] = request[g]
    BY <1>1, <1>4, AskedRequest DEF ListHit, ListMiss
  <2> QED BY <1>1, <1>4, <2>1 DEF ListHit, ListMiss, tableVars, pageVars, Board
<1>5. ASSUME NEW h \in Threads, Load(h) PROVE Board'
  <2>1. /\ request'[h].pc = "snapshot" /\ newest' = h
        /\ \A g \in Threads \ {h} : request'[g] = request[g]
    BY <1>1, <1>5, AskedRequest DEF Load
  <2> QED BY <1>1, <1>5, <2>1 DEF Load, tableVars, Board
<1>6. ASSUME NEW h \in Threads, Fail(h) PROVE Board'
  <2>1. /\ \A g \in Threads \ {h} : request'[g] = request[g]
        /\ request'[h].pc = "idle" /\ newest' \in {newest, NoThread}
    BY <1>1, <1>6 DEF Fail, Leave, Idle
  <2> QED BY <1>1, <1>6, <2>1, SnapshotAssumption DEF Fail, tableVars, Board
<1>7. CASE Restart
  BY <1>1, <1>7 DEF Restart, Empty, Idle, tableVars, Board
<1>8. CASE Tick
  <2>1. /\ snap'.full = snap.full /\ snap'.rows = snap.rows
        /\ UNCHANGED <<db, newest, shown>>
    BY <1>1, <1>8 DEF Tick, Cache
  <2>2. \A g \in Threads : request'[g].pc # "idle" =>
          /\ request'[g].pc = request[g].pc /\ request'[g].kind = request[g].kind
          /\ request'[g].rows = request[g].rows
    <3>1. ASSUME NEW g \in Threads
          PROVE  /\ request[g].pc = "idle" => request'[g].pc = "idle"
                 /\ request[g].pc # "idle" => /\ request'[g].pc = request[g].pc
                                              /\ request'[g].kind = request[g].kind
                                              /\ request'[g].rows = request[g].rows
      BY <1>1, <1>8 DEF Tick, Idle, Request
    <3> QED BY <3>1
  <2> QED BY <1>1, <2>1, <2>2 DEF Board
<1>9. CASE UNCHANGED vars
  BY <1>1, <1>9 DEF vars, tableVars, serverVars, pageVars, Board
<1> QED BY <1>2, <1>3, <1>4, <1>5, <1>6, <1>7, <1>8, <1>9, ServeBoard DEF Next

\* The board's invariant holds at the start.
LEMMA InitBoard == Init => BoardInv
<1> SUFFICES ASSUME Init PROVE BoardInv
  OBVIOUS
<1>1. TypeOK
  BY AgesFit, EmptyTypes, SnapshotAssumption DEF Init, TypeOK
<1>2. Board
  BY DEF Init, Board, Empty, Idle
<1> QED BY <1>1, <1>2 DEF BoardInv

\* What the page shows only changes when it takes the answer of its latest request.
LEMMA ShownGrows ==
  ASSUME BoardInv, [Next]_vars
  PROVE  shown \subseteq shown'
<1>1. ASSUME NEW h \in Threads, Apply(h) PROVE shown \subseteq shown'
  BY <1>1 DEF Apply, Taken, BoardInv, Board
<1>2. CASE (\E h \in Threads : Apply(h)) \/ shown' = shown
  BY <1>1, <1>2
<1>3. \A h \in Threads : Serve(h) => Apply(h) \/ shown' = shown
  BY DEF Serve, SnapHit, KeepRows, ReadVersion, ReadRows, StoreList, Discard, pageVars
<1>4. (\E h \in Threads : Apply(h)) \/ shown' = shown
  BY <1>3 DEF Next, vars, pageVars, StartWrite, CommitWrite, Tick, Restart, ListHit, ListMiss,
              Load, Fail
<1> QED BY <1>2, <1>4

\* The board's inductive invariant, with any number of writers.
THEOREM BoardInvariance == Spec => []BoardInv
<1>1. BoardInv /\ [Next]_vars => BoardInv'
  BY StepType, StepBoard DEF BoardInv
<1> QED BY <1>1, InitBoard, PTL DEF Spec

\* The caches and the requests in flight keep their types (web.py's caches).
THEOREM TypeCorrect == Spec => []TypeOK
<1>1. BoardInv => TypeOK
  BY DEF BoardInv
<1> QED BY <1>1, BoardInvariance, PTL

\* The page never shows less than it has shown, however many writers the table has,
\* whichever requests fail, and when the web process restarts (Listings.tsx).
THEOREM NeverGoesBack == Spec => BoardNeverGoesBack
<1>1. BoardInv /\ [Next]_vars => [shown \subseteq shown']_vars
  BY ShownGrows
<1> QED BY <1>1, BoardInvariance, PTL DEF Spec, BoardNeverGoesBack

-----------------------------------------------------------------------------
(***************************************************************************)
(* The change token and the age of an answer, with the one writer the      *)
(* deployment has: the poller.                                             *)
(***************************************************************************)
\* The latest of the first m writes is the m-th.
LEMMA LatestOfFirst ==
  ASSUME NEW m \in Nat
  PROVE  Latest(1..m) = m
<1>1. CASE m = 0
  BY <1>1 DEF Latest
<1>2. CASE m # 0
  <2>1. m \in 1..m /\ \A n \in 1..m : m >= n
    BY <1>2
  <2>2. \A x \in 1..m : (\A n \in 1..m : x >= n) => x = m
    BY <2>1
  <2>3. Max(1..m) = m
    BY <2>1, <2>2 DEF Max
  <2> HIDE DEF Max
  <2> QED BY <2>1, <2>3 DEF Latest
<1> QED BY <1>1, <1>2

\* A write starts only when the one before it has committed, and is the next.
LEMMA StartInOrder ==
  ASSUME MaxOpen = 1, TypeOK, InOrder, StartWrite
  PROVE  InOrder'
<1>1. PICK m \in 0..MaxWrites : db = 1..m /\ open \subseteq {m + 1}
  BY DEF InOrder
<1>2. m \in Nat /\ MaxWrites \in Nat
  BY SnapshotAssumption
<1>3. open = {}
  <2>1. SUFFICES ASSUME open # {} PROVE FALSE
    OBVIOUS
  <2>2. open = {m + 1}
    BY <1>1, <2>1
  <2>3. Cardinality(open) = 1
    BY <2>2, FS_Singleton
  <2> QED BY <2>3 DEF StartWrite
<1>4. Cardinality(db \cup open) = m
  <2>1. db \cup open = 1..m
    BY <1>1, <1>3
  <2>2. Cardinality(1..m) = IF 1 > m THEN 0 ELSE m - 1 + 1
    BY <1>2, FS_Interval
  <2>3. Cardinality(1..m) = m
    BY <1>2, <2>2
  <2> QED BY <2>1, <2>3
<1>5. open' = {m + 1} /\ db' = 1..m
  BY <1>1, <1>3, <1>4 DEF StartWrite
<1> QED BY <1>5 DEF InOrder

\* With one writer at a time, the write that commits is the one after all committed ones.
LEMMA CommitInOrder ==
  ASSUME TypeOK, InOrder, NEW k \in Writes, CommitWrite(k)
  PROVE  InOrder' /\ k \notin db
<1>1. PICK m \in 0..MaxWrites : db = 1..m /\ open \subseteq {m + 1}
  BY DEF InOrder
<1>2. m \in Nat /\ MaxWrites \in Nat
  BY SnapshotAssumption
<1>3. k = m + 1 /\ k \in 1..MaxWrites
  BY <1>1 DEF CommitWrite, Writes
<1>4. m + 1 \in 0..MaxWrites
  BY <1>2, <1>3
<1>5. db' = 1..(m + 1) /\ open' = {}
  BY <1>1, <1>2, <1>3 DEF CommitWrite
<1>6. \E n \in 0..MaxWrites : db' = 1..n /\ open' \subseteq {n + 1}
  BY <1>4, <1>5
<1> QED BY <1>1, <1>2, <1>3, <1>6 DEF InOrder

\* Only those two touch the table.
LEMMA TableStep ==
  ASSUME [Next]_vars
  PROVE  StartWrite \/ (\E k \in Writes : CommitWrite(k)) \/ UNCHANGED <<db, open>>
<1>1. \A h \in Threads : Serve(h) => UNCHANGED <<db, open>>
  BY DEF Serve, SnapHit, KeepRows, ReadVersion, ReadRows, StoreList, Apply, Discard, tableVars
<1> QED BY <1>1 DEF Next, vars, tableVars, Tick, Restart, ListHit, ListMiss, Load, Fail

\* With one writer at a time, the committed writes stay the first ones.
LEMMA InOrderStep ==
  ASSUME MaxOpen = 1, TypeOK, InOrder, [Next]_vars
  PROVE  InOrder'
<1>1. CASE UNCHANGED <<db, open>>
  BY <1>1 DEF InOrder
<1> QED BY <1>1, StartInOrder, CommitInOrder, TableStep

\* While the version has not moved, the snapshot has every row.
LEMMA TokenVouches == BoardInv /\ InOrder /\ TokenBehind => TokenIsValid
<1> SUFFICES ASSUME BoardInv, InOrder, TokenBehind, snap.full, snap.version = Version(db)
             PROVE  snap.rows = db
  BY DEF TokenIsValid
<1>1. PICK m \in 0..MaxWrites : db = 1..m
  BY DEF InOrder
<1>2. PICK k \in 0..MaxWrites : snap.rows = 1..k /\ snap.version[1] <= k
  BY DEF TokenBehind
<1>3. m \in Nat /\ k \in Nat
  BY SnapshotAssumption
<1>4. snap.version[1] = m
  BY <1>1, <1>3, LatestOfFirst DEF Version
<1>5. snap.rows \subseteq db
  BY DEF BoardInv, Board
<1> QED BY <1>1, <1>2, <1>3, <1>4, <1>5

\* Reading the rows after the version keeps the version behind the rows.
LEMMA ServeTokenBehind ==
  ASSUME BoardInv, InOrder, TokenBehind, NEW h \in Threads, Serve(h)
  PROVE  TokenBehind'
<1>1. /\ snap \in Cache /\ request \in [Threads -> Request] /\ db \subseteq Writes
      /\ request[h] \in Request /\ snap.rows \in SUBSET Writes
  BY DEF BoardInv, TypeOK, Cache
<1>2. PICK m \in 0..MaxWrites : db = 1..m
  BY DEF InOrder
<1>3. m \in Nat
  BY SnapshotAssumption
<1>4. CASE SnapHit(h) \/ KeepRows(h)
  <2>1. Return(h, snap.rows) /\ snap'.full = snap.full /\ snap'.rows = snap.rows
        /\ snap'.version = snap.version /\ db' = db
    BY <1>1, <1>4 DEF SnapHit, KeepRows, tableVars, Cache
  <2>2. /\ request'[h].pc \in {"reply", "fold"}
        /\ \A g \in Threads \ {h} : request'[g] = request[g]
    BY <1>1, <2>1, ReturnedRequest
  <2> QED BY <2>1, <2>2 DEF TokenBehind
<1>5. CASE ReadVersion(h)
  <2>1. /\ request'[h].version = Version(db) /\ UNCHANGED <<db, snap>>
        /\ \A g \in Threads \ {h} : request'[g] = request[g]
    BY <1>1, <1>5 DEF ReadVersion, Request, tableVars
  <2>2. request'[h].version[1] = m
    BY <1>2, <1>3, <2>1, LatestOfFirst DEF Version
  <2>3. m \in db \cup {0}
    BY <1>2, <1>3
  <2>4. \A g \in Threads : request'[g].pc = "probed" => request'[g].version[1] \in db \cup {0}
    <3>1. ASSUME NEW g \in Threads, g # h, request'[g].pc = "probed"
          PROVE  request'[g].version[1] \in db \cup {0}
      BY <2>1, <3>1 DEF TokenBehind
    <3> QED BY <2>2, <2>3, <3>1
  <2> QED BY <2>1, <2>4 DEF TokenBehind
<1>6. CASE ReadRows(h)
  <2>1. /\ Return(h, db) /\ snap'.rows = db /\ snap'.version = request[h].version /\ db' = db
        /\ request[h].pc = "probed"
    BY <1>6 DEF ReadRows, StoredVersion, tableVars
  <2>2. /\ request'[h].pc \in {"reply", "fold"}
        /\ \A g \in Threads \ {h} : request'[g] = request[g]
    BY <1>1, <2>1, ReturnedRequest
  <2>3. snap'.rows = 1..m /\ snap'.version[1] <= m
    <3>1. request[h].version[1] \in (1..m) \cup {0}
      BY <1>2, <2>1 DEF TokenBehind
    <3>2. \A v \in (1..m) \cup {0} : v <= m
      BY <1>3
    <3> QED BY <1>2, <2>1, <3>1, <3>2
  <2> QED BY <2>1, <2>2, <2>3 DEF TokenBehind
<1>7. CASE StoreList(h) \/ Apply(h) \/ Discard(h)
  <2>1. /\ request'[h].pc \in {"idle", "reply"}
        /\ \A g \in Threads \ {h} : request'[g] = request[g]
        /\ UNCHANGED <<db, snap>>
    BY <1>1, <1>7 DEF StoreList, Apply, Discard, Leave, Idle, Request, tableVars
  <2> QED BY <2>1 DEF TokenBehind
<1> QED BY <1>4, <1>5, <1>6, <1>7 DEF Serve

\* Every step keeps the snapshot's version no later than its rows.
LEMMA TokenBehindStep ==
  ASSUME BoardInv, InOrder, TokenBehind, [Next]_vars
  PROVE  TokenBehind'
<1>1. /\ snap \in Cache /\ request \in [Threads -> Request]
      /\ list.rows \in SUBSET Writes
  BY DEF BoardInv, TypeOK, Cache
<1>2. CASE StartWrite \/ UNCHANGED vars
  BY <1>2 DEF StartWrite, vars, tableVars, serverVars, TokenBehind
<1>3. ASSUME NEW k \in Writes, CommitWrite(k) PROVE TokenBehind'
  BY <1>3 DEF CommitWrite, serverVars, TokenBehind
<1>4. ASSUME NEW h \in Threads, ListHit(h) \/ ListMiss(h) \/ Load(h) PROVE TokenBehind'
  <2>1. /\ request'[h].pc \in {"reply", "snapshot"}
        /\ \A g \in Threads \ {h} : request'[g] = request[g]
    BY <1>1, <1>4, AskedRequest DEF ListHit, ListMiss, Load
  <2> QED BY <1>4, <2>1 DEF ListHit, ListMiss, Load, tableVars, TokenBehind
<1>5. ASSUME NEW h \in Threads, Fail(h) PROVE TokenBehind'
  <2>1. /\ \A g \in Threads \ {h} : request'[g] = request[g]
        /\ request'[h].pc = "idle"
    BY <1>1, <1>5 DEF Fail, Leave, Idle
  <2> QED BY <1>5, <2>1 DEF Fail, tableVars, TokenBehind
<1>6. CASE Restart
  BY <1>6 DEF Restart, Empty, Idle, TokenBehind
<1>7. CASE Tick
  <2>1. /\ snap'.full = snap.full /\ snap'.rows = snap.rows /\ snap'.version = snap.version
        /\ db' = db
    BY <1>1, <1>7 DEF Tick, Cache
  <2>2. ASSUME NEW g \in Threads, request'[g].pc = "probed"
        PROVE  request[g].pc = "probed" /\ request'[g].version = request[g].version
    BY <1>1, <1>7, <2>2 DEF Tick, Idle, Request
  <2> QED BY <2>1, <2>2 DEF TokenBehind
<1> QED BY <1>2, <1>3, <1>4, <1>5, <1>6, <1>7, ServeTokenBehind DEF Next

\* Each answer, and each cache, takes the age of what it was made from.
LEMMA ServeAged ==
  ASSUME BoardInv, TokenIsValid, Aged, NEW h \in Threads, Serve(h)
  PROVE  Aged'
<1>1. /\ snap \in Cache /\ list \in Cache /\ request \in [Threads -> Request]
      /\ request[h] \in Request /\ snap.rows \in SUBSET Writes /\ db \subseteq Writes
      /\ writeAge \in [Writes -> 0..AgeCap]
  BY DEF BoardInv, TypeOK, Cache
<1>2. /\ snap.age \in Nat /\ list.age \in Nat /\ \A g \in Threads : request[g].age \in Nat
      /\ \A k \in Writes : writeAge[k] \in Nat
      /\ {SnapshotTTL, CompaniesTTL} \subseteq Nat
      /\ \A g \in Threads : request[g].kind \in {"board", "companies"}
  BY <1>1, AgesFit, SnapshotAssumption DEF Cache, Request
<1>3. UNCHANGED <<db, writeAge>>
  BY DEF Serve, SnapHit, KeepRows, ReadVersion, ReadRows, StoreList, Apply, Discard, tableVars
<1>4. CASE SnapHit(h) \/ KeepRows(h) \/ ReadRows(h)
  <2> DEFINE rows == request'[h].rows
  <2>1. /\ request'[h].pc = (IF request[h].kind = "board" THEN "reply" ELSE "fold")
        /\ request'[h].kind = request[h].kind /\ request'[h].age = request[h].age
        /\ \A g \in Threads \ {h} : request'[g] = request[g]
        /\ rows = IF ReadRows(h) THEN db ELSE snap.rows
    BY <1>1, <1>4, ReturnedRequest DEF SnapHit, KeepRows, ReadRows
  <2>2. Lacks(rows, request[h].age + SnapshotTTL)
    <3>1. CASE ReadRows(h)
      BY <2>1, <3>1 DEF Lacks
    <3>2. CASE KeepRows(h)
      BY <2>1, <3>2 DEF KeepRows, Unchanged, TokenIsValid, Lacks
    <3>3. CASE SnapHit(h) /\ ~ReadRows(h)
      BY <1>1, <1>2, <2>1, <3>3 DEF SnapHit, SnapFresh, Aged, Lacks
    <3> QED BY <1>4, <3>1, <3>2, <3>3
  <2>3. snap'.full => Lacks(snap'.rows, snap'.age + 1)
    <3>1. CASE ReadRows(h)
      BY <3>1 DEF ReadRows, Lacks
    <3>2. CASE KeepRows(h)
      BY <1>1, <3>2 DEF KeepRows, Unchanged, TokenIsValid, Lacks, Cache
    <3>3. CASE SnapHit(h)
      BY <3>3 DEF SnapHit, Aged
    <3> QED BY <1>4, <3>1, <3>2, <3>3
  <2>4. list' = list
    BY <1>4 DEF SnapHit, KeepRows, ReadRows
  <2> HIDE DEF rows
  <2>5. request'[h].rows = rows
    BY DEF rows
  <2> QED BY <1>1, <1>2, <1>3, <2>1, <2>2, <2>3, <2>4, <2>5 DEF Aged, Lacks, Reply
<1>5. CASE StoreList(h)
  <2>1. /\ request'[h].rows = request[h].rows /\ request'[h].age = request[h].age
        /\ request[h].pc = "fold" /\ request'[h].pc = "reply"
        /\ request'[h].kind = request[h].kind /\ request[h].kind = "companies"
        /\ \A g \in Threads \ {h} : request'[g] = request[g]
    BY <1>1, <1>5 DEF StoreList, Request, BoardInv, Board
  <2>2. /\ list'.rows = request[h].rows /\ list'.age = request[h].age /\ snap' = snap
    BY <1>5 DEF StoreList, ListStamp, Empty
  <2>3. Lacks(request[h].rows, request[h].age + SnapshotTTL)
    BY <2>1 DEF Aged
  <2>4. Lacks(request[h].rows, request[h].age + SnapshotTTL + CompaniesTTL)
    BY <1>1, <1>2, <2>3 DEF Lacks
  <2> QED BY <1>3, <2>1, <2>2, <2>3, <2>4 DEF Aged, Lacks, Reply
<1>6. CASE ReadVersion(h) \/ Apply(h) \/ Discard(h)
  <2>1. /\ request'[h].pc \in {"idle", "probed"}
        /\ \A g \in Threads \ {h} : request'[g] = request[g]
        /\ UNCHANGED <<list, snap>>
    BY <1>1, <1>6 DEF ReadVersion, Apply, Discard, Leave, Idle, Request
  <2> QED BY <1>3, <2>1 DEF Aged, Lacks, Reply
<1> QED BY <1>4, <1>5, <1>6 DEF Serve

\* What is not committed has no age, so a commit ages nothing.
LEMMA CommitAged ==
  ASSUME BoardInv, InOrder, Aged, NEW k \in Writes, CommitWrite(k)
  PROVE  Aged'
<1>1. k \notin db /\ db' = db \cup {k} /\ UNCHANGED <<writeAge, serverVars>>
  BY CommitInOrder DEF CommitWrite, BoardInv
<1>2. /\ snap \in Cache /\ list \in Cache /\ request \in [Threads -> Request]
      /\ {SnapshotTTL, CompaniesTTL} \subseteq Nat \ {0}
  BY SnapshotAssumption DEF BoardInv, TypeOK
<1>3. /\ snap.age \in Nat /\ list.age \in Nat /\ \A g \in Threads : request[g].age \in Nat
  BY <1>2, AgesFit, SnapshotAssumption DEF Cache, Request
<1>4. writeAge[k] = 0
  BY <1>1 DEF Aged
<1>5. ASSUME NEW rows, NEW age \in Nat \ {0}, Lacks(rows, age) PROVE Lacks(rows, age)'
  BY <1>1, <1>4, <1>5 DEF Lacks
<1>6. snap.full => Lacks(snap.rows, snap.age + 1)'
  BY <1>1, <1>2, <1>3, <1>4 DEF Aged, Lacks, serverVars
<1>7. list.full => Lacks(list.rows, list.age + SnapshotTTL)'
  BY <1>1, <1>2, <1>3, <1>4 DEF Aged, Lacks, serverVars
<1>8. \A g \in Threads : request[g].pc = "fold" \/ Reply(g, "board") =>
        Lacks(request[g].rows, request[g].age + SnapshotTTL)'
  BY <1>1, <1>2, <1>3, <1>4 DEF Aged, Lacks, serverVars
<1>9. \A g \in Threads : Reply(g, "companies") =>
        Lacks(request[g].rows, request[g].age + SnapshotTTL + CompaniesTTL)'
  BY <1>1, <1>2, <1>3, <1>4 DEF Aged, Lacks, serverVars
<1>10. \A j \in Writes \ db' : writeAge'[j] = 0
  BY <1>1 DEF Aged
<1> QED BY <1>1, <1>6, <1>7, <1>8, <1>9, <1>10 DEF Aged, Reply, serverVars

\* A tick ages the writes and what was made from them alike.
LEMMA TickAged ==
  ASSUME BoardInv, Aged, Tick
  PROVE  Aged'
<1>1. /\ snap \in Cache /\ list \in Cache /\ request \in [Threads -> Request]
      /\ writeAge \in [Writes -> 0..AgeCap] /\ db \subseteq Writes
      /\ {SnapshotTTL, CompaniesTTL} \subseteq Nat \ {0} /\ AgeCap \in Nat
  BY AgesFit, SnapshotAssumption DEF BoardInv, TypeOK
<1>2. /\ snap.age \in 0..AgeCap /\ list.age \in 0..AgeCap
      /\ \A g \in Threads : request[g].age \in Nat
      /\ \A k \in Writes : writeAge[k] \in 0..AgeCap
  BY <1>1, SnapshotAssumption DEF Cache, Request
<1>3. /\ db' = db /\ \A k \in Writes \ db : writeAge'[k] = 0
      /\ \A k \in db : writeAge'[k] \in Nat /\ writeAge'[k] <= AgeCap
                       /\ writeAge'[k] <= writeAge[k] + 1
  <2>1. /\ db' = db /\ \A k \in Writes \ db : writeAge'[k] = 0
        /\ \A k \in db : writeAge'[k] = Older(writeAge[k])
    BY <1>1 DEF Tick
  <2>2. \A age \in 0..AgeCap : Older(age) \in Nat /\ Older(age) <= AgeCap /\ Older(age) <= age + 1
    BY <1>1 DEF Older
  <2> QED BY <1>1, <1>2, <2>1, <2>2
<1>4. snap'.full = snap.full /\ snap'.rows = snap.rows
      /\ (snap.full => snap'.age = Older(snap.age))
  BY <1>1 DEF Tick, Cache
<1>5. list'.full = list.full /\ list'.rows = list.rows
      /\ (list.full => list'.age = Older(list.age))
  BY <1>1 DEF Tick, Cache
<1>6. ASSUME NEW g \in Threads
      PROVE  /\ request[g].pc = "idle" => request'[g].pc = "idle"
             /\ request[g].pc # "idle" => /\ request'[g].pc = request[g].pc
                                          /\ request'[g].kind = request[g].kind
                                          /\ request'[g].rows = request[g].rows
                                          /\ request'[g].age = request[g].age + 1
  BY <1>1 DEF Tick, Idle, Request
<1>7. ASSUME NEW rows, NEW age \in 0..AgeCap, NEW d \in Nat \ {0}, Lacks(rows, age + d)
      PROVE  \A k \in db' \ rows : writeAge'[k] < Older(age) + d
  BY <1>1, <1>2, <1>3, <1>7 DEF Lacks, Older
<1>8. ASSUME NEW rows, NEW age \in Nat, NEW d \in Nat, Lacks(rows, age + d)
      PROVE  \A k \in db' \ rows : writeAge'[k] < age + 1 + d
  BY <1>1, <1>2, <1>3, <1>8 DEF Lacks
<1>9. snap'.full => \A k \in db' \ snap'.rows : writeAge'[k] < snap'.age + 1
  BY <1>2, <1>4, <1>7 DEF Aged
<1>10. list'.full => \A k \in db' \ list'.rows : writeAge'[k] < list'.age + SnapshotTTL
  BY <1>1, <1>2, <1>5, <1>7 DEF Aged
<1>11. ASSUME NEW g \in Threads, request'[g].pc = "fold" \/ Reply(g, "board")'
       PROVE  \A k \in db' \ request'[g].rows :
                writeAge'[k] < request'[g].age + SnapshotTTL
  <2>1. request[g].pc = "fold" \/ Reply(g, "board")
    BY <1>6, <1>11 DEF Reply
  <2> QED BY <1>1, <1>2, <1>6, <1>8, <2>1 DEF Aged, Reply
<1>12. ASSUME NEW g \in Threads, Reply(g, "companies")'
       PROVE  \A k \in db' \ request'[g].rows :
                writeAge'[k] < request'[g].age + SnapshotTTL + CompaniesTTL
  <2>1. Reply(g, "companies")
    BY <1>6, <1>12 DEF Reply
  <2>2. Lacks(request[g].rows, request[g].age + SnapshotTTL + CompaniesTTL)
    BY <2>1 DEF Aged
  <2>3. /\ request'[g].rows = request[g].rows /\ request'[g].age = request[g].age + 1
    BY <1>6, <2>1 DEF Reply
  <2> QED BY <1>1, <1>2, <1>3, <2>2, <2>3 DEF Lacks
<1> QED BY <1>3, <1>9, <1>10, <1>11, <1>12 DEF Aged, Lacks

\* Every step keeps what each copy of the rows lacks younger than the copy may be old.
LEMMA AgedStep ==
  ASSUME BoardInv, InOrder, TokenBehind, Aged, [Next]_vars
  PROVE  Aged'
<1>1. /\ snap \in Cache /\ list \in Cache /\ request \in [Threads -> Request]
      /\ list.rows \in SUBSET Writes /\ list.age \in Nat /\ db \subseteq Writes
      /\ writeAge \in [Writes -> 0..AgeCap]
  BY AgesFit DEF BoardInv, TypeOK, Cache
<1>2. \A k \in Writes : writeAge[k] \in Nat
  BY <1>1, AgesFit
<1>3. CASE StartWrite \/ UNCHANGED vars
  BY <1>3 DEF StartWrite, vars, tableVars, serverVars, Aged, Lacks, Reply
<1>4. ASSUME NEW h \in Threads, ListHit(h) PROVE Aged'
  <2>1. /\ request'[h].pc = "reply" /\ request'[h].kind = "companies"
        /\ request'[h].rows = list.rows /\ request'[h].age = 0
        /\ \A g \in Threads \ {h} : request'[g] = request[g]
    BY <1>1, <1>4, AskedRequest DEF ListHit
  <2>2. Lacks(list.rows, 0 + SnapshotTTL + CompaniesTTL)
    <3>1. Lacks(list.rows, list.age + SnapshotTTL) /\ list.age < CompaniesTTL
      BY <1>4 DEF ListHit, ListFresh, Aged
    <3>2. list.age + SnapshotTTL < SnapshotTTL + CompaniesTTL
      BY <1>1, <3>1, SnapshotAssumption
    <3> QED BY <1>1, <1>2, <3>1, <3>2, SnapshotAssumption DEF Lacks
  <2>3. UNCHANGED <<db, writeAge, snap, list>>
    BY <1>4 DEF ListHit, tableVars
  <2> QED BY <2>1, <2>2, <2>3 DEF Aged, Lacks, Reply
<1>5. ASSUME NEW h \in Threads, ListMiss(h) \/ Load(h) PROVE Aged'
  <2>1. /\ request'[h].pc = "snapshot"
        /\ \A g \in Threads \ {h} : request'[g] = request[g]
    BY <1>1, <1>5, AskedRequest DEF ListMiss, Load
  <2> QED BY <1>5, <2>1 DEF ListMiss, Load, tableVars, Aged, Lacks, Reply
<1>6. ASSUME NEW h \in Threads, Fail(h) PROVE Aged'
  <2>1. /\ \A g \in Threads \ {h} : request'[g] = request[g]
        /\ request'[h].pc = "idle"
    BY <1>1, <1>6 DEF Fail, Leave, Idle
  <2> QED BY <1>6, <2>1 DEF Fail, tableVars, Aged, Lacks, Reply
<1>7. CASE Restart
  BY <1>7 DEF Restart, Empty, Idle, tableVars, Aged, Lacks, Reply
<1> QED BY <1>3, <1>4, <1>5, <1>6, <1>7, CommitAged, TickAged, ServeAged, TokenVouches DEF Next

\* What is said of the token and of ages holds at the start.
LEMMA InitFresh == Init => InOrder /\ TokenBehind /\ Aged
<1> SUFFICES ASSUME Init PROVE InOrder /\ TokenBehind /\ Aged
  OBVIOUS
<1>1. InOrder
  <2>1. 0 \in 0..MaxWrites
    BY SnapshotAssumption
  <2>2. db = 1..0 /\ open \subseteq {0 + 1}
    BY DEF Init
  <2> QED BY <2>1, <2>2 DEF InOrder
<1>2. TokenBehind /\ Aged
  BY DEF Init, TokenBehind, Aged, Reply, Empty, Idle
<1> QED BY <1>1, <1>2

\* The inductive invariant of what is served, for one writer at a time.
THEOREM FreshInvariance ==
  ASSUME MaxOpen = 1
  PROVE  Spec => []FreshInv
<1>1. Init => FreshInv
  BY InitBoard, InitFresh DEF FreshInv
<1>2. FreshInv /\ [Next]_vars => FreshInv'
  BY StepType, StepBoard, InOrderStep, TokenBehindStep, AgedStep DEF FreshInv, BoardInv
<1> QED BY <1>1, <1>2, PTL DEF Spec

\* With one writing process max(updated_at) is a valid change token: while the
\* version has not moved, the snapshot's rows are the table's (store_postgres.py).
THEOREM TokenHolds ==
  ASSUME MaxOpen = 1
  PROVE  Spec => []TokenIsValid
<1>1. FreshInv => TokenIsValid
  BY TokenVouches DEF FreshInv
<1> QED BY <1>1, FreshInvariance, PTL

\* With one writing process an answer is at most one TTL older than its request, the
\* list of companies at most both, however long a thread waited for a lock (web.py).
THEOREM FreshEnough ==
  ASSUME MaxOpen = 1
  PROVE  Spec => []ServedFresh
<1>1. FreshInv => ServedFresh
  <2> SUFFICES ASSUME FreshInv, NEW h \in Threads, request[h].pc = "reply",
                      NEW k \in db \ request[h].rows
               PROVE  ~(writeAge[k] >= request[h].age +
                          (SnapshotTTL + IF request[h].kind = "board" THEN 0 ELSE CompaniesTTL))
    BY DEF ServedFresh, Stale
  <2>1. /\ request \in [Threads -> Request] /\ db \subseteq Writes
        /\ writeAge \in [Writes -> 0..AgeCap]
    BY DEF FreshInv, BoardInv, TypeOK
  <2>2. /\ request[h].kind \in {"board", "companies"} /\ request[h].age \in Nat
        /\ writeAge[k] \in Nat /\ {SnapshotTTL, CompaniesTTL} \subseteq Nat
    BY <2>1, AgesFit, SnapshotAssumption DEF Request
  <2>3. CASE request[h].kind = "board"
    BY <2>2, <2>3 DEF FreshInv, Aged, Reply, Lacks
  <2>4. CASE request[h].kind = "companies"
    BY <2>2, <2>4 DEF FreshInv, Aged, Reply, Lacks
  <2> QED BY <2>2, <2>3, <2>4
<1> QED BY <1>1, FreshInvariance, PTL
=============================================================================
