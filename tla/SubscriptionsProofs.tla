------------------------- MODULE SubscriptionsProofs -------------------------
(***************************************************************************)
(* Proofs about Subscriptions, for every value of its constants.           *)
(***************************************************************************)
EXTENDS Subscriptions, NatLemmas, TLAPS

(***************************************************************************)
(* The inductive invariant.                                                *)
(***************************************************************************)
\* What the poller holds at each point of its cycle.
Holding ==
  /\ poller \in {"stamp", "count"} => queue # {}
  /\ poller \in {"alert", "tally"} => todo # {} /\ queue = {}
  /\ poller \notin {"alert", "tally"} => todo = {}
  /\ poller = "count" => table[Min(queue)].stamp # Unstamped

\* Before the channel works nothing was ever delivered, nor is about to be.
Silent ==
  mail # "on" =>
    /\ queue = {} /\ alerted = {}
    /\ \A s \in Subs : mailed[s] = 0 /\ today[s] = 0 /\ late[s] = 0

\* The row whose message the poller has sent and not yet put on record.
Confirming(s) == poller \in {"stamp", "count"} /\ s = Min(queue)
Alerting(s) == poller = "tally" /\ s = Min(todo)
InHand(s) == Confirming(s) \/ Alerting(s)

\* A verified row was mailed its token and is kept; only such rows are alerted.
OptedIn ==
  /\ \A s \in Subs : table[s].verified => mailed[s] > 0 /\ table[s].stored
  /\ \A s \in todo \cup alerted : table[s].verified

\* What a row was delivered today is on its counter, but for the message in hand and
\* one for each crash.
Room(s) == IF InHand(s) THEN 1 ELSE 0

Counting ==
  \A s \in Subs : sends[s] + Room(s) <= DailyCap /\ today[s] <= sends[s] + Room(s) + crashes

\* The request's share of the messages, which it can use once.
Share(s) == IF web[s] \in {"none", "added"} THEN 0 ELSE 1

\* The poller has used its share of row s: it is sending, or will not see the row again.
Settled(s) == Confirming(s) \/ (s \notin queue /\ table[s].stamp # Unstamped)

Done(s) == IF Settled(s) THEN 1 ELSE 0

Mailing == \A s \in Subs : mailed[s] <= Share(s) + Done(s) + crashes

\* A row that was unsubscribed is inactive for good.
Gone == \A s \in left : ~table[s].active

\* The cycle still holds a copy of row s it may send to.
Owed(s) == s \in queue \cup todo /\ ~InHand(s)
Spent(s) == IF Owed(s) THEN 0 ELSE 1

Quiet ==
  \A s \in Subs : (table[s].active => late[s] = 0) /\ late[s] <= Share(s) + Spent(s)

IInv == TypeOK /\ Holding /\ Silent /\ OptedIn /\ Counting /\ Mailing /\ Gone /\ Quiet

-----------------------------------------------------------------------------
(***************************************************************************)
(* What the operators return.                                              *)
(***************************************************************************)
\* The poller works on a row it holds.
LEMMA FirstOf ==
  ASSUME NEW S \in SUBSET Subs, S # {}
  PROVE  Min(S) \in S
<1>1. S \in SUBSET Nat
  BY SubscriptionsAssumption
<1>2. PICK m \in S : \A n \in S : m <= n
  BY <1>1, LeastNat
<1> QED BY <1>2 DEF Min

\* The store's statements write back a table, and change the one field they name.
LEMMA StoreWrites ==
  ASSUME NEW t \in [Subs -> Row], NEW s \in Subs
  PROVE  /\ Deactivated(t, s) \in [Subs -> Row]
         /\ Stamped(t, s) \in [Subs -> Row]
         /\ Verified(t, s) \in [Subs -> Row]
         /\ [t EXCEPT ![s].stored = TRUE] \in [Subs -> Row]
<1>1. Expiry \in Nat /\ 0 \in 0..Expiry
  BY SubscriptionsAssumption
<1>2. t[s] \in Row
  OBVIOUS
<1>3. /\ [t[s] EXCEPT !.active = FALSE] \in Row
      /\ [t[s] EXCEPT !.stamp = IF @ = Unstamped THEN 0 ELSE @] \in Row
      /\ [t[s] EXCEPT !.verified = TRUE] \in Row
      /\ [t[s] EXCEPT !.stored = TRUE] \in Row
  BY <1>1, <1>2 DEF Row
<1> HIDE DEF Row
<1> QED BY <1>3 DEF Deactivated, Stamped, Verified

\* A row that ages, or is pruned, is a row.
LEMMA RowAges ==
  ASSUME NEW r \in Row, NEW gone \in BOOLEAN
  PROVE  /\ [r EXCEPT !.stamp = IF @ \in 0..(Expiry - 1) THEN @ + 1 ELSE @] \in Row
         /\ [r EXCEPT !.stored = @ /\ ~gone] \in Row
<1>1. Expiry \in Nat
  BY SubscriptionsAssumption
<1>2. r.stamp \in 0..(Expiry - 1) => r.stamp + 1 \in 0..Expiry
  BY <1>1
<1> QED BY <1>1, <1>2 DEF Row

\* A window that slides, or takes a hit, or is forgotten, is a window.
LEMMA WindowSlides ==
  ASSUME NEW h \in [0..(Window - 1) -> Nat]
  PROVE  /\ OlderHits(h) \in [0..(Window - 1) -> Nat]
         /\ [h EXCEPT ![0] = @ + 1] \in [0..(Window - 1) -> Nat]
<1>1. Window \in Nat \ {0}
  BY SubscriptionsAssumption
<1> QED BY <1>1 DEF OlderHits

Windows == [Processes -> [Addresses -> [0..(Window - 1) -> Nat]]]

\* The steps of the limiters leave every process with its windows.
LEMMA LimiterTypes ==
  ASSUME hits \in Windows
  PROVE  /\ \A p \in Processes, s \in Subs : Hit(p, s) => hits' \in Windows
         /\ \A P \in SUBSET Processes : Forget(P) => hits' \in Windows
         /\ [p \in Processes |-> [a \in Addresses |-> OlderHits(hits[p][a])]] \in Windows
         /\ [p \in Processes |-> NoHits] \in Windows
<1> DEFINE W == [0..(Window - 1) -> Nat]
<1>0. NoHits \in [Addresses -> W]
  BY DEF NoHits
<1>1. \A h \in W : OlderHits(h) \in W /\ [h EXCEPT ![0] = @ + 1] \in W
  BY WindowSlides
<1> HIDE DEF W
<1>2. hits \in [Processes -> [Addresses -> W]] /\ Windows = [Processes -> [Addresses -> W]]
  BY DEF Windows, W
<1>3. ASSUME NEW p \in Processes, NEW s \in Subs, Hit(p, s) PROVE hits' \in Windows
  <2>1. AddressOf[s] \in Addresses
    BY SubscriptionsAssumption
  <2>2. hits' = [hits EXCEPT ![p] = [hits[p] EXCEPT ![AddressOf[s]] =
                   [hits[p][AddressOf[s]] EXCEPT ![0] = @ + 1]]]
    BY <1>3 DEF Hit
  <2>3. [hits[p][AddressOf[s]] EXCEPT ![0] = @ + 1] \in W
    BY <1>1, <1>2, <2>1
  <2> QED BY <1>2, <2>1, <2>2, <2>3
<1>4. ASSUME NEW P \in SUBSET Processes, Forget(P) PROVE hits' \in Windows
  BY <1>0, <1>2, <1>4 DEF Forget
<1>5. [p \in Processes |-> [a \in Addresses |-> OlderHits(hits[p][a])]] \in Windows
  BY <1>1, <1>2
<1> QED BY <1>0, <1>2, <1>3, <1>4, <1>5

-----------------------------------------------------------------------------
(***************************************************************************)
(* Types.                                                                  *)
(***************************************************************************)
\* A message accepted for a row is one more, late or not.
LEMMA LateType ==
  ASSUME late \in [Subs -> Nat], NEW s \in Subs, Late(s)
  PROVE  late' \in [Subs -> Nat]
BY DEF Late

\* One more message is one more.
LEMMA OneMoreMessage ==
  ASSUME NEW f \in [Subs -> Nat], NEW s \in Subs
  PROVE  [f EXCEPT ![s] = @ + 1] \in [Subs -> Nat]
OBVIOUS

\* The request and its subscriber keep every type.
LEMMA WebType ==
  ASSUME TypeOK, NEW s \in Subs,
         Subscribe(s) \/ Request(s) \/ Click(s) \/ Unsubscribe(s)
  PROVE  TypeOK'
<1> USE DEF TypeOK, inbox
<1>1. CASE Subscribe(s)
  BY <1>1, StoreWrites DEF Subscribe
<1>2. CASE WebSkip(s)
  BY <1>2 DEF WebSkip
<1>3. CASE WebConfirm(s)
  <2>1. hits' \in Windows
    BY <1>3, LimiterTypes DEF WebConfirm, Windows, Processes
  <2>2. late' \in [Subs -> Nat]
    <3>1. CASE Late(s)
      BY <3>1, LateType
    <3>2. CASE late' = late
      BY <3>2
    <3> QED BY <1>3, <3>1, <3>2 DEF WebConfirm
  <2>3. mailed' \in [Subs -> Nat]
    <3>1. mailed' = mailed \/ mailed' = [mailed EXCEPT ![s] = @ + 1]
      BY <1>3 DEF WebConfirm
    <3>2. [mailed EXCEPT ![s] = @ + 1] \in [Subs -> Nat]
      BY OneMoreMessage
    <3> QED BY <3>1, <3>2
  <2> QED BY <1>3, <2>1, <2>2, <2>3 DEF WebConfirm, Windows
<1>4. CASE WebStamp(s)
  BY <1>4, StoreWrites DEF WebStamp
<1>5. CASE Click(s)
  BY <1>5, StoreWrites DEF Click
<1>6. CASE Unsubscribe(s)
  BY <1>6, StoreWrites DEF Unsubscribe
<1> QED BY <1>1, <1>2, <1>3, <1>4, <1>5, <1>6 DEF Request

\* The poller's confirmations keep every type.
LEMMA BacklogType ==
  ASSUME TypeOK, Holding, Backlog
  PROVE  TypeOK'
<1> USE DEF TypeOK, inbox
<1>1. CASE Prune
  <2>1. \A s \in Subs : [table[s] EXCEPT !.stored = @ /\ ~Expired(s)] \in Row
    <3> TAKE s \in Subs
    <3>1. (~Expired(s)) \in BOOLEAN /\ Expired(s) \in BOOLEAN
      BY DEF Expired, Row
    <3> QED BY <3>1, RowAges
  <2>2. table' \in [Subs -> Row]
    BY <1>1, <2>1 DEF Prune
  <2> QED BY <1>1, <2>2 DEF Prune
<1>2. CASE ReadBacklog
  BY <1>2 DEF ReadBacklog, PendingConfirmations
<1>3. ASSUME NEW s \in Subs, ConfirmSkip(s) PROVE TypeOK'
  BY <1>3 DEF ConfirmSkip
<1>4. ASSUME NEW s \in Subs, TryConfirm(s) PROVE hits' \in Windows
  BY <1>4, LimiterTypes DEF TryConfirm, Windows, Processes
<1>5. ASSUME NEW s \in Subs, ConfirmAccepted(s) PROVE TypeOK'
  <2>1. hits' \in Windows
    BY <1>4, <1>5 DEF ConfirmAccepted
  <2>2. late' \in [Subs -> Nat] /\ mailed' \in [Subs -> Nat] /\ today' \in [Subs -> Nat]
    BY <1>5, LateType DEF ConfirmAccepted
  <2> QED BY <1>5, <2>1, <2>2 DEF ConfirmAccepted, Windows
<1>6. ASSUME NEW s \in Subs, ConfirmRefused(s) PROVE TypeOK'
  <2>1. hits' \in Windows
    BY <1>4, <1>6 DEF ConfirmRefused
  <2>2. table' \in [Subs -> Row]
    <3>1. Deactivated(table, s) \in [Subs -> Row]
      BY StoreWrites
    <3> QED BY <1>6, <3>1 DEF ConfirmRefused
  <2> QED BY <1>6, <2>1, <2>2 DEF ConfirmRefused, Windows
<1>7. CASE ConfirmStamp
  <2>1. Min(queue) \in Subs
    BY <1>7, FirstOf DEF ConfirmStamp, Holding
  <2> QED BY <1>7, <2>1, StoreWrites DEF ConfirmStamp
<1>8. CASE ConfirmCount
  <2>1. Min(queue) \in Subs
    BY <1>8, FirstOf DEF ConfirmCount, Holding
  <2>2. Counted(Min(queue)) \in [Subs -> Nat]
    BY <2>1 DEF Counted
  <2> QED BY <1>8, <2>2 DEF ConfirmCount
<1> QED BY <1>1, <1>2, <1>3, <1>5, <1>6, <1>7, <1>8 DEF Backlog

\* The poller's alerts keep every type.
LEMMA AlertsType ==
  ASSUME TypeOK, Alerts
  PROVE  TypeOK'
<1> USE DEF TypeOK, inbox
<1>1. CASE FanOut
  <2>1. Matching \subseteq Subs
    BY SubscriptionsAssumption
  <2> QED BY <1>1, <2>1 DEF FanOut
<1>2. ASSUME NEW s \in Subs, AlertSkip(s) PROVE TypeOK'
  BY <1>2 DEF AlertSkip
<1>3. ASSUME NEW s \in Subs, Alert(s) PROVE TypeOK'
  <2>1. table' \in [Subs -> Row]
    <3>1. Deactivated(table, s) \in [Subs -> Row]
      BY StoreWrites
    <3> QED BY <1>3, <3>1 DEF Alert
  <2>2. late' \in [Subs -> Nat]
    <3>1. CASE Late(s)
      BY <3>1, LateType
    <3>2. CASE late' = late
      BY <3>2
    <3> QED BY <1>3, <3>1, <3>2 DEF Alert
  <2>3. today' \in [Subs -> Nat]
    <3>1. today' = today \/ today' = [today EXCEPT ![s] = @ + 1]
      BY <1>3 DEF Alert
    <3>2. [today EXCEPT ![s] = @ + 1] \in [Subs -> Nat]
      BY OneMoreMessage
    <3> QED BY <3>1, <3>2
  <2>4. alerted' \subseteq Subs
    BY <1>3 DEF Alert
  <2> QED BY <1>3, <2>1, <2>2, <2>3, <2>4 DEF Alert
<1>4. ASSUME NEW s \in Subs, AlertCount(s) PROVE TypeOK'
  <2>1. Counted(s) \in [Subs -> Nat]
    BY DEF Counted
  <2> QED BY <1>4, <2>1 DEF AlertCount
<1> QED BY <1>1, <1>2, <1>3, <1>4 DEF Alerts

\* Time, crashes and deployments keep every type.
LEMMA OtherType ==
  ASSUME TypeOK, Tick \/ NewDay \/ PollerCrash \/ WebCrash \/ TurnOn
  PROVE  TypeOK'
<1> USE DEF TypeOK, inbox
<1>1. CASE Tick
  <2>1. table' \in [Subs -> Row]
    BY <1>1, RowAges DEF Tick
  <2>2. hits' \in Windows
    BY <1>1, LimiterTypes DEF Tick, Windows
  <2> QED BY <1>1, <2>1, <2>2 DEF Tick, Windows
<1>2. CASE NewDay
  BY <1>2 DEF NewDay
<1>3. ASSUME NEW P \in SUBSET Processes, Forget(P) PROVE hits' \in Windows
  BY <1>3, LimiterTypes DEF Windows
<1>4. CASE PollerCrash
  <2>1. hits' \in Windows
    BY <1>3, <1>4 DEF PollerCrash, Processes
  <2> QED BY <1>4, <2>1 DEF PollerCrash, StopPoller, Windows
<1>5. StopWeb => web' \in [Subs -> {"none", "added", "accepted", "done", "lost"}]
  BY DEF StopWeb
<1>6. CASE WebCrash
  <2>1. hits' \in Windows
    BY <1>3, <1>6 DEF WebCrash, Processes
  <2> QED BY <1>5, <1>6, <2>1 DEF WebCrash, Windows
<1>7. CASE TurnOn
  <2>1. hits' \in Windows
    BY <1>3, <1>7 DEF TurnOn
  <2> QED BY <1>5, <1>7, <2>1 DEF TurnOn, StopPoller, Windows
<1> QED BY <1>1, <1>2, <1>4, <1>6, <1>7

\* Every step keeps every type.
LEMMA StepType ==
  ASSUME TypeOK, Holding, [Next]_vars
  PROVE  TypeOK'
<1>1. CASE UNCHANGED vars
  BY <1>1 DEF TypeOK, vars
<1> QED BY <1>1, WebType, BacklogType, AlertsType, OtherType DEF Next

-----------------------------------------------------------------------------
(***************************************************************************)
(* What a step may make of a row.                                          *)
(***************************************************************************)
\* q is r after a step: never active again, never unstamped, verified for good once it
\* is, and then kept; verified first by a click only.
Follows(r, q, clicked) ==
  /\ q.active => r.active
  /\ r.verified => q.verified
  /\ q.verified => r.verified \/ clicked
  /\ r.stored /\ q.verified => q.stored
  /\ r.stamp # Unstamped => q.stamp # Unstamped

\* Each way of changing one row.
LEMMA RowChanges ==
  ASSUME NEW r \in Row, NEW gone \in BOOLEAN, r.verified => ~gone
  PROVE  /\ Follows(r, r, FALSE)
         /\ Follows(r, [r EXCEPT !.active = FALSE], FALSE)
         /\ Follows(r, [r EXCEPT !.stored = TRUE], FALSE)
         /\ Follows(r, [r EXCEPT !.verified = TRUE], TRUE)
         /\ Follows(r, [r EXCEPT !.stamp = IF @ = Unstamped THEN 0 ELSE @], FALSE)
         /\ Follows(r, [r EXCEPT !.stored = @ /\ ~gone], FALSE)
         /\ Follows(r, [r EXCEPT !.stamp = IF @ \in 0..(Expiry - 1) THEN @ + 1 ELSE @], FALSE)
<1>1. Expiry \in Nat
  BY SubscriptionsAssumption
<1>2. \A n \in 0..(Expiry - 1) : n + 1 # -1
  BY <1>1
<1> QED BY <1>1, <1>2 DEF Follows, Row, Unstamped

\* The store's statements change a row this way, or leave it alone.
LEMMA StatementChanges ==
  ASSUME table \in [Subs -> Row], NEW s \in Subs, NEW u \in Subs
  PROVE  /\ Follows(table[u], table[u], FALSE)
         /\ Follows(table[u], Deactivated(table, s)[u], FALSE)
         /\ Follows(table[u], [table EXCEPT ![s].stored = TRUE][u], FALSE)
         /\ Follows(table[u], Verified(table, s)[u], u = s)
         /\ Follows(table[u], Stamped(table, s)[u], FALSE)
<1> DEFINE r == table[u]
<1>1. r \in Row /\ (r.verified => ~FALSE)
  OBVIOUS
<1>2. /\ Follows(r, r, FALSE)
      /\ Follows(r, [r EXCEPT !.active = FALSE], FALSE)
      /\ Follows(r, [r EXCEPT !.stored = TRUE], FALSE)
      /\ Follows(r, [r EXCEPT !.verified = TRUE], TRUE)
      /\ Follows(r, [r EXCEPT !.stamp = IF @ = Unstamped THEN 0 ELSE @], FALSE)
  BY <1>1, RowChanges
<1>3. CASE u = s
  <2>1. /\ Deactivated(table, s)[u] = [r EXCEPT !.active = FALSE]
        /\ [table EXCEPT ![s].stored = TRUE][u] = [r EXCEPT !.stored = TRUE]
        /\ Verified(table, s)[u] = [r EXCEPT !.verified = TRUE]
        /\ Stamped(table, s)[u] = [r EXCEPT !.stamp = IF @ = Unstamped THEN 0 ELSE @]
    BY <1>3 DEF Deactivated, Verified, Stamped
  <2> HIDE DEF r
  <2> QED BY <1>2, <1>3, <2>1 DEF r
<1>4. CASE u # s
  <2>1. /\ Deactivated(table, s)[u] = r
        /\ [table EXCEPT ![s].stored = TRUE][u] = r
        /\ Verified(table, s)[u] = r
        /\ Stamped(table, s)[u] = r
    BY <1>4 DEF Deactivated, Verified, Stamped
  <2>2. Follows(r, r, u = s)
    BY <1>2, <1>4 DEF Follows
  <2> QED BY <1>2, <2>1, <2>2
<1> QED BY <1>3, <1>4

\* No step makes anything else of a row.
LEMMA RowStep ==
  ASSUME TypeOK, Holding, [Next]_vars, NEW u \in Subs
  PROVE  Follows(table[u], table'[u], mailed[u] > 0 /\ table[u].stored)
<1> DEFINE C == mailed[u] > 0 /\ table[u].stored
<1>0. table \in [Subs -> Row]
  BY DEF TypeOK
<1>1. ASSUME NEW q, NEW c, Follows(table[u], q, c), c => C PROVE Follows(table[u], q, C)
  BY <1>1 DEF Follows
<1>2. ASSUME table' = table PROVE Follows(table[u], table'[u], C)
  BY <1>0, <1>1, <1>2, StatementChanges
<1>3. ASSUME NEW s \in Subs, table' = Deactivated(table, s)
      PROVE  Follows(table[u], table'[u], C)
  <2>1. Follows(table[u], table'[u], FALSE)
    BY <1>0, <1>3, StatementChanges
  <2> QED BY <1>1, <2>1
<1>4. ASSUME NEW s \in Subs, table' = Stamped(table, s)
      PROVE  Follows(table[u], table'[u], C)
  <2>1. Follows(table[u], table'[u], FALSE)
    BY <1>0, <1>4, StatementChanges
  <2> QED BY <1>1, <2>1
<1>5. ASSUME NEW s \in Subs, Subscribe(s) PROVE Follows(table[u], table'[u], C)
  <2>1. Follows(table[u], table'[u], FALSE)
    BY <1>0, <1>5, StatementChanges DEF Subscribe
  <2> QED BY <1>1, <2>1
<1>6. ASSUME NEW s \in Subs, Click(s) PROVE Follows(table[u], table'[u], C)
  <2>1. Follows(table[u], table'[u], u = s)
    BY <1>0, <1>6, StatementChanges DEF Click
  <2>2. u = s => C
    BY <1>6 DEF Click
  <2> QED BY <1>1, <2>1, <2>2
<1>7. ASSUME Prune PROVE Follows(table[u], table'[u], C)
  <2>1. table[u] \in Row /\ Expired(u) \in BOOLEAN /\ (table[u].verified => ~Expired(u))
    BY <1>0 DEF Expired, Row
  <2>2. table'[u] = [table[u] EXCEPT !.stored = @ /\ ~Expired(u)]
    BY <1>7 DEF Prune
  <2>3. Follows(table[u], table'[u], FALSE)
    BY <2>1, <2>2, RowChanges
  <2> QED BY <1>1, <2>3
<1>8. ASSUME Tick PROVE Follows(table[u], table'[u], C)
  <2>1. table[u] \in Row /\ (table[u].verified => ~FALSE)
    BY <1>0
  <2>2. table'[u] = [table[u] EXCEPT !.stamp = IF @ \in 0..(Expiry - 1) THEN @ + 1 ELSE @]
    BY <1>8 DEF Tick
  <2>3. Follows(table[u], table'[u], FALSE)
    BY <2>1, <2>2, RowChanges
  <2> QED BY <1>1, <2>3
<1> HIDE DEF C
<1>9. ASSUME NEW s \in Subs, Request(s) \/ Unsubscribe(s)
      PROVE  Follows(table[u], table'[u], C)
  BY <1>2, <1>3, <1>4, <1>9 DEF Request, WebSkip, WebConfirm, WebStamp, Unsubscribe
<1>10. ASSUME Backlog PROVE Follows(table[u], table'[u], C)
  <2>1. CASE Prune
    BY <1>7, <2>1
  <2>2. CASE ReadBacklog \/ ConfirmCount
    BY <1>2, <2>2 DEF ReadBacklog, ConfirmCount
  <2>3. ASSUME NEW s \in Subs, ConfirmSkip(s) \/ ConfirmAccepted(s) \/ ConfirmRefused(s)
        PROVE  Follows(table[u], table'[u], C)
    BY <1>2, <1>3, <2>3 DEF ConfirmSkip, ConfirmAccepted, ConfirmRefused
  <2>4. CASE ConfirmStamp
    <3>1. Min(queue) \in Subs
      BY <2>4, FirstOf DEF ConfirmStamp, Holding, TypeOK
    <3> QED BY <1>4, <2>4, <3>1 DEF ConfirmStamp
  <2> QED BY <1>10, <2>1, <2>2, <2>3, <2>4 DEF Backlog
<1>11. ASSUME Alerts PROVE Follows(table[u], table'[u], C)
  <2>1. CASE FanOut
    BY <1>2, <2>1 DEF FanOut
  <2>2. ASSUME NEW s \in Subs, AlertSkip(s) \/ AlertCount(s)
        PROVE  Follows(table[u], table'[u], C)
    BY <1>2, <2>2 DEF AlertSkip, AlertCount
  <2>3. ASSUME NEW s \in Subs, Alert(s) PROVE Follows(table[u], table'[u], C)
    <3>1. table' = table \/ table' = Deactivated(table, s)
      BY <2>3 DEF Alert
    <3> QED BY <1>2, <1>3, <3>1
  <2> QED BY <1>11, <2>1, <2>2, <2>3 DEF Alerts
<1>12. ASSUME NewDay \/ PollerCrash \/ WebCrash \/ TurnOn \/ UNCHANGED vars
       PROVE  Follows(table[u], table'[u], C)
  BY <1>2, <1>12 DEF NewDay, PollerCrash, WebCrash, TurnOn, vars
<1> QED BY <1>5, <1>6, <1>8, <1>9, <1>10, <1>11, <1>12 DEF Next, C

-----------------------------------------------------------------------------
(***************************************************************************)
(* The steps of others, and what they leave to the poller.                 *)
(***************************************************************************)
\* Everything but the poller's own steps and what stops it.
Beside ==
  \/ \E s \in Subs : Subscribe(s) \/ Request(s) \/ Click(s) \/ Unsubscribe(s)
  \/ Tick \/ NewDay \/ WebCrash \/ UNCHANGED vars

\* Such a step leaves the poller where it is.
LEMMA BesideStep ==
  ASSUME Beside
  PROVE  UNCHANGED <<poller, queue, todo, mail, alerted>>
BY DEF Beside, Subscribe, Request, WebSkip, WebConfirm, WebStamp, Click, Unsubscribe, Tick,
       NewDay, WebCrash, vars, inbox

\* So the message in hand, and what is owed, are the same.
LEMMA BesideHand ==
  ASSUME Beside, NEW s \in Subs
  PROVE  /\ Confirming(s)' <=> Confirming(s)
         /\ InHand(s)' <=> InHand(s)
         /\ Owed(s)' <=> Owed(s)
BY BesideStep DEF Confirming, Alerting, InHand, Owed

\* Every step is one of these, the poller's, or one that stops it.
LEMMA StepKinds ==
  ASSUME [Next]_vars
  PROVE  Beside \/ Backlog \/ Alerts \/ PollerCrash \/ TurnOn
BY DEF Next, Beside

\* A confirmation on record stays on record.
LEMMA StampIsKept ==
  ASSUME TypeOK, Holding, [Next]_vars, NEW u \in Subs, table[u].stamp # Unstamped
  PROVE  table'[u].stamp # Unstamped
BY RowStep DEF Follows

\* The poller holds what it should at each point of its cycle.
LEMMA HoldingStep ==
  ASSUME TypeOK, Holding, [Next]_vars
  PROVE  Holding'
<1>1. CASE Beside
  <2>1. UNCHANGED <<poller, queue, todo>>
    BY <1>1, BesideStep
  <2>2. poller = "count" => Min(queue) \in Subs /\ table[Min(queue)].stamp # Unstamped
    BY FirstOf DEF Holding, TypeOK
  <2>3. poller = "count" => table'[Min(queue)].stamp # Unstamped
    BY <2>2, StampIsKept
  <2> QED BY <2>1, <2>3 DEF Holding
<1>2. CASE Backlog
  <2>1. CASE Prune
    BY <2>1 DEF Prune, Holding
  <2>2. CASE ReadBacklog
    BY <2>2 DEF ReadBacklog, Holding
  <2>3. ASSUME NEW s \in Subs, ConfirmSkip(s) \/ ConfirmAccepted(s) \/ ConfirmRefused(s)
        PROVE  Holding'
    BY <2>3 DEF ConfirmSkip, ConfirmAccepted, ConfirmRefused, TryConfirm, Holding
  <2>4. CASE ConfirmStamp
    <3>1. Min(queue) \in Subs
      BY <2>4, FirstOf DEF ConfirmStamp, Holding, TypeOK
    <3>2. Stamped(table, Min(queue))[Min(queue)].stamp # Unstamped
      BY <3>1 DEF Stamped, TypeOK, Row, Unstamped
    <3> QED BY <2>4, <3>2 DEF ConfirmStamp, Holding
  <2>5. CASE ConfirmCount
    BY <2>5 DEF ConfirmCount, Holding
  <2> QED BY <1>2, <2>1, <2>2, <2>3, <2>4, <2>5 DEF Backlog
<1>3. CASE Alerts
  <2>1. CASE FanOut
    BY <2>1 DEF FanOut, Holding
  <2>2. ASSUME NEW s \in Subs, AlertSkip(s) \/ Alert(s) \/ AlertCount(s) PROVE Holding'
    BY <2>2 DEF AlertSkip, Alert, AlertCount, Holding
  <2> QED BY <1>3, <2>1, <2>2 DEF Alerts
<1>4. CASE PollerCrash \/ TurnOn
  BY <1>4 DEF PollerCrash, TurnOn, StopPoller, Holding
<1> QED BY <1>1, <1>2, <1>3, <1>4, StepKinds

\* Before the channel works nothing is delivered.
LEMMA SilentStep ==
  ASSUME TypeOK, Holding, Silent, [Next]_vars
  PROVE  Silent'
<1> USE DEF Silent, inbox, Late
<1>1. CASE Beside
  BY <1>1 DEF Beside, Subscribe, Request, WebSkip, WebConfirm, WebStamp, Click, Unsubscribe,
              Tick, NewDay, WebCrash, vars
<1>2. CASE Backlog
  <2>1. CASE Prune
    BY <2>1 DEF Prune
  <2>2. CASE ReadBacklog
    BY <2>2 DEF ReadBacklog
  <2>3. ASSUME NEW s \in Subs, ConfirmSkip(s) PROVE Silent'
    BY <2>3 DEF ConfirmSkip
  <2>4. ASSUME NEW s \in Subs, ConfirmAccepted(s) PROVE Silent'
    BY <2>4 DEF ConfirmAccepted, TryConfirm
  <2>5. ASSUME NEW s \in Subs, ConfirmRefused(s) PROVE Silent'
    BY <2>5 DEF ConfirmRefused, TryConfirm
  <2>6. CASE ConfirmStamp \/ ConfirmCount
    BY <2>6 DEF ConfirmStamp, ConfirmCount, Holding
  <2> QED BY <1>2, <2>1, <2>2, <2>3, <2>4, <2>5, <2>6 DEF Backlog
<1>3. CASE Alerts
  <2>1. CASE FanOut
    BY <2>1 DEF FanOut
  <2>2. ASSUME NEW s \in Subs, AlertSkip(s) \/ AlertCount(s) PROVE Silent'
    BY <2>2 DEF AlertSkip, AlertCount
  <2>3. ASSUME NEW s \in Subs, Alert(s) PROVE Silent'
    BY <2>3 DEF Alert
  <2> QED BY <1>3, <2>1, <2>2, <2>3 DEF Alerts
<1>4. CASE PollerCrash \/ TurnOn
  BY <1>4 DEF PollerCrash, TurnOn, StopPoller
<1> QED BY <1>1, <1>2, <1>3, <1>4, StepKinds

\* A delivered confirmation is not taken back.
LEMMA MailedGrows ==
  ASSUME TypeOK, [Next]_vars, NEW u \in Subs
  PROVE  mailed'[u] >= mailed[u]
<1> USE DEF inbox
<1>0. mailed[u] \in Nat
  BY DEF TypeOK
<1>1. ASSUME NEW s \in Subs, mailed' = [mailed EXCEPT ![s] = @ + 1]
      PROVE  mailed'[u] >= mailed[u]
  BY <1>1 DEF TypeOK
<1>2. CASE Beside
  <2>1. mailed' = mailed \/ \E s \in Subs : mailed' = [mailed EXCEPT ![s] = @ + 1]
    BY <1>2 DEF Beside, Subscribe, Request, WebSkip, WebConfirm, WebStamp, Click,
                Unsubscribe, Tick, NewDay, WebCrash, vars
  <2> QED BY <1>0, <1>1, <2>1
<1>3. CASE Backlog
  <2>1. mailed' = mailed \/ \E s \in Subs : mailed' = [mailed EXCEPT ![s] = @ + 1]
    BY <1>3 DEF Backlog, Prune, ReadBacklog, ConfirmSkip, ConfirmAccepted, ConfirmRefused,
                ConfirmStamp, ConfirmCount
  <2> QED BY <1>0, <1>1, <2>1
<1>4. CASE Alerts \/ PollerCrash \/ TurnOn
  <2>1. mailed' = mailed
    BY <1>4 DEF Alerts, FanOut, AlertSkip, Alert, AlertCount, PollerCrash, TurnOn
  <2> QED BY <1>0, <2>1
<1> QED BY <1>2, <1>3, <1>4, StepKinds

\* A row new to the fan-out is verified; a row newly alerted was in it.
LEMMA FanOutGrows ==
  ASSUME TypeOK, Holding, [Next]_vars, NEW u \in Subs, u \in (todo \cup alerted)'
  PROVE  u \in todo \cup alerted \/ (table[u].verified /\ table' = table)
<1> USE DEF inbox
<1>1. CASE Beside
  BY <1>1, BesideStep
<1>2. CASE Backlog
  BY <1>2 DEF Backlog, Prune, ReadBacklog, ConfirmSkip, ConfirmAccepted, ConfirmRefused,
              ConfirmStamp, ConfirmCount
<1>3. CASE Alerts
  <2>1. CASE FanOut
    BY <2>1 DEF FanOut, Deliverable
  <2>2. ASSUME NEW s \in Subs, AlertSkip(s) \/ AlertCount(s)
        PROVE  u \in todo \cup alerted
    BY <2>2 DEF AlertSkip, AlertCount
  <2>3. ASSUME NEW s \in Subs, Alert(s)
        PROVE  u \in todo \cup alerted
    <3>1. s \in todo
      BY <2>3, FirstOf DEF Alert, Holding, TypeOK
    <3> QED BY <2>3, <3>1 DEF Alert
  <2> QED BY <1>3, <2>1, <2>2, <2>3 DEF Alerts
<1>4. CASE PollerCrash \/ TurnOn
  BY <1>4 DEF PollerCrash, TurnOn, StopPoller
<1> QED BY <1>1, <1>2, <1>3, <1>4, StepKinds

\* A verified row was mailed and is kept, and only such rows are alerted.
LEMMA OptedInStep ==
  ASSUME TypeOK, Holding, OptedIn, [Next]_vars
  PROVE  OptedIn'
<1>1. ASSUME NEW u \in Subs, table'[u].verified
      PROVE  mailed'[u] > 0 /\ table'[u].stored
  <2>1. mailed[u] > 0 /\ table[u].stored
    BY <1>1, RowStep DEF Follows, OptedIn
  <2>2. mailed[u] \in Nat /\ mailed'[u] \in Nat
    BY StepType DEF TypeOK
  <2> QED BY <1>1, <2>1, <2>2, MailedGrows, RowStep DEF Follows
<1>2. ASSUME NEW u \in (todo \cup alerted)' PROVE table'[u].verified
  <2>1. u \in Subs
    BY StepType DEF TypeOK
  <2>2. table[u].verified
    BY <1>2, <2>1, FanOutGrows DEF OptedIn
  <2> QED BY <2>1, <2>2, RowStep DEF Follows
<1> QED BY <1>1, <1>2 DEF OptedIn

-----------------------------------------------------------------------------
(***************************************************************************)
(* The day's counters.                                                     *)
(***************************************************************************)
\* A row's books balance if its counter, with the message in hand, is within the cap and
\* accounts for what was delivered, crashes apart.
Balanced(sent, room, got, lost) == sent + room <= DailyCap /\ got <= sent + room + lost

\* Every step keeps a row's messages of a day on its counter, but for one a crash.
LEMMA CountingStep ==
  ASSUME TypeOK, Holding, Silent, Counting, [Next]_vars
  PROVE  Counting'
<1> SUFFICES ASSUME NEW u \in Subs
             PROVE  Balanced(sends'[u], Room(u)', today'[u], crashes')
  BY DEF Counting, Balanced
<1>0. /\ Balanced(sends[u], Room(u), today[u], crashes)
      /\ sends[u] \in Nat /\ today[u] \in Nat /\ crashes \in Nat
      /\ Room(u) \in {0, 1} /\ Room(u)' \in {0, 1}
      /\ DailyCap \in Nat \ {0}
  BY SubscriptionsAssumption DEF Counting, Balanced, TypeOK, Room
<1>1. ASSUME UNCHANGED <<sends, today, crashes>>, Room(u)' = Room(u)
      PROVE  Balanced(sends'[u], Room(u)', today'[u], crashes')
  BY <1>0, <1>1
<1> USE DEF inbox
<1>2. CASE Beside
  <2>1. Room(u)' = Room(u)
    BY <1>2, BesideHand DEF Room
  <2>2. CASE UNCHANGED <<sends, today, crashes>>
    BY <1>1, <2>1, <2>2
  <2>3. CASE NewDay
    <3>1. sends'[u] = 0 /\ today'[u] = 0 /\ crashes' = crashes
      BY <2>3 DEF NewDay
    <3> QED BY <1>0, <3>1 DEF Balanced
  <2>4. CASE WebCrash
    <3>1. sends'[u] = sends[u] /\ today'[u] = today[u] /\ crashes' = crashes + 1
      BY <2>4 DEF WebCrash
    <3> QED BY <1>0, <2>1, <3>1 DEF Balanced
  <2> QED BY <1>2, <2>2, <2>3, <2>4 DEF Beside, Subscribe, Request, WebSkip, WebConfirm,
              WebStamp, Click, Unsubscribe, Tick, vars
<1>3. CASE Backlog
  <2>1. CASE Prune \/ ReadBacklog \/ ConfirmStamp
    <3>1. Room(u)' = Room(u)
      BY <2>1 DEF Room, InHand, Confirming, Alerting, Prune, ReadBacklog, ConfirmStamp
    <3> QED BY <1>1, <2>1, <3>1 DEF Prune, ReadBacklog, ConfirmStamp
  <2>2. ASSUME NEW s \in Subs, ConfirmSkip(s) \/ ConfirmRefused(s)
        PROVE  Balanced(sends'[u], Room(u)', today'[u], crashes')
    <3>1. Room(u)' = Room(u)
      BY <2>2 DEF Room, InHand, Confirming, Alerting, ConfirmSkip, ConfirmRefused, TryConfirm
    <3> QED BY <1>1, <2>2, <3>1 DEF ConfirmSkip, ConfirmRefused
  <2>3. ASSUME NEW s \in Subs, ConfirmAccepted(s)
        PROVE  Balanced(sends'[u], Room(u)', today'[u], crashes')
    <3>1. Room(u) = 0
      BY <2>3 DEF Room, InHand, Confirming, Alerting, ConfirmAccepted, TryConfirm
    <3>2. crashes' = crashes /\ sends'[u] = sends[u]
      BY <2>3 DEF ConfirmAccepted
    <3>3. CASE u = s
      <4>1. Room(u)' = 1 /\ today'[u] = today[u] + 1
        BY <2>3, <3>3 DEF Room, InHand, Confirming, ConfirmAccepted, TryConfirm, TypeOK
      <4>2. ~(sends[u] >= DailyCap)
        BY <2>3, <3>3 DEF ConfirmAccepted, TryConfirm, Capped
      <4> QED BY <1>0, <3>1, <3>2, <4>1, <4>2 DEF Balanced
    <3>4. CASE u # s
      <4>1. Room(u)' = 0 /\ today'[u] = today[u]
        BY <2>3, <3>4 DEF Room, InHand, Confirming, Alerting, ConfirmAccepted, TryConfirm, TypeOK
      <4> QED BY <1>0, <3>1, <3>2, <4>1 DEF Balanced
    <3> QED BY <3>3, <3>4
  <2>4. CASE ConfirmCount
    <3>1. Room(u)' = 0 /\ crashes' = crashes /\ today'[u] = today[u]
      BY <2>4 DEF Room, InHand, Confirming, Alerting, ConfirmCount
    <3>2. sends'[u] = sends[u] + Room(u)
      <4>1. Room(u) = IF u = Min(queue) THEN 1 ELSE 0
        BY <2>4 DEF Room, InHand, Confirming, Alerting, ConfirmCount
      <4> QED BY <1>0, <2>4, <4>1 DEF ConfirmCount, Counted, TypeOK
    <3> QED BY <1>0, <3>1, <3>2 DEF Balanced
  <2> QED BY <1>3, <2>1, <2>2, <2>3, <2>4 DEF Backlog
<1>4. CASE Alerts
  <2>1. CASE FanOut
    <3>1. Room(u)' = Room(u)
      BY <2>1 DEF Room, InHand, Confirming, Alerting, FanOut
    <3> QED BY <1>1, <2>1, <3>1 DEF FanOut
  <2>2. ASSUME NEW s \in Subs, AlertSkip(s)
        PROVE  Balanced(sends'[u], Room(u)', today'[u], crashes')
    <3>1. Room(u)' = Room(u)
      BY <2>2 DEF Room, InHand, Confirming, Alerting, AlertSkip
    <3> QED BY <1>1, <2>2, <3>1 DEF AlertSkip
  <2>3. ASSUME NEW s \in Subs, Alert(s)
        PROVE  Balanced(sends'[u], Room(u)', today'[u], crashes')
    <3>1. Room(u) = 0 /\ crashes' = crashes /\ sends'[u] = sends[u]
      BY <2>3 DEF Room, InHand, Confirming, Alerting, Alert
    <3>2. CASE u = s
      <4>1. Room(u)' = 1
        BY <2>3, <3>2 DEF Room, InHand, Alerting, Alert
      <4>2. today'[u] = today[u] + 1 \/ today'[u] = today[u]
        BY <2>3, <3>2 DEF Alert, TypeOK
      <4>3. ~(sends[u] >= DailyCap)
        BY <2>3, <3>2 DEF Alert, Capped
      <4> QED BY <1>0, <3>1, <4>1, <4>2, <4>3 DEF Balanced
    <3>3. CASE u # s
      <4>1. Room(u)' = 0 /\ today'[u] = today[u]
        BY <2>3, <3>3 DEF Room, InHand, Confirming, Alerting, Alert, TypeOK
      <4> QED BY <1>0, <3>1, <4>1 DEF Balanced
    <3> QED BY <3>2, <3>3
  <2>4. ASSUME NEW s \in Subs, AlertCount(s)
        PROVE  Balanced(sends'[u], Room(u)', today'[u], crashes')
    <3>1. Room(u)' = 0 /\ crashes' = crashes /\ today'[u] = today[u]
      BY <2>4 DEF Room, InHand, Confirming, Alerting, AlertCount
    <3>2. sends'[u] = sends[u] + Room(u)
      <4>1. Room(u) = IF u = s THEN 1 ELSE 0
        BY <2>4 DEF Room, InHand, Confirming, Alerting, AlertCount
      <4> QED BY <1>0, <2>4, <4>1 DEF AlertCount, Counted, TypeOK
    <3> QED BY <1>0, <3>1, <3>2 DEF Balanced
  <2> QED BY <1>4, <2>1, <2>2, <2>3, <2>4 DEF Alerts
<1>5. CASE PollerCrash
  <2>1. /\ Room(u)' = 0 /\ crashes' = crashes + 1
        /\ today'[u] = today[u] /\ sends'[u] = sends[u]
    BY <1>5 DEF PollerCrash, StopPoller, Room, InHand, Confirming, Alerting
  <2> QED BY <1>0, <2>1 DEF Balanced
<1>6. CASE TurnOn
  <2>1. /\ Room(u)' = 0 /\ crashes' = crashes
        /\ today'[u] = 0 /\ sends'[u] = sends[u]
    BY <1>6 DEF TurnOn, Silent, StopPoller, Room, InHand, Confirming, Alerting
  <2> QED BY <1>0, <2>1 DEF Balanced
<1> QED BY <1>2, <1>3, <1>4, <1>5, <1>6, StepKinds

-----------------------------------------------------------------------------
(***************************************************************************)
(* Messages, and messages after an unsubscribe.                            *)
(***************************************************************************)
\* Nothing makes a row active again, so what was unsubscribed stays off.
LEMMA GoneStep ==
  ASSUME TypeOK, Holding, Gone, [Next]_vars
  PROVE  Gone'
<1> SUFFICES ASSUME NEW u \in left' PROVE ~table'[u].active
  BY DEF Gone
<1> USE DEF inbox
<1>1. left' \subseteq Subs
  BY StepType DEF TypeOK
<1>2. CASE u \in left
  BY <1>1, <1>2, RowStep DEF Gone, Follows
<1>3. CASE u \notin left
  <2>1. left' # left
    BY <1>3
  <2>2. \E s \in Subs : Unsubscribe(s)
    <3>1. Backlog => left' = left
      BY DEF Backlog, Prune, ReadBacklog, ConfirmSkip, ConfirmAccepted, ConfirmRefused,
             ConfirmStamp, ConfirmCount
    <3>2. Alerts => left' = left
      BY DEF Alerts, FanOut, AlertSkip, Alert, AlertCount
    <3>3. PollerCrash \/ TurnOn => left' = left
      BY DEF PollerCrash, TurnOn
    <3>4. Beside => left' = left \/ \E s \in Subs : Unsubscribe(s)
      BY DEF Beside, Subscribe, Request, WebSkip, WebConfirm, WebStamp, Click, Tick, NewDay,
             WebCrash, vars
    <3> QED BY <2>1, <3>1, <3>2, <3>3, <3>4, StepKinds
  <2>3. PICK s \in Subs : Unsubscribe(s)
    BY <2>2
  <2>4. u = s /\ table' = [table EXCEPT ![s].active = FALSE]
    BY <1>3, <2>3 DEF Unsubscribe, Deactivated
  <2> QED BY <2>4 DEF TypeOK, Row
<1> QED BY <1>2, <1>3

\* A message is late only for a row that was unsubscribed, and is then one more.
LEMMA LateStep ==
  ASSUME TypeOK, Gone, NEW s \in Subs, NEW u \in Subs, Late(s)
  PROVE  /\ u # s \/ table[u].active => late'[u] = late[u]
         /\ late'[u] <= late[u] + 1
BY DEF Late, Gone, TypeOK

\* What a request and a crash of the web server deliver is paid by the request's share.
LEMMA BesideMail ==
  ASSUME TypeOK, Gone, Beside, NEW u \in Subs
  PROVE  /\ mailed'[u] + Share(u) <= mailed[u] + Share(u)'
         /\ late'[u] + Share(u) <= late[u] + Share(u)'
         /\ table[u].active => late'[u] = late[u]
         /\ crashes' >= crashes
<1> USE DEF inbox
<1>0. /\ mailed[u] \in Nat /\ late[u] \in Nat /\ crashes \in Nat
      /\ Share(u) \in {0, 1} /\ Share(u)' \in {0, 1}
  BY DEF TypeOK, Share
<1>1. ASSUME NEW s \in Subs, WebConfirm(s)
      PROVE  /\ mailed'[u] + Share(u) <= mailed[u] + Share(u)'
             /\ late'[u] + Share(u) <= late[u] + Share(u)'
             /\ table[u].active => late'[u] = late[u]
             /\ crashes' >= crashes
  <2>1. crashes' = crashes
    BY <1>1 DEF WebConfirm
  <2>2. (table[u].active => late'[u] = late[u]) /\ late'[u] <= late[u] + 1
    <3>1. CASE Late(s)
      BY <3>1, LateStep
    <3>2. CASE late' = late
      BY <1>0, <3>2
    <3> QED BY <1>1, <3>1, <3>2 DEF WebConfirm
  <2>3. CASE u = s
    <3>1. Share(u) = 0 /\ Share(u)' = 1
      BY <1>1, <2>3 DEF WebConfirm, Share, TypeOK
    <3>2. mailed'[u] = mailed[u] \/ mailed'[u] = mailed[u] + 1
      BY <1>1, <2>3 DEF WebConfirm, TypeOK
    <3>3. late'[u] \in Nat
      BY <1>1, WebType DEF Request, TypeOK
    <3> QED BY <1>0, <2>1, <2>2, <3>1, <3>2, <3>3
  <2>4. CASE u # s
    <3>1. Share(u)' = Share(u)
      BY <1>1, <2>4 DEF WebConfirm, Share, TypeOK
    <3>2. mailed'[u] = mailed[u]
      BY <1>1, <2>4 DEF WebConfirm, TypeOK
    <3>3. late'[u] = late[u]
      <4>1. CASE Late(s)
        BY <2>4, <4>1, LateStep
      <4>2. CASE late' = late
        BY <4>2
      <4> QED BY <1>1, <4>1, <4>2 DEF WebConfirm
    <3> QED BY <1>0, <2>1, <3>1, <3>2, <3>3
  <2> QED BY <2>3, <2>4
<1>2. CASE UNCHANGED <<mailed, late>> /\ Share(u)' >= Share(u) /\ crashes' >= crashes
  BY <1>0, <1>2
<1>3. ASSUME NEW s \in Subs, Subscribe(s) \/ WebSkip(s) \/ WebStamp(s) \/ Click(s) \/ Unsubscribe(s)
      PROVE  UNCHANGED <<mailed, late>> /\ Share(u)' >= Share(u) /\ crashes' >= crashes
  <2>1. UNCHANGED <<mailed, late, crashes>>
    BY <1>3 DEF Subscribe, WebSkip, WebStamp, Click, Unsubscribe
  <2>2. Share(u)' >= Share(u)
    BY <1>3 DEF Subscribe, WebSkip, WebStamp, Click, Unsubscribe, Share, TypeOK
  <2> QED BY <1>0, <2>1, <2>2
<1>4. CASE Tick \/ NewDay \/ UNCHANGED vars
  <2>1. UNCHANGED <<mailed, late, web, crashes>>
    BY <1>4 DEF Tick, NewDay, vars
  <2>2. Share(u)' = Share(u)
    BY <2>1 DEF Share
  <2> QED BY <1>0, <2>1, <2>2
<1>5. CASE WebCrash
  <2>1. UNCHANGED <<mailed, late>> /\ crashes' = crashes + 1
    BY <1>5 DEF WebCrash
  <2>2. Share(u)' >= Share(u)
    BY <1>5 DEF WebCrash, StopWeb, Share, TypeOK
  <2> QED BY <1>0, <2>1, <2>2
<1> QED BY <1>1, <1>2, <1>3, <1>4, <1>5 DEF Beside, Request

\* The poller's own steps leave the request's share alone.
LEMMA PollerShare ==
  ASSUME Backlog \/ Alerts \/ PollerCrash, NEW u \in Subs
  PROVE  Share(u)' = Share(u)
<1>1. web' = web
  BY DEF Backlog, Prune, ReadBacklog, ConfirmSkip, ConfirmAccepted, ConfirmRefused,
         ConfirmStamp, ConfirmCount, Alerts, FanOut, AlertSkip, Alert, AlertCount, PollerCrash
<1> QED BY <1>1 DEF Share

\* The deployment settles the requests it stops.
LEMMA TurnOnShare ==
  ASSUME TypeOK, TurnOn, NEW u \in Subs
  PROVE  Share(u)' >= Share(u)
BY DEF TurnOn, StopWeb, Share, TypeOK

\* A row's confirmations are within the shares of the request and of the poller.
LEMMA MailingStep ==
  ASSUME TypeOK, Holding, Silent, Gone, Mailing, [Next]_vars
  PROVE  Mailing'
<1> SUFFICES ASSUME NEW u \in Subs
             PROVE  mailed'[u] <= Share(u)' + Done(u)' + crashes'
  BY DEF Mailing
<1>0. /\ mailed[u] <= Share(u) + Done(u) + crashes
      /\ mailed[u] \in Nat /\ crashes \in Nat
      /\ Share(u) \in {0, 1} /\ Share(u)' \in {0, 1}
      /\ Done(u) \in {0, 1} /\ Done(u)' \in {0, 1}
  BY DEF Mailing, TypeOK, Share, Done
<1>t. mailed'[u] \in Nat /\ crashes' \in Nat
  BY StepType DEF TypeOK
<1>s. table[u].stamp # Unstamped => table'[u].stamp # Unstamped
  BY StampIsKept
<1> USE DEF inbox
<1>1. CASE Beside
  <2>1. Done(u)' >= Done(u)
    BY <1>s, <1>1, BesideStep, BesideHand DEF Done, Settled
  <2> QED BY <1>0, <1>t, <1>1, <2>1, BesideMail
<1>2. CASE mailed'[u] = mailed[u] /\ Share(u)' = Share(u) /\ crashes' = crashes
             /\ (Settled(u) => Settled(u)')
  BY <1>0, <1>2 DEF Done
<1>3. CASE Backlog
  <2>0. Share(u)' = Share(u)
    BY <1>3, PollerShare
  <2>1. CASE Prune \/ ReadBacklog \/ ConfirmStamp
    <3>1. UNCHANGED <<mailed, crashes>>
      BY <2>1 DEF Prune, ReadBacklog, ConfirmStamp
    <3>2. Settled(u) => Settled(u)'
      BY <1>s, <2>1 DEF Prune, ReadBacklog, ConfirmStamp, Settled, Confirming,
                        PendingConfirmations, Pending
    <3> QED BY <1>2, <2>0, <3>1, <3>2
  <2>2. ASSUME NEW s \in Subs, ConfirmSkip(s) \/ ConfirmRefused(s)
        PROVE  mailed'[u] <= Share(u)' + Done(u)' + crashes'
    <3>1. UNCHANGED <<mailed, crashes>>
      BY <2>2 DEF ConfirmSkip, ConfirmRefused
    <3>2. Settled(u) => Settled(u)'
      BY <1>s, <2>2 DEF ConfirmSkip, ConfirmRefused, TryConfirm, Settled, Confirming
    <3> QED BY <1>2, <2>0, <3>1, <3>2
  <2>3. ASSUME NEW s \in Subs, ConfirmAccepted(s)
        PROVE  mailed'[u] <= Share(u)' + Done(u)' + crashes'
    <3>1. crashes' = crashes
      BY <2>3 DEF ConfirmAccepted
    <3>2. CASE u = s
      <4>1. s \in queue
        BY <2>3, FirstOf DEF ConfirmAccepted, TryConfirm, TypeOK
      <4>2. Done(u) = 0 /\ Done(u)' = 1
        BY <2>3, <3>2, <4>1 DEF ConfirmAccepted, TryConfirm, Done, Settled, Confirming
      <4>3. mailed'[u] = mailed[u] + 1
        BY <2>3, <3>2 DEF ConfirmAccepted, TypeOK
      <4> QED BY <1>0, <2>0, <3>1, <4>2, <4>3
    <3>3. CASE u # s
      <4>1. mailed'[u] = mailed[u]
        BY <2>3, <3>3 DEF ConfirmAccepted, TypeOK
      <4>2. Settled(u) => Settled(u)'
        BY <1>s, <2>3 DEF ConfirmAccepted, TryConfirm, Settled, Confirming
      <4> QED BY <1>2, <2>0, <3>1, <4>1, <4>2
    <3> QED BY <3>2, <3>3
  <2>4. CASE ConfirmCount
    <3>1. UNCHANGED <<mailed, crashes>>
      BY <2>4 DEF ConfirmCount
    <3>2. table[Min(queue)].stamp # Unstamped /\ table' = table
      BY <2>4 DEF ConfirmCount, Holding
    <3>3. Settled(u) => Settled(u)'
      BY <2>4, <3>2 DEF ConfirmCount, Settled, Confirming
    <3> QED BY <1>2, <2>0, <3>1, <3>3
  <2> QED BY <1>3, <2>1, <2>2, <2>3, <2>4 DEF Backlog
<1>4. CASE Alerts
  <2>1. UNCHANGED <<mailed, crashes, queue>> /\ poller' \notin {"stamp", "count"}
        /\ poller \notin {"stamp", "count"}
    BY <1>4 DEF Alerts, FanOut, AlertSkip, Alert, AlertCount
  <2>2. Settled(u) => Settled(u)'
    BY <1>s, <2>1 DEF Settled, Confirming
  <2> QED BY <1>2, <1>4, <2>1, <2>2, PollerShare
<1>5. CASE PollerCrash
  <2>1. mailed'[u] = mailed[u] /\ crashes' = crashes + 1
    BY <1>5 DEF PollerCrash
  <2> QED BY <1>0, <1>5, <2>1, PollerShare
<1>6. CASE TurnOn
  <2>1. mailed'[u] = 0
    BY <1>6 DEF TurnOn, Silent
  <2> QED BY <1>0, <1>t, <2>1
<1> QED BY <1>1, <1>3, <1>4, <1>5, <1>6, StepKinds

\* An active row was sent nothing late; another one at most what its request and the copy a
\* cycle holds may still send.
LEMMA QuietStep ==
  ASSUME TypeOK, Holding, Silent, Gone, Quiet, [Next]_vars
  PROVE  Quiet'
<1> SUFFICES ASSUME NEW u \in Subs
             PROVE  /\ table'[u].active => late'[u] = 0
                    /\ late'[u] <= Share(u)' + Spent(u)'
  BY DEF Quiet
<1> DEFINE Goal == /\ table'[u].active => late'[u] = 0
                   /\ late'[u] <= Share(u)' + Spent(u)'
<1>0. /\ table[u].active => late[u] = 0
      /\ late[u] <= Share(u) + Spent(u)
      /\ late[u] \in Nat
      /\ Share(u) \in {0, 1} /\ Share(u)' \in {0, 1}
      /\ Spent(u) \in {0, 1} /\ Spent(u)' \in {0, 1}
  BY DEF Quiet, TypeOK, Share, Spent
<1>t. late'[u] \in Nat
  BY StepType DEF TypeOK
<1>a. table'[u].active => table[u].active
  BY RowStep DEF Follows
<1> USE DEF inbox
<1>1. CASE Beside
  <2>1. Spent(u)' = Spent(u)
    BY <1>1, BesideHand DEF Spent
  <2>2. /\ late'[u] + Share(u) <= late[u] + Share(u)'
        /\ table[u].active => late'[u] = late[u]
    BY <1>1, BesideMail
  <2> QED BY <1>0, <1>t, <1>a, <2>1, <2>2
<1>2. CASE late'[u] = late[u] /\ Share(u)' = Share(u) /\ (Owed(u)' => Owed(u))
  BY <1>0, <1>a, <1>2 DEF Spent
<1>3. CASE late'[u] = late[u] /\ Share(u)' = Share(u) /\ (Owed(u)' => table[u].active)
  BY <1>0, <1>a, <1>3 DEF Spent
<1>4. CASE Share(u)' = Share(u) /\ Owed(u) /\ ~Owed(u)'
           /\ late'[u] <= late[u] + 1 /\ (table[u].active => late'[u] = late[u])
  <2>1. Spent(u) = 0 /\ Spent(u)' = 1
    BY <1>4 DEF Spent
  <2> QED BY <1>0, <1>t, <1>a, <1>4, <2>1
<1> HIDE DEF Goal
<1>5. CASE Backlog
  <2>0. Share(u)' = Share(u)
    BY <1>5, PollerShare
  <2>1. CASE Prune \/ ConfirmStamp
    <3>1. late' = late
      BY <2>1 DEF Prune, ConfirmStamp
    <3>2. Owed(u)' => Owed(u)
      BY <2>1 DEF Prune, ConfirmStamp, Owed, InHand, Confirming, Alerting
    <3> QED BY <1>2, <2>0, <3>1, <3>2
  <2>2. CASE ReadBacklog
    <3>1. late' = late /\ todo' = {}
      BY <2>2 DEF ReadBacklog, Holding
    <3>2. Owed(u)' => table[u].active
      BY <2>2, <3>1 DEF ReadBacklog, Owed, PendingConfirmations, Pending
    <3> QED BY <1>3, <2>0, <3>1, <3>2
  <2>3. ASSUME NEW s \in Subs, ConfirmSkip(s) \/ ConfirmRefused(s) PROVE Goal
    <3>1. late' = late
      BY <2>3 DEF ConfirmSkip, ConfirmRefused
    <3>2. Owed(u)' => Owed(u)
      BY <2>3 DEF ConfirmSkip, ConfirmRefused, TryConfirm, Owed, InHand, Confirming, Alerting
    <3> QED BY <1>2, <2>0, <3>1, <3>2 DEF Goal
  <2>4. ASSUME NEW s \in Subs, ConfirmAccepted(s) PROVE Goal
    <3>1. /\ u # s \/ table[u].active => late'[u] = late[u]
          /\ late'[u] <= late[u] + 1
      BY <2>4, LateStep DEF ConfirmAccepted
    <3>2. CASE u = s
      <4>1. s \in queue
        BY <2>4, FirstOf DEF ConfirmAccepted, TryConfirm, TypeOK
      <4>2. Owed(u) /\ ~Owed(u)'
        BY <2>4, <3>2, <4>1 DEF ConfirmAccepted, TryConfirm, Owed, InHand, Confirming, Alerting
      <4> QED BY <1>4, <2>0, <3>1, <4>2 DEF Goal
    <3>3. CASE u # s
      <4>1. Owed(u)' => Owed(u)
        BY <2>4 DEF ConfirmAccepted, TryConfirm, Owed, InHand, Confirming, Alerting
      <4> QED BY <1>2, <2>0, <3>1, <3>3, <4>1 DEF Goal
    <3> QED BY <3>2, <3>3
  <2>5. CASE ConfirmCount
    <3>1. late' = late
      BY <2>5 DEF ConfirmCount
    <3>2. Owed(u)' => Owed(u)
      BY <2>5 DEF ConfirmCount, Owed, InHand, Confirming, Alerting, Holding
    <3> QED BY <1>2, <2>0, <3>1, <3>2
  <2> QED BY <1>5, <2>1, <2>2, <2>3, <2>4, <2>5 DEF Backlog, Goal
<1>6. CASE Alerts
  <2>0. Share(u)' = Share(u)
    BY <1>6, PollerShare
  <2>1. CASE FanOut
    <3>1. late' = late
      BY <2>1 DEF FanOut
    <3>2. Owed(u)' => table[u].active
      BY <2>1 DEF FanOut, Owed, Deliverable
    <3> QED BY <1>3, <2>0, <3>1, <3>2
  <2>2. ASSUME NEW s \in Subs, AlertSkip(s) PROVE Goal
    <3>1. late' = late
      BY <2>2 DEF AlertSkip
    <3>2. Owed(u)' => Owed(u)
      BY <2>2 DEF AlertSkip, Owed, InHand, Confirming, Alerting
    <3> QED BY <1>2, <2>0, <3>1, <3>2 DEF Goal
  <2>3. ASSUME NEW s \in Subs, Alert(s) PROVE Goal
    <3>1. /\ u # s \/ table[u].active => late'[u] = late[u]
          /\ late'[u] <= late[u] + 1
      <4>1. CASE Late(s)
        BY <4>1, LateStep
      <4>2. CASE late' = late
        BY <1>0, <4>2
      <4> QED BY <2>3, <4>1, <4>2 DEF Alert
    <3>2. CASE u = s
      <4>1. s \in todo
        BY <2>3, FirstOf DEF Alert, Holding, TypeOK
      <4>2. Owed(u) /\ ~Owed(u)'
        BY <2>3, <3>2, <4>1 DEF Alert, Owed, InHand, Confirming, Alerting
      <4> QED BY <1>4, <2>0, <3>1, <4>2 DEF Goal
    <3>3. CASE u # s
      <4>1. Owed(u)' => Owed(u)
        BY <2>3 DEF Alert, Owed, InHand, Confirming, Alerting
      <4> QED BY <1>2, <2>0, <3>1, <3>3, <4>1 DEF Goal
    <3> QED BY <3>2, <3>3
  <2>4. ASSUME NEW s \in Subs, AlertCount(s) PROVE Goal
    <3>1. late' = late
      BY <2>4 DEF AlertCount
    <3>2. Owed(u)' => Owed(u)
      BY <2>4 DEF AlertCount, Owed, InHand, Confirming, Alerting, Holding
    <3> QED BY <1>2, <2>0, <3>1, <3>2 DEF Goal
  <2> QED BY <1>6, <2>1, <2>2, <2>3, <2>4 DEF Alerts, Goal
<1>7. CASE PollerCrash
  <2>1. late' = late /\ ~Owed(u)'
    BY <1>7 DEF PollerCrash, StopPoller, Owed
  <2> QED BY <1>2, <1>7, <2>1, PollerShare
<1>8. CASE TurnOn
  <2>1. late'[u] = 0
    BY <1>8 DEF TurnOn, Silent
  <2> QED BY <1>0, <2>1
<1> QED BY <1>1, <1>5, <1>6, <1>7, <1>8, StepKinds DEF Goal

-----------------------------------------------------------------------------
(***************************************************************************)
(* The theorems.                                                           *)
(***************************************************************************)
\* The empty tables satisfy the invariant.
LEMMA InitInv == Init => IInv
<1> SUFFICES ASSUME Init PROVE IInv
  OBVIOUS
<1>1. /\ table = [s \in Subs |-> [stored |-> s \in Early, active |-> TRUE, verified |-> FALSE,
                                  stamp |-> Unstamped]]
      /\ sends = [s \in Subs |-> 0] /\ mailed = [s \in Subs |-> 0]
      /\ today = [s \in Subs |-> 0] /\ late = [s \in Subs |-> 0]
      /\ web = [s \in Subs |-> IF s \in Early THEN "done" ELSE "none"]
      /\ left = {}
      /\ poller = "idle" /\ queue = {} /\ todo = {} /\ alerted = {} /\ crashes = 0
  BY DEF Init
<1>2. mail \in {"off", "blocked", "on"}
  BY SubscriptionsAssumption DEF Init
<1>3. hits \in [Processes -> [Addresses -> [0..(Window - 1) -> Nat]]]
  BY DEF Init, NoHits
<1>4. table \in [Subs -> Row]
  BY <1>1 DEF Row, Unstamped
<1>5. TypeOK
  BY <1>1, <1>2, <1>3, <1>4 DEF TypeOK
<1>6. Holding /\ Silent /\ OptedIn
  BY <1>1 DEF Holding, Silent, OptedIn
<1>7. DailyCap \in Nat
  BY SubscriptionsAssumption
<1>8. \A s \in Subs : ~InHand(s)
  BY <1>1 DEF InHand, Confirming, Alerting
<1>9. Counting
  BY <1>1, <1>7, <1>8 DEF Counting, Room
<1>10. Mailing /\ Quiet
  BY <1>1, <1>8 DEF Mailing, Quiet, Share, Done, Spent
<1>11. Gone
  BY <1>1 DEF Gone
<1> QED BY <1>5, <1>6, <1>9, <1>10, <1>11 DEF IInv

\* Every step keeps the invariant.
LEMMA StepInv == IInv /\ [Next]_vars => IInv'
BY StepType, HoldingStep, SilentStep, OptedInStep, CountingStep, MailingStep, GoneStep, QuietStep
   DEF IInv

\* The invariant holds throughout, in every interleaving of the two processes.
THEOREM Invariance == Spec => []IInv
BY InitInv, StepInv, PTL DEF Spec

\* Every variable keeps its type.
THEOREM TypeCorrect == Spec => []TypeOK
<1>1. IInv => TypeOK
  BY DEF IInv
<1> QED BY <1>1, Invariance, PTL

\* Nobody is alerted who did not click a link mailed to the address.
THEOREM OptIn == Spec => []AlertNeedsOptIn
<1>1. IInv => AlertNeedsOptIn
  BY DEF IInv, OptedIn, AlertNeedsOptIn, TypeOK
<1> QED BY <1>1, Invariance, PTL

\* The poller keeps to a row's daily cap, but for one message per crash.
THEOREM DailyCeiling == Spec => []DailyCapHolds
<1>1. ASSUME IInv PROVE DailyCapHolds
  <2> SUFFICES ASSUME NEW s \in Subs PROVE today[s] <= DailyCap + crashes
    BY DEF DailyCapHolds
  <2>1. /\ sends[s] + Room(s) <= DailyCap /\ today[s] <= sends[s] + Room(s) + crashes
        /\ sends[s] \in Nat /\ today[s] \in Nat /\ crashes \in Nat /\ Room(s) \in {0, 1}
        /\ DailyCap \in Nat
    BY <1>1, SubscriptionsAssumption DEF IInv, Counting, TypeOK, Room
  <2> QED BY <2>1
<1> QED BY <1>1, Invariance, PTL

\* A signup is mailed at most twice, and once more per crash.
THEOREM TwoConfirmations == Spec => []ConfirmedAtMostTwice
<1>1. ASSUME IInv PROVE ConfirmedAtMostTwice
  <2> SUFFICES ASSUME NEW s \in Subs PROVE mailed[s] <= 2 + crashes
    BY DEF ConfirmedAtMostTwice
  <2>1. /\ mailed[s] <= Share(s) + Done(s) + crashes
        /\ mailed[s] \in Nat /\ crashes \in Nat /\ Share(s) \in {0, 1} /\ Done(s) \in {0, 1}
    BY <1>1 DEF IInv, Mailing, TypeOK, Share, Done
  <2> QED BY <2>1
<1> QED BY <1>1, Invariance, PTL

\* After an unsubscribe at most the request and one cycle still reach the row, however
\* often either process crashes.
THEOREM UnsubscribeIsQuiet == Spec => []QuietAfterUnsubscribe
<1>1. ASSUME IInv PROVE QuietAfterUnsubscribe
  <2> SUFFICES ASSUME NEW s \in Subs PROVE late[s] <= 2
    BY DEF QuietAfterUnsubscribe
  <2>1. /\ late[s] <= Share(s) + Spent(s)
        /\ late[s] \in Nat /\ Share(s) \in {0, 1} /\ Spent(s) \in {0, 1}
    BY <1>1 DEF IInv, Quiet, TypeOK, Share, Spent
  <2> QED BY <2>1
<1> QED BY <1>1, Invariance, PTL
=============================================================================
