---------------------------- MODULE Subscriptions ----------------------------
(***************************************************************************)
(* Email alerts: the subscriptions and notify_sends tables                 *)
(* (src/intake/store.py) shared by two processes.  The web server's        *)
(* handler threads (src/intake/web.py) insert rows, mail the double opt-in *)
(* message and take clicks; the poller (src/intake/pipeline.py,            *)
(* senders.py, notify.py) prunes rows, mails the confirmations still owed  *)
(* and fans a cycle's postings out.  Each database write and each message  *)
(* is one step.                                                            *)
(*                                                                         *)
(* Time passes in ticks: a stamp and a limiter hit carry their age, which  *)
(* stops growing once it no longer matters.  All rows are email rows (a    *)
(* push row is never pruned, confirmed or mailed).                         *)
(***************************************************************************)
EXTENDS Integers, FiniteSets, FiniteSetsExt, Functions

CONSTANTS
  Subs,          \* subscription ids, numbered in the order rows are listed
  Addresses,
  AddressOf,     \* AddressOf[s]: the address row s was taken for
  ConfirmLimit,  \* confirmations one limiter lets through to an address ...
  Window,        \* ... in this many ticks
  Expiry,        \* ticks after which a mailed, unconfirmed row is deleted
  PendingLimit,  \* rows one cycle's backlog query returns
  DailyCap,      \* messages the poller sends one row per day
  Early,         \* rows whose signup was taken, and not mailed, while there was no channel
  Leavers,       \* rows whose owner may unsubscribe
  Matching,      \* rows whose filters some published posting may match
  Refused,       \* rows whose confirmation SES may refuse in every cycle, as it does
                 \* with an account that is still in its sandbox
  Channels,      \* how a deployment may start: see mail
  MaxCrashes     \* bound on the crashes of one behaviour

ASSUME SubscriptionsAssumption ==
  /\ Subs \subseteq Nat
  /\ AddressOf \in [Subs -> Addresses]
  /\ {ConfirmLimit, Window, Expiry, PendingLimit, DailyCap} \subseteq Nat \ {0}
  /\ {Early, Leavers, Matching, Refused} \subseteq SUBSET Subs
  /\ Channels \subseteq {"off", "blocked", "on"}
  /\ MaxCrashes \in Nat

VARIABLES
  table,    \* the subscriptions table
  sends,    \* sends[s]: today's counter of row s in notify_sends
  hits,     \* hits[p][a][n]: hits n ticks old in process p's CONFIRM_LIMIT window
  web,      \* web[s]: how far the subscribe request that makes row s is
  poller,   \* the poller's place in its cycle
  queue,    \* rows pending_confirmations returned, still to handle, by id
  todo,     \* rows the fan-out matched, still to handle
  mail,     \* "off": no SES client; "blocked": no postal address; "on"
  mailed,   \* mailed[s]: confirmations accepted for row s
  today,    \* today[s]: messages the poller got accepted for row s today
  alerted,  \* rows that were sent an alert
  left,     \* rows whose owner was shown UNSUBSCRIBED_PAGE
  late,     \* late[s]: messages accepted for row s after that
  crashes

vars == <<table, sends, hits, web, poller, queue, todo, mail, mailed, today, alerted, left, late,
          crashes>>
inbox == <<mailed, today, alerted, left, late>>

Processes == {"web", "poller"}
Unstamped == -1

Row == [stored : BOOLEAN, active : BOOLEAN, verified : BOOLEAN,
        stamp : {Unstamped} \cup 0..Expiry]

NoHits == [a \in Addresses |-> [n \in 0..(Window - 1) |-> 0]]

Init ==
  /\ table = [s \in Subs |-> [stored |-> s \in Early, active |-> TRUE, verified |-> FALSE,
                              stamp |-> Unstamped]]
  /\ sends = [s \in Subs |-> 0]
  /\ hits = [p \in Processes |-> NoHits]
  /\ web = [s \in Subs |-> IF s \in Early THEN "done" ELSE "none"]
  /\ poller = "idle"
  /\ queue = {}
  /\ todo = {}
  /\ mail \in Channels
  /\ mailed = [s \in Subs |-> 0]
  /\ today = [s \in Subs |-> 0]
  /\ alerted = {}
  /\ left = {}
  /\ late = [s \in Subs |-> 0]
  /\ crashes = 0

(***************************************************************************)
(* RateLimiter.allow, one window per process; a refusal leaves no hit.     *)
(***************************************************************************)
Allowed(p, s) == SumFunction(hits[p][AddressOf[s]]) < ConfirmLimit
Hit(p, s) == hits' = [hits EXCEPT ![p][AddressOf[s]][0] = @ + 1]

(***************************************************************************)
(* The store's statements.                                                 *)
(***************************************************************************)
Deactivated(t, s) == [t EXCEPT ![s].active = FALSE]

\* Faulty variants.  The operators named Bug... here and below are mistakes one could
\* make in the definition that follows each of them; no action uses them, and the
\* properties below are shown to fail when one takes its definition's place.
BugStampsVerified(t, s) ==
  [t EXCEPT ![s].stamp = IF @ = Unstamped /\ t[s].verified THEN 0 ELSE @]

\* mark_confirmation_sent keeps the first stamp.
Stamped(t, s) == [t EXCEPT ![s].stamp = IF @ = Unstamped THEN 0 ELSE @]

\* verify_by_token asks for the token only, not for an active row.
Verified(t, s) == [t EXCEPT ![s].verified = TRUE]

BugExpiresActive(s) ==
  /\ table[s].stored
  /\ table[s].active
  /\ ~table[s].verified
  /\ table[s].stamp = Expiry

Expired(s) ==
  /\ table[s].stored
  /\ ~table[s].verified
  /\ table[s].stamp = Expiry

Pending(s) ==
  /\ table[s].stored
  /\ table[s].active
  /\ ~table[s].verified
  /\ table[s].stamp = Unstamped

PendingConfirmations ==
  LET all == {s \in Subs : Pending(s)}
  IN  {s \in all : Cardinality({u \in all : u < s}) < PendingLimit}

BugCappedLate(s) == sends[s] > DailyCap
Capped(s) == sends[s] >= DailyCap

\* count_notify_send
Counted(s) == [sends EXCEPT ![s] = @ + 1]

\* A message SES accepted for row s.
Late(s) == late' = [late EXCEPT ![s] = IF s \in left THEN @ + 1 ELSE @]

(***************************************************************************)
(* POST /api/subscribe, in three steps: insert, confirm, stamp.            *)
(***************************************************************************)
Subscribe(s) ==
  /\ web[s] = "none"
  /\ table' = [table EXCEPT ![s].stored = TRUE]
  /\ web' = [web EXCEPT ![s] = "added"]
  /\ UNCHANGED <<sends, hits, poller, queue, todo, mail, inbox, crashes>>

\* No channel, or the address was mailed recently: the row is left unstamped.
WebSkip(s) ==
  /\ web[s] = "added"
  /\ mail = "off" \/ ~Allowed("web", s)
  /\ web' = [web EXCEPT ![s] = "done"]
  /\ UNCHANGED <<table, sends, hits, poller, queue, todo, mail, inbox, crashes>>

\* The limiter counts the attempt, not the delivery; this sender has no store, so
\* a permanent refusal deactivates nothing.
WebConfirm(s) ==
  /\ web[s] = "added"
  /\ mail # "off"
  /\ Allowed("web", s)
  /\ Hit("web", s)
  /\ \/ /\ mail = "on"
        /\ mailed' = [mailed EXCEPT ![s] = @ + 1]
        /\ Late(s)
        /\ web' = [web EXCEPT ![s] = "accepted"]
     \/ /\ web' = [web EXCEPT ![s] = "done"]
        /\ UNCHANGED <<mailed, late>>
  /\ UNCHANGED <<table, sends, poller, queue, todo, mail, today, alerted, left, crashes>>

WebStamp(s) ==
  /\ web[s] = "accepted"
  /\ table' = Stamped(table, s)
  /\ web' = [web EXCEPT ![s] = "done"]
  /\ UNCHANGED <<sends, hits, poller, queue, todo, mail, inbox, crashes>>

(***************************************************************************)
(* The subscriber: the verify token is only ever in a message, the         *)
(* unsubscribe token is in every message and in the response.              *)
(***************************************************************************)
Click(s) ==
  /\ mailed[s] > 0
  /\ table[s].stored
  /\ ~table[s].verified
  /\ table' = Verified(table, s)
  /\ UNCHANGED <<sends, hits, web, poller, queue, todo, mail, inbox, crashes>>

\* Deactivating an inactive row is the same write, and shows the same page.
Unsubscribe(s) ==
  /\ s \in Leavers
  /\ web[s] = "done" \/ mailed[s] > 0
  /\ table[s].stored
  /\ table' = Deactivated(table, s)
  /\ left' = left \cup {s}
  /\ UNCHANGED <<sends, hits, web, poller, queue, todo, mail, mailed, today, alerted, late, crashes>>

(***************************************************************************)
(* The poller's cycle: prune, mail the backlog, fan out.                   *)
(***************************************************************************)
Prune ==
  /\ poller = "idle"
  /\ table' = [s \in Subs |-> [table[s] EXCEPT !.stored = @ /\ ~Expired(s)]]
  /\ poller' = "pruned"
  /\ UNCHANGED <<sends, hits, web, queue, todo, mail, inbox, crashes>>

ReadBacklog ==
  /\ poller = "pruned"
  /\ queue' = IF mail = "on" THEN PendingConfirmations ELSE {}
  /\ poller' = "confirm"
  /\ UNCHANGED <<table, sends, hits, web, todo, mail, inbox, crashes>>

ConfirmSkip(s) ==
  /\ poller = "confirm"
  /\ queue # {} /\ s = Min(queue)
  /\ Capped(s) \/ ~Allowed("poller", s)
  /\ queue' = queue \ {s}
  /\ UNCHANGED <<table, sends, hits, web, poller, todo, mail, inbox, crashes>>

TryConfirm(s) ==
  /\ poller = "confirm"
  /\ queue # {} /\ s = Min(queue)
  /\ ~Capped(s) /\ Allowed("poller", s)
  /\ Hit("poller", s)

ConfirmAccepted(s) ==
  /\ TryConfirm(s)
  /\ mailed' = [mailed EXCEPT ![s] = @ + 1]
  /\ today' = [today EXCEPT ![s] = @ + 1]
  /\ Late(s)
  /\ poller' = "stamp"
  /\ UNCHANGED <<table, sends, web, queue, todo, mail, alerted, left, crashes>>

\* A permanent failure retires the row; any other, the sandbox's included, leaves it for
\* the next cycle.
ConfirmRefused(s) ==
  /\ TryConfirm(s)
  /\ table' \in {table, Deactivated(table, s)}
  /\ queue' = queue \ {s}
  /\ UNCHANGED <<sends, web, poller, todo, mail, inbox, crashes>>

ConfirmStamp ==
  /\ poller = "stamp"
  /\ table' = Stamped(table, Min(queue))
  /\ poller' = "count"
  /\ UNCHANGED <<sends, hits, web, queue, todo, mail, inbox, crashes>>

ConfirmCount ==
  /\ poller = "count"
  /\ sends' = Counted(Min(queue))
  /\ queue' = queue \ {Min(queue)}
  /\ poller' = "confirm"
  /\ UNCHANGED <<table, hits, web, todo, mail, inbox, crashes>>

BugDeliversUnverified(s) == table[s].stored /\ table[s].active
BugDeliversInactive(s) == table[s].stored /\ table[s].verified

\* active_subscriptions is read once; _deliverable and _matches decide on that copy.
Deliverable(s) == table[s].stored /\ table[s].active /\ table[s].verified

FanOut ==
  /\ poller = "confirm"
  /\ queue = {}
  /\ todo' \in SUBSET {s \in Matching : Deliverable(s)}
  /\ poller' = IF todo' = {} THEN "idle" ELSE "alert"
  /\ UNCHANGED <<table, sends, hits, web, queue, mail, inbox, crashes>>

AlertSkip(s) ==
  /\ poller = "alert"
  /\ s = Min(todo)
  /\ Capped(s)
  /\ todo' = todo \ {s}
  /\ poller' = IF todo' = {} THEN "idle" ELSE "alert"
  /\ UNCHANGED <<table, sends, hits, web, queue, mail, inbox, crashes>>

\* The send, whatever comes of it, is counted in the next step.
Alert(s) ==
  /\ poller = "alert"
  /\ s = Min(todo)
  /\ ~Capped(s)
  /\ poller' = "tally"
  /\ \/ /\ mail = "on"
        /\ today' = [today EXCEPT ![s] = @ + 1]
        /\ alerted' = alerted \cup {s}
        /\ Late(s)
        /\ table' = table
     \/ /\ table' \in {table} \cup (IF mail = "on" THEN {Deactivated(table, s)} ELSE {})
        /\ UNCHANGED <<today, alerted, late>>
  /\ UNCHANGED <<sends, hits, web, queue, todo, mail, mailed, left, crashes>>

AlertCount(s) ==
  /\ poller = "tally"
  /\ s = Min(todo)
  /\ sends' = Counted(s)
  /\ todo' = todo \ {s}
  /\ poller' = IF todo' = {} THEN "idle" ELSE "alert"
  /\ UNCHANGED <<table, hits, web, queue, mail, inbox, crashes>>

(***************************************************************************)
(* Time, crashes, and the deployment that turns the channel on.            *)
(***************************************************************************)
BugKeepsHits(h) == [n \in 0..Window |-> IF n = 0 THEN 0 ELSE h[n - 1]]
BugNeverSlides(h) == h
OlderHits(h) == [n \in 0..(Window - 1) |-> IF n = 0 THEN 0 ELSE h[n - 1]]

Tick ==
  /\ table' = [s \in Subs |-> [table[s] EXCEPT
                 !.stamp = IF @ \in 0..(Expiry - 1) THEN @ + 1 ELSE @]]
  /\ hits' = [p \in Processes |-> [a \in Addresses |-> OlderHits(hits[p][a])]]
  /\ UNCHANGED <<sends, web, poller, queue, todo, mail, inbox, crashes>>

NewDay ==
  /\ sends' = [s \in Subs |-> 0]
  /\ today' = [s \in Subs |-> 0]
  /\ UNCHANGED <<table, hits, web, poller, queue, todo, mail, mailed, alerted, left, late, crashes>>

StopPoller ==
  /\ poller' = "idle"
  /\ queue' = {}
  /\ todo' = {}

\* A request in flight is lost with its process: the row stays, the answer does not
\* come.
StopWeb == web' = [s \in Subs |-> IF web[s] \in {"added", "accepted"} THEN "lost" ELSE web[s]]

Forget(procs) ==
  hits' = [p \in Processes |-> IF p \in procs THEN NoHits ELSE hits[p]]

PollerCrash ==
  /\ crashes < MaxCrashes
  /\ crashes' = crashes + 1
  /\ StopPoller
  /\ Forget({"poller"})
  /\ UNCHANGED <<table, sends, web, mail, inbox>>

WebCrash ==
  /\ crashes < MaxCrashes
  /\ crashes' = crashes + 1
  /\ StopWeb
  /\ Forget({"web"})
  /\ UNCHANGED <<table, sends, poller, queue, todo, mail, inbox>>

TurnOn ==
  /\ mail # "on"
  /\ mail' = "on"
  /\ StopPoller
  /\ StopWeb
  /\ Forget(Processes)
  /\ UNCHANGED <<table, sends, inbox, crashes>>

Request(s) == WebSkip(s) \/ WebConfirm(s) \/ WebStamp(s)

Backlog ==
  \/ Prune \/ ReadBacklog
  \/ \E s \in Subs : ConfirmSkip(s) \/ ConfirmAccepted(s) \/ ConfirmRefused(s)
  \/ ConfirmStamp \/ ConfirmCount

Alerts == FanOut \/ \E s \in Subs : AlertSkip(s) \/ Alert(s) \/ AlertCount(s)

Next ==
  \/ \E s \in Subs : Subscribe(s) \/ Request(s) \/ Click(s) \/ Unsubscribe(s)
  \/ Backlog \/ Alerts
  \/ Tick \/ NewDay
  \/ PollerCrash \/ WebCrash \/ TurnOn

Spec == Init /\ [][Next]_vars

\* Both processes keep running and time keeps passing.  SES may refuse any number of
\* confirmations of a row; only those it may refuse for ever are named in Refused.
Fairness ==
  /\ WF_vars(Backlog \/ Alerts)
  /\ WF_vars(Tick)
  /\ WF_vars(NewDay)
  /\ \A s \in Subs : WF_vars(Request(s))
  /\ \A s \in Subs \ Refused : SF_vars(ConfirmAccepted(s))

FairSpec == Spec /\ Fairness

-----------------------------------------------------------------------------
(***************************************************************************)
(* Properties.                                                             *)
(***************************************************************************)
\* Every variable has its type.
TypeOK ==
  /\ table \in [Subs -> Row]
  /\ sends \in [Subs -> Nat]
  /\ hits \in [Processes -> [Addresses -> [0..(Window - 1) -> Nat]]]
  /\ web \in [Subs -> {"none", "added", "accepted", "done", "lost"}]
  /\ poller \in {"idle", "pruned", "confirm", "stamp", "count", "alert", "tally"}
  /\ queue \subseteq Subs
  /\ todo \subseteq Subs
  /\ mail \in {"off", "blocked", "on"}
  /\ mailed \in [Subs -> Nat] /\ today \in [Subs -> Nat] /\ late \in [Subs -> Nat]
  /\ alerted \subseteq Subs /\ left \subseteq Subs
  /\ crashes \in Nat

\* Nobody receives a posting who did not click a link that was mailed to the address:
\* an alerted row was sent its confirmation first and is still on record as verified.
AlertNeedsOptIn ==
  \A s \in alerted : mailed[s] > 0 /\ table[s].stored /\ table[s].verified

\* The poller delivers a row at most DailyCap messages a day, confirmation included,
\* plus one for each crash between a delivery and its count.
DailyCapHolds == \A s \in Subs : today[s] <= DailyCap + crashes

\* One signup is mailed at most twice, once by the request and once by a poller that
\* read the row before the request stamped it, plus once per crash before a stamp.
ConfirmedAtMostTwice == \A s \in Subs : mailed[s] <= 2 + crashes

\* A row that was unsubscribed is out of the next query of either kind, but what is in
\* flight may still reach it: the request that made it, mailing a confirmation the poller
\* mailed first, and the copy of it a cycle is working on.  Nothing else is sent, and a
\* crash adds nothing to it.  The code does not keep what the page says, "Nothing further
\* will be sent to it" (UNSUBSCRIBED_PAGE, web.py): with 0 for 2 this is false.
QuietAfterUnsubscribe == \A s \in Subs : late[s] <= 2

\* The rows the refused ones do not crowd out: fewer of them are ahead than the backlog
\* query returns, and none uses up the address's window with attempts that come to nothing.
Unobstructed ==
  {s \in Subs \ Refused :
     /\ Cardinality({u \in Refused : u < s}) < PendingLimit
     /\ \A u \in Refused : AddressOf[u] # AddressOf[s]}

\* A signup owed its confirmation gets it, once the channel works.
Drains(s) == (Pending(s) /\ mail = "on") ~> (mailed[s] > 0 \/ ~table[s].active)

\* A signup that was not mailed when it was made is mailed later, once the channel works,
\* unless it is retired first, by its owner or because SES rejects its address.  However
\* many signups are ahead of it, they take their turns, and make way; only those SES
\* refuses in every cycle do not, and there have to be fewer of them than one query returns.
BacklogDrains == \A s \in Unobstructed : Drains(s)

\* "turns that stored consent into the message it was promised, on the first cycle after
\* sending works ... so a launch-day backlog drains" (send_pending_confirmations,
\* senders.py): every signup SES would accept is mailed.
BacklogAlwaysDrains == \A s \in Subs \ Refused : Drains(s)

\* A signup that was mailed is in the end confirmed or forgotten, and is forgotten only when
\* it was mailed and its whole window has passed.
MailedIsSettled ==
  \A s \in Subs :
    /\ (table[s].stored /\ table[s].stamp # Unstamped) ~> (table[s].verified \/ ~table[s].stored)
    /\ [](web[s] # "none" /\ ~table[s].stored => mailed[s] > 0 /\ table[s].stamp = Expiry)

\* "An address nobody confirmed must still stop being stored" (pipeline.py): every email
\* row is in the end confirmed or deleted.
UnconfirmedExpires ==
  \A s \in Subs : table[s].stored ~> (table[s].verified \/ ~table[s].stored)
=============================================================================
