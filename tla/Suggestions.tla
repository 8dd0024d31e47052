----------------------------- MODULE Suggestions -----------------------------
(***************************************************************************)
(* Visitors' suggestions: handler threads of the web server queue them     *)
(* (src/intake/web.py), the poller's SuggestionDetector answers them       *)
(* (src/intake/detectors/suggestions.py), if need be with a paid search    *)
(* behind GuardedResolver (src/intake/resolve.py), which is a conversation *)
(* of several billed requests.  The suggestions, company_resolutions and   *)
(* resolver_spend tables are durable; the queue a poll works through, its  *)
(* per-cycle allowance, the conversation it holds and the detections it    *)
(* has not returned yet are not.                                           *)
(*                                                                         *)
(* A suggestion is known by its key (schema.suggestion_key).  Time passes  *)
(* in days; an age stops growing once it no longer matters.                *)
(***************************************************************************)
EXTENDS Integers, Sequences, FiniteSets, FiniteSetsExt, Functions

CONSTANTS
  Requests,     \* submissions: the ids of the rows they may make
  Keys,         \* the identities of what is suggested
  Suggested,    \* what the submissions may suggest: maps of Requests to Keys
  Companies,    \* the keys suggested as a company; the others are URLs
  Plausible,    \* the companies whose name valid_company lets pass
  BoardsOf,     \* BoardsOf[k]: the ATS boards of company k, "lever" or "other"
  Budget,       \* paid searches per day
  PerCycle,     \* paid searches per cycle
  MaxTurns,     \* resolver_max_continuations: requests in one search
  DedupeDays,   \* SUGGEST_DEDUPE_DAYS
  CacheDays,    \* days a resolution is reused
  PaidModes,    \* whether a deployment may have the paid search
  MaxFaults     \* bound on the polls cut short in one behaviour

ASSUME SuggestionsAssumption ==
  /\ IsFiniteSet(Requests)
  /\ Suggested \subseteq [Requests -> Keys]
  /\ Companies \subseteq Keys
  /\ Plausible \subseteq Companies
  /\ BoardsOf \in [Companies -> SUBSET {"lever", "other"}]
  /\ {Budget, PerCycle, MaxTurns, DedupeDays, CacheDays} \subseteq Nat \ {0}
  /\ PaidModes \subseteq BOOLEAN
  /\ MaxFaults \in Nat

VARIABLES
  rows,       \* the suggestions table
  order,      \* order[i]: the submission that made the row with id i
  submit,     \* submit[r]: how far submission r is
  cache,      \* the company_resolutions table
  spent,      \* today's counter in resolver_spend
  paidOn,     \* whether this deployment built a resolver
  keyOf,      \* keyOf[r]: what submission r suggests
  pc,         \* the poller's place in its cycle
  queue,      \* the ids pending_suggestions returned, still to answer
  allowance,  \* _cycle_left
  turn,       \* requests made in the search at hand
  forced,     \* whether the tool's use is forced on the next one
  got,        \* the resolution in hand
  out,        \* detections the poll will return, then those still to upsert
  board,      \* what suggestions brought to the postings table
  promised,   \* rows whose answer said postings were found
  billed,     \* requests paid for today
  paid,       \* paid[k]: searches counted for k, since its entry last lapsed
  lost,       \* lost[k]: those of them whose resolution was not kept
  faults

vars == <<rows, order, submit, cache, spent, paidOn, keyOf, pc, queue, allowance, turn, forced,
          got, out, board, promised, billed, paid, lost, faults>>
tables == <<rows, order, cache, spent>>
given == <<paidOn, keyOf>>
web == <<order, submit>>
search == <<turn, forced, got>>
memory == <<queue, allowance, search, out>>
ledger == <<billed, paid, lost>>

Links == {"employer", "aggregator"}
Resolutions == {"postings", "nothing"}
NoEntry == [age |-> CacheDays, res |-> "nothing"]

SuggestionRow == [status : {"absent", "new", "matched", "no_match", "error"}, age : 0..DedupeDays]
CacheRow == [age : 0..CacheDays, res : Resolutions]

\* A company's name may cost a search; a URL costs nothing.
Worthwhile(k) == k \in Companies => k \in Plausible

\* Rows queued before the endpoint refused what is not worthwhile may still be there.
Init ==
  /\ keyOf \in Suggested
  /\ \E queued \in SUBSET {r \in Requests : ~Worthwhile(keyOf[r])} :
       /\ rows = [r \in Requests |->
                    [status |-> IF r \in queued THEN "new" ELSE "absent", age |-> 0]]
       /\ order \in Injection(1..Cardinality(queued), queued)
       /\ submit = [r \in Requests |-> IF r \in queued THEN "added" ELSE "none"]
  /\ cache = [k \in Keys |-> NoEntry]
  /\ spent = 0
  /\ paidOn \in PaidModes
  /\ pc = "idle"
  /\ queue = {}
  /\ allowance = PerCycle
  /\ turn = 0 /\ forced = FALSE
  /\ got = "nothing"
  /\ out = {}
  /\ board = {}
  /\ promised = {}
  /\ billed = 0
  /\ paid = [k \in Keys |-> 0]
  /\ lost = [k \in Keys |-> 0]
  /\ faults = 0

(***************************************************************************)
(* POST /api/suggest: refuse what is no company's name, look for a         *)
(* duplicate, then insert.                                                 *)
(***************************************************************************)
\* An open row, or a recent one however it was answered.
Duplicates(k) ==
  {r \in Requests : /\ keyOf[r] = k
                    /\ rows[r].status # "absent"
                    /\ rows[r].status = "new" \/ rows[r].age < DedupeDays}

Check(r) ==
  /\ submit[r] = "none"
  /\ submit' = [submit EXCEPT ![r] =
                  IF ~Worthwhile(keyOf[r]) THEN "refused"
                  ELSE IF Duplicates(keyOf[r]) = {} THEN "checked" ELSE "duplicate"]
  /\ UNCHANGED <<tables, given, pc, memory, board, promised, ledger, faults>>

AddSuggestion(r) ==
  /\ submit[r] = "checked"
  /\ submit' = [submit EXCEPT ![r] = "added"]
  /\ rows' = [rows EXCEPT ![r] = [status |-> "new", age |-> 0]]
  /\ order' = Append(order, r)
  /\ UNCHANGED <<cache, spent, given, pc, memory, board, promised, ledger, faults>>

(***************************************************************************)
(* The poll.  Answering a row is one write; its detections go to the list  *)
(* poll returns at the end.                                                *)
(***************************************************************************)
PendingSuggestions == {i \in DOMAIN order : rows[order[i]].status = "new"}

\* Faulty variants.  The operators named Bug... here and below are mistakes one could
\* make in the definition that follows each of them; no action uses them, and the
\* properties below are shown to fail when one takes its definition's place.
BugBeginCycle == allowance' = allowance
BeginCycle == allowance' = PerCycle

Poll ==
  /\ pc = "idle"
  /\ pc' = "poll"
  /\ BeginCycle
  /\ queue' = PendingSuggestions
  /\ UNCHANGED <<tables, submit, given, search, out, board, promised, ledger, faults>>

\* Rows are answered in the order of their ids.
First == order[Min(queue)]
At(r) == queue # {} /\ r = First
Rest == queue \ {Min(queue)}

BugAnswer(r, status, dets) ==
  /\ rows' = [rows EXCEPT ![r].status = status]
  /\ out' = dets
  /\ promised' = promised \cup (IF dets = {} THEN {} ELSE {r})
  /\ queue' = Rest
  /\ pc' = "poll"

Answer(r, status, dets) ==
  /\ rows' = [rows EXCEPT ![r].status = status]
  /\ out' = out \cup dets
  /\ promised' = promised \cup (IF dets = {} THEN {} ELSE {r})
  /\ queue' = Rest
  /\ pc' = "poll"

\* A page that answers is taken as it is; anything else ends the suggestion.
ProcessUrl(r) ==
  /\ pc = "poll" /\ At(r)
  /\ keyOf[r] \notin Companies
  /\ \/ Answer(r, "matched", {keyOf[r]})
     \/ \E status \in {"no_match", "error"} : Answer(r, status, {})
  /\ UNCHANGED <<web, cache, spent, given, allowance, search, board, ledger, faults>>

\* A board was found; its keywords may leave nothing of it.
ProbeHit(r) ==
  /\ pc = "poll" /\ At(r)
  /\ keyOf[r] \in Companies
  /\ "other" \in BoardsOf[keyOf[r]]
  /\ \E dets \in {{}, {keyOf[r]}} : Answer(r, "matched", dets)
  /\ UNCHANGED <<web, cache, spent, given, allowance, search, board, ledger, faults>>

\* Lever answers with a list, which has no .get: poll records the exception.
ProbeRaises(r) ==
  /\ pc = "poll" /\ At(r)
  /\ keyOf[r] \in Companies
  /\ "lever" \in BoardsOf[keyOf[r]]
  /\ Answer(r, "error", {})
  /\ UNCHANGED <<web, cache, spent, given, allowance, search, board, ledger, faults>>

\* No board, or none that answered: the search, unless there is none, or the name of
\* an old row is not worth it.
ProbeMiss(r) ==
  /\ pc = "poll" /\ At(r)
  /\ keyOf[r] \in Companies
  /\ \/ /\ ~paidOn \/ ~Worthwhile(keyOf[r])
        /\ Answer(r, "no_match", {})
     \/ /\ paidOn /\ Worthwhile(keyOf[r])
        /\ pc' = "research"
        /\ UNCHANGED <<rows, out, promised, queue>>
  /\ UNCHANGED <<web, cache, spent, given, allowance, search, board, ledger, faults>>

(***************************************************************************)
(* GuardedResolver.resolve: the cache, the two caps, and the call, counted *)
(* before it is made and cached after it returned.                         *)
(***************************************************************************)
BugCached(k) == cache[k].age < CacheDays /\ cache[k].res = "postings"
Cached(k) == cache[k].age < CacheDays
BugExhausted == spent > Budget \/ allowance = 0
Exhausted == spent >= Budget \/ allowance = 0

AnswerWith(r, res) ==
  \/ \E status \in {"matched", "no_match"} : Answer(r, status, {})
  \/ res = "postings" /\ Answer(r, "matched", {keyOf[r]})

CacheHit(r) ==
  /\ pc = "research" /\ At(r)
  /\ Cached(keyOf[r])
  /\ AnswerWith(r, cache[keyOf[r]].res)
  /\ UNCHANGED <<web, cache, spent, given, allowance, search, board, ledger, faults>>

\* An error of the resolver, its store's statements included, is caught row by row: the
\* row is answered with it, and the poll goes on to the next one.
DeepSearchFailed(r) == Answer(r, "error", {})

\* cached_resolution or resolver_calls_today raises.
LookupRaises(r) ==
  /\ pc = "research" /\ At(r)
  /\ DeepSearchFailed(r)
  /\ UNCHANGED <<web, cache, spent, given, allowance, search, board, ledger, faults>>

\* The row stays new, with a note that says why.
Defer(r) ==
  /\ pc = "research" /\ At(r)
  /\ ~Cached(keyOf[r])
  /\ Exhausted
  /\ queue' = Rest
  /\ pc' = "poll"
  /\ UNCHANGED <<tables, submit, given, allowance, search, out, board, promised, ledger, faults>>

CountCall(r) ==
  /\ pc = "research" /\ At(r)
  /\ ~Cached(keyOf[r])
  /\ ~Exhausted
  /\ allowance' = allowance - 1
  /\ spent' = spent + 1
  /\ paid' = [paid EXCEPT ![keyOf[r]] = @ + 1]
  /\ pc' = "call"
  /\ UNCHANGED <<web, rows, cache, given, queue, search, out, board, promised, billed, lost,
                 faults>>

\* count_resolver_call raises, with the count written or not; nothing is searched for.
CountRaises(r) ==
  /\ pc = "research" /\ At(r)
  /\ ~Cached(keyOf[r])
  /\ ~Exhausted
  /\ allowance' = allowance - 1
  /\ spent' \in {spent, spent + 1}
  /\ DeepSearchFailed(r)
  /\ UNCHANGED <<web, cache, given, search, board, ledger, faults>>

(***************************************************************************)
(* CompanyResolver.resolve: the conversation.  Each request is billed.     *)
(***************************************************************************)
Request(r) == pc = "call" /\ At(r) /\ billed' = billed + 1

Start == turn' = 0 /\ forced' = FALSE

\* The search is over, with a resolution or without one.
Settle(r, res) ==
  /\ got' = res
  /\ pc' = "keep"
  /\ Start

\* The postings of a recorded result that link to an employer's page are kept; a result
\* that does not validate is an empty one.
EmployerUrl(link) == link = "employer"
Checked(links) == IF \E l \in links : EmployerUrl(l) THEN "postings" ELSE "nothing"

Records(r) == \E links \in SUBSET Links : Settle(r, Checked(links))

Refuses(r) == Settle(r, "nothing")

\* Nothing was recorded: the conversation is sent again, until its turns are used up.
Continues(r, force) ==
  IF turn + 1 < MaxTurns
  THEN turn' = turn + 1 /\ forced' = force /\ UNCHANGED <<got, pc>>
  ELSE Settle(r, "nothing")

\* The server's search tool paused the turn: it is resumed as it was.
Pauses(r) == Continues(r, forced)

\* A turn that ends without a result: the tool is forced on the next one, once.
Talks(r) == IF forced THEN Settle(r, "nothing") ELSE Continues(r, TRUE)

CallReturns(r) ==
  /\ Request(r)
  /\ Records(r) \/ Refuses(r) \/ Pauses(r) \/ Talks(r)
  /\ UNCHANGED <<tables, submit, given, queue, allowance, out, board, promised, paid, lost, faults>>

\* The search counted for row r ends without a resolution in the cache.
Lost(r) == lost' = [lost EXCEPT ![keyOf[r]] = @ + 1]

CallRaises(r) ==
  /\ Request(r)
  /\ DeepSearchFailed(r)
  /\ Lost(r)
  /\ Start
  /\ UNCHANGED <<web, cache, spent, given, allowance, got, board, paid, faults>>

Kept(r) == cache' = [cache EXCEPT ![keyOf[r]] = [age |-> 0, res |-> got]]

CacheResolution(r) ==
  /\ pc = "keep" /\ At(r)
  /\ Kept(r)
  /\ pc' = "reply"
  /\ UNCHANGED <<web, rows, spent, given, memory, board, promised, ledger, faults>>

\* cache_resolution raises, with the entry written or not: what was paid for and found is
\* not given to this row.
CacheRaises(r) ==
  /\ pc = "keep" /\ At(r)
  /\ \/ Kept(r) /\ lost' = lost
     \/ Lost(r) /\ cache' = cache
  /\ DeepSearchFailed(r)
  /\ UNCHANGED <<web, spent, given, allowance, search, board, billed, paid, faults>>

Reply(r) ==
  /\ pc = "reply" /\ At(r)
  /\ AnswerWith(r, got)
  /\ UNCHANGED <<web, cache, spent, given, allowance, search, board, ledger, faults>>

(***************************************************************************)
(* poll returns and run_cycle upserts what it found.                       *)
(***************************************************************************)
FinishPoll ==
  /\ pc = "poll"
  /\ queue = {}
  /\ pc' = IF out = {} THEN "idle" ELSE "upsert"
  /\ UNCHANGED <<tables, submit, given, memory, board, promised, ledger, faults>>

Upsert(k) ==
  /\ pc = "upsert"
  /\ k \in out
  /\ board' = board \cup {k}
  /\ out' = out \ {k}
  /\ pc' = IF out' = {} THEN "idle" ELSE "upsert"
  /\ UNCHANGED <<tables, submit, given, queue, allowance, search, promised, ledger, faults>>

\* The process dies, or the store fails outside the resolver: in one of poll's own
\* statements, which run_cycle passes over, or in an upsert, which ends the process.  What
\* the poll had in memory is gone, and the rows it did not answer are still new.
Fault ==
  /\ pc # "idle"
  /\ faults < MaxFaults
  /\ faults' = faults + 1
  /\ pc' = "idle"
  /\ queue' = {}
  /\ out' = {}
  /\ Start
  /\ IF pc \in {"call", "keep"} THEN Lost(First) ELSE lost' = lost
  /\ UNCHANGED <<tables, submit, given, allowance, got, board, promised, billed, paid>>

BugOlder(age, days) == age + 1
Older(age, days) == IF age < days THEN age + 1 ELSE age

\* The resolution of k is a day from being too old.
Lapses(k) == cache[k].age = CacheDays - 1

\* UTC midnight.  A search in flight was counted on the day that ends.
NewDay ==
  /\ spent' = 0
  /\ billed' = 0
  /\ rows' = [r \in Requests |-> [rows[r] EXCEPT
                !.age = IF rows[r].status = "absent" THEN @ ELSE Older(@, DedupeDays)]]
  /\ cache' = [k \in Keys |-> [cache[k] EXCEPT !.age = Older(@, CacheDays)]]
  /\ paid' = [k \in Keys |-> IF Lapses(k) THEN 0 ELSE paid[k]]
  /\ lost' = [k \in Keys |-> IF Lapses(k) THEN 0 ELSE lost[k]]
  /\ UNCHANGED <<web, given, pc, memory, board, promised, faults>>

Submitting(r) == Check(r) \/ AddSuggestion(r)

Resolving(r) ==
  \/ CacheHit(r) \/ LookupRaises(r) \/ Defer(r)
  \/ CountCall(r) \/ CountRaises(r) \/ CallReturns(r) \/ CallRaises(r)
  \/ CacheResolution(r) \/ CacheRaises(r) \/ Reply(r)

Polling ==
  \/ Poll \/ FinishPoll
  \/ \E r \in Requests :
       ProcessUrl(r) \/ ProbeHit(r) \/ ProbeRaises(r) \/ ProbeMiss(r) \/ Resolving(r)
  \/ \E k \in Keys : Upsert(k)

Next == (\E r \in Requests : Submitting(r)) \/ Polling \/ Fault \/ NewDay

Spec == Init /\ [][Next]_vars

\* The poller keeps running and days keep passing.
FairSpec == Spec /\ WF_vars(Polling) /\ WF_vars(NewDay)

-----------------------------------------------------------------------------
(***************************************************************************)
(* Properties.                                                             *)
(***************************************************************************)
\* Every variable has its type.
TypeOK ==
  /\ rows \in [Requests -> SuggestionRow]
  /\ order \in Seq(Requests)
  /\ submit \in [Requests -> {"none", "checked", "added", "duplicate", "refused"}]
  /\ cache \in [Keys -> CacheRow]
  /\ spent \in Nat
  /\ paidOn \in BOOLEAN /\ keyOf \in [Requests -> Keys]
  /\ pc \in {"idle", "poll", "research", "call", "keep", "reply", "upsert"}
  /\ queue \subseteq DOMAIN order
  /\ allowance \in 0..PerCycle
  /\ turn \in 0..MaxTurns /\ forced \in BOOLEAN
  /\ pc = "call" => turn < MaxTurns
  /\ got \in Resolutions
  /\ out \subseteq Keys /\ board \subseteq Keys
  /\ promised \subseteq Requests
  /\ billed \in Nat
  /\ paid \in [Keys -> Nat] /\ lost \in [Keys -> Nat]
  /\ faults \in Nat

\* The daily budget is "the ceiling when every other layer is bypassed": however often
\* the poller dies between the count and the call, and however the conversations go, a
\* day's requests are those of its budgeted searches, but for one search that was counted
\* just before midnight.
BudgetHolds == billed <= (Budget + 1) * MaxTurns

\* One search per company while its resolution is fresh, although two visitors who submit
\* it at the same moment make two rows, and midnight may pass between them: another one is
\* counted only if the one before it left nothing in the cache, because a request raised,
\* the resolution could not be written - both of which answer the row with an error and let
\* the poll go on to the next row - or the poll was cut short.  A name that is no company's
\* is never searched for, and the rows queued before the endpoint refused such names are
\* no exception.
PaidOnce ==
  \A k \in Keys : paid[k] <= (IF k \in Plausible THEN 1 + lost[k] ELSE 0)

\* An answer that says postings were found is kept by a poll that is not cut short, though
\* other rows of it fail: they are on the board, or in the list the poll is about to return.
\* A kill does lose them, with the row answered; "nothing is lost but one cycle"
\* (k8s/32-deployment-poller.yaml) is false of them, as this is without its hypothesis.
PromiseKept == faults = 0 => \A r \in promised : keyOf[r] \in out \cup board

\* A suggestion held back by a spend cap is not forgotten: every row is answered.
EventuallyAnswered == \A r \in Requests : rows[r].status = "new" ~> rows[r].status # "new"
=============================================================================
