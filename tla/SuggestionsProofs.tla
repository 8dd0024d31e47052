-------------------------- MODULE SuggestionsProofs --------------------------
(***************************************************************************)
(* Proofs about Suggestions, for every value of its constants: any number  *)
(* of visitors, companies, requests in a search, days and faults.          *)
(***************************************************************************)
EXTENDS Suggestions, NatLemmas, TLAPS

\* The queue of a poll holds ids of the table, whose rows the submissions made.  That
\* this is inductive on its own keeps it out of the steps of the rest.
Queued ==
  /\ order \in Seq(Requests)
  /\ submit \in [Requests -> {"none", "checked", "added", "duplicate", "refused"}]
  /\ queue \subseteq DOMAIN order

\* Every other variable has its type.
Typed ==
  /\ rows \in [Requests -> SuggestionRow]
  /\ cache \in [Keys -> CacheRow]
  /\ spent \in Nat /\ billed \in Nat /\ faults \in Nat
  /\ paidOn \in BOOLEAN /\ keyOf \in [Requests -> Keys]
  /\ pc \in {"idle", "poll", "research", "call", "keep", "reply", "upsert"}
  /\ allowance \in 0..PerCycle
  /\ turn \in 0..MaxTurns /\ forced \in BOOLEAN
  /\ pc = "call" => turn < MaxTurns
  /\ got \in Resolutions
  /\ out \subseteq Keys /\ board \subseteq Keys /\ promised \subseteq Requests
  /\ paid \in [Keys -> Nat] /\ lost \in [Keys -> Nat]

\* The requests paid for today: those of the searches counted today, and of one more
\* that may have been counted before midnight; in a search, those it has made so far.
Bills ==
  /\ spent <= Budget
  /\ IF pc = "call"
     THEN billed <= spent * MaxTurns + turn
     ELSE turn = 0 /\ billed <= (spent + 1) * MaxTurns

\* A search is only for a name that may be a company's, and the row it answers waits.
Asking ==
  pc \in {"research", "call", "keep", "reply"} =>
    queue # {} /\ First \in Requests /\ keyOf[First] \in Plausible

\* The searches counted for a company: those whose resolution was not kept, and one more,
\* only if its resolution is in the cache, or is on its way there.
Underway == pc \in {"call", "keep"}
Bought(k) == Cached(k) \/ (Underway /\ keyOf[First] = k)
Searches ==
  /\ Underway => ~Cached(keyOf[First])
  /\ \A k \in Keys \ Plausible : paid[k] = 0
  /\ \A k \in Plausible : paid[k] <= lost[k] + 1
  /\ \A k \in Plausible : ~Bought(k) => paid[k] <= lost[k]

IInv == Typed /\ Bills /\ Asking /\ Searches /\ PromiseKept

-----------------------------------------------------------------------------
(***************************************************************************)
(* The queue and the order of the rows.                                    *)
(***************************************************************************)
\* The rows are in the order in which they were made, and stay there.
LEMMA InitQueued == Init => Queued
<1> SUFFICES ASSUME Init PROVE Queued
  OBVIOUS
<1>1. PICK queued \in SUBSET Requests :
        /\ order \in Injection(1..Cardinality(queued), queued)
        /\ submit = [r \in Requests |-> IF r \in queued THEN "added" ELSE "none"]
  BY DEF Init
<1>2. Cardinality(queued) \in Nat
  BY SuggestionsAssumption, FS_Subset, FS_CardinalityType
<1>3. order \in [1..Cardinality(queued) -> Requests]
  BY <1>1 DEF Injection, IsInjective
<1>4. order \in Seq(Requests)
  BY <1>2, <1>3
<1>5. queue = {}
  BY DEF Init
<1> QED BY <1>1, <1>4, <1>5 DEF Queued

\* Every step leaves the queue a set of ids of the table.
LEMMA StepQueued ==
  ASSUME Queued, [Next]_vars
  PROVE  Queued'
<1>1. CASE UNCHANGED vars
  BY <1>1 DEF vars, Queued
<1>2. ASSUME NEW r \in Requests, Check(r) PROVE Queued'
  BY <1>2 DEF Check, tables, memory, Queued
<1>3. ASSUME NEW r \in Requests, AddSuggestion(r) PROVE Queued'
  <2>1. order' = Append(order, r) /\ queue' = queue
        /\ submit' = [submit EXCEPT ![r] = "added"]
    BY <1>3 DEF AddSuggestion, memory
  <2>2. order' \in Seq(Requests) /\ DOMAIN order \subseteq DOMAIN order'
    BY <2>1 DEF Queued
  <2> QED BY <2>1, <2>2 DEF Queued
<1>4. CASE Poll
  BY <1>4 DEF Poll, PendingSuggestions, tables, Queued
<1>5. CASE FinishPoll \/ (\E k \in Keys : Upsert(k))
  BY <1>5 DEF FinishPoll, Upsert, tables, memory, Queued
<1>6. ASSUME NEW r \in Requests,
             ProcessUrl(r) \/ ProbeHit(r) \/ ProbeRaises(r) \/ ProbeMiss(r) \/ Resolving(r)
      PROVE  Queued'
  <2>1. UNCHANGED <<order, submit>>
    BY <1>6 DEF ProcessUrl, ProbeHit, ProbeRaises, ProbeMiss, Resolving, CacheHit,
                LookupRaises, Defer, CountCall, CountRaises, CallReturns, CallRaises,
                CacheResolution, CacheRaises, Reply, web, tables
  <2>2. queue' \subseteq queue
    <3>1. \A status, dets : Answer(r, status, dets) => queue' \subseteq queue
      BY DEF Answer, Rest
    <3>2. \A res : AnswerWith(r, res) => queue' \subseteq queue
      BY <3>1 DEF AnswerWith
    <3> QED BY <1>6, <3>1, <3>2 DEF ProcessUrl, ProbeHit, ProbeRaises, ProbeMiss, Resolving,
                 CacheHit, LookupRaises, Defer, CountCall, CountRaises, CallReturns, CallRaises,
                 CacheResolution, CacheRaises, DeepSearchFailed, Reply, Rest, memory
  <2> QED BY <2>1, <2>2 DEF Queued
<1>7. CASE Fault
  BY <1>7 DEF Fault, tables, Queued
<1>8. CASE NewDay
  BY <1>8 DEF NewDay, web, memory, Queued
<1> QED BY <1>1, <1>2, <1>3, <1>4, <1>5, <1>6, <1>7, <1>8 DEF Next, Submitting, Polling

\* A row added while the poll works does not change which one it answers next.
LEMMA SubmittingKeepsFirst ==
  ASSUME Queued, queue # {}, NEW r \in Requests, Submitting(r)
  PROVE  First' = First
<1>1. queue' = queue
  BY DEF Submitting, Check, AddSuggestion, memory
<1>2. order' = order \/ order' = Append(order, r)
  BY DEF Submitting, Check, AddSuggestion, tables
<1>3. order \in Seq(Requests) /\ queue \subseteq 1..Len(order)
  BY DEF Queued
<1>4. Min(queue) \in queue
  <2>1. PICK m \in queue : \A n \in queue : m <= n
    BY <1>3, LeastNat
  <2> QED BY <2>1 DEF Min
<1>5. ASSUME NEW i \in queue PROVE order'[i] = order[i]
  <2>1. i \in 1..Len(order) /\ r \in Requests
    BY <1>3
  <2>2. Append(order, r)[i] = order[i]
    BY <1>3, <2>1
  <2> QED BY <1>2, <2>2
<1> QED BY <1>1, <1>4, <1>5 DEF First

-----------------------------------------------------------------------------
(***************************************************************************)
(* The steps, by what they change.                                         *)
(***************************************************************************)
\* Answering a row with the posting it asked for, or with none.
LEMMA AnswerKeeps ==
  ASSUME Typed, PromiseKept, NEW r \in Requests, NEW status \in {"matched", "no_match", "error"},
         NEW dets \in {{}, {keyOf[r]}}, Answer(r, status, dets)
  PROVE  /\ rows' \in [Requests -> SuggestionRow]
         /\ out' \subseteq Keys /\ promised' \subseteq Requests /\ pc' = "poll"
         /\ keyOf' = keyOf /\ board' = board /\ faults' = faults => PromiseKept'
<1>1. rows' \in [Requests -> SuggestionRow]
  <2>1. [rows[r] EXCEPT !.status = status] \in SuggestionRow
    BY DEF Typed, SuggestionRow
  <2>2. rows' = [rows EXCEPT ![r] = [rows[r] EXCEPT !.status = status]]
    BY DEF Answer
  <2> QED BY <2>1, <2>2 DEF Typed
<1>2. out' \subseteq Keys /\ promised' \subseteq Requests /\ pc' = "poll"
  BY DEF Answer, Typed
<1>3. out' = out \cup dets /\ promised' = promised \cup (IF dets = {} THEN {} ELSE {r})
  BY DEF Answer
<1>4. keyOf' = keyOf /\ board' = board /\ faults' = faults => PromiseKept'
  BY <1>3 DEF PromiseKept
<1> QED BY <1>1, <1>2, <1>4

\* The steps that answer a row without paying for it.
Answers(r) ==
  \/ ProcessUrl(r) \/ ProbeHit(r) \/ ProbeRaises(r)
  \/ CacheHit(r) \/ LookupRaises(r) \/ Reply(r)
  \/ ProbeMiss(r) /\ pc' = "poll"

\* Answering a row without paying for it keeps the invariant.
LEMMA AnswersStep ==
  ASSUME IInv, NEW r \in Requests, Answers(r)
  PROVE  IInv'
<1>1. /\ pc \in {"poll", "research", "reply"}
      /\ UNCHANGED <<cache, spent, paidOn, keyOf, allowance, turn, forced, got, board, billed, paid,
                     lost, faults>>
  BY DEF Answers, ProcessUrl, ProbeHit, ProbeRaises, ProbeMiss, CacheHit, LookupRaises, Reply, web,
         given, search, ledger
<1>2. PICK status \in {"matched", "no_match", "error"}, dets \in {{}, {keyOf[r]}} :
        Answer(r, status, dets)
  <2>1. ProbeMiss(r) /\ pc' = "poll" => Answer(r, "no_match", {})
    BY DEF ProbeMiss
  <2>2. \A res : AnswerWith(r, res) =>
          \E status \in {"matched", "no_match", "error"}, dets \in {{}, {keyOf[r]}} :
            Answer(r, status, dets)
    BY DEF AnswerWith
  <2>3. CacheHit(r) \/ Reply(r) => \E res : AnswerWith(r, res)
    BY DEF CacheHit, Reply
  <2>4. ProcessUrl(r) \/ ProbeHit(r) \/ ProbeRaises(r) \/ LookupRaises(r) =>
          \E status \in {"matched", "no_match", "error"}, dets \in {{}, {keyOf[r]}} :
            Answer(r, status, dets)
    BY DEF ProcessUrl, ProbeHit, ProbeRaises, LookupRaises, DeepSearchFailed
  <2> QED BY <2>1, <2>2, <2>3, <2>4 DEF Answers
<1>3. /\ rows' \in [Requests -> SuggestionRow]
      /\ out' \subseteq Keys /\ promised' \subseteq Requests /\ pc' = "poll" /\ PromiseKept'
  BY <1>1, <1>2, AnswerKeeps DEF IInv
<1>4. Typed'
  BY <1>1, <1>3 DEF IInv, Typed
<1>5. Bills'
  BY <1>1, <1>3 DEF IInv, Bills
<1>6. Asking'
  BY <1>3 DEF Asking
<1>7. Searches'
  BY <1>1, <1>3 DEF IInv, Searches, Bought, Underway, Cached
<1> QED BY <1>3, <1>4, <1>5, <1>6, <1>7 DEF IInv

\* The steps that touch neither money nor answers, of the web server and of the poll.
LEMMA WebStep ==
  ASSUME IInv, Queued, NEW r \in Requests, Submitting(r)
  PROVE  IInv'
<1>1. UNCHANGED <<cache, spent, given, pc, memory, board, promised, ledger, faults>>
  BY DEF Submitting, Check, AddSuggestion, tables
<1>2. rows' \in [Requests -> SuggestionRow]
  <2>1. [status |-> "new", age |-> 0] \in SuggestionRow
    BY SuggestionsAssumption DEF SuggestionRow
  <2> QED BY <2>1 DEF Submitting, Check, AddSuggestion, tables, IInv, Typed
<1>3. UNCHANGED <<cache, spent, paidOn, keyOf, pc, queue, allowance, turn, forced, got, out, board,
                  promised, billed, paid, lost, faults>>
  BY <1>1 DEF given, memory, search, ledger
<1>4. Typed' /\ PromiseKept'
  BY <1>2, <1>3 DEF IInv, Typed, PromiseKept
<1>5. queue # {} => First' = First
  BY <1>3, SubmittingKeepsFirst
<1>6. Bills' /\ Asking'
  BY <1>3, <1>5 DEF IInv, Bills, Asking
<1>7. Searches'
  <2>1. pc \in {"call", "keep"} => First' = First
    BY <1>5 DEF IInv, Asking
  <2> QED BY <1>3, <2>1 DEF IInv, Searches, Bought, Underway, Cached
<1> QED BY <1>4, <1>6, <1>7 DEF IInv

\* The steps of a poll around its rows keep the invariant.
LEMMA PollStep ==
  ASSUME IInv, Poll \/ FinishPoll \/ (\E k \in Keys : Upsert(k))
  PROVE  IInv'
<1>1. /\ pc \in {"idle", "poll", "upsert"} /\ pc' \in {"idle", "poll", "upsert"}
      /\ UNCHANGED <<rows, cache, spent, paidOn, keyOf, turn, forced, got, promised, billed, paid,
                     lost, faults>>
  BY DEF Poll, FinishPoll, Upsert, tables, given, memory, search, ledger
<1>2. /\ allowance' \in {allowance, PerCycle}
      /\ out' \subseteq out /\ board' \subseteq board \cup out
      /\ out \cup board = out' \cup board'
  BY DEF Poll, FinishPoll, Upsert, BeginCycle, memory
<1>3. Typed'
  BY <1>1, <1>2, SuggestionsAssumption DEF IInv, Typed
<1>4. PromiseKept'
  BY <1>1, <1>2 DEF IInv, PromiseKept
<1>5. Bills' /\ Asking'
  BY <1>1 DEF IInv, Bills, Asking
<1>6. Searches'
  BY <1>1 DEF IInv, Searches, Bought, Underway, Cached
<1> QED BY <1>3, <1>4, <1>5, <1>6 DEF IInv

\* A search is begun for a name that may be a company's, or put off.
LEMMA BeginStep ==
  ASSUME IInv, NEW r \in Requests, (ProbeMiss(r) /\ pc' = "research") \/ Defer(r)
  PROVE  IInv'
<1>1. /\ pc \in {"poll", "research"} /\ pc' \in {"poll", "research"}
      /\ UNCHANGED <<rows, cache, spent, paidOn, keyOf, allowance, turn, forced, got, out, board,
                     promised, billed, paid, lost, faults>>
  BY DEF ProbeMiss, Answer, Defer, web, tables, given, search, ledger
<1>2. Typed' /\ PromiseKept'
  BY <1>1 DEF IInv, Typed, PromiseKept
<1>3. Bills'
  BY <1>1 DEF IInv, Bills
<1>4. Asking'
  <2>1. CASE Defer(r)
    BY <2>1 DEF Defer, Asking
  <2>2. CASE ProbeMiss(r) /\ pc' = "research"
    BY <2>2 DEF ProbeMiss, Answer, At, First, Worthwhile, web, given, Asking
  <2> QED BY <2>1, <2>2
<1>5. Searches'
  BY <1>1 DEF IInv, Searches, Bought, Underway, Cached
<1> QED BY <1>2, <1>3, <1>4, <1>5 DEF IInv

\* A search is counted, within both caps, before its first request.
LEMMA CountStep ==
  ASSUME IInv, NEW r \in Requests, CountCall(r)
  PROVE  IInv'
<1>1. /\ pc = "research" /\ pc' = "call" /\ spent' = spent + 1 /\ allowance' = allowance - 1
      /\ r = First /\ ~Cached(keyOf[First]) /\ spent < Budget /\ allowance # 0
      /\ paid' = [paid EXCEPT ![keyOf[r]] = paid[keyOf[r]] + 1]
      /\ UNCHANGED <<rows, cache, paidOn, keyOf, queue, First, turn, forced, got, out, board,
                     promised, billed, lost, faults>>
  <2>1. spent \in Nat /\ Budget \in Nat
    BY SuggestionsAssumption DEF IInv, Typed
  <2> QED BY <2>1 DEF CountCall, At, Exhausted, First, web, given, search
<1>2. /\ keyOf[r] \in Plausible /\ keyOf[r] \in Keys /\ Plausible \subseteq Keys
      /\ paid \in [Keys -> Nat] /\ lost \in [Keys -> Nat]
  BY <1>1, SuggestionsAssumption DEF IInv, Asking, Typed
<1>3. Typed' /\ PromiseKept'
  <2>1. paid' \in [Keys -> Nat]
    BY <1>1, <1>2
  <2> QED BY <1>1, <2>1, SuggestionsAssumption DEF IInv, Typed, PromiseKept, Bills
<1>4. Bills'
  BY <1>1, SuggestionsAssumption DEF IInv, Bills, Typed
<1>5. Asking'
  BY <1>1 DEF IInv, Asking
<1>6. Searches'
  <2>1. \A k \in Keys \ {keyOf[r]} : paid'[k] = paid[k]
    BY <1>1, <1>2
  <2>2. paid'[keyOf[r]] = paid[keyOf[r]] + 1
    BY <1>1, <1>2
  <2>3. paid[keyOf[r]] <= lost[keyOf[r]]
    BY <1>1, <1>2 DEF IInv, Searches, Bought, Underway
  <2>4. \A k \in Keys \ Plausible : paid'[k] = 0
    BY <1>2, <2>1 DEF IInv, Searches
  <2>5. \A k \in Plausible : paid'[k] <= lost'[k] + 1
    BY <1>1, <1>2, <2>1, <2>2, <2>3 DEF IInv, Searches
  <2>6. ASSUME NEW k \in Plausible, ~Bought(k)' PROVE paid'[k] <= lost'[k]
    <3>1. k # keyOf[r] /\ ~Bought(k)
      BY <1>1, <2>6 DEF Bought, Underway, Cached
    <3> QED BY <1>1, <1>2, <2>1, <3>1 DEF IInv, Searches
  <2>7. Underway' => ~Cached(keyOf[First])'
    BY <1>1 DEF Cached
  <2> QED BY <2>4, <2>5, <2>6, <2>7 DEF Searches
<1> QED BY <1>3, <1>4, <1>5, <1>6 DEF IInv

\* A count that raises, written or not, answers its row, and nothing is searched for.
LEMMA CountRaisesStep ==
  ASSUME IInv, NEW r \in Requests, CountRaises(r)
  PROVE  IInv'
<1>1. /\ pc = "research" /\ spent' \in {spent, spent + 1} /\ allowance' = allowance - 1
      /\ spent < Budget /\ allowance # 0
      /\ UNCHANGED <<cache, paidOn, keyOf, turn, forced, got, board, billed, paid, lost, faults>>
  <2>1. spent \in Nat /\ Budget \in Nat
    BY SuggestionsAssumption DEF IInv, Typed
  <2> QED BY <2>1 DEF CountRaises, Exhausted, web, given, search, ledger
<1>2. /\ rows' \in [Requests -> SuggestionRow]
      /\ out' \subseteq Keys /\ promised' \subseteq Requests /\ pc' = "poll" /\ PromiseKept'
  BY <1>1, AnswerKeeps DEF CountRaises, DeepSearchFailed, IInv
<1>3. Typed'
  BY <1>1, <1>2, SuggestionsAssumption DEF IInv, Typed
<1>4. Bills'
  <2>1. /\ spent \in Nat /\ billed \in Nat /\ MaxTurns \in Nat /\ Budget \in Nat
        /\ spent + 1 \in Nat /\ spent' + 1 \in Nat /\ spent + 1 <= spent' + 1
    <3>1. spent \in Nat /\ billed \in Nat /\ MaxTurns \in Nat /\ Budget \in Nat
      BY SuggestionsAssumption DEF IInv, Typed
    <3>2. CASE spent' = spent
      BY <3>1, <3>2
    <3>3. CASE spent' = spent + 1
      BY <3>1, <3>3
    <3> QED BY <1>1, <3>2, <3>3
  <2>2. turn = 0 /\ billed <= (spent + 1) * MaxTurns
    BY <1>1 DEF IInv, Bills
  <2>3. (spent + 1) * MaxTurns <= (spent' + 1) * MaxTurns
    BY <2>1, MoreCostsMore
  <2>4. (spent + 1) * MaxTurns \in Nat /\ (spent' + 1) * MaxTurns \in Nat
    BY <2>1, OneMore
  <2> DEFINE before == (spent + 1) * MaxTurns
             after == (spent' + 1) * MaxTurns
  <2>5. before \in Nat /\ after \in Nat /\ before <= after /\ billed <= before
    BY <2>2, <2>3, <2>4
  <2> HIDE DEF before, after
  <2>6. billed' <= after
    BY <1>1, <2>1, <2>5
  <2>7. spent' <= Budget /\ turn' = 0 /\ pc' # "call"
    BY <1>1, <1>2, <2>1, <2>2
  <2> QED BY <2>6, <2>7 DEF Bills, after
<1>5. Asking'
  BY <1>2 DEF Asking
<1>6. Searches'
  BY <1>1, <1>2 DEF IInv, Searches, Bought, Underway, Cached
<1> QED BY <1>2, <1>3, <1>4, <1>5, <1>6 DEF IInv

\* A request is billed, and either its search goes on with a turn less, or it is over.
LEMMA RequestBills ==
  ASSUME IInv, pc = "call", billed' = billed + 1, spent' = spent,
         \/ pc' = "call" /\ turn' = turn + 1
         \/ pc' # "call" /\ turn' = 0
  PROVE  Bills'
<1>1. /\ spent \in Nat /\ billed \in Nat /\ turn \in Nat /\ MaxTurns \in Nat /\ turn < MaxTurns
      /\ billed <= spent * MaxTurns + turn /\ spent <= Budget
  BY SuggestionsAssumption DEF IInv, Typed, Bills
<1>2. spent * MaxTurns \in Nat /\ (spent + 1) * MaxTurns = spent * MaxTurns + MaxTurns
  BY <1>1, OneMore
<1> DEFINE cost == spent * MaxTurns
           more == (spent + 1) * MaxTurns
<1> HIDE DEF cost, more
<1>3. cost \in Nat /\ more = cost + MaxTurns /\ billed <= cost + turn
  BY <1>1, <1>2 DEF cost, more
<1>4. /\ spent' <= Budget
      /\ pc' = "call" => billed' <= cost + turn'
      /\ pc' # "call" => turn' = 0 /\ billed' <= more
  BY <1>1, <1>3
<1> QED BY <1>4 DEF Bills, cost, more

\* How a request may end that returns.
LEMMA CallOutcome ==
  ASSUME IInv, NEW r \in Requests, CallReturns(r)
  PROVE  /\ r = First /\ pc = "call" /\ billed' = billed + 1
         /\ UNCHANGED <<rows, cache, spent, paidOn, keyOf, queue, First, allowance, out, board,
                        promised, paid, lost, faults>>
         /\ \/ /\ turn + 1 < MaxTurns /\ turn' = turn + 1 /\ forced' \in BOOLEAN
               /\ UNCHANGED <<got, pc>>
            \/ /\ pc' = "keep" /\ turn' = 0 /\ forced' = FALSE /\ got' \in Resolutions
<1>1. r = First /\ pc = "call" /\ billed' = billed + 1
      /\ UNCHANGED <<rows, cache, spent, paidOn, keyOf, queue, First, allowance, out, board,
                     promised, paid, lost, faults>>
  BY DEF CallReturns, Request, At, First, tables, given
<1>2. ASSUME NEW res \in Resolutions, Settle(r, res)
      PROVE  pc' = "keep" /\ turn' = 0 /\ forced' = FALSE /\ got' \in Resolutions
  BY <1>2 DEF Settle, Start
<1>3. "nothing" \in Resolutions /\ \A links : Checked(links) \in Resolutions
  BY DEF Resolutions, Checked
<1>4. \/ \E res \in Resolutions : Settle(r, res)
      \/ /\ turn + 1 < MaxTurns /\ turn' = turn + 1 /\ forced' \in BOOLEAN
         /\ UNCHANGED <<got, pc>>
  <2>1. Records(r) \/ Refuses(r) => \E res \in Resolutions : Settle(r, res)
    BY <1>3 DEF Records, Refuses
  <2>2. \A force \in BOOLEAN : Continues(r, force) =>
          \/ Settle(r, "nothing")
          \/ /\ turn + 1 < MaxTurns /\ turn' = turn + 1 /\ forced' \in BOOLEAN
             /\ UNCHANGED <<got, pc>>
    BY DEF Continues
  <2>3. forced \in BOOLEAN
    BY DEF IInv, Typed
  <2>4. Pauses(r) \/ Talks(r) =>
          \/ Settle(r, "nothing")
          \/ /\ turn + 1 < MaxTurns /\ turn' = turn + 1 /\ forced' \in BOOLEAN
             /\ UNCHANGED <<got, pc>>
    BY <2>2, <2>3 DEF Pauses, Talks
  <2> QED BY <1>3, <2>1, <2>4 DEF CallReturns
<1> QED BY <1>1, <1>2, <1>4

\* A request that returns keeps the invariant, whether its search goes on or is over.
LEMMA CallReturnsStep ==
  ASSUME IInv, NEW r \in Requests, CallReturns(r)
  PROVE  IInv'
<1>1. /\ pc = "call" /\ billed' = billed + 1
      /\ UNCHANGED <<rows, cache, spent, paidOn, keyOf, queue, First, allowance, out, board,
                     promised, paid, lost, faults>>
      /\ \/ /\ turn + 1 < MaxTurns /\ turn' = turn + 1 /\ forced' \in BOOLEAN
            /\ UNCHANGED <<got, pc>>
         \/ pc' = "keep" /\ turn' = 0 /\ forced' = FALSE /\ got' \in Resolutions
  BY CallOutcome
<1>2. Typed'
  <2>1. MaxTurns \in Nat \ {0} /\ turn \in 0..MaxTurns /\ billed \in Nat
    BY SuggestionsAssumption DEF IInv, Typed
  <2>2. turn' \in 0..MaxTurns /\ billed' \in Nat /\ (pc' = "call" => turn' < MaxTurns)
    BY <1>1, <2>1
  <2>3. pc' \in {"call", "keep"} /\ forced' \in BOOLEAN /\ got' \in Resolutions
    BY <1>1 DEF IInv, Typed
  <2> QED BY <1>1, <2>2, <2>3 DEF IInv, Typed
<1>3. Bills'
  BY <1>1, RequestBills
<1>4. Asking' /\ PromiseKept'
  BY <1>1 DEF IInv, Asking, PromiseKept
<1>5. Searches'
  BY <1>1 DEF IInv, Searches, Bought, Underway, Cached
<1> QED BY <1>2, <1>3, <1>4, <1>5 DEF IInv

\* A search that ends without a resolution in the cache: what it was counted for may be
\* searched for again.
LEMMA LosingKeepsSearches ==
  ASSUME IInv, Underway, NEW r \in Requests, r = First, Lost(r), pc' \notin {"call", "keep"},
         UNCHANGED <<cache, keyOf, paid>>
  PROVE  Searches' /\ lost' \in [Keys -> Nat]
<1>1. /\ keyOf[r] \in Keys /\ Plausible \subseteq Keys
      /\ paid \in [Keys -> Nat] /\ lost \in [Keys -> Nat]
  BY SuggestionsAssumption DEF IInv, Typed
<1>2. lost' = [lost EXCEPT ![keyOf[r]] = lost[keyOf[r]] + 1]
  BY DEF Lost
<1>3. lost' \in [Keys -> Nat]
  BY <1>1, <1>2
<1>4. /\ \A k \in Keys \ {keyOf[r]} : lost'[k] = lost[k]
      /\ lost'[keyOf[r]] = lost[keyOf[r]] + 1
  BY <1>1, <1>2
<1>5. \A k \in Plausible : paid[k] <= lost[k] + 1 /\ lost[k] <= lost'[k]
  BY <1>1, <1>4 DEF IInv, Searches
<1>6. \A k \in Plausible : paid[k] \in Nat /\ lost[k] \in Nat /\ lost'[k] \in Nat
  BY <1>1, <1>3
<1>7. \A k \in Plausible : paid'[k] <= lost'[k] + 1
  BY <1>5, <1>6
<1>8. ASSUME NEW k \in Plausible, ~Bought(k)' PROVE paid'[k] <= lost'[k]
  <2>1. CASE k = keyOf[r]
    BY <1>1, <1>4, <1>5, <2>1
  <2>2. CASE k # keyOf[r]
    <3>1. ~Bought(k)
      BY <1>8, <2>2 DEF Bought, Cached
    <3> QED BY <1>1, <1>4, <2>2, <3>1 DEF IInv, Searches
  <2> QED BY <2>1, <2>2
<1> QED BY <1>3, <1>7, <1>8 DEF IInv, Searches, Underway

\* A request that raises ends its search, which is lost, and keeps the invariant.
LEMMA CallRaisesStep ==
  ASSUME IInv, NEW r \in Requests, CallRaises(r)
  PROVE  IInv'
<1>1. /\ pc = "call" /\ r = First /\ billed' = billed + 1 /\ turn' = 0 /\ forced' = FALSE
      /\ Lost(r)
      /\ UNCHANGED <<cache, spent, paidOn, keyOf, allowance, got, board, paid, faults>>
  BY DEF CallRaises, Request, At, Start, web, given
<1>2. /\ rows' \in [Requests -> SuggestionRow]
      /\ out' \subseteq Keys /\ promised' \subseteq Requests /\ pc' = "poll" /\ PromiseKept'
  BY <1>1, AnswerKeeps DEF CallRaises, DeepSearchFailed, IInv
<1>3. Searches' /\ lost' \in [Keys -> Nat]
  BY <1>1, <1>2, LosingKeepsSearches DEF Underway
<1>4. Typed'
  <2>1. turn' \in 0..MaxTurns /\ billed' \in Nat
    BY <1>1, SuggestionsAssumption DEF IInv, Typed
  <2> QED BY <1>1, <1>2, <1>3, <2>1 DEF IInv, Typed
<1>5. Bills'
  BY <1>1, <1>2, RequestBills
<1>6. Asking'
  BY <1>2 DEF Asking
<1> QED BY <1>2, <1>3, <1>4, <1>5, <1>6 DEF IInv

\* A search whose resolution is kept, fresh, is the one it was counted for.
LEMMA KeepingKeepsSearches ==
  ASSUME IInv, Underway, NEW r \in Requests, r = First, Kept(r), pc' \notin {"call", "keep"},
         UNCHANGED <<keyOf, paid, lost>>
  PROVE  Searches' /\ cache' \in [Keys -> CacheRow]
<1>1. /\ keyOf[r] \in Keys /\ cache \in [Keys -> CacheRow]
      /\ [age |-> 0, res |-> got] \in CacheRow /\ 0 < CacheDays
  BY SuggestionsAssumption DEF IInv, Typed, CacheRow
<1>2. cache' = [cache EXCEPT ![keyOf[r]] = [age |-> 0, res |-> got]]
  BY DEF Kept
<1>3. cache' \in [Keys -> CacheRow]
  BY <1>1, <1>2
<1>4. ASSUME NEW k \in Plausible, ~Bought(k)' PROVE ~Bought(k)
  <2>1. k \in Keys
    BY SuggestionsAssumption
  <2>2. k # keyOf[r]
    BY <1>1, <1>2, <1>4, <2>1 DEF Bought, Cached
  <2> QED BY <1>1, <1>2, <1>4, <2>1, <2>2 DEF Bought, Cached
<1> QED BY <1>3, <1>4 DEF IInv, Searches, Underway

\* The search ends with its resolution in the cache.
LEMMA CacheStep ==
  ASSUME IInv, NEW r \in Requests, CacheResolution(r)
  PROVE  IInv'
<1>1. /\ pc = "keep" /\ pc' = "reply" /\ r = First /\ Kept(r)
      /\ UNCHANGED <<rows, spent, paidOn, keyOf, queue, First, allowance, turn, forced, got, out,
                     board, promised, billed, paid, lost, faults>>
  BY DEF CacheResolution, At, First, web, given, memory, search, ledger
<1>2. Searches' /\ cache' \in [Keys -> CacheRow]
  BY <1>1, KeepingKeepsSearches DEF Underway
<1>3. Typed' /\ PromiseKept'
  BY <1>1, <1>2 DEF IInv, Typed, PromiseKept
<1>4. Bills' /\ Asking'
  BY <1>1 DEF IInv, Bills, Asking
<1> QED BY <1>2, <1>3, <1>4 DEF IInv

\* A resolution that cannot be written answers its row with an error, and is lost or kept.
LEMMA CacheRaisesStep ==
  ASSUME IInv, NEW r \in Requests, CacheRaises(r)
  PROVE  IInv'
<1>1. /\ pc = "keep" /\ r = First
      /\ \/ Kept(r) /\ lost' = lost
         \/ Lost(r) /\ cache' = cache
      /\ UNCHANGED <<spent, paidOn, keyOf, allowance, turn, forced, got, board, billed, paid, faults>>
  BY DEF CacheRaises, At, web, given, search
<1>2. /\ rows' \in [Requests -> SuggestionRow]
      /\ out' \subseteq Keys /\ promised' \subseteq Requests /\ pc' = "poll" /\ PromiseKept'
  BY <1>1, AnswerKeeps DEF CacheRaises, DeepSearchFailed, IInv
<1>3. /\ Searches'
      /\ cache' \in [Keys -> CacheRow] /\ lost' \in [Keys -> Nat]
  <2>1. CASE Kept(r) /\ lost' = lost
    BY <1>1, <1>2, <2>1, KeepingKeepsSearches DEF Underway, IInv, Typed
  <2>2. CASE Lost(r) /\ cache' = cache
    BY <1>1, <1>2, <2>2, LosingKeepsSearches DEF Underway, IInv, Typed
  <2> QED BY <1>1, <2>1, <2>2
<1>4. Typed'
  BY <1>1, <1>2, <1>3 DEF IInv, Typed
<1>5. Bills' /\ Asking'
  BY <1>1, <1>2 DEF IInv, Bills, Asking
<1> QED BY <1>2, <1>3, <1>4, <1>5 DEF IInv

\* A poll cut short loses at most the one search it had paid for.
LEMMA FaultStep ==
  ASSUME IInv, Fault
  PROVE  IInv'
<1>1. /\ faults' = faults + 1 /\ pc' = "idle" /\ out' = {} /\ turn' = 0 /\ forced' = FALSE
      /\ UNCHANGED <<rows, cache, spent, paidOn, keyOf, allowance, got, board, promised, billed, paid>>
      /\ IF Underway THEN Lost(First) ELSE lost' = lost
  BY DEF Fault, Start, Underway, tables, given
<1>2. Searches' /\ lost' \in [Keys -> Nat]
  <2>1. CASE Underway
    BY <1>1, <2>1, LosingKeepsSearches DEF IInv, Asking, Underway
  <2>2. CASE ~Underway
    BY <1>1, <2>2 DEF IInv, Typed, Searches, Bought, Underway, Cached
  <2> QED BY <2>1, <2>2
<1>3. Typed'
  <2>1. turn' \in 0..MaxTurns /\ faults' \in Nat /\ pc' # "call"
    BY <1>1, SuggestionsAssumption DEF IInv, Typed
  <2> QED BY <1>1, <1>2, <2>1 DEF IInv, Typed
<1>4. PromiseKept'
  BY <1>1 DEF IInv, Typed, PromiseKept
<1>5. Bills'
  <2> DEFINE cost == spent * MaxTurns
             more == (spent + 1) * MaxTurns
  <2>1. /\ spent \in Nat /\ billed \in Nat /\ turn \in Nat /\ MaxTurns \in Nat
        /\ spent <= Budget
        /\ pc = "call" => turn < MaxTurns /\ billed <= cost + turn
        /\ pc # "call" => billed <= more
    BY SuggestionsAssumption DEF IInv, Typed, Bills
  <2>2. cost \in Nat /\ more = cost + MaxTurns
    BY <2>1, OneMore
  <2> HIDE DEF cost, more
  <2>3. spent' <= Budget /\ pc' # "call" /\ turn' = 0 /\ billed' <= more
    BY <1>1, <2>1, <2>2
  <2>4. more = (spent' + 1) * MaxTurns
    BY <1>1 DEF more
  <2> QED BY <2>3, <2>4 DEF Bills
<1>6. Asking'
  BY <1>1 DEF Asking
<1> QED BY <1>2, <1>3, <1>4, <1>5, <1>6 DEF IInv

\* An age that grows stays within its bound.
LEMMA OlderType ==
  ASSUME NEW days \in Nat, NEW age \in 0..days
  PROVE  Older(age, days) \in 0..days
BY DEF Older

\* At midnight the day's count starts again, and a resolution that lapses may be bought
\* again.
LEMMA NewDayStep ==
  ASSUME IInv, NewDay
  PROVE  IInv'
<1>1. /\ spent' = 0 /\ billed' = 0
      /\ UNCHANGED <<paidOn, keyOf, pc, queue, First, allowance, turn, forced, got, out, board,
                     promised, faults>>
  BY DEF NewDay, First, web, given, memory, search
<1>2. rows' \in [Requests -> SuggestionRow]
  <2>1. ASSUME NEW r \in Requests
        PROVE  [rows[r] EXCEPT
                  !.age = IF rows[r].status = "absent" THEN rows[r].age
                          ELSE Older(rows[r].age, DedupeDays)] \in SuggestionRow
    <3>1. rows[r] \in SuggestionRow /\ rows[r].age \in 0..DedupeDays
      BY DEF IInv, Typed, SuggestionRow
    <3>2. Older(rows[r].age, DedupeDays) \in 0..DedupeDays
      BY <3>1, OlderType, SuggestionsAssumption
    <3> QED BY <3>1, <3>2 DEF SuggestionRow
  <2> QED BY <2>1 DEF NewDay
<1>3. /\ cache' \in [Keys -> CacheRow]
      /\ \A k \in Keys : /\ Cached(k)' => Cached(k)
                         /\ Cached(k) /\ ~Cached(k)' => paid'[k] = 0
                         /\ \/ paid'[k] = 0 /\ lost'[k] = 0
                            \/ paid'[k] = paid[k] /\ lost'[k] = lost[k]
      /\ paid' \in [Keys -> Nat] /\ lost' \in [Keys -> Nat]
  <2>1. ASSUME NEW k \in Keys
        PROVE  /\ [cache[k] EXCEPT !.age = Older(cache[k].age, CacheDays)] \in CacheRow
               /\ cache[k].age \in 0..CacheDays
               /\ CacheDays \in Nat \ {0}
    <3>1. cache[k] \in CacheRow /\ cache[k].age \in 0..CacheDays /\ CacheDays \in Nat \ {0}
      BY SuggestionsAssumption DEF IInv, Typed, CacheRow
    <3>2. Older(cache[k].age, CacheDays) \in 0..CacheDays
      BY <3>1, OlderType
    <3> QED BY <3>1, <3>2 DEF CacheRow
  <2>2. \A k \in Keys : cache'[k] = [cache[k] EXCEPT !.age = Older(cache[k].age, CacheDays)]
    BY DEF NewDay
  <2>3. \A k \in Keys :
          /\ paid'[k] = IF cache[k].age = CacheDays - 1 THEN 0 ELSE paid[k]
          /\ lost'[k] = IF cache[k].age = CacheDays - 1 THEN 0 ELSE lost[k]
    BY DEF NewDay, Lapses
  <2>4. cache' \in [Keys -> CacheRow]
    BY <2>1 DEF NewDay
  <2>5. paid' \in [Keys -> Nat] /\ lost' \in [Keys -> Nat]
    BY DEF NewDay, IInv, Typed
  <2>6. ASSUME NEW k \in Keys
        PROVE  /\ Cached(k)' => Cached(k)
               /\ Cached(k) /\ ~Cached(k)' => paid'[k] = 0
    <3>1. cache'[k].age = Older(cache[k].age, CacheDays)
      BY <2>1, <2>2 DEF CacheRow, IInv, Typed
    <3>2. cache[k].age \in 0..CacheDays /\ CacheDays \in Nat \ {0}
      BY <2>1
    <3>3. /\ Cached(k) <=> cache[k].age < CacheDays
          /\ Cached(k)' <=> cache'[k].age < CacheDays
      BY DEF Cached
    <3>4. paid'[k] = IF cache[k].age = CacheDays - 1 THEN 0 ELSE paid[k]
      BY <2>3
    <3>5. cache'[k].age = IF cache[k].age < CacheDays THEN cache[k].age + 1 ELSE cache[k].age
      BY <3>1 DEF Older
    <3> QED BY <3>2, <3>3, <3>4, <3>5
  <2> QED BY <2>3, <2>4, <2>5, <2>6
<1>4. Typed' /\ PromiseKept'
  BY <1>1, <1>2, <1>3 DEF IInv, Typed, PromiseKept
<1>5. Bills'
  <2>1. /\ 0 * MaxTurns = 0 /\ (0 + 1) * MaxTurns = MaxTurns /\ MaxTurns \in Nat
        /\ turn \in Nat /\ Budget \in Nat
    BY SuggestionsAssumption DEF IInv, Typed
  <2> QED BY <1>1, <2>1 DEF IInv, Bills
<1>6. Asking'
  BY <1>1 DEF IInv, Asking
<1>7. Searches'
  <2>1. /\ Plausible \subseteq Keys /\ paid \in [Keys -> Nat] /\ lost \in [Keys -> Nat]
        /\ keyOf \in [Requests -> Keys]
    BY SuggestionsAssumption DEF IInv, Typed
  <2>2. Underway' => ~Cached(keyOf[First])'
    BY <1>1, <1>3, <2>1 DEF IInv, Searches, Asking, Underway
  <2>3. \A k \in Keys \ Plausible : paid'[k] = 0
    BY <1>3 DEF IInv, Searches
  <2>4. \A k \in Plausible : paid'[k] <= lost'[k] + 1
    BY <1>3, <2>1 DEF IInv, Searches
  <2>5. ASSUME NEW k \in Plausible, ~Bought(k)' PROVE paid'[k] <= lost'[k]
    <3>1. ~Cached(k)' /\ ~(Underway /\ keyOf[First] = k)
      BY <1>1, <2>5 DEF Bought, Underway
    <3>2. CASE Cached(k)
      <4>1. paid'[k] = 0 /\ lost'[k] \in Nat
        BY <1>3, <2>1, <3>1, <3>2
      <4> QED BY <4>1
    <3>3. CASE ~Cached(k)
      <4>1. paid[k] <= lost[k]
        BY <3>1, <3>3 DEF Bought, IInv, Searches
      <4> QED BY <1>3, <2>1, <4>1
    <3> QED BY <3>2, <3>3
  <2> QED BY <2>2, <2>3, <2>4, <2>5 DEF Searches
<1> QED BY <1>4, <1>5, <1>6, <1>7 DEF IInv

\* The invariant holds at the start.
LEMMA InitInv == Init => IInv
<1> SUFFICES ASSUME Init PROVE IInv
  OBVIOUS
<1>1. /\ CacheDays \in Nat \ {0} /\ PerCycle \in Nat /\ MaxTurns \in Nat /\ Budget \in Nat
      /\ DedupeDays \in Nat /\ Plausible \subseteq Keys /\ keyOf \in [Requests -> Keys]
      /\ paidOn \in BOOLEAN
  BY SuggestionsAssumption DEF Init
<1>2. rows \in [Requests -> SuggestionRow]
  BY <1>1 DEF Init, SuggestionRow
<1>3. /\ cache \in [Keys -> CacheRow]
      /\ paid \in [Keys -> Nat] /\ lost \in [Keys -> Nat]
  BY <1>1 DEF Init, CacheRow, NoEntry, Resolutions
<1>4. Typed
  <2>1. turn = 0 /\ allowance = PerCycle /\ got = "nothing" /\ pc = "idle" /\ forced = FALSE
        /\ spent = 0 /\ billed = 0 /\ faults = 0
    BY DEF Init
  <2>2. out = {} /\ board = {} /\ promised = {}
    BY DEF Init
  <2>3. turn \in 0..MaxTurns /\ allowance \in 0..PerCycle /\ got \in Resolutions
    BY <1>1, <2>1 DEF Resolutions
  <2> QED BY <1>1, <1>2, <1>3, <2>1, <2>2, <2>3 DEF Typed
<1>5. Bills
  BY <1>1, OneMore DEF Init, Bills
<1>6. Asking /\ PromiseKept
  BY DEF Init, Asking, PromiseKept
<1>7. Searches
  BY <1>1 DEF Init, Searches, Underway
<1> QED BY <1>4, <1>5, <1>6, <1>7 DEF IInv

\* Every step keeps the invariant.
LEMMA StepInv ==
  ASSUME IInv, Queued, [Next]_vars
  PROVE  IInv'
<1>1. CASE UNCHANGED vars
  <2>1. Typed' /\ PromiseKept'
    BY <1>1 DEF vars, IInv, Typed, PromiseKept
  <2>2. Bills' /\ Asking'
    BY <1>1 DEF vars, IInv, Bills, Asking, First
  <2>3. Searches'
    BY <1>1 DEF vars, IInv, Searches, Bought, Underway, Cached, First
  <2> QED BY <2>1, <2>2, <2>3 DEF IInv
<1>2. ASSUME NEW r \in Requests,
             ProcessUrl(r) \/ ProbeHit(r) \/ ProbeRaises(r) \/ ProbeMiss(r) \/ Resolving(r)
      PROVE  IInv'
  <2>1. ProbeMiss(r) => pc' \in {"poll", "research"}
    BY DEF ProbeMiss, Answer
  <2> QED BY <1>2, <2>1, AnswersStep, BeginStep, CountStep, CountRaisesStep, CallReturnsStep,
             CallRaisesStep, CacheStep, CacheRaisesStep DEF Resolving, Answers
<1> QED BY <1>1, <1>2, WebStep, PollStep, FaultStep, NewDayStep DEF Next, Polling

\* The inductive invariant.
THEOREM Invariance == Spec => [](Queued /\ IInv)
BY InitQueued, StepQueued, InitInv, StepInv, PTL DEF Spec

\* Every variable has its type.
THEOREM TypeCorrect == Spec => []TypeOK
<1>1. Queued /\ IInv => TypeOK
  BY DEF Queued, IInv, Typed, TypeOK
<1> QED BY <1>1, Invariance, PTL

\* However often the poller dies and however the conversations go, a day's requests are
\* those of its budgeted searches and of one counted just before midnight (resolve.py).
THEOREM DayCeiling == Spec => []BudgetHolds
<1>1. IInv => BudgetHolds
  <2> SUFFICES ASSUME IInv PROVE billed <= (Budget + 1) * MaxTurns
    BY DEF BudgetHolds
  <2>1. /\ spent \in Nat /\ billed \in Nat /\ turn \in Nat /\ MaxTurns \in Nat /\ Budget \in Nat
        /\ spent <= Budget
    BY SuggestionsAssumption DEF IInv, Typed, Bills
  <2> DEFINE cost == spent * MaxTurns
             more == (spent + 1) * MaxTurns
             ceiling == (Budget + 1) * MaxTurns
  <2>2. cost \in Nat /\ more = cost + MaxTurns /\ ceiling \in Nat
    BY <2>1, OneMore
  <2>3. more <= ceiling
    BY <2>1, MoreCostsMore
  <2>4. (pc = "call" /\ turn < MaxTurns /\ billed <= cost + turn) \/ billed <= more
    BY DEF IInv, Typed, Bills
  <2> HIDE DEF cost, more, ceiling
  <2>5. billed <= ceiling
    BY <2>1, <2>2, <2>3, <2>4
  <2> QED BY <2>5 DEF ceiling
<1> QED BY <1>1, Invariance, PTL

\* A company is searched for once while its resolution is fresh, and once more for every
\* search that left nothing in the cache: one that raised, one whose resolution could not be
\* written, one under way when the poll was cut short.  What is no company's name is never
\* searched for (web.py, resolve.py, detectors/suggestions.py).
THEOREM OneSearch == Spec => []PaidOnce
<1>1. IInv => PaidOnce
  <2> SUFFICES ASSUME IInv, NEW k \in Keys
               PROVE  paid[k] <= (IF k \in Plausible THEN 1 + lost[k] ELSE 0)
    BY DEF PaidOnce
  <2>1. lost[k] \in Nat /\ paid[k] \in Nat
    BY DEF IInv, Typed
  <2> QED BY <2>1 DEF IInv, Searches
<1> QED BY <1>1, Invariance, PTL

\* Unless a poll was cut short, postings a row was answered with are on the board or in
\* the list the poll is about to return (detectors/suggestions.py).
THEOREM Promise == Spec => []PromiseKept
<1>1. IInv => PromiseKept
  BY DEF IInv
<1> QED BY <1>1, Invariance, PTL
=============================================================================
