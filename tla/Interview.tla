------------------------------ MODULE Interview ------------------------------
(***************************************************************************)
(* The practice interview (src/interview): sessions kept by a SessionStore,*)
(* the turn loop, the budget guard and the scoring pass, driven by handler *)
(* threads.  The handlers are not written yet; as docs/interview-agent.md  *)
(* has it, each serves one request and works on the copy of the session    *)
(* that store.get gave it, which only a save makes durable.  A transcript  *)
(* is the number of turns the candidate has taken; tokens are counted in   *)
(* units, one of which is what the cheapest call costs.                    *)
(***************************************************************************)
EXTENDS Integers, FiniteSets

CONSTANTS
  Threads,
  Sessions,        \* sessions that may be opened
  UserOf,          \* the user_key each is opened under
  PerUser,         \* sessions_per_user_per_day
  DailyBudget,     \* daily_token_budget
  Estimate,        \* session_token_estimate, the admission reserve
  Ceiling,         \* session_token_ceiling
  MaxTurns,        \* max_turns
  MaxCall,         \* bound: tokens one call to the model may use
  MaxSaid,         \* bound: turns a candidate takes
  MaxFaults,       \* bound: broken streams, failed scorings and crashes
  MaxDays,         \* bound: midnights
  OverlapModes     \* whether requests about one session may overlap

ASSUME InterviewAssumption ==
  /\ IsFiniteSet(Threads) /\ DOMAIN UserOf = Sessions
  /\ {PerUser, DailyBudget, Estimate, Ceiling, MaxTurns, MaxCall, MaxSaid}
       \subseteq Nat \ {0}
  /\ {MaxFaults, MaxDays} \subseteq Nat
  /\ OverlapModes \subseteq BOOLEAN

VARIABLES
  stored,     \* the rows of the store
  spent,      \* tokens_today
  thread,     \* what each handler is doing, on its copy of which session
  overlap,
  billed,     \* tokens counted for each session, ever
  faults,
  days

vars == <<stored, spent, thread, overlap, billed, faults, days>>

States == {"none", "in_progress", "ended", "scored"}
NoSession == [state |-> "none", said |-> 0, usage |-> 0, report |-> FALSE, today |-> FALSE]
Rows == [state : States, said : 0..MaxSaid, usage : Nat,
         report : BOOLEAN, today : BOOLEAN]
NoOne == "none"
Idle == [pc |-> "idle", s |-> NoOne, copy |-> NoSession]
Handler ==
  [pc : {"idle", "create", "decide", "stream", "save", "close", "score"},
   s : Sessions \cup {NoOne}, copy : Rows]

TypeOK ==
  /\ stored \in [Sessions -> Rows]
  /\ spent \in Nat
  /\ thread \in [Threads -> Handler]
  /\ overlap \in OverlapModes
  /\ billed \in [Sessions -> Nat]
  /\ faults \in 0..MaxFaults /\ days \in 0..MaxDays

Init ==
  /\ stored = [s \in Sessions |-> NoSession]
  /\ spent = 0
  /\ thread = [h \in Threads |-> Idle]
  /\ overlap \in OverlapModes
  /\ billed = [s \in Sessions |-> 0]
  /\ faults = 0 /\ days = 0

At(h, pc) == thread[h].pc = pc
Quiet(s) == \A h \in Threads : At(h, "idle") \/ thread[h].s # s
Take(h, s, pc, copy) ==
  /\ At(h, "idle")
  /\ overlap \/ Quiet(s)
  /\ thread' = [thread EXCEPT ![h] = [pc |-> pc, s |-> s, copy |-> copy]]
Goto(h, pc) == thread' = [thread EXCEPT ![h].pc = pc]
Done(h) == thread' = [thread EXCEPT ![h] = Idle]
Save(h, copy) == stored' = [stored EXCEPT ![thread[h].s] = copy]

\* Session._move
MayMove(from, to) ==
  <<from, to>> \in {<<"none", "in_progress">>, <<"in_progress", "ended">>,
                    <<"ended", "scored">>}

(***************************************************************************)
(* InterviewLoop.start: the guard reads the store twice and reserves       *)
(* nothing; the session is created, already begun, afterwards.             *)
(***************************************************************************)
SessionsToday(user) ==
  Cardinality({s \in Sessions : UserOf[s] = user /\ stored[s].today})

BeginSession(user) ==
  /\ SessionsToday(user) < PerUser
  /\ DailyBudget - spent >= Estimate

Start(h, s) ==
  /\ stored[s].state = "none" /\ Quiet(s)
  /\ BeginSession(UserOf[s])
  /\ Take(h, s, "create", [NoSession EXCEPT !.state = "in_progress", !.today = TRUE])
  /\ UNCHANGED <<stored, spent, overlap, billed, faults, days>>

Create(h) ==
  /\ At(h, "create")
  /\ Save(h, thread[h].copy)
  /\ Done(h)
  /\ UNCHANGED <<spent, overlap, billed, faults, days>>

(***************************************************************************)
(* InterviewLoop.turn: the candidate's turn is saved before the guard is   *)
(* asked and the model called.                                             *)
(***************************************************************************)
BugHeard(s) == [stored[s] EXCEPT !.said = @ + 2]
Heard(s) == [stored[s] EXCEPT !.said = @ + 1]
SaveHeard(s) == stored' = [stored EXCEPT ![s] = Heard(s)]

Turn(h, s) ==
  /\ stored[s].state = "in_progress"
  /\ stored[s].said < MaxSaid
  /\ SaveHeard(s)
  /\ Take(h, s, "decide", Heard(s))
  /\ UNCHANGED <<spent, overlap, billed, faults, days>>

BugDayLeft == TRUE
DayLeft == spent < DailyBudget

BeforeTurn(session) ==
  /\ session.said <= MaxTurns
  /\ session.usage < Ceiling
  /\ DayLeft

Decide(h) ==
  /\ At(h, "decide")
  /\ Goto(h, IF BeforeTurn(thread[h].copy) THEN "stream" ELSE "close")
  /\ UNCHANGED <<stored, spent, overlap, billed, faults, days>>

(***************************************************************************)
(* The reply.  Its callbacks run when the stream is drained: the usage is  *)
(* recorded on the copy and on the day (_close_turn, BudgetGuard.record),  *)
(* then the copy is saved.  A stream that raises, or a client that leaves, *)
(* ends the iteration before them: what it used is not counted.            *)
(***************************************************************************)
BugAddUsage(session, tokens) == session
AddUsage(session, tokens) == [session EXCEPT !.usage = @ + tokens]

Record(h, tokens) ==
  /\ At(h, "stream")
  /\ thread' = [thread EXCEPT ![h].pc = "save", ![h].copy = AddUsage(@, tokens)]
  /\ spent' = spent + tokens
  /\ billed' = [billed EXCEPT ![thread[h].s] = @ + tokens]
  /\ UNCHANGED <<stored, overlap, faults, days>>

SaveReply(h) ==
  /\ At(h, "save")
  /\ Save(h, thread[h].copy)
  /\ Done(h)
  /\ UNCHANGED <<spent, overlap, billed, faults, days>>

StreamBreaks(h) ==
  /\ At(h, "stream")
  /\ faults < MaxFaults /\ faults' = faults + 1
  /\ Done(h)
  /\ UNCHANGED <<stored, spent, overlap, billed, days>>

\* _closing_reply: local text, no model; it too takes effect when it is drained.
Close(h) ==
  /\ At(h, "close")
  /\ MayMove(thread[h].copy.state, "ended")
  /\ Save(h, [thread[h].copy EXCEPT !.state = "ended"])
  /\ Done(h)
  /\ UNCHANGED <<spent, overlap, billed, faults, days>>

CloseBreaks(h) ==
  /\ At(h, "close")
  /\ faults < MaxFaults /\ faults' = faults + 1
  /\ Done(h)
  /\ UNCHANGED <<stored, spent, overlap, billed, days>>

(***************************************************************************)
(* InterviewLoop.end and score.  Ending an ended session changes nothing;  *)
(* ending a scored one raises.  A scoring pass counts no token, and one    *)
(* that fails leaves the row.                                              *)
(***************************************************************************)
End(s) ==
  /\ overlap \/ Quiet(s)
  /\ stored[s].state \in {"in_progress", "scored"}
  /\ MayMove(stored[s].state, "ended")
  /\ stored' = [stored EXCEPT ![s].state = "ended"]
  /\ UNCHANGED <<spent, thread, overlap, billed, faults, days>>

Score(h, s) ==
  /\ stored[s].state = "ended"
  /\ Take(h, s, "score", stored[s])
  /\ UNCHANGED <<stored, spent, overlap, billed, faults, days>>

Attach(h) ==
  /\ At(h, "score")
  /\ MayMove(thread[h].copy.state, "scored")
  /\ Save(h, [thread[h].copy EXCEPT !.state = "scored", !.report = TRUE])
  /\ Done(h)
  /\ UNCHANGED <<spent, overlap, billed, faults, days>>

ScoreFails(h) ==
  /\ At(h, "score")
  /\ faults < MaxFaults /\ faults' = faults + 1
  /\ Done(h)
  /\ UNCHANGED <<stored, spent, overlap, billed, days>>

Crash ==
  /\ faults < MaxFaults /\ faults' = faults + 1
  /\ thread' = [h \in Threads |-> Idle]
  /\ UNCHANGED <<stored, spent, overlap, billed, days>>

\* Midnight UTC: counters are keyed by the day.
NewDay ==
  /\ days < MaxDays /\ days' = days + 1
  /\ spent' = 0
  /\ stored' = [s \in Sessions |-> [stored[s] EXCEPT !.today = FALSE]]
  /\ thread' = [h \in Threads |-> [thread[h] EXCEPT !.copy.today = FALSE]]
  /\ UNCHANGED <<overlap, billed, faults>>

Next ==
  \/ Crash \/ NewDay
  \/ \E s \in Sessions : End(s)
  \/ \E h \in Threads :
       \/ \E s \in Sessions : Start(h, s) \/ Turn(h, s) \/ Score(h, s)
       \/ \E tokens \in 1..MaxCall : Record(h, tokens)
       \/ Create(h) \/ Decide(h) \/ SaveReply(h) \/ StreamBreaks(h)
       \/ Close(h) \/ CloseBreaks(h) \/ Attach(h) \/ ScoreFails(h)

Spec == Init /\ [][Next]_vars

-----------------------------------------------------------------------------
(***************************************************************************)
(* Properties                                                              *)
(***************************************************************************)
\* The guard reads the day's counter before a turn and charges it after: what is counted
\* in a day passes the budget by no more than the turns that were in flight.
DayCeilingHolds == spent < DailyBudget + MaxCall * Cardinality(Threads)

\* A session whose requests do not overlap is charged at most one call over its ceiling, and
\* one more for each crash that lost a usage already counted for the day.  The bound counts
\* every fault, broken streams and failed scorings too, which lose nothing.
SessionBounded ==
  ~overlap => \A s \in Sessions : billed[s] < Ceiling + MaxCall * (1 + faults)
=============================================================================
