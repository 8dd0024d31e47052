--------------------------- MODULE InterviewProofs ---------------------------
(***************************************************************************)
(* Proofs about Interview, for every value of its constants: any number of *)
(* handlers, sessions, turns, faults and days, whatever a call costs.      *)
(***************************************************************************)
EXTENDS Interview, NatLemmas, TLAPS

Busy(h) == thread[h].pc # "idle"
Streaming == {h \in Threads : At(h, "stream")}

\* A handler works on a session that has begun.
Begun ==
  \A h \in Threads : Busy(h) => thread[h].s \in Sessions /\ thread[h].copy.state # "none"

\* Each call in flight may add what one call costs to the day.
DayInv == spent + Cardinality(Streaming) * MaxCall < DailyBudget + Cardinality(Threads) * MaxCall

\* Without overlap a session has one handler, whose copy is the row until the usage of a
\* call is recorded; the row is behind what was charged by the calls that crashes lost.
Lost == faults * MaxCall
Alone == \A g, h \in Threads : (Busy(g) /\ Busy(h) /\ thread[g].s = thread[h].s) => g = h
Saving(s) == \E h \in Threads : At(h, "save") /\ thread[h].s = s

Copied(h) ==
  /\ ~At(h, "save") => thread[h].copy.usage = stored[thread[h].s].usage
  /\ At(h, "stream") => thread[h].copy.usage < Ceiling
  /\ At(h, "save") =>
       /\ thread[h].copy.usage <= stored[thread[h].s].usage + MaxCall
       /\ thread[h].copy.usage < Ceiling + MaxCall
       /\ billed[thread[h].s] <= thread[h].copy.usage + Lost
Copies == \A h \in Threads : Busy(h) => Copied(h)

Charge(s) ==
  /\ stored[s].state = "none" => stored[s].usage = 0
  /\ stored[s].usage < Ceiling + MaxCall
  /\ ~Saving(s) => billed[s] <= stored[s].usage + Lost
Charged == \A s \in Sessions : Charge(s)

IInv == TypeOK /\ Begun /\ DayInv /\ (~overlap => Alone /\ Copies /\ Charged)

-----------------------------------------------------------------------------
(***************************************************************************)
(* Types, and what a step of one handler leaves alone.                     *)
(***************************************************************************)
LEMMA RowTypes ==
  /\ NoSession \in Rows /\ Idle \in Handler
  /\ [NoSession EXCEPT !.state = "in_progress", !.today = TRUE] \in Rows
<1>1. NoSession \in Rows
  BY InterviewAssumption DEF NoSession, Rows, States
<1>2. [NoSession EXCEPT !.state = "in_progress", !.today = TRUE] \in Rows
  BY <1>1 DEF Rows, States
<1> QED BY <1>1, <1>2 DEF Idle, Handler

\* What a handler holds has its type.
LEMMA CopyType ==
  ASSUME TypeOK, NEW h \in Threads
  PROVE  thread[h] \in Handler /\ thread[h].copy \in Rows /\ thread[h].copy.usage \in Nat
BY DEF TypeOK, Handler, Rows

\* A stored row has its type, and its bill is a number.
LEMMA StoredType ==
  ASSUME TypeOK, NEW s \in Sessions
  PROVE  stored[s] \in Rows /\ stored[s].usage \in Nat /\ billed[s] \in Nat
BY DEF TypeOK, Rows

\* The candidate's turn is stored, on the row and on the copy.
LEMMA HeardType ==
  ASSUME TypeOK, NEW s \in Sessions, stored[s].said < MaxSaid
  PROVE  /\ Heard(s) \in Rows /\ Heard(s).usage = stored[s].usage
         /\ Heard(s).state = stored[s].state
<1>1. stored[s] \in Rows /\ stored[s].said \in 0..MaxSaid /\ MaxSaid \in Nat
  BY InterviewAssumption DEF TypeOK, Rows
<1>2. stored[s].said + 1 \in 0..MaxSaid
  BY <1>1
<1> QED BY <1>1, <1>2 DEF Heard, Rows

\* A handler takes a session that no other has, unless requests may overlap.
LEMMA TakeMoves ==
  ASSUME TypeOK, NEW h \in Threads, NEW s \in Sessions,
         NEW pc \in {"create", "decide", "score"}, NEW copy \in Rows, Take(h, s, pc, copy)
  PROVE  /\ ~Busy(h) /\ (overlap \/ Quiet(s))
         /\ thread' \in [Threads -> Handler]
         /\ thread'[h].pc = pc /\ thread'[h].s = s /\ thread'[h].copy = copy
         /\ \A g \in Threads \ {h} : thread'[g] = thread[g]
<1> DEFINE w == [pc |-> pc, s |-> s, copy |-> copy]
<1>1. w \in Handler /\ w.pc = pc /\ w.s = s /\ w.copy = copy
  BY DEF Handler
<1>2. thread' = [thread EXCEPT ![h] = w] /\ ~Busy(h) /\ (overlap \/ Quiet(s))
  BY DEF Take, At, Busy
<1> HIDE DEF w
<1> QED BY <1>1, <1>2 DEF TypeOK

\* A request that ends frees its own thread and no other.
LEMMA DoneMoves ==
  ASSUME TypeOK, NEW h \in Threads, Done(h)
  PROVE  /\ thread' \in [Threads -> Handler] /\ thread'[h].pc = "idle"
         /\ \A g \in Threads \ {h} : thread'[g] = thread[g]
BY RowTypes DEF Done, Idle, TypeOK

\* A handler that goes on keeps its session and its copy, and moves no other thread.
LEMMA GotoMoves ==
  ASSUME TypeOK, NEW h \in Threads, NEW pc \in {"stream", "close"}, Goto(h, pc)
  PROVE  /\ thread' \in [Threads -> Handler]
         /\ thread'[h].pc = pc /\ thread'[h].s = thread[h].s /\ thread'[h].copy = thread[h].copy
         /\ \A g \in Threads \ {h} : thread'[g] = thread[g]
BY DEF Goto, TypeOK, Handler

\* Saving writes the row of the handler's session.
LEMMA SaveWrites ==
  ASSUME TypeOK, NEW h \in Threads, thread[h].s \in Sessions, NEW copy \in Rows, Save(h, copy)
  PROVE  /\ stored' \in [Sessions -> Rows] /\ stored'[thread[h].s] = copy
         /\ \A s \in Sessions \ {thread[h].s} : stored'[s] = stored[s]
BY DEF Save, TypeOK

\* The products of the invariant.
LEMMA Products ==
  ASSUME TypeOK
  PROVE  /\ Lost \in Nat /\ MaxCall \in Nat \ {0} /\ Ceiling \in Nat \ {0}
         /\ faults' = faults => Lost' = Lost
         /\ faults' = faults + 1 => Lost' = Lost + MaxCall
<1>1. faults \in Nat /\ MaxCall \in Nat \ {0} /\ Ceiling \in Nat \ {0}
  BY InterviewAssumption DEF TypeOK
<1>2. faults * MaxCall \in Nat /\ (faults + 1) * MaxCall = faults * MaxCall + MaxCall
  BY <1>1, OneMore
<1> QED BY <1>1, <1>2 DEF Lost

-----------------------------------------------------------------------------
(***************************************************************************)
(* The day's ceiling.                                                      *)
(***************************************************************************)
LEMMA StreamingType ==
  /\ IsFiniteSet(Streaming) /\ Cardinality(Streaming) \in Nat
  /\ Cardinality(Threads) \in Nat /\ Cardinality(Streaming) <= Cardinality(Threads)
<1>1. Streaming \subseteq Threads /\ IsFiniteSet(Threads)
  BY InterviewAssumption DEF Streaming
<1> QED BY <1>1, FS_Subset, FS_CardinalityType

\* With no more calls in flight and no more spent the day's ceiling stays.
LEMMA DayKeeps ==
  ASSUME TypeOK, DayInv, Streaming' \subseteq Streaming, spent' \in Nat, spent' <= spent
  PROVE  DayInv'
<1> DEFINE now == Cardinality(Streaming)
           next == Cardinality(Streaming')
           ceiling == DailyBudget + Cardinality(Threads) * MaxCall
<1>1. now \in Nat /\ next \in Nat /\ next <= now
  BY StreamingType, FS_Subset, FS_CardinalityType
<1>2. MaxCall \in Nat /\ spent \in Nat /\ DailyBudget \in Nat
  BY InterviewAssumption DEF TypeOK
<1>3. next * MaxCall <= now * MaxCall /\ next * MaxCall \in Nat /\ now * MaxCall \in Nat
  BY <1>1, <1>2, MoreCostsMore, OneMore
<1>4. ceiling \in Nat
  BY <1>2, StreamingType, OneMore
<1>5. spent + now * MaxCall < ceiling
  BY DEF DayInv
<1> HIDE DEF ceiling, now, next
<1>6. spent' + next * MaxCall < ceiling
  BY <1>2, <1>3, <1>4, <1>5
<1> QED BY <1>6 DEF DayInv, ceiling, next

\* Below its budget the day has room for a call of every handler.
LEMMA DayRoom ==
  ASSUME TypeOK, spent < DailyBudget, spent' = spent, Streaming' \subseteq Threads
  PROVE  DayInv'
<1> DEFINE next == Cardinality(Streaming')
           all == Cardinality(Threads)
<1>1. next \in Nat /\ all \in Nat /\ next <= all
  BY InterviewAssumption, FS_Subset, FS_CardinalityType
<1>2. MaxCall \in Nat /\ spent \in Nat /\ DailyBudget \in Nat
  BY InterviewAssumption DEF TypeOK
<1>3. next * MaxCall <= all * MaxCall /\ next * MaxCall \in Nat /\ all * MaxCall \in Nat
  BY <1>1, <1>2, MoreCostsMore, OneMore
<1> HIDE DEF next, all
<1>4. spent' + next * MaxCall < DailyBudget + all * MaxCall
  BY <1>2, <1>3
<1> QED BY <1>4 DEF DayInv, next, all

\* A call that is recorded spends what was set aside for it.
LEMMA DayRecords ==
  ASSUME TypeOK, DayInv, NEW h \in Streaming, Streaming' = Streaming \ {h},
         NEW tokens \in 1..MaxCall, spent' = spent + tokens
  PROVE  DayInv'
<1> DEFINE now == Cardinality(Streaming)
           next == Cardinality(Streaming')
           ceiling == DailyBudget + Cardinality(Threads) * MaxCall
<1>1. now \in Nat /\ next \in Nat /\ now = next + 1
  <2>1. Cardinality(Streaming \ {h}) = Cardinality(Streaming) - 1
        /\ Cardinality(Streaming \ {h}) \in Nat
    BY StreamingType, FS_RemoveElement, FS_CardinalityType
  <2> QED BY <2>1, StreamingType
<1>2. MaxCall \in Nat /\ spent \in Nat /\ DailyBudget \in Nat /\ tokens \in Nat
      /\ tokens <= MaxCall
  BY InterviewAssumption DEF TypeOK
<1>3. now * MaxCall = next * MaxCall + MaxCall /\ next * MaxCall \in Nat
  BY <1>1, <1>2, OneMore
<1>4. ceiling \in Nat
  BY <1>2, StreamingType, OneMore
<1>5. spent + now * MaxCall < ceiling
  BY DEF DayInv
<1> HIDE DEF ceiling, now, next
<1>6. spent' + next * MaxCall < ceiling
  BY <1>2, <1>3, <1>4, <1>5
<1> QED BY <1>6 DEF DayInv, ceiling, next

-----------------------------------------------------------------------------
(***************************************************************************)
(* The steps.                                                              *)
(***************************************************************************)
\* A handler takes a session: it begins it, hears a turn or scores it.
LEMMA TakesStep ==
  ASSUME IInv, NEW h \in Threads, NEW s \in Sessions, Start(h, s) \/ Turn(h, s) \/ Score(h, s)
  PROVE  IInv'
<1> DEFINE copy == thread'[h].copy
<1>1. stored[s] \in Rows /\ stored[s].usage \in Nat /\ billed[s] \in Nat /\ TypeOK
  BY StoredType DEF IInv
<1>2. /\ ~Busy(h) /\ (overlap \/ Quiet(s))
      /\ thread' \in [Threads -> Handler]
      /\ thread'[h].pc \in {"create", "decide", "score"} /\ thread'[h].s = s
      /\ \A g \in Threads \ {h} : thread'[g] = thread[g]
      /\ copy.state # "none"
      /\ copy.usage = IF Start(h, s) THEN 0 ELSE stored[s].usage
  <2>1. CASE Start(h, s)
    <3> DEFINE new == [NoSession EXCEPT !.state = "in_progress", !.today = TRUE]
    <3>1. new \in Rows /\ new.state = "in_progress" /\ new.usage = 0
      BY RowTypes DEF NoSession
    <3>2. Take(h, s, "create", new)
      BY <2>1 DEF Start
    <3> HIDE DEF new
    <3> QED BY <1>1, <2>1, <3>1, <3>2, TakeMoves
  <2>2. CASE Turn(h, s) /\ ~Start(h, s)
    <3>1. Take(h, s, "decide", Heard(s)) /\ stored[s].state = "in_progress"
          /\ stored[s].said < MaxSaid
      BY <2>2 DEF Turn
    <3>2. Heard(s) \in Rows /\ Heard(s).usage = stored[s].usage /\ Heard(s).state = stored[s].state
      BY <1>1, <3>1, HeardType
    <3> QED BY <1>1, <2>2, <3>1, <3>2, TakeMoves
  <2>3. CASE Score(h, s) /\ ~Start(h, s)
    BY <1>1, <2>3, TakeMoves DEF Score
  <2> QED BY <2>1, <2>2, <2>3
<1>3. /\ stored' \in [Sessions -> Rows]
      /\ \A x \in Sessions : stored'[x].usage = stored[x].usage /\ stored'[x].state = stored[x].state
  <2>1. CASE Turn(h, s)
    <3>1. stored' = [stored EXCEPT ![s] = Heard(s)]
      BY <2>1 DEF Turn, SaveHeard
    <3>2. Heard(s) \in Rows /\ Heard(s).usage = stored[s].usage /\ Heard(s).state = stored[s].state
      BY <1>1, <2>1, HeardType DEF Turn
    <3> QED BY <1>1, <3>1, <3>2 DEF TypeOK
  <2>2. CASE ~Turn(h, s)
    BY <1>1, <2>2 DEF Start, Score, TypeOK
  <2> QED BY <2>1, <2>2
<1>4. UNCHANGED <<spent, overlap, billed, faults, days>>
  BY DEF Start, Turn, Score
<1>5. TypeOK'
  BY <1>1, <1>2, <1>3, <1>4 DEF TypeOK
<1>6. Begun'
  BY <1>2 DEF IInv, Begun, Busy
<1>7. DayInv'
  <2>1. Streaming' \subseteq Streaming
    BY <1>2 DEF Streaming, At
  <2> QED BY <1>1, <1>4, <2>1, DayKeeps DEF IInv, TypeOK
<1>8. ASSUME ~overlap' PROVE Alone' /\ Copies' /\ Charged'
  <2>1. Quiet(s) /\ Alone /\ Copies /\ Charged /\ Lost' = Lost
    BY <1>1, <1>2, <1>4, <1>8, Products DEF IInv
  <2>2. \A g \in Threads \ {h} : /\ Busy(g)' = Busy(g)
                                 /\ Busy(g) => thread[g].s # s /\ thread[g].s \in Sessions
    BY <1>2, <2>1 DEF Quiet, At, Busy, IInv, Begun
  <2>3. Alone'
    BY <1>2, <2>1, <2>2 DEF Alone, Busy
  <2>4. Copies'
    <3>1. ASSUME NEW g \in Threads \ {h}, Busy(g)' PROVE Copied(g)'
      BY <1>2, <1>3, <1>4, <2>1, <2>2, <3>1 DEF Copies, Copied, At
    <3>2. Copied(h)'
      BY <1>2, <1>3, <2>1 DEF Copied, At, Charged, Charge, Start
    <3> QED BY <3>1, <3>2 DEF Copies
  <2>5. Charged'
    <3>1. \A x \in Sessions : Saving(x)' <=> Saving(x)
      BY <1>2 DEF Saving, At, Busy
    <3> QED BY <1>3, <1>4, <2>1, <3>1 DEF Charged, Charge
  <2> QED BY <2>3, <2>4, <2>5
<1> QED BY <1>5, <1>6, <1>7, <1>8 DEF IInv

\* The guard answers, or a handler gives up.
LEMMA LeavesStep ==
  ASSUME IInv, NEW h \in Threads,
         Decide(h) \/ StreamBreaks(h) \/ CloseBreaks(h) \/ ScoreFails(h)
  PROVE  IInv'
<1>1. /\ TypeOK /\ Busy(h) /\ ~At(h, "save")
      /\ UNCHANGED <<stored, spent, overlap, billed, days>>
      /\ faults' \in 0..MaxFaults /\ faults' \in {faults, faults + 1}
  BY InterviewAssumption DEF IInv, Decide, StreamBreaks, CloseBreaks, ScoreFails, At, Busy, TypeOK
<1>2. /\ thread' \in [Threads -> Handler]
      /\ \A g \in Threads \ {h} : thread'[g] = thread[g]
      /\ \/ thread'[h].pc = "idle"
         \/ /\ Decide(h) /\ thread'[h].pc \in {"stream", "close"}
            /\ thread'[h].s = thread[h].s /\ thread'[h].copy = thread[h].copy
            /\ thread'[h].pc = "stream" => BeforeTurn(thread[h].copy)
  <2>1. CASE Decide(h)
    BY <1>1, <2>1, GotoMoves DEF Decide
  <2>2. CASE ~Decide(h)
    BY <1>1, <2>2, DoneMoves DEF StreamBreaks, CloseBreaks, ScoreFails
  <2> QED BY <2>1, <2>2
<1>3. TypeOK'
  BY <1>1, <1>2 DEF TypeOK
<1>4. Begun'
  BY <1>1, <1>2 DEF IInv, Begun, Busy
<1>5. DayInv'
  <2>1. CASE thread'[h].pc = "stream"
    <3>1. spent < DailyBudget /\ Streaming' \subseteq Threads
      BY <1>2, <2>1 DEF BeforeTurn, DayLeft, Streaming
    <3> QED BY <1>1, <3>1, DayRoom
  <2>2. CASE thread'[h].pc # "stream"
    <3>1. Streaming' \subseteq Streaming
      BY <1>2, <2>2 DEF Streaming, At
    <3> QED BY <1>1, <3>1, DayKeeps DEF IInv, TypeOK
  <2> QED BY <2>1, <2>2
<1>6. ASSUME ~overlap' PROVE Alone' /\ Copies' /\ Charged'
  <2>1. Alone /\ Copies /\ Charged
    BY <1>1, <1>6 DEF IInv
  <2>2. Lost \in Nat /\ Lost' \in Nat /\ Lost <= Lost' /\ MaxCall \in Nat
    BY <1>1, Products
  <2>3. \A g \in Threads : Busy(g)' => Busy(g) /\ thread'[g].s = thread[g].s
                                       /\ thread[g].s \in Sessions
    BY <1>1, <1>2 DEF Busy, IInv, Begun
  <2>4. Alone'
    BY <2>1, <2>3 DEF Alone
  <2>5. Copies'
    <3>1. ASSUME NEW g \in Threads \ {h}, Busy(g)' PROVE Copied(g)'
      <4>1. Copied(g) /\ thread'[g] = thread[g] /\ thread[g].s \in Sessions
        BY <1>2, <2>1, <2>3, <3>1 DEF Copies
      <4>2. billed[thread[g].s] \in Nat /\ thread[g].copy.usage \in Nat
        BY <1>1, <4>1, CopyType, StoredType
      <4> QED BY <1>1, <2>2, <4>1, <4>2 DEF Copied, At
    <3>2. ASSUME Busy(h)' PROVE Copied(h)'
      BY <1>1, <1>2, <2>1, <3>2 DEF Copies, Copied, At, Busy, BeforeTurn
    <3> QED BY <3>1, <3>2 DEF Copies
  <2>6. Charged'
    <3>1. \A x \in Sessions : Saving(x)' <=> Saving(x)
      BY <1>1, <1>2 DEF Saving, At
    <3>2. \A x \in Sessions : stored[x].usage \in Nat /\ billed[x] \in Nat
      BY <1>1, StoredType
    <3> QED BY <1>1, <2>1, <2>2, <3>1, <3>2 DEF Charged, Charge
  <2> QED BY <2>4, <2>5, <2>6
<1> QED BY <1>3, <1>4, <1>5, <1>6 DEF IInv

\* A handler saves its copy, as it is or with the state it moves to, and is done.
LEMMA SavesStep ==
  ASSUME IInv, NEW h \in Threads, Create(h) \/ SaveReply(h) \/ Close(h) \/ Attach(h)
  PROVE  IInv'
<1>0. PICK s \in Sessions : s = thread[h].s
  BY DEF IInv, Begun, Create, SaveReply, Close, Attach, At, Busy
<1> DEFINE row == stored'[s]
<1>1. /\ TypeOK /\ Busy(h) /\ ~At(h, "stream") /\ s = thread[h].s /\ thread[h].copy \in Rows
      /\ thread[h].copy.state # "none" /\ thread[h].copy.usage \in Nat
      /\ UNCHANGED <<spent, overlap, billed, faults, days>>
  BY <1>0, CopyType DEF IInv, Begun, Create, SaveReply, Close, Attach, At, Busy
<1>2. /\ thread' \in [Threads -> Handler] /\ thread'[h].pc = "idle"
      /\ \A g \in Threads \ {h} : thread'[g] = thread[g]
  BY <1>1, DoneMoves DEF Create, SaveReply, Close, Attach
<1>3. /\ stored' \in [Sessions -> Rows]
      /\ row.usage = thread[h].copy.usage /\ row.state # "none"
      /\ \A x \in Sessions \ {s} : stored'[x] = stored[x]
  <2> DEFINE ended == [thread[h].copy EXCEPT !.state = "ended"]
             scored == [thread[h].copy EXCEPT !.state = "scored", !.report = TRUE]
  <2>1. /\ ended \in Rows /\ ended.usage = thread[h].copy.usage /\ ended.state = "ended"
        /\ scored \in Rows /\ scored.usage = thread[h].copy.usage /\ scored.state = "scored"
    BY <1>1 DEF Rows, States
  <2>2. Save(h, thread[h].copy) \/ Save(h, ended) \/ Save(h, scored)
    BY DEF Create, SaveReply, Close, Attach
  <2> HIDE DEF ended, scored
  <2> QED BY <1>1, <2>1, <2>2, SaveWrites
<1>4. TypeOK'
  BY <1>1, <1>2, <1>3 DEF TypeOK
<1>5. Begun'
  BY <1>2 DEF IInv, Begun, Busy
<1>6. DayInv'
  <2>1. Streaming' \subseteq Streaming
    BY <1>2 DEF Streaming, At
  <2> QED BY <1>1, <2>1, DayKeeps DEF IInv, TypeOK
<1>7. ASSUME ~overlap' PROVE Alone' /\ Copies' /\ Charged'
  <2>1. Alone /\ Copies /\ Charged /\ Lost' = Lost /\ Lost \in Nat /\ MaxCall \in Nat
    BY <1>1, <1>7, Products DEF IInv
  <2>2. \A g \in Threads : Busy(g)' => Busy(g) /\ g # h /\ thread'[g] = thread[g]
                                       /\ thread[g].s \in Sessions \ {s}
    BY <1>1, <1>2, <2>1 DEF Busy, IInv, Begun, Alone
  <2>3. Alone'
    BY <2>1, <2>2 DEF Alone
  <2>4. Copies'
    <3>1. ASSUME NEW g \in Threads, Busy(g)' PROVE Copied(g)'
      <4>1. Copied(g) /\ thread'[g] = thread[g] /\ stored'[thread[g].s] = stored[thread[g].s]
        BY <1>3, <2>1, <2>2, <3>1 DEF Copies
      <4> QED BY <1>1, <2>1, <4>1 DEF Copied, At
    <3> QED BY <3>1 DEF Copies
  <2>5. Charged'
    <3>1. ASSUME NEW x \in Sessions \ {s} PROVE Charge(x)'
      <4>1. Saving(x)' <=> Saving(x)
        BY <1>1, <1>2, <3>1 DEF Saving, At
      <4>2. Charge(x) /\ stored'[x] = stored[x]
        BY <1>3, <2>1, <3>1 DEF Charged
      <4> QED BY <1>1, <2>1, <4>1, <4>2 DEF Charge
    <3>2. Charge(s)'
      <4>1. Charge(s) /\ Copied(h)
        BY <1>1, <2>1 DEF Charged, Copies
      <4>2. CASE At(h, "save")
        BY <1>1, <1>3, <2>1, <4>1, <4>2 DEF Charge, Copied
      <4>3. CASE ~At(h, "save")
        <5>1. ~Saving(s)
          BY <1>1, <2>1, <4>3 DEF Saving, Alone, Busy, At
        <5> QED BY <1>1, <1>3, <2>1, <4>1, <4>3, <5>1 DEF Charge, Copied
      <4> QED BY <4>2, <4>3
    <3> QED BY <3>1, <3>2 DEF Charged
  <2> QED BY <2>3, <2>4, <2>5
<1> QED BY <1>4, <1>5, <1>6, <1>7 DEF IInv

\* What a call used is counted on the copy, on the day and on the session.
LEMMA RecordStep ==
  ASSUME IInv, NEW h \in Threads, NEW tokens \in 1..MaxCall, Record(h, tokens)
  PROVE  IInv'
<1>0. PICK s \in Sessions : s = thread[h].s
  BY DEF IInv, Begun, Record, At, Busy
<1> DEFINE copy == thread[h].copy
           counted == [copy EXCEPT !.usage = copy.usage + tokens]
<1>1. /\ TypeOK /\ Busy(h) /\ At(h, "stream") /\ s = thread[h].s /\ copy \in Rows
      /\ copy.state # "none" /\ copy.usage \in Nat /\ spent' = spent + tokens
      /\ MaxCall \in Nat /\ tokens \in Nat /\ tokens <= MaxCall
      /\ UNCHANGED <<stored, overlap, faults, days>>
  BY <1>0, InterviewAssumption, CopyType DEF IInv, Begun, Record, At, Busy
<1>2. counted \in Rows /\ counted.usage = copy.usage + tokens /\ counted.state = copy.state
  BY <1>1 DEF Rows
<1>3. /\ thread' \in [Threads -> Handler] /\ thread'[h].pc = "save" /\ thread'[h].s = s
      /\ thread'[h].copy = counted
      /\ \A g \in Threads \ {h} : thread'[g] = thread[g]
  <2>1. thread' = [thread EXCEPT ![h] = [thread[h] EXCEPT !.pc = "save", !.copy = counted]]
    BY <1>1 DEF Record, AddUsage, TypeOK
  <2> HIDE DEF counted
  <2>2. thread[h] \in Handler
    BY <1>1 DEF TypeOK
  <2> QED BY <1>1, <1>2, <2>1, <2>2 DEF TypeOK, Handler
<1>4. /\ billed' \in [Sessions -> Nat] /\ billed'[s] = billed[s] + tokens
      /\ \A x \in Sessions \ {s} : billed'[x] = billed[x]
  BY <1>1 DEF Record, TypeOK
<1> HIDE DEF counted
<1>5. TypeOK'
  BY <1>1, <1>3, <1>4 DEF TypeOK
<1>6. Begun'
  BY <1>1, <1>2, <1>3 DEF IInv, Begun, Busy
<1>7. DayInv'
  <2>1. h \in Streaming /\ Streaming' = Streaming \ {h}
    BY <1>1, <1>3 DEF Streaming, At
  <2> QED BY <1>1, <2>1, DayRecords DEF IInv
<1>8. ASSUME ~overlap' PROVE Alone' /\ Copies' /\ Charged'
  <2>1. Alone /\ Copies /\ Charged /\ Lost' = Lost /\ Lost \in Nat
    BY <1>1, <1>8, Products DEF IInv
  <2>2. \A g \in Threads : (Busy(g)' <=> Busy(g)) /\ thread'[g].s = thread[g].s
    BY <1>1, <1>3 DEF Busy
  <2>3. Alone'
    BY <2>1, <2>2 DEF Alone
  <2>4. \A g \in Threads \ {h} : Busy(g) => thread[g].s \in Sessions \ {s}
    BY <1>1, <2>1 DEF Alone, IInv, Begun
  <2>5. Charge(s) /\ Copied(h) /\ ~Saving(s)
    BY <1>1, <2>1, <2>4 DEF Charged, Copies, Saving, At, Busy
  <2>6. Copies'
    <3>1. ASSUME NEW g \in Threads \ {h}, Busy(g)' PROVE Copied(g)'
      <4>1. Copied(g) /\ thread'[g] = thread[g] /\ thread[g].s \in Sessions \ {s}
        BY <1>3, <2>1, <2>2, <2>4, <3>1 DEF Copies
      <4> QED BY <1>1, <1>4, <2>1, <4>1 DEF Copied, At
    <3>2. Copied(h)'
      <4>1. /\ copy.usage = stored[s].usage /\ copy.usage < Ceiling
            /\ billed[s] <= stored[s].usage + Lost
        BY <1>1, <2>5 DEF Copied, Charge, At
      <4>2. billed[s] \in Nat /\ Ceiling \in Nat
        BY <1>1, StoredType, Products
      <4>3. /\ counted.usage <= stored[s].usage + MaxCall
            /\ counted.usage < Ceiling + MaxCall
            /\ billed'[s] <= counted.usage + Lost
        BY <1>1, <1>2, <1>4, <2>1, <4>1, <4>2
      <4> QED BY <1>1, <1>3, <2>1, <4>3 DEF Copied, At
    <3> QED BY <3>1, <3>2 DEF Copies
  <2>7. Charged'
    <3>1. ASSUME NEW x \in Sessions \ {s} PROVE Charge(x)'
      <4>1. Saving(x)' <=> Saving(x)
        BY <1>1, <1>3, <3>1 DEF Saving, At
      <4> QED BY <1>1, <1>4, <2>1, <3>1, <4>1 DEF Charged, Charge
    <3>2. Charge(s)'
      <4>1. Saving(s)'
        BY <1>3 DEF Saving, At
      <4> QED BY <1>1, <2>5, <4>1 DEF Charge
    <3> QED BY <3>1, <3>2 DEF Charged
  <2> QED BY <2>3, <2>6, <2>7
<1> QED BY <1>5, <1>6, <1>7, <1>8 DEF IInv

\* A session nobody handles is ended.
LEMMA EndStep ==
  ASSUME IInv, NEW s \in Sessions, End(s)
  PROVE  IInv'
<1>1. UNCHANGED <<spent, thread, overlap, billed, faults, days>> /\ TypeOK
  BY DEF End, IInv
<1>2. /\ stored' \in [Sessions -> Rows]
      /\ \A x \in Sessions : /\ stored'[x].usage = stored[x].usage
                             /\ stored'[x].state = "none" => stored[x].state = "none"
  BY <1>1 DEF End, TypeOK, Rows, States
<1>3. TypeOK' /\ Begun'
  BY <1>1, <1>2 DEF IInv, TypeOK, Begun, Busy
<1>4. DayInv'
  BY <1>1 DEF IInv, DayInv, Streaming, At
<1>5. ASSUME ~overlap' PROVE Alone' /\ Copies' /\ Charged'
  <2>1. Alone /\ Copies /\ Charged /\ Lost' = Lost
    BY <1>1, <1>5, Products DEF IInv
  <2>2. Alone'
    BY <1>1, <2>1 DEF Alone, Busy
  <2>3. Copies'
    BY <1>1, <1>2, <2>1 DEF Copies, Copied, Busy, At, IInv, Begun
  <2>4. Charged'
    BY <1>1, <1>2, <2>1 DEF Charged, Charge, Saving, At
  <2> QED BY <2>2, <2>3, <2>4
<1> QED BY <1>3, <1>4, <1>5 DEF IInv

\* A crash loses what the handlers held: of each session, at most one call's usage.
LEMMA CrashStep ==
  ASSUME IInv, Crash
  PROVE  IInv'
<1>1. /\ TypeOK /\ faults' = faults + 1 /\ faults' \in 0..MaxFaults
      /\ UNCHANGED <<stored, spent, overlap, billed, days>>
      /\ thread' \in [Threads -> Handler] /\ \A h \in Threads : thread'[h].pc = "idle"
  BY RowTypes, InterviewAssumption DEF IInv, TypeOK, Crash, Idle
<1>2. TypeOK' /\ Begun'
  BY <1>1 DEF TypeOK, Begun, Busy
<1>3. DayInv'
  <2>1. Streaming' \subseteq Streaming
    BY <1>1 DEF Streaming, At
  <2> QED BY <1>1, <2>1, DayKeeps DEF IInv, TypeOK
<1>4. ASSUME ~overlap' PROVE Alone' /\ Copies' /\ Charged'
  <2>1. Copies /\ Charged /\ Lost' = Lost + MaxCall /\ Lost \in Nat /\ MaxCall \in Nat
    BY <1>1, <1>4, Products DEF IInv
  <2>2. Alone' /\ Copies'
    BY <1>1 DEF Alone, Copies, Busy
  <2>3. ASSUME NEW s \in Sessions PROVE Charge(s)'
    <3>1. Charge(s) /\ stored[s].usage \in Nat /\ billed[s] \in Nat
      BY <1>1, <2>1, StoredType DEF Charged
    <3>2. billed[s] <= stored[s].usage + Lost + MaxCall
      <4>1. CASE Saving(s)
        <5>1. PICK h \in Threads : At(h, "save") /\ thread[h].s = s
          BY <4>1 DEF Saving
        <5>2. Copied(h) /\ thread[h].copy.usage \in Nat
          BY <1>1, <2>1, <5>1, CopyType DEF Copies, Busy, At
        <5> QED BY <2>1, <3>1, <5>1, <5>2 DEF Copied
      <4>2. CASE ~Saving(s)
        BY <2>1, <3>1, <4>2 DEF Charge
      <4> QED BY <4>1, <4>2
    <3> QED BY <1>1, <2>1, <3>1, <3>2 DEF Charge
  <2> QED BY <2>2, <2>3 DEF Charged
<1> QED BY <1>2, <1>3, <1>4 DEF IInv

\* Midnight starts the day's counters again and leaves every usage.
LEMMA NewDayStep ==
  ASSUME IInv, NewDay
  PROVE  IInv'
<1>1. /\ TypeOK /\ days' \in 0..MaxDays /\ spent' = 0
      /\ UNCHANGED <<overlap, billed, faults>>
  BY InterviewAssumption DEF IInv, TypeOK, NewDay
<1>2. /\ stored' \in [Sessions -> Rows]
      /\ \A s \in Sessions : stored'[s].usage = stored[s].usage
                             /\ stored'[s].state = stored[s].state
  BY <1>1 DEF NewDay, TypeOK, Rows
<1>3. /\ thread' \in [Threads -> Handler]
      /\ \A h \in Threads : /\ thread'[h].pc = thread[h].pc /\ thread'[h].s = thread[h].s
                            /\ thread'[h].copy.usage = thread[h].copy.usage
                            /\ thread'[h].copy.state = thread[h].copy.state
  <2>1. ASSUME NEW h \in Threads
        PROVE  /\ [thread[h] EXCEPT !.copy.today = FALSE] \in Handler
               /\ [thread[h] EXCEPT !.copy.today = FALSE].pc = thread[h].pc
               /\ [thread[h] EXCEPT !.copy.today = FALSE].s = thread[h].s
               /\ [thread[h] EXCEPT !.copy.today = FALSE].copy.usage = thread[h].copy.usage
               /\ [thread[h] EXCEPT !.copy.today = FALSE].copy.state = thread[h].copy.state
    BY <1>1, CopyType DEF Handler, Rows
  <2> QED BY <2>1 DEF NewDay
<1>4. TypeOK' /\ Begun'
  BY <1>1, <1>2, <1>3 DEF IInv, TypeOK, Begun, Busy
<1>5. DayInv'
  <2>1. Streaming' \subseteq Streaming
    BY <1>3 DEF Streaming, At
  <2>2. spent' \in Nat /\ spent' <= spent
    BY <1>1 DEF TypeOK
  <2> QED BY <1>1, <2>1, <2>2, DayKeeps DEF IInv
<1>6. ASSUME ~overlap' PROVE Alone' /\ Copies' /\ Charged'
  <2>1. Alone /\ Copies /\ Charged /\ Lost' = Lost
    BY <1>1, <1>6, Products DEF IInv
  <2>2. Alone'
    BY <1>3, <2>1 DEF Alone, Busy
  <2>3. Copies'
    BY <1>1, <1>2, <1>3, <2>1 DEF Copies, Copied, Busy, At, IInv, Begun
  <2>4. Charged'
    BY <1>1, <1>2, <1>3, <2>1 DEF Charged, Charge, Saving, At
  <2> QED BY <2>2, <2>3, <2>4
<1> QED BY <1>4, <1>5, <1>6 DEF IInv

\* The invariant holds when the server starts.
LEMMA InitInv == Init => IInv
<1> SUFFICES ASSUME Init PROVE IInv
  OBVIOUS
<1>1. TypeOK
  BY RowTypes, InterviewAssumption DEF Init, TypeOK
<1>2. \A h \in Threads : thread[h].pc = "idle"
  BY DEF Init, Idle
<1>3. Begun /\ Alone /\ Copies
  BY <1>2 DEF Begun, Alone, Copies, Busy
<1>4. DayInv
  <2>1. Streaming = {}
    BY <1>2 DEF Streaming, At
  <2>2. Cardinality(Streaming) = 0
    BY <2>1, FS_EmptySet
  <2>3. /\ spent = 0 /\ MaxCall \in Nat /\ DailyBudget \in Nat \ {0} /\ 0 * MaxCall = 0
        /\ Cardinality(Threads) * MaxCall \in Nat
    BY InterviewAssumption, StreamingType, OneMore DEF Init
  <2> QED BY <2>2, <2>3 DEF DayInv
<1>5. Charged
  <2>1. Lost \in Nat /\ Ceiling \in Nat \ {0} /\ MaxCall \in Nat
    BY <1>1, Products
  <2>2. \A s \in Sessions : stored[s].usage = 0 /\ billed[s] = 0
    BY DEF Init, NoSession
  <2> QED BY <2>1, <2>2 DEF Charged, Charge
<1> QED BY <1>1, <1>3, <1>4, <1>5 DEF IInv

\* Every step keeps the invariant.
LEMMA StepInv ==
  ASSUME IInv, [Next]_vars
  PROVE  IInv'
<1>1. CASE UNCHANGED vars
  <2>1. TypeOK' /\ Begun'
    BY <1>1 DEF vars, IInv, TypeOK, Begun, Busy
  <2>2. DayInv'
    BY <1>1 DEF vars, IInv, DayInv, Streaming, At
  <2>3. ~overlap' => Alone' /\ Copies' /\ Charged'
    BY <1>1 DEF vars, IInv, Alone, Copies, Copied, Charged, Charge, Saving, Lost, At, Busy
  <2> QED BY <2>1, <2>2, <2>3 DEF IInv
<1> QED BY <1>1, TakesStep, LeavesStep, SavesStep, RecordStep, EndStep, CrashStep, NewDayStep
        DEF Next

\* The inductive invariant.
THEOREM Invariance == Spec => []IInv
BY InitInv, StepInv, PTL DEF Spec

\* Rows, copies and counters keep their types (src/interview).
THEOREM TypeCorrect == Spec => []TypeOK
<1>1. IInv => TypeOK
  BY DEF IInv
<1> QED BY <1>1, Invariance, PTL

\* A day's spending passes its budget by no more than the calls that were in flight,
\* though the guard reads the counter before a call and charges it after (budget.py).
THEOREM DayCeiling == Spec => []DayCeilingHolds
<1>1. IInv => DayCeilingHolds
  <2> SUFFICES ASSUME IInv
               PROVE  spent < DailyBudget + MaxCall * Cardinality(Threads)
    BY DEF DayCeilingHolds
  <2> DEFINE flying == Cardinality(Streaming) * MaxCall
             room == Cardinality(Threads) * MaxCall
  <2>1. spent \in Nat /\ flying \in Nat /\ room \in Nat /\ DailyBudget \in Nat
    BY InterviewAssumption, StreamingType, OneMore DEF IInv, TypeOK
  <2>2. spent + flying < DailyBudget + room
    BY DEF IInv, DayInv
  <2>3. MaxCall * Cardinality(Threads) = room
    BY InterviewAssumption, StreamingType
  <2> HIDE DEF flying, room
  <2> QED BY <2>1, <2>2, <2>3
<1> QED BY <1>1, Invariance, PTL

\* Without overlapping requests a session is charged at most one call over its ceiling,
\* and one more for each crash that lost a usage the day had counted (budget.py, loop.py).
THEOREM SessionCeiling == Spec => []SessionBounded
<1>1. IInv => SessionBounded
  <2> SUFFICES ASSUME IInv, ~overlap, NEW s \in Sessions
               PROVE  billed[s] < Ceiling + MaxCall * (1 + faults)
    BY DEF SessionBounded
  <2>1. /\ Lost \in Nat /\ MaxCall \in Nat /\ Ceiling \in Nat /\ faults \in Nat
        /\ stored[s].usage \in Nat /\ billed[s] \in Nat
    BY Products, StoredType DEF IInv, TypeOK
  <2>2. MaxCall * (1 + faults) = MaxCall + Lost
    <3>1. (faults + 1) * MaxCall = faults * MaxCall + MaxCall
      BY <2>1, OneMore
    <3>2. MaxCall * (1 + faults) = (faults + 1) * MaxCall
      BY <2>1
    <3> QED BY <2>1, <3>1, <3>2 DEF Lost
  <2>3. billed[s] < Ceiling + MaxCall + Lost
    <3>1. CASE Saving(s)
      <4>1. PICK h \in Threads : At(h, "save") /\ thread[h].s = s
        BY <3>1 DEF Saving
      <4>2. Copied(h) /\ thread[h].copy.usage \in Nat
        BY <4>1, CopyType DEF IInv, Copies, Busy, At
      <4> QED BY <2>1, <4>1, <4>2 DEF Copied
    <3>2. CASE ~Saving(s)
      BY <2>1, <3>2 DEF IInv, Charged, Charge
    <3> QED BY <3>1, <3>2
  <2> QED BY <2>1, <2>2, <2>3
<1> QED BY <1>1, Invariance, PTL
=============================================================================
