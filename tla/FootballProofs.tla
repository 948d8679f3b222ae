--------------------------- MODULE FootballProofs ---------------------------
(***************************************************************************)
(* Theorems about football scoring, for any consoles with any requests in  *)
(* flight, any squads, any lengths of the halves and any number of events. *)
(***************************************************************************)
EXTENDS FootballTurns, FiniteSums

State == [half: Halves, running: BOOLEAN, elapsed: Nat, since: 0..MaxTime,
          score: [Sides -> Nat], pens: [Sides -> Nat]]

Ops == AllControls \union {"none", "event", "undo", "cancel"}

\* A clock that runs was started before now.
Clocked(st) == st.running => st.since <= now

\* The types, and that a console that has read something holds a real row.
Typed ==
    /\ match \in Row
    /\ state \in State /\ Clocked(state)
    /\ log \in Seq(Event)
    /\ now \in 0..MaxTime
    /\ request \in [Console -> [op: Ops, was: Row \union {NoRow}]]
    /\ \A w \in Console : request[w].op # "none" => request[w].was \in Row

----------------------------------------------------------------------------
(* Typing of the helpers *)

LEMMA TypedIsTypeOK == Typed => TypeOK
BY DEF Typed, TypeOK, State, Ops

LEMMA SavedTyped ==
    ASSUME match \in Row, NEW was, NEW m \in Row
    PROVE  Saved(was, m) \in Row
BY DEF Saved, Row

LEMMA LeaderTyped == ASSUME NEW st PROVE Leader(st) \in Sides \union {""}
BY DEF Leader, Sides

LEMMA ConcludedTyped ==
    ASSUME NEW m \in Row, NEW st PROVE Concluded(m, st) \in Row
<1>1. Leader(st) \in Sides \union {""}
  BY LeaderTyped
<1> QED BY <1>1 DEF Concluded, Row, Statuses

LEMMA RaisedTyped ==
    ASSUME NEW f \in [Sides -> Nat], NEW s \in Sides, NEW d \in {1, -1}
    PROVE  [f EXCEPT ![s] = Raised(@, d)] \in [Sides -> Nat]
<1>1. Raised(f[s], d) \in Nat
  BY DEF Raised
<1> QED BY <1>1

LEMMA OtherSide == ASSUME NEW s \in Sides PROVE Other(s) \in Sides /\ Other(s) # s
BY DEF Other, Sides

LEMMA EventTyped ==
    ASSUME NEW e \in Event
    PROVE  e.side \in Sides /\ e.type \in AllEvents /\ e.shootOut \in BOOLEAN
BY DEF Event

LEMMA ScoreTyped ==
    ASSUME NEW st \in State, NEW sc \in [Sides -> Nat]
    PROVE  /\ [st EXCEPT !.score = sc] \in State /\ [st EXCEPT !.pens = sc] \in State
           /\ [st EXCEPT !.score = sc].score = sc /\ [st EXCEPT !.score = sc].pens = st.pens
           /\ [st EXCEPT !.pens = sc].pens = sc /\ [st EXCEPT !.pens = sc].score = st.score
           /\ \A k \in {[st EXCEPT !.score = sc], [st EXCEPT !.pens = sc]} :
                 /\ k.half = st.half /\ k.running = st.running
                 /\ k.elapsed = st.elapsed /\ k.since = st.since
BY DEF State

\* What an event does to the score, column by column.
LEMMA ScoredColumns ==
    ASSUME NEW st \in State, NEW e \in Event, NEW d \in {1, -1}
    PROVE  /\ Scored(st, e, d) \in State
           /\ Scored(st, e, d).half = st.half /\ Scored(st, e, d).running = st.running
           /\ Scored(st, e, d).elapsed = st.elapsed /\ Scored(st, e, d).since = st.since
           /\ \A s \in Sides :
                 /\ Scored(st, e, d).score[s] =
                       IF \/ ~ e.shootOut /\ e.type \in {"goal", "penalty_goal"} /\ e.side = s
                          \/ ~ e.shootOut /\ e.type = "own_goal" /\ e.side # s
                       THEN Raised(st.score[s], d) ELSE st.score[s]
                 /\ Scored(st, e, d).pens[s] =
                       IF e.shootOut /\ e.type = "penalty_goal" /\ e.side = s
                       THEN Raised(st.pens[s], d) ELSE st.pens[s]
<1> DEFINE own == Other(e.side)
           sc == [st.score EXCEPT ![e.side] = Raised(@, d)]
           so == [st.score EXCEPT ![own] = Raised(@, d)]
           pe == [st.pens EXCEPT ![e.side] = Raised(@, d)]
<1>1. e.side \in Sides /\ own \in Sides /\ own # e.side /\ e.shootOut \in BOOLEAN
  BY EventTyped, OtherSide
<1>2. st.score \in [Sides -> Nat] /\ st.pens \in [Sides -> Nat]
  BY DEF State
<1>3. sc \in [Sides -> Nat] /\ so \in [Sides -> Nat] /\ pe \in [Sides -> Nat]
  BY <1>1, <1>2, RaisedTyped
<1>4. \A s \in Sides :
         /\ sc[s] = IF e.side = s THEN Raised(st.score[s], d) ELSE st.score[s]
         /\ so[s] = IF e.side # s THEN Raised(st.score[s], d) ELSE st.score[s]
         /\ pe[s] = IF e.side = s THEN Raised(st.pens[s], d) ELSE st.pens[s]
  <2>1. \A s \in Sides : s = own <=> e.side # s
    BY <1>1 DEF Sides
  <2> HIDE DEF own
  <2> QED BY <1>1, <1>2, <2>1
<1>5. Scored(st, e, d) =
        IF e.shootOut
        THEN IF e.type = "penalty_goal" THEN [st EXCEPT !.pens = pe] ELSE st
        ELSE IF e.type \in {"goal", "penalty_goal"} THEN [st EXCEPT !.score = sc]
        ELSE IF e.type = "own_goal" THEN [st EXCEPT !.score = so] ELSE st
  BY DEF Scored, InShootOut
<1> HIDE DEF sc, so, pe
<1>6. CASE e.shootOut /\ e.type = "penalty_goal"
  <2> DEFINE st1 == [st EXCEPT !.pens = pe]
  <2>1. Scored(st, e, d) = st1
    BY <1>5, <1>6
  <2>2. st1 \in State /\ st1.pens = pe /\ st1.score = st.score /\ st1.half = st.half
        /\ st1.running = st.running /\ st1.elapsed = st.elapsed /\ st1.since = st.since
    BY <1>3, ScoreTyped, Zenon
  <2> HIDE DEF st1
  <2> QED BY <1>1, <1>4, <1>6, <2>1, <2>2
<1>7. CASE ~ e.shootOut /\ e.type \in {"goal", "penalty_goal"}
  <2> DEFINE st1 == [st EXCEPT !.score = sc]
  <2>1. Scored(st, e, d) = st1
    BY <1>5, <1>7
  <2>2. st1 \in State /\ st1.score = sc /\ st1.pens = st.pens /\ st1.half = st.half
        /\ st1.running = st.running /\ st1.elapsed = st.elapsed /\ st1.since = st.since
    BY <1>3, ScoreTyped, Zenon
  <2> HIDE DEF st1
  <2> QED BY <1>1, <1>4, <1>7, <2>1, <2>2
<1>8. CASE ~ e.shootOut /\ e.type = "own_goal"
  <2> DEFINE st1 == [st EXCEPT !.score = so]
  <2>1. Scored(st, e, d) = st1
    BY <1>5, <1>8
  <2>2. st1 \in State /\ st1.score = so /\ st1.pens = st.pens /\ st1.half = st.half
        /\ st1.running = st.running /\ st1.elapsed = st.elapsed /\ st1.since = st.since
    BY <1>3, ScoreTyped, Zenon
  <2> HIDE DEF st1
  <2> QED BY <1>1, <1>4, <1>8, <2>1, <2>2
<1>9. CASE ~ (\/ e.shootOut /\ e.type = "penalty_goal"
              \/ ~ e.shootOut /\ e.type \in {"goal", "penalty_goal", "own_goal"})
  BY <1>1, <1>5, <1>9
<1> QED BY <1>1, <1>6, <1>7, <1>8, <1>9

----------------------------------------------------------------------------
(* The clock *)

LEMMA ClockTyped ==
    ASSUME state \in State, Clocked(state), now \in 0..MaxTime
    PROVE  Clock \in Nat /\ Clock >= state.elapsed
<1>1. state.elapsed \in Nat /\ state.since \in 0..MaxTime /\ MaxTime \in Nat
  BY FootballAssumption DEF State
<1>2. CASE state.running
  <2>1. state.since <= now
    BY <1>2 DEF Clocked
  <2> QED BY <1>1, <1>2, <2>1 DEF Clock
<1>3. CASE ~ state.running
  BY <1>1, <1>3 DEF Clock
<1> QED BY <1>2, <1>3

\* A control leaves the score alone.
SameScore(st) == st.score = state.score /\ st.pens = state.pens

LEMMA StopTyped ==
    ASSUME state \in State, Clocked(state), now \in 0..MaxTime
    PROVE  /\ StopClock(state) \in State /\ SameScore(StopClock(state))
           /\ ~ StopClock(state).running /\ StopClock(state).elapsed = Clock
<1>1. Clock \in Nat /\ 0 \in 0..MaxTime
  BY ClockTyped, FootballAssumption
<1> DEFINE c == Clock
<1>2. StopClock(state) = [state EXCEPT !.elapsed = c, !.running = FALSE, !.since = 0]
  BY DEF StopClock
<1>3. c \in Nat
  BY <1>1
<1> HIDE DEF c
<1>4. /\ StopClock(state) \in State /\ SameScore(StopClock(state))
      /\ ~ StopClock(state).running /\ StopClock(state).elapsed = c
  BY <1>1, <1>2, <1>3 DEF State, SameScore
<1> QED BY <1>4 DEF c

LEMMA RunTyped ==
    ASSUME NEW st \in State, now \in 0..MaxTime
    PROVE  /\ RunClock(st) \in State /\ RunClock(st).score = st.score /\ RunClock(st).pens = st.pens
           /\ RunClock(st).running /\ RunClock(st).since = now /\ RunClock(st).elapsed = st.elapsed
BY DEF RunClock, State

LEMMA PeriodStartTyped == ASSUME NEW p PROVE PeriodStart(p) \in Nat
<1>1. HalfLength \in Nat /\ ExtraHalf \in Nat
  BY FootballAssumption
<1> QED BY <1>1 DEF PeriodStart

LEMMA SecondHalfTyped ==
    ASSUME state \in State
    PROVE  /\ SecondHalf(state) \in State /\ SameScore(SecondHalf(state))
           /\ SecondHalf(state).running = state.running /\ SecondHalf(state).since = state.since
           /\ SecondHalf(state).elapsed >= state.elapsed
<1>1. PeriodStart("2") \in Nat /\ "2" \in Halves /\ state.elapsed \in Nat
  BY PeriodStartTyped DEF Halves, Periods, State
<1> DEFINE el == IF state.elapsed > PeriodStart("2") THEN state.elapsed ELSE PeriodStart("2")
<1>2. el \in Nat /\ el >= state.elapsed
  BY <1>1
<1>3. SecondHalf(state) = IF state.half = "half_time"
                          THEN [state EXCEPT !.half = "2", !.elapsed = el] ELSE state
  BY DEF SecondHalf
<1> HIDE DEF el
<1> DEFINE sh == [state EXCEPT !.half = "2", !.elapsed = el]
<1>4. /\ sh \in State /\ sh.score = state.score /\ sh.pens = state.pens
      /\ sh.running = state.running /\ sh.since = state.since /\ sh.elapsed = el
  BY <1>1, <1>2 DEF State
<1> HIDE DEF sh
<1>5. CASE state.half = "half_time"
  BY <1>2, <1>3, <1>4, <1>5 DEF SameScore, sh
<1>6. CASE state.half # "half_time"
  BY <1>1, <1>3, <1>6 DEF SameScore
<1> QED BY <1>5, <1>6

\* What the state row becomes under each control, and that none but setting a
\* period or the minute takes time off the clock.
ControlResult(w, st) ==
    /\ st \in State /\ Clocked(st) /\ SameScore(st)
    /\ \/ request[w].op \in Periods \union {"set_minute"}
       \/ st.elapsed + (IF st.running THEN now - st.since ELSE 0) >= Clock

LEMMA ControlTyped ==
    ASSUME Typed, NEW w \in Console,
           \/ Start(w) \/ Pause(w) \/ HalfTime(w) \/ SetHalf(w) \/ Finish(w) \/ Reopen(w)
           \/ \E minute \in 0..MaxTime : SetMinute(w, minute)
    PROVE  ControlResult(w, state')
<1>1. /\ state \in State /\ Clocked(state) /\ now \in 0..MaxTime /\ now \in Nat
      /\ state.elapsed \in Nat /\ state.since \in Nat /\ state.running \in BOOLEAN
  BY FootballAssumption DEF Typed, State
<1>2. Clock \in Nat /\ Clock >= state.elapsed
  BY <1>1, ClockTyped
<1>3. /\ StopClock(state) \in State /\ SameScore(StopClock(state))
      /\ ~ StopClock(state).running /\ StopClock(state).elapsed = Clock
  BY <1>1, StopTyped
<1>4. CASE Start(w)
  <2> DEFINE sh == SecondHalf(state)
  <2>1. /\ sh \in State /\ SameScore(sh) /\ sh.running = state.running
        /\ sh.since = state.since /\ sh.elapsed >= state.elapsed /\ sh.elapsed \in Nat
    BY <1>1, SecondHalfTyped DEF State
  <2>2. state' = StartClock(sh)
    BY <1>4 DEF Start, Kept
  <2> HIDE DEF sh
  <2>3. CASE sh.running
    <3>1. state' = sh
      BY <2>2, <2>3 DEF StartClock
    <3>2. state.running /\ Clock = state.elapsed + (now - state.since)
      BY <2>1, <2>3 DEF Clock
    <3>3. state.since <= now /\ sh.since = state.since /\ sh.running
      BY <1>1, <2>1, <2>3, <3>2 DEF Clocked
    <3>4. sh.elapsed + (now - sh.since) >= Clock
      BY <1>1, <2>1, <3>2, <3>3
    <3>5. Clocked(sh)
      BY <3>3 DEF Clocked
    <3>6. ControlResult(w, sh)
      BY <2>1, <3>3, <3>4, <3>5 DEF ControlResult
    <3> QED BY <3>1, <3>6
  <2>4. CASE ~ sh.running
    <3>1. state' = RunClock(sh)
      BY <2>2, <2>4 DEF StartClock
    <3>2. /\ state' \in State /\ SameScore(state') /\ state'.running
          /\ state'.since = now /\ state'.elapsed = sh.elapsed
      BY <1>1, <2>1, <3>1, RunTyped DEF SameScore
    <3>3. Clock = state.elapsed
      BY <1>1, <2>1, <2>4 DEF Clock
    <3> QED BY <1>1, <2>1, <3>2, <3>3 DEF ControlResult, Clocked
  <2> QED BY <2>3, <2>4
<1>5. CASE Pause(w)
  <2>1. state' = StopClock(state)
    BY <1>5 DEF Pause, Kept
  <2> QED BY <1>2, <1>3, <2>1 DEF ControlResult, Clocked
<1>6. ASSUME NEW h \in {"half_time", "full_time"}, state' = [StopClock(state) EXCEPT !.half = h]
      PROVE  ControlResult(w, state')
  <2>1. h \in Halves
    BY DEF Halves
  <2>2. /\ state' \in State /\ SameScore(state') /\ ~ state'.running /\ state'.elapsed = Clock
    BY <1>3, <1>6, <2>1 DEF State, SameScore
  <2> QED BY <1>2, <2>2 DEF ControlResult, Clocked
<1>7. CASE HalfTime(w)
  BY <1>6, <1>7 DEF HalfTime, Kept
<1>8. CASE Finish(w)
  BY <1>6, <1>8 DEF Finish, Kept
<1>9. CASE SetHalf(w)
  <2> DEFINE p == request[w].op
             entered == [StopClock(state) EXCEPT !.half = p]
  <2>1. p \in Periods /\ p \in Halves /\ PeriodStart(p) \in Nat
    BY <1>9, PeriodStartTyped DEF SetHalf, Halves
  <2>2. entered \in State /\ SameScore(entered) /\ ~ entered.running
    BY <1>3, <2>1 DEF State, SameScore
  <2>3. /\ [entered EXCEPT !.elapsed = PeriodStart(p)] \in State
        /\ SameScore([entered EXCEPT !.elapsed = PeriodStart(p)])
    BY <2>1, <2>2 DEF State, SameScore
  <2>4. state' = IF p = "penalties" THEN entered
                 ELSE RunClock([entered EXCEPT !.elapsed = PeriodStart(p)])
    BY <1>9 DEF SetHalf, Kept
  <2> HIDE DEF entered
  <2>5. state' \in State /\ SameScore(state') /\ Clocked(state')
    <3>1. CASE p = "penalties"
      BY <2>2, <2>4, <3>1 DEF Clocked
    <3>2. CASE p # "penalties"
      <4> DEFINE timed == [entered EXCEPT !.elapsed = PeriodStart(p)]
      <4>1. timed \in State /\ SameScore(timed) /\ state' = RunClock(timed)
        BY <2>3, <2>4, <3>2
      <4> HIDE DEF timed
      <4>2. /\ RunClock(timed) \in State /\ RunClock(timed).score = timed.score
            /\ RunClock(timed).pens = timed.pens /\ RunClock(timed).since = now
        BY <1>1, <4>1, RunTyped
      <4>3. SameScore(RunClock(timed)) /\ Clocked(RunClock(timed))
        BY <1>1, <4>1, <4>2 DEF SameScore, Clocked
      <4> QED BY <4>1, <4>2, <4>3
    <3> QED BY <3>1, <3>2
  <2> QED BY <2>1, <2>5 DEF ControlResult
<1>10. ASSUME NEW minute \in 0..MaxTime, SetMinute(w, minute) PROVE ControlResult(w, state')
  <2> DEFINE set == [StopClock(state) EXCEPT !.elapsed = minute]
  <2>1. set \in State /\ SameScore(set) /\ ~ set.running
    BY <1>3, FootballAssumption DEF State, SameScore
  <2>2. state' = IF state.running THEN RunClock(set) ELSE set
    BY <1>10 DEF SetMinute, Kept
  <2> HIDE DEF set
  <2>3. state' \in State /\ SameScore(state') /\ Clocked(state')
    BY <1>1, <2>1, <2>2, RunTyped DEF Clocked, SameScore
  <2> QED BY <1>10, <2>3 DEF ControlResult, SetMinute
<1>11. CASE Reopen(w)
  <2>1. state' = [state EXCEPT !.half = "2"]
    BY <1>11 DEF Reopen, Kept
  <2>2. /\ state' \in State /\ SameScore(state') /\ state'.running = state.running
        /\ state'.since = state.since /\ state'.elapsed = state.elapsed
    BY <1>1, <2>1 DEF State, SameScore, Halves, Periods
  <2> QED BY <1>1, <1>2, <2>2 DEF ControlResult, Clocked, Clock
<1> QED BY <1>4, <1>5, <1>7, <1>8, <1>9, <1>10, <1>11

----------------------------------------------------------------------------
(* Types, and the clock *)

\* What ClockNeverBack asks of one step.
Forward ==
    Clock' < Clock => \E w \in Console : /\ request[w].op \in Periods \union {"set_minute"}
                                         /\ request'[w].op = "none"

LEMMA KeepTyped ==
    ASSUME Typed, NEW w \in Console, NEW op \in Ops, Keep(w, op)
    PROVE  /\ request' \in [Console -> [op: Ops, was: Row \union {NoRow}]]
           /\ \A v \in Console : request'[v].op # "none" => request'[v].was \in Row
BY DEF Typed, Keep

LEMMA DoneTyped ==
    ASSUME Typed, NEW w \in Console, Done(w)
    PROVE  /\ request' \in [Console -> [op: Ops, was: Row \union {NoRow}]]
           /\ request'[w].op = "none"
           /\ \A v \in Console : request'[v].op # "none" => request'[v].was \in Row
<1>1. NoRequest \in [op: Ops, was: Row \union {NoRow}] /\ NoRequest.op = "none"
  BY DEF NoRequest, Ops
<1> QED BY <1>1 DEF Typed, Done

\* A step that leaves the state row alone.
LEMMA IdleClock ==
    ASSUME Typed, UNCHANGED state, now' = now \/ now' = now + 1, now' \in 0..MaxTime
    PROVE  state' \in State /\ Clocked(state)' /\ Forward
<1>1. /\ state \in State /\ Clocked(state) /\ now \in Nat /\ state.elapsed \in Nat
      /\ state.since \in Nat /\ state.running \in BOOLEAN
  BY FootballAssumption DEF Typed, State
<1>2. state' \in State /\ Clocked(state)'
  BY <1>1 DEF Clocked
<1>3. Clock \in Nat /\ Clock' \in Nat /\ Clock' >= Clock
  <2>1. CASE state.running
    BY <1>1, <2>1 DEF Clock, Clocked
  <2>2. CASE ~ state.running
    BY <1>1, <2>2 DEF Clock
  <2> QED BY <2>1, <2>2
<1> QED BY <1>2, <1>3 DEF Forward

LEMMA ReadStep ==
    ASSUME Typed, NEW w \in Console,
           \/ ReadEvent(w) \/ ReadUndo(w) \/ ReadCancel(w)
           \/ \E c \in Controls : ReadControl(w, c)
    PROVE  Typed' /\ Forward
<1>1. /\ UNCHANGED <<match, state, log, now>>
      /\ \E op \in Ops : Keep(w, op)
  BY FootballAssumption DEF ReadEvent, ReadUndo, ReadCancel, ReadControl, Ops
<1>2. state' \in State /\ Clocked(state)' /\ Forward
  BY <1>1, IdleClock DEF Typed
<1>3. /\ request' \in [Console -> [op: Ops, was: Row \union {NoRow}]]
      /\ \A v \in Console : request'[v].op # "none" => request'[v].was \in Row
  BY <1>1, KeepTyped
<1> QED BY <1>1, <1>2, <1>3 DEF Typed

LEMMA TossStep ==
    ASSUME Typed, TossCall \/ TossDecide \/ TossManual \/ TossReset
    PROVE  Typed' /\ Forward
<1>1. PICK to \in {"none", "won", "decided"} : match' = [match EXCEPT !.toss = to]
  BY DEF TossCall, TossDecide, TossManual, TossReset, Toss
<1>2. UNCHANGED <<state, log, now, request>>
  BY DEF TossCall, TossDecide, TossManual, TossReset, Toss
<1>3. match' \in Row
  BY <1>1 DEF Typed, Row
<1>4. state' \in State /\ Clocked(state)' /\ Forward
  BY <1>2, IdleClock DEF Typed
<1> QED BY <1>2, <1>3, <1>4 DEF Typed

LEMMA TickStep == ASSUME Typed, Tick PROVE Typed' /\ Forward
<1>1. UNCHANGED <<match, state, log, request>> /\ now' = now + 1 /\ now' \in 0..MaxTime
  BY FootballAssumption DEF Tick, Typed
<1>2. state' \in State /\ Clocked(state)' /\ Forward
  BY <1>1, IdleClock
<1> QED BY <1>1, <1>2 DEF Typed

LEMMA CancelStep ==
    ASSUME Typed, NEW w \in Console, CommitCancel(w) PROVE Typed' /\ Forward
<1>1. UNCHANGED <<state, log, now>> /\ Done(w) /\ match' = [match EXCEPT !.status = "cancelled"]
  BY DEF CommitCancel
<1>2. match' \in Row
  BY <1>1 DEF Typed, Row, Statuses
<1>3. state' \in State /\ Clocked(state)' /\ Forward
  BY <1>1, IdleClock DEF Typed
<1>4. /\ request' \in [Console -> [op: Ops, was: Row \union {NoRow}]]
      /\ \A v \in Console : request'[v].op # "none" => request'[v].was \in Row
  BY <1>1, DoneTyped
<1> QED BY <1>1, <1>2, <1>3, <1>4 DEF Typed

\* Recording and undoing leave the columns of the clock alone.
LEMMA ScoredClock ==
    ASSUME Typed, now' = now, NEW e \in Event, NEW d \in {1, -1}, state' = Scored(state, e, d)
    PROVE  state' \in State /\ Clocked(state)' /\ Forward
<1>1. /\ state \in State /\ Clocked(state) /\ now \in Nat /\ state.elapsed \in Nat
      /\ state.since \in Nat /\ state.running \in BOOLEAN
  BY FootballAssumption DEF Typed, State
<1>2. /\ state' \in State /\ state'.running = state.running
      /\ state'.elapsed = state.elapsed /\ state'.since = state.since
  BY <1>1, ScoredColumns
<1>3. Clock \in Nat /\ Clock' = Clock
  <2>1. CASE state.running
    BY <1>1, <1>2, <2>1 DEF Clock, Clocked
  <2>2. CASE ~ state.running
    BY <1>1, <1>2, <2>2 DEF Clock
  <2> QED BY <2>1, <2>2
<1> QED BY <1>1, <1>2, <1>3 DEF Forward, Clocked

LEMMA NewEventTyped ==
    ASSUME NEW type \in EventTypes, NEW side \in Sides, NEW p, OnSquad(side, p),
           NEW so \in BOOLEAN
    PROVE  [type |-> type, side |-> side, player |-> p, shootOut |-> so] \in Event
<1>1. type \in AllEvents /\ p \in Squad[side] \union {NoPlayer}
  BY FootballAssumption DEF OnSquad
<1>2. [type |-> type, side |-> side, player |-> p, shootOut |-> so]
         \in [type: AllEvents, side: {side}, player: Squad[side] \union {NoPlayer},
              shootOut: BOOLEAN]
  BY <1>1
<1> QED BY <1>2 DEF Event

LEMMA EventStep ==
    ASSUME Typed, NEW w \in Console, NEW type \in EventTypes, NEW side \in Sides, NEW p,
           CommitEvent(w, type, side, p)
    PROVE  Typed' /\ Forward
<1> DEFINE e == [type |-> type, side |-> side, player |-> p,
                 shootOut |-> state.half = "penalties"]
<1>1. UNCHANGED <<match, now>> /\ Done(w)
  BY DEF CommitEvent
<1>2. /\ request' \in [Console -> [op: Ops, was: Row \union {NoRow}]]
      /\ \A v \in Console : request'[v].op # "none" => request'[v].was \in Row
  BY <1>1, DoneTyped
<1>3. CASE Allowed(type, side, p)
  <2>1. e \in Event
    BY <1>3, NewEventTyped DEF Allowed
  <2>2. log' = Append(log, e) /\ state' = Scored(state, e, 1)
    BY <1>3 DEF CommitEvent
  <2> HIDE DEF e
  <2>3. log' \in Seq(Event)
    BY <2>1, <2>2 DEF Typed
  <2>4. state' \in State /\ Clocked(state)' /\ Forward
    BY <1>1, <2>1, <2>2, ScoredClock
  <2> QED BY <1>1, <1>2, <2>3, <2>4 DEF Typed
<1>4. CASE ~ Allowed(type, side, p)
  <2>1. UNCHANGED <<log, state>>
    BY <1>4 DEF CommitEvent
  <2>2. state' \in State /\ Clocked(state)' /\ Forward
    BY <1>1, <2>1, IdleClock DEF Typed
  <2> QED BY <1>1, <1>2, <2>1, <2>2 DEF Typed
<1> QED BY <1>3, <1>4

LEMMA LastTyped ==
    ASSUME NEW l \in Seq(Event), l # <<>>
    PROVE  /\ Last(l) \in Event /\ Front(l) \in Seq(Event) /\ Last(l) = l[Len(l)]
           /\ Len(l) \in Nat \ {0} /\ Len(Front(l)) = Len(l) - 1
           /\ \A i \in 1..(Len(l) - 1) : Front(l)[i] = l[i]
<1>1. Len(l) \in Nat \ {0}
  OBVIOUS
<1>2. Last(l) = l[Len(l)] /\ Front(l) = SubSeq(l, 1, Len(l) - 1)
  BY DEF Last, Front
<1> DEFINE n == Len(l) - 1
<1>3. n \in Nat /\ \A i \in 1..n : l[i] \in Event
  BY <1>1
<1>4. n + 1 = Len(l) /\ l[Len(l)] \in Event
  BY <1>1
<1> HIDE DEF n
<1>5. /\ SubSeq(l, 1, n) \in Seq(Event) /\ Len(SubSeq(l, 1, n)) = n
      /\ \A i \in 1..n : SubSeq(l, 1, n)[i] = l[i]
  BY <1>1, <1>3
<1> QED BY <1>1, <1>2, <1>4, <1>5 DEF n

LEMMA UndoStep ==
    ASSUME Typed, NEW w \in Console, CommitUndo(w)
    PROVE  Typed' /\ Forward
<1> DEFINE was == request[w].was
<1>1. now' = now /\ Done(w) /\ was \in Row
  BY DEF CommitUndo, Typed
<1>2. /\ request' \in [Console -> [op: Ops, was: Row \union {NoRow}]]
      /\ \A v \in Console : request'[v].op # "none" => request'[v].was \in Row
  BY <1>1, DoneTyped
<1>3. CASE log = <<>>
  <2>1. UNCHANGED <<log, state, match>>
    BY <1>3 DEF CommitUndo
  <2>2. state' \in State /\ Clocked(state)' /\ Forward
    BY <1>1, <2>1, IdleClock DEF Typed
  <2> QED BY <1>1, <1>2, <2>1, <2>2 DEF Typed
<1>4. CASE log # <<>>
  <2>1. /\ log' = Front(log) /\ state' = Scored(state, Last(log), -1)
        /\ match' = match \/ match' = Saved(was, Concluded(was, state'))
    BY <1>4 DEF CommitUndo
  <2>2. Front(log) \in Seq(Event) /\ Last(log) \in Event
    BY <1>4, LastTyped DEF Typed
  <2>3. state' \in State /\ Clocked(state)' /\ Forward
    BY <1>1, <2>1, <2>2, ScoredClock
  <2>4. Concluded(was, state') \in Row
    BY <1>1, ConcludedTyped
  <2>5. Saved(was, Concluded(was, state')) \in Row
    BY <2>4, SavedTyped DEF Typed
  <2>6. match' \in Row
    BY <2>1, <2>5 DEF Typed
  <2> QED BY <1>1, <1>2, <2>1, <2>2, <2>3, <2>6 DEF Typed
<1> QED BY <1>3, <1>4

\* One of the clock controls, written.
Control(w) ==
    \/ Start(w) \/ Pause(w) \/ HalfTime(w) \/ SetHalf(w) \/ Finish(w) \/ Reopen(w)
    \/ \E minute \in 0..MaxTime : SetMinute(w, minute)

\* The row a control saves over the one it read.
SavedBy(w, was) ==
    \/ match' = Saved(was, was)
    \/ match' = Saved(was, [was EXCEPT !.status = "in_progress"])
    \/ request[w].op = "half_time" /\ match' = Saved(was, [was EXCEPT !.status = "half_time"])
    \/ request[w].op = "finish" /\ \E st : match' = Saved(was, Concluded(was, st))
    \/ request[w].op = "reopen" /\ match' = Saved(was, Reopened(was))

LEMMA ControlSaves ==
    ASSUME NEW w \in Console, Control(w)
    PROVE  Done(w) /\ UNCHANGED <<log, now>> /\ SavedBy(w, request[w].was) /\ request[w].op # "none"
<1>1. ASSUME Start(w) \/ Pause(w) \/ HalfTime(w) \/ SetHalf(w) \/ Finish(w) \/ Reopen(w)
             \/ \E minute \in 0..MaxTime : SetMinute(w, minute)
      PROVE  Done(w) /\ UNCHANGED <<log, now>> /\ request[w].op # "none"
  BY <1>1 DEF Start, Pause, HalfTime, SetHalf, SetMinute, Finish, Reopen, Kept, Periods
<1>2. Start(w) \/ SetHalf(w) => match' = Saved(request[w].was, [request[w].was EXCEPT !.status = "in_progress"])
  BY DEF Start, SetHalf, Kept
<1>3. Pause(w) \/ (\E minute \in 0..MaxTime : SetMinute(w, minute))
         => match' = Saved(request[w].was, request[w].was)
  BY DEF Pause, SetMinute, Kept
<1>4. HalfTime(w) => request[w].op = "half_time"
                     /\ match' = Saved(request[w].was, [request[w].was EXCEPT !.status = "half_time"])
  BY DEF HalfTime, Kept
<1>5. Finish(w) => request[w].op = "finish"
                   /\ \E st : match' = Saved(request[w].was, Concluded(request[w].was, st))
  BY DEF Finish, Kept
<1>6. Reopen(w) => request[w].op = "reopen" /\ match' = Saved(request[w].was, Reopened(request[w].was))
  BY DEF Reopen, Kept
<1> QED BY <1>1, <1>2, <1>3, <1>4, <1>5, <1>6 DEF Control, SavedBy

LEMMA ControlStep ==
    ASSUME Typed, NEW w \in Console, Control(w)
    PROVE  Typed' /\ Forward
<1> DEFINE was == request[w].was
<1>1. Done(w) /\ UNCHANGED <<log, now>> /\ SavedBy(w, was) /\ was \in Row
  BY ControlSaves DEF Typed
<1>2. /\ request' \in [Console -> [op: Ops, was: Row \union {NoRow}]]
      /\ request'[w].op = "none"
      /\ \A v \in Console : request'[v].op # "none" => request'[v].was \in Row
  BY <1>1, DoneTyped
<1>3. match' \in Row
  <2>1. /\ [was EXCEPT !.status = "in_progress"] \in Row
        /\ [was EXCEPT !.status = "half_time"] \in Row /\ Reopened(was) \in Row
    BY <1>1 DEF Row, Statuses, Reopened
  <2>2. \A st : Concluded(was, st) \in Row
    BY <1>1, ConcludedTyped
  <2>3. \A m \in Row : Saved(was, m) \in Row
    BY SavedTyped DEF Typed
  <2> HIDE DEF was
  <2> QED BY <1>1, <2>1, <2>2, <2>3 DEF SavedBy
<1>4. ControlResult(w, state')
  BY ControlTyped DEF Control
<1>5. /\ state' \in State /\ (state'.running => state'.since <= now)
      /\ \/ request[w].op \in Periods \union {"set_minute"}
         \/ state'.elapsed + (IF state'.running THEN now - state'.since ELSE 0) >= Clock
  BY <1>4 DEF ControlResult, Clocked
<1>6. Clock' = state'.elapsed + (IF state'.running THEN now - state'.since ELSE 0)
  BY <1>1 DEF Clock
<1>7. Clock \in Nat /\ Clock' \in Int
  <2>1. now \in Nat /\ state'.elapsed \in Nat /\ state'.since \in Nat
    BY <1>5, FootballAssumption DEF Typed, State
  <2> QED BY <1>6, <2>1, ClockTyped DEF Typed
<1>8. Forward
  BY <1>2, <1>5, <1>6, <1>7 DEF Forward
<1>9. Clocked(state)'
  BY <1>1, <1>5 DEF Clocked
<1> QED BY <1>1, <1>2, <1>3, <1>5, <1>8, <1>9 DEF Typed

LEMMA TypedInit == Init => Typed
<1> SUFFICES ASSUME Init PROVE Typed
  OBVIOUS
<1>1. match \in Row
  BY DEF Init, Row, Statuses
<1>2. Nil \in [Sides -> Nat] /\ 0 \in 0..MaxTime
  BY FootballAssumption DEF Nil
<1>3. state \in State /\ Clocked(state)
  BY <1>2 DEF Init, State, Halves, Periods, Clocked
<1>4. log \in Seq(Event)
  <2>1. log = <<>>
    BY DEF Init
  <2> QED BY <2>1
<1>5. /\ request \in [Console -> [op: Ops, was: Row \union {NoRow}]]
      /\ \A w \in Console : request[w].op = "none"
  BY DEF Init, NoRequest, Ops
<1> QED BY <1>1, <1>2, <1>3, <1>4, <1>5 DEF Typed, Init

LEMMA TypedNext == ASSUME Typed, [Next]_vars PROVE Typed' /\ (Forward \/ UNCHANGED vars)
<1>1. CASE UNCHANGED vars
  BY <1>1 DEF vars, Typed, Clocked
<1>2. ASSUME NEW w \in Console, ConsoleNext(w) PROVE Typed' /\ Forward
  <2>1. CASE \/ ReadEvent(w) \/ ReadUndo(w) \/ ReadCancel(w)
             \/ \E c \in Controls : ReadControl(w, c)
    BY <2>1, ReadStep
  <2>2. CASE CommitUndo(w)
    BY <2>2, UndoStep
  <2>3. CASE CommitCancel(w)
    BY <2>3, CancelStep
  <2>4. CASE \E type \in EventTypes, side \in Sides,
                p \in UNION {Squad[s] : s \in Sides} \union {NoPlayer} : CommitEvent(w, type, side, p)
    BY <2>4, EventStep
  <2>5. CASE Control(w)
    BY <2>5, ControlStep
  <2> QED BY <1>2, <2>1, <2>2, <2>3, <2>4, <2>5 DEF ConsoleNext, Control
<1> QED BY <1>1, <1>2, TossStep, TickStep DEF Next

\* Every reachable state is well typed: the match and state rows, the log and the
\* snapshots the consoles hold (ScoringEngine, MatchController).
THEOREM TypeCorrect == Spec => []TypeOK
<1>1. Spec => []Typed
  BY TypedInit, TypedNext, PTL DEF Spec
<1> QED BY <1>1, TypedIsTypeOK, PTL

\* Start, pause, half-time, the whistle and reopening lose no second of play,
\* however many consoles press them together: only a period or a minute that a
\* scorer sets takes the clock back (FootballScoringEngine).
THEOREM ClockOnlyForward == Spec => ClockNeverBack
<1>1. Typed /\ [Next]_vars => [Forward]_vars
  BY TypedNext
<1>2. Spec => [][Forward]_vars
  BY <1>1, TypedInit, TypedNext, PTL DEF Spec
<1> QED BY <1>2, PTL DEF Forward, ClockNeverBack

----------------------------------------------------------------------------
(* Before the kick-off *)

\* A scorer who found the match under way finds it so for good, and what may
\* only be asked of such a match was.
Kicked ==
    /\ NothingBeforeKickOff
    /\ \A w \in Console : request[w].op # "none" =>
          /\ request[w].was.status \notin NotKickedOff => match.status \notin NotKickedOff
          /\ request[w].op \in {"event", "finish", "half_time", "reopen"}
                 => request[w].was.status \notin NotKickedOff

Early(m) == m.status \in NotKickedOff

\* A step that leaves the requests to others as they are, and the match under
\* way if it was.
LEMMA KickedKept ==
    ASSUME Typed, Kicked, NEW w \in Console, Done(w),
           ~ Early(match) => ~ Early(match'),
           Early(match') => log' = <<>> /\ match'.winner = ""
    PROVE  Kicked'
<1>1. request'[w].op = "none"
  BY DoneTyped
<1>2. \A v \in Console : v # w => request'[v] = request[v]
  BY DEF Done, Typed
<1>3. NothingBeforeKickOff'
  BY DEF NothingBeforeKickOff, Early
<1> QED BY <1>1, <1>2, <1>3 DEF Kicked, Early

LEMMA KickedRead ==
    ASSUME Typed, Kicked, NEW w \in Console,
           \/ ReadEvent(w) \/ ReadUndo(w) \/ ReadCancel(w)
           \/ \E c \in Controls : ReadControl(w, c)
    PROVE  Kicked'
<1>1. UNCHANGED <<match, log>>
  BY DEF ReadEvent, ReadUndo, ReadCancel, ReadControl
<1> DEFINE Judged(op) == op \in {"event", "finish", "half_time", "reopen"}
                            => match.status \notin NotKickedOff
<1>2. PICK op \in Ops : Keep(w, op) /\ Judged(op)
  <2>1. CASE ReadEvent(w)
    BY <2>1 DEF ReadEvent, Playable, Ops
  <2>2. CASE ReadUndo(w) \/ ReadCancel(w)
    BY <2>2 DEF ReadUndo, ReadCancel, Ops
  <2>3. ASSUME NEW c \in Controls, ReadControl(w, c) PROVE \E op \in Ops : Keep(w, op) /\ Judged(op)
    <3>1. Keep(w, c) /\ c \in Ops
      BY <2>3, FootballAssumption DEF ReadControl, Ops
    <3>2. c # "event"
      BY FootballAssumption DEF AllControls, Periods
    <3>3. Judged(c)
      BY <2>3, <3>2 DEF ReadControl, NotKickedOff
    <3> QED BY <3>1, <3>3
  <2> QED BY <2>1, <2>2, <2>3
<1>3. \A v \in Console : request'[v] = IF v = w THEN [op |-> op, was |-> match] ELSE request[v]
  BY <1>2 DEF Keep, Typed
<1>4. request'[w].op = op /\ request'[w].was = match
  BY <1>3
<1>5. \A v \in Console : v # w => request'[v] = request[v]
  BY <1>3
<1> QED BY <1>1, <1>2, <1>4, <1>5 DEF Kicked, NothingBeforeKickOff

LEMMA KickedSaved ==
    ASSUME match \in Row, NEW was \in Row, NEW m \in Row,
           m.status # was.status => m.status \notin NotKickedOff,
           m.winner # was.winner /\ m.winner # "" => ~ Early(match)
    PROVE  /\ ~ Early(match) => ~ Early(Saved(was, m))
           /\ Early(Saved(was, m)) => Early(match)
           /\ Early(Saved(was, m)) /\ match.winner = "" => Saved(was, m).winner = ""
<1>1. /\ Saved(was, m).status = IF m.status # was.status THEN m.status ELSE match.status
      /\ Saved(was, m).winner = IF m.winner # was.winner THEN m.winner ELSE match.winner
  BY DEF Saved, Row
<1> QED BY <1>1 DEF Early

LEMMA KickedConcluded ==
    ASSUME Typed, Kicked, NEW w \in Console, request[w].op # "none", NEW st,
           request[w].was.status \notin NotKickedOff
    PROVE  ~ Early(Saved(request[w].was, Concluded(request[w].was, st))) /\ ~ Early(match)
<1> DEFINE was == request[w].was
           m == Concluded(was, st)
<1>1. was \in Row /\ m \in Row /\ match \in Row /\ ~ Early(match)
  BY ConcludedTyped DEF Typed, Kicked, Early
<1>2. m.status = "completed"
  BY <1>1 DEF Concluded, Row
<1> HIDE DEF m
<1>3. ~ Early(Saved(was, m))
  BY <1>1, <1>2, KickedSaved DEF NotKickedOff
<1> QED BY <1>1, <1>3 DEF m

LEMMA KickedEvent ==
    ASSUME Typed, Kicked, NEW w \in Console, NEW type, NEW side, NEW p,
           CommitEvent(w, type, side, p)
    PROVE  Kicked'
<1>1. request[w].op = "event" /\ Done(w) /\ UNCHANGED match
  BY DEF CommitEvent
<1>2. ~ Early(match)
  BY <1>1 DEF Kicked, Early
<1> QED BY <1>1, <1>2, KickedKept

LEMMA KickedUndo ==
    ASSUME Typed, Kicked, NEW w \in Console, CommitUndo(w)
    PROVE  Kicked'
<1>1. request[w].op = "undo" /\ Done(w)
  BY DEF CommitUndo
<1>2. CASE log = <<>> \/ request[w].was.status # "completed"
  <2>1. UNCHANGED match /\ (log = <<>> => log' = <<>>)
    BY <1>2 DEF CommitUndo
  <2>2. Early(match) => log = <<>> /\ match.winner = ""
    BY DEF Kicked, NothingBeforeKickOff, Early
  <2> QED BY <1>1, <2>1, <2>2, KickedKept
<1>3. CASE log # <<>> /\ request[w].was.status = "completed"
  <2>1. match' = Saved(request[w].was, Concluded(request[w].was, state'))
    BY <1>3 DEF CommitUndo
  <2>2. ~ Early(match') /\ ~ Early(match)
    BY <1>1, <1>3, <2>1, KickedConcluded DEF NotKickedOff
  <2> QED BY <1>1, <2>2, KickedKept
<1> QED BY <1>2, <1>3

LEMMA KickedControl ==
    ASSUME Typed, Kicked, NEW w \in Console, Control(w)
    PROVE  Kicked'
<1> DEFINE was == request[w].was
<1>1. Done(w) /\ UNCHANGED <<log, now>> /\ SavedBy(w, was) /\ request[w].op # "none"
  BY ControlSaves
<1>2. was \in Row /\ match \in Row
  BY <1>1 DEF Typed
<1>3. Early(match) => log = <<>> /\ match.winner = ""
  BY DEF Kicked, NothingBeforeKickOff, Early
<1>4. ASSUME NEW m \in Row, match' = Saved(was, m), m.winner \in {was.winner, ""},
             m.status \in {was.status, "in_progress", "half_time"}
      PROVE  Kicked'
  <2>1. /\ ~ Early(match) => ~ Early(match')
        /\ Early(match') => Early(match)
        /\ Early(match') /\ match.winner = "" => match'.winner = ""
    BY <1>2, <1>4, KickedSaved DEF NotKickedOff
  <2> QED BY <1>1, <1>3, <2>1, KickedKept
<1>5. CASE match' = Saved(was, was)
  BY <1>2, <1>4, <1>5
<1>6. ASSUME NEW s \in {"in_progress", "half_time"}, match' = Saved(was, [was EXCEPT !.status = s])
      PROVE  Kicked'
  <2> DEFINE m == [was EXCEPT !.status = s]
  <2>1. m \in Row /\ m.winner = was.winner /\ m.status = s
    BY <1>2 DEF Row, Statuses
  <2> HIDE DEF m
  <2>2. match' = Saved(was, m)
    BY <1>6 DEF m
  <2> QED BY <1>4, <2>1, <2>2
<1>7. CASE match' = Saved(was, Reopened(was))
  <2>1. Reopened(was) \in Row /\ Reopened(was).winner = "" /\ Reopened(was).status = "in_progress"
    BY <1>2 DEF Row, Statuses, Reopened
  <2> QED BY <1>4, <1>7, <2>1
<1>8. ASSUME request[w].op = "finish", NEW st, match' = Saved(was, Concluded(was, st))
      PROVE  Kicked'
  <2>1. ~ Early(match') /\ ~ Early(match)
    BY <1>1, <1>8, KickedConcluded DEF Kicked
  <2> QED BY <1>1, <2>1, KickedKept
<1> QED BY <1>1, <1>5, <1>6, <1>7, <1>8 DEF SavedBy

LEMMA KickedNext == ASSUME Typed, Kicked, [Next]_vars PROVE Kicked'
<1>1. CASE UNCHANGED vars
  BY <1>1 DEF vars, Kicked, NothingBeforeKickOff
<1>2. ASSUME NEW w \in Console, ConsoleNext(w) PROVE Kicked'
  <2>1. CASE CommitCancel(w)
    <3>1. Done(w) /\ match' = [match EXCEPT !.status = "cancelled"] /\ match'.status = "cancelled"
      BY <2>1 DEF CommitCancel, Typed, Row
    <3> QED BY <3>1, KickedKept DEF Early, NotKickedOff
  <2> QED BY <1>2, <2>1, KickedRead, KickedEvent, KickedUndo, KickedControl DEF ConsoleNext, Control
<1>3. CASE TossCall \/ TossDecide \/ TossManual \/ TossReset
  <2>1. /\ match'.status = match.status /\ match'.winner = match.winner
        /\ UNCHANGED <<log, request>>
    BY <1>3 DEF TossCall, TossDecide, TossManual, TossReset, Toss, Typed, Row
  <2> QED BY <2>1 DEF Kicked, NothingBeforeKickOff
<1>4. CASE Tick
  BY <1>4 DEF Tick, Kicked, NothingBeforeKickOff
<1> QED BY <1>1, <1>2, <1>3, <1>4 DEF Next

LEMMA KickedInit == Init => Kicked
<1> SUFFICES ASSUME Init PROVE Kicked
  OBVIOUS
<1>1. match.winner = "" /\ log = <<>> /\ \A w \in Console : request[w].op = "none"
  BY DEF Init, NoRequest
<1> QED BY <1>1 DEF Kicked, NothingBeforeKickOff

\* Nothing is recorded and no result stands before the kick-off, although every
\* request judges the match before it takes the match lock (ScoringEngine).
THEOREM NothingEarly == Spec => []NothingBeforeKickOff
<1>1. Spec => [](Typed /\ Kicked)
  BY TypedInit, TypedNext, KickedInit, KickedNext, PTL DEF Spec
<1>2. Kicked => NothingBeforeKickOff
  BY DEF Kicked
<1> QED BY <1>1, <1>2, PTL

----------------------------------------------------------------------------
(* The score and the log *)

\* The events that count for a side in play, and in the shoot-out.
InPlay(s) == {e \in Event : /\ ~ e.shootOut
                            /\ \/ e.type \in {"goal", "penalty_goal"} /\ e.side = s
                               \/ e.type = "own_goal" /\ e.side # s}
Kicks(s) == {e \in Event : e.shootOut /\ e.type = "penalty_goal" /\ e.side = s}

Tallied == \A s \in Sides : state.score[s] = Num(log, InPlay(s)) /\ state.pens[s] = Num(log, Kicks(s))

LEMMA AppendTyped ==
    ASSUME NEW l \in Seq(Event), NEW e \in Event
    PROVE  /\ Append(l, e) \in Seq(Event) /\ Len(Append(l, e)) = Len(l) + 1
           /\ Len(l) \in Nat /\ Append(l, e)[Len(l) + 1] = e
           /\ \A i \in 1..Len(l) : Append(l, e)[i] = l[i]
OBVIOUS

LEMMA TalliedScored ==
    ASSUME Typed, Tallied, NEW e \in Event, NEW l \in Seq(Event), NEW d \in {1, -1},
           \A S \in SUBSET Event : Num(l, S) = Num(log, S) + IF e \in S THEN d ELSE 0,
           log' = l, state' = Scored(state, e, d)
    PROVE  Tallied'
<1> SUFFICES ASSUME NEW s \in Sides
             PROVE  state'.score[s] = Num(l, InPlay(s)) /\ state'.pens[s] = Num(l, Kicks(s))
  <2>1. Tallied' <=> \A s \in Sides : /\ state'.score[s] = Num(log', InPlay(s))
                                      /\ state'.pens[s] = Num(log', Kicks(s))
    BY DEF Tallied, Num, Where, InPlay, Kicks
  <2> QED BY <2>1
<1>1. state \in State /\ log \in Seq(Event)
  BY DEF Typed
<1>2. /\ state'.score[s] = IF e \in InPlay(s) THEN Raised(state.score[s], d) ELSE state.score[s]
      /\ state'.pens[s] = IF e \in Kicks(s) THEN Raised(state.pens[s], d) ELSE state.pens[s]
  <2>1. /\ Scored(state, e, d).score[s] =
              IF \/ ~ e.shootOut /\ e.type \in {"goal", "penalty_goal"} /\ e.side = s
                 \/ ~ e.shootOut /\ e.type = "own_goal" /\ e.side # s
              THEN Raised(state.score[s], d) ELSE state.score[s]
        /\ Scored(state, e, d).pens[s] =
              IF e.shootOut /\ e.type = "penalty_goal" /\ e.side = s
              THEN Raised(state.pens[s], d) ELSE state.pens[s]
    BY <1>1, ScoredColumns
  <2>2. /\ e \in InPlay(s) <=> \/ ~ e.shootOut /\ e.type \in {"goal", "penalty_goal"} /\ e.side = s
                               \/ ~ e.shootOut /\ e.type = "own_goal" /\ e.side # s
        /\ e \in Kicks(s) <=> e.shootOut /\ e.type = "penalty_goal" /\ e.side = s
    BY DEF InPlay, Kicks
  <2> QED BY <2>1, <2>2
<1>3. state.score[s] = Num(log, InPlay(s)) /\ state.pens[s] = Num(log, Kicks(s))
  BY DEF Tallied
<1>4. ASSUME NEW S \in SUBSET Event
      PROVE  Num(l, S) = IF e \in S THEN Raised(Num(log, S), d) ELSE Num(log, S)
  <2>1. Num(l, S) \in Nat /\ Num(log, S) \in Nat
    BY <1>1, WhereFinite
  <2>2. Num(l, S) = Num(log, S) + IF e \in S THEN d ELSE 0
    OBVIOUS
  <2> QED BY <2>1, <2>2 DEF Raised
<1>5. InPlay(s) \in SUBSET Event /\ Kicks(s) \in SUBSET Event
  BY DEF InPlay, Kicks
<1> QED BY <1>2, <1>3, <1>4, <1>5

LEMMA TalliedEvent ==
    ASSUME Typed, Tallied, NEW w, NEW type \in EventTypes, NEW side \in Sides, NEW p,
           CommitEvent(w, type, side, p)
    PROVE  Tallied'
<1> DEFINE e == [type |-> type, side |-> side, player |-> p,
                 shootOut |-> state.half = "penalties"]
<1>1. CASE Allowed(type, side, p)
  <2>1. e \in Event
    BY <1>1, NewEventTyped DEF Allowed
  <2>2. log' = Append(log, e) /\ state' = Scored(state, e, 1)
    BY <1>1 DEF CommitEvent
  <2> HIDE DEF e
  <2>3. log \in Seq(Event)
    BY DEF Typed
  <2>4. /\ log' \in Seq(Event) /\ Len(log') = Len(log) + 1 /\ log'[Len(log')] = e
        /\ \A i \in 1..Len(log) : log'[i] = log[i]
    BY <2>1, <2>2, <2>3, AppendTyped
  <2>5. \A S \in SUBSET Event : Num(log', S) = Num(log, S) + IF e \in S THEN 1 ELSE 0
    BY <2>3, <2>4, NumLonger
  <2> QED BY <2>1, <2>2, <2>4, <2>5, TalliedScored
<1>2. CASE ~ Allowed(type, side, p)
  <2>1. UNCHANGED <<log, state>>
    BY <1>2 DEF CommitEvent
  <2> QED BY <2>1 DEF Tallied, Num, Where, InPlay, Kicks
<1> QED BY <1>1, <1>2

LEMMA TalliedUndo ==
    ASSUME Typed, Tallied, NEW w, CommitUndo(w)
    PROVE  Tallied'
<1>1. CASE log = <<>>
  <2>1. UNCHANGED <<log, state>>
    BY <1>1 DEF CommitUndo
  <2> QED BY <2>1 DEF Tallied, Num, Where, InPlay, Kicks
<1>2. CASE log # <<>>
  <2> DEFINE l == Front(log)
             e == Last(log)
  <2>1. log' = l /\ state' = Scored(state, e, -1)
    BY <1>2 DEF CommitUndo
  <2>2. /\ log \in Seq(Event) /\ l \in Seq(Event) /\ e \in Event /\ e = log[Len(log)]
        /\ Len(log) = Len(l) + 1 /\ \A i \in 1..Len(l) : log[i] = l[i]
    BY <1>2, LastTyped DEF Typed
  <2> HIDE DEF l, e
  <2>3. ASSUME NEW S \in SUBSET Event
        PROVE  Num(l, S) = Num(log, S) + IF e \in S THEN -1 ELSE 0
    <3>1. Num(log, S) = Num(l, S) + IF e \in S THEN 1 ELSE 0
      BY <2>2, NumLonger
    <3>2. Num(l, S) \in Nat
      BY <2>2, WhereFinite
    <3> QED BY <3>1, <3>2
  <2> QED BY <2>1, <2>2, <2>3, TalliedScored
<1> QED BY <1>1, <1>2

LEMMA TalliedKept ==
    ASSUME Tallied, log' = log, state'.score = state.score, state'.pens = state.pens
    PROVE  Tallied'
BY DEF Tallied, Num, Where, InPlay, Kicks

LEMMA TalliedNext == ASSUME Typed, Tallied, [Next]_vars PROVE Tallied'
<1>1. CASE UNCHANGED vars
  BY <1>1, TalliedKept DEF vars
<1>2. ASSUME NEW w \in Console, ConsoleNext(w) PROVE Tallied'
  <2>1. CASE \/ ReadEvent(w) \/ ReadUndo(w) \/ ReadCancel(w) \/ CommitCancel(w)
             \/ \E c \in Controls : ReadControl(w, c)
    BY <2>1, TalliedKept DEF ReadEvent, ReadUndo, ReadCancel, CommitCancel, ReadControl
  <2>2. CASE Control(w)
    <3>1. ControlResult(w, state') /\ log' = log
      BY <2>2, ControlTyped, ControlSaves DEF Control
    <3> QED BY <3>1, TalliedKept DEF ControlResult, SameScore
  <2> QED BY <1>2, <2>1, <2>2, TalliedEvent, TalliedUndo DEF ConsoleNext, Control
<1>3. CASE TossCall \/ TossDecide \/ TossManual \/ TossReset \/ Tick
  <2>1. UNCHANGED <<state, log>>
    BY <1>3 DEF TossCall, TossDecide, TossManual, TossReset, Toss, Tick
  <2> QED BY <2>1, TalliedKept
<1> QED BY <1>1, <1>2, <1>3 DEF Next

LEMMA TalliedInit == Init => Tallied
<1> SUFFICES ASSUME Init PROVE Tallied
  OBVIOUS
<1>1. log = <<>> /\ \A s \in Sides : state.score[s] = 0 /\ state.pens[s] = 0
  BY DEF Init, Nil
<1>2. \A S : Where(<<>>, S) = {}
  BY DEF Where
<1> QED BY <1>1, <1>2, FS_EmptySet DEF Tallied, Num

LEMMA TalliedIsScore == Typed /\ Tallied => ScoreFromLog
<1> SUFFICES ASSUME Typed, Tallied, NEW s \in Sides
             PROVE  /\ state.score[s] = Cardinality({i \in DOMAIN log :
                          /\ ~ log[i].shootOut
                          /\ \/ log[i].type \in {"goal", "penalty_goal"} /\ log[i].side = s
                             \/ log[i].type = "own_goal" /\ log[i].side # s})
                    /\ state.pens[s] = Cardinality({i \in DOMAIN log :
                          log[i].shootOut /\ log[i].type = "penalty_goal" /\ log[i].side = s})
  BY DEF ScoreFromLog, Count
<1>1. \A i \in DOMAIN log : log[i] \in Event
  BY DEF Typed
<1>2. Where(log, InPlay(s)) = {i \in DOMAIN log :
          /\ ~ log[i].shootOut
          /\ \/ log[i].type \in {"goal", "penalty_goal"} /\ log[i].side = s
             \/ log[i].type = "own_goal" /\ log[i].side # s}
  BY <1>1 DEF Where, InPlay
<1>3. Where(log, Kicks(s)) = {i \in DOMAIN log :
          log[i].shootOut /\ log[i].type = "penalty_goal" /\ log[i].side = s}
  BY <1>1 DEF Where, Kicks
<1> QED BY <1>2, <1>3 DEF Tallied, Num

\* The scoreline and the shoot-out tally are what the events left in the log add up
\* to, whatever order records, undos and changes of period come in: undo drops the
\* last event and takes exactly its effect back (recordFootballEvent,
\* undoLastFootballEvent, applyGoal).
THEOREM ScoreIsTheLog == Spec => []ScoreFromLog
<1>1. Spec => [](Typed /\ Tallied)
  BY TypedInit, TypedNext, TalliedInit, TalliedNext, PTL DEF Spec
<1> QED BY <1>1, TalliedIsScore, PTL

----------------------------------------------------------------------------
(* Sendings-off *)

LEMMA Longer ==
    ASSUME NEW l \in Seq(Event), NEW k \in Seq(Event), Len(l) <= Len(k),
           \A i \in 1..Len(l) : k[i] = l[i], NEW i \in 1..Len(l), NEW T
    PROVE  {j \in 1..(i - 1) : k[j].player = k[i].player /\ T = k[j].type}
              = {j \in 1..(i - 1) : l[j].player = l[i].player /\ T = l[j].type}
<1>1. \A j \in 1..(i - 1) : j \in 1..Len(l)
  OBVIOUS
<1> QED BY <1>1

\* What SentOffStaysOff asks of one event of a log.
Fresh(l, i) ==
    l[i].type \in {"goal", "penalty_goal", "penalty_missed", "substitution"} /\ l[i].player # NoPlayer =>
        /\ {j \in 1..(i - 1) : l[j].player = l[i].player /\ "red_card" = l[j].type} = {}
        /\ Cardinality({j \in 1..(i - 1) : l[j].player = l[i].player /\ "yellow_card" = l[j].type}) < 2

AllFresh == \A i \in 1..Len(log) : Fresh(log, i)

LEMMA FreshIsSentOff == AllFresh /\ log \in Seq(Event) => SentOffStaysOff
<1> SUFFICES ASSUME AllFresh, log \in Seq(Event), NEW i \in DOMAIN log,
                    log[i].type \in {"goal", "penalty_goal", "penalty_missed", "substitution"},
                    log[i].player # NoPlayer
             PROVE  LET before == {j \in 1..(i - 1) : log[j].player = log[i].player} IN
                    /\ \A j \in before : log[j].type # "red_card"
                    /\ Cardinality({j \in before : log[j].type = "yellow_card"}) < 2
  BY DEF SentOffStaysOff
<1> DEFINE before == {j \in 1..(i - 1) : log[j].player = log[i].player}
<1>1. Fresh(log, i)
  BY DEF AllFresh
<1>2. {j \in before : log[j].type = "yellow_card"}
         = {j \in 1..(i - 1) : log[j].player = log[i].player /\ "yellow_card" = log[j].type}
  OBVIOUS
<1>3. \A j \in before : log[j].type # "red_card"
  BY <1>1 DEF Fresh
<1> QED BY <1>1, <1>2, <1>3 DEF Fresh

LEMMA FreshEvent ==
    ASSUME Typed, AllFresh, NEW w, NEW type \in EventTypes, NEW side \in Sides, NEW p,
           CommitEvent(w, type, side, p)
    PROVE  AllFresh'
<1> DEFINE e == [type |-> type, side |-> side, player |-> p,
                 shootOut |-> state.half = "penalties"]
<1>1. CASE Allowed(type, side, p)
  <2> DEFINE k == Append(log, e)
             n == Len(log) + 1
  <2>1. e \in Event /\ e.type = type /\ e.player = p
    BY <1>1, NewEventTyped DEF Allowed
  <2>2. log' = k
    BY <1>1 DEF CommitEvent
  <2> HIDE DEF e
  <2>3. log \in Seq(Event)
    BY DEF Typed
  <2>4. /\ k \in Seq(Event) /\ Len(k) = n /\ k[n] = e /\ n \in Nat /\ Len(log) = n - 1
        /\ \A i \in 1..Len(log) : k[i] = log[i]
    BY <2>1, <2>3, AppendTyped
  <2> HIDE DEF k, n
  <2>5. ASSUME NEW i \in 1..Len(log) PROVE Fresh(k, i)
    <3>1. \A T : {j \in 1..(i - 1) : k[j].player = k[i].player /\ T = k[j].type}
                    = {j \in 1..(i - 1) : log[j].player = log[i].player /\ T = log[j].type}
      <4> TAKE T
      <4>1. Len(log) <= Len(k) /\ k \in Seq(Event) /\ \A j \in 1..Len(log) : k[j] = log[j]
        BY <2>4
      <4> QED BY <2>3, <4>1, Longer
    <3> QED BY <2>4, <3>1 DEF AllFresh, Fresh
  <2>6. Fresh(k, n)
    <3>1. SUFFICES ASSUME type \in {"goal", "penalty_goal", "penalty_missed", "substitution"}
                   PROVE  /\ {j \in 1..(n - 1) : k[j].player = p /\ "red_card" = k[j].type} = {}
                          /\ Cardinality({j \in 1..(n - 1) : k[j].player = p
                                             /\ "yellow_card" = k[j].type}) < 2
      BY <2>1, <2>4 DEF Fresh
    <3>2. ~ SentOff(p)
      BY <1>1, <3>1 DEF Allowed
    <3>3. DOMAIN log = 1..(n - 1) /\ \A j \in 1..(n - 1) : k[j] = log[j]
      BY <2>3, <2>4
    <3>4. \A T : {j \in 1..(n - 1) : k[j].player = p /\ T = k[j].type}
                    = {j \in DOMAIN log : log[j].player = p /\ log[j].type = T}
      BY <3>3
    <3>5. /\ ~ \E j \in DOMAIN log : log[j].player = p /\ log[j].type = "red_card"
          /\ ~ Cardinality({j \in DOMAIN log : log[j].player = p /\ log[j].type = "yellow_card"}) >= 2
      BY <3>2 DEF SentOff
    <3> DEFINE Y == {j \in DOMAIN log : log[j].player = p /\ log[j].type = "yellow_card"}
    <3>6. Cardinality(Y) \in Nat
      <4>1. IsFiniteSet(1..(n - 1))
        BY <2>4, FS_Interval
      <4>2. Y \subseteq 1..(n - 1)
        BY <3>3
      <4> QED BY <4>1, <4>2, FS_Subset, FS_CardinalityType
    <3>7. Cardinality(Y) < 2
      <4> HIDE DEF Y
      <4>1. ~ Cardinality(Y) >= 2
        BY <3>5 DEF Y
      <4> QED BY <3>6, <4>1
    <3> QED BY <3>4, <3>5, <3>7
  <2>7. \A i \in 1..Len(k) : i \in 1..Len(log) \/ i = n
    BY <2>4
  <2> QED BY <2>2, <2>5, <2>6, <2>7 DEF AllFresh
<1>2. CASE ~ Allowed(type, side, p)
  <2>1. UNCHANGED log
    BY <1>2 DEF CommitEvent
  <2> QED BY <2>1 DEF AllFresh, Fresh
<1> QED BY <1>1, <1>2

LEMMA FreshUndo ==
    ASSUME Typed, AllFresh, NEW w, CommitUndo(w)
    PROVE  AllFresh'
<1>1. CASE log = <<>>
  <2>1. UNCHANGED log
    BY <1>1 DEF CommitUndo
  <2> QED BY <2>1 DEF AllFresh, Fresh
<1>2. CASE log # <<>>
  <2> DEFINE l == Front(log)
  <2>1. log' = l
    BY <1>2 DEF CommitUndo
  <2>2. /\ log \in Seq(Event) /\ l \in Seq(Event) /\ Len(log) \in Nat /\ Len(l) = Len(log) - 1
        /\ \A i \in 1..Len(l) : log[i] = l[i]
    BY <1>2, LastTyped DEF Typed
  <2> HIDE DEF l
  <2>3. ASSUME NEW i \in 1..Len(l) PROVE Fresh(l, i)
    <3>0. Len(l) <= Len(log) /\ \A j \in 1..Len(l) : log[j] = l[j]
      BY <2>2
    <3>1. \A T : {j \in 1..(i - 1) : log[j].player = log[i].player /\ T = log[j].type}
                    = {j \in 1..(i - 1) : l[j].player = l[i].player /\ T = l[j].type}
      <4> TAKE T
      <4>1. log \in Seq(Event) /\ l \in Seq(Event)
        BY <2>2
      <4> HIDE DEF l
      <4> QED BY <3>0, <4>1, Longer
    <3>2. i \in 1..Len(log) /\ log[i] = l[i]
      BY <2>2
    <3> QED BY <3>1, <3>2 DEF AllFresh, Fresh
  <2> QED BY <2>1, <2>3 DEF AllFresh
<1> QED BY <1>1, <1>2

LEMMA FreshNext == ASSUME Typed, AllFresh, [Next]_vars PROVE AllFresh'
<1>1. ASSUME log' = log PROVE AllFresh'
  BY <1>1 DEF AllFresh, Fresh
<1>2. ASSUME NEW w \in Console, ConsoleNext(w) PROVE AllFresh'
  <2>1. CASE \/ ReadEvent(w) \/ ReadUndo(w) \/ ReadCancel(w) \/ CommitCancel(w)
             \/ \E c \in Controls : ReadControl(w, c)
    BY <1>1, <2>1 DEF ReadEvent, ReadUndo, ReadCancel, CommitCancel, ReadControl
  <2>2. CASE Control(w)
    BY <1>1, <2>2, ControlSaves
  <2> QED BY <1>2, <2>1, <2>2, FreshEvent, FreshUndo DEF ConsoleNext, Control
<1>3. CASE TossCall \/ TossDecide \/ TossManual \/ TossReset \/ Tick \/ UNCHANGED vars
  BY <1>1, <1>3 DEF TossCall, TossDecide, TossManual, TossReset, Toss, Tick, vars
<1> QED BY <1>2, <1>3 DEF Next

\* A player shown a red card or a second yellow is never again in the log as scoring,
\* taking a penalty or coming on, whichever console records it and whatever was undone
\* before (validateFootballEvent, sentOffPlayerIds).
THEOREM SentOffForGood == Spec => []SentOffStaysOff
<1>1. Init => AllFresh
  <2> SUFFICES ASSUME Init PROVE AllFresh
    OBVIOUS
  <2>1. log = <<>>
    BY DEF Init
  <2> QED BY <2>1 DEF AllFresh
<1>2. Spec => [](Typed /\ AllFresh)
  BY <1>1, TypedInit, TypedNext, FreshNext, PTL DEF Spec
<1>3. Typed /\ AllFresh => SentOffStaysOff
  BY FreshIsSentOff DEF Typed
<1> QED BY <1>2, <1>3, PTL

----------------------------------------------------------------------------
(* Results, while the consoles take turns *)

\* A console that has read the match row still knows its status and winner,
\* and an event or a control other than reopening was let through only on a
\* match that was not finished.
Current(w) ==
    LET r == request[w] IN
    r.op # "none" =>
        /\ r.was.status = match.status /\ r.was.winner = match.winner
        /\ r.op \notin {"undo", "reopen", "cancel"} => r.was.status # "completed"

ResultInv == OneAtATime /\ ResultMatchesScore /\ \A w \in Console : Current(w)

ResultTurn == inTurn => ResultInv

\* A step that leaves status, winner and scores alone.
LEMMA ResultKept ==
    ASSUME ResultMatchesScore, match'.status = match.status, match'.winner = match.winner,
           state'.score = state.score, state'.pens = state.pens
    PROVE  ResultMatchesScore'
BY DEF ResultMatchesScore, Leader

LEMMA CurrentKept ==
    ASSUME NEW w \in Console, Current(w), request'[w] = request[w],
           match'.status = match.status, match'.winner = match.winner
    PROVE  Current(w)'
BY DEF Current

\* What saving writes to a row that still is as it was read.
LEMMA SavedCurrent ==
    ASSUME match \in Row, NEW was \in Row, was.status = match.status, was.winner = match.winner,
           NEW m \in Row, match' = Saved(was, m)
    PROVE  match'.status = m.status /\ match'.winner = m.winner
BY DEF Saved, Row

LEMMA ConcludedColumns ==
    ASSUME NEW m \in Row, NEW st
    PROVE  Concluded(m, st).status = "completed" /\ Concluded(m, st).winner = Leader(st)
BY DEF Concluded, Row

\* Two columns of the state row decide the result.
LEMMA LeaderSame ==
    ASSUME NEW st, NEW tt, st.score = tt.score, st.pens = tt.pens
    PROVE  Leader(st) = Leader(tt)
BY DEF Leader

LEMMA ResultWrite ==
    ASSUME Typed, ResultInv, NEW w \in Console, request[w].op # "none",
           \/ \E type \in EventTypes, side \in Sides : \E p : CommitEvent(w, type, side, p)
           \/ CommitUndo(w) \/ CommitCancel(w) \/ Control(w)
    PROVE  ResultMatchesScore'
<1> DEFINE was == request[w].was
<1>1. /\ was \in Row /\ match \in Row /\ was.status = match.status /\ was.winner = match.winner
      /\ request[w].op \notin {"undo", "reopen", "cancel"} => was.status # "completed"
  BY DEF Typed, ResultInv, Current
<1> HIDE DEF was
<1>2. ASSUME NEW type, NEW side, NEW p, CommitEvent(w, type, side, p)
      PROVE  ResultMatchesScore'
  BY <1>1, <1>2 DEF CommitEvent, ResultMatchesScore
<1>3. CASE CommitUndo(w)
  <2>1. CASE log = <<>>
    BY <1>3, <2>1, ResultKept DEF CommitUndo, ResultInv
  <2>2. CASE log # <<>> /\ was.status = "completed"
    <3>1. match' = Saved(was, Concluded(was, state'))
      BY <1>3, <2>2 DEF CommitUndo, was
    <3>2. PICK st : st = state' OBVIOUS
    <3>3. Concluded(was, st) \in Row BY <1>1, ConcludedTyped
    <3>4. match'.status = Concluded(was, st).status /\ match'.winner = Concluded(was, st).winner
      BY <1>1, <3>1, <3>2, <3>3, SavedCurrent
    <3> QED BY <1>1, <3>2, <3>4, ConcludedColumns DEF ResultMatchesScore, Leader
  <2>3. CASE log # <<>> /\ was.status # "completed"
    <3>1. match' = match BY <1>3, <2>3 DEF CommitUndo, was
    <3> QED BY <1>1, <2>3, <3>1 DEF ResultMatchesScore
  <2> QED BY <2>1, <2>2, <2>3
<1>4. CASE CommitCancel(w)
  <2>1. match'.status = "cancelled" BY <1>1, <1>4 DEF CommitCancel, Row
  <2> QED BY <2>1 DEF ResultMatchesScore
<1>5. ASSUME NEW s \in Statuses, s # "completed", match' = Saved(was, [was EXCEPT !.status = s])
      PROVE  ResultMatchesScore'
  <2>1. [was EXCEPT !.status = s] \in Row /\ [was EXCEPT !.status = s].status = s
    BY <1>1 DEF Row
  <2>2. match'.status = s
    <3> DEFINE m == [was EXCEPT !.status = s]
    <3>1. m \in Row /\ m.status = s /\ match' = Saved(was, m) BY <1>5, <2>1
    <3> HIDE DEF m
    <3> QED BY <1>1, <3>1, SavedCurrent
  <2> QED BY <1>5, <2>2 DEF ResultMatchesScore
<1>6. CASE Start(w) \/ HalfTime(w) \/ SetHalf(w)
  BY <1>5, <1>6 DEF Start, HalfTime, SetHalf, Kept, was, Statuses
<1>7. ASSUME Pause(w) \/ \E minute \in 0..MaxTime : SetMinute(w, minute)
      PROVE  ResultMatchesScore'
  <2>1. match' = Saved(was, was) /\ request[w].op \in {"pause", "set_minute"}
    BY <1>7 DEF Pause, SetMinute, Kept, was
  <2>2. match'.status = was.status BY <1>1, <2>1, SavedCurrent
  <2> QED BY <1>1, <2>1, <2>2 DEF ResultMatchesScore
<1>8. CASE Finish(w)
  <2> DEFINE stopped == [StopClock(state) EXCEPT !.half = "full_time"]
  <2>1. PICK st : st = stopped OBVIOUS
  <2>2. state' = st /\ match' = Saved(was, Concluded(was, st))
    BY <1>8, <2>1 DEF Finish, Kept, was
  <2>3. Concluded(was, st) \in Row BY <1>1, ConcludedTyped
  <2>4. match'.winner = Concluded(was, st).winner BY <1>1, <2>2, <2>3, SavedCurrent
  <2>5. match'.winner = Leader(st) BY <1>1, <2>4, ConcludedColumns
  <2> QED BY <2>2, <2>5 DEF ResultMatchesScore, Leader
<1>9. CASE Reopen(w)
  <2> DEFINE m == Reopened(was)
  <2>1. m \in Row /\ m.status = "in_progress" BY <1>1 DEF Reopened, Row, Statuses
  <2>2. match' = Saved(was, m) BY <1>9 DEF Reopen, Kept, was
  <2> HIDE DEF m
  <2>3. match'.status = "in_progress" BY <1>1, <2>1, <2>2, SavedCurrent
  <2> QED BY <2>3 DEF ResultMatchesScore
<1> QED BY <1>2, <1>3, <1>4, <1>6, <1>7, <1>8, <1>9 DEF Control

Writes(w) ==
    \/ \E type \in EventTypes, side \in Sides, p \in UNION {Squad[s] : s \in Sides} \union {NoPlayer} :
          CommitEvent(w, type, side, p)
    \/ CommitUndo(w) \/ CommitCancel(w) \/ Control(w)

\* Only a console that has read something writes, and then it is done.
LEMMA WriteEnds ==
    ASSUME NEW w \in Console, Writes(w)
    PROVE  request[w].op # "none" /\ Done(w)
<1>1. Done(w)
  BY DEF Writes, Control, CommitEvent, CommitUndo, CommitCancel, Start, Pause, HalfTime, SetHalf,
     SetMinute, Finish, Reopen, Kept
<1>2. request[w].op # "none"
  BY DEF Writes, Control, CommitEvent, CommitUndo, CommitCancel, Start, Pause, HalfTime, SetHalf,
     SetMinute, Finish, Reopen, Periods
<1> QED BY <1>1, <1>2

Reading(w) ==
    \/ ReadEvent(w) \/ ReadUndo(w) \/ ReadCancel(w) \/ \E c \in Controls : ReadControl(w, c)

LEMMA ReadKnows ==
    ASSUME Typed, NEW w \in Console, Reading(w)
    PROVE  /\ UNCHANGED <<match, state>> /\ Current(w)'
           /\ \A v \in Console : v # w => request'[v] = request[v]
<1>0. ASSUME NEW op, Keep(w, op), UNCHANGED match,
             op \notin {"undo", "reopen", "cancel"} => match.status # "completed"
      PROVE  /\ Current(w)' /\ \A v \in Console : v # w => request'[v] = request[v]
  <2>1. request'[w] = [op |-> op, was |-> match] BY <1>0 DEF Keep, Typed
  <2>2. \A v \in Console : v # w => request'[v] = request[v] BY <1>0 DEF Keep, Typed
  <2> QED BY <1>0, <2>1, <2>2 DEF Current
<1>1. CASE ReadEvent(w) BY <1>0, <1>1 DEF ReadEvent, Playable
<1>2. CASE ReadUndo(w) BY <1>0, <1>2 DEF ReadUndo
<1>3. CASE ReadCancel(w) BY <1>0, <1>3 DEF ReadCancel
<1>4. ASSUME NEW c \in Controls, ReadControl(w, c)
      PROVE  /\ UNCHANGED <<match, state>> /\ Current(w)'
             /\ \A v \in Console : v # w => request'[v] = request[v]
  BY <1>0, <1>4 DEF ReadControl
<1> QED BY <1>1, <1>2, <1>3, <1>4 DEF Reading, ReadEvent, ReadUndo, ReadCancel

LEMMA ResultInvStep ==
    ASSUME Typed, ResultInv, Next, OneAtATime'
    PROVE  ResultInv'
<1>1. ASSUME NEW w \in Console, Writes(w) PROVE ResultInv'
  <2>1. request[w].op # "none" /\ Done(w) BY <1>1, WriteEnds
  <2>2. ResultMatchesScore' BY <1>1, <2>1, ResultWrite DEF Writes
  <2>3. ASSUME NEW v \in Console PROVE Current(v)'
    <3>1. request'[v].op = "none"
      <4>1. CASE v = w BY <2>1, <4>1 DEF Done, Typed, NoRequest
      <4>2. CASE v # w
        <5>1. request'[v] = request[v] BY <2>1, <4>2 DEF Done, Typed
        <5> QED BY <2>1, <4>2, <5>1 DEF ResultInv, OneAtATime, Idle
      <4> QED BY <4>1, <4>2
    <3> QED BY <3>1 DEF Current
  <2> QED BY <2>2, <2>3 DEF ResultInv
<1>2. ASSUME NEW w \in Console, Reading(w) PROVE ResultInv'
  <2>1. /\ UNCHANGED <<match, state>> /\ Current(w)'
        /\ \A v \in Console : v # w => request'[v] = request[v]
    BY <1>2, ReadKnows
  <2>2. \A v \in Console : Current(v)' BY <2>1, CurrentKept DEF ResultInv
  <2> QED BY <2>1, <2>2, ResultKept DEF ResultInv
<1>3. CASE TossCall \/ TossDecide \/ TossManual \/ TossReset \/ Tick
  <2>1. /\ UNCHANGED <<state, request>> /\ match'.status = match.status
        /\ match'.winner = match.winner
    BY <1>3 DEF TossCall, TossDecide, TossManual, TossReset, Toss, Tick, Typed, Row
  <2> QED BY <2>1, CurrentKept, ResultKept DEF ResultInv
<1>4. \A w \in Console : ConsoleNext(w) => Writes(w) \/ Reading(w)
  BY DEF ConsoleNext, Writes, Reading, Control
<1> QED BY <1>1, <1>2, <1>3, <1>4 DEF Next

LEMMA ResultTurnStep ==
    ASSUME Typed, ResultTurn, [TurnNext]_turnVars
    PROVE  ResultTurn'
<1>1. CASE UNCHANGED turnVars
  <2>1. UNCHANGED <<match, state, request, inTurn>> BY <1>1 DEF turnVars, vars
  <2>2. ASSUME ResultInv PROVE ResultInv'
    <3>1. OneAtATime' BY <2>1, <2>2 DEF ResultInv, OneAtATime, Idle
    <3> QED BY <2>1, <2>2, <3>1, CurrentKept, ResultKept DEF ResultInv
  <2> QED BY <2>1, <2>2 DEF ResultTurn
<1>2. CASE TurnNext BY <1>2, ResultInvStep DEF TurnNext, ResultTurn
<1> QED BY <1>1, <1>2

\* While consoles take turns, a finished match's winner is the one its score
\* gives, through late corrections, a shoot-out, reopening and calling off
\* (undoLastFootballEvent, finish, reopen).
THEOREM ResultIsTheScores == TurnSpec => []ResultInTurn
<1>1. TurnInit => Typed /\ ResultTurn
  <2>1. TurnInit => Typed BY TypedInit DEF TurnInit
  <2>2. ASSUME TurnInit PROVE ResultInv
    <3>1. \A w \in Console : request[w].op = "none" BY <2>2 DEF TurnInit, Init, NoRequest
    <3>2. match.status = "scheduled" BY <2>2 DEF TurnInit, Init
    <3> QED BY <3>1, <3>2 DEF ResultInv, OneAtATime, Idle, ResultMatchesScore, Current
  <2> QED BY <2>1, <2>2 DEF ResultTurn
<1>2. Typed /\ ResultTurn /\ [TurnNext]_turnVars => Typed' /\ ResultTurn'
  <2>1. [TurnNext]_turnVars => [Next]_vars BY DEF TurnNext, turnVars
  <2> QED BY <2>1, TypedNext, ResultTurnStep
<1>3. ResultTurn => ResultInTurn BY DEF ResultTurn, ResultInv, ResultInTurn
<1> QED BY <1>1, <1>2, <1>3, PTL DEF TurnSpec
=============================================================================
