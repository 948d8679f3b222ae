--------------------------- MODULE CricketProofs ---------------------------
(***************************************************************************)
(* Theorems about cricket scoring, for every set of consoles, every        *)
(* delivery a scorer may enter, every length of an innings and any number  *)
(* of requests in flight.                                                  *)
(***************************************************************************)
EXTENDS CricketTurns, FiniteSums

----------------------------------------------------------------------------
(* Typing of the helpers *)

State == [innings: Innings, batting: Sides, target: Nat, runs: [Innings -> Nat],
          wickets: [Innings -> Nat], legal: [Innings -> Nat]]

Held == [op: {"none", "ball", "switch", "cancel"}, was: Row \union {NoRow}]

RequestsTyped ==
    /\ request \in [Console -> Held]
    /\ \A w \in Console : request[w].op # "none" => request[w].was \in Row

\* The types, and that a console that has read something holds a real row.
Typed ==
    /\ match \in Row
    /\ state \in State
    /\ log \in Seq(Delivery)
    /\ RequestsTyped

LEMMA TypedIsTypeOK == Typed => TypeOK
BY DEF Typed, TypeOK, State, RequestsTyped, Held

LEMMA SavedTyped ==
    ASSUME match \in Row, NEW was, NEW m \in Row
    PROVE  Saved(was, m) \in Row
BY DEF Saved, Row

LEMMA LegalBallsTyped ==
    ASSUME NEW deliveries, deliveries \in Seq(Delivery), NEW i \in Innings
    PROVE  LegalBalls(deliveries, i) \in Nat
<1> DEFINE Which == {n \in DOMAIN deliveries : deliveries[n].innings = i /\ Legal(deliveries[n])}
<1>1. IsFiniteSet(1..Len(deliveries))
  BY FS_Interval
<1>2. Which \subseteq 1..Len(deliveries)
  OBVIOUS
<1>3. IsFiniteSet(Which)
  BY <1>1, <1>2, FS_Subset
<1> QED BY <1>3, FS_CardinalityType DEF LegalBalls

LEMMA FrontTyped ==
    ASSUME log \in Seq(Delivery), log # <<>>
    PROVE  Front(log) \in Seq(Delivery) /\ Last(log) \in Delivery
BY DEF Front, Last

LEMMA SidesTyped ==
    ASSUME NEW st \in State, NEW side \in Sides
    PROVE  /\ [st EXCEPT !.batting = side] \in State
           /\ [st EXCEPT !.batting = side].innings = st.innings
           /\ [st EXCEPT !.batting = side].target = st.target
           /\ [st EXCEPT !.batting = side].runs = st.runs
BY DEF State

LEMMA TotalTyped ==
    ASSUME NEW f \in [Innings -> Nat], NEW i \in Innings, NEW n \in Nat
    PROVE  /\ [f EXCEPT ![i] = n] \in [Innings -> Nat]
           /\ i = 2 => [f EXCEPT ![i] = n][1] = f[1]
BY DEF Innings

LEMMA RefreshedTyped ==
    ASSUME match \in Row, NEW st \in State, NEW deliveries
    PROVE  /\ Refreshed(st, deliveries) \in State
           /\ Refreshed(st, deliveries).innings = st.innings
           /\ Refreshed(st, deliveries).target = st.target
           /\ Refreshed(st, deliveries).runs = st.runs
           /\ deliveries # <<>> \/ st.innings = 2 => Refreshed(st, deliveries) = st
<1>1. FirstSide \in Sides
  BY DEF FirstSide, Row, Sides
<1>2. CASE deliveries = <<>> /\ st.innings = 1
  <2>1. Refreshed(st, deliveries) = [st EXCEPT !.batting = FirstSide]
    BY <1>2 DEF Refreshed
  <2>2. /\ [st EXCEPT !.batting = FirstSide] \in State
        /\ [st EXCEPT !.batting = FirstSide].innings = st.innings
        /\ [st EXCEPT !.batting = FirstSide].target = st.target
        /\ [st EXCEPT !.batting = FirstSide].runs = st.runs
    BY <1>1, SidesTyped, Zenon
  <2>3. ~ (deliveries # <<>> \/ st.innings = 2)
    BY <1>2
  <2> QED BY <2>1, <2>2, <2>3, Zenon
<1>3. CASE ~ (deliveries = <<>> /\ st.innings = 1)
  BY <1>3 DEF Refreshed
<1> QED BY <1>2, <1>3

LEMMA SettledTyped ==
    ASSUME NEW m \in Row, NEW st \in State
    PROVE  Settled(m, st) \in Row
BY DEF Settled, Row, State, Sides, Other

LEMMA BowledTyped ==
    ASSUME log \in Seq(Delivery), NEW st \in State, NEW b \in Balls, NEW i \in Innings
    PROVE  /\ Bowled(st, b, i) \in State
           /\ Bowled(st, b, i).innings = st.innings
           /\ Bowled(st, b, i).batting = st.batting
           /\ Bowled(st, b, i).target = st.target
           /\ i = 2 => Bowled(st, b, i).runs[1] = st.runs[1]
<1> DEFINE w == st.wickets[i] + (IF Falls(b) THEN 1 ELSE 0)
           l == LegalBalls(log, i) + (IF Legal(b) THEN 1 ELSE 0)
           r == st.runs[i] + Total(b)
<1>1. /\ st.runs \in [Innings -> Nat]
      /\ st.wickets \in [Innings -> Nat]
      /\ st.legal \in [Innings -> Nat]
  BY DEF State
<1>2. Total(b) \in Nat
  <2>1. b \in Ball
    BY CricketAssumption
  <2>2. b.runs \in Nat /\ b.extraRuns \in Nat
    BY <2>1 DEF Ball
  <2> QED BY <2>2 DEF Total
<1>3. r \in Nat
  BY <1>1, <1>2
<1>4. w \in Nat
  BY <1>1
<1>5. l \in Nat
  BY LegalBallsTyped
<1>6. /\ [st.runs EXCEPT ![i] = r] \in [Innings -> Nat]
      /\ [st.wickets EXCEPT ![i] = w] \in [Innings -> Nat]
      /\ [st.legal EXCEPT ![i] = l] \in [Innings -> Nat]
      /\ i = 2 => [st.runs EXCEPT ![i] = r][1] = st.runs[1]
  <2> HIDE DEF r, w, l
  <2> QED BY <1>1, <1>3, <1>4, <1>5, TotalTyped
<1> DEFINE rs == [st.runs EXCEPT ![i] = r]
           ws == [st.wickets EXCEPT ![i] = w]
           ls == [st.legal EXCEPT ![i] = l]
<1>7. Bowled(st, b, i) = [st EXCEPT !.runs = rs, !.wickets = ws, !.legal = ls]
  BY DEF Bowled
<1>8. /\ Bowled(st, b, i) \in State
      /\ Bowled(st, b, i).innings = st.innings
      /\ Bowled(st, b, i).batting = st.batting
      /\ Bowled(st, b, i).target = st.target
      /\ Bowled(st, b, i).runs = rs
  <2>1. rs \in [Innings -> Nat] /\ ws \in [Innings -> Nat] /\ ls \in [Innings -> Nat]
    BY <1>6
  <2> HIDE DEF rs, ws, ls
  <2> QED BY <2>1, <1>7 DEF State
<1> QED BY <1>6, <1>8

LEMMA AfterBallTyped ==
    ASSUME NEW was \in Row, NEW st \in State, NEW i
    PROVE  AfterBall(was, st, i) \in Row
<1>1. [was EXCEPT !.status = "in_progress"] \in Row
  BY DEF Row
<1> QED BY <1>1, SettledTyped DEF AfterBall

LEMMA TakenBackTyped ==
    ASSUME log \in Seq(Delivery), log # <<>>, NEW st \in State, NEW b \in Delivery
    PROVE  /\ TakenBack(st, b) \in State
           /\ TakenBack(st, b).innings = st.innings
           /\ TakenBack(st, b).batting = st.batting
           /\ TakenBack(st, b).target = st.target
           /\ b.innings = 2 => TakenBack(st, b).runs[1] = st.runs[1]
<1> DEFINE i == b.innings
           w == IF Falls(b) THEN Lowered(st.wickets[i], 1) ELSE st.wickets[i]
           l == LegalBalls(Front(log), i)
           r == Lowered(st.runs[i], b.runs + b.extraRuns)
<1>1. /\ st.runs \in [Innings -> Nat]
      /\ st.wickets \in [Innings -> Nat]
      /\ st.legal \in [Innings -> Nat]
  BY DEF State
<1>2. i \in Innings /\ b.runs + b.extraRuns \in Nat
  <2>1. b.innings \in Innings /\ b.runs \in Nat /\ b.extraRuns \in Nat
    BY DEF Delivery
  <2> QED BY <2>1
<1>3. \A n, d \in Nat : Lowered(n, d) \in Nat
  BY DEF Lowered
<1>4. r \in Nat
  BY <1>1, <1>2, <1>3
<1>5. w \in Nat
  BY <1>1, <1>2, <1>3
<1>6. l \in Nat
  BY <1>2, LegalBallsTyped, FrontTyped
<1>7. /\ [st.runs EXCEPT ![i] = r] \in [Innings -> Nat]
      /\ [st.wickets EXCEPT ![i] = w] \in [Innings -> Nat]
      /\ [st.legal EXCEPT ![i] = l] \in [Innings -> Nat]
      /\ i = 2 => [st.runs EXCEPT ![i] = r][1] = st.runs[1]
  <2> HIDE DEF r, w, l, i
  <2> QED BY <1>1, <1>2, <1>4, <1>5, <1>6, TotalTyped
<1> DEFINE rs == [st.runs EXCEPT ![i] = r]
           ws == [st.wickets EXCEPT ![i] = w]
           ls == [st.legal EXCEPT ![i] = l]
<1>8. TakenBack(st, b) = [st EXCEPT !.runs = rs, !.wickets = ws, !.legal = ls]
  BY DEF TakenBack
<1>9. /\ TakenBack(st, b) \in State
      /\ TakenBack(st, b).innings = st.innings
      /\ TakenBack(st, b).batting = st.batting
      /\ TakenBack(st, b).target = st.target
      /\ TakenBack(st, b).runs = rs
  <2>1. rs \in [Innings -> Nat] /\ ws \in [Innings -> Nat] /\ ls \in [Innings -> Nat]
    BY <1>7
  <2> HIDE DEF rs, ws, ls
  <2> QED BY <2>1, <1>8 DEF State
<1> QED BY <1>7, <1>9

LEMMA RejoinedTyped ==
    ASSUME NEW st \in State, st.innings = 2
    PROVE  /\ Rejoined(st) \in State
           /\ Rejoined(st).innings = 1
           /\ Rejoined(st).target = 0
           /\ Rejoined(st).batting = Other(st.batting)
           /\ Rejoined(st).runs = st.runs
BY DEF Rejoined, State, Innings, Sides, Other

LEMMA AfterUndoTyped ==
    ASSUME match \in Row, NEW b
    PROVE  AfterUndo(b) \in Row
BY DEF AfterUndo, ResultUndone, Unfinished, Row

LEMMA KeepTyped ==
    ASSUME Typed, NEW w \in Console, NEW op \in {"ball", "switch", "cancel"}, Keep(w, op)
    PROVE  RequestsTyped'
BY DEF Typed, RequestsTyped, Held, Keep

LEMMA DoneTyped ==
    ASSUME Typed, NEW w \in Console, Done(w)
    PROVE  RequestsTyped'
BY DEF Typed, RequestsTyped, Held, Done, NoRequest

LEMMA SameRequests ==
    ASSUME Typed, UNCHANGED request
    PROVE  RequestsTyped'
BY DEF Typed, RequestsTyped

----------------------------------------------------------------------------
(* Every step keeps the types *)

LEMMA TypedInit == Init => Typed
<1> SUFFICES ASSUME Init PROVE Typed
  OBVIOUS
<1>1. match \in Row
  BY DEF Init, Row, Sides
<1>2. Nil \in [Innings -> Nat]
  BY DEF Nil
<1>3. state \in State
  BY <1>2 DEF Init, State, Innings, Sides
<1>4. RequestsTyped
  BY DEF Init, RequestsTyped, Held, NoRequest
<1>5. log \in Seq(Delivery)
  <2>1. log = <<>>
    BY DEF Init
  <2> QED BY <2>1
<1> QED BY <1>1, <1>3, <1>4, <1>5 DEF Typed

LEMMA TypedStep == Typed /\ [Next]_vars => Typed'
<1> SUFFICES ASSUME Typed, [Next]_vars
             PROVE  match' \in Row /\ state' \in State /\ log' \in Seq(Delivery) /\ RequestsTyped'
  BY DEF Typed
<1>1. match \in Row /\ state \in State /\ log \in Seq(Delivery) /\ RequestsTyped
  BY DEF Typed
<1>2. Fresh \in State
  BY <1>1, RefreshedTyped DEF Fresh
<1>3. ASSUME NEW s \in Sides, RecordToss(s) PROVE match' \in Row /\ UNCHANGED <<state, log, request>>
  BY <1>1, <1>3 DEF RecordToss, Row
<1>4. CASE TossReset
  BY <1>1, <1>4, SameRequests DEF TossReset, Row
<1>5. CASE View
  BY <1>1, <1>2, <1>5, SameRequests DEF View
<1>6. ASSUME NEW w \in Console, ReadBall(w) \/ ReadSwitch(w) \/ ReadCancel(w)
      PROVE  UNCHANGED <<match, state, log>> /\ RequestsTyped'
  BY <1>6, KeepTyped DEF ReadBall, ReadSwitch, ReadCancel
<1>7. ASSUME NEW w \in Console, NEW b \in Balls, NEW i \in Innings, CommitBall(w, b, i)
      PROVE  match' \in Row /\ state' \in State /\ log' \in Seq(Delivery) /\ RequestsTyped'
  <2>1. RequestsTyped'
    BY <1>7, DoneTyped DEF CommitBall
  <2>2. CASE UNCHANGED <<match, state, log>>
    BY <1>1, <2>1, <2>2
  <2>3. CASE /\ state' = Bowled(Fresh, b, i)
             /\ log' = Append(log, [innings |-> i, runs |-> b.runs, extras |-> b.extras,
                                    extraRuns |-> Total(b) - b.runs, out |-> b.out])
             /\ match' = Saved(request[w].was, AfterBall(request[w].was, state', i))
    <3>1. state' \in State
      BY <1>1, <1>2, <2>3, BowledTyped
    <3>2. b \in Ball
      BY CricketAssumption
    <3>3. [innings |-> i, runs |-> b.runs, extras |-> b.extras,
           extraRuns |-> Total(b) - b.runs, out |-> b.out] \in Delivery
      <4>1. Total(b) - b.runs \in Nat
        <5>1. b.runs \in Nat /\ b.extraRuns \in Nat
          BY <3>2 DEF Ball
        <5> QED BY <5>1 DEF Total
      <4> QED BY <3>2, <4>1 DEF Ball, Delivery
    <3>4. log' \in Seq(Delivery)
      BY <1>1, <2>3, <3>3
    <3>5. request[w].was \in Row
      BY <1>1, <1>7 DEF CommitBall, RequestsTyped
    <3>6. AfterBall(request[w].was, state', i) \in Row
      BY <3>1, <3>5, AfterBallTyped
    <3> QED BY <1>1, <2>1, <2>3, <3>1, <3>4, <3>6, SavedTyped
  <2> QED BY <1>7, <2>2, <2>3 DEF CommitBall
<1>8. ASSUME NEW w \in Console, Undo(w)
      PROVE  match' \in Row /\ state' \in State /\ log' \in Seq(Delivery) /\ RequestsTyped'
  <2> DEFINE b == Last(log)
             st == IF b.innings = 1 /\ state.innings = 2 THEN Rejoined(state) ELSE state
  <2>1. b \in Delivery /\ log' \in Seq(Delivery)
    BY <1>1, <1>8, FrontTyped DEF Undo
  <2>2. st \in State
    BY <1>1, RejoinedTyped
  <2>3. TakenBack(st, b) \in State
    BY <1>1, <1>8, <2>1, <2>2, TakenBackTyped DEF Undo
  <2>4. state' = Refreshed(TakenBack(st, b), Front(log)) /\ match' = AfterUndo(b)
    BY <1>8 DEF Undo
  <2>5. state' \in State
    BY <1>1, <2>3, <2>4, RefreshedTyped
  <2>6. match' \in Row
    BY <1>1, <2>4, AfterUndoTyped
  <2> QED BY <1>8, <2>1, <2>5, <2>6, SameRequests DEF Undo
<1>9. ASSUME NEW w \in Console, CommitSwitch(w)
      PROVE  match' \in Row /\ state' \in State /\ log' \in Seq(Delivery) /\ RequestsTyped'
  <2>1. request[w].was \in Row
    BY <1>1, <1>9 DEF CommitSwitch, RequestsTyped
  <2>2. [request[w].was EXCEPT !.status = "innings_break"] \in Row
    BY <2>1 DEF Row
  <2>3. [Fresh EXCEPT !.innings = 2, !.target = Fresh.runs[1] + 1, !.batting = Other(@)] \in State
    <3>1. Other(Fresh.batting) \in Sides /\ Fresh.runs[1] + 1 \in Nat
      BY <1>2 DEF State, Innings, Sides, Other
    <3> QED BY <1>2, <3>1 DEF State, Innings
  <2> QED BY <1>1, <1>9, <2>2, <2>3, SavedTyped, DoneTyped DEF CommitSwitch
<1>10. ASSUME NEW w \in Console, Finish(w)
       PROVE  match' \in Row /\ UNCHANGED <<state, log, request>>
  BY <1>1, <1>10, SettledTyped DEF Finish
<1>11. ASSUME NEW w \in Console, CommitCancel(w)
       PROVE  match' \in Row /\ UNCHANGED <<state, log>> /\ RequestsTyped'
  BY <1>1, <1>11, DoneTyped DEF CommitCancel, Row
<1>12. CASE UNCHANGED vars
  BY <1>1, <1>12, SameRequests DEF vars
<1> QED BY <1>1, <1>3, <1>4, <1>5, <1>6, <1>7, <1>8, <1>9, <1>10, <1>11, <1>12, SameRequests
           DEF Next, ConsoleNext

\* Every reachable state has its types (the shape of the match row, the state
\* row and the log that every handler of ScoringEngine reads back).
THEOREM TypeCorrect == Spec => []TypeOK
<1>1. Spec => []Typed
  BY TypedInit, TypedStep, PTL DEF Spec
<1>2. []Typed => []TypeOK
  BY TypedIsTypeOK, PTL
<1> QED BY <1>1, <1>2, PTL

----------------------------------------------------------------------------
(* The target *)

LEMMA TargetInit == Init => TargetStands
<1> SUFFICES ASSUME Init PROVE TargetStands
  OBVIOUS
<1>1. state = [innings |-> 1, batting |-> "a", target |-> 0,
               runs |-> Nil, wickets |-> Nil, legal |-> Nil]
  BY DEF Init
<1> QED BY <1>1 DEF TargetStands

\* The target needs nothing but the types: whatever the request was judged on,
\* the write under the lock goes by the innings the state row is in.
LEMMA TargetStep == Typed /\ TargetStands /\ [Next]_vars => TargetStands'
<1> SUFFICES ASSUME Typed, TargetStands, [Next]_vars
             PROVE  TargetStands'
  OBVIOUS
<1>1. /\ match \in Row /\ state \in State /\ log \in Seq(Delivery)
      /\ state.innings \in Innings
      /\ state.target = IF state.innings = 2 THEN state.runs[1] + 1 ELSE 0
  BY DEF Typed, TargetStands, State
<1>2. /\ Fresh \in State /\ Fresh.innings = state.innings
      /\ Fresh.target = state.target /\ Fresh.runs = state.runs
  BY <1>1, RefreshedTyped DEF Fresh
<1>3. ASSUME UNCHANGED state PROVE TargetStands'
  BY <1>3 DEF TargetStands
<1>4. CASE View
  BY <1>1, <1>2, <1>4 DEF View, TargetStands
<1>5. ASSUME NEW w \in Console, NEW b \in Balls, NEW i \in Innings, CommitBall(w, b, i)
      PROVE  TargetStands'
  <2>1. CASE i = Fresh.innings /\ state' = Bowled(Fresh, b, i)
    <3>1. /\ state'.innings = Fresh.innings /\ state'.target = Fresh.target
          /\ i = 2 => state'.runs[1] = Fresh.runs[1]
      BY <1>1, <1>2, <2>1, BowledTyped
    <3> QED BY <1>1, <1>2, <2>1, <3>1 DEF TargetStands, Innings
  <2> QED BY <1>3, <1>5, <2>1 DEF CommitBall
<1>6. ASSUME NEW w \in Console, Undo(w) PROVE TargetStands'
  <2> DEFINE b == Last(log)
             st == IF b.innings = 1 /\ state.innings = 2 THEN Rejoined(state) ELSE state
  <2>1. b \in Delivery /\ b.innings \in Innings
    BY <1>1, <1>6, FrontTyped DEF Undo, Delivery
  <2>2. /\ st \in State
        /\ st.target = IF st.innings = 2 THEN st.runs[1] + 1 ELSE 0
        /\ st.innings = 2 => b.innings = 2
    BY <1>1, <2>1, RejoinedTyped DEF Innings
  <2>3. /\ TakenBack(st, b) \in State
        /\ TakenBack(st, b).innings = st.innings
        /\ TakenBack(st, b).target = st.target
        /\ b.innings = 2 => TakenBack(st, b).runs[1] = st.runs[1]
    BY <1>1, <1>6, <2>1, <2>2, TakenBackTyped DEF Undo
  <2>4. state' = Refreshed(TakenBack(st, b), Front(log))
    BY <1>6 DEF Undo
  <2>5. /\ state'.innings = st.innings /\ state'.target = st.target
        /\ state'.runs = TakenBack(st, b).runs
    BY <1>1, <2>3, <2>4, RefreshedTyped
  <2> QED BY <2>2, <2>3, <2>5 DEF TargetStands
<1>7. ASSUME NEW w \in Console, CommitSwitch(w) PROVE TargetStands'
  <2>1. CASE state' = [Fresh EXCEPT !.innings = 2, !.target = Fresh.runs[1] + 1,
                                    !.batting = Other(@)]
    BY <1>2, <2>1 DEF TargetStands, State
  <2> QED BY <1>3, <1>7, <2>1 DEF CommitSwitch
<1> QED BY <1>3, <1>4, <1>5, <1>6, <1>7
           DEF Next, ConsoleNext, RecordToss, TossReset, ReadBall, ReadSwitch, ReadCancel,
               Finish, CommitCancel, vars

\* The chase is always for one more than the first innings made, through any
\* switching, undoing and switching again by any number of consoles
\* (recordCricketBall, undoLastCricketBall, switchCricketInnings).
THEOREM TargetAlwaysStands == Spec => []TargetStands
<1>1. Typed /\ TargetStands /\ [Next]_vars => (Typed /\ TargetStands)'
  BY TypedStep, TargetStep
<1> QED BY <1>1, TypedInit, TargetInit, PTL DEF Spec

----------------------------------------------------------------------------
(* The sides *)

LEMMA SidesStep ==
    Typed /\ [Next]_vars => [log # <<>> /\ log' # <<>> => BattedFirst' = BattedFirst]_vars
<1> SUFFICES ASSUME Typed, [Next]_vars, log # <<>>, log' # <<>>
             PROVE  BattedFirst' = BattedFirst
  OBVIOUS
<1>1. /\ match \in Row /\ state \in State /\ log \in Seq(Delivery)
      /\ state.innings \in Innings /\ state.batting \in Sides
  BY DEF Typed, State
<1>2. Fresh = state
  BY <1>1, RefreshedTyped DEF Fresh
<1>3. ASSUME state'.innings = state.innings, state'.batting = state.batting
      PROVE  BattedFirst' = BattedFirst
  BY <1>3 DEF BattedFirst
<1>4. ASSUME NEW w \in Console, NEW b \in Balls, NEW i \in Innings, CommitBall(w, b, i)
      PROVE  BattedFirst' = BattedFirst
  <2>1. CASE state' = Bowled(state, b, i)
    BY <1>1, <1>3, <2>1, BowledTyped
  <2> QED BY <1>2, <1>3, <1>4, <2>1 DEF CommitBall
<1>5. ASSUME NEW w \in Console, Undo(w) PROVE BattedFirst' = BattedFirst
  <2> DEFINE b == Last(log)
             st == IF b.innings = 1 /\ state.innings = 2 THEN Rejoined(state) ELSE state
  <2>1. /\ b \in Delivery /\ b.innings \in Innings /\ st \in State
        /\ \/ st = state
           \/ state.innings = 2 /\ st.innings = 1 /\ st.batting = Other(state.batting)
    BY <1>1, FrontTyped, RejoinedTyped DEF Delivery
  <2>2. /\ TakenBack(st, b) \in State
        /\ TakenBack(st, b).innings = st.innings
        /\ TakenBack(st, b).batting = st.batting
    BY <1>1, <2>1, TakenBackTyped
  <2>3. state' = TakenBack(st, b)
    <3>1. state' = Refreshed(TakenBack(st, b), Front(log)) /\ Front(log) # <<>>
      BY <1>5 DEF Undo
    <3> QED BY <1>1, <2>2, <3>1, RefreshedTyped
  <2> QED BY <1>1, <2>1, <2>2, <2>3 DEF BattedFirst, Innings
<1>6. ASSUME NEW w \in Console, CommitSwitch(w) PROVE BattedFirst' = BattedFirst
  <2>1. CASE /\ state.innings = 1
             /\ state' = [state EXCEPT !.innings = 2, !.target = state.runs[1] + 1,
                                       !.batting = Other(@)]
    <3>1. state'.innings = 2 /\ state'.batting = Other(state.batting)
      BY <1>1, <2>1 DEF State
    <3> QED BY <1>1, <2>1, <3>1 DEF BattedFirst, Other, Sides
  <2> QED BY <1>2, <1>3, <1>6, <2>1 DEF CommitSwitch
<1> QED BY <1>2, <1>3, <1>4, <1>5, <1>6
           DEF Next, ConsoleNext, RecordToss, TossReset, View, ReadBall, ReadSwitch, ReadCancel,
               Finish, CommitCancel, vars

\* Once a ball has been bowled no toss, switch or undone switch changes the
\* side that bats first (cricketState, undoLastCricketBall).
THEOREM SidesStay == Spec => SidesKept
<1>1. Spec => []Typed
  BY TypedInit, TypedStep, PTL DEF Spec
<1>2. Typed /\ [Next]_vars => [log # <<>> /\ log' # <<>> => BattedFirst' = BattedFirst]_vars
  BY SidesStep
<1> QED BY <1>1, <1>2, PTL DEF Spec, SidesKept
----------------------------------------------------------------------------
(* The totals and the log *)

\* The deliveries of an innings, its wickets and its legal balls.
Of(i) == {d \in Delivery : d.innings = i}
Wickets(i) == {d \in Delivery : d.innings = i /\ Falls(d)}
Fair(i) == {d \in Delivery : d.innings = i /\ Legal(d)}
Worth == [d \in Delivery |-> d.runs + d.extraRuns]

Totalled ==
    \A i \in Innings :
        /\ state.runs[i] = AddUp(Worth, log, Of(i))
        /\ state.wickets[i] = Num(log, Wickets(i))
        /\ state.legal[i] = Num(log, Fair(i))

LEMMA LegalIsNum ==
    ASSUME NEW l \in Seq(Delivery), NEW i PROVE LegalBalls(l, i) = Num(l, Fair(i))
<1>1. {n \in DOMAIN l : l[n].innings = i /\ Legal(l[n])} = Where(l, Fair(i))
  BY DEF Where, Fair
<1> QED BY <1>1 DEF LegalBalls, Num

LEMMA TotalledIsMatch == Typed /\ Totalled => TotalsMatchLog
<1> SUFFICES ASSUME Typed, Totalled, NEW i \in Innings
             PROVE  LET balls == {n \in DOMAIN log : log[n].innings = i} IN
                    /\ state.runs[i] =
                          SumFunctionOnSet([n \in balls |-> log[n].runs + log[n].extraRuns], balls)
                    /\ state.wickets[i] =
                          Cardinality({n \in balls : log[n].out \notin {"", "retired_hurt"}})
                    /\ state.legal[i] =
                          Cardinality({n \in balls : log[n].extras \notin {"wide", "no_ball"}})
  BY DEF TotalsMatchLog
<1> DEFINE balls == {n \in DOMAIN log : log[n].innings = i}
<1>1. \A n \in DOMAIN log : log[n] \in Delivery
  BY DEF Typed
<1>2. balls = Where(log, Of(i))
  BY <1>1 DEF Where, Of
<1>3. [n \in balls |-> log[n].runs + log[n].extraRuns] = [n \in Where(log, Of(i)) |-> Worth[log[n]]]
  <2>1. \A n \in balls : Worth[log[n]] = log[n].runs + log[n].extraRuns
    BY <1>1 DEF Worth
  <2> QED BY <1>2, <2>1
<1>4. {n \in balls : log[n].out \notin {"", "retired_hurt"}} = Where(log, Wickets(i))
  BY <1>1 DEF Where, Wickets, Falls
<1>5. {n \in balls : log[n].extras \notin {"wide", "no_ball"}} = Where(log, Fair(i))
  BY <1>1 DEF Where, Fair, Legal
<1> HIDE DEF balls
<1> QED BY <1>2, <1>3, <1>4, <1>5 DEF Totalled, AddUp, Num, balls

\* What one more delivery at the end of a log adds.
LEMMA OneMore ==
    ASSUME NEW l \in Seq(Delivery), NEW k \in Seq(Delivery),
           Len(k) = Len(l) + 1, \A n \in 1..Len(l) : k[n] = l[n],
           NEW d \in Delivery, d = k[Len(k)], NEW i \in Innings
    PROVE  /\ AddUp(Worth, l, Of(i)) \in Nat
           /\ Num(l, Wickets(i)) \in Nat
           /\ Num(l, Fair(i)) \in Nat
           /\ AddUp(Worth, k, Of(i)) =
                 AddUp(Worth, l, Of(i)) + IF d.innings = i THEN d.runs + d.extraRuns ELSE 0
           /\ Num(k, Wickets(i)) =
                 Num(l, Wickets(i)) + IF d.innings = i /\ Falls(d) THEN 1 ELSE 0
           /\ Num(k, Fair(i)) = Num(l, Fair(i)) + IF d.innings = i /\ Legal(d) THEN 1 ELSE 0
<1>1. Worth \in [Delivery -> Nat]
  <2>1. ASSUME NEW e \in Delivery PROVE e.runs + e.extraRuns \in Nat
    <3>1. e.runs \in Nat /\ e.extraRuns \in Nat
      BY DEF Delivery
    <3> QED BY <3>1
  <2> QED BY <2>1 DEF Worth
<1>2. Worth[d] = d.runs + d.extraRuns
  BY DEF Worth
<1>3. /\ d \in Of(i) <=> d.innings = i
      /\ d \in Wickets(i) <=> d.innings = i /\ Falls(d)
      /\ d \in Fair(i) <=> d.innings = i /\ Legal(d)
  BY DEF Of, Wickets, Fair
<1>4. /\ AddUp(Worth, l, Of(i)) \in Nat
      /\ AddUp(Worth, k, Of(i)) = AddUp(Worth, l, Of(i)) + IF d \in Of(i) THEN Worth[d] ELSE 0
  <2> HIDE DEF Worth
  <2> QED BY <1>1, AddUpLonger
<1>5. /\ Num(l, Wickets(i)) \in Nat /\ Num(l, Fair(i)) \in Nat
      /\ Num(k, Wickets(i)) = Num(l, Wickets(i)) + IF d \in Wickets(i) THEN 1 ELSE 0
      /\ Num(k, Fair(i)) = Num(l, Fair(i)) + IF d \in Fair(i) THEN 1 ELSE 0
  BY WhereFinite, NumLonger
<1> QED BY <1>2, <1>3, <1>4, <1>5

LEMMA AppendTyped ==
    ASSUME NEW l \in Seq(Delivery), NEW d \in Delivery
    PROVE  /\ Append(l, d) \in Seq(Delivery) /\ Len(Append(l, d)) = Len(l) + 1
           /\ Len(l) \in Nat /\ Append(l, d)[Len(l) + 1] = d
           /\ \A n \in 1..Len(l) : Append(l, d)[n] = l[n]
OBVIOUS

LEMMA FrontLast ==
    ASSUME log \in Seq(Delivery), log # <<>>
    PROVE  /\ Front(log) \in Seq(Delivery) /\ Last(log) \in Delivery
           /\ Len(log) = Len(Front(log)) + 1 /\ Last(log) = log[Len(log)]
           /\ \A n \in 1..Len(Front(log)) : log[n] = Front(log)[n]
BY DEF Front, Last

----------------------------------------------------------------------------
(* The columns of the state row that the totals are in *)

LEMMA RefreshedTotals ==
    ASSUME NEW st \in State, NEW deliveries
    PROVE  /\ Refreshed(st, deliveries).runs = st.runs
           /\ Refreshed(st, deliveries).wickets = st.wickets
           /\ Refreshed(st, deliveries).legal = st.legal
<1>1. \A side : /\ [st EXCEPT !.batting = side].runs = st.runs
                /\ [st EXCEPT !.batting = side].wickets = st.wickets
                /\ [st EXCEPT !.batting = side].legal = st.legal
  BY DEF State
<1> QED BY <1>1 DEF Refreshed

LEMMA BowledTotals ==
    ASSUME NEW st \in State, NEW b, NEW i \in Innings
    PROVE  /\ Bowled(st, b, i).runs[i] = st.runs[i] + Total(b)
           /\ Bowled(st, b, i).wickets[i] = st.wickets[i] + (IF Falls(b) THEN 1 ELSE 0)
           /\ Bowled(st, b, i).legal[i] = LegalBalls(log, i) + (IF Legal(b) THEN 1 ELSE 0)
           /\ \A j \in Innings \ {i} : /\ Bowled(st, b, i).runs[j] = st.runs[j]
                                       /\ Bowled(st, b, i).wickets[j] = st.wickets[j]
                                       /\ Bowled(st, b, i).legal[j] = st.legal[j]
<1> DEFINE rs == [st.runs EXCEPT ![i] = st.runs[i] + Total(b)]
           ws == [st.wickets EXCEPT ![i] = st.wickets[i] + (IF Falls(b) THEN 1 ELSE 0)]
           ls == [st.legal EXCEPT ![i] = LegalBalls(log, i) + (IF Legal(b) THEN 1 ELSE 0)]
<1>1. Bowled(st, b, i) = [st EXCEPT !.runs = rs, !.wickets = ws, !.legal = ls]
  BY DEF Bowled
<1>2. \A x, y, z : /\ [st EXCEPT !.runs = x, !.wickets = y, !.legal = z].runs = x
                   /\ [st EXCEPT !.runs = x, !.wickets = y, !.legal = z].wickets = y
                   /\ [st EXCEPT !.runs = x, !.wickets = y, !.legal = z].legal = z
  BY DEF State
<1>3. Bowled(st, b, i).runs = rs /\ Bowled(st, b, i).wickets = ws /\ Bowled(st, b, i).legal = ls
  <2> HIDE DEF rs, ws, ls
  <2> QED BY <1>1, <1>2
<1>4. st.runs \in [Innings -> Nat] /\ st.wickets \in [Innings -> Nat] /\ st.legal \in [Innings -> Nat]
  BY DEF State
<1>5. \A f \in [Innings -> Nat] : \A x :
          /\ [f EXCEPT ![i] = x][i] = x
          /\ \A j \in Innings \ {i} : [f EXCEPT ![i] = x][j] = f[j]
  OBVIOUS
<1> QED BY <1>3, <1>4, <1>5

LEMMA TakenBackTotals ==
    ASSUME NEW st \in State, NEW b \in Delivery
    PROVE  /\ TakenBack(st, b).runs[b.innings] = Lowered(st.runs[b.innings], b.runs + b.extraRuns)
           /\ TakenBack(st, b).wickets[b.innings] =
                 IF Falls(b) THEN Lowered(st.wickets[b.innings], 1) ELSE st.wickets[b.innings]
           /\ TakenBack(st, b).legal[b.innings] = LegalBalls(Front(log), b.innings)
           /\ \A j \in Innings \ {b.innings} : /\ TakenBack(st, b).runs[j] = st.runs[j]
                                               /\ TakenBack(st, b).wickets[j] = st.wickets[j]
                                               /\ TakenBack(st, b).legal[j] = st.legal[j]
<1> DEFINE i == b.innings
           rs == [st.runs EXCEPT ![i] = Lowered(st.runs[i], b.runs + b.extraRuns)]
           ws == [st.wickets EXCEPT ![i] = IF Falls(b) THEN Lowered(st.wickets[i], 1)
                                                       ELSE st.wickets[i]]
           ls == [st.legal EXCEPT ![i] = LegalBalls(Front(log), i)]
<1>1. TakenBack(st, b) = [st EXCEPT !.runs = rs, !.wickets = ws, !.legal = ls]
  BY DEF TakenBack
<1>2. \A x, y, z : /\ [st EXCEPT !.runs = x, !.wickets = y, !.legal = z].runs = x
                   /\ [st EXCEPT !.runs = x, !.wickets = y, !.legal = z].wickets = y
                   /\ [st EXCEPT !.runs = x, !.wickets = y, !.legal = z].legal = z
  BY DEF State
<1>3. TakenBack(st, b).runs = rs /\ TakenBack(st, b).wickets = ws /\ TakenBack(st, b).legal = ls
  <2> HIDE DEF rs, ws, ls
  <2> QED BY <1>1, <1>2
<1>4. st.runs \in [Innings -> Nat] /\ st.wickets \in [Innings -> Nat] /\ st.legal \in [Innings -> Nat]
  BY DEF State
<1>5. i \in Innings
  BY DEF Delivery
<1>6. \A f \in [Innings -> Nat] : \A x :
          /\ [f EXCEPT ![i] = x][i] = x
          /\ \A j \in Innings \ {i} : [f EXCEPT ![i] = x][j] = f[j]
  BY <1>5
<1> QED BY <1>3, <1>4, <1>6

----------------------------------------------------------------------------
(* Every step keeps the totals *)

\* The row of the log for a ball b of innings i.
Logged(b, i) == [innings |-> i, runs |-> b.runs, extras |-> b.extras,
                 extraRuns |-> Total(b) - b.runs, out |-> b.out]

LEMMA LoggedTyped ==
    ASSUME NEW b \in Balls, NEW i \in Innings
    PROVE  /\ Logged(b, i) \in Delivery /\ Logged(b, i).innings = i
           /\ Logged(b, i).runs + Logged(b, i).extraRuns = Total(b)
           /\ Falls(Logged(b, i)) <=> Falls(b)
           /\ Legal(Logged(b, i)) <=> Legal(b)
<1>1. b \in Ball
  BY CricketAssumption
<1>2. b.runs \in Nat /\ Total(b) - b.runs \in Nat /\ Total(b) \in Nat
  <2>1. b.runs \in Nat /\ b.extraRuns \in Nat
    BY <1>1 DEF Ball
  <2> QED BY <2>1 DEF Total
<1>3. Logged(b, i).runs + Logged(b, i).extraRuns = Total(b)
  <2>1. Logged(b, i).runs = b.runs /\ Logged(b, i).extraRuns = Total(b) - b.runs
    BY DEF Logged
  <2> HIDE DEF Logged
  <2> QED BY <1>2, <2>1
<1>4. Logged(b, i) \in Delivery
  BY <1>1, <1>2 DEF Ball, Delivery, Logged
<1>5. /\ Logged(b, i).innings = i
      /\ Falls(Logged(b, i)) <=> Falls(b)
      /\ Legal(Logged(b, i)) <=> Legal(b)
  BY DEF Logged, Falls, Legal
<1> QED BY <1>3, <1>4, <1>5

\* What bowling a ball writes.
Enters(w, b, i) ==
    /\ i = Fresh.innings /\ BallsLeft(Fresh, i)
    /\ state' = Bowled(Fresh, b, i)
    /\ log' = Append(log, Logged(b, i))
    /\ match' = Saved(request[w].was, AfterBall(request[w].was, state', i))

LEMMA BallEntersOrNot ==
    ASSUME NEW w, NEW b, NEW i, CommitBall(w, b, i)
    PROVE  Enters(w, b, i) \/ UNCHANGED <<match, state, log>>
BY DEF CommitBall, Enters, Logged

\* The row an undo goes by.
Back == IF Last(log).innings = 1 /\ state.innings = 2 THEN Rejoined(state) ELSE state

LEMMA BackTyped ==
    ASSUME Typed, log # <<>>
    PROVE  /\ Back \in State /\ Back.runs = state.runs
           /\ Back.wickets = state.wickets /\ Back.legal = state.legal
           /\ \/ Back = state /\ ~ (Last(log).innings = 1 /\ state.innings = 2)
              \/ /\ Last(log).innings = 1 /\ state.innings = 2
                 /\ Back.innings = 1 /\ Back.batting = Other(state.batting)
<1>1. state \in State
  BY DEF Typed
<1>2. /\ Rejoined(state).runs = state.runs /\ Rejoined(state).wickets = state.wickets
      /\ Rejoined(state).legal = state.legal
  BY <1>1 DEF Rejoined, State
<1> QED BY <1>1, <1>2, RejoinedTyped DEF Back

\* What taking the last ball back writes.
LEMMA UndoWrites ==
    ASSUME NEW w, Undo(w)
    PROVE  /\ log # <<>> /\ log' = Front(log)
           /\ state' = Refreshed(TakenBack(Back, Last(log)), Front(log))
           /\ match' = AfterUndo(Last(log)) /\ UNCHANGED request
BY DEF Undo, Back

\* Steps other than a ball and an undo leave the log and the totals alone.
LEMMA TotalsElsewhere ==
    ASSUME Typed, [Next]_vars,
           \A w \in Console : ~ Undo(w) /\ \A b \in Balls, i \in Innings : ~ CommitBall(w, b, i)
    PROVE  /\ log' = log /\ state'.runs = state.runs
           /\ state'.wickets = state.wickets /\ state'.legal = state.legal
<1>1. state \in State /\ Fresh \in State
  BY RefreshedTyped DEF Typed, Fresh
<1>2. Fresh.runs = state.runs /\ Fresh.wickets = state.wickets /\ Fresh.legal = state.legal
  BY <1>1, RefreshedTotals DEF Fresh
<1>3. ASSUME NEW w \in Console, CommitSwitch(w)
      PROVE  /\ log' = log /\ state'.runs = state.runs
             /\ state'.wickets = state.wickets /\ state'.legal = state.legal
  <2>1. \A n, t, side :
           LET st == [Fresh EXCEPT !.innings = n, !.target = t, !.batting = side]
           IN  st.runs = Fresh.runs /\ st.wickets = Fresh.wickets /\ st.legal = Fresh.legal
    BY <1>1 DEF State
  <2>2. CASE state' = [Fresh EXCEPT !.innings = 2, !.target = Fresh.runs[1] + 1,
                                    !.batting = Other(@)]
    BY <1>2, <1>3, <2>1, <2>2 DEF CommitSwitch
  <2> QED BY <1>3, <2>2 DEF CommitSwitch
<1> QED BY <1>1, <1>2, <1>3
           DEF Next, ConsoleNext, RecordToss, TossReset, View, ReadBall, ReadSwitch, ReadCancel,
               Finish, CommitCancel, vars

LEMMA TotalledInit == Init => Totalled
<1> SUFFICES ASSUME Init, NEW i \in Innings
             PROVE  /\ state.runs[i] = AddUp(Worth, log, Of(i))
                    /\ state.wickets[i] = Num(log, Wickets(i))
                    /\ state.legal[i] = Num(log, Fair(i))
  BY DEF Totalled
<1>1. log = <<>> /\ state.runs[i] = 0 /\ state.wickets[i] = 0 /\ state.legal[i] = 0
  BY DEF Init, Nil
<1> QED BY <1>1, NothingLogged

\* Totalled of the next state, with the primes pushed in.
LEMMA TotalledNext ==
    Totalled' <=> \A i \in Innings :
        /\ state'.runs[i] = AddUp(Worth, log', Of(i))
        /\ state'.wickets[i] = Num(log', Wickets(i))
        /\ state'.legal[i] = Num(log', Fair(i))
BY DEF Totalled, AddUp, Num, Where, Worth, Of, Wickets, Fair, Falls, Legal

LEMMA TotalledStep == Typed /\ Totalled /\ [Next]_vars => Totalled'
<1> SUFFICES ASSUME Typed, Totalled, [Next]_vars PROVE Totalled'
  OBVIOUS
<1>1. state \in State /\ log \in Seq(Delivery)
  BY DEF Typed
<1>2. /\ Fresh \in State /\ Fresh.runs = state.runs
      /\ Fresh.wickets = state.wickets /\ Fresh.legal = state.legal
  BY <1>1, RefreshedTyped, RefreshedTotals DEF Fresh, Typed
<1>3. \A i \in Innings : /\ state.runs[i] = AddUp(Worth, log, Of(i))
                         /\ state.wickets[i] = Num(log, Wickets(i))
                         /\ state.legal[i] = Num(log, Fair(i))
  BY DEF Totalled
<1>4. ASSUME log' = log, state'.runs = state.runs, state'.wickets = state.wickets,
             state'.legal = state.legal
      PROVE  Totalled'
  BY <1>3, <1>4, TotalledNext
<1>5. ASSUME NEW w \in Console, NEW b \in Balls, NEW i \in Innings, CommitBall(w, b, i)
      PROVE  Totalled'
  <2>1. CASE UNCHANGED <<match, state, log>>
    BY <1>4, <2>1
  <2>2. CASE Enters(w, b, i)
    <3> DEFINE d == Logged(b, i)
    <3>1. /\ d \in Delivery /\ d.innings = i /\ d.runs + d.extraRuns = Total(b)
          /\ (Falls(d) <=> Falls(b)) /\ (Legal(d) <=> Legal(b))
      BY LoggedTyped
    <3>2. log' = Append(log, d) /\ state' = Bowled(Fresh, b, i)
      BY <2>2 DEF Enters
    <3> HIDE DEF d
    <3>3. /\ log' \in Seq(Delivery) /\ Len(log') = Len(log) + 1 /\ log'[Len(log')] = d
          /\ \A n \in 1..Len(log) : log'[n] = log[n]
      BY <1>1, <3>1, <3>2, AppendTyped
    <3>4. ASSUME NEW j \in Innings
          PROVE  /\ state'.runs[j] = AddUp(Worth, log', Of(j))
                 /\ state'.wickets[j] = Num(log', Wickets(j))
                 /\ state'.legal[j] = Num(log', Fair(j))
      <4>1. /\ AddUp(Worth, log, Of(j)) \in Nat
            /\ Num(log, Wickets(j)) \in Nat
            /\ Num(log, Fair(j)) \in Nat
            /\ AddUp(Worth, log', Of(j)) =
                  AddUp(Worth, log, Of(j)) + IF d.innings = j THEN d.runs + d.extraRuns ELSE 0
            /\ Num(log', Wickets(j)) =
                  Num(log, Wickets(j)) + IF d.innings = j /\ Falls(d) THEN 1 ELSE 0
            /\ Num(log', Fair(j)) = Num(log, Fair(j)) + IF d.innings = j /\ Legal(d) THEN 1 ELSE 0
        BY <1>1, <3>1, <3>3, OneMore
      <4>2. CASE j = i
        BY <1>1, <1>2, <1>3, <3>1, <3>2, <4>1, <4>2, BowledTotals, LegalIsNum
      <4>3. CASE j # i
        <5>1. /\ state'.runs[j] = state.runs[j] /\ state'.wickets[j] = state.wickets[j]
              /\ state'.legal[j] = state.legal[j]
          BY <1>2, <3>2, <4>3, BowledTotals
        <5> QED BY <1>3, <3>1, <4>1, <4>3, <5>1
      <4> QED BY <4>2, <4>3
    <3> QED BY <3>4, TotalledNext
  <2> QED BY <1>5, <2>1, <2>2, BallEntersOrNot
<1>6. ASSUME NEW w \in Console, Undo(w) PROVE Totalled'
  <2> DEFINE d == Last(log)
             l == Front(log)
  <2>1. log # <<>> /\ log' = l /\ state' = Refreshed(TakenBack(Back, d), l)
    BY <1>6, UndoWrites
  <2>2. /\ l \in Seq(Delivery) /\ d \in Delivery /\ d.innings \in Innings
        /\ Len(log) = Len(l) + 1 /\ d = log[Len(log)]
        /\ \A n \in 1..Len(l) : log[n] = l[n]
    BY <1>1, <2>1, FrontLast DEF Delivery
  <2>3. /\ Back \in State /\ Back.runs = state.runs
        /\ Back.wickets = state.wickets /\ Back.legal = state.legal
    BY <2>1, BackTyped
  <2>4. TakenBack(Back, d) \in State
    BY <1>1, <2>1, <2>2, <2>3, TakenBackTyped
  <2>5. /\ state'.runs = TakenBack(Back, d).runs /\ state'.wickets = TakenBack(Back, d).wickets
        /\ state'.legal = TakenBack(Back, d).legal
    BY <2>1, <2>4, RefreshedTotals
  <2>6. /\ TakenBack(Back, d).runs[d.innings] =
                Lowered(state.runs[d.innings], d.runs + d.extraRuns)
        /\ TakenBack(Back, d).wickets[d.innings] =
                IF Falls(d) THEN Lowered(state.wickets[d.innings], 1) ELSE state.wickets[d.innings]
        /\ TakenBack(Back, d).legal[d.innings] = LegalBalls(l, d.innings)
        /\ \A j \in Innings \ {d.innings} : /\ TakenBack(Back, d).runs[j] = state.runs[j]
                                            /\ TakenBack(Back, d).wickets[j] = state.wickets[j]
                                            /\ TakenBack(Back, d).legal[j] = state.legal[j]
    <3>1. Back \in State /\ d \in Delivery
      BY <2>2, <2>3
    <3>2. /\ TakenBack(Back, d).runs[d.innings] =
                Lowered(Back.runs[d.innings], d.runs + d.extraRuns)
          /\ TakenBack(Back, d).wickets[d.innings] =
                IF Falls(d) THEN Lowered(Back.wickets[d.innings], 1) ELSE Back.wickets[d.innings]
          /\ TakenBack(Back, d).legal[d.innings] = LegalBalls(l, d.innings)
          /\ \A j \in Innings \ {d.innings} : /\ TakenBack(Back, d).runs[j] = Back.runs[j]
                                              /\ TakenBack(Back, d).wickets[j] = Back.wickets[j]
                                              /\ TakenBack(Back, d).legal[j] = Back.legal[j]
      BY <3>1, TakenBackTotals
    <3> HIDE DEF d, l
    <3> QED BY <2>3, <3>2
  <2>7. d.runs \in Nat /\ d.extraRuns \in Nat
    BY <2>2 DEF Delivery
  <2> HIDE DEF d, l
  <2>8. ASSUME NEW j \in Innings
        PROVE  /\ state'.runs[j] = AddUp(Worth, log', Of(j))
               /\ state'.wickets[j] = Num(log', Wickets(j))
               /\ state'.legal[j] = Num(log', Fair(j))
    <3>1. /\ AddUp(Worth, l, Of(j)) \in Nat
          /\ Num(l, Wickets(j)) \in Nat
          /\ Num(l, Fair(j)) \in Nat
          /\ AddUp(Worth, log, Of(j)) =
                AddUp(Worth, l, Of(j)) + IF d.innings = j THEN d.runs + d.extraRuns ELSE 0
          /\ Num(log, Wickets(j)) =
                Num(l, Wickets(j)) + IF d.innings = j /\ Falls(d) THEN 1 ELSE 0
          /\ Num(log, Fair(j)) = Num(l, Fair(j)) + IF d.innings = j /\ Legal(d) THEN 1 ELSE 0
      BY <1>1, <2>2, OneMore
    <3>2. \A n, m \in Nat : Lowered(n + m, m) = n
      BY DEF Lowered
    <3>3. CASE j = d.innings
      <4>1. state'.runs[j] = AddUp(Worth, l, Of(j))
        <5>1. state'.runs[j] = Lowered(AddUp(Worth, l, Of(j)) + (d.runs + d.extraRuns),
                                       d.runs + d.extraRuns)
          BY <1>3, <2>5, <2>6, <3>1, <3>3
        <5>2. d.runs + d.extraRuns \in Nat
          BY <2>7
        <5>3. Lowered(AddUp(Worth, l, Of(j)) + (d.runs + d.extraRuns), d.runs + d.extraRuns)
                 = AddUp(Worth, l, Of(j))
          BY <3>1, <3>2, <5>2, Zenon
        <5> QED BY <5>1, <5>3, Zenon
      <4>2. state'.wickets[j] = Num(l, Wickets(j))
        <5>1. state'.wickets[j] = IF Falls(d) THEN Lowered(Num(l, Wickets(j)) + 1, 1)
                                              ELSE Num(l, Wickets(j))
          BY <1>3, <2>5, <2>6, <3>1, <3>3
        <5> QED BY <3>1, <3>2, <5>1
      <4>3. state'.legal[j] = Num(l, Fair(j))
        BY <2>2, <2>5, <2>6, <3>3, LegalIsNum
      <4> QED BY <2>1, <4>1, <4>2, <4>3
    <3>4. CASE j # d.innings
      <4>1. /\ state'.runs[j] = state.runs[j] /\ state'.wickets[j] = state.wickets[j]
            /\ state'.legal[j] = state.legal[j]
        BY <2>5, <2>6, <3>4
      <4>2. /\ AddUp(Worth, l, Of(j)) = AddUp(Worth, log, Of(j))
            /\ Num(l, Wickets(j)) = Num(log, Wickets(j))
            /\ Num(l, Fair(j)) = Num(log, Fair(j))
        BY <3>1, <3>4
      <4> QED BY <1>3, <2>1, <4>1, <4>2
    <3> QED BY <3>3, <3>4
  <2> QED BY <2>8, TotalledNext
<1> QED BY <1>4, <1>5, <1>6, TotalsElsewhere

\* Runs, wickets and legal balls of each innings are what the deliveries still
\* in the log add up to, for any number of scorers bowling, undoing and
\* switching at once (recordCricketBall, undoLastCricketBall).
THEOREM TotalsFromLog == Spec => []TotalsMatchLog
<1>1. Init => Typed /\ Totalled
  BY TypedInit, TotalledInit
<1>2. Typed /\ Totalled /\ [Next]_vars => (Typed /\ Totalled)'
  BY TypedStep, TotalledStep
<1>3. Spec => [](Typed /\ Totalled)
  BY <1>1, <1>2, PTL DEF Spec
<1> QED BY <1>3, TotalledIsMatch, PTL

----------------------------------------------------------------------------
(* No innings runs on *)

\* The side that bats first, and the one batting in innings i.
First(st) == IF st.innings = 1 THEN st.batting ELSE Other(st.batting)
Batting(st, i) == IF i = st.innings THEN st.batting ELSE Other(st.batting)

LEMMA BattingIs ==
    ASSUME NEW st \in State, NEW i \in Innings
    PROVE  /\ Batting(st, i) \in Sides
           /\ Batting(st, i) = IF i = 1 THEN First(st) ELSE Other(First(st))
<1>1. st.innings \in Innings /\ st.batting \in Sides
  BY DEF State
<1> QED BY <1>1 DEF Batting, First, Other, Sides, Innings

LEMMA FirstKept ==
    ASSUME Typed, [Next]_vars, log # <<>>, log' # <<>>
    PROVE  First(state') = First(state)
<1>1. BattedFirst' = BattedFirst
  BY SidesStep DEF BattedFirst, vars
<1> QED BY <1>1 DEF First, BattedFirst

\* What InningsWithin asks of one innings.
Fits(st, i) ==
    /\ st.legal[i] <= TotalOvers * OverLength
    /\ st.wickets[i] <= BowledOut[Batting(st, i)]

LEMMA FitsIsWithin ==
    /\ InningsWithin <=> \A i \in Innings : Fits(state, i)
    /\ InningsWithin' <=> \A i \in Innings : Fits(state', i)
BY DEF InningsWithin, Fits, Batting

LEMMA Limits ==
    /\ TotalOvers * OverLength \in Nat /\ TotalOvers * OverLength > 0
    /\ \A s \in Sides : BowledOut[s] \in Nat /\ BowledOut[s] > 0
<1>1. TotalOvers \in Nat \ {0} /\ OverLength \in Nat \ {0} /\ BowledOut \in [Sides -> Nat \ {0}]
  BY CricketAssumption
<1>2. \A m, n \in Nat \ {0} : m * n \in Nat /\ m * n > 0
  OBVIOUS
<1> QED BY <1>1, <1>2

LEMMA EmptyTotals ==
    ASSUME NEW i \in Innings
    PROVE  /\ Totalled /\ log = <<>> =>
                state.runs[i] = 0 /\ state.wickets[i] = 0 /\ state.legal[i] = 0
           /\ Totalled' /\ log' = <<>> =>
                state'.runs[i] = 0 /\ state'.wickets[i] = 0 /\ state'.legal[i] = 0
<1>1. Totalled /\ log = <<>> => state.runs[i] = 0 /\ state.wickets[i] = 0 /\ state.legal[i] = 0
  BY NothingLogged DEF Totalled
<1>2. Totalled' /\ log' = <<>> =>
         state'.runs[i] = 0 /\ state'.wickets[i] = 0 /\ state'.legal[i] = 0
  BY NothingLogged, TotalledNext
<1> QED BY <1>1, <1>2

\* A step that bowls no ball leaves an innings within its bounds.
LEMMA FitsFewer ==
    ASSUME Typed, Typed', Totalled', [Next]_vars, log # <<>> \/ log' = <<>>,
           NEW i \in Innings, Fits(state, i),
           state'.wickets[i] <= state.wickets[i], state'.legal[i] <= state.legal[i]
    PROVE  Fits(state', i)
<1>1. /\ state.wickets[i] \in Nat /\ state'.wickets[i] \in Nat
      /\ state.legal[i] \in Nat /\ state'.legal[i] \in Nat
  BY DEF Typed, State
<1>2. Batting(state, i) \in Sides /\ Batting(state', i) \in Sides
  BY BattingIs DEF Typed
<1>3. CASE log' = <<>>
  <2>1. state'.wickets[i] = 0 /\ state'.legal[i] = 0
    BY <1>3, EmptyTotals
  <2> QED BY <1>2, <2>1, Limits DEF Fits
<1>4. CASE log' # <<>>
  <2>1. First(state') = First(state)
    BY <1>4, FirstKept
  <2>2. Batting(state', i) = Batting(state, i)
    BY <2>1, BattingIs DEF Typed
  <2> QED BY <1>1, <1>2, <2>2, Limits DEF Fits
<1> QED BY <1>3, <1>4

LEMMA FitsBowled ==
    ASSUME Typed, Typed', Totalled, InningsWithin, [Next]_vars,
           NEW w \in Console, NEW b \in Balls, NEW i \in Innings, Enters(w, b, i),
           NEW j \in Innings
    PROVE  Fits(state', j)
<1>1. state \in State /\ log \in Seq(Delivery)
  BY DEF Typed
<1>2. /\ Fresh \in State /\ Fresh.wickets = state.wickets /\ Fresh.legal = state.legal
      /\ log # <<>> => Fresh = state
  BY <1>1, RefreshedTyped, RefreshedTotals DEF Fresh, Typed
<1>3. /\ i = Fresh.innings /\ BallsLeft(Fresh, i) /\ state' = Bowled(Fresh, b, i)
      /\ log' = Append(log, Logged(b, i))
  BY DEF Enters
<1>4. state'.innings = Fresh.innings /\ state'.batting = Fresh.batting
  BY <1>1, <1>2, <1>3, BowledTyped
<1>5. log' # <<>>
  BY <1>1, <1>3, LoggedTyped
<1>6. /\ state'.wickets[j] \in Nat /\ state'.legal[j] \in Nat
      /\ state.wickets[j] \in Nat /\ state.legal[j] \in Nat
  BY DEF Typed, State
<1>7. CASE j = i
  <2>1. Batting(state', j) = Fresh.batting
    BY <1>3, <1>4, <1>7 DEF Batting
  <2>2. Fresh.batting \in Sides
    BY <1>2 DEF State
  <2>3. /\ LegalBalls(log, i) \in Nat /\ LegalBalls(log, i) < TotalOvers * OverLength
        /\ state.wickets[i] < BowledOut[Fresh.batting]
    BY <1>1, <1>2, <1>3, LegalBallsTyped DEF BallsLeft
  <2>4. /\ state'.wickets[i] = state.wickets[i] + (IF Falls(b) THEN 1 ELSE 0)
        /\ state'.legal[i] = LegalBalls(log, i) + (IF Legal(b) THEN 1 ELSE 0)
    BY <1>2, <1>3, BowledTotals
  <2>5. state'.legal[i] <= TotalOvers * OverLength
    <3>1. \A m, n \in Nat : n < m => n + 1 <= m /\ n + 0 <= m
      OBVIOUS
    <3> QED BY <2>3, <2>4, <3>1, Limits
  <2>6. state'.wickets[i] <= BowledOut[Fresh.batting]
    BY <1>6, <1>7, <2>2, <2>3, <2>4, Limits
  <2> QED BY <1>7, <2>1, <2>5, <2>6 DEF Fits
<1>8. CASE j # i
  <2>1. state'.wickets[j] = state.wickets[j] /\ state'.legal[j] = state.legal[j]
    BY <1>2, <1>3, <1>8, BowledTotals
  <2>2. Batting(state', j) \in Sides /\ Batting(state, j) \in Sides
    BY BattingIs DEF Typed
  <2>3. CASE log = <<>>
    <3>1. state.wickets[j] = 0 /\ state.legal[j] = 0
      BY <2>3, EmptyTotals
    <3> QED BY <2>1, <2>2, <3>1, Limits DEF Fits
  <2>4. CASE log # <<>>
    <3>1. First(state') = First(state)
      BY <1>5, <2>4, FirstKept
    <3>2. Batting(state', j) = Batting(state, j)
      BY <3>1, BattingIs DEF Typed
    <3> QED BY <2>1, <3>2, FitsIsWithin DEF Fits
  <2> QED BY <2>3, <2>4
<1> QED BY <1>7, <1>8

\* Taking a ball back leaves no innings with more than it had.
LEMMA UndoFewer ==
    ASSUME Typed, Totalled, Typed', Totalled', NEW w, Undo(w), NEW i \in Innings
    PROVE  state'.wickets[i] <= state.wickets[i] /\ state'.legal[i] <= state.legal[i]
<1> DEFINE l == Front(log)
           d == Last(log)
<1>1. log # <<>> /\ log' = l
  BY UndoWrites
<1>2. /\ l \in Seq(Delivery) /\ log \in Seq(Delivery) /\ d \in Delivery
      /\ Len(log) = Len(l) + 1 /\ d = log[Len(log)]
      /\ \A n \in 1..Len(l) : log[n] = l[n]
  BY <1>1, FrontLast DEF Typed
<1> HIDE DEF l, d
<1>3. /\ Num(l, Wickets(i)) \in Nat
      /\ Num(l, Fair(i)) \in Nat
      /\ Num(log, Wickets(i)) = Num(l, Wickets(i)) + IF d.innings = i /\ Falls(d) THEN 1 ELSE 0
      /\ Num(log, Fair(i)) = Num(l, Fair(i)) + IF d.innings = i /\ Legal(d) THEN 1 ELSE 0
  BY <1>2, OneMore
<1>4. state.wickets[i] = Num(log, Wickets(i)) /\ state.legal[i] = Num(log, Fair(i))
  BY DEF Totalled
<1>5. state'.wickets[i] = Num(l, Wickets(i)) /\ state'.legal[i] = Num(l, Fair(i))
  BY <1>1, TotalledNext
<1> QED BY <1>3, <1>4, <1>5

LEMMA WithinInit == Init => InningsWithin
<1> SUFFICES ASSUME Init, NEW i \in Innings PROVE Fits(state, i)
  BY FitsIsWithin
<1>1. state.wickets[i] = 0 /\ state.legal[i] = 0
  BY DEF Init, Nil
<1>2. Batting(state, i) \in Sides
  BY TypedInit, BattingIs DEF Typed
<1> QED BY <1>1, <1>2, Limits DEF Fits

LEMMA WithinStep ==
    Typed /\ Totalled /\ InningsWithin /\ [Next]_vars => InningsWithin'
<1> SUFFICES ASSUME Typed, Totalled, InningsWithin, [Next]_vars, NEW i \in Innings
             PROVE  Fits(state', i)
  BY FitsIsWithin
<1>1. Typed' /\ Totalled' /\ Fits(state, i)
  BY TypedStep, TotalledStep, FitsIsWithin
<1>2. /\ state.wickets[i] \in Nat /\ state.legal[i] \in Nat
  BY DEF Typed, State
<1>3. ASSUME log' = log, state'.wickets = state.wickets, state'.legal = state.legal
      PROVE  Fits(state', i)
  BY <1>1, <1>2, <1>3, FitsFewer
<1>4. ASSUME NEW w \in Console, NEW b \in Balls, NEW n \in Innings, CommitBall(w, b, n)
      PROVE  Fits(state', i)
  <2>1. CASE Enters(w, b, n)
    BY <1>1, <2>1, FitsBowled
  <2> QED BY <1>3, <1>4, <2>1, BallEntersOrNot
<1>5. ASSUME NEW w \in Console, Undo(w) PROVE Fits(state', i)
  BY <1>1, <1>5, UndoFewer, UndoWrites, FitsFewer
<1> QED BY <1>3, <1>4, <1>5, TotalsElsewhere

\* No innings runs past its overs or past the last wicket of the side batting
\* in it, whatever any number of scorers bowl, undo and switch at once
\* (assertInningsHasBallsLeft, undoLastCricketBall).
THEOREM NoInningsRunsOn == Spec => []InningsWithin
<1>1. Init => Typed /\ Totalled /\ InningsWithin
  BY TypedInit, TotalledInit, WithinInit
<1>2. Typed /\ Totalled /\ InningsWithin /\ [Next]_vars => (Typed /\ Totalled /\ InningsWithin)'
  BY TypedStep, TotalledStep, WithinStep
<1> QED BY <1>1, <1>2, PTL DEF Spec

----------------------------------------------------------------------------
(* The order of the log *)

\* Deliveries of the second innings come last, and only once it has begun.
InOrder(st, l) ==
    \A n \in DOMAIN l :
        /\ l[n].innings <= st.innings
        /\ \A m \in DOMAIN l : m < n => l[m].innings <= l[n].innings

Second(l) == \E n \in DOMAIN l : l[n].innings = 2

LEMMA InningsTyped ==
    ASSUME NEW l \in Seq(Delivery), NEW n \in DOMAIN l
    PROVE  l[n] \in Delivery /\ l[n].innings \in Innings
<1>1. l[n] \in Delivery
  OBVIOUS
<1>2. \A e \in Delivery : e.innings \in Innings
  BY DEF Delivery
<1> QED BY <1>1, <1>2

LEMMA InOrderLonger ==
    ASSUME NEW l \in Seq(Delivery), NEW d \in Delivery, NEW st, NEW t,
           InOrder(st, l), t.innings = st.innings, d.innings = st.innings
    PROVE  InOrder(t, Append(l, d))
<1> DEFINE k == Append(l, d)
<1>1. /\ DOMAIN l = 1..Len(l) /\ DOMAIN k = 1..(Len(l) + 1) /\ Len(l) \in Nat
      /\ k[Len(l) + 1] = d /\ \A n \in 1..Len(l) : k[n] = l[n]
  BY AppendTyped
<1>2. \A n \in 1..Len(l) : l[n].innings \in Innings
  BY InningsTyped
<1>3. d.innings \in Innings
  BY DEF Delivery
<1> HIDE DEF k
<1>4. ASSUME NEW n \in DOMAIN k, NEW m \in DOMAIN k, m < n
      PROVE  k[m].innings <= k[n].innings
  <2>1. m \in 1..Len(l) /\ (n \in 1..Len(l) \/ n = Len(l) + 1)
    BY <1>1, <1>4
  <2>2. k[m] = l[m] /\ l[m].innings <= st.innings
    BY <1>1, <2>1 DEF InOrder
  <2>3. CASE n \in 1..Len(l)
    <3>1. k[n] = l[n] /\ l[m].innings <= l[n].innings
      BY <1>1, <1>4, <2>1, <2>3 DEF InOrder
    <3> QED BY <2>2, <3>1
  <2>4. CASE n = Len(l) + 1
    BY <1>1, <2>2, <2>4
  <2> QED BY <2>1, <2>3, <2>4
<1>5. ASSUME NEW n \in DOMAIN k PROVE k[n].innings <= t.innings
  <2>1. n \in 1..Len(l) \/ n = Len(l) + 1
    BY <1>1
  <2> QED BY <1>1, <1>3, <2>1 DEF InOrder, Innings
<1> QED BY <1>4, <1>5 DEF InOrder, k

LEMMA InOrderStep == Typed /\ InOrder(state, log) /\ [Next]_vars => InOrder(state', log')
<1> SUFFICES ASSUME Typed, InOrder(state, log), [Next]_vars PROVE InOrder(state', log')
  OBVIOUS
<1>1. /\ state \in State /\ log \in Seq(Delivery) /\ match \in Row
      /\ state.innings \in Innings
  BY DEF Typed, State
<1>2. Fresh \in State /\ Fresh.innings = state.innings
  BY <1>1, RefreshedTyped DEF Fresh
<1>3. ASSUME log' = log, state'.innings = state.innings PROVE InOrder(state', log')
  BY <1>3 DEF InOrder
<1>4. ASSUME NEW w \in Console, NEW b \in Balls, NEW i \in Innings, CommitBall(w, b, i)
      PROVE  InOrder(state', log')
  <2>1. CASE Enters(w, b, i)
    <3>1. /\ i = Fresh.innings /\ state' = Bowled(Fresh, b, i)
          /\ log' = Append(log, Logged(b, i))
      BY <2>1 DEF Enters
    <3>2. state'.innings = state.innings /\ Logged(b, i).innings = state.innings
      BY <1>1, <1>2, <3>1, BowledTyped, LoggedTyped
    <3> QED BY <1>1, <3>1, <3>2, LoggedTyped, InOrderLonger
  <2> QED BY <1>3, <1>4, <2>1, BallEntersOrNot
<1>5. ASSUME NEW w \in Console, Undo(w) PROVE InOrder(state', log')
  <2> DEFINE d == Last(log)
             l == Front(log)
  <2>1. log # <<>> /\ log' = l /\ state' = Refreshed(TakenBack(Back, d), l)
    BY <1>5, UndoWrites
  <2>2. /\ l \in Seq(Delivery) /\ d \in Delivery /\ d.innings \in Innings
        /\ Len(log) = Len(l) + 1 /\ d = log[Len(log)]
        /\ \A n \in 1..Len(l) : log[n] = l[n]
    BY <1>1, <2>1, FrontLast DEF Delivery
  <2>3. state'.innings = Back.innings
    <3>1. Back \in State
      BY <2>1, BackTyped
    <3>2. TakenBack(Back, d) \in State /\ TakenBack(Back, d).innings = Back.innings
      BY <1>1, <2>1, <2>2, <3>1, TakenBackTyped
    <3> QED BY <1>1, <2>1, <3>2, RefreshedTyped
  <2>4. Back.innings = state.innings \/ (d.innings = 1 /\ Back.innings = 1)
    BY <2>1, BackTyped
  <2> HIDE DEF d, l
  <2>5. /\ Len(l) \in Nat /\ DOMAIN l = 1..Len(l) /\ DOMAIN log = 1..(Len(l) + 1)
    BY <1>1, <2>2
  <2>6. \A n \in DOMAIN l : n \in DOMAIN log /\ Len(log) \in DOMAIN log /\ n < Len(log)
    BY <2>2, <2>5
  <2>7. \A n \in DOMAIN l : l[n].innings <= state.innings /\ l[n].innings <= d.innings
    BY <2>2, <2>5, <2>6 DEF InOrder
  <2>8. ASSUME NEW n \in DOMAIN l, NEW m \in DOMAIN l, m < n PROVE l[m].innings <= l[n].innings
    BY <2>2, <2>5, <2>6, <2>8 DEF InOrder
  <2> QED BY <2>1, <2>3, <2>4, <2>7, <2>8 DEF InOrder
<1>6. ASSUME NEW w \in Console, CommitSwitch(w) PROVE InOrder(state', log')
  <2>1. CASE /\ state' = [Fresh EXCEPT !.innings = 2, !.target = Fresh.runs[1] + 1,
                                       !.batting = Other(@)]
    <3>1. state'.innings = 2 /\ log' = log
      BY <1>2, <1>6, <2>1 DEF CommitSwitch, State
    <3>2. \A n \in DOMAIN log : log[n].innings \in Innings
      BY <1>1, InningsTyped
    <3> QED BY <3>1, <3>2 DEF InOrder, Innings
  <2> QED BY <1>3, <1>6, <2>1 DEF CommitSwitch
<1>7. CASE View
  BY <1>2, <1>3, <1>7 DEF View
<1> QED BY <1>3, <1>4, <1>5, <1>6, <1>7
           DEF Next, ConsoleNext, RecordToss, TossReset, ReadBall, ReadSwitch, ReadCancel,
               Finish, CommitCancel, vars

\* While the first innings lasts no delivery of the second is in the log.
LEMMA FirstHasNoSecond ==
    ASSUME NEW st, NEW l, InOrder(st, l), st.innings = 1 PROVE ~ Second(l)
BY DEF InOrder, Second

----------------------------------------------------------------------------
(* The chase *)

\* What was in the log before its n-th entry.
Before(l, n) == [m \in 1..(n - 1) |-> l[m]]

\* The chase of a side, as the log has it, can still go either way.
Undecided(l, side) ==
    /\ AddUp(Worth, l, Of(2)) <= AddUp(Worth, l, Of(1))
    /\ Num(l, Wickets(2)) < BowledOut[side]
    /\ Num(l, Fair(2)) < TotalOvers * OverLength

\* Every ball of the chase was bowled while it was undecided.
BowledOpen(l, side) == \A n \in DOMAIN l : l[n].innings = 2 => Undecided(Before(l, n), side)

\* A chase in the log that is decided is over.
Over(m, l, side) ==
    Second(l) /\ ~ Undecided(l, side) => m.status \in {"completed", "cancelled"}

\* The side that wins with the runs of st, and a row that names it.
Winner(st) == CASE st.runs[2] > st.runs[1] -> st.batting
                [] st.runs[2] < st.runs[1] -> Other(st.batting)
                [] OTHER -> ""
Named(m, st) == m.status = "completed" => st.innings = 2 /\ m.winner = Winner(st)

LEMMA BeforeLonger ==
    ASSUME NEW l \in Seq(Delivery), NEW k \in Seq(Delivery),
           Len(k) = Len(l) + 1, \A n \in 1..Len(l) : k[n] = l[n]
    PROVE  /\ \A n \in DOMAIN l : n \in DOMAIN k /\ k[n] = l[n] /\ Before(k, n) = Before(l, n)
           /\ Before(k, Len(k)) = l
           /\ \A n \in DOMAIN k : n \in DOMAIN l \/ n = Len(k)
<1>1. /\ Len(l) \in Nat /\ DOMAIN l = 1..Len(l) /\ DOMAIN k = 1..Len(k)
      /\ l = [m \in 1..Len(l) |-> l[m]]
  OBVIOUS
<1>2. ASSUME NEW n \in DOMAIN l PROVE Before(k, n) = Before(l, n)
  <2>1. \A m \in 1..(n - 1) : k[m] = l[m]
    BY <1>1
  <2> QED BY <2>1 DEF Before
<1>3. Before(k, Len(k)) = [m \in 1..Len(l) |-> l[m]]
  <2>1. Len(k) - 1 = Len(l)
    BY <1>1
  <2> QED BY <2>1 DEF Before
<1>4. \A n \in DOMAIN k : n \in DOMAIN l \/ n = Len(k)
  BY <1>1
<1>5. \A n \in DOMAIN l : n \in DOMAIN k
  BY <1>1
<1> QED BY <1>1, <1>2, <1>3, <1>4, <1>5

\* Before its first ball a chase is undecided.
LEMMA NoneIsUndecided ==
    ASSUME NEW l \in Seq(Delivery), ~ Second(l), NEW side \in Sides
    PROVE  Undecided(l, side)
<1>1. Where(l, Of(2)) = {} /\ Where(l, Wickets(2)) = {} /\ Where(l, Fair(2)) = {}
  BY DEF Where, Of, Wickets, Fair, Second
<1>2. Num(l, Wickets(2)) = 0 /\ Num(l, Fair(2)) = 0
  BY <1>1, FS_EmptySet DEF Num
<1>3. AddUp(Worth, l, Of(2)) = 0
  BY <1>1, SumEmpty DEF AddUp
<1>4. AddUp(Worth, l, Of(1)) \in Nat
  <2>1. ASSUME NEW n \in Where(l, Of(1)) PROVE Worth[l[n]] \in Nat
    <3>1. l[n] \in Delivery
      BY DEF Where
    <3>2. l[n].runs \in Nat /\ l[n].extraRuns \in Nat
      BY <3>1 DEF Delivery
    <3> QED BY <3>1, <3>2 DEF Worth
  <2> DEFINE f == [n \in Where(l, Of(1)) |-> Worth[l[n]]]
  <2>2. \A n \in Where(l, Of(1)) : f[n] \in Nat
    BY <2>1
  <2>3. IsFiniteSet(Where(l, Of(1)))
    BY WhereFinite
  <2>4. SumFunctionOnSet(f, Where(l, Of(1))) \in Nat
    <3> HIDE DEF f
    <3> QED BY <2>2, <2>3, SumTyped
  <2> QED BY <2>4 DEF AddUp
<1> QED BY <1>2, <1>3, <1>4, Limits DEF Undecided

\* After a ball of the chase the code's own test says whether it is decided.
LEMMA DecidedIs ==
    ASSUME Typed', Totalled', TargetStands', state'.innings = 2
    PROVE  state'.target > 0 /\ (Decided(state') <=> ~ Undecided(log', Batting(state', 2)))
<1>1. state' \in State
  BY DEF Typed
<1>2. state'.target = state'.runs[1] + 1
  BY DEF TargetStands
<1>3. /\ state'.runs[1] = AddUp(Worth, log', Of(1)) /\ state'.runs[2] = AddUp(Worth, log', Of(2))
      /\ state'.wickets[2] = Num(log', Wickets(2)) /\ state'.legal[2] = Num(log', Fair(2))
  BY TotalledNext DEF Innings
<1>4. /\ state'.runs[1] \in Nat /\ state'.runs[2] \in Nat
      /\ state'.wickets[2] \in Nat /\ state'.legal[2] \in Nat /\ state'.batting \in Sides
  BY <1>1 DEF State, Innings
<1>5. Batting(state', 2) = state'.batting
  BY DEF Batting
<1>6. state'.target > 0 /\ (state'.runs[2] >= state'.target <=> ~ (state'.runs[2] <= state'.runs[1]))
  BY <1>2, <1>4
<1>7. state'.wickets[2] >= BowledOut[state'.batting]
         <=> ~ (state'.wickets[2] < BowledOut[state'.batting])
  BY <1>4, Limits
<1>8. state'.legal[2] >= TotalOvers * OverLength <=> ~ (state'.legal[2] < TotalOvers * OverLength)
  <2>1. \A m, n \in Nat : m >= n <=> ~ (m < n)
    OBVIOUS
  <2> QED BY <1>4, <2>1, Limits
<1> QED BY <1>3, <1>5, <1>6, <1>7, <1>8 DEF Decided, Undecided

\* The row a settled match gets, written over one that was read as it stands.
LEMMA SettledNames ==
    ASSUME NEW m \in Row, NEW st
    PROVE  Settled(m, st).status = "completed" /\ Settled(m, st).winner = Winner(st)
BY DEF Settled, Winner, Row

LEMMA SavedCurrent ==
    ASSUME match \in Row, NEW was \in Row, NEW m \in Row,
           was.status = match.status, was.winner = match.winner
    PROVE  Saved(was, m).status = m.status /\ Saved(was, m).winner = m.winner
BY DEF Saved, Row

\* A console that is about to bowl saw the match open.
Asked ==
    \A w \in Console :
        request[w].op = "ball" => request[w].was.status \notin {"completed", "cancelled"}

Base == Typed /\ Totalled /\ TargetStands /\ InOrder(state, log) /\ Asked

\* What holds of a match whose requests were not overtaken.
Sound(m, st, l) ==
    /\ Named(m, st)
    /\ Over(m, l, Batting(st, 2))
    /\ BowledOpen(l, Batting(st, 2))

TurnInv == inTurn => NoneOvertaken /\ Sound(match, state, log)

LEMMA AskedStep == Typed /\ Asked /\ [Next]_vars => Asked'
<1> SUFFICES ASSUME Typed, Asked, [Next]_vars, NEW v \in Console, request'[v].op = "ball"
             PROVE  request'[v].was.status \notin {"completed", "cancelled"}
  BY DEF Asked
<1>1. request \in [Console -> Held]
  BY DEF Typed, RequestsTyped
<1>2. ASSUME request'[v] = request[v]
      PROVE  request'[v].was.status \notin {"completed", "cancelled"}
  BY <1>2 DEF Asked
<1>3. ASSUME NEW w \in Console, ReadBall(w)
      PROVE  request'[v].was.status \notin {"completed", "cancelled"}
  BY <1>1, <1>2, <1>3 DEF ReadBall, Keep
<1>4. ASSUME NEW w \in Console, ReadSwitch(w) \/ ReadCancel(w)
      PROVE  request'[v] = request[v]
  BY <1>1, <1>4 DEF ReadSwitch, ReadCancel, Keep
<1>5. ASSUME NEW w \in Console, Done(w)
      PROVE  request'[v] = request[v]
  BY <1>1, <1>5 DEF Done, NoRequest
<1> QED BY <1>2, <1>3, <1>4, <1>5
           DEF Next, ConsoleNext, RecordToss, TossReset, View, CommitBall, CommitSwitch,
               CommitCancel, Undo, Finish, vars

LEMMA BaseInit == Init => Base
<1> SUFFICES ASSUME Init PROVE Base
  OBVIOUS
<1>1. log = <<>> /\ \A w \in Console : request[w].op = "none"
  BY DEF Init, NoRequest
<1> QED BY <1>1, TypedInit, TotalledInit, TargetInit DEF Base, InOrder, Asked

LEMMA BaseStep == Base /\ [Next]_vars => Base'
<1> SUFFICES ASSUME Base, [Next]_vars PROVE Base'
  OBVIOUS
<1>1. Typed' /\ Totalled' /\ TargetStands' /\ InOrder(state', log') /\ Asked'
  BY TypedStep, TotalledStep, TargetStep, InOrderStep, AskedStep DEF Base
<1>2. InOrder(state, log)' <=> InOrder(state', log')
  BY DEF InOrder
<1> QED BY <1>1, <1>2 DEF Base

\* A ball bowled on a row that was not overtaken.
LEMMA TurnBall ==
    ASSUME Base, Base', [Next]_vars, NoneOvertaken, Sound(match, state, log),
           NEW w \in Console, NEW b \in Balls, NEW i \in Innings,
           request[w].op = "ball", Enters(w, b, i)
    PROVE  Sound(match', state', log')
<1> DEFINE was == request[w].was
           inPlay == IF was.status \in {"scheduled", "toss", "innings_break"}
                     THEN [was EXCEPT !.status = "in_progress"] ELSE was
           d == Logged(b, i)
           m == AfterBall(was, state', i)
           side == Batting(state, 2)
<1>1. /\ match \in Row /\ state \in State /\ log \in Seq(Delivery) /\ was \in Row
      /\ state' \in State
  BY DEF Base, Typed, RequestsTyped
<1>2. was.status = match.status /\ was.winner = match.winner
  BY DEF NoneOvertaken, Idle
<1>3. match.status \notin {"completed", "cancelled"}
  BY <1>2 DEF Base, Asked
<1>4. /\ i = Fresh.innings /\ state' = Bowled(Fresh, b, i)
      /\ log' = Append(log, d) /\ match' = Saved(was, m)
  BY DEF Enters
<1>5. Fresh \in State /\ Fresh.innings = state.innings
  BY <1>1, RefreshedTyped DEF Fresh
<1>6. state'.innings = i /\ i = state.innings
  BY <1>1, <1>4, <1>5, BowledTyped
<1>7. inPlay \in Row /\ inPlay.status \notin {"completed", "cancelled"}
  BY <1>1, <1>2, <1>3 DEF Row
<1>8. m = IF i = 2 /\ state'.target > 0 /\ Decided(state') THEN Settled(inPlay, state') ELSE inPlay
  BY DEF AfterBall
<1>9. m \in Row
  BY <1>1, <1>7, <1>8, SettledTyped
<1>10. match'.status = m.status /\ match'.winner = m.winner
  <2> HIDE DEF m, was
  <2> QED BY <1>1, <1>2, <1>4, <1>9, SavedCurrent
<1>11. /\ d \in Delivery /\ d.innings = i
       /\ log' \in Seq(Delivery) /\ Len(log') = Len(log) + 1 /\ log'[Len(log')] = d
       /\ \A n \in 1..Len(log) : log'[n] = log[n]
  BY <1>1, <1>4, LoggedTyped, AppendTyped
<1> HIDE DEF was, inPlay, d, m
<1>12. CASE i = 1
  <2>1. ~ Second(log') /\ match'.status \notin {"completed", "cancelled"}
    <3>1. InOrder(state', log')
      BY DEF Base, InOrder
    <3> QED BY <1>6, <1>7, <1>8, <1>10, <1>12, <3>1, FirstHasNoSecond
  <2> QED BY <2>1 DEF Sound, Named, Over, BowledOpen, Second
<1>13. CASE i = 2
  <2>1. state'.target > 0 /\ (Decided(state') <=> ~ Undecided(log', Batting(state', 2)))
    BY <1>6, <1>13, DecidedIs DEF Base
  <2>2. side \in Sides
    BY <1>1, BattingIs DEF Innings
  <2>3. Undecided(log, side)
    BY <1>1, <1>3, <2>2, NoneIsUndecided DEF Sound, Over
  <2>4. Batting(state', 2) = side
    <3>1. Fresh = state
      BY <1>1, <1>6, <1>13, RefreshedTyped DEF Fresh
    <3>2. state'.batting = state.batting
      BY <1>1, <1>4, <3>1, BowledTyped
    <3> QED BY <1>6, <1>13, <3>2 DEF Batting
  <2> HIDE DEF side
  <2>5. BowledOpen(log', side)
    <3>1. ASSUME NEW n \in DOMAIN log', log'[n].innings = 2
          PROVE  Undecided(Before(log', n), side)
      <4>1. /\ \A k \in DOMAIN log : log'[k] = log[k] /\ Before(log', k) = Before(log, k)
            /\ Before(log', Len(log')) = log
            /\ n \in DOMAIN log \/ n = Len(log')
        BY <1>1, <1>11, BeforeLonger
      <4>2. BowledOpen(log, side)
        BY DEF Sound, side
      <4> QED BY <2>3, <3>1, <4>1, <4>2 DEF BowledOpen
    <3> QED BY <3>1 DEF BowledOpen
  <2>6. CASE Decided(state')
    <3>1. match'.status = "completed" /\ match'.winner = Winner(state')
      BY <1>7, <1>8, <1>10, <1>13, <2>1, <2>6, SettledNames
    <3> QED BY <1>6, <1>13, <2>4, <2>5, <3>1 DEF Sound, Named, Over
  <2>7. CASE ~ Decided(state')
    <3>1. match'.status \notin {"completed", "cancelled"} /\ Undecided(log', side)
      BY <1>7, <1>8, <1>10, <2>1, <2>4, <2>7
    <3> QED BY <2>4, <2>5, <3>1 DEF Sound, Named, Over
  <2> QED BY <2>6, <2>7
<1> QED BY <1>12, <1>13 DEF Innings

\* Taking a ball back.
LEMMA TurnUndo ==
    ASSUME Base, Base', [Next]_vars, Sound(match, state, log), NEW w \in Console, Undo(w)
    PROVE  Sound(match', state', log')
<1> DEFINE d == Last(log)
           l == Front(log)
<1>1. /\ match \in Row /\ state \in State /\ log \in Seq(Delivery) /\ state' \in State
      /\ state.innings \in Innings
  BY DEF Base, Typed, State
<1>2. /\ log # <<>> /\ log' = l /\ state' = Refreshed(TakenBack(Back, d), l)
      /\ match' = AfterUndo(d)
  BY UndoWrites
<1>3. /\ l \in Seq(Delivery) /\ d \in Delivery /\ d.innings \in Innings
      /\ Len(log) = Len(l) + 1 /\ d = log[Len(log)]
      /\ \A n \in 1..Len(l) : log[n] = l[n]
  BY <1>1, <1>2, FrontLast DEF Delivery
<1> HIDE DEF l, d
<1>4. /\ \A k \in DOMAIN l : k \in DOMAIN log /\ log[k] = l[k] /\ Before(log, k) = Before(l, k)
      /\ Before(log, Len(log)) = l
  BY <1>1, <1>3, BeforeLonger
<1>5. Len(log) \in DOMAIN log /\ \A n \in DOMAIN l : n < Len(log)
  BY <1>1, <1>3
<1>6. InOrder(state, log) /\ InOrder(state', l)
  <2>1. InOrder(state', log')
    BY DEF Base, InOrder
  <2> QED BY <1>2, <2>1 DEF Base
<1>7. CASE d.innings = 2
  <2>1. match'.status \notin {"completed"}
    BY <1>1, <1>2, <1>7 DEF AfterUndo, ResultUndone, Unfinished, Row
  <2>2. Undecided(l, Batting(state, 2))
    BY <1>3, <1>4, <1>5, <1>7 DEF Sound, BowledOpen
  <2>3. BowledOpen(l, Batting(state, 2))
    BY <1>4 DEF Sound, BowledOpen
  <2>4. CASE l = <<>>
    BY <1>2, <2>1, <2>4 DEF Sound, Named, Over, BowledOpen, Second
  <2>5. CASE l # <<>>
    <3>1. First(state') = First(state)
      BY <1>2, <2>5, FirstKept DEF Base
    <3>2. Batting(state', 2) = Batting(state, 2)
      BY <1>1, <3>1, BattingIs DEF Innings
    <3> QED BY <1>2, <2>1, <2>2, <2>3, <3>2 DEF Sound, Named, Over
  <2> QED BY <2>4, <2>5
<1>8. CASE d.innings = 1
  <2>1. ~ Second(l)
    <3>1. ASSUME NEW n \in DOMAIN l PROVE l[n].innings # 2
      <4>1. log[n].innings <= log[Len(log)].innings
        BY <1>4, <1>5, <1>6 DEF InOrder
      <4>2. l[n] = log[n] /\ d.innings = log[Len(log)].innings
        BY <1>3, <1>4
      <4>3. log[n].innings <= 1
        BY <1>8, <4>1, <4>2, Zenon
      <4>4. log[n].innings # 2
        BY <4>3
      <4> QED BY <4>2, <4>4, Zenon
    <3> QED BY <3>1 DEF Second
  <2>2. match'.status # "completed"
    <3>1. match.status = "completed" => state.innings = 2
      BY DEF Sound, Named
    <3>2. d.innings # 2
      BY <1>8
    <3>3. Unfinished(match).status = "in_progress"
      BY <1>1 DEF Unfinished, Row
    <3>4. AfterUndo(d) = IF state.innings = 2 /\ match.status \in {"innings_break", "completed"}
                        THEN Unfinished(match) ELSE match
      BY <3>2 DEF AfterUndo
    <3> QED BY <1>2, <3>1, <3>3, <3>4
  <2> QED BY <1>2, <2>1, <2>2 DEF Sound, Named, Over, BowledOpen, Second
<1> QED BY <1>3, <1>7, <1>8 DEF Innings

LEMMA TurnSwitch ==
    ASSUME Base, NoneOvertaken, Sound(match, state, log), NEW w \in Console, CommitSwitch(w)
    PROVE  Sound(match', state', log')
<1> DEFINE was == request[w].was
           m == [was EXCEPT !.status = "innings_break"]
<1>1. /\ match \in Row /\ state \in State /\ log \in Seq(Delivery) /\ was \in Row
      /\ state.innings \in Innings
  BY DEF Base, Typed, RequestsTyped, State, CommitSwitch
<1>2. was.status = match.status /\ was.winner = match.winner
  BY DEF NoneOvertaken, Idle, CommitSwitch
<1>3. CASE UNCHANGED <<state, match>>
  BY <1>3 DEF CommitSwitch
<1>4. CASE Fresh.innings = 1 /\ match' = Saved(was, m)
  <2>1. m \in Row /\ m.status = "innings_break"
    BY <1>1 DEF Row
  <2>2. match'.status = "innings_break"
    <3> HIDE DEF m, was
    <3> QED BY <1>1, <1>2, <1>4, <2>1, SavedCurrent
  <2>3. state.innings = 1
    BY <1>1, <1>4, RefreshedTyped DEF Fresh
  <2>4. ~ Second(log) /\ log' = log
    BY <2>3, FirstHasNoSecond DEF Base, CommitSwitch
  <2> QED BY <2>2, <2>4 DEF Sound, Named, Over, BowledOpen, Second
<1> QED BY <1>3, <1>4 DEF CommitSwitch

LEMMA TurnView ==
    ASSUME Base, Sound(match, state, log), View
    PROVE  Sound(match', state', log')
<1>1. match \in Row /\ state \in State /\ log \in Seq(Delivery) /\ state.innings \in Innings
  BY DEF Base, Typed, State
<1>2. match' = match /\ log' = log /\ state' = Fresh
  BY DEF View
<1>3. CASE Fresh = state
  BY <1>2, <1>3
<1>4. CASE log = <<>> /\ state.innings = 1
  <2>1. match.status # "completed"
    BY <1>4 DEF Sound, Named
  <2> QED BY <1>2, <1>4, <2>1 DEF Sound, Named, Over, BowledOpen, Second
<1> QED BY <1>1, <1>3, <1>4 DEF Fresh, Refreshed

LEMMA TurnFinish ==
    ASSUME Base, Sound(match, state, log), NEW w \in Console, Finish(w)
    PROVE  Sound(match', state', log')
<1>1. /\ match \in Row /\ state.innings = 2 /\ match' = Settled(match, state)
      /\ UNCHANGED <<state, log>>
  BY DEF Base, Typed, Finish
<1>2. match'.status = "completed" /\ match'.winner = Winner(state)
  BY <1>1, SettledNames
<1> QED BY <1>1, <1>2 DEF Sound, Named, Over

\* The other steps write neither the winner nor, but for calling the match
\* off, the status.
LEMMA TurnElsewhere ==
    ASSUME Base, Sound(match, state, log), UNCHANGED <<state, log>>,
           \/ match'.status = match.status /\ match'.winner = match.winner
           \/ match'.status = "cancelled"
    PROVE  Sound(match', state', log')
BY DEF Sound, Named, Over

LEMMA TurnInvInit == TurnInit => Base /\ TurnInv
<1> SUFFICES ASSUME TurnInit PROVE Base /\ TurnInv
  OBVIOUS
<1>1. Init
  BY DEF TurnInit
<1>2. /\ log = <<>> /\ match.status = "scheduled" /\ \A w \in Console : Idle(w)
  BY <1>1 DEF Init, NoRequest, Idle
<1>3. NoneOvertaken /\ Sound(match, state, log)
  BY <1>2 DEF NoneOvertaken, Sound, Named, Over, BowledOpen, Second
<1> QED BY <1>1, <1>3, BaseInit DEF TurnInv

LEMMA TurnStep == Base /\ TurnInv /\ [TurnNext]_turnVars => TurnInv'
<1> SUFFICES ASSUME Base, TurnInv, [TurnNext]_turnVars, inTurn'
             PROVE  NoneOvertaken' /\ Sound(match', state', log')
  BY DEF TurnInv, Sound, Named, Over, BowledOpen, Second, Undecided, Before, Winner, Batting,
         AddUp, Num, Where, Worth, Of, Wickets, Fair, Falls, Legal
<1>1. CASE UNCHANGED turnVars
  BY <1>1 DEF turnVars, vars, TurnInv, NoneOvertaken, Idle
<1>2. CASE TurnNext
  <2>1. /\ [Next]_vars /\ Next /\ NoneOvertaken' /\ Base'
        /\ NoneOvertaken /\ Sound(match, state, log)
    BY <1>2, BaseStep DEF TurnNext, TurnInv
  <2>2. match \in Row
    BY DEF Base, Typed
  <2>3. ASSUME NEW w \in Console, NEW b \in Balls, NEW i \in Innings, CommitBall(w, b, i)
        PROVE  Sound(match', state', log')
    <3>1. request[w].op = "ball"
      BY <2>3 DEF CommitBall
    <3>2. CASE UNCHANGED <<match, state, log>>
      BY <2>1, <3>2
    <3> QED BY <2>1, <2>3, <3>1, <3>2, BallEntersOrNot, TurnBall
  <2>4. ASSUME NEW w \in Console, ConsoleNext(w) PROVE Sound(match', state', log')
    <3>1. CASE Undo(w)
      BY <2>1, <3>1, TurnUndo
    <3>2. CASE Finish(w)
      BY <2>1, <3>2, TurnFinish
    <3>3. CASE CommitSwitch(w)
      BY <2>1, <3>3, TurnSwitch
    <3>4. CASE ReadBall(w) \/ ReadSwitch(w) \/ ReadCancel(w)
      BY <2>1, <3>4 DEF ReadBall, ReadSwitch, ReadCancel
    <3>5. CASE CommitCancel(w)
      BY <2>1, <2>2, <3>5, TurnElsewhere DEF CommitCancel, Row
    <3> QED BY <2>3, <2>4, <3>1, <3>2, <3>3, <3>4, <3>5 DEF ConsoleNext
  <2>5. ASSUME NEW s \in Sides, RecordToss(s) PROVE Sound(match', state', log')
    BY <2>1, <2>2, <2>5, TurnElsewhere DEF RecordToss, Row
  <2>6. CASE TossReset
    BY <2>1, <2>2, <2>6, TurnElsewhere DEF TossReset, Row
  <2> QED BY <2>1, <2>4, <2>5, <2>6, TurnView DEF Next
<1> QED BY <1>1, <1>2

LEMMA TurnSpecInv == TurnSpec => [](Base /\ TurnInv)
<1>1. Base /\ TurnInv /\ [TurnNext]_turnVars => (Base /\ TurnInv)'
  <2>1. Base /\ [TurnNext]_turnVars => Base'
    BY BaseStep DEF TurnNext, turnVars, vars
  <2> QED BY <2>1, TurnStep
<1> QED BY <1>1, TurnInvInit, PTL DEF TurnSpec

\* While no request is overtaken, a finished match names the winner its runs
\* give, for any number of scorers, deliveries and corrections
\* (recordCricketBall, undoLastCricketBall, finishCricketMatch).
THEOREM WinnerStands == TurnSpec => []WinnerInTurn
<1>1. Base /\ TurnInv => WinnerInTurn
  <2> SUFFICES ASSUME Base, TurnInv, inTurn, match.status = "completed"
               PROVE  state.innings = 2 /\ match.winner = Settled(match, state).winner
    BY DEF WinnerInTurn, ResultStands
  <2>1. match \in Row /\ Named(match, state)
    BY DEF Base, Typed, TurnInv, Sound
  <2> QED BY <2>1, SettledNames DEF Named
<1> QED BY <1>1, TurnSpecInv, PTL

\* While no request is overtaken, a chase decided by runs, wickets or overs
\* never stays open, for any number of scorers, deliveries and corrections
\* (concludeChaseIfDecided, undoLastCricketBall).
THEOREM ChaseIsOver == TurnSpec => []ChaseInTurn
<1>1. Base /\ TurnInv => ChaseInTurn
  <2> SUFFICES ASSUME Base, TurnInv, inTurn, InningsBalls(2) > 0,
                      \/ state.runs[2] > state.runs[1]
                      \/ state.wickets[2] >= BowledOut[state.batting]
                      \/ state.legal[2] = TotalOvers * OverLength
               PROVE  match.status \in {"completed", "cancelled"}
    BY DEF ChaseInTurn, ChaseEnds
  <2>1. /\ state \in State /\ log \in Seq(Delivery) /\ InOrder(state, log)
        /\ Over(match, log, Batting(state, 2))
    BY DEF Base, Typed, TurnInv, Sound
  <2>2. Second(log)
    <3>1. {n \in DOMAIN log : log[n].innings = 2} # {}
      BY FS_EmptySet DEF InningsBalls
    <3> QED BY <3>1 DEF Second
  <2>3. state.innings = 2 /\ Batting(state, 2) = state.batting
    <3>1. state.innings # 1
      BY <2>1, <2>2, FirstHasNoSecond
    <3> QED BY <2>1, <3>1 DEF State, Innings, Batting
  <2>4. /\ state.runs[1] = AddUp(Worth, log, Of(1)) /\ state.runs[2] = AddUp(Worth, log, Of(2))
        /\ state.wickets[2] = Num(log, Wickets(2)) /\ state.legal[2] = Num(log, Fair(2))
    BY DEF Base, Totalled, Innings
  <2>5. /\ state.runs[1] \in Nat /\ state.runs[2] \in Nat /\ state.wickets[2] \in Nat
        /\ state.legal[2] \in Nat /\ state.batting \in Sides
    BY <2>1 DEF State, Innings
  <2>6. ~ Undecided(log, state.batting)
    <3>1. state.runs[2] > state.runs[1] => ~ (state.runs[2] <= state.runs[1])
      BY <2>5
    <3>2. state.wickets[2] >= BowledOut[state.batting]
             => ~ (state.wickets[2] < BowledOut[state.batting])
      BY <2>5, Limits
    <3>3. state.legal[2] = TotalOvers * OverLength => ~ (state.legal[2] < TotalOvers * OverLength)
      <4>1. \A m, n \in Nat : m = n => ~ (m < n)
        OBVIOUS
      <4> QED BY <2>5, <4>1, Limits
    <3> QED BY <2>4, <3>1, <3>2, <3>3 DEF Undecided
  <2> QED BY <2>1, <2>2, <2>3, <2>6 DEF Over
<1> QED BY <1>1, TurnSpecInv, PTL

=============================================================================
