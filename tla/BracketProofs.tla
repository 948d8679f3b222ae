---------------------------- MODULE BracketProofs ----------------------------
(***************************************************************************)
(* Theorems about a tournament from the draw to the final, for any field,  *)
(* any draws asked for and any number of workers: a refill, which settles  *)
(* the bracket whatever it starts from; the requests that come one after   *)
(* another, which leave it settled, leave alone the matches that have      *)
(* started, and let nobody stand as a qualifier who has not earned it; and *)
(* the list being played, which is fair however requests overlap.          *)
(***************************************************************************)
EXTENDS BracketTurns, FixtureProofs

----------------------------------------------------------------------------
(* What a source says *)

\* What is read of a row to resolve a source.
Seen == {"round", "pos", "group", "from", "a", "b", "status", "winner"}
Alike(one, two) == \A c \in Seen : one[c] = two[c]

RowsOk(rs) ==
    /\ \A id \in DOMAIN rs : RowOk(rs[id]) /\ id = <<id[1], rs[id].round, rs[id].pos>>
    /\ \E K \in Nat : \A id \in DOMAIN rs : rs[id].round <= K

\* The same fixtures, whatever has become of them.
SameDraw(rs, new) ==
    /\ DOMAIN rs = DOMAIN new
    /\ \A id \in DOMAIN rs : \A c \in {"round", "pos", "group", "from"} : rs[id][c] = new[id][c]

LEMMA PointsSame ==
    ASSUME NEW rs, NEW new, SameDraw(rs, new), \A id \in TableMatches(rs) : Alike(rs[id], new[id]),
           NEW t, NEW against
    PROVE  Points(rs, t, against) = Points(new, t, against)
<1> DEFINE Played(x) == {id \in TableMatches(x) : x[id].status = "completed" /\ t \in Sides(x[id])
                                                  /\ (Sides(x[id]) \ {t}) \subseteq against}
           F(x) == [id \in Played(x) |-> Worth(x[id], t)]
<1>1. TableMatches(rs) = TableMatches(new)
  BY DEF SameDraw, TableMatches, InBracket
<1>2. \A id \in TableMatches(rs) : /\ Sides(rs[id]) = Sides(new[id])
                                   /\ rs[id].status = new[id].status
                                   /\ Worth(rs[id], t) = Worth(new[id], t)
  BY DEF Alike, Seen, Sides, Worth
<1>3. Played(rs) = Played(new)
  BY <1>1, <1>2
<1>4. F(rs) = F(new)
  <2>1. Played(rs) \subseteq TableMatches(rs)
    OBVIOUS
  <2> HIDE DEF Played
  <2> QED BY <1>2, <1>3, <2>1
<1>5. Points(rs, t, against) = SumFunction(F(rs)) /\ Points(new, t, against) = SumFunction(F(new))
  BY DEF Points
<1> HIDE DEF F
<1> QED BY <1>4, <1>5

LEMMA TableSame ==
    ASSUME NEW s, NEW new, s.approved = new.approved, s.group = new.group,
           SameDraw(s.rows, new.rows),
           \A id \in TableMatches(s.rows) : Alike(s.rows[id], new.rows[id]), NEW g
    PROVE  GroupTable(s, g) = GroupTable(new, g)
<1>1. \A t, against : Points(s.rows, t, against) = Points(new.rows, t, against)
  BY PointsSame
<1>2. Standings(s) = Standings(new)
  <2> DEFINE Entered(x) == {[team |-> t, points |-> Points(x.rows, t, Team)] : t \in x.approved}
             Level(x, one) == {two.team : two \in {other \in Entered(x) : other.points = one.points}}
             Entry(x, one) == [team |-> one.team, points |-> one.points,
                               mini |-> Points(x.rows, one.team, Level(x, one))]
  <2>1. Entered(s) = Entered(new)
    BY <1>1
  <2>2. \A x : Standings(x) = {Entry(x, one) : one \in Entered(x)}
    BY Zenon DEF Standings
  <2> HIDE DEF Entered
  <2>3. \A one : Level(s, one) = Level(new, one)
    BY <2>1
  <2> HIDE DEF Level
  <2>4. \A one : Entry(s, one) = Entry(new, one)
    BY <1>1, <2>3
  <2> HIDE DEF Entry
  <2> QED BY <2>1, <2>2, <2>4
<1>3. {one \in Standings(s) : s.group[one.team] = g} = {one \in Standings(new) : new.group[one.team] = g}
  BY <1>2
<1> QED BY <1>3, Zenon DEF GroupTable

\* What a place in a group says depends on the matches of the groups alone.
LEMMA InGroupSame ==
    ASSUME NEW s, NEW new, s.approved = new.approved, s.group = new.group,
           RowsOk(s.rows), SameDraw(s.rows, new.rows),
           \A id \in DOMAIN s.rows : s.rows[id].round = 0 => Alike(s.rows[id], new.rows[id]),
           NEW src, src.group # NoGroup
    PROVE  InGroup(s, src) = InGroup(new, src)
<1> DEFINE Of(x) == {id \in DOMAIN x.rows : x.rows[id].group = src.group}
           Over(x) == \A id \in Of(x) : x.rows[id].status \in {"completed", "cancelled"}
<1>1. Of(s) = Of(new)
  BY DEF SameDraw
<1>2. \A id \in Of(s) : s.rows[id].round = 0
  BY DEF RowsOk, RowOk
<1>3. Over(s) <=> Over(new)
  BY <1>1, <1>2 DEF Alike, Seen
<1>4. Of(s) # {} => GroupTable(s, src.group) = GroupTable(new, src.group)
  <2> SUFFICES ASSUME Of(s) # {} PROVE GroupTable(s, src.group) = GroupTable(new, src.group)
    OBVIOUS
  <2>1. \A id \in TableMatches(s.rows) : s.rows[id].round = 0
    <3> DEFINE league == {id \in DOMAIN s.rows : ~ InBracket(s.rows[id])}
    <3>1. Of(s) \subseteq league
      BY <1>2 DEF InBracket
    <3>2. \A id \in league : s.rows[id].round = 0
      <4>1. \A id \in DOMAIN s.rows : s.rows[id].round \in Nat
        BY DEF RowsOk, RowOk
      <4> QED BY <4>1 DEF InBracket
    <3>3. TableMatches(s.rows) = league
      BY <3>1 DEF TableMatches
    <3> HIDE DEF league
    <3> QED BY <3>2, <3>3
  <2>2. \A id \in TableMatches(s.rows) : Alike(s.rows[id], new.rows[id])
    BY <2>1 DEF TableMatches
  <2> QED BY <2>2, TableSame
<1>5. ASSUME NEW x
      PROVE  InGroup(x, src) = IF Of(x) # {} /\ Over(x) /\ src.place \in DOMAIN GroupTable(x, src.group)
                               THEN GroupTable(x, src.group)[src.place] ELSE NoTeam
  BY DEF InGroup
<1> HIDE DEF Of, Over
<1>6. CASE Of(s) = {}
  BY <1>1, <1>5, <1>6
<1>7. CASE Of(s) # {}
  BY <1>1, <1>3, <1>4, <1>5, <1>7
<1> QED BY <1>6, <1>7

\* A source of round r says the same where the earlier rounds are alike.
LEMMA ResolveSame ==
    ASSUME NEW s, NEW new, s.approved = new.approved, s.group = new.group,
           RowsOk(s.rows), SameDraw(s.rows, new.rows), NEW r \in Nat \ {0},
           \A id \in DOMAIN s.rows : s.rows[id].round < r => Alike(s.rows[id], new.rows[id]),
           NEW l, NEW src, LooksBack(src, r)
    PROVE  Resolve(s, l, src) = Resolve(new, l, src)
<1>1. CASE src.type = "winner"
  <2> DEFINE id == <<l, src.round, src.pos>>
  <2>1. id \in DOMAIN s.rows => s.rows[id].round = src.round
    BY DEF RowsOk
  <2>2. id \in DOMAIN s.rows => Alike(s.rows[id], new.rows[id])
    BY <1>1, <2>1 DEF LooksBack
  <2>3. WinnerThere(s, l, src) = WinnerThere(new, l, src)
    BY <2>2 DEF WinnerThere, Alike, Seen, SameDraw
  <2> QED BY <1>1, <2>3 DEF Resolve
<1>2. CASE src.type = "group"
  <2>1. InGroup(s, src) = InGroup(new, src)
    BY <1>2, InGroupSame DEF LooksBack
  <2> QED BY <1>2, <2>1 DEF Resolve
<1>3. CASE src.type \notin {"winner", "group"}
  BY <1>3 DEF Resolve
<1> QED BY <1>1, <1>2, <1>3

----------------------------------------------------------------------------
(* One pass *)

Written == {"a", "b", "status", "winner"}

\* A refill writes sides, status and winner, and neither a match of the table nor one
\* that is under way.
Kept(row, new) ==
    /\ RowOk(new)
    /\ \A c \in Columns \ Written : row[c] = new[c]
    /\ row.round = 0 \/ (UnderWay(row) /\ ~ Bye(row)) => new = row
    /\ UnderWay(row) => UnderWay(new)

\* The row as a refill leaves it shows what its sources said to the refill.
Shows(s, l, row) ==
    LET Says(x) == row[x] = Resolve(s, l, row.from[x])
    IN IF Bye(row) THEN Says(ByeSide(row)) /\ row.winner = row[ByeSide(row)]
       ELSE \A x \in Ends : row.from[x].type \in {"winner", "group"} /\ ~ UnderWay(row) => Says(x)

Put(row, f, v) == [row EXCEPT ![f] = v]

LEMMA RowWrite ==
    ASSUME NEW row, RowOk(row), NEW f \in Written, NEW v
    PROVE  /\ RowOk(Put(row, f, v)) /\ Put(row, f, v)[f] = v
           /\ \A c \in Columns \ {f} : Put(row, f, v)[c] = row[c]
<1> DEFINE new == Put(row, f, v)
<1>1. DOMAIN row = Columns /\ f \in Columns
  BY DEF RowOk, Columns, Written
<1>2. new = [c \in Columns |-> new[c]] /\ new[f] = v /\ \A c \in Columns \ {f} : new[c] = row[c]
  BY <1>1 DEF Put
<1>3. new.round = row.round /\ new.from = row.from /\ new.group = row.group
  BY <1>2 DEF Columns, Written
<1> HIDE DEF new
<1>4. RowOk(new)
  BY <1>2, <1>3 DEF RowOk
<1> QED BY <1>2, <1>4 DEF new

LEMMA SyncByeShows ==
    ASSUME NEW s, NEW l, NEW row, RowOk(row), Bye(row)
    PROVE  Kept(row, SyncBye(s, l, row)) /\ Shows(s, l, SyncBye(s, l, row))
<1> DEFINE x == ByeSide(row)
           t == Resolve(s, l, row.from[x])
           one == Put(row, x, t)
           two == Put(one, "winner", t)
           new == Put(two, "status", "completed")
<1>0. x \in Ends /\ row.round = 1 /\ x \in Written /\ {"winner", "status"} \subseteq Written
  BY DEF ByeSide, Ends, Bye, IsBye, Written
<1> HIDE DEF x, t
<1>1. SyncBye(s, l, row) = IF t = row[x] /\ t = row.winner THEN row ELSE new
  BY DEF SyncBye, x, t, Put
<1>2. RowOk(one) /\ one[x] = t /\ \A c \in Columns \ {x} : one[c] = row[c]
  BY <1>0, RowWrite
<1> HIDE DEF one
<1>3. RowOk(two) /\ two["winner"] = t /\ \A c \in Columns \ {"winner"} : two[c] = one[c]
  BY <1>0, <1>2, RowWrite
<1> HIDE DEF two
<1>4. RowOk(new) /\ new["status"] = "completed" /\ \A c \in Columns \ {"status"} : new[c] = two[c]
  BY <1>0, <1>3, RowWrite
<1> HIDE DEF new
<1>5. /\ RowOk(new) /\ new.status = "completed" /\ new.winner = t /\ new[x] = t
      /\ \A c \in Columns \ Written : row[c] = new[c]
  BY <1>0, <1>2, <1>3, <1>4 DEF Columns, Written, Ends
<1>6. new.from = row.from /\ new.round = row.round
  BY <1>5 DEF Columns, Written
<1>7. Bye(new) /\ ByeSide(new) = x
  BY <1>6 DEF Bye, ByeSide, x
<1>8. Kept(row, new) /\ Shows(s, l, new)
  BY <1>0, <1>5, <1>6, <1>7 DEF Kept, Shows, t, UnderWay
<1>9. t = row[x] /\ t = row.winner => Kept(row, row) /\ Shows(s, l, row)
  BY DEF Kept, Shows, x, t
<1> QED BY <1>1, <1>8, <1>9

LEMMA RefillShows ==
    ASSUME NEW s, NEW l, NEW row, RowOk(row), ~ Bye(row), row.round # 0
    PROVE  Kept(row, Refill(s, l, row)) /\ Shows(s, l, Refill(s, l, row))
<1> DEFINE Side(x) == IF row.from[x].type \in {"winner", "group"} THEN Resolve(s, l, row.from[x]) ELSE row[x]
           one == Put(row, "a", Side("a"))
           new == Put(one, "b", Side("b"))
<1>0. {"a", "b", "winner"} \subseteq Written
  BY DEF Written
<1>1. Refilled(s, l, row) = new
  BY DEF Refilled, Put
<1>2. RowOk(one) /\ one["a"] = Side("a") /\ \A c \in Columns \ {"a"} : one[c] = row[c]
  BY <1>0, RowWrite
<1> HIDE DEF one
<1>3. RowOk(new) /\ new["b"] = Side("b") /\ \A c \in Columns \ {"b"} : new[c] = one[c]
  BY <1>0, <1>2, RowWrite
<1> HIDE DEF new
<1>4. RowOk(new) /\ new.a = Side("a") /\ new.b = Side("b") /\ \A c \in Columns \ Ends : new[c] = row[c]
  BY <1>2, <1>3 DEF Columns, Ends
<1> DEFINE last == Emptied(new)
<1>5. RowOk(last) /\ last.a = Side("a") /\ last.b = Side("b") /\ \A c \in Columns \ {"a", "b", "winner"} : last[c] = row[c]
  <2> DEFINE w == Put(new, "winner", NoTeam)
  <2>1. RowOk(w) /\ \A c \in Columns \ {"winner"} : w[c] = new[c]
    BY <1>0, <1>4, RowWrite
  <2>2. last = new \/ last = w
    BY DEF Emptied, Put
  <2> HIDE DEF w, last
  <2>3. RowOk(last) /\ \A c \in Columns \ {"winner"} : last[c] = new[c]
    BY <1>4, <2>1, <2>2
  <2> HIDE DEF Side
  <2> QED BY <1>4, <2>3 DEF Columns, Ends
<1> HIDE DEF last
<1>6. Refill(s, l, row) = IF UnderWay(row) \/ new = row THEN row ELSE last
  BY <1>1 DEF Refill, last
<1>7. CASE UnderWay(row)
  BY <1>6, <1>7 DEF Kept, Shows
<1>8. CASE ~ UnderWay(row) /\ new = row
  <2>1. \A x \in Ends : row[x] = Side(x)
    BY <1>4, <1>8 DEF Ends
  <2>2. Shows(s, l, row)
    BY <2>1 DEF Shows
  <2> QED BY <1>6, <1>8, <2>2 DEF Kept
<1>9. CASE ~ UnderWay(row) /\ new # row
  <2>1. last.from = row.from /\ last.round = row.round /\ last.status = row.status
    BY <1>5 DEF Columns
  <2>2. ~ Bye(last) /\ ~ UnderWay(last)
    BY <1>9, <2>1 DEF Bye, UnderWay
  <2>3. \A x \in Ends : last[x] = Side(x)
    BY <1>5 DEF Ends
  <2>4. Shows(s, l, last)
    BY <2>1, <2>2, <2>3 DEF Shows
  <2>5. Kept(row, last)
    BY <1>5, <1>9 DEF Kept, Written
  <2> QED BY <1>6, <1>9, <2>4, <2>5
<1> QED BY <1>7, <1>8, <1>9

\* A refill of all rows keeps the draw and the matches under way.
AllKept(rs, new) == /\ DOMAIN new = DOMAIN rs /\ RowsOk(new)
                    /\ \A id \in DOMAIN rs : Kept(rs[id], new[id])

Table(rs, in, gs) == [rows |-> rs, approved |-> in, group |-> gs]

LEMMA KeptAgain ==
    ASSUME NEW one, NEW two, NEW three, Kept(one, two), Kept(two, three)
    PROVE  Kept(one, three)
<1>1. \A c \in Columns \ Written : one[c] = three[c]
  BY DEF Kept
<1>2. two.round = one.round /\ two.from = one.from
  BY DEF Kept, Columns, Written
<1>3. UnderWay(one) => UnderWay(two) /\ UnderWay(three)
  BY DEF Kept
<1>4. Bye(one) <=> Bye(two)
  BY <1>2 DEF Bye
<1> QED BY <1>1, <1>2, <1>3, <1>4 DEF Kept

LEMMA KeptDraw ==
    ASSUME NEW rs, NEW new, AllKept(rs, new)
    PROVE  SameDraw(rs, new) /\ SameDraw(new, rs)
BY DEF AllKept, Kept, SameDraw, Columns, Written

\* One round: it keeps the others as they are, and its own show what was said to them.
LEMMA RoundShows ==
    ASSUME NEW s, RowsOk(s.rows), NEW r \in Nat \ {0}
    PROVE  /\ AllKept(s.rows, SyncRound(s, r))
           /\ \A id \in DOMAIN s.rows :
                  /\ s.rows[id].round # r => SyncRound(s, r)[id] = s.rows[id]
                  /\ s.rows[id].round = r => Shows(s, id[1], SyncRound(s, r)[id])
<1> DEFINE new == SyncRound(s, r)
<1>1. DOMAIN new = DOMAIN s.rows
  BY DEF SyncRound
<1>2. \A id \in DOMAIN s.rows :
          new[id] = IF s.rows[id].round # r THEN s.rows[id]
                    ELSE IF Bye(s.rows[id]) THEN SyncBye(s, id[1], s.rows[id])
                    ELSE Refill(s, id[1], s.rows[id])
  BY DEF SyncRound
<1> HIDE DEF new
<1>3. ASSUME NEW id \in DOMAIN s.rows
      PROVE  Kept(s.rows[id], new[id]) /\ (s.rows[id].round = r => Shows(s, id[1], new[id]))
  <2>1. RowOk(s.rows[id])
    BY DEF RowsOk
  <2>2. CASE s.rows[id].round # r
    BY <1>2, <2>1, <2>2 DEF Kept
  <2>3. CASE s.rows[id].round = r /\ Bye(s.rows[id])
    BY <1>2, <2>1, <2>3, SyncByeShows
  <2>4. CASE s.rows[id].round = r /\ ~ Bye(s.rows[id])
    BY <1>2, <2>1, <2>4, RefillShows
  <2> QED BY <2>2, <2>3, <2>4
<1>4. \A id \in DOMAIN new : new[id].round = s.rows[id].round /\ new[id].pos = s.rows[id].pos
  BY <1>1, <1>3 DEF Kept, Columns, Written
<1>5. RowsOk(new)
  BY <1>1, <1>3, <1>4 DEF RowsOk, Kept
<1>6. AllKept(s.rows, new)
  BY <1>1, <1>3, <1>5 DEF AllKept
<1> QED BY <1>2, <1>3, <1>6 DEF new

\* What a row shows it goes on showing while the earlier rounds stay.
LEMMA ShowsSame ==
    ASSUME NEW s, NEW new, s.approved = new.approved, s.group = new.group,
           RowsOk(s.rows), SameDraw(s.rows, new.rows), NEW l, NEW row, RowOk(row),
           \A id \in DOMAIN s.rows : s.rows[id].round < row.round => Alike(s.rows[id], new.rows[id])
    PROVE  Shows(s, l, row) <=> Shows(new, l, row)
<1>1. CASE row.round = 0
  <2>1. ~ Bye(row)
    BY <1>1 DEF Bye, IsBye
  <2>2. \A x \in Ends : row.from[x].type \notin {"winner", "group"}
    BY <1>1 DEF RowOk
  <2> QED BY <2>1, <2>2 DEF Shows
<1>2. CASE row.round # 0
  <2>1. \A x \in Ends : Resolve(s, l, row.from[x]) = Resolve(new, l, row.from[x])
    <3>1. row.round \in Nat \ {0} /\ \A x \in Ends : LooksBack(row.from[x], row.round)
      BY <1>2 DEF RowOk
    <3> QED BY <3>1, ResolveSame
  <2>2. ByeSide(row) \in Ends
    BY DEF ByeSide, Ends
  <2> QED BY <2>1, <2>2 DEF Shows
<1> QED BY <1>1, <1>2

LEMMA SettledIsShown ==
    ASSUME NEW s
    PROVE  Settled(s) <=> \A id \in DOMAIN s.rows : Shows(s, id[1], s.rows[id])
BY DEF Settled, Shows, Ends

Through(x, r) == [x EXCEPT !.rows = SyncRound(x, r)]

\* t[n]: the table after the first n rounds.
Passes(t, s, n) == t = [r \in 0..n |-> IF r = 0 THEN s ELSE Through(t[r - 1], r)]

LEMMA PassesExist ==
    ASSUME NEW s, NEW n \in Nat
    PROVE  \E t : Passes(t, s, n)
<1> DEFINE Bad == {m \in Nat : ~ \E t : Passes(t, s, m)}
<1>1. SUFFICES ASSUME Bad # {} PROVE FALSE
  OBVIOUS
<1>2. PICK m \in Bad : \A k \in Bad : m <= k
  <2>1. Bad \in SUBSET Nat
    OBVIOUS
  <2> HIDE DEF Bad
  <2> QED BY <1>1, <2>1, SmallestNumber
<1>3. m \in Nat /\ ~ \E t : Passes(t, s, m)
  OBVIOUS
<1>4. CASE m = 0
  <2> DEFINE t == [k \in 0..0 |-> s]
  <2>1. \A k \in 0..0 : k = 0
    OBVIOUS
  <2>2. Passes(t, s, 0)
    BY <2>1 DEF Passes
  <2> QED BY <1>3, <1>4, <2>2
<1>5. CASE m # 0
  <2>1. m - 1 \in Nat /\ m - 1 \notin Bad
    BY <1>2, <1>3, <1>5
  <2>2. PICK g : Passes(g, s, m - 1)
    BY <2>1
  <2> DEFINE t == [k \in 0..m |-> IF k = m THEN Through(g[m - 1], m) ELSE g[k]]
  <2>3. ASSUME NEW k \in 0..m PROVE t[k] = IF k = 0 THEN s ELSE Through(t[k - 1], k)
    <3>1. CASE k = m
      <4>1. t[m - 1] = g[m - 1] /\ t[k] = Through(g[m - 1], m)
        BY <1>3, <1>5, <3>1
      <4> QED BY <1>5, <3>1, <4>1
    <3>2. CASE k # m
      <4>1. k \in 0..(m - 1) /\ t[k] = g[k] /\ (k # 0 => k - 1 \in 0..m /\ k - 1 # m /\ t[k - 1] = g[k - 1])
        BY <1>3, <3>2
      <4>2. g[k] = IF k = 0 THEN s ELSE Through(g[k - 1], k)
        BY <2>2, <4>1 DEF Passes
      <4> QED BY <4>1, <4>2
    <3> QED BY <3>1, <3>2
  <2>4. Passes(t, s, m)
    <3>1. t = [k \in 0..m |-> t[k]]
      OBVIOUS
    <3> HIDE DEF t
    <3> QED BY <2>3, <3>1 DEF Passes
  <2> QED BY <1>3, <2>4
<1> QED BY <1>4, <1>5

\* After n rounds the first n show what their sources say, and go on doing so.
Settling(s, x, n) ==
    /\ x = Table(x.rows, s.approved, s.group)
    /\ AllKept(s.rows, x.rows)
    /\ \A id \in DOMAIN x.rows : x.rows[id].round <= n => Shows(x, id[1], x.rows[id])

LEMMA SettlingStep ==
    ASSUME NEW s, NEW x, NEW n \in Nat, RowsOk(s.rows), Settling(s, x, n)
    PROVE  Settling(s, Through(x, n + 1), n + 1)
<1> DEFINE r == n + 1
           rs == SyncRound(x, r)
           y == Through(x, r)
<1>1. x = Table(x.rows, s.approved, s.group) /\ AllKept(s.rows, x.rows) /\ RowsOk(x.rows)
  BY DEF Settling, AllKept
<1>2. /\ AllKept(x.rows, rs)
      /\ \A id \in DOMAIN x.rows : /\ x.rows[id].round # r => rs[id] = x.rows[id]
                                   /\ x.rows[id].round = r => Shows(x, id[1], rs[id])
  BY <1>1, RoundShows
<1> HIDE DEF rs
<1>3. y = Table(rs, s.approved, s.group) /\ y.rows = rs /\ y.approved = x.approved /\ y.group = x.group
  BY <1>1 DEF Table, Through, rs
<1>4. AllKept(s.rows, rs)
  <2>1. \A id \in DOMAIN s.rows : Kept(s.rows[id], rs[id])
    BY <1>1, <1>2, KeptAgain DEF AllKept
  <2> QED BY <1>1, <1>2, <2>1 DEF AllKept
<1>5. SameDraw(x.rows, rs)
  BY <1>2, KeptDraw
<1> HIDE DEF y
<1>6. ASSUME NEW id \in DOMAIN rs, rs[id].round <= r
      PROVE  Shows(y, id[1], rs[id])
  <2>1. id \in DOMAIN x.rows /\ x.rows[id].round = rs[id].round /\ RowOk(rs[id])
    BY <1>2, <1>5 DEF AllKept, SameDraw, RowsOk
  <2>2. Shows(x, id[1], rs[id])
    <3>1. CASE rs[id].round = r
      BY <1>2, <2>1, <3>1
    <3>2. CASE rs[id].round # r
      <4>1. x.rows[id].round <= n /\ rs[id] = x.rows[id]
        BY <1>2, <1>6, <2>1, <3>2 DEF RowOk
      <4> QED BY <2>1, <4>1 DEF Settling
    <3> QED BY <3>1, <3>2
  <2>3. \A j \in DOMAIN x.rows : x.rows[j].round < rs[id].round => Alike(x.rows[j], y.rows[j])
    <3> SUFFICES ASSUME NEW j \in DOMAIN x.rows, x.rows[j].round < rs[id].round
                 PROVE  x.rows[j] = rs[j]
      BY <1>3 DEF Alike
    <3>1. x.rows[j].round \in Nat /\ rs[id].round \in Nat
      BY <1>1, <2>1 DEF RowsOk, RowOk
    <3> QED BY <1>2, <1>6, <3>1
  <2>4. Shows(x, id[1], rs[id]) <=> Shows(y, id[1], rs[id])
    BY <1>1, <1>3, <1>5, <2>1, <2>3, ShowsSame
  <2> QED BY <2>2, <2>4
<1>7. Settling(s, y, r)
  BY <1>3, <1>4, <1>6 DEF Settling
<1> QED BY <1>7 DEF y, rs

\* The last round of a draw is a number that no row exceeds.
LEMMA LastRoundIs ==
    ASSUME NEW rs, RowsOk(rs)
    PROVE  LastRound(rs) \in Nat /\ \A id \in DOMAIN rs : rs[id].round <= LastRound(rs)
<1> DEFINE S == {0} \union {rs[id].round : id \in DOMAIN rs}
<1>1. S \in SUBSET Nat /\ S # {}
  BY DEF RowsOk, RowOk
<1>2. PICK K \in Nat : \A id \in DOMAIN rs : rs[id].round <= K
  BY DEF RowsOk
<1>3. \A x \in S : x <= K
  BY <1>2
<1>4. Max(S) \in S /\ \A x \in S : x <= Max(S)
  <2> HIDE DEF S
  <2> QED BY <1>1, <1>3, MaxBounded
<1>5. LastRound(rs) = Max(S)
  BY DEF LastRound, S
<1>6. \A id \in DOMAIN rs : rs[id].round \in S
  BY DEF S
<1> HIDE DEF S
<1> QED BY <1>1, <1>4, <1>5, <1>6

\* One pass settles the bracket, and leaves the draw and what is under way alone.
LEMMA SyncedSettles ==
    ASSUME NEW s, s = Table(s.rows, s.approved, s.group), RowsOk(s.rows)
    PROVE  AllKept(s.rows, Synced(s)) /\ Settled(Table(Synced(s), s.approved, s.group))
<1> DEFINE n == LastRound(s.rows)
<1>1. n \in Nat
  BY LastRoundIs
<1>2. PICK t : Passes(t, s, n) /\ Synced(s) = t[n].rows
  <2>1. Synced(s) = (CHOOSE t : Passes(t, s, n))[n].rows
    BY Zenon DEF Synced, Passes, Through
  <2>2. \E t : Passes(t, s, n)
    BY <1>1, PassesExist
  <2> HIDE DEF n
  <2> QED BY <2>1, <2>2
<1> DEFINE Bad == {r \in Nat : r <= n /\ ~ Settling(s, t[r], r)}
<1>3. Bad = {}
  <2> SUFFICES ASSUME Bad # {} PROVE FALSE
    OBVIOUS
  <2>1. PICK r \in Bad : \A j \in Bad : r <= j
    <3>1. Bad \in SUBSET Nat
      OBVIOUS
    <3> HIDE DEF Bad
    <3> QED BY <3>1, SmallestNumber
  <2> HIDE DEF n
  <2>2. r \in 0..n /\ ~ Settling(s, t[r], r)
    BY <1>1
  <2>3. t[r] = IF r = 0 THEN s ELSE Through(t[r - 1], r)
    BY <1>2, <2>2 DEF Passes
  <2>4. CASE r = 0
    <3>1. AllKept(s.rows, s.rows)
      BY DEF AllKept, Kept, RowsOk
    <3>2. ASSUME NEW id \in DOMAIN s.rows, s.rows[id].round <= 0
          PROVE  Shows(s, id[1], s.rows[id])
      <4>1. RowOk(s.rows[id]) /\ s.rows[id].round = 0
        BY <3>2 DEF RowsOk, RowOk
      <4>2. ~ Bye(s.rows[id]) /\ \A x \in Ends : s.rows[id].from[x].type = "team"
        BY <4>1 DEF RowOk, Bye, IsBye
      <4> QED BY <4>2 DEF Shows
    <3> QED BY <2>2, <2>3, <2>4, <3>1, <3>2 DEF Settling
  <2>5. CASE r # 0
    <3>1. r - 1 \in Nat /\ r - 1 \notin Bad /\ r - 1 <= n
      BY <1>1, <2>1, <2>2, <2>5
    <3>2. Settling(s, t[r - 1], r - 1)
      BY <3>1
    <3> DEFINE x == t[r - 1]
               m == r - 1
    <3>3. m \in Nat /\ r = m + 1 /\ Settling(s, x, m) /\ t[r] = Through(x, m + 1)
      BY <2>2, <2>3, <2>5, <3>1, <3>2
    <3> HIDE DEF x, m
    <3>4. Settling(s, Through(x, m + 1), m + 1)
      BY <3>3, SettlingStep
    <3> QED BY <2>2, <3>3, <3>4
  <2> QED BY <2>4, <2>5
<1>4. Settling(s, t[n], n)
  <2> HIDE DEF n
  <2> QED BY <1>1, <1>3
<1> DEFINE x == t[n]
<1>5. x = Table(x.rows, s.approved, s.group) /\ x.rows = Synced(s) /\ AllKept(s.rows, x.rows)
  BY <1>2, <1>4 DEF Settling
<1>6. \A id \in DOMAIN x.rows : Shows(x, id[1], x.rows[id])
  <2>1. ASSUME NEW id \in DOMAIN x.rows PROVE x.rows[id].round <= n
    <3>1. id \in DOMAIN s.rows /\ s.rows[id].round = x.rows[id].round
      BY <1>5, KeptDraw DEF SameDraw
    <3> QED BY <3>1, LastRoundIs
  <2> QED BY <1>4, <2>1 DEF Settling
<1> HIDE DEF x
<1>7. Settled(x)
  BY <1>6, SettledIsShown
<1> QED BY <1>5, <1>7

----------------------------------------------------------------------------
(* What every request keeps *)

RequestFields == {"op", "phase", "id", "was", "want", "seen"}
RowOps == {"update", "cancel"} \cup Scored
Result == {"status", "winner"}

\* What a request means to write to a match is a status and a winner, a scorer's a match
\* under way; a draw has two teams at least, each once; what a request has seen is a drawn list.
RequestOk(r) ==
    /\ r = [f \in RequestFields |-> r[f]]
    /\ r.op = "none" <=> r.phase \notin {"act", "refill"}
    /\ r.op \in RowOps => \A c \in Columns \ Result : r.want[c] = r.was[c]
    /\ r.op \in Scored => UnderWay(r.want)
    /\ r.op = "team" => r.id[1] \in Team
    /\ r.op = "generate" => /\ r.want.draw \in Draws
                            /\ \E n \in Nat : n >= 2 /\ Teams(r.want.teams, n)
    /\ r.phase = "refill" => /\ r.seen = Table(r.seen.rows, r.seen.approved, r.seen.group)
                             /\ RowsOk(r.seen.rows)

Requests == request = [w \in Worker |-> request[w]] /\ \A w \in Worker : RequestOk(request[w])

DrawInv == approved \subseteq Team /\ RowsOk(rows) /\ Requests

LEMMA SavedOk ==
    ASSUME NEW row, RowOk(row), NEW was, NEW m, \A c \in Columns \ Written : m[c] = was[c]
    PROVE  RowOk(Saved(row, was, m)) /\ \A c \in Columns \ Written : Saved(row, was, m)[c] = row[c]
<1> DEFINE new == Saved(row, was, m)
<1>1. DOMAIN row = Columns
  BY DEF RowOk
<1>2. new = [c \in Columns |-> IF m[c] # was[c] THEN m[c] ELSE row[c]]
  BY <1>1 DEF Saved
<1> HIDE DEF new
<1>3. new = [c \in Columns |-> new[c]] /\ \A c \in Columns \ Written : new[c] = row[c]
  BY <1>2
<1>4. new.round = row.round /\ new.from = row.from /\ new.group = row.group
  BY <1>3 DEF Columns, Written
<1>5. RowOk(new)
  BY <1>3, <1>4 DEF RowOk
<1> QED BY <1>3, <1>5 DEF new

\* Rows rewritten each in what is not its place in the draw are a drawn list.
LEMMA RewriteOk ==
    ASSUME NEW rs, RowsOk(rs), NEW new, DOMAIN new = DOMAIN rs,
           \A id \in DOMAIN rs : RowOk(new[id]) /\ \A c \in Columns \ (Written \cup {"tossed"}) :
                                                       new[id][c] = rs[id][c]
    PROVE  RowsOk(new) /\ SameDraw(rs, new)
<1>1. \A id \in DOMAIN rs : \A c \in {"round", "pos", "group", "from"} : rs[id][c] = new[id][c]
  BY DEF Columns, Written
<1>2. \A id \in DOMAIN rs : new[id].round = rs[id].round /\ new[id].pos = rs[id].pos
  BY <1>1
<1> QED BY <1>1, <1>2 DEF RowsOk, SameDraw

LEMMA OwnOk ==
    ASSUME DrawInv, NEW w \in Worker, request[w].op \in RowOps
    PROVE  RowsOk(Own(w)) /\ SameDraw(rows, Own(w))
<1> DEFINE r == request[w]
           new == Own(w)
<1>1. \A id \in DOMAIN rows : RowOk(rows[id])
  BY DEF DrawInv, RowsOk
<1>2. \A row : RowOk(row) => /\ RowOk(Saved(row, r.was, r.want))
                             /\ \A c \in Columns \ Written : Saved(row, r.was, r.want)[c] = row[c]
  <2>1. \A c \in Columns \ Written : r.want[c] = r.was[c]
    BY DEF DrawInv, Requests, RequestOk, Written, Result
  <2> QED BY <2>1, SavedOk
<1>3. new = IF r.id \in DOMAIN rows THEN [rows EXCEPT ![r.id] = Saved(rows[r.id], r.was, r.want)] ELSE rows
  BY DEF Own
<1> HIDE DEF new
<1>4. DOMAIN new = DOMAIN rows /\ \A id \in DOMAIN rows :
          new[id] = IF id = r.id THEN Saved(rows[id], r.was, r.want) ELSE rows[id]
  BY <1>3
<1>5. \A id \in DOMAIN rows : RowOk(new[id]) /\ \A c \in Columns \ Written : new[id][c] = rows[id][c]
  BY <1>1, <1>2, <1>4
<1>6. RowsOk(new) /\ SameDraw(rows, new)
  BY <1>4, <1>5, RewriteOk DEF DrawInv
<1> QED BY <1>6 DEF new

\* The table a request has seen, and the one that a refill makes of it.
LEMMA RankedKeeps ==
    ASSUME NEW s, s = Table(s.rows, s.approved, s.group), RowsOk(s.rows)
    PROVE  AllKept(s.rows, Ranked(s))
<1>1. AllKept(s.rows, s.rows)
  BY DEF AllKept, Kept, RowsOk
<1> QED BY <1>1, SyncedSettles DEF Ranked

LEMMA RequestSet ==
    ASSUME Requests, NEW w \in Worker, NEW r, RequestOk(r), request' = [request EXCEPT ![w] = r]
    PROVE  Requests'
BY DEF Requests

LEMMA ReadOk ==
    ASSUME DrawInv, NEW w \in Worker, Request(w)
    PROVE  DrawInv'
<1> DEFINE New(op, id, was, want) ==
              [op |-> op, phase |-> "act", id |-> id, was |-> was, want |-> want, seen |-> <<>>]
<1>1. \A id \in DOMAIN rows : RowOk(rows[id])
  BY DEF DrawInv, RowsOk
<1>2. SUFFICES \E op, id, was, want : /\ RequestOk(New(op, id, was, want))
                                      /\ Read(w, op, id, was, want)
  <2>1. \A r : request' = [request EXCEPT ![w] = r] /\ RequestOk(r) => Requests'
    BY RequestSet DEF DrawInv
  <2> HIDE DEF New
  <2>2. PICK op, id, was, want : RequestOk(New(op, id, was, want)) /\ Read(w, op, id, was, want)
    OBVIOUS
  <2>3. request' = [request EXCEPT ![w] = New(op, id, was, want)] /\ UNCHANGED <<rows, approved>>
    BY <2>2 DEF Read, New
  <2>4. Requests'
    BY <2>1, <2>2, <2>3
  <2> QED BY <2>3, <2>4 DEF DrawInv
<1>3. ASSUME NEW op \in RowOps, NEW id \in DOMAIN rows, NEW want,
             \A c \in Columns \ Result : want[c] = rows[id][c], op \in Scored => UnderWay(want)
      PROVE  RequestOk(New(op, id, rows[id], want))
  BY <1>3 DEF RequestOk, RequestFields, RowOps, Scored
<1>4. CASE ReadUpdate(w)
  <2>1. "update" \in RowOps /\ "update" \notin Scored
    BY DEF RowOps, Scored
  <2>2. PICK id \in DOMAIN rows : \E s, v :
            Read(w, "update", id, rows[id], [rows[id] EXCEPT !.status = s, !.winner = v])
    BY <1>4 DEF ReadUpdate
  <2>3. PICK s, v : Read(w, "update", id, rows[id], [rows[id] EXCEPT !.status = s, !.winner = v])
    BY <2>2
  <2> DEFINE want == [rows[id] EXCEPT !.status = s, !.winner = v]
  <2>4. \A c \in Columns \ Result : want[c] = rows[id][c]
    BY <1>1 DEF RowOk, Columns, Result
  <2> HIDE DEF New, want
  <2> QED BY <1>3, <2>1, <2>3, <2>4 DEF want
<1>5. CASE ReadCancel(w)
  <2>1. "cancel" \in RowOps /\ "cancel" \notin Scored
    BY DEF RowOps, Scored
  <2>2. PICK id \in DOMAIN rows :
            Read(w, "cancel", id, rows[id], [rows[id] EXCEPT !.status = "cancelled"])
    BY <1>5 DEF ReadCancel
  <2> DEFINE want == [rows[id] EXCEPT !.status = "cancelled"]
  <2>3. \A c \in Columns \ Result : want[c] = rows[id][c]
    BY <1>1 DEF RowOk, Columns, Result
  <2> HIDE DEF New, want
  <2> QED BY <1>3, <2>1, <2>2, <2>3 DEF want
<1>6. CASE ReadPlay(w)
  <2>1. "play" \in RowOps /\ "play" \in Scored
    BY DEF RowOps, Scored
  <2>2. PICK id \in DOMAIN rows :
            Read(w, "play", id, rows[id], [rows[id] EXCEPT !.status = "in_progress"])
    BY <1>6 DEF ReadPlay
  <2> DEFINE want == [rows[id] EXCEPT !.status = "in_progress"]
  <2>3. \A c \in Columns \ Result : want[c] = rows[id][c]
    BY <1>1 DEF RowOk, Columns, Result
  <2>4. UnderWay(want)
    BY <1>1 DEF RowOk, Columns, UnderWay
  <2> HIDE DEF New, want
  <2> QED BY <1>3, <2>1, <2>2, <2>3, <2>4 DEF want
<1>7. CASE ReadWhistle(w)
  <2>1. "whistle" \in RowOps /\ "whistle" \in Scored
    BY DEF RowOps, Scored
  <2>2. PICK id \in DOMAIN rows : \E v :
            Read(w, "whistle", id, rows[id], [rows[id] EXCEPT !.status = "completed", !.winner = v])
    BY <1>7 DEF ReadWhistle, Concluded
  <2>3. PICK v : Read(w, "whistle", id, rows[id], [rows[id] EXCEPT !.status = "completed", !.winner = v])
    BY <2>2
  <2> DEFINE want == [rows[id] EXCEPT !.status = "completed", !.winner = v]
  <2>4. \A c \in Columns \ Result : want[c] = rows[id][c]
    BY <1>1 DEF RowOk, Columns, Result
  <2>5. UnderWay(want)
    BY <1>1 DEF RowOk, Columns, UnderWay
  <2> HIDE DEF New, want
  <2> QED BY <1>3, <2>1, <2>3, <2>4, <2>5 DEF want
<1>8. CASE ReadReopen(w)
  <2>1. "reopen" \in RowOps /\ "reopen" \in Scored
    BY DEF RowOps, Scored
  <2>2. PICK id \in DOMAIN rows :
            Read(w, "reopen", id, rows[id], [rows[id] EXCEPT !.status = "in_progress", !.winner = NoTeam])
    BY <1>8 DEF ReadReopen
  <2> DEFINE want == [rows[id] EXCEPT !.status = "in_progress", !.winner = NoTeam]
  <2>3. \A c \in Columns \ Result : want[c] = rows[id][c]
    BY <1>1 DEF RowOk, Columns, Result
  <2>4. UnderWay(want)
    BY <1>1 DEF RowOk, Columns, UnderWay
  <2> HIDE DEF New, want
  <2> QED BY <1>3, <2>1, <2>2, <2>3, <2>4 DEF want
<1>9. CASE ReadUndo(w)
  <2>1. "undo" \in RowOps /\ "undo" \in Scored
    BY DEF RowOps, Scored
  <2>2. PICK id \in DOMAIN rows : \E v :
            Read(w, "undo", id, rows[id], [rows[id] EXCEPT !.status = "completed", !.winner = v])
    BY <1>9 DEF ReadUndo, Concluded
  <2>3. PICK v : Read(w, "undo", id, rows[id], [rows[id] EXCEPT !.status = "completed", !.winner = v])
    BY <2>2
  <2> DEFINE want == [rows[id] EXCEPT !.status = "completed", !.winner = v]
  <2>4. \A c \in Columns \ Result : want[c] = rows[id][c]
    BY <1>1 DEF RowOk, Columns, Result
  <2>5. UnderWay(want)
    BY <1>1 DEF RowOk, Columns, UnderWay
  <2> HIDE DEF New, want
  <2> QED BY <1>3, <2>1, <2>3, <2>4, <2>5 DEF want
<1>10. CASE ReadTeam(w)
  <2>1. PICK t \in Team : Read(w, "team", <<t>>, NoRow, [approved |-> t \notin approved])
    BY <1>10 DEF ReadTeam
  <2>2. \A want : RequestOk(New("team", <<t>>, NoRow, want))
    BY DEF RequestOk, RequestFields, RowOps, Scored
  <2> HIDE DEF New
  <2> QED BY <2>1, <2>2
<1>11. CASE ReadGenerate(w)
  <2> DEFINE n == Cardinality(approved)
             teams == InOrder(approved, <)
  <2>1. approved \in SUBSET (Nat \ {NoTeam}) /\ IsFiniteSet(approved)
    BY BracketAssumption, FS_Subset DEF DrawInv
  <2>2. n \in Nat /\ n >= 2
    BY <1>11, <2>1, FS_CardinalityType DEF ReadGenerate
  <2>3. PICK d \in Draws : Read(w, "generate", <<>>, DOMAIN rows, [draw |-> d, teams |-> teams])
    BY <1>11 DEF ReadGenerate
  <2>4. /\ DOMAIN teams = 1..n /\ \A k \in DOMAIN teams : teams[k] \in approved
        /\ \A k, j \in DOMAIN teams : teams[k] = teams[j] => k = j
    <3>1. approved \in SUBSET Nat
      BY <2>1
    <3> QED BY <2>1, <3>1, NumbersOrdered, Zenon
  <2>5. teams = [k \in DOMAIN teams |-> teams[k]]
    <3> DEFINE kth(i) == CHOOSE x \in approved : Cardinality({y \in approved : y < x}) = i - 1
    <3>1. teams = [i \in 1..n |-> kth(i)]
      BY DEF InOrder
    <3> HIDE DEF kth, teams
    <3> QED BY <3>1
  <2> HIDE DEF teams, n
  <2>6. Teams(teams, n)
    BY <2>1, <2>4, <2>5 DEF Teams
  <2>7. ASSUME NEW was
        PROVE  RequestOk(New("generate", <<>>, was, [draw |-> d, teams |-> teams]))
    <3> DEFINE want == [draw |-> d, teams |-> teams]
    <3>1. want.draw = d /\ want.teams = teams
      OBVIOUS
    <3> HIDE DEF want
    <3> QED BY <2>2, <2>6, <3>1 DEF RequestOk, RequestFields, RowOps, Scored
  <2> HIDE DEF New
  <2> QED BY <2>3, <2>7
<1> QED BY <1>4, <1>5, <1>6, <1>7, <1>8, <1>9, <1>10, <1>11 DEF Request

LEMMA ActedOk ==
    ASSUME Requests, NEW w \in Worker, NEW rs, NEW in, NEW gs, RowsOk(rs), Acted(w, rs, in, gs),
           request[w].phase = "act"
    PROVE  Requests'
<1> DEFINE one == [request[w] EXCEPT !.phase = "refill"]
           r == [one EXCEPT !.seen = Table(rs, in, gs)]
<1>1. request' = [request EXCEPT ![w] = r]
  BY DEF Acted, Requests, Table
<1>2. request[w] = [f \in RequestFields |-> request[w][f]] /\ RequestOk(request[w])
  BY DEF Requests, RequestOk
<1>3. /\ r = [f \in RequestFields |-> r[f]] /\ r.op = request[w].op /\ r.want = request[w].want
      /\ r.phase = "refill" /\ r.id = request[w].id /\ r.was = request[w].was /\ r.seen = Table(rs, in, gs)
  BY <1>2 DEF RequestFields
<1> HIDE DEF r
<1>4. r.seen = Table(r.seen.rows, r.seen.approved, r.seen.group) /\ RowsOk(r.seen.rows)
  BY <1>3 DEF Table
<1>5. RequestOk(r)
  BY <1>2, <1>3, <1>4 DEF RequestOk
<1> QED BY <1>1, <1>5, RequestSet

LEMMA DoneOk ==
    ASSUME Requests, NEW w \in Worker, Done(w)
    PROVE  Requests'
<1>1. RequestOk(NoRequest)
  BY DEF RequestOk, NoRequest, RequestFields, RowOps, Scored
<1> QED BY <1>1, RequestSet DEF Done

LEMMA GenerateOk ==
    ASSUME DrawInv, NEW w \in Worker, Generate(w)
    PROVE  DrawInv'
<1> DEFINE r == request[w]
           d == r.want.draw
           n == Len(lists) + 1
           new == Build(d.format, r.want.teams, d.groups, d.double)
           kept == DOMAIN rows \ r.was
           Row(id) == CHOOSE m \in new : id = <<n, m.round, m.pos>>
           ids == {<<n, m.round, m.pos>> : m \in new}
<1>1. rows' = [id \in kept \union ids |-> IF id \in kept THEN rows[id] ELSE Row(id)]
  BY DEF Generate
<1>2. d \in Draws /\ \E k \in Nat : k >= 2 /\ DOMAIN r.want.teams = 1..k
  BY DEF Generate, About, DrawInv, Requests, RequestOk, Teams
<1>3. PICK K \in Nat : \A m \in new : RowOk(m) /\ m.round <= K
  <2>1. d.format \in Formats /\ d.groups \in Nat
    BY <1>2, BracketAssumption
  <2> QED BY <1>2, <2>1, BuildOk
<1> HIDE DEF new, n
<1>4. \A id \in ids : Row(id) \in new /\ id = <<n, Row(id).round, Row(id).pos>>
  OBVIOUS
<1> HIDE DEF Row
<1>5. \A id \in ids : /\ RowOk(Row(id)) /\ Row(id).round <= K
                      /\ id = <<id[1], Row(id).round, Row(id).pos>>
  BY <1>3, <1>4
<1> HIDE DEF ids
<1>6. PICK M \in Nat : \A id \in DOMAIN rows : rows[id].round <= M
  BY DEF DrawInv, RowsOk
<1>7. RowsOk(rows')
  <2>1. \A id \in DOMAIN rows' : /\ id \in kept => rows'[id] = rows[id] /\ id \in DOMAIN rows
                                 /\ id \notin kept => rows'[id] = Row(id) /\ id \in ids
    BY <1>1
  <2>2. DOMAIN rows' = kept \union ids
    BY <1>1
  <2>3. \A id \in DOMAIN rows' : RowOk(rows'[id]) /\ id = <<id[1], rows'[id].round, rows'[id].pos>>
    BY <1>5, <2>1 DEF DrawInv, RowsOk
  <2>4. \A id \in DOMAIN rows' : rows'[id].round <= K + M
    <3> TAKE id \in DOMAIN rows'
    <3>1. rows'[id].round \in Nat
      BY <2>3 DEF RowOk
    <3>2. rows'[id].round <= K \/ rows'[id].round <= M
      BY <1>5, <1>6, <2>1
    <3> QED BY <3>1, <3>2
  <2>5. K + M \in Nat
    OBVIOUS
  <2> QED BY <2>3, <2>4, <2>5 DEF RowsOk
<1>8. approved' = approved /\ Acted(w, rows', approved, group') /\ r.phase = "act"
  BY DEF Generate, About
<1> QED BY <1>7, <1>8, ActedOk DEF DrawInv

LEMMA RecalculateOk ==
    ASSUME DrawInv, NEW w \in Worker, Recalculate(w)
    PROVE  DrawInv' /\ SameDraw(rows, rows')
<1> DEFINE r == request[w]
           old == r.seen.rows
<1>1. PICK new \in {Ranked(r.seen)}, base \in {IF r.op \in Scored THEN Own(w) ELSE rows} :
          rows' = [id \in DOMAIN rows |->
                      IF id \in {j \in DOMAIN old : new[j] # old[j]}
                      THEN Saved(base[id], old[id], new[id]) ELSE base[id]]
  BY Zenon DEF Recalculate
<1>2. AllKept(old, new)
  BY RankedKeeps DEF Recalculate, DrawInv, Requests, RequestOk
<1>3. RowsOk(base) /\ SameDraw(rows, base)
  <2>1. RowsOk(rows) /\ SameDraw(rows, rows)
    BY DEF DrawInv, SameDraw
  <2> QED BY <2>1, OwnOk DEF RowOps
<1>4. ASSUME NEW id \in DOMAIN base
      PROVE  RowOk(rows'[id]) /\ \A c \in Columns \ Written : rows'[id][c] = base[id][c]
  <2>1. RowOk(base[id]) /\ id \in DOMAIN rows
    BY <1>3 DEF RowsOk, SameDraw
  <2>2. CASE id \in {j \in DOMAIN old : new[j] # old[j]}
    <3>1. \A c \in Columns \ Written : new[id][c] = old[id][c]
      BY <1>2, <2>2 DEF AllKept, Kept
    <3> QED BY <1>1, <2>1, <2>2, <3>1, SavedOk
  <2>3. CASE id \notin {j \in DOMAIN old : new[j] # old[j]}
    BY <1>1, <2>1, <2>3
  <2> QED BY <2>2, <2>3
<1>5. DOMAIN rows' = DOMAIN base
  BY <1>1, <1>3 DEF SameDraw
<1>6. RowsOk(rows') /\ SameDraw(base, rows')
  BY <1>3, <1>4, <1>5, RewriteOk
<1>7. Done(w) /\ approved' = approved
  BY DEF Recalculate
<1>8. SameDraw(rows, rows')
  BY <1>3, <1>6 DEF SameDraw
<1> QED BY <1>6, <1>7, <1>8, DoneOk DEF DrawInv

LEMMA AnswerOk ==
    ASSUME DrawInv, NEW w \in Worker, Answer(w)
    PROVE  DrawInv'
<1>1. CASE Save(w)
  <2>1. request[w].op \in RowOps
    BY <1>1 DEF Save, About, RowOps
  <2>2. /\ rows' = Own(w) /\ Acted(w, rows', approved, group) /\ approved' = approved
        /\ request[w].phase = "act"
    BY <1>1 DEF Save, About
  <2>3. RowsOk(rows')
    BY <2>1, <2>2, OwnOk
  <2> QED BY <2>2, <2>3, ActedOk DEF DrawInv
<1>2. CASE Score(w)
  <2>1. request[w].op \in RowOps
    BY <1>2 DEF Score, About, RowOps
  <2>2. /\ Acted(w, Own(w), approved, group) \/ Done(w)
        /\ approved' = approved /\ rows' = rows /\ request[w].phase = "act"
    BY <1>2 DEF Score, About
  <2> QED BY <2>1, <2>2, OwnOk, ActedOk, DoneOk DEF DrawInv
<1>3. CASE SaveTeam(w)
  <2>1. Acted(w, rows, approved', group) /\ rows' = rows /\ request[w].phase = "act"
    BY <1>3 DEF SaveTeam, About
  <2>2. request[w].id[1] \in Team
    BY <1>3 DEF SaveTeam, About, DrawInv, Requests, RequestOk
  <2>3. approved' \subseteq Team
    BY <1>3, <2>2 DEF SaveTeam, DrawInv
  <2> QED BY <2>1, <2>3, ActedOk DEF DrawInv
<1> QED BY <1>1, <1>2, <1>3, GenerateOk, RecalculateOk DEF Answer

LEMMA TossOk ==
    ASSUME DrawInv, Toss
    PROVE  DrawInv'
<1>1. PICK id \in DOMAIN rows, b \in BOOLEAN :
          rows' = [rows EXCEPT ![id].tossed = b] /\ UNCHANGED <<approved, request>>
  BY DEF Toss, TossUp, TossReset
<1> DEFINE row == [rows[id] EXCEPT !.tossed = b]
<1>2. RowOk(rows[id])
  BY DEF DrawInv, RowsOk
<1>3. row = [c \in Columns |-> row[c]] /\ \A c \in Columns \ {"tossed"} : row[c] = rows[id][c]
  BY <1>2 DEF RowOk, Columns
<1>4. row.round = rows[id].round /\ row.from = rows[id].from /\ row.group = rows[id].group
  BY <1>3 DEF Columns
<1>5. rows' = [rows EXCEPT ![id] = row]
  BY <1>1
<1> HIDE DEF row
<1>6. RowOk(row)
  BY <1>2, <1>3, <1>4 DEF RowOk
<1>7. DOMAIN rows' = DOMAIN rows /\ \A j \in DOMAIN rows : rows'[j] = IF j = id THEN row ELSE rows[j]
  BY <1>5
<1>8. RowsOk(rows')
  <2>1. \A j \in DOMAIN rows : RowOk(rows'[j]) /\ \A c \in Columns \ (Written \cup {"tossed"}) :
                                                     rows'[j][c] = rows[j][c]
    BY <1>3, <1>6, <1>7 DEF DrawInv, RowsOk
  <2> QED BY <1>7, <2>1, RewriteOk DEF DrawInv
<1> QED BY <1>1, <1>8 DEF DrawInv, Requests

LEMMA DrawInit == Init => DrawInv
<1> SUFFICES ASSUME Init PROVE DrawInv
  OBVIOUS
<1>1. RowsOk(rows)
  BY DEF Init, RowsOk
<1>2. RequestOk(NoRequest)
  BY DEF RequestOk, NoRequest, RequestFields, RowOps, Scored
<1> QED BY <1>1, <1>2 DEF Init, DrawInv, Requests

LEMMA DrawNext == DrawInv /\ [Next]_vars => DrawInv'
<1> SUFFICES ASSUME DrawInv, [Next]_vars PROVE DrawInv'
  OBVIOUS
<1>1. CASE UNCHANGED vars
  BY <1>1 DEF vars, DrawInv, Requests
<1> QED BY <1>1, ReadOk, AnswerOk, TossOk DEF Next

\* Whatever requests that overlapped have left, one refill settles the bracket: no row
\* reads a source of its own round or a later one, and the rounds are filled in order
\* (BracketService.sync).
THEOREM RefillSettles == Spec => []OnePassSettles
<1>1. DrawInv => OnePassSettles
  <2> SUFFICES ASSUME DrawInv PROVE OnePassSettles
    OBVIOUS
  <2>1. Now = Table(Now.rows, Now.approved, Now.group) /\ RowsOk(Now.rows)
    BY DEF Now, Table, DrawInv
  <2>2. [Now EXCEPT !.rows = Synced(Now)] = Table(Synced(Now), Now.approved, Now.group)
    BY DEF Now, Table
  <2> QED BY <2>1, <2>2, SyncedSettles DEF OnePassSettles
<1> QED BY <1>1, DrawInit, DrawNext, PTL DEF Spec

----------------------------------------------------------------------------
(* While requests come one after another *)

\* The same list but for the toss.
SameBut(rs, new) ==
    /\ DOMAIN rs = DOMAIN new
    /\ \A id \in DOMAIN rs : \A c \in Columns \ {"tossed"} : rs[id][c] = new[id][c]

\* What a request that refills refills: a scorer's, what it means to write.
Base(w) == IF request[w].op \in Scored THEN Own(w) ELSE rows

\* What a request has read has not changed, but for tosses.
Fresh(w) == LET r == request[w] IN
    /\ r.phase = "act" /\ r.op = "generate" =>
           \A id \in DOMAIN rows \intersect r.was : ~ UnderWay(rows[id])
    /\ r.phase = "refill" => /\ r.seen.approved = approved /\ r.seen.group = group
                             /\ SameBut(r.seen.rows, Base(w))

\* Between a request that has acted and its refill the bracket may be unsettled.
SettledBetween == (\A w \in Worker : request[w].phase # "refill") /\ approved # {} => Settled(Now)

TurnInv == DrawInv /\ (inTurn => Alone /\ SettledBetween /\ \A w \in Worker : Fresh(w))

LEMMA ShowsAlike ==
    ASSUME NEW s, NEW l, NEW one, NEW two, Alike(one, two), Shows(s, l, one)
    PROVE  Shows(s, l, two)
<1>1. /\ one.from = two.from /\ one.round = two.round /\ one.status = two.status
      /\ one.winner = two.winner /\ \A x \in Ends : one[x] = two[x]
  BY DEF Alike, Seen, Ends
<1>2. (Bye(one) <=> Bye(two)) /\ (UnderWay(one) <=> UnderWay(two)) /\ ByeSide(one) = ByeSide(two)
  BY <1>1 DEF Bye, UnderWay, ByeSide
<1>3. ByeSide(one) \in Ends
  BY DEF ByeSide, Ends
<1> QED BY <1>1, <1>2, <1>3 DEF Shows

LEMMA SameButDraw ==
    ASSUME NEW rs, NEW new, SameBut(rs, new)
    PROVE  SameDraw(rs, new) /\ \A id \in DOMAIN rs : Alike(rs[id], new[id])
BY DEF SameBut, SameDraw, Alike, Seen, Columns

\* A toss unsettles nothing.
LEMMA SettledSame ==
    ASSUME NEW s, NEW new, s.approved = new.approved, s.group = new.group,
           RowsOk(s.rows), SameBut(s.rows, new.rows), Settled(s)
    PROVE  Settled(new)
<1>1. SameDraw(s.rows, new.rows) /\ \A id \in DOMAIN s.rows : Alike(s.rows[id], new.rows[id])
  BY SameButDraw
<1>2. ASSUME NEW id \in DOMAIN new.rows
      PROVE  Shows(new, id[1], new.rows[id])
  <2>1. id \in DOMAIN s.rows /\ RowOk(s.rows[id])
    BY <1>1 DEF SameDraw, RowsOk
  <2>2. Shows(s, id[1], s.rows[id])
    BY <2>1, SettledIsShown
  <2>3. Shows(new, id[1], s.rows[id])
    BY <1>1, <2>1, <2>2, ShowsSame
  <2> QED BY <1>1, <2>1, <2>3, ShowsAlike
<1> QED BY <1>2, SettledIsShown

LEMMA SameButItself == ASSUME NEW rs PROVE SameBut(rs, rs)
BY DEF SameBut

\* While one request is under way the others are idle.
LEMMA OthersIdle ==
    ASSUME Requests, Alone, NEW w \in Worker, ~ Idle(w), NEW v \in Worker, v # w
    PROVE  request[v].phase \notin {"act", "refill"}
BY DEF Alone, Idle, Requests, RequestOk

\* What the lemmas of the steps prove.
TurnKept == SettledBetween /\ \A w \in Worker : Fresh(w)

LEMMA IdleFresh ==
    ASSUME NEW v \in Worker, request[v].phase \notin {"act", "refill"}
    PROVE  Fresh(v)
BY DEF Fresh

\* Every request reads, and a draw is asked for with no match under way, of what it
\* then deletes.
LEMMA RequestReads ==
    ASSUME NEW w, Request(w)
    PROVE  \E op, id, was, want :
               /\ Read(w, op, id, was, want) /\ op # "none"
               /\ op = "generate" => was = DOMAIN rows /\ \A j \in DOMAIN rows : ~ UnderWay(rows[j])
<1>1. CASE ReadUpdate(w)
  BY <1>1 DEF ReadUpdate
<1>2. CASE ReadCancel(w)
  BY <1>2 DEF ReadCancel
<1>3. CASE ReadPlay(w)
  BY <1>3 DEF ReadPlay
<1>4. CASE ReadWhistle(w)
  BY <1>4 DEF ReadWhistle
<1>5. CASE ReadReopen(w)
  BY <1>5 DEF ReadReopen
<1>6. CASE ReadUndo(w)
  BY <1>6 DEF ReadUndo
<1>7. CASE ReadTeam(w)
  BY <1>7 DEF ReadTeam
<1>8. CASE ReadGenerate(w)
  <2> DEFINE teams == InOrder(approved, <)
  <2>1. \E d \in Draws : Read(w, "generate", <<>>, DOMAIN rows, [draw |-> d, teams |-> teams])
    BY <1>8 DEF ReadGenerate
  <2> HIDE DEF teams
  <2> QED BY <1>8, <2>1 DEF ReadGenerate
<1> QED BY <1>1, <1>2, <1>3, <1>4, <1>5, <1>6, <1>7, <1>8 DEF Request

LEMMA TurnRead ==
    ASSUME DrawInv, TurnKept, NEW w \in Worker, Request(w), Alone', DrawInv'
    PROVE  TurnKept'
<1>1. PICK op, id, was, want :
          /\ Read(w, op, id, was, want) /\ op # "none"
          /\ op = "generate" => was = DOMAIN rows /\ \A j \in DOMAIN rows : ~ UnderWay(rows[j])
  BY RequestReads
<1>2. UNCHANGED <<rows, approved, group>> /\ Idle(w)
  BY <1>1 DEF Read
<1>3. request'[w].op = op /\ request'[w].phase = "act"
  BY <1>1 DEF Read, DrawInv, Requests
<1>4. \A v \in Worker : v # w => request'[v] = request[v]
  BY <1>1 DEF Read, DrawInv, Requests
<1>5. \A v \in Worker : v # w => request[v].phase \notin {"act", "refill"}
  <2>1. \A v \in Worker : v # w => request[v].op = "none"
    BY <1>1, <1>3, <1>4 DEF Alone, Idle
  <2> QED BY <2>1 DEF DrawInv, Requests, RequestOk
<1>6. request[w].phase \notin {"act", "refill"}
  BY <1>2 DEF Idle, DrawInv, Requests, RequestOk
<1>7. Settled(Now)' \/ approved' = {}
  <2>1. \A v \in Worker : request[v].phase # "refill"
    BY <1>5, <1>6
  <2>2. Settled(Now) \/ approved = {}
    BY <2>1 DEF TurnKept, SettledBetween
  <2> QED BY <1>2, <2>2 DEF Now
<1>8. ASSUME NEW v \in Worker PROVE Fresh(v)'
  <2>1. CASE v = w
    BY <1>1, <1>2, <1>3, <2>1 DEF Fresh
  <2>2. CASE v # w
    BY <1>4, <1>5, <2>2 DEF Fresh
  <2> QED BY <2>1, <2>2
<1> QED BY <1>7, <1>8 DEF TurnKept, SettledBetween

\* A request that has acted has seen what it refills.
LEMMA TurnActed ==
    ASSUME Requests, Alone, NEW w \in Worker, request[w].phase = "act", NEW rs,
           Acted(w, rs, approved', group'), SameBut(rs, Base(w)')
    PROVE  TurnKept'
<1>1. /\ request'[w].phase = "refill" /\ request'[w].seen = Table(rs, approved', group')
      /\ \A v \in Worker : v # w => request'[v] = request[v]
  BY DEF Acted, Requests, RequestOk, RequestFields, Table
<1>2. ~ Idle(w)
  BY DEF Idle, Requests, RequestOk
<1>3. \A v \in Worker : v # w => Fresh(v)'
  BY <1>1, <1>2, OthersIdle DEF Fresh
<1>4. Fresh(w)'
  BY <1>1 DEF Fresh, Table
<1> QED BY <1>1, <1>3, <1>4 DEF TurnKept, SettledBetween

\* Acting leaves what a request is about.
LEMMA ActedAbout ==
    ASSUME Requests, NEW w \in Worker, NEW rs, NEW in, NEW gs, Acted(w, rs, in, gs)
    PROVE  \A f \in {"op", "id", "was", "want"} : request'[w][f] = request[w][f]
BY DEF Acted, Requests, RequestOk, RequestFields

LEMMA TurnAct ==
    ASSUME DrawInv, Alone, TurnKept, NEW w \in Worker, Save(w) \/ Score(w) \/ SaveTeam(w) \/ Generate(w)
    PROVE  TurnKept'
<1>0. request[w].phase = "act" /\ Requests
  BY DEF Save, Score, SaveTeam, Generate, About, DrawInv
<1>1. CASE Save(w) \/ SaveTeam(w) \/ Generate(w)
  <2>1. Acted(w, rows', approved', group') /\ request[w].op \notin Scored
    BY <1>1 DEF Save, SaveTeam, Generate, About, Scored
  <2>2. request'[w].op \notin Scored
    BY <1>0, <2>1, ActedAbout
  <2>3. SameBut(rows', Base(w)')
    BY <2>2, SameButItself DEF Base
  <2> QED BY <1>0, <2>1, <2>3, TurnActed
<1>2. CASE Score(w) /\ request[w].id \in DOMAIN rows
  <2>1. Acted(w, Own(w), approved', group') /\ UNCHANGED rows /\ request[w].op \in Scored
    BY <1>2 DEF Score, About
  <2>2. /\ request'[w].op = request[w].op /\ request'[w].id = request[w].id
        /\ request'[w].was = request[w].was /\ request'[w].want = request[w].want
    BY <1>0, <2>1, ActedAbout
  <2>3. Base(w)' = Own(w)
    BY <2>1, <2>2 DEF Base, Own
  <2>4. SameBut(Own(w), Base(w)')
    BY <2>3, SameButItself
  <2> QED BY <1>0, <2>1, <2>4, TurnActed
<1>3. CASE Score(w) /\ request[w].id \notin DOMAIN rows
  <2>1. Done(w) /\ UNCHANGED <<rows, approved, group>>
    BY <1>3 DEF Score
  <2>2. /\ request'[w] = NoRequest
        /\ \A v \in Worker : v # w => request'[v] = request[v] /\ request[v].phase \notin {"act", "refill"}
    <3>1. ~ Idle(w)
      BY <1>0 DEF Idle, Requests, RequestOk
    <3> QED BY <1>0, <2>1, <3>1, OthersIdle DEF Done, Requests
  <2>3. \A v \in Worker : Fresh(v)'
    BY <2>2 DEF Fresh, NoRequest
  <2>4. Settled(Now) \/ approved = {}
    BY <1>0, <2>2 DEF TurnKept, SettledBetween
  <2>5. Settled(Now)' \/ approved' = {}
    BY <2>1, <2>4 DEF Now
  <2> QED BY <2>3, <2>5 DEF TurnKept, SettledBetween
<1> QED BY <1>1, <1>2, <1>3

\* With nothing changed behind its back, a refill leaves what it made of what it saw.
LEMMA RefillLeaves ==
    ASSUME DrawInv, NEW w \in Worker, Fresh(w), Recalculate(w)
    PROVE  /\ AllKept(request[w].seen.rows, Ranked(request[w].seen))
           /\ SameBut(Ranked(request[w].seen), rows')
<1> DEFINE old == request[w].seen.rows
           new == Ranked(request[w].seen)
           base == Base(w)
<1>1. rows' = [id \in DOMAIN rows |->
                  IF id \in {j \in DOMAIN old : new[j] # old[j]}
                  THEN Saved(base[id], old[id], new[id]) ELSE base[id]]
  BY Zenon DEF Recalculate, Base
<1>2. request[w].phase = "refill"
  BY DEF Recalculate
<1>3. AllKept(old, new) /\ RowsOk(old)
  BY <1>2, RankedKeeps DEF DrawInv, Requests, RequestOk
<1>4. SameBut(old, base)
  BY <1>2 DEF Fresh
<1>5. DOMAIN base = DOMAIN rows /\ RowsOk(base)
  <2>1. RowsOk(rows)
    BY DEF DrawInv
  <2>2. request[w].op \in Scored => SameDraw(rows, base) /\ RowsOk(base)
    BY OwnOk DEF Base, RowOps
  <2>3. request[w].op \notin Scored => base = rows
    BY DEF Base
  <2> QED BY <2>1, <2>2, <2>3 DEF SameDraw
<1> HIDE DEF old, new, base
<1>6. DOMAIN new = DOMAIN rows /\ DOMAIN rows' = DOMAIN rows /\ DOMAIN old = DOMAIN rows
  BY <1>1, <1>3, <1>4, <1>5 DEF AllKept, SameBut
<1>7. ASSUME NEW id \in DOMAIN rows, NEW c \in Columns \ {"tossed"}
      PROVE  new[id][c] = rows'[id][c]
  <2>1. old[id][c] = base[id][c]
    BY <1>4, <1>6, <1>7 DEF SameBut
  <2>2. CASE new[id] = old[id]
    BY <1>1, <1>6, <2>1, <2>2
  <2>3. CASE new[id] # old[id]
    <3>1. rows'[id] = Saved(base[id], old[id], new[id])
      BY <1>1, <1>6, <2>3
    <3>2. DOMAIN base[id] = Columns
      BY <1>5 DEF RowsOk, RowOk
    <3>3. rows'[id][c] = IF new[id][c] # old[id][c] THEN new[id][c] ELSE base[id][c]
      BY <3>1, <3>2 DEF Saved
    <3> QED BY <2>1, <3>3
  <2> QED BY <2>2, <2>3
<1> QED BY <1>3, <1>6, <1>7 DEF SameBut, old, new

LEMMA TurnRefill ==
    ASSUME DrawInv, Alone, TurnKept, NEW w \in Worker, Recalculate(w)
    PROVE  TurnKept'
<1> DEFINE s == request[w].seen
<1>1. request[w].phase = "refill" /\ Done(w) /\ UNCHANGED <<approved, group>> /\ Fresh(w)
  BY DEF Recalculate, TurnKept
<1>2. s = Table(s.rows, s.approved, s.group) /\ RowsOk(s.rows)
  BY <1>1 DEF DrawInv, Requests, RequestOk
<1>3. s.approved = approved /\ s.group = group
  BY <1>1 DEF Fresh
<1>4. AllKept(s.rows, Ranked(s)) /\ SameBut(Ranked(s), rows')
  BY <1>1, RefillLeaves
<1> HIDE DEF s
<1>5. ASSUME approved # {} PROVE Settled(Now')
  <2>1. Ranked(s) = Synced(s)
    BY <1>3, <1>5 DEF Ranked
  <2>2. Settled(Table(Ranked(s), s.approved, s.group)) /\ RowsOk(Ranked(s))
    BY <1>2, <1>4, <2>1, SyncedSettles DEF AllKept
  <2> DEFINE one == Table(Ranked(s), s.approved, s.group)
             two == Table(rows', approved', group')
  <2>3. /\ one.rows = Ranked(s) /\ two.rows = rows' /\ one.approved = two.approved
        /\ one.group = two.group
    BY <1>1, <1>3 DEF Table
  <2>4. Settled(one)
    BY <2>2
  <2> HIDE DEF one
  <2> HIDE DEF two
  <2>5. Settled(two)
    BY <1>4, <2>2, <2>3, <2>4, SettledSame
  <2> QED BY <2>5 DEF two, Table, Now
<1>6. /\ request'[w] = NoRequest
      /\ \A v \in Worker : v # w => request'[v] = request[v] /\ request[v].phase \notin {"act", "refill"}
  <2>1. ~ Idle(w) /\ Requests
    BY <1>1 DEF Idle, DrawInv, Requests, RequestOk
  <2> QED BY <1>1, <2>1, OthersIdle DEF Done, Requests
<1>7. \A v \in Worker : Fresh(v)'
  BY <1>6 DEF Fresh, NoRequest
<1> QED BY <1>1, <1>5, <1>7 DEF TurnKept, SettledBetween

LEMMA TurnToss ==
    ASSUME DrawInv, TurnKept, Toss
    PROVE  TurnKept'
<1>1. PICK id \in DOMAIN rows, b \in BOOLEAN :
          rows' = [rows EXCEPT ![id].tossed = b] /\ UNCHANGED <<approved, group, request>>
  BY DEF Toss, TossUp, TossReset
<1>2. SameBut(rows, rows')
  BY <1>1 DEF DrawInv, RowsOk, RowOk, SameBut
<1>3. Settled(Now) => Settled(Now')
  <2> DEFINE one == Table(rows, approved, group)
             two == Table(rows', approved', group')
  <2>1. /\ one.rows = rows /\ two.rows = rows' /\ one.approved = two.approved
        /\ one.group = two.group /\ Now = one /\ Now' = two
    BY <1>1 DEF Table, Now
  <2> HIDE DEF one
  <2> HIDE DEF two
  <2> QED BY <1>2, <2>1, SettledSame DEF DrawInv
<1>4. ASSUME NEW v \in Worker PROVE Fresh(v)'
  <2>1. SameBut(Base(v), Base(v)')
    <3> DEFINE r == request[v]
               in == r.id \in DOMAIN rows
    <3>1. request'[v] = r
      BY <1>1
    <3>2. CASE r.op \notin Scored
      BY <1>2, <3>1, <3>2 DEF Base
    <3>3. CASE r.op \in Scored
      <4> DEFINE x == Own(v)
                 y == Own(v)'
      <4>1. r.id \in DOMAIN rows <=> r.id \in DOMAIN rows'
        BY <1>2 DEF SameBut
      <4>2. CASE ~ in
        BY <1>2, <3>1, <3>3, <4>1, <4>2 DEF Base, Own
      <4>3. CASE in
        <5>1. x = [rows EXCEPT ![r.id] = Saved(rows[r.id], r.was, r.want)]
          BY <4>3 DEF Own
        <5>2. y = [rows' EXCEPT ![r.id] = Saved(rows'[r.id], r.was, r.want)]
          BY <3>1, <4>1, <4>3 DEF Own
        <5>3. Base(v) = x /\ Base(v)' = y
          BY <3>1, <3>3 DEF Base
        <5> HIDE DEF x
        <5> HIDE DEF y
        <5>4. DOMAIN x = DOMAIN y
          BY <1>2, <5>1, <5>2 DEF SameBut
        <5>5. ASSUME NEW j \in DOMAIN x, NEW c \in Columns \ {"tossed"}
              PROVE  x[j][c] = y[j][c]
          <6>1. j \in DOMAIN rows /\ j \in DOMAIN rows' /\ rows[j][c] = rows'[j][c]
            BY <1>2, <5>1, <5>5 DEF SameBut
          <6>2. DOMAIN rows[j] = Columns /\ DOMAIN rows'[j] = Columns
            BY <1>1, <6>1 DEF DrawInv, RowsOk, RowOk
          <6>3. CASE j # r.id
            BY <5>1, <5>2, <6>1, <6>3
          <6>4. CASE j = r.id
            BY <5>1, <5>2, <6>1, <6>2, <6>4 DEF Saved
          <6> QED BY <6>3, <6>4
        <5> QED BY <5>3, <5>4, <5>5 DEF SameBut
      <4> QED BY <4>2, <4>3
    <3> QED BY <3>2, <3>3
  <2>2. request[v].phase = "refill" => SameBut(request[v].seen.rows, Base(v))
    BY DEF TurnKept, Fresh
  <2>3. request[v].phase = "refill" => SameBut(request[v].seen.rows, Base(v)')
    BY <2>1, <2>2 DEF SameBut
  <2>4. \A j \in DOMAIN rows : UnderWay(rows[j]) <=> UnderWay(rows'[j])
    BY <1>2 DEF SameBut, UnderWay, Columns
  <2>5. Fresh(v)
    BY DEF TurnKept
  <2> QED BY <1>1, <1>2, <2>3, <2>4, <2>5 DEF Fresh, SameBut
<1> QED BY <1>1, <1>3, <1>4 DEF TurnKept, SettledBetween

LEMMA TurnInvInit == TurnInit => TurnInv
<1> SUFFICES ASSUME TurnInit PROVE TurnInv
  OBVIOUS
<1>1. \A w \in Worker : request[w] = NoRequest
  BY DEF TurnInit, Init
<1>2. Alone /\ \A w \in Worker : Fresh(w)
  BY <1>1 DEF Alone, Idle, Fresh, NoRequest
<1>3. Settled(Now)
  BY DEF TurnInit, Init, Settled, Now
<1> QED BY <1>2, <1>3, DrawInit DEF TurnInit, TurnInv, SettledBetween

LEMMA TurnInvNext == TurnInv /\ [TurnNext]_turnVars => TurnInv'
<1> SUFFICES ASSUME TurnInv, [TurnNext]_turnVars PROVE TurnInv'
  OBVIOUS
<1>1. DrawInv'
  BY DrawNext DEF TurnInv, TurnNext, turnVars
<1>2. ASSUME inTurn' PROVE Alone' /\ TurnKept'
  <2>1. inTurn
    BY <1>2 DEF TurnNext, turnVars
  <2>2. DrawInv /\ Alone /\ TurnKept
    BY <2>1 DEF TurnInv, TurnKept
  <2>3. CASE UNCHANGED turnVars
    BY <2>2, <2>3 DEF turnVars, vars, Alone, Idle, TurnKept, SettledBetween, Now, Fresh, Base, Own
  <2>4. CASE TurnNext
    <3>1. Alone' /\ Next
      BY <1>2, <2>4 DEF TurnNext
    <3> QED BY <1>1, <2>2, <3>1, TurnRead, TurnAct, TurnRefill, TurnToss DEF Next, Answer
  <2> QED BY <2>3, <2>4
<1> QED BY <1>1, <1>2 DEF TurnInv, TurnKept

\* While requests come one after another, the bracket is settled whenever none is under
\* way: whichever request changes a result or an entry refills it, from what nobody has
\* changed since (rankStandings and sync).
THEOREM EveryRequestSettles == TurnSpec => []SettledInTurn
<1>1. TurnInv => SettledInTurn
  <2> SUFFICES ASSUME TurnInv, inTurn, Quiet, approved # {} PROVE Settled(Now)
    BY DEF SettledInTurn, SettledAtRest
  <2>1. \A w \in Worker : request[w].phase # "refill"
    BY DEF Quiet, Idle, TurnInv, DrawInv, Requests, RequestOk
  <2> QED BY <2>1 DEF TurnInv, SettledBetween
<1> QED BY <1>1, TurnInvInit, TurnInvNext, PTL DEF TurnSpec

----------------------------------------------------------------------------
(* What has started *)

\* What a request does to matches that are not its own, and to the sides of its own.
LEMMA OwnResult ==
    ASSUME DrawInv, NEW w \in Worker, request[w].op \in RowOps, NEW id \in DOMAIN rows
    PROVE  /\ \A c \in Columns \ Result : Own(w)[id][c] = rows[id][c]
           /\ id # request[w].id => Own(w)[id] = rows[id]
           /\ request[w].op \in Scored /\ UnderWay(rows[id]) => UnderWay(Own(w)[id])
<1> DEFINE r == request[w]
           new == Own(w)
<1>1. /\ \A c \in Columns \ Result : r.want[c] = r.was[c]
      /\ r.op \in Scored => UnderWay(r.want)
  BY DEF DrawInv, Requests, RequestOk
<1>2. DOMAIN rows[id] = Columns
  BY DEF DrawInv, RowsOk, RowOk
<1>3. CASE id = r.id
  <2>1. new[id] = Saved(rows[id], r.was, r.want)
    BY <1>3 DEF Own
  <2> HIDE DEF new
  <2>2. \A c \in Columns : new[id][c] = IF r.want[c] # r.was[c] THEN r.want[c] ELSE rows[id][c]
    BY <1>2, <2>1 DEF Saved
  <2>3. new[id].status \in {r.want.status, rows[id].status}
    BY <2>2 DEF Columns
  <2>4. r.op \in Scored /\ UnderWay(rows[id]) => UnderWay(new[id])
    BY <1>1, <2>3 DEF UnderWay
  <2> QED BY <1>1, <1>3, <2>2, <2>4 DEF new
<1>4. CASE id # r.id
  BY <1>4 DEF Own
<1> QED BY <1>3, <1>4

\* A match under way goes on as it is, but for what a request about it writes.
Goes(w, row, new, id) ==
    /\ new.a = row.a /\ new.b = row.b
    /\ request[w].id # id => new.status = row.status /\ new.winner = row.winner

LEMMA StartedGoesOn ==
    ASSUME DrawInv, NEW w \in Worker, Fresh(w), Recalculate(w), NEW id \in DOMAIN rows,
           UnderWay(rows[id]), ~ Bye(rows[id])
    PROVE  id \in DOMAIN rows' /\ Goes(w, rows[id], rows'[id], id)
<1> DEFINE old == request[w].seen.rows
           new == Ranked(request[w].seen)
           base == Base(w)
<1>1. AllKept(old, new) /\ SameBut(new, rows') /\ SameBut(old, base)
  BY RefillLeaves DEF Fresh, Recalculate
<1>2. /\ DOMAIN base = DOMAIN rows /\ \A c \in Columns \ Result : base[id][c] = rows[id][c]
      /\ id # request[w].id => base[id] = rows[id]
      /\ UnderWay(base[id])
  <2>1. CASE request[w].op \in Scored
    <3>1. DOMAIN base = DOMAIN rows
      BY <2>1, OwnOk DEF Base, RowOps, SameDraw
    <3> QED BY <2>1, <3>1, OwnResult DEF Base, RowOps
  <2>2. CASE request[w].op \notin Scored
    BY <2>2 DEF Base
  <2> QED BY <2>1, <2>2
<1> HIDE DEF old, new, base
<1>3. id \in DOMAIN old /\ id \in DOMAIN new /\ id \in DOMAIN rows'
  BY <1>1, <1>2 DEF SameBut, AllKept
<1>4. /\ \A c \in Columns \ {"tossed"} : old[id][c] = base[id][c]
      /\ \A c \in Columns \ {"tossed"} : new[id][c] = rows'[id][c]
  BY <1>1, <1>3 DEF SameBut
<1>5. old[id].status = base[id].status /\ old[id].round = rows[id].round /\ old[id].from = rows[id].from
  BY <1>2, <1>4 DEF Columns, Result
<1>6. UnderWay(old[id]) /\ ~ Bye(old[id])
  BY <1>2, <1>5 DEF UnderWay, Bye
<1>7. new[id] = old[id]
  BY <1>1, <1>3, <1>6 DEF AllKept, Kept
<1>8. \A c \in {"a", "b", "status", "winner"} : rows'[id][c] = base[id][c]
  BY <1>4, <1>7 DEF Columns
<1> QED BY <1>2, <1>3, <1>8 DEF Goes, Columns, Result

LEMMA StartedStep ==
    ASSUME DrawInv, Alone, TurnKept, Next
    PROVE  StartedKept
<1>1. ASSUME UNCHANGED rows PROVE StartedKept
  BY <1>1 DEF StartedKept
<1>2. ASSUME NEW w \in Worker, Save(w) PROVE StartedKept
  <2>1. request[w].op \in RowOps /\ rows' = Own(w)
    BY <1>2 DEF Save, About, RowOps
  <2>2. DOMAIN rows' = DOMAIN rows
    BY <2>1, OwnOk DEF SameDraw
  <2>3. ASSUME NEW id \in DOMAIN rows PROVE Goes(w, rows[id], rows'[id], id)
    BY <2>1, OwnResult DEF Goes, Columns, Result
  <2> QED BY <2>2, <2>3 DEF StartedKept, Goes
<1>3. ASSUME NEW w \in Worker, Generate(w) PROVE StartedKept
  <2>1. request[w].phase = "act" /\ request[w].op = "generate" /\ Fresh(w)
    BY <1>3 DEF Generate, About, TurnKept
  <2>2. \A id \in DOMAIN rows : UnderWay(rows[id]) => id \notin request[w].was
    BY <2>1 DEF Fresh
  <2>3. \A id \in DOMAIN rows \ request[w].was : id \in DOMAIN rows' /\ rows'[id] = rows[id]
    BY <1>3 DEF Generate
  <2> QED BY <2>2, <2>3 DEF StartedKept
<1>4. ASSUME NEW w \in Worker, Recalculate(w) PROVE StartedKept
  <2>1. Fresh(w)
    BY DEF TurnKept
  <2>2. \A id \in DOMAIN rows : UnderWay(rows[id]) /\ ~ Bye(rows[id]) =>
            id \in DOMAIN rows' /\ Goes(w, rows[id], rows'[id], id)
    BY <1>4, <2>1, StartedGoesOn
  <2> QED BY <2>2 DEF StartedKept, Goes
<1>5. ASSUME Toss PROVE StartedKept
  <2>1. PICK id \in DOMAIN rows, b \in BOOLEAN : rows' = [rows EXCEPT ![id].tossed = b]
    BY <1>5 DEF Toss, TossUp, TossReset
  <2>2. SameBut(rows, rows')
    BY <2>1 DEF DrawInv, RowsOk, RowOk, SameBut
  <2> QED BY <2>2 DEF StartedKept, SameBut, Columns
<1>6. ASSUME NEW w \in Worker, Request(w) PROVE UNCHANGED rows
  BY <1>6, RequestReads DEF Read
<1>7. ASSUME NEW w \in Worker, Score(w) \/ SaveTeam(w) PROVE UNCHANGED rows
  BY <1>7 DEF Score, SaveTeam
<1> QED BY <1>1, <1>2, <1>3, <1>4, <1>5, <1>6, <1>7 DEF Next, Answer

\* While requests come one after another, a match that has started keeps its sides, and
\* its status and winner but for the requests about it (BracketService.sync, isUnderWay;
\* generateFixtures' refusal).
THEOREM StartedStays == TurnSpec => StartedInTurn
<1>1. TurnInv /\ [TurnNext]_turnVars => (inTurn' => StartedKept) \/ UNCHANGED turnVars
  BY StartedStep DEF TurnInv, TurnKept, TurnNext
<1>2. TurnInv /\ [TurnNext]_turnVars => [inTurn' => StartedKept]_turnVars
  BY <1>1
<1> QED BY <1>2, TurnInvInit, TurnInvNext, PTL DEF TurnSpec, StartedInTurn

----------------------------------------------------------------------------
(* Who qualified *)

\* The points of a team are a number, the matches being finitely many.
LEMMA PointsTyped ==
    ASSUME NEW rs, IsFiniteSet(DOMAIN rs), NEW t, NEW against
    PROVE  Points(rs, t, against) \in Nat
<1> DEFINE played == {id \in TableMatches(rs) : rs[id].status = "completed" /\ t \in Sides(rs[id])
                                                 /\ (Sides(rs[id]) \ {t}) \subseteq against}
           f == [id \in played |-> Worth(rs[id], t)]
<1>1. played \subseteq DOMAIN rs
  BY DEF TableMatches
<1>2. IsFiniteSet(played)
  <2> HIDE DEF played
  <2> QED BY <1>1, FS_Subset
<1>3. \A id \in played : f[id] \in Nat
  BY DEF Worth
<1>4. DOMAIN f = played /\ Points(rs, t, against) = SumFunction(f)
  BY DEF Points
<1> HIDE DEF played, f
<1>5. SumFunction(f) = SumFunctionOnSet(f, played)
  BY <1>4 DEF SumFunction
<1> QED BY <1>2, <1>3, <1>4, <1>5, SumTyped

\* The line of a team in the table.
Line(s, mini, t) == [team |-> t, points |-> Points(s.rows, t, Team), mini |-> mini[t]]

Lines(s, mini, in) == {Line(s, mini, t) : t \in in}
Ranking(G) == {d \in G \X G : Above(d[1], d[2])}

LEMMA StandingsLines ==
    ASSUME NEW s, IsFiniteSet(DOMAIN s.rows)
    PROVE  \E mini : /\ \A t \in s.approved : mini[t] \in Nat
                     /\ Standings(s) = Lines(s, mini, s.approved)
<1> DEFINE Entry(t) == [team |-> t, points |-> Points(s.rows, t, Team)]
           alone == {Entry(t) : t \in s.approved}
           Level(one) == {two.team : two \in {other \in alone : other.points = one.points}}
           mini == [t \in s.approved |-> Points(s.rows, t, Level(Entry(t)))]
<1> DEFINE Full(one) == [team |-> one.team, points |-> one.points,
                         mini |-> Points(s.rows, one.team, Level(one))]
<1>1. Standings(s) = {Full(one) : one \in alone}
  BY Zenon DEF Standings
<1>2. Standings(s) = {Line(s, mini, t) : t \in s.approved}
  <2>1. ASSUME NEW t \in s.approved PROVE Full(Entry(t)) = Line(s, mini, t)
    <3>1. Entry(t).team = t /\ Entry(t).points = Points(s.rows, t, Team)
      OBVIOUS
    <3>2. mini[t] = Points(s.rows, t, Level(Entry(t)))
      OBVIOUS
    <3> HIDE DEF Level, Entry, mini
    <3> QED BY <3>1, <3>2 DEF Line
  <2> HIDE DEF Full, Entry, mini
  <2> QED BY <1>1, <2>1
<1>3. \A t \in s.approved : mini[t] \in Nat
  BY PointsTyped
<1> QED BY <1>2, <1>3 DEF Lines

\* The lines of a table are finitely many, and Above puts them in a strict total order.
LEMMA OrderedLines ==
    ASSUME NEW s, IsFiniteSet(DOMAIN s.rows), IsFiniteSet(s.approved), s.approved \subseteq Nat,
           NEW mini, \A t \in s.approved : mini[t] \in Nat,
           NEW In \in SUBSET s.approved
    PROVE  LET G == Lines(s, mini, In)
           IN /\ IsFiniteSet(G) /\ StrictOrder(G, Ranking(G))
              /\ \A one \in G : {two \in G : Above(two, one)} = Earlier(G, Ranking(G), one)
<1> DEFINE G == Lines(s, mini, In)
           R == Ranking(G)
           f == [t \in In |-> Line(s, mini, t)]
<1>1. IsFiniteSet(G)
  <2>1. G = {f[t] : t \in In}
    BY DEF Lines
  <2>2. IsFiniteSet(In)
    BY FS_Subset
  <2> HIDE DEF f, G
  <2> QED BY <2>1, <2>2, ValuesFinite
<1>2. \A one \in G : one.team \in Nat /\ one.points \in Nat /\ one.mini \in Nat
  BY PointsTyped DEF Line, Lines
<1>3. \A one, two \in G : one.team = two.team => one = two
  BY DEF Line, Lines
<1> HIDE DEF G
<1>4. \A one, two \in G : <<one, two>> \in R <=> Above(one, two)
  BY DEF Ranking
<1> HIDE DEF R
<1>5. \A one \in G : ~ Above(one, one)
  BY <1>2 DEF Above
<1>6. \A one, two, three \in G : Above(one, two) /\ Above(two, three) => Above(one, three)
  BY <1>2 DEF Above
<1>7. \A one, two \in G : one # two => Above(one, two) \/ Above(two, one)
  BY <1>2, <1>3 DEF Above
<1>8. StrictOrder(G, R)
  BY <1>4, <1>5, <1>6, <1>7 DEF StrictOrder
<1>9. \A one \in G : {two \in G : Above(two, one)} = Earlier(G, R, one)
  BY <1>4 DEF Earlier
<1> QED BY <1>1, <1>8, <1>9 DEF G, R

\* In k-th place of a group's table is a team of the group, with fewer than k ahead of
\* it on points, and no team is in two places.
LEMMA TableOrder ==
    ASSUME NEW s, IsFiniteSet(DOMAIN s.rows), IsFiniteSet(s.approved), s.approved \subseteq Nat, NEW g
    PROVE  LET table == GroupTable(s, g)
               ahead(t) == {u \in s.approved : s.group[u] = g
                                /\ Points(s.rows, u, Team) > Points(s.rows, t, Team)}
           IN /\ \A k \in DOMAIN table :
                     /\ k \in Nat /\ table[k] \in s.approved /\ s.group[table[k]] = g
                     /\ Cardinality(ahead(table[k])) < k
              /\ \A j, k \in DOMAIN table : table[j] = table[k] => j = k
<1> DEFINE In == {t \in s.approved : s.group[t] = g}
           ahead(t) == {u \in s.approved : s.group[u] = g
                            /\ Points(s.rows, u, Team) > Points(s.rows, t, Team)}
<1>1. PICK mini : /\ \A t \in s.approved : mini[t] \in Nat
                  /\ Standings(s) = Lines(s, mini, s.approved)
  BY StandingsLines
<1> DEFINE G == Lines(s, mini, In)
           R == Ranking(G)
           order == InOrder(G, Above)
           table == GroupTable(s, g)
<1>2. {one \in Standings(s) : s.group[one.team] = g} = G
  BY <1>1 DEF Line, Lines
<1>3. /\ DOMAIN table = 1..Cardinality(G)
      /\ \A k \in DOMAIN table : table[k] = order[k].team
  <2>1. GroupTable(s, g) = [k \in DOMAIN order |-> order[k].team]
    BY <1>2, Zenon DEF GroupTable
  <2>2. DOMAIN order = 1..Cardinality(G)
    BY DEF InOrder
  <2> HIDE DEF order, G
  <2> QED BY <2>1, <2>2
<1>4. /\ IsFiniteSet(G) /\ StrictOrder(G, R)
      /\ \A one \in G : {two \in G : Above(two, one)} = Earlier(G, R, one)
  <2>1. In \in SUBSET s.approved
    OBVIOUS
  <2> HIDE DEF In
  <2> QED BY <1>1, <2>1, OrderedLines
<1>5. /\ \A one \in G : \E t \in In : one = Line(s, mini, t) /\ one.team = t
      /\ \A t \in In : Line(s, mini, t) \in G
  BY DEF Line, Lines
<1>6. ASSUME NEW k \in 1..Cardinality(G)
      PROVE  order[k] \in G /\ Cardinality(Earlier(G, R, order[k])) = k - 1
  <2>1. order[k] = CHOOSE one \in G : Cardinality({two \in G : Above(two, one)}) = k - 1
    BY DEF InOrder
  <2> HIDE DEF order, G, R
  <2>2. \E one \in G : Cardinality(Earlier(G, R, one)) = k - 1
    BY <1>4, PlaceTaken
  <2>3. \E one \in G : Cardinality({two \in G : Above(two, one)}) = k - 1
    BY <1>4, <2>2
  <2>4. order[k] \in G /\ Cardinality({two \in G : Above(two, order[k])}) = k - 1
    BY <2>1, <2>3
  <2> QED BY <1>4, <2>4
<1> HIDE DEF order, table, R, G
<1>7. Cardinality(G) \in Nat
  BY <1>4, FS_CardinalityType
<1>8. ASSUME NEW k \in DOMAIN table
      PROVE  /\ k \in Nat /\ table[k] \in In
             /\ Cardinality(ahead(table[k])) < k
  <2> DEFINE t == table[k]
             E == Earlier(G, R, order[k])
             T == {two.team : two \in E}
             h == [two \in E |-> two.team]
  <2>1. k \in Nat /\ order[k] \in G /\ Cardinality(E) = k - 1 /\ t = order[k].team
    BY <1>3, <1>6, <1>7
  <2>2. t \in In /\ order[k] = Line(s, mini, t)
    BY <1>5, <2>1
  <2>3. IsFiniteSet(E)
    <3>1. E \subseteq G
      BY DEF Earlier
    <3> QED BY <1>4, <3>1, FS_Subset
  <2>4. ahead(t) \subseteq T
    <3> SUFFICES ASSUME NEW u \in ahead(t) PROVE u \in T
      OBVIOUS
    <3> DEFINE one == Line(s, mini, u)
    <3>1. u \in In /\ Points(s.rows, u, Team) > Points(s.rows, t, Team)
      OBVIOUS
    <3>2. one \in G /\ one.team = u /\ one.points = Points(s.rows, u, Team)
      BY <1>5, <3>1 DEF Line
    <3>3. order[k].points = Points(s.rows, t, Team)
      BY <2>2 DEF Line
    <3> HIDE DEF one
    <3>4. Above(one, order[k])
      BY <3>1, <3>2, <3>3 DEF Above
    <3>5. one \in E
      <4>1. one \in {two \in G : Above(two, order[k])}
        BY <3>2, <3>4
      <4> QED BY <1>4, <2>1, <4>1
    <3> QED BY <3>2, <3>5
  <2>5. IsFiniteSet(T) /\ Cardinality(T) <= Cardinality(E)
    <3>1. T = {h[two] : two \in E}
      OBVIOUS
    <3> HIDE DEF h, T, E
    <3> QED BY <2>3, <3>1, ValuesFinite
  <2>6. Cardinality(ahead(t)) <= Cardinality(T) /\ Cardinality(ahead(t)) \in Nat /\ Cardinality(T) \in Nat
    <3> HIDE DEF ahead, T
    <3> QED BY <2>4, <2>5, FS_Subset, FS_CardinalityType
  <2> HIDE DEF ahead, T, E
  <2> QED BY <2>1, <2>2, <2>5, <2>6
<1>9. ASSUME NEW j \in DOMAIN table, NEW k \in DOMAIN table, table[j] = table[k]
      PROVE  j = k
  <2>1. /\ order[j] \in G /\ order[k] \in G /\ order[j].team = order[k].team
        /\ Cardinality(Earlier(G, R, order[j])) = j - 1
        /\ Cardinality(Earlier(G, R, order[k])) = k - 1 /\ j \in Nat /\ k \in Nat
    BY <1>3, <1>6, <1>7, <1>9
  <2>2. order[j] = order[k]
    BY <1>5, <2>1
  <2> QED BY <2>1, <2>2
<1> HIDE DEF ahead
<1>10. \A k \in DOMAIN table :
           /\ k \in Nat /\ table[k] \in s.approved /\ s.group[table[k]] = g
           /\ Cardinality(ahead(table[k])) < k
  BY <1>8
<1> QED BY <1>9, <1>10 DEF table, ahead

\* A source of a group that names a team: the group is over, the team has earned the
\* place, and no other place of any group names it.
LEMMA QualifierEarned ==
    ASSUME NEW s, IsFiniteSet(DOMAIN s.rows), IsFiniteSet(s.approved), s.approved \subseteq Nat,
           NEW src, InGroup(s, src) # NoTeam
    PROVE  LET t == InGroup(s, src)
               ahead == {u \in s.approved : s.group[u] = s.group[t]
                             /\ Points(s.rows, u, Team) > Points(s.rows, t, Team)}
           IN /\ \A j \in DOMAIN s.rows : s.rows[j].group = src.group =>
                     s.rows[j].status \in {"completed", "cancelled"}
              /\ t \in s.approved /\ s.group[t] = src.group /\ Cardinality(ahead) < src.place
<1> DEFINE t == InGroup(s, src)
           g == src.group
           table == GroupTable(s, g)
           ahead(u) == {v \in s.approved : s.group[v] = g
                            /\ Points(s.rows, v, Team) > Points(s.rows, u, Team)}
<1>1. /\ \A j \in DOMAIN s.rows : s.rows[j].group = g => s.rows[j].status \in {"completed", "cancelled"}
      /\ src.place \in DOMAIN table /\ t = table[src.place]
  BY DEF InGroup
<1>2. \A k \in DOMAIN table : /\ table[k] \in s.approved /\ s.group[table[k]] = g
                               /\ Cardinality(ahead(table[k])) < k
  BY TableOrder
<1> HIDE DEF t, table
<1>3. t \in s.approved /\ s.group[t] = g /\ Cardinality(ahead(t)) < src.place
  BY <1>1, <1>2
<1> QED BY <1>1, <1>3 DEF t

LEMMA QualifierOnce ==
    ASSUME NEW s, IsFiniteSet(DOMAIN s.rows), IsFiniteSet(s.approved), s.approved \subseteq Nat,
           NEW one, NEW two, InGroup(s, one) # NoTeam, InGroup(s, one) = InGroup(s, two)
    PROVE  one.group = two.group /\ one.place = two.place
<1>1. s.group[InGroup(s, one)] = one.group /\ s.group[InGroup(s, two)] = two.group
  BY QualifierEarned
<1> DEFINE table == GroupTable(s, one.group)
<1>2. one.group = two.group
  BY <1>1
<1>3. /\ one.place \in DOMAIN table /\ InGroup(s, one) = table[one.place]
      /\ two.place \in DOMAIN table /\ InGroup(s, two) = table[two.place]
  BY <1>2 DEF InGroup
<1>4. \A j, k \in DOMAIN table : table[j] = table[k] => j = k
  BY TableOrder
<1> HIDE DEF table
<1> QED BY <1>2, <1>3, <1>4

----------------------------------------------------------------------------
(* Qualifiers while requests come one after another *)

\* In a list every place of a group is drawn once.
RowsDrawn(rs) ==
    \A i, j \in DOMAIN rs : \A x, y \in Ends :
        rs[i].from[x].type = "group" /\ GroupEnd(rs[j].from, y, rs[i].from[x].group, rs[i].from[x].place) =>
            i = j /\ x = y

\* The rows are finitely many; while requests come one after another they are of one
\* draw, and a draw that is to replace them has read them all.
QualInv ==
    /\ TurnInv
    /\ IsFiniteSet(DOMAIN rows)
    /\ inTurn => /\ RowsDrawn(rows)
                 /\ \A w \in Worker : request[w].op = "generate" /\ request[w].phase = "act" =>
                                          DOMAIN rows \subseteq request[w].was

LEMMA DrawnSame ==
    ASSUME NEW rs, NEW new, SameDraw(rs, new), RowsDrawn(rs)
    PROVE  RowsDrawn(new)
BY DEF SameDraw, RowsDrawn, GroupEnd

\* Every step but a draw keeps the list as it is drawn.
LEMMA StepDraw ==
    ASSUME DrawInv, Next, \A w \in Worker : ~ Generate(w)
    PROVE  SameDraw(rows, rows')
<1>0. ASSUME UNCHANGED rows PROVE SameDraw(rows, rows')
  BY <1>0 DEF SameDraw
<1>1. ASSUME NEW w \in Worker, Request(w) PROVE UNCHANGED rows
  BY <1>1, RequestReads DEF Read
<1>2. ASSUME NEW w \in Worker, Save(w) PROVE SameDraw(rows, rows')
  BY <1>2, OwnOk DEF Save, About, RowOps
<1>3. ASSUME NEW w \in Worker, Score(w) \/ SaveTeam(w) PROVE UNCHANGED rows
  BY <1>3 DEF Score, SaveTeam
<1>4. ASSUME NEW w \in Worker, Recalculate(w) PROVE SameDraw(rows, rows')
  BY <1>4, RecalculateOk
<1>5. ASSUME Toss PROVE SameDraw(rows, rows')
  <2>1. PICK id \in DOMAIN rows, b \in BOOLEAN : rows' = [rows EXCEPT ![id].tossed = b]
    BY <1>5 DEF Toss, TossUp, TossReset
  <2>2. SameBut(rows, rows')
    BY <2>1 DEF DrawInv, RowsOk, RowOk, SameBut
  <2> QED BY <2>2, SameButDraw
<1> QED BY <1>0, <1>1, <1>2, <1>3, <1>4, <1>5 DEF Next, Answer

\* A draw is of finitely many fixtures, and of nothing else where it deletes all.
LEMMA GenerateDrawn ==
    ASSUME DrawInv, IsFiniteSet(DOMAIN rows), NEW w \in Worker, Generate(w)
    PROVE  /\ IsFiniteSet(DOMAIN rows')
           /\ DOMAIN rows \subseteq request[w].was => RowsDrawn(rows')
<1> DEFINE r == request[w]
           d == r.want.draw
           n == Len(lists) + 1
           new == Build(d.format, r.want.teams, d.groups, d.double)
           kept == DOMAIN rows \ r.was
           Row(id) == CHOOSE m \in new : id = <<n, m.round, m.pos>>
           ids == {<<n, m.round, m.pos>> : m \in new}
           key == [m \in new |-> <<n, m.round, m.pos>>]
<1>1. rows' = [id \in kept \union ids |-> IF id \in kept THEN rows[id] ELSE Row(id)]
  BY DEF Generate
<1>2. d \in Draws /\ \E k \in Nat : k >= 2 /\ Teams(r.want.teams, k)
  BY DEF Generate, About, DrawInv, Requests, RequestOk
<1>3. d.format \in Formats /\ d.groups \in Nat
  BY <1>2, BracketAssumption
<1>4. IsFiniteSet(new) /\ DrawnOnce(new)
  <2>1. PICK k \in Nat : k >= 2 /\ r.want.teams = [i \in 1..k |-> r.want.teams[i]]
    BY <1>2 DEF Teams
  <2>2. DOMAIN r.want.teams = 1..k
    BY <2>1
  <2>3. IsFiniteSet(new)
    BY <1>3, <2>1, BuildFinite
  <2>4. DrawnOnce(new)
    BY <1>3, <2>1, <2>2, BuildDrawn
  <2> QED BY <2>3, <2>4
<1> HIDE DEF new, n
<1>5. ids = {key[m] : m \in new}
  OBVIOUS
<1>6. \A id \in ids : Row(id) \in new /\ id = <<n, Row(id).round, Row(id).pos>>
  OBVIOUS
<1> HIDE DEF Row, key
<1>7. IsFiniteSet(ids)
  BY <1>4, <1>5, ValuesFinite
<1> HIDE DEF ids
<1>8. IsFiniteSet(DOMAIN rows')
  <2>1. IsFiniteSet(kept)
    BY FS_Subset
  <2>2. DOMAIN rows' = kept \union ids
    BY <1>1
  <2> HIDE DEF kept
  <2> QED BY <1>7, <2>1, <2>2, FS_Union
<1>9. ASSUME DOMAIN rows \subseteq r.was PROVE RowsDrawn(rows')
  <2>1. DOMAIN rows' = ids /\ \A id \in ids : rows'[id] = Row(id)
    BY <1>1, <1>9
  <2>2. ASSUME NEW i \in ids, NEW j \in ids, NEW x \in Ends, NEW y \in Ends, Row(i).from[x].type = "group",
               GroupEnd(Row(j).from, y, Row(i).from[x].group, Row(i).from[x].place)
        PROVE  i = j /\ x = y
    <3>1. Row(i).round = Row(j).round /\ Row(i).pos = Row(j).pos /\ x = y
      BY <1>4, <1>6, <2>2 DEF DrawnOnce
    <3> QED BY <1>6, <3>1
  <2> QED BY <2>1, <2>2 DEF RowsDrawn
<1> QED BY <1>8, <1>9

LEMMA QualInit == TurnInit => QualInv
<1> SUFFICES ASSUME TurnInit PROVE QualInv
  OBVIOUS
<1>1. rows = <<>> /\ \A w \in Worker : request[w] = NoRequest
  BY DEF TurnInit, Init
<1>2. DOMAIN rows = {}
  BY <1>1
<1>3. RowsDrawn(rows) /\ IsFiniteSet(DOMAIN rows)
  BY <1>2, FS_EmptySet DEF RowsDrawn
<1> QED BY <1>1, <1>3, TurnInvInit DEF QualInv, NoRequest

\* A draw that is to be made has been read just now, or before.
LEMMA DrawRead ==
    ASSUME Requests, Next, NEW v \in Worker, request'[v].op = "generate", request'[v].phase = "act"
    PROVE  \/ request'[v] = request[v]
           \/ request'[v].was = DOMAIN rows
<1>1. ASSUME NEW w \in Worker, Request(w), request'[v] # request[v]
      PROVE  request'[v].was = DOMAIN rows
  <2>1. PICK op, id, was, want :
            Read(w, op, id, was, want) /\ (op = "generate" => was = DOMAIN rows)
    BY <1>1, RequestReads
  <2>2. v = w /\ request'[v].op = op /\ request'[v].was = was
    BY <1>1, <2>1 DEF Read, Requests
  <2> QED BY <2>1, <2>2
<1>2. ASSUME NEW w \in Worker, Answer(w)
      PROVE  request'[v] = request[v]
  <2>1. (\E rs, in, gs : Acted(w, rs, in, gs)) \/ Done(w)
    BY <1>2 DEF Answer, Save, Score, SaveTeam, Generate, Recalculate
  <2>2. CASE Done(w)
    BY <2>2 DEF Done, Requests, NoRequest
  <2>3. CASE \E rs, in, gs : Acted(w, rs, in, gs)
    BY <2>3 DEF Acted, Requests, RequestOk, RequestFields
  <2> QED BY <2>1, <2>2, <2>3
<1>3. ASSUME Toss PROVE request' = request
  BY <1>3 DEF Toss, TossUp, TossReset
<1> QED BY <1>1, <1>2, <1>3 DEF Next

LEMMA QualNext == QualInv /\ [TurnNext]_turnVars => QualInv'
<1> SUFFICES ASSUME QualInv, [TurnNext]_turnVars PROVE QualInv'
  OBVIOUS
<1>1. TurnInv /\ TurnInv' /\ DrawInv /\ Requests
  BY TurnInvNext DEF QualInv, TurnInv, DrawInv
<1>2. CASE UNCHANGED turnVars
  BY <1>1, <1>2 DEF QualInv, turnVars, vars
<1>3. CASE TurnNext /\ \A w \in Worker : ~ Generate(w)
  <2>1. Next /\ (inTurn' => inTurn)
    BY <1>3 DEF TurnNext
  <2>2. SameDraw(rows, rows')
    BY <1>1, <1>3, <2>1, StepDraw
  <2>3. DOMAIN rows' = DOMAIN rows
    BY <2>2 DEF SameDraw
  <2>4. ASSUME inTurn' PROVE RowsDrawn(rows')
    BY <2>1, <2>2, <2>4, DrawnSame DEF QualInv
  <2>5. ASSUME inTurn', NEW v \in Worker, request'[v].op = "generate", request'[v].phase = "act"
        PROVE  DOMAIN rows' \subseteq request'[v].was
    BY <1>1, <2>1, <2>3, <2>5, DrawRead DEF QualInv
  <2> QED BY <1>1, <2>3, <2>4, <2>5 DEF QualInv
<1>4. ASSUME TurnNext, NEW w \in Worker, Generate(w) PROVE QualInv'
  <2>1. IsFiniteSet(DOMAIN rows')
    BY <1>1, <1>4, GenerateDrawn DEF QualInv
  <2>2. /\ request[w].op = "generate" /\ request[w].phase = "act"
        /\ Acted(w, rows', approved, group')
    BY <1>4 DEF Generate, About
  <2>3. ASSUME inTurn' PROVE RowsDrawn(rows')
    <3>1. inTurn
      BY <1>4, <2>3 DEF TurnNext
    <3>2. DOMAIN rows \subseteq request[w].was
      BY <2>2, <3>1 DEF QualInv
    <3> QED BY <1>1, <1>4, <3>2, GenerateDrawn DEF QualInv
  <2>4. ASSUME inTurn', NEW v \in Worker, request'[v].op = "generate", request'[v].phase = "act"
        PROVE  FALSE
    <3>1. inTurn /\ Alone
      BY <1>1, <1>4, <2>4 DEF TurnNext, TurnInv
    <3>2. ~ Idle(w)
      BY <2>2 DEF Idle
    <3>3. v # w => request'[v] = request[v] /\ request[v].phase # "act"
      BY <1>1, <2>2, <3>1, <3>2, OthersIdle DEF Acted, Requests
    <3>4. request'[w].phase = "refill"
      BY <1>1, <2>2 DEF Acted, Requests, RequestOk, RequestFields
    <3> QED BY <2>4, <3>3, <3>4
  <2> QED BY <1>1, <2>1, <2>3, <2>4 DEF QualInv
<1> QED BY <1>2, <1>3, <1>4

\* A side drawn from a group shows what the group says.
LEMMA GroupShown ==
    ASSUME Settled(Now), NEW id \in DOMAIN rows, NEW x \in Ends, rows[id].from[x].type = "group",
           Bye(rows[id]) \/ ~ UnderWay(rows[id])
    PROVE  rows[id][x] = InGroup(Now, rows[id].from[x])
<1> DEFINE row == rows[id]
<1>1. Now.rows = rows
  BY DEF Now
<1>2. Resolve(Now, id[1], row.from[x]) = InGroup(Now, row.from[x])
  BY DEF Resolve
<1>3. row.from[x] # NoSource
  BY SourceTypes
<1>4. CASE Bye(row)
  <2>1. ByeSide(row) = x
    BY <1>3, <1>4 DEF Bye, IsBye, ByeSide, Ends
  <2> QED BY <1>1, <1>2, <1>4, <2>1 DEF Settled
<1>5. CASE ~ Bye(row)
  <2>1. row[x] = Resolve(Now, id[1], row.from[x])
    BY <1>1, <1>5 DEF Settled, Ends
  <2> QED BY <1>2, <2>1
<1> QED BY <1>4, <1>5

\* While requests come one after another, who stands in a fixture as first or second of
\* a group has earned it: the group is over, he is entered and of the group, with fewer
\* than that many others ahead of him on points, and stands nowhere else as a qualifier
\* (BracketService.groupPosition, rankStandings' table, bracket and avoidSameGroupTies,
\* which draw every place once).
THEOREM QualifiersEarn == TurnSpec => []QualifiersInTurn
<1>1. QualInv => QualifiersInTurn
  <2> SUFFICES ASSUME QualInv, inTurn, Quiet, approved # {} PROVE QualifiersEarnedIt
    BY DEF QualifiersInTurn, QualifiersEarnedIt
  <2>1. Settled(Now) /\ RowsDrawn(rows)
    <3>1. \A w \in Worker : request[w].phase # "refill"
      BY DEF Quiet, Idle, QualInv, TurnInv, DrawInv, Requests, RequestOk
    <3> QED BY <3>1 DEF QualInv, TurnInv, SettledBetween
  <2>2. /\ Now.rows = rows /\ Now.approved = approved /\ Now.group = group
        /\ IsFiniteSet(DOMAIN Now.rows) /\ IsFiniteSet(Now.approved) /\ Now.approved \subseteq Nat
    <3>1. approved \subseteq Team
      BY DEF QualInv, TurnInv, DrawInv
    <3>2. IsFiniteSet(approved) /\ approved \subseteq Nat
      BY <3>1, BracketAssumption, FS_Subset
    <3> QED BY <3>2 DEF Now, QualInv
  <2> DEFINE ahead(t) == {u \in approved : group[u] = group[t] /\ Points(rows, u, Team) > Points(rows, t, Team)}
             Stands(i, x, t) == /\ rows[i][x] = t /\ rows[i].from[x].type = "group"
                                /\ Bye(rows[i]) \/ ~ UnderWay(rows[i])
             Earned(i, x, t) ==
                 /\ \A j \in DOMAIN rows : rows[j].group = rows[i].from[x].group =>
                        rows[j].status \in {"completed", "cancelled"}
                 /\ t \in approved /\ group[t] = rows[i].from[x].group
                 /\ Cardinality(ahead(t)) < rows[i].from[x].place
  <2>3. ASSUME NEW i \in DOMAIN rows, NEW x \in Ends, NEW t, Stands(i, x, t), t # NoTeam
        PROVE  Earned(i, x, t)
    <3>1. t = InGroup(Now, rows[i].from[x])
      BY <2>1, <2>3, GroupShown
    <3> DEFINE src == rows[i].from[x]
    <3>2. InGroup(Now, src) # NoTeam
      BY <2>3, <3>1
    <3> HIDE DEF src
    <3>3. LET q == InGroup(Now, src)
              before == {u \in Now.approved : Now.group[u] = Now.group[q]
                             /\ Points(Now.rows, u, Team) > Points(Now.rows, q, Team)}
          IN /\ \A j \in DOMAIN Now.rows : Now.rows[j].group = src.group =>
                    Now.rows[j].status \in {"completed", "cancelled"}
             /\ q \in Now.approved /\ Now.group[q] = src.group /\ Cardinality(before) < src.place
      BY <2>2, <3>2, QualifierEarned
    <3> QED BY <2>2, <3>1, <3>3 DEF src
  <2>4. ASSUME NEW i \in DOMAIN rows, NEW j \in DOMAIN rows, NEW x \in Ends, NEW y \in Ends, NEW t,
               Stands(i, x, t), Stands(j, y, t), t # NoTeam
        PROVE  i = j /\ x = y
    <3> DEFINE one == rows[i].from[x]
               two == rows[j].from[y]
    <3>1. t = InGroup(Now, one) /\ t = InGroup(Now, two)
      BY <2>1, <2>4, GroupShown
    <3> HIDE DEF one, two
    <3>2. one.group = two.group /\ one.place = two.place
      <4>1. InGroup(Now, one) # NoTeam /\ InGroup(Now, one) = InGroup(Now, two)
        BY <2>4, <3>1
      <4> HIDE DEF Stands
      <4> QED BY <2>2, <4>1, QualifierOnce
    <3>3. GroupEnd(rows[j].from, y, one.group, one.place) /\ rows[i].from[x].type = "group"
      BY <2>4, <3>2 DEF GroupEnd, two
    <3> QED BY <2>1, <3>3 DEF RowsDrawn, one
  <2> HIDE DEF ahead
  <2>5. ASSUME NEW i \in DOMAIN rows, NEW x \in Ends, rows[i].from[x].type = "group", rows[i][x] # NoTeam,
               Bye(rows[i]) \/ ~ UnderWay(rows[i])
        PROVE  /\ Earned(i, x, rows[i][x])
               /\ \A j \in DOMAIN rows, y \in Ends : Stands(j, y, rows[i][x]) => j = i /\ y = x
    <3>1. Stands(i, x, rows[i][x])
      BY <2>5
    <3> HIDE DEF Stands, Earned
    <3>2. Earned(i, x, rows[i][x])
      BY <2>3, <2>5, <3>1
    <3>3. \A j \in DOMAIN rows, y \in Ends : Stands(j, y, rows[i][x]) => j = i /\ y = x
      BY <2>4, <2>5, <3>1
    <3> QED BY <3>2, <3>3
  <2>6. Ends = {"a", "b"}
    BY DEF Ends
  <2> SUFFICES ASSUME NEW i \in DOMAIN rows, NEW x \in {"a", "b"}, rows[i].from[x].type = "group",
                      rows[i][x] # NoTeam, Bye(rows[i]) \/ ~ UnderWay(rows[i])
               PROVE  /\ \A j \in DOMAIN rows : rows[j].group = rows[i].from[x].group =>
                             rows[j].status \in {"completed", "cancelled"}
                      /\ rows[i][x] \in approved /\ group[rows[i][x]] = rows[i].from[x].group
                      /\ Cardinality(ahead(rows[i][x])) < rows[i].from[x].place
                      /\ \A j \in DOMAIN rows, y \in {"a", "b"} :
                             rows[j][y] = rows[i][x] /\ rows[j].from[y].type = "group"
                             /\ (Bye(rows[j]) \/ ~ UnderWay(rows[j])) => <<j, y>> = <<i, x>>
    BY Zenon DEF QualifiersEarnedIt, ahead
  <2> QED BY <2>5, <2>6
<1> QED BY <1>1, QualInit, QualNext, PTL DEF TurnSpec

----------------------------------------------------------------------------
(* The list that is being played *)

\* F is what the l-th draw promises.
OfDraw(F, l) == Fair(F, lists[l].draw.format, lists[l].draw.double, lists[l].teams, Groups(l))

\* Who meets once is counted once.
LEMMA OneMeeting ==
    ASSUME NEW F, IsFiniteSet(F), NEW T, NEW t \in T, NEW u \in T, t # u
    PROVE  LET Met(x, y) == {m \in F : m.round = 0 /\ m.a = x /\ m.b = y}
           IN /\ MeetEach(F, T) => Cardinality(Met(t, u)) = 1
              /\ MeetOnce(F, T) => Cardinality(Met(t, u)) + Cardinality(Met(u, t)) = 1
<1> DEFINE Met(x, y) == {m \in F : m.round = 0 /\ m.a = x /\ m.b = y}
<1>1. ASSUME NEW x, NEW y, NEW m \in Met(x, y), \A k \in Met(x, y) : k = m
      PROVE  Cardinality(Met(x, y)) = 1
  <2>1. Met(x, y) = {m}
    <3> HIDE DEF Met
    <3> QED BY <1>1
  <2> HIDE DEF Met
  <2> QED BY <2>1, FS_Singleton
<1>2. ASSUME MeetEach(F, T) PROVE Cardinality(Met(t, u)) = 1
  <2>1. PICK m \in F : m.round = 0 /\ m.a = t /\ m.b = u
    BY <1>2 DEF MeetEach
  <2>2. m \in Met(t, u)
    BY <2>1
  <2>3. \A k \in Met(t, u) : k = m
    <3> TAKE k \in Met(t, u)
    <3>1. k \in F /\ k.round = 0 /\ k.a = t /\ k.b = u
      OBVIOUS
    <3>2. \A x, y \in F : x.round = 0 /\ y.round = 0 /\ x.a = y.a /\ x.b = y.b /\ x.a \in T /\ x.b \in T => x = y
      BY <1>2, Zenon DEF MeetEach
    <3>3. k.a = m.a /\ k.b = m.b /\ k.a \in T /\ k.b \in T
      BY <2>1, <3>1
    <3> HIDE DEF Met
    <3> QED BY <2>1, <3>1, <3>2, <3>3
  <2> HIDE DEF Met
  <2> QED BY <1>1, <2>2, <2>3
<1>3. ASSUME MeetOnce(F, T) PROVE Cardinality(Met(t, u)) + Cardinality(Met(u, t)) = 1
  <2>1. PICK m \in F : m.round = 0 /\ {m.a, m.b} = {t, u}
    BY <1>3 DEF MeetOnce
  <2>2. \A k \in F : k.round = 0 /\ {k.a, k.b} = {t, u} => k = m
    <3> SUFFICES ASSUME NEW k \in F, k.round = 0, {k.a, k.b} = {t, u} PROVE k = m
      OBVIOUS
    <3>1. \A x, y \in F : x.round = 0 /\ y.round = 0 /\ {x.a, x.b} = {y.a, y.b} /\ x.a \in T /\ x.b \in T => x = y
      BY <1>3, Zenon DEF MeetOnce
    <3>2. k.a \in T /\ k.b \in T /\ {k.a, k.b} = {m.a, m.b}
      BY <2>1
    <3> QED BY <2>1, <3>1, <3>2
  <2>3. ASSUME NEW x, NEW y, {x, y} = {t, u}, m.a = x, m.b = y
        PROVE  Cardinality(Met(x, y)) = 1 /\ Cardinality(Met(y, x)) = 0
    <3>1. x # y
      BY <2>3
    <3>2. m \in Met(x, y) /\ \A k \in Met(x, y) : k = m
      BY <2>1, <2>2, <2>3
    <3>3. Met(y, x) = {}
      <4> SUFFICES ASSUME NEW k \in Met(y, x) PROVE FALSE
        OBVIOUS
      <4>1. k \in F /\ k.round = 0 /\ k.a = y /\ k.b = x
        OBVIOUS
      <4>2. {k.a, k.b} = {t, u}
        BY <2>3, <4>1
      <4>3. k = m
        BY <2>2, <4>1, <4>2
      <4> QED BY <2>3, <3>1, <4>1, <4>3
    <3> HIDE DEF Met
    <3> QED BY <1>1, <3>2, <3>3, FS_EmptySet
  <2>4. (m.a = t /\ m.b = u) \/ (m.a = u /\ m.b = t)
    BY <2>1
  <2> HIDE DEF Met
  <2>5. CASE m.a = t /\ m.b = u
    <3>1. Cardinality(Met(t, u)) = 1 /\ Cardinality(Met(u, t)) = 0
      BY <2>3, <2>5
    <3> QED BY <3>1
  <2>6. CASE m.a = u /\ m.b = t
    <3>1. Cardinality(Met(u, t)) = 1 /\ Cardinality(Met(t, u)) = 0
      BY <2>3, <2>6
    <3> QED BY <3>1
  <2> QED BY <2>4, <2>5, <2>6
<1> QED BY <1>2, <1>3

\* Of a fair list: who meets whom.
LEMMA ListMeets ==
    ASSUME NEW l, NEW n \in Nat, n >= 2, Teams(lists[l].teams, n),
           lists[l].draw.format \in Formats, lists[l].draw.format # "knockout", lists[l].draw.groups \in Nat,
           IsFiniteSet(Fixtures(l)), OfDraw(Fixtures(l), l)
    PROVE  EveryoneMeets(l)
<1> DEFINE F == Fixtures(l)
           format == lists[l].draw.format
           double == lists[l].draw.double
           teams == lists[l].teams
           groups == Groups(l)
           tables == Tables(l)
           Met(x, y) == {m \in F : m.round = 0 /\ m.a = x /\ m.b = y}
           Meetings(t, u) == Cardinality({m \in OfTable(l) : m.a = t /\ m.b = u})
           In(g) == ToSet(tables[g])
<1>1. PICK c \in Nat \ {0} : 2 * c <= n /\ Shares(groups, c, n)
  BY GroupsShare DEF Groups
<1>2. Fair(F, format, double, teams, groups)
  BY DEF OfDraw
<1>3. /\ format = "league" => IF double THEN MeetEach(F, ToSet(teams)) ELSE MeetOnce(F, ToSet(teams))
      /\ format \in {"group_stage", "league_knockout"} => \A g \in DOMAIN groups : MeetOnce(F, ToSet(groups[g]))
      /\ \A m \in F : m.round \in Nat
  BY <1>2, Zenon DEF Fair, Placed
<1>4. \A t, u : Meetings(t, u) = Cardinality(Met(t, u))
  <2> TAKE t, u
  <2>1. {m \in OfTable(l) : m.a = t /\ m.b = u} = Met(t, u)
    <3>1. \A m \in F : m.round > 0 <=> m.round # 0
      BY <1>3
    <3> QED BY <3>1 DEF OfTable, InBracket
  <2> HIDE DEF Met
  <2> QED BY <2>1
<1>5. IsFiniteSet(F)
  OBVIOUS
<1> HIDE DEF F, Met, Meetings
<1>6. ASSUME NEW T, NEW t \in T, NEW u \in T, t # u
      PROVE  /\ MeetEach(F, T) => Meetings(t, u) = 1
             /\ MeetOnce(F, T) => Meetings(t, u) + Meetings(u, t) = 1
  <2>1. /\ MeetEach(F, T) => Cardinality(Met(t, u)) = 1
        /\ MeetOnce(F, T) => Cardinality(Met(t, u)) + Cardinality(Met(u, t)) = 1
    BY <1>5, <1>6, OneMeeting DEF Met
  <2> QED BY <1>4, <2>1
<1>7. CASE format = "league"
  <2>1. tables = <<teams>>
    BY <1>7 DEF Tables
  <2>2. DOMAIN tables = {1} /\ tables[1] = teams
    BY <2>1
  <2>3. \A g \in DOMAIN tables : \A t, u \in In(g) : t # u =>
            IF format = "league" /\ double THEN Meetings(t, u) = 1 ELSE Meetings(t, u) + Meetings(u, t) = 1
    <3> SUFFICES ASSUME NEW t \in ToSet(teams), NEW u \in ToSet(teams), t # u
                 PROVE  IF double THEN Meetings(t, u) = 1 ELSE Meetings(t, u) + Meetings(u, t) = 1
      BY <1>7, <2>2
    <3> QED BY <1>3, <1>6, <1>7
  <2>4. \A g, h \in DOMAIN tables : g = h
    BY <2>2
  <2> HIDE DEF tables
  <2> QED BY <2>3, <2>4 DEF EveryoneMeets, Meetings, tables
<1>8. CASE format # "league"
  <2>1. format \in {"group_stage", "league_knockout"}
    BY <1>8 DEF Formats
  <2>2. tables = groups
    BY <1>8 DEF Tables
  <2>3. DOMAIN groups = 1..c
    BY <1>1 DEF Shares
  <2>4. ASSUME NEW g \in DOMAIN tables, NEW t \in In(g), NEW u \in In(g), t # u
        PROVE  Meetings(t, u) + Meetings(u, t) = 1
    <3>1. MeetOnce(F, In(g))
      BY <1>3, <2>1, <2>2
    <3> HIDE DEF In
    <3> QED BY <1>6, <2>4, <3>1
  <2>5. ASSUME NEW g \in DOMAIN tables, NEW h \in DOMAIN tables, g # h
        PROVE  In(g) \intersect In(h) = {} /\ Len(tables[g]) >= 2 /\ Len(tables[g]) - Len(tables[h]) < 2
    <3>1. /\ ToSet(groups[g]) \intersect ToSet(groups[h]) = {} /\ Len(groups[g]) - Len(groups[h]) < 2
          /\ Len(groups[g]) \in 2..n
      BY <1>1, <2>2, <2>3, <2>5 DEF Shares
    <3> DEFINE a == Len(groups[g])
    <3>2. a \in 2..n
      BY <3>1
    <3> HIDE DEF a
    <3>3. a >= 2
      BY <3>2
    <3> QED BY <2>2, <3>1, <3>3 DEF a
  <2>6. \A g \in DOMAIN tables : \A t, u \in In(g) : t # u =>
            IF format = "league" /\ double THEN Meetings(t, u) = 1 ELSE Meetings(t, u) + Meetings(u, t) = 1
    BY <1>8, <2>4
  <2>7. \A g, h \in DOMAIN tables : g # h =>
            In(g) \intersect In(h) = {} /\ Len(tables[g]) >= 2 /\ Len(tables[g]) - Len(tables[h]) < 2
    BY <2>5
  <2> HIDE DEF tables
  <2> QED BY <2>6, <2>7, Zenon DEF EveryoneMeets, Meetings, tables
<1> QED BY <1>7, <1>8

\* When.
LEMMA ListApart ==
    ASSUME NEW l, OfDraw(Fixtures(l), l)
    PROVE  DaysApart(l)
<1> DEFINE F == Fixtures(l)
<1>1. DayApart(F) /\ Placed(F)
  BY Zenon DEF OfDraw, Fair
<1>2. \A m \in F : m.round \in Nat
  BY <1>1 DEF Placed
<1> HIDE DEF F
<1>3. OfTable(l) = {m \in F : m.round = 0} /\ F \ OfTable(l) = {m \in F : m.round # 0}
  <2>1. \A m \in F : m.round > 0 <=> m.round # 0
    BY <1>2
  <2> QED BY <2>1 DEF OfTable, InBracket, F
<1>4. \A m, k \in OfTable(l) : m # k /\ m.day = k.day => Sides(m) \intersect Sides(k) = {}
  BY <1>1, <1>3 DEF DayApart, Sides
<1>5. \A m \in OfTable(l), k \in F \ OfTable(l) : m.day < k.day
  BY <1>1, <1>3 DEF Placed
<1> QED BY <1>4, <1>5 DEF DaysApart, F

\* The first round, counted.
LEMMA FirstFair ==
    ASSUME NEW first, NEW seeds, NEW n \in Nat, n >= 2, Len(seeds) = n, DOMAIN seeds = 1..n, NEW H \in Nat,
           H < n, n <= 2 * H, H = 1 \/ H % 2 = 0,
           \A m \in first : m.round = 1, Keyed(first), Opening(first, seeds, n, H)
    PROVE  LET half == Cardinality(first) \div 2
               DrawnIn(s) == {m \in first : s \in {m.from.a, m.from.b}}
               byes == 2 * Cardinality(first) - Len(seeds)
           IN /\ \A k \in DOMAIN seeds : Cardinality(DrawnIn(seeds[k])) = 1
              /\ \A k \in DOMAIN seeds : (\E m \in DrawnIn(seeds[k]) : Bye(m)) <=> k <= byes
              /\ half > 0 =>
                    /\ \A m \in DrawnIn(seeds[1]), k \in DrawnIn(seeds[2]) : (m.pos <= half) # (k.pos <= half)
                    /\ \A m \in first : ~ SameGroup(m.from.a, m.from.b)
<1> DEFINE DrawnIn(s) == {m \in first : s \in {m.from.a, m.from.b}}
<1>1. /\ \A m \in first : m.pos \in 1..H /\ m.from.a # NoSource
      /\ \A p \in 1..H : \E m \in first : m.pos = p
  BY DEF Opening
<1>2. Cardinality(first) = H
  <2> DEFINE f == [m \in first |-> m.pos]
  <2>1. f \in [first -> 1..H]
    BY <1>1
  <2>2. \A m, k \in first : f[m] = f[k] => m = k
    BY DEF Keyed
  <2>3. \A p \in 1..H : \E m \in first : f[m] = p
    BY <1>1
  <2> HIDE DEF f
  <2>4. f \in Injection(first, 1..H) /\ f \in Surjection(first, 1..H)
    BY <2>1, <2>2, <2>3 DEF Injection, IsInjective, Surjection
  <2>5. IsFiniteSet(1..H) /\ Cardinality(1..H) = H
    BY FS_Interval
  <2>6. Cardinality(first) = Cardinality(1..H)
    BY <2>4, <2>5, FS_Injection
  <2> QED BY <2>5, <2>6
<1>3. \A m \in first : \A s : m \in DrawnIn(s) <=> Holding(m, s)
  BY DEF Holding
<1>4. \A s : DrawnIn(s) \subseteq first
  OBVIOUS
<1> HIDE DEF DrawnIn
<1>5. ASSUME NEW k \in 1..n PROVE \E m \in first : DrawnIn(seeds[k]) = {m}
  <2>1. PICK m \in first : Holding(m, seeds[k])
    BY DEF Opening
  <2>2. \A j \in first : Holding(j, seeds[k]) => j = m
    <3> SUFFICES ASSUME NEW j \in first, Holding(j, seeds[k]) PROVE j = m
      OBVIOUS
    <3>1. j.pos = m.pos
      BY <2>1 DEF Opening
    <3> QED BY <3>1 DEF Keyed
  <2> QED BY <1>3, <1>4, <2>1, <2>2
<1>6. ASSUME NEW k \in 1..n PROVE Cardinality(DrawnIn(seeds[k])) = 1
  <2>1. PICK m \in first : DrawnIn(seeds[k]) = {m}
    BY <1>5
  <2> QED BY <2>1, FS_Singleton
<1>7. \A m \in first : Bye(m) <=> m.from.b = NoSource
  BY <1>1 DEF Bye, IsBye
<1>8. ASSUME NEW k \in 1..n PROVE (\E m \in DrawnIn(seeds[k]) : Bye(m)) <=> k <= 2 * H - n
  <2>1. PICK m \in first : DrawnIn(seeds[k]) = {m}
    BY <1>5
  <2>2. Holding(m, seeds[k])
    BY <1>3, <2>1
  <2>3. m.from.b = NoSource <=> k <= 2 * H - n
    BY <2>2 DEF Opening
  <2> QED BY <1>7, <2>1, <2>3
<1>9. ASSUME H \div 2 > 0
      PROVE  /\ \A m \in DrawnIn(seeds[1]), k \in DrawnIn(seeds[2]) : (m.pos <= H \div 2) # (k.pos <= H \div 2)
             /\ \A m \in first : ~ SameGroup(m.from.a, m.from.b)
  <2>1. H >= 2
    BY <1>9
  <2>2. \A m \in first : /\ Holding(m, seeds[1]) => m.pos <= H \div 2
                         /\ Holding(m, seeds[2]) => m.pos > H \div 2
                         /\ ~ SameGroup(m.from.a, m.from.b)
    BY <2>1 DEF Opening
  <2>3. ASSUME NEW m \in DrawnIn(seeds[1]), NEW k \in DrawnIn(seeds[2])
        PROVE  (m.pos <= H \div 2) # (k.pos <= H \div 2)
    <3>1. m.pos <= H \div 2
      BY <1>3, <1>4, <2>2
    <3>2. k.pos > H \div 2 /\ k.pos \in 1..H
      BY <1>1, <1>3, <1>4, <2>2
    <3>3. ~ k.pos <= H \div 2
      BY <3>2
    <3> QED BY <3>1, <3>3
  <2> QED BY <2>2, <2>3
<1>10. 2 * Cardinality(first) - Len(seeds) = 2 * H - n /\ Cardinality(first) \div 2 = H \div 2
  BY <1>2
<1> QED BY <1>6, <1>8, <1>9, <1>10 DEF DrawnIn

\* The first round of its bracket.
LEMMA ListOpens ==
    ASSUME NEW l, NEW n \in Nat, n >= 2, Teams(lists[l].teams, n),
           lists[l].draw.format \in Formats, lists[l].draw.groups \in Nat, OfDraw(Fixtures(l), l)
    PROVE  BracketFair(l)
<1> DEFINE F == Fixtures(l)
           format == lists[l].draw.format
           double == lists[l].draw.double
           teams == lists[l].teams
           groups == Groups(l)
           first == FirstRound(l)
           count == Len(groups)
           knockout == [k \in DOMAIN teams |-> Direct(teams[k])]
           seeds == IF format = "knockout" THEN knockout
                    ELSE [k \in 1..(2 * count) |-> IF k <= count THEN Place(k, 1) ELSE Place(k - count, 2)]
<1>1. PICK c \in Nat \ {0} : 2 * c <= n /\ Shares(groups, c, n)
  BY GroupsShare DEF Groups
<1>2. count \in Nat \ {0}
  BY <1>1 DEF Shares
<1>3. Fair(F, format, double, teams, groups)
  BY DEF OfDraw
<1>4. /\ Keyed(F)
      /\ format = "knockout" => Opening(F, knockout, Len(teams), Half(Len(teams)))
      /\ format = "league_knockout" => Opening(F, Qualifiers(count), 2 * count, Half(2 * count))
      /\ format \in {"league", "group_stage"} => \A m \in F : m.round = 0
  BY <1>3, Zenon DEF Fair
<1>5. first = {m \in F : m.round = 1}
  BY DEF FirstRound
<1>6. Len(teams) = n /\ DOMAIN teams = 1..n
  BY LengthOf DEF Teams
<1> HIDE DEF F, first, groups
<1>7. \A s, k, h : Opening(F, s, k, h) => Opening(first, s, k, h)
  <2> SUFFICES ASSUME NEW s, NEW k, NEW h, Opening(F, s, k, h) PROVE Opening(first, s, k, h)
    OBVIOUS
  <2>1. \A m \in first : m \in F /\ m.round = 1
    BY <1>5
  <2>2. \A m \in F : m.round = 1 => m \in first
    BY <1>5
  <2> QED BY <2>1, <2>2 DEF Opening
<1>8. Keyed(first) /\ \A m \in first : m.round = 1
  BY <1>4, <1>5 DEF Keyed
<1>9. ASSUME first # {}
      PROVE  \E k \in Nat : /\ k >= 2 /\ Opening(first, seeds, k, Half(k)) /\ DOMAIN seeds = 1..k /\ Len(seeds) = k
  <2>1. CASE format = "knockout"
    <3>1. seeds = knockout /\ DOMAIN seeds = 1..n
      BY <1>6, <2>1
    <3>2. Opening(first, knockout, n, Half(n))
      BY <1>4, <1>6, <1>7, <2>1
    <3> HIDE DEF seeds
    <3>3. Len(seeds) = n
      BY <3>1, LengthOf
    <3> QED BY <3>1, <3>2, <3>3
  <2>2. CASE format = "league_knockout"
    <3>1. seeds = Qualifiers(count) /\ DOMAIN seeds = 1..(2 * count)
      BY <2>2 DEF Qualifiers
    <3>2. Opening(first, Qualifiers(count), 2 * count, Half(2 * count))
      BY <1>4, <1>7, <2>2
    <3>3. 2 * count \in Nat /\ 2 * count >= 2
      BY <1>2
    <3> HIDE DEF seeds
    <3>4. Len(seeds) = 2 * count
      BY <3>1, <3>3, LengthOf
    <3> QED BY <3>1, <3>2, <3>3, <3>4
  <2>3. CASE format \in {"league", "group_stage"}
    BY <1>4, <1>5, <1>9, <2>3
  <2> QED BY <2>1, <2>2, <2>3 DEF Formats
<1> HIDE DEF seeds
<1> DEFINE half == Cardinality(first) \div 2
           DrawnIn(s) == {m \in first : s \in {m.from.a, m.from.b}}
           byes == 2 * Cardinality(first) - Len(seeds)
<1>10. ASSUME first # {}
       PROVE  /\ \A k \in DOMAIN seeds : Cardinality(DrawnIn(seeds[k])) = 1
              /\ \A k \in DOMAIN seeds : (\E m \in DrawnIn(seeds[k]) : Bye(m)) <=> k <= byes
              /\ half > 0 =>
                    /\ \A m \in DrawnIn(seeds[1]), k \in DrawnIn(seeds[2]) : (m.pos <= half) # (k.pos <= half)
                    /\ \A m \in first : ~ SameGroup(m.from.a, m.from.b)
  <2>1. PICK k \in Nat : k >= 2 /\ Opening(first, seeds, k, Half(k)) /\ DOMAIN seeds = 1..k /\ Len(seeds) = k
    BY <1>9, <1>10
  <2>2. Half(k) \in Nat /\ Half(k) < k /\ k <= 2 * Half(k) /\ (Half(k) = 1 \/ Half(k) % 2 = 0)
    BY <2>1, HalfFits
  <2> HIDE DEF half, DrawnIn, byes
  <2> QED BY <1>8, <2>1, <2>2, FirstFair DEF half, DrawnIn, byes
<1>11. first # {} =>
         /\ \A k \in DOMAIN seeds : Cardinality(DrawnIn(seeds[k])) = 1
         /\ \A k \in DOMAIN seeds : (\E m \in DrawnIn(seeds[k]) : Bye(m)) <=> k <= byes
         /\ half > 0 =>
               /\ \A m \in DrawnIn(seeds[1]), k \in DrawnIn(seeds[2]) : (m.pos <= half) # (k.pos <= half)
               /\ \A m \in first : ~ SameGroup(m.from.a, m.from.b)
  BY <1>10, Zenon
<1> QED BY <1>11, Zenon DEF BracketFair, seeds, first, groups

\* Two clocks, p and q slots of an hour and a half into days d and e.
LEMMA SlotsApart ==
    ASSUME NEW d \in Nat, NEW e \in Nat, NEW p \in Nat, NEW q \in Nat, d = e => p # q,
           NEW s \in Nat, s = 1440 * d + p * 90, NEW t \in Nat, t = 1440 * e + q * 90,
           s <= t, s + 60 <= 1440 * (d + 1), t + 60 <= 1440 * (e + 1)
    PROVE  s + 60 <= t
<1>1. CASE d = e
  <2>1. p < q
    BY <1>1
  <2> QED BY <1>1, <2>1
<1>2. CASE d < e
  <2>1. 1440 * (d + 1) <= 1440 * e
    BY <1>2
  <2> QED BY <2>1
<1>3. CASE e < d
  <2>1. 1440 * (e + 1) <= 1440 * d
    BY <1>3
  <2> QED BY <2>1
<1> QED BY <1>1, <1>2, <1>3

\* Two matches on a ground.
LEMMA ListSlots ==
    ASSUME NEW l, OfDraw(Fixtures(l), l), NEW grounds \in 1..3
    PROVE  OneAtATime(l, grounds, 60)
<1> DEFINE F == Fixtures(l)
           At(m) == Slot(m, grounds, 60)
<1>1. Placed(F)
  BY Zenon DEF OfDraw, Fair
<1>2. Max({30, 60}) = 60
  <2>1. Max({30, 60}) \in {30, 60} /\ Max({30, 60}) >= 60
    BY MaxOfTwo
  <2> QED BY <2>1
<1>3. \A m : /\ At(m).ground = m.index % grounds
             /\ At(m).start = 1440 * m.day + (m.index \div grounds) * 90
  BY <1>2 DEF Slot
<1> HIDE DEF F, At
<1>4. ASSUME \A m \in F : At(m).start + 60 <= 1440 * (m.day + 1),
             NEW m \in F, NEW k \in F, m # k, At(m).ground = At(k).ground, At(m).start <= At(k).start
      PROVE  At(m).start + 60 <= At(k).start
  <2> DEFINE d == m.day
             e == k.day
             i == m.index
             j == k.index
             s == At(m).start
             t == At(k).start
  <2>1. d \in Nat /\ e \in Nat /\ i \in Nat /\ j \in Nat /\ ~ (d = e /\ i = j)
    BY <1>1, <1>4 DEF Placed
  <2>2. /\ s = 1440 * d + (i \div grounds) * 90 /\ t = 1440 * e + (j \div grounds) * 90
        /\ i % grounds = j % grounds
    BY <1>3, <1>4
  <2>3. s <= t /\ s + 60 <= 1440 * (d + 1) /\ t + 60 <= 1440 * (e + 1)
    BY <1>4
  <2> HIDE DEF d, e, i, j, s, t
  <2>4. i \div grounds \in Nat /\ j \div grounds \in Nat /\ (i # j => i \div grounds # j \div grounds)
    BY <2>1, <2>2
  <2> DEFINE p == i \div grounds
             q == j \div grounds
  <2>5. /\ p \in Nat /\ q \in Nat /\ (i # j => p # q)
        /\ s = 1440 * d + p * 90 /\ t = 1440 * e + q * 90
    BY <2>2, <2>4
  <2> HIDE DEF p, q
  <2>6. s \in Nat /\ t \in Nat /\ (d = e => p # q)
    BY <2>1, <2>5
  <2>9. s + 60 <= t
    BY <2>1, <2>3, <2>5, <2>6, SlotsApart
  <2> QED BY <2>9 DEF s, t
<1> QED BY <1>4, Zenon DEF OneAtATime, F, At

\* All of it, one match at a time on each ground.
LEMMA ListFair ==
    ASSUME NEW l, NEW n \in Nat, n >= 2, Teams(lists[l].teams, n),
           lists[l].draw.format \in Formats, lists[l].draw.groups \in Nat,
           IsFiniteSet(Fixtures(l)), OfDraw(Fixtures(l), l)
    PROVE  /\ lists[l].draw.format # "knockout" => EveryoneMeets(l)
           /\ DaysApart(l) /\ BracketFair(l)
           /\ \A grounds \in 1..3 : OneAtATime(l, grounds, 60)
<1>1. lists[l].draw.format # "knockout" => EveryoneMeets(l)
  BY ListMeets
<1>2. DaysApart(l) /\ BracketFair(l)
  BY ListApart, ListOpens
<1>3. \A grounds \in 1..3 : OneAtATime(l, grounds, 60)
  BY ListSlots
<1> QED BY <1>1, <1>2, <1>3

\* What the l-th draw made.
DrawnList(l) == Build(lists[l].draw.format, lists[l].teams, lists[l].draw.groups, lists[l].draw.double)

\* The same list, whoever has advanced in its bracket and whatever has been played.
Stays(rs, new) == DOMAIN rs = DOMAIN new /\ \A id \in DOMAIN rs : Drawn(new[id], rs[id])

\* A status and a winner are no part of what was drawn.
LEMMA StaysSame ==
    ASSUME NEW rs, NEW new, DOMAIN rs = DOMAIN new,
           \A id \in DOMAIN rs : \A c \in Columns \ Result : new[id][c] = rs[id][c]
    PROVE  Stays(rs, new)
BY DEF Stays, Drawn, Columns, Result

\* A refill keeps the list as it was drawn.
LEMMA RefillStays ==
    ASSUME DrawInv, NEW w \in Worker, Recalculate(w)
    PROVE  Stays(rows, rows')
<1> DEFINE r == request[w]
           old == r.seen.rows
<1>1. PICK new \in {Ranked(r.seen)}, base \in {IF r.op \in Scored THEN Own(w) ELSE rows} :
          rows' = [id \in DOMAIN rows |->
                      IF id \in {j \in DOMAIN old : new[j] # old[j]}
                      THEN Saved(base[id], old[id], new[id]) ELSE base[id]]
  BY Zenon DEF Recalculate
<1>2. AllKept(old, new) /\ RowsOk(old)
  BY RankedKeeps DEF Recalculate, DrawInv, Requests, RequestOk
<1>3. RowsOk(base) /\ DOMAIN base = DOMAIN rows /\ Stays(rows, base)
  <2>1. CASE r.op \in Scored
    <3>1. RowsOk(base) /\ SameDraw(rows, base)
      BY <2>1, OwnOk DEF RowOps
    <3>2. DOMAIN base = DOMAIN rows
      BY <3>1 DEF SameDraw
    <3>3. \A id \in DOMAIN rows : \A c \in Columns \ Result : base[id][c] = rows[id][c]
      BY <2>1, OwnResult DEF RowOps
    <3> QED BY <3>1, <3>2, <3>3, StaysSame
  <2>2. CASE r.op \notin Scored
    <3>1. base = rows
      BY <2>2
    <3> QED BY <3>1, StaysSame DEF DrawInv
  <2> QED BY <2>1, <2>2
<1> HIDE DEF old, r
<1>4. DOMAIN rows' = DOMAIN rows
  BY <1>1
<1>5. ASSUME NEW id \in DOMAIN rows
      PROVE  Drawn(rows'[id], base[id])
  <2>1. RowOk(base[id]) /\ id = <<id[1], base[id].round, base[id].pos>>
    BY <1>3 DEF RowsOk
  <2>2. CASE id \in {j \in DOMAIN old : new[j] # old[j]}
    <3>1. \A c \in Columns \ Written : new[id][c] = old[id][c]
      BY <1>2, <2>2 DEF AllKept, Kept
    <3>2. rows'[id] = Saved(base[id], old[id], new[id])
      BY <1>1, <2>2
    <3>3. \A c \in Columns \ Written : rows'[id][c] = base[id][c]
      BY <2>1, <3>1, <3>2, SavedOk
    <3>4. id = <<id[1], old[id].round, old[id].pos>>
      BY <1>2, <2>2 DEF RowsOk
    <3>5. base[id].round = old[id].round
      BY <2>1, <3>4
    <3>6. old[id].round # 0
      BY <1>2, <2>2 DEF AllKept, Kept
    <3> QED BY <3>3, <3>5, <3>6 DEF Drawn, Columns, Written
  <2>3. CASE id \notin {j \in DOMAIN old : new[j] # old[j]}
    BY <1>1, <2>3 DEF Drawn
  <2> QED BY <2>2, <2>3
<1>6. \A id \in DOMAIN rows : Drawn(base[id], rows[id])
  BY <1>3 DEF Stays
<1>7. \A x, y, z : Drawn(x, y) /\ Drawn(y, z) => Drawn(x, z)
  BY DEF Drawn
<1> QED BY <1>4, <1>5, <1>6, <1>7 DEF Stays

\* Every step but a draw keeps the list as it was drawn.
LEMMA StepStays ==
    ASSUME DrawInv, Next, \A w \in Worker : ~ Generate(w)
    PROVE  Stays(rows, rows') /\ lists' = lists
<1>1. ASSUME NEW w \in Worker, Request(w) PROVE UNCHANGED <<rows, lists>>
  BY <1>1, RequestReads DEF Read
<1>2. ASSUME NEW w \in Worker, Save(w) PROVE Stays(rows, rows') /\ lists' = lists
  <2>1. request[w].op \in RowOps /\ rows' = Own(w) /\ lists' = lists
    BY <1>2 DEF Save, About, RowOps
  <2>2. DOMAIN rows' = DOMAIN rows
    BY <2>1, OwnOk DEF SameDraw
  <2>3. \A id \in DOMAIN rows : \A c \in Columns \ Result : rows'[id][c] = rows[id][c]
    BY <2>1, OwnResult
  <2> QED BY <2>1, <2>2, <2>3, StaysSame
<1>3. ASSUME NEW w \in Worker, Score(w) \/ SaveTeam(w) PROVE UNCHANGED <<rows, lists>>
  BY <1>3 DEF Score, SaveTeam
<1>4. ASSUME NEW w \in Worker, Recalculate(w) PROVE Stays(rows, rows') /\ lists' = lists
  BY <1>4, RefillStays DEF Recalculate
<1>5. ASSUME Toss PROVE Stays(rows, rows') /\ lists' = lists
  <2>1. PICK id \in DOMAIN rows, b \in BOOLEAN :
            rows' = [rows EXCEPT ![id].tossed = b] /\ lists' = lists
    BY <1>5 DEF Toss, TossUp, TossReset
  <2>2. SameBut(rows, rows')
    BY <2>1 DEF DrawInv, RowsOk, RowOk, SameBut
  <2> QED BY <2>1, <2>2 DEF SameBut, Stays, Drawn, Columns
<1>6. ASSUME UNCHANGED <<rows, lists>> PROVE Stays(rows, rows') /\ lists' = lists
  BY <1>6, StaysSame
<1> QED BY <1>1, <1>2, <1>3, <1>4, <1>5, <1>6 DEF Next, Answer

\* Of a list all or nothing is in S.
Whole(S) == \A id \in S : \A m \in DrawnList(id[1]) : <<id[1], m.round, m.pos>> \in S

\* Every row is a fixture of one of the draws.
FromLists(rs) ==
    \A id \in DOMAIN rs :
        /\ id[1] \in DOMAIN lists
        /\ \E m \in DrawnList(id[1]) : id = <<id[1], m.round, m.pos>> /\ Drawn(rs[id], m)

\* The draws there have been, each with what was asked for and its teams.
ListsOk ==
    /\ lists \in Seq([draw : Draws, teams : UNION {[1..j -> Nat] : j \in Nat}])
    /\ \A l \in DOMAIN lists : \E n \in Nat : n >= 2 /\ Teams(lists[l].teams, n)

\* What makes the list being played fair: its rows are the fixtures of whole draws, and a
\* draw that is asked for deletes whole lists.
FairInv ==
    /\ DrawInv /\ ListsOk
    /\ IsFiniteSet(DOMAIN rows)
    /\ FromLists(rows) /\ Whole(DOMAIN rows)
    /\ \A w \in Worker : request[w].op = "generate" /\ request[w].phase = "act" =>
           Whole(request[w].was) /\ \A id \in request[w].was : id[1] \in DOMAIN lists

\* What has been drawn stays so when the list does.
LEMMA FairStep ==
    ASSUME FairInv, DrawInv', Next, \A w \in Worker : ~ Generate(w)
    PROVE  FairInv'
<1>1. Stays(rows, rows') /\ lists' = lists
  BY StepStays DEF FairInv
<1>2. DOMAIN rows' = DOMAIN rows /\ \A id \in DOMAIN rows : Drawn(rows'[id], rows[id])
  BY <1>1 DEF Stays
<1>3. \A l : DrawnList(l)' = DrawnList(l)
  BY <1>1 DEF DrawnList
<1>4. ASSUME NEW S, NEW T, T = S, Whole(S) PROVE \A id \in T : \A m \in DrawnList(id[1])' : <<id[1], m.round, m.pos>> \in T
  BY <1>3, <1>4 DEF Whole
<1>5. FromLists(rows)'
  <2>1. \A x, y, z : Drawn(x, y) /\ Drawn(y, z) => Drawn(x, z)
    BY DEF Drawn
  <2> QED BY <1>1, <1>2, <1>3, <2>1 DEF FromLists, FairInv
<1>6. ASSUME NEW v \in Worker, (request[v].op = "generate" /\ request[v].phase = "act")'
      PROVE  (Whole(request[v].was) /\ \A id \in request[v].was : id[1] \in DOMAIN lists)'
  <2> DEFINE was == request'[v].was
  <2>1. request'[v] = request[v] \/ was = DOMAIN rows
    BY <1>6, DrawRead DEF FairInv, DrawInv
  <2>2. Whole(DOMAIN rows) /\ \A id \in DOMAIN rows : id[1] \in DOMAIN lists
    BY DEF FairInv, FromLists
  <2>3. Whole(was) /\ \A id \in was : id[1] \in DOMAIN lists
    BY <1>6, <2>1, <2>2 DEF FairInv
  <2>4. \A id \in was : \A m \in DrawnList(id[1])' : <<id[1], m.round, m.pos>> \in was
    BY <1>4, <2>3
  <2> QED BY <1>1, <2>3, <2>4 DEF Whole
<1>7. Whole(DOMAIN rows)'
  BY <1>2, <1>4 DEF FairInv, Whole
<1> QED BY <1>1, <1>2, <1>5, <1>6, <1>7 DEF FairInv, ListsOk

\* A draw adds its list to the lists, and leaves those there have been.
LEMMA ListsGrow ==
    ASSUME ListsOk, NEW d \in Draws, NEW k \in Nat, k >= 2, NEW teams, Teams(teams, k),
           lists' = Append(lists, [draw |-> d, teams |-> teams]), NEW n \in Int, n = Len(lists) + 1
    PROVE  /\ ListsOk' /\ n \in DOMAIN lists' /\ n \notin DOMAIN lists
           /\ DrawnList(n)' = Build(d.format, teams, d.groups, d.double)
           /\ \A l \in DOMAIN lists : l \in DOMAIN lists' /\ DrawnList(l)' = DrawnList(l)
<1> DEFINE List == [draw : Draws, teams : UNION {[1..j -> Nat] : j \in Nat}]
           new == [draw |-> d, teams |-> teams]
<1>1. teams \in UNION {[1..j -> Nat] : j \in Nat}
  <2>1. teams \in [1..k -> Nat]
    BY DEF Teams
  <2> QED BY <2>1
<1>2. new \in List /\ new.draw = d /\ new.teams = teams
  BY <1>1
<1>3. lists \in Seq(List)
  BY DEF ListsOk
<1> HIDE DEF List, new
<1>4. /\ lists' \in Seq(List) /\ DOMAIN lists' = 1..n /\ DOMAIN lists = 1..(n - 1) /\ n \in Nat \ {0}
      /\ lists'[n] = new /\ \A l \in DOMAIN lists : lists'[l] = lists[l]
  BY <1>2, <1>3 DEF new
<1>5. n \in DOMAIN lists' /\ n \notin DOMAIN lists /\ \A l \in DOMAIN lists' : l = n \/ l \in DOMAIN lists
  BY <1>4
<1>6. \A l \in DOMAIN lists' : \E j \in Nat : j >= 2 /\ Teams(lists'[l].teams, j)
  BY <1>2, <1>4, <1>5 DEF ListsOk
<1>7. ListsOk'
  BY <1>4, <1>6 DEF ListsOk, List
<1>8. DrawnList(n)' = Build(d.format, teams, d.groups, d.double)
  <2>1. DrawnList(n)' = Build(lists'[n].draw.format, lists'[n].teams, lists'[n].draw.groups, lists'[n].draw.double)
    BY <1>2 DEF DrawnList
  <2> QED BY <1>2, <1>4, <2>1
<1>9. \A l \in DOMAIN lists : l \in DOMAIN lists' /\ DrawnList(l)' = DrawnList(l)
  BY <1>4 DEF DrawnList
<1> QED BY <1>5, <1>7, <1>8, <1>9

\* A draw makes a whole list, of which all is as it is drawn, and deletes whole lists.
LEMMA GenerateFair ==
    ASSUME FairInv, DrawInv', Next, NEW w \in Worker, Generate(w)
    PROVE  FairInv'
<1> DEFINE r == request[w]
           d == r.want.draw
           teams == r.want.teams
<1>1. PICK k \in Nat : k >= 2 /\ Teams(teams, k)
  BY DEF Generate, About, FairInv, DrawInv, Requests, RequestOk
<1>2. d \in Draws /\ d.format \in Formats /\ d.groups \in Nat /\ d.double \in BOOLEAN
  <2>1. d \in Draws
    BY DEF Generate, About, FairInv, DrawInv, Requests, RequestOk
  <2> HIDE DEF d
  <2> QED BY <2>1, BracketAssumption
<1>3. Len(lists) + 1 \in Int /\ lists' = Append(lists, [draw |-> d, teams |-> teams])
  <2>1. lists' = Append(lists, [draw |-> d, teams |-> teams])
    BY DEF Generate
  <2> DEFINE List == [draw : Draws, teams : UNION {[1..j -> Nat] : j \in Nat}]
  <2>2. lists \in Seq(List)
    BY DEF FairInv, ListsOk
  <2> HIDE DEF List
  <2>3. Len(lists) \in Nat
    BY <2>2
  <2> QED BY <2>1, <2>3
<1>4. PICK n \in Int : n = Len(lists) + 1
  BY <1>3
<1> DEFINE new == Build(d.format, teams, d.groups, d.double)
           kept == DOMAIN rows \ r.was
           RowOf(x, id) == CHOOSE m \in new : id = <<x, m.round, m.pos>>
           idsOf(x) == {<<x, m.round, m.pos>> : m \in new}
           Row(id) == RowOf(n, id)
           ids == idsOf(n)
<1>5. rows' = [id \in kept \union ids |-> IF id \in kept THEN rows[id] ELSE Row(id)]
  <2>1. rows' = [id \in kept \union idsOf(Len(lists) + 1) |->
                    IF id \in kept THEN rows[id] ELSE RowOf(Len(lists) + 1, id)]
    BY DEF Generate
  <2> HIDE DEF RowOf, idsOf
  <2> QED BY <1>4, <2>1
<1>6. /\ ListsOk' /\ n \in DOMAIN lists' /\ n \notin DOMAIN lists /\ DrawnList(n)' = new
      /\ \A l \in DOMAIN lists : l \in DOMAIN lists' /\ DrawnList(l)' = DrawnList(l)
  BY <1>1, <1>2, <1>3, <1>4, ListsGrow DEF FairInv
<1>7. Keyed(new)
  <2>1. Fair(new, d.format, d.double, teams, DrawnGroupsOf(teams, d.groups))
    BY <1>1, <1>2, BuildFair
  <2> HIDE DEF new
  <2> QED BY <2>1, Zenon DEF Fair
<1>8. Whole(r.was) /\ \A id \in r.was : id[1] \in DOMAIN lists
  BY DEF FairInv, Generate, About
<1> HIDE DEF new, r
<1>9. \A id \in ids : Row(id) \in new /\ id = <<n, Row(id).round, Row(id).pos>>
  OBVIOUS
<1>10. ids = {<<n, m.round, m.pos>> : m \in new} /\ \A id \in ids : id[1] = n
  OBVIOUS
<1> HIDE DEF Row, ids
<1>11. DOMAIN rows' = kept \union ids /\ \A id \in DOMAIN rows' :
           rows'[id] = IF id \in kept THEN rows[id] ELSE Row(id)
  BY <1>5
<1>12. FromLists(rows)'
  <2> SUFFICES ASSUME NEW id \in DOMAIN rows'
               PROVE  /\ id[1] \in DOMAIN lists'
                      /\ \E m \in DrawnList(id[1])' : id = <<id[1], m.round, m.pos>> /\ Drawn(rows'[id], m)
    BY DEF FromLists
  <2>1. CASE id \in kept
    <3>1. /\ id[1] \in DOMAIN lists
          /\ \E m \in DrawnList(id[1]) : id = <<id[1], m.round, m.pos>> /\ Drawn(rows[id], m)
      BY <2>1 DEF FairInv, FromLists
    <3> QED BY <1>6, <1>11, <2>1, <3>1
  <2>2. CASE id \notin kept
    <3>1. id \in ids /\ rows'[id] = Row(id)
      BY <1>11, <2>2
    <3>2. Row(id) \in new /\ id = <<n, Row(id).round, Row(id).pos>> /\ id[1] = n
      BY <1>9, <1>10, <3>1
    <3>3. Drawn(rows'[id], Row(id))
      BY <3>1 DEF Drawn
    <3> QED BY <1>6, <3>2, <3>3
  <2> QED BY <2>1, <2>2
<1>13. Whole(DOMAIN rows)'
  <2> SUFFICES ASSUME NEW id \in DOMAIN rows', NEW m \in DrawnList(id[1])'
               PROVE  <<id[1], m.round, m.pos>> \in DOMAIN rows'
    BY DEF Whole
  <2>1. CASE id \in kept
    <3> DEFINE l == id[1]
    <3>1. l \in DOMAIN lists /\ \E j \in DrawnList(l) : id = <<l, j.round, j.pos>>
      BY <2>1 DEF FairInv, FromLists
    <3>2. m \in DrawnList(l)
      BY <1>6, <3>1
    <3>3. <<l, m.round, m.pos>> \in DOMAIN rows
      BY <2>1, <3>2 DEF FairInv, Whole
    <3>4. <<l, m.round, m.pos>> \notin r.was
      <4> SUFFICES ASSUME <<l, m.round, m.pos>> \in r.was PROVE FALSE
        OBVIOUS
      <4> DEFINE key == <<l, m.round, m.pos>>
      <4>1. key \in r.was /\ key[1] = l
        OBVIOUS
      <4> HIDE DEF key
      <4>2. \A j \in DrawnList(l) : <<l, j.round, j.pos>> \in r.was
        BY <1>8, <4>1 DEF Whole
      <4>3. id \in r.was
        BY <3>1, <4>2
      <4> QED BY <2>1, <4>3
    <3> QED BY <1>11, <3>3, <3>4
  <2>2. CASE id \notin kept
    <3>1. id[1] = n
      BY <1>10, <1>11, <2>2
    <3>2. m \in new
      BY <1>6, <3>1
    <3> QED BY <1>10, <1>11, <3>1, <3>2
  <2> QED BY <2>1, <2>2
<1>14. ASSUME NEW v \in Worker, (request[v].op = "generate" /\ request[v].phase = "act")'
       PROVE  (Whole(request[v].was) /\ \A id \in request[v].was : id[1] \in DOMAIN lists)'
  <2> DEFINE was == request'[v].was
  <2>1. request'[v] = request[v] \/ was = DOMAIN rows
    BY <1>14, DrawRead DEF FairInv, DrawInv
  <2>2. Whole(DOMAIN rows) /\ \A id \in DOMAIN rows : id[1] \in DOMAIN lists
    BY DEF FairInv, FromLists
  <2>3. Whole(was) /\ \A id \in was : id[1] \in DOMAIN lists
    BY <1>14, <2>1, <2>2 DEF FairInv
  <2>4. \A id \in was : id[1] \in DOMAIN lists' /\ DrawnList(id[1])' = DrawnList(id[1])
    BY <1>6, <2>3
  <2>5. \A id \in was : \A m \in DrawnList(id[1])' : <<id[1], m.round, m.pos>> \in was
    BY <2>3, <2>4 DEF Whole
  <2> QED BY <2>4, <2>5 DEF Whole
<1>15. IsFiniteSet(DOMAIN rows')
  BY GenerateDrawn DEF FairInv
<1> QED BY <1>6, <1>12, <1>13, <1>14, <1>15 DEF FairInv

LEMMA FairInit == Init => FairInv
<1> SUFFICES ASSUME Init PROVE FairInv
  OBVIOUS
<1>1. rows = <<>> /\ lists = <<>> /\ \A w \in Worker : request[w] = NoRequest
  BY DEF Init
<1>2. DOMAIN rows = {} /\ DOMAIN lists = {}
  BY <1>1
<1>3. ListsOk
  BY <1>1, <1>2 DEF ListsOk
<1>4. FromLists(rows) /\ Whole(DOMAIN rows) /\ IsFiniteSet(DOMAIN rows)
  BY <1>2, FS_EmptySet DEF FromLists, Whole
<1> QED BY <1>1, <1>3, <1>4, DrawInit DEF FairInv, NoRequest

LEMMA FairNext == FairInv /\ [Next]_vars => FairInv'
<1> SUFFICES ASSUME FairInv, [Next]_vars PROVE FairInv'
  OBVIOUS
<1>1. DrawInv'
  BY DrawNext DEF FairInv
<1>2. CASE UNCHANGED vars
  BY <1>1, <1>2 DEF FairInv, vars, ListsOk, FromLists, Whole, DrawnList
<1>3. CASE Next /\ \A w \in Worker : ~ Generate(w)
  BY <1>1, <1>3, FairStep
<1>4. CASE Next /\ \E w \in Worker : Generate(w)
  BY <1>1, <1>4, GenerateFair
<1> QED BY <1>2, <1>3, <1>4

\* What is asked for is one of the draws that can be.
LEMMA DrawAsked ==
    ASSUME ListsOk, NEW l \in DOMAIN lists
    PROVE  lists[l].draw.format \in Formats /\ lists[l].draw.groups \in Nat /\ lists[l].draw.double \in BOOLEAN
<1>1. lists[l].draw \in Draws
  <2> DEFINE List == [draw : Draws, teams : UNION {[1..j -> Nat] : j \in Nat}]
  <2>1. lists \in Seq(List)
    BY DEF ListsOk
  <2>2. \A x \in List : x.draw \in Draws
    OBVIOUS
  <2> HIDE DEF List
  <2>3. lists[l] \in List
    BY <2>1
  <2> QED BY <2>2, <2>3
<1> DEFINE d == lists[l].draw
<1>2. d \in Draws
  BY <1>1
<1> HIDE DEF d
<1>3. d.format \in Formats /\ d.groups \in Nat /\ d.double \in BOOLEAN
  BY <1>2, BracketAssumption
<1> QED BY <1>3 DEF d

\* The list that is being played is what its draw made, but for what has been played.
LEMMA PlayedAsDrawn ==
    ASSUME FairInv, NEW l \in DOMAIN lists, Fixtures(l) # {}
    PROVE  OfDraw(Fixtures(l), l) /\ IsFiniteSet(Fixtures(l))
<1> DEFINE F == Fixtures(l)
           M == DrawnList(l)
           ids == {i \in DOMAIN rows : i[1] = l}
<1>1. F = {rows[id] : id \in ids}
  BY DEF Fixtures
<1>2. IsFiniteSet(F)
  <2>1. IsFiniteSet(ids)
    BY FS_Subset DEF FairInv
  <2> HIDE DEF F, ids
  <2> QED BY <1>1, <2>1, ValuesFinite
<1>3. \A id \in ids : id = <<l, rows[id].round, rows[id].pos>>
  BY DEF FairInv, DrawInv, RowsOk
<1>4. Keyed(F)
  <2> HIDE DEF F, ids
  <2> QED BY <1>1, <1>3 DEF Keyed
<1>5. \A id \in ids : \E m \in M : id = <<l, m.round, m.pos>> /\ Drawn(rows[id], m)
  BY DEF FairInv, FromLists
<1>6. \A m \in F : \E k \in M : Drawn(m, k)
  BY <1>1, <1>5
<1>7. PICK n \in Nat : n >= 2 /\ Teams(lists[l].teams, n)
  BY DEF FairInv, ListsOk
<1>8. lists[l].draw.format \in Formats /\ lists[l].draw.groups \in Nat /\ lists[l].draw.double \in BOOLEAN
  BY DrawAsked DEF FairInv
<1>9. Fair(M, lists[l].draw.format, lists[l].draw.double, lists[l].teams, Groups(l))
  <2>1. Groups(l) = DrawnGroupsOf(lists[l].teams, lists[l].draw.groups)
    BY Zenon DEF Groups, DrawnGroupsOf
  <2>2. M = Build(lists[l].draw.format, lists[l].teams, lists[l].draw.groups, lists[l].draw.double)
    BY DEF DrawnList
  <2> HIDE DEF M
  <2> QED BY <1>7, <1>8, <2>1, <2>2, BuildFair
<1> HIDE DEF M
<1>10. ASSUME NEW k \in M PROVE \E m \in F : Drawn(m, k)
  <2> DEFINE key == <<l, k.round, k.pos>>
  <2>1. key \in ids
    <3>1. PICK id \in DOMAIN rows : id[1] = l
      BY <1>1
    <3>2. key \in DOMAIN rows
      BY <3>1 DEF FairInv, Whole, M
    <3> QED BY <3>2
  <2>2. PICK m \in M : key = <<l, m.round, m.pos>> /\ Drawn(rows[key], m)
    BY <1>5, <2>1
  <2>3. k.round = m.round /\ k.pos = m.pos
    BY <2>2
  <2>4. k = m
    <3>1. Keyed(M)
      BY <1>9, Zenon DEF Fair
    <3> QED BY <2>3, <3>1 DEF Keyed
  <2> QED BY <1>1, <2>1, <2>2, <2>4
<1>11. Fair(F, lists[l].draw.format, lists[l].draw.double, lists[l].teams, Groups(l))
  <2> HIDE DEF F
  <2> QED BY <1>4, <1>6, <1>9, <1>10, FairStays
<1> QED BY <1>2, <1>11 DEF OfDraw

\* Whatever is asked for, drawn and played, in whatever order and however requests
\* overlap, the list being played is what its format promises: in a table everyone
\* meets everyone once, or in a double round once at each end, in groups that are
\* disjoint and even; nobody plays twice in a day; the bracket follows the table, holds
\* every entrant once, the best two in opposite halves, gives its byes to the best and
\* lets nobody meet his own group in its first round; and a ground has one match at a
\* time (FixtureBuilder, Slotter, generateFixtures, and sync, which keeps what was drawn).
THEOREM EveryDrawIsFair == Spec => []DrawFair
<1>1. FairInv => DrawFair
  <2> SUFFICES ASSUME FairInv, NEW l \in DOMAIN lists, Fixtures(l) # {}
               PROVE  /\ lists[l].draw.format # "knockout" => EveryoneMeets(l)
                      /\ DaysApart(l)
                      /\ BracketFair(l)
                      /\ \A grounds \in 1..3 : OneAtATime(l, grounds, 60)
    BY Zenon DEF DrawFair
  <2>1. PICK n \in Nat : n >= 2 /\ Teams(lists[l].teams, n)
    BY DEF FairInv, ListsOk
  <2>2. lists[l].draw.format \in Formats /\ lists[l].draw.groups \in Nat
    BY DrawAsked DEF FairInv
  <2>3. OfDraw(Fixtures(l), l) /\ IsFiniteSet(Fixtures(l))
    BY PlayedAsDrawn
  <2> QED BY <2>1, <2>2, <2>3, ListFair
<1> QED BY <1>1, FairInit, FairNext, PTL DEF Spec
=============================================================================
