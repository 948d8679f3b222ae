SPECIFICATION Spec
CONSTANTS
  Team = {t1, t2}
  Payment = {y1, y2}
  Phone = {f1, f2}
  Captain = {a, b}
  Desk = {d}
  NoTeam = NoTeam
  NoPayment = NoPayment
  NoPhone = NoPhone
  MaxTeams = 1
  Fee = 2
  StatusMoves <- Decides
INVARIANTS NeverOvercharged
CHECK_DEADLOCK FALSE
