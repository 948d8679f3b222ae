------------------------------ MODULE MCClient -------------------------------
(***************************************************************************)
(* Small instances of the client's pages for TLC.                          *)
(*   client.cfg        every page, safety                                  *)
(*   client_live.cfg   the pages that have to get somewhere by themselves  *)
(*   session_lent.cfg  what becomes of a super admin's own session         *)
(***************************************************************************)
EXTENDS ClientPages, TLC

CONSTANTS b1, b2, b3, w1, w2   \* the names on the cricket sheets

ThreeBatters == {b1, b2, b3}
TwoBowlers == {w1, w2}
Symmetry == Permutations(ThreeBatters) \cup Permutations(TwoBowlers)

\* Two a side play for A, one waits; B is one player.
FootballSquads == [s \in {"A", "B"} |-> IF s = "A" THEN {"p1", "p2", "p3"} ELSE {"q1"}]
FootballStarters == [s \in {"A", "B"} |-> IF s = "A" THEN {"p1", "p2"} ELSE {"q1"}]
Sheets == [s \in {"A", "B"} |-> IF s = "A" THEN {1, 2} ELSE {3}]

\* Phrases called out: a wide, a wicket, a correction.
Phrases == {{"one", "wide"}, {"run out"}, {"undo"}}

\* Nobody has a password to choose or terms to agree to.
NoGates == page.at = "session" => api.must = {} /\ api.pending = {}
LiveSpec ==
    /\ (SessionInit /\ NoGates) \/ BoardInit \/ RoomInit
    /\ [][ClientNext]_clientVars
    /\ ClientFairness

\* One tab in which a super admin looks through a club's account, nothing else.
LentInit == SessionInit /\ NoGates /\ page.parked # None
LentSpec == LentInit /\ [][ClientNext]_clientVars /\ SessionFairness
=============================================================================
