--------------------------- MODULE MCRegistration ---------------------------
(* Small instances of team registration for TLC. *)
EXTENDS RegistrationSafety, TLC

Symmetry == Permutations(Team) \union Permutations(Payment) \union Permutations(Phone)
            \union Permutations(Captain)

\* An organizer who only decides on entries that hold a place.
Decides == {<<"pending", "approved">>, <<"pending", "rejected">>, <<"approved", "withdrawn">>}
=============================================================================
