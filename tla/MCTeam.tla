----------------------------------- MODULE MCTeam -----------------------------------
(* Small instances of Team for TLC. *)
EXTENDS Team, TLC

Symmetry == Permutations(Handlers) \cup Permutations(Emails) \cup Permutations(Tokens)

================================================================================
