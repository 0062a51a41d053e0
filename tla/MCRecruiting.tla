-------------------------------- MODULE MCRecruiting --------------------------------
(* Small instances of Recruiting for TLC. *)
EXTENDS Recruiting, TLC

(* One round, and two rounds that share an order index. *)
MCRoundLists == {<<[type |-> "hr", order |-> 0]>>,
                 <<[type |-> "ai_interview", order |-> 0], [type |-> "technical", order |-> 0]>>}

Symmetry == Permutations(Handlers) \cup Permutations(Jobs)

================================================================================
