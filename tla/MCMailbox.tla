--------------------------------- MODULE MCMailbox ---------------------------------
(* Small instances of Mailbox for TLC. *)
EXTENDS Mailbox, TLC

Symmetry == Permutations(Handlers) \cup Permutations(Accounts)

================================================================================
