---------------------------- MODULE MCAccounts ----------------------------
(* Accounts with the symmetries TLC may use where no liveness is checked. *)
EXTENDS Accounts, TLC

Symmetry == Permutations(User) \cup Permutations(Req)

=============================================================================
