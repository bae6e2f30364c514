------------------------------ MODULE MCProjects ------------------------------
(* Model values and symmetry for TLC.  Accounts, ids, columns, values and    *)
(* request slots are interchangeable: the specification only compares them.  *)
EXTENDS Projects, TLC

Symmetry ==
    Permutations(User) \cup Permutations(Column) \cup Permutations(Value) \cup Permutations(Member)
    \cup Permutations(Note) \cup Permutations(Req)

=============================================================================
