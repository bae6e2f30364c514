------------------------------- MODULE MCBoard -------------------------------
(* Model values and symmetry for TLC.  Tasks, titles and request slots are  *)
(* only compared; so are accounts, all of the same role in every run.       *)
EXTENDS Board, TLC

Symmetry ==
    Permutations(Task) \cup Permutations(Title)
    \cup Permutations(User) \cup Permutations(Req)

(* The requests alone, while nobody else commits: MCDashboard has the rest. *)
Requests == \E r \in Req : Begin(r) \/ Read(r) \/ Flush(r) \/ Finish(r) \/ Abort(r)

RequestsSpec == Init /\ [][Requests]_vars /\ Fairness

=============================================================================
