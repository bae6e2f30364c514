--------------------------- MODULE MCAttachments ---------------------------
(* Attachments with the symmetries TLC may use where no liveness is checked, *)
(* and without the backends that do not matter to a workload of comments.    *)
EXTENDS Attachments, TLC

Symmetry == Permutations(Key) \cup Permutations(Req) \cup Permutations(Text)

MCInit == Init /\ (backend = "local" \/ "upload" \in kinds)

MCSpec == MCInit /\ [][Next]_vars

=============================================================================
