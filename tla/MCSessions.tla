----------------------------- MODULE MCSessions -----------------------------
(* Model values and symmetry for TLC.  Tokens, passwords, accounts and      *)
(* request slots are interchangeable: the specification only compares them. *)
EXTENDS Sessions, TLC

Symmetry ==
    Permutations(Token) \cup Permutations(Password)
    \cup Permutations(User) \cup Permutations(Req)

(* Bound of the serial run: a token expires while at most two are stored and *)
(* no administrator has interfered, so that the cases are not multiplied.    *)
ExpiryBound ==
    \/ \A t \in Token : ~expired[t]
    \/ /\ Cardinality(rows) <= 2
       /\ \A u \in User : active[u] /\ ~deleted[u]
       /\ \A r \in Req : req[r].op \notin AdminOps

(* For overlapping requests: one session is open when the behaviour begins, *)
(* so that the supply of tokens goes into its rotations.                    *)
Opening == CHOOSE t \in Token : TRUE

OpenSession ==
    LET u == CHOOSE v \in User : TRUE
        p == CHOOSE v \in Password : TRUE
    IN  /\ rows = {Opening}
        /\ owner = [t \in Token |-> IF t = Opening THEN u ELSE NoUser]
        /\ family = [t \in Token |-> IF t = Opening THEN t ELSE NoToken]
        /\ revoked = [t \in Token |-> FALSE]
        /\ replacedBy = [t \in Token |-> NoToken]
        /\ expired = [t \in Token |-> FALSE]
        /\ password = [v \in User |-> p]
        /\ active = [v \in User |-> TRUE]
        /\ deleted = [v \in User |-> FALSE]
        /\ req = [r \in Req |-> Idle]
        /\ delivered = {Opening}
        /\ born = [t \in Token |-> IF t = Opening THEN p ELSE NoPassword]
        /\ reported = {} /\ loggedOut = {}

OpenSpec == OpenSession /\ [][Next]_vars /\ Fairness

=============================================================================
