--------------------------- MODULE AtomicProjects ---------------------------
(***************************************************************************)
(* What the projects module promises: projects, their members and the      *)
(* notifications of new members change one whole request at a time.  A     *)
(* member is told of every addition once, in the step that makes it, a     *)
(* user is at most once a member of a project, and a deleted project is    *)
(* not edited any more.  Projects implements it.                           *)
(***************************************************************************)
EXTENDS Naturals

CONSTANTS User, Project, Column, Value, Unset

VARIABLES
    project,   \* the projects: whether they exist, are deleted, their columns
    roster,    \* who is a member of what, with how many rows
    told       \* how many notifications of an addition a user has, per project

vars == <<project, roster, told>>

Init ==
    /\ project = [p \in Project |-> [stored |-> FALSE, deleted |-> FALSE,
                                     cols |-> [c \in Column |-> Unset]]]
    /\ roster = [u \in User |-> [p \in Project |-> 0]]
    /\ told = [u \in User |-> [p \in Project |-> 0]]

Live(p) == project[p].stored /\ ~project[p].deleted

Create(p) ==
    /\ ~project[p].stored
    /\ \E cols \in [Column -> Value] :
         project' = [project EXCEPT ![p] = [stored |-> TRUE, deleted |-> FALSE, cols |-> cols]]
    /\ UNCHANGED <<roster, told>>

Edit(p) ==
    /\ Live(p)
    /\ \E cols \in [Column -> Value] : project' = [project EXCEPT ![p].cols = cols]
    /\ UNCHANGED <<roster, told>>

Delete(p) ==
    /\ Live(p)
    /\ project' = [project EXCEPT ![p].deleted = TRUE]
    /\ UNCHANGED <<roster, told>>

\* Nothing is promised of a project deleted in the same moment.
Add(u, p) ==
    /\ project[p].stored /\ roster[u][p] = 0
    /\ roster' = [roster EXCEPT ![u][p] = 1]
    /\ told' = [told EXCEPT ![u][p] = @ + 1]
    /\ UNCHANGED project

Remove(u, p) ==
    /\ roster[u][p] = 1
    /\ roster' = [roster EXCEPT ![u][p] = 0]
    /\ UNCHANGED <<project, told>>

Next ==
    \E p \in Project :
        \/ Create(p) \/ Edit(p) \/ Delete(p)
        \/ \E u \in User : Add(u, p) \/ Remove(u, p)

Spec == Init /\ [][Next]_vars

=============================================================================
