----------------------------- MODULE AtomicBoard -----------------------------
(***************************************************************************)
(* What the task board promises: every change of a task happens at one     *)
(* instant, to the task as it is at that instant, and the notification of  *)
(* a new assignee appears with the change.  It has no requests, locks or   *)
(* stale copies.  Board implements it.                                     *)
(***************************************************************************)
EXTENDS Integers

CONSTANTS User, Task, Title, Status, Nobody, Unset

VARIABLES
    row,     \* the tasks, NoRow where there is none
    inbox    \* how many notifications of an assignment a user has, per task

vars == <<row, inbox>>

NoRow == [version |-> 0, title |-> Unset, status |-> Unset, position |-> 0,
          assignee |-> Nobody, deleted |-> FALSE]

Init ==
    /\ row = [t \in Task |-> NoRow]
    /\ inbox = [u \in User |-> [t \in Task |-> 0]]

\* Who is told that t is assigned to a by actor: nobody about themselves.
Tell(t, a, actor) ==
    inbox' = IF a \in User \ {actor} THEN [inbox EXCEPT ![a][t] = @ + 1] ELSE inbox

Live(t) == row[t].version > 0 /\ ~row[t].deleted

\* A position may be any number: the one the step chose is read from row'.
Place(t) == row'[t].position

Create(t) ==
    /\ row[t].version = 0
    /\ Place(t) \in Int
    /\ \E actor \in User, title \in Title, s \in Status, a \in User \cup {Nobody} :
         /\ row' = [row EXCEPT ![t] = [version |-> 1, title |-> title, status |-> s,
                                       position |-> Place(t), assignee |-> a,
                                       deleted |-> FALSE]]
         /\ Tell(t, a, actor)

\* The task becomes v, one version on.
Replace(t, v) ==
    /\ Live(t)
    /\ row' = [row EXCEPT ![t] = [v EXCEPT !.version = @ + 1]]

\* Title and assignee change together; only a new assignee is told.
Update(t) ==
    \E actor \in User, title \in Title, a \in User \cup {Nobody} :
        /\ Replace(t, [row[t] EXCEPT !.title = title, !.assignee = a])
        /\ IF a = row[t].assignee THEN UNCHANGED inbox ELSE Tell(t, a, actor)

Move(t) ==
    /\ Place(t) \in Int
    /\ \E s \in Status :
         Replace(t, [row[t] EXCEPT !.status = s, !.position = Place(t)])
    /\ UNCHANGED inbox

Delete(t) ==
    /\ Replace(t, [row[t] EXCEPT !.deleted = TRUE])
    /\ UNCHANGED inbox

Next == \E t \in Task : Create(t) \/ Update(t) \/ Move(t) \/ Delete(t)

Spec == Init /\ [][Next]_vars

=============================================================================
