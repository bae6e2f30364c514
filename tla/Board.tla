-------------------------------- MODULE Board --------------------------------
(***************************************************************************)
(* The task board of one project: app/modules/tasks (service, repository,  *)
(* access check) with the notification handler that shares its session.    *)
(*                                                                         *)
(* As in Sessions, a request is one transaction of several statements.     *)
(* The ORM keeps the row it loaded (base) and what the handler made of it; *)
(* a flush emits UPDATE ... WHERE id = ? AND version = ? with the columns  *)
(* that differ, and nothing at all if none does.  The UPDATE waits for the *)
(* lock of the row and then compares the version of the row it finds.      *)
(*                                                                         *)
(* Left out: the other columns of a task (an edit of title stands for      *)
(* them), the project's name in the notification text, the list views.     *)
(* Whether the answer leaves before the commit is the subject of Sessions; *)
(* a stale version is detected by the flush, before either.                *)
(***************************************************************************)
EXTENDS Integers, FiniteSets

CONSTANTS
    User,          \* live accounts
    Admin,         \* those with the admin role
    Task,          \* supply of task ids
    Title, Status,
    Positions,     \* positions clients ask for when they move a card
    Req,           \* slots for requests in flight: the bound on concurrency
    Kinds,         \* the requests that arrive: the bound on the workload
    MaxVersion,    \* bound on the versions of a task a request may start from
    Nobody, Unset

POSITION_STEP == 1000

ASSUME ConstantsAssumption ==
    /\ Admin \subseteq User /\ Nobody \notin User
    /\ Unset \notin User \cup {Nobody} \cup Task \cup Title \cup Status
    /\ Positions \subseteq Int /\ Unset \notin Int
    /\ MaxVersion \in Nat

VARIABLES
    row,       \* committed rows of tasks
    inbox,     \* committed notifications: how many a user has of a task's assignment
    members,   \* committed members of the project
    closed,    \* the project is soft-deleted
    req        \* the requests in flight

vars == <<row, inbox, members, closed, req>>
tables == <<row, inbox, members, closed>>

-----------------------------------------------------------------------------
(* Types *)

Abstract == INSTANCE AtomicBoard

NoRow == Abstract!NoRow

Row == [version : Nat, title : Title \cup {Unset}, status : Status \cup {Unset},
        position : Int, assignee : User \cup {Nobody}, deleted : BOOLEAN]

\* A request body: the columns it sets.  TaskUpdate has no status or
\* position, TaskStatusUpdate has nothing else.
Edit == [title : Title \cup {Unset}, status : Status \cup {Unset},
         position : Int \cup {Unset}, assignee : User \cup {Nobody, Unset}]

NoEdit == [title |-> Unset, status |-> Unset, position |-> Unset, assignee |-> Unset]

Stage == {"idle", "load", "access", "project", "place", "insert", "flush",
          "notify", "reload", "commit"}

Request ==
    [pc     : Stage,
     op     : {"none", "create", "update", "move", "delete"},
     actor  : User \cup {Nobody},
     task   : Task \cup {Unset},
     edit   : Edit,
     base   : Row,         \* the row as this request loaded it
     wrote  : BOOLEAN,     \* it has inserted or updated the row, and locks it
     told   : BOOLEAN,     \* it has inserted the notification
     barred : BOOLEAN]     \* history: it arrived without a right to the board

Idle == [pc |-> "idle", op |-> "none", actor |-> Nobody, task |-> Unset,
         edit |-> NoEdit, base |-> NoRow, wrote |-> FALSE, told |-> FALSE,
         barred |-> FALSE]

TypeOK ==
    /\ row \in [Task -> Row]
    /\ inbox \in [User -> [Task -> Nat]]
    /\ members \subseteq User
    /\ closed \in BOOLEAN
    /\ req \in [Req -> Request]

Init ==
    /\ row = [t \in Task |-> NoRow]
    /\ inbox = [u \in User |-> [t \in Task |-> 0]]
    /\ members = {}
    /\ closed = FALSE
    /\ req = [r \in Req |-> Idle]

-----------------------------------------------------------------------------
(* The session of a request *)

At(r, pc) == req[r].pc = pc

\* A statement that changes nothing others can see.
Becomes(r, call) == req' = [req EXCEPT ![r] = call] /\ UNCHANGED tables

Goto(r, pc) == Becomes(r, [req[r] EXCEPT !.pc = pc])

\* Mutant: the rollback is forgotten and the row stays locked.
FailKeepingLock(r) ==
    Becomes(r, [Idle EXCEPT !.task = req[r].task, !.wrote = req[r].wrote])

\* The handler raises: the transaction is rolled back.
Fail(r) == Becomes(r, Idle)

Locked(t, r) == \E q \in Req \ {r} : req[q].task = t /\ req[q].wrote

\* Mutant: the query forgets the soft-delete filter.
FoundAnyway(t) == row[t].version > 0

\* TaskRepository.get finds a row that is stored and not soft-deleted.
Found(t) == row[t].version > 0 /\ ~row[t].deleted

\* The object in the session after the handler's assignments.
Made(q) ==
    [title    |-> IF q.edit.title = Unset THEN q.base.title ELSE q.edit.title,
     status   |-> IF q.edit.status = Unset THEN q.base.status ELSE q.edit.status,
     position |-> IF q.edit.position = Unset THEN q.base.position ELSE q.edit.position,
     assignee |-> IF q.edit.assignee = Unset THEN q.base.assignee ELSE q.edit.assignee,
     deleted  |-> q.op = "delete",
     version  |-> q.base.version + 1]

\* The unit of work finds a column that differs from the loaded row.
Dirty(q) == Made(q) # [q.base EXCEPT !.version = @ + 1]

\* The row after the UPDATE: the columns that differ are written, the others
\* keep what the row has.
Updated(q) ==
    [c \in DOMAIN NoRow |-> IF Made(q)[c] = q.base[c] THEN row[q.task][c] ELSE Made(q)[c]]

\* Mutant: the previous assignee is not compared.
MustTellAgain(q) == Made(q).assignee \in User \ {q.actor}

\* The session holds a change of assignee that must be told: a new one who is
\* not the actor.
MustTell(q) ==
    /\ Made(q).assignee \in User \ {q.actor}
    /\ Made(q).assignee # q.base.assignee

\* Cards of a column, and next_position: behind the last of them.
Column(s) == {t \in Task : Found(t) /\ row[t].status = s}

\* Mutant: the next position counts the cards.
IsNextByCount(p, s) == p = (Cardinality(Column(s)) + 1) * POSITION_STEP

IsNextPosition(p, s) ==
    \/ Column(s) = {} /\ p = POSITION_STEP
    \/ \E t \in Column(s) :
         /\ \A u \in Column(s) : row[u].position <= row[t].position
         /\ p = row[t].position + POSITION_STEP

\* Every place a card of this column can be put behind.
Ends == {POSITION_STEP} \cup {row[t].position + POSITION_STEP : t \in Task}

-----------------------------------------------------------------------------
(* Requests arrive *)

Arrive(r, call) ==
    /\ req[r] = Idle
    /\ call.op \in Kinds
    /\ Becomes(r, [call EXCEPT !.barred = call.actor \notin Admin \cup members])

\* POST /tasks: the id is a new uuid.
BeginCreate(r) ==
    \E t \in Task, u \in User, title \in Title, s \in Status, a \in User \cup {Nobody} :
        /\ row[t].version = 0 /\ \A q \in Req : req[q].task # t
        /\ req[r] = Idle /\ "create" \in Kinds
        /\ Becomes(r, [Idle EXCEPT
             !.pc = "access", !.op = "create", !.actor = u, !.task = t,
             !.edit = [title |-> title, status |-> s, position |-> Unset, assignee |-> a],
             !.barred = closed \/ u \notin Admin \cup members])

\* PATCH, PATCH .../status and DELETE /tasks/{id}, of a task the client knows.
BeginUpdate(r) ==
    \E t \in Task, u \in User, title \in Title \cup {Unset}, a \in User \cup {Nobody, Unset} :
        /\ row[t].version \in 1 .. MaxVersion
        /\ Arrive(r, [Idle EXCEPT
             !.pc = "load", !.op = "update", !.actor = u, !.task = t,
             !.edit = [NoEdit EXCEPT !.title = title, !.assignee = a]])

BeginMove(r) ==
    \E t \in Task, u \in User, s \in Status, p \in Positions \cup {Unset} :
        /\ row[t].version \in 1 .. MaxVersion
        /\ Arrive(r, [Idle EXCEPT
             !.pc = "load", !.op = "move", !.actor = u, !.task = t,
             !.edit = [NoEdit EXCEPT !.status = s, !.position = p]])

BeginDelete(r) ==
    \E t \in Task, u \in User :
        /\ row[t].version \in 1 .. MaxVersion
        /\ Arrive(r, [Idle EXCEPT
             !.pc = "load", !.op = "delete", !.actor = u, !.task = t])

-----------------------------------------------------------------------------
(* get_accessible_task, and the check the create route makes itself *)

LoadTask(r) ==
    LET t == req[r].task IN
    /\ At(r, "load")
    /\ \/ ~Found(t) /\ Fail(r)
       \/ Found(t) /\ Becomes(r, [req[r] EXCEPT !.base = row[t], !.pc = "access"])

\* What follows the check: update_status without a position asks for one.
Handler(q) ==
    CASE q.op = "create" -> "project"
      [] q.op = "move" /\ q.edit.position = Unset -> "place"
      [] OTHER -> "flush"

\* Mutant: the membership check is missing.
CheckNothing(r) == At(r, "access") /\ Goto(r, Handler(req[r]))

CheckAccess(r) ==
    LET u == req[r].actor IN
    /\ At(r, "access")
    /\ \/ u \notin Admin \cup members /\ Fail(r)
       \/ u \in Admin \cup members /\ Goto(r, Handler(req[r]))

-----------------------------------------------------------------------------
(* The handlers *)

\* create_task: the project must not be deleted.
LoadProject(r) ==
    /\ At(r, "project")
    /\ \/ closed /\ Fail(r)
       \/ ~closed /\ Goto(r, "place")

\* next_position: max(position) of the column as it is committed now; the
\* assignments of this request are not flushed yet (autoflush is off).
NextPosition(r) ==
    /\ At(r, "place")
    /\ \E p \in Ends :
         /\ IsNextPosition(p, req[r].edit.status)
         /\ Becomes(r, [req[r] EXCEPT
              !.edit.position = p,
              !.pc = IF req[r].op = "create" THEN "insert" ELSE "flush"])

InsertTask(r) ==
    /\ At(r, "insert")
    /\ Becomes(r, [req[r] EXCEPT
         !.wrote = TRUE, !.pc = IF MustTell(req[r]) THEN "notify" ELSE "reload"])

\* What a handler does after its flush.
AfterFlush(q) ==
    CASE q.op = "delete" -> "commit"
      [] q.op = "update" /\ MustTell(q) -> "notify"
      [] OTHER -> "reload"

\* The assignments changed nothing: no UPDATE, no lock, no version check.
FlushClean(r) ==
    /\ At(r, "flush") /\ ~Dirty(req[r])
    /\ Goto(r, AfterFlush(req[r]))

\* Mutant: no version column, the last writer wins.
FlushUnversioned(r) ==
    LET q == req[r] IN
    /\ At(r, "flush") /\ Dirty(q)
    /\ ~Locked(q.task, r)
    /\ Becomes(r, [q EXCEPT !.wrote = TRUE, !.pc = AfterFlush(q)])

FlushDirty(r) ==
    LET q == req[r] IN
    /\ At(r, "flush") /\ Dirty(q)
    /\ ~Locked(q.task, r)
    /\ row[q.task].version = q.base.version
    /\ Becomes(r, [q EXCEPT !.wrote = TRUE, !.pc = AfterFlush(q)])

\* No row has the version expected: StaleDataError, answered 409.
FlushStale(r) ==
    LET q == req[r] IN
    /\ At(r, "flush") /\ Dirty(q)
    /\ ~Locked(q.task, r)
    /\ row[q.task].version # q.base.version
    /\ Fail(r)

\* EventBus.publish runs on_task_assigned in the same session.
Notify(r) ==
    /\ At(r, "notify")
    /\ Becomes(r, [req[r] EXCEPT !.told = TRUE, !.pc = "reload"])

\* The row tasks.get sees at the end: its own, or the committed one.
Reloads(q) == q.wrote \/ Found(q.task)

Reload(r) ==
    /\ At(r, "reload") /\ Reloads(req[r])
    /\ Goto(r, "commit")

\* assert loaded is not None
ReloadFails(r) ==
    /\ At(r, "reload") /\ ~Reloads(req[r])
    /\ Fail(r)

-----------------------------------------------------------------------------
(* The end of a request, and the rest of the system *)

Commit(r) ==
    LET q == req[r] IN
    /\ At(r, "commit")
    /\ row' = IF q.wrote THEN [row EXCEPT ![q.task] = Updated(q)] ELSE row
    /\ inbox' = IF q.told THEN [inbox EXCEPT ![Made(q).assignee][q.task] = @ + 1] ELSE inbox
    /\ req' = [req EXCEPT ![r] = Idle]
    /\ UNCHANGED <<members, closed>>

\* A statement fails, the connection breaks or the process dies.
Abort(r) == req[r].pc # "idle" /\ Fail(r)

\* Requests of the projects module, by their commits.
AddMember(u) ==
    /\ "members" \in Kinds
    /\ u \notin members /\ members' = members \cup {u}
    /\ req' = [r \in Req |->
                 IF req[r].actor = u /\ ~(req[r].op = "create" /\ closed)
                 THEN [req[r] EXCEPT !.barred = FALSE] ELSE req[r]]
    /\ UNCHANGED <<row, inbox, closed>>

RemoveMember(u) ==
    /\ "members" \in Kinds
    /\ u \in members /\ members' = members \ {u}
    /\ UNCHANGED <<row, inbox, closed, req>>

CloseProject ==
    /\ "members" \in Kinds
    /\ ~closed /\ closed' = TRUE
    /\ UNCHANGED <<row, inbox, members, req>>

Begin(r) == BeginCreate(r) \/ BeginUpdate(r) \/ BeginMove(r) \/ BeginDelete(r)

Read(r) == LoadTask(r) \/ CheckAccess(r) \/ LoadProject(r) \/ NextPosition(r)

Flush(r) == FlushClean(r) \/ FlushDirty(r) \/ FlushStale(r)

Finish(r) == InsertTask(r) \/ Notify(r) \/ Reload(r) \/ ReloadFails(r) \/ Commit(r)

Next ==
    \/ \E r \in Req : Begin(r) \/ Read(r) \/ Flush(r) \/ Finish(r) \/ Abort(r)
    \/ \E u \in User : AddMember(u) \/ RemoveMember(u)
    \/ CloseProject

Spec == Init /\ [][Next]_vars

\* The event loop runs what can run; row locks are granted in the order of
\* the queue.
Fairness == \A r \in Req : WF_vars(Read(r)) /\ SF_vars(Flush(r)) /\ WF_vars(Finish(r))

FairSpec == Spec /\ Fairness

-----------------------------------------------------------------------------
(* Properties *)

\* The board behaves as if every change were made at one instant to the
\* current task, its notification included (docs/architecture.md: optimistic
\* locking, and notification rows commit with the triggering change).
ActsAtomically == Abstract!Spec

\* No lost update: a request that changes a stored task has loaded exactly
\* the row it replaces.
NoLostUpdate ==
    [][\A t \in Task : row'[t] # row[t] =>
         \E r \in Req : /\ req[r].task = t /\ req[r].base = row[t]
                        /\ req[r].wrote /\ req[r].pc = "commit"
                        /\ row'[t].version = row[t].version + 1]_vars

\* A deleted task never changes again, not even by a request that loaded it
\* before.
DeletedIsFinal == [][\A t \in Task : row[t].deleted => row'[t] = row[t]]_vars

\* A request from somebody who is neither admin nor member, or for a deleted
\* project it would create a task in, writes nothing.
OutsidersWriteNothing == \A r \in Req : req[r].barred => ~req[r].wrote /\ ~req[r].told

\* No request waits for ever.
RequestsFinish == \A r \in Req : req[r].pc # "idle" ~> req[r].pc = "idle"

\* Cards appended to a column stand at different places, so that the order
\* ORDER BY position shows is the order they came in.  Holds as long as
\* requests do not overlap and no client picks a position itself.
DistinctPositions ==
    \A t1, t2 \in Task : Found(t1) /\ Found(t2) /\ row[t1].status = row[t2].status
                         /\ row[t1].position = row[t2].position => t1 = t2

\* The assertion "loaded is not None" of create_task, update_task and
\* update_status.
ReloadSucceeds == \A r \in Req : At(r, "reload") => Reloads(req[r])

=============================================================================
