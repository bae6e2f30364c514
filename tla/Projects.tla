------------------------------ MODULE Projects ------------------------------
(***************************************************************************)
(* Projects, their members and the notifications (app/modules/projects,    *)
(* app/modules/notifications), with the event bus between them.            *)
(*                                                                         *)
(* As in Sessions and Board a request is one transaction of several        *)
(* statements under READ COMMITTED.  Projects have no version column: an   *)
(* UPDATE ... WHERE id waits for the row's lock and then writes the        *)
(* columns that differ from the loaded ones, whatever the row has become.  *)
(* An INSERT into project_members meets uq_project_member: it waits while  *)
(* another transaction has inserted or deleted the same pair, and fails if *)
(* the pair is there.                                                      *)
(*                                                                         *)
(* Left out: the admin role every request here but the last two requires,  *)
(* the role within a project, the notifications of tasks (see Board), and  *)
(* everything that only reads.                                             *)
(***************************************************************************)
EXTENDS Naturals, FiniteSets

CONSTANTS
    User, Project,
    Column, Value,    \* the columns PATCH may set, and what they hold
    Member, Note,     \* supplies of ids: bounds on memberships and notifications
    Req,              \* slots for requests in flight: the bound on concurrency
    Kinds,            \* the requests that arrive: the bound on the workload
    Unset

ASSUME ConstantsAssumption ==
    /\ Unset \notin User \cup Project \cup Member \cup Note \cup Value
    /\ Project \cap Member = {} /\ Project \cap Note = {} /\ Member \cap Note = {}
    /\ IsFiniteSet(Member) /\ IsFiniteSet(Note)

VARIABLES
    project,   \* committed rows of projects
    member,    \* committed rows of project_members
    note,      \* committed notifications
    live,      \* users that are not soft-deleted
    req        \* the requests in flight

tables == <<project, member, note, live>>
vars == <<tables, req>>

-----------------------------------------------------------------------------
(* Types *)

\* A body sets some columns.
Edit == [Column -> Value \cup {Unset}]

NoEdit == [c \in Column |-> Unset]

ProjectRow == [stored : BOOLEAN, deleted : BOOLEAN, cols : Edit]

NoProject == [stored |-> FALSE, deleted |-> FALSE, cols |-> NoEdit]

MemberRow == [project : Project, user : User]

NoteRow == [project : Project, user : User, read : BOOLEAN]

\* No row is the null that stands for its absence.
ASSUME RowsAssumption == Unset \notin MemberRow \cup NoteRow

Stage == {"idle", "project", "user", "check", "insert", "notify", "reload", "load",
          "flush", "detail", "scan", "sweep", "commit"}

Op == {"none", "create", "edit", "close", "add", "remove", "read", "readall"}

Request ==
    [pc      : Stage,
     op      : Op,
     project : Project \cup {Unset},
     user    : User \cup {Unset},     \* the member, or the reader
     edit    : Edit,
     base    : Edit,                  \* the project's columns as loaded
     member  : Member \cup {Unset},   \* the row inserted, or loaded to be deleted
     notes   : SUBSET Note,           \* rows inserted, or to be marked
     locks   : SUBSET (Project \cup Member \cup Note),   \* rows it has written
     barred  : BOOLEAN,               \* history: project or member deleted on arrival
     seen    : SUBSET Note]           \* history: the reader's notes on arrival

Idle == [pc |-> "idle", op |-> "none", project |-> Unset, user |-> Unset,
         edit |-> NoEdit, base |-> NoEdit, member |-> Unset, notes |-> {},
         locks |-> {}, barred |-> FALSE, seen |-> {}]

TypeOK ==
    /\ project \in [Project -> ProjectRow]
    /\ \A p \in Project : project[p].stored => project[p].cols \in [Column -> Value]
    /\ member \in [Member -> MemberRow \cup {Unset}]
    /\ note \in [Note -> NoteRow \cup {Unset}]
    /\ live \subseteq User
    /\ req \in [Req -> Request]

Init ==
    /\ project = [p \in Project |-> NoProject]
    /\ member = [m \in Member |-> Unset]
    /\ note = [n \in Note |-> Unset]
    /\ live = User
    /\ req = [r \in Req |-> Idle]

-----------------------------------------------------------------------------
(* The session of a request *)

At(r, op, pc) == req[r].op = op /\ req[r].pc = pc

Becomes(r, call) == req' = [req EXCEPT ![r] = call] /\ UNCHANGED tables

Goto(r, pc) == Becomes(r, [req[r] EXCEPT !.pc = pc])

\* The handler raises: the transaction is rolled back.
Fail(r) == Becomes(r, Idle)

Locked(row, r) == \E q \in Req \ {r} : row \in req[q].locks

\* Mutant: a lookup that forgets the soft deletion.
FoundAnyway(p) == project[p].stored

\* ProjectRepository.get: soft-deleted projects are filtered out.
Found(p) == project[p].stored /\ ~project[p].deleted

\* The committed rows of a pair.
RowsOf(u, p) == {m \in Member : member[m] = [project |-> p, user |-> u]}

\* Ids uuid7 may still return.
FreshMembers == {m \in Member : member[m] = Unset /\ \A q \in Req : req[q].member # m}

FreshNotes == {n \in Note : note[n] = Unset /\ \A q \in Req : n \notin req[q].notes}

\* Bound: an addition starts only while it is sure of its ids.
Supply == LET adders == {q \in Req : req[q].op = "add"}
          IN  Cardinality(adders) < Cardinality(FreshMembers)
              /\ Cardinality(adders) < Cardinality(FreshNotes)

NotesOf(u) == {n \in Note : note[n] # Unset /\ note[n].user = u}

-----------------------------------------------------------------------------
(* Requests arrive *)

Arrive(r, call) ==
    /\ req[r] = Idle /\ call.op \in Kinds
    /\ Becomes(r, call)

BeginCreate(r) ==
    \E p \in Project, cols \in [Column -> Value] :
        /\ ~project[p].stored /\ \A q \in Req : req[q].project # p
        /\ Arrive(r, [Idle EXCEPT !.op = "create", !.pc = "insert", !.project = p,
                                  !.edit = cols])

\* PATCH and DELETE /projects/{id}, of a project the client knows.
BeginEdit(r) ==
    \E p \in Project, edit \in Edit :
        /\ project[p].stored
        /\ Arrive(r, [Idle EXCEPT !.op = "edit", !.pc = "project", !.project = p,
                                  !.edit = edit, !.barred = project[p].deleted])

BeginClose(r) ==
    \E p \in Project :
        /\ project[p].stored
        /\ Arrive(r, [Idle EXCEPT !.op = "close", !.pc = "project", !.project = p,
                                  !.barred = project[p].deleted])

BeginAdd(r) ==
    \E p \in Project, u \in User :
        /\ Supply /\ project[p].stored
        /\ Arrive(r, [Idle EXCEPT !.op = "add", !.pc = "project", !.project = p,
                                  !.user = u, !.barred = project[p].deleted \/ u \notin live])

BeginRemove(r) ==
    \E p \in Project, u \in User :
        /\ project[p].stored
        /\ Arrive(r, [Idle EXCEPT !.op = "remove", !.pc = "load", !.project = p, !.user = u])

BeginRead(r) ==
    \E n \in Note, u \in live :
        /\ note[n] # Unset
        /\ Arrive(r, [Idle EXCEPT !.op = "read", !.pc = "load", !.user = u, !.notes = {n},
                                  !.seen = {n}])

BeginReadAll(r) ==
    \E u \in live :
        Arrive(r, [Idle EXCEPT !.op = "readall", !.pc = "scan", !.user = u,
                               !.seen = NotesOf(u)])

-----------------------------------------------------------------------------
(* create_project, update_project, delete_project *)

InsertProject(r) ==
    /\ At(r, "create", "insert")
    /\ Becomes(r, [req[r] EXCEPT !.locks = {req[r].project}, !.pc = "commit"])

\* get: what the request does next with a project that is there.
Onward(op) == IF op = "add" THEN "user" ELSE "flush"

LoadProject(r) ==
    LET p == req[r].project IN
    /\ req[r].pc = "project"
    /\ \/ ~Found(p) /\ Fail(r)
       \/ Found(p) /\ Becomes(r, [req[r] EXCEPT !.base = project[p].cols,
                                                !.pc = Onward(req[r].op)])

\* The columns whose value the body changes.
Dirty(q) == {c \in Column : q.edit[c] \notin {Unset, q.base[c]}}

\* No column differs: no UPDATE.
FlushClean(r) ==
    /\ At(r, "edit", "flush") /\ Dirty(req[r]) = {}
    /\ Goto(r, "detail")

FlushProject(r) ==
    LET q == req[r] IN
    /\ q.pc = "flush" /\ (q.op = "close" \/ (q.op = "edit" /\ Dirty(q) # {}))
    /\ ~Locked(q.project, r)
    /\ Becomes(r, [q EXCEPT !.locks = {q.project},
                            !.pc = IF q.op = "close" THEN "commit" ELSE "detail"])

\* Mutant: the answer is made from the copy the session holds.
AnswerFromSession(r) == At(r, "edit", "detail") /\ Goto(r, "commit")

\* get_project_detail filters deleted projects once more: an edit of a
\* project deleted meanwhile ends in a 404 and is rolled back.
LoadDetail(r) ==
    /\ At(r, "edit", "detail")
    /\ \/ ~Found(req[r].project) /\ Fail(r)
       \/ Found(req[r].project) /\ Goto(r, "commit")

-----------------------------------------------------------------------------
(* add_member, remove_member *)

LoadUser(r) ==
    /\ At(r, "add", "user")
    /\ \/ req[r].user \notin live /\ Fail(r)
       \/ req[r].user \in live /\ Goto(r, "check")

CheckMember(r) ==
    LET rows == RowsOf(req[r].user, req[r].project) IN
    /\ At(r, "add", "check")
    /\ \/ rows # {} /\ Fail(r)
       \/ rows = {} /\ Goto(r, "insert")

\* Another transaction has inserted or deleted a row of the pair.
PairBusy(u, p, r) ==
    \E q \in Req \ {r} : /\ req[q].op \in {"add", "remove"} /\ req[q].locks # {}
                         /\ req[q].user = u /\ req[q].project = p

\* Mutant: no unique constraint, the check alone decides.
InsertUnchecked(r) ==
    /\ At(r, "add", "insert")
    /\ \E m \in FreshMembers :
         Becomes(r, [req[r] EXCEPT !.member = m, !.locks = {m}, !.pc = "notify"])

InsertMember(r) ==
    LET q == req[r] IN
    /\ At(r, "add", "insert")
    /\ ~PairBusy(q.user, q.project, r)
    /\ \/ RowsOf(q.user, q.project) # {} /\ Fail(r)
       \/ /\ RowsOf(q.user, q.project) = {}
          /\ \E m \in FreshMembers :
               Becomes(r, [q EXCEPT !.member = m, !.locks = {m}, !.pc = "notify"])

\* EventBus.publish runs on_member_added in the same session.
Notify(r) ==
    /\ At(r, "add", "notify")
    /\ \E n \in FreshNotes : Becomes(r, [req[r] EXCEPT !.notes = {n}, !.pc = "reload"])

\* The reload for the answer finds the request's own row.
ReloadMember(r) == At(r, "add", "reload") /\ Goto(r, "commit")

LoadMember(r) ==
    LET q == req[r]
        rows == RowsOf(q.user, q.project)
    IN  /\ At(r, "remove", "load")
        /\ \/ rows = {} /\ Fail(r)
           \/ \E m \in rows : Becomes(r, [q EXCEPT !.member = m, !.pc = "flush"])

\* Mutant: DELETE ... WHERE project_id = ? AND user_id = ?.
DeletePair(r) ==
    LET rows == RowsOf(req[r].user, req[r].project) IN
    /\ At(r, "remove", "flush")
    /\ \A m \in rows : ~Locked(m, r)
    /\ Becomes(r, [req[r] EXCEPT !.locks = rows, !.pc = "commit"])

\* DELETE ... WHERE id = ?: a row that is gone by then is no error.
DeleteMember(r) ==
    LET q == req[r] IN
    /\ At(r, "remove", "flush")
    /\ ~Locked(q.member, r)
    /\ Becomes(r, [q EXCEPT !.locks = {m \in {q.member} : member[m] # Unset},
                            !.pc = "commit"])

-----------------------------------------------------------------------------
(* mark_read, mark_all_read *)

\* Mutant: whose notification it is goes unchecked.
LoadAnyNote(r) ==
    /\ At(r, "read", "load")
    /\ Becomes(r, [req[r] EXCEPT !.notes = {n \in @ : ~note[n].read}, !.pc = "sweep"])

LoadNote(r) ==
    LET q == req[r] IN
    /\ At(r, "read", "load")
    /\ \/ (\E n \in q.notes : note[n].user # q.user) /\ Fail(r)
       \/ (\A n \in q.notes : note[n].user = q.user)
          /\ Becomes(r, [q EXCEPT !.notes = {n \in @ : ~note[n].read}, !.pc = "sweep"])

\* The bulk UPDATE sees the notes committed when it starts.
ScanNotes(r) ==
    LET q == req[r] IN
    /\ At(r, "readall", "scan")
    /\ Becomes(r, [q EXCEPT !.notes = {n \in NotesOf(q.user) : ~note[n].read},
                            !.pc = "sweep"])

\* Mutant: SKIP LOCKED, rows another request is marking are passed over.
MarkUnlocked(r) ==
    /\ req[r].pc = "sweep"
    /\ Becomes(r, [req[r] EXCEPT !.locks = {n \in req[r].notes : ~Locked(n, r)},
                                 !.pc = "commit"])

MarkNotes(r) ==
    LET q == req[r] IN
    /\ q.pc = "sweep"
    /\ \A n \in q.notes : ~Locked(n, r)
    /\ Becomes(r, [q EXCEPT !.locks = q.notes, !.pc = "commit"])

-----------------------------------------------------------------------------
(* The end of a request, and the rest of the system *)

\* Mutant: the UPDATE writes every column, as loaded where the body is silent.
CommitEveryColumn(q) ==
    project' = [p \in Project |->
        IF p \notin q.locks THEN project[p]
        ELSE [stored  |-> TRUE,
              deleted |-> project[p].deleted \/ q.op = "close",
              cols    |-> [c \in Column |->
                             CASE q.edit[c] # Unset -> q.edit[c]
                               [] q.op = "edit" -> q.base[c]
                               [] OTHER -> project[p].cols[c]]]]

CommitProject(q) ==
    project' = [p \in Project |->
        IF p \notin q.locks THEN project[p]
        ELSE [stored  |-> TRUE,
              deleted |-> project[p].deleted \/ q.op = "close",
              cols    |-> [c \in Column |->
                             IF q.op = "create" \/ c \in Dirty(q)
                             THEN q.edit[c] ELSE project[p].cols[c]]]]

CommitMember(q) ==
    member' = [m \in Member |->
        CASE m \in q.locks /\ q.op = "add" -> [project |-> q.project, user |-> q.user]
          [] m \in q.locks /\ q.op = "remove" -> Unset
          [] OTHER -> member[m]]

CommitNotes(q) ==
    note' = [n \in Note |->
        CASE n \in q.notes /\ q.op = "add" ->
                [project |-> q.project, user |-> q.user, read |-> FALSE]
          [] n \in q.locks -> [note[n] EXCEPT !.read = TRUE]
          [] OTHER -> note[n]]

Commit(r) ==
    LET q == req[r] IN
    /\ q.pc = "commit"
    /\ CommitProject(q) /\ CommitMember(q) /\ CommitNotes(q)
    /\ req' = [req EXCEPT ![r] = Idle]
    /\ UNCHANGED live

\* A statement fails, the connection breaks or the process dies.
Abort(r) == req[r].pc # "idle" /\ Fail(r)

\* DELETE /users/{id}, by its commit.
DeleteUser(u) ==
    /\ "users" \in Kinds /\ u \in live
    /\ live' = live \ {u}
    /\ UNCHANGED <<project, member, note, req>>

Begin(r) ==
    \/ BeginCreate(r) \/ BeginEdit(r) \/ BeginClose(r) \/ BeginAdd(r) \/ BeginRemove(r)
    \/ BeginRead(r) \/ BeginReadAll(r)

Read(r) ==
    \/ LoadProject(r) \/ LoadDetail(r) \/ LoadUser(r) \/ CheckMember(r) \/ ReloadMember(r)
    \/ LoadMember(r) \/ LoadNote(r) \/ ScanNotes(r)

Write(r) ==
    \/ InsertProject(r) \/ FlushClean(r) \/ FlushProject(r) \/ InsertMember(r) \/ Notify(r)
    \/ DeleteMember(r) \/ MarkNotes(r)

Next ==
    \/ \E r \in Req : Begin(r) \/ Read(r) \/ Write(r) \/ Commit(r) \/ Abort(r)
    \/ \E u \in User : DeleteUser(u)

Spec == Init /\ [][Next]_vars

-----------------------------------------------------------------------------
(* Properties *)

Roster == [u \in User |-> [p \in Project |-> Cardinality(RowsOf(u, p))]]

Told == [u \in User |-> [p \in Project |->
            Cardinality({n \in NotesOf(u) : note[n].project = p})]]

Abstract == INSTANCE AtomicProjects WITH roster <- Roster, told <- Told

\* Requests on projects and members act as if each happened at one instant:
\* one membership per user, one notification per addition and none without
\* it, no edit of a deleted project.
ActsAtomically == Abstract!Spec

\* PATCH writes the columns its body changes and no other, so overlapping
\* edits of different columns both survive.
PatchTouchesItsColumns ==
    [][\A p \in Project, c \in Column :
         project[p].stored /\ project'[p].cols[c] # project[p].cols[c] =>
           \E r \in Req : /\ req[r].op = "edit" /\ req[r].pc = "commit"
                          /\ req[r].project = p
                          /\ req[r].edit[c] = project'[p].cols[c]]_vars

\* A removal ends the membership its request found, never one granted since.
RemovalIsOfTheRowFound ==
    [][\A m \in Member : member[m] # Unset /\ member'[m] # member[m] =>
         /\ member'[m] = Unset
         /\ \E r \in Req : /\ req[r].op = "remove" /\ req[r].pc = "commit"
                           /\ req[r].member = m]_vars

\* Only the addressee marks a notification, and none becomes unread.
ReadingIsOwn ==
    [][\A n \in Note : note[n] # Unset /\ note'[n] # note[n] =>
         /\ note'[n] = [note[n] EXCEPT !.read = TRUE]
         /\ \E r \in Req : /\ req[r].op \in {"read", "readall"} /\ req[r].pc = "commit"
                           /\ req[r].user = note[n].user]_vars

\* "Read all" leaves none of the notifications unread that its reader had
\* when the request arrived, however many are added or marked meanwhile.
ReadAllIsComplete ==
    \A r \in Req : At(r, "readall", "commit") =>
        \A n \in req[r].seen : note[n].read \/ n \in req[r].locks

\* A request for a project or member deleted before it arrived writes nothing.
LatecomersWriteNothing == \A r \in Req : req[r].barred => req[r].locks = {}

=============================================================================
