--------------------------- MODULE ProjectsProofs ---------------------------
(***************************************************************************)
(* What the projects module guarantees for every number of projects,       *)
(* users and concurrent requests.  The invariant says which rows a request *)
(* has locked at which of its statements, what the tables hold for the     *)
(* rows it knows, and how requests stay out of each other's way: no row    *)
(* has two writers, a new row is nobody else's, and two uncommitted        *)
(* memberships are of different pairs.                                     *)
(***************************************************************************)
EXTENDS Projects, FiniteSetTheorems, TLAPS

PairOf(q) == [project |-> q.project, user |-> q.user]

\* The statements each kind of request goes through.
Route(q) ==
    /\ q.op = "none" => q = Idle
    /\ q.op = "create" => q.pc \in {"insert", "commit"}
    /\ q.op = "edit" => q.pc \in {"project", "flush", "detail", "commit"}
    /\ q.op = "close" => q.pc \in {"project", "flush", "commit"}
    /\ q.op = "add" =>
         q.pc \in {"project", "user", "check", "insert", "notify", "reload", "commit"}
    /\ q.op = "remove" => q.pc \in {"load", "flush", "commit"}
    /\ q.op = "read" => q.pc \in {"load", "sweep", "commit"}
    /\ q.op = "readall" => q.pc \in {"scan", "sweep", "commit"}

\* What a request was given.
Given(q) ==
    /\ q.op \in {"create", "edit", "close", "add", "remove"} => q.project \in Project
    /\ q.op \in {"add", "remove", "read", "readall"} => q.user \in User
    /\ q.op = "create" => q.edit \in [Column -> Value]
    /\ q.op = "close" => q.edit = NoEdit
    /\ q.op \notin {"add", "remove"} => q.member = Unset

\* A request on a project, and the row it has locked.
OnProject(q) ==
    /\ q.op \in {"create", "edit", "close"} => q.locks \subseteq {q.project}
    /\ q.op \in {"create", "edit", "close"} /\ q.pc \in {"insert", "project", "flush"} =>
         q.locks = {}
    /\ q.op = "create" => ~project[q.project].stored
    /\ q.op = "create" /\ q.pc = "commit" => q.locks = {q.project}
    /\ q.op \in {"edit", "close", "add"} => project[q.project].stored
    /\ q.op = "edit" /\ q.pc = "commit" /\ q.locks # {} => ~project[q.project].deleted

\* An addition, the membership and the notification it has inserted.
OnMember(q) ==
    LET inserted == q.pc \in {"notify", "reload", "commit"} IN
    /\ q.op = "add" /\ ~inserted => q.member = Unset /\ q.locks = {}
    /\ q.op = "add" /\ inserted =>
         /\ q.member \in Member /\ q.locks = {q.member} /\ member[q.member] = Unset
         /\ RowsOf(q.user, q.project) = {}
    /\ q.op = "add" /\ q.pc \notin {"reload", "commit"} => q.notes = {}
    /\ q.op = "add" /\ q.pc \in {"reload", "commit"} =>
         \E n \in Note : q.notes = {n} /\ note[n] = Unset

\* A removal, and the row it has found.
OnRemoval(q) ==
    q.op = "remove" =>
      /\ q.pc # "load" => /\ q.member \in Member
                          /\ member[q.member] \in {Unset, PairOf(q)}
      /\ q.pc # "commit" => q.locks = {}
      /\ q.locks # {} => q.locks = {q.member} /\ member[q.member] = PairOf(q)

\* A reader's notes.
OnNotes(q) ==
    q.op \in {"read", "readall"} =>
      /\ q.locks = IF q.pc = "commit" THEN q.notes ELSE {}
      /\ q.pc \in {"load", "sweep", "commit"} => \A n \in q.notes : note[n] # Unset
      /\ q.pc \in {"sweep", "commit"} => \A n \in q.notes : note[n].user = q.user
      /\ q.op = "readall" =>
           /\ \A n \in q.seen : note[n] # Unset /\ note[n].user = q.user
           /\ q.pc # "scan" => \A n \in q.seen : note[n].read \/ n \in q.notes

\* A request that came too late gets no further than the lookup that fails.
Late(q) ==
    q.barred =>
      \/ q.op \in {"edit", "close", "add"} /\ q.pc = "project" /\ project[q.project].deleted
      \/ q.op = "add" /\ q.pc \in {"project", "user"} /\ q.user \notin live

CallOK(q) ==
    /\ q \in Request /\ Route(q) /\ Given(q)
    /\ OnProject(q) /\ OnMember(q) /\ OnRemoval(q) /\ OnNotes(q) /\ Late(q)

Apart(q1, q2) ==
    /\ q1.locks \cap q2.locks = {}
    /\ q1.op = "create" => q2.project # q1.project
    /\ q1.op = "add" /\ q1.member # Unset => q2.member # q1.member
    /\ q1.op = "add" => q1.notes \cap q2.notes = {}
    /\ q1.op = "add" /\ q2.op = "add" /\ q1.locks # {} /\ q2.locks # {} =>
         PairOf(q1) # PairOf(q2)

AllApart == \A r1, r2 \in Req : r1 # r2 => Apart(req[r1], req[r2])

UniquePairs ==
    \A m1, m2 \in Member : member[m1] # Unset /\ member[m1] = member[m2] => m1 = m2

OnlyStoredDeleted == \A p \in Project : project[p].deleted => project[p].stored

IInv == TypeOK /\ UniquePairs /\ OnlyStoredDeleted /\ (\A r \in Req : CallOK(req[r])) /\ AllApart

-----------------------------------------------------------------------------
(* Steps that leave the tables alone *)

LEMMA IdleOK == CallOK(Idle)
BY ConstantsAssumption
   DEF CallOK, Idle, NoEdit, Edit, Request, Stage, Op, Route, Given, OnProject, OnMember,
       OnRemoval, OnNotes, Late

LEMMA InitInv == Init => IInv
<1> SUFFICES ASSUME Init PROVE IInv
  OBVIOUS
<1>1. TypeOK
  BY IdleOK DEF Init, TypeOK, CallOK, NoProject, ProjectRow, NoEdit, Edit
<1>2. UniquePairs /\ OnlyStoredDeleted
  BY DEF Init, UniquePairs, OnlyStoredDeleted, NoProject
<1>3. \A r \in Req : req[r] = Idle
  BY DEF Init
<1> QED BY <1>1, <1>2, <1>3, IdleOK DEF IInv, AllApart, Apart, Idle

LEMMA QuietStep ==
    ASSUME IInv, NEW r \in Req, NEW call, CallOK(call),
           \A o \in Req \ {r} : Apart(call, req[o]) /\ Apart(req[o], call),
           Becomes(r, call)
    PROVE  IInv'
<1> USE DEF Becomes, tables
<1>1. TypeOK'
  BY DEF IInv, TypeOK, CallOK
<1>2. UniquePairs' /\ OnlyStoredDeleted'
  BY DEF IInv, UniquePairs, OnlyStoredDeleted
<1>3. \A o \in Req : CallOK(req'[o])
  BY DEF IInv, TypeOK
<1>4. \A o \in Req : CallOK(req[o])'
  BY <1>3 DEF CallOK, Route, Given, OnProject, OnMember, OnRemoval, OnNotes, Late, RowsOf,
              PairOf
<1>5. AllApart'
  BY DEF IInv, TypeOK, AllApart, Apart, PairOf
<1> QED BY <1>1, <1>2, <1>4, <1>5 DEF IInv

\* The same for a statement that adds to nothing a request holds.
LEMMA QuietCall ==
    ASSUME IInv, NEW r \in Req, NEW call, CallOK(call),
           call.op = req[r].op, call.project = req[r].project, call.user = req[r].user,
           call.member = req[r].member, call.notes \subseteq req[r].notes,
           call.locks = req[r].locks,
           Becomes(r, call)
    PROVE  IInv'
<1>1. \A o \in Req \ {r} : Apart(call, req[o]) /\ Apart(req[o], call)
  BY DEF IInv, AllApart, Apart, PairOf
<1> QED BY <1>1, QuietStep

LEMMA FailInv ==
    ASSUME IInv, NEW r \in Req, Fail(r)
    PROVE  IInv'
<1>1. \A o \in Req \ {r} : Apart(Idle, req[o]) /\ Apart(req[o], Idle)
  BY ConstantsAssumption DEF Apart, IInv, CallOK, Given, Idle
<1> QED BY <1>1, IdleOK, QuietStep DEF Fail

\* A request arrives holding nothing.
LEMMA ArriveInv ==
    ASSUME IInv, NEW r \in Req, NEW call, CallOK(call),
           call.op \in {"edit", "close", "add", "remove", "read", "readall"},
           call.op \in {"edit", "close", "add", "remove"} => project[call.project].stored,
           call.op \in {"read", "readall"} => call.project = Unset,
           call.locks = {}, call.member = Unset,
           \A n \in call.notes : note[n] # Unset,
           Arrive(r, call)
    PROVE  IInv'
<1>1. ASSUME NEW o \in Req \ {r} PROVE Apart(call, req[o]) /\ Apart(req[o], call)
  <2>1. CallOK(req[o])
    BY DEF IInv
  <2>2. call.op = "add" => call.notes = {}
    BY DEF CallOK, OnMember, Route
  <2>3. req[o].op = "create" => call.project # req[o].project
    BY <2>1, ConstantsAssumption DEF CallOK, OnProject, Given
  <2>4. req[o].op = "add" => req[o].notes \cap call.notes = {}
    BY <2>1 DEF CallOK, OnMember
  <2> QED BY <2>2, <2>3, <2>4 DEF Apart
<1> QED BY <1>1, QuietStep DEF Arrive

\* The records the requests arrive as.
Creation(p, cols) == [Idle EXCEPT !.op = "create", !.pc = "insert", !.project = p, !.edit = cols]

Change(p, edit) ==
    [Idle EXCEPT !.op = "edit", !.pc = "project", !.project = p, !.edit = edit,
                 !.barred = project[p].deleted]

Closing(p) ==
    [Idle EXCEPT !.op = "close", !.pc = "project", !.project = p, !.barred = project[p].deleted]

Addition(p, u) ==
    [Idle EXCEPT !.op = "add", !.pc = "project", !.project = p, !.user = u,
                 !.barred = project[p].deleted \/ u \notin live]

Removal(p, u) == [Idle EXCEPT !.op = "remove", !.pc = "load", !.project = p, !.user = u]

Reading(n, u) ==
    [Idle EXCEPT !.op = "read", !.pc = "load", !.user = u, !.notes = {n}, !.seen = {n}]

ReadingAll(u) ==
    [Idle EXCEPT !.op = "readall", !.pc = "scan", !.user = u, !.seen = NotesOf(u)]

LEMMA BeginInv ==
    ASSUME IInv, NEW r \in Req, Begin(r)
    PROVE  IInv'
<1>1. NoEdit \in Edit /\ [Column -> Value] \subseteq Edit
  BY DEF NoEdit, Edit
<1>2. /\ \A p \in Project : project[p].deleted \in BOOLEAN /\ project[p].stored \in BOOLEAN
      /\ live \subseteq User
  BY DEF IInv, TypeOK, ProjectRow
<1>3. CASE BeginCreate(r)
  <2>1. PICK p \in Project, cols \in [Column -> Value] :
          /\ ~project[p].stored /\ \A q \in Req : req[q].project # p
          /\ Becomes(r, Creation(p, cols))
    BY <1>3 DEF BeginCreate, Arrive, Creation
  <2>2. PICK call : call = Creation(p, cols)
    OBVIOUS
  <2>3. CallOK(call)
    BY <1>1, <2>1, <2>2, ConstantsAssumption
       DEF CallOK, Creation, Idle, Request, Stage, Op, Route, Given, OnProject, OnMember,
           OnRemoval, OnNotes, Late
  <2>4. \A o \in Req \ {r} : Apart(call, req[o]) /\ Apart(req[o], call)
    BY <2>1, <2>2, ConstantsAssumption DEF Apart, Creation, Idle, IInv, CallOK, Given
  <2> QED BY <2>1, <2>2, <2>3, <2>4, QuietStep
<1>4. CASE BeginEdit(r)
  <2>1. PICK p \in Project, edit \in Edit :
          project[p].stored /\ Arrive(r, Change(p, edit))
    BY <1>4 DEF BeginEdit, Change
  <2>2. PICK call : call = Change(p, edit)
    OBVIOUS
  <2>3. CallOK(call)
    BY <1>1, <1>2, <2>1, <2>2, ConstantsAssumption
       DEF CallOK, Change, Idle, Request, Stage, Op, Route, Given, OnProject, OnMember,
           OnRemoval, OnNotes, Late
  <2> QED BY <2>1, <2>2, <2>3, ArriveInv DEF Change, Idle
<1>5. CASE BeginClose(r)
  <2>1. PICK p \in Project : project[p].stored /\ Arrive(r, Closing(p))
    BY <1>5 DEF BeginClose, Closing
  <2>2. PICK call : call = Closing(p)
    OBVIOUS
  <2>3. CallOK(call)
    BY <1>1, <1>2, <2>1, <2>2, ConstantsAssumption
       DEF CallOK, Closing, Idle, Request, Stage, Op, Route, Given, OnProject, OnMember,
           OnRemoval, OnNotes, Late
  <2> QED BY <2>1, <2>2, <2>3, ArriveInv DEF Closing, Idle
<1>6. CASE BeginAdd(r)
  <2>1. PICK p \in Project, u \in User : project[p].stored /\ Arrive(r, Addition(p, u))
    BY <1>6 DEF BeginAdd, Addition
  <2>2. PICK call : call = Addition(p, u)
    OBVIOUS
  <2>3. CallOK(call)
    BY <1>1, <1>2, <2>1, <2>2, ConstantsAssumption
       DEF CallOK, Addition, Idle, Request, Stage, Op, Route, Given, OnProject, OnMember,
           OnRemoval, OnNotes, Late
  <2> QED BY <2>1, <2>2, <2>3, ArriveInv DEF Addition, Idle
<1>7. CASE BeginRemove(r)
  <2>1. PICK p \in Project, u \in User : project[p].stored /\ Arrive(r, Removal(p, u))
    BY <1>7 DEF BeginRemove, Removal
  <2>2. PICK call : call = Removal(p, u)
    OBVIOUS
  <2>3. CallOK(call)
    BY <1>1, <2>1, <2>2, ConstantsAssumption
       DEF CallOK, Removal, Idle, Request, Stage, Op, Route, Given, OnProject, OnMember,
           OnRemoval, OnNotes, Late
  <2> QED BY <2>1, <2>2, <2>3, ArriveInv DEF Removal, Idle
<1>8. CASE BeginRead(r)
  <2>1. PICK n \in Note, u \in live : note[n] # Unset /\ Arrive(r, Reading(n, u))
    BY <1>8 DEF BeginRead, Reading
  <2>2. PICK call : call = Reading(n, u)
    OBVIOUS
  <2>3. CallOK(call)
    BY <1>1, <1>2, <2>1, <2>2, ConstantsAssumption
       DEF CallOK, Reading, Idle, Request, Stage, Op, Route, Given, OnProject, OnMember,
           OnRemoval, OnNotes, Late
  <2> QED BY <2>1, <2>2, <2>3, ArriveInv DEF Reading, Idle
<1>9. CASE BeginReadAll(r)
  <2>1. PICK u \in live : Arrive(r, ReadingAll(u))
    BY <1>9 DEF BeginReadAll, ReadingAll
  <2>2. PICK call : call = ReadingAll(u)
    OBVIOUS
  <2>3. CallOK(call)
    BY <1>1, <1>2, <2>1, <2>2, ConstantsAssumption
       DEF CallOK, ReadingAll, NotesOf, Idle, Request, Stage, Op, Route, Given, OnProject,
           OnMember, OnRemoval, OnNotes, Late
  <2> QED BY <2>1, <2>2, <2>3, ArriveInv DEF ReadingAll, Idle
<1> QED BY <1>3, <1>4, <1>5, <1>6, <1>7, <1>8, <1>9 DEF Begin

-----------------------------------------------------------------------------
(* Statements that read *)

LEMMA ReadInv ==
    ASSUME IInv, NEW r \in Req, Read(r)
    PROVE  IInv'
<1>1. PICK q : q = req[r]
  OBVIOUS
<1>2. CallOK(q) /\ q \in Request
  BY <1>1 DEF IInv, CallOK
<1> USE DEF At, Goto
<1>3. CASE LoadProject(r)
  <2>1. CASE Fail(r)
    BY <2>1, FailInv
  <2>2. CASE /\ q.pc = "project" /\ Found(q.project)
             /\ Becomes(r, [q EXCEPT !.base = project[q.project].cols, !.pc = Onward(q.op)])
    <3>1. PICK call : call = [q EXCEPT !.base = project[q.project].cols, !.pc = Onward(q.op)]
      OBVIOUS
    <3>2. q.op \in {"edit", "close", "add"} /\ q.project \in Project
      BY <1>2, <2>2 DEF CallOK, Route, Given, Request, Op, TypeOK, Idle
    <3>3. project[q.project].cols \in Edit
      BY <3>2 DEF IInv, TypeOK, ProjectRow
    <3>4. CallOK(call)
      <4>1. CASE q.op = "add"
        BY <1>2, <2>2, <3>1, <3>3, <4>1
           DEF CallOK, Request, Stage, Route, Given, OnProject, OnMember, OnRemoval, OnNotes,
               Late, Onward, Found
      <4>2. CASE q.op \in {"edit", "close"}
        <5>1. call = [q EXCEPT !.base = project[q.project].cols, !.pc = "flush"]
          BY <3>1, <4>2 DEF Onward
        <5>2. call \in Request /\ Route(call) /\ Given(call)
          BY <1>2, <3>3, <4>2, <5>1 DEF CallOK, Request, Stage, Route, Given
        <5>3. q.barred = FALSE
          BY <1>2, <2>2, <4>2 DEF CallOK, Request, Late, Found
        <5>4. OnProject(call) /\ Late(call)
          BY <1>2, <2>2, <4>2, <5>1, <5>3 DEF CallOK, Request, OnProject, Late
        <5>5. OnMember(call) /\ OnRemoval(call) /\ OnNotes(call)
          BY <1>2, <4>2, <5>1 DEF Request, OnMember, OnRemoval, OnNotes
        <5> QED BY <5>2, <5>4, <5>5 DEF CallOK
      <4> QED BY <3>2, <4>1, <4>2
    <3> QED BY <1>1, <1>2, <2>2, <3>1, <3>4, QuietCall DEF Request
  <2> QED BY <1>1, <1>3, <2>1, <2>2 DEF LoadProject
<1>4. CASE LoadDetail(r)
  <2>1. CASE Fail(r)
    BY <2>1, FailInv
  <2>2. CASE q.op = "edit" /\ q.pc = "detail" /\ Found(q.project)
             /\ Becomes(r, [q EXCEPT !.pc = "commit"])
    <3>1. PICK call : call = [q EXCEPT !.pc = "commit"]
      OBVIOUS
    <3>2. CallOK(call)
      BY <1>2, <2>2, <3>1
         DEF CallOK, Request, Stage, Route, Given, OnProject, OnMember, OnRemoval, OnNotes,
             Late, Found
    <3> QED BY <1>1, <1>2, <2>2, <3>1, <3>2, QuietCall DEF Request
  <2> QED BY <1>1, <1>4, <2>1, <2>2 DEF LoadDetail
<1>5. CASE LoadUser(r)
  <2>1. CASE Fail(r)
    BY <2>1, FailInv
  <2>2. CASE q.op = "add" /\ q.pc = "user" /\ q.user \in live
             /\ Becomes(r, [q EXCEPT !.pc = "check"])
    <3>1. PICK call : call = [q EXCEPT !.pc = "check"]
      OBVIOUS
    <3>2. CallOK(call)
      BY <1>2, <2>2, <3>1
         DEF CallOK, Request, Stage, Route, Given, OnProject, OnMember, OnRemoval, OnNotes, Late
    <3> QED BY <1>1, <1>2, <2>2, <3>1, <3>2, QuietCall DEF Request
  <2> QED BY <1>1, <1>5, <2>1, <2>2 DEF LoadUser
<1>6. CASE CheckMember(r) \/ ReloadMember(r)
  <2>1. CASE Fail(r)
    BY <2>1, FailInv
  <2>2. ASSUME NEW pc \in {"insert", "commit"}, q.op = "add",
               pc = "insert" => q.pc = "check", pc = "commit" => q.pc = "reload",
               Becomes(r, [q EXCEPT !.pc = pc])
        PROVE  IInv'
    <3>1. PICK call : call = [q EXCEPT !.pc = pc]
      OBVIOUS
    <3>2. CallOK(call)
      BY <1>2, <2>2, <3>1
         DEF CallOK, Request, Stage, Route, Given, OnProject, OnMember, OnRemoval, OnNotes, Late
    <3> QED BY <1>1, <1>2, <2>2, <3>1, <3>2, QuietCall DEF Request
  <2> QED BY <1>1, <1>6, <2>1, <2>2 DEF CheckMember, ReloadMember
<1>7. CASE LoadMember(r)
  <2>1. CASE Fail(r)
    BY <2>1, FailInv
  <2>2. CASE q.op = "remove" /\ q.pc = "load"
             /\ \E m \in RowsOf(q.user, q.project) :
                  Becomes(r, [q EXCEPT !.member = m, !.pc = "flush"])
    <3>1. PICK m \in RowsOf(q.user, q.project) :
            Becomes(r, [q EXCEPT !.member = m, !.pc = "flush"])
      BY <2>2
    <3>2. PICK call : call = [q EXCEPT !.member = m, !.pc = "flush"]
      OBVIOUS
    <3>3. m \in Member /\ member[m] = PairOf(q)
      BY <3>1 DEF RowsOf, PairOf
    <3>4. CallOK(call)
      BY <1>2, <2>2, <3>2, <3>3
         DEF CallOK, Request, Stage, Route, Given, OnProject, OnMember, OnRemoval, OnNotes,
             Late, PairOf
    <3>5. PairOf(q) # Unset
      BY <1>2, <2>2, RowsAssumption DEF CallOK, Given, PairOf, MemberRow
    <3>6. ASSUME NEW o \in Req \ {r} PROVE Apart(call, req[o]) /\ Apart(req[o], call)
      <4>1. Apart(q, req[o]) /\ Apart(req[o], q) /\ CallOK(req[o])
        BY <1>1 DEF IInv, AllApart
      <4>2. req[o].op = "add" /\ req[o].member # Unset => req[o].member # m
        BY <3>3, <3>5, <4>1 DEF CallOK, Route, OnMember
      <4> QED BY <1>2, <2>2, <3>2, <4>1, <4>2 DEF Apart, PairOf, Request
    <3> QED BY <3>1, <3>2, <3>4, <3>6, QuietStep
  <2> QED BY <1>1, <1>7, <2>1, <2>2 DEF LoadMember
<1>8. CASE LoadNote(r)
  <2>1. CASE Fail(r)
    BY <2>1, FailInv
  <2>2. CASE q.op = "read" /\ q.pc = "load" /\ (\A n \in q.notes : note[n].user = q.user)
             /\ Becomes(r, [q EXCEPT !.notes = {n \in q.notes : ~note[n].read}, !.pc = "sweep"])
    <3>1. PICK call : call = [q EXCEPT !.notes = {n \in q.notes : ~note[n].read}, !.pc = "sweep"]
      OBVIOUS
    <3>2. CallOK(call)
      BY <1>2, <2>2, <3>1
         DEF CallOK, Request, Stage, Route, Given, OnProject, OnMember, OnRemoval, OnNotes, Late
    <3> QED BY <1>1, <1>2, <2>2, <3>1, <3>2, QuietCall DEF Request
  <2> QED BY <1>1, <1>8, <2>1, <2>2 DEF LoadNote
<1>9. CASE ScanNotes(r)
  <2> DEFINE unread == {n \in NotesOf(q.user) : ~note[n].read}
  <2>1. q.op = "readall" /\ q.pc = "scan"
        /\ Becomes(r, [q EXCEPT !.notes = unread, !.pc = "sweep"])
    BY <1>1, <1>9 DEF ScanNotes
  <2>2. PICK call : call = [q EXCEPT !.notes = unread, !.pc = "sweep"]
    OBVIOUS
  <2>3. \A n \in unread : n \in Note /\ note[n] # Unset /\ note[n].user = q.user
    BY DEF NotesOf
  <2>4. \A n \in q.seen : note[n].read \/ n \in unread
    BY <1>2, <2>1 DEF CallOK, OnNotes, NotesOf, Request
  <2> HIDE DEF unread
  <2>5. CallOK(call)
    BY <1>2, <2>1, <2>2, <2>3, <2>4
       DEF CallOK, Request, Stage, Route, Given, OnProject, OnMember, OnRemoval, OnNotes, Late
  <2>6. ASSUME NEW o \in Req \ {r} PROVE Apart(call, req[o]) /\ Apart(req[o], call)
    <3>1. Apart(q, req[o]) /\ Apart(req[o], q) /\ CallOK(req[o])
      BY <1>1 DEF IInv, AllApart
    <3>2. req[o].op = "add" => req[o].notes \cap unread = {}
      BY <2>3, <3>1 DEF CallOK, OnMember
    <3> QED BY <1>2, <2>1, <2>2, <3>1, <3>2 DEF Apart, PairOf, Request
  <2> QED BY <2>1, <2>2, <2>5, <2>6, QuietStep
<1> QED BY <1>3, <1>4, <1>5, <1>6, <1>7, <1>8, <1>9 DEF Read

-----------------------------------------------------------------------------
(* Statements that write *)

\* What a request may have locked.
LEMMA LockKinds ==
    ASSUME NEW q, CallOK(q), NEW x \in q.locks
    PROVE  /\ x \in Project => q.op \in {"create", "edit", "close"} /\ x = q.project
           /\ x \in Member => q.op \in {"add", "remove"} /\ x = q.member
           /\ x \in Note => q.op \in {"read", "readall"} /\ x \in q.notes
           /\ x \in Project \cup Member \cup Note
<1>1. q.op \in {"create", "edit", "close"} => q.project \in Project /\ x = q.project
  BY DEF CallOK, Given, OnProject
<1>2. q.op = "add" => x = q.member /\ q.member \in Member
  BY DEF CallOK, OnMember
<1>3. q.op = "remove" => x = q.member /\ q.member \in Member
  BY DEF CallOK, Route, OnRemoval
<1>4. q.op \in {"read", "readall"} => x \in q.notes /\ x \in Note
  BY DEF CallOK, Request, OnNotes
<1>5. q.op # "none"
  BY DEF CallOK, Route, Idle
<1> QED BY <1>1, <1>2, <1>3, <1>4, <1>5, ConstantsAssumption DEF CallOK, Request, Op

LEMMA WriteProjectInv ==
    ASSUME IInv, NEW r \in Req, InsertProject(r) \/ FlushClean(r) \/ FlushProject(r)
    PROVE  IInv'
<1>1. PICK q : q = req[r]
  OBVIOUS
<1>2. CallOK(q) /\ q \in Request /\ q.project \in Project \cup {Unset}
  BY <1>1 DEF IInv, CallOK, Request
<1>3. \A o \in Req \ {r} : CallOK(req[o]) /\ Apart(q, req[o]) /\ Apart(req[o], q)
  BY <1>1 DEF IInv, AllApart
<1> USE DEF At, Goto
<1>4. CASE InsertProject(r)
  <2>1. q.op = "create" /\ q.pc = "insert"
        /\ Becomes(r, [q EXCEPT !.locks = {q.project}, !.pc = "commit"])
    BY <1>1, <1>4 DEF InsertProject
  <2>2. PICK call : call = [q EXCEPT !.locks = {q.project}, !.pc = "commit"]
    OBVIOUS
  <2>3. q.project \in Project
    BY <1>2, <2>1 DEF CallOK, Given
  <2>4. CallOK(call)
    BY <1>2, <2>1, <2>2, <2>3
       DEF CallOK, Request, Stage, Route, Given, OnProject, OnMember, OnRemoval, OnNotes, Late
  <2>5. ASSUME NEW o \in Req \ {r} PROVE Apart(call, req[o]) /\ Apart(req[o], call)
    <3>1. q.project \notin req[o].locks
      BY <1>3, <2>1, <2>3, LockKinds DEF Apart
    <3> QED BY <1>2, <1>3, <2>1, <2>2, <3>1 DEF Apart, PairOf, Request
  <2> QED BY <2>1, <2>2, <2>4, <2>5, QuietStep
<1>5. CASE FlushClean(r)
  <2>1. q.op = "edit" /\ q.pc = "flush" /\ Becomes(r, [q EXCEPT !.pc = "detail"])
    BY <1>1, <1>5 DEF FlushClean
  <2>2. PICK call : call = [q EXCEPT !.pc = "detail"]
    OBVIOUS
  <2>3. CallOK(call)
    BY <1>2, <2>1, <2>2
       DEF CallOK, Request, Stage, Route, Given, OnProject, OnMember, OnRemoval, OnNotes, Late
  <2> QED BY <1>1, <1>2, <2>1, <2>2, <2>3, QuietCall DEF Request
<1>6. CASE FlushProject(r)
  <2> DEFINE next == IF q.op = "close" THEN "commit" ELSE "detail"
  <2>1. /\ q.op \in {"edit", "close"} /\ q.pc = "flush"
        /\ ~Locked(q.project, r)
        /\ Becomes(r, [q EXCEPT !.locks = {q.project}, !.pc = next])
    BY <1>1, <1>6 DEF FlushProject
  <2>2. PICK call : call = [q EXCEPT !.locks = {q.project}, !.pc = next]
    OBVIOUS
  <2>3. q.project \in Project /\ q.locks = {}
    BY <1>2, <2>1 DEF CallOK, Given, OnProject
  <2>4. CallOK(call)
    BY <1>2, <2>1, <2>2, <2>3
       DEF CallOK, Request, Stage, Route, Given, OnProject, OnMember, OnRemoval, OnNotes, Late
  <2>5. ASSUME NEW o \in Req \ {r} PROVE Apart(call, req[o]) /\ Apart(req[o], call)
    <3>1. q.project \notin req[o].locks
      BY <2>1 DEF Locked
    <3> QED BY <1>2, <1>3, <2>1, <2>2, <3>1 DEF Apart, PairOf, Request
  <2> QED BY <2>1, <2>2, <2>4, <2>5, QuietStep
<1> QED BY <1>4, <1>5, <1>6

LEMMA WriteMemberInv ==
    ASSUME IInv, NEW r \in Req, InsertMember(r) \/ Notify(r) \/ DeleteMember(r)
    PROVE  IInv'
<1>1. PICK q : q = req[r]
  OBVIOUS
<1>2. CallOK(q) /\ q \in Request
  BY <1>1 DEF IInv, CallOK
<1>3. \A o \in Req \ {r} : CallOK(req[o]) /\ Apart(q, req[o]) /\ Apart(req[o], q)
  BY <1>1 DEF IInv, AllApart
<1> USE DEF At
<1>4. CASE InsertMember(r)
  <2>1. CASE Fail(r)
    BY <2>1, FailInv
  <2>2. CASE ~Fail(r)
    <3>1. PICK m \in FreshMembers :
            /\ q.op = "add" /\ q.pc = "insert" /\ ~PairBusy(q.user, q.project, r)
            /\ RowsOf(q.user, q.project) = {}
            /\ Becomes(r, [q EXCEPT !.member = m, !.locks = {m}, !.pc = "notify"])
      BY <1>1, <1>4, <2>2 DEF InsertMember
    <3>2. PICK call : call = [q EXCEPT !.member = m, !.locks = {m}, !.pc = "notify"]
      OBVIOUS
    <3>3. m \in Member /\ member[m] = Unset /\ \A o \in Req : req[o].member # m
      BY DEF FreshMembers
    <3>4. CallOK(call)
      BY <1>2, <3>1, <3>2, <3>3, ConstantsAssumption
         DEF CallOK, Request, Stage, Route, Given, OnProject, OnMember, OnRemoval, OnNotes, Late
    <3>5. ASSUME NEW o \in Req \ {r} PROVE Apart(call, req[o]) /\ Apart(req[o], call)
      <4>1. m \notin req[o].locks
        BY <1>3, <3>3, LockKinds
      <4>2. req[o].op = "add" /\ req[o].locks # {} => PairOf(req[o]) # PairOf(q)
        BY <3>1 DEF PairBusy, PairOf
      <4>3. PairOf(call) = PairOf(q)
        BY <1>2, <3>2 DEF Request, PairOf
      <4> QED BY <1>2, <1>3, <3>1, <3>2, <3>3, <4>1, <4>2, <4>3 DEF Apart, Request
    <3> QED BY <3>1, <3>2, <3>4, <3>5, QuietStep
  <2> QED BY <2>1, <2>2
<1>5. CASE Notify(r)
  <2>1. PICK n \in FreshNotes :
          /\ q.op = "add" /\ q.pc = "notify"
          /\ Becomes(r, [q EXCEPT !.notes = {n}, !.pc = "reload"])
    BY <1>1, <1>5 DEF Notify
  <2>2. PICK call : call = [q EXCEPT !.notes = {n}, !.pc = "reload"]
    OBVIOUS
  <2>3. n \in Note /\ note[n] = Unset /\ \A o \in Req : n \notin req[o].notes
    BY DEF FreshNotes
  <2>4. CallOK(call)
    BY <1>2, <2>1, <2>2, <2>3
       DEF CallOK, Request, Stage, Route, Given, OnProject, OnMember, OnRemoval, OnNotes, Late
  <2>5. ASSUME NEW o \in Req \ {r} PROVE Apart(call, req[o]) /\ Apart(req[o], call)
    BY <1>2, <1>3, <2>1, <2>2, <2>3 DEF Apart, PairOf, Request
  <2> QED BY <2>1, <2>2, <2>4, <2>5, QuietStep
<1>6. CASE DeleteMember(r)
  <2> DEFINE gone == {m \in {q.member} : member[m] # Unset}
  <2>1. /\ q.op = "remove" /\ q.pc = "flush" /\ ~Locked(q.member, r)
        /\ Becomes(r, [q EXCEPT !.locks = gone, !.pc = "commit"])
    BY <1>1, <1>6 DEF DeleteMember
  <2>2. PICK call : call = [q EXCEPT !.locks = gone, !.pc = "commit"]
    OBVIOUS
  <2>3. q.member \in Member /\ member[q.member] \in {Unset, PairOf(q)}
    BY <1>2, <2>1 DEF CallOK, OnRemoval
  <2>4. PairOf(call) = PairOf(q)
    BY <1>2, <2>2 DEF Request, PairOf
  <2>5. CallOK(call)
    <3>1. /\ gone \subseteq {q.member}
          /\ gone # {} => gone = {q.member} /\ member[q.member] = PairOf(q)
      BY <2>3
    <3> HIDE DEF gone
    <3>2. call \in Request /\ Route(call) /\ Given(call)
      BY <1>2, <2>1, <2>2, <2>3, <3>1 DEF CallOK, Request, Stage, Route, Given
    <3>3. OnProject(call) /\ OnMember(call) /\ OnNotes(call) /\ Late(call)
      BY <1>2, <2>1, <2>2 DEF CallOK, Request, OnProject, OnMember, OnNotes, Late
    <3>4. OnRemoval(call)
      BY <1>2, <2>1, <2>2, <2>3, <2>4, <3>1 DEF Request, OnRemoval
    <3> QED BY <3>2, <3>3, <3>4 DEF CallOK
  <2>6. ASSUME NEW o \in Req \ {r} PROVE Apart(call, req[o]) /\ Apart(req[o], call)
    <3>1. q.member \notin req[o].locks
      BY <2>1 DEF Locked
    <3> QED BY <1>2, <1>3, <2>1, <2>2, <2>4, <3>1 DEF Apart, Request
  <2> QED BY <2>1, <2>2, <2>5, <2>6, QuietStep
<1> QED BY <1>4, <1>5, <1>6

LEMMA MarkNotesInv ==
    ASSUME IInv, NEW r \in Req, MarkNotes(r)
    PROVE  IInv'
<1>1. PICK q : q = req[r]
  OBVIOUS
<1>2. CallOK(q) /\ q \in Request
  BY <1>1 DEF IInv, CallOK
<1>3. \A o \in Req \ {r} : Apart(q, req[o]) /\ Apart(req[o], q)
  BY <1>1 DEF IInv, AllApart
<1>4. /\ q.op \in {"read", "readall"} /\ q.pc = "sweep"
      /\ \A n \in q.notes : ~Locked(n, r)
      /\ Becomes(r, [q EXCEPT !.locks = q.notes, !.pc = "commit"])
  BY <1>1, <1>2 DEF MarkNotes, CallOK, Request, Op, Route, Idle
<1>5. PICK call : call = [q EXCEPT !.locks = q.notes, !.pc = "commit"]
  OBVIOUS
<1>6. CallOK(call)
  BY <1>2, <1>4, <1>5
     DEF CallOK, Request, Stage, Route, Given, OnProject, OnMember, OnRemoval, OnNotes, Late
<1>7. ASSUME NEW o \in Req \ {r} PROVE Apart(call, req[o]) /\ Apart(req[o], call)
  <2>1. q.notes \cap req[o].locks = {}
    BY <1>4 DEF Locked
  <2> QED BY <1>2, <1>3, <1>4, <1>5, <2>1 DEF Apart, PairOf, Request
<1> QED BY <1>4, <1>5, <1>6, <1>7, QuietStep

-----------------------------------------------------------------------------
(* What a commit does to each table *)

LEMMA CommittedProjects ==
    ASSUME IInv, NEW r \in Req, Commit(r)
    PROVE  /\ project' \in [Project -> ProjectRow]
           /\ \A p \in Project \ req[r].locks : project'[p] = project[p]
           /\ \A p \in Project \cap req[r].locks :
                /\ req[r].op \in {"create", "edit", "close"} /\ p = req[r].project
                /\ project'[p].stored /\ project'[p].cols \in [Column -> Value]
                /\ project'[p].deleted = (project[p].deleted \/ req[r].op = "close")
                /\ \A c \in Column : project'[p].cols[c] =
                     IF req[r].op = "create" \/ c \in Dirty(req[r])
                     THEN req[r].edit[c] ELSE project[p].cols[c]
<1>1. PICK q : q = req[r]
  OBVIOUS
<1>2. CallOK(q) /\ q \in Request
  BY <1>1 DEF IInv, CallOK
<1> DEFINE Cols(p) == [c \in Column |-> IF q.op = "create" \/ c \in Dirty(q)
                                        THEN q.edit[c] ELSE project[p].cols[c]]
           Put(p) == [stored |-> TRUE, deleted |-> project[p].deleted \/ q.op = "close",
                      cols |-> Cols(p)]
<1>3. project' = [p \in Project |-> IF p \notin q.locks THEN project[p] ELSE Put(p)]
  BY <1>1 DEF Commit, CommitProject
<1>4. ASSUME NEW p \in Project, p \in q.locks
      PROVE  /\ q.op \in {"create", "edit", "close"} /\ p = q.project
             /\ Cols(p) \in [Column -> Value]
  <2>1. q.op \in {"create", "edit", "close"} /\ p = q.project
    BY <1>2, <1>4, LockKinds
  <2>2. q.op # "create" => project[p].cols \in [Column -> Value]
    BY <1>2, <1>4, <2>1 DEF CallOK, OnProject, IInv, TypeOK
  <2>3. \A c \in Dirty(q) : q.edit[c] \in Value
    BY <1>2 DEF Dirty, Request, Edit
  <2>4. q.op = "create" => q.edit \in [Column -> Value]
    BY <1>2 DEF CallOK, Given
  <2> QED BY <2>1, <2>2, <2>3, <2>4
<1>5. ASSUME NEW p \in Project, p \in q.locks
      PROVE  Put(p) \in ProjectRow /\ Put(p).cols \in [Column -> Value]
  <2>1. project[p].deleted \in BOOLEAN
    BY DEF IInv, TypeOK, ProjectRow
  <2>2. Cols(p) \in Edit
    BY <1>4, <1>5 DEF Edit
  <2> HIDE DEF Cols
  <2> QED BY <1>4, <1>5, <2>1, <2>2 DEF ProjectRow
<1>6. project' \in [Project -> ProjectRow]
  <2> HIDE DEF Put
  <2> QED BY <1>3, <1>5 DEF IInv, TypeOK
<1>7. \A p \in Project \cap q.locks :
        /\ project'[p].stored /\ project'[p].cols = Cols(p)
        /\ project'[p].deleted = (project[p].deleted \/ q.op = "close")
  <2> HIDE DEF Cols
  <2> QED BY <1>3
<1> QED BY <1>1, <1>3, <1>4, <1>6, <1>7

LEMMA CommittedMembers ==
    ASSUME IInv, NEW r \in Req, Commit(r)
    PROVE  /\ member' \in [Member -> MemberRow \cup {Unset}]
           /\ \A m \in Member \ req[r].locks : member'[m] = member[m]
           /\ \A m \in Member \cap req[r].locks :
                /\ m = req[r].member
                /\ \/ /\ req[r].op = "add" /\ member[m] = Unset
                      /\ member'[m] = PairOf(req[r])
                   \/ /\ req[r].op = "remove" /\ member'[m] = Unset
                      /\ member[m] = PairOf(req[r])
<1>1. PICK q : q = req[r]
  OBVIOUS
<1>2. CallOK(q) /\ q \in Request /\ q.pc = "commit"
  BY <1>1 DEF IInv, CallOK, Commit
<1>3. member' = [m \in Member |->
        CASE m \in q.locks /\ q.op = "add" -> PairOf(q)
          [] m \in q.locks /\ q.op = "remove" -> Unset
          [] OTHER -> member[m]]
  BY <1>1 DEF Commit, CommitMember, PairOf
<1>4. q.op \in {"add", "remove"} => PairOf(q) \in MemberRow
  BY <1>2 DEF CallOK, Given, PairOf, MemberRow
<1>5. \A m \in Member \cap q.locks : q.op \in {"add", "remove"} /\ m = q.member
  BY <1>2, LockKinds
<1>6. q.op = "add" => member[q.member] = Unset
  BY <1>2 DEF CallOK, OnMember
<1>7. q.op = "remove" /\ q.locks # {} => member[q.member] = PairOf(q)
  BY <1>2 DEF CallOK, OnRemoval
<1>8. member' \in [Member -> MemberRow \cup {Unset}]
  BY <1>3, <1>4 DEF IInv, TypeOK
<1>9. ASSUME NEW m \in Member
      PROVE  /\ m \notin q.locks => member'[m] = member[m]
             /\ m \in q.locks =>
                  \/ q.op = "add" /\ member'[m] = PairOf(q)
                  \/ q.op = "remove" /\ member'[m] = Unset
  BY <1>3, <1>5
<1> QED BY <1>1, <1>5, <1>6, <1>7, <1>8, <1>9

LEMMA CommittedNotes ==
    ASSUME IInv, NEW r \in Req, Commit(r)
    PROVE  /\ note' \in [Note -> NoteRow \cup {Unset}]
           /\ \A n \in Note : note[n] = Unset =>
                IF req[r].op = "add" /\ n \in req[r].notes
                THEN note'[n] = [project |-> req[r].project, user |-> req[r].user,
                                 read |-> FALSE]
                ELSE note'[n] = Unset
           /\ \A n \in Note : note[n] # Unset =>
                IF n \in req[r].locks
                THEN /\ note'[n] = [note[n] EXCEPT !.read = TRUE]
                     /\ req[r].op \in {"read", "readall"} /\ note[n].user = req[r].user
                ELSE note'[n] = note[n]
<1>1. PICK q : q = req[r]
  OBVIOUS
<1>2. CallOK(q) /\ q \in Request /\ q.pc = "commit"
  BY <1>1 DEF IInv, CallOK, Commit
<1> DEFINE told == [project |-> q.project, user |-> q.user, read |-> FALSE]
<1>3. note' = [n \in Note |->
        CASE n \in q.notes /\ q.op = "add" -> told
          [] n \in q.locks -> [note[n] EXCEPT !.read = TRUE]
          [] OTHER -> note[n]]
  BY <1>1 DEF Commit, CommitNotes
<1>4. \A n \in Note \cap q.locks :
        /\ q.op \in {"read", "readall"} /\ n \in q.notes
        /\ note[n] # Unset /\ note[n].user = q.user
  BY <1>2, LockKinds DEF CallOK, OnNotes
<1>5. q.op = "add" => told \in NoteRow /\ \A n \in q.notes : note[n] = Unset
  BY <1>2 DEF CallOK, Given, OnMember, NoteRow
<1> HIDE DEF told
<1>6. ASSUME NEW n \in Note
      PROVE  /\ note[n] = Unset => IF q.op = "add" /\ n \in q.notes
                                   THEN note'[n] = told ELSE note'[n] = Unset
             /\ note[n] # Unset => IF n \in q.locks
                                   THEN note'[n] = [note[n] EXCEPT !.read = TRUE]
                                   ELSE note'[n] = note[n]
             /\ note'[n] \in NoteRow \cup {Unset}
  <2>1. note[n] \in NoteRow \cup {Unset}
    BY DEF IInv, TypeOK
  <2>2. note[n] # Unset => [note[n] EXCEPT !.read = TRUE] \in NoteRow
    BY <2>1 DEF NoteRow
  <2> QED BY <1>3, <1>4, <1>5, <2>1, <2>2
<1>7. note' \in [Note -> NoteRow \cup {Unset}]
  BY <1>3, <1>6
<1> QED BY <1>1, <1>4, <1>6, <1>7 DEF told

-----------------------------------------------------------------------------
(* The invariant *)

\* What the commit of one request leaves another one with.
LEMMA CommitOthers ==
    ASSUME IInv, NEW r \in Req, Commit(r), NEW o \in Req \ {r}
    PROVE  CallOK(req[o])'
<1>1. PICK q : q = req[r]
  OBVIOUS
<1>2. PICK c : c = req[o]
  OBVIOUS
<1>3. CallOK(q) /\ CallOK(c) /\ c \in Request
  BY <1>1, <1>2 DEF IInv, CallOK
<1>4. Apart(q, c) /\ Apart(c, q)
  BY <1>1, <1>2 DEF IInv, AllApart
<1>5. req'[o] = c /\ live' = live
  BY <1>1, <1>2 DEF IInv, TypeOK, Commit
<1>6. /\ \A p \in Project : project[p].stored => project'[p].stored
      /\ \A p \in Project : project[p].deleted => project'[p].deleted
      /\ \A p \in Project \ q.locks : project'[p] = project[p]
      /\ \A p \in Project \cap q.locks : p = q.project
  BY <1>1, CommittedProjects
<1>7. /\ \A m \in Member \ q.locks : member'[m] = member[m]
      /\ \A m \in Member \cap q.locks :
           /\ m = q.member
           /\ \/ q.op = "add" /\ member'[m] = PairOf(q)
              \/ q.op = "remove" /\ member'[m] = Unset
  BY <1>1, CommittedMembers
<1>8. /\ \A n \in Note : note[n] # Unset =>
           /\ note'[n] # Unset /\ note'[n].user = note[n].user
           /\ note[n].read => note'[n].read
      /\ \A n \in Note : note[n] = Unset =>
           note'[n] = Unset \/ (q.op = "add" /\ n \in q.notes)
  <2>1. ASSUME NEW n \in Note, note[n] # Unset
        PROVE  /\ note'[n] # Unset /\ note'[n].user = note[n].user
               /\ note[n].read => note'[n].read
    <3>1. note[n] \in NoteRow
      BY <2>1 DEF IInv, TypeOK
    <3>2. note'[n] \in {note[n], [note[n] EXCEPT !.read = TRUE]}
      BY <2>1, CommittedNotes
    <3>3. [note[n] EXCEPT !.read = TRUE] \in NoteRow
      BY <3>1 DEF NoteRow
    <3> QED BY <3>1, <3>2, <3>3, RowsAssumption DEF NoteRow
  <2> QED BY <1>1, <2>1, CommittedNotes
<1>9. Route(c) /\ Given(c)
  BY <1>3 DEF CallOK
<1>10. OnProject(c)'
  <2>1. c.op = "create" => c.project \in Project \ q.locks
    BY <1>3, <1>4, <1>6 DEF CallOK, Given, Apart
  <2>2. c.op = "edit" /\ c.locks # {} => c.project \in Project \ q.locks
    BY <1>3, <1>4 DEF CallOK, Given, OnProject, Apart
  <2> QED BY <1>3, <1>6, <2>1, <2>2 DEF CallOK, Given, OnProject
<1>11. OnMember(c)'
  <2> SUFFICES ASSUME c.op = "add" PROVE OnMember(c)'
    BY DEF OnMember
  <2>1. CASE c.pc \in {"notify", "reload", "commit"}
    <3>1. c.member \in Member \ q.locks /\ member[c.member] = Unset /\ c.locks = {c.member}
      BY <1>3, <1>4, <2>1 DEF CallOK, OnMember, Apart
    <3>2. RowsOf(c.user, c.project)' = {}
      <4> SUFFICES ASSUME NEW m \in Member, member'[m] = PairOf(c) PROVE FALSE
        BY DEF RowsOf, PairOf
      <4>1. member[m] # PairOf(c)
        BY <1>3, <2>1 DEF CallOK, OnMember, RowsOf, PairOf
      <4>2. PairOf(c) # Unset
        BY <1>3, RowsAssumption DEF CallOK, Given, PairOf, MemberRow
      <4>3. m \in q.locks /\ q.op = "add" /\ PairOf(q) = PairOf(c)
        BY <1>7, <4>1, <4>2
      <4> QED BY <1>4, <3>1, <4>3 DEF Apart
    <3>3. \A n \in c.notes : note[n] = Unset => note'[n] = Unset
      BY <1>3, <1>4, <1>8 DEF Request, Apart
    <3> QED BY <1>3, <1>7, <2>1, <3>1, <3>2, <3>3 DEF CallOK, OnMember
  <2>2. CASE c.pc \notin {"notify", "reload", "commit"}
    BY <1>3, <2>2 DEF CallOK, OnMember
  <2> QED BY <2>1, <2>2
<1>12. OnRemoval(c)'
  <2> SUFFICES ASSUME c.op = "remove", c.pc # "load" PROVE OnRemoval(c)'
    BY <1>3 DEF CallOK, OnRemoval
  <2>1. c.member \in Member /\ member[c.member] \in {Unset, PairOf(c)}
    BY <1>3 DEF CallOK, OnRemoval
  <2>2. c.member \in q.locks => member'[c.member] = Unset
    BY <1>3, <1>4, <1>7, <2>1, ConstantsAssumption DEF Apart
  <2>3. c.locks # {} => c.member \notin q.locks
    BY <1>3, <1>4 DEF CallOK, OnRemoval, Apart
  <2> QED BY <1>3, <1>7, <2>1, <2>2, <2>3 DEF CallOK, OnRemoval, PairOf
<1>13. OnNotes(c)'
  BY <1>3, <1>8 DEF CallOK, Request, OnNotes
<1>14. Late(c)'
  BY <1>3, <1>5, <1>6 DEF CallOK, Given, Late
<1>15. CallOK(c)'
  BY <1>3, <1>9, <1>10, <1>11, <1>12, <1>13, <1>14 DEF CallOK, Route, Given
<1> QED BY <1>5, <1>15
     DEF CallOK, Route, Given, OnProject, OnMember, OnRemoval, OnNotes, Late, PairOf, RowsOf

LEMMA CommitInv ==
    ASSUME IInv, NEW r \in Req, Commit(r)
    PROVE  IInv'
<1>1. req' = [req EXCEPT ![r] = Idle] /\ live' = live
  BY DEF Commit
<1>2. TypeOK'
  <2>1. req' \in [Req -> Request] /\ live' \subseteq User
    BY <1>1, IdleOK DEF IInv, TypeOK, CallOK
  <2>2. ASSUME NEW p \in Project, project'[p].stored PROVE project'[p].cols \in [Column -> Value]
    BY <2>2, CommittedProjects DEF IInv, TypeOK
  <2> QED BY <2>1, <2>2, CommittedProjects, CommittedMembers, CommittedNotes DEF TypeOK
<1>3. UniquePairs'
  <2> SUFFICES ASSUME NEW m1 \in Member, NEW m2 \in Member, member'[m1] # Unset,
                      member'[m1] = member'[m2], m1 # m2
               PROVE  FALSE
    BY DEF UniquePairs
  <2>1. PICK q : q = req[r] /\ CallOK(q) /\ q.pc = "commit"
    BY DEF IInv, Commit
  <2>2. \A m \in Member : member'[m] # member[m] =>
          m = q.member /\ (member'[m] = Unset \/ (q.op = "add" /\ member'[m] = PairOf(q)))
    BY <2>1, CommittedMembers
  <2>3. q.op = "add" => \A m \in Member : member[m] # PairOf(q)
    BY <2>1 DEF CallOK, OnMember, RowsOf, PairOf
  <2> QED BY <2>2, <2>3 DEF IInv, UniquePairs
<1>6. OnlyStoredDeleted'
  BY CommittedProjects DEF IInv, OnlyStoredDeleted
<1>4. ASSUME NEW o \in Req PROVE CallOK(req[o])'
  <2>1. CASE o = r
    <3>1. req'[o] = Idle
      BY <1>1, <2>1 DEF IInv, TypeOK
    <3> QED BY <3>1, IdleOK, ConstantsAssumption
         DEF CallOK, Idle, Request, Stage, Op, Route, Given, OnProject, OnMember, OnRemoval,
             OnNotes, Late
  <2> QED BY <2>1, CommitOthers
<1>5. AllApart'
  <2>1. ASSUME NEW o \in Req PROVE Apart(Idle, req[o]) /\ Apart(req[o], Idle)
    BY ConstantsAssumption DEF Apart, IInv, CallOK, Given, Idle
  <2> QED BY <1>1, <2>1 DEF IInv, TypeOK, AllApart, Apart, PairOf
<1> QED BY <1>2, <1>3, <1>4, <1>5, <1>6 DEF IInv

LEMMA DeleteUserInv ==
    ASSUME IInv, NEW u \in User, DeleteUser(u)
    PROVE  IInv'
<1> USE DEF DeleteUser
<1>1. TypeOK' /\ UniquePairs' /\ OnlyStoredDeleted' /\ AllApart'
  BY DEF IInv, TypeOK, UniquePairs, OnlyStoredDeleted, AllApart, Apart, PairOf
<1>2. ASSUME NEW o \in Req PROVE CallOK(req[o])'
  BY DEF IInv, CallOK, Route, Given, OnProject, OnMember, OnRemoval, OnNotes, Late, RowsOf,
         PairOf
<1> QED BY <1>1, <1>2 DEF IInv

LEMMA NextInv == IInv /\ [Next]_vars => IInv'
<1> SUFFICES ASSUME IInv, [Next]_vars PROVE IInv'
  OBVIOUS
<1>1. CASE UNCHANGED vars
  <2> USE <1>1 DEF vars, tables
  <2>1. TypeOK' /\ UniquePairs' /\ OnlyStoredDeleted' /\ AllApart'
    BY DEF IInv, TypeOK, UniquePairs, OnlyStoredDeleted, AllApart, Apart, PairOf
  <2>2. ASSUME NEW o \in Req PROVE CallOK(req[o])'
    BY DEF IInv, CallOK, Route, Given, OnProject, OnMember, OnRemoval, OnNotes, Late, RowsOf,
           PairOf
  <2> QED BY <2>1, <2>2 DEF IInv
<1>2. ASSUME NEW r \in Req, Begin(r) PROVE IInv'
  BY <1>2, BeginInv
<1>3. ASSUME NEW r \in Req, Read(r) PROVE IInv'
  BY <1>3, ReadInv
<1>4. ASSUME NEW r \in Req, Write(r) PROVE IInv'
  BY <1>4, WriteProjectInv, WriteMemberInv, MarkNotesInv DEF Write
<1>5. ASSUME NEW r \in Req, Commit(r) PROVE IInv'
  BY <1>5, CommitInv
<1>6. ASSUME NEW r \in Req, Abort(r) PROVE IInv'
  BY <1>6, FailInv DEF Abort
<1>7. ASSUME NEW u \in User, DeleteUser(u) PROVE IInv'
  BY <1>7, DeleteUserInv
<1> QED BY <1>1, <1>2, <1>3, <1>4, <1>5, <1>6, <1>7 DEF Next

THEOREM SpecInv == Spec => []IInv
BY InitInv, NextInv, PTL DEF Spec

\* Every variable keeps its type, and a stored project has all its columns.
THEOREM SpecTypeOK == Spec => []TypeOK
<1>1. IInv => TypeOK
  BY DEF IInv
<1> QED BY <1>1, SpecInv, PTL

\* No request for a project or member deleted before it arrived locks a row.
THEOREM SpecLatecomersWriteNothing == Spec => []LatecomersWriteNothing
<1>1. IInv => LatecomersWriteNothing
  BY DEF IInv, CallOK, Late, OnProject, OnMember, LatecomersWriteNothing
<1> QED BY <1>1, SpecInv, PTL

\* Reading all misses none of the notifications its reader had on arrival.
THEOREM SpecReadAllIsComplete == Spec => []ReadAllIsComplete
<1>1. IInv => ReadAllIsComplete
  BY DEF IInv, CallOK, OnNotes, ReadAllIsComplete, At
<1> QED BY <1>1, SpecInv, PTL

-----------------------------------------------------------------------------
(* What steps may change *)

\* Only a commit changes a project, a membership or a notification.
LEMMA OnlyCommitWrites ==
    ASSUME [Next]_vars, \A r \in Req : ~Commit(r)
    PROVE  UNCHANGED <<project, member, note>>
<1> USE DEF Becomes, Goto, Fail, tables
<1>1. ASSUME NEW r \in Req, Begin(r) PROVE UNCHANGED <<project, member, note>>
  BY <1>1 DEF Begin, BeginCreate, BeginEdit, BeginClose, BeginAdd, BeginRemove, BeginRead,
              BeginReadAll, Arrive
<1>2. ASSUME NEW r \in Req, Read(r) PROVE UNCHANGED <<project, member, note>>
  BY <1>2 DEF Read, LoadProject, LoadDetail, LoadUser, CheckMember, ReloadMember, LoadMember,
              LoadNote, ScanNotes
<1>3. ASSUME NEW r \in Req, Write(r) \/ Abort(r) PROVE UNCHANGED <<project, member, note>>
  BY <1>3 DEF Write, InsertProject, FlushClean, FlushProject, InsertMember, Notify,
              DeleteMember, MarkNotes, Abort
<1> QED BY <1>1, <1>2, <1>3 DEF Next, vars, DeleteUser

\* PATCH writes the columns its body changes and no other.
THEOREM SpecPatchTouchesItsColumns == Spec => PatchTouchesItsColumns
<1> DEFINE Touches(r, p, c) == /\ req[r].op = "edit" /\ req[r].pc = "commit"
                               /\ req[r].project = p
                               /\ req[r].edit[c] = project'[p].cols[c]
           Step == \A p \in Project, c \in Column :
                     project[p].stored /\ project'[p].cols[c] # project[p].cols[c] =>
                       \E r \in Req : Touches(r, p, c)
<1>1. ASSUME IInv, NEW r \in Req, Commit(r), NEW p \in Project, NEW c \in Column,
             project[p].stored, project'[p].cols[c] # project[p].cols[c]
      PROVE  Touches(r, p, c)
  <2>1. CallOK(req[r])
    BY <1>1 DEF IInv
  <2>2. p \in req[r].locks
    BY <1>1, CommittedProjects
  <2>3. /\ req[r].op \in {"create", "edit", "close"} /\ p = req[r].project
        /\ req[r].op = "create" \/ c \in Dirty(req[r])
        /\ project'[p].cols[c] = req[r].edit[c]
    BY <1>1, <2>2, CommittedProjects
  <2>4. req[r].op # "create"
    BY <1>1, <2>1, <2>3 DEF CallOK, OnProject
  <2>5. req[r].op # "close"
    BY <2>1, <2>3, <2>4 DEF CallOK, Given, Dirty, NoEdit
  <2> QED BY <1>1, <2>3, <2>4, <2>5 DEF Commit
<1>2. ASSUME IInv, [Next]_vars PROVE [Step]_vars
  <2>1. CASE \E r \in Req : Commit(r)
    BY <1>1, <1>2, <2>1
  <2>2. CASE \A r \in Req : ~Commit(r)
    BY <1>2, <2>2, OnlyCommitWrites
  <2> QED BY <2>1, <2>2
<1> QED BY <1>2, SpecInv, PTL DEF Spec, PatchTouchesItsColumns

\* A removal ends the membership its request found and no other.
THEOREM SpecRemovalIsOfTheRowFound == Spec => RemovalIsOfTheRowFound
<1> DEFINE Removes(r, m) == /\ req[r].op = "remove" /\ req[r].pc = "commit"
                            /\ req[r].member = m
           Step == \A m \in Member : member[m] # Unset /\ member'[m] # member[m] =>
                     /\ member'[m] = Unset
                     /\ \E r \in Req : Removes(r, m)
<1>1. ASSUME IInv, NEW r \in Req, Commit(r), NEW m \in Member,
             member[m] # Unset, member'[m] # member[m]
      PROVE  member'[m] = Unset /\ Removes(r, m)
  BY <1>1, CommittedMembers DEF Commit
<1>2. ASSUME IInv, [Next]_vars PROVE [Step]_vars
  <2>1. CASE \E r \in Req : Commit(r)
    BY <1>1, <1>2, <2>1
  <2>2. CASE \A r \in Req : ~Commit(r)
    BY <1>2, <2>2, OnlyCommitWrites
  <2> QED BY <2>1, <2>2
<1> QED BY <1>2, SpecInv, PTL DEF Spec, RemovalIsOfTheRowFound

\* Only the addressee marks a notification, and none becomes unread.
THEOREM SpecReadingIsOwn == Spec => ReadingIsOwn
<1> DEFINE Reads(r, n) == /\ req[r].op \in {"read", "readall"} /\ req[r].pc = "commit"
                          /\ req[r].user = note[n].user
           Step == \A n \in Note : note[n] # Unset /\ note'[n] # note[n] =>
                     /\ note'[n] = [note[n] EXCEPT !.read = TRUE]
                     /\ \E r \in Req : Reads(r, n)
<1>1. ASSUME IInv, NEW r \in Req, Commit(r), NEW n \in Note, note[n] # Unset,
             note'[n] # note[n]
      PROVE  note'[n] = [note[n] EXCEPT !.read = TRUE] /\ Reads(r, n)
  BY <1>1, CommittedNotes DEF Commit
<1>2. ASSUME IInv, [Next]_vars PROVE [Step]_vars
  <2>1. CASE \E r \in Req : Commit(r)
    BY <1>1, <1>2, <2>1
  <2>2. CASE \A r \in Req : ~Commit(r)
    BY <1>2, <2>2, OnlyCommitWrites
  <2> QED BY <2>1, <2>2
<1> QED BY <1>2, SpecInv, PTL DEF Spec, ReadingIsOwn

-----------------------------------------------------------------------------
(* Projects implements AtomicProjects *)

\* The notifications of an addition.
Tellings(u, p) == {n \in NotesOf(u) : note[n].project = p}

LEMMA SameRoster ==
    ASSUME member' = member
    PROVE  Roster' = Roster
BY DEF Roster, RowsOf

LEMMA SameTold ==
    ASSUME \A n \in Note : /\ note[n] = Unset <=> note'[n] = Unset
                           /\ note[n] # Unset => /\ note'[n].user = note[n].user
                                                 /\ note'[n].project = note[n].project
    PROVE  Told' = Told
<1>1. \A u, p : Tellings(u, p)' = Tellings(u, p)
  BY DEF Tellings, NotesOf
<1> QED BY <1>1 DEF Told, Tellings

\* A commit that is about a project only.
LEMMA ProjectCommitIsAtomic ==
    ASSUME IInv, NEW r \in Req, Commit(r), req[r].op \in {"create", "edit", "close"}
    PROVE  [Abstract!Next]_(Abstract!vars)
<1>1. PICK q : q = req[r]
  OBVIOUS
<1>2. CallOK(q) /\ q.pc = "commit" /\ q.project \in Project
  BY <1>1 DEF IInv, CallOK, Given, Commit
<1> DEFINE p == q.project
<1>3. member' = member
  BY <1>1, CommittedMembers, <1>2, LockKinds DEF IInv, TypeOK
<1>4. note' = note
  <2>1. \A n \in Note : n \notin q.locks
    BY <1>1, <1>2, LockKinds
  <2>2. q.op # "add"
    BY <1>1
  <2>3. \A n \in Note : note'[n] = note[n]
    BY <1>1, <2>1, <2>2, CommittedNotes
  <2>4. note \in [Note -> NoteRow \cup {Unset}] /\ note' \in [Note -> NoteRow \cup {Unset}]
    BY CommittedNotes DEF IInv, TypeOK
  <2> QED BY <2>3, <2>4
<1>5. Roster' = Roster /\ Told' = Told
  BY <1>3, <1>4, SameRoster, SameTold
<1>6. CASE q.locks = {}
  <2>1. project' = project
    BY <1>1, <1>6, CommittedProjects DEF IInv, TypeOK
  <2> QED BY <1>5, <2>1 DEF Abstract!vars
<1>7. CASE q.locks # {}
  <2>1. q.locks = {p}
    BY <1>1, <1>2, <1>7 DEF CallOK, OnProject
  <2> DEFINE v == project'[p]
  <2>2. /\ project' = [project EXCEPT ![p] = v]
        /\ project[p] \in ProjectRow /\ v \in ProjectRow /\ v.stored
        /\ v.cols \in [Column -> Value]
        /\ v.deleted = (project[p].deleted \/ q.op = "close")
        /\ \A c \in Column : v.cols[c] = IF q.op = "create" \/ c \in Dirty(q)
                                         THEN q.edit[c] ELSE project[p].cols[c]
    BY <1>1, <1>2, <2>1, CommittedProjects DEF IInv, TypeOK
  <2> HIDE DEF v
  <2>3. CASE q.op = "create"
    <3>1. ~project[p].stored /\ ~project[p].deleted
      BY <1>2, <2>3 DEF CallOK, OnProject, IInv, OnlyStoredDeleted
    <3>2. v = [stored |-> TRUE, deleted |-> FALSE, cols |-> v.cols]
      BY <2>2, <2>3, <3>1 DEF ProjectRow
    <3>3. Abstract!Create(p)
      BY <1>5, <2>2, <3>1, <3>2 DEF Abstract!Create
    <3> QED BY <1>2, <3>3 DEF Abstract!Next
  <2>4. CASE q.op = "edit"
    <3>1. project[p].stored /\ ~project[p].deleted
      BY <1>2, <1>7, <2>4 DEF CallOK, OnProject
    <3>2. v = [project[p] EXCEPT !.cols = v.cols]
      BY <2>2, <2>4, <3>1 DEF ProjectRow
    <3>3. Abstract!Edit(p)
      BY <1>5, <2>2, <3>1, <3>2 DEF Abstract!Edit, Abstract!Live
    <3> QED BY <1>2, <3>3 DEF Abstract!Next
  <2>5. CASE q.op = "close"
    <3>1. project[p].stored /\ q.edit = NoEdit
      BY <1>2, <2>5 DEF CallOK, OnProject, Given
    <3>2. v.cols = project[p].cols
      <4>1. \A c \in Column : v.cols[c] = project[p].cols[c]
        BY <2>2, <2>5, <3>1 DEF Dirty, NoEdit
      <4>2. project[p].cols \in [Column -> Value]
        BY <1>2, <3>1 DEF IInv, TypeOK
      <4> QED BY <2>2, <4>1, <4>2
    <3>3. v = [project[p] EXCEPT !.deleted = TRUE]
      BY <2>2, <2>5, <3>1, <3>2 DEF ProjectRow
    <3>4. CASE project[p].deleted
      <4>1. v = project[p]
        BY <2>2, <3>3, <3>4 DEF ProjectRow
      <4>2. project' = project
        BY <2>2, <4>1 DEF IInv, TypeOK
      <4> QED BY <1>5, <4>2 DEF Abstract!vars
    <3>5. CASE ~project[p].deleted
      <4>1. Abstract!Delete(p)
        BY <1>5, <2>2, <3>1, <3>3, <3>5 DEF Abstract!Delete, Abstract!Live
      <4> QED BY <1>2, <4>1 DEF Abstract!Next
    <3> QED BY <3>4, <3>5
  <2> QED BY <1>1, <2>3, <2>4, <2>5
<1> QED BY <1>6, <1>7

\* A commit that adds a membership, removes one, adds a notification.
LEMMA OneMoreRow ==
    ASSUME IInv, NEW m \in Member, NEW u \in User, NEW p \in Project,
           member[m] = Unset, RowsOf(u, p) = {},
           member' = [member EXCEPT ![m] = [project |-> p, user |-> u]]
    PROVE  Roster[u][p] = 0 /\ Roster' = [Roster EXCEPT ![u][p] = 1]
<1>1. ASSUME NEW u2 \in User, NEW p2 \in Project
      PROVE  RowsOf(u2, p2)' = IF u2 = u /\ p2 = p THEN {m} ELSE RowsOf(u2, p2)
  <2>1. [project |-> p2, user |-> u2] # Unset
    BY RowsAssumption DEF MemberRow
  <2>2. \A x \in Member : member'[x] = IF x = m THEN [project |-> p, user |-> u] ELSE member[x]
    BY DEF IInv, TypeOK
  <2>3. m \notin RowsOf(u2, p2)
    BY <2>1 DEF RowsOf
  <2>4. CASE u2 = u /\ p2 = p
    BY <2>2, <2>4 DEF RowsOf
  <2>5. CASE ~(u2 = u /\ p2 = p)
    <3>1. [project |-> p2, user |-> u2] # [project |-> p, user |-> u]
      BY <2>5
    <3> QED BY <2>2, <2>3, <2>5, <3>1 DEF RowsOf
  <2> QED BY <2>4, <2>5
<1>2. Cardinality({}) = 0 /\ Cardinality({m}) = 1
  BY FS_EmptySet, FS_Singleton
<1>3. Roster[u][p] = 0
  BY <1>2 DEF Roster
<1>4. Roster' = [u2 \in User |-> [p2 \in Project |-> Cardinality(RowsOf(u2, p2)')]]
  BY DEF Roster
<1>5. \A u2 \in User, p2 \in Project :
        Cardinality(RowsOf(u2, p2)') = IF u2 = u /\ p2 = p THEN 1
                                       ELSE Cardinality(RowsOf(u2, p2))
  BY <1>1, <1>2
<1>6. Roster = [u2 \in User |-> [p2 \in Project |-> Cardinality(RowsOf(u2, p2))]]
  BY DEF Roster
<1> QED BY <1>3, <1>4, <1>5, <1>6

LEMMA OneRowLess ==
    ASSUME IInv, NEW m \in Member, NEW u \in User, NEW p \in Project,
           member[m] = [project |-> p, user |-> u],
           member' = [member EXCEPT ![m] = Unset]
    PROVE  Roster[u][p] = 1 /\ Roster' = [Roster EXCEPT ![u][p] = 0]
<1>1. ASSUME NEW u2 \in User, NEW p2 \in Project
      PROVE  RowsOf(u2, p2)' = IF u2 = u /\ p2 = p THEN {} ELSE RowsOf(u2, p2)
  <2>1. /\ [project |-> p2, user |-> u2] # Unset
        /\ [project |-> p, user |-> u] # Unset
    BY RowsAssumption DEF MemberRow
  <2>2. \A x \in Member : member'[x] = IF x = m THEN Unset ELSE member[x]
    BY DEF IInv, TypeOK
  <2>3. CASE u2 = u /\ p2 = p
    BY <2>1, <2>2, <2>3 DEF RowsOf, IInv, UniquePairs
  <2>4. CASE ~(u2 = u /\ p2 = p)
    <3>1. [project |-> p2, user |-> u2] # [project |-> p, user |-> u]
      BY <2>4
    <3> QED BY <2>1, <2>2, <2>4, <3>1 DEF RowsOf
  <2> QED BY <2>3, <2>4
<1>2. Cardinality({}) = 0 /\ Cardinality({m}) = 1
  BY FS_EmptySet, FS_Singleton
<1>3. Roster[u][p] = 1
  <2>1. [project |-> p, user |-> u] # Unset
    BY RowsAssumption DEF MemberRow
  <2>2. RowsOf(u, p) = {m}
    BY <2>1 DEF RowsOf, IInv, UniquePairs
  <2> QED BY <1>2, <2>2 DEF Roster
<1>4. Roster' = [u2 \in User |-> [p2 \in Project |-> Cardinality(RowsOf(u2, p2)')]]
  BY DEF Roster
<1>5. \A u2 \in User, p2 \in Project :
        Cardinality(RowsOf(u2, p2)') = IF u2 = u /\ p2 = p THEN 0
                                       ELSE Cardinality(RowsOf(u2, p2))
  BY <1>1, <1>2
<1>6. Roster = [u2 \in User |-> [p2 \in Project |-> Cardinality(RowsOf(u2, p2))]]
  BY DEF Roster
<1> QED BY <1>3, <1>4, <1>5, <1>6

LEMMA OneMoreNote ==
    ASSUME IInv, NEW n \in Note, NEW u \in User, NEW p \in Project,
           note[n] = Unset, note'[n] = [project |-> p, user |-> u, read |-> FALSE],
           \A x \in Note \ {n} : note'[x] = note[x]
    PROVE  Told' = [Told EXCEPT ![u][p] = Told[u][p] + 1]
<1> DEFINE row == [project |-> p, user |-> u, read |-> FALSE]
<1>1. /\ row # Unset /\ row.user = u /\ row.project = p
      /\ \A x \in Note : note'[x] = IF x = n THEN row ELSE note[x]
  <2>1. row \in NoteRow
    BY DEF NoteRow
  <2>2. row # Unset
    BY <2>1, RowsAssumption
  <2> QED BY <2>2
<1> HIDE DEF row
<1>2. ASSUME NEW u2 \in User, NEW p2 \in Project
      PROVE  /\ n \notin Tellings(u2, p2)
             /\ Tellings(u2, p2)' = IF u2 = u /\ p2 = p THEN Tellings(u2, p2) \cup {n}
                                    ELSE Tellings(u2, p2)
  BY <1>1 DEF Tellings, NotesOf
<1>3. ASSUME NEW u2 \in User, NEW p2 \in Project
      PROVE  Cardinality(Tellings(u2, p2) \cup {n}) = Cardinality(Tellings(u2, p2)) + 1
  <2>1. Tellings(u2, p2) \subseteq Note
    BY DEF Tellings, NotesOf
  <2>2. IsFiniteSet(Tellings(u2, p2))
    BY <2>1, ConstantsAssumption, FS_Subset
  <2> QED BY <1>2, <2>2, FS_AddElement
<1>4. /\ Told = [u2 \in User |-> [p2 \in Project |-> Cardinality(Tellings(u2, p2))]]
      /\ Told' = [u2 \in User |-> [p2 \in Project |-> Cardinality(Tellings(u2, p2)')]]
  BY DEF Told, Tellings
<1>5. \A u2 \in User, p2 \in Project :
        Cardinality(Tellings(u2, p2)') = IF u2 = u /\ p2 = p
                                         THEN Cardinality(Tellings(u2, p2)) + 1
                                         ELSE Cardinality(Tellings(u2, p2))
  BY <1>2, <1>3
<1> QED BY <1>4, <1>5

\* A commit that locks no project leaves the projects alone.
LEMMA ProjectsKept ==
    ASSUME IInv, NEW r \in Req, Commit(r), req[r].op \notin {"create", "edit", "close"}
    PROVE  project' = project
<1>1. CallOK(req[r])
  BY DEF IInv
<1>2. \A p \in Project : p \notin req[r].locks
  BY <1>1, LockKinds
<1> QED BY <1>2, CommittedProjects DEF IInv, TypeOK

LEMMA AddCommitIsAtomic ==
    ASSUME IInv, NEW r \in Req, Commit(r), req[r].op = "add"
    PROVE  [Abstract!Next]_(Abstract!vars)
<1>1. PICK q : q = req[r]
  OBVIOUS
<1>2. /\ CallOK(q) /\ q.op = "add" /\ q.pc = "commit"
      /\ q.project \in Project /\ q.user \in User /\ project[q.project].stored
  BY <1>1 DEF IInv, CallOK, Given, OnProject, Commit
<1> DEFINE m == q.member
           p == q.project
           u == q.user
<1>3. m \in Member /\ q.locks = {m} /\ member[m] = Unset /\ RowsOf(u, p) = {}
  BY <1>2 DEF CallOK, OnMember
<1>4. PICK n \in Note : q.notes = {n} /\ note[n] = Unset
  BY <1>2 DEF CallOK, OnMember
<1>5. member' = [member EXCEPT ![m] = [project |-> p, user |-> u]]
  <2>1. /\ \A x \in Member \ {m} : member'[x] = member[x]
        /\ member'[m] = [project |-> p, user |-> u]
    BY <1>1, <1>2, <1>3, CommittedMembers DEF PairOf
  <2>2. /\ member \in [Member -> MemberRow \cup {Unset}]
        /\ member' \in [Member -> MemberRow \cup {Unset}]
    BY CommittedMembers DEF IInv, TypeOK
  <2> QED BY <1>3, <2>1, <2>2
<1>6. /\ note'[n] = [project |-> p, user |-> u, read |-> FALSE]
      /\ \A x \in Note \ {n} : note'[x] = note[x]
  BY <1>1, <1>2, <1>4, CommittedNotes
<1>7. project' = project
  BY <1>1, <1>2, ProjectsKept
<1>8. Roster[u][p] = 0 /\ Roster' = [Roster EXCEPT ![u][p] = 1]
  BY <1>2, <1>3, <1>5, OneMoreRow
<1>9. Told' = [Told EXCEPT ![u][p] = Told[u][p] + 1]
  BY <1>2, <1>4, <1>6, OneMoreNote
<1>10. Abstract!Add(u, p)
  BY <1>2, <1>7, <1>8, <1>9 DEF Abstract!Add
<1> QED BY <1>2, <1>10 DEF Abstract!Next

LEMMA RemoveCommitIsAtomic ==
    ASSUME IInv, NEW r \in Req, Commit(r), req[r].op = "remove"
    PROVE  [Abstract!Next]_(Abstract!vars)
<1>1. PICK q : q = req[r]
  OBVIOUS
<1>2. CallOK(q) /\ q.op = "remove" /\ q.pc = "commit" /\ q.project \in Project /\ q.user \in User
  BY <1>1 DEF IInv, CallOK, Given, Commit
<1>3. project' = project
  BY <1>1, <1>2, ProjectsKept
<1>4. Told' = Told
  <2>1. \A n \in Note : note'[n] = note[n]
    BY <1>1, <1>2, CommittedNotes
  <2> QED BY <2>1, SameTold
<1>5. /\ member \in [Member -> MemberRow \cup {Unset}]
      /\ member' \in [Member -> MemberRow \cup {Unset}]
  BY CommittedMembers DEF IInv, TypeOK
<1>6. CASE q.locks = {}
  <2>1. member' = member
    BY <1>1, <1>5, <1>6, CommittedMembers
  <2> QED BY <1>3, <1>4, <2>1, SameRoster DEF Abstract!vars
<1>7. CASE q.locks # {}
  <2>1. q.member \in Member /\ q.locks = {q.member}
        /\ member[q.member] = [project |-> q.project, user |-> q.user]
    BY <1>2, <1>7 DEF CallOK, OnRemoval, PairOf
  <2>2. member' = [member EXCEPT ![q.member] = Unset]
    <3>1. /\ \A x \in Member \ {q.member} : member'[x] = member[x]
          /\ member'[q.member] = Unset
      BY <1>1, <1>2, <2>1, CommittedMembers
    <3> QED BY <1>5, <2>1, <3>1
  <2>3. Roster[q.user][q.project] = 1 /\ Roster' = [Roster EXCEPT ![q.user][q.project] = 0]
    BY <1>2, <2>1, <2>2, OneRowLess
  <2>4. Abstract!Remove(q.user, q.project)
    BY <1>3, <1>4, <2>3 DEF Abstract!Remove
  <2> QED BY <1>2, <2>4 DEF Abstract!Next
<1> QED BY <1>6, <1>7

\* Marking notifications is no step of the abstract specification.
LEMMA ReadCommitIsAtomic ==
    ASSUME IInv, NEW r \in Req, Commit(r), req[r].op \in {"read", "readall"}
    PROVE  UNCHANGED Abstract!vars
<1>1. CallOK(req[r])
  BY DEF IInv
<1>2. project' = project
  BY ProjectsKept
<1>3. Roster' = Roster
  <2>1. \A m \in Member : m \notin req[r].locks
    BY <1>1, LockKinds
  <2>2. member' = member
    BY <2>1, CommittedMembers DEF IInv, TypeOK
  <2> QED BY <2>2, SameRoster
<1>4. Told' = Told
  <2>1. ASSUME NEW n \in Note, note[n] # Unset
        PROVE  /\ note'[n] # Unset /\ note'[n].user = note[n].user
               /\ note'[n].project = note[n].project
    <3>1. note[n] \in NoteRow
      BY <2>1 DEF IInv, TypeOK
    <3>2. note'[n] \in {note[n], [note[n] EXCEPT !.read = TRUE]}
      BY <2>1, CommittedNotes
    <3>3. note'[n] \in NoteRow
      BY <3>1, <3>2 DEF NoteRow
    <3> QED BY <3>1, <3>2, <3>3, RowsAssumption DEF NoteRow
  <2>2. ASSUME NEW n \in Note, note[n] = Unset PROVE note'[n] = Unset
    BY <2>2, CommittedNotes
  <2> QED BY <2>1, <2>2, SameTold
<1> QED BY <1>2, <1>3, <1>4 DEF Abstract!vars

\* Requests on projects and members act as if each happened at one instant.
THEOREM SpecActsAtomically == Spec => ActsAtomically
<1>1. Init => Abstract!Init
  <2> SUFFICES ASSUME Init PROVE Abstract!Init
    OBVIOUS
  <2>1. \A u \in User, p \in Project : RowsOf(u, p) = {} /\ Tellings(u, p) = {}
    BY RowsAssumption DEF Init, RowsOf, Tellings, NotesOf, MemberRow
  <2>2. Cardinality({}) = 0
    BY FS_EmptySet
  <2>3. Roster = [u \in User |-> [p \in Project |-> 0]]
    BY <2>1, <2>2 DEF Roster
  <2>4. Told = [u \in User |-> [p \in Project |-> 0]]
    BY <2>1, <2>2 DEF Told, Tellings
  <2> QED BY <2>3, <2>4 DEF Init, Abstract!Init, NoProject, NoEdit
<1>2. ASSUME IInv, [Next]_vars PROVE [Abstract!Next]_(Abstract!vars)
  <2>1. ASSUME NEW r \in Req, Commit(r) PROVE [Abstract!Next]_(Abstract!vars)
    <3>1. req[r].op \in {"create", "edit", "close", "add", "remove", "read", "readall"}
      BY <1>2, <2>1 DEF IInv, CallOK, Route, Request, Op, Commit, Idle
    <3> QED BY <1>2, <2>1, <3>1, ProjectCommitIsAtomic, AddCommitIsAtomic,
               RemoveCommitIsAtomic, ReadCommitIsAtomic
  <2>2. CASE \A r \in Req : ~Commit(r)
    <3>1. UNCHANGED <<project, member, note>>
      BY <1>2, <2>2, OnlyCommitWrites
    <3>2. Roster' = Roster /\ Told' = Told
      BY <3>1, SameRoster, SameTold
    <3> QED BY <3>1, <3>2 DEF Abstract!vars
  <2> QED BY <2>1, <2>2
<1> QED BY <1>1, <1>2, SpecInv, PTL DEF Spec, ActsAtomically, Abstract!Spec

=============================================================================
