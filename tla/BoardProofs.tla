----------------------------- MODULE BoardProofs -----------------------------
(***************************************************************************)
(* What the task board guarantees for every number of accounts, tasks and  *)
(* concurrent requests: it implements AtomicBoard, loses no update, leaves *)
(* deleted tasks alone and writes nothing for outsiders.                   *)
(*                                                                         *)
(* The invariant says what a request in flight knows of its task: that the *)
(* copy it loaded is not newer than the row and equal to it if the version *)
(* is, that it is the row once the request holds the row's lock, and that  *)
(* the notification is there exactly when the change calls for one.        *)
(***************************************************************************)
EXTENDS Board, TLAPS

Stored(v) == v.version > 0 /\ v.title \in Title /\ v.status \in Status

\* The statements each kind of request goes through.
Route(q) ==
    /\ q.op = "none" => q = Idle
    /\ q.op = "create" =>
         q.pc \in {"access", "project", "place", "insert", "notify", "reload", "commit"}
    /\ q.op = "update" => q.pc \in {"load", "access", "flush", "notify", "reload", "commit"}
    /\ q.op = "move" => q.pc \in {"load", "access", "place", "flush", "reload", "commit"}
    /\ q.op = "delete" => q.pc \in {"load", "access", "flush", "commit"}

\* What a request was given: only a create names every column.
Given(q) ==
    /\ q.op # "none" => q.task \in Task /\ q.actor \in User
    /\ q.op = "create" =>
         /\ q.edit.title \in Title /\ q.edit.status \in Status
         /\ q.edit.assignee \in User \cup {Nobody}
         /\ q.pc \notin {"access", "project", "place"} => q.edit.position \in Int
    /\ q.op = "update" => q.edit.status = Unset /\ q.edit.position = Unset
    /\ q.op = "move" =>
         /\ q.edit.title = Unset /\ q.edit.assignee = Unset /\ q.edit.status \in Status
         /\ q.pc \notin {"load", "access", "place"} => q.edit.position \in Int
    /\ q.op = "delete" => q.edit = NoEdit

\* What it knows of its task.
Knows(q) ==
    /\ q.op = "create" => q.base = NoRow /\ row[q.task] = NoRow
    /\ q.op \in {"update", "move", "delete"} /\ q.pc # "load" =>
         /\ Stored(q.base) /\ ~q.base.deleted
         /\ q.base.version <= row[q.task].version
         /\ q.base.version = row[q.task].version => q.base = row[q.task]

\* What it has written.
Written(q) ==
    /\ q.wrote => /\ q.pc \in {"notify", "reload", "commit"}
                  /\ q.base = row[q.task]
    /\ q.op = "create" /\ q.pc \in {"notify", "reload", "commit"} => q.wrote
    /\ q.pc = "notify" => q.wrote /\ ~q.told /\ MustTell(q)
    /\ q.told => q.wrote /\ q.op \in {"create", "update"} /\ MustTell(q)
    /\ q.wrote /\ q.op \in {"create", "update"} /\ q.pc \in {"reload", "commit"} =>
         (MustTell(q) => q.told)

\* A request without a right to the board gets no further than the check
\* that fails.
Outside(q) ==
    q.barred =>
      \/ q.actor \notin Admin \cup members /\ q.pc \in {"load", "access"}
      \/ closed /\ q.op = "create" /\ q.pc \in {"access", "project"}

CallOK(q) ==
    /\ q \in Request
    /\ Route(q)
    /\ Given(q)
    /\ Knows(q)
    /\ Written(q)
    /\ Outside(q)

RowsOK == \A t \in Task : row[t] = NoRow \/ Stored(row[t])

\* A new task is nobody else's, and one request at a time holds a row.
Apart(q1, q2) ==
    q1.op = "create" \/ (q1.wrote /\ q2.wrote) => q1.task # q2.task

AllApart == \A r1, r2 \in Req : r1 # r2 => Apart(req[r1], req[r2])

IInv == TypeOK /\ RowsOK /\ (\A r \in Req : CallOK(req[r])) /\ AllApart

-----------------------------------------------------------------------------
(* Lemmas about the data *)

LEMMA NoRowType == NoRow \in Row /\ ~Stored(NoRow)
BY DEF NoRow, Abstract!NoRow, Row, Stored

LEMMA IdleOK == CallOK(Idle)
BY NoRowType, ConstantsAssumption
   DEF CallOK, Idle, NoEdit, Request, Stage, Edit, Route, Given, Knows, Written, Outside

LEMMA InitInv == Init => IInv
<1> SUFFICES ASSUME Init PROVE IInv
  OBVIOUS
<1>1. TypeOK
  BY IdleOK, NoRowType DEF Init, TypeOK, CallOK
<1>2. RowsOK
  BY DEF Init, RowsOK
<1>3. \A r \in Req : req[r] = Idle
  BY DEF Init
<1> QED BY <1>1, <1>2, <1>3, IdleOK DEF IInv, AllApart, Apart, Idle

\* The row an accepted change stores.
LEMMA MadeType ==
    ASSUME NEW q, CallOK(q), q.wrote, q.task \in Task
    PROVE  Made(q) \in Row /\ Stored(Made(q))
BY NoRowType, ConstantsAssumption
   DEF CallOK, Request, Edit, Row, Made, Stored, Route, Given, Knows, Written, NoRow,
       Abstract!NoRow, NoEdit, Idle

LEMMA UpdatedIsMade ==
    ASSUME NEW q, CallOK(q), q.wrote
    PROVE  Updated(q) = Made(q)
<1>1. q.base = row[q.task]
  BY DEF CallOK, Written
<1>2. Updated(q) = [c \in DOMAIN NoRow |-> Made(q)[c]]
  BY <1>1 DEF Updated
<1>3. DOMAIN NoRow = DOMAIN Made(q)
  BY DEF NoRow, Abstract!NoRow, Made
<1>4. Made(q) = [c \in DOMAIN Made(q) |-> Made(q)[c]]
  BY DEF Made
<1> QED BY <1>2, <1>3, <1>4

-----------------------------------------------------------------------------
(* Steps that leave the tables alone *)

LEMMA QuietStep ==
    ASSUME IInv, NEW r \in Req, NEW call, CallOK(call),
           \A o \in Req \ {r} : Apart(call, req[o]) /\ Apart(req[o], call),
           Becomes(r, call)
    PROVE  IInv'
<1> USE DEF Becomes, tables
<1>1. TypeOK'
  BY DEF IInv, TypeOK, CallOK
<1>2. RowsOK'
  BY DEF IInv, RowsOK, Stored
<1>3. \A o \in Req : CallOK(req'[o])
  BY DEF IInv, TypeOK
<1>4. \A o \in Req : CallOK(req[o])'
  BY <1>3 DEF CallOK, Route, Given, Knows, Written, Outside, Stored, MustTell, Made
<1>5. AllApart'
  BY DEF IInv, TypeOK, AllApart, Apart
<1> QED BY <1>1, <1>2, <1>4, <1>5 DEF IInv

\* The same for a statement that locks nothing new.
LEMMA QuietCall ==
    ASSUME IInv, NEW r \in Req, NEW call, CallOK(call),
           call.op = req[r].op, call.task = req[r].task, call.wrote = req[r].wrote,
           Becomes(r, call)
    PROVE  IInv'
<1>1. \A o \in Req \ {r} : Apart(call, req[o]) /\ Apart(req[o], call)
  BY DEF IInv, AllApart, Apart
<1> QED BY <1>1, QuietStep

LEMMA FailInv ==
    ASSUME IInv, NEW r \in Req, Fail(r)
    PROVE  IInv'
<1>1. \A o \in Req \ {r} : Apart(Idle, req[o]) /\ Apart(req[o], Idle)
  BY ConstantsAssumption DEF Apart, IInv, CallOK, Given, Idle
<1> QED BY <1>1, IdleOK, QuietStep DEF Fail

LEMMA ArriveInv ==
    ASSUME IInv, NEW r \in Req, NEW call \in Request,
           call.pc = "load", call.op \in {"update", "move", "delete"},
           call.actor \in User, call.task \in Task,
           row[call.task].version \in 1 .. MaxVersion,
           ~call.wrote, ~call.told,
           call.op = "update" => call.edit.status = Unset /\ call.edit.position = Unset,
           call.op = "move" => call.edit.title = Unset /\ call.edit.assignee = Unset
                               /\ call.edit.status \in Status,
           call.op = "delete" => call.edit = NoEdit,
           Arrive(r, call)
    PROVE  IInv'
<1>1. PICK c : c = [call EXCEPT !.barred = call.actor \notin Admin \cup members]
  OBVIOUS
<1>2. Becomes(r, c)
  BY <1>1 DEF Arrive
<1>3. CallOK(c)
  BY <1>1 DEF CallOK, Idle, Request, Route, Given, Knows, Written, Outside
<1>4. \A o \in Req \ {r} : Apart(c, req[o]) /\ Apart(req[o], c)
  BY <1>1 DEF IInv, CallOK, Knows, Apart, Request, NoRow, Abstract!NoRow
<1> QED BY <1>2, <1>3, <1>4, QuietStep

\* The records the requests arrive as.
Creation(t, u, title, s, a) ==
    [Idle EXCEPT
       !.pc = "access", !.op = "create", !.actor = u, !.task = t,
       !.edit = [title |-> title, status |-> s, position |-> Unset, assignee |-> a],
       !.barred = closed \/ u \notin Admin \cup members]

Update(t, u, title, a) ==
    [Idle EXCEPT !.pc = "load", !.op = "update", !.actor = u, !.task = t,
                 !.edit = [NoEdit EXCEPT !.title = title, !.assignee = a]]

Move(t, u, s, p) ==
    [Idle EXCEPT !.pc = "load", !.op = "move", !.actor = u, !.task = t,
                 !.edit = [NoEdit EXCEPT !.status = s, !.position = p]]

Deletion(t, u) ==
    [Idle EXCEPT !.pc = "load", !.op = "delete", !.actor = u, !.task = t]

LEMMA BeginInv ==
    ASSUME IInv, NEW r \in Req, Begin(r)
    PROVE  IInv'
<1>1. NoEdit \in Edit /\ ConstantsAssumption
  BY ConstantsAssumption DEF NoEdit, Edit
<1>2. CASE BeginCreate(r)
  <2>1. PICK t \in Task, u \in User, title \in Title, s \in Status, a \in User \cup {Nobody} :
          /\ row[t].version = 0 /\ \A q \in Req : req[q].task # t
          /\ Becomes(r, Creation(t, u, title, s, a))
    BY <1>2 DEF BeginCreate, Creation
  <2>2. PICK call : call = Creation(t, u, title, s, a)
    OBVIOUS
  <2>3. row[t] = NoRow /\ members \in SUBSET User /\ closed \in BOOLEAN
    BY <2>1 DEF IInv, RowsOK, Stored, TypeOK
  <2>4. CallOK(call)
    BY <2>2, <2>3, NoRowType
       DEF CallOK, Creation, Idle, Request, Stage, Edit, Route, Given, Knows, Written, Outside
  <2>5. \A o \in Req \ {r} : Apart(call, req[o]) /\ Apart(req[o], call)
    BY <2>1, <2>2 DEF Apart, Creation, Idle
  <2> QED BY <2>1, <2>2, <2>4, <2>5, QuietStep
<1>3. CASE BeginUpdate(r)
  <2>1. PICK t \in Task, u \in User, title \in Title \cup {Unset},
             a \in User \cup {Nobody, Unset} :
          row[t].version \in 1 .. MaxVersion /\ Arrive(r, Update(t, u, title, a))
    BY <1>3 DEF BeginUpdate, Update
  <2>2. PICK call : call = Update(t, u, title, a)
    OBVIOUS
  <2> QED BY <1>1, <2>1, <2>2, NoRowType, ArriveInv DEF Update, NoEdit, Edit, Idle, Request, Stage
<1>4. CASE BeginMove(r)
  <2>1. PICK t \in Task, u \in User, s \in Status, p \in Positions \cup {Unset} :
          row[t].version \in 1 .. MaxVersion /\ Arrive(r, Move(t, u, s, p))
    BY <1>4 DEF BeginMove, Move
  <2>2. PICK call : call = Move(t, u, s, p)
    OBVIOUS
  <2> QED BY <1>1, <2>1, <2>2, NoRowType, ArriveInv DEF Move, NoEdit, Edit, Idle, Request, Stage
<1>5. CASE BeginDelete(r)
  <2>1. PICK t \in Task, u \in User :
          row[t].version \in 1 .. MaxVersion /\ Arrive(r, Deletion(t, u))
    BY <1>5 DEF BeginDelete, Deletion
  <2>2. PICK call : call = Deletion(t, u)
    OBVIOUS
  <2> QED BY <1>1, <2>1, <2>2, NoRowType, ArriveInv DEF Deletion, Idle, Request, Stage
<1> QED BY <1>2, <1>3, <1>4, <1>5 DEF Begin

LEMMA ReadInv ==
    ASSUME IInv, NEW r \in Req, Read(r)
    PROVE  IInv'
<1>1. PICK q : q = req[r]
  OBVIOUS
<1>2. CallOK(q) /\ q.task \in Task \cup {Unset} /\ q \in Request
  BY <1>1 DEF IInv, CallOK, Request
<1>3. CASE LoadTask(r)
  <2>1. CASE Fail(r)
    BY <2>1, FailInv
  <2>2. CASE Found(q.task) /\ Becomes(r, [q EXCEPT !.base = row[q.task], !.pc = "access"])
    <3>1. q.pc = "load"
      BY <1>1, <1>3 DEF LoadTask, At
    <3>2. q.op \in {"update", "move", "delete"} /\ q.task \in Task
      BY <1>2, <3>1 DEF CallOK, Route, Given, Request, Idle
    <3>3. row[q.task] \in Row /\ Stored(row[q.task]) /\ row[q.task].version \in Nat
      BY <2>2, <3>2 DEF IInv, TypeOK, RowsOK, Found, NoRow, Abstract!NoRow, Row
    <3>4. PICK call : call = [q EXCEPT !.base = row[q.task], !.pc = "access"]
      OBVIOUS
    <3>5. /\ call.op = q.op /\ call.task = q.task /\ call.wrote = q.wrote
          /\ call.edit = q.edit /\ call.actor = q.actor /\ call.told = q.told
          /\ call.barred = q.barred
          /\ call.base = row[q.task] /\ call.pc = "access"
      BY <1>2, <3>4 DEF Request
    <3>6. call \in Request
      BY <1>2, <3>3, <3>4 DEF Request, Stage
    <3>7. Given(call) /\ Knows(call)
      BY <1>2, <2>2, <3>1, <3>2, <3>3, <3>5 DEF CallOK, Given, Knows, Found
    <3>8. CallOK(call)
      BY <1>2, <3>1, <3>2, <3>5, <3>6, <3>7 DEF CallOK, Route, Written, Outside
    <3> QED BY <1>1, <2>2, <3>4, <3>5, <3>8, QuietCall
  <2> QED BY <1>1, <1>3, <2>1, <2>2 DEF LoadTask
<1>4. CASE CheckAccess(r)
  <2>1. CASE Fail(r)
    BY <2>1, FailInv
  <2>2. CASE q.actor \in Admin \cup members /\ Goto(r, Handler(q))
    <3>1. PICK call : call = [q EXCEPT !.pc = Handler(q)]
      OBVIOUS
    <3>2. q.pc = "access"
      BY <1>1, <1>4 DEF CheckAccess, At
    <3>3. CallOK(call)
      BY <1>2, <2>2, <3>1, <3>2
         DEF CallOK, Request, Stage, Edit, Idle, Route, Given, Knows, Written, Outside,
             Handler
    <3>4. call.op = q.op /\ call.task = q.task /\ call.wrote = q.wrote
      BY <1>2, <3>1 DEF Request
    <3> QED BY <1>1, <2>2, <3>1, <3>3, <3>4, QuietCall DEF Goto
  <2> QED BY <1>1, <1>4, <2>1, <2>2 DEF CheckAccess
<1>5. CASE LoadProject(r)
  <2>1. CASE Fail(r)
    BY <2>1, FailInv
  <2>2. CASE ~closed /\ Goto(r, "place")
    <3>1. PICK call : call = [q EXCEPT !.pc = "place"]
      OBVIOUS
    <3>2. q.pc = "project"
      BY <1>1, <1>5 DEF LoadProject, At
    <3>3. CallOK(call)
      BY <1>2, <2>2, <3>1, <3>2
         DEF CallOK, Request, Stage, Idle, Route, Given, Knows, Written, Outside
    <3>4. call.op = q.op /\ call.task = q.task /\ call.wrote = q.wrote
      BY <1>2, <3>1 DEF Request
    <3> QED BY <1>1, <2>2, <3>1, <3>3, <3>4, QuietCall DEF Goto
  <2> QED BY <1>5, <2>1, <2>2 DEF LoadProject
<1>6. CASE NextPosition(r)
  <2>1. PICK p \in Ends :
          Becomes(r, [q EXCEPT !.edit.position = p,
                               !.pc = IF q.op = "create" THEN "insert" ELSE "flush"])
    BY <1>1, <1>6 DEF NextPosition
  <2>2. p \in Int
    BY DEF IInv, TypeOK, Row, Ends, POSITION_STEP
  <2>3. PICK call : call = [q EXCEPT !.edit.position = p,
                                     !.pc = IF q.op = "create" THEN "insert" ELSE "flush"]
    OBVIOUS
  <2>4. q.pc = "place"
    BY <1>1, <1>6 DEF NextPosition, At
  <2>5. call.edit = [q.edit EXCEPT !.position = p] /\ call.edit \in Edit
    BY <1>2, <2>2, <2>3 DEF Request, Edit
  <2>6. /\ call \in Request
        /\ call.op = q.op /\ call.task = q.task /\ call.wrote = q.wrote
        /\ call.base = q.base /\ call.told = q.told /\ call.actor = q.actor
        /\ call.barred = q.barred
        /\ call.pc = IF q.op = "create" THEN "insert" ELSE "flush"
    BY <1>2, <2>3, <2>5 DEF Request, Stage
  <2>7. q.op \in {"create", "move"}
    BY <1>2, <2>4 DEF CallOK, Request, Route, Idle
  <2>8. Given(call)
    BY <1>2, <2>2, <2>4, <2>5, <2>6, <2>7 DEF CallOK, Given, Request, Edit
  <2>9. CallOK(call)
    BY <1>2, <2>4, <2>6, <2>7, <2>8 DEF CallOK, Route, Knows, Written, Outside
  <2> QED BY <1>1, <2>1, <2>3, <2>6, <2>9, QuietCall
<1> QED BY <1>3, <1>4, <1>5, <1>6 DEF Read

-----------------------------------------------------------------------------
(* Steps that take the lock of the row, or end with it *)

LEMMA SameTelling ==
    ASSUME NEW q, NEW call,
           call.edit = q.edit, call.base = q.base, call.actor = q.actor
    PROVE  MustTell(call) <=> MustTell(q)
BY DEF MustTell, Made

LEMMA FlushInv ==
    ASSUME IInv, NEW r \in Req, Flush(r)
    PROVE  IInv'
<1>1. PICK q : q = req[r]
  OBVIOUS
<1>2. CallOK(q) /\ q \in Request
  BY <1>1 DEF IInv, CallOK
<1>3. /\ q.pc = "flush" /\ q.op \in {"update", "move", "delete"} /\ q.task \in Task
      /\ q.wrote = FALSE /\ q.told = FALSE
  BY <1>1, <1>2
     DEF Flush, FlushClean, FlushDirty, FlushStale, At, CallOK, Request, Route, Given,
         Written, Idle
<1> DEFINE Flushed(call, w) ==
             /\ call \in Request
             /\ call.op = q.op /\ call.task = q.task /\ call.edit = q.edit
             /\ call.base = q.base /\ call.actor = q.actor /\ call.told = FALSE
             /\ call.barred = q.barred
             /\ call.wrote = w /\ call.pc = AfterFlush(q)
             /\ MustTell(call) <=> MustTell(q)
<1>4. ASSUME NEW call, NEW w \in BOOLEAN,
             call = [q EXCEPT !.wrote = w, !.pc = AfterFlush(q)]
      PROVE  Flushed(call, w)
  <2>1. /\ call \in Request
        /\ call.op = q.op /\ call.task = q.task /\ call.edit = q.edit
        /\ call.base = q.base /\ call.actor = q.actor /\ call.told = FALSE
        /\ call.barred = q.barred
        /\ call.wrote = w /\ call.pc = AfterFlush(q)
    BY <1>2, <1>3, <1>4 DEF Request, Stage, AfterFlush
  <2> QED BY <2>1, SameTelling
<1>5. CASE FlushClean(r)
  <2>1. PICK call : call = [q EXCEPT !.wrote = FALSE, !.pc = AfterFlush(q)]
    OBVIOUS
  <2>2. call = [q EXCEPT !.pc = AfterFlush(q)]
    BY <1>2, <1>3, <2>1 DEF Request
  <2>3. q.op = "update" => ~MustTell(q)
    <3>1. Made(q).assignee = [q.base EXCEPT !.version = @ + 1].assignee
      BY <1>1, <1>5 DEF FlushClean, Dirty
    <3> QED BY <1>2, <3>1 DEF MustTell, Request, Row
  <2>4. Flushed(call, FALSE)
    BY <1>4, <2>1
  <2>5. CallOK(call)
    BY <1>2, <1>3, <2>3, <2>4
       DEF CallOK, Route, Given, Knows, Written, Outside, AfterFlush
  <2>6. call.op = req[r].op /\ call.task = req[r].task /\ call.wrote = req[r].wrote
    BY <1>1, <1>3, <2>4
  <2>7. Becomes(r, call)
    BY <1>1, <1>5, <2>2 DEF FlushClean, Goto
  <2> QED BY <2>5, <2>6, <2>7, QuietCall
<1>6. CASE FlushDirty(r)
  <2>1. PICK call : call = [q EXCEPT !.wrote = TRUE, !.pc = AfterFlush(q)]
    OBVIOUS
  <2>2. q.base = row[q.task]
    BY <1>1, <1>2, <1>3, <1>6 DEF CallOK, Knows, FlushDirty
  <2>3. Flushed(call, TRUE)
    BY <1>4, <2>1
  <2>4. CallOK(call)
    BY <1>2, <1>3, <2>2, <2>3
       DEF CallOK, Route, Given, Knows, Written, Outside, AfterFlush
  <2>5. ASSUME NEW o \in Req \ {r} PROVE Apart(call, req[o]) /\ Apart(req[o], call)
    <3>1. ~(req[o].task = q.task /\ req[o].wrote)
      BY <1>1, <1>6 DEF FlushDirty, Locked
    <3>2. Apart(req[o], q)
      BY <1>1 DEF IInv, AllApart
    <3> QED BY <1>3, <2>3, <3>1, <3>2 DEF Apart
  <2>6. Becomes(r, call)
    BY <1>1, <1>6, <2>1 DEF FlushDirty
  <2> QED BY <2>4, <2>5, <2>6, QuietStep
<1>7. CASE FlushStale(r)
  BY <1>7, FailInv DEF FlushStale
<1> QED BY <1>5, <1>6, <1>7 DEF Flush

LEMMA InsertInv ==
    ASSUME IInv, NEW r \in Req, InsertTask(r)
    PROVE  IInv'
<1>1. PICK q : q = req[r]
  OBVIOUS
<1>2. CallOK(q) /\ q \in Request
  BY <1>1 DEF IInv, CallOK
<1>3. q.pc = "insert" /\ q.op = "create"
  BY <1>1, <1>2 DEF InsertTask, At, CallOK, Request, Route, Idle
<1>4. PICK call : call = [q EXCEPT !.wrote = TRUE,
                                   !.pc = IF MustTell(q) THEN "notify" ELSE "reload"]
  OBVIOUS
<1>5. /\ call \in Request
      /\ call.op = q.op /\ call.task = q.task /\ call.edit = q.edit
      /\ call.base = q.base /\ call.actor = q.actor /\ call.told = q.told
      /\ call.barred = q.barred
      /\ call.wrote = TRUE /\ call.pc = IF MustTell(q) THEN "notify" ELSE "reload"
  BY <1>2, <1>4 DEF Request, Stage
<1>6. MustTell(call) <=> MustTell(q)
  BY <1>5, SameTelling
<1>7. CallOK(call)
  BY <1>2, <1>3, <1>5, <1>6 DEF CallOK, Route, Given, Knows, Written, Outside, Request
<1>8. \A o \in Req \ {r} : Apart(call, req[o]) /\ Apart(req[o], call)
  BY <1>1, <1>3, <1>5 DEF IInv, AllApart, Apart
<1> QED BY <1>1, <1>4, <1>7, <1>8, QuietStep DEF InsertTask

LEMMA NotifyInv ==
    ASSUME IInv, NEW r \in Req, Notify(r)
    PROVE  IInv'
<1>1. PICK q : q = req[r]
  OBVIOUS
<1>2. CallOK(q) /\ q \in Request
  BY <1>1 DEF IInv, CallOK
<1>3. q.pc = "notify" /\ q.op \in {"create", "update"} /\ q.wrote /\ MustTell(q)
  BY <1>1, <1>2 DEF Notify, At, CallOK, Request, Route, Written, Idle
<1>4. PICK call : call = [q EXCEPT !.told = TRUE, !.pc = "reload"]
  OBVIOUS
<1>5. /\ call \in Request
      /\ call.op = q.op /\ call.task = q.task /\ call.edit = q.edit
      /\ call.base = q.base /\ call.actor = q.actor /\ call.told = TRUE
      /\ call.barred = q.barred
      /\ call.wrote = q.wrote /\ call.pc = "reload"
  BY <1>2, <1>4 DEF Request, Stage
<1>6. MustTell(call) <=> MustTell(q)
  BY <1>5, SameTelling
<1>7. CallOK(call)
  BY <1>2, <1>3, <1>5, <1>6 DEF CallOK, Route, Given, Knows, Written, Outside
<1> QED BY <1>1, <1>4, <1>5, <1>7, QuietCall DEF Notify

LEMMA ReloadInv ==
    ASSUME IInv, NEW r \in Req, Reload(r)
    PROVE  IInv'
<1>1. PICK q : q = req[r]
  OBVIOUS
<1>2. CallOK(q) /\ q \in Request
  BY <1>1 DEF IInv, CallOK
<1>3. q.pc = "reload"
  BY <1>1 DEF Reload, At
<1>4. PICK call : call = [q EXCEPT !.pc = "commit"]
  OBVIOUS
<1>5. /\ call \in Request
      /\ call.op = q.op /\ call.task = q.task /\ call.edit = q.edit
      /\ call.base = q.base /\ call.actor = q.actor /\ call.told = q.told
      /\ call.barred = q.barred
      /\ call.wrote = q.wrote /\ call.pc = "commit"
  BY <1>2, <1>4 DEF Request, Stage
<1>6. MustTell(call) <=> MustTell(q)
  BY <1>5, SameTelling
<1>7. CallOK(call)
  BY <1>2, <1>3, <1>5, <1>6 DEF CallOK, Route, Given, Knows, Written, Outside, Idle
<1> QED BY <1>1, <1>4, <1>5, <1>7, QuietCall DEF Reload, Goto

-----------------------------------------------------------------------------
(* Commit *)

\* What a commit writes: the row its request loaded is still there, and is
\* replaced by the request's own.
Effect(r, q) ==
    /\ q.pc = "commit" /\ q.op \in {"create", "update", "move", "delete"}
    /\ CallOK(q) /\ q \in Request /\ q.task \in Task /\ q.actor \in User
    /\ q.wrote => /\ q.base = row[q.task]
                  /\ Made(q) \in Row /\ Stored(Made(q))
                  /\ row' = [row EXCEPT ![q.task] = Made(q)]
                  /\ Made(q).version = row[q.task].version + 1
    /\ ~q.wrote => row' = row /\ inbox' = inbox
    /\ q.told => /\ MustTell(q)
                 /\ inbox' = [inbox EXCEPT ![Made(q).assignee][q.task] = @ + 1]
    /\ ~q.told => inbox' = inbox
    /\ q.wrote /\ q.op \in {"create", "update"} => (q.told <=> MustTell(q))
    /\ q.wrote /\ q.op \in {"move", "delete"} => ~q.told
    /\ req' = [req EXCEPT ![r] = Idle] /\ UNCHANGED <<members, closed>>

LEMMA CommitEffect ==
    ASSUME IInv, NEW r \in Req, Commit(r), NEW q, q = req[r]
    PROVE  Effect(r, q)
<1>1. q.pc = "commit" /\ CallOK(q) /\ q \in Request
  BY DEF Commit, At, IInv, CallOK
<1>2. q.op \in {"create", "update", "move", "delete"}
  BY <1>1 DEF CallOK, Request, Route, Idle
<1>3. q.task \in Task /\ q.actor \in User
  BY <1>1, <1>2 DEF CallOK, Given
<1>4. CASE q.wrote
  <2>1. q.base = row[q.task]
    BY <1>1, <1>4 DEF CallOK, Written
  <2>2. Made(q) \in Row /\ Stored(Made(q)) /\ Updated(q) = Made(q)
    BY <1>1, <1>3, <1>4, MadeType, UpdatedIsMade
  <2>3. row' = [row EXCEPT ![q.task] = Made(q)]
    BY <1>4, <2>2 DEF Commit
  <2>4. Made(q).version = row[q.task].version + 1
    BY <2>1 DEF Made
  <2> QED BY <1>1, <1>2, <1>3, <1>4, <2>1, <2>2, <2>3, <2>4 DEF Commit, CallOK, Written, Effect
<1>5. CASE ~q.wrote
  BY <1>1, <1>2, <1>3, <1>5 DEF Commit, CallOK, Written, Effect
<1> QED BY <1>1, <1>4, <1>5 DEF Request

LEMMA CommitInv ==
    ASSUME IInv, NEW r \in Req, Commit(r)
    PROVE  IInv'
<1>1. PICK q : q = req[r] /\ Effect(r, q)
  BY CommitEffect
<1> DEFINE t == q.task
<1> USE DEF Effect
<1>2. TypeOK'
  <2>1. row' \in [Task -> Row]
    BY <1>1 DEF IInv, TypeOK
  <2>2. inbox' \in [User -> [Task -> Nat]]
    <3>1. CASE ~q.told
      BY <1>1, <3>1 DEF IInv, TypeOK
    <3>2. CASE q.told
      <4>1. PICK a \in User, n \in [Task -> Nat] :
              inbox' = [inbox EXCEPT ![a] = n]
        <5>1. Made(q).assignee \in User
          BY <1>1, <3>2 DEF MustTell
        <5>2. [inbox[Made(q).assignee] EXCEPT ![t] = @ + 1] \in [Task -> Nat]
          BY <1>1, <5>1 DEF IInv, TypeOK
        <5> QED BY <1>1, <3>2, <5>1, <5>2
      <4> QED BY <4>1 DEF IInv, TypeOK
    <3> QED BY <3>1, <3>2
  <2>3. req' \in [Req -> Request]
    BY <1>1, IdleOK DEF IInv, TypeOK, CallOK
  <2> QED BY <1>1, <2>1, <2>2, <2>3 DEF IInv, TypeOK
<1>3. RowsOK'
  <2>1. ASSUME NEW u \in Task PROVE row'[u] = NoRow \/ Stored(row'[u])
    BY <1>1 DEF IInv, TypeOK, RowsOK
  <2> QED BY <2>1 DEF RowsOK, Stored
<1>4. ASSUME NEW o \in Req PROVE CallOK(req[o])'
  <2>1. CASE o = r
    <3>1. req'[o] = Idle
      BY <1>1, <2>1 DEF IInv, TypeOK
    <3> QED BY <3>1, IdleOK
         DEF CallOK, Idle, Request, Stage, Route, Given, Knows, Written, Outside
  <2>2. CASE o # r
    <3>1. PICK c : c = req[o]
      OBVIOUS
    <3>2. req'[o] = c /\ CallOK(c) /\ c \in Request
      BY <1>1, <2>2, <3>1 DEF IInv, TypeOK, CallOK
    <3>3. Apart(c, q) /\ Apart(q, c)
      BY <1>1, <2>2, <3>1 DEF IInv, AllApart
    <3>4. CASE ~q.wrote \/ c.task # t \/ c.op = "none"
      <4>1. c.op # "none" => row'[c.task] = row[c.task]
        BY <1>1, <3>2, <3>4 DEF IInv, TypeOK, CallOK, Given
      <4>2. c.op = "none" => c.wrote = FALSE /\ c.told = FALSE
        BY <3>2 DEF CallOK, Route, Idle
      <4> QED BY <1>1, <3>2, <4>1, <4>2
           DEF CallOK, Request, Route, Given, Knows, Written, Outside, Stored, MustTell, Made
    <3>5. CASE q.wrote /\ c.task = t /\ c.op # "none"
      <4>1. c.op \in {"update", "move", "delete"} /\ c.wrote = FALSE /\ c.told = FALSE
        BY <3>2, <3>3, <3>5 DEF Apart, CallOK, Written, Request
      <4>2. row'[t] = Made(q) /\ Made(q).version = row[t].version + 1
            /\ row[t].version \in Nat
        BY <1>1, <3>5 DEF IInv, TypeOK, Row
      <4>3. c.base.version \in Nat
        BY <3>2 DEF Request, Row
      <4> QED BY <1>1, <3>2, <3>5, <4>1, <4>2, <4>3
           DEF CallOK, Route, Given, Knows, Written, Outside, Stored
    <3> QED BY <3>4, <3>5
  <2> QED BY <2>1, <2>2
<1>5. AllApart'
  <2>1. ASSUME NEW o \in Req \ {r} PROVE Apart(Idle, req[o]) /\ Apart(req[o], Idle)
    BY ConstantsAssumption DEF Apart, IInv, CallOK, Given, Idle
  <2> QED BY <1>1, <2>1 DEF IInv, TypeOK, AllApart, Apart
<1> QED BY <1>2, <1>3, <1>4, <1>5 DEF IInv

-----------------------------------------------------------------------------
(* Members and the project *)

LEMMA MembersInv ==
    ASSUME IInv, CloseProject \/ \E u \in User : AddMember(u) \/ RemoveMember(u)
    PROVE  IInv'
<1>1. CASE CloseProject
  <2>1. TypeOK' /\ RowsOK' /\ AllApart'
    BY <1>1 DEF CloseProject, IInv, TypeOK, RowsOK, AllApart, Apart, Stored
  <2>2. ASSUME NEW o \in Req PROVE CallOK(req[o])'
    BY <1>1 DEF CloseProject, IInv, CallOK, Request, Route, Given, Knows, Written, Outside,
                Stored, MustTell, Made
  <2> QED BY <2>1, <2>2 DEF IInv
<1>2. ASSUME NEW u \in User, RemoveMember(u) PROVE IInv'
  <2>1. TypeOK' /\ RowsOK' /\ AllApart'
    BY <1>2 DEF RemoveMember, IInv, TypeOK, RowsOK, AllApart, Apart, Stored
  <2>2. ASSUME NEW o \in Req PROVE CallOK(req[o])'
    BY <1>2 DEF RemoveMember, IInv, CallOK, Request, Route, Given, Knows, Written, Outside,
                Stored, MustTell, Made
  <2> QED BY <2>1, <2>2 DEF IInv
<1>3. ASSUME NEW u \in User, AddMember(u) PROVE IInv'
  <2>1. row' = row /\ inbox' = inbox /\ closed' = closed /\ members' = members \cup {u}
    BY <1>3 DEF AddMember
  <2>2. ASSUME NEW o \in Req
        PROVE  /\ CallOK(req[o])'
               /\ req'[o].op = req[o].op /\ req'[o].task = req[o].task
               /\ req'[o].wrote = req[o].wrote
    <3>1. PICK c : c = req[o]
      OBVIOUS
    <3>2. PICK d : d = req'[o]
      OBVIOUS
    <3>3. CallOK(c) /\ c \in Request
      BY <3>1 DEF IInv, CallOK
    <3>4. d = IF c.actor = u /\ ~(c.op = "create" /\ closed)
              THEN [c EXCEPT !.barred = FALSE] ELSE c
      BY <1>3, <3>1, <3>2 DEF AddMember
    <3>5. /\ d \in Request
          /\ d.pc = c.pc /\ d.op = c.op /\ d.task = c.task /\ d.edit = c.edit
          /\ d.base = c.base /\ d.wrote = c.wrote /\ d.told = c.told /\ d.actor = c.actor
          /\ d.barred => c.barred /\ d = c
      BY <3>3, <3>4 DEF Request
    <3>6. c.op = "none" => d = Idle
      <4>1. c.op = "none" => c = Idle /\ Idle.actor = Nobody
        BY <3>3 DEF CallOK, Route, Idle
      <4> QED BY <3>4, <4>1, ConstantsAssumption
    <3>7. Outside(d)'
      BY <2>1, <3>3, <3>4, <3>5 DEF CallOK, Outside, Route
    <3>8. MustTell(d) <=> MustTell(c)
      BY <3>5, SameTelling
    <3>9. Route(d) /\ Given(d) /\ Knows(d) /\ Written(d)
      BY <3>3, <3>5, <3>6, <3>8 DEF CallOK, Route, Given, Knows, Written
    <3>10. Route(d)' /\ Given(d)' /\ Knows(d)' /\ Written(d)'
      BY <2>1, <3>9 DEF Route, Given, Knows, Written, Stored, MustTell, Made
    <3> QED BY <3>1, <3>2, <3>5, <3>7, <3>10 DEF CallOK
  <2>3. TypeOK'
    BY <1>3, <2>1, <2>2 DEF AddMember, IInv, TypeOK, CallOK
  <2>4. RowsOK' /\ AllApart'
    BY <2>1, <2>2 DEF IInv, RowsOK, AllApart, Apart, Stored
  <2> QED BY <2>2, <2>3, <2>4 DEF IInv
<1> QED BY <1>1, <1>2, <1>3

-----------------------------------------------------------------------------
(* The specification *)

LEMMA NextInv == IInv /\ [Next]_vars => IInv'
<1> SUFFICES ASSUME IInv, [Next]_vars PROVE IInv'
  OBVIOUS
<1>1. CASE UNCHANGED vars
  <2> USE <1>1 DEF vars
  <2>1. TypeOK' /\ RowsOK' /\ AllApart'
    BY DEF IInv, TypeOK, RowsOK, AllApart, Apart, Stored
  <2>2. \A r \in Req : CallOK(req[r])'
    BY DEF IInv, CallOK, Route, Given, Knows, Written, Outside, Stored, MustTell, Made
  <2> QED BY <2>1, <2>2 DEF IInv
<1>2. ASSUME NEW r \in Req, Begin(r) PROVE IInv'
  BY <1>2, BeginInv
<1>3. ASSUME NEW r \in Req, Read(r) PROVE IInv'
  BY <1>3, ReadInv
<1>4. ASSUME NEW r \in Req, Flush(r) PROVE IInv'
  BY <1>4, FlushInv
<1>5. ASSUME NEW r \in Req, Finish(r) PROVE IInv'
  BY <1>5, InsertInv, NotifyInv, ReloadInv, FailInv, CommitInv DEF Finish, ReloadFails
<1>6. ASSUME NEW r \in Req, Abort(r) PROVE IInv'
  BY <1>6, FailInv DEF Abort
<1>7. CASE CloseProject \/ \E u \in User : AddMember(u) \/ RemoveMember(u)
  BY <1>7, MembersInv
<1> QED BY <1>1, <1>2, <1>3, <1>4, <1>5, <1>6, <1>7 DEF Next

THEOREM SpecInv == Spec => []IInv
BY InitInv, NextInv, PTL DEF Spec

\* Every variable keeps its type.
THEOREM SpecTypeOK == Spec => []TypeOK
<1>1. IInv => TypeOK
  BY DEF IInv
<1> QED BY <1>1, SpecInv, PTL

\* A request that had no right to the board when it arrived, and was given
\* none since, writes nothing, however members and project change under it.
THEOREM SpecOutsidersWriteNothing == Spec => []OutsidersWriteNothing
<1>1. IInv => OutsidersWriteNothing
  BY DEF IInv, CallOK, Outside, Written, OutsidersWriteNothing
<1> QED BY <1>1, SpecInv, PTL

\* Only a commit changes a task or a notification.
LEMMA OnlyCommitWrites ==
    ASSUME [Next]_vars, \A r \in Req : ~Commit(r)
    PROVE  row' = row /\ inbox' = inbox
<1> USE DEF Becomes, Goto, Fail, tables
<1>1. ASSUME NEW r \in Req, Begin(r) PROVE row' = row /\ inbox' = inbox
  BY <1>1 DEF Begin, BeginCreate, BeginUpdate, BeginMove, BeginDelete, Arrive
<1>2. ASSUME NEW r \in Req, Read(r) PROVE row' = row /\ inbox' = inbox
  BY <1>2 DEF Read, LoadTask, CheckAccess, LoadProject, NextPosition
<1>3. ASSUME NEW r \in Req, Flush(r) \/ Finish(r) \/ Abort(r)
      PROVE row' = row /\ inbox' = inbox
  BY <1>3 DEF Flush, FlushClean, FlushDirty, FlushStale, Finish, InsertTask, Notify,
              Reload, ReloadFails, Abort
<1> QED BY <1>1, <1>2, <1>3 DEF Next, vars, AddMember, RemoveMember, CloseProject

\* No update is lost: whoever changes a stored task has loaded the row that
\* the change replaces.
THEOREM SpecNoLostUpdate == Spec => NoLostUpdate
<1> DEFINE Based(r, t) == /\ req[r].task = t /\ req[r].base = row[t]
                          /\ req[r].wrote /\ req[r].pc = "commit"
                          /\ row'[t].version = row[t].version + 1
           Step == \A t \in Task : row'[t] # row[t] => \E r \in Req : Based(r, t)
<1>1. ASSUME IInv, NEW r \in Req, Commit(r), NEW t \in Task, row'[t] # row[t]
      PROVE  Based(r, t)
  <2>1. PICK q : q = req[r] /\ Effect(r, q)
    BY <1>1, CommitEffect
  <2>2. q.wrote /\ t = q.task /\ row'[t] = Made(q)
    BY <1>1, <2>1 DEF Effect, IInv, TypeOK
  <2> QED BY <2>1, <2>2 DEF Effect
<1>2. ASSUME IInv, [Next]_vars PROVE [Step]_vars
  <2>1. CASE \E r \in Req : Commit(r)
    BY <1>1, <1>2, <2>1
  <2>2. CASE \A r \in Req : ~Commit(r)
    BY <1>2, <2>2, OnlyCommitWrites
  <2> QED BY <2>1, <2>2
<1> QED BY <1>2, SpecInv, PTL DEF Spec, NoLostUpdate

\* A deleted task never changes again.
THEOREM SpecDeletedIsFinal == Spec => DeletedIsFinal
<1> DEFINE Step == \A t \in Task : row[t].deleted => row'[t] = row[t]
<1>1. ASSUME IInv, NEW r \in Req, Commit(r), NEW t \in Task, row[t].deleted
      PROVE  row'[t] = row[t]
  <2>1. PICK q : q = req[r] /\ Effect(r, q)
    BY <1>1, CommitEffect
  <2>2. q.base.deleted = FALSE
    BY <2>1 DEF Effect, CallOK, Knows, Request, Row, NoRow, Abstract!NoRow
  <2> QED BY <1>1, <2>1, <2>2 DEF Effect, IInv, TypeOK
<1>2. ASSUME IInv, [Next]_vars PROVE [Step]_vars
  <2>1. CASE \E r \in Req : Commit(r)
    BY <1>1, <1>2, <2>1
  <2>2. CASE \A r \in Req : ~Commit(r)
    BY <1>2, <2>2, OnlyCommitWrites
  <2> QED BY <2>1, <2>2
<1> QED BY <1>2, SpecInv, PTL DEF Spec, DeletedIsFinal

-----------------------------------------------------------------------------
(* Board implements AtomicBoard *)

LEMMA RowEquality ==
    ASSUME NEW v \in Row, NEW w \in Row,
           v.version = w.version, v.title = w.title, v.status = w.status,
           v.position = w.position, v.assignee = w.assignee, v.deleted = w.deleted
    PROVE  v = w
BY DEF Row

\* A commit of each kind is the abstract action of its name.
LEMMA CommitIsAtomic ==
    ASSUME IInv, NEW r \in Req, Commit(r)
    PROVE  [Abstract!Next]_(Abstract!vars)
<1>1. PICK q : q = req[r] /\ Effect(r, q)
  BY CommitEffect
<1> DEFINE t == q.task
<1>2. CASE ~q.wrote
  BY <1>1, <1>2 DEF Effect, Abstract!vars
<1>3. CASE q.wrote
  <2>1. /\ t \in Task /\ CallOK(q) /\ q.base = row[t] /\ row[t] \in Row /\ q \in Request
        /\ row' = [row EXCEPT ![t] = Made(q)] /\ row'[t] = Made(q)
        /\ Made(q) \in Row /\ Stored(Made(q)) /\ q.actor \in User
    BY <1>1, <1>3 DEF Effect, IInv, TypeOK
  <2>2. q.op \in {"create", "update", "move", "delete"}
    BY <1>1 DEF Effect
  <2>3. q.op # "create" => Abstract!Live(t)
    BY <1>1, <2>1, <2>2 DEF CallOK, Knows, Stored, Route, Abstract!Live, Request, Row, Effect
  <2>4. CASE q.op = "create"
    <3> DEFINE a == q.edit.assignee
    <3>1. /\ q.edit.title \in Title /\ q.edit.status \in Status
          /\ q.edit.position \in Int /\ a \in User \cup {Nobody}
          /\ q.base = NoRow
      BY <1>1, <2>1, <2>4 DEF CallOK, Given, Knows, Effect
    <3>2. Made(q) = [version |-> 1, title |-> q.edit.title, status |-> q.edit.status,
                     position |-> q.edit.position, assignee |-> a, deleted |-> FALSE]
      <4>1. q.edit.title # Unset /\ q.edit.status # Unset /\ q.edit.position # Unset
            /\ a # Unset /\ NoRow.version + 1 = 1 /\ q.op # "delete"
        BY <2>4, <3>1, ConstantsAssumption DEF NoRow, Abstract!NoRow
      <4> QED BY <3>1, <4>1 DEF Made
    <3>3. MustTell(q) <=> a \in User \ {q.actor}
      BY <3>1, <3>2, ConstantsAssumption DEF MustTell, NoRow, Abstract!NoRow
    <3>4. Abstract!Tell(t, a, q.actor)
      BY <1>1, <1>3, <2>4, <3>2, <3>3 DEF Effect, Abstract!Tell
    <3>5. row[t].version = 0
      BY <2>1, <3>1 DEF NoRow, Abstract!NoRow
    <3>6. Abstract!Place(t) = q.edit.position
      BY <2>1, <3>2 DEF Abstract!Place
    <3>7. Abstract!Create(t)
      BY <2>1, <3>1, <3>2, <3>4, <3>5, <3>6 DEF Abstract!Create
    <3> QED BY <2>1, <3>7 DEF Abstract!Next
  <2>5. CASE q.op = "update"
    <3>1. PICK m : m = Made(q) /\ m.title \in Title /\ m.assignee \in User \cup {Nobody}
      BY <2>1 DEF Stored, Row
    <3>2. PICK v : v = [row[t] EXCEPT !.title = m.title, !.assignee = m.assignee]
      OBVIOUS
    <3>3. v \in Row
      BY <2>1, <3>1, <3>2 DEF Row
    <3>4. m = [v EXCEPT !.version = @ + 1]
      <4>1. [v EXCEPT !.version = @ + 1] \in Row
        BY <3>3 DEF Row
      <4>2. /\ m.title = v.title /\ m.status = v.status /\ m.position = v.position
            /\ m.assignee = v.assignee /\ m.deleted = v.deleted
            /\ m.version = v.version + 1
        BY <1>1, <2>1, <2>5, <3>1, <3>2
           DEF Made, Row, CallOK, Given, Knows, Effect, NoEdit
      <4> QED BY <2>1, <3>1, <3>3, <4>1, <4>2, RowEquality DEF Row
    <3>5. Abstract!Replace(t, v)
      BY <2>1, <2>3, <2>5, <3>1, <3>4 DEF Abstract!Replace
    <3>6. IF m.assignee = row[t].assignee THEN UNCHANGED inbox
          ELSE Abstract!Tell(t, m.assignee, q.actor)
      BY <1>1, <1>3, <2>1, <2>5, <3>1 DEF Effect, MustTell, Abstract!Tell
    <3>7. Abstract!Update(t)
      BY <2>1, <3>1, <3>2, <3>5, <3>6 DEF Abstract!Update
    <3> QED BY <2>1, <3>7 DEF Abstract!Next
  <2>6. CASE q.op = "move"
    <3>1. PICK m : m = Made(q) /\ m.status \in Status /\ m.position \in Int
      BY <2>1 DEF Stored, Row
    <3>2. PICK v : v = [row[t] EXCEPT !.status = m.status, !.position = m.position]
      OBVIOUS
    <3>3. v \in Row
      BY <2>1, <3>1, <3>2 DEF Row
    <3>4. m = [v EXCEPT !.version = @ + 1]
      <4>1. [v EXCEPT !.version = @ + 1] \in Row
        BY <3>3 DEF Row
      <4>2. /\ m.title = v.title /\ m.status = v.status /\ m.position = v.position
            /\ m.assignee = v.assignee /\ m.deleted = v.deleted
            /\ m.version = v.version + 1
        BY <1>1, <2>1, <2>6, <3>1, <3>2
           DEF Made, Row, CallOK, Given, Knows, Effect, NoEdit
      <4> QED BY <2>1, <3>1, <3>3, <4>1, <4>2, RowEquality DEF Row
    <3>5. Abstract!Replace(t, v)
      BY <2>1, <2>3, <2>6, <3>1, <3>4 DEF Abstract!Replace
    <3>6. Abstract!Place(t) = m.position
      BY <2>1, <3>1 DEF Abstract!Place
    <3>7. Abstract!Move(t)
      BY <1>1, <1>3, <2>6, <3>1, <3>2, <3>5, <3>6 DEF Effect, Abstract!Move
    <3> QED BY <2>1, <3>7 DEF Abstract!Next
  <2>7. CASE q.op = "delete"
    <3>1. PICK m : m = Made(q)
      OBVIOUS
    <3>2. PICK v : v = [row[t] EXCEPT !.deleted = TRUE]
      OBVIOUS
    <3>3. v \in Row
      BY <2>1, <3>1, <3>2 DEF Row
    <3>4. m = [v EXCEPT !.version = @ + 1]
      <4>1. [v EXCEPT !.version = @ + 1] \in Row
        BY <3>3 DEF Row
      <4>2. q.edit = NoEdit
        BY <1>1, <2>7 DEF Effect, CallOK, Given
      <4>3. /\ m.title = v.title /\ m.status = v.status /\ m.position = v.position
            /\ m.assignee = v.assignee /\ m.version = v.version + 1
        BY <2>1, <3>1, <3>2, <4>2 DEF Made, Row, NoEdit
      <4>4. m.deleted /\ v.deleted
        BY <2>1, <2>7, <3>1, <3>2 DEF Made, Row
      <4>5. m.deleted \in BOOLEAN /\ v.deleted \in BOOLEAN
        BY <2>1, <3>1, <3>3 DEF Row
      <4>6. m.deleted = v.deleted
        BY <4>4, <4>5
      <4> QED BY <2>1, <3>1, <3>3, <4>1, <4>3, <4>6, RowEquality DEF Row
    <3>5. Abstract!Replace(t, v)
      BY <2>1, <2>3, <2>7, <3>1, <3>4 DEF Abstract!Replace
    <3>6. UNCHANGED inbox
      BY <1>1, <1>3, <2>7 DEF Effect
    <3>7. Abstract!Delete(t)
      BY <3>2, <3>5, <3>6 DEF Abstract!Delete
    <3> QED BY <2>1, <3>7 DEF Abstract!Next
  <2> QED BY <2>2, <2>4, <2>5, <2>6, <2>7
<1> QED BY <1>2, <1>3

\* Every behaviour of the board, seen through its tables, is one of the
\* atomic board.
THEOREM SpecActsAtomically == Spec => ActsAtomically
<1>1. Init => Abstract!Init
  BY DEF Init, Abstract!Init, NoRow
<1>2. ASSUME IInv, [Next]_vars PROVE [Abstract!Next]_(Abstract!vars)
  <2>1. CASE \E r \in Req : Commit(r)
    BY <1>2, <2>1, CommitIsAtomic
  <2>2. CASE \A r \in Req : ~Commit(r)
    BY <1>2, <2>2, OnlyCommitWrites DEF Abstract!vars
  <2> QED BY <2>1, <2>2
<1> QED BY <1>1, <1>2, SpecInv, PTL DEF Spec, ActsAtomically, Abstract!Spec

-----------------------------------------------------------------------------
(* The order of the cards, while requests do not overlap *)

\* No two requests overlap, and clients leave the position to the board.
Alone == (\A r1, r2 \in Req : r1 = r2) /\ Positions = {}

Behind(p, s) == \A t \in Task : Found(t) /\ row[t].status = s => row[t].position < p

Early == {"load", "access", "project", "place"}

\* A request that has asked for its place is still behind the others of its column.
Placed(q) ==
    /\ q.op = "move" /\ q.pc \in Early => q.edit.position = Unset
    /\ q.op \in {"create", "move"} /\ q.pc \notin Early =>
         Behind(q.edit.position, q.edit.status)

PlaceInv == Alone => DistinctPositions /\ \A r \in Req : Placed(req[r])

LEMMA PlaceInit == Init => PlaceInv
<1> SUFFICES ASSUME Init PROVE PlaceInv
  OBVIOUS
<1>1. \A t \in Task : ~Found(t)
  BY DEF Init, Found, NoRow, Abstract!NoRow
<1>2. \A r \in Req : Placed(req[r])
  BY DEF Init, Idle, Placed
<1> QED BY <1>1, <1>2 DEF PlaceInv, DistinctPositions

LEMMA QuietPlace ==
    ASSUME IInv, PlaceInv, NEW r \in Req, NEW call, Becomes(r, call), Alone => Placed(call)
    PROVE  PlaceInv'
<1> SUFFICES ASSUME Alone PROVE DistinctPositions' /\ \A o \in Req : Placed(req[o])'
  BY DEF PlaceInv, Alone
<1>1. row' = row /\ \A o \in Req : Placed(req'[o])
  BY DEF Becomes, tables, IInv, TypeOK, PlaceInv
<1>2. \A o \in Req : Placed(req[o])'
  BY <1>1 DEF Placed, Behind, Found
<1>3. DistinctPositions'
  BY <1>1 DEF PlaceInv, DistinctPositions, Found
<1> QED BY <1>2, <1>3

\* A statement before the place is asked for, or after.
LEMMA KeepsPlace ==
    ASSUME NEW q, NEW call, Placed(q), call.op = q.op, call.edit = q.edit,
           q.op \in {"create", "move"} => (call.pc \in Early <=> q.pc \in Early)
    PROVE  Placed(call)
BY DEF Placed

LEMMA FailPlace ==
    ASSUME IInv, PlaceInv, NEW r \in Req, Fail(r)
    PROVE  PlaceInv'
BY QuietPlace DEF Fail, Placed, Idle

LEMMA BeginPlace ==
    ASSUME IInv, PlaceInv, NEW r \in Req, Begin(r)
    PROVE  PlaceInv'
<1>1. CASE BeginCreate(r)
  <2>1. PICK t \in Task, u \in User, title \in Title, s \in Status, a \in User \cup {Nobody} :
          Becomes(r, Creation(t, u, title, s, a))
    BY <1>1 DEF BeginCreate, Creation
  <2>2. PICK call : call = Creation(t, u, title, s, a)
    OBVIOUS
  <2>3. call.op = "create" /\ call.pc = "access"
    BY <2>2 DEF Creation, Idle
  <2> QED BY <2>1, <2>2, <2>3, QuietPlace DEF Placed, Early
<1>2. CASE BeginUpdate(r)
  <2>1. PICK t \in Task, u \in User, title \in Title \cup {Unset},
             a \in User \cup {Nobody, Unset} : Arrive(r, Update(t, u, title, a))
    BY <1>2 DEF BeginUpdate, Update
  <2>2. PICK call : call = [Update(t, u, title, a) EXCEPT
                              !.barred = Update(t, u, title, a).actor \notin Admin \cup members]
    OBVIOUS
  <2>3. Becomes(r, call)
    BY <2>1, <2>2 DEF Arrive
  <2>4. call.op = "update"
    BY <2>2 DEF Update, Idle
  <2> QED BY <2>3, <2>4, QuietPlace DEF Placed
<1>3. CASE BeginMove(r)
  <2>1. PICK t \in Task, u \in User, s \in Status, p \in Positions \cup {Unset} :
          Arrive(r, Move(t, u, s, p))
    BY <1>3 DEF BeginMove, Move
  <2>2. PICK call : call = [Move(t, u, s, p) EXCEPT
                              !.barred = Move(t, u, s, p).actor \notin Admin \cup members]
    OBVIOUS
  <2>3. Becomes(r, call)
    BY <2>1, <2>2 DEF Arrive
  <2>4. call.op = "move" /\ call.pc = "load" /\ call.edit.position = p
    BY <2>2 DEF Move, Idle, NoEdit
  <2>5. Alone => p = Unset
    BY DEF Alone
  <2> QED BY <2>3, <2>4, <2>5, QuietPlace DEF Placed, Early
<1>4. CASE BeginDelete(r)
  <2>1. PICK t \in Task, u \in User : Arrive(r, Deletion(t, u))
    BY <1>4 DEF BeginDelete, Deletion
  <2>2. PICK call : call = [Deletion(t, u) EXCEPT
                              !.barred = Deletion(t, u).actor \notin Admin \cup members]
    OBVIOUS
  <2>3. Becomes(r, call)
    BY <2>1, <2>2 DEF Arrive
  <2>4. call.op = "delete"
    BY <2>2 DEF Deletion, Idle
  <2> QED BY <2>3, <2>4, QuietPlace DEF Placed
<1> QED BY <1>1, <1>2, <1>3, <1>4 DEF Begin

LEMMA ReadPlace ==
    ASSUME IInv, PlaceInv, NEW r \in Req, Read(r)
    PROVE  PlaceInv'
<1>1. PICK q : q = req[r]
  OBVIOUS
<1>2. CallOK(q) /\ q \in Request /\ (Alone => Placed(q))
  BY <1>1 DEF IInv, CallOK, PlaceInv
<1>3. CASE LoadTask(r)
  <2>1. CASE Becomes(r, [q EXCEPT !.base = row[q.task], !.pc = "access"]) /\ q.pc = "load"
    <3>1. PICK call : call = [q EXCEPT !.base = row[q.task], !.pc = "access"]
      OBVIOUS
    <3>2. call.op = q.op /\ call.edit = q.edit /\ call.pc = "access"
      BY <1>2, <3>1 DEF Request
    <3> QED BY <1>2, <2>1, <3>1, <3>2, KeepsPlace, QuietPlace DEF Early
  <2> QED BY <1>1, <1>3, <2>1, FailPlace DEF LoadTask, At
<1>4. CASE CheckAccess(r)
  <2>1. CASE Becomes(r, [q EXCEPT !.pc = Handler(q)]) /\ q.pc = "access"
    <3>1. PICK call : call = [q EXCEPT !.pc = Handler(q)]
      OBVIOUS
    <3>2. call.op = q.op /\ call.edit = q.edit /\ call.pc = Handler(q)
      BY <1>2, <3>1 DEF Request
    <3>3. Alone /\ q.op \in {"create", "move"} => call.pc \in Early
      BY <1>2, <2>1, <3>2 DEF Placed, Handler, Early
    <3> QED BY <1>2, <2>1, <3>1, <3>2, <3>3, KeepsPlace, QuietPlace DEF Early
  <2> QED BY <1>1, <1>4, <2>1, FailPlace DEF CheckAccess, Goto, At
<1>5. CASE LoadProject(r)
  <2>1. CASE Becomes(r, [q EXCEPT !.pc = "place"]) /\ q.pc = "project"
    <3>1. PICK call : call = [q EXCEPT !.pc = "place"]
      OBVIOUS
    <3>2. call.op = q.op /\ call.edit = q.edit /\ call.pc = "place"
      BY <1>2, <3>1 DEF Request
    <3> QED BY <1>2, <2>1, <3>1, <3>2, KeepsPlace, QuietPlace DEF Early
  <2> QED BY <1>1, <1>5, <2>1, FailPlace DEF LoadProject, Goto, At
<1>6. CASE NextPosition(r)
  <2>1. PICK p \in Ends :
          /\ IsNextPosition(p, q.edit.status)
          /\ Becomes(r, [q EXCEPT !.edit.position = p,
                                  !.pc = IF q.op = "create" THEN "insert" ELSE "flush"])
    BY <1>1, <1>6 DEF NextPosition
  <2>2. PICK call : call = [q EXCEPT !.edit.position = p,
                                     !.pc = IF q.op = "create" THEN "insert" ELSE "flush"]
    OBVIOUS
  <2>3. /\ call.pc \in {"insert", "flush"}
        /\ call.edit.position = p /\ call.edit.status = q.edit.status
    BY <1>2, <2>2 DEF Request, Edit
  <2>4. Behind(p, q.edit.status)
    <3> SUFFICES ASSUME NEW t \in Column(q.edit.status) PROVE row[t].position < p
      BY DEF Behind, Column
    <3>1. PICK last \in Column(q.edit.status) :
            row[t].position <= row[last].position /\ p = row[last].position + 1000
      BY <2>1 DEF IsNextPosition, POSITION_STEP
    <3>2. row[t].position \in Int /\ row[last].position \in Int
      BY DEF IInv, TypeOK, Row, Column
    <3> QED BY <3>1, <3>2
  <2>5. Placed(call)
    BY <2>3, <2>4 DEF Placed, Early
  <2> QED BY <2>1, <2>2, <2>5, QuietPlace
<1> QED BY <1>3, <1>4, <1>5, <1>6 DEF Read

\* From the place to the commit.
LEMMA WritePlace ==
    ASSUME IInv, PlaceInv, NEW r \in Req,
           Flush(r) \/ InsertTask(r) \/ Notify(r) \/ Reload(r)
    PROVE  PlaceInv'
<1>1. PICK q : q = req[r]
  OBVIOUS
<1>2. q \in Request /\ (Alone => Placed(q))
  BY <1>1 DEF IInv, CallOK, PlaceInv
<1>3. CASE FlushStale(r)
  BY <1>3, FailPlace DEF FlushStale
<1>4. CASE ~FlushStale(r)
  <2>1. AfterFlush(q) \in {"notify", "reload", "commit"}
    BY DEF AfterFlush
  <2>2. PICK w \in {q.wrote, TRUE}, told \in {q.told, TRUE},
             pc \in {"notify", "reload", "commit"} :
          Becomes(r, [q EXCEPT !.wrote = w, !.told = told, !.pc = pc])
    <3>1. CASE FlushClean(r)
      <4>1. [q EXCEPT !.wrote = q.wrote, !.told = q.told, !.pc = AfterFlush(q)]
              = [q EXCEPT !.pc = AfterFlush(q)]
        BY <1>2 DEF Request
      <4> QED BY <1>1, <2>1, <3>1, <4>1 DEF FlushClean, Goto
    <3>2. CASE FlushDirty(r)
      <4>1. [q EXCEPT !.wrote = TRUE, !.told = q.told, !.pc = AfterFlush(q)]
              = [q EXCEPT !.wrote = TRUE, !.pc = AfterFlush(q)]
        BY <1>2 DEF Request
      <4> QED BY <1>1, <2>1, <3>2, <4>1 DEF FlushDirty
    <3>3. CASE InsertTask(r)
      <4>1. PICK pc \in {"notify", "reload"} : pc = IF MustTell(q) THEN "notify" ELSE "reload"
        OBVIOUS
      <4>2. [q EXCEPT !.wrote = TRUE, !.told = q.told, !.pc = pc]
              = [q EXCEPT !.wrote = TRUE, !.pc = pc]
        BY <1>2 DEF Request
      <4> QED BY <1>1, <3>3, <4>1, <4>2 DEF InsertTask
    <3>4. CASE Notify(r)
      <4>1. [q EXCEPT !.wrote = q.wrote, !.told = TRUE, !.pc = "reload"]
              = [q EXCEPT !.told = TRUE, !.pc = "reload"]
        BY <1>2 DEF Request
      <4> QED BY <1>1, <3>4, <4>1 DEF Notify
    <3>5. CASE Reload(r)
      <4>1. [q EXCEPT !.wrote = q.wrote, !.told = q.told, !.pc = "commit"]
              = [q EXCEPT !.pc = "commit"]
        BY <1>2 DEF Request
      <4> QED BY <1>1, <3>5, <4>1 DEF Reload, Goto
    <3> QED BY <1>4, <3>1, <3>2, <3>3, <3>4, <3>5 DEF Flush
  <2>3. PICK call : call = [q EXCEPT !.wrote = w, !.told = told, !.pc = pc]
    OBVIOUS
  <2>4. call.op = q.op /\ call.edit = q.edit /\ call.pc \notin Early
    BY <1>2, <2>3 DEF Request, Early
  <2>5. q.op \in {"create", "move"} => q.pc \notin Early
    BY <1>1, <1>4
       DEF Flush, FlushClean, FlushDirty, InsertTask, Notify, Reload, At, Early
  <2> QED BY <1>2, <2>2, <2>3, <2>4, <2>5, KeepsPlace, QuietPlace
<1> QED BY <1>3, <1>4

LEMMA CommitPlace ==
    ASSUME IInv, PlaceInv, NEW r \in Req, Commit(r)
    PROVE  PlaceInv'
<1> SUFFICES ASSUME Alone PROVE DistinctPositions' /\ \A o \in Req : Placed(req[o])'
  BY DEF PlaceInv, Alone
<1>1. PICK q : q = req[r] /\ Effect(r, q)
  BY CommitEffect
<1>2. \A o \in Req : Placed(req[o])'
  <2>1. \A o \in Req : req'[o] = Idle
    BY <1>1 DEF Effect, Alone, IInv, TypeOK
  <2> QED BY <2>1 DEF Placed, Idle
<1>3. DistinctPositions /\ Placed(q) /\ q.pc \notin Early
  BY <1>1 DEF PlaceInv, Effect, Early
<1>4. ASSUME ~q.wrote PROVE DistinctPositions'
  <2>1. row' = row
    BY <1>1, <1>4 DEF Effect
  <2> QED BY <1>3, <2>1 DEF DistinctPositions, Found
<1>5. ASSUME q.wrote PROVE DistinctPositions'
  <2>1. PICK m : m = Made(q)
    OBVIOUS
  <2>2. /\ q.task \in Task /\ q.base = row[q.task] /\ row' = [row EXCEPT ![q.task] = m]
        /\ CallOK(q) /\ q.op \in {"create", "update", "move", "delete"}
    BY <1>1, <1>5, <2>1 DEF Effect
  <2>3. row'[q.task] = m /\ \A t \in Task \ {q.task} : row'[t] = row[t]
    BY <2>2 DEF IInv, TypeOK
  <2>4. ASSUME NEW t \in Task \ {q.task}, Found(q.task)', Found(t),
               row[t].status = m.status
        PROVE  row[t].position # m.position
    <3>1. CASE q.op \in {"create", "move"}
      <4>1. q.edit.status \in Status /\ q.edit.position \in Int
        BY <1>1, <2>2, <3>1 DEF Effect, CallOK, Given
      <4>2. m.status = q.edit.status /\ m.position = q.edit.position
        BY <2>1, <4>1, ConstantsAssumption DEF Made
      <4>3. row[t].position < m.position
        BY <1>3, <2>4, <3>1, <4>2 DEF Placed, Behind
      <4>4. row[t].position \in Int
        BY DEF IInv, TypeOK, Row
      <4> QED BY <4>1, <4>2, <4>3, <4>4
    <3>2. CASE q.op = "update"
      <4>1. m.status = row[q.task].status /\ m.position = row[q.task].position
        BY <2>1, <2>2, <3>2 DEF Made, CallOK, Given
      <4>2. Found(q.task)
        BY <1>1, <2>2, <3>2
           DEF Effect, CallOK, Knows, Stored, Found
      <4> QED BY <1>3, <2>2, <2>4, <4>1, <4>2 DEF DistinctPositions
    <3>3. CASE q.op = "delete"
      <4>1. m.deleted
        BY <2>1, <3>3 DEF Made
      <4> QED BY <2>3, <2>4, <4>1 DEF Found
    <3> QED BY <2>2, <3>1, <3>2, <3>3
  <2>5. \A t \in Task \ {q.task} : Found(t)' <=> Found(t)
    BY <2>3 DEF Found
  <2> SUFFICES ASSUME NEW t1 \in Task, NEW t2 \in Task, Found(t1)', Found(t2)',
                      row'[t1].status = row'[t2].status,
                      row'[t1].position = row'[t2].position
               PROVE  t1 = t2
    BY DEF DistinctPositions
  <2>6. CASE t1 # q.task /\ t2 # q.task
    BY <1>3, <2>3, <2>5, <2>6 DEF DistinctPositions
  <2>7. CASE t1 = q.task /\ t2 # q.task
    BY <2>3, <2>4, <2>5, <2>7
  <2>8. CASE t1 # q.task /\ t2 = q.task
    BY <2>3, <2>4, <2>5, <2>8
  <2> QED BY <2>6, <2>7, <2>8
<1> QED BY <1>2, <1>4, <1>5

LEMMA PlaceNext == IInv /\ PlaceInv /\ [Next]_vars => PlaceInv'
<1> SUFFICES ASSUME IInv, PlaceInv, [Next]_vars PROVE PlaceInv'
  OBVIOUS
<1>1. ASSUME NEW u \in User, AddMember(u) PROVE PlaceInv'
  <2>1. row' = row
    BY <1>1 DEF AddMember
  <2>2. ASSUME NEW o \in Req, Alone PROVE Placed(req[o])'
    <3>1. PICK q : q = req[o]
      OBVIOUS
    <3>2. PICK call : call = req'[o]
      OBVIOUS
    <3>3. q \in Request /\ Placed(q)
      BY <2>2, <3>1 DEF IInv, TypeOK, PlaceInv
    <3>4. call.op = q.op /\ call.edit = q.edit /\ call.pc = q.pc
      BY <1>1, <3>1, <3>2, <3>3 DEF AddMember, Request
    <3>5. Placed(call)
      BY <3>3, <3>4, KeepsPlace
    <3> QED BY <2>1, <3>2, <3>5 DEF Placed, Behind, Found
  <2>3. Alone => DistinctPositions'
    BY <2>1 DEF PlaceInv, DistinctPositions, Found
  <2> QED BY <2>2, <2>3 DEF PlaceInv, Alone
<1>2. CASE CloseProject \/ UNCHANGED vars \/ \E u \in User : RemoveMember(u)
  <2>1. UNCHANGED <<row, req>>
    BY <1>2 DEF CloseProject, RemoveMember, vars
  <2> QED BY <2>1 DEF PlaceInv, Alone, DistinctPositions, Placed, Behind, Found
<1>3. ASSUME NEW r \in Req, Finish(r) PROVE PlaceInv'
  BY <1>3, WritePlace, FailPlace, CommitPlace DEF Finish, ReloadFails
<1>4. ASSUME NEW r \in Req, Begin(r) \/ Read(r) \/ Flush(r) \/ Abort(r) PROVE PlaceInv'
  BY <1>4, BeginPlace, ReadPlace, WritePlace, FailPlace DEF Abort
<1> QED BY <1>1, <1>2, <1>3, <1>4 DEF Next

\* Without overlapping requests and positions of the clients' choice, two cards of a
\* column never stand at the same place, whatever is created, moved, edited and deleted.
THEOREM AloneDistinctPositions == Spec => [](Alone => DistinctPositions)
<1>1. Spec => []PlaceInv
  BY PlaceInit, PlaceNext, SpecInv, PTL DEF Spec
<1>2. PlaceInv => (Alone => DistinctPositions)
  BY DEF PlaceInv
<1> QED BY <1>1, <1>2, PTL

=============================================================================
