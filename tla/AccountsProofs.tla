--------------------------- MODULE AccountsProofs ---------------------------
(***************************************************************************)
(* What the accounts module guarantees for every number of accounts,       *)
(* e-mails and concurrent requests.  The invariant says what a request     *)
(* knows at each of its statements, that a row has one writer and a new    *)
(* row is nobody else's, and who holds which e-mail: two requests never    *)
(* have an unsettled entry of one e-mail, and whoever is about to commit   *)
(* an e-mail finds no other account with it.                               *)
(***************************************************************************)
EXTENDS Accounts, TLAPS

UpdateBody ==
    [{"email"} -> Email] \cup [{"active"} -> BOOLEAN] \cup [email : Email, active : BOOLEAN]

\* The statements each kind of request goes through.
Route(q) ==
    /\ q.op = "none" => q = Idle
    /\ q.op \in {"seed", "register"} => q.pc \in {"find", "index", "commit"}
    /\ q.op = "create" => q.pc \in {"auth", "find", "index", "commit"}
    /\ q.op = "update" => q.pc \in {"auth", "load", "find", "flush", "index", "commit"}
    /\ q.op \in {"role", "delete"} => q.pc \in {"auth", "load", "flush", "commit"}

\* What a request was given.
Given(q) ==
    /\ q.op # "none" => q.user \in User
    /\ q.pc = "auth" => q.actor \in User
    /\ q.op \in Inserts => q.body \in Row /\ ~q.body.deleted
    /\ q.op = "register" => q.body.role = "employee"
    /\ q.op = "update" => q.body \in UpdateBody
    /\ q.op = "update" /\ q.pc = "find" => "email" \in DOMAIN q.body
    /\ q.op = "role" => q.body \in [{"role"} -> Role]
    /\ q.op = "delete" => q.body \in [{"deleted"} -> {TRUE}]

\* The actor's rights, once authenticated.
Powers(q) ==
    q.op \in {"create", "role", "delete"} /\ q.pc # "auth" => q.admin

\* What is known of the account's row, and whether it is locked.
OnRow(q) ==
    /\ q.op \in Inserts => account[q.user] = Unset /\ ~q.locked
    /\ q.op \in {"update", "role", "delete"} => account[q.user] # Unset
    /\ q.op \in {"update", "role", "delete"} /\ q.pc \in {"find", "flush", "index", "commit"} =>
         q.base # Unset
    /\ q.pc \notin {"index", "commit"} => ~q.locked
    /\ q.pc = "index" /\ q.op = "update" => q.locked /\ "email" \in Dirty(q)

Gone(u) == account[u] # Unset /\ account[u].deleted

\* A request that came too late gets no further than the lookup that fails.
Late(q) ==
    q.barred =>
        \/ q.pc = "auth" /\ (Gone(q.actor) \/ Gone(q.user))
        \/ q.pc = "load" /\ Gone(q.user)

\* No other account has the e-mail that request q is about to commit.
Cleared(q) ==
    q.pc = "commit" /\ Writes(q) /\ ~Written(q).deleted => Clash(q) = {}

CallOK(q) ==
    /\ q \in Request /\ Route(q) /\ Given(q) /\ Powers(q)
    /\ OnRow(q) /\ Late(q) /\ Cleared(q)

Apart(q1, q2) ==
    /\ q1.op \in Inserts => q2.user # q1.user
    /\ q1.locked /\ q2.locked => q2.user # q1.user
    /\ \A e \in Email : ~(Unsettled(q1, e) /\ Unsettled(q2, e))

AllApart == \A r1, r2 \in Req : r1 # r2 => Apart(req[r1], req[r2])

IInv ==
    /\ TypeOK /\ OneAccountPerEmail
    /\ \A r \in Req : CallOK(req[r])
    /\ AllApart

-----------------------------------------------------------------------------
(* Rows and bodies *)

\* A function on the columns is a row when each column has its type.
LEMMA RowOfColumns ==
    ASSUME NEW f, f = [c \in Column |-> f[c]],
           f["email"] \in Email, f["role"] \in Role,
           f["active"] \in BOOLEAN, f["deleted"] \in BOOLEAN
    PROVE  f \in Row
BY DEF Column, Row

LEMMA RowColumns ==
    ASSUME NEW row \in Row
    PROVE  /\ row["email"] \in Email /\ row["role"] \in Role
           /\ row["active"] \in BOOLEAN /\ row["deleted"] \in BOOLEAN
           /\ DOMAIN row = Column
BY DEF Column, Row

\* What a body sets is of its column's type.
LEMMA BodyColumns ==
    ASSUME NEW q, q \in Request, Given(q), q.op # "none", NEW c \in DOMAIN q.body
    PROVE  /\ c \in Column
           /\ c = "email" => q.body[c] \in Email
           /\ c = "role" => q.body[c] \in Role
           /\ c = "active" => q.body[c] \in BOOLEAN
           /\ c = "deleted" => q.body[c] \in BOOLEAN
<1>1. CASE q.op \in Inserts
  BY <1>1, RowColumns DEF Given
<1>2. CASE q.op = "update"
  <2>1. CASE q.body \in [{"email"} -> Email]
    BY <2>1 DEF Column
  <2>2. CASE q.body \in [{"active"} -> BOOLEAN]
    BY <2>2 DEF Column
  <2>3. CASE q.body \in [email : Email, active : BOOLEAN]
    BY <2>3 DEF Column
  <2> QED BY <1>2, <2>1, <2>2, <2>3 DEF Given, UpdateBody
<1>3. CASE q.op = "role"
  BY <1>3 DEF Given, Column
<1>4. CASE q.op = "delete"
  BY <1>4 DEF Given, Column
<1> QED BY <1>1, <1>2, <1>3, <1>4 DEF Request, Op, Inserts

LEMMA OnlyUpdatesRename ==
    ASSUME NEW q, Given(q), q.op \in {"update", "role", "delete"}, "email" \in DOMAIN q.body
    PROVE  q.op = "update"
<1>1. q.op # "role"
  BY DEF Given
<1>2. q.op # "delete"
  <2>1. q.op = "delete" => DOMAIN q.body = {"deleted"}
    BY DEF Given
  <2> QED BY <2>1
<1> QED BY <1>1, <1>2

\* What an UPDATE leaves in the row it changes.
Merged(q, row) == [c \in Column |-> IF c \in Dirty(q) THEN q.body[c] ELSE row[c]]

LEMMA MergedTyped ==
    ASSUME NEW q, q \in Request, Given(q), q.op # "none", NEW row \in Row
    PROVE  Merged(q, row) \in Row
<1> DEFINE f == Merged(q, row)
<1>1. \A c \in Dirty(q) : c \in DOMAIN q.body
  BY DEF Dirty
<1>2. f = [c \in Column |-> f[c]]
  BY DEF Merged
<1>3. \A c \in Column : f[c] = IF c \in Dirty(q) THEN q.body[c] ELSE row[c]
  BY DEF Merged
<1>4. "email" \in Column /\ "role" \in Column /\ "active" \in Column /\ "deleted" \in Column
  BY DEF Column
<1>5. /\ row["email"] \in Email /\ row["role"] \in Role
      /\ row["active"] \in BOOLEAN /\ row["deleted"] \in BOOLEAN
  BY RowColumns
<1>6. f["email"] \in Email
  BY <1>1, <1>3, <1>4, <1>5, BodyColumns
<1>7. f["role"] \in Role
  BY <1>1, <1>3, <1>4, <1>5, BodyColumns
<1>8. f["active"] \in BOOLEAN
  BY <1>1, <1>3, <1>4, <1>5, BodyColumns
<1>9. f["deleted"] \in BOOLEAN
  BY <1>1, <1>3, <1>4, <1>5, BodyColumns
<1> HIDE DEF f
<1>10. f \in Row
  BY <1>2, <1>6, <1>7, <1>8, <1>9, RowOfColumns
<1> QED BY <1>10 DEF f

\* A soft deletion is set and never cleared.
LEMMA DeletedStays ==
    ASSUME NEW q, q \in Request, Given(q), q.op \in {"update", "role", "delete"},
           NEW row \in Row, row.deleted
    PROVE  Merged(q, row).deleted
<1>1. "deleted" \in DOMAIN q.body => q.op = "delete"
  <2>1. CASE q.op = "update"
    <3>1. CASE q.body \in [{"email"} -> Email]
      BY <3>1
    <3>2. CASE q.body \in [{"active"} -> BOOLEAN]
      BY <3>2
    <3>3. CASE q.body \in [email : Email, active : BOOLEAN]
      BY <3>3
    <3> QED BY <2>1, <3>1, <3>2, <3>3 DEF Given, UpdateBody
  <2>2. CASE q.op = "role"
    BY <2>2 DEF Given
  <2> QED BY <2>1, <2>2
<1>2. "deleted" \in DOMAIN q.body => q.body["deleted"] = TRUE
  BY <1>1 DEF Given
<1> QED BY <1>2 DEF Merged, Dirty, Column

LEMMA WrittenTyped ==
    ASSUME TypeOK, NEW q, CallOK(q), q.op # "none"
    PROVE  /\ Written(q) \in Row
           /\ q.op \notin Inserts => Written(q) = Merged(q, account[q.user])
           /\ q.op \in Inserts => Written(q) = q.body
<1>1. q \in Request /\ Given(q) /\ q.user \in User
  BY DEF CallOK, Given
<1>2. CASE q.op \in Inserts
  BY <1>2 DEF CallOK, Given, Written
<1>3. CASE q.op \notin Inserts
  <2>1. account[q.user] \in Row
    BY <1>1, <1>3 DEF TypeOK, CallOK, OnRow, Request, Op, Inserts
  <2>2. Written(q) = Merged(q, account[q.user])
    BY <1>3 DEF Written, Merged
  <2> QED BY <1>1, <1>3, <2>1, <2>2, MergedTyped
<1> QED BY <1>2, <1>3

-----------------------------------------------------------------------------
(* Steps that leave the table alone *)

LEMMA IdleOK == CallOK(Idle) /\ \A e \in Email : ~Unsettled(Idle, e)
<1>1. NoBody \in [{"deleted"} -> {TRUE}]
  BY DEF NoBody
<1>2. Idle \in Request
  BY <1>1 DEF Idle, Request, Stage, Op, Body
<1>3. Route(Idle) /\ Given(Idle) /\ Powers(Idle) /\ OnRow(Idle) /\ Late(Idle)
  BY DEF Idle, Route, Given, Powers, OnRow, Late, Inserts
<1>4. Cleared(Idle) /\ \A e \in Email : ~Unsettled(Idle, e)
  BY DEF Idle, Cleared, Unsettled
<1> QED BY <1>2, <1>3, <1>4 DEF CallOK

LEMMA InitInv == Init => IInv
<1> SUFFICES ASSUME Init PROVE IInv
  OBVIOUS
<1>1. \A r \in Req : req[r] = Idle
  BY DEF Init
<1>2. TypeOK
  BY IdleOK DEF Init, TypeOK, CallOK
<1>3. OneAccountPerEmail
  BY DEF Init, OneAccountPerEmail, Found, Stored
<1>4. Apart(Idle, Idle)
  <2>1. Idle.op \notin Inserts /\ ~Idle.locked
    BY DEF Idle, Inserts
  <2> QED BY <2>1, IdleOK DEF Apart
<1>5. AllApart
  BY <1>1, <1>4 DEF AllApart
<1> QED BY <1>1, <1>2, <1>3, <1>5, IdleOK DEF IInv

LEMMA QuietStep ==
    ASSUME IInv, NEW r \in Req, NEW call, CallOK(call),
           \A o \in Req \ {r} : Apart(call, req[o]) /\ Apart(req[o], call),
           Becomes(r, call)
    PROVE  IInv'
<1> USE DEF Becomes
<1>1. TypeOK'
  BY DEF IInv, TypeOK, CallOK
<1>2. OneAccountPerEmail'
  BY DEF IInv, OneAccountPerEmail, Found, Stored
<1>3. \A o \in Req : CallOK(req'[o])
  BY DEF IInv, TypeOK
<1>4. \A o \in Req : CallOK(req[o])'
  <2> SUFFICES ASSUME NEW o \in Req PROVE CallOK(req[o])'
    OBVIOUS
  <2>1. CallOK(req'[o])
    BY <1>3
  <2>2. (req[o] \in Request /\ Route(req[o]) /\ Given(req[o]) /\ Powers(req[o]))'
    BY <2>1 DEF CallOK, Route, Given, Powers
  <2>3. OnRow(req[o])'
    BY <2>1 DEF CallOK, OnRow, Dirty
  <2>4. Late(req[o])'
    BY <2>1 DEF CallOK, Late, Gone
  <2>5. Cleared(req[o])'
    BY <2>1 DEF CallOK, Cleared, Writes, Written, Clash, Found, Stored, Dirty
  <2> QED BY <2>2, <2>3, <2>4, <2>5 DEF CallOK
<1>5. \A r1, r2 \in Req : r1 # r2 => Apart(req'[r1], req'[r2])
  BY DEF IInv, TypeOK, AllApart
<1>6. AllApart'
  BY <1>5 DEF AllApart, Apart, Unsettled, Written, Found, Stored, Dirty
<1> QED BY <1>1, <1>2, <1>4, <1>6 DEF IInv

\* The same for a statement that adds to nothing a request holds.
LEMMA QuietCall ==
    ASSUME IInv, NEW r \in Req, NEW call, CallOK(call),
           call.op = req[r].op, call.user = req[r].user, call.locked = req[r].locked,
           call.pc = "commit" => call.op \notin Inserts /\ ~call.locked,
           Becomes(r, call)
    PROVE  IInv'
<1>1. \A e \in Email : Unsettled(call, e) => Unsettled(req[r], e)
  BY DEF Unsettled
<1>2. \A o \in Req \ {r} : Apart(call, req[o]) /\ Apart(req[o], call)
  BY <1>1 DEF IInv, AllApart, Apart
<1> QED BY <1>2, QuietStep

LEMMA FailInv ==
    ASSUME IInv, NEW r \in Req, Fail(r)
    PROVE  IInv'
<1>1. ASSUME NEW o \in Req \ {r} PROVE Apart(Idle, req[o]) /\ Apart(req[o], Idle)
  <2>1. Idle.op \notin Inserts /\ ~Idle.locked /\ Idle.user = Unset
    BY DEF Idle, Inserts
  <2>2. req[o].op \in Inserts => req[o].user # Unset
    BY ConstantsAssumption DEF IInv, CallOK, Given, Inserts
  <2> QED BY <2>1, <2>2, IdleOK DEF Apart
<1> QED BY <1>1, IdleOK, QuietStep DEF Fail

\* A request arrives holding nothing.
LEMMA NewCall ==
    ASSUME IInv, NEW r \in Req, NEW call, CallOK(call),
           call.pc # "commit", ~call.locked,
           IF call.op \in Inserts THEN \A o \in Req : req[o].user # call.user
                                  ELSE account[call.user] # Unset,
           Becomes(r, call)
    PROVE  IInv'
<1>1. \A e \in Email : ~Unsettled(call, e)
  BY DEF Unsettled
<1>2. ASSUME NEW o \in Req \ {r} PROVE Apart(call, req[o]) /\ Apart(req[o], call)
  <2>1. req[o].op \in Inserts => account[req[o].user] = Unset
    BY DEF IInv, CallOK, OnRow
  <2> QED BY <1>1, <2>1 DEF Apart
<1> QED BY <1>2, QuietStep

-----------------------------------------------------------------------------
(* Requests arrive *)

\* The records the requests arrive as.
Insertion(op, u, row) == [Idle EXCEPT !.op = op, !.pc = "find", !.user = u, !.body = row]

AskedInsertion(u, actor, row) ==
    [Idle EXCEPT !.op = "create", !.pc = "auth", !.user = u, !.actor = actor, !.body = row]

Change(op, u, actor, body) ==
    [Idle EXCEPT !.op = op, !.pc = "auth", !.user = u, !.actor = actor, !.body = body]

LEMMA InsertionInv ==
    ASSUME IInv, NEW r \in Req, NEW u \in User, Fresh(u), NEW row \in Row, ~row.deleted,
           NEW op \in {"seed", "register"}, op = "register" => row.role = "employee",
           Arrive(r, Insertion(op, u, row))
    PROVE  IInv'
<1>1. PICK call : call = Insertion(op, u, row)
  OBVIOUS
<1>2. account[u] = Unset /\ \A o \in Req : req[o].user # u
  BY DEF Fresh, Stored
<1>3. call.actor = Unset /\ call.user = u /\ call.barred = FALSE
  BY <1>1 DEF Insertion, Idle
<1>4. ~\E v \in {call.actor, call.user} \ {Unset} : Stored(v) /\ account[v].deleted
  BY <1>2, <1>3 DEF Stored
<1>5. call.op = op /\ call.pc = "find" /\ call.body = row /\ ~call.locked
  BY <1>1 DEF Insertion, Idle
<1>6. call \in Request
  BY <1>1, IdleOK DEF Insertion, CallOK, Request, Stage, Op, Body
<1>7. [call EXCEPT !.barred = FALSE] = call
  BY <1>3, <1>6 DEF Request
<1>8. Becomes(r, call)
  BY <1>1, <1>4, <1>7 DEF Arrive
<1>9. CallOK(call)
  BY <1>2, <1>3, <1>5, <1>6
     DEF CallOK, Route, Given, Powers, OnRow, Late, Cleared, Inserts
<1> QED BY <1>2, <1>3, <1>5, <1>8, <1>9, NewCall DEF Inserts

LEMMA AskedInsertionInv ==
    ASSUME IInv, NEW r \in Req, NEW u \in User, Fresh(u), NEW actor \in User,
           NEW row \in Row, ~row.deleted,
           Arrive(r, AskedInsertion(u, actor, row))
    PROVE  IInv'
<1>1. account[u] = Unset /\ \A o \in Req : req[o].user # u
  BY DEF Fresh, Stored
<1>2. PICK barred \in BOOLEAN :
        /\ barred <=> \E v \in {actor, u} \ {Unset} : Stored(v) /\ account[v].deleted
        /\ Becomes(r, [AskedInsertion(u, actor, row) EXCEPT !.barred = barred])
  BY DEF Arrive, AskedInsertion, Idle
<1>3. barred => Gone(actor)
  BY <1>1, <1>2 DEF Gone, Stored
<1>4. PICK call : call = [AskedInsertion(u, actor, row) EXCEPT !.barred = barred]
  OBVIOUS
<1>5. /\ call.op = "create" /\ call.pc = "auth" /\ call.user = u /\ call.actor = actor
      /\ call.body = row /\ ~call.locked /\ call.barred = barred
  BY <1>4 DEF AskedInsertion, Idle
<1>6. call \in Request
  BY <1>4, IdleOK DEF AskedInsertion, CallOK, Request, Stage, Op, Body
<1>7. CallOK(call)
  BY <1>1, <1>3, <1>5, <1>6
     DEF CallOK, Route, Given, Powers, OnRow, Late, Cleared, Inserts
<1> QED BY <1>1, <1>2, <1>4, <1>5, <1>7, NewCall DEF Inserts

LEMMA ChangeInv ==
    ASSUME IInv, NEW r \in Req, NEW op \in {"update", "role", "delete"}, NEW bodies,
           \A body \in bodies : body \in Body,
           op = "update" => bodies = UpdateBody,
           op = "role" => bodies = [{"role"} -> Role],
           op = "delete" => bodies = [{"deleted"} -> {TRUE}],
           BeginChange(r, op, bodies)
    PROVE  IInv'
<1>1. PICK u \in User, actor \in User, body \in bodies :
        /\ Stored(u) /\ Stored(actor)
        /\ Arrive(r, Change(op, u, actor, body))
  BY DEF BeginChange, Change, Idle
<1>2. PICK barred \in BOOLEAN :
        /\ barred <=> \E v \in {actor, u} \ {Unset} : Stored(v) /\ account[v].deleted
        /\ Becomes(r, [Change(op, u, actor, body) EXCEPT !.barred = barred])
  BY <1>1 DEF Arrive, Change, Idle
<1>3. barred => Gone(actor) \/ Gone(u)
  BY <1>2 DEF Gone, Stored
<1>4. PICK call : call = [Change(op, u, actor, body) EXCEPT !.barred = barred]
  OBVIOUS
<1>5. /\ call.op = op /\ call.pc = "auth" /\ call.user = u /\ call.actor = actor
      /\ call.body = body /\ ~call.locked /\ call.barred = barred
  BY <1>4 DEF Change, Idle
<1>6. call \in Request
  BY <1>4, IdleOK DEF Change, CallOK, Request, Stage, Op
<1>7. CallOK(call)
  BY <1>1, <1>3, <1>5, <1>6
     DEF CallOK, Route, Given, Powers, OnRow, Late, Cleared, Inserts, Stored
<1> QED BY <1>1, <1>2, <1>4, <1>5, <1>7, NewCall DEF Inserts, Stored

LEMMA BeginInv ==
    ASSUME IInv, NEW r \in Req, Begin(r)
    PROVE  IInv'
<1>1. \A e \in Email, role \in Role :
        NewRow(e, role) \in Row /\ ~NewRow(e, role).deleted /\ NewRow(e, role).role = role
  BY DEF NewRow, Row
<1>2. "employee" \in Role /\ "admin" \in Role /\ SeedEmail \in Email
  BY ConstantsAssumption DEF Role
<1>3. CASE BeginRegister(r)
  <2>1. PICK u \in User, e \in Email :
          Fresh(u) /\ Arrive(r, Insertion("register", u, NewRow(e, "employee")))
    BY <1>3 DEF BeginRegister, Insertion
  <2> QED BY <1>1, <1>2, <2>1, InsertionInv
<1>4. CASE BeginSeed(r)
  <2>1. PICK u \in User :
          Fresh(u) /\ Arrive(r, Insertion("seed", u, NewRow(SeedEmail, "admin")))
    BY <1>4 DEF BeginSeed, Insertion
  <2> QED BY <1>1, <1>2, <2>1, InsertionInv
<1>5. CASE BeginCreate(r)
  <2>1. PICK u \in User, actor \in User, e \in Email, role \in Role :
          Fresh(u) /\ Arrive(r, AskedInsertion(u, actor, NewRow(e, role)))
    BY <1>5 DEF BeginCreate, AskedInsertion, Idle
  <2> QED BY <1>1, <2>1, AskedInsertionInv
<1>6. CASE BeginUpdate(r)
  <2>1. BeginChange(r, "update", UpdateBody)
    BY <1>6 DEF BeginUpdate, UpdateBody
  <2>2. \A body \in UpdateBody : body \in Body
    BY DEF UpdateBody, Body
  <2> QED BY <2>1, <2>2, ChangeInv
<1>7. CASE BeginRole(r)
  <2>1. \A body \in [{"role"} -> Role] : body \in Body
    BY DEF Body
  <2> QED BY <1>7, <2>1, ChangeInv DEF BeginRole
<1>8. CASE BeginDelete(r)
  <2>1. \A body \in [{"deleted"} -> {TRUE}] : body \in Body
    BY DEF Body
  <2> QED BY <1>8, <2>1, ChangeInv DEF BeginDelete
<1> QED BY <1>3, <1>4, <1>5, <1>6, <1>7, <1>8 DEF Begin

-----------------------------------------------------------------------------
(* Statements that read *)

LEMMA AuthenticateInv ==
    ASSUME IInv, NEW r \in Req, Authenticate(r)
    PROVE  IInv'
<1>1. PICK q : q = req[r]
  OBVIOUS
<1>2. CallOK(q) /\ q \in Request /\ q.pc = "auth"
  BY <1>1 DEF IInv, CallOK, Authenticate
<1>3. CASE Fail(r)
  BY <1>3, FailInv
<1>4. CASE ~Fail(r)
  <2> DEFINE row == account[q.actor]
             call == [q EXCEPT !.actor = Unset, !.admin = row.role = "admin",
                               !.base = IF q.user = q.actor THEN row ELSE Unset,
                               !.pc = IF q.op = "create" THEN "find" ELSE "load"]
  <2>1. Found(q.actor) /\ Allowed(q, row.role) /\ Becomes(r, call)
    BY <1>1, <1>4 DEF Authenticate
  <2>2. q.op \in {"create", "update", "role", "delete"} /\ q.actor \in User
    BY <1>2 DEF CallOK, Route, Given, Request, Op, Idle
  <2>3. row \in Row /\ ~row.deleted
    BY <2>1, <2>2 DEF IInv, TypeOK, Found, Stored
  <2>4. call \in Request
    BY <1>2, <2>3 DEF Request, Stage
  <2>5. Route(call) /\ Given(call)
    BY <1>2, <2>2 DEF CallOK, Request, Route, Given, Inserts
  <2>6. Powers(call)
    BY <1>2, <2>1, <2>2 DEF Request, Powers, Allowed
  <2>7. OnRow(call) /\ Cleared(call)
    BY <1>2, <2>2 DEF CallOK, Request, OnRow, Inserts, Cleared
  <2>8. Late(call)
    <3>1. q.barred => Gone(q.user)
      BY <1>2, <2>1 DEF CallOK, Late, Gone, Found
    <3>2. q.op = "create" => ~Gone(q.user)
      BY <1>2 DEF CallOK, OnRow, Inserts, Gone
    <3> QED BY <1>2, <3>1, <3>2 DEF Request, Late
  <2>9. CallOK(call)
    BY <2>4, <2>5, <2>6, <2>7, <2>8 DEF CallOK
  <2>10. /\ call.op = q.op /\ call.user = q.user /\ call.locked = q.locked
         /\ call.pc # "commit"
    BY <1>2 DEF Request
  <2> HIDE DEF call
  <2> QED BY <1>1, <2>1, <2>9, <2>10, QuietCall
<1> QED BY <1>3, <1>4

LEMMA LoadInv ==
    ASSUME IInv, NEW r \in Req, Load(r)
    PROVE  IInv'
<1>1. PICK q : q = req[r]
  OBVIOUS
<1>2. CallOK(q) /\ q \in Request /\ q.pc = "load"
  BY <1>1 DEF IInv, CallOK, Load
<1>3. CASE Fail(r)
  BY <1>3, FailInv
<1>4. CASE ~Fail(r)
  <2> DEFINE base == IF q.base # Unset THEN q.base ELSE account[q.user]
             renames == "email" \in DOMAIN q.body /\ q.body.email # base.email
             call == [q EXCEPT !.base = base, !.pc = IF renames THEN "find" ELSE "flush"]
  <2>1. Found(q.user) /\ Becomes(r, call)
    BY <1>1, <1>4 DEF Load
  <2>2. q.op \in {"update", "role", "delete"} /\ q.user \in User
    BY <1>2 DEF CallOK, Route, Given, Request, Op, Idle
  <2>3. base \in Row /\ base # Unset
    BY <1>2, <2>1, <2>2, RowsAssumption DEF IInv, TypeOK, Found, Stored, Request
  <2>4. renames => q.op = "update"
    BY <1>2, <2>2, OnlyUpdatesRename DEF CallOK
  <2>5. call \in Request
    BY <1>2, <2>3 DEF Request, Stage
  <2>6. Route(call) /\ Given(call) /\ Powers(call)
    BY <1>2, <2>2, <2>4 DEF CallOK, Request, Route, Given, Powers, Inserts
  <2>7. OnRow(call) /\ Cleared(call)
    BY <1>2, <2>2, <2>3 DEF CallOK, Request, OnRow, Inserts, Cleared
  <2>8. Late(call)
    BY <1>2, <2>1 DEF CallOK, Request, Late, Gone, Found
  <2>9. CallOK(call)
    BY <2>5, <2>6, <2>7, <2>8 DEF CallOK
  <2>10. /\ call.op = q.op /\ call.user = q.user /\ call.locked = q.locked
         /\ call.pc # "commit"
    BY <1>2 DEF Request
  <2> HIDE DEF call
  <2> QED BY <1>1, <2>1, <2>9, <2>10, QuietCall
<1> QED BY <1>3, <1>4

LEMMA FindInv ==
    ASSUME IInv, NEW r \in Req, Find(r)
    PROVE  IInv'
<1>1. PICK q : q = req[r]
  OBVIOUS
<1>2. CallOK(q) /\ q \in Request /\ q.pc = "find"
  BY <1>1 DEF IInv, CallOK, Find
<1>3. CASE Fail(r)
  BY <1>3, FailInv
<1>4. CASE ~Fail(r)
  <2> DEFINE call == [q EXCEPT !.pc = IF q.op \in Inserts THEN "index" ELSE "flush"]
  <2>1. Becomes(r, call)
    BY <1>1, <1>4 DEF Find
  <2>2. q.op \in Inserts \cup {"update"}
    BY <1>2 DEF CallOK, Route, Request, Op, Idle, Inserts
  <2>3. call \in Request
    BY <1>2 DEF Request, Stage
  <2>4. Route(call) /\ Given(call) /\ Powers(call)
    BY <1>2, <2>2 DEF CallOK, Request, Route, Given, Powers, Inserts
  <2>5. OnRow(call) /\ Cleared(call)
    BY <1>2, <2>2 DEF CallOK, Request, OnRow, Inserts, Cleared
  <2>6. Late(call)
    BY <1>2 DEF CallOK, Request, Late
  <2>7. CallOK(call)
    BY <2>3, <2>4, <2>5, <2>6 DEF CallOK
  <2>8. /\ call.op = q.op /\ call.user = q.user /\ call.locked = q.locked
        /\ call.pc # "commit"
    BY <1>2 DEF Request
  <2> HIDE DEF call
  <2> QED BY <1>1, <2>1, <2>7, <2>8, QuietCall
<1> QED BY <1>3, <1>4

-----------------------------------------------------------------------------
(* Statements that write *)

\* What a request that gets the lock of a row may have unsettled is the e-mail
\* the row has.
LEMMA LockedEmail ==
    ASSUME IInv, NEW q, CallOK(q), q.op \in {"update", "role", "delete"},
           NEW call \in Request, call.op = q.op, call.user = q.user, call.body = q.body,
           call.base = q.base, call.pc = "commit" => "email" \notin Dirty(q),
           NEW e \in Email, Unsettled(call, e)
    PROVE  Found(q.user) /\ account[q.user].email = e
<1>1. q \in Request /\ Given(q) /\ q.user \in User /\ q.op # "none" /\ q.op \notin Inserts
  BY DEF CallOK, Given, Inserts
<1>2. account[q.user] \in Row
  BY <1>1 DEF IInv, TypeOK, CallOK, OnRow
<1>3. CASE call.locked /\ Found(call.user) /\ account[call.user].email = e
  BY <1>3
<1>4. CASE call.pc = "commit" /\ ~Written(call).deleted /\ Written(call).email = e
  <2>1. Written(call) = Written(q)
    BY DEF Written, Dirty
  <2>2. Written(q) = Merged(q, account[q.user])
    BY <1>1, WrittenTyped DEF IInv
  <2>3. ~account[q.user].deleted
    BY <1>1, <1>2, <1>4, <2>1, <2>2, DeletedStays
  <2>4. Written(q)["email"] = account[q.user]["email"]
    BY <1>4, <2>2 DEF Merged, Column
  <2> QED BY <1>4, <2>1, <2>3, <2>4, RowsAssumption, <1>2 DEF Found, Stored
<1> QED BY <1>3, <1>4 DEF Unsettled

LEMMA FlushInv ==
    ASSUME IInv, NEW r \in Req, Flush(r)
    PROVE  IInv'
<1>1. PICK q : q = req[r]
  OBVIOUS
<1>2. CallOK(q) /\ q \in Request /\ q.pc = "flush" /\ ~q.locked
  BY <1>1 DEF IInv, CallOK, Flush, OnRow
<1>3. q.op \in {"update", "role", "delete"} /\ q.user \in User
  BY <1>2 DEF CallOK, Route, Given, Request, Op, Idle
<1>4. ~q.barred
  BY <1>2 DEF CallOK, Late
<1>5. CASE Becomes(r, [q EXCEPT !.pc = "commit"])
  <2>1. PICK call : call = [q EXCEPT !.pc = "commit"]
    OBVIOUS
  <2>2. /\ call.op = q.op /\ call.user = q.user /\ call.locked = q.locked
        /\ call \in Request
    BY <1>2, <2>1 DEF Request, Stage
  <2>3. CallOK(call)
    BY <1>2, <1>3, <1>4, <2>1
       DEF CallOK, Request, Stage, Route, Given, Powers, OnRow, Late, Cleared, Writes, Inserts
  <2> QED BY <1>1, <1>2, <1>3, <1>5, <2>1, <2>2, <2>3, QuietCall DEF Inserts
<1>6. ASSUME Dirty(q) # {}, ~Locked(q.user, r),
             Becomes(r, [q EXCEPT !.locked = TRUE,
                                  !.pc = IF "email" \in Dirty(q) THEN "index" ELSE "commit"])
      PROVE  IInv'
  <2>1. PICK call : call = [q EXCEPT !.locked = TRUE,
                              !.pc = IF "email" \in Dirty(q) THEN "index" ELSE "commit"]
    OBVIOUS
  <2>2. /\ call \in Request /\ call.op = q.op /\ call.user = q.user /\ call.body = q.body
        /\ call.base = q.base /\ call.locked /\ call.barred = q.barred
        /\ call.admin = q.admin
        /\ call.pc = IF "email" \in Dirty(q) THEN "index" ELSE "commit"
    BY <1>2, <2>1 DEF Request, Stage
  <2>3. "email" \in Dirty(q) => q.op = "update"
    BY <1>2, <1>3, OnlyUpdatesRename DEF CallOK, Dirty
  <2>4. Dirty(call) = Dirty(q)
    BY <2>2 DEF Dirty
  <2>5. Route(call) /\ Given(call) /\ Powers(call) /\ OnRow(call) /\ Late(call)
    BY <1>2, <1>3, <1>4, <2>2, <2>3, <2>4
       DEF CallOK, Route, Given, Powers, OnRow, Late, Inserts
  <2>6. \A e \in Email : Unsettled(call, e) => Found(q.user) /\ account[q.user].email = e
    BY <1>2, <1>3, <2>2, LockedEmail
  <2>7. Cleared(call)
    <3> SUFFICES ASSUME call.pc = "commit", ~Written(call).deleted PROVE Clash(call) = {}
      BY DEF Cleared
    <3>1. Written(call) = Written(q) /\ Written(q) \in Row
      BY <1>2, <1>3, <2>2, <2>4, WrittenTyped DEF IInv, Written
    <3>2. Unsettled(call, Written(call).email) /\ Written(call).email \in Email
      BY <2>2, <3>1 DEF Unsettled, Row
    <3>3. Found(q.user) /\ account[q.user].email = Written(call).email
      BY <2>6, <3>2
    <3> QED BY <1>3, <2>2, <3>3 DEF IInv, OneAccountPerEmail, Clash
  <2>8. CallOK(call)
    BY <2>2, <2>5, <2>7 DEF CallOK
  <2>9. ASSUME NEW o \in Req \ {r} PROVE Apart(call, req[o]) /\ Apart(req[o], call)
    <3>1. CallOK(req[o])
      BY DEF IInv
    <3>2. ~(req[o].user = q.user /\ req[o].locked)
      BY <1>6 DEF Locked
    <3>3. req[o].op \in Inserts => req[o].user # q.user
      BY <1>1 DEF IInv, AllApart, Apart
    <3>4. ASSUME NEW e \in Email, Unsettled(req[o], e), Unsettled(call, e) PROVE FALSE
      <4>1. Found(q.user) /\ account[q.user].email = e
        BY <2>6, <3>4
      <4>2. CASE req[o].locked /\ Found(req[o].user) /\ account[req[o].user].email = e
        <5>1. req[o].user \in User
          BY <3>1, ConstantsAssumption, <4>2 DEF CallOK, Given, Idle, Route
        <5> QED BY <1>3, <3>2, <4>1, <4>2, <5>1 DEF IInv, OneAccountPerEmail
      <4>3. CASE /\ req[o].pc = "commit" /\ Writes(req[o])
                 /\ ~Written(req[o]).deleted /\ Written(req[o]).email = e
        <5>1. Clash(req[o]) = {}
          BY <3>1, <4>3 DEF CallOK, Cleared
        <5>2. req[o].user = q.user
          BY <1>3, <4>1, <4>3, <5>1 DEF Clash
        <5> QED BY <3>2, <3>3, <4>3, <5>2 DEF Writes
      <4> QED BY <3>4, <4>2, <4>3 DEF Unsettled, Writes
    <3> QED BY <1>3, <2>2, <3>2, <3>3, <3>4 DEF Apart, Inserts
  <2> QED BY <1>6, <2>1, <2>8, <2>9, QuietStep
<1> QED BY <1>1, <1>5, <1>6 DEF Flush

LEMMA IndexInv ==
    ASSUME IInv, NEW r \in Req, Index(r)
    PROVE  IInv'
<1>1. PICK q : q = req[r]
  OBVIOUS
<1>2. CallOK(q) /\ q \in Request /\ q.pc = "index"
  BY <1>1 DEF IInv, CallOK, Index
<1>3. PICK call : call = [q EXCEPT !.pc = "commit"]
  OBVIOUS
<1>4. /\ Becomes(r, call)
      /\ ~Written(q).deleted =>
           /\ \A p \in Req \ {r} : ~Unsettled(req[p], Written(q).email)
           /\ Clash(q) = {}
  BY <1>1, <1>3 DEF Index
<1>5. q.op \in Inserts \cup {"update"} /\ ~q.barred
  BY <1>2 DEF CallOK, Route, Request, Op, Idle, Inserts, Late
<1>6. /\ call \in Request /\ call.op = q.op /\ call.user = q.user /\ call.body = q.body
      /\ call.base = q.base /\ call.locked = q.locked /\ call.barred = q.barred
      /\ call.admin = q.admin /\ call.pc = "commit"
  BY <1>2, <1>3 DEF Request, Stage
<1>7. Written(call) = Written(q) /\ Clash(call) = Clash(q)
  BY <1>6 DEF Written, Dirty, Clash
<1>8. Route(call) /\ Given(call) /\ Powers(call)
  BY <1>2, <1>5, <1>6 DEF CallOK, Route, Given, Powers, Inserts
<1>9. OnRow(call) /\ Late(call) /\ Cleared(call)
  BY <1>2, <1>4, <1>5, <1>6, <1>7 DEF CallOK, OnRow, Late, Cleared, Inserts
<1>10. CallOK(call)
  BY <1>6, <1>8, <1>9 DEF CallOK
<1>11. ASSUME NEW o \in Req \ {r} PROVE Apart(call, req[o]) /\ Apart(req[o], call)
  <2>1. Apart(q, req[o]) /\ Apart(req[o], q)
    BY <1>1 DEF IInv, AllApart
  <2>2. ASSUME NEW e \in Email, Unsettled(call, e) PROVE ~Unsettled(req[o], e)
    <3>1. CASE Unsettled(q, e)
      BY <2>1, <3>1 DEF Apart
    <3>2. CASE ~Written(q).deleted /\ Written(q).email = e
      BY <1>4, <3>2
    <3> QED BY <1>6, <1>7, <2>2, <3>1, <3>2 DEF Unsettled
  <2> QED BY <1>6, <2>1, <2>2 DEF Apart
<1> QED BY <1>4, <1>10, <1>11, QuietStep

LEMMA CommitInv ==
    ASSUME IInv, NEW r \in Req, Commit(r)
    PROVE  IInv'
<1>1. PICK q : q = req[r]
  OBVIOUS
<1>2. CallOK(q) /\ q \in Request /\ q.pc = "commit"
  BY <1>1 DEF IInv, CallOK, Commit
<1>3. q.op # "none" /\ q.user \in User
  BY <1>2 DEF CallOK, Route, Given, Idle
<1>4. CASE ~Writes(q)
  BY <1>1, <1>4, FailInv DEF Commit, Fail, Becomes
<1>5. CASE Writes(q)
  <2>1. PICK row \in Row : row = Written(q)
    BY <1>2, <1>3, WrittenTyped DEF IInv
  <2>2. account' = [account EXCEPT ![q.user] = row] /\ req' = [req EXCEPT ![r] = Idle]
    BY <1>1, <1>5, <2>1 DEF Commit
  <2>3. /\ account'[q.user] = row
        /\ \A u \in User : u # q.user => account'[u] = account[u]
        /\ req'[r] = Idle /\ \A o \in Req \ {r} : req'[o] = req[o]
    BY <1>3, <2>2 DEF IInv, TypeOK
  <2>4. row # Unset
    BY RowsAssumption
  <2>5. ASSUME Gone(q.user) PROVE row.deleted
    <3>1. q.op \in {"update", "role", "delete"}
      BY <1>2, <1>3, <2>5 DEF CallOK, OnRow, Gone, Request, Op, Inserts
    <3>2. row = Merged(q, account[q.user]) /\ account[q.user] \in Row
      BY <1>2, <1>3, <2>1, <2>5, <3>1, WrittenTyped DEF IInv, TypeOK, Gone, Inserts
    <3> QED BY <1>2, <2>5, <3>1, <3>2, DeletedStays DEF CallOK, Gone
  <2>6. ASSUME ~row.deleted
        PROVE  \A u \in User \ {q.user} : Found(u) => account[u].email # row.email
    BY <1>2, <1>5, <2>1, <2>6 DEF CallOK, Cleared, Clash
  <2>7. \A u \in User \ {q.user} : Found(u)' <=> Found(u)
    BY <2>3 DEF Found, Stored
  <2>8. Found(q.user)' <=> ~row.deleted
    BY <2>3, <2>4 DEF Found, Stored
  <2>9. TypeOK'
    BY <2>2, IdleOK DEF IInv, TypeOK, CallOK
  <2>10. OneAccountPerEmail'
    <3> SUFFICES ASSUME NEW u \in User, NEW v \in User, Found(u)', Found(v)',
                        account'[u].email = account'[v].email, u # v
                 PROVE  FALSE
      BY DEF OneAccountPerEmail
    <3>1. CASE u # q.user /\ v # q.user
      BY <2>3, <2>7, <3>1 DEF IInv, OneAccountPerEmail
    <3>2. CASE u = q.user
      BY <2>3, <2>6, <2>7, <2>8, <3>2
    <3>3. CASE v = q.user
      BY <2>3, <2>6, <2>7, <2>8, <3>3
    <3> QED BY <3>1, <3>2, <3>3
  <2>11. ASSUME NEW o \in Req \ {r}
         PROVE  /\ req[o].op \in Inserts => req[o].user # q.user
                /\ req[o].locked => req[o].user # q.user
    BY <1>1, <1>5 DEF IInv, AllApart, Apart, Writes
  <2>12. ASSUME NEW o \in Req \ {r}, Writes(req[o])
         PROVE  Written(req[o])' = Written(req[o]) /\ req[o].user \in User \ {q.user}
    <3>1. CallOK(req[o])
      BY DEF IInv
    <3>2. req[o].user \in User \ {q.user}
      BY <2>11, <2>12, <3>1 DEF Writes, CallOK, Given, Route, Idle, Inserts
    <3>3. account'[req[o].user] = account[req[o].user] /\ req'[o] = req[o]
      BY <2>3, <3>2
    <3>4. Dirty(req[o])' = Dirty(req[o])
      BY <3>3 DEF Dirty
    <3> QED BY <3>2, <3>3, <3>4 DEF Written
  <2>13. ASSUME NEW o \in Req \ {r}, NEW e \in Email, Unsettled(req[o], e)'
         PROVE  Unsettled(req[o], e)
    <3>1. req'[o] = req[o]
      BY <2>3
    <3>2. Writes(req[o])
      BY <2>13, <3>1 DEF Unsettled, Writes
    <3>3. req[o].user \in User \ {q.user} /\ Written(req[o])' = Written(req[o])
      BY <2>12, <3>2
    <3>4. account'[req[o].user] = account[req[o].user]
      BY <2>3, <3>3
    <3>5. Found(req[o].user)' <=> Found(req[o].user)
      BY <2>7, <3>1, <3>3
    <3> QED BY <2>13, <3>1, <3>3, <3>4, <3>5 DEF Unsettled
  <2>14. ASSUME NEW o \in Req \ {r} PROVE CallOK(req[o])'
    <3>1. CallOK(req[o]) /\ req'[o] = req[o]
      BY <2>3 DEF IInv
    <3>2. (req[o] \in Request /\ Route(req[o]) /\ Given(req[o]) /\ Powers(req[o]))'
      BY <3>1 DEF CallOK, Route, Given, Powers
    <3>3. req[o].op # "none" => req[o].user \in User
      BY <3>1 DEF CallOK, Given
    <3>4. OnRow(req[o])'
      BY <2>3, <2>4, <2>11, <3>1, <3>3 DEF CallOK, OnRow, Dirty, Inserts
    <3>5. \A u \in User : Gone(u) => Gone(u)'
      BY <2>3, <2>4, <2>5 DEF Gone
    <3>6. Late(req[o])'
      <4>1. req[o].barred => req[o].op # "none" /\ req[o].user \in User
        BY <3>1 DEF CallOK, Route, Given, Idle
      <4>2. req[o].pc = "auth" => req[o].actor \in User
        BY <3>1 DEF CallOK, Given
      <4> QED BY <3>1, <3>5, <4>1, <4>2 DEF CallOK, Late
    <3>7. Cleared(req[o])'
      <4> SUFFICES ASSUME req[o].pc = "commit", Writes(req[o]), ~Written(req[o])'.deleted
                   PROVE  Clash(req[o])' = {}
        BY <3>1 DEF Cleared, Writes
      <4>1. req[o].user \in User \ {q.user} /\ Written(req[o])' = Written(req[o])
        BY <2>12
      <4>2. Clash(req[o]) = {}
        BY <3>1, <4>1 DEF CallOK, Cleared
      <4>3. Written(req[o]) \in Row
        BY <3>1, WrittenTyped DEF IInv, CallOK, Route, Idle
      <4>4. ~(~row.deleted /\ row.email = Written(req[o]).email)
        <5>1. Unsettled(req[o], Written(req[o]).email)
          BY <4>1 DEF Unsettled, Writes
        <5>2. ~row.deleted => Unsettled(q, row.email)
          BY <1>2, <1>5, <2>1 DEF Unsettled, Writes
        <5>3. row.email \in Email
          BY DEF Row
        <5> QED BY <1>1, <5>1, <5>2, <5>3 DEF IInv, AllApart, Apart
      <4>5. ASSUME NEW u \in User \ {req[o].user}, Found(u)',
                   account'[u].email = Written(req[o]).email
            PROVE  FALSE
        <5>1. CASE u = q.user
          BY <2>3, <2>8, <4>4, <4>5, <5>1
        <5>2. CASE u # q.user
          BY <2>3, <2>7, <4>2, <4>5, <5>2 DEF Clash
        <5> QED BY <5>1, <5>2
      <4> QED BY <3>1, <4>1, <4>5 DEF Clash
    <3> QED BY <3>2, <3>4, <3>6, <3>7 DEF CallOK
  <2>15. CallOK(req[r])'
    <3>1. \A o \in Req : req'[o] = Idle => CallOK(req[o])'
      <4> SUFFICES ASSUME NEW o \in Req, req'[o] = Idle PROVE CallOK(req[o])'
        OBVIOUS
      <4>1. /\ Idle.op = "none" /\ Idle.pc = "idle" /\ ~Idle.locked /\ ~Idle.barred
            /\ Idle \in Request
        BY IdleOK DEF Idle, CallOK
      <4> QED BY <4>1
              DEF CallOK, Route, Given, Powers, OnRow, Late, Cleared, Inserts
    <3> QED BY <2>3, <3>1
  <2>16. AllApart'
    <3> SUFFICES ASSUME NEW r1 \in Req, NEW r2 \in Req, r1 # r2
                 PROVE  Apart(req[r1], req[r2])'
      BY DEF AllApart
    <3>1. /\ Idle.op = "none" /\ Idle.pc = "idle" /\ ~Idle.locked /\ Idle.user = Unset
      BY DEF Idle
    <3>2. CASE r1 # r /\ r2 # r
      <4>1. Apart(req[r1], req[r2])
        BY DEF IInv, AllApart
      <4> QED BY <2>3, <2>13, <3>2, <4>1 DEF Apart
    <3>3. CASE r1 = r
      BY <2>3, <3>1, <3>3 DEF Apart, Unsettled, Inserts
    <3>4. CASE r2 = r
      <4>1. req[r1].op \in Inserts => req[r1].user # Unset
        BY ConstantsAssumption DEF IInv, CallOK, Given, Inserts
      <4>2. req'[r2] = Idle /\ req'[r1] = req[r1]
        BY <2>3, <3>4
      <4> QED BY <3>1, <4>1, <4>2 DEF Apart, Unsettled, Inserts
    <3> QED BY <3>2, <3>3, <3>4
  <2> QED BY <2>9, <2>10, <2>14, <2>15, <2>16 DEF IInv
<1> QED BY <1>4, <1>5

LEMMA NextInv ==
    ASSUME IInv, [Next]_vars
    PROVE  IInv'
<1>1. CASE Next
  <2>1. PICK r \in Req : Begin(r) \/ Step(r) \/ Abort(r)
    BY <1>1 DEF Next
  <2> QED BY <2>1, BeginInv, AuthenticateInv, LoadInv, FindInv, FlushInv, IndexInv, CommitInv,
             FailInv DEF Step, Abort, Collide
<1>2. CASE UNCHANGED vars
  <2>1. account' = account /\ req' = req
    BY <1>2 DEF vars
  <2>2. TypeOK' /\ OneAccountPerEmail'
    BY <2>1 DEF IInv, TypeOK, OneAccountPerEmail, Found, Stored
  <2>3. ASSUME NEW o \in Req PROVE CallOK(req[o])'
    <3>1. CallOK(req[o])
      BY DEF IInv
    <3>2. (req[o] \in Request /\ Route(req[o]) /\ Given(req[o]) /\ Powers(req[o]))'
      BY <2>1, <3>1 DEF CallOK, Route, Given, Powers
    <3>3. OnRow(req[o])' /\ Late(req[o])'
      BY <2>1, <3>1 DEF CallOK, OnRow, Dirty, Late, Gone
    <3>4. Cleared(req[o])'
      BY <2>1, <3>1 DEF CallOK, Cleared, Writes, Written, Clash, Found, Stored, Dirty
    <3> QED BY <3>2, <3>3, <3>4 DEF CallOK
  <2>4. AllApart'
    BY <2>1 DEF IInv, AllApart, Apart, Unsettled, Written, Found, Stored, Dirty
  <2> QED BY <2>2, <2>3, <2>4 DEF IInv
<1> QED BY <1>1, <1>2

-----------------------------------------------------------------------------
(* The theorems *)

LEMMA SpecIInv == Spec => []IInv
<1> QED BY InitInv, NextInv, PTL DEF Spec

\* Every reachable state is well-typed: in particular, merging a body into an
\* account's row always gives a row.
THEOREM SpecTypeOK == Spec => []TypeOK
<1>1. IInv => TypeOK
  BY DEF IInv
<1> QED BY <1>1, SpecIInv, PTL

\* Two accounts that are not deleted never share an e-mail, however many
\* requests look the e-mail up and write it at once.
THEOREM SpecOneAccountPerEmail == Spec => []OneAccountPerEmail
<1>1. IInv => OneAccountPerEmail
  BY DEF IInv
<1> QED BY <1>1, SpecIInv, PTL

\* A request whose actor or account was deleted before it arrived never gets
\* as far as a write.
THEOREM SpecGoneWritesNothing == Spec => []GoneWritesNothing
<1>1. IInv => GoneWritesNothing
  BY DEF IInv, GoneWritesNothing, CallOK, Late, OnRow
<1> QED BY <1>1, SpecIInv, PTL

\* Only a commit changes an account, and it writes what the request had to write.
LEMMA OnlyCommitsWrite ==
    ASSUME IInv, Next, NEW u \in User, account'[u] # account[u]
    PROVE  \E r \in Req :
             /\ req[r].pc = "commit" /\ Writes(req[r]) /\ req[r].user = u
             /\ req[r].op # "none" /\ CallOK(req[r])
             /\ account'[u] = Written(req[r])
<1>1. PICK r \in Req : Begin(r) \/ Step(r) \/ Abort(r)
  BY DEF Next
<1>2. Commit(r)
  BY <1>1
     DEF Begin, Step, Abort, BeginRegister, BeginSeed, BeginCreate, BeginUpdate, BeginRole,
         BeginDelete, BeginChange, Arrive, Authenticate, Load, Find, Flush, Index, Collide,
         Fail, Becomes
<1>3. Writes(req[r])
  BY <1>2 DEF Commit
<1>4. req[r].pc = "commit" /\ CallOK(req[r]) /\ req[r].op # "none"
  BY <1>2 DEF Commit, IInv, CallOK, Route, Idle
<1>5. account' = [account EXCEPT ![req[r].user] = Written(req[r])]
  BY <1>2, <1>3 DEF Commit
<1>6. req[r].user = u /\ account'[u] = Written(req[r])
  BY <1>5 DEF IInv, TypeOK
<1> QED BY <1>3, <1>4, <1>6

\* What an UPDATE leaves of each column.
LEMMA ColumnWritten ==
    ASSUME IInv, NEW q, CallOK(q), q.op \in {"update", "role", "delete"}, NEW c \in Column
    PROVE  /\ Written(q)[c] = IF c \in Dirty(q) THEN q.body[c] ELSE account[q.user][c]
           /\ c = "role" /\ c \in Dirty(q) => q.op = "role"
<1>1. Written(q) = Merged(q, account[q.user])
  BY WrittenTyped DEF IInv, Inserts
<1>2. ASSUME "role" \in Dirty(q) PROVE q.op = "role"
  <2>1. CASE q.op = "update"
    <3>1. CASE q.body \in [{"email"} -> Email]
      BY <1>2, <3>1 DEF Dirty
    <3>2. CASE q.body \in [{"active"} -> BOOLEAN]
      BY <1>2, <3>2 DEF Dirty
    <3>3. CASE q.body \in [email : Email, active : BOOLEAN]
      BY <1>2, <3>3 DEF Dirty
    <3> QED BY <2>1, <3>1, <3>2, <3>3 DEF CallOK, Given, UpdateBody
  <2>2. CASE q.op = "delete"
    <3>1. DOMAIN q.body = {"deleted"}
      BY <2>2 DEF CallOK, Given
    <3> QED BY <1>2, <3>1 DEF Dirty
  <2> QED BY <2>1, <2>2
<1> QED BY <1>1, <1>2 DEF Merged

\* Nobody becomes an administrator but by the seeding script or through a
\* request whose actor was authenticated as one.
THEOREM SpecPowerComesFromAdmins == Spec => PowerComesFromAdmins
<1> DEFINE ByAdmins ==
             \A u \in User :
               HasRole(account', u, "admin") /\ ~HasRole(account, u, "admin") =>
                 \E r \in Req : /\ req[r].pc = "commit" /\ req[r].user = u
                                /\ req[r].op = "seed" \/ (req[r].op # "register" /\ req[r].admin)
<1>1. ASSUME IInv, [Next]_vars,
             NEW u \in User, HasRole(account', u, "admin"), ~HasRole(account, u, "admin")
      PROVE  \E r \in Req : /\ req[r].pc = "commit" /\ req[r].user = u
                            /\ req[r].op = "seed" \/ (req[r].op # "register" /\ req[r].admin)
  <2>1. account'[u] # account[u]
    BY <1>1 DEF HasRole
  <2>2. Next
    BY <1>1, <2>1 DEF vars
  <2>3. PICK r \in Req : /\ req[r].pc = "commit" /\ Writes(req[r]) /\ req[r].user = u
                         /\ req[r].op # "none" /\ CallOK(req[r])
                         /\ account'[u] = Written(req[r])
    BY <1>1, <2>1, <2>2, OnlyCommitsWrite
  <2>4. PICK q : q = req[r]
    OBVIOUS
  <2>5. q.op \in Inserts \cup {"update", "role", "delete"}
    BY <2>3, <2>4 DEF CallOK, Request, Op, Inserts
  <2>6. CASE q.op \in Inserts
    <3>1. Written(q).role = q.body.role
      BY <2>6 DEF Written
    <3>2. q.op # "register"
      BY <1>1, <2>3, <2>4, <3>1 DEF CallOK, Given, HasRole
    <3>3. q.op = "create" => q.admin
      BY <2>3, <2>4 DEF CallOK, Powers
    <3> QED BY <2>3, <2>4, <2>6, <3>2, <3>3 DEF Inserts
  <2>7. CASE q.op \in {"update", "role", "delete"}
    <3>1. account[u] # Unset
      BY <2>3, <2>4, <2>7 DEF CallOK, OnRow
    <3>2. Written(q)["role"] # account[u]["role"]
      BY <1>1, <2>3, <2>4, <3>1 DEF HasRole
    <3>3. q.op = "role"
      BY <1>1, <2>3, <2>4, <2>7, <3>2, ColumnWritten DEF Column
    <3> QED BY <2>3, <2>4, <3>3 DEF CallOK, Powers
  <2> QED BY <2>5, <2>6, <2>7
<1>2. ASSUME IInv, [Next]_vars PROVE [ByAdmins]_vars
  BY <1>1, <1>2
<1> QED BY <1>2, SpecIInv, PTL DEF Spec, PowerComesFromAdmins

\* A stored account changes only in columns that a committing body sets.
THEOREM SpecEditsTouchTheirColumns == Spec => EditsTouchTheirColumns
<1> DEFINE InColumns ==
             \A u \in User : account[u] # Unset =>
               /\ account'[u] # Unset
               /\ \A c \in Column : account'[u][c] # account[u][c] =>
                    \E r \in Req : /\ req[r].pc = "commit" /\ req[r].user = u
                                   /\ c \in DOMAIN req[r].body /\ account'[u][c] = req[r].body[c]
<1>1. ASSUME IInv, [Next]_vars, NEW u \in User, account[u] # Unset
      PROVE  /\ account'[u] # Unset
             /\ \A c \in Column : account'[u][c] # account[u][c] =>
                  \E r \in Req : /\ req[r].pc = "commit" /\ req[r].user = u
                                 /\ c \in DOMAIN req[r].body
                                 /\ account'[u][c] = req[r].body[c]
  <2>1. CASE account'[u] = account[u]
    BY <1>1, <2>1
  <2>2. CASE account'[u] # account[u]
    <3>1. Next
      BY <1>1, <2>2 DEF vars
    <3>2. PICK r \in Req : /\ req[r].pc = "commit" /\ Writes(req[r]) /\ req[r].user = u
                           /\ req[r].op # "none" /\ CallOK(req[r])
                           /\ account'[u] = Written(req[r])
      BY <1>1, <2>2, <3>1, OnlyCommitsWrite
    <3>3. req[r].op \in {"update", "role", "delete"}
      BY <1>1, <3>2 DEF CallOK, OnRow, Request, Op, Inserts
    <3>4. account'[u] # Unset
      BY <1>1, <3>2, WrittenTyped, RowsAssumption DEF IInv
    <3>5. ASSUME NEW c \in Column, account'[u][c] # account[u][c]
          PROVE  c \in DOMAIN req[r].body /\ account'[u][c] = req[r].body[c]
      BY <1>1, <3>2, <3>3, <3>5, ColumnWritten DEF Dirty
    <3> QED BY <3>2, <3>4, <3>5
  <2> QED BY <2>1, <2>2
<1>2. ASSUME IInv, [Next]_vars PROVE [InColumns]_vars
  BY <1>1, <1>2
<1> QED BY <1>2, SpecIInv, PTL DEF Spec, EditsTouchTheirColumns

=============================================================================
