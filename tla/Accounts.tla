------------------------------ MODULE Accounts ------------------------------
(***************************************************************************)
(* User accounts (app/modules/users, registration in app/modules/auth,     *)
(* scripts/seed_admin.py): who has an account, under which e-mail and with *)
(* which role.                                                             *)
(*                                                                         *)
(* As in Projects a request is one transaction of several statements under *)
(* READ COMMITTED.  The e-mail is looked up first and written later; what  *)
(* decides is uq_users_email_active, the unique index on the e-mails of    *)
(* rows that are not deleted.  PostgreSQL locks the row of an UPDATE and   *)
(* then enters the new key, which waits for every transaction that has an  *)
(* entry of that key in flux, its old row included: two accounts that swap *)
(* e-mails wait for each other until the deadlock detector aborts one.     *)
(*                                                                         *)
(* Left out: passwords (see Sessions), full_name, which no rule is about,  *)
(* and everything that only reads.  An access token names its account for  *)
(* ever; its role claim is never read.                                     *)
(***************************************************************************)
EXTENDS Naturals

CONSTANTS
    User, Email,
    SeedEmail,        \* the e-mail seed_admin.py is run with
    Req,              \* slots for requests in flight: the bound on concurrency
    Kinds,            \* the requests that arrive: the bound on the workload
    Unset

ASSUME ConstantsAssumption == Unset \notin User \cup Email /\ SeedEmail \in Email

Role == {"admin", "employee"}

\* What a request may set.  deleted stands for deleted_at IS NOT NULL.
Column == {"email", "role", "active", "deleted"}

Row == [email : Email, role : Role, active : BOOLEAN, deleted : BOOLEAN]

ASSUME RowsAssumption == Unset \notin Row

VARIABLES
    account,   \* committed rows of users
    req        \* the requests in flight

vars == <<account, req>>

-----------------------------------------------------------------------------
(* Types *)

Op == {"none", "seed", "register", "create", "update", "role", "delete"}

Inserts == {"seed", "register", "create"}

Stage == {"idle", "auth", "load", "find", "flush", "index", "commit"}

\* The fields a body sets, and no others (exclude_unset).
Body == [{"email"} -> Email] \cup [{"role"} -> Role] \cup [{"active"} -> BOOLEAN]
        \cup [email : Email, active : BOOLEAN] \cup [{"deleted"} -> {TRUE}] \cup Row

NoBody == [c \in {"deleted"} |-> TRUE]

Request ==
    [pc     : Stage,
     op     : Op,
     actor  : User \cup {Unset},   \* whose access token it carries
     user   : User \cup {Unset},   \* the account it is about
     body   : Body,
     admin  : BOOLEAN,             \* the actor's role, as loaded
     base   : Row \cup {Unset},    \* the account, as loaded
     locked : BOOLEAN,             \* it has the lock on the account's row
     barred : BOOLEAN]             \* history: actor or account deleted on arrival

Idle == [pc |-> "idle", op |-> "none", actor |-> Unset, user |-> Unset, body |-> NoBody,
         admin |-> FALSE, base |-> Unset, locked |-> FALSE, barred |-> FALSE]

TypeOK ==
    /\ account \in [User -> Row \cup {Unset}]
    /\ req \in [Req -> Request]

Init ==
    /\ account = [u \in User |-> Unset]
    /\ req = [r \in Req |-> Idle]

-----------------------------------------------------------------------------
(* The session of a request *)

Becomes(r, call) == req' = [req EXCEPT ![r] = call] /\ UNCHANGED account

\* The handler raises: the transaction is rolled back.
Fail(r) == Becomes(r, Idle)

Stored(u) == account[u] # Unset

\* Mutant: a lookup that forgets the soft deletion.
FoundAnyway(u) == Stored(u)

\* UserRepository.get, which filters soft-deleted accounts.
Found(u) == Stored(u) /\ ~account[u].deleted

Taken(e) == \E u \in User : Found(u) /\ account[u].email = e

\* An object whose attributes differ from those loaded is flushed.
Dirty(q) == {c \in DOMAIN q.body : q.body[c] # q.base[c]}

\* Mutant: every loaded column is written back.
EveryColumn(q) ==
    [c \in Column |-> IF c \in DOMAIN q.body THEN q.body[c] ELSE q.base[c]]

\* Mutant: the body becomes the row.
BodyOnly(q) == q.body

\* The row of request q's account once q has written it.
Written(q) ==
    IF q.op \in Inserts THEN q.body
    ELSE [c \in Column |-> IF c \in Dirty(q) THEN q.body[c] ELSE account[q.user][c]]

-----------------------------------------------------------------------------
(* Requests arrive *)

Arrive(r, call) ==
    /\ req[r] = Idle /\ call.op \in Kinds
    /\ Becomes(r, [call EXCEPT !.barred =
                       \E u \in {call.actor, call.user} \ {Unset} : Stored(u) /\ account[u].deleted])

\* An id uuid7 may still return.
Fresh(u) == ~Stored(u) /\ \A q \in Req : req[q].user # u

NewRow(e, role) == [email |-> e, role |-> role, active |-> TRUE, deleted |-> FALSE]

\* Mutant: registration takes the role from the body.
RegisterAnyRole(r) ==
    \E u \in User, e \in Email, role \in Role :
        /\ Fresh(u)
        /\ Arrive(r, [Idle EXCEPT !.op = "register", !.pc = "find", !.user = u,
                                  !.body = NewRow(e, role)])

\* Public registration: always an employee, no token.
BeginRegister(r) ==
    \E u \in User, e \in Email :
        /\ Fresh(u)
        /\ Arrive(r, [Idle EXCEPT !.op = "register", !.pc = "find", !.user = u,
                                  !.body = NewRow(e, "employee")])

BeginSeed(r) ==
    \E u \in User :
        /\ Fresh(u)
        /\ Arrive(r, [Idle EXCEPT !.op = "seed", !.pc = "find", !.user = u,
                                  !.body = NewRow(SeedEmail, "admin")])

BeginCreate(r) ==
    \E u \in User, actor \in User, e \in Email, role \in Role :
        /\ Fresh(u) /\ Stored(actor)
        /\ Arrive(r, [Idle EXCEPT !.op = "create", !.pc = "auth", !.user = u, !.actor = actor,
                                  !.body = NewRow(e, role)])

\* PATCH /users/{id}, PATCH /users/{id}/role and DELETE /users/{id}.
BeginChange(r, op, bodies) ==
    \E u \in User, actor \in User, body \in bodies :
        /\ Stored(u) /\ Stored(actor)
        /\ Arrive(r, [Idle EXCEPT !.op = op, !.pc = "auth", !.user = u, !.actor = actor,
                                  !.body = body])

BeginUpdate(r) ==
    BeginChange(r, "update", [{"email"} -> Email] \cup [{"active"} -> BOOLEAN]
                             \cup [email : Email, active : BOOLEAN])

BeginRole(r) == BeginChange(r, "role", [{"role"} -> Role])

BeginDelete(r) == BeginChange(r, "delete", [{"deleted"} -> {TRUE}])

-----------------------------------------------------------------------------
(* The statements *)

\* Mutant: the role routes forget require_admin.
AllowedToAll(q, role) == q.op = "delete" => q.user # q.actor

\* RequireRole, and what the services ask of the actor before they load anything.
Allowed(q, role) ==
    /\ q.op \in {"create", "role", "delete"} => role = "admin"
    /\ q.op = "update" => role = "admin" \/ q.user = q.actor
    /\ q.op = "delete" => q.user # q.actor

\* get_current_user, then the guards.  An actor who is the target is in the
\* session from here on: later queries do not overwrite what was loaded.  What
\* was loaded of the actor is not read again otherwise, so it is forgotten.
Authenticate(r) ==
    LET q == req[r]
        row == account[q.actor]
        known == Found(q.actor) /\ row.active
    IN
    /\ q.pc = "auth"
    /\ \/ ~known /\ Fail(r)
       \/ known /\ ~Allowed(q, row.role) /\ Fail(r)
       \/ /\ known /\ Allowed(q, row.role)
          /\ Becomes(r, [q EXCEPT !.actor = Unset, !.admin = row.role = "admin",
                                  !.base = IF q.user = q.actor THEN row ELSE Unset,
                                  !.pc = IF q.op = "create" THEN "find" ELSE "load"])

\* users.get(user_id), and the guard on is_active.
Load(r) ==
    LET q == req[r]
        base == IF q.base # Unset THEN q.base ELSE account[q.user]
        allowed == "active" \in DOMAIN q.body => q.op # "update" \/ q.admin
        renames == "email" \in DOMAIN q.body /\ q.body.email # base.email
    IN
    /\ q.pc = "load"
    /\ \/ ~Found(q.user) /\ Fail(r)
       \/ Found(q.user) /\ ~allowed /\ Fail(r)
       \/ /\ Found(q.user) /\ allowed
          /\ Becomes(r, [q EXCEPT !.base = base, !.pc = IF renames THEN "find" ELSE "flush"])

\* get_by_email.
Find(r) ==
    LET q == req[r] IN
    /\ q.pc = "find"
    /\ \/ Taken(q.body.email) /\ Fail(r)
       \/ /\ ~Taken(q.body.email)
          /\ Becomes(r, [q EXCEPT !.pc = IF q.op \in Inserts THEN "index" ELSE "flush"])

Locked(u, r) == \E q \in Req \ {r} : req[q].user = u /\ req[q].locked

\* UPDATE users SET <changed columns> WHERE id: first the row's lock.
Flush(r) ==
    LET q == req[r] IN
    /\ q.pc = "flush"
    /\ \/ Dirty(q) = {} /\ Becomes(r, [q EXCEPT !.pc = "commit"])
       \/ /\ Dirty(q) # {} /\ ~Locked(q.user, r)
          /\ Becomes(r, [q EXCEPT !.locked = TRUE,
                                  !.pc = IF "email" \in Dirty(q) THEN "index" ELSE "commit"])

\* Request q has an entry of e in uq_users_email_active that is not settled:
\* of the row it has locked, or of the row it has written.
Unsettled(q, e) ==
    \/ q.locked /\ Found(q.user) /\ account[q.user].email = e
    \/ /\ q.pc = "commit" /\ (q.op \in Inserts \/ q.locked)
       /\ ~Written(q).deleted /\ Written(q).email = e

\* The rows the new key collides with.
Clash(q) == {u \in User \ {q.user} : Found(u) /\ account[u].email = Written(q).email}

\* Mutant: without the unique index the INSERT or UPDATE just goes through.
NoIndex(r) == req[r].pc = "index" /\ Becomes(r, [req[r] EXCEPT !.pc = "commit"])

\* The new key enters the index.  The row of a deletion that came first has no key.
Index(r) ==
    LET q == req[r]
        keyed == ~Written(q).deleted
    IN
    /\ q.pc = "index"
    /\ keyed => /\ \A p \in Req \ {r} : ~Unsettled(req[p], Written(q).email)
                /\ Clash(q) = {}
    /\ Becomes(r, [q EXCEPT !.pc = "commit"])

\* It is there already: IntegrityError, answered 409.
Collide(r) ==
    LET q == req[r] IN
    /\ q.pc = "index" /\ ~Written(q).deleted /\ Clash(q) # {}
    /\ \A p \in Req \ {r} : ~Unsettled(req[p], Written(q).email)
    /\ Fail(r)

Writes(q) == q.op \in Inserts \/ q.locked

\* Mutant: the whole object as this request knows it is stored.
CommitWhole(r) ==
    LET q == req[r] IN
    /\ q.pc = "commit"
    /\ account' = IF Writes(q)
                  THEN [account EXCEPT ![q.user] =
                            IF q.op \in Inserts THEN q.body ELSE EveryColumn(q)]
                  ELSE account
    /\ req' = [req EXCEPT ![r] = Idle]

\* get_db, or the script, commits.
Commit(r) ==
    LET q == req[r] IN
    /\ q.pc = "commit"
    /\ account' = IF Writes(q) THEN [account EXCEPT ![q.user] = Written(q)] ELSE account
    /\ req' = [req EXCEPT ![r] = Idle]

\* A failed statement, a deadlock, a broken connection or a process that died.
Abort(r) == req[r] # Idle /\ Fail(r)

-----------------------------------------------------------------------------
Begin(r) ==
    \/ BeginRegister(r) \/ BeginSeed(r) \/ BeginCreate(r)
    \/ BeginUpdate(r) \/ BeginRole(r) \/ BeginDelete(r)

Step(r) ==
    \/ Authenticate(r) \/ Load(r) \/ Find(r) \/ Flush(r) \/ Index(r)
    \/ Collide(r) \/ Commit(r)

Next == \E r \in Req : Begin(r) \/ Step(r) \/ Abort(r)

Spec == Init /\ [][Next]_vars

-----------------------------------------------------------------------------
(* Properties *)

\* Two accounts that are not deleted never share an e-mail, however many
\* registrations, creations and changes of e-mail overlap (get_by_email and
\* the write are two statements; uq_users_email_active).
OneAccountPerEmail ==
    \A u, v \in User : Found(u) /\ Found(v) /\ account[u].email = account[v].email => u = v

\* A request whose account or actor was deleted before it arrived writes
\* nothing: an access token outlives its account, and rows outlive deletion.
GoneWritesNothing ==
    \A r \in Req : req[r].barred => req[r].pc \notin {"index", "commit"} /\ ~req[r].locked

HasRole(a, u, role) == a[u] # Unset /\ a[u].role = role

\* Nobody becomes an administrator but by the seeding script or a request whose
\* actor was authenticated as one: never by registration, never by his own edit.
PowerComesFromAdmins ==
    [][\A u \in User :
        HasRole(account', u, "admin") /\ ~HasRole(account, u, "admin") =>
            \E r \in Req : /\ req[r].pc = "commit" /\ req[r].user = u
                           /\ req[r].op = "seed" \/ (req[r].op # "register" /\ req[r].admin)]_vars

\* A stored account changes only in columns that a committing body sets: an edit
\* made from an old copy does not bring back a role, an activation or an e-mail that
\* changed meanwhile, and no deletion is undone.
EditsTouchTheirColumns ==
    [][\A u \in User : account[u] # Unset =>
        /\ account'[u] # Unset
        /\ \A c \in Column : account'[u][c] # account[u][c] =>
            \E r \in Req : /\ req[r].pc = "commit" /\ req[r].user = u
                           /\ c \in DOMAIN req[r].body /\ account'[u][c] = req[r].body[c]]_vars

=============================================================================
