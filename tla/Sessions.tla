------------------------------ MODULE Sessions ------------------------------
(***************************************************************************)
(* Refresh-token sessions of app/modules/auth, together with the two       *)
(* operations of app/modules/users that change whether an account may hold *)
(* one: deactivation and soft deletion.                                    *)
(*                                                                         *)
(* Every HTTP request runs in its own database transaction (get_db,        *)
(* core/dependencies.py) and gives up the event loop at every awaited      *)
(* statement, so a request is a sequence of statements, one action each,   *)
(* that interleaves with the statements of the other requests.  The        *)
(* database is PostgreSQL at its default READ COMMITTED level: a statement *)
(* sees what is committed when it starts, an UPDATE takes the lock of the  *)
(* rows it writes until the transaction ends, and an UPDATE ... WHERE      *)
(* never sees a row committed after it started.                            *)
(*                                                                         *)
(* Left out: JWT access tokens (stateless; whoever has been given a token  *)
(* pair may call change-password), hashing (a hash verifies exactly the    *)
(* password it was made from), rate limiting, the wording of answers.      *)
(***************************************************************************)
EXTENDS Naturals, FiniteSets

CONSTANTS
    User,          \* accounts, registered before the model starts
    Password,      \* passwords that satisfy the password policy
    Token,         \* supply of refresh tokens: the bound on how many are issued
    Req,           \* slots for requests in flight: the bound on concurrency
    NoUser, NoPassword, NoToken,
    Kinds,         \* the requests that arrive: the bound on the workload
    MaxExpired,    \* bound on the tokens that outlive their expires_at
    CommitFirst    \* TRUE: FastAPI ends get_db before it sends the response
                   \* (up to 0.117); FALSE: after it (0.118 and later).
                   \* pyproject.toml asks for fastapi>=0.115: both are builds.

ASSUME ConstantsAssumption ==
    /\ NoUser \notin User /\ NoPassword \notin Password /\ NoToken \notin Token
    /\ User \cap Token = {}
    /\ \A kind \in Kinds : kind \in STRING
    /\ MaxExpired \in Nat
    /\ CommitFirst \in BOOLEAN

VARIABLES
    rows,          \* committed rows of refresh_tokens
    owner,         \* column user_id
    family,        \* column family_id, named by the token that login issued
    revoked,       \* column revoked
    replacedBy,    \* column replaced_by_id
    expired,       \* expires_at has passed
    password,      \* users.hashed_password, as the password it verifies
    active,        \* users.is_active
    deleted,       \* users.deleted_at is set
    req,           \* the requests in flight
    delivered,     \* tokens that reached a client
    born,          \* history: the password verified when the family was started
    reported,      \* history: families a client was told TOKEN_REUSE_DETECTED of
    loggedOut      \* history: tokens whose logout was answered

tokenVars == <<rows, owner, family, revoked, replacedBy, born>>
userVars == <<password, active, deleted>>
clientVars == <<delivered, reported, loggedOut>>
vars == <<tokenVars, userVars, clientVars, expired, req>>

-----------------------------------------------------------------------------
(* Types *)

TokenOps == {"refresh", "logout"}
AdminOps == {"activate", "deactivate", "delete"}
Op == {"none", "login", "password", "reuse"} \cup TokenOps \cup AdminOps

\* The statement a request executes next.
Stage == {"idle", "token", "user", "insert", "revoke", "scan", "sweep",
          "write", "commit", "reply"}

Request ==
    [pc    : Stage,
     op    : Op,
     tok   : Token \cup {NoToken},         \* the refresh token presented
     user  : User \cup {NoUser},           \* the account the request is about
     given : Password \cup {NoPassword},   \* the password presented
     new   : Password \cup {NoPassword},   \* the password to set
     ins   : Token \cup {NoToken},         \* the row it inserted
     scan  : SUBSET Token,                 \* rows its bulk UPDATE has found
     locks : SUBSET (Token \cup User),     \* rows it has written and locked
     barred : BOOLEAN]                     \* history: deleted when it arrived

Idle == [pc |-> "idle", op |-> "none", tok |-> NoToken, user |-> NoUser,
         given |-> NoPassword, new |-> NoPassword, ins |-> NoToken,
         scan |-> {}, locks |-> {}, barred |-> FALSE]

TypeOK ==
    /\ rows \subseteq Token
    /\ owner \in [Token -> User \cup {NoUser}]
    /\ family \in [Token -> Token \cup {NoToken}]
    /\ revoked \in [Token -> BOOLEAN]
    /\ replacedBy \in [Token -> Token \cup {NoToken}]
    /\ expired \in [Token -> BOOLEAN]
    /\ password \in [User -> Password]
    /\ active \in [User -> BOOLEAN]
    /\ deleted \in [User -> BOOLEAN]
    /\ req \in [Req -> Request]
    /\ delivered \subseteq Token
    /\ born \in [Token -> Password \cup {NoPassword}]
    /\ reported \subseteq Token \cup {NoToken}
    /\ loggedOut \subseteq Token \cup {NoToken}

Init ==
    /\ rows = {}
    /\ owner = [t \in Token |-> NoUser]
    /\ family = [t \in Token |-> NoToken]
    /\ revoked = [t \in Token |-> FALSE]
    /\ replacedBy = [t \in Token |-> NoToken]
    /\ expired = [t \in Token |-> FALSE]
    /\ password \in [User -> Password]
    /\ active = [u \in User |-> TRUE]
    /\ deleted = [u \in User |-> FALSE]
    /\ req = [r \in Req |-> Idle]
    /\ delivered = {}
    /\ born = [t \in Token |-> NoPassword]
    /\ reported = {}
    /\ loggedOut = {}

-----------------------------------------------------------------------------
(* The database *)

\* RefreshTokenRepository.is_valid, of a row that exists.
IsValid(t) == ~revoked[t] /\ ~expired[t]

\* Another transaction has written this row and is not over.
Locked(row, r) == \E q \in Req \ {r} : row \in req[q].locks

\* Mutant: the query forgets the soft-delete filter.
UserFoundAnyway(u) == u \in User

\* UserRepository.get: a live row, soft-deleted ones are filtered out.
UserFound(u) == ~deleted[u]

\* Tokens generate_refresh_token may still return.
Fresh == Token \ (rows \cup delivered \cup {req[q].ins : q \in Req})

\* Bound: a request that may have to issue a token starts only while the
\* supply Token still has one for it.
TokenSupply ==
    Cardinality({q \in Req : req[q].op \in {"login", "refresh"}
                             /\ req[q].ins = NoToken}) < Cardinality(Fresh)

\* Mutant: only the reuse path commits before it answers.
CommitsLate(r) == req[r].op = "reuse"

\* Whether get_db commits before the response leaves.  The reuse path
\* commits by itself before it raises.
CommitsFirst(r) == CommitFirst \/ req[r].op = "reuse"

\* The transaction of r has done all its statements.
Finished(r) == IF CommitsFirst(r) THEN "commit" ELSE "reply"

\* The transaction of r has committed and only the answer is left.
Committed(r) == req[r].pc = "reply" /\ CommitsFirst(r)

At(r, op, pc) == req[r].op = op /\ req[r].pc = pc

Goto(r, pc) == req' = [req EXCEPT ![r].pc = pc]

\* Mutant: the rollback is forgotten and the row locks stay.
DenyKeepingLocks(r) ==
    /\ req' = [req EXCEPT ![r] = [Idle EXCEPT !.locks = req[r].locks]]
    /\ UNCHANGED <<tokenVars, userVars, clientVars, expired>>

\* The handler raises before it wrote anything: rollback and a 4xx answer.
Deny(r) ==
    /\ req' = [req EXCEPT ![r] = Idle]
    /\ UNCHANGED <<tokenVars, userVars, clientVars, expired>>

\* A statement that reads, or writes rows nobody else sees yet.
StepTo(r, pc) == Goto(r, pc) /\ UNCHANGED <<tokenVars, userVars, clientVars, expired>>

-----------------------------------------------------------------------------
(* Requests arrive *)

Arrive(r, call, u) ==
    /\ req[r] = Idle
    /\ call.op \in Kinds
    /\ req' = [req EXCEPT ![r] = [call EXCEPT !.barred = u \in User /\ deleted[u]]]
    /\ UNCHANGED <<tokenVars, userVars, clientVars, expired>>

BeginLogin(r) ==
    /\ TokenSupply
    /\ \E u \in User, p \in Password :
         Arrive(r, [Idle EXCEPT !.pc = "user", !.op = "login", !.user = u,
                               !.given = p], u)

BeginRefresh(r) ==
    \E t \in delivered :
        /\ TokenSupply \/ t \notin rows \/ revoked[t]
        /\ Arrive(r, [Idle EXCEPT !.pc = "token", !.op = "refresh", !.tok = t],
                  owner[t])

BeginLogout(r) ==
    \E t \in delivered :
        Arrive(r, [Idle EXCEPT !.pc = "token", !.op = "logout", !.tok = t],
               owner[t])

\* The caller holds an access token, so a token pair once reached it.
BeginChangePassword(r) ==
    \E t \in delivered \cap rows, old, new \in Password :
        Arrive(r, [Idle EXCEPT !.pc = "user", !.op = "password", !.user = owner[t],
                               !.given = old, !.new = new], owner[t])

\* PATCH /users/{id} with is_active and DELETE /users/{id}, from an admin
\* other than these accounts.
BeginAdmin(r) ==
    \E u \in User, op \in AdminOps :
        Arrive(r, [Idle EXCEPT !.pc = "user", !.op = op, !.user = u], u)

-----------------------------------------------------------------------------
(* login *)

LoginRefused(r) ==
    LET u == req[r].user IN
    /\ At(r, "login", "user")
    /\ ~UserFound(u) \/ req[r].given # password[u] \/ ~active[u]
    /\ Deny(r)

LoginVerified(r) ==
    LET u == req[r].user IN
    /\ At(r, "login", "user")
    /\ UserFound(u) /\ req[r].given = password[u] /\ active[u]
    /\ StepTo(r, "insert")

\* _issue_pair: one INSERT, seen by no other transaction before the commit.
IssuePair(r) ==
    /\ req[r].pc = "insert"
    /\ \E t \in Fresh :
         req' = [req EXCEPT ![r].ins = t,
                            ![r].pc = IF req[r].op = "login" THEN Finished(r) ELSE "revoke"]
    /\ UNCHANGED <<tokenVars, userVars, clientVars, expired>>

-----------------------------------------------------------------------------
(* refresh *)

RefreshRefused(r) ==
    LET t == req[r].tok IN
    /\ At(r, "refresh", "token")
    /\ t \notin rows \/ (~revoked[t] /\ ~IsValid(t))
    /\ Deny(r)

\* The token presented was revoked before: end its family.
RefreshReplayed(r) ==
    LET t == req[r].tok IN
    /\ At(r, "refresh", "token")
    /\ t \in rows /\ revoked[t]
    /\ req' = [req EXCEPT ![r].op = "reuse", ![r].pc = "scan"]
    /\ UNCHANGED <<tokenVars, userVars, clientVars, expired>>

RefreshAccepted(r) ==
    LET t == req[r].tok IN
    /\ At(r, "refresh", "token")
    /\ t \in rows /\ IsValid(t)
    /\ req' = [req EXCEPT ![r].pc = "user", ![r].user = owner[t]]
    /\ UNCHANGED <<tokenVars, userVars, clientVars, expired>>

RefreshOwnerRefused(r) ==
    LET u == req[r].user IN
    /\ At(r, "refresh", "user")
    /\ ~UserFound(u) \/ ~active[u]
    /\ Deny(r)

RefreshOwnerFound(r) ==
    LET u == req[r].user IN
    /\ At(r, "refresh", "user")
    /\ UserFound(u) /\ active[u]
    /\ StepTo(r, "insert")

\* Mutant: the token presented is not revoked.
RevokeNothing(r) == req[r].pc = "revoke" /\ StepTo(r, Finished(r))

\* RefreshTokenRepository.revoke, by primary key and without looking at the
\* row again: an UPDATE that waits for the lock of the row presented.
Revoke(r) ==
    LET t == req[r].tok IN
    /\ req[r].pc = "revoke"
    /\ ~Locked(t, r)
    /\ req' = [req EXCEPT ![r].locks = @ \cup {t}, ![r].pc = Finished(r)]
    /\ UNCHANGED <<tokenVars, userVars, clientVars, expired>>

-----------------------------------------------------------------------------
(* logout *)

\* Nothing to revoke: answered like a logout that did.
LogoutMoot(r) ==
    LET t == req[r].tok IN
    /\ At(r, "logout", "token")
    /\ t \notin rows \/ revoked[t]
    /\ StepTo(r, Finished(r))

\* Mutant: logout answers without revoking.
LogoutFoundOnly(r) ==
    /\ At(r, "logout", "token")
    /\ req[r].tok \in rows /\ ~revoked[req[r].tok]
    /\ StepTo(r, Finished(r))

LogoutFound(r) ==
    LET t == req[r].tok IN
    /\ At(r, "logout", "token")
    /\ t \in rows /\ ~revoked[t]
    /\ StepTo(r, "revoke")

-----------------------------------------------------------------------------
(* change_password *)

ChangeRefused(r) ==
    LET u == req[r].user IN
    /\ At(r, "password", "user")
    /\ ~UserFound(u) \/ ~active[u] \/ req[r].given # password[u]
    /\ Deny(r)

\* Mutant: the password changes and the tokens stay.
ChangeVerifiedOnly(r) ==
    LET u == req[r].user IN
    /\ At(r, "password", "user")
    /\ UserFound(u) /\ active[u] /\ req[r].given = password[u]
    /\ StepTo(r, "write")

ChangeVerified(r) ==
    LET u == req[r].user IN
    /\ At(r, "password", "user")
    /\ UserFound(u) /\ active[u] /\ req[r].given = password[u]
    /\ StepTo(r, "scan")

-----------------------------------------------------------------------------
(* The bulk UPDATE ... WHERE revoked IS FALSE: it finds its rows in the     *)
(* snapshot it starts with, waits until no other transaction holds one of   *)
(* them, and writes those that still qualify.                               *)

ScanFamily(r) ==
    /\ At(r, "reuse", "scan")
    /\ req' = [req EXCEPT ![r].pc = "sweep",
                          ![r].scan = {t \in rows : family[t] = family[req[r].tok]
                                                    /\ ~revoked[t]}]
    /\ UNCHANGED <<tokenVars, userVars, clientVars, expired>>

\* Mutant: the UPDATE forgets user_id = ?.
ScanEverybody(r) ==
    /\ At(r, "password", "scan")
    /\ req' = [req EXCEPT ![r].pc = "sweep", ![r].scan = {t \in rows : ~revoked[t]}]
    /\ UNCHANGED <<tokenVars, userVars, clientVars, expired>>

ScanUser(r) ==
    /\ At(r, "password", "scan")
    /\ req' = [req EXCEPT ![r].pc = "sweep",
                          ![r].scan = {t \in rows : owner[t] = req[r].user
                                                    /\ ~revoked[t]}]
    /\ UNCHANGED <<tokenVars, userVars, clientVars, expired>>

Sweep(r) ==
    /\ req[r].pc = "sweep"
    /\ \A t \in req[r].scan : ~Locked(t, r)
    /\ req' = [req EXCEPT ![r].locks = {t \in req[r].scan : ~revoked[t]},
                          ![r].scan = {},
                          ![r].pc = IF req[r].op = "reuse" THEN Finished(r) ELSE "write"]
    /\ UNCHANGED <<tokenVars, userVars, clientVars, expired>>

-----------------------------------------------------------------------------
(* update_user (is_active only) and delete_user *)

\* An assignment that does not change the loaded value emits no UPDATE.
AdminLoads(r) ==
    LET u == req[r].user IN
    /\ req[r].op \in AdminOps /\ req[r].pc = "user"
    /\ \/ ~UserFound(u) /\ Deny(r)
       \/ /\ UserFound(u)
          /\ StepTo(r, IF \/ req[r].op = "activate" /\ active[u]
                          \/ req[r].op = "deactivate" /\ ~active[u]
                       THEN Finished(r) ELSE "write")

\* UPDATE users ... WHERE id: waits for the lock of the account's row.
WriteUser(r) ==
    LET u == req[r].user IN
    /\ req[r].pc = "write"
    /\ ~Locked(u, r)
    /\ req' = [req EXCEPT ![r].locks = @ \cup {u}, ![r].pc = Finished(r)]
    /\ UNCHANGED <<tokenVars, userVars, clientVars, expired>>

-----------------------------------------------------------------------------
(* The end of a request *)

\* Mutant: rotation starts a family of its own.
CommitInsertNewFamily(r) ==
    LET t == req[r].ins
        Put(column, value) == [x \in Token |-> IF x = t THEN value ELSE column[x]]
    IN  /\ rows' = rows \cup ({t} \ {NoToken})
        /\ owner' = Put(owner, req[r].user)
        /\ family' = Put(family, t)
        /\ born' = Put(born, IF req[r].op = "login" THEN req[r].given ELSE born[req[r].tok])

\* The row _issue_pair inserted becomes visible.
CommitInsert(r) ==
    LET t == req[r].ins
        parent == req[r].tok
        Put(column, value) == [x \in Token |-> IF x = t THEN value ELSE column[x]]
    IN  /\ rows' = rows \cup ({t} \ {NoToken})
        /\ owner' = Put(owner, req[r].user)
        /\ family' = Put(family, IF req[r].op = "login" THEN t ELSE family[parent])
        /\ born' = Put(born, IF req[r].op = "login" THEN req[r].given ELSE born[parent])

\* Mutant: the flag is toggled instead of set.
CommitTokensToggled(r) ==
    /\ revoked' = [t \in Token |-> revoked[t] # (t \in req[r].locks)]
    /\ UNCHANGED replacedBy

\* Mutant: the explicit commit of the reuse path is missing, so that its
\* revocation is rolled back with the 401.
CommitTokensUnlessReuse(r) ==
    /\ revoked' = [t \in Token |-> revoked[t] \/ (t \in req[r].locks /\ req[r].op # "reuse")]
    /\ UNCHANGED replacedBy

\* The token rows r has updated: revoked, and replaced_by_id by refresh only.
CommitTokens(r) ==
    /\ revoked' = [t \in Token |-> revoked[t] \/ t \in req[r].locks]
    /\ replacedBy' = [t \in Token |->
                        IF req[r].op = "refresh" /\ t \in req[r].locks
                        THEN req[r].ins ELSE replacedBy[t]]

\* The account row r has updated, by the columns of its operation.
CommitUser(r) ==
    LET Set(column, op, value) ==
            [u \in User |-> IF u \in req[r].locks /\ req[r].op = op
                            THEN value ELSE column[u]]
    IN  /\ password' = Set(password, "password", req[r].new)
        /\ active' = [u \in User |->
                        IF u \in req[r].locks /\ req[r].op \in {"activate", "deactivate"}
                        THEN req[r].op = "activate" ELSE active[u]]
        /\ deleted' = Set(deleted, "delete", TRUE)

Commit(r) ==
    /\ req[r].pc = "commit"
    /\ CommitInsert(r)
    /\ CommitTokens(r)
    /\ CommitUser(r)
    /\ req' = [req EXCEPT ![r] = IF CommitsFirst(r)
                                 THEN [@ EXCEPT !.pc = "reply", !.locks = {}]
                                 ELSE Idle]
    /\ UNCHANGED <<clientVars, expired>>

\* The answer has left, whether or not it arrives.
Answered(r) == req' = [req EXCEPT ![r] = IF CommitsFirst(r) THEN Idle
                                         ELSE [@ EXCEPT !.pc = "commit"]]

Reply(r) ==
    /\ req[r].pc = "reply"
    /\ delivered' = delivered \cup ({req[r].ins} \ {NoToken})
    /\ reported' = reported \cup (IF req[r].op = "reuse" THEN {family[req[r].tok]} ELSE {})
    /\ loggedOut' = loggedOut \cup (IF req[r].op = "logout" THEN {req[r].tok} ELSE {})
    /\ Answered(r)
    /\ UNCHANGED <<tokenVars, userVars, expired>>

\* The client is gone when the answer comes.
LoseReply(r) ==
    /\ req[r].pc = "reply"
    /\ Answered(r)
    /\ UNCHANGED <<tokenVars, userVars, clientVars, expired>>

\* The process dies, the connection breaks or the request is cancelled
\* before the commit: the transaction is rolled back.
Abort(r) ==
    /\ req[r].pc # "idle" /\ ~Committed(r)
    /\ Deny(r)

\* Time passes.
Expire ==
    /\ Cardinality({t \in Token : expired[t]}) < MaxExpired
    /\ \E t \in rows : ~expired[t] /\ expired' = [expired EXCEPT ![t] = TRUE]
    /\ UNCHANGED <<tokenVars, userVars, clientVars, req>>

-----------------------------------------------------------------------------
(* Specification *)

Begin(r) ==
    \/ BeginLogin(r) \/ BeginRefresh(r) \/ BeginLogout(r)
    \/ BeginChangePassword(r) \/ BeginAdmin(r)

Load(r) ==
    \/ LoginRefused(r) \/ LoginVerified(r)
    \/ RefreshRefused(r) \/ RefreshReplayed(r) \/ RefreshAccepted(r)
    \/ RefreshOwnerRefused(r) \/ RefreshOwnerFound(r)
    \/ LogoutMoot(r) \/ LogoutFound(r)
    \/ ChangeRefused(r) \/ ChangeVerified(r)
    \/ AdminLoads(r)

Write(r) == Revoke(r) \/ Sweep(r) \/ WriteUser(r)

Next ==
    \/ \E r \in Req :
         \/ Begin(r) \/ Load(r) \/ IssuePair(r) \/ ScanFamily(r) \/ ScanUser(r)
         \/ Write(r) \/ Commit(r) \/ Reply(r) \/ LoseReply(r) \/ Abort(r)
    \/ Expire

Spec == Init /\ [][Next]_vars

\* The event loop runs every request that can run; PostgreSQL queues the
\* transactions that wait for a row, so none is overtaken for ever.
Fairness ==
    \A r \in Req :
        /\ WF_vars(Load(r)) /\ WF_vars(IssuePair(r))
        /\ WF_vars(ScanFamily(r) \/ ScanUser(r))
        /\ SF_vars(Write(r))
        /\ WF_vars(Commit(r)) /\ WF_vars(Reply(r) \/ LoseReply(r))

FairSpec == Spec /\ Fairness

-----------------------------------------------------------------------------
(* Properties that hold whatever the interleaving *)

\* Revocation is permanent.  No request, however stale the record it loaded,
\* brings a revoked refresh token back.
RevocationIsPermanent == [][\A t \in Token : revoked[t] => revoked'[t]]_vars

\* The rotation chain of a stored token is intact: it starts at a stored
\* token of the same account and family, a token that was rotated is revoked
\* and names a stored successor of its own family and account, and a family
\* that has grown has lost its first token.
ChainWellFormed ==
    \A t \in rows :
        /\ family[t] \in rows
        /\ owner[family[t]] = owner[t]
        /\ family[family[t]] = family[t]
        /\ family[t] # t => revoked[family[t]]
        /\ replacedBy[t] # NoToken =>
             /\ revoked[t]
             /\ replacedBy[t] \in rows \ {t}
             /\ family[replacedBy[t]] = family[t]
             /\ owner[replacedBy[t]] = owner[t]

\* A commit revokes only what its request is entitled to: the token presented
\* to refresh or logout, the family of a replayed token, or the tokens of the
\* account whose password changed.
RevocationIsJustified ==
    [][\A t \in Token : revoked'[t] /\ ~revoked[t] =>
         \E r \in Req :
            /\ req[r].pc = "commit" /\ req'[r].pc # "commit"
            /\ \/ req[r].op \in TokenOps /\ t = req[r].tok
               \/ req[r].op = "reuse" /\ family[t] = family[req[r].tok]
               \/ req[r].op = "password" /\ owner[t] = req[r].user]_vars

\* A logout that was answered has ended its token.
LogoutSticks == \A t \in loggedOut : revoked[t]

\* A token pair that reached a client is in the database (the docstring of
\* core/database.py: the session commits before the response is serialized).
AckedIsDurable == delivered \subseteq rows

\* A request that arrives after its account was deleted neither issues a
\* token nor changes the password.
DeletedAccountIsShut ==
    \A r \in Req : req[r].barred /\ req[r].op \in {"login", "refresh", "password"} =>
        req[r].ins = NoToken /\ req[r].locks = {}

\* No request waits for ever, neither for a row lock nor for anything else.
RequestsFinish == \A r \in Req : req[r].pc # "idle" ~> req[r].pc = "idle"

-----------------------------------------------------------------------------
(* Properties the code keeps as long as requests do not overlap *)

\* Rotation leaves one usable token in a family.
OneLiveTokenPerFamily ==
    \A t1, t2 \in rows : family[t1] = family[t2] /\ ~revoked[t1] /\ ~revoked[t2] => t1 = t2

\* After the answer TOKEN_REUSE_DETECTED "neither party keeps a valid
\* session" (comment in AuthService.refresh).
ReuseEndsFamily == \A t \in rows : family[t] \in reported => revoked[t]

\* Every usable session was opened with the password the account has now:
\* a password change revokes the outstanding ones (README, RBAC rules).
PasswordChangeEndsSessions ==
    \A t \in rows : ~revoked[t] => born[t] = password[owner[t]]

=============================================================================
