--------------------------- MODULE SessionsProofs ---------------------------
(***************************************************************************)
(* What Sessions guarantees for every number of accounts, tokens and       *)
(* concurrent requests, under every interleaving and in both builds.       *)
(*                                                                         *)
(* ChainWellFormed is not inductive: a commit extends a chain by the row a *)
(* request inserted several statements earlier, so the invariant must say  *)
(* what a request in flight knows (CallOK): that the token it presented is *)
(* still a row of the account it acts for, that the row it inserted is     *)
(* nobody else's and not visible yet, and which rows it may have locked.   *)
(***************************************************************************)
EXTENDS Sessions, TLAPS

\* The transaction of request q is over, only its answer is left.
Over(q) == q.pc = "reply" /\ (CommitFirst \/ q.op = "reuse")

\* The statements each kind of request goes through.
Route(q) ==
    /\ q.op = "none" => q = Idle
    /\ q.op = "login" => q.pc \in {"user", "insert", "commit", "reply"}
    /\ q.op = "refresh" => q.pc \in {"token", "user", "insert", "revoke", "commit", "reply"}
    /\ q.op = "logout" => q.pc \in {"token", "revoke", "commit", "reply"}
    /\ q.op = "reuse" => q.pc \in {"scan", "sweep", "commit", "reply"}
    /\ q.op = "password" => q.pc \in {"user", "scan", "sweep", "write", "commit", "reply"}
    /\ q.op \in AdminOps => q.pc \in {"user", "write", "commit", "reply"}

\* What a request was given.
Given(q) ==
    /\ q.op \in {"login", "password"} \cup AdminOps => q.user \in User
    /\ q.op = "login" => q.given \in Password
    /\ q.op = "password" => q.new \in Password
    /\ q.op \in TokenOps => q.tok \in Token
    /\ q.op = "reuse" => q.tok \in rows
    /\ q.op = "refresh" /\ q.pc # "token" => q.tok \in rows /\ q.user = owner[q.tok]

\* The row it inserted.
Inserted(q) ==
    /\ q.ins # NoToken => q.op \in {"login", "refresh"}
    /\ q.pc \in {"token", "user", "insert"} => q.ins = NoToken
    /\ q.op = "refresh" /\ q.pc \in {"revoke", "commit", "reply"} => q.ins # NoToken
    /\ q.ins # NoToken /\ ~Over(q) => q.ins \notin rows

\* The rows it has found and locked.
Writes(q) ==
    /\ q.pc # "sweep" => q.scan = {}
    /\ q.op \in TokenOps => q.locks \subseteq {q.tok}
    /\ q.op = "refresh" /\ q.pc \in {"commit", "reply"} /\ ~Over(q) => q.tok \in q.locks
    /\ q.op = "login" => q.locks = {}
    /\ q.op \in AdminOps => q.locks \subseteq {q.user}
    /\ q.op = "reuse" =>
         \A t \in q.scan \cup q.locks : t \in rows /\ family[t] = family[q.tok]
    /\ q.op = "password" =>
         \A t \in q.scan \cup q.locks : t = q.user \/ (t \in rows /\ owner[t] = q.user)

CallOK(q) == q \in Request /\ Route(q) /\ Given(q) /\ Inserted(q) /\ Writes(q)

InsertsDiffer ==
    \A r1, r2 \in Req : r1 # r2 /\ req[r1].ins # NoToken => req[r1].ins # req[r2].ins

RowsOwned == \A t \in rows : owner[t] \in User

FreshIsUnlinked == \A t \in Token \ rows : replacedBy[t] = NoToken

IInv ==
    /\ TypeOK
    /\ RowsOwned
    /\ \A r \in Req : CallOK(req[r])
    /\ InsertsDiffer
    /\ FreshIsUnlinked
    /\ ChainWellFormed

-----------------------------------------------------------------------------
(* Steps that leave the tables alone *)

LEMMA IdleOK == CallOK(Idle)
BY ConstantsAssumption
   DEF CallOK, Idle, Request, Stage, Op, TokenOps, AdminOps, Route, Given, Inserted, Writes

LEMMA InitInv == Init => IInv
<1> SUFFICES ASSUME Init PROVE IInv
  OBVIOUS
<1>1. TypeOK
  BY IdleOK DEF Init, TypeOK, CallOK
<1>2. \A r \in Req : CallOK(req[r]) /\ req[r].ins = NoToken
  BY IdleOK DEF Init, Idle
<1> QED BY <1>1, <1>2
        DEF Init, IInv, RowsOwned, InsertsDiffer, FreshIsUnlinked, ChainWellFormed

\* A step that only moves one request keeps the invariant, if what it makes
\* of the request is in order and the row inserted is its own.
LEMMA QuietStep ==
    ASSUME IInv, NEW r \in Req, NEW call, CallOK(call),
           req' = [req EXCEPT ![r] = call],
           call.ins = NoToken \/ \A q \in Req \ {r} : call.ins # req[q].ins,
           UNCHANGED <<tokenVars, userVars, expired>>,
           delivered' \subseteq Token,
           reported' \subseteq Token \cup {NoToken},
           loggedOut' \subseteq Token \cup {NoToken}
    PROVE  IInv'
<1> USE DEF tokenVars, userVars
<1>1. TypeOK'
  BY DEF IInv, TypeOK, CallOK
<1>2. RowsOwned' /\ FreshIsUnlinked' /\ ChainWellFormed'
  BY DEF IInv, RowsOwned, FreshIsUnlinked, ChainWellFormed
<1>3. \A q \in Req : CallOK(req'[q])
  BY DEF IInv, TypeOK
<1>4. \A q \in Req : CallOK(req[q])'
  BY <1>3 DEF CallOK, Route, Given, Inserted, Writes, Over
<1>5. InsertsDiffer'
  BY DEF IInv, TypeOK, InsertsDiffer
<1> QED BY <1>1, <1>2, <1>4, <1>5 DEF IInv

\* The same for a statement that keeps the inserted row.
LEMMA QuietCall ==
    ASSUME IInv, NEW r \in Req, NEW call, CallOK(call),
           call.ins \in {NoToken, req[r].ins},
           req' = [req EXCEPT ![r] = call],
           UNCHANGED <<tokenVars, userVars, clientVars, expired>>
    PROVE  IInv'
<1>1. call.ins = NoToken \/ \A q \in Req \ {r} : call.ins # req[q].ins
  BY DEF IInv, InsertsDiffer
<1> QED BY <1>1, QuietStep DEF clientVars, IInv, TypeOK

LEMMA DenyInv ==
    ASSUME IInv, NEW r \in Req, Deny(r)
    PROVE  IInv'
BY QuietCall, IdleOK DEF Deny, Idle

LEMMA ArriveInv ==
    ASSUME IInv, NEW r \in Req, NEW call, NEW u, Arrive(r, call, u),
           CallOK([call EXCEPT !.barred = u \in User /\ deleted[u]]),
           [call EXCEPT !.barred = u \in User /\ deleted[u]].ins = NoToken
    PROVE  IInv'
BY QuietCall DEF Arrive

LEMMA BeginInv ==
    ASSUME IInv, NEW r \in Req, Begin(r)
    PROVE  IInv'
<1> USE DEF Request, Stage, Op, TokenOps, AdminOps, Idle, Route, Given, Inserted,
            Writes, Over
<1> DEFINE Barred(u) == u \in User /\ deleted[u]
<1>0. \A u : Barred(u) \in BOOLEAN
  BY DEF IInv, TypeOK
<1> HIDE DEF Barred
<1>1. CASE BeginLogin(r)
  <2>1. PICK u \in User, p \in Password :
          Arrive(r, [Idle EXCEPT !.pc = "user", !.op = "login", !.user = u, !.given = p],
                 u)
    BY <1>1 DEF BeginLogin
  <2> DEFINE call == [Idle EXCEPT !.pc = "user", !.op = "login", !.user = u, !.given = p]
             made == [call EXCEPT !.barred = Barred(u)]
  <2>2. CallOK(made) /\ made.ins = NoToken
    BY <1>0, <2>1 DEF CallOK
  <2> HIDE DEF call
  <2> QED BY <2>1, <2>2, ArriveInv DEF Barred, call
<1>2. CASE BeginRefresh(r)
  <2>1. PICK t \in delivered :
          Arrive(r, [Idle EXCEPT !.pc = "token", !.op = "refresh", !.tok = t],
                 owner[t])
    BY <1>2 DEF BeginRefresh
  <2> DEFINE call == [Idle EXCEPT !.pc = "token", !.op = "refresh", !.tok = t]
             made == [call EXCEPT !.barred = Barred(owner[t])]
  <2>2. CallOK(made) /\ made.ins = NoToken
    BY <1>0, <2>1 DEF IInv, TypeOK, CallOK
  <2> HIDE DEF call
  <2> QED BY <2>1, <2>2, ArriveInv DEF Barred, call
<1>3. CASE BeginLogout(r)
  <2>1. PICK t \in delivered :
          Arrive(r, [Idle EXCEPT !.pc = "token", !.op = "logout", !.tok = t],
                 owner[t])
    BY <1>3 DEF BeginLogout
  <2> DEFINE call == [Idle EXCEPT !.pc = "token", !.op = "logout", !.tok = t]
             made == [call EXCEPT !.barred = Barred(owner[t])]
  <2>2. CallOK(made) /\ made.ins = NoToken
    BY <1>0, <2>1 DEF IInv, TypeOK, CallOK
  <2> HIDE DEF call
  <2> QED BY <2>1, <2>2, ArriveInv DEF Barred, call
<1>4. CASE BeginChangePassword(r)
  <2>1. PICK t \in delivered \cap rows, old \in Password, new \in Password :
          Arrive(r, [Idle EXCEPT !.pc = "user", !.op = "password", !.user = owner[t],
                                  !.given = old, !.new = new],
                 owner[t])
    BY <1>4 DEF BeginChangePassword
  <2> DEFINE call == [Idle EXCEPT !.pc = "user", !.op = "password", !.user = owner[t],
                                  !.given = old, !.new = new]
             made == [call EXCEPT !.barred = Barred(owner[t])]
  <2>2. CallOK(made) /\ made.ins = NoToken
    BY <1>0, <2>1 DEF IInv, RowsOwned, CallOK
  <2> HIDE DEF call
  <2> QED BY <2>1, <2>2, ArriveInv DEF Barred, call
<1>5. CASE BeginAdmin(r)
  <2>1. PICK u \in User, op \in AdminOps :
          Arrive(r, [Idle EXCEPT !.pc = "user", !.op = op, !.user = u],
                 u)
    BY <1>5 DEF BeginAdmin
  <2> DEFINE call == [Idle EXCEPT !.pc = "user", !.op = op, !.user = u]
             made == [call EXCEPT !.barred = Barred(u)]
  <2>2. CallOK(made) /\ made.ins = NoToken
    BY <1>0, <2>1 DEF CallOK
  <2> HIDE DEF call
  <2> QED BY <2>1, <2>2, ArriveInv DEF Barred, call
<1> QED BY <1>1, <1>2, <1>3, <1>4, <1>5 DEF Begin

\* A statement that moves a request to its next one, as its route allows.
LEMMA StepToInv ==
    ASSUME IInv, NEW r \in Req, NEW pc \in Stage, StepTo(r, pc),
           CallOK([req[r] EXCEPT !.pc = pc])
    PROVE  IInv'
<1> DEFINE call == [req[r] EXCEPT !.pc = pc]
<1>1. req' = [req EXCEPT ![r] = call]
  BY DEF StepTo, Goto
<1>2. call.ins = req[r].ins
  BY DEF IInv, CallOK, Request
<1> QED BY <1>1, <1>2, QuietCall DEF StepTo

LEMMA LoadInv ==
    ASSUME IInv, NEW r \in Req, Load(r)
    PROVE  IInv'
<1> DEFINE q == req[r]
<1>0. CallOK(q)
  BY DEF IInv
<1> USE DEF Request, Stage, Op, TokenOps, AdminOps, Idle, Route, Given, Inserted,
            Writes, Over, At, Finished, CommitsFirst
<1>1. CASE LoginRefused(r) \/ RefreshRefused(r) \/ RefreshOwnerRefused(r) \/ ChangeRefused(r)
  BY <1>1, DenyInv DEF LoginRefused, RefreshRefused, RefreshOwnerRefused, ChangeRefused
<1>2. CASE LoginVerified(r) \/ RefreshOwnerFound(r)
  <2>1. CallOK([q EXCEPT !.pc = "insert"])
    BY <1>0, <1>2 DEF LoginVerified, RefreshOwnerFound, CallOK
  <2> QED BY <1>2, <2>1, StepToInv DEF LoginVerified, RefreshOwnerFound
<1>3. CASE LogoutFound(r)
  <2>1. CallOK([q EXCEPT !.pc = "revoke"])
    BY <1>0, <1>3 DEF LogoutFound, CallOK
  <2> QED BY <1>3, <2>1, StepToInv DEF LogoutFound
<1>4. CASE ChangeVerified(r)
  <2>1. CallOK([q EXCEPT !.pc = "scan"])
    BY <1>0, <1>4 DEF ChangeVerified, CallOK
  <2> QED BY <1>4, <2>1, StepToInv DEF ChangeVerified
<1>5. CASE LogoutMoot(r)
  <2>1. CallOK([q EXCEPT !.pc = Finished(r)])
    BY <1>0, <1>5 DEF LogoutMoot, CallOK
  <2> QED BY <1>5, <2>1, StepToInv DEF LogoutMoot
<1>6. CASE RefreshReplayed(r)
  <2> DEFINE call == [q EXCEPT !.op = "reuse", !.pc = "scan"]
  <2>1. CallOK(call) /\ call.ins = q.ins
    BY <1>0, <1>6 DEF RefreshReplayed, CallOK
  <2>2. req' = [req EXCEPT ![r] = call]
    BY <1>6 DEF RefreshReplayed
  <2> QED BY <1>6, <2>1, <2>2, QuietCall DEF RefreshReplayed
<1>7. CASE RefreshAccepted(r)
  <2> DEFINE call == [q EXCEPT !.pc = "user", !.user = owner[q.tok]]
  <2>1. owner[q.tok] \in User
    BY <1>7 DEF RefreshAccepted, IInv, RowsOwned
  <2>2. CallOK(call) /\ call.ins = q.ins
    BY <1>0, <1>7, <2>1 DEF RefreshAccepted, CallOK
  <2>3. req' = [req EXCEPT ![r] = call]
    BY <1>7 DEF RefreshAccepted
  <2> QED BY <1>7, <2>2, <2>3, QuietCall DEF RefreshAccepted
<1>8. CASE AdminLoads(r)
  <2>1. CallOK([q EXCEPT !.pc = Finished(r)]) /\ CallOK([q EXCEPT !.pc = "write"])
    BY <1>0, <1>8 DEF AdminLoads, CallOK
  <2> QED BY <1>8, <2>1, StepToInv, DenyInv DEF AdminLoads
<1> QED BY <1>1, <1>2, <1>3, <1>4, <1>5, <1>6, <1>7, <1>8 DEF Load

LEMMA IssuePairInv ==
    ASSUME IInv, NEW r \in Req, IssuePair(r)
    PROVE  IInv'
<1> DEFINE q == req[r]
<1>0. CallOK(q)
  BY DEF IInv
<1>1. PICK t \in Fresh :
        req' = [req EXCEPT ![r].ins = t,
                           ![r].pc = IF q.op = "login" THEN Finished(r) ELSE "revoke"]
  BY DEF IssuePair
<1> DEFINE call == [q EXCEPT !.ins = t,
                             !.pc = IF q.op = "login" THEN Finished(r) ELSE "revoke"]
<1>2. t \in Token /\ t \notin rows /\ \A p \in Req : t # req[p].ins
  BY <1>1 DEF Fresh
<1>3. q.op \in {"login", "refresh"}
  BY <1>0 DEF IssuePair, CallOK, Request, Route, Idle, Op, TokenOps, AdminOps
<1>4. CallOK(call) /\ call.ins = t
  BY <1>0, <1>2, <1>3
     DEF IssuePair, CallOK, Request, Stage, Op, TokenOps, AdminOps, Idle, Route, Given,
         Inserted, Writes, Over, Finished, CommitsFirst
<1>5. req' = [req EXCEPT ![r] = call]
  BY <1>0, <1>1 DEF CallOK, Request, IInv, TypeOK
<1> QED BY <1>2, <1>4, <1>5, QuietStep DEF IssuePair, clientVars, IInv, TypeOK

LEMMA ScanInv ==
    ASSUME IInv, NEW r \in Req, ScanFamily(r) \/ ScanUser(r)
    PROVE  IInv'
<1> DEFINE q == req[r]
<1>0. CallOK(q) /\ rows \subseteq Token
  BY DEF IInv, TypeOK
<1> USE DEF Request, Stage, Op, TokenOps, AdminOps, Idle, Route, Given, Inserted,
            Writes, Over, At
<1>1. CASE ScanFamily(r)
  <2> DEFINE call == [q EXCEPT !.pc = "sweep",
                               !.scan = {t \in rows : family[t] = family[q.tok] /\ ~revoked[t]}]
  <2>1. CallOK(call) /\ call.ins = q.ins
    BY <1>0, <1>1 DEF ScanFamily, CallOK
  <2>2. req' = [req EXCEPT ![r] = call]
    BY <1>1 DEF ScanFamily
  <2> QED BY <1>1, <2>1, <2>2, QuietCall DEF ScanFamily
<1>2. CASE ScanUser(r)
  <2> DEFINE call == [q EXCEPT !.pc = "sweep",
                               !.scan = {t \in rows : owner[t] = q.user /\ ~revoked[t]}]
  <2>1. CallOK(call) /\ call.ins = q.ins
    BY <1>0, <1>2 DEF ScanUser, CallOK
  <2>2. req' = [req EXCEPT ![r] = call]
    BY <1>2 DEF ScanUser
  <2> QED BY <1>2, <2>1, <2>2, QuietCall DEF ScanUser
<1> QED BY <1>1, <1>2

LEMMA FinishedIs == ASSUME NEW r \in Req PROVE Finished(r) \in {"commit", "reply"}
BY DEF Finished

LEMMA WriteInv ==
    ASSUME IInv, NEW r \in Req, Write(r)
    PROVE  IInv'
<1> DEFINE q == req[r]
<1>0. CallOK(q) /\ Finished(r) \in {"commit", "reply"}
  BY FinishedIs DEF IInv
<1>1. CASE Revoke(r)
  <2> DEFINE call == [q EXCEPT !.locks = q.locks \cup {q.tok}, !.pc = Finished(r)]
  <2>1. q.op \in TokenOps /\ q.tok \in Token /\ q.pc = "revoke"
    BY <1>0, <1>1 DEF Revoke, CallOK, Request, Op, TokenOps, AdminOps, Route, Given, Idle
  <2>2. call \in Request /\ call.ins = q.ins
    BY <1>0, <2>1 DEF CallOK, Request, Stage
  <2>3. Route(call) /\ Given(call) /\ Inserted(call)
    BY <1>0, <2>1 DEF CallOK, Request, TokenOps, AdminOps, Route, Given, Inserted, Over
  <2>4. Writes(call)
    BY <1>0, <2>1 DEF CallOK, Request, TokenOps, AdminOps, Writes
  <2>5. req' = [req EXCEPT ![r] = call]
    BY <1>1 DEF Revoke
  <2> QED BY <1>1, <2>2, <2>3, <2>4, <2>5, QuietCall DEF Revoke, CallOK
<1>2. CASE Sweep(r)
  <2> DEFINE next == IF q.op = "reuse" THEN Finished(r) ELSE "write"
             call == [q EXCEPT !.locks = {t \in q.scan : ~revoked[t]}, !.scan = {},
                               !.pc = next]
  <2>1. q.op \in {"reuse", "password"} /\ q.pc = "sweep"
    <3>1. q.pc = "sweep"
      BY <1>2 DEF Sweep
    <3> QED BY <1>0, <3>1 DEF CallOK, Request, Op, TokenOps, AdminOps, Route, Idle
  <2>2. call \in Request /\ call.ins = q.ins
    BY <1>0, <2>1 DEF CallOK, Request, Stage
  <2>3. Route(call) /\ Given(call) /\ Inserted(call)
    BY <1>0, <2>1 DEF CallOK, Request, TokenOps, AdminOps, Route, Given, Inserted, Over
  <2>4. Writes(call)
    BY <1>0, <2>1 DEF CallOK, Request, TokenOps, AdminOps, Writes
  <2>5. req' = [req EXCEPT ![r] = call]
    BY <1>2 DEF Sweep
  <2> QED BY <1>2, <2>2, <2>3, <2>4, <2>5, QuietCall DEF Sweep, CallOK
<1>3. CASE WriteUser(r)
  <2> DEFINE call == [q EXCEPT !.locks = q.locks \cup {q.user}, !.pc = Finished(r)]
  <2>1. q.op \in {"password"} \cup AdminOps /\ q.user \in User /\ q.pc = "write"
    BY <1>0, <1>3 DEF WriteUser, CallOK, Request, Op, TokenOps, AdminOps, Route, Given, Idle
  <2>2. call \in Request /\ call.ins = q.ins
    BY <1>0, <2>1 DEF CallOK, Request, Stage
  <2>3. Route(call) /\ Given(call) /\ Inserted(call)
    BY <1>0, <2>1 DEF CallOK, Request, TokenOps, AdminOps, Route, Given, Inserted, Over
  <2>4. Writes(call)
    BY <1>0, <2>1 DEF CallOK, Request, TokenOps, AdminOps, Writes
  <2>5. req' = [req EXCEPT ![r] = call]
    BY <1>3 DEF WriteUser
  <2> QED BY <1>3, <2>2, <2>3, <2>4, <2>5, QuietCall DEF WriteUser, CallOK
<1> QED BY <1>1, <1>2, <1>3 DEF Write

LEMMA AnswerInv ==
    ASSUME IInv, NEW r \in Req, Reply(r) \/ LoseReply(r)
    PROVE  IInv'
<1> DEFINE q == req[r]
           call == IF CommitsFirst(r) THEN Idle ELSE [q EXCEPT !.pc = "commit"]
<1>0. CallOK(q) /\ q.pc = "reply"
  BY DEF IInv, Reply, LoseReply
<1>1. CallOK(call)
  BY <1>0, IdleOK
     DEF CallOK, Request, Stage, Op, TokenOps, AdminOps, Idle, Route, Given, Inserted,
         Writes, Over, CommitsFirst
<1>2. req' = [req EXCEPT ![r] = call]
  BY DEF Reply, LoseReply, Answered
<1>3. call.ins \in {NoToken, q.ins}
  BY <1>0 DEF CallOK, Request, Idle
<1>4. call.ins = NoToken \/ \A p \in Req \ {r} : call.ins # req[p].ins
  BY <1>3 DEF IInv, InsertsDiffer
<1>5. /\ delivered' \subseteq Token
      /\ reported' \subseteq Token \cup {NoToken}
      /\ loggedOut' \subseteq Token \cup {NoToken}
  BY <1>0 DEF Reply, LoseReply, clientVars, IInv, TypeOK, CallOK, Request, Given
<1> HIDE DEF call
<1>6. CASE Reply(r)
  BY <1>1, <1>2, <1>4, <1>5, <1>6, QuietStep DEF Reply
<1>7. CASE LoseReply(r)
  BY <1>1, <1>2, <1>4, <1>5, <1>7, QuietStep DEF LoseReply
<1> QED BY <1>6, <1>7

LEMMA AbortInv ==
    ASSUME IInv, NEW r \in Req, Abort(r)
    PROVE  IInv'
BY DenyInv DEF Abort

LEMMA ExpireInv ==
    ASSUME IInv, Expire
    PROVE  IInv'
<1> USE DEF Expire, tokenVars, userVars, clientVars
<1>1. TypeOK'
  BY DEF IInv, TypeOK
<1>2. \A r \in Req : CallOK(req[r])'
  BY DEF IInv, CallOK, Route, Given, Inserted, Writes, Over
<1> QED BY <1>1, <1>2 DEF IInv, RowsOwned, InsertsDiffer, FreshIsUnlinked, ChainWellFormed

-----------------------------------------------------------------------------
(* The commit *)

\* The tables only grow: rows stay, keep their account and family, and a
\* revoked row stays revoked.
LEMMA CommitGrows ==
    ASSUME IInv, NEW r \in Req, Commit(r)
    PROVE  /\ rows \subseteq rows'
           /\ \A t \in rows : owner'[t] = owner[t] /\ family'[t] = family[t]
           /\ \A t \in Token : revoked[t] => revoked'[t]
           /\ req[r].ins # NoToken => req[r].ins \in Token \ rows
<1>1. CallOK(req[r]) /\ req[r].pc = "commit" /\ req[r].ins \in Token \cup {NoToken}
  BY DEF IInv, Commit, CallOK, Request
<1>2. req[r].ins # NoToken => req[r].ins \in Token \ rows
  BY <1>1 DEF CallOK, Inserted, Over
<1>3. rows \subseteq rows' /\ rows \subseteq Token
  BY DEF Commit, CommitInsert, IInv, TypeOK
<1>4. \A t \in rows : owner'[t] = owner[t] /\ family'[t] = family[t]
  BY <1>2, <1>3, ConstantsAssumption DEF Commit, CommitInsert, IInv, TypeOK
<1>5. \A t \in Token : revoked[t] => revoked'[t]
  BY DEF Commit, CommitTokens
<1> QED BY <1>2, <1>3, <1>4, <1>5

LEMMA CommitType ==
    ASSUME IInv, NEW r \in Req, Commit(r)
    PROVE  TypeOK' /\ RowsOwned'
<1> DEFINE q == req[r]
<1>1. CallOK(q) /\ q.pc = "commit"
  BY DEF IInv, Commit
<1>2. q \in Request
  BY <1>1 DEF CallOK
<1>3. q.ins \in Token => /\ q.op \in {"login", "refresh"} /\ q.user \in User
                         /\ q.op = "login" => q.given \in Password
                         /\ q.op = "refresh" => q.tok \in Token
  BY <1>1, ConstantsAssumption DEF CallOK, Inserted, Given, IInv, RowsOwned, TokenOps
<1>4. rows' \subseteq Token /\ rows' \subseteq rows \cup {q.ins}
  BY <1>2 DEF Commit, CommitInsert, IInv, TypeOK, Request
<1>5. /\ owner' \in [Token -> User \cup {NoUser}]
      /\ family' \in [Token -> Token \cup {NoToken}]
      /\ born' \in [Token -> Password \cup {NoPassword}]
  BY <1>2, <1>3 DEF Commit, CommitInsert, IInv, TypeOK
<1>6. /\ revoked' \in [Token -> BOOLEAN]
      /\ replacedBy' \in [Token -> Token \cup {NoToken}]
  BY <1>2 DEF Commit, CommitTokens, IInv, TypeOK, Request
<1>7. /\ password' \in [User -> Password]
      /\ active' \in [User -> BOOLEAN]
      /\ deleted' \in [User -> BOOLEAN]
  BY <1>1 DEF Commit, CommitUser, IInv, TypeOK, CallOK, Given
<1>8. req' \in [Req -> Request]
  <2>1. [q EXCEPT !.pc = "reply", !.locks = {}] \in Request
    BY <1>2 DEF Request, Stage
  <2>2. Idle \in Request
    BY IdleOK DEF CallOK
  <2> QED BY <2>1, <2>2 DEF Commit, IInv, TypeOK
<1>9. TypeOK'
  BY <1>4, <1>5, <1>6, <1>7, <1>8 DEF TypeOK, Commit, clientVars, IInv
<1>10. RowsOwned'
  <2> SUFFICES ASSUME NEW t \in rows' PROVE owner'[t] \in User
    BY DEF RowsOwned
  <2>1. CASE t \in rows
    BY <2>1, CommitGrows DEF IInv, RowsOwned
  <2>2. CASE t \notin rows
    <3>1. t = q.ins /\ t \in Token
      BY <2>2, <1>4
    <3> QED BY <3>1, <1>3 DEF Commit, CommitInsert
  <2> QED BY <2>1, <2>2
<1> QED BY <1>9, <1>10

\* The request that commits, afterwards: its row is visible, its locks gone.
LEMMA CommitCall ==
    ASSUME IInv, NEW r \in Req, Commit(r)
    PROVE  CallOK(req[r])' /\ req'[r].ins \in {NoToken, req[r].ins}
<1> DEFINE q == req[r]
<1>1. CallOK(q) /\ q.pc = "commit"
  BY DEF IInv, Commit
<1>2. CASE CommitsFirst(r)
  <2>1. PICK call : call = [q EXCEPT !.pc = "reply", !.locks = {}]
    OBVIOUS
  <2>2. req'[r] = call
    BY <1>2, <2>1 DEF Commit, IInv, TypeOK
  <2>3. call \in Request /\ call.ins = q.ins /\ Over(call)
    BY <1>1, <1>2, <2>1 DEF CallOK, Request, Stage, Over, CommitsFirst
  <2>4. q.op # "none"
    BY <1>1 DEF CallOK, Route, Idle
  <2>5. Route(call)
    BY <1>1, <2>1, <2>4 DEF CallOK, Request, Route, TokenOps, AdminOps
  <2>6. Given(call)'
    BY <1>1, <2>1, CommitGrows DEF CallOK, Request, Given, TokenOps, AdminOps
  <2>7. Inserted(call)'
    BY <1>1, <2>1, <2>3 DEF CallOK, Request, Inserted, Over
  <2>8. Writes(call)'
    BY <1>1, <2>1, <2>3 DEF CallOK, Request, Writes, Over
  <2> QED BY <2>2, <2>3, <2>5, <2>6, <2>7, <2>8 DEF CallOK, Route
<1>3. CASE ~CommitsFirst(r)
  <2>1. req'[r] = Idle
    BY <1>3 DEF Commit, IInv, TypeOK
  <2>2. CallOK(Idle)'
    BY ConstantsAssumption, IdleOK
       DEF CallOK, Idle, Request, Op, TokenOps, AdminOps, Route, Given, Inserted, Writes
  <2> QED BY <2>1, <2>2 DEF Idle
<1> QED BY <1>2, <1>3

\* The requests that do not commit: another one's row is not theirs.
LEMMA CommitOthers ==
    ASSUME IInv, NEW r \in Req, Commit(r), NEW p \in Req \ {r}
    PROVE  CallOK(req[p])' /\ req'[p] = req[p]
<1>1. CallOK(req[p]) /\ req'[p] = req[p]
  BY DEF IInv, Commit, TypeOK
<1>2. Given(req[p])'
  BY <1>1, CommitGrows DEF CallOK, Given
<1>3. req[p].ins # NoToken /\ ~Over(req[p]) => req[p].ins \notin rows'
  BY <1>1 DEF CallOK, Inserted, IInv, InsertsDiffer, Commit, CommitInsert
<1>4. Inserted(req[p])'
  BY <1>1, <1>3 DEF CallOK, Inserted, Over
<1>5. Writes(req[p])'
  <2>1. req[p].op = "reuse" => req[p].tok \in rows
    BY <1>1 DEF CallOK, Given
  <2> QED BY <1>1, <2>1, CommitGrows DEF CallOK, Writes, Over
<1> QED BY <1>1, <1>2, <1>4, <1>5 DEF CallOK, Route

\* What a refresh adds to a chain.
LEMMA CommitRefresh ==
    ASSUME IInv, NEW r \in Req, Commit(r), req[r].op = "refresh"
    PROVE  LET t == req[r].ins
               p == req[r].tok
           IN  /\ t \in Token \ rows /\ p \in rows /\ t # p
               /\ owner'[t] = owner[p] /\ family'[t] = family[p]
               /\ revoked'[p] /\ p \in req[r].locks
               /\ req[r].locks \subseteq {p}
<1> DEFINE q == req[r]
<1>1. CallOK(q) /\ q.pc = "commit"
  BY DEF IInv, Commit
<1>2. /\ q.tok \in rows /\ q.user = owner[q.tok]
      /\ q.ins # NoToken
      /\ q.tok \in q.locks /\ q.locks \subseteq {q.tok}
  BY <1>1 DEF CallOK, Given, Inserted, Writes, Over, TokenOps
<1>3. q.ins \in Token \ rows
  BY <1>2, CommitGrows
<1>4. owner'[q.ins] = owner[q.tok] /\ family'[q.ins] = family[q.tok]
  BY <1>2, <1>3 DEF Commit, CommitInsert
<1>5. revoked'[q.tok]
  BY <1>2 DEF Commit, CommitTokens, IInv, TypeOK
<1> QED BY <1>2, <1>3, <1>4, <1>5

LEMMA CommitUnlinked ==
    ASSUME IInv, NEW r \in Req, Commit(r)
    PROVE  FreshIsUnlinked'
<1> SUFFICES ASSUME NEW t \in Token \ rows' PROVE replacedBy'[t] = NoToken
  BY DEF FreshIsUnlinked
<1>1. t \notin rows /\ replacedBy[t] = NoToken
  BY CommitGrows DEF IInv, FreshIsUnlinked
<1>2. req[r].op = "refresh" => t \notin req[r].locks
  BY <1>1, CommitRefresh
<1> QED BY <1>1, <1>2 DEF Commit, CommitTokens

LEMMA CommitChain ==
    ASSUME IInv, NEW r \in Req, Commit(r)
    PROVE  ChainWellFormed'
<1> DEFINE q == req[r]
           Linked(t) ==
             /\ family[t] \in rows
             /\ owner[family[t]] = owner[t]
             /\ family[family[t]] = family[t]
             /\ family[t] # t => revoked[family[t]]
           Replaced(t) ==
             replacedBy[t] # NoToken =>
               /\ revoked[t]
               /\ replacedBy[t] \in rows \ {t}
               /\ family[replacedBy[t]] = family[t]
               /\ owner[replacedBy[t]] = owner[t]
<1>1. rows' = rows \cup ({q.ins} \ {NoToken}) /\ rows \subseteq Token
  BY DEF Commit, CommitInsert, IInv, TypeOK
<1>2. \A t \in rows : Linked(t) /\ Replaced(t)
  BY DEF IInv, ChainWellFormed
<1>3. \A t \in rows : Linked(t)'
  BY <1>1, <1>2, CommitGrows
<1>4. CallOK(q) /\ q.pc = "commit"
  BY DEF IInv, Commit
<1>5. ASSUME NEW t \in rows' \ rows PROVE Linked(t)'
  <2>0. t = q.ins /\ t # NoToken /\ t \in Token
    BY <1>1, CommitGrows
  <2>1. q.op \in {"login", "refresh"}
    BY <1>4, <2>0 DEF CallOK, Inserted
  <2>2. CASE q.op = "login"
    <3>1. family'[t] = t
      BY <2>0, <2>2 DEF Commit, CommitInsert
    <3> QED BY <3>1
  <2>3. CASE q.op = "refresh"
    <3>1. /\ q.tok \in rows /\ owner'[t] = owner[q.tok]
          /\ family'[t] = family[q.tok] /\ revoked'[q.tok]
      BY <2>0, <2>3, CommitRefresh
    <3>2. Linked(q.tok) /\ family[q.tok] \in Token
      BY <1>1, <1>2, <3>1
    <3>3. /\ family'[t] \in rows'
          /\ owner'[family'[t]] = owner'[t]
          /\ family'[family'[t]] = family'[t]
      BY <1>1, <3>1, <3>2, CommitGrows
    <3>4. revoked'[family'[t]]
      BY <3>1, <3>2, CommitGrows
    <3> QED BY <3>3, <3>4
  <2> QED BY <2>1, <2>2, <2>3
<1>6. \A t \in rows' : Replaced(t)'
  <2> SUFFICES ASSUME NEW t \in rows', replacedBy'[t] # NoToken PROVE Replaced(t)'
    OBVIOUS
  <2>0. t \in Token
    BY CommitType DEF TypeOK
  <2>1. CASE q.op = "refresh" /\ t \in q.locks
    <3>1. replacedBy'[t] = q.ins /\ t = q.tok
      BY <2>0, <2>1, CommitRefresh DEF Commit, CommitTokens
    <3> QED BY <1>1, <2>1, <3>1, CommitRefresh, CommitGrows
  <2>2. CASE ~(q.op = "refresh" /\ t \in q.locks)
    <3>1. replacedBy'[t] = replacedBy[t]
      BY <2>0, <2>2 DEF Commit, CommitTokens
    <3>2. CASE t \in rows
      BY <1>1, <1>2, <3>1, <3>2, CommitGrows
    <3>3. CASE t \notin rows
      BY <2>0, <3>1, <3>3 DEF IInv, FreshIsUnlinked
    <3> QED BY <3>2, <3>3
  <2> QED BY <2>1, <2>2
<1> QED BY <1>1, <1>3, <1>5, <1>6 DEF ChainWellFormed

LEMMA CommitInv ==
    ASSUME IInv, NEW r \in Req, Commit(r)
    PROVE  IInv'
<1>1. \A p \in Req : CallOK(req[p])' /\ req'[p].ins \in {NoToken, req[p].ins}
  BY CommitCall, CommitOthers
<1>2. InsertsDiffer'
  BY <1>1 DEF IInv, InsertsDiffer
<1> QED BY <1>1, <1>2, CommitType, CommitUnlinked, CommitChain DEF IInv

-----------------------------------------------------------------------------
(* The specification *)

LEMMA NextInv == IInv /\ [Next]_vars => IInv'
<1> SUFFICES ASSUME IInv, [Next]_vars PROVE IInv'
  OBVIOUS
<1>1. CASE UNCHANGED vars
  <2> USE <1>1 DEF vars, tokenVars, userVars, clientVars
  <2>1. TypeOK' /\ RowsOwned' /\ InsertsDiffer' /\ FreshIsUnlinked' /\ ChainWellFormed'
    BY DEF IInv, TypeOK, RowsOwned, InsertsDiffer, FreshIsUnlinked, ChainWellFormed
  <2>2. \A r \in Req : CallOK(req[r])'
    BY DEF IInv, CallOK, Route, Given, Inserted, Writes, Over
  <2> QED BY <2>1, <2>2 DEF IInv
<1>2. ASSUME NEW r \in Req, Begin(r) PROVE IInv'
  BY <1>2, BeginInv
<1>3. ASSUME NEW r \in Req, Load(r) PROVE IInv'
  BY <1>3, LoadInv
<1>4. ASSUME NEW r \in Req, IssuePair(r) PROVE IInv'
  BY <1>4, IssuePairInv
<1>5. ASSUME NEW r \in Req, ScanFamily(r) \/ ScanUser(r) PROVE IInv'
  BY <1>5, ScanInv
<1>6. ASSUME NEW r \in Req, Write(r) PROVE IInv'
  BY <1>6, WriteInv
<1>7. ASSUME NEW r \in Req, Commit(r) PROVE IInv'
  BY <1>7, CommitInv
<1>8. ASSUME NEW r \in Req, Reply(r) \/ LoseReply(r) PROVE IInv'
  BY <1>8, AnswerInv
<1>9. ASSUME NEW r \in Req, Abort(r) PROVE IInv'
  BY <1>9, AbortInv
<1>10. CASE Expire
  BY <1>10, ExpireInv
<1> QED BY <1>1, <1>2, <1>3, <1>4, <1>5, <1>6, <1>7, <1>8, <1>9, <1>10 DEF Next

THEOREM SpecInv == Spec => []IInv
BY InitInv, NextInv, PTL DEF Spec

\* Every variable keeps its type.
THEOREM SpecTypeOK == Spec => []TypeOK
<1>1. IInv => TypeOK
  BY DEF IInv
<1> QED BY <1>1, SpecInv, PTL

\* Whatever the interleaving of refreshes, replays, logouts and password
\* changes, every stored token belongs to a chain that starts at a stored
\* token of the same account, and a token with a successor is revoked.
THEOREM SpecChainWellFormed == Spec => []ChainWellFormed
<1>1. IInv => ChainWellFormed
  BY DEF IInv
<1> QED BY <1>1, SpecInv, PTL

\* Only a commit writes the token table.
LEMMA OnlyCommitWrites ==
    ASSUME [Next]_vars, \A r \in Req : ~Commit(r)
    PROVE  UNCHANGED tokenVars
<1> USE DEF tokenVars, vars
<1>1. ASSUME NEW r \in Req, Begin(r) PROVE UNCHANGED tokenVars
  BY <1>1 DEF Begin, BeginLogin, BeginRefresh, BeginLogout, BeginChangePassword, BeginAdmin,
              Arrive
<1>2. ASSUME NEW r \in Req, Load(r) PROVE UNCHANGED tokenVars
  BY <1>2 DEF Load, LoginRefused, LoginVerified, RefreshRefused, RefreshReplayed,
              RefreshAccepted, RefreshOwnerRefused, RefreshOwnerFound, LogoutMoot,
              LogoutFound, ChangeRefused, ChangeVerified, AdminLoads, Deny, StepTo
<1>3. ASSUME NEW r \in Req,
             IssuePair(r) \/ ScanFamily(r) \/ ScanUser(r) \/ Write(r)
             \/ Reply(r) \/ LoseReply(r) \/ Abort(r)
      PROVE UNCHANGED tokenVars
  BY <1>3 DEF IssuePair, ScanFamily, ScanUser, Write, Revoke, Sweep, WriteUser,
              Reply, LoseReply, Abort, Deny
<1> QED BY <1>1, <1>2, <1>3 DEF Next, Expire

\* A revoked refresh token stays revoked.
THEOREM SpecRevocationIsPermanent == Spec => RevocationIsPermanent
<1> DEFINE Step == \A t \in Token : revoked[t] => revoked'[t]
<1>1. ASSUME IInv, [Next]_vars PROVE [Step]_vars
  <2>1. CASE \E r \in Req : Commit(r)
    BY <1>1, <2>1, CommitGrows
  <2>2. CASE \A r \in Req : ~Commit(r)
    BY <1>1, <2>2, OnlyCommitWrites DEF tokenVars
  <2> QED BY <2>1, <2>2
<1> QED BY <1>1, SpecInv, PTL DEF Spec, RevocationIsPermanent

\* A commit revokes the token its request presented, the family of a replayed
\* token, or the tokens of the account whose password changed, nothing else.
THEOREM SpecRevocationIsJustified == Spec => RevocationIsJustified
<1> DEFINE Justified(r, t) ==
             /\ req[r].pc = "commit" /\ req'[r].pc # "commit"
             /\ \/ req[r].op \in TokenOps /\ t = req[r].tok
                \/ req[r].op = "reuse" /\ family[t] = family[req[r].tok]
                \/ req[r].op = "password" /\ owner[t] = req[r].user
           Step == \A t \in Token : revoked'[t] /\ ~revoked[t] =>
                     \E r \in Req : Justified(r, t)
<1>1. ASSUME IInv, NEW r \in Req, Commit(r), NEW t \in Token, revoked'[t], ~revoked[t]
      PROVE  Justified(r, t)
  <2>1. CallOK(req[r]) /\ req[r].pc = "commit"
    BY <1>1 DEF IInv, Commit
  <2>2. req'[r].pc # "commit"
    BY <1>1, <2>1 DEF Commit, IInv, TypeOK, CallOK, Request, Idle
  <2>3. t \in req[r].locks
    BY <1>1 DEF Commit, CommitTokens
  <2>4. t \notin User
    BY ConstantsAssumption
  <2>5. req[r].op \in TokenOps \cup {"reuse", "password"}
    BY <2>1, <2>3, <2>4
       DEF CallOK, Request, Op, Route, Given, Writes, Idle, TokenOps, AdminOps
  <2> QED BY <2>1, <2>2, <2>3, <2>4, <2>5 DEF CallOK, Writes, Given
<1>2. ASSUME IInv, [Next]_vars PROVE [Step]_vars
  <2>1. CASE \E r \in Req : Commit(r)
    BY <1>1, <1>2, <2>1
  <2>2. CASE \A r \in Req : ~Commit(r)
    BY <1>2, <2>2, OnlyCommitWrites DEF tokenVars
  <2> QED BY <2>1, <2>2
<1> QED BY <1>2, SpecInv, PTL DEF Spec, RevocationIsJustified

=============================================================================
