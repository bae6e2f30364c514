------------------------- MODULE SessionsEndProofs -------------------------
(***************************************************************************)
(* What ends a session: the deletion of its account, logout, the replay of *)
(* a token and a change of the password.                                   *)
(*                                                                         *)
(* A deleted account is shut under every interleaving.  A logout that was  *)
(* answered sticks, and a token that was delivered is stored, in the build *)
(* that commits before it answers.  Of a replay, a password change and     *)
(* rotation the code keeps what it says only as long as requests do not    *)
(* overlap (the runs sessions_reuse_race and sessions_serial show both     *)
(* sides): each acts on rows it found several statements before it writes. *)
(* So every clause says what a request has found out, and that it is still *)
(* so when it commits.                                                     *)
(***************************************************************************)
EXTENDS SessionsProofs

\* No two requests overlap.
Serial == \A r1, r2 \in Req : r1 = r2

Live(t) == t \in rows /\ ~revoked[t]

\* A request of a deleted account gets no further than the statement that looks it up.
Barred(q) ==
    q.barred =>
      /\ q.op \in {"login", "password"} =>
           q.pc = "user" /\ deleted[q.user] /\ q.locks = {}
      /\ q.op = "refresh" =>
           /\ q.pc \in {"token", "user"} /\ q.locks = {}
           /\ q.tok \in rows /\ deleted[owner[q.tok]]

\* Where the commit comes first, an answer speaks of what is committed.
Prompt(q) ==
    /\ q.op = "logout" => q.tok \in rows
    /\ q.op = "logout" /\ q.pc = "commit" => q.tok \in q.locks \/ revoked[q.tok]
    /\ q.op = "logout" /\ q.pc = "reply" => revoked[q.tok]
    /\ q.pc = "reply" /\ q.ins # NoToken => q.ins \in rows

\* What a request that is alone has found is still so.
Alone(q) ==
    /\ q.op = "refresh" /\ q.pc # "token" /\ ~Over(q) => ~revoked[q.tok]
    /\ q.op = "login" /\ q.pc # "user" /\ ~Over(q) => q.given = password[q.user]
    /\ q.op = "reuse" => \A t \in rows : family[t] = family[q.tok] /\ Live(t) =>
         /\ q.pc \in {"scan", "sweep", "commit"}
         /\ q.pc = "sweep" => t \in q.scan
         /\ q.pc = "commit" => t \in q.locks
    /\ q.op = "password" => \A t \in rows : owner[t] = q.user /\ Live(t) =>
         /\ q.pc = "sweep" => t \in q.scan
         /\ q.pc \in {"write", "commit", "reply"} /\ ~Over(q) => t \in q.locks

Knows(q) ==
    /\ Barred(q)
    /\ CommitFirst => Prompt(q)
    /\ Serial => Alone(q)

FreshIsUnowned == \A t \in Token \ rows : owner[t] \notin User

ReportedIsStored == reported \subseteq rows

EndInv ==
    /\ IInv
    /\ FreshIsUnowned /\ ReportedIsStored /\ loggedOut \subseteq Token
    /\ CommitFirst => AckedIsDurable /\ LogoutSticks
    /\ Serial => OneLiveTokenPerFamily /\ ReuseEndsFamily /\ PasswordChangeEndsSessions
    /\ \A r \in Req : Knows(req[r])

-----------------------------------------------------------------------------
(* Steps that leave the tables and the clients alone *)

LEMMA IdleKnows == Knows(Idle)
BY DEF Knows, Barred, Prompt, Alone, Idle

LEMMA EndInit == Init => EndInv
<1> SUFFICES ASSUME Init PROVE EndInv
  OBVIOUS
<1>1. IInv
  BY InitInv
<1>2. \A r \in Req : Knows(req[r])
  BY IdleKnows DEF Init
<1>3. FreshIsUnowned
  BY ConstantsAssumption DEF Init, FreshIsUnowned
<1> QED BY <1>1, <1>2, <1>3
        DEF Init, EndInv, ReportedIsStored, AckedIsDurable, LogoutSticks,
            OneLiveTokenPerFamily, ReuseEndsFamily, PasswordChangeEndsSessions

LEMMA SameKnows ==
    ASSUME NEW q, Knows(q), UNCHANGED <<tokenVars, userVars>>
    PROVE  Knows(q)'
BY DEF tokenVars, userVars, Knows, Barred, Prompt, Alone, Live, Over

LEMMA SameEnds ==
    ASSUME EndInv, UNCHANGED <<tokenVars, userVars, clientVars>>
    PROVE  /\ FreshIsUnowned' /\ ReportedIsStored' /\ loggedOut' \subseteq Token
           /\ CommitFirst => AckedIsDurable' /\ LogoutSticks'
           /\ Serial => OneLiveTokenPerFamily' /\ ReuseEndsFamily'
                        /\ PasswordChangeEndsSessions'
BY DEF tokenVars, userVars, clientVars, EndInv, FreshIsUnowned, ReportedIsStored,
       AckedIsDurable, LogoutSticks, OneLiveTokenPerFamily, ReuseEndsFamily,
       PasswordChangeEndsSessions

LEMMA QuietEnd ==
    ASSUME EndInv, IInv', NEW r \in Req, NEW call, Knows(call),
           req' = [req EXCEPT ![r] = call],
           UNCHANGED <<tokenVars, userVars, clientVars>>
    PROVE  EndInv'
<1>1. \A p \in Req : Knows(req[p])'
  <2> SUFFICES ASSUME NEW p \in Req PROVE Knows(req[p])'
    OBVIOUS
  <2>1. PICK q : q = req'[p]
    OBVIOUS
  <2>2. Knows(q)
    BY <2>1 DEF EndInv, IInv, TypeOK
  <2>3. Knows(q)'
    BY <2>2, SameKnows
  <2> QED BY <2>1, <2>3 DEF Knows, Barred, Prompt, Alone, Over, Live
<1> QED BY <1>1, SameEnds DEF EndInv

LEMMA DenyEnd ==
    ASSUME EndInv, IInv', NEW r \in Req, Deny(r)
    PROVE  EndInv'
BY QuietEnd, IdleKnows DEF Deny

LEMMA ArriveEnd ==
    ASSUME EndInv, IInv', NEW r \in Req, NEW call, NEW u, Arrive(r, call, u),
           Knows([call EXCEPT !.barred = u \in User /\ deleted[u]])
    PROVE  EndInv'
BY QuietEnd DEF Arrive

\* A request that has just arrived has found out nothing, except that its account is gone.
LEMMA BeginEnd ==
    ASSUME EndInv, IInv', NEW r \in Req, Begin(r)
    PROVE  EndInv'
<1> DEFINE Gone(u) == u \in User /\ deleted[u]
<1> HIDE DEF Gone
<1> USE DEF Knows, Barred, Prompt, Alone, Idle
<1>1. CASE BeginLogin(r)
  <2>1. PICK u \in User, p \in Password :
          Arrive(r, [Idle EXCEPT !.pc = "user", !.op = "login", !.user = u, !.given = p],
                 u)
    BY <1>1 DEF BeginLogin
  <2> DEFINE call == [Idle EXCEPT !.pc = "user", !.op = "login", !.user = u, !.given = p]
  <2>2. Knows([call EXCEPT !.barred = Gone(u)])
    BY DEF Gone
  <2> HIDE DEF call
  <2> QED BY <2>1, <2>2, ArriveEnd DEF Gone, call
<1>2. CASE BeginRefresh(r)
  <2>1. PICK t \in delivered :
          Arrive(r, [Idle EXCEPT !.pc = "token", !.op = "refresh", !.tok = t], owner[t])
    BY <1>2 DEF BeginRefresh
  <2> DEFINE call == [Idle EXCEPT !.pc = "token", !.op = "refresh", !.tok = t]
  <2>2. Gone(owner[t]) => t \in rows /\ deleted[owner[t]]
    BY DEF Gone, EndInv, FreshIsUnowned, IInv, TypeOK
  <2>3. Knows([call EXCEPT !.barred = Gone(owner[t])])
    BY <2>2
  <2> HIDE DEF call
  <2> QED BY <2>1, <2>3, ArriveEnd DEF Gone, call
<1>3. CASE BeginLogout(r)
  <2>1. PICK t \in delivered :
          Arrive(r, [Idle EXCEPT !.pc = "token", !.op = "logout", !.tok = t], owner[t])
    BY <1>3 DEF BeginLogout
  <2> DEFINE call == [Idle EXCEPT !.pc = "token", !.op = "logout", !.tok = t]
  <2>2. CommitFirst => t \in rows
    BY DEF EndInv, AckedIsDurable
  <2>3. Knows([call EXCEPT !.barred = Gone(owner[t])])
    BY <2>2
  <2> HIDE DEF call
  <2> QED BY <2>1, <2>3, ArriveEnd DEF Gone, call
<1>4. CASE BeginChangePassword(r)
  <2>1. PICK t \in delivered \cap rows, old \in Password, new \in Password :
          Arrive(r, [Idle EXCEPT !.pc = "user", !.op = "password", !.user = owner[t],
                                  !.given = old, !.new = new], owner[t])
    BY <1>4 DEF BeginChangePassword
  <2> DEFINE call == [Idle EXCEPT !.pc = "user", !.op = "password", !.user = owner[t],
                                  !.given = old, !.new = new]
  <2>2. Knows([call EXCEPT !.barred = Gone(owner[t])])
    BY DEF Gone
  <2> HIDE DEF call
  <2> QED BY <2>1, <2>2, ArriveEnd DEF Gone, call
<1>5. CASE BeginAdmin(r)
  <2>1. PICK u \in User, op \in AdminOps :
          Arrive(r, [Idle EXCEPT !.pc = "user", !.op = op, !.user = u], u)
    BY <1>5 DEF BeginAdmin
  <2> DEFINE call == [Idle EXCEPT !.pc = "user", !.op = op, !.user = u]
  <2>2. Knows([call EXCEPT !.barred = Gone(u)])
    BY DEF AdminOps
  <2> HIDE DEF call
  <2> QED BY <2>1, <2>2, ArriveEnd DEF Gone, call
<1> QED BY <1>1, <1>2, <1>3, <1>4, <1>5 DEF Begin

LEMMA StepToEnd ==
    ASSUME EndInv, IInv', NEW r \in Req, NEW pc, StepTo(r, pc),
           Knows([req[r] EXCEPT !.pc = pc])
    PROVE  EndInv'
<1>1. req' = [req EXCEPT ![r] = [req[r] EXCEPT !.pc = pc]]
  BY DEF StepTo, Goto
<1> QED BY <1>1, QuietEnd DEF StepTo

LEMMA LoadEnd ==
    ASSUME EndInv, IInv', NEW r \in Req, Load(r)
    PROVE  EndInv'
<1> DEFINE q == req[r]
<1>0. CallOK(q) /\ q \in Request /\ Knows(q)
  BY DEF EndInv, IInv, CallOK
<1> USE DEF Request, Knows, Barred, Prompt, Alone, Over, At, Finished, CommitsFirst
<1>1. CASE LoginRefused(r) \/ RefreshRefused(r) \/ RefreshOwnerRefused(r) \/ ChangeRefused(r)
  BY <1>1, DenyEnd DEF LoginRefused, RefreshRefused, RefreshOwnerRefused, ChangeRefused
<1>2. CASE LoginVerified(r)
  <2>1. Knows([q EXCEPT !.pc = "insert"])
    BY <1>0, <1>2 DEF LoginVerified, UserFound
  <2> QED BY <1>2, <2>1, StepToEnd DEF LoginVerified
<1>3. CASE RefreshOwnerFound(r)
  <2>1. q.user = owner[q.tok]
    BY <1>0, <1>3 DEF RefreshOwnerFound, CallOK, Given
  <2>2. Knows([q EXCEPT !.pc = "insert"])
    BY <1>0, <1>3, <2>1 DEF RefreshOwnerFound, UserFound
  <2> QED BY <1>3, <2>2, StepToEnd DEF RefreshOwnerFound
<1>4. CASE LogoutFound(r)
  <2>1. Knows([q EXCEPT !.pc = "revoke"])
    BY <1>0, <1>4 DEF LogoutFound
  <2> QED BY <1>4, <2>1, StepToEnd DEF LogoutFound
<1>5. CASE ChangeVerified(r)
  <2>1. Knows([q EXCEPT !.pc = "scan"])
    BY <1>0, <1>5 DEF ChangeVerified, UserFound
  <2> QED BY <1>5, <2>1, StepToEnd DEF ChangeVerified
<1>6. CASE LogoutMoot(r)
  <2>1. q.ins = NoToken
    BY <1>0, <1>6 DEF LogoutMoot, CallOK, Inserted
  <2>2. Knows([q EXCEPT !.pc = Finished(r)])
    BY <1>0, <1>6, <2>1 DEF LogoutMoot
  <2> QED BY <1>6, <2>2, StepToEnd DEF LogoutMoot
<1>7. CASE RefreshReplayed(r)
  <2> DEFINE call == [q EXCEPT !.op = "reuse", !.pc = "scan"]
  <2>1. Knows(call)
    BY <1>0, <1>7 DEF RefreshReplayed
  <2>2. req' = [req EXCEPT ![r] = call]
    BY <1>7 DEF RefreshReplayed
  <2> QED BY <1>7, <2>1, <2>2, QuietEnd DEF RefreshReplayed
<1>8. CASE RefreshAccepted(r)
  <2> DEFINE call == [q EXCEPT !.pc = "user", !.user = owner[q.tok]]
  <2>1. Knows(call)
    BY <1>0, <1>8 DEF RefreshAccepted, IsValid
  <2>2. req' = [req EXCEPT ![r] = call]
    BY <1>8 DEF RefreshAccepted
  <2> QED BY <1>8, <2>1, <2>2, QuietEnd DEF RefreshAccepted
<1>9. CASE AdminLoads(r)
  <2>1. q.ins = NoToken /\ q.op \in AdminOps
    BY <1>0, <1>9 DEF AdminLoads, CallOK, Inserted, AdminOps
  <2>2. \A pc \in {"write", "commit", "reply"} : Knows([q EXCEPT !.pc = pc])
    BY <1>0, <2>1 DEF AdminOps
  <2> QED BY <1>9, <2>2, StepToEnd, DenyEnd DEF AdminLoads
<1> QED BY <1>1, <1>2, <1>3, <1>4, <1>5, <1>6, <1>7, <1>8, <1>9 DEF Load

LEMMA IssuePairEnd ==
    ASSUME EndInv, IInv', NEW r \in Req, IssuePair(r)
    PROVE  EndInv'
<1> DEFINE q == req[r]
<1>0. CallOK(q) /\ q \in Request /\ Knows(q)
  BY DEF EndInv, IInv, CallOK
<1>1. PICK t \in Fresh :
        req' = [req EXCEPT ![r].ins = t,
                           ![r].pc = IF q.op = "login" THEN Finished(r) ELSE "revoke"]
  BY DEF IssuePair
<1> DEFINE call == [q EXCEPT !.ins = t,
                             !.pc = IF q.op = "login" THEN Finished(r) ELSE "revoke"]
<1>2. q.op \in {"login", "refresh"} /\ q.pc = "insert"
  BY <1>0 DEF IssuePair, CallOK, Request, Route, Idle, Op, TokenOps, AdminOps
<1>3. Knows(call)
  BY <1>0, <1>2
     DEF Request, Knows, Barred, Prompt, Alone, Over, Finished, CommitsFirst
<1>4. req' = [req EXCEPT ![r] = call]
  BY <1>0, <1>1 DEF Request, EndInv, IInv, TypeOK
<1> QED BY <1>3, <1>4, QuietEnd DEF IssuePair

LEMMA ScanEnd ==
    ASSUME EndInv, IInv', NEW r \in Req, ScanFamily(r) \/ ScanUser(r)
    PROVE  EndInv'
<1> DEFINE q == req[r]
<1>0. q \in Request /\ Knows(q)
  BY DEF EndInv, IInv, CallOK
<1> USE DEF Request, Knows, Barred, Prompt, Alone, Live, Over, At
<1>1. CASE ScanFamily(r)
  <2> DEFINE call == [q EXCEPT !.pc = "sweep",
                               !.scan = {t \in rows : family[t] = family[q.tok] /\ ~revoked[t]}]
  <2>1. Knows(call)
    BY <1>0, <1>1 DEF ScanFamily
  <2>2. req' = [req EXCEPT ![r] = call]
    BY <1>1 DEF ScanFamily
  <2> QED BY <1>1, <2>1, <2>2, QuietEnd DEF ScanFamily
<1>2. CASE ScanUser(r)
  <2> DEFINE call == [q EXCEPT !.pc = "sweep",
                               !.scan = {t \in rows : owner[t] = q.user /\ ~revoked[t]}]
  <2>1. Knows(call)
    BY <1>0, <1>2 DEF ScanUser
  <2>2. req' = [req EXCEPT ![r] = call]
    BY <1>2 DEF ScanUser
  <2> QED BY <1>2, <2>1, <2>2, QuietEnd DEF ScanUser
<1> QED BY <1>1, <1>2

LEMMA WriteEnd ==
    ASSUME EndInv, IInv', NEW r \in Req, Write(r)
    PROVE  EndInv'
<1> DEFINE q == req[r]
<1>0. CallOK(q) /\ q \in Request /\ Knows(q)
  BY DEF EndInv, IInv, CallOK
<1> USE DEF Request, Knows, Barred, Prompt, Alone, Live, Over, Finished, CommitsFirst
<1>1. CASE Revoke(r)
  <2> DEFINE call == [q EXCEPT !.locks = q.locks \cup {q.tok}, !.pc = Finished(r)]
  <2>1. q.op \in {"refresh", "logout"} /\ q.pc = "revoke"
    BY <1>0, <1>1 DEF Revoke, CallOK, Op, TokenOps, AdminOps, Route, Idle
  <2>2. q.op = "logout" => q.ins = NoToken
    BY <1>0 DEF CallOK, Inserted
  <2>3. Knows(call)
    BY <1>0, <2>1, <2>2
  <2>4. req' = [req EXCEPT ![r] = call]
    BY <1>1 DEF Revoke
  <2> HIDE DEF call, Knows
  <2> QED BY <1>1, <2>3, <2>4, QuietEnd DEF Revoke
<1>2. CASE Sweep(r)
  <2> DEFINE next == IF q.op = "reuse" THEN Finished(r) ELSE "write"
             call == [q EXCEPT !.locks = {t \in q.scan : ~revoked[t]}, !.scan = {},
                               !.pc = next]
  <2>1. q.op \in {"reuse", "password"} /\ q.pc = "sweep" /\ q.ins = NoToken
    <3>1. q.pc = "sweep"
      BY <1>2 DEF Sweep
    <3> QED BY <1>0, <3>1 DEF CallOK, Op, TokenOps, AdminOps, Route, Inserted, Idle
  <2>2. Knows(call)
    BY <1>0, <2>1
  <2>3. req' = [req EXCEPT ![r] = call]
    BY <1>2 DEF Sweep
  <2> HIDE DEF call, Knows
  <2> QED BY <1>2, <2>2, <2>3, QuietEnd DEF Sweep
<1>3. CASE WriteUser(r)
  <2> DEFINE call == [q EXCEPT !.locks = q.locks \cup {q.user}, !.pc = Finished(r)]
  <2>1. q.op \in {"password"} \cup AdminOps /\ q.pc = "write" /\ q.ins = NoToken
    <3>1. q.pc = "write"
      BY <1>3 DEF WriteUser
    <3> QED BY <1>0, <3>1 DEF CallOK, Op, TokenOps, AdminOps, Route, Inserted, Idle
  <2>2. Knows(call)
    BY <1>0, <2>1 DEF AdminOps
  <2>3. req' = [req EXCEPT ![r] = call]
    BY <1>3 DEF WriteUser
  <2> HIDE DEF call, Knows
  <2> QED BY <1>3, <2>2, <2>3, QuietEnd DEF WriteUser
<1> QED BY <1>1, <1>2, <1>3 DEF Write

-----------------------------------------------------------------------------
(* The answer *)

LEMMA AnswerEnd ==
    ASSUME EndInv, IInv', NEW r \in Req, Reply(r) \/ LoseReply(r)
    PROVE  EndInv'
<1> DEFINE q == req[r]
           call == IF CommitsFirst(r) THEN Idle ELSE [q EXCEPT !.pc = "commit"]
<1>0. CallOK(q) /\ q \in Request /\ Knows(q) /\ q.pc = "reply"
  BY DEF EndInv, IInv, CallOK, Reply, LoseReply
<1>1. Knows(call)
  <2>1. CASE CommitsFirst(r)
    BY <2>1, IdleKnows
  <2>2. CASE ~CommitsFirst(r)
    BY <1>0, <2>2 DEF Request, CommitsFirst, Knows, Barred, Prompt, Alone, Over
  <2> QED BY <2>1, <2>2
<1>2. req' = [req EXCEPT ![r] = call] /\ UNCHANGED <<tokenVars, userVars>>
  BY DEF Reply, LoseReply, Answered
<1> HIDE DEF call
<1>3. CASE LoseReply(r)
  BY <1>1, <1>2, <1>3, QuietEnd DEF LoseReply
<1>4. CASE Reply(r)
  <2>1. \A p \in Req : Knows(req[p])'
    <3> SUFFICES ASSUME NEW p \in Req PROVE Knows(req[p])'
      OBVIOUS
    <3>1. PICK made : made = req'[p]
      OBVIOUS
    <3>2. Knows(made)
      BY <1>1, <1>2, <3>1 DEF EndInv, IInv, TypeOK
    <3>3. Knows(made)'
      BY <1>2, <3>2, SameKnows
    <3> QED BY <3>1, <3>3 DEF Knows, Barred, Prompt, Alone, Over, Live
  <2>2. FreshIsUnowned'
    BY <1>2 DEF tokenVars, EndInv, FreshIsUnowned
  <2>3. q.op = "logout" => q.tok \in Token
    BY <1>0 DEF CallOK, Given, TokenOps
  <2>4. loggedOut' \subseteq Token
    BY <1>4, <2>3 DEF EndInv, Reply
  <2>5. ReportedIsStored'
    <3>1. q.op = "reuse" => family[q.tok] \in rows
      BY <1>0 DEF CallOK, Given, EndInv, IInv, ChainWellFormed
    <3> QED BY <1>2, <1>4, <3>1 DEF EndInv, ReportedIsStored, Reply, tokenVars
  <2>6. ASSUME CommitFirst PROVE AckedIsDurable' /\ LogoutSticks'
    <3>1. /\ q.ins # NoToken => q.ins \in rows
          /\ q.op = "logout" => revoked[q.tok]
      BY <1>0, <2>6 DEF Knows, Prompt
    <3> QED BY <1>2, <1>4, <2>6, <3>1
            DEF EndInv, AckedIsDurable, LogoutSticks, Reply, tokenVars
  <2>7. ASSUME Serial
        PROVE  OneLiveTokenPerFamily' /\ ReuseEndsFamily' /\ PasswordChangeEndsSessions'
    <3>1. q.op = "reuse" => \A t \in rows : family[t] = family[q.tok] => revoked[t]
      BY <1>0, <2>7 DEF Knows, Alone, Live
    <3>2. ReuseEndsFamily'
      BY <1>2, <1>4, <2>7, <3>1 DEF EndInv, ReuseEndsFamily, Reply, tokenVars
    <3> QED BY <1>2, <2>7, <3>2
            DEF EndInv, OneLiveTokenPerFamily, PasswordChangeEndsSessions, tokenVars, userVars
  <2> QED BY <2>1, <2>2, <2>4, <2>5, <2>6, <2>7 DEF EndInv
<1> QED BY <1>3, <1>4

-----------------------------------------------------------------------------
(* The commit *)

\* The row a request adds, and what is known of the rows that were there.
LEMMA CommitRows ==
    ASSUME EndInv, NEW r \in Req, Commit(r)
    PROVE  /\ CallOK(req[r]) /\ req[r] \in Request /\ Knows(req[r]) /\ ~Over(req[r])
           /\ rows' = rows \cup ({req[r].ins} \ {NoToken}) /\ rows' \subseteq Token
           /\ \A t \in rows : /\ t # req[r].ins /\ owner'[t] = owner[t]
                              /\ family'[t] = family[t] /\ born'[t] = born[t]
           /\ \A t \in Token : revoked'[t] <=> revoked[t] \/ t \in req[r].locks
           /\ \A u \in User : deleted[u] => deleted'[u]
<1>1. CallOK(req[r]) /\ req[r].pc = "commit" /\ Knows(req[r])
  BY DEF EndInv, IInv, Commit
<1>2. req[r] \in Request /\ ~Over(req[r])
  BY <1>1 DEF CallOK, Over
<1>3. rows' = rows \cup ({req[r].ins} \ {NoToken}) /\ rows \subseteq Token
  BY DEF Commit, CommitInsert, EndInv, IInv, TypeOK
<1>4. req[r].ins # NoToken => req[r].ins \in Token \ rows
  BY CommitGrows DEF EndInv
<1>5. \A t \in rows : t # req[r].ins
  BY <1>3, <1>4, ConstantsAssumption
<1>6. \A t \in rows : owner'[t] = owner[t] /\ family'[t] = family[t] /\ born'[t] = born[t]
  BY <1>3, <1>5 DEF Commit, CommitInsert
<1>7. \A t \in Token : revoked'[t] <=> revoked[t] \/ t \in req[r].locks
  BY DEF Commit, CommitTokens
<1>8. \A u \in User : deleted[u] => deleted'[u]
  BY DEF Commit, CommitUser
<1> QED BY <1>1, <1>2, <1>3, <1>4, <1>5, <1>6, <1>7, <1>8

\* The other requests.
LEMMA CommitOthersKnow ==
    ASSUME EndInv, NEW r \in Req, Commit(r), NEW p \in Req \ {r}
    PROVE  Knows(req[p])'
<1>1. PICK q : q = req[p]
  OBVIOUS
<1>2. CallOK(q) /\ Knows(q) /\ req'[p] = q
  BY <1>1 DEF EndInv, IInv, Commit, TypeOK
<1>3. Barred(q)'
  <2>1. q.op \in {"login", "password"} => q.user \in User
    BY <1>2 DEF CallOK, Given
  <2>2. q.op = "refresh" /\ q.tok \in rows => owner[q.tok] \in User
    BY DEF EndInv, IInv, RowsOwned
  <2> QED BY <1>2, <2>1, <2>2, CommitRows DEF Knows, Barred
<1>4. CommitFirst => Prompt(q)'
  <2>1. q.op = "logout" => q.tok \in Token
    BY <1>2 DEF CallOK, Given, TokenOps
  <2> QED BY <1>2, <2>1, CommitRows DEF Knows, Prompt
<1>5. ~Serial
  BY DEF Serial
<1> QED BY <1>2, <1>3, <1>4, <1>5 DEF Knows, Barred, Prompt, Serial

\* The request itself.
LEMMA CommitKnows ==
    ASSUME EndInv, NEW r \in Req, Commit(r)
    PROVE  Knows(req[r])'
<1> DEFINE q == req[r]
<1>0. CallOK(q) /\ q \in Request /\ Knows(q) /\ q.pc = "commit"
  BY CommitRows DEF Commit
<1>1. CASE ~CommitsFirst(r)
  <2>1. req'[r] = Idle
    BY <1>1 DEF Commit, EndInv, IInv, TypeOK
  <2> QED BY <2>1 DEF Knows, Barred, Prompt, Alone, Idle
<1>2. CASE CommitsFirst(r)
  <2>1. PICK call : call = [q EXCEPT !.pc = "reply", !.locks = {}]
    OBVIOUS
  <2>2. /\ req'[r] = call /\ call.pc = "reply" /\ call.locks = {} /\ Over(call)
        /\ call.op = q.op /\ call.tok = q.tok /\ call.user = q.user /\ call.ins = q.ins
        /\ call.barred = q.barred
    BY <1>0, <1>2, <2>1
       DEF Commit, EndInv, IInv, TypeOK, Request, Over, CommitsFirst
  <2>3. Barred(call)'
    BY <1>0, <2>2 DEF Knows, Barred
  <2>4. CommitFirst => Prompt(call)'
    <3>1. q.op = "logout" => q.tok \in Token
      BY <1>0 DEF CallOK, Given, TokenOps
    <3> QED BY <1>0, <2>2, <3>1, CommitRows DEF Knows, Prompt
  <2>5. Serial => Alone(call)'
    <3> SUFFICES ASSUME Serial PROVE Alone(call)'
      OBVIOUS
    <3>1. call.op = "reuse" => \A t \in rows' : family'[t] = family'[call.tok] => revoked'[t]
      <4> SUFFICES ASSUME q.op = "reuse", NEW t \in rows', family'[t] = family'[q.tok]
                   PROVE  revoked'[t]
        BY <2>2
      <4>1. q.ins = NoToken /\ q.tok \in rows
        BY <1>0 DEF CallOK, Inserted, Given
      <4>2. t \in rows /\ t \in Token /\ family[t] = family[q.tok]
        BY <4>1, CommitRows
      <4>3. Live(t) => t \in q.locks
        BY <1>0, <4>2 DEF Knows, Alone
      <4> QED BY <4>2, <4>3, CommitRows DEF Live
    <3> QED BY <2>2, <3>1 DEF Alone, Live, Over
  <2> QED BY <2>2, <2>3, <2>4, <2>5 DEF Knows, Barred, Prompt, Alone, Live, Over, Serial
<1> QED BY <1>1, <1>2

\* What a login or a rotation adds while it is alone.
LEMMA CommitNewRow ==
    ASSUME EndInv, Serial, NEW r \in Req, Commit(r), NEW t \in rows' \ rows
    PROVE  /\ t = req[r].ins
           /\ \/ /\ req[r].op = "login" /\ family'[t] = t
                 /\ owner'[t] = req[r].user /\ req[r].user \in User
                 /\ born'[t] = password[req[r].user]
              \/ /\ req[r].op = "refresh" /\ Live(req[r].tok) /\ revoked'[req[r].tok]
                 /\ family'[t] = family[req[r].tok]
                 /\ owner'[t] = owner[req[r].tok] /\ born'[t] = born[req[r].tok]
<1> DEFINE q == req[r]
<1>0. CallOK(q) /\ q \in Request /\ Knows(q) /\ ~Over(q) /\ q.pc = "commit"
  BY CommitRows DEF Commit
<1>1. t = q.ins /\ t # NoToken /\ t \in Token
  BY CommitRows
<1>2. q.op \in {"login", "refresh"}
  BY <1>0, <1>1 DEF CallOK, Inserted
<1>3. CASE q.op = "login"
  <2>1. q.user \in User /\ q.given = password[q.user]
    BY <1>0, <1>3 DEF CallOK, Given, Knows, Alone
  <2> QED BY <1>1, <1>3, <2>1 DEF Commit, CommitInsert
<1>4. CASE q.op = "refresh"
  <2>1. Live(q.tok)
    BY <1>0, <1>4 DEF CallOK, Given, Knows, Alone, Live
  <2>2. revoked'[q.tok] /\ family'[t] = family[q.tok] /\ owner'[t] = owner[q.tok]
    BY <1>1, <1>4, CommitRefresh DEF EndInv
  <2>3. born'[t] = born[q.tok]
    BY <1>1, <1>4 DEF Commit, CommitInsert
  <2> QED BY <1>1, <1>4, <2>1, <2>2, <2>3
<1> QED BY <1>2, <1>3, <1>4

\* Rotation takes away the one live token of the family as it adds another.
LEMMA CommitOneLive ==
    ASSUME EndInv, Serial, NEW r \in Req, Commit(r)
    PROVE  OneLiveTokenPerFamily'
<1> SUFFICES ASSUME NEW t1 \in rows', NEW t2 \in rows', family'[t1] = family'[t2],
                    ~revoked'[t1], ~revoked'[t2]
             PROVE  t1 = t2
  BY DEF OneLiveTokenPerFamily
<1>1. \A t \in rows : ~revoked'[t] => t \in Token /\ ~revoked[t] /\ family'[t] = family[t]
  BY CommitRows
<1>2. OneLiveTokenPerFamily /\ \A t \in rows : family[t] \in rows
  BY DEF EndInv, IInv, ChainWellFormed
<1>3. ASSUME NEW s \in rows' \ rows, NEW t \in rows, family'[s] = family'[t], ~revoked'[t]
      PROVE  FALSE
  <2>1. CASE req[r].op = "login"
    BY <1>1, <1>2, <1>3, <2>1, CommitNewRow
  <2>2. CASE req[r].op # "login"
    <3>1. Live(req[r].tok) /\ revoked'[req[r].tok] /\ family'[s] = family[req[r].tok]
      BY <2>2, CommitNewRow
    <3> QED BY <1>1, <1>2, <1>3, <3>1 DEF Live, OneLiveTokenPerFamily
  <2> QED BY <2>1, <2>2
<1>4. CASE t1 \in rows /\ t2 \in rows
  BY <1>1, <1>2, <1>4 DEF OneLiveTokenPerFamily
<1>5. CASE t1 \notin rows /\ t2 \notin rows
  BY <1>5, CommitNewRow
<1> QED BY <1>3, <1>4, <1>5

\* A family that was reported is not extended.
LEMMA CommitReuse ==
    ASSUME EndInv, Serial, NEW r \in Req, Commit(r)
    PROVE  ReuseEndsFamily'
<1> SUFFICES ASSUME NEW t \in rows', family'[t] \in reported PROVE revoked'[t]
  BY DEF ReuseEndsFamily, Commit, clientVars
<1>1. ReuseEndsFamily /\ reported \subseteq rows
  BY DEF EndInv, ReportedIsStored
<1>2. CASE t \in rows
  BY <1>1, <1>2, CommitRows DEF ReuseEndsFamily
<1>3. CASE t \notin rows
  <2>1. CASE req[r].op = "login"
    BY <1>1, <1>3, <2>1, CommitNewRow
  <2>2. CASE req[r].op # "login"
    <3>1. Live(req[r].tok) /\ family'[t] = family[req[r].tok]
      BY <1>3, <2>2, CommitNewRow
    <3> QED BY <1>1, <3>1 DEF Live, ReuseEndsFamily
  <2> QED BY <2>1, <2>2
<1> QED BY <1>2, <1>3

\* A new password leaves no live row of its account, and no session is opened with the old.
LEMMA CommitPassword ==
    ASSUME EndInv, Serial, NEW r \in Req, Commit(r)
    PROVE  PasswordChangeEndsSessions'
<1> DEFINE q == req[r]
<1> SUFFICES ASSUME NEW t \in rows', ~revoked'[t] PROVE born'[t] = password'[owner'[t]]
  BY DEF PasswordChangeEndsSessions
<1>0. CallOK(q) /\ q \in Request /\ Knows(q) /\ ~Over(q) /\ q.pc = "commit"
  BY CommitRows DEF Commit
<1>1. PasswordChangeEndsSessions /\ RowsOwned
  BY DEF EndInv, IInv
<1>2. \A u \in User : q.op # "password" \/ u \notin q.locks => password'[u] = password[u]
  BY DEF Commit, CommitUser
<1>3. CASE t \in rows
  <2>1. /\ t \in Token /\ ~revoked[t] /\ t \notin q.locks
        /\ owner'[t] = owner[t] /\ born'[t] = born[t]
    BY <1>3, CommitRows
  <2>2. owner[t] \in User /\ born[t] = password[owner[t]]
    BY <1>1, <1>3, <2>1 DEF RowsOwned, PasswordChangeEndsSessions
  <2>3. ~(q.op = "password" /\ owner[t] \in q.locks)
    <3> SUFFICES ASSUME q.op = "password", owner[t] \in q.locks PROVE FALSE
      OBVIOUS
    <3>1. owner[t] = q.user
      BY <1>0, <2>2, ConstantsAssumption DEF CallOK, Writes, EndInv, IInv, TypeOK
    <3>2. t \in q.locks
      BY <1>0, <1>3, <2>1, <3>1 DEF Knows, Alone, Live
    <3> QED BY <2>1, <3>2
  <2> QED BY <1>2, <2>1, <2>2, <2>3
<1>4. CASE t \notin rows
  <2>1. CASE q.op = "login"
    BY <1>2, <1>4, <2>1, CommitNewRow
  <2>2. CASE q.op # "login"
    <3>1. /\ q.op = "refresh" /\ Live(q.tok)
          /\ owner'[t] = owner[q.tok] /\ born'[t] = born[q.tok]
      BY <1>4, <2>2, CommitNewRow
    <3>2. owner[q.tok] \in User /\ born[q.tok] = password[owner[q.tok]]
      BY <1>1, <3>1 DEF Live, RowsOwned, PasswordChangeEndsSessions
    <3> QED BY <1>2, <3>1, <3>2
  <2> QED BY <2>1, <2>2
<1> QED BY <1>3, <1>4

LEMMA CommitEnd ==
    ASSUME EndInv, IInv', NEW r \in Req, Commit(r)
    PROVE  EndInv'
<1>1. \A p \in Req : Knows(req[p])'
  BY CommitKnows, CommitOthersKnow
<1>2. FreshIsUnowned'
  <2> SUFFICES ASSUME NEW t \in Token \ rows' PROVE owner'[t] \notin User
    BY DEF FreshIsUnowned
  <2>1. t \notin rows /\ t # req[r].ins
    BY CommitRows, ConstantsAssumption
  <2>2. owner'[t] = owner[t]
    BY <2>1 DEF Commit, CommitInsert
  <2> QED BY <2>1, <2>2 DEF EndInv, FreshIsUnowned
<1>3. ReportedIsStored' /\ loggedOut' \subseteq Token
  BY CommitRows DEF EndInv, ReportedIsStored, Commit, clientVars
<1>4. CommitFirst => AckedIsDurable' /\ LogoutSticks'
  BY CommitRows DEF EndInv, AckedIsDurable, LogoutSticks, Commit, clientVars
<1>5. Serial => OneLiveTokenPerFamily' /\ ReuseEndsFamily' /\ PasswordChangeEndsSessions'
  BY CommitOneLive, CommitReuse, CommitPassword
<1> QED BY <1>1, <1>2, <1>3, <1>4, <1>5 DEF EndInv

-----------------------------------------------------------------------------
(* The specification *)

LEMMA EndNext == EndInv /\ IInv' /\ [Next]_vars => EndInv'
<1> SUFFICES ASSUME EndInv, IInv', [Next]_vars PROVE EndInv'
  OBVIOUS
<1>1. CASE Expire \/ UNCHANGED vars
  <2>1. UNCHANGED <<tokenVars, userVars, clientVars, req>>
    BY <1>1 DEF Expire, vars
  <2>2. \A p \in Req : Knows(req[p])'
    BY <2>1 DEF EndInv, tokenVars, userVars, Knows, Barred, Prompt, Alone, Live, Over
  <2> QED BY <2>1, <2>2, SameEnds DEF EndInv
<1>2. ASSUME NEW r \in Req, Abort(r) PROVE EndInv'
  BY <1>2, DenyEnd DEF Abort
<1> QED BY <1>1, <1>2, BeginEnd, LoadEnd, IssuePairEnd, ScanEnd, WriteEnd, CommitEnd,
           AnswerEnd DEF Next

LEMMA SpecEndInv == Spec => []EndInv
BY EndInit, EndNext, SpecInv, PTL DEF Spec

\* Under every interleaving: a request that arrives after its account was deleted
\* neither inserts a token nor writes any row.
THEOREM SpecDeletedAccountIsShut == Spec => []DeletedAccountIsShut
<1>1. EndInv => DeletedAccountIsShut
  <2> SUFFICES ASSUME EndInv, NEW r \in Req, req[r].barred,
                      req[r].op \in {"login", "refresh", "password"}
               PROVE  req[r].ins = NoToken /\ req[r].locks = {}
    BY DEF DeletedAccountIsShut
  <2>1. Barred(req[r]) /\ Inserted(req[r])
    BY DEF EndInv, IInv, CallOK, Knows
  <2> QED BY <2>1 DEF Barred, Inserted
<1> QED BY <1>1, SpecEndInv, PTL

\* In the build that commits before it answers, a token that was logged out and whose
\* logout was answered is revoked, whatever else runs.
THEOREM SpecLogoutSticks == Spec => [](CommitFirst => LogoutSticks)
<1>1. EndInv => (CommitFirst => LogoutSticks)
  BY DEF EndInv
<1> QED BY <1>1, SpecEndInv, PTL

\* In the same build, a token pair that a client holds is in the database.
THEOREM SpecAckedIsDurable == Spec => [](CommitFirst => AckedIsDurable)
<1>1. EndInv => (CommitFirst => AckedIsDurable)
  BY DEF EndInv
<1> QED BY <1>1, SpecEndInv, PTL

\* Requests that do not overlap leave one usable token in a family, in either build.
THEOREM SerialOneLiveTokenPerFamily == Spec => [](Serial => OneLiveTokenPerFamily)
<1>1. EndInv => (Serial => OneLiveTokenPerFamily)
  BY DEF EndInv
<1> QED BY <1>1, SpecEndInv, PTL

\* They end a family for good with the first replay that is reported.
THEOREM SerialReuseEndsFamily == Spec => [](Serial => ReuseEndsFamily)
<1>1. EndInv => (Serial => ReuseEndsFamily)
  BY DEF EndInv
<1> QED BY <1>1, SpecEndInv, PTL

\* And every usable token goes back to a login with the password of today.
THEOREM SerialPasswordChangeEndsSessions == Spec => [](Serial => PasswordChangeEndsSessions)
<1>1. EndInv => (Serial => PasswordChangeEndsSessions)
  BY DEF EndInv
<1> QED BY <1>1, SpecEndInv, PTL

=============================================================================
