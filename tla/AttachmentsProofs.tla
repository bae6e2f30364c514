-------------------------- MODULE AttachmentsProofs --------------------------
(***************************************************************************)
(* What the attachments module guarantees for every number of uploads,     *)
(* comments and concurrent requests, every size of file, limit, chunk and  *)
(* page.  The invariant relates an upload to what its blob holds at each   *)
(* of its stages, a request on a comment to the row it is about, access as *)
(* it is to access as it was, and the pages a client has read to the ranks *)
(* of the comments among those visible.                                    *)
(***************************************************************************)
EXTENDS Attachments, FiniteSetTheorems, TLAPS

\* The statements each kind of request goes through.
Route(q) ==
    /\ q.op = "none" => q = Idle
    /\ q.op = "upload" => q.pc \in {"access", "open", "copy", "put", "insert", "commit"}
    /\ q.op = "download" => q.pc \in {"row", "access", "serve"}
    /\ q.op = "post" => q.pc \in {"access", "insert", "commit"}
    /\ q.op \in {"edit", "erase"} => q.pc \in {"find", "access", "own", "flush", "commit"}

\* What a request was given.
Given(q) ==
    /\ q.op # "none" => q.actor \in User
    /\ q.op \in {"upload", "download"} => q.key \in Key /\ q.id = Unset
    /\ q.op \in {"post", "edit", "erase"} =>
         q.id \in CommentId /\ q.id <= begun /\ q.key = Unset
    /\ q.op \in {"post", "edit"} => q.text \in Text

\* What is stored under the key of an upload, stage by stage.
OnFile(q) ==
    /\ q.op = "download" => file[q.key] # Unset
    /\ q.op = "upload" =>
         /\ file[q.key] = Unset
         /\ q.pc \in {"access", "open", "put"} => blob[q.key] = Unset /\ q.read = 0
         /\ q.pc = "copy" => blob[q.key] = q.read /\ q.read <= q.body /\ q.read <= Limit
         /\ q.pc \in {"insert", "commit"} =>
              blob[q.key] = q.read /\ q.read = q.body /\ q.body <= Limit

\* The row of the comment a request is about.
OnComment(q) ==
    /\ q.op = "post" => comment[q.id] = Unset
    /\ q.op \in {"edit", "erase"} => comment[q.id] # Unset
    /\ q.op \in {"edit", "erase"} /\ q.pc \in {"access", "own", "flush", "commit"} =>
         q.base # Unset /\ q.base.author = comment[q.id].author
    /\ q.op \in {"edit", "erase"} /\ q.pc \in {"flush", "commit"} =>
         q.actor \in Admin \cup {comment[q.id].author}

\* Access as it is was access while the request was in flight, and nothing after the
\* check is reached without.
Entry(q) ==
    /\ q.op # "none" /\ Access(q.actor) => q.entitled
    /\ q.pc \in {"open", "copy", "put", "insert", "serve", "own", "flush", "commit"} =>
         q.entitled

CallOK(q) ==
    /\ q \in Request /\ Route(q) /\ Given(q)
    /\ OnFile(q) /\ OnComment(q) /\ Entry(q)

Apart(q1, q2) ==
    /\ q1.op = "upload" => q2.key # q1.key
    /\ q1.op = "post" => q2.id # q1.id

AllApart == \A r1, r2 \in Req : r1 # r2 => Apart(req[r1], req[r2])

NoneFromTheFuture == \A c \in CommentId : comment[c] # Unset => c <= begun

\* The place of x when the rows are sorted.
Rank(rows, x) == Cardinality({y \in rows : y <= x})

\* What the client has read are the rows up to the offset of the page it is at.
Reading ==
    /\ walk.start \subseteq Visible /\ walk.seen \subseteq Visible
    /\ \A x \in walk.seen : Rank(Visible, x) <= Offset(walk.page, Size)
    /\ \A x \in walk.start : Rank(Visible, x) <= Offset(walk.page, Size) => x \in walk.seen
    /\ ~walk.twice

\* While comments are only appended, the count covers what was there at the start.
WalkOK ==
    /\ walk.pc # "idle" => walk.page # 0
    /\ walk.steady /\ walk.pc \in {"count", "fetch"} => Reading
    /\ walk.steady /\ walk.pc = "fetch" =>
         \A x \in walk.start : Rank(Visible, x) <= walk.total
    /\ WalkMissesNothing

FilesOK == RowsHaveTheirBlob /\ OnlyFaultsLeaveBlobs

IInv ==
    /\ TypeOK /\ FilesOK /\ NoneFromTheFuture /\ WalkOK
    /\ \A r \in Req : CallOK(req[r])
    /\ AllApart

-----------------------------------------------------------------------------
(* Ranks and pages *)

LEMMA VisibleFinite ==
    /\ IsFiniteSet(CommentId) /\ CommentId \subseteq Nat
    /\ \A rows \in SUBSET CommentId : IsFiniteSet(rows)
<1>1. IsFiniteSet(CommentId)
  BY FS_Interval, ConstantsAssumption DEF CommentId
<1>2. CommentId \subseteq Nat
  BY DEF CommentId
<1>3. ASSUME NEW rows \in SUBSET CommentId PROVE IsFiniteSet(rows)
  BY <1>1, FS_Subset
<1> QED BY <1>1, <1>2, <1>3

LEMMA RankBounds ==
    ASSUME NEW rows \in SUBSET CommentId, NEW x \in CommentId
    PROVE  /\ Rank(rows, x) \in Nat /\ Cardinality(rows) \in Nat
           /\ Rank(rows, x) <= Cardinality(rows)
           /\ x \in rows => Rank(rows, x) # 0
<1>1. IsFiniteSet(rows) /\ {y \in rows : y <= x} \subseteq rows
  BY VisibleFinite
<1>2. /\ IsFiniteSet({y \in rows : y <= x})
      /\ Cardinality({y \in rows : y <= x}) <= Cardinality(rows)
  BY <1>1, FS_Subset
<1>3. x \in rows => x \in {y \in rows : y <= x}
  BY VisibleFinite
<1> QED BY <1>1, <1>2, <1>3, FS_CardinalityType, FS_EmptySet DEF Rank

\* A row that comes after all others changes the rank of none of them.
LEMMA AppendKeepsRanks ==
    ASSUME NEW rows \in SUBSET CommentId, NEW c \in CommentId, \A y \in rows : y < c,
           NEW x \in rows
    PROVE  Rank(rows \cup {c}, x) = Rank(rows, x)
<1>1. {y \in rows \cup {c} : y <= x} = {y \in rows : y <= x}
  BY VisibleFinite
<1> QED BY <1>1 DEF Rank

LEMMA PageIsRanks ==
    ASSUME NEW rows, NEW page, NEW x
    PROVE  x \in PageOf(rows, page, Size) <=>
             /\ x \in rows /\ Offset(page, Size) < Rank(rows, x)
             /\ Rank(rows, x) <= Offset(page, Size) + Size
BY DEF PageOf, Rank

LEMMA NextOffset ==
    ASSUME NEW page \in Nat \ {0}
    PROVE  /\ Offset(page, Size) \in Nat
           /\ Offset(page + 1, Size) = Offset(page, Size) + Size
           /\ Offset(page, Size) + Size = page * Size
<1>1. Size \in Nat
  BY ConstantsAssumption
<1>2. page - 1 \in Nat
  OBVIOUS
<1>3. (page - 1) * Size \in Nat
  BY <1>1, <1>2
<1>4. (page + 1 - 1) * Size = page * Size
  BY <1>1
<1>5. (page - 1) * Size + Size = page * Size
  BY <1>1
<1> QED BY <1>3, <1>4, <1>5 DEF Offset

\* The last page that is announced ends where the rows that were counted end.
LEMMA LastPageCovers ==
    ASSUME NEW total \in Nat, NEW page \in Nat \ {0}, ~(page < Pages(total, Size))
    PROVE  total <= page * Size
<1>1. Size \in Nat /\ Size > 0
  BY ConstantsAssumption
<1>2. PICK pages \in Int : pages = (total + Size - 1) \div Size
  BY <1>1
<1>3. total + Size - 1 < (pages + 1) * Size
  BY <1>1, <1>2
<1>4. pages <= page
  BY <1>2 DEF Pages
<1>5. (pages + 1) * Size = pages * Size + Size
  BY <1>1
<1>6. pages * Size <= page * Size
  BY <1>1, <1>4
<1>7. pages * Size \in Int /\ page * Size \in Int
  BY <1>1
<1> QED BY <1>1, <1>3, <1>5, <1>6, <1>7

-----------------------------------------------------------------------------
(* Steps of one request that leave the comments alone *)

LEMMA IdleOK == CallOK(Idle)
BY DEF CallOK, Idle, Request, Stage, Op, Route, Given, OnFile, OnComment, Entry

LEMMA InitInv == Init => IInv
<1> SUFFICES ASSUME Init PROVE IInv
  OBVIOUS
<1>1. \A r \in Req : req[r] = Idle
  BY DEF Init
<1>2. NoWalk \in Walk
  BY DEF NoWalk, Walk
<1>3. TypeOK
  BY <1>2, IdleOK, ConstantsAssumption DEF Init, TypeOK, CallOK
<1>4. FilesOK /\ NoneFromTheFuture
  BY DEF Init, FilesOK, RowsHaveTheirBlob, OnlyFaultsLeaveBlobs, NoneFromTheFuture
<1>5. WalkOK
  BY DEF Init, WalkOK, WalkMissesNothing, NoWalk
<1>6. AllApart
  <2>1. Idle.op = "none"
    BY DEF Idle
  <2> QED BY <1>1, <2>1 DEF AllApart, Apart
<1> QED BY <1>1, <1>3, <1>4, <1>5, <1>6, IdleOK DEF IInv

\* A step writes at most the blob and the row of its own upload.
OwnKeyOnly(r) ==
    \A k \in Key : \/ blob'[k] = blob[k] /\ file'[k] = file[k]
                   \/ req[r].op = "upload" /\ k = req[r].key

LEMMA OthersKept ==
    ASSUME IInv, NEW r \in Req, UNCHANGED <<world, comment, begun>>, OwnKeyOnly(r),
           NEW o \in Req \ {r}, req'[o] = req[o]
    PROVE  CallOK(req[o])'
<1>1. CallOK(req[o]) /\ Apart(req[r], req[o])
  BY DEF IInv, AllApart
<1>2. (req[o] \in Request /\ Route(req[o]) /\ Given(req[o]))'
  BY <1>1 DEF CallOK, Route, Given
<1>3. req[o].op \in {"upload", "download"} =>
        req[o].key \in Key /\ (blob'[req[o].key] = blob[req[o].key]
                               /\ file'[req[o].key] = file[req[o].key])
  BY <1>1 DEF CallOK, Given, OwnKeyOnly, Apart
<1>4. OnFile(req[o])'
  BY <1>1, <1>3 DEF CallOK, OnFile
<1>5. OnComment(req[o])' /\ Entry(req[o])'
  BY <1>1 DEF CallOK, OnComment, Entry, Access, world
<1> QED BY <1>2, <1>4, <1>5 DEF CallOK

LEMMA WalkKept ==
    ASSUME IInv, UNCHANGED <<comment, walk>>
    PROVE  WalkOK'
BY DEF IInv, WalkOK, WalkMissesNothing, Reading, Visible, Found, Rank, Offset

LEMMA RequestStep ==
    ASSUME IInv, NEW r \in Req, NEW call,
           UNCHANGED <<world, comment, begun, walk>>,
           blob' \in [Key -> Nat \cup {Unset}], file' \in [Key -> Nat \cup {Unset}],
           cut' \subseteq Key, cut \subseteq cut',
           req' = [req EXCEPT ![r] = call], CallOK(call)',
           \A o \in Req \ {r} : Apart(call, req[o]) /\ Apart(req[o], call),
           OwnKeyOnly(r),
           req[r].key \in Key =>
             /\ file'[req[r].key] # Unset =>
                  blob'[req[r].key] = file'[req[r].key] /\ file'[req[r].key] <= Limit
             /\ blob'[req[r].key] # Unset /\ file'[req[r].key] = Unset =>
                  req[r].key \in cut' \/ call.key = req[r].key
    PROVE  IInv'
<1>1. req'[r] = call /\ \A o \in Req \ {r} : req'[o] = req[o]
  BY DEF IInv, TypeOK
<1>2. call \in Request
  BY DEF CallOK
<1>3. TypeOK'
  BY <1>2 DEF IInv, TypeOK, world
<1>4. \A o \in Req : CallOK(req[o])'
  <2>1. ASSUME NEW o \in Req, req'[o] = call PROVE CallOK(req[o])'
    BY <2>1 DEF CallOK, Route, Given, OnFile, OnComment, Entry, Access
  <2> QED BY <1>1, <2>1, OthersKept
<1>5. \A k \in Key : k # req[r].key => blob'[k] = blob[k] /\ file'[k] = file[k]
  BY DEF OwnKeyOnly
<1>6. RowsHaveTheirBlob'
  BY <1>5 DEF IInv, FilesOK, RowsHaveTheirBlob
<1>7. OnlyFaultsLeaveBlobs'
  <2> SUFFICES ASSUME NEW k \in Key, blob'[k] # Unset, file'[k] = Unset, k \notin cut'
               PROVE  \E o \in Req : req'[o].key = k
    BY DEF OnlyFaultsLeaveBlobs
  <2>1. CASE k = req[r].key
    BY <1>1, <2>1
  <2>2. CASE k # req[r].key
    <3>1. PICK o \in Req : req[o].key = k
      BY <1>5, <2>2 DEF IInv, FilesOK, OnlyFaultsLeaveBlobs
    <3> QED BY <1>1, <2>2, <3>1
  <2> QED BY <2>1, <2>2
<1>8. NoneFromTheFuture'
  BY DEF IInv, NoneFromTheFuture
<1>9. WalkOK'
  BY WalkKept
<1>10. \A r1, r2 \in Req : r1 # r2 => Apart(req'[r1], req'[r2])
  BY <1>1 DEF IInv, AllApart
<1>11. AllApart'
  BY <1>10 DEF AllApart, Apart
<1> QED BY <1>3, <1>4, <1>6, <1>7, <1>8, <1>9, <1>11, Zenon DEF IInv, FilesOK

\* A statement that writes nothing.
LEMMA QuietStep ==
    ASSUME IInv, NEW r \in Req, NEW call, Goto(r, call), CallOK(call),
           \A o \in Req \ {r} : Apart(call, req[o]) /\ Apart(req[o], call),
           req[r].op = "upload" /\ call.key # req[r].key => blob[req[r].key] = Unset
    PROVE  IInv'
<1>1. /\ UNCHANGED <<world, comment, begun, walk, blob, file, cut>>
      /\ req' = [req EXCEPT ![r] = call]
  BY DEF Goto, Becomes, stores
<1>2. /\ blob' \in [Key -> Nat \cup {Unset}] /\ file' \in [Key -> Nat \cup {Unset}]
      /\ cut' \subseteq Key /\ cut \subseteq cut' /\ OwnKeyOnly(r)
  BY <1>1 DEF IInv, TypeOK, OwnKeyOnly
<1>3. CallOK(call)'
  BY <1>1 DEF CallOK, Route, Given, OnFile, OnComment, Entry, Access, world
<1>4. ASSUME req[r].key \in Key
      PROVE  /\ file'[req[r].key] # Unset =>
                  blob'[req[r].key] = file'[req[r].key] /\ file'[req[r].key] <= Limit
             /\ blob'[req[r].key] # Unset /\ file'[req[r].key] = Unset =>
                  req[r].key \in cut' \/ call.key = req[r].key
  <2>1. req[r].op \in {"upload", "download"}
    BY <1>4, ConstantsAssumption
       DEF IInv, CallOK, Request, Op, Route, Idle, Given
  <2>2. req[r].op = "download" => file[req[r].key] # Unset
    BY DEF IInv, CallOK, OnFile
  <2> QED BY <1>1, <1>4, <2>1, <2>2 DEF IInv, FilesOK, RowsHaveTheirBlob
<1> QED BY <1>1, <1>2, <1>3, <1>4, RequestStep

\* The same for a request that stays what it is.
LEMMA QuietCall ==
    ASSUME IInv, NEW r \in Req, NEW call, Goto(r, call), CallOK(call),
           call.op = req[r].op, call.key = req[r].key, call.id = req[r].id
    PROVE  IInv'
<1>1. \A o \in Req \ {r} : Apart(call, req[o]) /\ Apart(req[o], call)
  BY DEF IInv, AllApart, Apart
<1> QED BY <1>1, QuietStep

LEMMA IdleApart ==
    ASSUME IInv, NEW o \in Req
    PROVE  Apart(Idle, req[o]) /\ Apart(req[o], Idle)
<1>1. Idle.op = "none" /\ Idle.key = Unset /\ Idle.id = Unset
  BY DEF Idle
<1>2. /\ req[o].op = "upload" => req[o].key # Unset
      /\ req[o].op = "post" => req[o].id # Unset
  BY ConstantsAssumption DEF IInv, CallOK, Given, CommentId
<1> QED BY <1>1, <1>2 DEF Apart

LEMMA FailInv ==
    ASSUME IInv, NEW r \in Req, Fail(r), req[r].op = "upload" => blob[req[r].key] = Unset
    PROVE  IInv'
BY IdleOK, IdleApart, QuietStep DEF Fail

-----------------------------------------------------------------------------
(* Requests arrive *)

\* The records the requests arrive as.
Upload(u, k, n) ==
    [Idle EXCEPT !.op = "upload", !.pc = "access", !.actor = u, !.key = k, !.body = n]

Download(u, k) == [Idle EXCEPT !.op = "download", !.pc = "row", !.actor = u, !.key = k]

Post(u, c, text, entitled) ==
    [Idle EXCEPT !.op = "post", !.pc = "access", !.actor = u, !.id = c, !.text = text,
                 !.entitled = entitled]

Edit(u, c, text) ==
    [Idle EXCEPT !.op = "edit", !.pc = "find", !.actor = u, !.id = c, !.text = text]

Erase(u, c) == [Idle EXCEPT !.op = "erase", !.pc = "find", !.actor = u, !.id = c]

\* It has access or not as it arrives.
Entering(call) == [call EXCEPT !.entitled = Access(call.actor)]

LEMMA EnteringOK ==
    ASSUME IInv, NEW call \in Request, Route(call), Given(call), OnFile(call), OnComment(call),
           call.op # "none", call.pc \in {"access", "row", "find"}
    PROVE  /\ CallOK(Entering(call)) /\ Entering(call).op = call.op
           /\ Entering(call).key = call.key /\ Entering(call).id = call.id
<1>1. Access(call.actor) \in BOOLEAN
  BY DEF IInv, TypeOK, Access
<1>2. PICK e \in BOOLEAN : e = Access(call.actor)
  BY <1>1
<1>3. Entering(call) = [call EXCEPT !.entitled = e]
  BY <1>2 DEF Entering
<1>4. PICK q : q = Entering(call)
  OBVIOUS
<1>5. /\ q \in Request /\ q.pc = call.pc /\ q.op = call.op /\ q.actor = call.actor
      /\ q.key = call.key /\ q.body = call.body /\ q.read = call.read /\ q.id = call.id
      /\ q.text = call.text /\ q.base = call.base /\ q.locked = call.locked /\ q.entitled = e
  BY <1>3, <1>4 DEF Request
<1>6. Route(q) /\ Given(q)
  BY <1>5 DEF Route, Given
<1>7. OnFile(q) /\ OnComment(q) /\ Entry(q)
  BY <1>2, <1>5 DEF OnFile, OnComment, Entry
<1> QED BY <1>4, <1>5, <1>6, <1>7 DEF CallOK

LEMMA ArriveInv ==
    ASSUME IInv, NEW r \in Req, NEW call \in Request, Route(call), Given(call),
           OnFile(call), OnComment(call), call.op # "none",
           call.pc \in {"access", "row", "find"}, Arrive(r, call),
           call.op # "post",
           call.op = "upload" => \A o \in Req : req[o].key # call.key
    PROVE  IInv'
<1>1. PICK made : made = Entering(call)
  OBVIOUS
<1>2. CallOK(made) /\ made.op = call.op /\ made.key = call.key /\ made.id = call.id
  BY <1>1, EnteringOK
<1>3. Goto(r, made) /\ req[r] = Idle
  BY <1>1 DEF Arrive, Entering
<1>4. req[r].op = "none"
  BY <1>3 DEF Idle
<1>5. ASSUME NEW o \in Req \ {r} PROVE Apart(made, req[o]) /\ Apart(req[o], made)
  <2>1. CallOK(req[o])
    BY DEF IInv
  <2>2. req[o].op = "upload" => made.key # req[o].key
    <3>1. call.op = "download" => file[call.key] # Unset
      BY DEF OnFile
    <3>2. req[o].op = "upload" => file[req[o].key] = Unset /\ req[o].key # Unset
      BY <2>1, ConstantsAssumption DEF CallOK, OnFile, Given
    <3>3. call.op \in {"edit", "erase"} => call.key = Unset
      BY DEF Given
    <3> QED BY <1>2, <3>1, <3>2, <3>3 DEF Request, Op
  <2>3. req[o].op = "post" => made.id # req[o].id
    <3>1. req[o].op = "post" => comment[req[o].id] = Unset /\ req[o].id # Unset
      BY <2>1, ConstantsAssumption DEF CallOK, OnComment, Given, CommentId
    <3>2. call.op \in {"edit", "erase"} => comment[call.id] # Unset
      BY DEF OnComment
    <3>3. call.op \in {"upload", "download"} => call.id = Unset
      BY DEF Given
    <3> QED BY <1>2, <3>1, <3>2, <3>3 DEF Request, Op
  <2> QED BY <1>2, <2>2, <2>3 DEF Apart
<1> QED BY <1>2, <1>3, <1>4, <1>5, QuietStep

LEMMA BeginPostInv ==
    ASSUME IInv, NEW r \in Req, BeginPost(r)
    PROVE  IInv'
<1>1. PICK u \in User, text \in Text :
        /\ begun < MaxComment /\ req[r] = Idle /\ begun' = begun + 1
        /\ req' = [req EXCEPT ![r] = Post(u, begun + 1, text, Access(u))]
        /\ UNCHANGED <<world, blob, file, comment, cut, walk>>
  BY DEF BeginPost, Post, stores
<1>2. begun \in 0..MaxComment /\ MaxComment \in Nat
  BY ConstantsAssumption DEF IInv, TypeOK
<1>3. begun + 1 \in CommentId /\ begun' \in 0..MaxComment
  BY <1>1, <1>2 DEF CommentId
<1>4. PICK entitled \in BOOLEAN : entitled = Access(u)
  BY DEF IInv, TypeOK, Access
<1>5. PICK call : call = Post(u, begun + 1, text, entitled)
  OBVIOUS
<1>6. /\ call \in Request /\ call.op = "post" /\ call.pc = "access" /\ call.actor = u
      /\ call.key = Unset /\ call.id = begun + 1 /\ call.text = text
      /\ call.entitled = entitled
  BY <1>3, <1>5 DEF Post, Idle, Request, Stage, Op
<1>7. req'[r] = call /\ \A o \in Req \ {r} : req'[o] = req[o]
  BY <1>1, <1>4, <1>5 DEF IInv, TypeOK
<1>8. TypeOK'
  BY <1>1, <1>3, <1>6, <1>7 DEF IInv, TypeOK, world
<1>9. comment[begun + 1] = Unset
  BY <1>2, <1>3 DEF IInv, NoneFromTheFuture
<1>10. ASSUME NEW o \in Req, req'[o] = call PROVE CallOK(req[o])'
  <2>1. (Route(req[o]) /\ Given(req[o]))'
    BY <1>1, <1>2, <1>3, <1>6, <1>10 DEF Route, Given
  <2>2. (OnFile(req[o]) /\ OnComment(req[o]))'
    BY <1>1, <1>6, <1>9, <1>10 DEF OnFile, OnComment
  <2>3. Access(u)' <=> Access(u)
    BY <1>1 DEF Access, world
  <2>4. Entry(req[o])'
    BY <1>4, <1>6, <1>10, <2>3 DEF Entry, Access
  <2> QED BY <1>6, <1>10, <2>1, <2>2, <2>4 DEF CallOK
<1>11. ASSUME NEW o \in Req \ {r} PROVE CallOK(req[o])'
  <2>1. CallOK(req[o]) /\ req'[o] = req[o]
    BY <1>7 DEF IInv
  <2>2. (req[o] \in Request /\ Route(req[o]))'
    BY <2>1 DEF CallOK, Route
  <2>3. Given(req[o])'
    BY <1>1, <1>2, <2>1 DEF CallOK, Given, CommentId
  <2>4. (OnFile(req[o]) /\ OnComment(req[o]) /\ Entry(req[o]))'
    BY <1>1, <2>1 DEF CallOK, OnFile, OnComment, Entry, Access, world
  <2> QED BY <2>2, <2>3, <2>4 DEF CallOK
<1>12. FilesOK'
  <2>1. req[r].key = Unset
    BY <1>1 DEF Idle
  <2>2. ASSUME NEW k \in Key, NEW o \in Req, req[o].key = k PROVE req'[o].key = k
    BY <1>7, <2>1, <2>2, ConstantsAssumption
  <2> QED BY <1>1, <2>2 DEF IInv, FilesOK, RowsHaveTheirBlob, OnlyFaultsLeaveBlobs
<1>13. NoneFromTheFuture' /\ WalkOK'
  BY <1>1, <1>2, WalkKept DEF IInv, NoneFromTheFuture, CommentId
<1>14. ASSUME NEW o \in Req \ {r} PROVE Apart(call, req[o]) /\ Apart(req[o], call)
  <2>1. CallOK(req[o])
    BY DEF IInv
  <2>2. req[o].id # begun + 1
    <3>1. CASE req[o].op \in {"post", "edit", "erase"}
      BY <1>2, <2>1, <3>1 DEF CallOK, Given, CommentId
    <3>2. CASE req[o].op \in {"none", "upload", "download"}
      <4>1. req[o].id = Unset
        BY <2>1, <3>2 DEF CallOK, Given, Route, Idle
      <4> QED BY <1>2, <4>1, ConstantsAssumption
    <3> QED BY <2>1, <3>1, <3>2 DEF CallOK, Request, Op
  <2>3. req[o].op = "upload" => req[o].key # Unset
    BY <2>1, ConstantsAssumption DEF CallOK, Given
  <2> QED BY <1>6, <2>2, <2>3 DEF Apart
<1>15. \A r1, r2 \in Req : r1 # r2 => Apart(req'[r1], req'[r2])
  BY <1>7, <1>14 DEF IInv, AllApart
<1>16. AllApart'
  BY <1>15 DEF AllApart, Apart
<1> QED BY <1>7, <1>8, <1>10, <1>11, <1>12, <1>13, <1>16 DEF IInv

LEMMA BeginInv ==
    ASSUME IInv, NEW r \in Req, Begin(r)
    PROVE  IInv'
<1>1. CASE BeginUpload(r)
  <2>1. PICK u \in User, k \in Key, n \in Bodies :
          /\ blob[k] = Unset /\ \A q \in Req : req[q].key # k
          /\ Arrive(r, Upload(u, k, n))
    BY <1>1 DEF BeginUpload, Upload
  <2>2. PICK call : call = Upload(u, k, n)
    OBVIOUS
  <2>3. n \in Nat
    BY ConstantsAssumption
  <2>4. /\ call \in Request /\ call.op = "upload" /\ call.pc = "access" /\ call.actor = u
        /\ call.key = k /\ call.read = 0 /\ call.id = Unset
    BY <2>2, <2>3 DEF Upload, Idle, Request, Stage, Op
  <2>5. file[k] = Unset
    BY <2>1, ConstantsAssumption DEF IInv, TypeOK, FilesOK, RowsHaveTheirBlob
  <2>6. Route(call) /\ Given(call) /\ OnFile(call) /\ OnComment(call)
    BY <2>1, <2>4, <2>5 DEF Route, Given, OnFile, OnComment
  <2> QED BY <2>1, <2>2, <2>4, <2>6, ArriveInv
<1>2. CASE BeginDownload(r)
  <2>1. PICK u \in User, k \in Key : file[k] # Unset /\ Arrive(r, Download(u, k))
    BY <1>2 DEF BeginDownload, Download
  <2>2. PICK call : call = Download(u, k)
    OBVIOUS
  <2>3. /\ call \in Request /\ call.op = "download" /\ call.pc = "row" /\ call.actor = u
        /\ call.key = k /\ call.id = Unset
    BY <2>2 DEF Download, Idle, Request, Stage, Op
  <2>4. Route(call) /\ Given(call) /\ OnFile(call) /\ OnComment(call)
    BY <2>1, <2>3 DEF Route, Given, OnFile, OnComment
  <2> QED BY <2>1, <2>2, <2>3, <2>4, ArriveInv
<1>3. CASE BeginEdit(r)
  <2>1. PICK u \in User, c \in CommentId, text \in Text :
          comment[c] # Unset /\ Arrive(r, Edit(u, c, text))
    BY <1>3 DEF BeginEdit, Edit
  <2>2. PICK call : call = Edit(u, c, text)
    OBVIOUS
  <2>3. /\ call \in Request /\ call.op = "edit" /\ call.pc = "find" /\ call.actor = u
        /\ call.key = Unset /\ call.id = c /\ call.text = text
    BY <2>2 DEF Edit, Idle, Request, Stage, Op
  <2>4. Route(call) /\ Given(call) /\ OnFile(call) /\ OnComment(call)
    BY <2>1, <2>3 DEF Route, Given, OnFile, OnComment, IInv, NoneFromTheFuture
  <2> QED BY <2>1, <2>2, <2>3, <2>4, ArriveInv
<1>4. CASE BeginErase(r)
  <2>1. PICK u \in User, c \in CommentId : comment[c] # Unset /\ Arrive(r, Erase(u, c))
    BY <1>4 DEF BeginErase, Erase
  <2>2. PICK call : call = Erase(u, c)
    OBVIOUS
  <2>3. /\ call \in Request /\ call.op = "erase" /\ call.pc = "find" /\ call.actor = u
        /\ call.key = Unset /\ call.id = c
    BY <2>2 DEF Erase, Idle, Request, Stage, Op
  <2>4. Route(call) /\ Given(call) /\ OnFile(call) /\ OnComment(call)
    BY <2>1, <2>3 DEF Route, Given, OnFile, OnComment, IInv, NoneFromTheFuture
  <2> QED BY <2>1, <2>2, <2>3, <2>4, ArriveInv
<1> QED BY <1>1, <1>2, <1>3, <1>4, BeginPostInv DEF Begin

-----------------------------------------------------------------------------
(* Uploads *)

\* The storage writes the blob, and the upload goes on.
LEMMA UploadGoesOn ==
    ASSUME IInv, NEW r \in Req, NEW n \in Nat, NEW call \in Request,
           req[r].op = "upload", Store(req[r].key, n), Becomes(r, call),
           call.op = "upload", call.actor = req[r].actor, call.key = req[r].key,
           call.id = req[r].id, call.text = req[r].text, call.entitled = req[r].entitled,
           req[r].entitled,
           \/ call.pc = "copy" /\ n = call.read /\ n <= call.body /\ n <= Limit
           \/ call.pc = "insert" /\ n = call.read /\ n = call.body /\ n <= Limit
    PROVE  IInv'
<1>1. CallOK(req[r])
  BY DEF IInv
<1>2. req[r].key \in Key /\ file[req[r].key] = Unset
  BY <1>1 DEF CallOK, Given, OnFile
<1>3. blob' = [blob EXCEPT ![req[r].key] = n] /\ UNCHANGED <<file, comment, cut>>
  BY DEF Store
<1>4. /\ blob' \in [Key -> Nat \cup {Unset}] /\ file' \in [Key -> Nat \cup {Unset}]
      /\ cut' \subseteq Key /\ OwnKeyOnly(r) /\ blob'[req[r].key] = n
  BY <1>2, <1>3 DEF IInv, TypeOK, OwnKeyOnly
<1>5. (Route(call) /\ Given(call))'
  BY <1>1 DEF CallOK, Route, Given, Becomes
<1>6. (OnFile(call) /\ OnComment(call) /\ Entry(call))'
  BY <1>2, <1>3, <1>4 DEF OnFile, OnComment, Entry
<1>7. CallOK(call)'
  BY <1>5, <1>6 DEF CallOK
<1>8. \A o \in Req \ {r} : Apart(call, req[o]) /\ Apart(req[o], call)
  BY DEF IInv, AllApart, Apart
<1> QED BY <1>2, <1>3, <1>4, <1>7, <1>8, RequestStep DEF Becomes

\* The upload ends: nothing is stored, or a row announces it, or a fault ended it.
LEMMA UploadEnds ==
    ASSUME IInv, NEW r \in Req, req[r].op = "upload", Becomes(r, Idle),
           UNCHANGED comment,
           blob' \in [Key -> Nat \cup {Unset}], file' \in [Key -> Nat \cup {Unset}],
           cut \subseteq cut', cut' \subseteq cut \cup {req[r].key},
           \A k \in Key \ {req[r].key} : blob'[k] = blob[k] /\ file'[k] = file[k],
           file'[req[r].key] # Unset =>
             blob'[req[r].key] = file'[req[r].key] /\ file'[req[r].key] <= Limit,
           \/ blob'[req[r].key] = Unset \/ file'[req[r].key] # Unset
           \/ req[r].key \in cut'
    PROVE  IInv'
<1>1. req[r].key \in Key
  BY DEF IInv, CallOK, Given
<1>2. CallOK(Idle)'
  BY IdleOK DEF Idle, CallOK, Route, Given, OnFile, OnComment, Entry
<1>3. cut' \subseteq Key /\ OwnKeyOnly(r)
  BY <1>1 DEF IInv, TypeOK, OwnKeyOnly
<1> QED BY <1>1, <1>2, <1>3, IdleApart, RequestStep DEF Becomes

LEMMA UploadInv ==
    ASSUME IInv, NEW r \in Req,
           \/ OpenFile(r) \/ CopyChunk(r) \/ CopyDone(r) \/ UndoCopy(r)
           \/ PutTooLarge(r) \/ Put(r) \/ PutLost(r) \/ CommitFile(r)
    PROVE  IInv'
<1>1. PICK q : q = req[r]
  OBVIOUS
<1>2. CallOK(q) /\ q \in Request /\ q.op = "upload" /\ q.key \in Key /\ file[q.key] = Unset
  BY <1>1 DEF IInv, CallOK, Given, OnFile, OpenFile, CopyChunk, CopyDone, UndoCopy,
              PutTooLarge, Put, PutLost, CommitFile, At
<1>3. Limit \in Nat /\ Chunk \in Nat \ {0} /\ Unset \notin Nat
  BY ConstantsAssumption
<1>4. /\ blob \in [Key -> Nat \cup {Unset}] /\ file \in [Key -> Nat \cup {Unset}]
      /\ cut \subseteq Key
  BY DEF IInv, TypeOK
<1>5. CASE OpenFile(r)
  <2>1. PICK call : call = [q EXCEPT !.pc = "copy"]
    OBVIOUS
  <2>2. /\ call \in Request /\ call.op = q.op /\ call.actor = q.actor /\ call.key = q.key
        /\ call.id = q.id /\ call.text = q.text /\ call.entitled = q.entitled
        /\ call.pc = "copy" /\ call.read = q.read /\ call.body = q.body /\ q.body \in Nat
    BY <1>2, <2>1 DEF Request, Stage
  <2>3. q.read = 0 /\ q.entitled
    BY <1>1, <1>2, <1>5 DEF OpenFile, At, CallOK, OnFile, Entry
  <2>4. Store(q.key, 0) /\ Becomes(r, call)
    BY <1>1, <1>5, <2>1 DEF OpenFile
  <2>5. 0 \in Nat /\ 0 = call.read /\ 0 <= call.body /\ 0 <= Limit
    BY <1>3, <2>2, <2>3
  <2> QED BY <1>1, <1>2, <2>2, <2>3, <2>4, <2>5, UploadGoesOn
<1>6. CASE CopyChunk(r)
  <2>1. PICK size : size = q.read + Take(q)
    OBVIOUS
  <2>2. q.read \in Nat /\ q.body \in Nat /\ q.entitled
    BY <1>1, <1>2, <1>6 DEF Request, CopyChunk, At, CallOK, Entry
  <2>3. q.read < q.body /\ size <= Limit
    BY <1>1, <1>6, <2>1 DEF CopyChunk
  <2>4. size \in Nat /\ size <= q.body
    BY <1>3, <2>1, <2>2, <2>3 DEF Take
  <2>5. PICK call : call = [q EXCEPT !.read = size]
    OBVIOUS
  <2>6. /\ call \in Request /\ call.op = q.op /\ call.actor = q.actor /\ call.key = q.key
        /\ call.id = q.id /\ call.text = q.text /\ call.entitled = q.entitled
        /\ call.pc = q.pc /\ call.read = size /\ call.body = q.body
    BY <1>2, <2>4, <2>5 DEF Request
  <2>7. Store(q.key, size) /\ Becomes(r, call) /\ q.pc = "copy"
    BY <1>1, <1>6, <2>1, <2>5 DEF CopyChunk, At
  <2> QED BY <1>1, <1>2, <2>2, <2>3, <2>4, <2>6, <2>7, UploadGoesOn
<1>7. CASE CopyDone(r)
  <2>1. PICK call : call = [q EXCEPT !.pc = "insert"]
    OBVIOUS
  <2>2. /\ call \in Request /\ call.op = q.op /\ call.actor = q.actor /\ call.key = q.key
        /\ call.id = q.id /\ call.text = q.text /\ call.entitled = q.entitled
        /\ call.pc = "insert" /\ call.read = q.read /\ call.body = q.body
    BY <1>2, <2>1 DEF Request, Stage
  <2>3. Goto(r, call) /\ q.pc = "copy" /\ q.read = q.body
    BY <1>1, <1>7, <2>1 DEF CopyDone, At
  <2>4. Route(call) /\ Given(call)
    BY <1>2, <2>2 DEF CallOK, Route, Given
  <2>5. OnFile(call) /\ OnComment(call) /\ Entry(call)
    BY <1>2, <2>2, <2>3 DEF CallOK, OnFile, OnComment, Entry
  <2> QED BY <1>1, <2>2, <2>3, <2>4, <2>5, QuietCall DEF CallOK
<1>8. CASE UndoCopy(r)
  <2>1. blob' = [blob EXCEPT ![q.key] = Unset] /\ UNCHANGED <<file, comment, cut>>
    BY <1>1, <1>8 DEF UndoCopy, Store
  <2> QED BY <1>1, <1>2, <1>4, <1>8, <2>1, UploadEnds DEF UndoCopy
<1>9. CASE PutTooLarge(r)
  <2>1. Fail(r) /\ blob[q.key] = Unset
    BY <1>1, <1>2, <1>9 DEF PutTooLarge, At, CallOK, OnFile
  <2> QED BY <1>1, <2>1, FailInv
<1>10. CASE Put(r)
  <2>1. PICK call : call = [q EXCEPT !.read = q.body, !.pc = "insert"]
    OBVIOUS
  <2>2. /\ call \in Request /\ call.op = q.op /\ call.actor = q.actor /\ call.key = q.key
        /\ call.id = q.id /\ call.text = q.text /\ call.entitled = q.entitled
        /\ call.pc = "insert" /\ call.read = q.body /\ call.body = q.body /\ q.body \in Nat
    BY <1>2, <2>1 DEF Request, Stage
  <2>3. Store(q.key, q.body) /\ Becomes(r, call) /\ q.pc = "put" /\ q.body <= Limit
    BY <1>1, <1>10, <2>1 DEF Put, At
  <2>4. q.entitled
    BY <1>2, <2>3 DEF CallOK, Entry
  <2> QED BY <1>1, <1>2, <2>2, <2>3, <2>4, UploadGoesOn
<1>11. CASE PutLost(r)
  <2>1. /\ blob' = [blob EXCEPT ![q.key] = q.body] /\ cut' = cut \cup {q.key}
        /\ UNCHANGED <<file, comment>> /\ Becomes(r, Idle)
    BY <1>1, <1>11 DEF PutLost
  <2>2. q.body \in Nat
    BY <1>2 DEF Request
  <2> QED BY <1>1, <1>2, <1>4, <2>1, <2>2, UploadEnds
<1>12. CASE CommitFile(r)
  <2>1. /\ file' = [file EXCEPT ![q.key] = q.read] /\ q.pc = "commit"
        /\ UNCHANGED <<blob, comment, cut>> /\ Becomes(r, Idle)
    BY <1>1, <1>12 DEF CommitFile, At
  <2>2. q.read \in Nat /\ blob[q.key] = q.read /\ q.read <= Limit
    BY <1>2, <2>1 DEF CallOK, Request, OnFile
  <2> QED BY <1>1, <1>2, <1>3, <1>4, <2>1, <2>2, UploadEnds
<1> QED BY <1>5, <1>6, <1>7, <1>8, <1>9, <1>10, <1>11, <1>12

\* A fault: an upload's key is remembered as cut off.
LEMMA AbortInv ==
    ASSUME IInv, NEW r \in Req, Abort(r)
    PROVE  IInv'
<1>1. Becomes(r, Idle) /\ UNCHANGED <<blob, file, comment>>
  BY DEF Abort
<1>2. CASE req[r].op = "upload"
  <2>1. cut' = cut \cup {req[r].key} /\ req[r].key \in Key /\ file[req[r].key] = Unset
    BY <1>2 DEF Abort, IInv, CallOK, Given, OnFile
  <2> QED BY <1>1, <1>2, <2>1, UploadEnds DEF IInv, TypeOK
<1>3. CASE req[r].op # "upload"
  <2>1. Fail(r)
    BY <1>1, <1>3 DEF Abort, Fail, Goto, stores
  <2> QED BY <1>3, <2>1, FailInv
<1> QED BY <1>2, <1>3

-----------------------------------------------------------------------------
(* The access check, downloads and comments up to their commit *)

LEMMA CheckAccessInv ==
    ASSUME IInv, NEW r \in Req, CheckAccess(r)
    PROVE  IInv'
<1>1. PICK q : q = req[r]
  OBVIOUS
<1>2. CallOK(q) /\ q \in Request /\ q.pc = "access"
  BY <1>1 DEF IInv, CallOK, CheckAccess
<1>3. CASE Fail(r)
  BY <1>1, <1>2, <1>3, FailInv DEF CallOK, OnFile
<1>4. CASE Access(q.actor) /\ Goto(r, [q EXCEPT !.pc = Onward(q)])
  <2>1. PICK stage : stage = Onward(q)
    OBVIOUS
  <2>2. /\ q.op = "upload" => stage \in {"open", "put"}
        /\ q.op = "download" => stage = "serve"
        /\ q.op = "post" => stage = "insert"
        /\ q.op \in {"edit", "erase"} => stage = "own"
    BY <2>1 DEF Onward
  <2>3. q.op \in {"upload", "download", "post", "edit", "erase"}
    BY <1>2 DEF CallOK, Route, Request, Op, Idle
  <2>4. stage \in Stage
    BY <2>2, <2>3 DEF Stage
  <2>5. PICK call : call = [q EXCEPT !.pc = stage]
    OBVIOUS
  <2>6. /\ call \in Request /\ call.op = q.op /\ call.actor = q.actor /\ call.key = q.key
        /\ call.id = q.id /\ call.text = q.text /\ call.entitled = q.entitled
        /\ call.pc = stage /\ call.read = q.read /\ call.body = q.body
        /\ call.base = q.base
    BY <1>2, <2>4, <2>5 DEF Request
  <2>7. Route(call) /\ Given(call)
    BY <1>2, <2>2, <2>3, <2>6 DEF CallOK, Route, Given
  <2>8. OnFile(call)
    BY <1>2, <2>2, <2>3, <2>6 DEF CallOK, OnFile
  <2>9. OnComment(call)
    BY <1>2, <2>2, <2>3, <2>6 DEF CallOK, OnComment
  <2>10. Entry(call)
    BY <1>2, <1>4, <2>3, <2>6 DEF CallOK, Entry
  <2>11. CallOK(call)
    BY <2>6, <2>7, <2>8, <2>9, <2>10 DEF CallOK
  <2> QED BY <1>1, <1>4, <2>1, <2>5, <2>6, <2>11, QuietCall
<1> QED BY <1>1, <1>3, <1>4 DEF CheckAccess

LEMMA DownloadInv ==
    ASSUME IInv, NEW r \in Req, LoadRow(r) \/ Serve(r) \/ NotInStorage(r)
    PROVE  IInv'
<1>1. CASE LoadRow(r)
  <2>1. PICK q : q = req[r]
    OBVIOUS
  <2>2. CallOK(q) /\ q \in Request /\ q.op = "download"
    BY <1>1, <2>1 DEF IInv, CallOK, LoadRow, At
  <2>3. PICK call : call = [q EXCEPT !.pc = "access"]
    OBVIOUS
  <2>4. /\ call \in Request /\ call.op = q.op /\ call.actor = q.actor /\ call.key = q.key
        /\ call.id = q.id /\ call.entitled = q.entitled /\ call.pc = "access"
    BY <2>2, <2>3 DEF Request, Stage
  <2>5. CallOK(call)
    BY <2>2, <2>4 DEF CallOK, Route, Given, OnFile, OnComment, Entry
  <2> QED BY <1>1, <2>1, <2>3, <2>4, <2>5, QuietCall DEF LoadRow
<1>2. CASE Serve(r) \/ NotInStorage(r)
  BY <1>2, FailInv DEF Serve, NotInStorage, Fail, At
<1> QED BY <1>1, <1>2

LEMMA CommentStepInv ==
    ASSUME IInv, NEW r \in Req,
           FindComment(r) \/ OwnComment(r) \/ FlushComment(r) \/ Insert(r)
    PROVE  IInv'
<1>1. PICK q : q = req[r]
  OBVIOUS
<1>2. CallOK(q) /\ q \in Request
  BY <1>1 DEF IInv, CallOK
<1>3. CASE Insert(r)
  <2>1. PICK call : call = [q EXCEPT !.pc = "commit"]
    OBVIOUS
  <2>2. /\ call \in Request /\ call.op = q.op /\ call.actor = q.actor /\ call.key = q.key
        /\ call.id = q.id /\ call.text = q.text /\ call.entitled = q.entitled
        /\ call.pc = "commit" /\ call.read = q.read /\ call.body = q.body
    BY <1>2, <2>1 DEF Request, Stage
  <2>3. q.pc = "insert" /\ Goto(r, call)
    BY <1>1, <1>3, <2>1 DEF Insert
  <2>4. q.op \in {"upload", "post"}
    BY <1>2, <2>3 DEF CallOK, Route, Request, Op, Idle
  <2>5. CallOK(call)
    BY <1>2, <2>2, <2>3, <2>4 DEF CallOK, Route, Given, OnFile, OnComment, Entry
  <2> QED BY <1>1, <2>2, <2>3, <2>5, QuietCall
<1>4. CASE FindComment(r) \/ OwnComment(r) \/ FlushComment(r)
  <2>1. q.op \in {"edit", "erase"}
    BY <1>1, <1>2, <1>4
       DEF CallOK, Route, Request, Op, Idle, FindComment, OwnComment, FlushComment
  <2>2. q.id \in CommentId /\ comment[q.id] # Unset
    BY <1>2, <2>1 DEF CallOK, Given, OnComment
  <2>3. comment[q.id] \in CommentRow
    BY <2>2 DEF IInv, TypeOK
  <2>4. CASE Fail(r)
    BY <1>1, <2>1, <2>4, FailInv
  <2>5. CASE q.pc = "find" /\ Goto(r, [q EXCEPT !.base = comment[q.id], !.pc = "access"])
    <3>1. PICK call : call = [q EXCEPT !.base = comment[q.id], !.pc = "access"]
      OBVIOUS
    <3>2. /\ call \in Request /\ call.op = q.op /\ call.actor = q.actor /\ call.key = q.key
          /\ call.id = q.id /\ call.text = q.text /\ call.entitled = q.entitled
          /\ call.pc = "access" /\ call.base = comment[q.id]
      BY <1>2, <2>3, <3>1 DEF Request, Stage
    <3>3. CallOK(call)
      BY <1>2, <2>1, <2>2, <3>2 DEF CallOK, Route, Given, OnFile, OnComment, Entry
    <3> QED BY <1>1, <2>5, <3>1, <3>2, <3>3, QuietCall
  <2>6. CASE /\ q.pc = "own"
             /\ q.actor \in Admin \/ q.base.author = q.actor
             /\ Goto(r, [q EXCEPT !.pc = "flush"])
    <3>1. PICK call : call = [q EXCEPT !.pc = "flush"]
      OBVIOUS
    <3>2. /\ call \in Request /\ call.op = q.op /\ call.actor = q.actor /\ call.key = q.key
          /\ call.id = q.id /\ call.text = q.text /\ call.entitled = q.entitled
          /\ call.pc = "flush" /\ call.base = q.base
      BY <1>2, <3>1 DEF Request, Stage
    <3>3. CallOK(call)
      BY <1>2, <2>1, <2>6, <3>2 DEF CallOK, Route, Given, OnFile, OnComment, Entry
    <3> QED BY <1>1, <2>6, <3>1, <3>2, <3>3, QuietCall
  <2>7. ASSUME NEW locks \in BOOLEAN, q.pc = "flush",
               Goto(r, [q EXCEPT !.locked = locks, !.pc = "commit"])
        PROVE  IInv'
    <3>1. PICK call : call = [q EXCEPT !.locked = locks, !.pc = "commit"]
      OBVIOUS
    <3>2. /\ call \in Request /\ call.op = q.op /\ call.actor = q.actor /\ call.key = q.key
          /\ call.id = q.id /\ call.text = q.text /\ call.entitled = q.entitled
          /\ call.pc = "commit" /\ call.base = q.base
      BY <1>2, <3>1 DEF Request, Stage
    <3>3. CallOK(call)
      BY <1>2, <2>1, <2>7, <3>2 DEF CallOK, Route, Given, OnFile, OnComment, Entry
    <3> QED BY <1>1, <2>7, <3>1, <3>2, <3>3, QuietCall
  <2>8. [q EXCEPT !.pc = "commit"] = [q EXCEPT !.locked = q.locked, !.pc = "commit"]
    BY <1>2 DEF Request
  <2>9. q.locked \in BOOLEAN
    BY <1>2 DEF Request
  <2>10. CASE FlushComment(r)
    BY <1>1, <2>7, <2>8, <2>9, <2>10 DEF FlushComment
  <2> QED BY <1>1, <1>4, <2>4, <2>5, <2>6, <2>10 DEF FindComment, OwnComment
<1> QED BY <1>3, <1>4

-----------------------------------------------------------------------------
(* The commit of a comment *)

\* What the commit of a comment leaves in its row.
LEMMA CommentWrittenOK ==
    ASSUME IInv, NEW q, CallOK(q), q.op \in {"post", "edit", "erase"}
    PROVE  /\ CommentWritten(q) \in CommentRow
           /\ q.op = "post" => ~CommentWritten(q).deleted
           /\ q.op \in {"edit", "erase"} =>
                /\ CommentWritten(q).author = comment[q.id].author
                /\ comment[q.id].deleted => CommentWritten(q).deleted
           /\ q.op = "edit" => CommentWritten(q).deleted = comment[q.id].deleted
<1>1. CASE q.op = "post"
  BY <1>1 DEF CallOK, Given, CommentWritten, CommentRow
<1>2. CASE q.op \in {"edit", "erase"}
  <2>1. comment[q.id] \in CommentRow
    BY <1>2 DEF IInv, TypeOK, CallOK, Given, OnComment
  <2> QED BY <1>2, <2>1 DEF CallOK, Given, CommentWritten, CommentRow
<1> QED BY <1>1, <1>2

LEMMA CommitCommentInv ==
    ASSUME IInv, NEW r \in Req, CommitComment(r)
    PROVE  IInv'
<1>1. PICK q : q = req[r]
  OBVIOUS
<1>2. /\ CallOK(q) /\ q \in Request /\ q.op \in {"post", "edit", "erase"} /\ q.pc = "commit"
      /\ q.id \in CommentId /\ q.id <= begun /\ q.key = Unset
  BY <1>1 DEF IInv, CallOK, Given, CommitComment
<1>3. PICK row \in CommentRow : row = CommentWritten(q)
  BY <1>2, CommentWrittenOK
<1>4. /\ comment' = comment \/ comment' = [comment EXCEPT ![q.id] = row]
      /\ q.op = "post" => comment' = [comment EXCEPT ![q.id] = row]
      /\ req' = [req EXCEPT ![r] = Idle]
      /\ UNCHANGED <<world, begun, blob, file, cut>>
  BY <1>1, <1>3 DEF CommitComment
<1>5. /\ \A c \in CommentId : c # q.id => comment'[c] = comment[c]
      /\ comment'[q.id] \in {comment[q.id], row}
      /\ req'[r] = Idle /\ \A o \in Req \ {r} : req'[o] = req[o]
      /\ comment' \in [CommentId -> CommentRow \cup {Unset}]
  BY <1>2, <1>4 DEF IInv, TypeOK
<1>6. PICK steady \in BOOLEAN :
        /\ steady <=> walk.steady /\ (\/ q.op = "post" /\ \A c \in Visible : c < q.id
                                     \/ q.op = "edit")
        /\ walk' = [walk EXCEPT !.steady = steady]
  BY <1>1 DEF CommitComment, IInv, TypeOK, Walk
<1>7. /\ walk' \in Walk /\ walk'.steady = steady /\ walk'.pc = walk.pc
       /\ walk'.page = walk.page /\ walk'.total = walk.total /\ walk'.start = walk.start
       /\ walk'.seen = walk.seen /\ walk'.twice = walk.twice
  BY <1>6 DEF IInv, TypeOK, Walk
<1>8. TypeOK'
  <2>1. req' \in [Req -> Request]
    BY <1>4, IdleOK DEF IInv, TypeOK, CallOK
  <2> QED BY <1>4, <1>5, <1>7, <2>1 DEF IInv, TypeOK, world
<1>9. ASSUME NEW o \in Req \ {r} PROVE CallOK(req[o])'
  <2>1. CallOK(req[o]) /\ req'[o] = req[o] /\ Apart(req[o], req[r])
    BY <1>5 DEF IInv, AllApart
  <2>2. (req[o] \in Request /\ Route(req[o]) /\ Given(req[o]))'
    BY <1>4, <2>1 DEF CallOK, Route, Given
  <2>3. (OnFile(req[o]) /\ Entry(req[o]))'
    BY <1>4, <2>1 DEF CallOK, OnFile, Entry, Access, world
  <2>4. ASSUME req[o].op \in {"edit", "erase"}
        PROVE  /\ comment'[req[o].id] # Unset
               /\ comment'[req[o].id].author = comment[req[o].id].author
    <3>1. req[o].id \in CommentId /\ comment[req[o].id] # Unset
      BY <2>1, <2>4 DEF CallOK, Given, OnComment
    <3>2. CASE req[o].id # q.id
      BY <1>5, <3>1, <3>2
    <3>3. CASE req[o].id = q.id
      <4>1. q.op \in {"edit", "erase"}
        BY <1>2, <3>1, <3>3 DEF CallOK, OnComment
      <4>2. row.author = comment[q.id].author /\ row # Unset
        BY <1>2, <1>3, <4>1, CommentWrittenOK, RowsAssumption
      <4> QED BY <1>5, <3>1, <3>3, <4>2
    <3> QED BY <3>2, <3>3
  <2>5. ASSUME req[o].op = "post" PROVE comment'[req[o].id] = Unset
    <3>1. req[o].id \in CommentId /\ comment[req[o].id] = Unset /\ req[o].id # q.id
      BY <1>1, <2>1, <2>5 DEF CallOK, Given, OnComment, Apart
    <3> QED BY <1>5, <3>1
  <2>6. OnComment(req[o])'
    BY <2>1, <2>4, <2>5 DEF CallOK, OnComment
  <2> QED BY <2>2, <2>3, <2>6 DEF CallOK
<1>10. CallOK(req[r])'
  <2>1. CallOK(Idle)'
    BY IdleOK DEF Idle, CallOK, Route, Given, OnFile, OnComment, Entry
  <2>2. ASSUME NEW o \in Req, req'[o] = Idle PROVE CallOK(req[o])'
    BY <2>1, <2>2 DEF CallOK, Route, Given, OnFile, OnComment, Entry, Access
  <2> QED BY <1>5, <2>2
<1>11. FilesOK'
  <2>1. ASSUME NEW k \in Key, NEW o \in Req, req[o].key = k PROVE req'[o].key = k
    BY <1>1, <1>2, <1>5, <2>1, ConstantsAssumption
  <2> QED BY <1>4, <2>1 DEF IInv, FilesOK, RowsHaveTheirBlob, OnlyFaultsLeaveBlobs
<1>12. NoneFromTheFuture'
  BY <1>2, <1>4, <1>5 DEF IInv, NoneFromTheFuture
<1>13. AllApart'
  <2>1. \A r1, r2 \in Req : r1 # r2 => Apart(req'[r1], req'[r2])
    <3>1. Idle.op = "none"
      BY DEF Idle
    <3>2. Apart(Idle, Idle)
      BY <3>1 DEF Apart
    <3> QED BY <1>5, <3>2, IdleApart DEF IInv, AllApart
  <2> QED BY <2>1 DEF AllApart, Apart
<1>14. WalkOK'
  <2>1. CASE ~steady
    BY <1>7, <2>1 DEF IInv, WalkOK, WalkMissesNothing
  <2>2. CASE steady
    <3>1. WalkOK /\ walk.steady
      BY <1>6, <2>2 DEF IInv
    <3>2. CASE q.op = "edit"
      <4>1. row.deleted = comment[q.id].deleted /\ row # Unset /\ comment[q.id] # Unset
        BY <1>2, <1>3, <3>2, CommentWrittenOK, RowsAssumption DEF CallOK, OnComment
      <4>2. \A c \in CommentId : Found(c)' <=> Found(c)
        BY <1>5, <4>1 DEF Found
      <4>3. Visible' = Visible
        BY <4>2 DEF Visible
      <4> QED BY <1>7, <2>2, <3>1, <4>3
              DEF WalkOK, WalkMissesNothing, Reading, Rank, Offset
    <3>3. CASE q.op = "post" /\ \A c \in Visible : c < q.id
      <4>1. ~row.deleted /\ row # Unset /\ comment'[q.id] = row
        BY <1>2, <1>3, <1>4, <3>3, CommentWrittenOK, RowsAssumption DEF IInv, TypeOK
      <4>2. \A c \in CommentId : Found(c)' <=> Found(c) \/ c = q.id
        BY <1>2, <1>5, <4>1 DEF Found
      <4>3. Visible' = Visible \cup {q.id} /\ Visible \subseteq CommentId
        BY <1>2, <4>2 DEF Visible
      <4>4. \A x \in Visible : Rank(Visible', x) = Rank(Visible, x)
        BY <1>2, <3>3, <4>3, AppendKeepsRanks
      <4> QED BY <1>7, <2>2, <3>1, <4>3, <4>4
              DEF WalkOK, WalkMissesNothing, Reading, Rank, Offset
    <3> QED BY <1>6, <2>2, <3>2, <3>3
  <2> QED BY <2>1, <2>2
<1> QED BY <1>5, <1>8, <1>9, <1>10, <1>11, <1>12, <1>13, <1>14 DEF IInv

-----------------------------------------------------------------------------
(* Commits of other modules *)

LEMMA WorldInv ==
    ASSUME IInv, CloseTask \/ RemoveMember \/ AddMember
    PROVE  IInv'
<1>1. UNCHANGED <<kinds, backend, blob, file, comment, cut, begun, walk>>
  BY DEF CloseTask, RemoveMember, AddMember, stores
<1>2. open' \in BOOLEAN /\ members' \subseteq User \ Admin
  BY DEF CloseTask, RemoveMember, AddMember, IInv, TypeOK
\* Whoever has access after the step had it before or is entitled by it.
<1>3. ASSUME NEW o \in Req
      PROVE  \E e \in BOOLEAN :
               /\ req'[o] = [req[o] EXCEPT !.entitled = e]
               /\ req[o].entitled => e
               /\ e # req[o].entitled => req[o].op # "none"
               /\ req[o].op # "none" /\ Access(req[o].actor)' => e
  <2>1. CallOK(req[o]) /\ req[o] \in Request
    BY DEF IInv, CallOK
  <2>2. req[o] = [req[o] EXCEPT !.entitled = req[o].entitled] /\ req[o].entitled \in BOOLEAN
    BY <2>1 DEF Request
  <2>3. CASE CloseTask \/ RemoveMember
    <3>1. req' = req /\ (Access(req[o].actor)' => Access(req[o].actor))
      BY <2>3 DEF CloseTask, RemoveMember, Access
    <3> QED BY <2>1, <2>2, <3>1 DEF CallOK, Entry
  <2>4. CASE AddMember
    <3>1. PICK u \in User \ (Admin \cup members) :
            /\ members' = members \cup {u} /\ open' = open
            /\ req' = [p \in Req |-> IF req[p].actor = u /\ open
                                     THEN [req[p] EXCEPT !.entitled = TRUE] ELSE req[p]]
      BY <2>4 DEF AddMember
    <3>2. CASE req[o].actor = u /\ open
      <4>1. req[o].op # "none"
        BY <2>1, <3>2, ConstantsAssumption DEF CallOK, Route, Idle
      <4> QED BY <3>1, <3>2, <4>1
    <3>3. CASE ~(req[o].actor = u /\ open)
      <4>1. req'[o] = req[o]
        BY <3>1, <3>3
      <4>2. Access(req[o].actor)' => Access(req[o].actor)
        BY <3>1, <3>3, <4>1 DEF Access
      <4> QED BY <2>1, <2>2, <4>1, <4>2 DEF CallOK, Entry
    <3> QED BY <3>2, <3>3
  <2> QED BY <2>3, <2>4
<1>4. req' = [o \in Req |-> req'[o]]
  BY DEF CloseTask, RemoveMember, AddMember, IInv, TypeOK
<1>5. ASSUME NEW o \in Req
      PROVE  CallOK(req[o])' /\ UNCHANGED <<req[o].key, req[o].id, req[o].op>>
  <2>1. CallOK(req[o]) /\ req[o] \in Request
    BY DEF IInv, CallOK
  <2>2. PICK e \in BOOLEAN :
          /\ req'[o] = [req[o] EXCEPT !.entitled = e]
          /\ req[o].entitled => e
          /\ e # req[o].entitled => req[o].op # "none"
          /\ req[o].op # "none" /\ Access(req[o].actor)' => e
    BY <1>3
  <2>3. PICK q : q = req'[o]
    OBVIOUS
  <2>4. /\ q \in Request /\ q.pc = req[o].pc /\ q.op = req[o].op /\ q.actor = req[o].actor
        /\ q.key = req[o].key /\ q.body = req[o].body /\ q.read = req[o].read
        /\ q.id = req[o].id /\ q.text = req[o].text /\ q.base = req[o].base
        /\ q.locked = req[o].locked /\ q.entitled = e
    BY <2>1, <2>2, <2>3 DEF Request
  <2>5. q.op = "none" => q = req[o]
    BY <2>1, <2>2, <2>3, <2>4 DEF Request
  <2>6. (Route(req[o]) /\ Given(req[o]))'
    BY <1>1, <2>1, <2>3, <2>4, <2>5 DEF CallOK, Route, Given
  <2>7. (OnFile(req[o]) /\ OnComment(req[o]))'
    BY <1>1, <2>1, <2>3, <2>4 DEF CallOK, OnFile, OnComment
  <2>8. Entry(req[o])'
    <3>1. q.op # "none" /\ Access(q.actor)' => q.entitled
      BY <2>2, <2>3, <2>4 DEF Access
    <3> QED BY <2>1, <2>2, <2>3, <2>4, <3>1 DEF CallOK, Entry, Access
  <2> QED BY <2>3, <2>4, <2>6, <2>7, <2>8 DEF CallOK
<1>6. TypeOK'
  <2>1. req' \in [Req -> Request]
    BY <1>4, <1>5 DEF CallOK
  <2> QED BY <1>1, <1>2, <2>1 DEF IInv, TypeOK
<1>7. FilesOK' /\ NoneFromTheFuture' /\ WalkOK'
  BY <1>1, <1>5, WalkKept
     DEF IInv, FilesOK, RowsHaveTheirBlob, OnlyFaultsLeaveBlobs, NoneFromTheFuture
<1>8. AllApart'
  BY <1>5 DEF IInv, AllApart, Apart
<1> QED BY <1>5, <1>6, <1>7, <1>8 DEF IInv

-----------------------------------------------------------------------------
(* The client that reads page after page *)

\* Its steps are about nothing but the walk.
LEMMA OnlyTheWalk ==
    ASSUME IInv, UNCHANGED <<world, stores, begun, req>>, walk' \in Walk, WalkOK'
    PROVE  IInv'
<1> USE DEF world, stores
<1>1. TypeOK'
  BY DEF IInv, TypeOK
<1>2. FilesOK' /\ NoneFromTheFuture' /\ AllApart'
  BY DEF IInv, FilesOK, RowsHaveTheirBlob, OnlyFaultsLeaveBlobs, NoneFromTheFuture, AllApart,
         Apart
<1>3. ASSUME NEW o \in Req PROVE CallOK(req[o])'
  <2>1. CallOK(req[o])
    BY DEF IInv
  <2> QED BY <2>1 DEF CallOK, Route, Given, OnFile, OnComment, Entry, Access
<1> QED BY <1>1, <1>2, <1>3 DEF IInv

LEMMA WalkInv ==
    ASSUME IInv, BeginWalk \/ CountRows \/ FetchPage
    PROVE  IInv'
<1>1. UNCHANGED <<world, stores, begun, req>> /\ Visible' = Visible
  BY DEF BeginWalk, CountRows, FetchPage, Visible, Found, stores
<1>2. walk \in Walk /\ Visible \subseteq CommentId /\ CommentId \subseteq Nat
  BY VisibleFinite DEF IInv, TypeOK, Visible
<1>3. Cardinality(Visible) \in Nat
  <2>1. IsFiniteSet(Visible)
    BY <1>2, VisibleFinite
  <2> QED BY <2>1, FS_CardinalityType
<1>4. \A x \in Visible :
        /\ Rank(Visible, x) \in Nat /\ Rank(Visible, x) # 0
        /\ Rank(Visible, x) <= Cardinality(Visible)
  BY <1>2, RankBounds
<1>5. CASE BeginWalk
  <2>1. walk' = [NoWalk EXCEPT !.pc = "count", !.page = 1, !.start = Visible]
    BY <1>5 DEF BeginWalk
  <2>2. /\ walk' \in Walk /\ walk'.pc = "count" /\ walk'.page = 1 /\ walk'.start = Visible
        /\ walk'.seen = {} /\ walk'.twice = FALSE
    BY <1>2, <2>1 DEF NoWalk, Walk
  <2>3. Offset(1, Size) = 0
    BY NextOffset, ConstantsAssumption DEF Offset
  <2>4. \A x \in Visible : ~(Rank(Visible, x) <= 0)
    BY <1>4
  <2>5. Reading'
    BY <1>1, <2>2, <2>3, <2>4 DEF Reading
  <2>6. WalkOK'
    BY <2>2, <2>5 DEF WalkOK, WalkMissesNothing
  <2> QED BY <1>1, <2>2, <2>6, OnlyTheWalk
<1>6. CASE CountRows
  <2>1. walk' = [walk EXCEPT !.total = Cardinality(Visible), !.pc = "fetch"]
        /\ walk.pc = "count"
    BY <1>6 DEF CountRows
  <2>2. /\ walk' \in Walk /\ walk'.pc = "fetch" /\ walk'.page = walk.page
        /\ walk'.total = Cardinality(Visible) /\ walk'.start = walk.start
        /\ walk'.seen = walk.seen /\ walk'.twice = walk.twice /\ walk'.steady = walk.steady
    BY <1>2, <1>3, <2>1 DEF Walk
  <2>3. walk.steady => Reading
    BY <2>1 DEF IInv, WalkOK
  <2>4. walk.steady => Reading'
    BY <1>1, <2>2, <2>3 DEF Reading
  <2>5. walk.steady => \A x \in walk.start : Rank(Visible, x) <= Cardinality(Visible)
    BY <1>4, <2>3 DEF Reading
  <2>6. WalkOK'
    BY <1>1, <2>1, <2>2, <2>4, <2>5 DEF WalkOK, WalkMissesNothing, IInv
  <2> QED BY <1>1, <2>2, <2>6, OnlyTheWalk
<1>7. CASE FetchPage
  <2> DEFINE more == walk.page < Pages(walk.total, Size)
  <2>1. PICK items : items = PageOf(Visible, walk.page, Size)
    OBVIOUS
  <2>2. /\ walk.pc = "fetch" /\ walk.page \in Nat \ {0} /\ walk.total \in Nat
    BY <1>2, <1>7 DEF FetchPage, IInv, WalkOK, Walk
  <2>3. walk' = [walk EXCEPT !.seen = @ \cup items,
                             !.twice = @ \/ walk.seen \cap items # {},
                             !.page = IF more THEN @ + 1 ELSE @,
                             !.pc = IF more THEN "count" ELSE "done"]
    BY <1>7, <2>1 DEF FetchPage
  <2>4. items \subseteq Visible
    BY <2>1, PageIsRanks
  <2>5. /\ walk' \in Walk /\ walk'.seen = walk.seen \cup items
        /\ walk'.twice = (walk.twice \/ walk.seen \cap items # {})
        /\ walk'.page = (IF more THEN walk.page + 1 ELSE walk.page)
        /\ walk'.pc = (IF more THEN "count" ELSE "done")
        /\ walk'.start = walk.start /\ walk'.steady = walk.steady
        /\ walk'.page # 0
    <3>1. walk.page + 1 \in Nat /\ walk.page + 1 # 0
      BY <2>2
    <3> QED BY <1>2, <2>2, <2>3, <2>4, <3>1 DEF Walk
  <2>6. CASE ~walk.steady
    <3>1. WalkOK'
      BY <2>5, <2>6 DEF WalkOK, WalkMissesNothing
    <3> QED BY <1>1, <2>5, <3>1, OnlyTheWalk
  <2>7. CASE walk.steady
    <3> DEFINE off == Offset(walk.page, Size)
    <3>1. Reading /\ \A x \in walk.start : Rank(Visible, x) <= walk.total
      BY <2>2, <2>7 DEF IInv, WalkOK
    <3>2. off \in Nat /\ Offset(walk.page + 1, Size) = off + Size /\ off + Size = walk.page * Size
      BY <2>2, NextOffset
    <3>3. \A x \in items : off < Rank(Visible, x) /\ Rank(Visible, x) <= off + Size
      BY <2>1, PageIsRanks
    <3>4. \A x \in Visible : off < Rank(Visible, x) /\ Rank(Visible, x) <= off + Size => x \in items
      BY <2>1, PageIsRanks
    <3>5. walk.seen \cap items = {}
      BY <1>4, <3>1, <3>2, <3>3, <2>4 DEF Reading
    <3>6. \A x \in walk.seen \cup items : Rank(Visible, x) <= off + Size
      BY <1>4, <3>1, <3>2, <3>3, ConstantsAssumption DEF Reading
    <3>7. \A x \in walk.start : Rank(Visible, x) <= off + Size => x \in walk.seen \cup items
      BY <1>4, <3>1, <3>2, <3>4, ConstantsAssumption DEF Reading
    <3>8. ~walk'.twice
      BY <2>5, <3>1, <3>5 DEF Reading
    <3>9. CASE more
      <4>1. Reading'
        BY <1>1, <2>4, <2>5, <3>1, <3>2, <3>6, <3>7, <3>8, <3>9 DEF Reading
      <4>2. WalkOK'
        BY <2>5, <3>9, <4>1 DEF WalkOK, WalkMissesNothing
      <4> QED BY <1>1, <2>5, <4>2, OnlyTheWalk
    <3>10. CASE ~more
      <4>1. walk.total <= off + Size
        BY <2>2, <3>2, <3>10, LastPageCovers
      <4>2. \A x \in walk.start : Rank(Visible, x) <= off + Size
        BY <1>4, <2>2, <3>1, <3>2, <4>1, ConstantsAssumption DEF Reading
      <4>3. walk.start \subseteq walk.seen \cup items
        BY <3>7, <4>2
      <4>4. WalkOK'
        BY <2>5, <3>8, <3>10, <4>3 DEF WalkOK, WalkMissesNothing
      <4> QED BY <1>1, <2>5, <4>4, OnlyTheWalk
    <3> QED BY <3>9, <3>10
  <2> QED BY <2>6, <2>7
<1> QED BY <1>5, <1>6, <1>7

-----------------------------------------------------------------------------
(* The theorems *)

LEMMA NextInv ==
    ASSUME IInv, [Next]_vars
    PROVE  IInv'
<1>1. CASE Next
  <2>1. CASE \E r \in Req : Begin(r) \/ Step(r) \/ Abort(r)
    <3>1. PICK r \in Req : Begin(r) \/ Step(r) \/ Abort(r)
      BY <2>1
    <3>2. CASE Step(r)
      BY <3>2, CheckAccessInv, UploadInv, DownloadInv, CommentStepInv, CommitCommentInv
         DEF Step
    <3> QED BY <3>1, <3>2, BeginInv, AbortInv
  <2> QED BY <1>1, <2>1, WalkInv, WorldInv DEF Next
<1>2. CASE UNCHANGED vars
  <2>1. UNCHANGED <<world, stores, begun, req>> /\ walk' = walk /\ comment' = comment
    BY <1>2 DEF vars, stores
  <2>2. walk' \in Walk /\ WalkOK'
    BY <2>1, WalkKept DEF IInv, TypeOK
  <2> QED BY <2>1, <2>2, OnlyTheWalk
<1> QED BY <1>1, <1>2

LEMMA SpecIInv == Spec => []IInv
<1> QED BY InitInv, NextInv, PTL DEF Spec

\* Every reachable state is well-typed.
THEOREM SpecTypeOK == Spec => []TypeOK
<1>1. IInv => TypeOK
  BY DEF IInv
<1> QED BY <1>1, SpecIInv, PTL

\* What a committed attachment announces is in storage, whole and within the limit.
THEOREM SpecRowsHaveTheirBlob == Spec => []RowsHaveTheirBlob
<1>1. IInv => RowsHaveTheirBlob
  BY DEF IInv, FilesOK
<1> QED BY <1>1, SpecIInv, PTL

\* An upload gets past the storage exactly when its file is not too large, with all of
\* it stored, whatever the limit and the size of a chunk.
THEOREM SpecLimitIsExact == Spec => []LimitIsExact
<1>1. IInv => LimitIsExact
  BY DEF IInv, CallOK, OnFile, LimitIsExact
<1> QED BY <1>1, SpecIInv, PTL

\* A blob without a row belongs to an upload in flight or to one that a fault ended.
THEOREM SpecOnlyFaultsLeaveBlobs == Spec => []OnlyFaultsLeaveBlobs
<1>1. IInv => OnlyFaultsLeaveBlobs
  BY DEF IInv, FilesOK
<1> QED BY <1>1, SpecIInv, PTL

\* No request gets past the access check whose actor had no access at any moment of it.
THEOREM SpecOutsidersGetNothing == Spec => []OutsidersGetNothing
<1>1. IInv => OutsidersGetNothing
  BY DEF IInv, CallOK, Entry, OutsidersGetNothing
<1> QED BY <1>1, SpecIInv, PTL

\* A client that follows the pages misses no comment there was when it began and sees
\* none twice, if comments were only appended meanwhile, for every page size.
THEOREM SpecWalkMissesNothing == Spec => []WalkMissesNothing
<1>1. IInv => WalkMissesNothing
  BY DEF IInv, WalkOK
<1> QED BY <1>1, SpecIInv, PTL

\* Only the commit of a request on a comment writes comments.
LEMMA OnlyCommitsWriteComments ==
    ASSUME Next, comment' # comment
    PROVE  \E r \in Req : CommitComment(r)
<1> USE DEF stores, Becomes, Goto, Fail
<1>1. ASSUME NEW r \in Req, Begin(r) PROVE comment' = comment
  BY <1>1 DEF Begin, BeginUpload, BeginDownload, BeginPost, BeginEdit, BeginErase, Arrive
<1>2. ASSUME NEW r \in Req, Step(r), ~CommitComment(r) PROVE comment' = comment
  BY <1>2 DEF Step, CheckAccess, OpenFile, CopyChunk, CopyDone, UndoCopy, PutTooLarge, Put,
              PutLost, Store, LoadRow, Serve, NotInStorage, FindComment, OwnComment,
              FlushComment, Insert, CommitFile
<1>3. ASSUME NEW r \in Req, Abort(r) PROVE comment' = comment
  BY <1>3 DEF Abort
<1>4. BeginWalk \/ CountRows \/ FetchPage \/ CloseTask \/ RemoveMember \/ AddMember
        => comment' = comment
  BY DEF BeginWalk, CountRows, FetchPage, CloseTask, RemoveMember, AddMember
<1> QED BY <1>1, <1>2, <1>3, <1>4 DEF Next

\* A comment changes only by a request of its author or an admin; it keeps its author,
\* and its deletion is not undone.
THEOREM SpecCommentsAreTheirAuthors == Spec => CommentsAreTheirAuthors
<1> DEFINE Kept ==
             \A c \in CommentId : comment[c] # Unset /\ comment'[c] # comment[c] =>
               /\ comment'[c] # Unset
               /\ comment'[c].author = comment[c].author
               /\ comment[c].deleted => comment'[c].deleted
               /\ \E r \in Req : /\ req[r].pc = "commit" /\ req[r].id = c
                                 /\ req[r].actor \in Admin \cup {comment[c].author}
<1>1. ASSUME IInv, [Next]_vars, NEW c \in CommentId, comment[c] # Unset,
             comment'[c] # comment[c]
      PROVE  /\ comment'[c] # Unset
             /\ comment'[c].author = comment[c].author
             /\ comment[c].deleted => comment'[c].deleted
             /\ \E r \in Req : /\ req[r].pc = "commit" /\ req[r].id = c
                               /\ req[r].actor \in Admin \cup {comment[c].author}
  <2>1. Next /\ comment' # comment
    BY <1>1 DEF vars, stores
  <2>2. PICK r \in Req : CommitComment(r)
    BY <2>1, OnlyCommitsWriteComments
  <2>3. PICK q : q = req[r]
    OBVIOUS
  <2>4. CallOK(q) /\ q.pc = "commit" /\ q.op \in {"post", "edit", "erase"}
    BY <1>1, <2>2, <2>3 DEF IInv, CommitComment
  <2>5. comment' = comment \/ comment' = [comment EXCEPT ![q.id] = CommentWritten(q)]
    BY <2>2, <2>3 DEF CommitComment
  <2>6. c = q.id /\ comment'[c] = CommentWritten(q)
    BY <1>1, <2>5 DEF IInv, TypeOK
  <2>7. q.op \in {"edit", "erase"}
    BY <1>1, <2>4, <2>6 DEF CallOK, OnComment
  <2>8. /\ CommentWritten(q) # Unset /\ CommentWritten(q).author = comment[c].author
        /\ comment[c].deleted => CommentWritten(q).deleted
    BY <1>1, <2>4, <2>6, <2>7, CommentWrittenOK, RowsAssumption
  <2>9. q.actor \in Admin \cup {comment[c].author}
    BY <2>4, <2>6, <2>7 DEF CallOK, OnComment
  <2> QED BY <2>3, <2>4, <2>6, <2>8, <2>9
<1>2. ASSUME IInv, [Next]_vars PROVE [Kept]_vars
  BY <1>1, <1>2
<1> QED BY <1>2, SpecIInv, PTL DEF Spec, CommentsAreTheirAuthors

=============================================================================
