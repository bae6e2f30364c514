---------------------------- MODULE Attachments ----------------------------
(***************************************************************************)
(* What hangs on a task: files (file_service.py, app/infrastructure/       *)
(* storage) and comments (comment_service.py), and the paginated list of   *)
(* the comments.  One task stands for all; closing it, and the members of  *)
(* its project, are other modules' commits and happen between any two      *)
(* statements.                                                             *)
(*                                                                         *)
(* An upload writes to two stores that share no transaction: first the     *)
(* blob, then the row.  The local backend copies chunk by chunk and        *)
(* unlinks what it wrote when an Exception ends the copy, but not when the *)
(* process dies or the task is cancelled; S3 and Azure put the whole object*)
(* in one call, which may fail after it took effect.                       *)
(*                                                                         *)
(* Comments are ordered by created_at, the time their transaction began,   *)
(* not by their commits: ids here are numbers in that order.               *)
(*                                                                         *)
(* Left out: file names and media types, and who may list.                 *)
(***************************************************************************)
EXTENDS Naturals, FiniteSets, Pagination

CONSTANTS
    User, Admin,
    Backends,         \* the storage backends a deployment may choose
    Key,              \* supply of storage keys (uuid4): bounds the uploads
    Bodies,           \* sizes of the files that are sent
    Limit, Chunk,     \* max_upload_size_bytes, _CHUNK_SIZE
    Text,
    MaxComment,       \* bound on the comments ever begun
    Size,             \* page size of the client that walks the comments
    Req,              \* slots for requests in flight: the bound on concurrency
    Workloads,        \* sets of the requests that arrive together: the bound on the workload
    Unset

ASSUME ConstantsAssumption ==
    /\ Admin \subseteq User /\ Backends \subseteq {"local", "remote"}
    /\ Bodies \subseteq Nat /\ Limit \in Nat /\ Chunk \in Nat \ {0}
    /\ MaxComment \in Nat /\ Size \in Nat \ {0}
    /\ Unset \notin User \cup Key \cup Nat \cup Text

VARIABLES
    kinds,     \* the workload of this behaviour
    backend,   \* Settings.storage_backend
    blob,      \* bytes stored under each key
    file,      \* committed rows of file_attachments, by stored_filename: size_bytes
    comment,   \* committed rows of comments
    begun,     \* comments begun so far
    open,      \* the task is not soft-deleted
    members,   \* the others who are members of its project
    cut,       \* history: keys of uploads that a fault ended
    req,       \* the requests in flight
    walk       \* a client that reads the comments page by page

stores == <<blob, file, comment, cut>>
world == <<kinds, backend, open, members>>
vars == <<world, stores, begun, req, walk>>

-----------------------------------------------------------------------------
(* Types *)

CommentId == 1..MaxComment

CommentRow == [author : User, text : Text, deleted : BOOLEAN]

ASSUME RowsAssumption == Unset \notin CommentRow

Op == {"none", "upload", "download", "post", "edit", "erase"}

Stage == {"idle", "access", "open", "copy", "put", "insert", "row", "serve",
          "find", "own", "flush", "commit"}

Request ==
    [pc       : Stage,
     op       : Op,
     actor    : User \cup {Unset},
     key      : Key \cup {Unset},
     body     : Nat,                       \* size of the file sent
     read     : Nat,                       \* bytes read of it
     id       : CommentId \cup {Unset},
     text     : Text \cup {Unset},
     base     : CommentRow \cup {Unset},   \* the comment as loaded
     locked   : BOOLEAN,                   \* it has written the comment's row
     entitled : BOOLEAN]                   \* history: had access while in flight

Idle == [pc |-> "idle", op |-> "none", actor |-> Unset, key |-> Unset, body |-> 0,
         read |-> 0, id |-> Unset, text |-> Unset, base |-> Unset, locked |-> FALSE,
         entitled |-> FALSE]

Walk == [pc : {"idle", "count", "fetch", "done"}, page : Nat, total : Nat,
         start : SUBSET CommentId, seen : SUBSET CommentId,
         steady : BOOLEAN,   \* history: comments were only appended since it began
         twice : BOOLEAN]    \* history: a comment was shown on two pages

NoWalk == [pc |-> "idle", page |-> 0, total |-> 0, start |-> {}, seen |-> {},
           steady |-> TRUE, twice |-> FALSE]

TypeOK ==
    /\ kinds \in Workloads /\ backend \in Backends
    /\ blob \in [Key -> Nat \cup {Unset}]
    /\ file \in [Key -> Nat \cup {Unset}]
    /\ comment \in [CommentId -> CommentRow \cup {Unset}]
    /\ begun \in 0..MaxComment
    /\ open \in BOOLEAN /\ members \subseteq User \ Admin /\ cut \subseteq Key
    /\ req \in [Req -> Request]
    /\ walk \in Walk

Init ==
    /\ kinds \in Workloads /\ backend \in Backends
    /\ blob = [k \in Key |-> Unset] /\ file = [k \in Key |-> Unset]
    /\ comment = [c \in CommentId |-> Unset] /\ begun = 0
    /\ open = TRUE /\ members = User \ Admin /\ cut = {}
    /\ req = [r \in Req |-> Idle]
    /\ walk = NoWalk

-----------------------------------------------------------------------------
(* The session of a request *)

At(r, op, pc) == req[r].op = op /\ req[r].pc = pc

Becomes(r, call) == req' = [req EXCEPT ![r] = call] /\ UNCHANGED <<world, begun, walk>>

Goto(r, call) == Becomes(r, call) /\ UNCHANGED stores

\* The handler raises: the transaction is rolled back.
Fail(r) == Goto(r, Idle)

Access(u) == open /\ (u \in Admin \/ u \in members)

\* CommentRepository.get, which filters soft-deleted comments.
Found(c) == comment[c] # Unset /\ ~comment[c].deleted

Visible == {c \in CommentId : Found(c)}

-----------------------------------------------------------------------------
(* Requests arrive *)

Arrive(r, call) ==
    /\ req[r] = Idle /\ call.op \in kinds
    /\ Goto(r, [call EXCEPT !.entitled = Access(call.actor)])

\* Mutant: the key is made from the name of the file alone.
UploadByName(r) ==
    \E u \in User, k \in Key, n \in Bodies :
        Arrive(r, [Idle EXCEPT !.op = "upload", !.pc = "access", !.actor = u,
                               !.key = k, !.body = n])

BeginUpload(r) ==
    \E u \in User, k \in Key, n \in Bodies :
        /\ blob[k] = Unset /\ k \notin cut /\ \A q \in Req : req[q].key # k
        /\ Arrive(r, [Idle EXCEPT !.op = "upload", !.pc = "access", !.actor = u,
                                  !.key = k, !.body = n])

BeginDownload(r) ==
    \E u \in User, k \in Key :
        /\ file[k] # Unset
        /\ Arrive(r, [Idle EXCEPT !.op = "download", !.pc = "row", !.actor = u, !.key = k])

\* The transaction begins, and with it created_at is settled.
BeginPost(r) ==
    \E u \in User, text \in Text :
        /\ begun < MaxComment /\ req[r] = Idle /\ "post" \in kinds
        /\ begun' = begun + 1
        /\ req' = [req EXCEPT ![r] =
               [Idle EXCEPT !.op = "post", !.pc = "access", !.actor = u, !.id = begun + 1,
                            !.text = text, !.entitled = Access(u)]]
        /\ UNCHANGED <<world, stores, walk>>

BeginEdit(r) ==
    \E u \in User, c \in CommentId, text \in Text :
        /\ comment[c] # Unset
        /\ Arrive(r, [Idle EXCEPT !.op = "edit", !.pc = "find", !.actor = u, !.id = c,
                                  !.text = text])

BeginErase(r) ==
    \E u \in User, c \in CommentId :
        /\ comment[c] # Unset
        /\ Arrive(r, [Idle EXCEPT !.op = "erase", !.pc = "find", !.actor = u, !.id = c])

-----------------------------------------------------------------------------
(* The access check *)

\* What follows the access check.
Onward(q) ==
    CASE q.op = "upload" -> IF backend = "local" THEN "open" ELSE "put"
      [] q.op = "download" -> "serve"
      [] q.op = "post" -> "insert"
      [] OTHER -> "own"

\* Mutant: the check is left to the client.
AnyAccess(r) == req[r].pc = "access" /\ Goto(r, [req[r] EXCEPT !.pc = Onward(req[r])])

\* get_accessible_task.
CheckAccess(r) ==
    LET q == req[r] IN
    /\ q.pc = "access"
    /\ \/ ~Access(q.actor) /\ Fail(r)
       \/ Access(q.actor) /\ Goto(r, [q EXCEPT !.pc = Onward(q)])

-----------------------------------------------------------------------------
(* StorageBackend.save *)

Store(k, n) == blob' = [blob EXCEPT ![k] = n] /\ UNCHANGED <<file, comment, cut>>

OpenFile(r) ==
    /\ At(r, "upload", "open")
    /\ Store(req[r].key, 0) /\ Becomes(r, [req[r] EXCEPT !.pc = "copy"])

Take(q) == IF q.body - q.read < Chunk THEN q.body - q.read ELSE Chunk

\* Mutant: the chunk is counted after it was written.
CopyFirst(r) ==
    /\ At(r, "upload", "copy") /\ req[r].read < req[r].body
    /\ req[r].read <= Limit
    /\ Store(req[r].key, req[r].read + Take(req[r]))
    /\ Becomes(r, [req[r] EXCEPT !.read = req[r].read + Take(req[r])])

\* One turn of the loop: read a chunk, and write it unless the file is too large.
CopyChunk(r) ==
    LET q == req[r]
        size == q.read + Take(q)
    IN
    /\ At(r, "upload", "copy") /\ q.read < q.body
    /\ size <= Limit
    /\ Store(q.key, size) /\ Becomes(r, [q EXCEPT !.read = size])

CopyDone(r) ==
    /\ At(r, "upload", "copy") /\ req[r].read = req[r].body
    /\ Goto(r, [req[r] EXCEPT !.pc = "insert"])

\* Mutant: the error is passed on without unlinking what was written.
StopCopy(r) ==
    LET q == req[r] IN
    /\ At(r, "upload", "copy") /\ q.read < q.body /\ q.read + Take(q) > Limit
    /\ Fail(r)

\* Too large, or any other Exception: what was written is unlinked.
UndoCopy(r) ==
    /\ At(r, "upload", "copy")
    /\ Store(req[r].key, Unset) /\ Becomes(r, Idle)

\* S3 and Azure: read one byte more than allowed, then put the object.
PutTooLarge(r) == At(r, "upload", "put") /\ req[r].body > Limit /\ Fail(r)

Put(r) ==
    LET q == req[r] IN
    /\ At(r, "upload", "put") /\ q.body <= Limit
    /\ Store(q.key, q.body) /\ Becomes(r, [q EXCEPT !.read = q.body, !.pc = "insert"])

\* The call raises although the object was stored.
PutLost(r) ==
    /\ At(r, "upload", "put") /\ req[r].body <= Limit
    /\ blob' = [blob EXCEPT ![req[r].key] = req[r].body] /\ cut' = cut \cup {req[r].key}
    /\ Becomes(r, Idle) /\ UNCHANGED <<file, comment>>

-----------------------------------------------------------------------------
(* Downloads *)

\* get_attachment; rows are not deleted.
LoadRow(r) == At(r, "download", "row") /\ Goto(r, [req[r] EXCEPT !.pc = "access"])

\* local_path: a path on disk, or nothing to serve.
OnDisk(k) == backend = "local" /\ blob[k] # Unset

Serve(r) == At(r, "download", "serve") /\ OnDisk(req[r].key) /\ Goto(r, Idle)

NotInStorage(r) == At(r, "download", "serve") /\ ~OnDisk(req[r].key) /\ Fail(r)

-----------------------------------------------------------------------------
(* Comments *)

FindComment(r) ==
    LET q == req[r] IN
    /\ q.pc = "find"
    /\ \/ ~Found(q.id) /\ Fail(r)
       \/ Found(q.id) /\ Goto(r, [q EXCEPT !.base = comment[q.id], !.pc = "access"])

\* Mutant: anybody with access to the task may change a comment.
OwnAny(r) == req[r].pc = "own" /\ Goto(r, [req[r] EXCEPT !.pc = "flush"])

\* _get_owned: looked up again, though what was loaded is not overwritten.
OwnComment(r) ==
    LET q == req[r]
        owned == Found(q.id) /\ (q.actor \in Admin \/ q.base.author = q.actor)
    IN
    /\ q.pc = "own"
    /\ \/ ~owned /\ Fail(r)
       \/ owned /\ Goto(r, [q EXCEPT !.pc = "flush"])

Locked(c, r) == \E q \in Req \ {r} : req[q].id = c /\ req[q].locked

\* UPDATE comments; an edit that changes nothing emits none.
FlushComment(r) ==
    LET q == req[r] IN
    /\ q.pc = "flush"
    /\ \/ q.op = "edit" /\ q.text = q.base.text /\ Goto(r, [q EXCEPT !.pc = "commit"])
       \/ /\ q.op = "erase" \/ q.text # q.base.text
          /\ ~Locked(q.id, r)
          /\ Goto(r, [q EXCEPT !.locked = TRUE, !.pc = "commit"])

\* INSERT of the file's row or the comment, and the final read of it.
Insert(r) == req[r].pc = "insert" /\ Goto(r, [req[r] EXCEPT !.pc = "commit"])

-----------------------------------------------------------------------------
(* The transaction ends *)

CommitFile(r) ==
    LET q == req[r] IN
    /\ At(r, "upload", "commit")
    /\ file' = [file EXCEPT ![q.key] = q.read]
    /\ Becomes(r, Idle) /\ UNCHANGED <<blob, comment, cut>>

\* Mutant: an edit clears the text.
CommentBlank(q) ==
    CASE q.op = "post" -> [author |-> q.actor, text |-> q.text, deleted |-> FALSE]
      [] q.op = "edit" -> [comment[q.id] EXCEPT !.text = Unset]
      [] OTHER -> [comment[q.id] EXCEPT !.deleted = TRUE]

\* Mutant: the object as loaded is stored.
CommentStored(q) ==
    CASE q.op = "post" -> [author |-> q.actor, text |-> q.text, deleted |-> FALSE]
      [] q.op = "edit" -> [q.base EXCEPT !.text = q.text]
      [] OTHER -> [q.base EXCEPT !.deleted = TRUE]

\* The row of the comment once it is written.
CommentWritten(q) ==
    CASE q.op = "post" -> [author |-> q.actor, text |-> q.text, deleted |-> FALSE]
      [] q.op = "edit" -> [comment[q.id] EXCEPT !.text = q.text]
      [] OTHER -> [comment[q.id] EXCEPT !.deleted = TRUE]

CommitComment(r) ==
    LET q == req[r]
        writes == q.op = "post" \/ q.locked
        appends == q.op = "post" /\ \A c \in Visible : c < q.id
    IN
    /\ q.pc = "commit" /\ q.op \in {"post", "edit", "erase"}
    /\ comment' = IF writes THEN [comment EXCEPT ![q.id] = CommentWritten(q)] ELSE comment
    /\ walk' = [walk EXCEPT !.steady = @ /\ (appends \/ q.op = "edit")]
    /\ req' = [req EXCEPT ![r] = Idle]
    /\ UNCHANGED <<world, begun, blob, file, cut>>

\* A failed statement, a cancelled request or a process that died.  A file that is
\* partly or wholly written stays where it is.
Abort(r) ==
    /\ req[r] # Idle
    /\ cut' = IF req[r].op = "upload" THEN cut \cup {req[r].key} ELSE cut
    /\ Becomes(r, Idle) /\ UNCHANGED <<blob, file, comment>>

-----------------------------------------------------------------------------
(* GET /tasks/{id}/comments, page after page *)

BeginWalk ==
    /\ walk.pc = "idle" /\ "walk" \in kinds
    /\ walk' = [NoWalk EXCEPT !.pc = "count", !.page = 1, !.start = Visible]
    /\ UNCHANGED <<world, stores, begun, req>>

\* paginate: the count ...
CountRows ==
    /\ walk.pc = "count"
    /\ walk' = [walk EXCEPT !.total = Cardinality(Visible), !.pc = "fetch"]
    /\ UNCHANGED <<world, stores, begun, req>>

\* ... and the page.  The client goes on while the answer announces more pages.
FetchPage ==
    LET items == PageOf(Visible, walk.page, Size)
        more == walk.page < Pages(walk.total, Size)
    IN
    /\ walk.pc = "fetch"
    /\ walk' = [walk EXCEPT !.seen = @ \cup items,
                            !.twice = @ \/ walk.seen \cap items # {},
                            !.page = IF more THEN @ + 1 ELSE @,
                            !.pc = IF more THEN "count" ELSE "done"]
    /\ UNCHANGED <<world, stores, begun, req>>

-----------------------------------------------------------------------------
(* Commits of other modules *)

CloseTask ==
    /\ "world" \in kinds /\ open /\ open' = FALSE
    /\ UNCHANGED <<kinds, backend, members, stores, begun, req, walk>>

RemoveMember ==
    /\ "world" \in kinds
    /\ \E u \in members : members' = members \ {u}
    /\ UNCHANGED <<kinds, backend, open, stores, begun, req, walk>>

AddMember ==
    /\ "world" \in kinds
    /\ \E u \in User \ (Admin \cup members) :
        /\ members' = members \cup {u}
        /\ req' = [r \in Req |-> IF req[r].actor = u /\ open
                                 THEN [req[r] EXCEPT !.entitled = TRUE] ELSE req[r]]
    /\ UNCHANGED <<kinds, backend, open, stores, begun, walk>>

Begin(r) ==
    BeginUpload(r) \/ BeginDownload(r) \/ BeginPost(r) \/ BeginEdit(r) \/ BeginErase(r)

Step(r) ==
    \/ CheckAccess(r)
    \/ OpenFile(r) \/ CopyChunk(r) \/ CopyDone(r) \/ UndoCopy(r)
    \/ PutTooLarge(r) \/ Put(r) \/ PutLost(r)
    \/ LoadRow(r) \/ Serve(r) \/ NotInStorage(r)
    \/ FindComment(r) \/ OwnComment(r) \/ FlushComment(r) \/ Insert(r)
    \/ CommitFile(r) \/ CommitComment(r)

Next ==
    \/ \E r \in Req : Begin(r) \/ Step(r) \/ Abort(r)
    \/ BeginWalk \/ CountRows \/ FetchPage
    \/ CloseTask \/ RemoveMember \/ AddMember

Spec == Init /\ [][Next]_vars

-----------------------------------------------------------------------------
(* Properties *)

\* What a row announces is there, whole and within the limit: the blob is
\* written before the row and nothing ever removes or shortens it.
RowsHaveTheirBlob ==
    \A k \in Key : file[k] # Unset => blob[k] = file[k] /\ file[k] <= Limit

\* An upload gets past the storage exactly with a file that is not too large, all of
\* it stored, however its size falls on the chunks.
LimitIsExact ==
    \A r \in Req : req[r].op = "upload" /\ req[r].pc \in {"insert", "commit"} =>
        req[r].body <= Limit /\ blob[req[r].key] = req[r].body

\* A blob without a row belongs to an upload in flight or to one that a fault
\* ended: an upload that is refused leaves nothing behind.
OnlyFaultsLeaveBlobs ==
    \A k \in Key : blob[k] # Unset /\ file[k] = Unset =>
        k \in cut \/ \E r \in Req : req[r].key = k

\* A request whose actor had no access at any moment of it neither writes nor is
\* served a file.
OutsidersGetNothing ==
    \A r \in Req : req[r].pc \in {"open", "copy", "put", "insert", "serve", "own", "flush", "commit"}
        => req[r].entitled

\* A comment changes only by a request of its author or an admin, in its text or by
\* its deletion; it keeps its author, and no edit that overlaps a deletion undoes it.
CommentsAreTheirAuthors ==
    [][\A c \in CommentId : comment[c] # Unset /\ comment'[c] # comment[c] =>
        /\ comment'[c] # Unset
        /\ comment'[c].author = comment[c].author
        /\ comment[c].deleted => comment'[c].deleted
        /\ \E r \in Req : /\ req[r].pc = "commit" /\ req[r].id = c
                          /\ req[r].actor \in Admin \cup {comment[c].author}]_vars

\* A client that follows the pages sees every comment there was when it began, and
\* none twice, if comments were only appended meanwhile.
WalkMissesNothing ==
    walk.pc = "done" /\ walk.steady => walk.start \subseteq walk.seen /\ ~walk.twice

\* The protocol's promise (storage/__init__.py) that a remote backend's downloads are
\* streamed or presigned: a row with its blob in the store can be downloaded.
StoredFilesAreServed ==
    \A r \in Req : req[r].pc = "serve" /\ blob[req[r].key] # Unset => OnDisk(req[r].key)

=============================================================================
