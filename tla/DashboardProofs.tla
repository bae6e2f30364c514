--------------------------- MODULE DashboardProofs ---------------------------
(***************************************************************************)
(* How far the figures of a report can be apart, for every board, whatever *)
(* is committed between the statements that count.                         *)
(*                                                                         *)
(* The property is about finished reports.  The invariant says of a report *)
(* in the making how far each figure is, by now, from the rows it counted: *)
(* a commit moves one row and is counted once.                             *)
(***************************************************************************)
EXTENDS Dashboard, BoardProofs, FiniteSetTheorems

Figure == {"projects", "total", "completed", "byProjectStatus", "byStatus", "byPriority",
           "byMember", "overdue"}

Reports ==
    [of : {"none", "project", "all"}, todo : Seq(Figure), projects : Nat, total : Nat,
     completed : Nat, byProjectStatus : Nat, byStatus : [Status -> Nat],
     byPriority : [BOOLEAN -> Nat], byMember : [Name -> Nat], overdue : Nat,
     namesakes : BOOLEAN, commits : Nat]

Left == Len(view.todo)

\* What is still asked for is the end of the list.
OnTrack ==
    view.of # "none" =>
        Left <= 6 /\ \A i \in 1..Left : view.todo[i] = Figures(view.of)[6 - Left + i]

AddsUp(f, total, drift) ==
    \E n \in 0..Cardinality(Task) :
        AddUpTo(f, n) /\ n <= total + drift /\ total <= n + drift

AddsToNoMore(f, total, drift) ==
    \E n \in 0..Cardinality(Task) : AddUpTo(f, n) /\ n <= total + drift

OpenProjects == IF closed THEN 0 ELSE 1

Unfinished == LiveTasks \ With("done")

\* What a report of a project knows with so many figures left.
OfProject ==
    view.of = "project" =>
        /\ view.projects = 0 /\ view.byProjectStatus = 0
        /\ Left \in 1..5 => Near(view.total, Cardinality(LiveTasks))
        /\ Left \in 1..4 =>
             view.completed + Cardinality(Unfinished) <= view.total + view.commits
        /\ Left <= 3 => AddsUp(view.byStatus, view.total, view.commits)
        /\ Left <= 2 => AddsUp(view.byPriority, view.total, view.commits)
        /\ Left <= 1 =>
             (~view.namesakes => AddsToNoMore(view.byMember, view.total, view.commits))
        /\ Left = 0 => view.completed + view.overdue <= view.total + view.commits

OfAll ==
    view.of = "all" =>
        /\ view.completed = 0 /\ ~view.namesakes /\ view.byMember = Zero(Name)
        /\ Left \in 1..5 => Near(view.projects, OpenProjects)
        /\ Left \in 1..4 => Near(view.total, Cardinality(LiveTasks))
        /\ Left <= 3 => Near(view.byProjectStatus, view.projects)
        /\ Left <= 2 => AddsUp(view.byStatus, view.total, view.commits)
        /\ Left <= 1 => AddsUp(view.byPriority, view.total, view.commits)
        /\ Left = 0 => view.overdue <= view.total + view.commits

ReportInv ==
    /\ view \in Reports
    /\ view.of = "none" => view = NoView
    /\ OnTrack /\ OfProject /\ OfAll

-----------------------------------------------------------------------------
(* Lemmas about counting *)

LEMMA Counted ==
    ASSUME NEW S \in SUBSET Task
    PROVE  IsFiniteSet(S) /\ Cardinality(S) \in 0..Cardinality(Task)
<1>1. IsFiniteSet(S) /\ Cardinality(S) <= Cardinality(Task)
  BY TaskAssumption, FS_Subset
<1>2. Cardinality(S) \in Nat /\ Cardinality(Task) \in Nat
  BY <1>1, TaskAssumption, FS_CardinalityType
<1> QED BY <1>1, <1>2

LEMMA Monotone ==
    ASSUME NEW S \in SUBSET Task, NEW T \in SUBSET S
    PROVE  Cardinality(T) <= Cardinality(S)
BY Counted, FS_Subset

\* Sets that differ in one task at most have nearly as many.
LEMMA OneApart ==
    ASSUME NEW S \in SUBSET Task, NEW T \in SUBSET Task, NEW t \in Task, S \ {t} = T \ {t}
    PROVE  Cardinality(S) <= Cardinality(T) + 1
<1>1. IsFiniteSet(S) /\ IsFiniteSet(T) /\ Cardinality(S) \in Nat /\ Cardinality(T) \in Nat
  BY Counted
<1>2. Cardinality(S) - 1 <= Cardinality(S \ {t}) /\ Cardinality(T \ {t}) <= Cardinality(T)
  BY <1>1, FS_RemoveElement
<1> QED BY <1>1, <1>2

\* Tasks and those of them that are left over.
LEMMA TwoParts ==
    ASSUME NEW S \in SUBSET Task, NEW T \in SUBSET S
    PROVE  Cardinality(T) + Cardinality(S \ T) = Cardinality(S)
<1>1. IsFiniteSet(S) /\ Cardinality(S) \in Nat /\ Cardinality(T) \in Nat
      /\ Cardinality(S \ T) \in Nat
  BY Counted
<1>2. Cardinality(S \ T) = Cardinality(S) - Cardinality(S \cap T)
  BY <1>1, FS_Difference
<1>3. S \cap T = T
  OBVIOUS
<1> QED BY <1>1, <1>2, <1>3

\* Figures that count the parts of a set add up to its size.
LEMMA PartsAddUp ==
    ASSUME NEW D, NEW part \in [D -> SUBSET Task],
           \A x, y \in D : x # y => part[x] \cap part[y] = {},
           NEW f, f = [x \in D |-> Cardinality(part[x])],
           NEW S, S = UNION {part[x] : x \in D}
    PROVE  Cardinality(S) \in 0..Cardinality(Task) /\ AddUpTo(f, Cardinality(S))
<1>1. S \in SUBSET Task /\ DOMAIN f = D
  OBVIOUS
<1> QED BY <1>1, Counted DEF AddUpTo

LEMMA SumsDrift ==
    ASSUME NEW f, NEW total \in Nat, NEW drift \in Nat
    PROVE  /\ AddsUp(f, total, drift) => AddsUp(f, total, drift + 1)
           /\ AddsToNoMore(f, total, drift) => AddsToNoMore(f, total, drift + 1)
<1>1. \A n \in 0..Cardinality(Task) : n <= total + drift => n <= total + drift + 1
  BY Counted
<1>2. \A n \in 0..Cardinality(Task) : total <= n + drift => total <= n + drift + 1
  BY Counted
<1> QED BY <1>1, <1>2 DEF AddsUp, AddsToNoMore

-----------------------------------------------------------------------------
(* The board moves *)

\* A step of the board changes one task at most.
LEMMA OneTask ==
    ASSUME IInv, [Next]_vars, row' # row
    PROVE  \E t \in Task : \A s \in Task \ {t} : row'[s] = row[s]
<1>1. PICK r \in Req : Commit(r)
  BY OnlyCommitWrites
<1>2. PICK q : q = req[r] /\ Effect(r, q)
  BY <1>1, CommitEffect
<1>3. q.wrote /\ q.task \in Task /\ row' = [row EXCEPT ![q.task] = Made(q)]
  BY <1>2 DEF Effect
<1> QED BY <1>3 DEF IInv, TypeOK

LEMMA CountsDrift ==
    ASSUME IInv, [Next]_vars
    PROVE  /\ Cardinality(LiveTasks') <= Cardinality(LiveTasks) + 1
           /\ Cardinality(LiveTasks) <= Cardinality(LiveTasks') + 1
           /\ Cardinality(Unfinished') <= Cardinality(Unfinished) + 1
<1>1. LiveTasks \in SUBSET Task /\ LiveTasks' \in SUBSET Task
      /\ Unfinished \in SUBSET Task /\ Unfinished' \in SUBSET Task
  BY DEF LiveTasks, Unfinished
<1>2. CASE row' = row
  <2>1. LiveTasks' = LiveTasks /\ Unfinished' = Unfinished
    BY <1>2 DEF LiveTasks, Unfinished, With, Found
  <2> QED BY <1>1, <2>1, Counted
<1>3. CASE row' # row
  <2>1. PICK t \in Task : \A s \in Task \ {t} : row'[s] = row[s]
    BY <1>3, OneTask
  <2>2. LiveTasks' \ {t} = LiveTasks \ {t} /\ Unfinished' \ {t} = Unfinished \ {t}
    BY <2>1 DEF LiveTasks, Unfinished, With, Found
  <2> QED BY <1>1, <2>2, OneApart
<1> QED BY <1>2, <1>3

LEMMA MovesInv ==
    ASSUME IInv, ReportInv, BoardMoves
    PROVE  ReportInv'
<1> DEFINE live == Cardinality(LiveTasks)
           open == Cardinality(Unfinished)
<1>1. live \in Nat /\ live' \in Nat /\ open \in Nat /\ open' \in Nat
  BY Counted DEF LiveTasks, Unfinished
<1>2. CASE Reading /\ <<row, closed>>' # <<row, closed>>
  <2>1. view' = [view EXCEPT !.commits = @ + 1]
    BY <1>2 DEF BoardMoves
  <2>2. /\ view' \in Reports /\ view'.of = view.of /\ view'.todo = view.todo
        /\ view'.projects = view.projects /\ view'.total = view.total
        /\ view'.completed = view.completed /\ view'.byProjectStatus = view.byProjectStatus
        /\ view'.byStatus = view.byStatus /\ view'.byPriority = view.byPriority
        /\ view'.byMember = view.byMember /\ view'.overdue = view.overdue
        /\ view'.namesakes = view.namesakes /\ view'.commits = view.commits + 1
    <3>1. view.commits + 1 \in Nat
      BY DEF ReportInv, Reports
    <3> QED BY <2>1, <3>1 DEF ReportInv, Reports
  <2>3. view.of # "none" /\ view.commits \in Nat /\ view.total \in Nat
        /\ view.completed \in Nat /\ view.projects \in Nat /\ view.byProjectStatus \in Nat
        /\ view.overdue \in Nat
    BY <1>2 DEF ReportInv, Reports, Reading, NoView
  <2>4. live' <= live + 1 /\ live <= live' + 1 /\ open' <= open + 1
    BY CountsDrift DEF BoardMoves
  <2>5. Near(view.total, live) => Near(view.total, live)'
    BY <1>1, <2>2, <2>3, <2>4 DEF Near
  <2>6. Near(view.projects, OpenProjects) => Near(view.projects, OpenProjects)'
    BY <2>2, <2>3 DEF Near, OpenProjects
  <2>7. Near(view.byProjectStatus, view.projects) => Near(view.byProjectStatus, view.projects)'
    BY <2>2, <2>3 DEF Near
  <2>8. \A f : AddsUp(f, view.total, view.commits) => AddsUp(f, view'.total, view'.commits)
    BY <2>2, <2>3, SumsDrift
  <2>9. \A f : AddsToNoMore(f, view.total, view.commits)
               => AddsToNoMore(f, view'.total, view'.commits)
    BY <2>2, <2>3, SumsDrift
  <2>10. Left' = Left /\ OnTrack'
    BY <2>2 DEF ReportInv, OnTrack, Left, Figures
  <2>11. OfProject'
    <3>1. SUFFICES ASSUME view.of = "project" PROVE OfProject'
      BY <2>2 DEF OfProject
    <3>2. Left \in Nat /\ OfProject
      BY DEF ReportInv, Reports, Left
    <3>3. Left # 0
      BY <1>2, <2>3 DEF Reading, Left, ReportInv, Reports
    <3> QED BY <1>1, <2>2, <2>3, <2>4, <2>5, <2>8, <2>9, <2>10, <3>1, <3>2, <3>3 DEF OfProject
  <2>12. OfAll'
    <3>1. SUFFICES ASSUME view.of = "all" PROVE OfAll'
      BY <2>2 DEF OfAll
    <3>2. Left \in Nat /\ OfAll
      BY DEF ReportInv, Reports, Left
    <3>3. Left # 0
      BY <1>2, <2>3 DEF Reading, Left, ReportInv, Reports
    <3> QED BY <2>2, <2>5, <2>6, <2>7, <2>8, <2>10, <3>1, <3>2, <3>3 DEF OfAll, Zero
  <2> QED BY <2>2, <2>3, <2>10, <2>11, <2>12 DEF ReportInv
<1>3. CASE ~(Reading /\ <<row, closed>>' # <<row, closed>>)
  <2>1. view' = view
    BY <1>3 DEF BoardMoves, ReportInv, Reports
  <2>2. Reading => row' = row /\ closed' = closed
    BY <1>3
  <2>3. /\ Reading => LiveTasks' = LiveTasks /\ Unfinished' = Unfinished
        /\ Reading => OpenProjects' = OpenProjects
    BY <2>2 DEF LiveTasks, Unfinished, With, Found, OpenProjects
  <2>4. Left' = Left /\ (Left \in 1..5 => Reading)
    BY <2>1 DEF Left, Reading
  <2>5. view' \in Reports /\ OnTrack' /\ (view'.of = "none" => view' = NoView')
    BY <2>1 DEF ReportInv, Reports, OnTrack, Left, Figures, NoView, Zero
  <2>6. OfProject' /\ OfAll'
    BY <2>1, <2>3, <2>4 DEF ReportInv, OfProject, OfAll, Near, Zero
  <2> QED BY <2>5, <2>6 DEF ReportInv
<1> QED BY <1>2, <1>3

-----------------------------------------------------------------------------
(* The statements of a report *)

\* The figure asked for tells how many are left.
LEMMA Asked ==
    ASSUME ReportInv, NEW figure, Asks(figure)
    PROVE  /\ view.of \in {"project", "all"} /\ Left \in 1..6
           /\ figure = Figures(view.of)[7 - Left]
<1>1. view.todo # <<>> /\ view.todo \in Seq(Figure) /\ figure = Head(view.todo)
  BY DEF Asks, Reading, ReportInv, Reports
<1>2. view.of # "none"
  BY <1>1 DEF ReportInv, NoView
<1>3. Left \in Nat /\ Left # 0 /\ figure = view.todo[1]
  BY <1>1 DEF Left
<1>4. Left <= 6 /\ view.todo[1] = Figures(view.of)[6 - Left + 1]
  BY <1>2, <1>3 DEF ReportInv, OnTrack
<1>5. 6 - Left + 1 = 7 - Left
  BY <1>3
<1>6. figure = Figures(view.of)[7 - Left]
  BY <1>3, <1>4, <1>5
<1>7. view.of \in {"project", "all"} /\ Left \in 1..6
  BY <1>2, <1>3, <1>4 DEF ReportInv, Reports
<1> QED BY <1>6, <1>7

\* What an answer that makes the figures v leaves.
Leaves(v) ==
    /\ view' \in Reports /\ Left' = Left - 1 /\ OnTrack'
    /\ view'.of = v.of /\ view'.projects = v.projects /\ view'.total = v.total
    /\ view'.completed = v.completed /\ view'.byProjectStatus = v.byProjectStatus
    /\ view'.byStatus = v.byStatus /\ view'.byPriority = v.byPriority
    /\ view'.byMember = v.byMember /\ view'.overdue = v.overdue
    /\ view'.namesakes = v.namesakes /\ view'.commits = v.commits
    /\ LiveTasks' = LiveTasks /\ Unfinished' = Unfinished /\ OpenProjects' = OpenProjects

LEMMA AnswerEffect ==
    ASSUME ReportInv, NEW figure, Asks(figure),
           NEW v \in Reports, v.of = view.of, v.todo = view.todo, Answered(v)
    PROVE  Leaves(v)
<1>1. view.todo # <<>> /\ view.todo \in Seq(Figure)
  BY DEF Asks, Reading, ReportInv, Reports
<1>2. PICK rest : rest = Tail(view.todo)
  OBVIOUS
<1>3. /\ rest \in Seq(Figure) /\ Len(rest) = Len(view.todo) - 1
      /\ \A i \in 1..Len(rest) : rest[i] = view.todo[i + 1]
  <2>1. PICK s : s = view.todo
    OBVIOUS
  <2>2. s \in Seq(Figure) /\ s # <<>> /\ rest = Tail(s)
    BY <1>1, <1>2, <2>1
  <2>3. /\ rest \in Seq(Figure) /\ Len(rest) = Len(s) - 1
        /\ \A i \in 1..Len(rest) : rest[i] = s[i + 1]
    BY <2>2
  <2> QED BY <2>1, <2>3
<1>4. view' = [v EXCEPT !.todo = rest]
  BY <1>2 DEF Answered
<1>5. /\ view' \in Reports /\ view'.todo = rest
      /\ view'.of = v.of /\ view'.projects = v.projects /\ view'.total = v.total
      /\ view'.completed = v.completed /\ view'.byProjectStatus = v.byProjectStatus
      /\ view'.byStatus = v.byStatus /\ view'.byPriority = v.byPriority
      /\ view'.byMember = v.byMember /\ view'.overdue = v.overdue
      /\ view'.namesakes = v.namesakes /\ view'.commits = v.commits
  BY <1>3, <1>4 DEF Reports
<1>6. Left' = Left - 1 /\ Left \in 1..6
  BY <1>3, <1>5, Asked DEF Left
<1>7. OnTrack'
  <2>1. ASSUME NEW i \in 1..Len(rest) PROVE rest[i] = Figures(view.of)[6 - Len(rest) + i]
    <3>1. i + 1 \in 1..Left /\ 6 - Left + (i + 1) = 6 - Len(rest) + i
      BY <1>3, <1>6 DEF Left
    <3>2. view.todo[i + 1] = Figures(view.of)[6 - Left + (i + 1)]
      BY <3>1, Asked DEF ReportInv, OnTrack
    <3> QED BY <1>3, <3>1, <3>2
  <2>2. Len(rest) <= 6
    BY <1>3, <1>6 DEF Left
  <2> QED BY <1>5, <2>1, <2>2 DEF OnTrack, Left, Figures
<1>8. LiveTasks' = LiveTasks /\ Unfinished' = Unfinished /\ OpenProjects' = OpenProjects
  BY DEF Answered, vars, LiveTasks, Unfinished, With, Found, OpenProjects
<1> QED BY <1>5, <1>6, <1>7, <1>8 DEF Leaves

LEMMA CountTasksInv ==
    ASSUME ReportInv, CountTasks
    PROVE  ReportInv'
<1>1. PICK live : live = Cardinality(LiveTasks)
  OBVIOUS
<1>2. live \in Nat
  BY <1>1, Counted DEF LiveTasks
<1>3. PICK v : v = [view EXCEPT !.total = live]
  OBVIOUS
<1>4. /\ v \in Reports /\ v.of = view.of /\ v.todo = view.todo /\ v.total = live
      /\ v.projects = view.projects /\ v.completed = view.completed
      /\ v.byMember = view.byMember /\ v.namesakes = view.namesakes
      /\ v.byProjectStatus = view.byProjectStatus /\ v.commits = view.commits
  BY <1>2, <1>3 DEF ReportInv, Reports
<1>5. Asks("total") /\ Answered(v)
  BY <1>1, <1>3 DEF CountTasks
<1>6. /\ view.of = "project" => Left = 6
      /\ view.of = "all" => Left = 5
      /\ view.of \in {"project", "all"}
  BY <1>5, Asked DEF Figures
<1>7. Leaves(v)
  BY <1>4, <1>5, AnswerEffect
<1>8. view'.commits \in Nat /\ Left' = Left - 1 /\ LiveTasks' = LiveTasks /\ view'.total = live
  BY <1>4, <1>7 DEF Leaves, Reports
<1>9. Near(view.total, Cardinality(LiveTasks))'
  BY <1>1, <1>2, <1>8 DEF Near
<1>10. OfProject'
  BY <1>4, <1>6, <1>7, <1>8, <1>9 DEF ReportInv, OfProject, Leaves
<1>11. OfAll'
  BY <1>4, <1>6, <1>7, <1>8, <1>9 DEF ReportInv, OfAll, Near, Zero, Leaves
<1> QED BY <1>4, <1>6, <1>7, <1>10, <1>11 DEF ReportInv, Leaves

LEMMA CompletedInv ==
    ASSUME ReportInv, CompletedCount
    PROVE  ReportInv'
<1>1. PICK done : done = Cardinality(With("done"))
  OBVIOUS
<1>2. done \in Nat /\ done + Cardinality(Unfinished) = Cardinality(LiveTasks)
  <2>1. With("done") \in SUBSET LiveTasks /\ LiveTasks \in SUBSET Task
    BY DEF With, LiveTasks
  <2>2. Cardinality(With("done")) \in Nat
    BY <2>1, Counted
  <2>3. Cardinality(With("done")) + Cardinality(Unfinished) = Cardinality(LiveTasks)
    BY <2>1, TwoParts DEF Unfinished
  <2> QED BY <1>1, <2>2, <2>3
<1>3. PICK v : v = [view EXCEPT !.completed = done]
  OBVIOUS
<1>4. /\ v \in Reports /\ v.of = view.of /\ v.todo = view.todo /\ v.total = view.total
      /\ v.projects = view.projects /\ v.completed = done
      /\ v.byProjectStatus = view.byProjectStatus /\ v.commits = view.commits
  BY <1>2, <1>3 DEF ReportInv, Reports
<1>5. Asks("completed") /\ Answered(v)
  BY <1>1, <1>3 DEF CompletedCount
<1>6. view.of = "project" /\ Left = 5
  BY <1>5, Asked DEF Figures
<1>7. Leaves(v)
  BY <1>4, <1>5, AnswerEffect
<1>8. Near(view.total, Cardinality(LiveTasks))
  BY <1>6 DEF ReportInv, OfProject
<1>9. OfProject'
  BY <1>2, <1>4, <1>6, <1>7, <1>8 DEF ReportInv, OfProject, Near, Leaves
<1>10. OfAll'
  BY <1>4, <1>6, <1>7 DEF OfAll, Leaves
<1> QED BY <1>4, <1>6, <1>7, <1>9, <1>10 DEF ReportInv, Leaves

LEMMA CountProjectsInv ==
    ASSUME ReportInv, CountProjects
    PROVE  ReportInv'
<1>1. PICK v : v = [view EXCEPT !.projects = OpenProjects]
  OBVIOUS
<1>2. /\ v \in Reports /\ v.of = view.of /\ v.todo = view.todo /\ v.completed = view.completed
      /\ v.projects = OpenProjects /\ v.namesakes = view.namesakes
      /\ v.byMember = view.byMember /\ v.commits = view.commits
  BY <1>1 DEF ReportInv, Reports, OpenProjects
<1>3. Asks("projects") /\ Answered(v)
  BY <1>1 DEF CountProjects, OpenProjects
<1>4. view.of = "all" /\ Left = 6
  BY <1>3, Asked DEF Figures
<1>5. Leaves(v)
  BY <1>2, <1>3, AnswerEffect
<1>6. Near(view.projects, OpenProjects)'
  BY <1>2, <1>5 DEF Near, Leaves, Reports, OpenProjects
<1>7. OfAll'
  BY <1>2, <1>4, <1>5, <1>6 DEF ReportInv, OfAll, Leaves, Zero
<1>8. OfProject'
  BY <1>2, <1>4, <1>5 DEF OfProject, Leaves
<1> QED BY <1>2, <1>4, <1>5, <1>7, <1>8 DEF ReportInv, Leaves

LEMMA ProjectsByStatusInv ==
    ASSUME ReportInv, ProjectsByStatus
    PROVE  ReportInv'
<1>1. PICK v : v = [view EXCEPT !.byProjectStatus = OpenProjects]
  OBVIOUS
<1>2. /\ v \in Reports /\ v.of = view.of /\ v.todo = view.todo /\ v.completed = view.completed
      /\ v.byProjectStatus = OpenProjects /\ v.projects = view.projects
      /\ v.total = view.total /\ v.namesakes = view.namesakes
      /\ v.byMember = view.byMember /\ v.commits = view.commits
  BY <1>1 DEF ReportInv, Reports, OpenProjects
<1>3. Asks("byProjectStatus") /\ Answered(v)
  BY <1>1 DEF ProjectsByStatus, OpenProjects
<1>4. view.of = "all" /\ Left = 4
  BY <1>3, Asked DEF Figures
<1>5. Leaves(v)
  BY <1>2, <1>3, AnswerEffect
<1>6. Near(view.projects, OpenProjects) /\ Near(view.total, Cardinality(LiveTasks))
  BY <1>4 DEF ReportInv, OfAll
<1>7. OfAll'
  BY <1>2, <1>4, <1>5, <1>6 DEF ReportInv, OfAll, Leaves, Zero, Near
<1>8. OfProject'
  BY <1>2, <1>4, <1>5 DEF OfProject, Leaves
<1> QED BY <1>2, <1>4, <1>5, <1>7, <1>8 DEF ReportInv, Leaves

\* What counts parts of the live tasks adds up to the total, as far as the total
\* is near to them.
LEMMA PartsOfTotal ==
    ASSUME NEW D, NEW part \in [D -> SUBSET Task],
           \A x, y \in D : x # y => part[x] \cap part[y] = {},
           LiveTasks = UNION {part[x] : x \in D},
           NEW f, f = [x \in D |-> Cardinality(part[x])],
           Near(view.total, Cardinality(LiveTasks))
    PROVE  AddsUp(f, view.total, view.commits)
BY PartsAddUp DEF AddsUp, Near

LEMMA TasksByStatusInv ==
    ASSUME IInv, ReportInv, TasksByStatus
    PROVE  ReportInv'
<1>1. PICK f : f = [st \in Status |-> Cardinality(With(st))]
  OBVIOUS
<1>2. f \in [Status -> Nat]
  BY <1>1, Counted DEF With, LiveTasks
<1>3. PICK v : v = [view EXCEPT !.byStatus = f]
  OBVIOUS
<1>4. /\ v \in Reports /\ v.of = view.of /\ v.todo = view.todo /\ v.total = view.total
      /\ v.projects = view.projects /\ v.completed = view.completed /\ v.byStatus = f
      /\ v.byMember = view.byMember /\ v.namesakes = view.namesakes
      /\ v.byProjectStatus = view.byProjectStatus /\ v.commits = view.commits
  BY <1>2, <1>3 DEF ReportInv, Reports
<1>5. Asks("byStatus") /\ Answered(v)
  BY <1>1, <1>3 DEF TasksByStatus
<1>6. /\ view.of = "project" => Left = 4
      /\ view.of = "all" => Left = 3
      /\ view.of \in {"project", "all"}
  BY <1>5, Asked DEF Figures
<1>7. Leaves(v)
  BY <1>4, <1>5, AnswerEffect
<1>8. AddsUp(f, view.total, view.commits)
  <2>1. PICK part : part = [st \in Status |-> With(st)]
    OBVIOUS
  <2>2. part \in [Status -> SUBSET Task]
    BY <2>1 DEF With, LiveTasks
  <2>3. \A x, y \in Status : x # y => part[x] \cap part[y] = {}
    BY <2>1 DEF With
  <2>4. \A t \in LiveTasks : row[t].status \in Status
    BY DEF LiveTasks, Found, IInv, RowsOK, Stored, NoRow, Abstract!NoRow
  <2>5. LiveTasks = UNION {part[x] : x \in Status}
    BY <2>1, <2>4 DEF With
  <2>6. f = [x \in Status |-> Cardinality(part[x])]
    BY <1>1, <2>1
  <2>7. Near(view.total, Cardinality(LiveTasks))
    BY <1>6 DEF ReportInv, OfProject, OfAll
  <2> QED BY <2>2, <2>3, <2>5, <2>6, <2>7, PartsOfTotal
<1>9. OfProject'
  BY <1>4, <1>6, <1>7, <1>8 DEF ReportInv, OfProject, Near, Leaves
<1>10. OfAll'
  BY <1>4, <1>6, <1>7, <1>8 DEF ReportInv, OfAll, Near, Zero, Leaves
<1> QED BY <1>4, <1>6, <1>7, <1>9, <1>10 DEF ReportInv, Leaves

LEMMA TasksByPriorityInv ==
    ASSUME ReportInv, TasksByPriority
    PROVE  ReportInv'
<1> DEFINE Rated(high) == {t \in LiveTasks : (row[t].title \in Urgent) = high}
<1>1. PICK f : f = [high \in BOOLEAN |-> Cardinality(Rated(high))]
  OBVIOUS
<1>2. f \in [BOOLEAN -> Nat]
  BY <1>1, Counted DEF LiveTasks
<1>3. PICK v : v = [view EXCEPT !.byPriority = f]
  OBVIOUS
<1>4. /\ v \in Reports /\ v.of = view.of /\ v.todo = view.todo /\ v.total = view.total
      /\ v.projects = view.projects /\ v.completed = view.completed /\ v.byPriority = f
      /\ v.byMember = view.byMember /\ v.namesakes = view.namesakes
      /\ v.byStatus = view.byStatus
      /\ v.byProjectStatus = view.byProjectStatus /\ v.commits = view.commits
  BY <1>2, <1>3 DEF ReportInv, Reports
<1>5. Asks("byPriority") /\ Answered(v)
  BY <1>1, <1>3 DEF TasksByPriority
<1>6. /\ view.of = "project" => Left = 3
      /\ view.of = "all" => Left = 2
      /\ view.of \in {"project", "all"}
  BY <1>5, Asked DEF Figures
<1>7. Leaves(v)
  BY <1>4, <1>5, AnswerEffect
<1>8. AddsUp(f, view.total, view.commits)
  <2>1. PICK part : part = [high \in BOOLEAN |-> Rated(high)]
    OBVIOUS
  <2>2. part \in [BOOLEAN -> SUBSET Task]
    BY <2>1 DEF LiveTasks
  <2>3. \A x, y \in BOOLEAN : x # y => part[x] \cap part[y] = {}
    BY <2>1
  <2>4. LiveTasks = UNION {part[x] : x \in BOOLEAN}
    <3>1. part[TRUE] = Rated(TRUE) /\ part[FALSE] = Rated(FALSE)
      BY <2>1
    <3>2. ASSUME NEW t \in LiveTasks PROVE t \in Rated(TRUE) \/ t \in Rated(FALSE)
      <4>1. CASE row[t].title \in Urgent
        <5>1. (row[t].title \in Urgent) = TRUE
          BY <4>1
        <5> QED BY <5>1
      <4>2. CASE row[t].title \notin Urgent
        <5>1. (row[t].title \in Urgent) = FALSE
          BY <4>2
        <5> QED BY <5>1
      <4> QED BY <4>1, <4>2
    <3>3. Rated(TRUE) \cup Rated(FALSE) \subseteq LiveTasks
      OBVIOUS
    <3> QED BY <3>1, <3>2, <3>3
  <2>5. f = [x \in BOOLEAN |-> Cardinality(part[x])]
    BY <1>1, <2>1
  <2>6. Near(view.total, Cardinality(LiveTasks))
    BY <1>6 DEF ReportInv, OfProject, OfAll
  <2> QED BY <2>2, <2>3, <2>4, <2>5, <2>6, PartsOfTotal
<1>9. OfProject'
  BY <1>4, <1>6, <1>7, <1>8 DEF ReportInv, OfProject, Near, Leaves
<1>10. OfAll'
  BY <1>4, <1>6, <1>7, <1>8 DEF ReportInv, OfAll, Near, Zero, Leaves
<1> QED BY <1>4, <1>6, <1>7, <1>9, <1>10 DEF ReportInv, Leaves

LEMMA TasksPerMemberInv ==
    ASSUME ReportInv, TasksPerMember
    PROVE  ReportInv'
<1> DEFINE Named(name, n) == {u \in User : name[u] = n /\ Of(u) # {}}
<1>1. PICK name \in [User -> Name], count \in [Name -> 0..Cardinality(Task)] :
        /\ \A n \in Name : \/ Named(name, n) = {} /\ count[n] = 0
                           \/ \E u \in Named(name, n) : count[n] = Cardinality(Of(u))
        /\ Answered([view EXCEPT !.byMember = count, !.namesakes = ~IsInjective(name)])
        /\ Asks("byMember")
  BY DEF TasksPerMember
<1>2. PICK v : v = [view EXCEPT !.byMember = count, !.namesakes = ~IsInjective(name)]
  OBVIOUS
<1>3. count \in [Name -> Nat] /\ IsInjective(name) \in BOOLEAN
  BY Counted DEF IsInjective
<1>4. /\ v \in Reports /\ v.of = view.of /\ v.todo = view.todo /\ v.total = view.total
      /\ v.projects = view.projects /\ v.completed = view.completed /\ v.byMember = count
      /\ v.namesakes = ~IsInjective(name) /\ v.byStatus = view.byStatus
      /\ v.byPriority = view.byPriority
      /\ v.byProjectStatus = view.byProjectStatus /\ v.commits = view.commits
  BY <1>2, <1>3 DEF ReportInv, Reports
<1>5. Asks("byMember") /\ Answered(v)
  BY <1>1, <1>2
<1>6. view.of = "project" /\ Left = 2
  BY <1>5, Asked DEF Figures
<1>7. Leaves(v)
  BY <1>4, <1>5, AnswerEffect
<1>8. ASSUME IsInjective(name) PROVE AddsToNoMore(count, view.total, view.commits)
  <2>1. PICK part : part = [n \in Name |-> UNION {Of(u) : u \in Named(name, n)}]
    OBVIOUS
  <2>2. part \in [Name -> SUBSET Task]
    BY <2>1 DEF Of, LiveTasks
  <2>3. \A u1, u2 \in User : name[u1] = name[u2] => u1 = u2
    BY <1>8 DEF IsInjective
  <2>4. ASSUME NEW x \in Name, NEW y \in Name, x # y PROVE part[x] \cap part[y] = {}
    BY <2>1, <2>4 DEF Of
  <2>5. ASSUME NEW n \in Name PROVE count[n] = Cardinality(part[n])
    <3>1. CASE Named(name, n) = {} /\ count[n] = 0
      <4>1. part[n] = {}
        BY <2>1, <3>1
      <4> QED BY <3>1, <4>1, FS_EmptySet
    <3>2. CASE \E u \in Named(name, n) : count[n] = Cardinality(Of(u))
      <4>1. PICK u \in Named(name, n) : count[n] = Cardinality(Of(u))
        BY <3>2
      <4>2. Named(name, n) = {u}
        BY <2>3
      <4>3. part[n] = Of(u)
        BY <2>1, <4>2
      <4> QED BY <4>1, <4>3
    <3> QED BY <1>1, <3>1, <3>2
  <2>6. count = [n \in Name |-> Cardinality(part[n])]
    BY <2>5
  <2>7. PICK all : all = UNION {part[n] : n \in Name}
    OBVIOUS
  <2>8. Cardinality(all) \in 0..Cardinality(Task) /\ AddUpTo(count, Cardinality(all))
    BY <2>2, <2>4, <2>6, <2>7, PartsAddUp
  <2>9. all \in SUBSET LiveTasks
    BY <2>1, <2>7 DEF Of
  <2>10. Cardinality(all) <= Cardinality(LiveTasks) /\ Cardinality(LiveTasks) \in Nat
    BY <2>9, Monotone, Counted DEF LiveTasks
  <2>11. Near(view.total, Cardinality(LiveTasks))
    BY <1>6 DEF ReportInv, OfProject
  <2>12. view.total \in Nat /\ view.commits \in Nat
    BY DEF ReportInv, Reports
  <2>13. Cardinality(all) <= view.total + view.commits
    BY <2>8, <2>10, <2>11, <2>12, Counted DEF Near
  <2> QED BY <2>8, <2>13 DEF AddsToNoMore
<1>9. ~v.namesakes => AddsToNoMore(count, view.total, view.commits)
  BY <1>4, <1>8
<1>10. OfProject'
  BY <1>4, <1>6, <1>7, <1>9 DEF ReportInv, OfProject, Near, Leaves
<1>11. OfAll'
  BY <1>4, <1>6, <1>7 DEF OfAll, Leaves
<1> QED BY <1>4, <1>6, <1>7, <1>10, <1>11 DEF ReportInv, Leaves

LEMMA OverdueInv ==
    ASSUME ReportInv, CountOverdue
    PROVE  ReportInv'
<1>1. PICK late : late = Cardinality({t \in Unfinished : row[t].title \in Late})
  OBVIOUS
<1>2. late \in Nat /\ late <= Cardinality(Unfinished)
      /\ Cardinality(Unfinished) <= Cardinality(LiveTasks)
      /\ Cardinality(Unfinished) \in Nat /\ Cardinality(LiveTasks) \in Nat
  BY <1>1, Monotone, Counted DEF Unfinished, LiveTasks
<1>3. PICK v : v = [view EXCEPT !.overdue = late]
  OBVIOUS
<1>4. /\ v \in Reports /\ v.of = view.of /\ v.todo = view.todo /\ v.total = view.total
      /\ v.projects = view.projects /\ v.completed = view.completed /\ v.overdue = late
      /\ v.byMember = view.byMember /\ v.namesakes = view.namesakes
      /\ v.byStatus = view.byStatus /\ v.byPriority = view.byPriority
      /\ v.byProjectStatus = view.byProjectStatus /\ v.commits = view.commits
  BY <1>2, <1>3 DEF ReportInv, Reports
<1>5. Asks("overdue") /\ Answered(v)
  BY <1>1, <1>3 DEF CountOverdue, Unfinished
<1>6. view.of \in {"project", "all"} /\ Left = 1
  BY <1>5, Asked DEF Figures
<1>7. Leaves(v)
  BY <1>4, <1>5, AnswerEffect
<1>8. view.total \in Nat /\ view.commits \in Nat /\ view.completed \in Nat
  BY DEF ReportInv, Reports
<1>9. OfProject'
  <2>1. view.of = "project" => view.completed + late <= view.total + view.commits
    BY <1>2, <1>6, <1>8 DEF ReportInv, OfProject
  <2>2. Left' = 0
    BY <1>6, <1>7 DEF Leaves
  <2>3. /\ view'.of = view.of /\ view'.projects = view.projects
        /\ view'.byProjectStatus = view.byProjectStatus
        /\ view'.byStatus = view.byStatus /\ view'.byPriority = view.byPriority
        /\ view'.byMember = view.byMember /\ view'.namesakes = view.namesakes
        /\ view'.total = view.total /\ view'.commits = view.commits
        /\ view'.completed = view.completed /\ view'.overdue = late
    BY <1>4, <1>7 DEF Leaves
  <2> QED BY <1>6, <2>1, <2>2, <2>3 DEF ReportInv, OfProject
<1>10. OfAll'
  <2>1. view.of = "all" => late <= view.total + view.commits
    BY <1>2, <1>6, <1>8 DEF ReportInv, OfAll, Near
  <2>2. Left' = 0
    BY <1>6, <1>7 DEF Leaves
  <2> QED BY <1>4, <1>6, <1>7, <2>1, <2>2 DEF ReportInv, OfAll, Near, Zero, Leaves
<1> QED BY <1>4, <1>6, <1>7, <1>9, <1>10 DEF ReportInv, Leaves

LEMMA SixFigures ==
    ASSUME NEW S, NEW a \in S, NEW b \in S, NEW c \in S, NEW d \in S, NEW e \in S, NEW f \in S
    PROVE  <<a, b, c, d, e, f>> \in Seq(S) /\ Len(<<a, b, c, d, e, f>>) = 6
OBVIOUS

LEMMA AskInv ==
    ASSUME ReportInv, NEW of \in {"project", "all"}, Ask(of)
    PROVE  ReportInv'
<1>1. PICK v : v = [NoView EXCEPT !.of = of, !.todo = Figures(of)]
  OBVIOUS
<1>2. Figures(of) \in Seq(Figure) /\ Len(Figures(of)) = 6
  <2>1. CASE of = "project"
    <3>1. Figures(of) = <<"total", "completed", "byStatus", "byPriority", "byMember", "overdue">>
      BY <2>1 DEF Figures
    <3> QED BY <3>1, SixFigures DEF Figure
  <2>2. CASE of = "all"
    <3>1. Figures(of) = <<"projects", "total", "byProjectStatus", "byStatus", "byPriority", "overdue">>
      BY <2>2 DEF Figures
    <3> QED BY <3>1, SixFigures DEF Figure
  <2> QED BY <2>1, <2>2
<1>3. view' = v
  BY <1>1 DEF Ask
<1>4. /\ v \in Reports /\ v.of = of /\ v.todo = Figures(of) /\ v.projects = 0
      /\ v.byProjectStatus = 0 /\ v.completed = 0 /\ ~v.namesakes /\ v.byMember = Zero(Name)
  BY <1>1, <1>2 DEF Reports, NoView, Zero
<1>5. Left' = 6
  BY <1>2, <1>3, <1>4 DEF Left
<1>6. OnTrack'
  BY <1>2, <1>3, <1>4, <1>5 DEF OnTrack, Left, Figures
<1>7. OfProject' /\ OfAll'
  BY <1>3, <1>4, <1>5 DEF OfProject, OfAll, Zero
<1> QED BY <1>3, <1>4, <1>6, <1>7 DEF ReportInv

-----------------------------------------------------------------------------
(* The theorem *)

LEMMA ReportInit == DashboardInit => ReportInv
<1> SUFFICES ASSUME DashboardInit PROVE ReportInv
  OBVIOUS
<1>1. view = NoView /\ view.of = "none"
  BY DEF DashboardInit, NoView
<1>2. view \in Reports
  BY <1>1 DEF NoView, Zero, Reports
<1> QED BY <1>1, <1>2 DEF ReportInv, OnTrack, OfProject, OfAll

LEMMA ReportNext ==
    IInv /\ ReportInv /\ [BoardMoves \/ Report]_dashboardVars => ReportInv'
<1> SUFFICES ASSUME IInv, ReportInv, [BoardMoves \/ Report]_dashboardVars PROVE ReportInv'
  OBVIOUS
<1>1. CASE BoardMoves
  BY <1>1, MovesInv
<1>2. CASE BeginAnalytics \/ BeginDashboard
  BY <1>2, AskInv DEF BeginAnalytics, BeginDashboard
<1>3. CASE UNCHANGED dashboardVars
  <2>1. Left' = Left /\ LiveTasks' = LiveTasks /\ Unfinished' = Unfinished
        /\ OpenProjects' = OpenProjects /\ view' = view
    BY <1>3 DEF dashboardVars, vars, Left, LiveTasks, Unfinished, With, Found, OpenProjects
  <2>2. OfProject' /\ OfAll'
    BY <2>1 DEF ReportInv, OfProject, OfAll, Near, Zero
  <2>3. view' \in Reports /\ OnTrack' /\ (view'.of = "none" => view' = NoView')
    BY <2>1 DEF ReportInv, Reports, OnTrack, Left, Figures, NoView, Zero
  <2> QED BY <2>2, <2>3 DEF ReportInv
<1>4. CASE Report
  BY <1>2, <1>4, CountTasksInv, CountProjectsInv, ProjectsByStatusInv, CompletedInv,
     TasksByStatusInv, TasksByPriorityInv, TasksPerMemberInv, OverdueInv DEF Report
<1> QED BY <1>1, <1>3, <1>4

\* The figures of a finished report differ from one another by no more than the
\* changes committed while it was read.
THEOREM SpecFiguresDriftByCommits == DashboardSpec => []FiguresDriftByCommits
<1>1. DashboardInit => IInv /\ ReportInv
  BY InitInv, ReportInit DEF DashboardInit
<1>2. [BoardMoves \/ Report]_dashboardVars => [Next]_vars
  BY DEF BoardMoves, Report, dashboardVars, BeginAnalytics, BeginDashboard, Ask, CountTasks,
         CountProjects, ProjectsByStatus, CompletedCount, TasksByStatus, TasksByPriority,
         TasksPerMember, CountOverdue, Answered
<1>3. ReportInv => FiguresDriftByCommits
  <2> SUFFICES ASSUME ReportInv, Done PROVE FiguresDriftByCommits
    BY DEF FiguresDriftByCommits
  <2>1. view.of \in {"project", "all"} /\ Left = 0 /\ view.total \in Nat
        /\ view.commits \in Nat /\ view.overdue \in Nat /\ view.completed \in Nat
    BY DEF Done, Reading, Left, ReportInv, Reports
  <2>2. AddsUp(view.byStatus, view.total, view.commits)
        /\ AddsUp(view.byPriority, view.total, view.commits)
    BY <2>1 DEF ReportInv, OfProject, OfAll
  <2>3. Near(view.byProjectStatus, view.projects)
    BY <2>1 DEF ReportInv, OfProject, OfAll, Near
  <2>4. view.completed + view.overdue <= view.total + view.commits
    BY <2>1 DEF ReportInv, OfProject, OfAll
  <2>5. ~view.namesakes => AddsToNoMore(view.byMember, view.total, view.commits)
    <3>1. CASE view.of = "project"
      BY <2>1, <3>1 DEF ReportInv, OfProject
    <3>2. CASE view.of = "all"
      <4>1. PICK f : f = Zero(Name)
        OBVIOUS
      <4>2. PICK part : part = [n \in Name |-> {}]
        OBVIOUS
      <4>3. f = [n \in Name |-> Cardinality(part[n])]
        BY <4>1, <4>2, FS_EmptySet DEF Zero
      <4>4. part \in [Name -> SUBSET Task] /\ UNION {part[n] : n \in Name} = {}
        BY <4>2
      <4>5. Cardinality({}) \in 0..Cardinality(Task) /\ AddUpTo(f, Cardinality({}))
        BY <4>2, <4>3, <4>4, PartsAddUp
      <4>6. 0 \in 0..Cardinality(Task) /\ AddUpTo(f, 0) /\ 0 <= view.total + view.commits
        BY <2>1, <4>5, FS_EmptySet
      <4>7. AddsToNoMore(f, view.total, view.commits)
        BY <4>6 DEF AddsToNoMore
      <4>8. view.byMember = f
        BY <3>2, <4>1 DEF ReportInv, OfAll
      <4> QED BY <4>7, <4>8
    <3> QED BY <2>1, <3>1, <3>2
  <2> QED BY <2>2, <2>3, <2>4, <2>5 DEF FiguresDriftByCommits, AddsUp, AddsToNoMore, Near
<1>4. DashboardSpec => [](IInv /\ ReportInv)
  BY <1>1, <1>2, NextInv, ReportNext, PTL DEF DashboardSpec
<1> QED BY <1>3, <1>4, PTL

=============================================================================
