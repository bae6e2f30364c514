----------------------------- MODULE Dashboard -----------------------------
(***************************************************************************)
(* The reports of app/modules/analytics, read while the board works: the   *)
(* analytics of a project and the administrators' dashboard over all.  A   *)
(* report is put together from one statement per figure, in one            *)
(* transaction that is READ COMMITTED: every statement has a snapshot of   *)
(* its own, and requests of the board commit in between.                   *)
(*                                                                         *)
(* There is one project here.  A title stands for the columns an edit can  *)
(* change, so for the due date and the priority too: Late are those with a *)
(* date that has passed, Urgent those with a high priority.  The           *)
(* administrator of the dashboard need not be a User of the board.  Left   *)
(* out: the number of users, who do not change here, and the lists of      *)
(* recent and upcoming rows.                                               *)
(***************************************************************************)
EXTENDS Board, Functions, Sequences

CONSTANTS
    Name,   \* full names, which users may share
    Late, Urgent

ASSUME LateAssumption == Late \cup Urgent \subseteq Title

\* The figures count rows of a table.
ASSUME TaskAssumption == IsFiniteSet(Task)

VARIABLE view   \* a report in the making

dashboardVars == <<vars, view>>

-----------------------------------------------------------------------------

\* The figures of either report, in the order they are asked for.
Figures(of) ==
    IF of = "project"
    THEN <<"total", "completed", "byStatus", "byPriority", "byMember", "overdue">>
    ELSE <<"projects", "total", "byProjectStatus", "byStatus", "byPriority", "overdue">>

Zero(S) == [x \in S |-> 0]

NoView == [of |-> "none", todo |-> <<>>, projects |-> 0, total |-> 0, completed |-> 0,
           byProjectStatus |-> 0, byStatus |-> Zero(Status), byPriority |-> Zero(BOOLEAN),
           byMember |-> Zero(Name), overdue |-> 0,
           namesakes |-> FALSE,   \* history: two of the users have one name
           commits |-> 0]         \* history: changes counted since the first statement

Reading == view.todo # <<>>

Done == view.of # "none" /\ ~Reading

Asks(figure) == Reading /\ Head(view.todo) = figure

Answered(figures) == view' = [figures EXCEPT !.todo = Tail(@)] /\ UNCHANGED vars

LiveTasks == {t \in Task : Found(t)}

\* Mutant: a query forgets the soft-delete filter.
WithDeleted(status) == {t \in Task : row[t].version > 0 /\ row[t].status = status}

With(status) == {t \in LiveTasks : row[t].status = status}

\* Tasks of a user; those of a deleted user are counted too.
Of(u) == {t \in LiveTasks : row[t].assignee = u}

\* require_project_view: an administrator or a member, and the project exists.
MayView == ~closed /\ Admin \cup members # {}

Ask(of) ==
    /\ view.of = "none"
    /\ view' = [NoView EXCEPT !.of = of, !.todo = Figures(of)] /\ UNCHANGED vars

BeginAnalytics == MayView /\ Ask("project")

BeginDashboard == Ask("all")

\* Also after the project's deletion, which leaves its tasks as they are.
CountTasks ==
    /\ Asks("total")
    /\ Answered([view EXCEPT !.total = Cardinality(LiveTasks)])

CountProjects ==
    /\ Asks("projects")
    /\ Answered([view EXCEPT !.projects = IF closed THEN 0 ELSE 1])

\* The sum of the figures; they are of one project.
ProjectsByStatus ==
    /\ Asks("byProjectStatus")
    /\ Answered([view EXCEPT !.byProjectStatus = IF closed THEN 0 ELSE 1])

CompletedCount ==
    /\ Asks("completed")
    /\ Answered([view EXCEPT !.completed = Cardinality(With("done"))])

TasksByStatus ==
    /\ Asks("byStatus")
    /\ Answered([view EXCEPT !.byStatus = [s \in Status |-> Cardinality(With(s))]])

TasksByPriority ==
    /\ Asks("byPriority")
    /\ Answered([view EXCEPT !.byPriority =
           [high \in BOOLEAN |-> Cardinality({t \in LiveTasks : (row[t].title \in Urgent) = high})]])

\* A dict from names to counts: of users with one name, the last row stays.
TasksPerMember ==
    /\ Asks("byMember")
    /\ \E name \in [User -> Name] :
        LET named(n) == {u \in User : name[u] = n /\ Of(u) # {}} IN
        \E count \in [Name -> 0..Cardinality(Task)] :
            /\ \A n \in Name :
                \/ named(n) = {} /\ count[n] = 0
                \/ \E u \in named(n) : count[n] = Cardinality(Of(u))
            /\ Answered([view EXCEPT !.byMember = count, !.namesakes = ~IsInjective(name)])

CountOverdue ==
    /\ Asks("overdue")
    /\ Answered([view EXCEPT
           !.overdue = Cardinality({t \in LiveTasks \ With("done") : row[t].title \in Late})])

\* Requests of the board, and the other commits it lets in.
BoardMoves ==
    /\ Next
    /\ view' = [view EXCEPT !.commits = IF Reading /\ <<row, closed>>' # <<row, closed>> THEN @ + 1 ELSE @]

Report ==
    \/ BeginAnalytics \/ BeginDashboard
    \/ CountTasks \/ CountProjects \/ ProjectsByStatus \/ CompletedCount
    \/ TasksByStatus \/ TasksByPriority \/ TasksPerMember \/ CountOverdue

DashboardInit == Init /\ view = NoView

DashboardSpec == DashboardInit /\ [][BoardMoves \/ Report]_dashboardVars

-----------------------------------------------------------------------------
(* Properties *)

\* The figures of f count disjoint sets of tasks, n tasks together.
AddUpTo(f, n) ==
    \E part \in [DOMAIN f -> SUBSET Task] :
        /\ \A x, y \in DOMAIN f : x # y => part[x] \cap part[y] = {}
        /\ \A x \in DOMAIN f : f[x] = Cardinality(part[x])
        /\ n = Cardinality(UNION {part[x] : x \in DOMAIN f})

Near(n, total) == n <= total + view.commits /\ total <= n + view.commits

\* The figures of a report belong together except for the changes committed while
\* it was read: none of them makes a figure off by more than one.  A report nobody
\* disturbs shows at most 100 percent, its columns, its priorities and its projects
\* add up to their totals, its overdue and completed tasks to no more than the total,
\* and so do its members' tasks if no two of them share a name.
FiguresDriftByCommits ==
    LET Sums(f) == {n \in 0..Cardinality(Task) : AddUpTo(f, n)} IN
    Done =>
        /\ \E n \in Sums(view.byStatus) : Near(n, view.total)
        /\ \E n \in Sums(view.byPriority) : Near(n, view.total)
        /\ Near(view.byProjectStatus, view.projects)
        /\ view.completed + view.overdue <= view.total + view.commits
        /\ ~view.namesakes => \E n \in Sums(view.byMember) : n <= view.total + view.commits

=============================================================================
