---------------------------- MODULE MCDashboard ----------------------------
(* Dashboard with symmetry and bounds.  A statement of a report reads        *)
(* committed rows of tasks only: it may as well run right after the commit   *)
(* before it, and does not see who is a member.  So reports are read between *)
(* the requests of the board, among all users, and end the behaviour.        *)
(* Commits fall between the figures of tasks in the analytics, which do not  *)
(* see that the project is deleted, and that falls between the figures of    *)
(* projects in the dashboard, which asks for those of tasks the same way.    *)
EXTENDS Dashboard, TLC
LOCAL INSTANCE FiniteSetsExt

CONSTANT MaxCommits   \* bound on the commits during a report

Symmetry ==
    Permutations(Task) \cup Permutations(User) \cup Permutations(Name)

Sum(f) == MapThenSumSet(LAMBDA x : f[x], DOMAIN f)

\* Figures are compared by their sums, no step reads a notification, and nothing
\* follows a report.
Summed == [view EXCEPT !.byStatus = Sum(@), !.byPriority = Sum(@), !.byMember = Sum(@)]

Relevant == IF Done THEN <<Summed>> ELSE <<row, members, closed, req, Summed>>

Quiet == \A r \in Req : req[r] = Idle

MCNext ==
    \/ /\ BoardMoves /\ ~Done
       /\ Reading => view.commits < MaxCommits /\ UNCHANGED members
       /\ Reading => IF view.of = "project" THEN UNCHANGED closed
                  ELSE UNCHANGED <<row, req>>
    \/ Quiet /\ members = User /\ Report

MCSpec == DashboardInit /\ [][MCNext]_dashboardVars

=============================================================================
