------------------------------ MODULE Startup ------------------------------
(***************************************************************************)
(* How the program comes up: app/main.py's lifespan, alembic and its one   *)
(* migration, scripts/seed_admin.py, and the commands the image and the    *)
(* guides run.                                                             *)
(*                                                                         *)
(* A process is a pod, which starts again whenever it ends, or the operator*)
(* (or release job), who runs alembic by hand.  A process runs a list of   *)
(* commands, each only if the one before it succeeded (the && of the image)*)
(* and each building Settings anew.                                        *)
(*                                                                         *)
(* PostgreSQL runs a migration in one transaction, whose tables nobody     *)
(* else sees or creates before it ends; SQLite commits every statement.    *)
(* A table stands here with its indexes.                                   *)
(*                                                                         *)
(* Left out: logging, CORS and the routers, which keep no state.           *)
(***************************************************************************)
EXTENDS Naturals, Sequences, FiniteSets

CONSTANTS
    Pod, Operator,
    Urls,        \* kinds of DATABASE_URL
    Plans,       \* what a pod runs: the image's CMD, the guides' steps, the dev compose
    Jobs,        \* what the operator may run: "none", "release" or "downgrade"
    Faults,      \* which faults of Settings occur: "none", "weak", "backend"
    MaxFault     \* bound on crashes, stops and outages

ASSUME ConstantsAssumption ==
    /\ Operator \notin Pod /\ MaxFault \in Nat
    /\ Urls \subseteq {"postgresql", "sqlite"}
    /\ Plans \subseteq {"image", "guide", "serve"}
    /\ Jobs \subseteq {"none", "release", "downgrade"}
    /\ Faults \subseteq {"none", "weak", "backend"}

VARIABLES
    setting,   \* how this deployment is set up; never changes
    table,     \* committed tables
    version,   \* row of alembic_version; "none" while the table does not exist
    admin,     \* the seeded account exists
    up,        \* the database answers
    proc,      \* the processes
    faults,    \* faults so far
    undone     \* history: a downgrade has taken effect

db == <<table, version, admin>>
vars == <<setting, db, up, proc, faults, undone>>

Proc == Pod \cup {Operator}

-----------------------------------------------------------------------------
(* The migration *)

\* Mutant: tables in alphabetical order.
TableAlphabet == <<"comments", "file_attachments", "notifications", "project_members",
                   "projects", "refresh_tokens", "tasks", "users">>

\* In the order upgrade() creates them; downgrade() drops them in reverse.
TableOrder == <<"users", "notifications", "projects", "refresh_tokens",
                "project_members", "tasks", "comments", "file_attachments">>

Count == Len(TableOrder)
Upto(n) == {TableOrder[i] : i \in 1..n}
AllTables == Upto(Count)

\* Targets of a table's foreign keys.
References(t) ==
    CASE t \in {"notifications", "projects", "refresh_tokens"} -> {"users"}
      [] t = "project_members" -> {"projects", "users"}
      [] t = "tasks" -> {"users", "projects"}
      [] t \in {"comments", "file_attachments"} -> {"tasks", "users"}
      [] OTHER -> {}

-----------------------------------------------------------------------------
(* Types *)

Setting == [url : Urls, plan : Plans, job : Jobs, production : BOOLEAN,
            fault : Faults, onStartup : BOOLEAN]

Command == {"upgrade", "downgrade", "seed", "serve"}

Place == {"ended", "settings", "heads", "ensure", "create", "drop", "look", "insert",
          "wire", "serving"}

TypeOK ==
    /\ setting \in Setting
    /\ table \subseteq AllTables
    /\ version \in {"none", "base", "0001"}
    /\ admin \in BOOLEAN /\ up \in BOOLEAN /\ undone \in BOOLEAN
    /\ proc \in [Proc -> [todo : Seq(Command), at : Place, n : 0..Count]]
    /\ faults \in 0..MaxFault

Ended == [todo |-> <<>>, at |-> "ended", n |-> 0]

\* A deployment starts with an empty database or with one that was in use.
Init ==
    /\ setting \in Setting
    /\ \/ table = {} /\ version = "none" /\ admin = FALSE
       \/ table = AllTables /\ version = "0001" /\ admin = TRUE
    /\ up = TRUE /\ undone = FALSE /\ faults = 0
    /\ proc = [p \in Proc |-> Ended]

-----------------------------------------------------------------------------
(* Processes *)

Becomes(p, state) == proc' = [proc EXCEPT ![p] = state] /\ UNCHANGED <<setting, up, faults>>

Goto(p, state) == Becomes(p, state) /\ UNCHANGED <<db, undone>>

\* An exception: the command fails and the rest is not run.
Fail(p) == Goto(p, Ended)

At(p, place) == proc[p].at = place

Doing(p) == Head(proc[p].todo)

\* The command has succeeded: uvicorn is the last of its list.
Following(p) ==
    IF Len(proc[p].todo) = 1 THEN Ended
    ELSE [todo |-> Tail(proc[p].todo), at |-> "settings", n |-> 0]

\* A migration is the whole of alembic's command, or the first part of the lifespan.
Migrated(p) == IF Doing(p) = "serve" THEN [proc[p] EXCEPT !.at = "wire"] ELSE Following(p)

\* Mutant: the application first.
CommandsSwapped == IF setting.plan = "serve" THEN <<"serve">> ELSE <<"serve", "seed">>

Commands ==
    CASE setting.plan = "image" -> <<"seed", "serve">>
      [] setting.plan = "guide" -> <<"upgrade", "seed", "serve">>
      [] OTHER -> <<"serve">>

\* restart: unless-stopped.
Start(p) ==
    /\ p \in Pod /\ At(p, "ended")
    /\ Goto(p, [todo |-> Commands, at |-> "settings", n |-> 0])

OperatorRuns(command) ==
    /\ At(Operator, "ended")
    /\ Goto(Operator, [todo |-> <<command>>, at |-> "settings", n |-> 0])

\* A release job is repeated until it has succeeded.
Release == setting.job = "release" /\ version # "0001" /\ OperatorRuns("upgrade")

Downgrade == setting.job = "downgrade" /\ ~undone /\ OperatorRuns("downgrade")

\* Settings._normalize_and_validate.
Valid ==
    setting.production => setting.fault # "weak" /\ setting.url # "sqlite"

First(p) ==
    CASE Doing(p) = "seed" -> "look"
      [] Doing(p) = "serve" /\ ~setting.onStartup -> "wire"
      [] OTHER -> "heads"

LoadSettings(p) ==
    /\ At(p, "settings")
    /\ \/ ~Valid /\ Fail(p)
       \/ Valid /\ Goto(p, [proc[p] EXCEPT !.at = First(p)])

-----------------------------------------------------------------------------
(* alembic *)

\* Every spelling of a PostgreSQL URL is made one of asyncpg.
Transactional == setting.url = "postgresql"

\* Somebody else is inside a transaction that has created or dropped something.
Migrating(q) == At(q, "create") \/ (At(q, "drop") /\ proc[q].n < Count)

Locked(p) == Transactional /\ \E q \in Proc \ {p} : Migrating(q)

\* Mutant: the way down starts past the last table.
HeadsTooFar(p) ==
    /\ At(p, "heads") /\ up /\ Doing(p) = "downgrade" /\ version = "0001"
    /\ Goto(p, [proc[p] EXCEPT !.at = "drop", !.n = Count + 1])

ReadHeads(p) ==
    /\ At(p, "heads") /\ up
    /\ LET wanted == IF Doing(p) = "downgrade" THEN {"none", "base"} ELSE {"0001"} IN
       \/ version \in wanted /\ Goto(p, Migrated(p))
       \/ version \notin wanted
          /\ Goto(p, IF Doing(p) = "downgrade"
                     THEN [proc[p] EXCEPT !.at = "drop", !.n = Count]
                     ELSE [proc[p] EXCEPT !.at = "ensure"])

\* alembic_version, if it does not exist.
EnsureVersionTable(p) ==
    /\ At(p, "ensure") /\ up /\ ~Locked(p)
    /\ version' = IF version = "none" /\ ~Transactional THEN "base" ELSE version
    /\ Becomes(p, [proc[p] EXCEPT !.at = "create"]) /\ UNCHANGED <<table, admin, undone>>

\* Mutant: PostgreSQL, too, commits after every statement.
CreatesAtOnce == TRUE

CreatesCommitted == ~Transactional

\* op.create_table; somebody else may have committed it since the heads were read.
CreateTable(p) ==
    LET next == TableOrder[proc[p].n + 1] IN
    /\ At(p, "create") /\ up /\ proc[p].n < Count
    /\ \/ next \in table /\ Fail(p)
       \/ /\ next \notin table
          /\ table' = IF CreatesCommitted THEN table \cup {next} ELSE table
          /\ Becomes(p, [proc[p] EXCEPT !.n = @ + 1]) /\ UNCHANGED <<version, admin, undone>>

\* INSERT INTO alembic_version, and the commit.
Stamp(p) ==
    /\ At(p, "create") /\ up /\ proc[p].n = Count
    /\ version' = "0001"
    /\ table' = table \cup (IF Transactional THEN AllTables ELSE {})
    /\ Becomes(p, Migrated(p)) /\ UNCHANGED <<admin, undone>>

\* op.drop_table, which waits for a transaction that has dropped it already.
DropTable(p) ==
    LET next == TableOrder[proc[p].n] IN
    /\ At(p, "drop") /\ up /\ proc[p].n > 0 /\ ~Locked(p)
    /\ \/ next \notin table /\ Fail(p)
       \/ /\ next \in table
          /\ \/ Transactional /\ UNCHANGED <<table, admin, undone>>
             \/ /\ ~Transactional /\ table' = table \ {next} /\ undone' = TRUE
                /\ admin' = (admin /\ next # "users")
          /\ Becomes(p, [proc[p] EXCEPT !.n = @ - 1]) /\ UNCHANGED version

Unstamp(p) ==
    /\ At(p, "drop") /\ up /\ proc[p].n = 0
    /\ version' = "base" /\ undone' = TRUE
    /\ \/ Transactional /\ table' = {} /\ admin' = FALSE
       \/ ~Transactional /\ UNCHANGED <<table, admin>>
    /\ Becomes(p, Migrated(p))

-----------------------------------------------------------------------------
(* scripts/seed_admin.py *)

\* users is being dropped: its readers and writers wait.
UsersHeld(p) == Transactional /\ \E q \in Proc \ {p} : At(q, "drop") /\ proc[q].n = 0

\* Mutant: an administrator who is there already counts as a failure.
SeedStrict(p) ==
    /\ At(p, "look") /\ up /\ ~UsersHeld(p)
    /\ \/ ("users" \notin table \/ admin) /\ Fail(p)
       \/ "users" \in table /\ ~admin /\ Goto(p, [proc[p] EXCEPT !.at = "insert"])

SeedLook(p) ==
    /\ At(p, "look") /\ up /\ ~UsersHeld(p)
    /\ \/ "users" \notin table /\ Fail(p)
       \/ "users" \in table /\ admin /\ Goto(p, Following(p))
       \/ "users" \in table /\ ~admin /\ Goto(p, [proc[p] EXCEPT !.at = "insert"])

\* After the password was hashed; the unique index refuses a second row.
SeedInsert(p) ==
    /\ At(p, "insert") /\ up /\ ~UsersHeld(p)
    /\ \/ ("users" \notin table \/ admin) /\ Fail(p)
       \/ /\ "users" \in table /\ ~admin
          /\ admin' = TRUE /\ Becomes(p, Following(p)) /\ UNCHANGED <<table, version, undone>>

-----------------------------------------------------------------------------
(* The rest of the lifespan *)

\* get_storage, and likewise get_cache and get_queue, know the name they are given.
Buildable == setting.fault # "backend"

\* Engine, storage, cache, queue and event bus.
Wire(p) ==
    /\ At(p, "wire")
    /\ \/ ~Buildable /\ Fail(p)
       \/ Buildable /\ Goto(p, [proc[p] EXCEPT !.at = "serving"])

\* The answer of /health/ready.
Ready(p) == At(p, "serving") /\ up

-----------------------------------------------------------------------------
(* Faults *)

Fault == faults < MaxFault /\ faults' = faults + 1

\* A process dies or is stopped; its transaction is rolled back.
Crash(p) ==
    /\ Fault /\ ~At(p, "ended")
    /\ proc' = [proc EXCEPT ![p] = Ended] /\ UNCHANGED <<setting, db, up, undone>>

Outage == Fault /\ up /\ up' = FALSE /\ UNCHANGED <<setting, db, proc, undone>>

Recover == ~up /\ up' = TRUE /\ UNCHANGED <<setting, db, proc, faults, undone>>

\* A statement, or the connection it was to go through, fails.
Disconnected(p) ==
    /\ ~up /\ proc[p].at \in {"heads", "ensure", "create", "drop", "look", "insert"}
    /\ Fail(p)

Step(p) ==
    \/ Start(p) \/ LoadSettings(p)
    \/ ReadHeads(p) \/ EnsureVersionTable(p) \/ CreateTable(p) \/ Stamp(p)
    \/ DropTable(p) \/ Unstamp(p)
    \/ SeedLook(p) \/ SeedInsert(p)
    \/ Wire(p) \/ Disconnected(p)

Next ==
    \/ \E p \in Proc : Step(p) \/ Crash(p)
    \/ Release \/ Downgrade
    \/ Outage \/ Recover

Spec == Init /\ [][Next]_vars

\* Processes are scheduled, ended pods and jobs are started again, a database comes back.
Fairness ==
    /\ \A p \in Proc : WF_vars(Step(p))
    /\ WF_vars(Release) /\ WF_vars(Recover)

FairSpec == Spec /\ Fairness

-----------------------------------------------------------------------------
(* Properties *)

\* On PostgreSQL the schema is there or not, with its version, whoever migrates at
\* the same time and whenever a process dies.
SchemaIsWhole ==
    Transactional => \/ table = AllTables /\ version = "0001"
                     \/ table = {} /\ version # "0001" /\ ~admin

\* What a process sees inside its migration.
Seen(p) ==
    CASE Transactional /\ At(p, "create") -> table \cup Upto(proc[p].n)
      [] Transactional /\ At(p, "drop") -> Upto(proc[p].n)
      [] OTHER -> table

\* No table stands without those its foreign keys refer to, at any step up or down, in
\* either database: each statement of the migration can be executed in its turn.
ReferencesStand ==
    \A p \in Proc : \A t \in Seen(p) : References(t) \subseteq Seen(p)

\* A pod that says it is ready has what it needs, although the probe asks for no
\* table: the schema, if nobody took it down again, and an administrator if its
\* command seeds one.  Not so where a plan neither migrates nor seeds.
ReadyIsUsable ==
    \A p \in Pod : Ready(p) /\ Transactional /\ ~undone =>
        /\ setting.plan # "serve" \/ setting.onStartup => table = AllTables
        /\ setting.plan # "serve" => admin

\* The deployments the guides describe: valid settings, and somebody who migrates
\* before a pod seeds.  SQLite only while nothing dies, for nothing repairs a
\* migration cut short.
Deployable ==
    /\ Valid /\ Buildable /\ setting.job # "downgrade"
    /\ setting.job = "release" \/ setting.plan = "guide" \/ version = "0001"
       \/ (setting.plan = "serve" /\ setting.onStartup)

\* Every pod of such a deployment comes to serve, however many migrate and seed at
\* once, through crashes and outages.
EveryPodServes ==
    Deployable /\ (Transactional \/ [](faults = 0)) => \A p \in Pod : <>At(p, "serving")

\* "Migrations run automatically at startup": the image's own command brings up a
\* pod, on an empty database too.
ImageComesUp ==
    Valid /\ Buildable /\ setting.onStartup /\ setting.plan = "image" =>
        \A p \in Pod : <>At(p, "serving")

=============================================================================
