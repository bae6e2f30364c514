---------------------------- MODULE StartupProofs ----------------------------
(***************************************************************************)
(* What holds of the start-up for every number of pods and every number of *)
(* crashes and outages.  The invariant says where in which command a       *)
(* process can be and what a pod has behind it by then.  For SQLite, which *)
(* commits statement by statement, it says that the tables are always the  *)
(* first so many in the order of the migration, that one process at a time *)
(* is in the middle of them, and that it knows how many there are.         *)
(***************************************************************************)
EXTENDS Startup, TLAPS

PodTodos == {<<>>, <<"serve">>, <<"seed", "serve">>, <<"upgrade", "seed", "serve">>}

JobTodos == {<<>>, <<"upgrade">>, <<"downgrade">>}

Task(s) == Head(s.todo)

\* What a process may have to do.
Shape(p, s) ==
    /\ s \in [todo : PodTodos \cup JobTodos, at : Place, n : 0..Count]
    /\ s.at = "ended" <=> s.todo = <<>>
    /\ p \in Pod => s.todo \in PodTodos
    /\ p = Operator => s.todo \in JobTodos
    /\ p \in Pod /\ setting.plan = "serve" => s.todo \in {<<>>, <<"serve">>}

\* Where in which command it may be.
Standing(s) ==
    /\ s.at = "heads" => Task(s) \in {"upgrade", "downgrade", "serve"}
    /\ s.at \in {"ensure", "create"} => Task(s) \in {"upgrade", "serve"}
    /\ s.at \in {"heads", "ensure", "create"} /\ Task(s) = "serve" => setting.onStartup
    /\ s.at = "drop" => Task(s) = "downgrade"
    /\ s.at \in {"look", "insert"} => Task(s) = "seed"
    /\ s.at \in {"wire", "serving"} => Task(s) = "serve"
    /\ s.at \in {"settings", "heads", "ensure"} => s.n = 0

\* What a pod has behind it once it runs the application.
Prepared(p, s) ==
    p \in Pod /\ Transactional /\ ~undone /\ s.at # "ended" /\ Task(s) = "serve" =>
        /\ setting.plan # "serve" => admin
        /\ setting.onStartup /\ s.at \in {"wire", "serving"} => table = AllTables

ProcOK(p, s) == Shape(p, s) /\ Standing(s) /\ Prepared(p, s)

\* In the middle of the tables, upwards or downwards.
Creating(s) == s.at = "create" /\ s.n > 0
Dropping(s) == s.at = "drop" /\ s.n > 0
Amid(s) == Creating(s) \/ Dropping(s)

\* SQLite: a prefix of the tables, of which one process at most is in the middle.
Prefixes ==
    ~Transactional =>
        /\ \E m \in 0..Count : table = Upto(m)
        /\ \A p \in Proc : Amid(proc[p]) => table = Upto(proc[p].n)
        /\ \A p, q \in Proc : Amid(proc[p]) /\ Amid(proc[q]) => p = q
        /\ version = "0001" /\ ~undone =>
             table = AllTables /\ \A p \in Proc : ~Creating(proc[p])
        /\ undone /\ proc[Operator].todo = <<"downgrade">> => At(Operator, "drop")

StateOK ==
    /\ setting \in Setting /\ table \subseteq AllTables
    /\ version \in {"none", "base", "0001"}
    /\ admin \in BOOLEAN /\ up \in BOOLEAN /\ undone \in BOOLEAN
    /\ faults \in 0..MaxFault
    /\ proc = [p \in Proc |-> proc[p]]

IInv ==
    /\ StateOK /\ SchemaIsWhole /\ Prefixes
    /\ \A p \in Proc : ProcOK(p, proc[p])

-----------------------------------------------------------------------------
(* The order of the tables *)

LEMMA EightTables == Count = 8
BY DEF Count, TableOrder

\* No table is created twice.
LEMMA TablesDiffer ==
    ASSUME NEW i \in 1..8, NEW j \in 1..8, i # j
    PROVE  TableOrder[i] # TableOrder[j]
BY DEF TableOrder

LEMMA UptoMember ==
    ASSUME NEW n \in 0..8, NEW i \in 1..8
    PROVE  TableOrder[i] \in Upto(n) <=> i <= n
<1>1. ASSUME i <= n PROVE TableOrder[i] \in Upto(n)
  BY <1>1 DEF Upto
<1>2. ASSUME TableOrder[i] \in Upto(n) PROVE i <= n
  <2>1. PICK j \in 1..n : TableOrder[i] = TableOrder[j]
    BY <1>2 DEF Upto
  <2> QED BY <2>1, TablesDiffer
<1> QED BY <1>1, <1>2

\* Each statement of upgrade() adds the next table, each of downgrade() drops the last.
LEMMA UptoGrows ==
    /\ Upto(0) = {}
    /\ \A n \in 0..7 : /\ Upto(n + 1) = Upto(n) \cup {TableOrder[n + 1]}
                       /\ TableOrder[n + 1] \notin Upto(n)
                       /\ Upto(n + 1) \ {TableOrder[n + 1]} = Upto(n)
    /\ \A n \in 0..8 : /\ Upto(n) \subseteq AllTables
                       /\ "users" \in Upto(n) <=> n > 0
<1>1. Upto(0) = {}
  BY DEF Upto
<1>2. ASSUME NEW n \in 0..7
      PROVE  /\ Upto(n + 1) = Upto(n) \cup {TableOrder[n + 1]}
             /\ TableOrder[n + 1] \notin Upto(n)
             /\ Upto(n + 1) \ {TableOrder[n + 1]} = Upto(n)
  <2>1. 1..(n + 1) = 1..n \cup {n + 1}
    OBVIOUS
  <2>2. Upto(n + 1) = Upto(n) \cup {TableOrder[n + 1]}
    BY <2>1 DEF Upto
  <2>3. TableOrder[n + 1] \notin Upto(n)
    BY UptoMember
  <2> QED BY <2>2, <2>3
<1>3. ASSUME NEW n \in 0..8
      PROVE  Upto(n) \subseteq AllTables /\ ("users" \in Upto(n) <=> n > 0)
  <2>1. Upto(n) \subseteq AllTables
    BY EightTables DEF Upto, AllTables
  <2>2. TableOrder[1] = "users"
    BY DEF TableOrder
  <2>3. TableOrder[1] \in Upto(n) <=> 1 <= n
    BY UptoMember
  <2> QED BY <2>1, <2>2, <2>3
<1> QED BY <1>1, <1>2, <1>3

\* The order respects the foreign keys.
LEMMA UptoClosed ==
    ASSUME NEW n \in 0..8, NEW t \in Upto(n)
    PROVE  References(t) \subseteq Upto(n)
<1>1. PICK i \in 1..8 : i <= n /\ t = TableOrder[i]
  BY DEF Upto
<1>2. /\ TableOrder[1] = "users" /\ TableOrder[3] = "projects" /\ TableOrder[6] = "tasks"
      /\ TableOrder[2] = "notifications" /\ TableOrder[4] = "refresh_tokens"
      /\ TableOrder[5] = "project_members" /\ TableOrder[7] = "comments"
      /\ TableOrder[8] = "file_attachments"
  BY DEF TableOrder
<1>3. /\ 1 <= n => "users" \in Upto(n)
      /\ 3 <= n => "projects" \in Upto(n)
      /\ 6 <= n => "tasks" \in Upto(n)
  BY <1>2, UptoMember
<1>4. CASE i = 1
  BY <1>1, <1>2, <1>4 DEF References
<1>5. CASE i \in {2, 3, 4}
  <2>1. References(t) = {"users"}
    BY <1>1, <1>2, <1>5 DEF References
  <2> QED BY <1>1, <1>3, <1>5, <2>1
<1>6. CASE i = 5
  <2>1. References(t) = {"projects", "users"}
    BY <1>1, <1>2, <1>6 DEF References
  <2> QED BY <1>1, <1>3, <1>6, <2>1
<1>7. CASE i = 6
  <2>1. References(t) = {"users", "projects"}
    BY <1>1, <1>2, <1>7 DEF References
  <2> QED BY <1>1, <1>3, <1>7, <2>1
<1>8. CASE i \in {7, 8}
  <2>1. References(t) = {"tasks", "users"}
    BY <1>1, <1>2, <1>8 DEF References
  <2> QED BY <1>1, <1>3, <1>8, <2>1
<1> QED BY <1>4, <1>5, <1>6, <1>7, <1>8

-----------------------------------------------------------------------------
(* Lists of commands *)

LEMMA TodoLists ==
    ASSUME NEW todo \in PodTodos \cup JobTodos, todo # <<>>
    PROVE  /\ Head(todo) \in Command /\ todo \in Seq(Command)
           /\ Len(todo) = 1 <=> Tail(todo) = <<>>
           /\ Tail(todo) \in {<<>>, <<"serve">>, <<"seed", "serve">>}
           /\ todo \in JobTodos \cup {<<"serve">>} => Len(todo) = 1
           /\ todo \in JobTodos /\ Head(todo) = "downgrade" => todo = <<"downgrade">>
           /\ todo \in PodTodos => Head(todo) # "downgrade"
           /\ Head(todo) = "serve" => Len(todo) = 1
           /\ Len(todo) # 1 /\ Head(todo) = "seed" => Tail(todo) = <<"serve">>
           /\ Len(todo) # 1 /\ Head(todo) # "seed" => Tail(todo) = <<"seed", "serve">>
           /\ Len(todo) # 1 => Head(Tail(todo)) \in {"serve", "seed"}
<1>1. CASE todo = <<"serve">>
  BY <1>1 DEF Command, JobTodos, PodTodos
<1>2. CASE todo = <<"seed", "serve">>
  BY <1>2 DEF Command, JobTodos, PodTodos
<1>3. CASE todo = <<"upgrade", "seed", "serve">>
  BY <1>3 DEF Command, JobTodos, PodTodos
<1>4. CASE todo = <<"upgrade">>
  BY <1>4 DEF Command, JobTodos, PodTodos
<1>5. CASE todo = <<"downgrade">>
  BY <1>5 DEF Command, JobTodos, PodTodos
<1> QED BY <1>1, <1>2, <1>3, <1>4, <1>5 DEF JobTodos, PodTodos

-----------------------------------------------------------------------------
(* Steps of one process *)

LEMMA EndedOK ==
    ASSUME NEW p \in Proc
    PROVE  /\ Shape(p, Ended) /\ Standing(Ended) /\ ~Amid(Ended)
           /\ Ended.at = "ended" /\ Ended.todo = <<>>
BY EightTables
   DEF Ended, Shape, Standing, Amid, Creating, Dropping, PodTodos, JobTodos, Place

LEMMA InitInv == Init => IInv
<1> SUFFICES ASSUME Init PROVE IInv
  OBVIOUS
<1>1. StateOK
  <2>1. proc = [p \in Proc |-> proc[p]]
    BY DEF Init
  <2>2. 0 \in 0..MaxFault
    BY ConstantsAssumption
  <2> QED BY <2>1, <2>2 DEF Init, StateOK
<1>2. SchemaIsWhole
  BY DEF Init, SchemaIsWhole
<1>3. \A p \in Proc : proc[p] = Ended
  BY DEF Init
<1>4. \A p \in Proc : ProcOK(p, proc[p])
  BY <1>3, EndedOK DEF ProcOK, Prepared
<1>5. Prefixes
  <2>1. \A p \in Proc : ~Amid(proc[p]) /\ ~Creating(proc[p])
    BY <1>3, EndedOK DEF Amid
  <2>2. \E m \in 0..Count : table = Upto(m)
    BY EightTables, UptoGrows DEF Init, AllTables
  <2>3. ~undone /\ (version = "0001" => table = AllTables)
    BY DEF Init
  <2> QED BY <2>1, <2>2, <2>3 DEF Prefixes
<1> QED BY <1>1, <1>2, <1>4, <1>5 DEF IInv

\* The database as this step leaves it is one that the pods can rely on.
Kept ==
    Transactional /\ ~undone' =>
        /\ ~undone
        /\ admin => admin'
        /\ table = AllTables => table' = AllTables

LEMMA ProcStep ==
    ASSUME IInv, NEW p \in Proc, NEW s, proc' = [proc EXCEPT ![p] = s],
           setting' = setting, up' \in BOOLEAN, faults' \in 0..MaxFault,
           table' \subseteq AllTables, version' \in {"none", "base", "0001"},
           admin' \in BOOLEAN, undone' \in BOOLEAN,
           SchemaIsWhole', Prefixes', Kept,
           Shape(p, s), Standing(s), Prepared(p, s)'
    PROVE  IInv'
<1>1. proc' = [q \in Proc |-> proc'[q]] /\ proc'[p] = s
      /\ \A q \in Proc \ {p} : proc'[q] = proc[q]
  BY DEF IInv, StateOK
<1>2. StateOK'
  BY <1>1 DEF IInv, StateOK
<1>3. ASSUME NEW q \in Proc \ {p} PROVE ProcOK(q, proc[q])'
  <2>1. ProcOK(q, proc[q]) /\ proc'[q] = proc[q]
    BY <1>1 DEF IInv
  <2>2. (Shape(q, proc[q]) /\ Standing(proc[q]))'
    BY <2>1 DEF ProcOK, Shape, Standing, Task
  <2>3. Prepared(q, proc[q])'
    BY <2>1 DEF ProcOK, Prepared, Task, Transactional, Kept
  <2> QED BY <2>2, <2>3 DEF ProcOK
<1>4. ProcOK(p, proc[p])'
  <2>1. (Shape(p, proc[p]) /\ Standing(proc[p]))'
    BY <1>1 DEF Shape, Standing, Task
  <2>2. Prepared(p, proc[p])'
    BY <1>1 DEF Prepared, Task, Transactional
  <2> QED BY <2>1, <2>2 DEF ProcOK
<1> QED BY <1>2, <1>3, <1>4 DEF IInv

\* A process that is not in the middle of the tables afterwards, in an unchanged database.
LEMMA AsidePrefixes ==
    ASSUME IInv, NEW p \in Proc, NEW s, proc' = [proc EXCEPT ![p] = s],
           setting' = setting, UNCHANGED <<table, undone>>,
           version' = "0001" => version = "0001",
           ~Amid(s),
           ~Transactional /\ undone /\ p = Operator /\ s.todo = <<"downgrade">> => s.at = "drop"
    PROVE  Prefixes'
<1>1. proc'[p] = s /\ \A q \in Proc \ {p} : proc'[q] = proc[q]
  BY DEF IInv, StateOK
<1>2. ASSUME NEW q \in Proc
      PROVE  /\ Amid(proc[q])' => q # p /\ Amid(proc[q])
             /\ Creating(proc[q])' => Creating(proc[q])
             /\ q # p => proc'[q].n = proc[q].n
  BY <1>1 DEF Amid, Creating, Dropping
<1>3. ASSUME ~Transactional, undone', proc'[Operator].todo = <<"downgrade">>
      PROVE  proc'[Operator].at = "drop"
  BY <1>1, <1>3 DEF IInv, Prefixes, At, Proc
<1> QED BY <1>2, <1>3 DEF IInv, Prefixes, Transactional, At

LEMMA GotoInv ==
    ASSUME IInv, NEW p \in Proc, NEW s, Goto(p, s),
           Shape(p, s), Standing(s), Prepared(p, s), ~Amid(s),
           ~Transactional /\ undone /\ p = Operator /\ s.todo = <<"downgrade">> => s.at = "drop"
    PROVE  IInv'
<1>1. /\ UNCHANGED <<setting, up, faults, table, version, admin, undone>>
      /\ proc' = [proc EXCEPT ![p] = s]
  BY DEF Goto, Becomes, db
<1>2. SchemaIsWhole' /\ Kept /\ Prepared(p, s)'
  BY <1>1 DEF IInv, SchemaIsWhole, Transactional, Kept, Prepared
<1>3. Prefixes'
  BY <1>1, AsidePrefixes
<1> QED BY <1>1, <1>2, <1>3, ProcStep DEF IInv, StateOK

LEMMA FailInv ==
    ASSUME IInv, NEW p \in Proc, Fail(p)
    PROVE  IInv'
BY EndedOK, GotoInv DEF Fail, Prepared

LEMMA FollowingOK ==
    ASSUME NEW p \in Proc, ProcOK(p, proc[p]), proc[p].at # "ended"
    PROVE  /\ Shape(p, Following(p)) /\ Standing(Following(p)) /\ ~Amid(Following(p))
           /\ Following(p).todo # <<"downgrade">>
           /\ Following(p).at # "ended" =>
                /\ Following(p).at = "settings"
                /\ Task(Following(p)) = "serve" => Doing(p) = "seed"
<1>1. PICK todo : todo = proc[p].todo
  OBVIOUS
<1>2. todo \in PodTodos \cup JobTodos /\ todo # <<>>
  BY <1>1 DEF ProcOK, Shape
<1>3. CASE Len(todo) = 1
  <2>1. Following(p) = Ended
    BY <1>1, <1>3 DEF Following
  <2> QED BY <2>1, EndedOK
<1>4. CASE Len(todo) # 1
  <2>1. PICK s : s = [todo |-> Tail(todo), at |-> "settings", n |-> 0]
    OBVIOUS
  <2>2. Following(p) = s
    BY <1>1, <1>4, <2>1 DEF Following
  <2>3. Tail(todo) \in {<<"serve">>, <<"seed", "serve">>} /\ todo \notin JobTodos
        /\ todo # <<"serve">>
    BY <1>2, <1>4, TodoLists
  <2>4. p \in Pod /\ setting.plan # "serve" /\ p # Operator
    BY <1>1, <1>2, <2>3, ConstantsAssumption DEF ProcOK, Shape, Proc
  <2>5. s.at = "settings" /\ s.n = 0 /\ s.todo = Tail(todo)
    BY <2>1
  <2>6. Shape(p, s)
    <3>1. s \in [todo : PodTodos \cup JobTodos, at : Place, n : 0..Count]
      BY <2>1, <2>3, EightTables DEF PodTodos, Place
    <3>2. s.todo \in PodTodos /\ s.todo # <<>>
      BY <2>3, <2>5 DEF PodTodos
    <3> QED BY <2>4, <2>5, <3>1, <3>2 DEF Shape
  <2>7. Standing(s) /\ ~Amid(s)
    BY <2>5 DEF Standing, Amid, Creating, Dropping
  <2>8. Head(Tail(todo)) = "serve" => Head(todo) = "seed"
    <3>1. Head(todo) # "seed" => Tail(todo) = <<"seed", "serve">>
      BY <1>2, <1>4, TodoLists
    <3>2. Head(<<"seed", "serve">>) = "seed"
      OBVIOUS
    <3> QED BY <3>1, <3>2
  <2>9. s.todo # <<"downgrade">>
    BY <2>3, <2>5
  <2> QED BY <1>1, <2>2, <2>5, <2>6, <2>7, <2>8, <2>9 DEF Task, Doing
<1> QED BY <1>3, <1>4

LEMMA MigratedOK ==
    ASSUME NEW p \in Proc, ProcOK(p, proc[p]),
           proc[p].at \in {"heads", "create", "drop"}
    PROVE  /\ Shape(p, Migrated(p)) /\ Standing(Migrated(p)) /\ ~Amid(Migrated(p))
           /\ Migrated(p).todo # <<"downgrade">>
           /\ Migrated(p).at # "ended" /\ Task(Migrated(p)) = "serve" =>
                setting.onStartup /\ Doing(p) = "serve"
<1>1. CASE Doing(p) = "serve"
  <2>1. PICK s : s = [proc[p] EXCEPT !.at = "wire"]
    OBVIOUS
  <2>2. Migrated(p) = s
    BY <1>1, <2>1 DEF Migrated
  <2>3. s.todo = proc[p].todo /\ s.at = "wire" /\ Task(s) = "serve"
    BY <1>1, <2>1 DEF ProcOK, Shape, Task, Doing
  <2>4. proc[p].at \in {"heads", "create"} /\ setting.onStartup
    BY <1>1 DEF ProcOK, Standing, Task, Doing
  <2>5. Shape(p, s)
    BY <2>1, <2>3, <2>4 DEF ProcOK, Shape, Place
  <2>6. Standing(s) /\ ~Amid(s)
    BY <2>3 DEF Standing, Amid, Creating, Dropping
  <2>7. s.todo # <<"downgrade">>
    BY <1>1, <2>3 DEF Doing
  <2> QED BY <1>1, <2>2, <2>4, <2>5, <2>6, <2>7
<1>2. CASE Doing(p) # "serve"
  <2>1. Migrated(p) = Following(p)
    BY <1>2 DEF Migrated
  <2>2. Doing(p) # "seed"
    BY DEF ProcOK, Standing, Task, Doing
  <2> QED BY <2>1, <2>2, FollowingOK
<1> QED BY <1>1, <1>2

-----------------------------------------------------------------------------
(* Settings and the heads *)

\* SQLite: once a downgrade has taken effect, a job that has one to do is in its midst.
LEMMA StillToCome ==
    ASSUME IInv, NEW p \in Proc, ~Transactional, undone, p = Operator,
           proc[p].todo = <<"downgrade">>
    PROVE  At(p, "drop")
BY DEF IInv, Prefixes

LEMMA StartInv ==
    ASSUME IInv, NEW p \in Proc, Start(p)
    PROVE  IInv'
<1>1. PICK s : s = [todo |-> Commands, at |-> "settings", n |-> 0]
  OBVIOUS
<1>2. Goto(p, s) /\ p \in Pod /\ p # Operator
  BY <1>1, ConstantsAssumption DEF Start
<1>3. /\ Commands \in PodTodos /\ Commands # <<>>
      /\ setting.plan = "serve" => Commands = <<"serve">>
      /\ setting.plan # "serve" => Head(Commands) # "serve"
  <2>1. setting.plan \in {"image", "guide", "serve"}
    BY ConstantsAssumption DEF IInv, StateOK, Setting
  <2> QED BY <2>1 DEF Commands, PodTodos
<1>4. s.at = "settings" /\ s.n = 0 /\ s.todo = Commands
  BY <1>1
<1>5. Shape(p, s)
  <2>1. s \in [todo : PodTodos \cup JobTodos, at : Place, n : 0..Count]
    BY <1>1, <1>3, EightTables DEF Place
  <2> QED BY <1>2, <1>3, <1>4, <2>1 DEF Shape
<1>6. Standing(s) /\ ~Amid(s) /\ Prepared(p, s)
  BY <1>3, <1>4 DEF Standing, Amid, Creating, Dropping, Prepared, Task
<1> QED BY <1>2, <1>5, <1>6, GotoInv

LEMMA JobInv ==
    ASSUME IInv, Release \/ Downgrade
    PROVE  IInv'
<1>1. PICK command \in {"upgrade", "downgrade"} :
        OperatorRuns(command) /\ (command = "downgrade" => ~undone)
  BY DEF Release, Downgrade
<1>2. PICK s : s = [todo |-> <<command>>, at |-> "settings", n |-> 0]
  OBVIOUS
<1>3. Goto(Operator, s)
  BY <1>1, <1>2 DEF OperatorRuns
<1>4. s.at = "settings" /\ s.n = 0 /\ s.todo = <<command>>
  BY <1>2
<1>5. <<command>> \in JobTodos /\ <<command>> # <<>> /\ Head(<<command>>) = command
      /\ (<<command>> = <<"downgrade">> => command = "downgrade")
  BY DEF JobTodos
<1>6. Shape(Operator, s)
  <2>1. s \in [todo : PodTodos \cup JobTodos, at : Place, n : 0..Count]
    BY <1>2, <1>5, EightTables DEF Place
  <2> QED BY <1>4, <1>5, <2>1, ConstantsAssumption DEF Shape
<1>7. Standing(s) /\ ~Amid(s) /\ Prepared(Operator, s)
  BY <1>4, ConstantsAssumption DEF Standing, Amid, Creating, Dropping, Prepared
<1> QED BY <1>1, <1>3, <1>4, <1>5, <1>6, <1>7, GotoInv DEF Proc

\* The process goes on with its command, at another place of it.
LEMMA MoveOK ==
    ASSUME NEW p \in Proc, ProcOK(p, proc[p]), proc[p].at # "ended",
           NEW place \in Place \ {"ended"}, NEW s, s = [proc[p] EXCEPT !.at = place]
    PROVE  /\ Shape(p, s) /\ s.at = place /\ s.todo = proc[p].todo /\ s.n = proc[p].n
           /\ Task(s) = Doing(p) /\ Task(s) = Task(proc[p])
<1>1. s.at = place /\ s.todo = proc[p].todo /\ s.n = proc[p].n
  BY DEF ProcOK, Shape
<1>2. s \in [todo : PodTodos \cup JobTodos, at : Place, n : 0..Count]
  BY DEF ProcOK, Shape
<1>3. Shape(p, s)
  BY <1>1, <1>2 DEF ProcOK, Shape
<1> QED BY <1>1, <1>3 DEF Task, Doing

LEMMA LoadSettingsInv ==
    ASSUME IInv, NEW p \in Proc, LoadSettings(p)
    PROVE  IInv'
<1>1. ProcOK(p, proc[p]) /\ proc[p].at = "settings" /\ proc[p].n = 0
  BY DEF IInv, LoadSettings, At, ProcOK, Standing
<1>2. CASE Fail(p)
  BY <1>2, FailInv
<1>3. CASE Goto(p, [proc[p] EXCEPT !.at = First(p)])
  <2>1. PICK place : place = First(p)
    OBVIOUS
  <2>2. Doing(p) \in Command
    BY <1>1, TodoLists DEF ProcOK, Shape, Doing
  <2>3. /\ Doing(p) = "seed" => place = "look"
        /\ Doing(p) = "serve" => place = IF setting.onStartup THEN "heads" ELSE "wire"
        /\ Doing(p) \in {"upgrade", "downgrade"} => place = "heads"
    BY <2>1 DEF First
  <2>4. place \in {"look", "heads", "wire"}
    BY <2>2, <2>3 DEF Command
  <2>5. PICK s : s = [proc[p] EXCEPT !.at = place]
    OBVIOUS
  <2>6. /\ Shape(p, s) /\ s.at = place /\ s.todo = proc[p].todo /\ s.n = 0
        /\ Task(s) = Doing(p) /\ Task(s) = Task(proc[p])
    BY <1>1, <2>4, <2>5, MoveOK DEF Place
  <2>7. Standing(s)
    BY <2>2, <2>3, <2>4, <2>6 DEF Standing, Command
  <2>8. ~Amid(s)
    BY <2>4, <2>6 DEF Amid, Creating, Dropping
  <2>9. Prepared(p, s)
    BY <1>1, <2>3, <2>6 DEF ProcOK, Prepared
  <2>10. ~(~Transactional /\ undone /\ p = Operator /\ s.todo = <<"downgrade">>)
    BY <1>1, <2>6, StillToCome DEF At
  <2> QED BY <1>3, <2>1, <2>5, <2>6, <2>7, <2>8, <2>9, <2>10, GotoInv
<1> QED BY <1>2, <1>3 DEF LoadSettings

-----------------------------------------------------------------------------
(* The migration *)

\* A pod that has migrated finds the tables, while nobody takes them down.
LEMMA MigratedPrepared ==
    ASSUME IInv, NEW p \in Proc, proc[p].at \in {"heads", "create", "drop"},
           setting' = setting, Transactional /\ ~undone' => ~undone /\ (admin => admin'),
           Doing(p) = "serve" /\ Transactional => table' = AllTables,
           NEW s, s = Migrated(p)
    PROVE  Prepared(p, s)'
<1>2. ProcOK(p, proc[p])
  BY DEF IInv
<1>3. s.at # "ended" /\ Task(s) = "serve" => setting.onStartup /\ Task(proc[p]) = "serve"
  BY <1>2, MigratedOK DEF Doing, Task
<1>4. Transactional' <=> Transactional
  BY DEF Transactional
<1> QED BY <1>2, <1>3, <1>4 DEF ProcOK, Prepared, Doing, Task

LEMMA ReadHeadsInv ==
    ASSUME IInv, NEW p \in Proc, ReadHeads(p)
    PROVE  IInv'
<1>1. ProcOK(p, proc[p]) /\ proc[p].at = "heads" /\ proc[p].n = 0
  BY DEF IInv, ReadHeads, At, ProcOK, Standing
<1>2. /\ version \in {"none", "base", "0001"}
      /\ Transactional /\ version = "0001" => table = AllTables
  BY DEF IInv, StateOK, SchemaIsWhole
<1>3. CASE Goto(p, Migrated(p)) /\ (Doing(p) # "downgrade" => version = "0001")
  <2>1. UNCHANGED <<setting, table, undone, admin>>
    BY <1>3 DEF Goto, Becomes, db
  <2>3. PICK s : s = Migrated(p)
    OBVIOUS
  <2>4. Prepared(p, s)
    <3>1. ProcOK(p, proc[p]) /\ (s.at # "ended" /\ Task(s) = "serve" =>
                                   setting.onStartup /\ Task(proc[p]) = "serve")
      BY <1>1, <2>3, MigratedOK DEF Doing, Task
    <3> QED BY <1>1, <1>2, <1>3, <3>1 DEF ProcOK, Prepared, Doing, Task
  <2>5. Shape(p, s) /\ Standing(s) /\ ~Amid(s) /\ s.todo # <<"downgrade">>
    BY <1>1, <2>3, MigratedOK
  <2> QED BY <1>3, <2>3, <2>4, <2>5, GotoInv
<1>4. CASE /\ Doing(p) = "downgrade" /\ version = "0001"
           /\ Goto(p, [proc[p] EXCEPT !.at = "drop", !.n = Count])
  <2>1. PICK s : s = [proc[p] EXCEPT !.at = "drop", !.n = Count]
    OBVIOUS
  <2>2. s.at = "drop" /\ s.n = 8 /\ s.todo = proc[p].todo
    BY <1>1, <2>1, EightTables DEF ProcOK, Shape
  <2>3. Shape(p, s)
    <3>1. proc[p] \in [todo : PodTodos \cup JobTodos, at : Place, n : 0..Count]
      BY <1>1 DEF ProcOK, Shape
    <3>2. Count \in 0..Count /\ "drop" \in Place
      BY EightTables DEF Place
    <3>3. s \in [todo : PodTodos \cup JobTodos, at : Place, n : 0..Count]
      BY <2>1, <3>1, <3>2
    <3> QED BY <1>1, <2>2, <3>3 DEF ProcOK, Shape
  <2>4. Standing(s) /\ Prepared(p, s)
    BY <1>4, <2>2 DEF Standing, Prepared, Task, Doing
  <2>5. /\ UNCHANGED <<setting, up, faults, table, version, admin, undone>>
        /\ proc' = [proc EXCEPT ![p] = s]
    BY <1>4, <2>1 DEF Goto, Becomes, db
  <2>6. p = Operator /\ proc[p].todo = <<"downgrade">>
    <3>1. proc[p].todo \in PodTodos \cup JobTodos /\ proc[p].todo # <<>>
      BY <1>1 DEF ProcOK, Shape
    <3>2. proc[p].todo \notin PodTodos
      BY <1>4, <3>1, TodoLists DEF Doing
    <3> QED BY <1>1, <1>4, <3>1, <3>2, TodoLists DEF ProcOK, Shape, Proc, Doing
  <2>7. \A q \in Proc : Dropping(proc[q]) => q = Operator
    <3> SUFFICES ASSUME NEW q \in Proc, Dropping(proc[q]) PROVE q = Operator
      OBVIOUS
    <3>1. ProcOK(q, proc[q]) /\ proc[q].at = "drop"
      BY DEF IInv, Dropping
    <3>2. proc[q].todo \in PodTodos \cup JobTodos /\ proc[q].todo # <<>>
      BY <3>1 DEF ProcOK, Shape
    <3>3. Head(proc[q].todo) = "downgrade"
      BY <3>1 DEF ProcOK, Standing, Task
    <3>4. proc[q].todo \notin PodTodos
      BY <3>2, <3>3, TodoLists
    <3> QED BY <3>1, <3>4 DEF ProcOK, Shape, Proc
  <2>8. Prefixes'
    <3> SUFFICES ASSUME ~Transactional' PROVE Prefixes'
      BY DEF Prefixes
    <3>1. ~Transactional
      BY <2>5 DEF Transactional
    <3>2. ~undone
      BY <1>1, <2>6, <3>1, StillToCome DEF At
    <3>3. table = AllTables /\ \A q \in Proc : ~Creating(proc[q])
      BY <1>4, <3>1, <3>2 DEF IInv, Prefixes
    <3>4. proc'[p] = s /\ \A q \in Proc \ {p} : proc'[q] = proc[q]
      BY <2>5 DEF IInv, StateOK
    <3>5. \A q \in Proc : Amid(proc'[q]) => q = p
      BY <2>6, <2>7, <3>3, <3>4 DEF Amid
    <3>6. \A q \in Proc : ~Creating(proc'[q])
      BY <2>2, <3>3, <3>4 DEF Creating
    <3>7. table = Upto(8) /\ Count = 8
      BY <3>3, EightTables DEF AllTables
    <3>8. \A q \in Proc : Amid(proc'[q]) => proc'[q].n = 8
      BY <2>2, <3>4, <3>5
    <3>9. \A q \in Proc : Amid(proc[q])' => Amid(proc'[q])
      BY DEF Amid, Creating, Dropping
    <3>10. \A q \in Proc : ~Creating(proc[q])'
      BY <3>6 DEF Creating
    <3>11. Upto(8)' = Upto(8) /\ AllTables' = AllTables
      BY DEF Upto, AllTables, TableOrder, Count
    <3>12. \A q \in Proc : Amid(proc[q])' => table' = Upto(proc'[q].n)
      BY <2>5, <3>7, <3>8, <3>9
    <3> QED BY <2>2, <2>5, <2>6, <3>2, <3>3, <3>4, <3>5, <3>7, <3>9, <3>10, <3>12
            DEF Prefixes, At
  <2> QED BY <2>3, <2>4, <2>5, <2>8, ProcStep
          DEF IInv, StateOK, SchemaIsWhole, Transactional, Kept, Prepared
<1>5. CASE Doing(p) # "downgrade" /\ Goto(p, [proc[p] EXCEPT !.at = "ensure"])
  <2>1. PICK s : s = [proc[p] EXCEPT !.at = "ensure"]
    OBVIOUS
  <2>2. /\ Shape(p, s) /\ s.at = "ensure" /\ s.todo = proc[p].todo /\ s.n = 0
        /\ Task(s) = Doing(p) /\ Task(s) = Task(proc[p])
    BY <1>1, <2>1, MoveOK DEF Place
  <2>3. Standing(s) /\ ~Amid(s) /\ Prepared(p, s)
    BY <1>1, <1>5, <2>2 DEF ProcOK, Standing, Amid, Creating, Dropping, Prepared
  <2>4. s.todo # <<"downgrade">>
    BY <1>5, <2>2 DEF Doing
  <2> QED BY <1>5, <2>1, <2>2, <2>3, <2>4, GotoInv
<1> QED BY <1>2, <1>3, <1>4, <1>5 DEF ReadHeads

LEMMA EnsureVersionTableInv ==
    ASSUME IInv, NEW p \in Proc, EnsureVersionTable(p)
    PROVE  IInv'
<1>1. ProcOK(p, proc[p]) /\ proc[p].at = "ensure" /\ proc[p].n = 0
  BY DEF IInv, EnsureVersionTable, At, ProcOK, Standing
<1>2. PICK s : s = [proc[p] EXCEPT !.at = "create"]
  OBVIOUS
<1>3. /\ UNCHANGED <<setting, up, faults, table, admin, undone>>
      /\ proc' = [proc EXCEPT ![p] = s]
      /\ version' = IF version = "none" /\ ~Transactional THEN "base" ELSE version
  BY <1>2 DEF EnsureVersionTable, Becomes
<1>4. /\ Shape(p, s) /\ s.at = "create" /\ s.todo = proc[p].todo /\ s.n = 0
      /\ Task(s) = Doing(p) /\ Task(s) = Task(proc[p])
  BY <1>1, <1>2, MoveOK DEF Place
<1>5. Standing(s) /\ ~Amid(s)
  BY <1>1, <1>4 DEF ProcOK, Standing, Amid, Creating, Dropping
<1>6. Prepared(p, s)'
  BY <1>1, <1>3, <1>4 DEF ProcOK, Prepared, Transactional
<1>7. ~(~Transactional /\ undone /\ p = Operator /\ s.todo = <<"downgrade">>)
  BY <1>1, <1>4, StillToCome DEF At
<1>8. Prefixes'
  BY <1>3, <1>5, <1>7, AsidePrefixes
<1>9. SchemaIsWhole' /\ Kept /\ version' \in {"none", "base", "0001"}
  BY <1>3 DEF IInv, StateOK, SchemaIsWhole, Transactional, Kept
<1> QED BY <1>3, <1>4, <1>5, <1>6, <1>8, <1>9, ProcStep DEF IInv, StateOK

\* SQLite: whoever is the next to create a table finds those before it and no other,
\* and nobody else is in the middle.
LEMMA CreatorAlone ==
    ASSUME IInv, ~Transactional, NEW p \in Proc, At(p, "create"),
           proc[p].n = 0 => "users" \notin table
    PROVE  /\ table = Upto(proc[p].n)
           /\ \A q \in Proc \ {p} : ~Amid(proc[q])
           /\ proc[p].n < Count => ~(version = "0001" /\ ~undone)
<1>1. \A q \in Proc : proc[q].n \in 0..8
  BY EightTables DEF IInv, ProcOK, Shape
<1>2. \A q \in Proc : Amid(proc[q]) => proc[q].n > 0 /\ table = Upto(proc[q].n)
  BY <1>1 DEF IInv, Prefixes, Amid, Creating, Dropping
<1>3. \A q \in Proc : Amid(proc[q]) => "users" \in table
  BY <1>1, <1>2, UptoGrows
<1>4. \A q, r \in Proc : Amid(proc[q]) /\ Amid(proc[r]) => q = r
  BY DEF IInv, Prefixes
<1>5. version = "0001" /\ ~undone => table = AllTables /\ ~Creating(proc[p])
  BY DEF IInv, Prefixes
<1>6. CASE proc[p].n = 0
  <2>1. PICK m \in 0..8 : table = Upto(m)
    BY EightTables DEF IInv, Prefixes
  <2>2. m = 0
    BY <1>6, <2>1, UptoGrows
  <2>3. "users" \in AllTables
    BY EightTables, UptoGrows DEF AllTables
  <2> QED BY <1>3, <1>5, <1>6, <2>1, <2>2, <2>3
<1>7. CASE proc[p].n # 0
  <2>1. Amid(proc[p]) /\ Creating(proc[p])
    BY <1>1, <1>7 DEF Amid, Creating, At
  <2> QED BY <1>2, <1>4, <1>5, <2>1
<1> QED BY <1>6, <1>7

LEMMA CreateTableInv ==
    ASSUME IInv, NEW p \in Proc, CreateTable(p)
    PROVE  IInv'
<1>1. ProcOK(p, proc[p]) /\ proc[p].at = "create" /\ proc[p].n \in 0..7
  BY EightTables DEF IInv, CreateTable, At, ProcOK, Shape
<1>2. PICK next : next = TableOrder[proc[p].n + 1]
  OBVIOUS
<1>3. CASE Fail(p)
  BY <1>3, FailInv
<1>4. CASE /\ next \notin table
           /\ table' = IF CreatesCommitted THEN table \cup {next} ELSE table
           /\ Becomes(p, [proc[p] EXCEPT !.n = @ + 1]) /\ UNCHANGED <<version, admin, undone>>
  <2>1. PICK s : s = [proc[p] EXCEPT !.n = @ + 1]
    OBVIOUS
  <2>2. /\ UNCHANGED <<setting, up, faults, version, admin, undone>>
        /\ proc' = [proc EXCEPT ![p] = s]
    BY <1>4, <2>1 DEF Becomes
  <2>3. s.at = "create" /\ s.n = proc[p].n + 1 /\ s.todo = proc[p].todo
    BY <1>1, <2>1 DEF ProcOK, Shape
  <2>4. Shape(p, s)
    <3>1. proc[p] \in [todo : PodTodos \cup JobTodos, at : Place, n : 0..Count]
      BY <1>1 DEF ProcOK, Shape
    <3>2. proc[p].n + 1 \in 0..Count
      BY <1>1, EightTables
    <3>3. s \in [todo : PodTodos \cup JobTodos, at : Place, n : 0..Count]
      BY <2>1, <3>1, <3>2
    <3> QED BY <1>1, <2>3, <3>3 DEF ProcOK, Shape
  <2>5. Standing(s)
    BY <1>1, <2>3 DEF ProcOK, Standing, Task
  <2>6. Prepared(p, s)'
    BY <1>1, <2>2, <2>3 DEF ProcOK, Prepared, Transactional, Task
  <2>7. table' \subseteq AllTables /\ SchemaIsWhole' /\ Prefixes' /\ Kept
    <3>1. CASE Transactional
      <4>1. table' = table
        BY <1>4, <3>1 DEF CreatesCommitted
      <4> QED BY <2>2, <3>1, <4>1
              DEF IInv, StateOK, SchemaIsWhole, Prefixes, Kept, Transactional
    <3>2. CASE ~Transactional
      <4>1. table' = table \cup {next} /\ ~Transactional'
        BY <1>4, <2>2, <3>2 DEF CreatesCommitted, Transactional
      <4>2. proc[p].n = 0 => "users" \notin table
        BY <1>2, <1>4 DEF TableOrder
      <4>3. /\ table = Upto(proc[p].n) /\ \A q \in Proc \ {p} : ~Amid(proc[q])
            /\ ~(version = "0001" /\ ~undone)
        BY <1>1, <3>2, <4>2, CreatorAlone, EightTables DEF At
      <4>4. table' = Upto(s.n) /\ table' \subseteq AllTables /\ s.n \in 0..8
        BY <1>1, <1>2, <2>3, <4>1, <4>3, UptoGrows
      <4>5. proc'[p] = s /\ \A q \in Proc \ {p} : proc'[q] = proc[q]
        BY <2>2 DEF IInv, StateOK
      <4>6. \A q \in Proc : Amid(proc[q])' => q = p
        BY <4>3, <4>5 DEF Amid, Creating, Dropping
      <4>7. undone' /\ proc'[Operator].todo = <<"downgrade">> => proc'[Operator].at = "drop"
        BY <1>1, <2>2, <2>3, <3>2, <4>5, StillToCome DEF At, IInv, Prefixes, Proc
      <4>8. \A q \in Proc : Amid(proc[q])' => table' = Upto(proc'[q].n)
        BY <4>4, <4>5, <4>6
      <4>9. Prefixes'
        BY <2>2, <4>3, <4>4, <4>6, <4>7, <4>8, EightTables DEF Prefixes, At
      <4> QED BY <3>2, <4>1, <4>4, <4>9 DEF SchemaIsWhole, Kept
    <3> QED BY <3>1, <3>2
  <2> QED BY <2>2, <2>4, <2>5, <2>6, <2>7, ProcStep DEF IInv, StateOK
<1> QED BY <1>2, <1>3, <1>4 DEF CreateTable

LEMMA StampInv ==
    ASSUME IInv, NEW p \in Proc, Stamp(p)
    PROVE  IInv'
<1>1. ProcOK(p, proc[p]) /\ proc[p].at = "create" /\ proc[p].n = 8
  BY EightTables DEF IInv, Stamp, At
<1>2. PICK s : s = Migrated(p)
  OBVIOUS
<1>3. /\ UNCHANGED <<setting, up, faults, admin, undone>>
      /\ proc' = [proc EXCEPT ![p] = s] /\ version' = "0001"
      /\ table' = table \cup (IF Transactional THEN AllTables ELSE {})
  BY <1>2 DEF Stamp, Becomes
<1>4. Shape(p, s) /\ Standing(s) /\ ~Amid(s) /\ s.todo # <<"downgrade">>
  BY <1>1, <1>2, MigratedOK
<1>5. table \subseteq AllTables /\ (Transactional => table' = AllTables)
      /\ (~Transactional => table' = table)
  BY <1>3 DEF IInv, StateOK
<1>6. Prepared(p, s)'
  BY <1>1, <1>2, <1>3, <1>5, MigratedPrepared
<1>7. SchemaIsWhole' /\ Kept /\ table' \subseteq AllTables
  BY <1>3, <1>5 DEF SchemaIsWhole, Kept, Transactional
<1>8. Prefixes'
  <2> SUFFICES ASSUME ~Transactional' PROVE Prefixes'
    BY DEF Prefixes
  <2>1. ~Transactional
    BY <1>3 DEF Transactional
  <2>2. table = Upto(8) /\ \A q \in Proc \ {p} : ~Amid(proc[q])
    BY <1>1, <2>1, CreatorAlone DEF At
  <2>3. proc'[p] = s /\ \A q \in Proc \ {p} : proc'[q] = proc[q]
    BY <1>3 DEF IInv, StateOK
  <2>4. \A q \in Proc : ~Amid(proc[q])' /\ ~Creating(proc[q])'
    BY <1>4, <2>2, <2>3 DEF Amid, Creating, Dropping
  <2>5. undone' /\ proc'[Operator].todo = <<"downgrade">> => proc'[Operator].at = "drop"
    BY <1>3, <1>4, <2>1, <2>3 DEF At, IInv, Prefixes, Proc
  <2> QED BY <1>5, <2>1, <2>2, <2>4, <2>5, EightTables DEF Prefixes, At, AllTables
<1> QED BY <1>3, <1>4, <1>6, <1>7, <1>8, ProcStep DEF IInv, StateOK

\* Only the operator's job goes down.
LEMMA DropsItsJob ==
    ASSUME IInv, NEW p \in Proc, At(p, "drop")
    PROVE  p = Operator /\ p \notin Pod /\ proc[p].todo = <<"downgrade">>
<1>1. ProcOK(p, proc[p]) /\ proc[p].at = "drop"
  BY DEF IInv, At
<1>2. proc[p].todo \in PodTodos \cup JobTodos /\ proc[p].todo # <<>>
  BY <1>1 DEF ProcOK, Shape
<1>3. Head(proc[p].todo) = "downgrade"
  BY <1>1 DEF ProcOK, Standing, Task
<1>4. proc[p].todo \notin PodTodos
  BY <1>2, <1>3, TodoLists
<1> QED BY <1>1, <1>2, <1>3, <1>4, TodoLists, ConstantsAssumption DEF ProcOK, Shape, Proc

LEMMA DropTableInv ==
    ASSUME IInv, NEW p \in Proc, DropTable(p)
    PROVE  IInv'
<1>1. ProcOK(p, proc[p]) /\ proc[p].at = "drop" /\ proc[p].n \in 1..8
  BY EightTables DEF IInv, DropTable, At, ProcOK, Shape
<1>2. p = Operator /\ p \notin Pod /\ proc[p].todo = <<"downgrade">>
  BY <1>1, DropsItsJob DEF At
<1>3. PICK next : next = TableOrder[proc[p].n]
  OBVIOUS
<1>4. CASE Fail(p)
  BY <1>4, FailInv
<1>5. CASE /\ next \in table
           /\ \/ Transactional /\ UNCHANGED <<table, admin, undone>>
              \/ /\ ~Transactional /\ table' = table \ {next} /\ undone' = TRUE
                 /\ admin' = (admin /\ next # "users")
           /\ Becomes(p, [proc[p] EXCEPT !.n = @ - 1]) /\ UNCHANGED version
  <2>1. PICK s : s = [proc[p] EXCEPT !.n = @ - 1]
    OBVIOUS
  <2>2. UNCHANGED <<setting, up, faults, version>> /\ proc' = [proc EXCEPT ![p] = s]
    BY <1>5, <2>1 DEF Becomes
  <2>3. s.at = "drop" /\ s.n = proc[p].n - 1 /\ s.todo = proc[p].todo
    BY <1>1, <2>1 DEF ProcOK, Shape
  <2>4. Shape(p, s)
    <3>1. proc[p] \in [todo : PodTodos \cup JobTodos, at : Place, n : 0..Count]
      BY <1>1 DEF ProcOK, Shape
    <3>2. proc[p].n - 1 \in 0..Count
      BY <1>1, EightTables
    <3>3. s \in [todo : PodTodos \cup JobTodos, at : Place, n : 0..Count]
      BY <2>1, <3>1, <3>2
    <3> QED BY <1>1, <2>3, <3>3 DEF ProcOK, Shape
  <2>5. Standing(s) /\ Prepared(p, s)'
    BY <1>1, <1>2, <2>3 DEF ProcOK, Standing, Prepared, Task
  <2>6. /\ table' \subseteq AllTables /\ admin' \in BOOLEAN /\ undone' \in BOOLEAN
        /\ SchemaIsWhole' /\ Prefixes' /\ Kept
    <3>1. CASE Transactional
      <4>1. UNCHANGED <<table, admin, undone>>
        BY <1>5, <3>1
      <4> QED BY <2>2, <3>1, <4>1
              DEF IInv, StateOK, SchemaIsWhole, Prefixes, Kept, Transactional
    <3>2. CASE ~Transactional
      <4>1. /\ table' = table \ {next} /\ undone' = TRUE /\ ~Transactional'
            /\ admin' = (admin /\ next # "users")
        BY <1>5, <2>2, <3>2 DEF Transactional
      <4>2. Amid(proc[p]) /\ table = Upto(proc[p].n) /\ \A q \in Proc \ {p} : ~Amid(proc[q])
        BY <1>1, <3>2 DEF Amid, Dropping, IInv, Prefixes
      <4>3. table' = Upto(s.n) /\ s.n \in 0..8
        <5>1. PICK n \in 0..7 : n = s.n /\ proc[p].n = n + 1
          BY <1>1, <2>3
        <5> QED BY <1>3, <4>1, <4>2, <5>1, UptoGrows
      <4>4. proc'[p] = s /\ \A q \in Proc \ {p} : proc'[q] = proc[q]
        BY <2>2 DEF IInv, StateOK
      <4>5. \A q \in Proc : Amid(proc[q])' => q = p
        BY <4>2, <4>4 DEF Amid, Creating, Dropping
      <4>6. \A q \in Proc : Amid(proc[q])' => table' = Upto(proc'[q].n)
        BY <4>3, <4>4, <4>5
      <4>7. Prefixes'
        BY <1>2, <2>3, <4>1, <4>3, <4>4, <4>5, <4>6, EightTables DEF Prefixes, At
      <4> QED BY <3>2, <4>1, <4>3, <4>7, UptoGrows DEF SchemaIsWhole, Kept
    <3> QED BY <3>1, <3>2
  <2> QED BY <2>2, <2>4, <2>5, <2>6, ProcStep DEF IInv, StateOK
<1> QED BY <1>3, <1>4, <1>5 DEF DropTable

LEMMA UnstampInv ==
    ASSUME IInv, NEW p \in Proc, Unstamp(p)
    PROVE  IInv'
<1>1. ProcOK(p, proc[p]) /\ proc[p].at = "drop" /\ proc[p].n = 0
  BY DEF IInv, Unstamp, At
<1>2. p = Operator /\ p \notin Pod
  BY <1>1, DropsItsJob DEF At
<1>3. PICK s : s = Migrated(p)
  OBVIOUS
<1>4. /\ UNCHANGED <<setting, up, faults>>
      /\ proc' = [proc EXCEPT ![p] = s] /\ version' = "base" /\ undone' = TRUE
      /\ \/ Transactional /\ table' = {} /\ admin' = FALSE
         \/ ~Transactional /\ UNCHANGED <<table, admin>>
  BY <1>3 DEF Unstamp, Becomes
<1>5. Shape(p, s) /\ Standing(s) /\ ~Amid(s) /\ s.todo # <<"downgrade">>
  BY <1>1, <1>3, MigratedOK
<1>6. Prepared(p, s)' /\ SchemaIsWhole' /\ Kept
  BY <1>2, <1>4 DEF Prepared, SchemaIsWhole, Kept, Transactional
<1>7. Prefixes'
  <2> SUFFICES ASSUME ~Transactional' PROVE Prefixes'
    BY DEF Prefixes
  <2>1. ~Transactional /\ UNCHANGED table
    BY <1>4 DEF Transactional
  <2>2. proc'[p] = s /\ \A q \in Proc \ {p} : proc'[q] = proc[q]
    BY <1>4 DEF IInv, StateOK
  <2>3. \A q \in Proc : Amid(proc[q])' => q # p /\ Amid(proc[q])
    BY <1>5, <2>2 DEF Amid, Creating, Dropping
  <2>4. \A q \in Proc : Amid(proc[q])' => proc'[q].n = proc[q].n
    BY <2>2, <2>3
  <2>5. proc'[Operator].todo # <<"downgrade">>
    BY <1>2, <1>5, <2>2
  <2> QED BY <1>4, <2>1, <2>3, <2>4, <2>5 DEF IInv, Prefixes
<1> QED BY <1>4, <1>5, <1>6, <1>7, ProcStep DEF IInv, StateOK

-----------------------------------------------------------------------------
(* The seed and the application *)

LEMMA SeedLookInv ==
    ASSUME IInv, NEW p \in Proc, SeedLook(p)
    PROVE  IInv'
<1>1. ProcOK(p, proc[p]) /\ proc[p].at = "look" /\ Doing(p) = "seed"
  BY DEF IInv, SeedLook, At, ProcOK, Standing, Task, Doing
<1>2. CASE Fail(p)
  BY <1>2, FailInv
<1>3. CASE admin /\ Goto(p, Following(p))
  <2>1. PICK s : s = Following(p)
    OBVIOUS
  <2>2. Shape(p, s) /\ Standing(s) /\ ~Amid(s) /\ s.todo # <<"downgrade">>
        /\ (s.at # "ended" => s.at = "settings")
    BY <1>1, <2>1, FollowingOK
  <2>3. Prepared(p, s)
    BY <1>3, <2>2 DEF Prepared
  <2> QED BY <1>3, <2>1, <2>2, <2>3, GotoInv
<1>4. CASE Goto(p, [proc[p] EXCEPT !.at = "insert"])
  <2>1. PICK s : s = [proc[p] EXCEPT !.at = "insert"]
    OBVIOUS
  <2>2. /\ Shape(p, s) /\ s.at = "insert" /\ s.todo = proc[p].todo
        /\ Task(s) = Doing(p) /\ Task(s) = Task(proc[p])
    BY <1>1, <2>1, MoveOK DEF Place
  <2>3. Standing(s) /\ ~Amid(s) /\ Prepared(p, s)
    BY <1>1, <2>2 DEF Standing, Amid, Creating, Dropping, Prepared
  <2>4. s.todo # <<"downgrade">>
    BY <1>1, <2>2 DEF Doing
  <2> QED BY <1>4, <2>1, <2>2, <2>3, <2>4, GotoInv
<1> QED BY <1>2, <1>3, <1>4 DEF SeedLook

LEMMA SeedInsertInv ==
    ASSUME IInv, NEW p \in Proc, SeedInsert(p)
    PROVE  IInv'
<1>1. ProcOK(p, proc[p]) /\ proc[p].at = "insert"
  BY DEF IInv, SeedInsert, At
<1>2. CASE Fail(p)
  BY <1>2, FailInv
<1>3. CASE /\ "users" \in table /\ ~admin
           /\ admin' = TRUE /\ Becomes(p, Following(p)) /\ UNCHANGED <<table, version, undone>>
  <2>1. PICK s : s = Following(p)
    OBVIOUS
  <2>2. UNCHANGED <<setting, up, faults>> /\ proc' = [proc EXCEPT ![p] = s]
    BY <1>3, <2>1 DEF Becomes
  <2>3. Shape(p, s) /\ Standing(s) /\ ~Amid(s) /\ s.todo # <<"downgrade">>
        /\ (s.at # "ended" => s.at = "settings")
    BY <1>1, <2>1, FollowingOK
  <2>4. Prepared(p, s)'
    BY <1>3, <2>3 DEF Prepared
  <2>5. SchemaIsWhole' /\ Kept
    BY <1>3, <2>2 DEF IInv, SchemaIsWhole, Kept, Transactional
  <2>6. Prefixes'
    BY <1>3, <2>2, <2>3, AsidePrefixes
  <2> QED BY <1>3, <2>2, <2>3, <2>4, <2>5, <2>6, ProcStep DEF IInv, StateOK
<1> QED BY <1>2, <1>3 DEF SeedInsert

LEMMA WireInv ==
    ASSUME IInv, NEW p \in Proc, Wire(p)
    PROVE  IInv'
<1>1. ProcOK(p, proc[p]) /\ proc[p].at = "wire" /\ Doing(p) = "serve"
  BY DEF IInv, Wire, At, ProcOK, Standing, Task, Doing
<1>2. CASE Fail(p)
  BY <1>2, FailInv
<1>3. CASE Goto(p, [proc[p] EXCEPT !.at = "serving"])
  <2>1. PICK s : s = [proc[p] EXCEPT !.at = "serving"]
    OBVIOUS
  <2>2. /\ Shape(p, s) /\ s.at = "serving" /\ s.todo = proc[p].todo
        /\ Task(s) = Doing(p) /\ Task(s) = Task(proc[p])
    BY <1>1, <2>1, MoveOK DEF Place
  <2>3. Standing(s) /\ ~Amid(s) /\ Prepared(p, s)
    BY <1>1, <2>2 DEF ProcOK, Standing, Amid, Creating, Dropping, Prepared
  <2>4. s.todo # <<"downgrade">>
    BY <1>1, <2>2 DEF Doing
  <2> QED BY <1>3, <2>1, <2>2, <2>3, <2>4, GotoInv
<1> QED BY <1>2, <1>3 DEF Wire

-----------------------------------------------------------------------------
(* Every step *)

\* A process that dies leaves the database as it was committed.
LEMMA CrashInv ==
    ASSUME IInv, NEW p \in Proc, Crash(p)
    PROVE  IInv'
<1>1. /\ UNCHANGED <<setting, up, table, version, admin, undone>>
      /\ proc' = [proc EXCEPT ![p] = Ended] /\ faults' \in 0..MaxFault
  BY ConstantsAssumption DEF Crash, Fault, db, IInv, StateOK
<1>2. PICK s : s = Ended
  OBVIOUS
<1>3. Shape(p, s) /\ Standing(s) /\ ~Amid(s) /\ s.at = "ended" /\ s.todo # <<"downgrade">>
  BY <1>2, EndedOK
<1>4. Prepared(p, s)'
  BY <1>3 DEF Prepared
<1>5. SchemaIsWhole' /\ Kept
  BY <1>1 DEF IInv, SchemaIsWhole, Kept, Transactional
<1>6. Prefixes'
  BY <1>1, <1>2, <1>3, AsidePrefixes
<1> QED BY <1>1, <1>2, <1>3, <1>4, <1>5, <1>6, ProcStep DEF IInv, StateOK

\* Whether the database answers, and how often something has failed, is in no clause.
LEMMA OutageInv ==
    ASSUME IInv, Outage \/ Recover \/ UNCHANGED vars
    PROVE  IInv'
<1>1. /\ UNCHANGED <<setting, table, version, admin, undone, proc>>
      /\ up' \in BOOLEAN /\ faults' \in 0..MaxFault
  <2>1. faults \in 0..MaxFault /\ up \in BOOLEAN
    BY DEF IInv, StateOK
  <2>2. CASE Outage
    <3>1. up' = FALSE /\ UNCHANGED <<setting, table, version, admin, undone, proc>>
      BY <2>2 DEF Outage, db
    <3>2. faults' \in 0..MaxFault
      <4>1. faults < MaxFault /\ faults' = faults + 1
        BY <2>2 DEF Outage, Fault
      <4> QED BY <2>1, <4>1, ConstantsAssumption
    <3> QED BY <3>1, <3>2
  <2>3. CASE Recover
    BY <2>1, <2>3 DEF Recover, db
  <2>4. CASE UNCHANGED vars
    BY <2>1, <2>4 DEF vars, db
  <2> QED BY <2>2, <2>3, <2>4
<1>2. StateOK' /\ SchemaIsWhole'
  BY <1>1 DEF IInv, StateOK, SchemaIsWhole, Transactional
<1>3. Prefixes'
  BY <1>1 DEF IInv, Prefixes, Transactional, Amid, Creating, Dropping, At
<1>4. \A p \in Proc : ProcOK(p, proc[p])'
  BY <1>1 DEF IInv, ProcOK, Shape, Standing, Prepared, Task, Transactional
<1> QED BY <1>2, <1>3, <1>4 DEF IInv

LEMMA NextInv == IInv /\ [Next]_vars => IInv'
<1> SUFFICES ASSUME IInv, [Next]_vars PROVE IInv'
  OBVIOUS
<1>1. ASSUME NEW p \in Proc, Step(p) PROVE IInv'
  <2>1. CASE Disconnected(p)
    BY <2>1, FailInv DEF Disconnected
  <2> QED BY <1>1, <2>1, StartInv, LoadSettingsInv, ReadHeadsInv, EnsureVersionTableInv,
             CreateTableInv, StampInv, DropTableInv, UnstampInv, SeedLookInv,
             SeedInsertInv, WireInv DEF Step
<1>2. ASSUME NEW p \in Proc, Crash(p) PROVE IInv'
  BY <1>2, CrashInv
<1> QED BY <1>1, <1>2, JobInv, OutageInv DEF Next

\* The invariant behind the theorems below.
THEOREM SpecIInv == Spec => []IInv
<1>1. Init => IInv
  BY InitInv
<1>2. IInv /\ [Next]_vars => IInv'
  BY NextInv
<1> QED BY <1>1, <1>2, PTL DEF Spec

-----------------------------------------------------------------------------
(* What follows *)

\* The variables keep their types; a process has a list of commands and is in one place.
THEOREM SpecTypeOK == Spec => []TypeOK
<1>1. IInv => TypeOK
  <2> SUFFICES ASSUME IInv PROVE TypeOK
    OBVIOUS
  <2>1. ASSUME NEW p \in Proc
        PROVE  proc[p] \in [todo : Seq(Command), at : Place, n : 0..Count]
    <3>1. proc[p] \in [todo : PodTodos \cup JobTodos, at : Place, n : 0..Count]
      BY DEF IInv, ProcOK, Shape
    <3>2. proc[p].todo \in Seq(Command)
      <4>1. <<>> \in Seq(Command)
        OBVIOUS
      <4> QED BY <3>1, <4>1, TodoLists
    <3> QED BY <3>1, <3>2
  <2>2. proc = [p \in Proc |-> proc[p]]
    BY DEF IInv, StateOK
  <2>3. proc \in [Proc -> [todo : Seq(Command), at : Place, n : 0..Count]]
    BY <2>1, <2>2
  <2> QED BY <2>3 DEF IInv, StateOK, TypeOK
<1> QED BY <1>1, SpecIInv, PTL

\* On PostgreSQL the schema is all there with its version or not at all, whoever
\* migrates at the same time and wherever in it a process dies.
THEOREM SpecSchemaIsWhole == Spec => []SchemaIsWhole
<1>1. IInv => SchemaIsWhole
  BY DEF IInv
<1> QED BY <1>1, SpecIInv, PTL

\* In either database every statement of the migration, up or down, leaves each table
\* with those its foreign keys refer to, as the process that migrates and as the others
\* see them.
THEOREM SpecReferencesStand == Spec => []ReferencesStand
<1>1. IInv => ReferencesStand
  <2> SUFFICES ASSUME IInv, NEW p \in Proc, NEW t \in Seen(p)
               PROVE  References(t) \subseteq Seen(p)
    BY DEF ReferencesStand
  <2>1. \A n \in 0..8 : \A u \in Upto(n) : References(u) \subseteq Upto(n)
    BY UptoClosed
  <2>2. proc[p].n \in 0..8
    BY EightTables DEF IInv, ProcOK, Shape
  <2>3. \E m \in 0..8 : table = Upto(m)
    <3>1. CASE Transactional
      <4>1. table = Upto(8) \/ table = Upto(0)
        BY <3>1, EightTables, UptoGrows DEF IInv, SchemaIsWhole, AllTables
      <4> QED BY <4>1
    <3>2. CASE ~Transactional
      BY <3>2, EightTables DEF IInv, Prefixes
    <3> QED BY <3>1, <3>2
  <2>4. CASE Transactional /\ At(p, "create")
    <3>1. Seen(p) = table \cup Upto(proc[p].n)
      BY <2>4 DEF Seen, At
    <3> QED BY <2>1, <2>2, <2>3, <3>1
  <2>5. CASE Transactional /\ At(p, "drop")
    <3>1. Seen(p) = Upto(proc[p].n)
      BY <2>5 DEF Seen, At
    <3> QED BY <2>1, <2>2, <3>1
  <2>6. CASE ~(Transactional /\ (At(p, "create") \/ At(p, "drop")))
    <3>1. Seen(p) = table
      BY <2>6 DEF Seen
    <3> QED BY <2>1, <2>3, <3>1
  <2> QED BY <2>4, <2>5, <2>6
<1> QED BY <1>1, SpecIInv, PTL

\* A pod that answers its readiness probe has the schema, if its command migrates at any
\* point, and the administrator, if it seeds one, as long as nobody has downgraded.
THEOREM SpecReadyIsUsable == Spec => []ReadyIsUsable
<1>1. IInv => ReadyIsUsable
  <2> SUFFICES ASSUME IInv, NEW p \in Pod, Ready(p), Transactional, ~undone
               PROVE  /\ setting.plan # "serve" \/ setting.onStartup => table = AllTables
                      /\ setting.plan # "serve" => admin
    BY DEF ReadyIsUsable
  <2>1. ProcOK(p, proc[p]) /\ proc[p].at = "serving"
    BY DEF IInv, Proc, Ready, At
  <2>2. Task(proc[p]) = "serve"
    BY <2>1 DEF ProcOK, Standing
  <2>3. /\ setting.plan # "serve" => admin
        /\ setting.onStartup => table = AllTables
    BY <2>1, <2>2 DEF ProcOK, Prepared
  <2>4. admin => table = AllTables
    BY DEF IInv, SchemaIsWhole
  <2> QED BY <2>3, <2>4
<1> QED BY <1>1, SpecIInv, PTL

=============================================================================
