-------------------------- MODULE FlightplanProofs --------------------------
(***************************************************************************)
(* Theorems about the Flightplan engine, for every plan, any number of     *)
(* runs and tasks, and any budget of approvals, aborts, exceptions,        *)
(* crashes and overlapping deployments: its types and its gates; who may   *)
(* write a run (a run shown as 'running' is being run, and the engine      *)
(* implements RunLifecycle); and the course of a run, as long as it was    *)
(* approved at most once (no step is done twice, 'success' means that      *)
(* every step is done, an abort stops it), and of any run, up to the gate  *)
(* it is first parked on (no step is done twice, and it goes on past it).  *)
(***************************************************************************)
EXTENDS Flightplan, FiniteSetTheorems, TLAPS

-----------------------------------------------------------------------------
(* Type correctness *)

\* The types alone are not inductive: a task in the loop body stands on a step of
\* the plan, and orders start at one.
OnAStep == \A t \in Tasks : /\ task[t].at >= 1
                            /\ task[t].pc \in InLoop => task[t].at \in Index

TypeInv == TypeOK /\ OnAStep

PCs == {"idle"} \cup Handling \cup Background

\* The empty slot and the fresh task are tasks.
LEMMA NewTaskType ==
  ASSUME NEW p \in PCs, NEW r \in Runs, NEW role \in Roles, NEW gate \in 0..Len(Steps),
         NEW old \in BOOLEAN
  PROVE  NewTask(p, r, role, gate, old) \in Task
BY DEF NewTask, Task, PCs, Index, Results, Absent, Roles, Viewer, Dev, Admin

LEMMA NoTaskType ==
  ASSUME NEW r \in Runs
  PROVE  NoTask(r) \in Task
BY StepsAssumption DEF NoTask, NewTask, Task, Index, Results, Absent, Roles, Viewer, Dev, Admin

\* Indices are the naturals that number the steps, and a step is a StepDef.
LEMMA StepType ==
  /\ Len(Steps) \in Nat
  /\ \A i \in Index : Steps[i] \in StepDefs /\ i \in Nat /\ i >= 1 /\ i <= Len(Steps)
BY StepsAssumption DEF Index

\* What Advance makes of a task is a task, and on a step if it is in the loop.
LEMMA AdvanceType ==
  ASSUME TypeOK, NEW t \in Tasks, task[t].at \in Index,
         NEW seen \in [Index -> Results \cup {Absent}], NEW bad \in BOOLEAN
  PROVE  /\ Advance(t, seen, bad) \in Task
         /\ Advance(t, seen, bad).at >= 1
         /\ Advance(t, seen, bad).pc \in InLoop => Advance(t, seen, bad).at \in Index
<1> DEFINE x == Advance(t, seen, bad)
<1>1. task[t] \in Task
  BY DEF TypeOK
<1>2. task[t].at \in Nat /\ task[t].at >= 1 /\ task[t].at <= Len(Steps) /\ Len(Steps) \in Nat
  BY StepType
<1>3. /\ x.pc = IF task[t].at < Len(Steps) THEN "check" ELSE "finish"
      /\ x.at = task[t].at + 1
  BY <1>1 DEF Advance, Task
<1>4. x \in Task
  <2> DEFINE pc    == IF task[t].at < Len(Steps) THEN "check" ELSE "finish"
             final == IF bad THEN "failed" ELSE "success"
  <2>1. pc \in {"idle"} \cup Handling \cup Background
    BY DEF Background
  <2>2. final \in {"success", "failed"}
    OBVIOUS
  <2>3. x = [task[t] EXCEPT !.at = task[t].at + 1, !.seen = seen, !.bad = bad,
                            !.pc = pc, !.final = final]
    BY DEF Advance
  <2> HIDE DEF x, pc, final
  <2>4. x = [pc |-> pc, run |-> task[t].run, at |-> task[t].at + 1,
             role |-> task[t].role, seen |-> seen, bad |-> bad, final |-> final,
             old |-> task[t].old, gate |-> task[t].gate]
    BY <1>1, <2>3 DEF Task
  <2>5. /\ task[t].run \in Runs /\ task[t].role \in Roles
        /\ task[t].old \in BOOLEAN /\ task[t].gate \in 0..Len(Steps)
    BY <1>1 DEF Task
  <2>6. task[t].at + 1 \in Nat
    BY <1>2
  <2> QED BY <2>1, <2>2, <2>4, <2>5, <2>6 DEF Task
<1> QED BY <1>2, <1>3, <1>4 DEF InLoop, Index

\* A task that becomes a well-placed task leaves every task well placed.
LEMMA OneTask ==
  ASSUME TypeInv, NEW t \in Tasks, NEW x \in Task, x.at >= 1,
         x.pc \in InLoop => x.at \in Index, task' = [task EXCEPT ![t] = x]
  PROVE  task' \in [Tasks -> Task] /\ OnAStep'
BY DEF TypeInv, TypeOK, OnAStep

\* A task that only moves on is still a task.
LEMMA SetPC ==
  ASSUME TypeInv, NEW t \in Tasks, NEW p \in PCs,
         p \in InLoop => task[t].at \in Index, task' = [task EXCEPT ![t].pc = p]
  PROVE  task' \in [Tasks -> Task] /\ OnAStep'
<1>1. task[t] \in Task /\ task[t].at >= 1
  BY DEF TypeInv, TypeOK, OnAStep
<1> DEFINE x == [task[t] EXCEPT !.pc = p]
<1>2. x \in Task /\ x.at = task[t].at /\ x.pc = p
  BY <1>1 DEF Task, PCs
<1>3. task' = [task EXCEPT ![t] = x]
  OBVIOUS
<1> HIDE DEF x
<1> QED BY <1>1, <1>2, <1>3, OneTask

\* A task that ends leaves an empty slot.
LEMMA EndTask ==
  ASSUME TypeInv, NEW t \in Tasks, task' = [task EXCEPT ![t] = Done(t)]
  PROVE  task' \in [Tasks -> Task] /\ OnAStep'
<1>1. task[t].run \in Runs
  BY DEF TypeInv, TypeOK, Task
<1>2. Done(t) \in Task
  BY <1>1, NoTaskType DEF Done
<1>3. Done(t).at = 1 /\ Done(t).pc = "idle"
  BY DEF Done, NoTask, NewTask
<1>4. Done(t).at >= 1 /\ (Done(t).pc \in InLoop => Done(t).at \in Index)
  BY <1>3 DEF InLoop
<1> QED BY <1>2, <1>4, OneTask

\* Initially no task lives, and the type invariant holds.
LEMMA InitType == Init => TypeInv
<1> SUFFICES ASSUME Init PROVE TypeInv
  OBVIOUS
<1>1. task \in [Tasks -> Task] /\ OnAStep
  <2>1. PICK r \in Runs : task = [t \in Tasks |-> NoTask(r)]
    BY DEF Init
  <2>2. NoTask(r) \in Task
    BY NoTaskType
  <2>3. NoTask(r).at = 1 /\ NoTask(r).pc = "idle"
    BY DEF NoTask, NewTask
  <2> QED BY <2>1, <2>2, <2>3 DEF OnAStep, InLoop
<1>2. hist \in [Runs -> Histories]
  BY StepType DEF Init, NoHistory, Histories
<1>3. rows \in [Runs -> Seq(Row)]
  BY DEF Init
<1>4. left \in [Events -> Nat]
  BY BudgetAssumption DEF Init
<1> QED BY <1>1, <1>2, <1>3, <1>4 DEF Init, TypeInv, TypeOK, RunStatus

\* A row is appended to the run a task works on, at the step it stands on.
LEMMA RowType ==
  ASSUME TypeInv, NEW r \in Runs, NEW i \in Index, NEW res \in Results,
         AddRunStep(r, i, res)
  PROVE  rows' \in [Runs -> Seq(Row)]
<1>1. [at |-> i, status |-> res.status, out |-> res.out] \in Row
  BY DEF Results, Row
<1>2. rows[r] \in Seq(Row)
  BY DEF TypeInv, TypeOK
<1>3. Append(rows[r], [at |-> i, status |-> res.status, out |-> res.out]) \in Seq(Row)
  BY <1>1, <1>2
<1> QED BY <1>3 DEF TypeInv, TypeOK, AddRunStep

\* Spending an event leaves a budget.
LEMMA SpendType ==
  ASSUME TypeInv, NEW e \in Events, Spend(e)
  PROVE  left' \in [Events -> Nat]
BY DEF TypeInv, TypeOK, Spend

\* A task in a slot that works on a run, and where it stands.
LEMMA TaskType ==
  ASSUME TypeInv, NEW t \in Tasks
  PROVE  /\ task[t] \in Task /\ task[t].run \in Runs /\ task[t].at \in Nat
         /\ task[t].at >= 1 /\ task[t].bad \in BOOLEAN
         /\ task[t].seen \in [Index -> Results \cup {Absent}]
         /\ task[t].role \in Roles
         /\ task[t].pc \in InLoop => task[t].at \in Index
<1>1. task[t] \in Task
  BY DEF TypeInv, TypeOK
<1>2. /\ task[t].run \in Runs /\ task[t].at \in Nat /\ task[t].role \in Roles
      /\ task[t].seen \in [Index -> Results \cup {Absent}]
  BY <1>1 DEF Task
<1>3. task[t].bad \in BOOLEAN
  BY <1>1 DEF Task
<1> QED BY <1>1, <1>2, <1>3 DEF TypeInv, OnAStep

\* What is observed of a run.
LEMMA HistoryType ==
  ASSUME TypeInv, NEW r \in Runs
  PROVE  /\ hist[r] \in Histories
         /\ hist[r].ran \in [Index -> Nat]
         /\ hist[r].granted \in Nat /\ hist[r].late \in Nat
         /\ hist[r].gate \in 0..Len(Steps)
<1>1. hist[r] \in Histories
  BY DEF TypeInv, TypeOK
<1> QED BY <1>1 DEF Histories

\* A run's observations change to observations.
LEMMA OneHistory ==
  ASSUME TypeInv, NEW r \in Runs, NEW h \in Histories, hist' = [hist EXCEPT ![r] = h]
  PROVE  hist' \in [Runs -> Histories]
BY DEF TypeInv, TypeOK

\* The handlers keep the types.
LEMMA HandlerTypes ==
  ASSUME TypeInv, NEW r \in Runs, NEW t \in Tasks,
         Execute(r, t) \/ Approve(r, t) \/ SpawnExecute(t) \/ SpawnResume(t)
  PROVE  TypeInv'
<1>1. CASE Execute(r, t)
  <2>1. PICK who \in Triggers, old \in {FALSE, overlap} :
          /\ by'   = [by EXCEPT ![r] = who.by]
          /\ task' = [task EXCEPT ![t] = NewTask("created", r, who.role, 0, old)]
    BY <1>1 DEF Execute
  <2>2. who.by \in {"user", "system"} /\ who.role \in Roles /\ old \in BOOLEAN
    BY TriggersAssumption DEF TypeInv, TypeOK
  <2>3. NewTask("created", r, who.role, 0, old) \in Task
    BY <2>2, NewTaskType, StepType DEF PCs, Handling
  <2>4. /\ NewTask("created", r, who.role, 0, old).at >= 1
        /\ NewTask("created", r, who.role, 0, old).pc \in InLoop =>
             NewTask("created", r, who.role, 0, old).at \in Index
    BY DEF NewTask, InLoop
  <2>5. task' \in [Tasks -> Task] /\ OnAStep'
    BY <2>1, <2>3, <2>4, OneTask
  <2> QED BY <1>1, <2>1, <2>2, <2>5 DEF TypeInv, TypeOK, Execute, SetStatus, RunStatus
<1>2. CASE Approve(r, t)
  <2>0. PICK old \in {FALSE, overlap} :
          task' = [task EXCEPT ![t] = NewTask("approved", r, Viewer, hist[r].gate, old)]
    BY <1>2 DEF Approve
  <2> DEFINE x == NewTask("approved", r, Viewer, hist[r].gate, old)
  <2>1. hist[r] \in Histories /\ hist[r].gate \in 0..Len(Steps) /\ old \in BOOLEAN
    BY HistoryType DEF TypeInv, TypeOK
  <2>2. x \in Task
    BY <2>1, NewTaskType DEF PCs, Handling, Roles
  <2>3. x.at >= 1 /\ (x.pc \in InLoop => x.at \in Index)
    BY DEF NewTask, InLoop
  <2>4. task' = [task EXCEPT ![t] = x]
    BY <2>0
  <2> HIDE DEF x
  <2>5. task' \in [Tasks -> Task] /\ OnAStep'
    BY <2>2, <2>3, <2>4, OneTask
  <2>6. left' \in [Events -> Nat]
    BY <1>2, SpendType DEF Approve, Events
  <2>7. hist' \in [Runs -> Histories]
    <3> DEFINE h == [hist[r] EXCEPT !.granted = @ + 1]
    <3>1. hist[r].granted + 1 \in Nat
      BY HistoryType
    <3>2. h \in Histories
      BY <2>1, <3>1 DEF Histories
    <3>3. hist' = [hist EXCEPT ![r] = h]
      BY <1>2 DEF Approve
    <3> QED BY <3>2, <3>3, OneHistory
  <2> QED BY <1>2, <2>5, <2>6, <2>7 DEF TypeInv, TypeOK, Approve
<1>3. CASE SpawnExecute(t)
  <2>1. task' \in [Tasks -> Task] /\ OnAStep'
    BY <1>3, SetPC DEF SpawnExecute, PCs, Background, InLoop
  <2> QED BY <1>3, <2>1 DEF TypeInv, TypeOK, SpawnExecute
<1>4. CASE SpawnResume(t)
  <2>1. PICK role \in IF by[task[t].run] = "user" THEN CurrentRoles ELSE {Viewer} :
          task' = [task EXCEPT ![t].pc = "rebuild", ![t].role = role]
    BY <1>4 DEF SpawnResume
  <2> DEFINE x == [task[t] EXCEPT !.pc = "rebuild", !.role = role]
  <2>2. role \in Roles
    BY TriggersAssumption DEF Roles
  <2>3. x \in Task /\ x.at = task[t].at /\ x.pc = "rebuild"
    BY <2>2, TaskType DEF Task, Background
  <2>4. task' = [task EXCEPT ![t] = x]
    BY <2>1
  <2>5. x.at >= 1 /\ (x.pc \in InLoop => x.at \in Index)
    BY <2>3, TaskType DEF InLoop
  <2> HIDE DEF x
  <2>6. task' \in [Tasks -> Task] /\ OnAStep'
    BY <2>3, <2>4, <2>5, OneTask
  <2> QED BY <1>4, <2>6 DEF TypeInv, TypeOK, SpawnResume
<1> QED BY <1>1, <1>2, <1>3, <1>4

\* What brings a coroutine into the step loop keeps the types.
LEMMA EntryTypes ==
  ASSUME TypeInv, NEW t \in Tasks, Rebuild(t) \/ Count(t) \/ Mark(t)
  PROVE  TypeInv'
<1> DEFINE r == task[t].run
<1>1. CASE Rebuild(t)
  <2>1. PICK last \in LastRows(r) :
          task' = [task EXCEPT ![t].pc = "count",
                     ![t].seen = [i \in Index |->
                        IF i \in Written(r)
                          THEN [status |-> rows[r][last[i]].status,
                                out    |-> rows[r][last[i]].out]
                          ELSE Absent]]
    BY <1>1 DEF Rebuild
  <2> DEFINE seen == [i \in Index |->
                        IF i \in Written(r)
                          THEN [status |-> rows[r][last[i]].status,
                                out    |-> rows[r][last[i]].out]
                          ELSE Absent]
             x == [task[t] EXCEPT !.pc = "count", !.seen = seen]
  <2>2. rows[r] \in Seq(Row)
    BY TaskType DEF TypeInv, TypeOK
  <2>3. \A i \in Written(r) : last[i] \in DOMAIN rows[r]
    BY DEF LastRows
  <2>4. \A k \in DOMAIN rows[r] : rows[r][k] \in Row
    BY <2>2
  <2>5. \A i \in Written(r) : [status |-> rows[r][last[i]].status,
                               out    |-> rows[r][last[i]].out] \in Results
    BY <2>3, <2>4 DEF Row, Results
  <2>6. seen \in [Index -> Results \cup {Absent}]
    BY <2>5
  <2>7. task' = [task EXCEPT ![t] = x]
    BY <2>1
  <2> HIDE DEF seen
  <2>8. x \in Task /\ x.at = task[t].at /\ x.pc = "count"
    BY <2>6, TaskType DEF Task, Background
  <2>9. x.at >= 1 /\ (x.pc \in InLoop => x.at \in Index)
    BY <2>8, TaskType DEF InLoop
  <2> HIDE DEF x
  <2>10. task' \in [Tasks -> Task] /\ OnAStep'
    BY <2>7, <2>8, <2>9, OneTask
  <2> QED BY <1>1, <2>10 DEF TypeInv, TypeOK, Rebuild
<1>2. CASE Count(t)
  <2> DEFINE x == [task[t] EXCEPT !.pc = "mark", !.at = ResumeAt(r)]
  <2>1. ResumeAt(r) \in Nat /\ ResumeAt(r) >= 1
    <3>1. rows[r] \in Seq(Row)
      BY TaskType DEF TypeInv, TypeOK
    <3>2. Len(rows[r]) \in Nat
      BY <3>1
    <3> QED BY <3>2 DEF ResumeAt
  <2> HIDE DEF r
  <2>2. x \in Task /\ x.at = ResumeAt(r) /\ x.pc = "mark"
    BY <2>1, TaskType DEF Task, Background
  <2>3. task' = [task EXCEPT ![t] = x]
    BY <1>2 DEF Count, r
  <2>4. x.at >= 1 /\ (x.pc \in InLoop => x.at \in Index)
    BY <2>1, <2>2 DEF InLoop
  <2> HIDE DEF x
  <2>5. task' \in [Tasks -> Task] /\ OnAStep'
    BY <2>2, <2>3, <2>4, OneTask
  <2> QED BY <1>2, <2>5 DEF TypeInv, TypeOK, Count
<1>3. CASE Mark(t)
  <2> DEFINE bad   == AnyFailed(task[t].seen)
             pc    == IF task[t].at <= Len(Steps) THEN "check" ELSE "finish"
             final == IF bad THEN "failed" ELSE "success"
             x == [task[t] EXCEPT !.bad = bad, !.pc = pc, !.final = final]
  <2>1. bad \in BOOLEAN
    BY DEF AnyFailed
  <2>2. pc \in PCs /\ final \in {"success", "failed"}
    BY DEF PCs, Background
  <2>3. pc \in InLoop => task[t].at \in Index
    BY TaskType, StepType DEF Index, InLoop
  <2>4. task' = [task EXCEPT ![t] = x]
    BY <1>3 DEF Mark
  <2> HIDE DEF bad, pc, final
  <2>5. x \in Task /\ x.at = task[t].at /\ x.pc = pc
    BY <2>1, <2>2, TaskType DEF Task, PCs
  <2> HIDE DEF x
  <2>6. task' \in [Tasks -> Task] /\ OnAStep'
    BY <2>3, <2>4, <2>5, TaskType, OneTask
  <2>7. status' \in [Runs -> RunStatus]
    BY <1>3, TaskType DEF TypeInv, TypeOK, Mark, MarkRunRunning, RunStatus
  <2> QED BY <1>3, <2>6, <2>7 DEF TypeInv, TypeOK, Mark
<1> QED BY <1>1, <1>2, <1>3

\* The step loop keeps the types.
LEMMA LoopTypes ==
  ASSUME TypeInv, NEW t \in Tasks,
         \/ Stop(t) \/ Check(t) \/ Skip(t) \/ Park(t) \/ Refuse(t) \/ Reject(t)
         \/ StartAgent(t) \/ AgentReturns(t) \/ Finish(t)
  PROVE  TypeInv'
<1> DEFINE r == task[t].run
           i == task[t].at
<1>0. /\ r \in Runs /\ i \in Nat
      /\ task[t].pc \in InLoop => i \in Index /\ Steps[i] \in StepDefs
  BY TaskType, StepType
<1> HIDE DEF r, i
<1>1. CASE Stop(t)
  <2>1. task' \in [Tasks -> Task] /\ OnAStep'
    BY <1>1, EndTask DEF Stop
  <2> QED BY <1>1, <2>1 DEF TypeInv, TypeOK, Stop
<1>2. CASE Check(t)
  <2> DEFINE p == IF ~ShouldRun(Steps[i], task[t].seen) THEN "skip"
                  ELSE IF Steps[i].kind = "approval" THEN "park"
                  ELSE "lookup"
  <2>1. task' = [task EXCEPT ![t].pc = p] /\ task[t].pc \in InLoop
    BY <1>2 DEF Check, InLoop, i
  <2>2. p \in PCs
    BY DEF PCs, Background
  <2> HIDE DEF p
  <2>3. task' \in [Tasks -> Task] /\ OnAStep'
    BY <1>0, <2>1, <2>2, SetPC DEF i
  <2> QED BY <1>2, <2>3 DEF TypeInv, TypeOK, Check
<1>3. CASE Skip(t)
  <2> DEFINE res  == [status |-> "skipped", out |-> NoOutput]
             seen == [task[t].seen EXCEPT ![i] = res]
             x    == Advance(t, seen, task[t].bad)
  <2>1. i \in Index /\ AddRunStep(r, i, res) /\ task' = [task EXCEPT ![t] = x]
    BY <1>0, <1>3 DEF Skip, InLoop, r, i
  <2>2. res \in Results
    BY DEF Results
  <2>3. seen \in [Index -> Results \cup {Absent}]
    BY <2>1, <2>2, TaskType
  <2>4. rows' \in [Runs -> Seq(Row)]
    BY <1>0, <2>1, <2>2, RowType
  <2> HIDE DEF seen
  <2>5. x \in Task /\ x.at >= 1 /\ (x.pc \in InLoop => x.at \in Index)
    BY <2>1, <2>3, TaskType, AdvanceType DEF TypeInv, i
  <2> HIDE DEF x
  <2>6. task' \in [Tasks -> Task] /\ OnAStep'
    BY <2>1, <2>5, OneTask
  <2> QED BY <1>3, <2>4, <2>6 DEF TypeInv, TypeOK, Skip
<1>4. CASE Park(t)
  <2>1. task' \in [Tasks -> Task] /\ OnAStep'
    BY <1>4, EndTask DEF Park
  <2>2. hist' \in [Runs -> Histories]
    <3> DEFINE n == hist[r].ran[i] + 1
               h == [hist[r] EXCEPT !.gate = i, !.ran[i] = n]
    <3>1. i \in Index /\ i \in 0..Len(Steps)
      BY <1>0, <1>4, StepType DEF Park, InLoop
    <3>2. n \in Nat
      BY <1>0, <3>1, HistoryType
    <3>3. hist' = [hist EXCEPT ![r] = h]
      BY <1>4 DEF Park, r, i
    <3> HIDE DEF n
    <3>4. h \in Histories
      BY <1>0, <3>1, <3>2, HistoryType DEF Histories
    <3> HIDE DEF h
    <3> QED BY <1>0, <3>3, <3>4, OneHistory
  <2> QED BY <1>0, <1>4, <2>1, <2>2
          DEF TypeInv, TypeOK, Park, FinishRun, SetStatus, RunStatus
<1>5. CASE Refuse(t)
  <2>1. task' \in [Tasks -> Task] /\ OnAStep'
    BY <1>0, <1>5, SetPC DEF Refuse, InLoop, PCs, Background, i
  <2> QED BY <1>5, <2>1 DEF TypeInv, TypeOK, Refuse
<1>6. CASE Reject(t)
  <2> DEFINE x == [task[t] EXCEPT !.pc = "finish", !.final = "failed"]
  <2>1. x \in Task /\ x.pc = "finish" /\ x.at = task[t].at
    BY TaskType DEF Task, Background
  <2>2. task' = [task EXCEPT ![t] = x]
    BY <1>6 DEF Reject
  <2> HIDE DEF x
  <2>3. task' \in [Tasks -> Task] /\ OnAStep'
    BY <2>1, <2>2, TaskType, OneTask DEF InLoop
  <2>4. rows' \in [Runs -> Seq(Row)]
    <3>1. i \in Index /\ AddRunStep(r, i, [status |-> "failed", out |-> NoOutput])
      BY <1>0, <1>6 DEF Reject, InLoop, r, i
    <3>2. [status |-> "failed", out |-> NoOutput] \in Results
      BY DEF Results
    <3> QED BY <1>0, <3>1, <3>2, RowType
  <2> QED BY <1>6, <2>3, <2>4 DEF TypeInv, TypeOK, Reject
<1>7. CASE StartAgent(t)
  <2>1. task' \in [Tasks -> Task] /\ OnAStep'
    BY <1>0, <1>7, SetPC DEF StartAgent, InLoop, PCs, Background, i
  <2>2. hist' \in [Runs -> Histories]
    <3> DEFINE n == hist[r].ran[i] + 1
               l == IF hist[r].abort # "none" THEN hist[r].late + 1 ELSE hist[r].late
               h == [hist[r] EXCEPT !.ran[i] = n, !.late = l]
    <3>1. i \in Index
      BY <1>0, <1>7 DEF StartAgent, InLoop
    <3>2. n \in Nat /\ l \in Nat
      BY <1>0, <3>1, HistoryType
    <3>3. hist' = [hist EXCEPT ![r] = h]
      BY <1>7 DEF StartAgent, r, i
    <3> HIDE DEF n, l
    <3>4. h \in Histories
      BY <1>0, <3>1, <3>2, HistoryType DEF Histories
    <3> HIDE DEF h
    <3> QED BY <1>0, <3>3, <3>4, OneHistory
  <2> QED BY <1>7, <2>1, <2>2 DEF TypeInv, TypeOK, StartAgent
<1>8. CASE AgentReturns(t)
  <2>1. PICK s \in AgentResults, o \in Outputs :
          LET res   == [status |-> s, out |-> o]
              after == Advance(t, [task[t].seen EXCEPT ![i] = res],
                               task[t].bad \/ s = "failed")
          IN  /\ AddRunStep(r, i, res)
              /\ task' = [task EXCEPT ![t] =
                            IF s = "failed" /\ Steps[i].stops
                              THEN [after EXCEPT !.pc = "finish", !.final = "failed"]
                              ELSE after]
    BY <1>8 DEF AgentReturns, r, i
  <2> DEFINE res   == [status |-> s, out |-> o]
             seen  == [task[t].seen EXCEPT ![i] = res]
             bad   == task[t].bad \/ s = "failed"
             after == Advance(t, seen, bad)
             x     == IF s = "failed" /\ Steps[i].stops
                        THEN [after EXCEPT !.pc = "finish", !.final = "failed"] ELSE after
  <2>2. i \in Index
    BY <1>0, <1>8 DEF AgentReturns, InLoop
  <2>3. res \in Results
    BY ResultsAssumption DEF Results
  <2>4. seen \in [Index -> Results \cup {Absent}] /\ bad \in BOOLEAN
    BY <2>2, <2>3, TaskType
  <2>5. rows' \in [Runs -> Seq(Row)]
    BY <1>0, <2>1, <2>2, <2>3, RowType
  <2>6. task' = [task EXCEPT ![t] = x]
    BY <2>1
  <2> HIDE DEF seen, bad
  <2>7. after \in Task /\ after.at >= 1 /\ (after.pc \in InLoop => after.at \in Index)
    BY <2>2, <2>4, AdvanceType DEF TypeInv, i
  <2> HIDE DEF after
  <2>8. x \in Task /\ x.at >= 1 /\ (x.pc \in InLoop => x.at \in Index)
    BY <2>7 DEF Task, Background, InLoop
  <2> HIDE DEF x
  <2>9. task' \in [Tasks -> Task] /\ OnAStep'
    BY <2>6, <2>8, OneTask
  <2> QED BY <1>8, <2>5, <2>9 DEF TypeInv, TypeOK, AgentReturns
<1>9. CASE Finish(t)
  <2>1. task' \in [Tasks -> Task] /\ OnAStep'
    BY <1>9, EndTask DEF Finish
  <2>2. task[t].final \in {"success", "failed"}
    BY TaskType DEF Task
  <2> QED BY <1>0, <1>9, <2>1, <2>2
          DEF TypeInv, TypeOK, Finish, FinishRun, SetStatus, RunStatus, Settled, r
<1> QED BY <1>1, <1>2, <1>3, <1>4, <1>5, <1>6, <1>7, <1>8, <1>9

\* Aborts, failures and deployments keep the types.
LEMMA EventTypes ==
  ASSUME TypeInv,
         \/ \E r \in Runs : Abort(r)
         \/ \E t \in Tasks : Raise(t) \/ RecordFails(t) \/ HandlerFails(t)
         \/ Crash \/ Rollout \/ OldPodExits
  PROVE  TypeInv'
<1>1. ASSUME NEW r \in Runs, Abort(r) PROVE TypeInv'
  <2>1. left' \in [Events -> Nat]
    BY <1>1, SpendType DEF Abort, Events
  <2>2. hist' \in [Runs -> Histories]
    <3> DEFINE a == IF \E t \in Tasks : task[t].run = r /\ PastCheck(t)
                      THEN "in step" ELSE "at rest"
               h == [hist[r] EXCEPT !.late = 0, !.abort = a]
    <3>1. hist' = [hist EXCEPT ![r] = h]
      BY <1>1 DEF Abort
    <3>2. a \in {"none", "at rest", "in step"}
      OBVIOUS
    <3> HIDE DEF a
    <3>3. h \in Histories
      BY <3>2, HistoryType DEF Histories
    <3> HIDE DEF h
    <3> QED BY <3>1, <3>3, OneHistory
  <2> QED BY <1>1, <2>1, <2>2
          DEF TypeInv, TypeOK, OnAStep, Abort, SetStatus, RunStatus, Settled
<1>2. ASSUME NEW t \in Tasks, Raise(t) PROVE TypeInv'
  <2> DEFINE x == [task[t] EXCEPT !.pc = "record", !.final = "failed"]
  <2>1. x \in Task /\ x.pc = "record" /\ x.at = task[t].at
    BY TaskType DEF Task, Background
  <2>2. task' = [task EXCEPT ![t] = x]
    BY <1>2 DEF Raise
  <2> HIDE DEF x
  <2>3. task' \in [Tasks -> Task] /\ OnAStep'
    BY <2>1, <2>2, TaskType, OneTask DEF InLoop
  <2>4. left' \in [Events -> Nat]
    BY <1>2, SpendType DEF Raise, Events
  <2> QED BY <1>2, <2>3, <2>4 DEF TypeInv, TypeOK, Raise
<1>3. ASSUME NEW t \in Tasks, RecordFails(t) \/ HandlerFails(t) PROVE TypeInv'
  <2>1. task' \in [Tasks -> Task] /\ OnAStep'
    BY <1>3, EndTask DEF RecordFails, HandlerFails
  <2>2. left' \in [Events -> Nat]
    BY <1>3, SpendType DEF RecordFails, HandlerFails, Events
  <2>3. lost' \in SUBSET Runs
    BY <1>3 DEF RecordFails, HandlerFails, TypeInv, TypeOK
  <2> QED BY <1>3, <2>1, <2>2, <2>3 DEF TypeInv, TypeOK, RecordFails, HandlerFails
<1>4. \A t \in Tasks : Done(t) \in Task /\ Done(t).at = 1 /\ Done(t).pc = "idle"
  <2> SUFFICES ASSUME NEW t \in Tasks
               PROVE  Done(t) \in Task /\ Done(t).at = 1 /\ Done(t).pc = "idle"
    OBVIOUS
  <2>1. NoTask(task[t].run) \in Task
    BY TaskType, NoTaskType
  <2> QED BY <2>1 DEF Done, NoTask, NewTask
<1>5. CASE Crash
  <2>1. task' \in [Tasks -> Task] /\ OnAStep'
    BY <1>4, <1>5 DEF Crash, OnAStep, InLoop
  <2>2. left' \in [Events -> Nat]
    BY <1>5, SpendType DEF Crash, Events
  <2> QED BY <1>5, <2>1, <2>2 DEF TypeInv, TypeOK, Crash, FailOrphanedRuns, RunStatus, Settled
<1>6. CASE Rollout
  <2> DEFINE x(t) == [task[t] EXCEPT !.old = Live(t)]
  <2>1. task' = [t \in Tasks |-> x(t)]
    BY <1>6 DEF Rollout
  <2>2. ASSUME NEW t \in Tasks
        PROVE  x(t) \in Task /\ x(t).at = task[t].at /\ x(t).pc = task[t].pc
    <3>1. Live(t) \in BOOLEAN
      BY DEF Live
    <3> QED BY <3>1, TaskType DEF Task
  <2> HIDE DEF x
  <2>3. task' \in [Tasks -> Task] /\ OnAStep'
    BY <2>1, <2>2 DEF TypeInv, OnAStep
  <2>4. left' \in [Events -> Nat]
    BY <1>6, SpendType DEF Rollout, Events
  <2> QED BY <1>6, <2>3, <2>4
          DEF TypeInv, TypeOK, Rollout, FailOrphanedRuns, RunStatus, Settled
<1>7. CASE OldPodExits
  <2>1. task' = [t \in Tasks |-> IF task[t].old THEN Done(t) ELSE task[t]]
    BY <1>7 DEF OldPodExits
  <2>2. task' \in [Tasks -> Task] /\ OnAStep'
    BY <1>4, <2>1, TaskType DEF TypeInv, OnAStep, InLoop
  <2> QED BY <1>7, <2>2 DEF TypeInv, TypeOK, OldPodExits
<1> QED BY <1>1, <1>2, <1>3, <1>5, <1>6, <1>7

\* Every step keeps the types.
LEMMA TypeStep == TypeInv /\ [Next]_vars => TypeInv'
<1> SUFFICES ASSUME TypeInv, [Next]_vars PROVE TypeInv'
  OBVIOUS
<1>1. CASE UNCHANGED vars
  BY <1>1 DEF vars, TypeInv, TypeOK, OnAStep
<1>2. ASSUME NEW t \in Tasks, Coroutine(t) PROVE TypeInv'
  <2>1. PICK r \in Runs : r = task[t].run
    BY TaskType
  <2> QED BY <1>2, <2>1, HandlerTypes, EntryTypes, LoopTypes DEF Coroutine
<1>3. ASSUME NEW r \in Runs, NEW t \in Tasks, Execute(r, t) \/ Approve(r, t) PROVE TypeInv'
  BY <1>3, HandlerTypes
<1> QED BY <1>1, <1>2, <1>3, EventTypes DEF Next

\* Type correctness of the engine: whatever the plan and the environment do, every
\* status is one of the run_status enum, every row and every coroutine's local has
\* its type, and a coroutine in the loop body stands on a step of the plan.
THEOREM TypeCorrect == Spec => []TypeOK
<1>1. Spec => []TypeInv
  BY InitType, TypeStep, PTL DEF Spec
<1>2. TypeInv => TypeOK
  BY DEF TypeInv
<1> QED BY <1>1, <1>2, PTL

-----------------------------------------------------------------------------
(* A human gate holds *)

\* GateHonoured speaks of what has run; it is kept because of where the coroutines
\* of a run without an approval stand: none has come by resume_flightplan, none is
\* past an unconditional approval step, none skips one, and none takes an approval
\* step for an agent step.
OpenGates == {g \in Gates : Steps[g].dep = 0}

InFront(x) ==
  /\ x.pc \notin {"approved", "rebuild", "count"}
  /\ \A g \in OpenGates : x.at <= g
  /\ x.pc = "skip" => x.at \notin OpenGates
  /\ x.pc \in {"lookup", "reject", "agent"} => x.at \notin Gates

AllInFront == \A t \in Tasks : Live(t) /\ hist[task[t].run].granted = 0 => InFront(task[t])

GateInv == AllInFront /\ GateHonoured

\* Approvals are never taken back; what else a step observes is of the runs' steps.
Granted == \A r \in Runs : hist'[r].granted = 0 => hist[r].granted = 0

\* One task moves, and stays in front of the gates if its run has no approval.
LEMMA OneInFront ==
  ASSUME TypeInv, AllInFront, Granted, NEW t \in Tasks, NEW x,
         task' = [task EXCEPT ![t] = x],
         x.pc # "idle" /\ hist'[x.run].granted = 0 => InFront(x)
  PROVE  AllInFront'
<1> SUFFICES ASSUME NEW u \in Tasks, Live(u)', hist'[task'[u].run].granted = 0
             PROVE  InFront(task'[u])
  BY DEF AllInFront, InFront
<1>1. CASE u = t
  <2>1. task'[u] = x
    BY <1>1 DEF TypeInv, TypeOK
  <2> QED BY <2>1 DEF Live
<1>2. CASE u # t
  <2>1. task'[u] = task[u]
    BY <1>2 DEF TypeInv, TypeOK
  <2>2. task[u].run \in Runs
    BY TaskType
  <2> QED BY <2>1, <2>2 DEF AllInFront, Live, Granted
<1> QED BY <1>1, <1>2

\* The same, for a task that keeps its run, moves to p and stands at n.
LEMMA MovesInFront ==
  ASSUME TypeInv, AllInFront, UNCHANGED hist, NEW t \in Tasks, Live(t), NEW x,
         task' = [task EXCEPT ![t] = x], x.run = task[t].run,
         InFront(task[t]) => x.pc = "idle" \/ InFront(x)
  PROVE  AllInFront'
<1>1. Granted
  BY DEF Granted
<1>2. x.pc # "idle" /\ hist'[x.run].granted = 0 => InFront(x)
  BY DEF AllInFront
<1> QED BY <1>1, <1>2, OneInFront

\* What Advance makes of a task: it stands one step further.
LEMMA AdvanceFields ==
  ASSUME TypeInv, NEW t \in Tasks, NEW seen, NEW bad
  PROVE  /\ Advance(t, seen, bad).pc \in {"check", "finish"}
         /\ Advance(t, seen, bad).at = task[t].at + 1
         /\ Advance(t, seen, bad).run = task[t].run
<1>1. task[t] \in Task
  BY TaskType
<1> QED BY <1>1 DEF Advance, Task

\* A step that is over and was no unconditional gate leaves the task in front of
\* the next one.
LEMMA AdvanceInFront ==
  ASSUME TypeInv, NEW t \in Tasks, InFront(task[t]), task[t].at \notin OpenGates,
         NEW x, x.pc \in {"check", "finish"}, x.at = task[t].at + 1
  PROVE  InFront(x)
<1>1. \A g \in OpenGates : g \in Nat /\ task[t].at <= g /\ task[t].at # g
  BY StepType DEF InFront, OpenGates, Gates
<1>2. \A g \in OpenGates : x.at <= g
  BY <1>1, TaskType
<1> QED BY <1>2 DEF InFront

\* The handlers keep the gates.
LEMMA HandlerGates ==
  ASSUME TypeInv, GateInv, NEW r \in Runs, NEW t \in Tasks,
         Execute(r, t) \/ Approve(r, t) \/ SpawnExecute(t) \/ SpawnResume(t)
  PROVE  GateInv'
<1>1. CASE Execute(r, t)
  <2>1. PICK who \in Triggers, old \in {FALSE, overlap} :
          task' = [task EXCEPT ![t] = NewTask("created", r, who.role, 0, old)]
    BY <1>1 DEF Execute
  <2>2. InFront(NewTask("created", r, who.role, 0, old))
    BY StepType DEF InFront, NewTask, OpenGates, Gates
  <2>3. UNCHANGED hist
    BY <1>1 DEF Execute
  <2>4. AllInFront'
    BY <2>1, <2>2, <2>3, OneInFront DEF GateInv, Granted
  <2> QED BY <2>3, <2>4 DEF GateInv, GateHonoured
<1>2. CASE Approve(r, t)
  <2>1. PICK old \in {FALSE, overlap} :
          /\ task' = [task EXCEPT ![t] = NewTask("approved", r, Viewer, hist[r].gate, old)]
          /\ hist' = [hist EXCEPT ![r].granted = @ + 1]
    BY <1>2 DEF Approve
  <2>2. \A q \in Runs : hist[q] \in Histories /\ hist[q].granted \in Nat
    BY HistoryType
  <2>3. /\ hist'[r].granted = hist[r].granted + 1
        /\ \A q \in Runs : hist'[q].ran = hist[q].ran
        /\ \A q \in Runs : q # r => hist'[q].granted = hist[q].granted
    BY <2>1, <2>2 DEF TypeInv, TypeOK, Histories
  <2>4. Granted /\ hist'[r].granted > 0
    <3>1. hist'[r].granted > 0
      <4>1. hist[r].granted \in Nat /\ hist'[r].granted = hist[r].granted + 1
        BY <2>3, HistoryType
      <4> QED BY <4>1
    <3>2. ASSUME NEW q \in Runs, hist'[q].granted = 0 PROVE hist[q].granted = 0
      BY <2>3, <3>1, <3>2
    <3> QED BY <3>1, <3>2 DEF Granted
  <2>5. PICK x : task' = [task EXCEPT ![t] = x] /\ x.run = r
    <3>1. NewTask("approved", r, Viewer, hist[r].gate, old).run = r
      BY DEF NewTask
    <3> QED BY <2>1, <3>1
  <2>6. AllInFront'
    <3>1. hist'[x.run].granted # 0
      BY <2>4, <2>5
    <3> QED BY <2>4, <2>5, <3>1, OneInFront DEF GateInv
  <2>7. GateHonoured'
    BY <2>2, <2>3, <2>4 DEF GateInv, GateHonoured
  <2> QED BY <2>6, <2>7 DEF GateInv
<1>3. CASE SpawnExecute(t)
  <2> DEFINE x == [task[t] EXCEPT !.pc = "mark"]
  <2>1. task' = [task EXCEPT ![t] = x] /\ Live(t) /\ UNCHANGED hist
    BY <1>3 DEF SpawnExecute, Live
  <2>2. x.pc = "mark" /\ x.run = task[t].run /\ x.at = task[t].at
    BY TaskType DEF Task
  <2> HIDE DEF x
  <2>3. AllInFront'
    BY <2>1, <2>2, MovesInFront DEF GateInv, InFront
  <2> QED BY <2>1, <2>3 DEF GateInv, GateHonoured
<1>4. CASE SpawnResume(t)
  <2>1. PICK role \in IF by[task[t].run] = "user" THEN CurrentRoles ELSE {Viewer} :
          task' = [task EXCEPT ![t].pc = "rebuild", ![t].role = role]
    BY <1>4 DEF SpawnResume
  <2> DEFINE x == [task[t] EXCEPT !.pc = "rebuild", !.role = role]
  <2>2. task' = [task EXCEPT ![t] = x] /\ Live(t) /\ UNCHANGED hist /\ ~InFront(task[t])
    BY <1>4, <2>1 DEF SpawnResume, Live, InFront
  <2>3. x.run = task[t].run
    BY TaskType DEF Task
  <2> HIDE DEF x
  <2>4. AllInFront'
    BY <2>2, <2>3, MovesInFront DEF GateInv
  <2> QED BY <2>2, <2>4 DEF GateInv, GateHonoured
<1> QED BY <1>1, <1>2, <1>3, <1>4

\* The coroutines keep the gates: only Park and StartAgent record a step as reached.
LEMMA CoroutineGates ==
  ASSUME TypeInv, GateInv, NEW t \in Tasks, Coroutine(t)
  PROVE  GateInv'
<1> DEFINE r == task[t].run
           i == task[t].at
<1>0. /\ r \in Runs /\ task[t] \in Task /\ task[t].run = r /\ task[t].at = i
      /\ task[t].pc \in InLoop => i \in Index
  BY TaskType
<1> HIDE DEF r, i
<1>1. CASE SpawnExecute(t) \/ SpawnResume(t)
  BY <1>0, <1>1, HandlerGates
<1>2. CASE Rebuild(t) \/ Count(t)
  <2>1. Live(t) /\ UNCHANGED hist /\ ~InFront(task[t])
    BY <1>2 DEF Rebuild, Count, Live, InFront
  <2>2. PICK x : task' = [task EXCEPT ![t] = x] /\ x.run = task[t].run
    <3>1. CASE Rebuild(t)
      <4>1. PICK seen : task' = [task EXCEPT ![t].pc = "count", ![t].seen = seen]
        BY <3>1 DEF Rebuild
      <4>2. [task[t] EXCEPT !.pc = "count", !.seen = seen].run = task[t].run
        BY <1>0 DEF Task
      <4> QED BY <4>1, <4>2
    <3>2. CASE Count(t)
      <4>1. task' = [task EXCEPT ![t].pc = "mark", ![t].at = ResumeAt(r)]
        BY <3>2 DEF Count, r
      <4>2. [task[t] EXCEPT !.pc = "mark", !.at = ResumeAt(r)].run = task[t].run
        BY <1>0 DEF Task
      <4> QED BY <4>1, <4>2
    <3> QED BY <1>2, <3>1, <3>2
  <2>3. AllInFront'
    BY <2>1, <2>2, MovesInFront DEF GateInv
  <2> QED BY <2>1, <2>3 DEF GateInv, GateHonoured
<1>3. CASE Mark(t)
  <2> DEFINE bad == AnyFailed(task[t].seen)
             p   == IF task[t].at <= Len(Steps) THEN "check" ELSE "finish"
             f   == IF bad THEN "failed" ELSE "success"
             x   == [task[t] EXCEPT !.bad = bad, !.pc = p, !.final = f]
  <2>1. task' = [task EXCEPT ![t] = x] /\ Live(t) /\ UNCHANGED hist
    BY <1>3 DEF Mark, Live
  <2>2. p \in {"check", "finish"}
    OBVIOUS
  <2> HIDE DEF bad, p, f
  <2>3. x.pc = p /\ x.run = task[t].run /\ x.at = task[t].at
    BY <1>0 DEF Task
  <2> HIDE DEF x
  <2>4. AllInFront'
    BY <2>1, <2>2, <2>3, MovesInFront DEF GateInv, InFront
  <2> QED BY <2>1, <2>4 DEF GateInv, GateHonoured
<1>4. CASE Stop(t) \/ Finish(t)
  <2>1. task' = [task EXCEPT ![t] = Done(t)] /\ Live(t) /\ UNCHANGED hist
    BY <1>4 DEF Stop, Finish, Live
  <2>2. Done(t).pc = "idle" /\ Done(t).run = task[t].run
    BY DEF Done, NoTask, NewTask
  <2>3. AllInFront'
    BY <2>1, <2>2, MovesInFront DEF GateInv
  <2> QED BY <2>1, <2>3 DEF GateInv, GateHonoured
<1>5. CASE Check(t)
  <2> DEFINE p == IF ~ShouldRun(Steps[i], task[t].seen) THEN "skip"
                  ELSE IF Steps[i].kind = "approval" THEN "park"
                  ELSE "lookup"
             x == [task[t] EXCEPT !.pc = p]
  <2>1. task' = [task EXCEPT ![t] = x] /\ Live(t) /\ UNCHANGED hist
    BY <1>5 DEF Check, Live, i
  <2>2. /\ p \in {"skip", "park", "lookup"}
        /\ p = "skip" => i \notin OpenGates
        /\ p = "lookup" => i \notin Gates
    BY DEF ShouldRun, OpenGates, Gates
  <2> HIDE DEF p
  <2>3. x.pc = p /\ x.run = task[t].run /\ x.at = i
    BY <1>0 DEF Task
  <2> HIDE DEF x
  <2>4. AllInFront'
    BY <1>0, <2>1, <2>2, <2>3, MovesInFront DEF GateInv, InFront
  <2> QED BY <2>1, <2>4 DEF GateInv, GateHonoured
<1>6. CASE Skip(t)
  <2>1. PICK seen : task' = [task EXCEPT ![t] = Advance(t, seen, task[t].bad)]
    BY <1>6 DEF Skip
  <2>2. task[t].pc = "skip" /\ Live(t) /\ UNCHANGED hist
    BY <1>6 DEF Skip, Live
  <2> DEFINE x == Advance(t, seen, task[t].bad)
  <2>3. x.pc \in {"check", "finish"} /\ x.at = task[t].at + 1 /\ x.run = task[t].run
    BY AdvanceFields
  <2> HIDE DEF x
  <2>4. InFront(task[t]) => InFront(x)
    BY <2>2, <2>3, AdvanceInFront DEF InFront
  <2>5. AllInFront'
    BY <2>1, <2>2, <2>3, <2>4, MovesInFront DEF GateInv, x
  <2> QED BY <2>2, <2>5 DEF GateInv, GateHonoured
<1>7. CASE Park(t) \/ StartAgent(t)
  <2> DEFINE Observed(h) == /\ hist' = [hist EXCEPT ![r] = h]
                            /\ h.granted = hist[r].granted
                            /\ \A j \in Index : j # i => h.ran[j] = hist[r].ran[j]
             Moved(x) == /\ task' = [task EXCEPT ![t] = x] /\ x.run = r
                         /\ InFront(task[t]) => x.pc = "idle" \/ InFront(x)
  <2>0. (\E h \in Histories : Observed(h)) /\ (\E x : Moved(x))
    <3>0. /\ i \in Index /\ hist[r] \in Histories /\ hist[r].ran[i] + 1 \in Nat
          /\ i \in 0..Len(Steps) /\ hist[r].late + 1 \in Nat /\ hist[r].late \in Nat
      <4>1. i \in Index
        BY <1>0, <1>7 DEF Park, StartAgent, InLoop
      <4> QED BY <1>0, <4>1, HistoryType, StepType
    <3>1. CASE Park(t)
      <4> DEFINE h == [hist[r] EXCEPT !.gate = i, !.ran[i] = @ + 1]
                 x == Done(t)
      <4>1. hist' = [hist EXCEPT ![r] = h] /\ task' = [task EXCEPT ![t] = x]
        BY <3>1 DEF Park, r, i
      <4>2. /\ h \in Histories /\ h.granted = hist[r].granted
            /\ \A j \in Index : j # i => h.ran[j] = hist[r].ran[j]
        BY <3>0 DEF Histories
      <4>3. x.pc = "idle" /\ x.run = r
        BY <1>0 DEF Done, NoTask, NewTask
      <4> HIDE DEF h, x
      <4>4. Observed(h) /\ Moved(x)
        BY <4>1, <4>2, <4>3
      <4> HIDE DEF Observed, Moved
      <4> QED BY <4>2, <4>4
    <3>2. CASE StartAgent(t)
      <4> DEFINE l == IF hist[r].abort # "none" THEN hist[r].late + 1 ELSE hist[r].late
                 h == [hist[r] EXCEPT !.ran[i] = @ + 1, !.late = l]
                 x == [task[t] EXCEPT !.pc = "agent"]
      <4>1. hist' = [hist EXCEPT ![r] = h] /\ task' = [task EXCEPT ![t] = x]
        BY <3>2 DEF StartAgent, r, i
      <4>2. l \in Nat
        BY <3>0
      <4> HIDE DEF l
      <4>3. /\ h \in Histories /\ h.granted = hist[r].granted
            /\ \A j \in Index : j # i => h.ran[j] = hist[r].ran[j]
        BY <3>0, <4>2 DEF Histories
      <4>4. x.pc = "agent" /\ x.run = r /\ x.at = i
        BY <1>0 DEF Task
      <4> HIDE DEF h, x
      <4>5. InFront(task[t]) => InFront(x)
        BY <1>0, <3>2, <4>4 DEF InFront, StartAgent
      <4>6. Observed(h) /\ Moved(x)
        BY <4>1, <4>3, <4>4, <4>5
      <4> HIDE DEF Observed, Moved
      <4> QED BY <4>3, <4>6
    <3> QED BY <1>7, <3>1, <3>2
  <2> HIDE DEF Observed, Moved
  <2>a. PICK h \in Histories : Observed(h)
    BY <2>0
  <2>1. PICK x : Moved(x)
    BY <2>0
  <2>2. \A q \in Runs : hist'[q].granted = hist[q].granted
    BY <1>0, <2>a DEF TypeInv, TypeOK, Observed
  <2>3. Live(t)
    BY <1>7 DEF Live, Park, StartAgent
  <2>4. x.pc # "idle" /\ hist'[x.run].granted = 0 => InFront(x)
    BY <1>0, <2>1, <2>2, <2>3 DEF GateInv, AllInFront, Moved
  <2>5. Granted
    BY <2>2 DEF Granted
  <2>6. AllInFront'
    BY <2>1, <2>4, <2>5, OneInFront DEF GateInv, Moved
  <2>7. GateHonoured'
    <3> SUFFICES ASSUME NEW q \in Runs, NEW g \in Gates, NEW j \in Index,
                        Steps[g].dep = 0, g < j, hist'[q].ran[j] > 0
                 PROVE  hist'[q].granted > 0
      BY DEF GateHonoured
    <3>1. CASE hist[q].ran[j] > 0
      BY <2>2, <3>1 DEF GateInv, GateHonoured
    <3>2. CASE ~(hist[q].ran[j] > 0)
      <4>1. q = r /\ j = i
        BY <1>0, <2>a, <3>2 DEF TypeInv, TypeOK, Observed
      <4>2. g \in OpenGates /\ g \in Nat /\ j \in Nat
        BY StepType DEF OpenGates, Gates
      <4>3. ~InFront(task[t])
        BY <1>0, <4>1, <4>2 DEF InFront
      <4>4. hist[q].granted # 0
        BY <1>0, <2>3, <4>1, <4>3 DEF GateInv, AllInFront
      <4> QED BY <2>2, <4>4, HistoryType
    <3> QED BY <3>1, <3>2
  <2> QED BY <2>6, <2>7 DEF GateInv
<1>8. CASE Refuse(t)
  <2> DEFINE x == [task[t] EXCEPT !.pc = "reject"]
  <2>1. /\ task' = [task EXCEPT ![t] = x] /\ Live(t) /\ UNCHANGED hist
        /\ task[t].pc = "lookup"
    BY <1>8 DEF Refuse, Live
  <2>2. x.pc = "reject" /\ x.run = task[t].run /\ x.at = task[t].at
    BY <1>0 DEF Task
  <2> HIDE DEF x
  <2>3. AllInFront'
    BY <2>1, <2>2, MovesInFront DEF GateInv, InFront
  <2> QED BY <2>1, <2>3 DEF GateInv, GateHonoured
<1>9. CASE Reject(t)
  <2> DEFINE x == [task[t] EXCEPT !.pc = "finish", !.final = "failed"]
  <2>1. task' = [task EXCEPT ![t] = x] /\ Live(t) /\ UNCHANGED hist
    BY <1>9 DEF Reject, Live
  <2>2. x.pc = "finish" /\ x.run = task[t].run /\ x.at = task[t].at
    BY <1>0 DEF Task
  <2> HIDE DEF x
  <2>3. AllInFront'
    BY <2>1, <2>2, MovesInFront DEF GateInv, InFront
  <2> QED BY <2>1, <2>3 DEF GateInv, GateHonoured
<1>10. CASE AgentReturns(t)
  <2>1. PICK seen, bad :
          \/ task' = [task EXCEPT ![t] = [Advance(t, seen, bad) EXCEPT !.pc = "finish",
                                                                     !.final = "failed"]]
          \/ task' = [task EXCEPT ![t] = Advance(t, seen, bad)]
    <3>1. PICK s \in AgentResults, o \in Outputs :
            task' = [task EXCEPT ![t] =
              IF s = "failed" /\ Steps[i].stops
                THEN [Advance(t, [task[t].seen EXCEPT ![i] = [status |-> s, out |-> o]],
                              task[t].bad \/ s = "failed") EXCEPT !.pc = "finish", !.final = "failed"]
                ELSE Advance(t, [task[t].seen EXCEPT ![i] = [status |-> s, out |-> o]],
                             task[t].bad \/ s = "failed")]
      BY <1>10 DEF AgentReturns, i
    <3> QED BY <3>1
  <2>2. task[t].pc = "agent" /\ Live(t) /\ UNCHANGED hist
    BY <1>10 DEF AgentReturns, Live
  <2> DEFINE a == Advance(t, seen, bad)
  <2>3. PICK x : /\ task' = [task EXCEPT ![t] = x]
                 /\ x = a \/ x = [a EXCEPT !.pc = "finish", !.final = "failed"]
    BY <2>1
  <2>4. a.pc \in {"check", "finish"} /\ a.at = task[t].at + 1 /\ a.run = task[t].run
    BY AdvanceFields
  <2>5. x.pc \in {"check", "finish"} /\ x.at = task[t].at + 1 /\ x.run = task[t].run
    <3>1. DOMAIN a = DOMAIN task[t] /\ "pc" \in DOMAIN task[t]
      BY <1>0 DEF Advance, Task
    <3> HIDE DEF a
    <3>2. CASE x = a
      BY <2>4, <3>2
    <3>3. CASE x = [a EXCEPT !.pc = "finish", !.final = "failed"]
      BY <1>0, <2>4, <3>1, <3>3 DEF Task
    <3> QED BY <2>3, <3>2, <3>3
  <2>6. InFront(task[t]) => InFront(x)
    BY <2>2, <2>5, AdvanceInFront DEF InFront, OpenGates
  <2>7. AllInFront'
    BY <2>2, <2>5, <2>3, <2>6, MovesInFront DEF GateInv
  <2> QED BY <2>2, <2>7 DEF GateInv, GateHonoured
<1> QED BY <1>1, <1>2, <1>3, <1>4, <1>5, <1>6, <1>7, <1>8, <1>9, <1>10 DEF Coroutine

\* Aborts, failures and deployments keep the gates: they start no agent, and the
\* coroutines they leave stand where they stood.
LEMMA EventGates ==
  ASSUME TypeInv, GateInv,
         \/ \E r \in Runs : Abort(r)
         \/ \E t \in Tasks : Raise(t) \/ RecordFails(t) \/ HandlerFails(t)
         \/ Crash \/ Rollout \/ OldPodExits
  PROVE  GateInv'
<1>1. ASSUME NEW r \in Runs, Abort(r) PROVE GateInv'
  <2>1. \A q \in Runs : hist[q] \in Histories
    BY HistoryType
  <2>2. \A q \in Runs : hist'[q].granted = hist[q].granted /\ hist'[q].ran = hist[q].ran
    BY <1>1, <2>1 DEF Abort, TypeInv, TypeOK, Histories
  <2>3. UNCHANGED task
    BY <1>1 DEF Abort
  <2>4. \A t \in Tasks : task[t].run \in Runs
    BY TaskType
  <2> QED BY <2>2, <2>3, <2>4 DEF GateInv, AllInFront, InFront, Live, GateHonoured
<1>2. ASSUME NEW t \in Tasks, Raise(t) PROVE GateInv'
  <2> DEFINE x == [task[t] EXCEPT !.pc = "record", !.final = "failed"]
  <2>1. task' = [task EXCEPT ![t] = x] /\ Live(t) /\ UNCHANGED hist
    BY <1>2 DEF Raise, Live, Background
  <2>2. x.pc = "record" /\ x.run = task[t].run /\ x.at = task[t].at
    BY TaskType DEF Task
  <2> HIDE DEF x
  <2>3. AllInFront'
    BY <2>1, <2>2, MovesInFront DEF GateInv, InFront
  <2> QED BY <2>1, <2>3 DEF GateInv, GateHonoured
<1>3. ASSUME NEW t \in Tasks, RecordFails(t) \/ HandlerFails(t) PROVE GateInv'
  <2>1. task' = [task EXCEPT ![t] = Done(t)] /\ Live(t) /\ UNCHANGED hist
    BY <1>3 DEF RecordFails, HandlerFails, Live, Handling
  <2>2. Done(t).pc = "idle" /\ Done(t).run = task[t].run
    BY DEF Done, NoTask, NewTask
  <2>3. AllInFront'
    BY <2>1, <2>2, MovesInFront DEF GateInv
  <2> QED BY <2>1, <2>3 DEF GateInv, GateHonoured
<1>4. CASE Crash \/ Rollout \/ OldPodExits
  <2>1. UNCHANGED hist
    BY <1>4 DEF Crash, Rollout, OldPodExits
  <2>2. ASSUME NEW t \in Tasks
        PROVE  \/ task'[t].pc = "idle"
               \/ /\ task'[t].pc = task[t].pc
                  /\ task'[t].run = task[t].run /\ task'[t].at = task[t].at
    <3>1. task[t] \in Task /\ Done(t).pc = "idle"
      BY TaskType DEF Done, NoTask, NewTask
    <3>2. CASE Crash
      BY <3>1, <3>2 DEF Crash
    <3>3. CASE Rollout
      BY <3>1, <3>3 DEF Rollout, Task
    <3>4. CASE OldPodExits
      BY <3>1, <3>4 DEF OldPodExits
    <3> QED BY <1>4, <3>2, <3>3, <3>4
  <2>3. AllInFront'
    BY <2>1, <2>2 DEF GateInv, AllInFront, InFront, Live
  <2> QED BY <2>1, <2>3 DEF GateInv, GateHonoured
<1> QED BY <1>1, <1>2, <1>3, <1>4

\* Every step keeps the gates.
LEMMA GateStep == TypeInv /\ GateInv /\ [Next]_vars => GateInv'
<1> SUFFICES ASSUME TypeInv, GateInv, [Next]_vars PROVE GateInv'
  OBVIOUS
<1>1. CASE UNCHANGED vars
  BY <1>1 DEF vars, GateInv, AllInFront, InFront, Live, GateHonoured
<1>2. ASSUME NEW t \in Tasks, Coroutine(t) PROVE GateInv'
  BY <1>2, CoroutineGates
<1>3. ASSUME NEW r \in Runs, NEW t \in Tasks, Execute(r, t) \/ Approve(r, t) PROVE GateInv'
  BY <1>3, HandlerGates
<1> QED BY <1>1, <1>2, <1>3, EventGates DEF Next

\* A human gate holds, for every plan and every environment: no agent of a step
\* behind an unconditional approval step (`type: approval` without `when`) starts in
\* a run for which the approve route has accepted no request.
THEOREM GatesHold == Spec => []GateHonoured
<1>1. Init => GateInv
  <2> SUFFICES ASSUME Init PROVE GateInv
    OBVIOUS
  <2>1. \A t \in Tasks : ~Live(t)
    BY DEF Init, NoTask, NewTask, Live
  <2>2. \A r \in Runs, i \in Index : hist[r].ran[i] = 0
    BY DEF Init, NoHistory
  <2> QED BY <2>1, <2>2 DEF GateInv, AllInFront, GateHonoured
<1>2. Spec => []TypeInv
  BY InitType, TypeStep, PTL DEF Spec
<1>3. Spec => []GateInv
  BY <1>1, <1>2, GateStep, PTL DEF Spec
<1>4. GateInv => GateHonoured
  BY DEF GateInv
<1> QED BY <1>3, <1>4, PTL

-----------------------------------------------------------------------------
(* A running run has an owner *)

\* The coroutines that execute a run: from mark_run_running on.
Executing == {"check", "skip", "park", "lookup", "reject", "agent", "finish", "record"}

\* Before the first overlapping deployment there is one pod and no task belongs to an
\* old one, so that nothing but a coroutine's own verdict, a start-up, or an exception
\* that could not be recorded ends its execution.
OwnerInv ==
  /\ left["rollout"] \in Nat /\ left["rollout"] <= Budget["rollout"]
  /\ left["rollout"] = Budget["rollout"] =>
       /\ ~overlap /\ \A t \in Tasks : ~task[t].old
       /\ \A r \in Runs : status[r] = "running" /\ r \notin lost =>
            \E t \in Tasks : task[t].run = r /\ task[t].pc \in Executing

\* No deployment overlaps two pods, and what is lost stays lost.
SameRollouts == left'["rollout"] = left["rollout"] /\ (overlap' => overlap) /\ lost \subseteq lost'

\* One task changes: what is running afterwards was running before, and if it was
\* this task that executed it, it still does; or this task executes it now.
LEMMA OneOwner ==
  ASSUME TypeInv, OwnerInv, SameRollouts, NEW t \in Tasks, NEW x,
         task' = [task EXCEPT ![t] = x], x.old => task[t].old \/ overlap,
         \A r \in Runs : status'[r] = "running" /\ r \notin lost' =>
           \/ x.run = r /\ x.pc \in Executing
           \/ status[r] = "running" /\ ~(task[t].run = r /\ task[t].pc \in Executing)
  PROVE  OwnerInv'
<1>1. \A u \in Tasks : task'[u] = IF u = t THEN x ELSE task[u]
  BY DEF TypeInv, TypeOK
<1> SUFFICES ASSUME left["rollout"] = Budget["rollout"]
             PROVE  /\ ~overlap' /\ \A u \in Tasks : ~task'[u].old
                    /\ \A r \in Runs : status'[r] = "running" /\ r \notin lost' =>
                         \E u \in Tasks : task'[u].run = r /\ task'[u].pc \in Executing
  BY DEF OwnerInv, SameRollouts
<1>2. ~overlap' /\ \A u \in Tasks : ~task'[u].old
  BY <1>1 DEF OwnerInv, SameRollouts
<1>3. ASSUME NEW r \in Runs, status'[r] = "running", r \notin lost'
      PROVE  \E u \in Tasks : task'[u].run = r /\ task'[u].pc \in Executing
  <2>1. CASE x.run = r /\ x.pc \in Executing
    BY <1>1, <2>1
  <2>2. CASE status[r] = "running" /\ ~(task[t].run = r /\ task[t].pc \in Executing)
    <3>1. PICK u \in Tasks : task[u].run = r /\ task[u].pc \in Executing
      BY <1>3, <2>2 DEF OwnerInv, SameRollouts
    <3>2. u # t
      BY <2>2, <3>1
    <3> QED BY <1>1, <3>1, <3>2
  <2> QED BY <1>3, <2>1, <2>2
<1> QED BY <1>2, <1>3

\* An empty slot executes nothing and is in no old pod.
LEMMA DoneFields ==
  ASSUME NEW t \in Tasks
  PROVE  Done(t).pc = "idle" /\ Done(t).run = task[t].run /\ Done(t).old = FALSE
BY DEF Done, NoTask, NewTask

-----------------------------------------------------------------------------
(* What a task can do to its slot and to its run *)

\* Before it executes the run, or while it does.
Proceeds(t, x) == /\ x.pc # "idle"
                  /\ task[t].pc \in Executing => x.pc \in Executing
                  /\ UNCHANGED status

\* mark_run_running.
Starts(t, x) == /\ x.pc \in Executing
                /\ MarkRunRunning(task[t].run)

\* It saw the abort, its handler failed, or its exception could not be recorded.
Leaves(t, x) == /\ x.pc = "idle"
                /\ task[t].pc \in Executing /\ status[task[t].run] = "running" => task[t].run \in lost'
                /\ UNCHANGED status

\* finish_run.
Concludes(t, x) == /\ x.pc = "idle"
                   /\ \E s \in {"success", "failed", "awaiting_approval"} :
                        SetStatus(task[t].run, s)

Moves(t, x) == /\ Live(t)
               /\ task' = [task EXCEPT ![t] = x]
               /\ x.run = task[t].run
               /\ x.old => task[t].old
               /\ SameRollouts
               /\ Proceeds(t, x) \/ Starts(t, x) \/ Leaves(t, x) \/ Concludes(t, x)

\* Every step of a task is one of these.
LEMMA TaskMoves ==
  ASSUME TypeInv, NEW t \in Tasks, Coroutine(t) \/ Raise(t) \/ RecordFails(t) \/ HandlerFails(t)
  PROVE  \E x : Moves(t, x)
<1>0. task[t] \in Task
  BY TaskType
<1>1. CASE SpawnExecute(t) \/ SpawnResume(t) \/ Rebuild(t) \/ Count(t)
  <2>1. /\ Live(t) /\ task[t].pc \notin Executing /\ UNCHANGED status /\ SameRollouts
    BY <1>1 DEF SpawnExecute, SpawnResume, Rebuild, Count, Live, Executing, SameRollouts
  <2>2. PICK x : /\ task' = [task EXCEPT ![t] = x]
                 /\ x.pc # "idle" /\ x.run = task[t].run /\ x.old = task[t].old
    <3>1. CASE SpawnExecute(t)
      <4> DEFINE y == [task[t] EXCEPT !.pc = "mark"]
      <4>1. task' = [task EXCEPT ![t] = y]
        BY <3>1 DEF SpawnExecute
      <4>2. y.pc # "idle" /\ y.run = task[t].run /\ y.old = task[t].old
        BY <1>0 DEF Task
      <4> HIDE DEF y
      <4> QED BY <4>1, <4>2
    <3>2. CASE SpawnResume(t)
      <4>1. PICK role : task' = [task EXCEPT ![t] =
                                   [task[t] EXCEPT !.pc = "rebuild", !.role = role]]
        BY <3>2 DEF SpawnResume
      <4> DEFINE y == [task[t] EXCEPT !.pc = "rebuild", !.role = role]
      <4>2. y.pc # "idle" /\ y.run = task[t].run /\ y.old = task[t].old
        BY <1>0 DEF Task
      <4> HIDE DEF y
      <4> QED BY <4>1, <4>2 DEF y
    <3>3. CASE Rebuild(t)
      <4>1. PICK seen : task' = [task EXCEPT ![t] =
                                   [task[t] EXCEPT !.pc = "count", !.seen = seen]]
        BY <3>3 DEF Rebuild
      <4> DEFINE y == [task[t] EXCEPT !.pc = "count", !.seen = seen]
      <4>2. y.pc # "idle" /\ y.run = task[t].run /\ y.old = task[t].old
        BY <1>0 DEF Task
      <4> QED BY <4>1, <4>2
    <3>4. CASE Count(t)
      <4>1. PICK n : task' = [task EXCEPT ![t] = [task[t] EXCEPT !.pc = "mark", !.at = n]]
        BY <3>4 DEF Count
      <4> DEFINE y == [task[t] EXCEPT !.pc = "mark", !.at = n]
      <4>2. y.pc # "idle" /\ y.run = task[t].run /\ y.old = task[t].old
        BY <1>0 DEF Task
      <4> QED BY <4>1, <4>2
    <3> QED BY <1>1, <3>1, <3>2, <3>3, <3>4
  <2> QED BY <2>1, <2>2 DEF Moves, Proceeds
<1>2. CASE Mark(t)
  <2> DEFINE bad == AnyFailed(task[t].seen)
             p   == IF task[t].at <= Len(Steps) THEN "check" ELSE "finish"
             f   == IF bad THEN "failed" ELSE "success"
             x   == [task[t] EXCEPT !.bad = bad, !.pc = p, !.final = f]
  <2>1. /\ task' = [task EXCEPT ![t] = x] /\ Live(t) /\ SameRollouts
        /\ MarkRunRunning(task[t].run)
    BY <1>2 DEF Mark, Live, SameRollouts
  <2>2. p \in Executing
    BY DEF Executing
  <2> HIDE DEF bad, p, f
  <2>3. x.pc = p /\ x.run = task[t].run /\ x.old = task[t].old
    BY <1>0 DEF Task
  <2> HIDE DEF x
  <2> QED BY <2>1, <2>2, <2>3 DEF Moves, Starts
<1>3. CASE Check(t) \/ Refuse(t) \/ StartAgent(t)
  <2>1. /\ Live(t) /\ UNCHANGED status /\ SameRollouts
    BY <1>3 DEF Check, Refuse, StartAgent, Live, SameRollouts
  <2>2. PICK p \in Executing : task' = [task EXCEPT ![t] = [task[t] EXCEPT !.pc = p]]
    <3>1. CASE Check(t)
      <4> DEFINE p == IF ~ShouldRun(Steps[task[t].at], task[t].seen) THEN "skip"
                      ELSE IF Steps[task[t].at].kind = "approval" THEN "park"
                      ELSE "lookup"
      <4>1. task' = [task EXCEPT ![t] = [task[t] EXCEPT !.pc = p]]
        BY <3>1 DEF Check
      <4>2. p \in Executing
        BY DEF Executing
      <4> HIDE DEF p
      <4> QED BY <4>1, <4>2
    <3>2. CASE Refuse(t)
      BY <3>2 DEF Refuse, Executing
    <3>3. CASE StartAgent(t)
      BY <3>3 DEF StartAgent, Executing
    <3> QED BY <1>3, <3>1, <3>2, <3>3
  <2> DEFINE x == [task[t] EXCEPT !.pc = p]
  <2>3. x.pc = p /\ x.run = task[t].run /\ x.old = task[t].old
    BY <1>0 DEF Task
  <2>4. task' = [task EXCEPT ![t] = x]
    BY <2>2
  <2> HIDE DEF x
  <2> QED BY <2>1, <2>2, <2>3, <2>4 DEF Moves, Proceeds, Executing
<1>4. CASE Reject(t) \/ Raise(t)
  <2>0. PICK p \in {"finish", "record"} :
          task' = [task EXCEPT ![t] = [task[t] EXCEPT !.pc = p, !.final = "failed"]]
    BY <1>4 DEF Reject, Raise
  <2> DEFINE x == [task[t] EXCEPT !.pc = p, !.final = "failed"]
  <2>1. task' = [task EXCEPT ![t] = x] /\ Live(t) /\ UNCHANGED status /\ SameRollouts
    BY <1>4, <2>0 DEF Reject, Raise, Background, Live, SameRollouts, Spend, TypeInv, TypeOK, Events
  <2>2. x.pc \in {"finish", "record"} /\ x.run = task[t].run /\ x.old = task[t].old
    BY <1>0 DEF Task
  <2> HIDE DEF x
  <2> QED BY <2>1, <2>2 DEF Moves, Proceeds, Executing
<1>5. CASE Skip(t) \/ AgentReturns(t)
  <2>0. Live(t) /\ UNCHANGED <<status, left, overlap, lost>>
    BY <1>5 DEF Skip, AgentReturns, Live
  <2>1. Live(t) /\ UNCHANGED status /\ SameRollouts
    BY <2>0 DEF SameRollouts
  <2>2. PICK seen, bad :
          \/ task' = [task EXCEPT ![t] = [Advance(t, seen, bad) EXCEPT !.pc = "finish",
                                                                     !.final = "failed"]]
          \/ task' = [task EXCEPT ![t] = Advance(t, seen, bad)]
    <3>1. CASE Skip(t)
      BY <3>1 DEF Skip
    <3>2. CASE AgentReturns(t)
      <4> DEFINE i == task[t].at
      <4>1. PICK s \in AgentResults, o \in Outputs :
            task' = [task EXCEPT ![t] =
              IF s = "failed" /\ Steps[i].stops
                THEN [Advance(t, [task[t].seen EXCEPT ![i] = [status |-> s, out |-> o]],
                              task[t].bad \/ s = "failed") EXCEPT !.pc = "finish", !.final = "failed"]
                ELSE Advance(t, [task[t].seen EXCEPT ![i] = [status |-> s, out |-> o]],
                             task[t].bad \/ s = "failed")]
        BY <3>2 DEF AgentReturns
      <4> QED BY <4>1
    <3> QED BY <1>5, <3>1, <3>2
  <2> DEFINE a == Advance(t, seen, bad)
  <2>3. PICK x : /\ task' = [task EXCEPT ![t] = x]
                 /\ x = a \/ x = [a EXCEPT !.pc = "finish", !.final = "failed"]
    BY <2>2
  <2>4. /\ a.pc \in {"check", "finish"} /\ a.run = task[t].run /\ a.old = task[t].old
        /\ DOMAIN a = DOMAIN task[t] /\ "pc" \in DOMAIN task[t]
    BY <1>0 DEF Advance, Task
  <2> HIDE DEF a
  <2>5. x.pc \in {"check", "finish"} /\ x.run = task[t].run /\ x.old = task[t].old
    <3>1. CASE x = a
      BY <2>4, <3>1
    <3>2. CASE x = [a EXCEPT !.pc = "finish", !.final = "failed"]
      BY <1>0, <2>4, <3>2 DEF Task
    <3> QED BY <2>3, <3>1, <3>2
  <2> QED BY <2>1, <2>3, <2>5 DEF Moves, Proceeds, Executing
<1>6. CASE Stop(t) \/ HandlerFails(t) \/ RecordFails(t)
  <2>1. /\ task' = [task EXCEPT ![t] = Done(t)] /\ Live(t) /\ UNCHANGED status /\ SameRollouts
    BY <1>6 DEF Stop, HandlerFails, RecordFails, Handling, Live, SameRollouts, Spend,
                TypeInv, TypeOK, Events
  <2>2. task[t].pc \in Executing /\ status[task[t].run] = "running" => task[t].run \in lost'
    BY <1>6, TaskType DEF Stop, Stopped, HandlerFails, RecordFails, Handling, Executing
  <2> QED BY <2>1, <2>2, DoneFields DEF Moves, Leaves
<1>7. CASE Park(t) \/ Finish(t)
  <2>1. task' = [task EXCEPT ![t] = Done(t)] /\ Live(t) /\ SameRollouts
    BY <1>7 DEF Park, Finish, Live, SameRollouts
  <2>2. task[t].final \in {"success", "failed"}
    BY <1>0 DEF Task
  <2>3. \E s \in {"success", "failed", "awaiting_approval"} : SetStatus(task[t].run, s)
    BY <1>7, <2>2 DEF Park, Finish, FinishRun
  <2> QED BY <2>1, <2>3, DoneFields DEF Moves, Concludes
<1> QED BY <1>1, <1>2, <1>3, <1>4, <1>5, <1>6, <1>7 DEF Coroutine

-----------------------------------------------------------------------------
(* A running run has an owner: the steps *)

\* A step of a task keeps the owners.
LEMMA TaskOwners ==
  ASSUME TypeInv, OwnerInv, NEW t \in Tasks, Coroutine(t) \/ Raise(t) \/ RecordFails(t) \/ HandlerFails(t)
  PROVE  OwnerInv'
<1>1. PICK x : Moves(t, x)
  BY TaskMoves
<1>2. task[t].run \in Runs
  BY TaskType
<1>3. ASSUME NEW r \in Runs, status'[r] = "running", r \notin lost'
      PROVE  \/ x.run = r /\ x.pc \in Executing
             \/ status[r] = "running" /\ ~(task[t].run = r /\ task[t].pc \in Executing)
  <2>1. CASE Proceeds(t, x)
    BY <1>1, <1>3, <2>1 DEF Proceeds, Moves
  <2>2. CASE Starts(t, x)
    BY <1>1, <1>2, <1>3, <2>2 DEF Starts, Moves, MarkRunRunning, TypeInv, TypeOK
  <2>3. CASE Leaves(t, x)
    BY <1>3, <2>3 DEF Leaves
  <2>4. CASE Concludes(t, x)
    BY <1>2, <1>3, <2>4 DEF Concludes, SetStatus, TypeInv, TypeOK
  <2> QED BY <1>1, <2>1, <2>2, <2>3, <2>4 DEF Moves
<1> QED BY <1>1, <1>3, OneOwner DEF Moves

\* A new task takes a slot no coroutine is in.
LEMMA RequestOwners ==
  ASSUME TypeInv, OwnerInv, NEW r \in Runs, NEW t \in Tasks, Execute(r, t) \/ Approve(r, t)
  PROVE  OwnerInv'
<1>1. PICK x : task' = [task EXCEPT ![t] = x] /\ (x.old => overlap)
  <2>1. CASE Execute(r, t)
    <3>1. PICK who \in Triggers, old \in {FALSE, overlap} :
            task' = [task EXCEPT ![t] = NewTask("created", r, who.role, 0, old)]
      BY <2>1 DEF Execute
    <3> DEFINE y == NewTask("created", r, who.role, 0, old)
    <3>2. y.old = old
      BY DEF NewTask
    <3>3. task' = [task EXCEPT ![t] = y]
      BY <3>1
    <3> HIDE DEF y
    <3>4. y.old => overlap
      BY <3>2
    <3> QED BY <3>3, <3>4
  <2>2. CASE Approve(r, t)
    <3>1. PICK old \in {FALSE, overlap} :
            task' = [task EXCEPT ![t] = NewTask("approved", r, Viewer, hist[r].gate, old)]
      BY <2>2 DEF Approve
    <3> DEFINE y == NewTask("approved", r, Viewer, hist[r].gate, old)
    <3>2. y.old = old
      BY DEF NewTask
    <3>3. task' = [task EXCEPT ![t] = y]
      BY <3>1
    <3> HIDE DEF y
    <3>4. y.old => overlap
      BY <3>2
    <3> QED BY <3>3, <3>4
  <2> QED BY <2>1, <2>2
<1>2. SameRollouts
  <2>1. left'["rollout"] = left["rollout"]
    BY DEF Execute, Approve, Spend, TypeInv, TypeOK, Events
  <2>2. UNCHANGED <<overlap, lost>>
    BY DEF Execute, Approve
  <2> QED BY <2>1, <2>2 DEF SameRollouts
<1>3. task[t].pc \notin Executing
  BY DEF Execute, Approve, Live, Executing
<1>4. \A q \in Runs : status'[q] = "running" => status[q] = "running"
  BY DEF Execute, Approve, SetStatus, TypeInv, TypeOK
<1> QED BY <1>1, <1>2, <1>3, <1>4, OneOwner

\* Neither do aborts, crashes and deployments leave a running run without one.
LEMMA EventOwners ==
  ASSUME TypeInv, OwnerInv, \/ \E r \in Runs : Abort(r)
                            \/ Crash \/ Rollout \/ OldPodExits
  PROVE  OwnerInv'
<1>1. ASSUME NEW r \in Runs, Abort(r) PROVE OwnerInv'
  <2>1. UNCHANGED task /\ SameRollouts
    BY <1>1 DEF Abort, Spend, SameRollouts, TypeInv, TypeOK, Events
  <2>2. \A q \in Runs : status'[q] = "running" => status[q] = "running"
    BY <1>1 DEF Abort, SetStatus, TypeInv, TypeOK
  <2> QED BY <2>1, <2>2 DEF OwnerInv, SameRollouts
<1>2. CASE Crash
  <2>1. ~overlap' /\ \A q \in Runs : status'[q] # "running"
    BY <1>2 DEF Crash, FailOrphanedRuns
  <2>2. \A t \in Tasks : task'[t].old = FALSE
    BY <1>2, DoneFields DEF Crash
  <2>3. SameRollouts
    BY <1>2 DEF Crash, Spend, SameRollouts, TypeInv, TypeOK, Events
  <2> QED BY <2>1, <2>2, <2>3 DEF OwnerInv, SameRollouts
<1>3. CASE Rollout
  <2>1. left["rollout"] \in Nat /\ left["rollout"] > 0 /\ left'["rollout"] = left["rollout"] - 1
    BY <1>3 DEF Rollout, Spend, TypeInv, TypeOK, Events
  <2>2. Budget["rollout"] \in Nat
    BY BudgetAssumption DEF Events
  <2>3. left'["rollout"] \in Nat /\ left'["rollout"] < Budget["rollout"]
    BY <2>1, <2>2 DEF OwnerInv
  <2> QED BY <2>2, <2>3 DEF OwnerInv
<1>4. CASE OldPodExits
  <2>1. left["rollout"] # Budget["rollout"] /\ left' = left
    BY <1>4 DEF OldPodExits, OwnerInv
  <2> QED BY <2>1 DEF OwnerInv
<1> QED BY <1>1, <1>2, <1>3, <1>4

\* Every step keeps the owners.
LEMMA OwnerStep == TypeInv /\ OwnerInv /\ [Next]_vars => OwnerInv'
<1> SUFFICES ASSUME TypeInv, OwnerInv, [Next]_vars PROVE OwnerInv'
  OBVIOUS
<1>1. CASE UNCHANGED vars
  BY <1>1 DEF vars, OwnerInv
<1>2. ASSUME NEW t \in Tasks, Coroutine(t) \/ Raise(t) \/ RecordFails(t) \/ HandlerFails(t) PROVE OwnerInv'
  BY <1>2, TaskOwners
<1>3. ASSUME NEW r \in Runs, NEW t \in Tasks, Execute(r, t) \/ Approve(r, t) PROVE OwnerInv'
  BY <1>3, RequestOwners
<1> QED BY <1>1, <1>2, <1>3, EventOwners DEF Next

\* A run shown as 'running' is being run by a coroutine in its loop, however many
\* crashes and restarts there are, until a deployment overlaps two processes, and unless
\* the coroutine raised and the statement that records an exception raised too.
THEOREM RunningIsOwned == Spec => []RunningHasOwner
<1>1. Init => OwnerInv
  <2> SUFFICES ASSUME Init PROVE OwnerInv
    OBVIOUS
  <2>1. left["rollout"] = Budget["rollout"] /\ Budget["rollout"] \in Nat
    BY BudgetAssumption DEF Init, Events
  <2>2. ~overlap /\ \A t \in Tasks : task[t].old = FALSE
    BY DEF Init, NoTask, NewTask
  <2>3. \A r \in Runs : status[r] # "running"
    BY DEF Init
  <2> QED BY <2>1, <2>2, <2>3 DEF OwnerInv
<1>2. Spec => []TypeInv
  BY InitType, TypeStep, PTL DEF Spec
<1>3. Spec => []OwnerInv
  BY <1>1, <1>2, OwnerStep, PTL DEF Spec
<1>4. OwnerInv => RunningHasOwner
  BY DEF OwnerInv, RunningHasOwner, Executing, PastCheck
<1> QED BY <1>3, <1>4, PTL

-----------------------------------------------------------------------------
(* The engine implements the run lifecycle *)

\* A new task joins the owners of its run.
LEMMA OwnerJoins ==
  ASSUME TypeInv, NEW r \in Runs, NEW t \in Tasks, ~Live(t), NEW x,
         task' = [task EXCEPT ![t] = x], x.pc # "idle", x.run = r
  PROVE  OwnersOf' = [OwnersOf EXCEPT ![r] = @ \cup {t}]
<1> DEFINE was(q) == {u \in Tasks : task[u].pc # "idle" /\ task[u].run = q}
           is(q)  == {u \in Tasks : task'[u].pc # "idle" /\ task'[u].run = q}
<1>1. \A u \in Tasks : task'[u] = IF u = t THEN x ELSE task[u]
  BY DEF TypeInv, TypeOK
<1>2. \A q \in Runs : is(q) = IF q = r THEN was(q) \cup {t} ELSE was(q)
  BY <1>1 DEF Live
<1>3. OwnersOf' = [q \in Runs |-> is(q)] /\ OwnersOf = [q \in Runs |-> was(q)]
  BY DEF OwnersOf, Live
<1> HIDE DEF was, is
<1> QED BY <1>2, <1>3

\* A task that ends leaves the owners of its run.
LEMMA OwnerParts ==
  ASSUME TypeInv, NEW t \in Tasks, NEW x,
         task' = [task EXCEPT ![t] = x], x.pc = "idle"
  PROVE  OwnersOf' = [OwnersOf EXCEPT ![task[t].run] = @ \ {t}]
<1> DEFINE was(q) == {u \in Tasks : task[u].pc # "idle" /\ task[u].run = q}
           is(q)  == {u \in Tasks : task'[u].pc # "idle" /\ task'[u].run = q}
<1>1. \A u \in Tasks : task'[u] = IF u = t THEN x ELSE task[u]
  BY DEF TypeInv, TypeOK
<1>2. \A q \in Runs : is(q) = IF q = task[t].run THEN was(q) \ {t} ELSE was(q)
  BY <1>1
<1>3. OwnersOf' = [q \in Runs |-> is(q)] /\ OwnersOf = [q \in Runs |-> was(q)]
  BY DEF OwnersOf, Live
<1> HIDE DEF was, is
<1> QED BY <1>2, <1>3

\* A task that goes on stays among them.
LEMMA OwnerStays ==
  ASSUME TypeInv, NEW t \in Tasks, Live(t), NEW x,
         task' = [task EXCEPT ![t] = x], x.pc # "idle", x.run = task[t].run
  PROVE  OwnersOf' = OwnersOf
<1>1. \A u \in Tasks : task'[u] = IF u = t THEN x ELSE task[u]
  BY DEF TypeInv, TypeOK
<1>2. ASSUME NEW q \in Runs
      PROVE  {u \in Tasks : task'[u].pc # "idle" /\ task'[u].run = q} =
               {u \in Tasks : task[u].pc # "idle" /\ task[u].run = q}
  BY <1>1 DEF Live
<1> QED BY <1>2 DEF OwnersOf, Live

\* A live task owns its run.
LEMMA LiveOwns ==
  ASSUME TypeInv, NEW t \in Tasks, Live(t)
  PROVE  task[t].run \in Runs /\ t \in OwnersOf[task[t].run]
BY TaskType DEF OwnersOf

\* A step of a task is a step of one owner, or of nobody.
LEMMA TaskRefines ==
  ASSUME TypeInv, NEW t \in Tasks, Coroutine(t) \/ Raise(t) \/ RecordFails(t) \/ HandlerFails(t)
  PROVE  [Lifecycle!Next]_(Lifecycle!vars)
<1> DEFINE r == task[t].run
<1>1. PICK x : Moves(t, x)
  BY TaskMoves
<1>2. r \in Runs /\ t \in OwnersOf[r]
  BY <1>1, LiveOwns DEF Moves
<1> HIDE DEF r
<1>3. CASE Proceeds(t, x)
  <2>1. OwnersOf' = OwnersOf
    BY <1>1, <1>3, OwnerStays DEF Moves, Proceeds
  <2> QED BY <1>3, <2>1 DEF Proceeds, Lifecycle!vars
<1>4. CASE Starts(t, x)
  <2>1. OwnersOf' = OwnersOf
    BY <1>1, <1>4, OwnerStays DEF Moves, Starts, Executing
  <2>2. CASE status[r] \in {"queued", "awaiting_approval"}
    <3>1. status' = [status EXCEPT ![r] = "running"]
      BY <1>4, <2>2 DEF Starts, MarkRunRunning, r
    <3>2. Lifecycle!Start(r, t)
      BY <1>2, <2>1, <2>2, <3>1 DEF Lifecycle!Start, Lifecycle!Write, Lifecycle!Paused
    <3> QED BY <1>2, <3>2 DEF Lifecycle!Next
  <2>3. CASE status[r] \notin {"queued", "awaiting_approval"}
    <3>1. status' = status
      BY <1>2, <1>4, <2>3 DEF Starts, MarkRunRunning, TypeInv, TypeOK, r
    <3> QED BY <2>1, <3>1 DEF Lifecycle!vars
  <2> QED BY <2>2, <2>3
<1>5. CASE Leaves(t, x)
  <2>1. OwnersOf' = [OwnersOf EXCEPT ![r] = @ \ {t}]
    BY <1>1, <1>5, OwnerParts DEF Moves, Leaves, r
  <2>2. Lifecycle!Leave(r, t)
    BY <1>2, <1>5, <2>1 DEF Leaves, Lifecycle!Leave, Lifecycle!Part
  <2> QED BY <1>2, <2>2 DEF Lifecycle!Next
<1>6. CASE Concludes(t, x)
  <2>1. OwnersOf' = [OwnersOf EXCEPT ![r] = @ \ {t}]
    BY <1>1, <1>6, OwnerParts DEF Moves, Concludes, r
  <2>2. PICK s \in {"success", "failed", "awaiting_approval"} :
          status' = [status EXCEPT ![r] = s]
    BY <1>6 DEF Concludes, SetStatus, r
  <2>3. s \in Lifecycle!Settled \cup Lifecycle!Paused
    BY DEF Lifecycle!Settled, Lifecycle!Paused
  <2>4. Lifecycle!Conclude(r, t, s)
    BY <1>2, <2>1, <2>2 DEF Lifecycle!Conclude, Lifecycle!Write, Lifecycle!Part
  <2> QED BY <1>2, <2>3, <2>4 DEF Lifecycle!Next
<1> QED BY <1>1, <1>3, <1>4, <1>5, <1>6 DEF Moves

\* A request is the creation of a run, or a claim to a paused one.
LEMMA RequestRefines ==
  ASSUME TypeInv, NEW r \in Runs, NEW t \in Tasks, Execute(r, t) \/ Approve(r, t)
  PROVE  Lifecycle!Next
<1>1. CASE Execute(r, t)
  <2>1. PICK x : task' = [task EXCEPT ![t] = x] /\ x.pc # "idle" /\ x.run = r
    <3>1. PICK who \in Triggers, old \in {FALSE, overlap} :
            task' = [task EXCEPT ![t] = NewTask("created", r, who.role, 0, old)]
      BY <1>1 DEF Execute
    <3>2. /\ NewTask("created", r, who.role, 0, old).pc # "idle"
          /\ NewTask("created", r, who.role, 0, old).run = r
      BY DEF NewTask
    <3> QED BY <3>1, <3>2
  <2>2. OwnersOf' = [OwnersOf EXCEPT ![r] = @ \cup {t}]
    BY <1>1, <2>1, OwnerJoins DEF Execute
  <2>3. Lifecycle!Create(r, t)
    BY <1>1, <2>2 DEF Execute, SetStatus, Lifecycle!Create, Lifecycle!Write, Lifecycle!Join
  <2> QED BY <2>3 DEF Lifecycle!Next
<1>2. CASE Approve(r, t)
  <2>1. PICK x : task' = [task EXCEPT ![t] = x] /\ x.pc # "idle" /\ x.run = r
    <3>1. PICK old \in {FALSE, overlap} :
            task' = [task EXCEPT ![t] = NewTask("approved", r, Viewer, hist[r].gate, old)]
      BY <1>2 DEF Approve
    <3>2. /\ NewTask("approved", r, Viewer, hist[r].gate, old).pc # "idle"
          /\ NewTask("approved", r, Viewer, hist[r].gate, old).run = r
      BY DEF NewTask
    <3> QED BY <3>1, <3>2
  <2>2. OwnersOf' = [OwnersOf EXCEPT ![r] = @ \cup {t}]
    BY <1>2, <2>1, OwnerJoins DEF Approve
  <2>3. Lifecycle!Claim(r, t)
    BY <1>2, <2>2 DEF Approve, Lifecycle!Claim, Lifecycle!Join, Lifecycle!Paused
  <2> QED BY <2>3 DEF Lifecycle!Next
<1> QED BY <1>1, <1>2

\* So are aborts, start-ups and exits.
LEMMA EventRefines ==
  ASSUME TypeInv, \/ \E r \in Runs : Abort(r)
                  \/ Crash \/ Rollout \/ OldPodExits
  PROVE  Lifecycle!Next
<1>1. ASSUME NEW r \in Runs, Abort(r) PROVE Lifecycle!Next
  <2>1. OwnersOf' = OwnersOf
    BY <1>1 DEF Abort, OwnersOf, Live
  <2>2. Lifecycle!Abort(r)
    BY <1>1, <2>1 DEF Abort, SetStatus, Lifecycle!Abort, Lifecycle!Write,
                      Lifecycle!Open, Lifecycle!Paused
  <2> QED BY <2>2 DEF Lifecycle!Next
<1>2. CASE Crash
  <2>1. \A t \in Tasks : task'[t].pc = "idle"
    BY <1>2, DoneFields DEF Crash
  <2>2. OwnersOf' = [r \in Runs |-> {}]
    BY <2>1 DEF OwnersOf, Live
  <2>3. Lifecycle!Startup
    BY <1>2, <2>2 DEF Crash, FailOrphanedRuns, Lifecycle!Startup
  <2> QED BY <2>3 DEF Lifecycle!Next
<1>3. CASE Rollout
  <2>1. \A t \in Tasks : task'[t].pc = task[t].pc /\ task'[t].run = task[t].run
    BY <1>3, TaskType DEF Rollout, Task
  <2>2. OwnersOf' = OwnersOf
    BY <2>1 DEF OwnersOf, Live
  <2>3. Lifecycle!Startup
    BY <1>3, <2>2 DEF Rollout, FailOrphanedRuns, Lifecycle!Startup
  <2> QED BY <2>3 DEF Lifecycle!Next
<1>4. CASE OldPodExits
  <2> DEFINE gone == {t \in Tasks : task[t].old}
  <2>1. \A t \in Tasks : IF t \in gone THEN task'[t].pc = "idle" ELSE task'[t] = task[t]
    BY <1>4, DoneFields DEF OldPodExits
  <2>2. OwnersOf' = [r \in Runs |-> OwnersOf[r] \ gone]
    <3>1. ASSUME NEW r \in Runs
          PROVE  {t \in Tasks : task'[t].pc # "idle" /\ task'[t].run = r} =
                   {t \in Tasks : task[t].pc # "idle" /\ task[t].run = r} \ gone
      BY <2>1
    <3>2. OwnersOf' = [r \in Runs |-> {t \in Tasks : task'[t].pc # "idle" /\ task'[t].run = r}]
      BY DEF OwnersOf, Live
    <3>3. \A r \in Runs :
            OwnersOf[r] = {t \in Tasks : task[t].pc # "idle" /\ task[t].run = r}
      BY DEF OwnersOf, Live
    <3> QED BY <3>1, <3>2, <3>3
  <2>3. Lifecycle!Exit
    BY <1>4, <2>2 DEF OldPodExits, Lifecycle!Exit
  <2> QED BY <2>3 DEF Lifecycle!Next
<1> QED BY <1>1, <1>2, <1>3, <1>4

\* The Flightplan engine implements the run lifecycle, whatever the plan and the
\* environment do: its handlers and coroutines write a status only as owners of the
\* run, and everything else only under the guards of RunLifecycle.
THEOREM LifecycleImplemented == Spec => ImplementsLifecycle
<1>1. Init => Lifecycle!Init
  <2> SUFFICES ASSUME Init PROVE Lifecycle!Init
    OBVIOUS
  <2>1. \A t \in Tasks : task[t].pc = "idle"
    BY DEF Init, NoTask, NewTask
  <2>2. OwnersOf = [r \in Runs |-> {}]
    BY <2>1 DEF OwnersOf, Live
  <2> QED BY <2>2 DEF Init, Lifecycle!Init
<1>2. TypeInv /\ [Next]_vars => [Lifecycle!Next]_(Lifecycle!vars)
  <2> SUFFICES ASSUME TypeInv, [Next]_vars PROVE [Lifecycle!Next]_(Lifecycle!vars)
    OBVIOUS
  <2>1. CASE UNCHANGED vars
    BY <2>1 DEF vars, Lifecycle!vars, OwnersOf, Live
  <2>2. ASSUME NEW t \in Tasks, Coroutine(t) \/ Raise(t) \/ RecordFails(t) \/ HandlerFails(t)
        PROVE  [Lifecycle!Next]_(Lifecycle!vars)
    BY <2>2, TaskRefines
  <2>3. ASSUME NEW r \in Runs, NEW t \in Tasks, Execute(r, t) \/ Approve(r, t)
        PROVE  Lifecycle!Next
    BY <2>3, RequestRefines
  <2> QED BY <2>1, <2>2, <2>3, EventRefines DEF Next
<1>3. Spec => []TypeInv
  BY InitType, TypeStep, PTL DEF Spec
<1> QED BY <1>1, <1>2, <1>3, PTL DEF Spec, ImplementsLifecycle, Lifecycle!Spec

Proved == INSTANCE RunLifecycleProofs WITH Owners <- Tasks, owners <- OwnersOf

\* A settled Flightplan run that no handler and no coroutine works on any more is
\* history: it keeps its status, and nothing works on it again.
THEOREM HistoryIsKept == Spec => Lifecycle!HistoryIsFinal
<1>1. Lifecycle!Init => Proved!Init
  BY DEF Lifecycle!Init, Proved!Init
<1>2. [Lifecycle!Next]_(Lifecycle!vars) => [Proved!Next]_(Proved!vars)
  BY DEF Lifecycle!vars, Proved!vars, Lifecycle!Next, Proved!Next,
         Lifecycle!Create, Lifecycle!Claim, Lifecycle!Start, Lifecycle!Leave,
         Lifecycle!Conclude, Lifecycle!Abort, Lifecycle!Sweep, Lifecycle!Startup,
         Lifecycle!Exit, Lifecycle!Write, Lifecycle!Join, Lifecycle!Part,
         Lifecycle!Settled, Lifecycle!Paused, Lifecycle!Open,
         Proved!Create, Proved!Claim, Proved!Start, Proved!Leave,
         Proved!Conclude, Proved!Abort, Proved!Sweep, Proved!Startup,
         Proved!Exit, Proved!Write, Proved!Join, Proved!Part,
         Proved!Settled, Proved!Paused, Proved!Open
<1>3. Lifecycle!Spec => Proved!Spec
  BY <1>1, <1>2, PTL DEF Lifecycle!Spec, Proved!Spec
<1>4. Proved!Spec => Proved!HistoryIsFinal
  BY Proved!HistoryStays
<1>5. Proved!HistoryIsFinal => Lifecycle!HistoryIsFinal
  BY DEF Proved!HistoryIsFinal, Lifecycle!HistoryIsFinal, Proved!vars, Lifecycle!vars,
         Proved!Settled, Lifecycle!Settled
<1> QED BY <1>3, <1>4, <1>5, LifecycleImplemented, PTL DEF ImplementsLifecycle

-----------------------------------------------------------------------------
(* The course of a run approved at most once *)

\* Three properties speak of a run that was approved at most once.  They rest on one
\* picture of it: at most one task works on it; its rows are the steps in order, all
\* of them before the approval, all but one gate after it; and the step it is to take
\* next follows from their number.  The operators below draw that picture from the
\* run's status s, its rows rs, its observations h, and the task w at work on it.

\* The step after the ones that have a row and the gate that was passed.
Due(rs, h) == Len(rs) + 1 + h.granted

\* The rows are of different steps, in order, and leave out one gate after an approval.
InOrder(rs, h) ==
  /\ Len(rs) + h.granted <= Len(Steps)
  /\ h.granted = 0 => \A k \in DOMAIN rs : rs[k].at = k
  /\ h.granted = 1 => \E g \in Gates : /\ g <= Len(rs) + 1
                                       /\ \A k \in DOMAIN rs :
                                            rs[k].at = IF k < g THEN k ELSE k + 1

NoneFailed(rs) == \A k \in DOMAIN rs : rs[k].status # "failed"

\* No step from n on was reached, and no step was reached twice.
Untouched(h, n) == \A i \in Index : i >= n => h.ran[i] = 0
Once(h) == \A i \in Index : h.ran[i] <= 1

\* Every step has its row, or was the gate that was passed, and none failed.
Complete(rs, h) == Len(rs) + h.granted = Len(Steps) /\ NoneFailed(rs)

\* A task between the approval and the count of the rows.
Resuming == {"approved", "rebuild", "count"}

\* Where the task at work on a run stands, what is before it, and what it remembers.
AtWork(w, rs, h) ==
  /\ w.pc = "created" => w.at = 1 /\ h.granted = 0
  /\ w.pc \in Resuming => h.granted = 1
  /\ w.pc \in Resuming \cup {"created", "mark"} =>
       IF h.granted = 1 THEN Len(rs) + 1 \in Gates ELSE Len(rs) = 0
  /\ w.pc \in Resuming \cup {"mark"} /\ h.granted = 1 => h.gate = Len(rs) + 1
  /\ w.pc \in {"mark"} \cup InLoop => w.at = Due(rs, h)
  /\ w.pc = "park" => w.at \in Gates
  /\ w.pc \notin {"agent", "finish", "record"} => Untouched(h, Due(rs, h))
  /\ w.pc = "agent" => Untouched(h, w.at + 1)
  /\ w.pc \in {"count", "mark"} =>
       \A k \in DOMAIN rs : rs[k].status = "failed" => w.seen[rs[k].at].status = "failed"
  /\ w.pc \in InLoop /\ ~w.bad => NoneFailed(rs)
  /\ w.pc \in {"finish", "record"} /\ w.final = "success" => Complete(rs, h)

\* What the run itself shows.
OnRecord(s, rs, h) ==
  /\ InOrder(rs, h)
  /\ Once(h)
  /\ h.gate # 0 => h.ran[h.gate] > 0
  /\ s = "none" => h.granted = 0 /\ Len(rs) = 0 /\ Untouched(h, 1)
  /\ s = "awaiting_approval" /\ h.granted = 0 =>
       /\ Len(rs) + 1 \in Gates /\ h.gate = Len(rs) + 1
       /\ Untouched(h, Len(rs) + 2)
  /\ s = "success" => Complete(rs, h)

\* A run nothing works on: it does not exist, waits for its first approval, or is done.
Resting(s, h) == s \in {"none", "success"} \/ (s = "awaiting_approval" /\ h.granted = 0)

WorksOn(t, r) == Live(t) /\ task[t].run = r

OnCourse(r) ==
  /\ OnRecord(status[r], rows[r], hist[r])
  /\ \A t \in Tasks : WorksOn(t, r) => AtWork(task[t], rows[r], hist[r])
  /\ \A t, u \in Tasks : WorksOn(t, r) /\ WorksOn(u, r) => t = u
  /\ Resting(status[r], hist[r]) => \A t \in Tasks : ~WorksOn(t, r)

CourseInv == \A r \in Runs : hist[r].granted <= 1 => OnCourse(r)

\* Runs other than r are left alone.
OnlyRun(r) == \A q \in Runs \ {r} : /\ status'[q] = status[q]
                                    /\ rows'[q] = rows[q]
                                    /\ hist'[q] = hist[q]

\* A task that changes, or comes, keeps every run on its course if it is alone on its
\* own run and the run's new picture is right.
LEMMA OneCourse ==
  ASSUME TypeInv, CourseInv, NEW t \in Tasks, NEW r \in Runs, NEW x,
         task' = [task EXCEPT ![t] = x], x.run = r, Live(t) => task[t].run = r,
         OnlyRun(r),
         hist'[r].granted <= 1 =>
           /\ \A u \in Tasks \ {t} : ~WorksOn(u, r)
           /\ OnRecord(status'[r], rows'[r], hist'[r])
           /\ x.pc # "idle" => AtWork(x, rows'[r], hist'[r])
           /\ Resting(status'[r], hist'[r]) => x.pc = "idle"
  PROVE  CourseInv'
<1>1. \A u \in Tasks : task'[u] = IF u = t THEN x ELSE task[u]
  BY DEF TypeInv, TypeOK
<1> SUFFICES ASSUME NEW q \in Runs, hist'[q].granted <= 1 PROVE OnCourse(q)'
  BY DEF CourseInv
<1>2. CASE q # r
  <2>1. status'[q] = status[q] /\ rows'[q] = rows[q] /\ hist'[q] = hist[q]
    BY <1>2 DEF OnlyRun
  <2>2. OnCourse(q)
    BY <2>1 DEF CourseInv
  <2>3. \A u \in Tasks : WorksOn(u, q)' => WorksOn(u, q) /\ task'[u] = task[u]
    BY <1>1, <1>2 DEF WorksOn, Live
  <2> QED BY <2>1, <2>2, <2>3 DEF OnCourse
<1>3. CASE q = r
  <2>1. \A u \in Tasks : WorksOn(u, r)' => u = t /\ x.pc # "idle" /\ task'[u] = x
    <3>1. \A u \in Tasks \ {t} : ~WorksOn(u, r)
      BY <1>3
    <3> QED BY <1>1, <3>1 DEF WorksOn, Live
  <2> QED BY <1>3, <2>1 DEF OnCourse
<1> QED BY <1>2, <1>3

\* What is known of a task at work on a run approved at most once.
LEMMA AloneAtWork ==
  ASSUME TypeInv, CourseInv, NEW t \in Tasks, Live(t), NEW r \in Runs, r = task[t].run,
         hist[r].granted <= 1
  PROVE  /\ AtWork(task[t], rows[r], hist[r])
         /\ OnRecord(status[r], rows[r], hist[r])
         /\ ~Resting(status[r], hist[r])
         /\ \A u \in Tasks \ {t} : ~WorksOn(u, r)
         /\ hist[r].granted \in {0, 1}
<1>1. OnCourse(r) /\ WorksOn(t, r)
  BY DEF CourseInv, WorksOn
<1>2. hist[r].granted \in {0, 1}
  BY HistoryType
<1> QED BY <1>1, <1>2 DEF OnCourse

\* The types of a run's rows.
LEMMA RowsType ==
  ASSUME TypeInv, NEW r \in Runs
  PROVE  /\ rows[r] \in Seq(Row) /\ Len(rows[r]) \in Nat
         /\ DOMAIN rows[r] = 1..Len(rows[r])
         /\ \A k \in DOMAIN rows[r] : rows[r][k] \in Row /\ rows[r][k].at \in Index
<1>1. rows[r] \in Seq(Row)
  BY DEF TypeInv, TypeOK
<1>2. Len(rows[r]) \in Nat /\ DOMAIN rows[r] = 1..Len(rows[r])
  BY <1>1
<1>3. \A k \in DOMAIN rows[r] : rows[r][k] \in Row
  BY <1>1
<1>4. \A w \in Row : w.at \in Index
  BY DEF Row
<1> QED BY <1>1, <1>2, <1>3, <1>4

\* A task in the loop that has not reached its step yet, or one past the loop.
LEMMA AtStep ==
  ASSUME NEW w, NEW rs, NEW h, w.pc \in InLoop \ {"agent"}, w.pc = "park" => w.at \in Gates,
         w.at = Due(rs, h), Untouched(h, Due(rs, h)), ~w.bad => NoneFailed(rs)
  PROVE  AtWork(w, rs, h)
BY DEF AtWork, Resuming, InLoop

LEMMA AtEnd ==
  ASSUME NEW w, NEW rs, NEW h, w.pc \in {"finish", "record"}, w.final = "success" => Complete(rs, h)
  PROVE  AtWork(w, rs, h)
BY DEF AtWork, Resuming, InLoop

\* Fields of what Advance makes of a task.
LEMMA AdvanceAll ==
  ASSUME TypeInv, NEW t \in Tasks, NEW seen, NEW bad \in BOOLEAN
  PROVE  /\ Advance(t, seen, bad).pc = IF task[t].at < Len(Steps) THEN "check" ELSE "finish"
         /\ Advance(t, seen, bad).at = task[t].at + 1
         /\ Advance(t, seen, bad).run = task[t].run
         /\ Advance(t, seen, bad).gate = task[t].gate
         /\ Advance(t, seen, bad).bad <=> bad
         /\ Advance(t, seen, bad).final = IF bad THEN "failed" ELSE "success"
         /\ DOMAIN Advance(t, seen, bad) = DOMAIN task[t]
<1>1. task[t] \in Task
  BY TaskType
<1> QED BY <1>1 DEF Advance, Task

\* A row for the step that is due: the rows stay in order.
LEMMA RowInOrder ==
  ASSUME NEW rs \in Seq(Row), NEW w \in Row, NEW h, h.granted \in {0, 1},
         InOrder(rs, h), w.at = Due(rs, h)
  PROVE  /\ InOrder(Append(rs, w), h)
         /\ Len(Append(rs, w)) = Len(rs) + 1
         /\ Due(Append(rs, w), h) = Due(rs, h) + 1
         /\ NoneFailed(rs) /\ w.status # "failed" => NoneFailed(Append(rs, w))
<1> DEFINE n   == Len(rs)
           new == Append(rs, w)
<1>1. n \in Nat /\ DOMAIN rs = 1..n
  OBVIOUS
<1>2. /\ Len(new) = n + 1 /\ DOMAIN new = 1..(n + 1) /\ new[n + 1] = w
      /\ \A k \in 1..n : new[k] = rs[k]
  BY <1>1
<1>3. w.at = n + 1 + h.granted /\ w.at <= Len(Steps) /\ Len(Steps) \in Nat
  BY StepType DEF Due, Row, Index
<1> HIDE DEF n, new
<1>4. InOrder(new, h)
  <2>1. Len(new) + h.granted <= Len(Steps)
    BY <1>1, <1>2, <1>3
  <2>2. ASSUME h.granted = 0 PROVE \A k \in DOMAIN new : new[k].at = k
    BY <1>1, <1>2, <1>3, <2>2 DEF InOrder
  <2>3. ASSUME h.granted = 1
        PROVE  \E g \in Gates : /\ g <= Len(new) + 1
                                /\ \A k \in DOMAIN new :
                                     new[k].at = IF k < g THEN k ELSE k + 1
    <3>1. PICK g \in Gates : /\ g <= n + 1
                             /\ \A k \in 1..n : rs[k].at = IF k < g THEN k ELSE k + 1
      BY <1>1, <2>3 DEF InOrder, n
    <3>2. g \in Nat
      BY StepType DEF Gates
    <3>3. w.at = n + 2
      BY <1>1, <1>3, <2>3
    <3>4. \A k \in 1..(n + 1) : new[k].at = IF k < g THEN k ELSE k + 1
      BY <1>1, <1>2, <3>1, <3>2, <3>3
    <3>5. g <= Len(new) + 1
      BY <1>1, <1>2, <3>1, <3>2
    <3> QED BY <1>2, <3>4, <3>5
  <2> QED BY <2>1, <2>2, <2>3 DEF InOrder
<1>5. Due(new, h) = Due(rs, h) + 1
  BY <1>1, <1>2 DEF Due, n
<1>6. NoneFailed(rs) /\ w.status # "failed" => NoneFailed(new)
  BY <1>1, <1>2 DEF NoneFailed
<1> QED BY <1>2, <1>4, <1>5, <1>6 DEF n, new

\* A task of a run that is left alone.
LEMMA QuietCourse ==
  ASSUME TypeInv, CourseInv, UNCHANGED <<status, rows, hist>>, NEW t \in Tasks, Live(t),
         NEW r \in Runs, r = task[t].run, NEW x, x.run = r, task' = [task EXCEPT ![t] = x],
         /\ hist[r].granted \in {0, 1}
         /\ AtWork(task[t], rows[r], hist[r])
         /\ OnRecord(status[r], rows[r], hist[r])
         => x.pc = "idle" \/ AtWork(x, rows[r], hist[r])
  PROVE  CourseInv'
<1>1. OnlyRun(r)
  BY DEF OnlyRun
<1>2. ASSUME hist'[r].granted <= 1
      PROVE  /\ \A u \in Tasks \ {t} : ~WorksOn(u, r)
             /\ OnRecord(status'[r], rows'[r], hist'[r])
             /\ x.pc # "idle" => AtWork(x, rows'[r], hist'[r])
             /\ Resting(status'[r], hist'[r]) => x.pc = "idle"
  BY <1>2, AloneAtWork
<1> QED BY <1>1, <1>2, OneCourse

\* The handler of a new run starts the loop.
LEMMA SpawnExecuteCourse ==
  ASSUME TypeInv, CourseInv, NEW t \in Tasks, SpawnExecute(t)
  PROVE  CourseInv'
<1>1. PICK r \in Runs : r = task[t].run
  BY TaskType
<1> DEFINE x == [task[t] EXCEPT !.pc = "mark"]
<1>2. x.pc = "mark" /\ x.run = r /\ x.at = task[t].at
  BY <1>1, TaskType DEF Task
<1>3. /\ task' = [task EXCEPT ![t] = x] /\ UNCHANGED <<status, rows, hist>>
      /\ task[t].pc = "created" /\ Live(t)
  BY DEF SpawnExecute, Live
<1> HIDE DEF x
<1>4. ASSUME hist[r].granted \in {0, 1}, AtWork(task[t], rows[r], hist[r])
      PROVE  AtWork(x, rows[r], hist[r])
  <2>1. hist[r].granted = 0 /\ Len(rows[r]) = 0 /\ x.at = 1
    BY <1>2, <1>3, <1>4 DEF AtWork
  <2>2. Due(rows[r], hist[r]) = 1 /\ Untouched(hist[r], Due(rows[r], hist[r]))
    BY <1>3, <1>4, <2>1 DEF AtWork, Due, Resuming
  <2>3. DOMAIN rows[r] = {}
    BY <2>1, RowsType
  <2> QED BY <1>2, <2>1, <2>2, <2>3 DEF AtWork, Resuming, InLoop
<1> QED BY <1>1, <1>2, <1>3, <1>4, QuietCourse

\* The handler of an approval starts the resume.
LEMMA SpawnResumeCourse ==
  ASSUME TypeInv, CourseInv, NEW t \in Tasks, SpawnResume(t)
  PROVE  CourseInv'
<1>1. PICK r \in Runs : r = task[t].run
  BY TaskType
<1>2. PICK role : task' = [task EXCEPT ![t].pc = "rebuild", ![t].role = role]
  BY DEF SpawnResume
<1> DEFINE x == [task[t] EXCEPT !.pc = "rebuild", !.role = role]
<1>3. x.pc = "rebuild" /\ x.run = r
  BY <1>1, TaskType DEF Task
<1>4. task' = [task EXCEPT ![t] = x]
  BY <1>2
<1>5. UNCHANGED <<status, rows, hist>> /\ task[t].pc = "approved" /\ Live(t)
  BY DEF SpawnResume, Live
<1> HIDE DEF x
<1>6. ASSUME AtWork(task[t], rows[r], hist[r])
      PROVE  AtWork(x, rows[r], hist[r])
  BY <1>3, <1>5, <1>6 DEF AtWork, Resuming, InLoop
<1> QED BY <1>1, <1>3, <1>4, <1>5, <1>6, QuietCourse

\* Rows that are in order have at most one row per step.
LEMMA OneRowEach ==
  ASSUME TypeInv, NEW r \in Runs, hist[r].granted \in {0, 1}, InOrder(rows[r], hist[r])
  PROVE  \A j, k \in DOMAIN rows[r] : j < k => rows[r][j].at < rows[r][k].at
<1>1. DOMAIN rows[r] \subseteq Nat
  BY RowsType
<1>2. CASE hist[r].granted = 0
  BY <1>1, <1>2 DEF InOrder
<1>3. CASE hist[r].granted = 1
  <2>1. PICK g \in Gates : \A k \in DOMAIN rows[r] : rows[r][k].at = IF k < g THEN k ELSE k + 1
    BY <1>3 DEF InOrder
  <2>2. g \in Nat
    BY StepType DEF Gates
  <2> QED BY <1>1, <2>1, <2>2
<1> QED BY <1>2, <1>3

\* What a resumed coroutine remembers of a failed step is that it failed.
LEMMA RebuildCourse ==
  ASSUME TypeInv, CourseInv, NEW t \in Tasks, Rebuild(t)
  PROVE  CourseInv'
<1>1. PICK r \in Runs : r = task[t].run
  BY TaskType
<1> DEFINE Moved(seen) == task' = [task EXCEPT ![t] = [task[t] EXCEPT !.pc = "count",
                                                                       !.seen = seen]]
           FromRows(seen) ==
             \A i \in Index : i \in Written(r) =>
               \E k \in DOMAIN rows[r] : /\ rows[r][k].at = i
                                        /\ seen[i].status = rows[r][k].status
<1>2. PICK seen : Moved(seen) /\ FromRows(seen)
  <2> DEFINE q == task[t].run
  <2>1. PICK last \in LastRows(q) :
          task' = [task EXCEPT ![t].pc = "count",
                     ![t].seen = [i \in Index |->
                        IF i \in Written(q)
                          THEN [status |-> rows[q][last[i]].status,
                                out    |-> rows[q][last[i]].out]
                          ELSE Absent]]
    BY DEF Rebuild
  <2> DEFINE seen == [i \in Index |->
                        IF i \in Written(q)
                          THEN [status |-> rows[q][last[i]].status,
                                out    |-> rows[q][last[i]].out]
                          ELSE Absent]
  <2>2. \A i \in Index : i \in Written(q) =>
          /\ seen[i].status = rows[q][last[i]].status
          /\ last[i] \in DOMAIN rows[q] /\ rows[q][last[i]].at = i
    BY DEF LastRows
  <2>3. Moved(seen)
    BY <2>1
  <2> HIDE DEF seen, q
  <2>4. q = r
    BY <1>1 DEF q
  <2>5. FromRows(seen)
    BY <2>2, <2>4
  <2> HIDE DEF Moved, FromRows
  <2> QED BY <2>3, <2>5
<1> DEFINE x == [task[t] EXCEPT !.pc = "count", !.seen = seen]
<1>3. task' = [task EXCEPT ![t] = x]
  BY <1>2
<1>5. x.pc = "count" /\ x.run = r /\ x.seen = seen
  BY <1>1, TaskType DEF Task
<1>6. UNCHANGED <<status, rows, hist>> /\ task[t].pc = "rebuild" /\ Live(t)
  BY DEF Rebuild, Live
<1> HIDE DEF x
<1>7. ASSUME hist[r].granted \in {0, 1}, AtWork(task[t], rows[r], hist[r]),
             OnRecord(status[r], rows[r], hist[r])
      PROVE  AtWork(x, rows[r], hist[r])
  <2>1. \A j, k \in DOMAIN rows[r] : j < k => rows[r][j].at < rows[r][k].at
    BY <1>7, OneRowEach DEF OnRecord
  <2>2. ASSUME NEW k \in DOMAIN rows[r], rows[r][k].status = "failed"
        PROVE  seen[rows[r][k].at].status = "failed"
    <3> DEFINE i == rows[r][k].at
    <3>1. i \in Index /\ i \in Written(r)
      BY RowsType DEF Written
    <3>2. PICK l \in DOMAIN rows[r] : /\ rows[r][l].at = i
                                     /\ seen[i].status = rows[r][l].status
      BY <1>2, <3>1
    <3>3. l = k
      <4>1. l \in Nat /\ k \in Nat /\ i \in Nat
        BY <3>1, RowsType, StepType
      <4>2. ~(l < k) /\ ~(k < l)
        BY <2>1, <3>2, <4>1
      <4> QED BY <4>1, <4>2
    <3> QED BY <2>2, <3>2, <3>3
  <2> QED BY <1>5, <1>6, <1>7, <2>2 DEF AtWork, Resuming, InLoop
<1> QED BY <1>1, <1>3, <1>5, <1>6, <1>7, QuietCourse

\* The rows are as many as the steps before the gate, so that counting them finds the
\* step behind it.
LEMMA CountCourse ==
  ASSUME TypeInv, CourseInv, NEW t \in Tasks, Count(t)
  PROVE  CourseInv'
<1>1. PICK r \in Runs : r = task[t].run
  BY TaskType
<1> DEFINE n == ResumeAt(r)
           x == [task[t] EXCEPT !.pc = "mark", !.at = n]
<1>2. task' = [task EXCEPT ![t] = x]
  BY <1>1 DEF Count
<1>3. UNCHANGED <<status, rows, hist>> /\ task[t].pc = "count" /\ Live(t)
  BY DEF Count, Live
<1>4. n = Len(rows[r]) + 2 /\ Len(rows[r]) \in Nat
  BY RowsType DEF ResumeAt
<1> HIDE DEF n
<1>5. x.pc = "mark" /\ x.run = r /\ x.at = n /\ x.seen = task[t].seen
  BY <1>1, TaskType DEF Task
<1> HIDE DEF x
<1>6. ASSUME hist[r].granted \in {0, 1}, AtWork(task[t], rows[r], hist[r])
      PROVE  AtWork(x, rows[r], hist[r])
  <2>1. /\ hist[r].granted = 1 /\ Len(rows[r]) + 1 \in Gates
        /\ hist[r].gate = Len(rows[r]) + 1
    BY <1>3, <1>6 DEF AtWork, Resuming
  <2>2. x.at = Due(rows[r], hist[r])
    BY <1>4, <1>5, <2>1 DEF Due
  <2>3. /\ Untouched(hist[r], Due(rows[r], hist[r]))
        /\ \A k \in DOMAIN rows[r] : rows[r][k].status = "failed" =>
             task[t].seen[rows[r][k].at].status = "failed"
    BY <1>3, <1>6 DEF AtWork
  <2> QED BY <1>5, <2>1, <2>2, <2>3 DEF AtWork, Resuming, InLoop
<1> QED BY <1>1, <1>2, <1>3, <1>5, <1>6, QuietCourse

\* mark_run_running: the loop begins behind what is done, knowing whether any of it failed.
LEMMA MarkCourse ==
  ASSUME TypeInv, CourseInv, NEW t \in Tasks, Mark(t)
  PROVE  CourseInv'
<1>1. PICK r \in Runs : r = task[t].run
  BY TaskType
<1> DEFINE bad   == AnyFailed(task[t].seen)
           p     == IF task[t].at <= Len(Steps) THEN "check" ELSE "finish"
           final == IF bad THEN "failed" ELSE "success"
           x == [task[t] EXCEPT !.bad = bad, !.pc = p, !.final = final]
<1>2. task' = [task EXCEPT ![t] = x]
  BY DEF Mark
<1>3. /\ status' = [status EXCEPT ![r] =
                      IF @ \in {"queued", "awaiting_approval"} THEN "running" ELSE @]
      /\ UNCHANGED <<rows, hist>> /\ task[t].pc = "mark" /\ Live(t)
  BY <1>1 DEF Mark, MarkRunRunning, Live
<1>4. bad \in BOOLEAN
  BY DEF AnyFailed
<1>5. bad <=> \E i \in Index : task[t].seen[i].status = "failed"
  BY DEF AnyFailed
<1> HIDE DEF bad
<1>6. final = "success" => ~bad
  OBVIOUS
<1>7. /\ task[t].at <= Len(Steps) => p = "check"
      /\ ~(task[t].at <= Len(Steps)) => p = "finish"
  OBVIOUS
<1> HIDE DEF p, final
<1>8. x.pc = p /\ x.run = r /\ x.at = task[t].at /\ x.final = final /\ (x.bad <=> bad)
  BY <1>1, <1>4, TaskType DEF Task
<1> HIDE DEF x
<1>9. OnlyRun(r)
  BY <1>1, <1>3 DEF OnlyRun, TypeInv, TypeOK
<1>10. status'[r] = "running" \/ status'[r] = status[r]
  BY <1>3 DEF TypeInv, TypeOK
<1>11. ASSUME hist'[r].granted <= 1
       PROVE  /\ \A u \in Tasks \ {t} : ~WorksOn(u, r)
              /\ OnRecord(status'[r], rows'[r], hist'[r])
              /\ AtWork(x, rows'[r], hist'[r])
              /\ ~Resting(status'[r], hist'[r])
  <2>1. /\ AtWork(task[t], rows[r], hist[r]) /\ OnRecord(status[r], rows[r], hist[r])
        /\ ~Resting(status[r], hist[r]) /\ hist[r].granted \in {0, 1}
        /\ \A u \in Tasks \ {t} : ~WorksOn(u, r)
    BY <1>1, <1>3, <1>11, AloneAtWork
  <2>2. OnRecord(status'[r], rows[r], hist[r])
    BY <1>10, <2>1 DEF OnRecord
  <2>3. ~Resting(status'[r], hist[r])
    BY <1>10, <2>1 DEF Resting
  <2>4. ~bad => NoneFailed(rows[r])
    <3>1. \A k \in DOMAIN rows[r] : rows[r][k].status = "failed" =>
            task[t].seen[rows[r][k].at].status = "failed"
      BY <1>3, <2>1 DEF AtWork
    <3> QED BY <1>5, <3>1, RowsType DEF NoneFailed
  <2>5. x.at = Due(rows[r], hist[r]) /\ Untouched(hist[r], Due(rows[r], hist[r]))
    BY <1>3, <1>8, <2>1 DEF AtWork
  <2>6. CASE x.at <= Len(Steps)
    <3>1. x.pc = "check"
      BY <1>7, <1>8, <2>6
    <3> QED BY <1>3, <1>8, <2>1, <2>2, <2>3, <2>4, <2>5, <3>1, AtStep DEF InLoop
  <2>7. CASE ~(x.at <= Len(Steps))
    <3>1. x.pc = "finish"
      BY <1>7, <1>8, <2>7
    <3>2. Len(rows[r]) + hist[r].granted = Len(Steps)
      <4>1. IF hist[r].granted = 1 THEN Len(rows[r]) + 1 \in Gates ELSE Len(rows[r]) = 0
        BY <1>3, <2>1 DEF AtWork
      <4>2. Len(rows[r]) \in Nat /\ Len(Steps) \in Nat
        BY RowsType, StepType
      <4>3. Len(rows[r]) + hist[r].granted <= Len(Steps)
        BY <2>1 DEF OnRecord, InOrder
      <4> QED BY <2>1, <2>5, <2>7, <4>2, <4>3 DEF Due
    <3>3. x.final = "success" => Complete(rows[r], hist[r])
      BY <1>6, <1>8, <2>4, <3>2 DEF Complete
    <3> QED BY <1>3, <2>1, <2>2, <2>3, <3>1, <3>3, AtEnd
  <2> QED BY <2>6, <2>7
<1> QED BY <1>1, <1>2, <1>8, <1>9, <1>11, OneCourse

\* The abort check and the choice of what to do with the step.
LEMMA CheckCourse ==
  ASSUME TypeInv, CourseInv, NEW t \in Tasks, Check(t) \/ Refuse(t)
  PROVE  CourseInv'
<1>1. PICK r \in Runs : r = task[t].run
  BY TaskType
<1>2. PICK p \in {"skip", "park", "lookup", "reject"} :
        /\ task' = [task EXCEPT ![t].pc = p]
        /\ p = "park" => task[t].at \in Gates
  <2> DEFINE i == task[t].at
  <2>1. CASE Check(t)
    <3> DEFINE p == IF ~ShouldRun(Steps[i], task[t].seen) THEN "skip"
                    ELSE IF Steps[i].kind = "approval" THEN "park"
                    ELSE "lookup"
    <3>1. task' = [task EXCEPT ![t].pc = p]
      BY <2>1 DEF Check
    <3>2. i \in Index
      BY <2>1, TaskType DEF Check, InLoop
    <3>3. p \in {"skip", "park", "lookup", "reject"} /\ (p = "park" => i \in Gates)
      BY <3>2 DEF Gates
    <3> HIDE DEF p
    <3> QED BY <3>1, <3>3
  <2>2. CASE Refuse(t)
    BY <2>2 DEF Refuse
  <2> QED BY <2>1, <2>2
<1> DEFINE x == [task[t] EXCEPT !.pc = p]
<1>3. x.pc = p /\ x.run = r /\ x.at = task[t].at /\ (x.bad <=> task[t].bad)
  BY <1>1, TaskType DEF Task
<1>4. task' = [task EXCEPT ![t] = x]
  BY <1>2
<1>5. UNCHANGED <<status, rows, hist>> /\ task[t].pc \in {"check", "lookup"} /\ Live(t)
  BY DEF Check, Refuse, Live
<1> HIDE DEF x
<1>6. ASSUME AtWork(task[t], rows[r], hist[r])
      PROVE  AtWork(x, rows[r], hist[r])
  <2>1. /\ task[t].at = Due(rows[r], hist[r]) /\ Untouched(hist[r], Due(rows[r], hist[r]))
        /\ ~task[t].bad => NoneFailed(rows[r])
    BY <1>5, <1>6 DEF AtWork, InLoop
  <2> QED BY <1>2, <1>3, <2>1, AtStep DEF InLoop
<1> QED BY <1>1, <1>3, <1>4, <1>5, <1>6, QuietCourse

\* A step that is over has its row, and the next one is due.
LEMMA RowCourse ==
  ASSUME TypeInv, CourseInv, NEW t \in Tasks, Live(t), NEW r \in Runs, r = task[t].run,
         task[t].pc \in InLoop, NEW res \in Results, AddRunStep(r, task[t].at, res),
         UNCHANGED <<status, hist>>, NEW x, x.run = r, task' = [task EXCEPT ![t] = x],
         \/ /\ x.pc = IF task[t].at < Len(Steps) THEN "check" ELSE "finish"
            /\ x.at = task[t].at + 1
            /\ x.bad <=> (task[t].bad \/ res.status = "failed")
            /\ x.final = IF x.bad THEN "failed" ELSE "success"
         \/ x.pc = "finish" /\ x.final = "failed"
  PROVE  CourseInv'
<1> DEFINE w  == [at |-> task[t].at, status |-> res.status, out |-> res.out]
           rs == Append(rows[r], w)
           h  == hist[r]
<1>1. rows' = [rows EXCEPT ![r] = rs]
  BY DEF AddRunStep
<1>2. task[t].at \in Index
  BY TaskType
<1>3. w \in Row /\ w.at = task[t].at /\ w.status = res.status
  BY <1>2 DEF Row, Results
<1> HIDE DEF w
<1>4. rows'[r] = rs /\ status'[r] = status[r] /\ hist'[r] = h
  BY <1>1 DEF TypeInv, TypeOK
<1>5. OnlyRun(r)
  BY <1>1 DEF OnlyRun, TypeInv, TypeOK
<1>6. ASSUME hist'[r].granted <= 1
      PROVE  /\ \A u \in Tasks \ {t} : ~WorksOn(u, r)
             /\ OnRecord(status'[r], rows'[r], hist'[r])
             /\ AtWork(x, rows'[r], hist'[r])
             /\ ~Resting(status'[r], hist'[r])
  <2>1. /\ AtWork(task[t], rows[r], h) /\ OnRecord(status[r], rows[r], h)
        /\ ~Resting(status[r], h) /\ h.granted \in {0, 1}
        /\ \A u \in Tasks \ {t} : ~WorksOn(u, r)
    BY <1>4, <1>6, AloneAtWork
  <2>2. /\ w.at = Due(rows[r], h)
        /\ ~task[t].bad => NoneFailed(rows[r])
        /\ Untouched(h, w.at) \/ Untouched(h, w.at + 1)
    BY <1>3, <2>1 DEF AtWork, InLoop
  <2>3. rows[r] \in Seq(Row) /\ Len(rows[r]) \in Nat /\ Len(Steps) \in Nat /\ w.at \in Nat
    BY <1>2, <1>3, RowsType, StepType
  <2> HIDE DEF h
  <2>4. /\ InOrder(rs, h) /\ Len(rs) = Len(rows[r]) + 1 /\ Due(rs, h) = w.at + 1
        /\ NoneFailed(rows[r]) /\ res.status # "failed" => NoneFailed(rs)
    BY <1>3, <2>1, <2>2, <2>3, RowInOrder DEF OnRecord
  <2> HIDE DEF rs
  <2>5. OnRecord(status[r], rs, h)
    BY <2>1, <2>4 DEF OnRecord, Resting
  <2>6. Untouched(h, Due(rs, h))
    BY <2>2, <2>3, <2>4, StepType DEF Untouched
  <2>7. AtWork(x, rs, h)
    <3>1. CASE x.pc = "finish" /\ x.final = "failed"
      BY <3>1, AtEnd
    <3>2. CASE /\ x.pc = IF task[t].at < Len(Steps) THEN "check" ELSE "finish"
               /\ x.at = task[t].at + 1
               /\ x.bad <=> (task[t].bad \/ res.status = "failed")
               /\ x.final = IF x.bad THEN "failed" ELSE "success"
      <4>1. ~x.bad => NoneFailed(rs)
        BY <2>2, <2>4, <3>2
      <4>2. x.at = Due(rs, h)
        BY <1>3, <2>4, <3>2
      <4>3. CASE task[t].at < Len(Steps)
        <5>1. x.pc = "check"
          BY <3>2, <4>3
        <5> QED BY <2>6, <4>1, <4>2, <5>1, AtStep DEF InLoop
      <4>4. CASE ~(task[t].at < Len(Steps))
        <5>1. x.pc = "finish" /\ (x.final = "success" => ~x.bad)
          BY <3>2, <4>4
        <5>2. Len(rs) + h.granted = Len(Steps)
          <6>1. Len(rs) + h.granted <= Len(Steps)
            BY <2>4 DEF InOrder
          <6>2. Len(rs) + h.granted = w.at
            BY <2>1, <2>2, <2>3, <2>4 DEF Due
          <6> QED BY <1>3, <2>3, <4>4, <6>1, <6>2
        <5> QED BY <4>1, <5>1, <5>2, AtEnd DEF Complete
      <4> QED BY <4>3, <4>4
    <3> QED BY <3>1, <3>2
  <2> QED BY <1>4, <2>1, <2>5, <2>7
<1> QED BY <1>4, <1>5, <1>6, OneCourse

\* Skipping a step.
LEMMA SkipCourse ==
  ASSUME TypeInv, CourseInv, NEW t \in Tasks, Skip(t)
  PROVE  CourseInv'
<1>1. PICK r \in Runs : r = task[t].run
  BY TaskType
<1> DEFINE res  == [status |-> "skipped", out |-> NoOutput]
           seen == [task[t].seen EXCEPT ![task[t].at] = res]
           bad  == task[t].bad
           x    == Advance(t, seen, bad)
<1>2. /\ task' = [task EXCEPT ![t] = x] /\ AddRunStep(r, task[t].at, res)
      /\ UNCHANGED <<status, hist>> /\ task[t].pc \in InLoop /\ Live(t)
  BY <1>1 DEF Skip, InLoop, Live
<1>3. res \in Results /\ res.status # "failed"
  BY DEF Results
<1>4. bad \in BOOLEAN
  BY TaskType
<1> HIDE DEF seen, bad
<1>5. /\ x.pc = IF task[t].at < Len(Steps) THEN "check" ELSE "finish"
      /\ x.at = task[t].at + 1 /\ x.run = task[t].run
      /\ x.bad <=> bad
      /\ x.final = IF bad THEN "failed" ELSE "success"
  BY <1>4, AdvanceAll
<1> HIDE DEF x, res
<1>6. /\ x.bad <=> (task[t].bad \/ res.status = "failed")
      /\ x.final = IF x.bad THEN "failed" ELSE "success"
  BY <1>3, <1>5 DEF bad
<1> QED BY <1>1, <1>2, <1>3, <1>5, <1>6, RowCourse

\* A step no agent may run.
LEMMA RejectCourse ==
  ASSUME TypeInv, CourseInv, NEW t \in Tasks, Reject(t)
  PROVE  CourseInv'
<1>1. PICK r \in Runs : r = task[t].run
  BY TaskType
<1> DEFINE res == [status |-> "failed", out |-> NoOutput]
           x   == [task[t] EXCEPT !.pc = "finish", !.final = "failed"]
<1>2. /\ task' = [task EXCEPT ![t] = x] /\ AddRunStep(r, task[t].at, res)
      /\ UNCHANGED <<status, hist>> /\ task[t].pc \in InLoop /\ Live(t)
  BY <1>1 DEF Reject, InLoop, Live
<1>3. res \in Results
  BY DEF Results
<1>4. x.pc = "finish" /\ x.final = "failed" /\ x.run = r
  BY <1>1, TaskType DEF Task
<1> HIDE DEF x, res
<1> QED BY <1>1, <1>2, <1>3, <1>4, RowCourse

\* An agent comes back, and ends the run or lets it go on.
LEMMA AgentReturnsCourse ==
  ASSUME TypeInv, CourseInv, NEW t \in Tasks, AgentReturns(t)
  PROVE  CourseInv'
<1>1. PICK r \in Runs : r = task[t].run
  BY TaskType
<1>2. PICK s \in AgentResults, o \in Outputs :
        LET res   == [status |-> s, out |-> o]
            after == Advance(t, [task[t].seen EXCEPT ![task[t].at] = res],
                             task[t].bad \/ s = "failed")
        IN  /\ AddRunStep(task[t].run, task[t].at, res)
            /\ task' = [task EXCEPT ![t] =
                          IF s = "failed" /\ Steps[task[t].at].stops
                            THEN [after EXCEPT !.pc = "finish", !.final = "failed"]
                            ELSE after]
  BY DEF AgentReturns
<1> DEFINE res   == [status |-> s, out |-> o]
           seen  == [task[t].seen EXCEPT ![task[t].at] = res]
           bad   == task[t].bad \/ s = "failed"
           after == Advance(t, seen, bad)
           ends  == s = "failed" /\ Steps[task[t].at].stops
           x     == IF ends THEN [after EXCEPT !.pc = "finish", !.final = "failed"] ELSE after
<1>3. /\ task' = [task EXCEPT ![t] = x] /\ AddRunStep(task[t].run, task[t].at, res)
  BY <1>2
<1>4. /\ UNCHANGED <<status, hist>> /\ task[t].pc \in InLoop /\ Live(t)
  BY DEF AgentReturns, InLoop, Live
<1>5. res \in Results /\ res.status = s
  BY ResultsAssumption DEF Results
<1>6. bad \in BOOLEAN
  BY TaskType
<1>7. bad <=> (task[t].bad \/ res.status = "failed")
  BY <1>5
<1> HIDE DEF seen, bad, res
<1>8. /\ after.pc = IF task[t].at < Len(Steps) THEN "check" ELSE "finish"
      /\ after.at = task[t].at + 1 /\ after.run = task[t].run
      /\ after.bad <=> bad
      /\ after.final = IF bad THEN "failed" ELSE "success"
      /\ DOMAIN after = DOMAIN task[t]
  BY <1>6, AdvanceAll
<1>9. {"pc", "final", "run"} \subseteq DOMAIN task[t]
  BY TaskType DEF Task
<1> HIDE DEF after
<1>10. CASE ends
  <2> DEFINE y == [after EXCEPT !.pc = "finish", !.final = "failed"]
  <2>1. y.pc = "finish" /\ y.final = "failed" /\ y.run = task[t].run
    BY <1>8, <1>9
  <2>2. task' = [task EXCEPT ![t] = y]
    BY <1>3, <1>10
  <2> HIDE DEF y
  <2> QED BY <1>1, <1>3, <1>4, <1>5, <2>1, <2>2, RowCourse
<1>11. CASE ~ends
  <2>1. task' = [task EXCEPT ![t] = after]
    BY <1>3, <1>11
  <2>2. /\ after.bad <=> (task[t].bad \/ res.status = "failed")
        /\ after.final = IF after.bad THEN "failed" ELSE "success"
    BY <1>7, <1>8
  <2>3. AddRunStep(r, task[t].at, res) /\ after.run = r
    BY <1>1, <1>3, <1>8
  <2> HIDE DEF x, ends
  <2> QED BY <1>1, <1>4, <1>5, <1>8, <2>1, <2>2, <2>3, RowCourse
<1> QED BY <1>10, <1>11

\* An agent is started on a step no agent was started on before.
LEMMA StartAgentCourse ==
  ASSUME TypeInv, CourseInv, NEW t \in Tasks, StartAgent(t)
  PROVE  CourseInv'
<1>1. PICK r \in Runs : r = task[t].run
  BY TaskType
<1> DEFINE i == task[t].at
           l == IF hist[r].abort # "none" THEN hist[r].late + 1 ELSE hist[r].late
           h == [hist[r] EXCEPT !.ran[i] = @ + 1, !.late = l]
           x == [task[t] EXCEPT !.pc = "agent"]
<1>2. /\ task' = [task EXCEPT ![t] = x] /\ hist' = [hist EXCEPT ![r] = h]
      /\ UNCHANGED <<status, rows>> /\ task[t].pc = "lookup" /\ Live(t)
  BY <1>1 DEF StartAgent, Live
<1>3. i \in Index /\ i \in Nat
  BY <1>2, TaskType DEF InLoop
<1> HIDE DEF i, l
<1>4. /\ h.granted = hist[r].granted /\ h.gate = hist[r].gate
      /\ h.ran = [hist[r].ran EXCEPT ![i] = @ + 1]
  BY <1>3, HistoryType DEF Histories
<1>5. /\ h.ran[i] = hist[r].ran[i] + 1
      /\ \A j \in Index \ {i} : h.ran[j] = hist[r].ran[j]
  BY <1>3, <1>4, HistoryType
<1>10. h.gate # 0 => h.gate \in Index /\ h.ran[h.gate] >= hist[r].ran[h.gate]
  <2>1. /\ hist[r].gate \in 0..Len(Steps) /\ \A j \in Index : hist[r].ran[j] \in Nat
        /\ Len(Steps) \in Nat
    BY HistoryType, StepType DEF Histories
  <2>2. h.gate # 0 => h.gate \in Index
    BY <1>4, <2>1 DEF Index
  <2> QED BY <1>3, <1>5, <2>1, <2>2
<1>6. x.pc = "agent" /\ x.run = r /\ x.at = i /\ (x.bad <=> task[t].bad)
  BY <1>1, TaskType DEF Task, i
<1> HIDE DEF h, x
<1>7. hist'[r] = h /\ status'[r] = status[r] /\ rows'[r] = rows[r]
  BY <1>2 DEF TypeInv, TypeOK
<1>8. OnlyRun(r)
  BY <1>2 DEF OnlyRun, TypeInv, TypeOK
<1>9. ASSUME hist'[r].granted <= 1
      PROVE  /\ \A u \in Tasks \ {t} : ~WorksOn(u, r)
             /\ OnRecord(status'[r], rows'[r], hist'[r])
             /\ AtWork(x, rows'[r], hist'[r])
             /\ ~Resting(status'[r], hist'[r])
  <2>1. /\ AtWork(task[t], rows[r], hist[r]) /\ OnRecord(status[r], rows[r], hist[r])
        /\ ~Resting(status[r], hist[r]) /\ hist[r].granted \in {0, 1}
        /\ \A u \in Tasks \ {t} : ~WorksOn(u, r)
    BY <1>1, <1>2, <1>4, <1>7, <1>9, AloneAtWork
  <2>2. /\ i = Due(rows[r], hist[r]) /\ Untouched(hist[r], i)
        /\ ~task[t].bad => NoneFailed(rows[r])
    BY <1>2, <2>1 DEF AtWork, InLoop, i
  <2>3. Due(rows[r], h) = Due(rows[r], hist[r])
    BY <1>4 DEF Due
  <2>4. Once(h)
    BY <1>3, <1>5, <2>1, <2>2 DEF Untouched, Once, OnRecord
  <2>5. Untouched(h, i + 1)
    <3>1. \A j \in Index : j >= i + 1 => j # i /\ j >= i
      BY <1>3, StepType
    <3> QED BY <1>5, <2>2, <3>1 DEF Untouched
  <2>9. h.gate # 0 => h.ran[h.gate] > 0
    <3>1. \A j \in Index : hist[r].ran[j] \in Nat
      BY HistoryType
    <3>2. \A j \in Index : h.ran[j] \in Nat
      BY <1>3, <1>5, <3>1
    <3> QED BY <1>4, <1>10, <2>1, <3>1, <3>2 DEF OnRecord
  <2>6. OnRecord(status[r], rows[r], h)
    BY <1>4, <2>1, <2>4, <2>9 DEF OnRecord, InOrder, Complete, Resting
  <2>7. AtWork(x, rows[r], h)
    BY <1>6, <2>2, <2>3, <2>5 DEF AtWork, Resuming, InLoop
  <2>8. ~Resting(status[r], h)
    BY <1>4, <2>1 DEF Resting
  <2> QED BY <1>7, <2>1, <2>6, <2>7, <2>8
<1> QED BY <1>1, <1>2, <1>6, <1>8, <1>9, OneCourse

\* A run is parked on a gate it was not parked on before, and its task is gone.
LEMMA ParkCourse ==
  ASSUME TypeInv, CourseInv, NEW t \in Tasks, Park(t)
  PROVE  CourseInv'
<1>1. PICK r \in Runs : r = task[t].run
  BY TaskType
<1> DEFINE i == task[t].at
           h == [hist[r] EXCEPT !.gate = i, !.ran[i] = @ + 1]
           x == Done(t)
<1>2. /\ task' = [task EXCEPT ![t] = x] /\ hist' = [hist EXCEPT ![r] = h]
      /\ status' = [status EXCEPT ![r] = "awaiting_approval"]
      /\ UNCHANGED rows /\ task[t].pc = "park" /\ Live(t)
  BY <1>1 DEF Park, FinishRun, SetStatus, Live
<1>3. i \in Index /\ i \in Nat
  BY <1>2, TaskType DEF InLoop
<1> HIDE DEF i
<1>4. /\ h.granted = hist[r].granted /\ h.gate = i
      /\ h.ran = [hist[r].ran EXCEPT ![i] = @ + 1]
  BY <1>3, HistoryType DEF Histories
<1>5. /\ h.ran[i] = hist[r].ran[i] + 1
      /\ \A j \in Index \ {i} : h.ran[j] = hist[r].ran[j]
  BY <1>3, <1>4, HistoryType
<1>6. x.pc = "idle" /\ x.run = r
  BY <1>1, DoneFields
<1> HIDE DEF h, x
<1>7. hist'[r] = h /\ status'[r] = "awaiting_approval" /\ rows'[r] = rows[r]
  BY <1>2 DEF TypeInv, TypeOK
<1>8. OnlyRun(r)
  BY <1>2 DEF OnlyRun, TypeInv, TypeOK
<1>9. ASSUME hist'[r].granted <= 1
      PROVE  /\ \A u \in Tasks \ {t} : ~WorksOn(u, r)
             /\ OnRecord(status'[r], rows'[r], hist'[r])
  <2>1. /\ AtWork(task[t], rows[r], hist[r]) /\ OnRecord(status[r], rows[r], hist[r])
        /\ hist[r].granted \in {0, 1}
        /\ \A u \in Tasks \ {t} : ~WorksOn(u, r)
    BY <1>1, <1>2, <1>4, <1>7, <1>9, AloneAtWork
  <2>2. i = Due(rows[r], hist[r]) /\ Untouched(hist[r], i) /\ i \in Gates
    BY <1>2, <2>1 DEF AtWork, InLoop, i
  <2>3. Once(h)
    BY <1>3, <1>5, <2>1, <2>2 DEF Untouched, Once, OnRecord
  <2>4. Untouched(h, i + 1)
    <3>1. \A j \in Index : j >= i + 1 => j # i /\ j >= i
      BY <1>3, StepType
    <3> QED BY <1>5, <2>2, <3>1 DEF Untouched
  <2>5. ASSUME h.granted = 0 PROVE Len(rows[r]) + 1 = i /\ Len(rows[r]) + 2 = i + 1
    BY <1>4, <2>2, <2>5, RowsType DEF Due
  <2>7. h.gate # 0 => h.ran[h.gate] > 0
    <3>1. hist[r].ran[i] \in Nat
      BY <1>3, HistoryType
    <3> QED BY <1>4, <1>5, <3>1
  <2>6. OnRecord("awaiting_approval", rows[r], h)
    BY <1>4, <2>1, <2>2, <2>3, <2>4, <2>5, <2>7 DEF OnRecord, InOrder
  <2> QED BY <1>7, <2>1, <2>6
<1> QED BY <1>1, <1>2, <1>6, <1>8, <1>9, OneCourse

\* A task that ends leaves the verdict it has reached, or none.
LEMMA EndsCourse ==
  ASSUME TypeInv, CourseInv, NEW t \in Tasks,
         Finish(t) \/ Stop(t) \/ HandlerFails(t) \/ RecordFails(t)
  PROVE  CourseInv'
<1>1. PICK r \in Runs : r = task[t].run
  BY TaskType
<1> DEFINE x == Done(t)
<1>2. /\ task' = [task EXCEPT ![t] = x] /\ UNCHANGED <<rows, hist>> /\ Live(t)
  BY DEF Finish, Stop, HandlerFails, RecordFails, Handling, Live
<1>3. x.pc = "idle" /\ x.run = r
  BY <1>1, DoneFields
<1> HIDE DEF x
<1>4. \/ status' = status
      \/ task[t].pc \in {"finish", "record"} /\ status' = [status EXCEPT ![r] = task[t].final]
  BY <1>1 DEF Finish, Stop, HandlerFails, RecordFails, FinishRun, SetStatus
<1>5. OnlyRun(r)
  BY <1>2, <1>4 DEF OnlyRun, TypeInv, TypeOK
<1>6. ASSUME hist'[r].granted <= 1
      PROVE  /\ \A u \in Tasks \ {t} : ~WorksOn(u, r)
             /\ OnRecord(status'[r], rows'[r], hist'[r])
  <2>1. /\ AtWork(task[t], rows[r], hist[r]) /\ OnRecord(status[r], rows[r], hist[r])
        /\ \A u \in Tasks \ {t} : ~WorksOn(u, r)
    BY <1>1, <1>2, <1>6, AloneAtWork
  <2>2. CASE status' = status
    BY <1>2, <2>1, <2>2
  <2>3. CASE task[t].pc \in {"finish", "record"} /\ status' = [status EXCEPT ![r] = task[t].final]
    <3>1. status'[r] = task[t].final /\ task[t].final \in {"success", "failed"}
      BY <2>3, TaskType DEF TypeInv, TypeOK, Task
    <3>2. task[t].final = "success" => Complete(rows[r], hist[r])
      BY <2>1, <2>3 DEF AtWork
    <3>3. OnRecord(task[t].final, rows[r], hist[r])
      BY <2>1, <3>1, <3>2 DEF OnRecord
    <3> QED BY <1>2, <2>1, <3>1, <3>3
  <2> QED BY <1>4, <2>2, <2>3
<1> QED BY <1>1, <1>2, <1>3, <1>5, <1>6, OneCourse

\* An exception takes the coroutine to its end, with no success to report.
LEMMA RaiseCourse ==
  ASSUME TypeInv, CourseInv, NEW t \in Tasks, Raise(t)
  PROVE  CourseInv'
<1>1. PICK r \in Runs : r = task[t].run
  BY TaskType
<1> DEFINE x == [task[t] EXCEPT !.pc = "record", !.final = "failed"]
<1>2. task' = [task EXCEPT ![t] = x] /\ UNCHANGED <<status, rows, hist>> /\ Live(t)
  BY DEF Raise, Background, Live
<1>3. x.pc = "record" /\ x.final = "failed" /\ x.run = r
  BY <1>1, TaskType DEF Task
<1> HIDE DEF x
<1>4. AtWork(x, rows[r], hist[r])
  BY <1>3, AtEnd
<1> QED BY <1>1, <1>2, <1>3, <1>4, QuietCourse

\* A run is created, and a task with it.
LEMMA ExecuteCourse ==
  ASSUME TypeInv, CourseInv, NEW r \in Runs, NEW t \in Tasks, Execute(r, t)
  PROVE  CourseInv'
<1>1. PICK x : task' = [task EXCEPT ![t] = x] /\ x.pc = "created" /\ x.run = r /\ x.at = 1
  <2>1. PICK who \in Triggers, old \in {FALSE, overlap} :
          task' = [task EXCEPT ![t] = NewTask("created", r, who.role, 0, old)]
    BY DEF Execute
  <2> DEFINE y == NewTask("created", r, who.role, 0, old)
  <2>2. y.pc = "created" /\ y.run = r /\ y.at = 1
    BY DEF NewTask
  <2> HIDE DEF y
  <2> QED BY <2>1, <2>2 DEF y
<1>2. /\ status[r] = "none" /\ status' = [status EXCEPT ![r] = "queued"]
      /\ UNCHANGED <<rows, hist>> /\ ~Live(t)
  BY DEF Execute, SetStatus
<1>3. OnlyRun(r) /\ status'[r] = "queued"
  BY <1>2 DEF OnlyRun, TypeInv, TypeOK
<1>4. ASSUME hist'[r].granted <= 1
      PROVE  /\ \A u \in Tasks \ {t} : ~WorksOn(u, r)
             /\ OnRecord(status'[r], rows'[r], hist'[r])
             /\ AtWork(x, rows'[r], hist'[r])
             /\ ~Resting(status'[r], hist'[r])
  <2>1. OnCourse(r)
    BY <1>2, <1>4 DEF CourseInv
  <2>2. /\ \A u \in Tasks : ~WorksOn(u, r)
        /\ OnRecord(status[r], rows[r], hist[r])
        /\ hist[r].granted = 0 /\ Len(rows[r]) = 0 /\ Untouched(hist[r], 1)
    BY <1>2, <2>1 DEF OnCourse, OnRecord, Resting
  <2>3. Due(rows[r], hist[r]) = 1
    BY <2>2 DEF Due
  <2>4. AtWork(x, rows[r], hist[r])
    BY <1>1, <2>2, <2>3 DEF AtWork, Resuming, InLoop
  <2>5. OnRecord("queued", rows[r], hist[r])
    BY <2>2 DEF OnRecord
  <2> QED BY <1>2, <1>3, <2>2, <2>4, <2>5 DEF Resting
<1> QED BY <1>1, <1>2, <1>3, <1>4, OneCourse

\* The first approval finds the run with nothing at work on it, at its gate.
LEMMA ApproveCourse ==
  ASSUME TypeInv, CourseInv, NEW r \in Runs, NEW t \in Tasks, Approve(r, t)
  PROVE  CourseInv'
<1>0. PICK old \in {FALSE, overlap} :
        task' = [task EXCEPT ![t] = NewTask("approved", r, Viewer, hist[r].gate, old)]
  BY DEF Approve
<1> DEFINE h == [hist[r] EXCEPT !.granted = @ + 1]
           x == NewTask("approved", r, Viewer, hist[r].gate, old)
<1>1. /\ task' = [task EXCEPT ![t] = x] /\ hist' = [hist EXCEPT ![r] = h]
      /\ UNCHANGED <<status, rows>> /\ ~Live(t) /\ status[r] = "awaiting_approval"
  BY <1>0 DEF Approve
<1>2. x.pc = "approved" /\ x.run = r
  BY DEF NewTask
<1>3. /\ h.granted = hist[r].granted + 1 /\ hist[r].granted \in Nat
      /\ h.ran = hist[r].ran /\ h.gate = hist[r].gate
  BY HistoryType DEF Histories
<1> HIDE DEF h, x
<1>4. hist'[r] = h /\ OnlyRun(r)
  BY <1>1 DEF OnlyRun, TypeInv, TypeOK
<1>5. ASSUME hist'[r].granted <= 1
      PROVE  /\ \A u \in Tasks \ {t} : ~WorksOn(u, r)
             /\ OnRecord(status'[r], rows'[r], hist'[r])
             /\ AtWork(x, rows'[r], hist'[r])
             /\ ~Resting(status'[r], hist'[r])
  <2>1. hist[r].granted = 0 /\ h.granted = 1
    BY <1>3, <1>4, <1>5
  <2>2. OnCourse(r)
    BY <2>1 DEF CourseInv
  <2>3. /\ \A u \in Tasks : ~WorksOn(u, r)
        /\ OnRecord(status[r], rows[r], hist[r])
        /\ Len(rows[r]) + 1 \in Gates /\ hist[r].gate = Len(rows[r]) + 1
        /\ Untouched(hist[r], Len(rows[r]) + 2)
    BY <1>1, <2>1, <2>2 DEF OnCourse, OnRecord, Resting
  <2>4. Len(rows[r]) \in Nat /\ DOMAIN rows[r] = 1..Len(rows[r])
    BY RowsType
  <2>5. Len(rows[r]) + 1 <= Len(Steps)
    BY <2>3, StepType DEF Gates
  <2>6. InOrder(rows[r], h)
    <3>1. \A k \in DOMAIN rows[r] : rows[r][k].at = k
      BY <2>1, <2>3 DEF OnRecord, InOrder
    <3>2. \A k \in DOMAIN rows[r] : k < Len(rows[r]) + 1
      BY <2>4
    <3> QED BY <2>1, <2>3, <2>4, <2>5, <3>1, <3>2 DEF InOrder
  <2>7. Due(rows[r], h) = Len(rows[r]) + 2 /\ Untouched(h, Len(rows[r]) + 2)
    BY <1>3, <2>1, <2>3, <2>4 DEF Due, Untouched
  <2>8. OnRecord(status[r], rows[r], h)
    BY <1>1, <1>3, <2>1, <2>3, <2>6 DEF OnRecord, Once
  <2>9. AtWork(x, rows[r], h)
    BY <1>2, <1>3, <2>1, <2>3, <2>7 DEF AtWork, Resuming, InLoop
  <2> QED BY <1>1, <1>4, <2>1, <2>3, <2>8, <2>9 DEF Resting
<1> QED BY <1>1, <1>2, <1>4, <1>5, OneCourse

\* A status that no coroutine reports, and tasks that stay as they are or are gone:
\* every run stays on its course.
LEMMA OutsideCourse ==
  ASSUME TypeInv, CourseInv, UNCHANGED rows,
         \A r \in Runs : /\ hist'[r].granted = hist[r].granted
                         /\ hist'[r].ran = hist[r].ran /\ hist'[r].gate = hist[r].gate
                         /\ status'[r] \in {status[r], "failed", "aborted"},
         \A t \in Tasks : \/ task'[t].pc = "idle"
                          \/ /\ task'[t].pc = task[t].pc /\ task'[t].run = task[t].run
                             /\ task'[t].at = task[t].at /\ task'[t].seen = task[t].seen
                             /\ task'[t].bad <=> task[t].bad
                             /\ task'[t].final = task[t].final
  PROVE  CourseInv'
<1> SUFFICES ASSUME NEW r \in Runs, hist'[r].granted <= 1 PROVE OnCourse(r)'
  BY DEF CourseInv
<1>1. OnCourse(r)
  BY DEF CourseInv
<1>2. OnRecord(status'[r], rows'[r], hist'[r])
  BY <1>1 DEF OnCourse, OnRecord, InOrder, Once, Untouched, Complete
<1>3. \A u \in Tasks : WorksOn(u, r)' => WorksOn(u, r)
  BY DEF WorksOn, Live
<1>4. ASSUME NEW u \in Tasks, WorksOn(u, r)' PROVE AtWork(task'[u], rows'[r], hist'[r])
  <2>1. AtWork(task[u], rows[r], hist[r])
    BY <1>1, <1>3, <1>4 DEF OnCourse
  <2>2. /\ task'[u].pc = task[u].pc /\ task'[u].run = task[u].run
        /\ task'[u].at = task[u].at /\ task'[u].seen = task[u].seen
        /\ task'[u].bad <=> task[u].bad
        /\ task'[u].final = task[u].final
    BY <1>4 DEF WorksOn, Live
  <2>3. Due(rows[r], hist'[r]) = Due(rows[r], hist[r])
    BY DEF Due
  <2>4. \A n : Untouched(hist'[r], n) <=> Untouched(hist[r], n)
    BY DEF Untouched
  <2>5. Complete(rows[r], hist[r]) => Complete(rows[r], hist'[r])
    BY DEF Complete
  <2> QED BY <2>1, <2>2, <2>3, <2>4, <2>5 DEF AtWork
<1>5. Resting(status'[r], hist'[r]) => Resting(status[r], hist[r])
  BY DEF Resting
<1> QED BY <1>1, <1>2, <1>3, <1>4, <1>5 DEF OnCourse

\* Aborts, crashes and deployments.
LEMMA EventCourse ==
  ASSUME TypeInv, CourseInv, \/ \E r \in Runs : Abort(r)
                             \/ Crash \/ Rollout \/ OldPodExits
  PROVE  CourseInv'
<1>1. ASSUME NEW r \in Runs, Abort(r) PROVE CourseInv'
  <2> DEFINE a == IF \E t \in Tasks : task[t].run = r /\ PastCheck(t)
                    THEN "in step" ELSE "at rest"
             h == [hist[r] EXCEPT !.late = 0, !.abort = a]
  <2>1. /\ UNCHANGED <<rows, task>> /\ status' = [status EXCEPT ![r] = "aborted"]
        /\ hist' = [hist EXCEPT ![r] = h]
    BY <1>1 DEF Abort, SetStatus
  <2> HIDE DEF a
  <2>2. h.granted = hist[r].granted /\ h.ran = hist[r].ran /\ h.gate = hist[r].gate
    BY HistoryType DEF Histories
  <2> HIDE DEF h
  <2>3. \A q \in Runs : /\ hist'[q].granted = hist[q].granted
                        /\ hist'[q].ran = hist[q].ran /\ hist'[q].gate = hist[q].gate
                        /\ status'[q] \in {status[q], "failed", "aborted"}
    BY <2>1, <2>2 DEF TypeInv, TypeOK
  <2> QED BY <2>1, <2>3, OutsideCourse
<1>2. CASE Crash \/ Rollout \/ OldPodExits
  <2>1. UNCHANGED <<rows, hist>>
    BY <1>2 DEF Crash, Rollout, OldPodExits
  <2>2. \A r \in Runs : status'[r] \in {status[r], "failed", "aborted"}
    BY <1>2 DEF Crash, Rollout, OldPodExits, FailOrphanedRuns
  <2>3. ASSUME NEW t \in Tasks
        PROVE  \/ task'[t].pc = "idle"
               \/ /\ task'[t].pc = task[t].pc /\ task'[t].run = task[t].run
                  /\ task'[t].at = task[t].at /\ task'[t].seen = task[t].seen
                  /\ task'[t].bad <=> task[t].bad
                  /\ task'[t].final = task[t].final
    <3>1. task[t] \in Task /\ Done(t).pc = "idle"
      BY TaskType, DoneFields
    <3>2. CASE Crash
      BY <3>1, <3>2 DEF Crash
    <3>3. CASE Rollout
      BY <3>1, <3>3 DEF Rollout, Task
    <3>4. CASE OldPodExits
      BY <3>1, <3>4 DEF OldPodExits
    <3> QED BY <1>2, <3>2, <3>3, <3>4
  <2> QED BY <2>1, <2>2, <2>3, OutsideCourse
<1> QED BY <1>1, <1>2

\* Every step keeps every run on its course.
LEMMA CourseStep == TypeInv /\ CourseInv /\ [Next]_vars => CourseInv'
<1> SUFFICES ASSUME TypeInv, CourseInv, [Next]_vars PROVE CourseInv'
  OBVIOUS
<1>1. CASE UNCHANGED vars
  BY <1>1 DEF vars, CourseInv, OnCourse, WorksOn, Live
<1>2. ASSUME NEW t \in Tasks, Coroutine(t) \/ Raise(t) \/ RecordFails(t) \/ HandlerFails(t) PROVE CourseInv'
  BY <1>2, SpawnExecuteCourse, SpawnResumeCourse, RebuildCourse, CountCourse, MarkCourse,
     CheckCourse, SkipCourse, ParkCourse, RejectCourse, StartAgentCourse,
     AgentReturnsCourse, EndsCourse, RaiseCourse DEF Coroutine
<1>3. ASSUME NEW r \in Runs, NEW t \in Tasks, Execute(r, t) \/ Approve(r, t) PROVE CourseInv'
  BY <1>3, ExecuteCourse, ApproveCourse
<1> QED BY <1>1, <1>2, <1>3, EventCourse DEF Next

\* Before anything happened every run is on its course.
LEMMA InitCourse == Init => CourseInv
<1> SUFFICES ASSUME Init, NEW r \in Runs PROVE OnCourse(r)
  BY DEF CourseInv
<1>1. \A t \in Tasks : ~WorksOn(t, r)
  BY DEF Init, NoTask, NewTask, Live, WorksOn
<1>2. /\ status[r] = "none" /\ rows[r] = <<>> /\ hist[r].granted = 0
      /\ hist[r].gate = 0 /\ \A i \in Index : hist[r].ran[i] = 0
  BY DEF Init, NoHistory
<1>3. Len(rows[r]) = 0 /\ DOMAIN rows[r] = {}
  BY <1>2
<1>4. OnRecord(status[r], rows[r], hist[r])
  BY <1>2, <1>3, StepType DEF OnRecord, InOrder, Once, Untouched
<1> QED BY <1>1, <1>4 DEF OnCourse

LEMMA OnCourseAlways == Spec => [](TypeInv /\ CourseInv)
<1>1. Spec => []TypeInv
  BY InitType, TypeStep, PTL DEF Spec
<1> QED BY <1>1, InitCourse, CourseStep, PTL DEF Spec

\* A run that is on its course and reports success has all its rows.
LEMMA CompleteRows == TypeInv /\ CourseInv => SuccessIsComplete
<1> SUFFICES ASSUME TypeInv, CourseInv, NEW r \in Runs,
                    status[r] = "success", hist[r].granted <= 1
             PROVE  /\ \A i \in Index \ Gates :
                         Cardinality({k \in DOMAIN rows[r] : rows[r][k].at = i}) = 1
                    /\ \A j, k \in DOMAIN rows[r] : j < k => rows[r][j].at < rows[r][k].at
                    /\ \A k \in DOMAIN rows[r] : rows[r][k].status # "failed"
  BY DEF SuccessIsComplete
<1>1. /\ InOrder(rows[r], hist[r]) /\ Complete(rows[r], hist[r])
      /\ hist[r].granted \in {0, 1}
  BY HistoryType DEF CourseInv, OnCourse, OnRecord
<1>2. Len(rows[r]) \in Nat /\ DOMAIN rows[r] = 1..Len(rows[r]) /\ Len(Steps) \in Nat
  BY RowsType, StepType
<1>3. Len(rows[r]) + hist[r].granted = Len(Steps)
  BY <1>1 DEF Complete
<1>4. ASSUME NEW i \in Index \ Gates
      PROVE  \E k \in DOMAIN rows[r] : rows[r][k].at = i
  <2>1. i \in Nat /\ i >= 1 /\ i <= Len(Steps)
    BY StepType
  <2>2. CASE hist[r].granted = 0
    BY <1>1, <1>2, <1>3, <2>1, <2>2 DEF InOrder
  <2>3. CASE hist[r].granted = 1
    <3>1. PICK g \in Gates : \A k \in DOMAIN rows[r] :
                                rows[r][k].at = IF k < g THEN k ELSE k + 1
      BY <2>3, <1>1 DEF InOrder
    <3>2. g \in Nat /\ g # i /\ g >= 1 /\ g <= Len(Steps)
      BY StepType DEF Gates
    <3>3. CASE i < g
      <4>1. i \in DOMAIN rows[r]
        BY <1>2, <1>3, <2>1, <2>3, <3>2, <3>3
      <4> QED BY <3>1, <3>3, <4>1
    <3>4. CASE i > g
      <4>1. i - 1 \in DOMAIN rows[r] /\ ~(i - 1 < g) /\ (i - 1) + 1 = i
        BY <1>2, <1>3, <2>1, <2>3, <3>2, <3>4
      <4> QED BY <3>1, <4>1
    <3> QED BY <2>1, <3>2, <3>3, <3>4
  <2> QED BY <1>1, <2>2, <2>3
<1>5. \A j, k \in DOMAIN rows[r] : j < k => rows[r][j].at < rows[r][k].at
  BY <1>1, OneRowEach
<1>6. ASSUME NEW i \in Index \ Gates
      PROVE  Cardinality({k \in DOMAIN rows[r] : rows[r][k].at = i}) = 1
  <2>1. PICK j \in DOMAIN rows[r] : rows[r][j].at = i
    BY <1>4
  <2>2. \A k \in DOMAIN rows[r] : rows[r][k].at = i => k = j
    <3> SUFFICES ASSUME NEW k \in DOMAIN rows[r], rows[r][k].at = i PROVE k = j
      OBVIOUS
    <3>1. ~(j < k) /\ ~(k < j)
      BY <1>5, <2>1, StepType
    <3> QED BY <1>2, <3>1
  <2>3. {k \in DOMAIN rows[r] : rows[r][k].at = i} = {j}
    BY <2>1, <2>2
  <2> QED BY <2>3, FS_Singleton
<1> QED BY <1>1, <1>5, <1>6 DEF Complete, NoneFailed

\* 'success' can be believed, for every plan: a run approved at most once that reports
\* it has one row for each step that is not a gate, in order, and none failed.
THEOREM SuccessIsEarned == Spec => []SuccessIsComplete
BY CompleteRows, OnCourseAlways, PTL

-----------------------------------------------------------------------------
(* What a step does to its task *)

\* Where a step of a task takes it.
LEMMA TaskFields ==
  ASSUME TypeInv, NEW t \in Tasks
  PROVE  /\ Coroutine(t) \/ Raise(t) => task'[t].pc = "idle" \/ task'[t].gate = task[t].gate
         /\ SpawnExecute(t) => task'[t].pc = "mark" /\ task'[t].at = task[t].at
         /\ SpawnResume(t) => task'[t].pc = "rebuild"
         /\ Rebuild(t) => task'[t].pc = "count"
         /\ Count(t) => task'[t].pc = "mark" /\ task'[t].at = ResumeAt(task[t].run)
         /\ Mark(t) => /\ task'[t].at = task[t].at
                       /\ task'[t].pc = IF task[t].at <= Len(Steps) THEN "check" ELSE "finish"
         /\ Check(t) => /\ task'[t].pc \in {"skip", "park", "lookup"}
                        /\ task'[t].pc = "park" => task[t].at \in Gates
                        /\ task'[t].at = task[t].at
         /\ Refuse(t) => task'[t].pc = "reject" /\ task'[t].at = task[t].at
         /\ StartAgent(t) => task'[t].pc = "agent" /\ task'[t].at = task[t].at
         /\ Skip(t) \/ AgentReturns(t) =>
              task'[t].pc \in {"check", "finish"} /\ task'[t].at = task[t].at + 1
         /\ Reject(t) => task'[t].pc = "finish"
         /\ Raise(t) => task'[t].pc = "record"
         /\ Stop(t) \/ Park(t) \/ Finish(t) \/ RecordFails(t) \/ HandlerFails(t) =>
              task'[t].pc = "idle"
<1>1. /\ task[t] \in Task
      /\ \A x : task' = [task EXCEPT ![t] = x] => task'[t] = x
  BY TaskType DEF TypeInv, TypeOK
<1>2. ASSUME NEW p, task' = [task EXCEPT ![t] = [task[t] EXCEPT !.pc = p]]
      PROVE  task'[t].pc = p /\ task'[t].at = task[t].at /\ task'[t].gate = task[t].gate
  <2> DEFINE x == [task[t] EXCEPT !.pc = p]
  <2>1. x.pc = p /\ x.at = task[t].at /\ x.gate = task[t].gate
    BY <1>1 DEF Task
  <2>2. task' = [task EXCEPT ![t] = x]
    BY <1>2
  <2> HIDE DEF x
  <2>3. task'[t] = x
    BY <1>1, <2>2
  <2> QED BY <2>1, <2>3
<1>3. ASSUME SpawnExecute(t)
      PROVE  /\ task'[t].pc = "mark" /\ task'[t].at = task[t].at
             /\ task'[t].gate = task[t].gate
  BY <1>2, <1>3 DEF SpawnExecute
<1>4. ASSUME Refuse(t)
      PROVE  /\ task'[t].pc = "reject" /\ task'[t].at = task[t].at
             /\ task'[t].gate = task[t].gate
  BY <1>2, <1>4 DEF Refuse
<1>5. ASSUME StartAgent(t)
      PROVE  /\ task'[t].pc = "agent" /\ task'[t].at = task[t].at
             /\ task'[t].gate = task[t].gate
  BY <1>2, <1>5 DEF StartAgent
<1>6. ASSUME Check(t)
      PROVE  /\ task'[t].pc \in {"skip", "park", "lookup"}
             /\ task'[t].pc = "park" => task[t].at \in Gates
             /\ task'[t].at = task[t].at /\ task'[t].gate = task[t].gate
  <2> DEFINE i == task[t].at
             p == IF ~ShouldRun(Steps[i], task[t].seen) THEN "skip"
                  ELSE IF Steps[i].kind = "approval" THEN "park"
                  ELSE "lookup"
  <2>1. task' = [task EXCEPT ![t] = [task[t] EXCEPT !.pc = p]]
    BY <1>6 DEF Check
  <2>2. i \in Index
    BY <1>6, TaskType DEF Check, InLoop
  <2>3. p \in {"skip", "park", "lookup"} /\ (p = "park" => i \in Gates)
    BY <2>2 DEF Gates
  <2> HIDE DEF p
  <2> QED BY <1>2, <2>1, <2>3
<1>7. ASSUME SpawnResume(t)
      PROVE  task'[t].pc = "rebuild" /\ task'[t].gate = task[t].gate
  <2>1. PICK role : task' = [task EXCEPT ![t] =
                               [task[t] EXCEPT !.pc = "rebuild", !.role = role]]
    BY <1>7 DEF SpawnResume
  <2> DEFINE x == [task[t] EXCEPT !.pc = "rebuild", !.role = role]
  <2>2. x.pc = "rebuild" /\ x.gate = task[t].gate
    BY <1>1 DEF Task
  <2> HIDE DEF x
  <2> QED BY <1>1, <2>1, <2>2 DEF x
<1>8. ASSUME Rebuild(t)
      PROVE  task'[t].pc = "count" /\ task'[t].gate = task[t].gate
  <2>1. PICK seen : task' = [task EXCEPT ![t] =
                               [task[t] EXCEPT !.pc = "count", !.seen = seen]]
    BY <1>8 DEF Rebuild
  <2> DEFINE x == [task[t] EXCEPT !.pc = "count", !.seen = seen]
  <2>2. x.pc = "count" /\ x.gate = task[t].gate
    BY <1>1 DEF Task
  <2>3. task' = [task EXCEPT ![t] = x]
    BY <2>1
  <2> HIDE DEF x
  <2> QED BY <1>1, <2>2, <2>3
<1>9. ASSUME Count(t)
      PROVE  /\ task'[t].pc = "mark" /\ task'[t].at = ResumeAt(task[t].run)
             /\ task'[t].gate = task[t].gate
  <2> DEFINE n == ResumeAt(task[t].run)
             x == [task[t] EXCEPT !.pc = "mark", !.at = n]
  <2>1. task' = [task EXCEPT ![t] = x]
    BY <1>9 DEF Count
  <2> HIDE DEF n
  <2>2. x.pc = "mark" /\ x.at = n /\ x.gate = task[t].gate
    BY <1>1 DEF Task
  <2> HIDE DEF x
  <2> QED BY <1>1, <2>1, <2>2 DEF n
<1>10. ASSUME Mark(t)
       PROVE  /\ task'[t].at = task[t].at /\ task'[t].gate = task[t].gate
              /\ task'[t].pc = IF task[t].at <= Len(Steps) THEN "check" ELSE "finish"
  <2> DEFINE bad == AnyFailed(task[t].seen)
             p   == IF task[t].at <= Len(Steps) THEN "check" ELSE "finish"
             f   == IF bad THEN "failed" ELSE "success"
             x   == [task[t] EXCEPT !.bad = bad, !.pc = p, !.final = f]
  <2>1. task' = [task EXCEPT ![t] = x]
    BY <1>10 DEF Mark
  <2> HIDE DEF bad, p, f
  <2>2. x.pc = p /\ x.at = task[t].at /\ x.gate = task[t].gate
    BY <1>1 DEF Task
  <2> HIDE DEF x
  <2> QED BY <1>1, <2>1, <2>2 DEF p
<1>11. ASSUME Skip(t) \/ AgentReturns(t)
       PROVE  /\ task'[t].pc \in {"check", "finish"} /\ task'[t].at = task[t].at + 1
              /\ task'[t].gate = task[t].gate
  <2>1. PICK seen, bad :
          \/ task' = [task EXCEPT ![t] = [Advance(t, seen, bad) EXCEPT !.pc = "finish",
                                                                     !.final = "failed"]]
          \/ task' = [task EXCEPT ![t] = Advance(t, seen, bad)]
    <3>1. CASE Skip(t)
      BY <3>1 DEF Skip
    <3>2. CASE AgentReturns(t)
      <4> DEFINE i == task[t].at
      <4>1. PICK s \in AgentResults, o \in Outputs :
              task' = [task EXCEPT ![t] =
                IF s = "failed" /\ Steps[i].stops
                  THEN [Advance(t, [task[t].seen EXCEPT ![i] = [status |-> s, out |-> o]],
                                task[t].bad \/ s = "failed")
                          EXCEPT !.pc = "finish", !.final = "failed"]
                  ELSE Advance(t, [task[t].seen EXCEPT ![i] = [status |-> s, out |-> o]],
                               task[t].bad \/ s = "failed")]
        BY <3>2 DEF AgentReturns
      <4> QED BY <4>1
    <3> QED BY <1>11, <3>1, <3>2
  <2> DEFINE a == Advance(t, seen, bad)
             b == [a EXCEPT !.pc = "finish", !.final = "failed"]
  <2>2. /\ a.pc \in {"check", "finish"} /\ a.at = task[t].at + 1 /\ a.gate = task[t].gate
        /\ DOMAIN a = DOMAIN task[t]
    BY <1>1 DEF Advance, Task
  <2>3. {"pc", "at", "gate", "final"} \subseteq DOMAIN task[t]
    BY <1>1 DEF Task
  <2>4. task'[t] = a \/ task'[t] = b
    BY <1>1, <2>1
  <2> HIDE DEF a
  <2>5. b.pc = "finish" /\ b.at = a.at /\ b.gate = a.gate
    BY <2>2, <2>3
  <2> HIDE DEF b
  <2> QED BY <2>2, <2>4, <2>5
<1>12. ASSUME Reject(t) \/ Raise(t)
       PROVE  /\ task'[t].gate = task[t].gate
              /\ Reject(t) => task'[t].pc = "finish"
              /\ Raise(t) => task'[t].pc = "record"
  <2>0. PICK p :
          /\ task' = [task EXCEPT ![t] = [task[t] EXCEPT !.pc = p, !.final = "failed"]]
          /\ Reject(t) => p = "finish"
          /\ Raise(t) => p = "record"
    <3>1. CASE Reject(t) /\ ~Raise(t)
      BY <3>1 DEF Reject
    <3>2. CASE ~Reject(t) /\ Raise(t)
      BY <3>2 DEF Raise
    <3>3. CASE Reject(t) /\ Raise(t)
      <4>1. left \in [Events -> Nat] /\ "raise" \in Events
        BY DEF TypeInv, TypeOK, Events
      <4>2. left' = left
        BY <3>3 DEF Reject
      <4>3. left'["raise"] = left["raise"] - 1 /\ left["raise"] \in Nat
        BY <3>3, <4>1 DEF Raise, Spend
      <4>4. FALSE
        BY <4>2, <4>3
      <4> QED BY <4>4
    <3> QED BY <1>12, <3>1, <3>2, <3>3
  <2> DEFINE x == [task[t] EXCEPT !.pc = p, !.final = "failed"]
  <2>1. task' = [task EXCEPT ![t] = x]
    BY <2>0
  <2>2. x.pc = p /\ x.gate = task[t].gate
    BY <1>1 DEF Task
  <2> HIDE DEF x
  <2> QED BY <1>1, <2>0, <2>1, <2>2
<1>13. ASSUME Stop(t) \/ Park(t) \/ Finish(t) \/ RecordFails(t) \/ HandlerFails(t)
       PROVE  task'[t].pc = "idle"
  <2>1. task' = [task EXCEPT ![t] = Done(t)]
    BY <1>13 DEF Stop, Park, Finish, RecordFails, HandlerFails
  <2> QED BY <1>1, <2>1, DoneFields
<1>14. Coroutine(t) \/ Raise(t) => task'[t].pc = "idle" \/ task'[t].gate = task[t].gate
  BY <1>3, <1>4, <1>5, <1>6, <1>7, <1>8, <1>9, <1>10, <1>11, <1>12, <1>13 DEF Coroutine
<1> QED BY <1>3, <1>4, <1>5, <1>6, <1>7, <1>8, <1>9, <1>10, <1>11, <1>12, <1>13, <1>14

\* A step of a task touches its own slot and its own run, and neither its status nor
\* what is observed of it unless it marks, parks, ends or starts an agent.
LEMMA TaskFrame ==
  ASSUME TypeInv, NEW t \in Tasks, Coroutine(t) \/ Raise(t) \/ RecordFails(t) \/ HandlerFails(t)
  PROVE  /\ Live(t) /\ task'[t].run = task[t].run
         /\ \A u \in Tasks \ {t} : task'[u] = task[u]
         /\ \A q \in Runs \ {task[t].run} : status'[q] = status[q] /\ hist'[q] = hist[q]
         /\ ~(StartAgent(t) \/ Park(t)) => UNCHANGED hist
         /\ ~(Mark(t) \/ Park(t) \/ Finish(t)) => UNCHANGED status
<1>1. PICK x : Moves(t, x)
  BY TaskMoves
<1>2. /\ Live(t) /\ task'[t].run = task[t].run
      /\ \A u \in Tasks \ {t} : task'[u] = task[u]
  BY <1>1 DEF Moves, TypeInv, TypeOK
<1>3. ~(StartAgent(t) \/ Park(t)) => UNCHANGED hist
  BY DEF Coroutine, SpawnExecute, SpawnResume, Rebuild, Count, Mark, Stop, Check, Skip,
         Refuse, Reject, AgentReturns, Finish, Raise, RecordFails, HandlerFails
<1>4. ~(Mark(t) \/ Park(t) \/ Finish(t)) => UNCHANGED status
  BY DEF Coroutine, SpawnExecute, SpawnResume, Rebuild, Count, Stop, Check, Skip,
         Refuse, Reject, StartAgent, AgentReturns, Raise, RecordFails, HandlerFails
<1>5. \A q \in Runs \ {task[t].run} : hist'[q] = hist[q]
  BY <1>3 DEF StartAgent, Park, TypeInv, TypeOK
<1>6. \A q \in Runs \ {task[t].run} : status'[q] = status[q]
  BY <1>4 DEF Mark, Park, Finish, MarkRunRunning, FinishRun, SetStatus, TypeInv, TypeOK
<1> QED BY <1>2, <1>3, <1>4, <1>5, <1>6

-----------------------------------------------------------------------------
(* An abort stops its run *)

\* A coroutine that is about to start an agent although the run was aborted has started
\* none since; one that was aborted at rest has nobody past the check.  (A coroutine that
\* resumes a run parked on its last step has nothing left to do: its first check of the
\* status would be the one in the loop that it never enters.)
Obeyed(r) ==
  /\ status[r] = "aborted" =>
       /\ hist[r].late <= 1
       /\ \A t \in Tasks : WorksOn(t, r) /\ task[t].pc = "lookup" => hist[r].late = 0
  /\ hist[r].abort = "at rest" /\ left["raise"] = Budget["raise"] /\ hist[r].gate # Len(Steps) =>
       /\ status[r] = "aborted" /\ hist[r].late = 0
       /\ \A t \in Tasks : WorksOn(t, r) => ~PastCheck(t)

AbortInv == /\ left["raise"] <= Budget["raise"]
            /\ \A r \in Runs : hist[r].granted <= 1 => Obeyed(r)

\* The exceptions that are left only get fewer.
LEMMA FewerRaises ==
  ASSUME TypeInv, Next
  PROVE  /\ left["raise"] \in Nat /\ Budget["raise"] \in Nat
         /\ left'["raise"] \in Nat /\ left'["raise"] <= left["raise"]
         /\ \A t \in Tasks : Raise(t) => left'["raise"] < left["raise"]
<1>1. left \in [Events -> Nat] /\ "raise" \in Events /\ Budget["raise"] \in Nat
  BY BudgetAssumption DEF TypeInv, TypeOK, Events
<1>2. left' = left \/ \E e \in Events : left' = [left EXCEPT ![e] = @ - 1]
  BY DEF Next, Coroutine, SpawnExecute, SpawnResume, Rebuild, Count, Mark, Stop, Check, Skip,
         Park, Refuse, Reject, StartAgent, AgentReturns, Finish, Raise, RecordFails, HandlerFails, Execute,
         Approve, Abort, Crash, Rollout, OldPodExits, Spend, Events
<1>3. \A t \in Tasks : Raise(t) => left'["raise"] < left["raise"]
  BY <1>1 DEF Raise, Spend
<1>4. left'["raise"] \in Nat
  BY <1>1, TypeStep DEF TypeInv, TypeOK
<1> QED BY <1>1, <1>2, <1>3, <1>4

\* A run nothing happens to stays as it is.
LEMMA StaysObeyed ==
  ASSUME TypeInv, AbortInv, Next, NEW r \in Runs, hist[r].granted <= 1, hist'[r] = hist[r],
         status'[r] = "aborted" <=> status[r] = "aborted",
         \A t \in Tasks : WorksOn(t, r)' => WorksOn(t, r) /\ task'[t].pc = task[t].pc
  PROVE  Obeyed(r)'
<1>1. Obeyed(r)
  BY DEF AbortInv
<1>2. left'["raise"] = Budget["raise"] => left["raise"] = Budget["raise"]
  BY FewerRaises DEF AbortInv
<1> QED BY <1>1, <1>2 DEF Obeyed, PastCheck

\* A step of a task obeys an abort of its run.
LEMMA TaskObeys ==
  ASSUME TypeInv, CourseInv, AbortInv, Next, NEW t \in Tasks,
         Coroutine(t) \/ Raise(t) \/ RecordFails(t) \/ HandlerFails(t),
         NEW r \in Runs, r = task[t].run, hist'[r].granted <= 1
  PROVE  Obeyed(r)'
<1> DEFINE Past == {"skip", "park", "lookup", "reject", "agent", "finish", "record"}
<1>1. /\ Live(t) /\ task'[t].run = r
      /\ \A u \in Tasks \ {t} : task'[u] = task[u]
      /\ ~(StartAgent(t) \/ Park(t)) => UNCHANGED hist
      /\ ~(Mark(t) \/ Park(t) \/ Finish(t)) => UNCHANGED status
  BY TaskFrame
<1>2. /\ hist'[r].granted = hist[r].granted /\ hist'[r].abort = hist[r].abort
      /\ hist'[r].late \in {hist[r].late, hist[r].late + 1}
      /\ ~StartAgent(t) => hist'[r].late = hist[r].late
      /\ ~Park(t) => hist'[r].gate = hist[r].gate
  <2>1. CASE Park(t)
    BY <2>1, HistoryType DEF Park, StartAgent, Histories, TypeInv, TypeOK
  <2>2. CASE StartAgent(t)
    BY <2>2, HistoryType DEF StartAgent, Histories, TypeInv, TypeOK
  <2> QED BY <1>1, <2>1, <2>2
<1>3. /\ AtWork(task[t], rows[r], hist[r]) /\ OnRecord(status[r], rows[r], hist[r])
      /\ hist[r].granted \in {0, 1} /\ \A u \in Tasks \ {t} : ~WorksOn(u, r)
  BY <1>1, <1>2, AloneAtWork
<1>4. \A u \in Tasks : WorksOn(u, r)' => u = t /\ task'[t].pc # "idle"
  BY <1>1, <1>3 DEF WorksOn, Live
<1>5. Obeyed(r) /\ WorksOn(t, r)
  BY <1>1, <1>2 DEF AbortInv, WorksOn
<1>6. left'["raise"] = Budget["raise"] => left["raise"] = Budget["raise"] /\ ~Raise(t)
  BY FewerRaises DEF AbortInv
<1>7. task[t].pc \in Past => ~(/\ hist[r].abort = "at rest" /\ left["raise"] = Budget["raise"]
                               /\ hist[r].gate # Len(Steps))
  BY <1>5 DEF Obeyed, PastCheck
<1>8. status'[r] = "aborted" => status[r] = "aborted"
  <2>1. CASE Mark(t)
    BY <2>1 DEF Mark, MarkRunRunning, TypeInv, TypeOK
  <2>2. CASE Park(t) \/ Finish(t)
    BY <2>2, TaskType DEF Park, Finish, FinishRun, SetStatus, TypeInv, TypeOK, Task
  <2> QED BY <1>1, <2>1, <2>2
<1>9. ASSUME status'[r] = "aborted"
      PROVE  hist'[r].late <= 1 /\ (task'[t].pc = "lookup" => hist'[r].late = 0)
  <2>1. hist[r].late <= 1 /\ (task[t].pc = "lookup" => hist[r].late = 0)
    BY <1>5, <1>8, <1>9 DEF Obeyed
  <2>2. CASE StartAgent(t)
    <3>1. task[t].pc = "lookup" /\ task'[t].pc = "agent"
      BY <2>2, TaskFields DEF StartAgent
    <3> QED BY <1>2, <2>1, <3>1
  <2>3. CASE ~StartAgent(t)
    <3>1. ~Check(t)
      BY <1>8, <1>9 DEF Check, Stopped
    <3>2. task'[t].pc # "lookup"
      BY <2>3, <3>1, TaskFields DEF Coroutine
    <3> QED BY <1>2, <2>1, <2>3, <3>2
  <2> QED BY <2>2, <2>3
<1>11. hist'[r].gate # Len(Steps) => hist[r].gate # Len(Steps)
  <2> SUFFICES ASSUME Park(t), hist[r].gate = Len(Steps) PROVE FALSE
    BY <1>2
  <2>1. task[t].pc = "park" /\ task[t].at \in Index
    BY TaskType DEF Park, InLoop
  <2>2. task[t].at = Due(rows[r], hist[r]) /\ Untouched(hist[r], Due(rows[r], hist[r]))
    BY <1>3, <2>1 DEF AtWork, InLoop
  <2>3. Len(Steps) \in Index /\ Len(Steps) # 0 /\ Len(Steps) >= task[t].at
    BY <2>1, StepType DEF Index
  <2>4. hist[r].ran[Len(Steps)] = 0
    BY <2>2, <2>3 DEF Untouched
  <2> QED BY <1>3, <2>3, <2>4 DEF OnRecord
<1>10. ASSUME hist'[r].abort = "at rest", left'["raise"] = Budget["raise"],
              hist'[r].gate # Len(Steps)
       PROVE  status'[r] = "aborted" /\ hist'[r].late = 0 /\ task'[t].pc \notin Past
  <2>1. /\ status[r] = "aborted" /\ hist[r].late = 0 /\ task[t].pc \notin Past
        /\ left["raise"] = Budget["raise"] /\ ~Raise(t) /\ hist[r].gate # Len(Steps)
    BY <1>2, <1>5, <1>6, <1>7, <1>10, <1>11 DEF Obeyed
  <2>2. /\ ~Check(t) /\ ~Skip(t) /\ ~Park(t) /\ ~Refuse(t) /\ ~Reject(t)
        /\ ~StartAgent(t) /\ ~AgentReturns(t) /\ ~Finish(t)
    BY <2>1 DEF Check, Stopped, Skip, Park, Refuse, Reject, StartAgent, AgentReturns, Finish
  <2>3. CASE Mark(t)
    <3>1. task[t].pc = "mark" /\ status'[r] = "aborted"
      BY <2>1, <2>3 DEF Mark, MarkRunRunning, TypeInv, TypeOK
    <3>2. task[t].at <= Len(Steps)
      <4>1. /\ task[t].at = Due(rows[r], hist[r])
            /\ IF hist[r].granted = 1 THEN Len(rows[r]) + 1 \in Gates ELSE Len(rows[r]) = 0
            /\ hist[r].granted = 1 => hist[r].gate = Len(rows[r]) + 1
        BY <1>3, <3>1 DEF AtWork
      <4>2. Len(Steps) \in Nat
        BY StepType
      <4>3. CASE hist[r].granted = 1
        <5>1. Len(rows[r]) + 1 \in Gates /\ task[t].at = Len(rows[r]) + 2
          BY <4>1, <4>3, RowsType DEF Due
        <5>2. Len(rows[r]) + 1 <= Len(Steps) /\ Len(rows[r]) + 1 # Len(Steps)
          BY <2>1, <4>1, <4>2, <4>3, <5>1, StepType DEF Gates
        <5> QED BY <4>2, <5>1, <5>2, RowsType
      <4>4. CASE hist[r].granted = 0
        <5>1. Len(rows[r]) = 0 /\ task[t].at = 1
          BY <4>1, <4>4 DEF Due
        <5>2. hist[r].gate = 0
          <6> SUFFICES ASSUME hist[r].gate # 0 PROVE FALSE
            OBVIOUS
          <6>1. hist[r].gate \in Index /\ hist[r].gate >= 1
            BY HistoryType, StepType DEF Index
          <6>2. Untouched(hist[r], 1)
            BY <1>3, <3>1, <4>1, <5>1 DEF AtWork
          <6> QED BY <1>3, <6>1, <6>2 DEF Untouched, OnRecord
        <5> QED BY <2>1, <4>2, <5>1, <5>2
      <4> QED BY <1>3, <4>3, <4>4
    <3>3. task'[t].pc = "check"
      BY <2>3, <3>2, TaskFields
    <3> QED BY <1>2, <2>1, <2>2, <3>1, <3>3
  <2>4. CASE ~Mark(t)
    <3>1. task'[t].pc \in {"mark", "rebuild", "count", "idle"}
      BY <2>1, <2>2, <2>4, TaskFields DEF Coroutine
    <3>2. UNCHANGED status
      BY <1>1, <2>2, <2>4
    <3> QED BY <1>2, <2>1, <2>2, <3>1, <3>2
  <2> QED BY <2>3, <2>4
<1> QED BY <1>4, <1>9, <1>10 DEF Obeyed, PastCheck

\* Every step obeys the aborts.
LEMMA AbortStep == TypeInv /\ CourseInv /\ AbortInv /\ [Next]_vars => AbortInv'
<1> SUFFICES ASSUME TypeInv, CourseInv, AbortInv, [Next]_vars PROVE AbortInv'
  OBVIOUS
<1>1. CASE UNCHANGED vars
  BY <1>1 DEF vars, AbortInv, Obeyed, WorksOn, Live, PastCheck
<1>2. CASE Next
  <2>1. left'["raise"] <= Budget["raise"]
    BY <1>2, FewerRaises DEF AbortInv
  <2> SUFFICES ASSUME NEW r \in Runs, hist'[r].granted <= 1 PROVE Obeyed(r)'
    BY <2>1 DEF AbortInv
  <2>2. ASSUME NEW t \in Tasks, Coroutine(t) \/ Raise(t) \/ RecordFails(t) \/ HandlerFails(t) PROVE Obeyed(r)'
    <3>1. CASE r = task[t].run
      BY <1>2, <2>2, <3>1, TaskObeys
    <3>2. CASE r # task[t].run
      BY <1>2, <2>2, <3>2, TaskFrame, StaysObeyed DEF WorksOn, Live
    <3> QED BY <3>1, <3>2
  <2>3. ASSUME NEW q \in Runs, NEW t \in Tasks, Execute(q, t) \/ Approve(q, t)
        PROVE  Obeyed(r)'
    <3>1. PICK x : task' = [task EXCEPT ![t] = x] /\ x.run = q
      <4>1. CASE Execute(q, t)
        <5>1. PICK who \in Triggers, old \in {FALSE, overlap} :
                task' = [task EXCEPT ![t] = NewTask("created", q, who.role, 0, old)]
          BY <4>1 DEF Execute
        <5>2. NewTask("created", q, who.role, 0, old).run = q
          BY DEF NewTask
        <5> QED BY <5>1, <5>2
      <4>2. CASE Approve(q, t)
        <5>1. PICK old \in {FALSE, overlap} :
                task' = [task EXCEPT ![t] = NewTask("approved", q, Viewer, hist[q].gate, old)]
          BY <4>2 DEF Approve
        <5>2. NewTask("approved", q, Viewer, hist[q].gate, old).run = q
          BY DEF NewTask
        <5> QED BY <5>1, <5>2
      <4> QED BY <2>3, <4>1, <4>2
    <3>2. /\ \A p \in Runs \ {q} : status'[p] = status[p] /\ hist'[p] = hist[p]
          /\ status[q] # "aborted" /\ status'[q] # "aborted"
          /\ hist'[q].abort = hist[q].abort /\ hist'[q].gate = hist[q].gate
          /\ hist'[q].granted <= 1 => hist[q].granted <= 1
      <4>1. CASE Execute(q, t)
        BY <4>1 DEF Execute, SetStatus, TypeInv, TypeOK
      <4>2. CASE Approve(q, t)
        <5> DEFINE h == [hist[q] EXCEPT !.granted = @ + 1]
        <5>1. hist' = [hist EXCEPT ![q] = h] /\ UNCHANGED status /\ status[q] = "awaiting_approval"
          BY <4>2 DEF Approve
        <5>2. /\ h.granted = hist[q].granted + 1 /\ h.abort = hist[q].abort /\ h.gate = hist[q].gate
              /\ hist[q].granted \in Nat
          BY HistoryType DEF Histories
        <5> HIDE DEF h
        <5> QED BY <5>1, <5>2 DEF TypeInv, TypeOK
      <4> QED BY <2>3, <4>1, <4>2
    <3>3. CASE r = q
      <4>1. Obeyed(q)
        BY <3>2, <3>3 DEF AbortInv
      <4>2. left'["raise"] = Budget["raise"] => left["raise"] = Budget["raise"]
        BY <1>2, FewerRaises DEF AbortInv
      <4> QED BY <3>2, <3>3, <4>1, <4>2 DEF Obeyed
    <3>4. CASE r # q
      <4>1. \A u \in Tasks : WorksOn(u, r)' => WorksOn(u, r) /\ task'[u].pc = task[u].pc
        BY <3>1, <3>4 DEF WorksOn, Live, TypeInv, TypeOK
      <4> QED BY <1>2, <3>2, <3>4, <4>1, StaysObeyed
    <3> QED BY <3>3, <3>4
  <2>4. ASSUME NEW q \in Runs, Abort(q) PROVE Obeyed(r)'
    <3> DEFINE past == \E t \in Tasks : task[t].run = q /\ PastCheck(t)
               a    == IF past THEN "in step" ELSE "at rest"
               h    == [hist[q] EXCEPT !.late = 0, !.abort = a]
    <3>1. /\ UNCHANGED task /\ status' = [status EXCEPT ![q] = "aborted"]
          /\ hist' = [hist EXCEPT ![q] = h]
      BY <2>4 DEF Abort, SetStatus
    <3>2. a = "at rest" => ~past
      OBVIOUS
    <3> HIDE DEF a
    <3>3. h.late = 0 /\ h.abort = a
      BY HistoryType DEF Histories
    <3> HIDE DEF h
    <3>4. CASE r = q
      <4>1. hist'[r].late = 0 /\ status'[r] = "aborted"
        BY <3>1, <3>3, <3>4 DEF TypeInv, TypeOK
      <4>2. hist'[r].abort = "at rest" => ~past
        BY <3>1, <3>2, <3>3, <3>4 DEF TypeInv, TypeOK
      <4>3. ~past => \A t \in Tasks : task'[t].run = r => ~PastCheck(t)'
        BY <3>1, <3>4 DEF PastCheck
      <4>4. status'[r] = "aborted" =>
              /\ hist'[r].late <= 1
              /\ \A t \in Tasks : WorksOn(t, r)' /\ task'[t].pc = "lookup" => hist'[r].late = 0
        BY <4>1
      <4>5. hist'[r].abort = "at rest" => \A t \in Tasks : WorksOn(t, r)' => ~PastCheck(t)'
        BY <4>2, <4>3 DEF WorksOn, PastCheck
      <4> QED BY <4>1, <4>4, <4>5 DEF Obeyed
    <3>5. CASE r # q
      <4>1. hist'[r] = hist[r] /\ status'[r] = status[r]
        BY <3>1, <3>5 DEF TypeInv, TypeOK
      <4>2. \A u \in Tasks : WorksOn(u, r)' => WorksOn(u, r) /\ task'[u].pc = task[u].pc
        BY <3>1 DEF WorksOn, Live
      <4> QED BY <1>2, <4>1, <4>2, StaysObeyed
    <3> QED BY <3>4, <3>5
  <2>5. CASE Crash \/ Rollout \/ OldPodExits
    <3>1. UNCHANGED hist
      BY <2>5 DEF Crash, Rollout, OldPodExits
    <3>2. status'[r] = "aborted" <=> status[r] = "aborted"
      BY <2>5 DEF Crash, Rollout, OldPodExits, FailOrphanedRuns
    <3>3. ASSUME NEW t \in Tasks
          PROVE  task'[t].pc = "idle" \/ (task'[t].pc = task[t].pc /\ task'[t].run = task[t].run)
      <4>1. task[t] \in Task /\ Done(t).pc = "idle"
        BY TaskType, DoneFields
      <4>2. CASE Crash
        BY <4>1, <4>2 DEF Crash
      <4>3. CASE Rollout
        BY <4>1, <4>3 DEF Rollout, Task
      <4>4. CASE OldPodExits
        BY <4>1, <4>4 DEF OldPodExits
      <4> QED BY <2>5, <4>2, <4>3, <4>4
    <3>4. \A u \in Tasks : WorksOn(u, r)' => WorksOn(u, r) /\ task'[u].pc = task[u].pc
      BY <3>3 DEF WorksOn, Live
    <3> QED BY <1>2, <3>1, <3>2, <3>4, StaysObeyed
  <2> QED BY <1>2, <2>2, <2>3, <2>4, <2>5 DEF Next
<1> QED BY <1>1, <1>2

\* An abort stops its run, for every plan: in a run resumed at most once, at most one
\* agent starts between the accepted abort and the next status, and an abort that finds
\* no coroutine past its check is final, unless an exception is raised or the run is
\* parked on its last step.
THEOREM AbortsStop == Spec => []AbortStops
<1>1. Init => AbortInv
  <2> SUFFICES ASSUME Init PROVE AbortInv
    OBVIOUS
  <2>1. left["raise"] = Budget["raise"] /\ Budget["raise"] \in Nat
    BY BudgetAssumption DEF Init, Events
  <2>2. \A r \in Runs : status[r] = "none" /\ hist[r].abort = "none"
    BY DEF Init, NoHistory
  <2>3. \A r \in Runs : Obeyed(r)
    BY <2>2 DEF Obeyed
  <2> QED BY <2>1, <2>3 DEF AbortInv
<1>2. TypeInv /\ CourseInv /\ AbortInv /\ [Next]_vars => AbortInv'
  BY AbortStep
<1>3. Spec => []AbortInv
  BY <1>1, <1>2, OnCourseAlways, PTL DEF Spec
<1>4. AbortInv => AbortStops
  BY DEF AbortInv, Obeyed, AbortStops
<1> QED BY <1>3, <1>4, PTL

-----------------------------------------------------------------------------
(* The first gate a run is parked on *)

\* Up to the gate that it is first parked on a run was executed by the coroutine it was
\* created with, alone; a coroutine that resumes it, of which there may be any number,
\* counts at least the rows up to that gate, and begins behind it.  The operators speak
\* of a task w, of its run's status s and rows rs, and of what was observed of it, h.

\* A coroutine that knows where to begin, or is in the loop.
Placed == {"created", "mark"} \cup InLoop

\* The run was parked on gate j, which is no later than n, and has its rows up to it.
ParkedOn(j, n, rs, h) == j <= n /\ h.ran[j] > 0 /\ Len(rs) + 1 >= j

\* What is ahead of the task has not been reached.
Ahead(w, h) == \A i \in Index : i > w.at \/ (i = w.at /\ w.pc # "agent") => h.ran[i] = 0

\* A coroutine that was let past a gate stands behind one the run was parked on; one
\* that was let past none has a row for all it has left behind, and new steps ahead.
Passes(w, rs, h) ==
  /\ w.gate \in Gates \cup {0}
  /\ w.pc = "park" => w.at \in Gates
  /\ w.gate # 0 => \E j \in Gates : /\ ParkedOn(j, w.gate, rs, h)
                                    /\ w.pc \in Placed => w.at > j
  /\ w.gate = 0 => /\ h.gate = 0 /\ w.pc \notin Resuming
                   /\ w.pc \in Placed => Len(rs) + 1 >= w.at /\ Ahead(w, h)

\* Up to the gate a run was first parked on it has reached no step twice.
ReachedOnce(h) ==
  \A i \in Index : (\A g \in Gates : g < i => h.ran[g] = 0) => h.ran[i] <= 1

\* What a run shows of the gate it was parked on.
Parked(s, rs, h) ==
  /\ h.gate \in Gates \cup {0}
  /\ h.gate # 0 => \E j \in Gates : ParkedOn(j, h.gate, rs, h)
  /\ s = "awaiting_approval" => h.gate # 0
  /\ s = "none" => h.gate = 0 /\ \A i \in Index : h.ran[i] = 0
  /\ ReachedOnce(h)

\* Who was let past no gate has the run for itself.
FirstAlone == \A t, u \in Tasks :
  Live(t) /\ Live(u) /\ task[t].run = task[u].run /\ task[t].gate = 0 => t = u

GatePassInv ==
  /\ \A r \in Runs : Parked(status[r], rows[r], hist[r])
  /\ \A t \in Tasks : Live(t) => /\ Passes(task[t], rows[task[t].run], hist[task[t].run])
                                 /\ status[task[t].run] # "none"
  /\ FirstAlone

\* A run has no fewer rows afterwards, was parked as often, and exists if it did.
MoreRows == \A r \in Runs : Len(rows'[r]) \in Nat /\ Len(rows'[r]) >= Len(rows[r])
MoreRan == \A r \in Runs : \A i \in Index : hist'[r].ran[i] >= hist[r].ran[i]
StaysBorn == \A r \in Runs : status[r] # "none" => status'[r] # "none"

\* A coroutine that was let past a gate stays behind the one it stands behind.
LEMMA StaysBehind ==
  ASSUME TypeInv, TypeInv', MoreRows, MoreRan, NEW r \in Runs, NEW j \in Gates, NEW n
  PROVE  ParkedOn(j, n, rows[r], hist[r]) => ParkedOn(j, n, rows'[r], hist'[r])
<1>1. j \in Index /\ j \in Nat
  BY StepType DEF Gates
<1>2. hist[r].ran[j] \in Nat /\ hist'[r].ran[j] \in Nat /\ hist'[r].ran[j] >= hist[r].ran[j]
  <2>1. hist[r].ran \in [Index -> Nat]
    BY HistoryType
  <2>2. hist'[r].ran \in [Index -> Nat]
    BY DEF TypeInv, TypeOK, Histories
  <2> QED BY <1>1, <2>1, <2>2 DEF MoreRan
<1>3. Len(rows[r]) \in Nat /\ Len(rows'[r]) \in Nat /\ Len(rows'[r]) >= Len(rows[r])
  BY RowsType DEF MoreRows
<1> QED BY <1>1, <1>2, <1>3 DEF ParkedOn

\* One slot changes, and one run.
LEMMA OnePasses ==
  ASSUME TypeInv, TypeInv', GatePassInv, MoreRows, MoreRan, StaysBorn,
         NEW t \in Tasks, NEW r \in Runs, task'[t].run = r,
         \A u \in Tasks \ {t} : task'[u] = task[u],
         \A q \in Runs \ {r} : hist'[q] = hist[q],
         \A u \in Tasks \ {t} : Live(u) /\ task[u].run = r =>
           task[u].gate # 0 /\ (task'[t].pc = "idle" \/ task'[t].gate # 0),
         task'[t].pc # "idle" => Passes(task'[t], rows'[r], hist'[r]) /\ status'[r] # "none",
         \A q \in Runs : Parked(status'[q], rows'[q], hist'[q])
  PROVE  GatePassInv'
<1>1. ASSUME NEW u \in Tasks, task'[u].pc # "idle"
      PROVE  /\ Passes(task'[u], rows'[task'[u].run], hist'[task'[u].run])
             /\ status'[task'[u].run] # "none"
  <2>1. CASE u # t
    <3>1. task'[u] = task[u] /\ Live(u) /\ Passes(task[u], rows[task[u].run], hist[task[u].run])
      BY <1>1, <2>1 DEF GatePassInv, Live
    <3>2. PICK q \in Runs : q = task[u].run
      BY TaskType
    <3>3. Passes(task[u], rows[q], hist[q]) /\ status[q] # "none"
      BY <3>1, <3>2 DEF GatePassInv
    <3>4. CASE task[u].gate # 0
      <4>1. PICK j \in Gates : /\ ParkedOn(j, task[u].gate, rows[q], hist[q])
                               /\ task[u].pc \in Placed => task[u].at > j
        BY <3>3, <3>4 DEF Passes, ParkedOn
      <4>2. ParkedOn(j, task[u].gate, rows'[q], hist'[q])
        BY <4>1, StaysBehind
      <4>3. Passes(task[u], rows'[q], hist'[q])
        BY <3>3, <3>4, <4>1, <4>2 DEF Passes
      <4> QED BY <3>1, <3>2, <3>3, <4>3 DEF StaysBorn
    <3>5. CASE task[u].gate = 0
      <4>1. hist'[q] = hist[q]
        BY <2>1, <3>1, <3>2, <3>5
      <4>2. /\ Len(rows[q]) \in Nat /\ Len(rows'[q]) \in Nat /\ Len(rows'[q]) >= Len(rows[q])
            /\ task[u].at \in Nat
        BY RowsType, TaskType DEF MoreRows
      <4>3. Passes(task[u], rows'[q], hist[q])
        BY <3>3, <3>5, <4>2 DEF Passes
      <4> QED BY <3>1, <3>2, <3>3, <4>1, <4>3 DEF StaysBorn
    <3> QED BY <3>4, <3>5
  <2>2. CASE u = t
    BY <1>1, <2>2
  <2> QED BY <2>1, <2>2
<1>2. FirstAlone'
  <2> SUFFICES ASSUME NEW u \in Tasks, NEW v \in Tasks, task'[u].pc # "idle",
                      task'[v].pc # "idle", task'[u].run = task'[v].run, task'[u].gate = 0
               PROVE  u = v
    BY DEF FirstAlone, Live
  <2>1. CASE u # t /\ v # t
    BY <2>1 DEF GatePassInv, FirstAlone, Live
  <2>2. CASE u = t /\ v # t
    BY <2>2 DEF Live
  <2>3. CASE u # t /\ v = t
    BY <2>3 DEF Live
  <2> QED BY <2>1, <2>2, <2>3
<1> QED BY <1>1, <1>2 DEF GatePassInv, Live

\* Rows are only added.
LEMMA RowsGrow == TypeInv /\ Next => MoreRows
<1> SUFFICES ASSUME TypeInv, Next, NEW r \in Runs
             PROVE  Len(rows'[r]) \in Nat /\ Len(rows'[r]) >= Len(rows[r])
  BY DEF MoreRows
<1>1. rows' = rows \/ \E q \in Runs : \E w : rows' = [rows EXCEPT ![q] = Append(@, w)]
  <2>1. ASSUME NEW t \in Tasks, Skip(t) \/ Reject(t) \/ AgentReturns(t)
        PROVE  \E q \in Runs : \E w : rows' = [rows EXCEPT ![q] = Append(@, w)]
    <3>1. task[t].run \in Runs
      BY TaskType
    <3>2. \E w : rows' = [rows EXCEPT ![task[t].run] = Append(@, w)]
      <4>1. CASE Skip(t)
        BY <4>1 DEF Skip, AddRunStep
      <4>2. CASE Reject(t)
        BY <4>2 DEF Reject, AddRunStep
      <4>3. CASE AgentReturns(t)
        BY <4>3 DEF AgentReturns, AddRunStep
      <4> QED BY <2>1, <4>1, <4>2, <4>3
    <3> QED BY <3>1, <3>2
  <2> QED BY <2>1 DEF Next, Coroutine, SpawnExecute, SpawnResume, Rebuild, Count, Mark, Stop,
         Check, Park, Refuse, StartAgent, Finish, Raise, RecordFails, HandlerFails, Execute,
         Approve, Abort, Crash, Rollout, OldPodExits
<1>2. rows[r] \in Seq(Row) /\ Len(rows[r]) \in Nat
  BY RowsType
<1>3. \A w : Len(Append(rows[r], w)) = Len(rows[r]) + 1
  BY <1>2
<1>4. rows'[r] = rows[r] \/ \E w : rows'[r] = Append(rows[r], w)
  BY <1>1 DEF TypeInv, TypeOK
<1> QED BY <1>2, <1>3, <1>4

\* What was observed of a run is not forgotten.
LEMMA RanGrows == TypeInv /\ Next => MoreRan
<1> SUFFICES ASSUME TypeInv, Next, NEW r \in Runs, NEW i \in Index
             PROVE  hist'[r].ran[i] >= hist[r].ran[i]
  BY DEF MoreRan
<1>1. hist[r].ran \in [Index -> Nat] /\ hist[r].ran[i] \in Nat
  BY HistoryType
<1>2. CASE UNCHANGED hist
  BY <1>1, <1>2
<1>3. ASSUME NEW q \in Runs, NEW h \in Histories, hist' = [hist EXCEPT ![q] = h],
             h.ran[i] >= hist[q].ran[i]
      PROVE  hist'[r].ran[i] >= hist[r].ran[i]
  BY <1>1, <1>3 DEF TypeInv, TypeOK
<1>4. ASSUME NEW t \in Tasks, StartAgent(t) PROVE hist'[r].ran[i] >= hist[r].ran[i]
  <2>1. PICK q \in Runs : q = task[t].run
    BY TaskType
  <2>2. hist'[q].ran = [hist[q].ran EXCEPT ![task[t].at] = @ + 1]
    BY <1>4, <2>1, HistoryType DEF StartAgent, Histories, TypeInv, TypeOK
  <2>3. \A p \in Runs \ {q} : hist'[p] = hist[p]
    BY <1>4, <2>1 DEF StartAgent, TypeInv, TypeOK
  <2>4. hist[q].ran \in [Index -> Nat]
    BY HistoryType
  <2> QED BY <1>1, <2>2, <2>3, <2>4
<1>5. ASSUME NEW t \in Tasks, Park(t) PROVE hist'[r].ran[i] >= hist[r].ran[i]
  <2>1. PICK q \in Runs : q = task[t].run
    BY TaskType
  <2>2. hist'[q].ran = [hist[q].ran EXCEPT ![task[t].at] = @ + 1]
    BY <1>5, <2>1, HistoryType DEF Park, Histories, TypeInv, TypeOK
  <2>3. \A p \in Runs \ {q} : hist'[p] = hist[p]
    BY <1>5, <2>1 DEF Park, TypeInv, TypeOK
  <2>4. hist[q].ran \in [Index -> Nat]
    BY HistoryType
  <2> QED BY <1>1, <2>2, <2>3, <2>4
<1>6. ASSUME NEW q \in Runs, NEW t \in Tasks, Approve(q, t)
      PROVE  hist'[r].ran[i] >= hist[r].ran[i]
  <2>1. hist'[r].ran = hist[r].ran
    BY <1>6, HistoryType DEF Approve, Histories, TypeInv, TypeOK
  <2> QED BY <1>1, <2>1
<1>7. ASSUME NEW q \in Runs, Abort(q) PROVE hist'[r].ran[i] >= hist[r].ran[i]
  <2>1. hist'[r].ran = hist[r].ran
    BY <1>7, HistoryType DEF Abort, Histories, TypeInv, TypeOK
  <2> QED BY <1>1, <2>1
<1> QED BY <1>2, <1>4, <1>5, <1>6, <1>7
     DEF Next, Coroutine, SpawnExecute, SpawnResume, Rebuild, Count, Mark, Stop, Check,
         Skip, Refuse, Reject, AgentReturns, Finish, Raise, RecordFails, HandlerFails, Execute,
         Crash, Rollout, OldPodExits

\* A run that exists goes on existing.
LEMMA BornStays == TypeInv /\ Next => StaysBorn
<1> SUFFICES ASSUME TypeInv, Next, NEW r \in Runs, status[r] # "none"
             PROVE  status'[r] # "none"
  BY DEF StaysBorn
<1>1. ASSUME NEW t \in Tasks, Mark(t) PROVE status'[r] # "none"
  BY <1>1 DEF Mark, MarkRunRunning, TypeInv, TypeOK
<1>2. ASSUME NEW t \in Tasks, Park(t) \/ Finish(t) PROVE status'[r] # "none"
  BY <1>2, TaskType DEF Park, Finish, FinishRun, SetStatus, Task, TypeInv, TypeOK
<1>3. ASSUME NEW q \in Runs, NEW t \in Tasks, Execute(q, t) PROVE status'[r] # "none"
  BY <1>3 DEF Execute, SetStatus, TypeInv, TypeOK
<1>4. ASSUME NEW q \in Runs, Abort(q) PROVE status'[r] # "none"
  BY <1>4 DEF Abort, SetStatus, TypeInv, TypeOK
<1>5. CASE Crash \/ Rollout
  BY <1>5 DEF Crash, Rollout, FailOrphanedRuns
<1>6. CASE UNCHANGED status
  BY <1>6
<1> QED BY <1>1, <1>2, <1>3, <1>4, <1>5, <1>6
     DEF Next, Coroutine, SpawnExecute, SpawnResume, Rebuild, Count, Stop, Check, Skip,
         Refuse, Reject, StartAgent, AgentReturns, Raise, RecordFails, HandlerFails, Approve, OldPodExits

\* A step that is over has its row.
LEMMA RowAdded ==
  ASSUME TypeInv, NEW t \in Tasks, Skip(t) \/ Reject(t) \/ AgentReturns(t),
         NEW r \in Runs, r = task[t].run
  PROVE  Len(rows'[r]) = Len(rows[r]) + 1
<1>1. PICK w : rows' = [rows EXCEPT ![r] = Append(@, w)]
  <2>1. CASE Skip(t)
    BY <2>1 DEF Skip, AddRunStep
  <2>2. CASE Reject(t)
    BY <2>2 DEF Reject, AddRunStep
  <2>3. CASE AgentReturns(t)
    BY <2>3 DEF AgentReturns, AddRunStep
  <2> QED BY <2>1, <2>2, <2>3
<1>2. rows[r] \in Seq(Row) /\ rows'[r] = Append(rows[r], w)
  BY <1>1, RowsType DEF TypeInv, TypeOK
<1> QED BY <1>2

\* A coroutine reaches a step: for the first time, or behind a gate the run was parked on.
LEMMA ReachesOnce ==
  ASSUME TypeInv, GatePassInv, NEW t \in Tasks, StartAgent(t) \/ Park(t),
         NEW r \in Runs, r = task[t].run
  PROVE  /\ hist'[r].ran = [hist[r].ran EXCEPT ![task[t].at] = @ + 1]
         /\ StartAgent(t) => hist'[r].gate = hist[r].gate
         /\ ReachedOnce(hist'[r])
<1> DEFINE i == task[t].at
<1>1. i \in Index /\ task[t].pc \in Placed \ {"agent"} /\ Live(t)
  BY TaskType DEF StartAgent, Park, Placed, InLoop, Live
<1>2. hist[r].ran \in [Index -> Nat]
  BY HistoryType
<1>3. hist'[r].ran = [hist[r].ran EXCEPT ![i] = @ + 1]
  <2>1. CASE StartAgent(t)
    BY <2>1, HistoryType DEF StartAgent, Histories, TypeInv, TypeOK
  <2>2. CASE Park(t)
    BY <2>2, HistoryType DEF Park, Histories, TypeInv, TypeOK
  <2> QED BY <2>1, <2>2
<1>4. Passes(task[t], rows[r], hist[r]) /\ ReachedOnce(hist[r])
  BY <1>1 DEF GatePassInv, Parked
<1>7. ASSUME StartAgent(t) PROVE hist'[r].gate = hist[r].gate
  <2> DEFINE l == IF hist[r].abort # "none" THEN hist[r].late + 1 ELSE hist[r].late
             h == [hist[r] EXCEPT !.ran[i] = @ + 1, !.late = l]
  <2>1. hist' = [hist EXCEPT ![r] = h]
    BY <1>7 DEF StartAgent
  <2> HIDE DEF l
  <2>2. h.gate = hist[r].gate
    BY HistoryType DEF Histories
  <2> HIDE DEF h
  <2> QED BY <2>1, <2>2 DEF TypeInv, TypeOK
<1> HIDE DEF i
<1>5. /\ hist'[r].ran[i] = hist[r].ran[i] + 1
      /\ \A k \in Index \ {i} : hist'[r].ran[k] = hist[r].ran[k]
  BY <1>1, <1>2, <1>3
<1>6. ASSUME NEW k \in Index, \A g \in Gates : g < k => hist'[r].ran[g] = 0
      PROVE  hist'[r].ran[k] <= 1
  <2>1. CASE k # i
    <3>1. \A g \in Gates : hist'[r].ran[g] = 0 => hist[r].ran[g] = 0
      <4> SUFFICES ASSUME NEW g \in Gates, hist'[r].ran[g] = 0 PROVE hist[r].ran[g] = 0
        OBVIOUS
      <4>1. g \in Index /\ hist[r].ran[g] \in Nat /\ hist[r].ran[i] \in Nat
        BY <1>1, <1>2 DEF Gates
      <4> QED BY <1>5, <4>1
    <3> QED BY <1>4, <1>5, <1>6, <2>1, <3>1 DEF ReachedOnce
  <2>2. CASE k = i /\ task[t].gate = 0
    BY <1>1, <1>4, <1>5, <2>2 DEF Passes, Ahead, i
  <2>3. CASE k = i /\ task[t].gate # 0
    <3>1. PICK j \in Gates : j < i /\ hist[r].ran[j] > 0
      <4>1. PICK j \in Gates : ParkedOn(j, task[t].gate, rows[r], hist[r]) /\ i > j
        BY <1>1, <1>4, <2>3 DEF Passes, ParkedOn, i
      <4>2. j \in Nat /\ i \in Nat
        BY <1>1, StepType DEF Gates
      <4> QED BY <4>1, <4>2 DEF ParkedOn
    <3>2. j \in Index \ {i} /\ hist'[r].ran[j] = 0
      BY <1>1, <1>6, <2>3, <3>1, StepType DEF Gates
    <3> QED BY <1>5, <3>1, <3>2
  <2> QED BY <2>1, <2>2, <2>3
<1> QED BY <1>3, <1>6, <1>7 DEF ReachedOnce, i

\* A step of a task leaves it on its side of the gate.
LEMMA TaskPasses ==
  ASSUME TypeInv, TypeInv', GatePassInv, MoreRows, MoreRan, StaysBorn, NEW t \in Tasks,
         Coroutine(t) \/ Raise(t) \/ RecordFails(t) \/ HandlerFails(t)
  PROVE  GatePassInv'
<1>1. PICK r \in Runs : r = task[t].run
  BY TaskType
<1>2. /\ Live(t) /\ task'[t].run = r
      /\ \A u \in Tasks \ {t} : task'[u] = task[u]
      /\ \A q \in Runs \ {r} : status'[q] = status[q] /\ hist'[q] = hist[q]
      /\ ~(StartAgent(t) \/ Park(t)) => UNCHANGED hist
      /\ ~(Mark(t) \/ Park(t) \/ Finish(t)) => UNCHANGED status
  BY <1>1, TaskFrame
<1> DEFINE w == task[t]
           n == Len(rows[r])
           x == task'[t]
           m == Len(rows'[r])
<1>3. Passes(w, rows[r], hist[r]) /\ status[r] # "none"
  BY <1>1, <1>2 DEF GatePassInv
<1>4. /\ n \in Nat /\ m \in Nat /\ m >= n /\ w.at \in Nat /\ w.at >= 1 /\ w.gate \in Nat
      /\ 0 \notin Gates /\ Gates \subseteq Nat
  BY <1>3, RowsType, TaskType, StepType DEF MoreRows, Passes, Gates
<1> HIDE DEF w, x
<1>5. x.pc # "idle" => Passes(x, rows'[r], hist'[r])
  <2> SUFFICES ASSUME x.pc # "idle" PROVE Passes(x, rows'[r], hist'[r])
    OBVIOUS
  <2>1. x.gate = w.gate /\ ~Stop(t) /\ ~Park(t) /\ ~Finish(t)
        /\ ~RecordFails(t) /\ ~HandlerFails(t)
    BY TaskFields DEF x, w
  <2>2. \A j \in Gates : ParkedOn(j, w.gate, rows[r], hist[r]) =>
                           ParkedOn(j, w.gate, rows'[r], hist'[r])
    BY StaysBehind
  <2>3. ~StartAgent(t) => hist'[r] = hist[r]
    BY <1>2, <2>1
  <2>4. CASE Reject(t) \/ Raise(t)
    <3>1. x.pc \in {"finish", "record"} /\ ~StartAgent(t)
      BY <2>4, TaskFields DEF x
    <3> QED BY <1>3, <2>1, <2>2, <2>3, <3>1 DEF Passes, Placed, Resuming, InLoop
  <2>5. CASE SpawnResume(t) \/ Rebuild(t)
    <3>1. x.pc \in {"rebuild", "count"} /\ w.pc \in Resuming
      BY <2>5, TaskFields DEF x, w, SpawnResume, Rebuild, Resuming
    <3>2. w.gate # 0
      BY <1>3, <3>1 DEF Passes
    <3> QED BY <1>3, <2>1, <2>2, <3>1, <3>2 DEF Passes, Placed, InLoop
  <2>6. CASE Count(t)
    <3>1. x.pc = "mark" /\ x.at = n + 2 /\ w.pc \in Resuming
      BY <1>1, <2>6, TaskFields DEF x, w, Count, Resuming, ResumeAt
    <3>2. w.gate # 0
      BY <1>3, <3>1 DEF Passes
    <3>3. PICK j \in Gates : ParkedOn(j, w.gate, rows[r], hist[r])
      BY <1>3, <3>2 DEF Passes, ParkedOn
    <3>4. x.at > j
      BY <1>4, <3>1, <3>3 DEF ParkedOn
    <3> QED BY <1>3, <2>1, <2>2, <3>1, <3>2, <3>3, <3>4 DEF Passes
  <2>7. CASE SpawnExecute(t) \/ Mark(t) \/ Check(t) \/ Refuse(t)
    <3>1. /\ x.at = w.at /\ x.pc \notin Resuming /\ (x.pc = "park" => w.at \in Gates)
      BY <2>7, TaskFields DEF x, w, Resuming
    <3>2. w.pc \in Placed \ {"agent"} /\ ~StartAgent(t)
      BY <2>7, TaskFields DEF w, x, SpawnExecute, Mark, Check, Refuse, StartAgent, Placed, InLoop
    <3>3. CASE w.gate = 0
      <4>1. m + 1 >= w.at /\ Ahead(w, hist[r])
        BY <1>3, <1>4, <3>2, <3>3 DEF Passes
      <4>2. Ahead(x, hist'[r])
        BY <2>3, <3>1, <3>2, <4>1 DEF Ahead
      <4> QED BY <1>3, <2>1, <2>3, <3>1, <3>2, <3>3, <4>1, <4>2 DEF Passes
    <3>4. CASE w.gate # 0
      <4>1. PICK j \in Gates : ParkedOn(j, w.gate, rows[r], hist[r]) /\ w.at > j
        BY <1>3, <3>2, <3>4 DEF Passes, ParkedOn
      <4> QED BY <1>3, <2>1, <2>2, <3>1, <3>4, <4>1 DEF Passes
    <3> QED BY <3>3, <3>4
  <2>8. CASE StartAgent(t)
    <3>1. x.at = w.at /\ x.pc = "agent" /\ w.pc \in Placed
      BY <2>8, TaskFields DEF x, w, StartAgent, Placed, InLoop
    <3>2. /\ hist'[r].ran = [hist[r].ran EXCEPT ![w.at] = @ + 1]
          /\ hist[r].ran \in [Index -> Nat] /\ hist'[r].gate = hist[r].gate
      BY <1>1, <2>8, ReachesOnce, HistoryType DEF w
    <3>3. CASE w.gate = 0
      <4>1. m + 1 >= w.at /\ Ahead(w, hist[r])
        BY <1>3, <1>4, <3>1, <3>3 DEF Passes
      <4>2. Ahead(x, hist'[r])
        <5> SUFFICES ASSUME NEW i \in Index, i > w.at PROVE hist'[r].ran[i] = 0
          BY <3>1 DEF Ahead
        <5>1. i # w.at /\ hist[r].ran[i] = 0
          BY <1>4, <4>1, StepType DEF Ahead
        <5> QED BY <3>2, <5>1
      <4> QED BY <1>3, <2>1, <3>1, <3>2, <3>3, <4>1, <4>2 DEF Passes, Resuming
    <3>4. CASE w.gate # 0
      <4>1. PICK j \in Gates : ParkedOn(j, w.gate, rows[r], hist[r]) /\ w.at > j
        BY <1>3, <3>1, <3>4 DEF Passes, ParkedOn
      <4> QED BY <1>3, <2>1, <2>2, <3>1, <3>4, <4>1 DEF Passes
    <3> QED BY <3>3, <3>4
  <2>9. CASE Skip(t) \/ AgentReturns(t)
    <3>1. x.pc \in {"check", "finish"} /\ x.at = w.at + 1 /\ ~StartAgent(t)
      BY <2>9, TaskFields DEF x, w
    <3>2. w.pc \in Placed
      BY <2>9 DEF w, Skip, AgentReturns, Placed, InLoop
    <3>3. CASE w.gate = 0
      <4>1. m = n + 1 /\ n + 1 >= w.at /\ Ahead(w, hist[r])
        BY <1>1, <1>3, <2>9, <3>2, <3>3, RowAdded DEF Passes
      <4>2. m + 1 >= x.at
        BY <1>4, <3>1, <4>1
      <4>3. Ahead(x, hist'[r])
        <5> SUFFICES ASSUME NEW i \in Index, i >= w.at + 1 PROVE hist[r].ran[i] = 0
          BY <1>4, <2>3, <3>1, StepType DEF Ahead
        <5>1. i > w.at
          BY <1>4, StepType
        <5> QED BY <4>1, <5>1 DEF Ahead
      <4> QED BY <1>3, <2>1, <2>3, <3>1, <3>3, <4>2, <4>3 DEF Passes, Resuming
    <3>4. CASE w.gate # 0
      <4>1. PICK j \in Gates : ParkedOn(j, w.gate, rows[r], hist[r]) /\ w.at > j
        BY <1>3, <3>2, <3>4 DEF Passes, ParkedOn
      <4>2. x.at > j
        BY <1>4, <3>1, <4>1
      <4> QED BY <1>3, <2>1, <2>2, <3>1, <3>4, <4>1, <4>2 DEF Passes
    <3> QED BY <3>3, <3>4
  <2> QED BY <1>2, <2>1, <2>4, <2>5, <2>6, <2>7, <2>8, <2>9 DEF Coroutine
<1>6. \A q \in Runs : Parked(status'[q], rows'[q], hist'[q])
  <2>1. ASSUME NEW q \in Runs, hist'[q].gate = hist[q].gate, ReachedOnce(hist'[q]),
               status'[q] = "awaiting_approval" => status[q] = "awaiting_approval",
               status'[q] = "none" => hist'[q] = hist[q]
        PROVE  Parked(status'[q], rows'[q], hist'[q])
    <3>1. Parked(status[q], rows[q], hist[q])
      BY DEF GatePassInv
    <3>2. \A j \in Gates : ParkedOn(j, hist[q].gate, rows[q], hist[q]) =>
                             ParkedOn(j, hist[q].gate, rows'[q], hist'[q])
      BY StaysBehind
    <3>3. status'[q] = "none" => status[q] = "none"
      BY DEF StaysBorn
    <3> QED BY <2>1, <3>1, <3>2, <3>3 DEF Parked
  <2>2. ASSUME NEW q \in Runs \ {r} PROVE Parked(status'[q], rows'[q], hist'[q])
    BY <1>2, <2>1 DEF GatePassInv, Parked
  <2>3. Parked(status'[r], rows'[r], hist'[r])
    <3>1. CASE Park(t)
      <4>1. w.pc = "park" /\ w.at \in Gates /\ w.pc \in Placed /\ w.at \in Index
        BY <1>3, <3>1, TaskType DEF Park, Passes, w, Placed, InLoop
      <4>2. hist'[r].gate = w.at /\ status'[r] = "awaiting_approval"
        <5> DEFINE h == [hist[r] EXCEPT !.gate = w.at, !.ran[w.at] = @ + 1]
        <5>1. hist' = [hist EXCEPT ![r] = h] /\ status' = [status EXCEPT ![r] = "awaiting_approval"]
          BY <1>1, <3>1 DEF Park, FinishRun, SetStatus, w
        <5>2. h.gate = w.at
          BY HistoryType DEF Histories
        <5> HIDE DEF h
        <5> QED BY <5>1, <5>2 DEF TypeInv, TypeOK
      <4>3. /\ hist'[r].ran = [hist[r].ran EXCEPT ![w.at] = @ + 1] /\ ReachedOnce(hist'[r])
            /\ hist[r].ran \in [Index -> Nat]
        BY <1>1, <3>1, ReachesOnce, HistoryType DEF w
      <4>4. \E j \in Gates : ParkedOn(j, w.at, rows'[r], hist'[r])
        <5>1. CASE w.gate = 0
          <6>1. n + 1 >= w.at
            BY <1>3, <4>1, <5>1 DEF Passes
          <6>2. hist'[r].ran[w.at] > 0
            BY <4>1, <4>3
          <6> QED BY <1>4, <4>1, <6>1, <6>2 DEF ParkedOn
        <5>2. CASE w.gate # 0
          <6>1. PICK j \in Gates : ParkedOn(j, w.gate, rows[r], hist[r]) /\ w.at > j
            BY <1>3, <4>1, <5>2 DEF Passes, ParkedOn
          <6>2. ParkedOn(j, w.gate, rows'[r], hist'[r])
            BY <6>1, StaysBehind
          <6>3. j <= w.at
            BY <1>4, <6>1
          <6> QED BY <6>2, <6>3 DEF ParkedOn
        <5> QED BY <5>1, <5>2
      <4> QED BY <1>4, <4>1, <4>2, <4>3, <4>4 DEF Parked
    <3>2. CASE StartAgent(t)
      <4>1. UNCHANGED status
        BY <3>2 DEF StartAgent
      <4>2. hist'[r].gate = hist[r].gate /\ ReachedOnce(hist'[r])
        BY <1>1, <3>2, ReachesOnce
      <4> QED BY <1>3, <2>1, <4>1, <4>2
    <3>3. CASE ~Park(t) /\ ~StartAgent(t)
      <4>1. UNCHANGED hist /\ ReachedOnce(hist[r])
        BY <1>2, <3>3 DEF GatePassInv, Parked
      <4>2. status'[r] = "awaiting_approval" => status[r] = "awaiting_approval"
        <5>1. CASE Mark(t)
          BY <5>1 DEF Mark, MarkRunRunning, TypeInv, TypeOK
        <5>2. CASE Finish(t)
          BY <1>1, <5>2, TaskType DEF Finish, FinishRun, SetStatus, TypeInv, TypeOK, Task
        <5> QED BY <1>2, <3>3, <5>1, <5>2
      <4> QED BY <2>1, <4>1, <4>2
    <3> QED BY <3>1, <3>2, <3>3
  <2> QED BY <2>2, <2>3
<1>7. \A u \in Tasks \ {t} : Live(u) /\ task[u].run = r =>
        task[u].gate # 0 /\ (x.pc = "idle" \/ x.gate # 0)
  <2>1. x.pc = "idle" \/ x.gate = w.gate
    BY TaskFields DEF x, w
  <2>2. \A u \in Tasks \ {t} : Live(u) /\ task[u].run = r => task[u].gate # 0 /\ w.gate # 0
    BY <1>1, <1>2 DEF GatePassInv, FirstAlone, w
  <2> QED BY <2>1, <2>2
<1>8. status'[r] # "none"
  BY <1>3 DEF StaysBorn
<1> QED BY <1>2, <1>5, <1>6, <1>7, <1>8, OnePasses DEF x

\* A new run is past no gate, an approved one past the gate it was parked on.
LEMMA RequestPasses ==
  ASSUME TypeInv, TypeInv', GatePassInv, MoreRows, MoreRan, StaysBorn,
         NEW r \in Runs, NEW t \in Tasks, Execute(r, t) \/ Approve(r, t)
  PROVE  GatePassInv'
<1>1. Parked(status[r], rows[r], hist[r]) /\ Len(rows[r]) \in Nat
  BY RowsType DEF GatePassInv
<1>2. CASE Execute(r, t)
  <2>1. PICK who \in Triggers, old \in {FALSE, overlap} :
          task' = [task EXCEPT ![t] = NewTask("created", r, who.role, 0, old)]
    BY <1>2 DEF Execute
  <2> DEFINE x == NewTask("created", r, who.role, 0, old)
  <2>2. x.pc = "created" /\ x.at = 1 /\ x.gate = 0 /\ x.run = r
    BY DEF NewTask
  <2>3. task' = [task EXCEPT ![t] = x]
    BY <2>1
  <2> HIDE DEF x
  <2>4. status[r] = "none" /\ status' = [status EXCEPT ![r] = "queued"]
    BY <1>2 DEF Execute, SetStatus
  <2>5. Passes(x, rows[r], hist[r])
    BY <1>1, <2>2, <2>4 DEF Passes, Resuming, Parked, Ahead
  <2>6. /\ task'[t] = x /\ \A u \in Tasks \ {t} : task'[u] = task[u]
        /\ UNCHANGED <<rows, hist>>
    BY <1>2, <2>3 DEF Execute, TypeInv, TypeOK
  <2>7. /\ \A q \in Runs : status'[q] \in {"queued", status[q]}
        /\ status'[r] # "none"
    BY <2>4 DEF TypeInv, TypeOK
  <2>8. \A q \in Runs : Parked(status'[q], rows'[q], hist'[q])
    BY <2>6, <2>7 DEF GatePassInv, Parked
  <2>9. \A u \in Tasks \ {t} : ~(Live(u) /\ task[u].run = r)
    BY <2>4 DEF GatePassInv
  <2> QED BY <2>2, <2>5, <2>6, <2>7, <2>8, <2>9, OnePasses
<1>3. CASE Approve(r, t)
  <2>0. PICK old \in {FALSE, overlap} :
          task' = [task EXCEPT ![t] = NewTask("approved", r, Viewer, hist[r].gate, old)]
    BY <1>3 DEF Approve
  <2> DEFINE x == NewTask("approved", r, Viewer, hist[r].gate, old)
             h == [hist[r] EXCEPT !.granted = @ + 1]
  <2>1. x.pc = "approved" /\ x.gate = hist[r].gate /\ x.run = r
    BY DEF NewTask
  <2>2. h.gate = hist[r].gate /\ h.ran = hist[r].ran
    BY HistoryType DEF Histories
  <2>3. /\ task' = [task EXCEPT ![t] = x] /\ hist' = [hist EXCEPT ![r] = h]
        /\ status[r] = "awaiting_approval" /\ UNCHANGED <<status, rows>>
    BY <1>3, <2>0 DEF Approve
  <2> HIDE DEF x, h
  <2>4. task'[t] = x /\ \A u \in Tasks \ {t} : task'[u] = task[u]
    BY <2>3 DEF TypeInv, TypeOK
  <2>5. /\ \A q \in Runs : hist'[q].gate = hist[q].gate /\ hist'[q].ran = hist[q].ran
        /\ \A q \in Runs \ {r} : hist'[q] = hist[q]
    BY <2>2, <2>3 DEF TypeInv, TypeOK
  <2>6. \A q \in Runs : Parked(status'[q], rows'[q], hist'[q])
    BY <2>3, <2>5 DEF GatePassInv, Parked, ParkedOn, ReachedOnce
  <2>7. hist[r].gate # 0
    BY <1>1, <2>3 DEF Parked
  <2>8. Passes(x, rows'[r], hist'[r])
    BY <1>1, <2>1, <2>3, <2>5, <2>7 DEF Passes, Parked, ParkedOn, Placed, InLoop
  <2>9. \A u \in Tasks \ {t} : Live(u) /\ task[u].run = r => task[u].gate # 0
    BY <2>7 DEF GatePassInv, Passes
  <2> QED BY <2>1, <2>3, <2>4, <2>5, <2>6, <2>7, <2>8, <2>9, OnePasses
<1> QED BY <1>2, <1>3

\* What happens outside the coroutines moves none of them.
LEMMA EventPasses ==
  ASSUME TypeInv, GatePassInv,
         (\E r \in Runs : Abort(r)) \/ Crash \/ Rollout \/ OldPodExits
  PROVE  GatePassInv'
<1>1. UNCHANGED rows
  BY DEF Abort, Crash, Rollout, OldPodExits
<1>2. \A r \in Runs : /\ hist'[r].gate = hist[r].gate /\ hist'[r].ran = hist[r].ran
                      /\ status'[r] \in {status[r], "failed", "aborted"}
  <2>1. ASSUME NEW r \in Runs, Abort(r)
        PROVE  \A q \in Runs :
                 /\ hist'[q].gate = hist[q].gate /\ hist'[q].ran = hist[q].ran
                 /\ status'[q] \in {status[q], "failed", "aborted"}
    <3> DEFINE a == IF \E t \in Tasks : task[t].run = r /\ PastCheck(t)
                      THEN "in step" ELSE "at rest"
               h == [hist[r] EXCEPT !.late = 0, !.abort = a]
    <3>1. status' = [status EXCEPT ![r] = "aborted"] /\ hist' = [hist EXCEPT ![r] = h]
      BY <2>1 DEF Abort, SetStatus
    <3> HIDE DEF a
    <3>2. h.gate = hist[r].gate /\ h.ran = hist[r].ran
      BY HistoryType DEF Histories
    <3> HIDE DEF h
    <3> QED BY <3>1, <3>2 DEF TypeInv, TypeOK
  <2>2. CASE Crash \/ Rollout \/ OldPodExits
    BY <2>2 DEF Crash, Rollout, OldPodExits, FailOrphanedRuns
  <2> QED BY <2>1, <2>2
<1>3. ASSUME NEW t \in Tasks
      PROVE  \/ task'[t].pc = "idle"
             \/ /\ task'[t].pc = task[t].pc /\ task'[t].run = task[t].run
                /\ task'[t].at = task[t].at /\ task'[t].gate = task[t].gate
  <2>1. task[t] \in Task /\ Done(t).pc = "idle"
    BY TaskType, DoneFields
  <2>2. CASE Crash
    BY <2>1, <2>2 DEF Crash
  <2>3. CASE Rollout
    BY <2>1, <2>3 DEF Rollout, Task
  <2>4. CASE OldPodExits
    BY <2>1, <2>4 DEF OldPodExits
  <2>5. CASE \E r \in Runs : Abort(r)
    BY <2>5 DEF Abort
  <2> QED BY <2>2, <2>3, <2>4, <2>5
<1>4. \A r \in Runs : Parked(status'[r], rows'[r], hist'[r])
  BY <1>1, <1>2 DEF GatePassInv, Parked, ParkedOn, ReachedOnce
<1>5. ASSUME NEW t \in Tasks, task'[t].pc # "idle"
      PROVE  /\ Passes(task'[t], rows'[task'[t].run], hist'[task'[t].run])
             /\ status'[task'[t].run] # "none"
  <2>1. /\ task'[t].pc = task[t].pc /\ task'[t].run = task[t].run
        /\ task'[t].at = task[t].at /\ task'[t].gate = task[t].gate
    BY <1>3, <1>5
  <2>2. PICK r \in Runs : r = task[t].run
    BY TaskType
  <2>3. Passes(task[t], rows[r], hist[r]) /\ status[r] # "none"
    BY <1>5, <2>1, <2>2 DEF GatePassInv, Live
  <2>4. Passes(task'[t], rows[r], hist'[r])
    BY <1>2, <2>1, <2>3 DEF Passes, ParkedOn, Ahead
  <2> QED BY <1>1, <1>2, <2>1, <2>2, <2>3, <2>4
<1>6. FirstAlone'
  <2> SUFFICES ASSUME NEW u \in Tasks, NEW v \in Tasks, task'[u].pc # "idle",
                      task'[v].pc # "idle", task'[u].run = task'[v].run, task'[u].gate = 0
               PROVE  u = v
    BY DEF FirstAlone, Live
  <2> QED BY <1>3 DEF GatePassInv, FirstAlone, Live
<1> QED BY <1>4, <1>5, <1>6 DEF GatePassInv, Live

\* Every step leaves every coroutine on its side of the gate.
LEMMA PassStep == TypeInv /\ GatePassInv /\ [Next]_vars => GatePassInv'
<1> SUFFICES ASSUME TypeInv, GatePassInv, [Next]_vars PROVE GatePassInv'
  OBVIOUS
<1>1. CASE UNCHANGED vars
  BY <1>1 DEF vars, GatePassInv, FirstAlone, Live
<1>2. CASE Next
  <2>1. TypeInv' /\ MoreRows /\ MoreRan /\ StaysBorn
    BY <1>2, TypeStep, RowsGrow, RanGrows, BornStays
  <2> QED BY <1>2, <2>1, TaskPasses, RequestPasses, EventPasses DEF Next
<1> QED BY <1>1, <1>2

\* Before anything happened no run was parked.
LEMMA InitPass == Init => GatePassInv
<1> SUFFICES ASSUME Init PROVE GatePassInv
  OBVIOUS
<1>1. /\ \A t \in Tasks : ~Live(t)
      /\ \A r \in Runs : /\ status[r] = "none" /\ rows[r] = <<>> /\ hist[r].gate = 0
                         /\ \A i \in Index : hist[r].ran[i] = 0
  BY DEF Init, NoTask, NewTask, Live, NoHistory
<1>2. \A r \in Runs : Parked(status[r], rows[r], hist[r])
  BY <1>1 DEF Parked, ReachedOnce
<1> QED BY <1>1, <1>2 DEF GatePassInv, FirstAlone

LEMMA GatePassAlways == Spec => [](TypeInv /\ CourseInv /\ GatePassInv)
BY InitPass, PassStep, OnCourseAlways, PTL DEF Spec

\* An approved run continues past the gate it was parked on, for every plan: as long as
\* that is the first it was parked on, however many approvals resume it, no coroutine of
\* theirs takes a step up to that gate.
THEOREM GateIsPassed == Spec => []PastTheGate
<1>1. TypeInv /\ GatePassInv => PastTheGate
  <2> SUFFICES ASSUME TypeInv, GatePassInv, NEW t \in Tasks, task[t].pc \in InLoop,
                      NoGateBefore(task[t].run, task[t].gate)
               PROVE  task[t].at > task[t].gate
    BY DEF PastTheGate
  <2> DEFINE r == task[t].run
  <2>1. Passes(task[t], rows[r], hist[r]) /\ task[t].at \in Nat /\ task[t].at >= 1
    BY TaskType DEF GatePassInv, Live, InLoop
  <2>2. CASE task[t].gate = 0
    BY <2>1, <2>2
  <2>3. CASE task[t].gate # 0
    <3>1. PICK j \in Gates : ParkedOn(j, task[t].gate, rows[r], hist[r]) /\ task[t].at > j
      BY <2>1, <2>3 DEF Passes, ParkedOn, Placed
    <3>2. j \in Nat /\ task[t].gate \in Nat
      BY <2>1, <2>3, StepType DEF Passes, Gates
    <3>3. ~(j < task[t].gate)
      BY <3>1 DEF NoGateBefore, ParkedOn
    <3>4. j = task[t].gate
      BY <3>1, <3>2, <3>3 DEF ParkedOn
    <3> QED BY <3>1, <3>4
  <2> QED BY <2>2, <2>3
<1> QED BY <1>1, GatePassAlways, PTL

\* No step is done twice, for every plan: however often the process crashes, deployments
\* overlap and coroutines fail, an agent is started on a step, or the run parked on a
\* gate, at most once in a run approved at most once; and up to the gate it is first
\* parked on at most once in any run, however often it is approved.
THEOREM StepsRunOnce == Spec => []NoStepTwice
<1>1. TypeInv /\ CourseInv /\ GatePassInv => NoStepTwice
  BY DEF CourseInv, OnCourse, OnRecord, Once, NoStepTwice, GatePassInv, Parked, ReachedOnce,
         NoGateBefore
<1> QED BY <1>1, GatePassAlways, PTL
=============================================================================
