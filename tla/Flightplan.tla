----------------------------- MODULE Flightplan -----------------------------
(***************************************************************************)
(* The Flightplan engine: orchestrator/graph.py (execute, resume, the step *)
(* loop), the routes that start, approve and abort a run, the statements   *)
(* of repo.py they issue, and the start-up of the runtime process.         *)
(*                                                                         *)
(* The runtime is one asyncio process over one PostgreSQL database.  Every *)
(* `await repo.f(...)` is one atomic SQL statement, and between two awaits *)
(* any other coroutine may run: an action below is the code from one await *)
(* up to and including the next statement.  A task is a request handler    *)
(* followed by the background coroutine it spawns; what it holds in local  *)
(* variables is in task[t] and dies with the process, what it wrote is in  *)
(* status and rows.                                                        *)
(***************************************************************************)
EXTENDS Integers, Sequences, FiniteSets

CONSTANTS
  Runs,            \* ids of the rows of table runs
  Tasks,           \* slots for concurrently live handlers and coroutines
  Steps,           \* the Flightplan's steps, already in _topo_order
  Outputs,         \* what an agent's output lets a `when` condition tell apart
  AgentResults,    \* the statuses run_agent returns
  Triggers,        \* who starts runs: [by |-> "user" | "system", role |-> role]
  CurrentRoles,    \* the roles a triggering user may have in table users when
                   \* a run is approved
  MutatingEnabled, \* settings.mutating_agents_enabled (the kill switch)
  Budget           \* how often each event of the environment may happen

Viewer == 0
Dev    == 1
Admin  == 2
Roles  == {Viewer, Dev, Admin}

Index == 1..Len(Steps)

\* Entries of context["steps"].  NoOutput is the output of a step no agent ran for.
NoOutput == "none"
Results  == [status : {"success", "failed", "skipped", "awaiting_user_input"},
             out    : Outputs \cup {NoOutput}]
Absent   == [status |-> "absent", out |-> NoOutput]

\* One step of definition.steps joined with the agents row it names.  dep = 0
\* is a step without `when`; otherwise the condition is true of the results in
\* holds.  stops is fail_fast or policy.block_on.
StepDefs == [kind     : {"agent", "approval"},
             known    : BOOLEAN,
             minRole  : Roles,
             mutating : BOOLEAN,
             stops    : BOOLEAN,
             dep      : 0..Len(Steps),
             holds    : SUBSET Results]

Events == {"approve", "abort", "raise", "crash", "rollout"}

ASSUME StepsAssumption   == Steps \in Seq(StepDefs)
ASSUME OutputsAssumption == NoOutput \notin Outputs
ASSUME ResultsAssumption ==
  AgentResults \subseteq {"success", "failed", "awaiting_user_input"}
ASSUME TriggersAssumption ==
  /\ Triggers \subseteq [by : {"user", "system"}, role : Roles]
  /\ CurrentRoles \subseteq Roles
ASSUME SwitchAssumption == MutatingEnabled \in BOOLEAN
ASSUME BudgetAssumption == Budget \in [Events -> Nat]

VARIABLES
  status,    \* runs.status ("none": the row does not exist)
  by,        \* whether runs.triggered_by is a user or NULL ("system")
  rows,      \* the run's rows of run_steps, in insertion order
  task,      \* the live handlers and coroutines
  left,      \* what is left of Budget
  overlap,   \* whether two pods run: the new one of a rollout and the old
  hist,      \* per run, observations the code does not keep (see NoHistory)
  lost       \* observation: the runs shown as 'running' when an exception in
             \* their coroutine could not be recorded

vars == <<status, by, rows, task, left, overlap, hist, lost>>

Settled == {"success", "failed", "aborted"}
RunStatus == Settled \cup {"none", "queued", "running", "awaiting_approval"}
Row == [at : Index, status : {"success", "failed", "skipped", "awaiting_user_input"},
        out : Outputs \cup {NoOutput}]

\* Where a task is: the await it is about to perform.
Handling   == {"created", "approved"}
Background == {"rebuild", "count", "mark", "check", "skip", "park",
               "lookup", "reject", "agent", "finish", "record"}

Task == [pc    : {"idle"} \cup Handling \cup Background,
         run   : Runs,
         at    : Nat,                    \* order + 1
         role  : Roles,                  \* user_role
         seen  : [Index -> Results \cup {Absent}],   \* context["steps"]
         bad   : BOOLEAN,                \* any_step_failed
         final : {"success", "failed"},  \* the status finish_run will write
         old   : BOOLEAN,                \* in the pod being replaced
         gate  : 0..Len(Steps)]          \* observation: the gate it was let past

Live(t) == task[t].pc # "idle"

\* A task at the start of its life, and a slot no task occupies (run is kept
\* only for the type).
NewTask(p, r, role, gate, old) ==
  [pc |-> p, run |-> r, at |-> 1, role |-> role,
   seen |-> [i \in Index |-> Absent], bad |-> FALSE, final |-> "success",
   old |-> old, gate |-> gate]
NoTask(r) == NewTask("idle", r, Viewer, 0, FALSE)

Done(t) == NoTask(task[t].run)

\* ran[i]: how often the loop reached step i (an agent started on it, or the
\* run parked on it).  granted: approvals accepted.  gate: the gate the run
\* last parked on.  abort: whether an abort request was answered "aborted",
\* and whether a coroutine was past its abort check when the last one was.
\* late: agents started after that one.
NoHistory == [ran |-> [i \in Index |-> 0], granted |-> 0, gate |-> 0,
              abort |-> "none", late |-> 0]
Histories == [ran : [Index -> Nat], granted : Nat, gate : 0..Len(Steps),
              abort : {"none", "at rest", "in step"}, late : Nat]

Init ==
  /\ status = [r \in Runs |-> "none"]
  /\ by     = [r \in Runs |-> "user"]
  /\ rows   = [r \in Runs |-> <<>>]
  /\ \E r \in Runs : task = [t \in Tasks |-> NoTask(r)]
  /\ left = Budget
  /\ overlap = FALSE
  /\ hist = [r \in Runs |-> NoHistory]
  /\ lost = {}

Spend(e) == /\ left[e] > 0
            /\ left' = [left EXCEPT ![e] = @ - 1]

-----------------------------------------------------------------------------
(* repo.py: the statements *)

SetStatus(r, s) == status' = [status EXCEPT ![r] = s]

\* Mutant of MarkRunRunning: the UPDATE without its WHERE status IN (...).
MarkUnguarded(r) == SetStatus(r, "running")

\* UPDATE ... WHERE status IN (...): a no-op on a settled run.
MarkRunRunning(r) ==
  status' = [status EXCEPT ![r] =
               IF @ \in {"queued", "awaiting_approval"} THEN "running" ELSE @]

\* finish_run has no guard: it overwrites whatever status the row has.
FinishRun(r, s) == SetStatus(r, s)

\* Mutant of AddRunStep: the row is inserted as 'running', like chat's rounds.
AddRunningStep(r, i, res) ==
  rows' = [rows EXCEPT ![r] = Append(@, [at |-> i, status |-> "running", out |-> res.out])]

AddRunStep(r, i, res) ==
  rows' = [rows EXCEPT ![r] = Append(@, [at |-> i, status |-> res.status, out |-> res.out])]

\* Mutant of FailOrphanedRuns: a start-up that leaves the table alone.
KeepOrphanedRuns == UNCHANGED status

FailOrphanedRuns ==
  status' = [r \in Runs |-> IF status[r] = "running" THEN "failed" ELSE status[r]]

-----------------------------------------------------------------------------
(* The routes *)

\* POST /flightplans/{slug}/execute, the webhooks and the scheduler's _tick:
\* create_run.  Only the route checks the role: the others run as admin.  While
\* two pods run, either may be the one that accepts the request.
Execute(r, t) ==
  /\ status[r] = "none"
  /\ ~Live(t)
  /\ \E who \in Triggers, old \in {FALSE, overlap} :
       /\ who.by = "user" => who.role >= Dev
       /\ by'   = [by EXCEPT ![r] = who.by]
       /\ task' = [task EXCEPT ![t] = NewTask("created", r, who.role, 0, old)]
  /\ SetStatus(r, "queued")
  /\ UNCHANGED <<rows, left, hist, overlap, lost>>

\* ... and, after the audit row and the model preference, create_task.
SpawnExecute(t) ==
  /\ task[t].pc = "created"
  /\ task' = [task EXCEPT ![t].pc = "mark"]
  /\ UNCHANGED <<status, by, rows, left, hist, overlap, lost>>

\* POST /flightplans/runs/{id}/approve: the read of the run and the 409 check.
\* Nothing is written: the run stays 'awaiting_approval' until its new
\* coroutine reaches mark_run_running.
Approve(r, t) ==
  /\ status[r] = "awaiting_approval"
  /\ ~Live(t)
  /\ Spend("approve")
  /\ \E old \in {FALSE, overlap} :
       task' = [task EXCEPT ![t] = NewTask("approved", r, Viewer, hist[r].gate, old)]
  /\ hist' = [hist EXCEPT ![r].granted = @ + 1]
  /\ UNCHANGED <<status, by, rows, overlap, lost>>

\* ... then get_user_role(triggered_by) or "viewer", and create_task.
\* triggered_by is NULL for the runs no user started.
SpawnResume(t) ==
  /\ task[t].pc = "approved"
  /\ \E role \in IF by[task[t].run] = "user" THEN CurrentRoles ELSE {Viewer} :
       task' = [task EXCEPT ![t].pc = "rebuild", ![t].role = role]
  /\ UNCHANGED <<status, by, rows, left, hist, overlap, lost>>

PastCheck(t) ==
  task[t].pc \in {"skip", "park", "lookup", "reject", "agent", "finish", "record"}

\* Mutant of Abort: the UPDATE without its WHERE status IN (...).
AbortUnguarded(r) ==
  /\ status[r] # "none"
  /\ Spend("abort")
  /\ SetStatus(r, "aborted")
  /\ UNCHANGED <<by, rows, task, hist, overlap, lost>>

\* POST /runs/{id}/abort: one guarded UPDATE; 409 when it matches no row.
Abort(r) ==
  /\ status[r] \in {"queued", "running", "awaiting_approval"}
  /\ Spend("abort")
  /\ SetStatus(r, "aborted")
  /\ hist' = [hist EXCEPT ![r].late = 0, ![r].abort =
                IF \E t \in Tasks : task[t].run = r /\ PastCheck(t)
                  THEN "in step" ELSE "at rest"]
  /\ UNCHANGED <<by, rows, task, overlap, lost>>

-----------------------------------------------------------------------------
(* resume_flightplan *)

Written(r) == {rows[r][k].at : k \in DOMAIN rows[r]}

\* Which row _rebuild_context meets last for each step.  Rows come ORDER BY
\* step_order, so among several rows of one step the database may put any last.
LastRows(r) == {f \in [Written(r) -> DOMAIN rows[r]] :
                  \A i \in Written(r) : rows[r][f[i]].at = i}

Rebuild(t) ==
  LET r == task[t].run IN
  /\ task[t].pc = "rebuild"
  /\ \E last \in LastRows(r) :
       task' = [task EXCEPT ![t].pc = "count",
                  ![t].seen = [i \in Index |->
                     IF i \in Written(r)
                       THEN [status |-> rows[r][last[i]].status,
                             out    |-> rows[r][last[i]].out]
                       ELSE Absent]]
  /\ UNCHANGED <<status, by, rows, left, hist, overlap, lost>>

\* Mutant of ResumeAt: without the + 1 that skips the approval step.
ResumeAtGate(r) == Len(rows[r]) + 1

\* resume_from = count_run_steps + 1 skips the approval step itself; it is an
\* order, and at is the order plus one.
ResumeAt(r) == Len(rows[r]) + 2

Count(t) ==
  /\ task[t].pc = "count"
  /\ task' = [task EXCEPT ![t].pc = "mark", ![t].at = ResumeAt(task[t].run)]
  /\ UNCHANGED <<status, by, rows, left, hist, overlap, lost>>

-----------------------------------------------------------------------------
(* _run_steps *)

\* Mutant of AnyFailed: any_step_failed starts as a fresh False on a resume.
ForgetFailures(seen) == FALSE

AnyFailed(seen) == \E i \in Index : seen[i].status = "failed"

\* Task t after the loop body is done with its current step, knowing seen: the
\* next iteration, or past the last step the run's final status.
Advance(t, seen, bad) ==
  [task[t] EXCEPT
     !.at    = @ + 1,
     !.seen  = seen,
     !.bad   = bad,
     !.pc    = IF task[t].at < Len(Steps) THEN "check" ELSE "finish",
     !.final = IF bad THEN "failed" ELSE "success"]

Mark(t) ==
  LET bad == AnyFailed(task[t].seen) IN
  /\ task[t].pc = "mark"
  /\ MarkRunRunning(task[t].run)
  /\ task' = [task EXCEPT
                ![t].bad   = bad,
                ![t].pc    = IF task[t].at <= Len(Steps) THEN "check" ELSE "finish",
                ![t].final = IF bad THEN "failed" ELSE "success"]
  /\ UNCHANGED <<by, rows, left, hist, overlap, lost>>

\* `when`: an expression over a step that has no entry yet raises, and
\* _eval_expr turns that into None, which is false.
ShouldRun(step, seen) == step.dep = 0 \/ seen[step.dep] \in step.holds

\* The cooperative abort check at the loop head.
Stopped(r) == status[r] = "aborted"

Stop(t) ==
  /\ task[t].pc = "check"
  /\ Stopped(task[t].run)
  /\ task' = [task EXCEPT ![t] = Done(t)]
  /\ UNCHANGED <<status, by, rows, left, hist, overlap, lost>>

Check(t) ==
  LET step == Steps[task[t].at] IN
  /\ task[t].pc = "check"
  /\ ~Stopped(task[t].run)
  /\ task' = [task EXCEPT ![t].pc =
                IF ~ShouldRun(step, task[t].seen) THEN "skip"
                ELSE IF step.kind = "approval"    THEN "park"
                ELSE "lookup"]
  /\ UNCHANGED <<status, by, rows, left, hist, overlap, lost>>

Skip(t) ==
  LET i == task[t].at
      skipped == [status |-> "skipped", out |-> NoOutput]
  IN  /\ task[t].pc = "skip"
      /\ AddRunStep(task[t].run, i, skipped)
      /\ task' = [task EXCEPT ![t] =
                    Advance(t, [task[t].seen EXCEPT ![i] = skipped], task[t].bad)]
      /\ UNCHANGED <<status, by, left, hist, overlap, lost>>

\* Mutant of Park: the run is parked but the loop goes on (no return).
ParkAndContinue(t) ==
  /\ task[t].pc = "park"
  /\ FinishRun(task[t].run, "awaiting_approval")
  /\ task' = [task EXCEPT ![t] = Advance(t, task[t].seen, task[t].bad)]
  /\ UNCHANGED <<by, rows, left, hist, overlap, lost>>

\* An approval step adds no row: the run is parked and the coroutine returns.
Park(t) ==
  LET r == task[t].run IN
  /\ task[t].pc = "park"
  /\ FinishRun(r, "awaiting_approval")
  /\ task' = [task EXCEPT ![t] = Done(t)]
  /\ hist' = [hist EXCEPT ![r].gate = task[t].at, ![r].ran[task[t].at] = @ + 1]
  /\ UNCHANGED <<by, rows, left, overlap, lost>>

\* The three refusals: unknown agent, role below min_role, kill switch.
Refused(step, role) == \/ ~step.known
                       \/ role < step.minRole
                       \/ step.mutating /\ ~MutatingEnabled

Refuse(t) ==
  LET step == Steps[task[t].at] IN
  /\ task[t].pc = "lookup"
  /\ Refused(step, task[t].role)
  /\ task' = [task EXCEPT ![t].pc = "reject"]
  /\ UNCHANGED <<status, by, rows, left, hist, overlap, lost>>

Reject(t) ==
  /\ task[t].pc = "reject"
  /\ AddRunStep(task[t].run, task[t].at, [status |-> "failed", out |-> NoOutput])
  /\ task' = [task EXCEPT ![t].pc = "finish", ![t].final = "failed"]
  /\ UNCHANGED <<status, by, left, hist, overlap, lost>>

\* run_agent(..., pre_approved=True): from here the step acts on the world.
StartAgent(t) ==
  LET r == task[t].run
      i == task[t].at
  IN  /\ task[t].pc = "lookup"
      /\ ~Refused(Steps[i], task[t].role)
      /\ task' = [task EXCEPT ![t].pc = "agent"]
      /\ hist' = [hist EXCEPT ![r].ran[i] = @ + 1,
                              ![r].late = IF hist[r].abort # "none" THEN @ + 1 ELSE @]
      /\ UNCHANGED <<status, by, rows, left, overlap, lost>>

\* The agent returns with some status and output: its row is written, and a
\* failure of a fail_fast / block_on step ends the run (after summarize_run).
AgentReturns(t) ==
  LET i == task[t].at IN
  /\ task[t].pc = "agent"
  /\ \E s \in AgentResults, o \in Outputs :
       LET res   == [status |-> s, out |-> o]
           after == Advance(t, [task[t].seen EXCEPT ![i] = res],
                            task[t].bad \/ s = "failed")
       IN  /\ AddRunStep(task[t].run, i, res)
           /\ task' = [task EXCEPT ![t] =
                         IF s = "failed" /\ Steps[i].stops
                           THEN [after EXCEPT !.pc = "finish", !.final = "failed"]
                           ELSE after]
  /\ UNCHANGED <<status, by, left, hist, overlap, lost>>

\* finish_run, whatever happened to the row meanwhile: at the loop's end, once
\* summarize_run has been awaited, or in run_in_background's except.
Finish(t) ==
  /\ task[t].pc \in {"finish", "record"}
  /\ FinishRun(task[t].run, task[t].final)
  /\ task' = [task EXCEPT ![t] = Done(t)]
  /\ UNCHANGED <<by, rows, left, hist, overlap, lost>>

-----------------------------------------------------------------------------
(* Failures *)

\* Mutant of Raise: nothing catches the exception of the background task.
RaiseUnrecorded(t) ==
  /\ task[t].pc \in Background \ {"record"}
  /\ Spend("raise")
  /\ task' = [task EXCEPT ![t] = Done(t)]
  /\ UNCHANGED <<status, by, rows, overlap, hist, lost>>

\* An exception in the coroutine: run_in_background catches it, and has a
\* finish_run of its own to await.
Raise(t) ==
  /\ task[t].pc \in Background \ {"record"}
  /\ Spend("raise")
  /\ task' = [task EXCEPT ![t].pc = "record", ![t].final = "failed"]
  /\ UNCHANGED <<status, by, rows, overlap, hist, lost>>

\* That statement raises too: nothing catches it, and the row stays as it is.
RecordFails(t) ==
  /\ task[t].pc = "record"
  /\ Spend("raise")
  /\ task' = [task EXCEPT ![t] = Done(t)]
  /\ lost' = lost \cup {r \in Runs : r = task[t].run /\ status[r] = "running"}
  /\ UNCHANGED <<status, by, rows, overlap, hist>>

\* An exception in the handler, before create_task: a 500 and nothing more.
HandlerFails(t) ==
  /\ task[t].pc \in Handling
  /\ Spend("raise")
  /\ task' = [task EXCEPT ![t] = Done(t)]
  /\ UNCHANGED <<status, by, rows, overlap, hist, lost>>

\* The process (or, in an overlap, both) dies with everything it was running;
\* the next one starts (main.py lifespan) and fails the runs left 'running'.
Crash ==
  /\ Spend("crash")
  /\ task' = [t \in Tasks |-> Done(t)]
  /\ overlap' = FALSE
  /\ FailOrphanedRuns
  /\ UNCHANGED <<by, rows, hist, lost>>

\* A rolling update (the Deployment names no strategy): the new pod starts,
\* and runs the same start-up, while the old one still executes its tasks, and
\* accepts more.
Rollout ==
  /\ Spend("rollout")
  /\ ~overlap
  /\ overlap' = TRUE
  /\ task' = [t \in Tasks |-> [task[t] EXCEPT !.old = Live(t)]]
  /\ FailOrphanedRuns
  /\ UNCHANGED <<by, rows, hist, lost>>

\* ... until the old pod is terminated.
OldPodExits ==
  /\ overlap
  /\ overlap' = FALSE
  /\ task' = [t \in Tasks |-> IF task[t].old
                                THEN Done(t) ELSE task[t]]
  /\ UNCHANGED <<status, by, rows, left, hist, lost>>

-----------------------------------------------------------------------------
Coroutine(t) ==
  \/ SpawnExecute(t) \/ SpawnResume(t)
  \/ Rebuild(t) \/ Count(t) \/ Mark(t) \/ Stop(t) \/ Check(t) \/ Skip(t) \/ Park(t)
  \/ Refuse(t) \/ Reject(t) \/ StartAgent(t) \/ AgentReturns(t) \/ Finish(t)

Next ==
  \/ \E t \in Tasks : Coroutine(t) \/ Raise(t) \/ RecordFails(t) \/ HandlerFails(t)
  \/ \E r \in Runs, t \in Tasks : Execute(r, t) \/ Approve(r, t)
  \/ \E r \in Runs : Abort(r)
  \/ Crash \/ Rollout \/ OldPodExits

Spec == Init /\ [][Next]_vars

\* asyncio runs every coroutine whose await has completed, and every await of
\* these coroutines (a statement, a model or tool call with a timeout) ends.
Fairness == \A t \in Tasks : WF_vars(Coroutine(t))

FairSpec == Spec /\ Fairness

-----------------------------------------------------------------------------
(* Properties *)

\* Every variable stays in the set of values the database columns and the
\* coroutines' locals can hold (001_init.sql's run_status enum and run_steps).
TypeOK ==
  /\ status \in [Runs -> RunStatus]
  /\ by     \in [Runs -> {"user", "system"}]
  /\ rows   \in [Runs -> Seq(Row)]
  /\ task   \in [Tasks -> Task]
  /\ left   \in [Events -> Nat]
  /\ hist   \in [Runs -> Histories]
  /\ overlap \in BOOLEAN
  /\ lost \in SUBSET Runs

Gates == {i \in Index : Steps[i].kind = "approval"}

\* A human gate holds: no agent of a step behind an unconditional approval step
\* ever starts in a run for which no approval was accepted, whatever requests,
\* aborts, exceptions, restarts and overlapping deployments do.
GateHonoured ==
  \A r \in Runs : \A g \in Gates : \A i \in Index :
    Steps[g].dep = 0 /\ g < i /\ hist[r].ran[i] > 0 => hist[r].granted > 0

\* The run has been parked on no gate before step i.
NoGateBefore(r, i) == \A g \in Gates : g < i => hist[r].ran[g] = 0

\* No step is done twice: up to the gate it is first parked on a run does nothing
\* again, however often it is approved; and as long as no second approval was
\* accepted, an agent is started at most once on any step of it (and it parks at
\* most once on a gate), across pauses, resumes, crashes and overlapping deployments.
NoStepTwice ==
  \A r \in Runs, i \in Index :
    hist[r].granted <= 1 \/ NoGateBefore(r, i) => hist[r].ran[i] <= 1

\* 'success' can be believed: a run approved at most once that reports it has
\* exactly one row for each step that is not a gate, in the plan's order, and
\* none of them failed.
SuccessIsComplete ==
  \A r \in Runs : status[r] = "success" /\ hist[r].granted <= 1 =>
    /\ \A i \in Index \ Gates :
         Cardinality({k \in DOMAIN rows[r] : rows[r][k].at = i}) = 1
    /\ \A j, k \in DOMAIN rows[r] : j < k => rows[r][j].at < rows[r][k].at
    /\ \A k \in DOMAIN rows[r] : rows[r][k].status # "failed"

\* In the loop body, where task[t].at is the step it is at.
InLoop == {"check", "skip", "park", "lookup", "reject", "agent"}

\* An approved run continues past the gate it was parked on when it was approved: if
\* that is the first it was parked on, a coroutine that resumes it takes no step up to
\* that gate, however many resume it.  (On a second one the resume counts a row too few.)
PastTheGate ==
  \A t \in Tasks : task[t].pc \in InLoop /\ NoGateBefore(task[t].run, task[t].gate) =>
                     task[t].at > task[t].gate

\* An abort stops its run (at most one coroutine having been resumed).  While the
\* run stays aborted, at most the one step that was already past its check starts
\* after the abort was acknowledged.  And an abort that finds no coroutine past its
\* check is final, though one may be about to mark the run running or be between
\* two steps: the status stays 'aborted' and no agent starts.  (An exception in that
\* coroutine would still overwrite it, and so would one that starts past the last
\* step: a second resume that counted so many rows, or one of a run that was parked
\* on its last step.)
AbortStops ==
  \A r \in Runs : hist[r].granted <= 1 =>
    /\ status[r] = "aborted" => hist[r].late <= 1
    /\ /\ hist[r].abort = "at rest"
       /\ left["raise"] = Budget["raise"]
       /\ hist[r].gate # Len(Steps)
       => status[r] = "aborted" /\ hist[r].late = 0

\* A run shown as 'running' is being run: some coroutine is in its loop.  It holds
\* until a deployment overlaps two processes, whatever crashes happen, and of every
\* run but those whose coroutine raised twice: once in its course and once more in
\* the statement that should record it.
RunningHasOwner ==
  left["rollout"] = Budget["rollout"] =>
    \A r \in Runs : status[r] = "running" /\ r \notin lost =>
      \E t \in Tasks : task[t].run = r /\ (task[t].pc = "check" \/ PastCheck(t))

\* A run does not stay 'running' for ever: its coroutine ends it, or its one
\* exception is recorded, or the start-up of the next process ends it
\* (fail_orphaned_runs).  The same two cases are excepted.
RunningEnds ==
  \A r \in Runs : (status[r] = "running") ~>
    (status[r] # "running" \/ r \in lost \/ left["rollout"] # Budget["rollout"])

\* The engine is an implementation of the run lifecycle: a task owns the run it
\* works on from the handler's first write or check to its own end.
OwnersOf == [r \in Runs |-> {t \in Tasks : Live(t) /\ task[t].run = r}]

Lifecycle == INSTANCE RunLifecycle WITH Owners <- Tasks, owners <- OwnersOf

ImplementsLifecycle == Lifecycle!Spec

(* What the repository says and the code does not keep *)

\* A coroutine that resumes finds its run paused, or aborted in between.
ResumeFindsItPaused ==
  \A t \in Tasks : task[t].pc = "rebuild" =>
                     status[task[t].run] \in {"awaiting_approval", "aborted"}
=============================================================================
