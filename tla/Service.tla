------------------------------ MODULE Service ------------------------------
(***************************************************************************)
(* Where runs come from when nobody chats: the cron scheduler              *)
(* (scheduler.py), the webhooks (routes/webhooks.py) and the direct agent  *)
(* runs (routes/agents.py), with the start-up and end of the processes     *)
(* they run in (main.py; how a process gets to start is in Startup).       *)
(*                                                                         *)
(* The rows of table runs outlive the processes; last_checked, a tick in   *)
(* progress and the coroutines at work on runs die with theirs.  A step is *)
(* the code up to and including its next statement.  What a background     *)
(* coroutine does between its first and last statement is in Flightplan.   *)
(***************************************************************************)
EXTENDS Integers, Sequences, FiniteSets

CONSTANTS
  Procs,      \* runtime processes: the one that serves, and one replacing it
  Plans,      \* the Flightplans whose trigger is a schedule
  MaxNow,     \* bound on the clock, in minutes
  Followed,   \* the runs, by number, whose lifecycle is compared with RunLifecycle
  Scenes      \* the situations a behaviour may start in

Minutes == 0..MaxNow
Never == -1

\* statement: a statement the database refuses.  raise: run_agent raises.
Events == {"push", "alert", "direct", "gated", "abort", "crash", "rollout", "statement", "raise"}

\* slots: the minutes each plan's cron names.  malformed: the plans whose cron
\* croniter does not take (the BFF's POST /flightplans does not check it).  until:
\* where the clock stops.  budget: how often each event of the environment may happen.
ASSUME ServiceAssumption ==
  /\ MaxNow \in Nat
  /\ Scenes \subseteq [slots: [Plans -> SUBSET (1..MaxNow)], malformed: SUBSET Plans,
                      until: 0..MaxNow, budget: [Events -> Nat]]

ASSUME PlansAssumption == Plans # {}

VARIABLES
  scene,    \* the situation, which no step changes
  now,
  proc,     \* each process: its phase and its scheduler
  runs,     \* the rows of table runs, in order of creation
  left,     \* what is left of the scene's budget
  seen      \* observations: see Observations

vars == <<scene, now, proc, runs, left, seen>>

Kinds == {"cron", "push", "alert", "direct", "gated"}
\* "ended" is success or failed.
Settled == {"ended", "aborted"}
Statuses == Settled \cup {"queued", "running", "awaiting_approval", "awaiting_user_input"}

\* at: the statement the coroutine that has the run is about to perform; "none":
\* no coroutine has it.  of: that coroutine's process.
Run == [kind: Kinds, status: Statuses, at: {"none", "audit", "mark", "work", "record", "park", "finish"}, of: Procs]

\* The scheduler: tick is the now of _tick, todo the plans it has not looked at,
\* covers the slots between since and now of the plan it fires.
Scheduler == {"asleep", "tick", "create", "audit", "sweep", "dead"}
\* "absent": no pod.  "down": the container has ended, and the kubelet will start it.
Proc == [pc: {"absent", "down", "up"}, at: Scheduler, wake: Minutes, tick: Minutes, todo: SUBSET Plans,
         plan: Plans, covers: SUBSET Minutes, since: [Plans -> Minutes \cup {Never}]]

\* fires: runs started for a slot of a plan.  lost: slots whose create_run failed.
\* first: when each process first looked at each plan.  both: whether two processes
\* were up at once since the start.
Observations == [fires: [Plans -> [1..MaxNow -> Nat]], lost: [Plans -> SUBSET Minutes],
                 first: [Procs -> [Plans -> Minutes \cup {Never}]], both: BOOLEAN]

NewProc(pc) == [pc |-> pc, at |-> "asleep", wake |-> 0, tick |-> 0, todo |-> {},
             plan |-> CHOOSE f \in Plans : TRUE, covers |-> {}, since |-> [f \in Plans |-> Never]]

Init ==
  /\ scene \in Scenes
  /\ now = 0
  /\ proc = [p \in Procs |-> NewProc(IF p = CHOOSE q \in Procs : TRUE THEN "down" ELSE "absent")]
  /\ runs = <<>>
  /\ left = scene.budget
  /\ seen = [fires |-> [f \in Plans |-> [s \in 1..MaxNow |-> 0]], lost |-> [f \in Plans |-> {}],
             first |-> [p \in Procs |-> [f \in Plans |-> Never]], both |-> FALSE]

Up(p) == proc[p].pc = "up"
Use(event) == left[event] > 0 /\ left' = [left EXCEPT ![event] = @ - 1]

\* Mutant of Created: create_run names a status that run_status does not have.
CreatedPending(kind, p, at) ==
  Append(runs, [kind |-> kind, status |-> "pending", at |-> at, of |-> p])

\* create_run: the row's status is the column's default.
Created(kind, p, at) == Append(runs, [kind |-> kind, status |-> "queued", at |-> at, of |-> p])

Has(r, p, at) == Up(p) /\ runs[r].of = p /\ runs[r].at = at

ClockTicks ==
  /\ now < scene.until
  /\ now' = now + 1
  /\ UNCHANGED <<scene, proc, runs, left, seen>>

---------------------------------------------------------------------------
(* Processes *)

\* fail_orphaned_runs, whose runs may be another live process's.
Orphaned(status) == status = "running"

\* The kubelet starts the container again; a rolling update starts a pod next to the
\* one that serves.
Starts(p) ==
  /\ \/ proc[p].pc = "down" /\ UNCHANGED left
     \/ proc[p].pc = "absent" /\ Use("rollout")
  /\ proc' = [proc EXCEPT ![p] = NewProc("up")]
  /\ runs' = [r \in DOMAIN runs |->
                IF Orphaned(runs[r].status) THEN [runs[r] EXCEPT !.status = "ended"] ELSE runs[r]]
  /\ seen' = [seen EXCEPT !.first[p] = [f \in Plans |-> Never], !.both = @ \/ \E q \in Procs : Up(q)]
  /\ UNCHANGED <<scene, now>>

\* A process ends, and with it what it held: a crash, or the end of the one that a
\* rolling update has replaced.
Ends(p) ==
  /\ Up(p)
  /\ \/ Use("crash") /\ proc' = [proc EXCEPT ![p] = NewProc("down")]
     \/ /\ \E q \in Procs \ {p} : Up(q)
        /\ proc' = [proc EXCEPT ![p] = NewProc("absent")]
        /\ UNCHANGED left
  /\ runs' = [r \in DOMAIN runs |-> IF runs[r].of = p THEN [runs[r] EXCEPT !.at = "none"] ELSE runs[r]]
  /\ UNCHANGED <<scene, now, seen>>

---------------------------------------------------------------------------
(* The scheduler: run_scheduler and _tick *)

\* Mutant of AfterFailure: nothing catches the exception of a tick.
LoopEnds == "dead"

\* run_scheduler catches what a tick raises, and goes on to the sweep.
AfterFailure == "sweep"

\* list_scheduled_flightplans; now is read before.
TickStarts(p) ==
  /\ Up(p) /\ proc[p].at = "asleep" /\ now >= proc[p].wake
  /\ proc' = [proc EXCEPT ![p].at = "tick", ![p].tick = now, ![p].todo = Plans]
  /\ UNCHANGED <<scene, now, runs, left, seen>>

TickFails(p) ==
  /\ Up(p) /\ proc[p].at = "asleep" /\ now >= proc[p].wake
  /\ Use("statement")
  /\ proc' = [proc EXCEPT ![p].at = AfterFailure]
  /\ UNCHANGED <<scene, now, runs, seen>>

\* Mutant of Since: a plan not looked at yet is checked from the beginning.
SinceEver(p, f) == IF proc[p].since[f] = Never THEN 0 ELSE proc[p].since[f]

\* last_checked.get(slug, now)
Since(p, f) == IF proc[p].since[f] = Never THEN proc[p].tick ELSE proc[p].since[f]

\* Mutant of Checked: the clock is read again for each plan.
CheckedNow(p) == now

\* last_checked[slug] = now, where now is the tick's.
Checked(p) == proc[p].tick

\* croniter(cron, since).get_next is after since; it has come unless it is after now.
Due(since, s, to) == since < s /\ s <= to

\* A plan of the tick, in whatever order the rows come.
Looks(p, f) ==
  /\ Up(p) /\ proc[p].at = "tick" /\ f \in proc[p].todo \ scene.malformed
  /\ LET due == {s \in scene.slots[f] : Due(Since(p, f), s, proc[p].tick)}
     IN  proc' = [proc EXCEPT ![p].todo = @ \ {f}, ![p].since[f] = Checked(p), ![p].plan = f,
                              ![p].covers = due, ![p].at = IF due = {} THEN "tick" ELSE "create"]
  /\ seen' = IF seen.first[p][f] = Never THEN [seen EXCEPT !.first[p][f] = proc[p].tick] ELSE seen
  /\ UNCHANGED <<scene, now, runs, left>>

\* ... or one that raises before last_checked is set, at every tick that comes to it:
\* the plans behind it are not looked at (the SELECT has no ORDER BY).
LookRaises(p) ==
  /\ Up(p) /\ proc[p].at = "tick" /\ proc[p].todo \cap scene.malformed # {}
  /\ proc' = [proc EXCEPT ![p].at = AfterFailure]
  /\ UNCHANGED <<scene, now, runs, left, seen>>

Fires(p) ==
  /\ Up(p) /\ proc[p].at = "create"
  /\ runs' = Created("cron", p, "none")
  /\ proc' = [proc EXCEPT ![p].at = "audit"]
  /\ seen' = [seen EXCEPT !.fires[proc[p].plan] =
                [s \in 1..MaxNow |-> IF s \in proc[p].covers THEN @[s] + 1 ELSE @[s]]]
  /\ UNCHANGED <<scene, now, left>>

\* The rest of the tick is given up: the later plans wait for the next one.
FireFails(p) ==
  /\ Up(p) /\ proc[p].at = "create"
  /\ Use("statement")
  /\ proc' = [proc EXCEPT ![p].at = AfterFailure]
  /\ seen' = [seen EXCEPT !.lost[proc[p].plan] = @ \cup proc[p].covers]
  /\ UNCHANGED <<scene, now, runs>>

\* The run of p's tick, which no coroutine has yet.
Fired(p) == CHOOSE r \in DOMAIN runs :
  /\ runs[r].kind = "cron" /\ runs[r].of = p
  /\ \A q \in DOMAIN runs : runs[q].kind = "cron" /\ runs[q].of = p => q <= r

\* The audit row is written and the coroutine created, or it is not written and the
\* run stays as it is.
FireIsLogged(p) ==
  /\ Up(p) /\ proc[p].at = "audit"
  /\ \/ /\ runs' = [runs EXCEPT ![Fired(p)].at = "mark"]
        /\ proc' = [proc EXCEPT ![p].at = "tick"]
        /\ UNCHANGED left
     \/ /\ Use("statement")
        /\ proc' = [proc EXCEPT ![p].at = AfterFailure]
        /\ UNCHANGED runs
  /\ UNCHANGED <<scene, now, seen>>

TickEnds(p) ==
  /\ Up(p) /\ proc[p].at = "tick" /\ proc[p].todo = {}
  /\ proc' = [proc EXCEPT ![p].at = "sweep"]
  /\ UNCHANGED <<scene, now, runs, left, seen>>

\* abort_stale_paused_runs, for the runs that are old enough, and the sleep.  The
\* clock of the model stops, the scheduler does not.
Sweeps(p) ==
  /\ Up(p) /\ proc[p].at = "sweep"
  /\ \E old \in SUBSET {r \in DOMAIN runs : runs[r].status = "awaiting_user_input"} :
       runs' = [r \in DOMAIN runs |-> IF r \in old THEN [runs[r] EXCEPT !.status = "aborted"] ELSE runs[r]]
  /\ proc' = [proc EXCEPT ![p] = [NewProc("up") EXCEPT !.since = proc[p].since,
                                    !.wake = IF now < scene.until THEN now + 1 ELSE now]]
  /\ UNCHANGED <<scene, now, left, seen>>

---------------------------------------------------------------------------
(* Requests *)

\* A push to main with a commit, or an alert, that webhooks.py accepts.
Triggered(p, kind) ==
  /\ Up(p) /\ kind \in {"push", "alert"} /\ Use(kind)
  /\ runs' = Created(kind, p, "audit")
  /\ UNCHANGED <<scene, now, proc, seen>>

\* write_audit_log, then create_task and the answer; or the handler raises.
TriggerIsLogged(r, p) ==
  /\ Has(r, p, "audit")
  /\ \/ runs' = [runs EXCEPT ![r].at = "mark"] /\ UNCHANGED left
     \/ runs' = [runs EXCEPT ![r].at = "none"] /\ Use("statement")
  /\ UNCHANGED <<scene, now, proc, seen>>

\* Mutant of Marked: mark_run_running without the condition of its WHERE.
MarkedAnyway(status) == "running"

Marked(status) ==
  IF status \in {"queued", "awaiting_approval", "awaiting_user_input"} THEN "running" ELSE status

BackgroundStarts(r, p) ==
  /\ Has(r, p, "mark")
  /\ runs' = [runs EXCEPT ![r].status = Marked(@), ![r].at = "work"]
  /\ UNCHANGED <<scene, now, proc, left, seen>>

\* The end of execute_flightplan: finish_run overwrites what it finds; a run parked on
\* its approval step, or found aborted, is left alone.
BackgroundEnds(r, p) ==
  /\ Has(r, p, "work") /\ runs[r].kind \in {"cron", "push", "alert"}
  /\ \E status \in {"ended", "awaiting_approval"}
                     \cup ({runs[r].status} \cap {"aborted"}) :
       runs' = [runs EXCEPT ![r].status = status, ![r].at = "none"]
  /\ UNCHANGED <<scene, now, proc, left, seen>>

\* An exception in it, which run_in_background catches ...
BackgroundRaises(r, p) ==
  /\ \/ Has(r, p, "mark") /\ Use("statement")
     \/ /\ Has(r, p, "work") /\ runs[r].kind \in {"cron", "push", "alert"}
        /\ Use("statement") \/ Use("raise")
  /\ runs' = [runs EXCEPT ![r].at = "record"]
  /\ UNCHANGED <<scene, now, proc, seen>>

\* ... and records; or that statement is refused too, and the row stays as it is.
BackgroundRecords(r, p) ==
  /\ Has(r, p, "record")
  /\ \/ runs' = [runs EXCEPT ![r].status = "ended", ![r].at = "none"] /\ UNCHANGED left
     \/ runs' = [runs EXCEPT ![r].at = "none"] /\ Use("statement")
  /\ UNCHANGED <<scene, now, proc, seen>>

\* Mutant of FirstStatement: a parked run is answered without its finish_run.
NoParking(kind) == IF kind = "gated" THEN "none" ELSE "work"

FirstStatement(kind) == IF kind = "gated" THEN "park" ELSE "work"

\* run_agent_direct: a mutating agent in prod is parked, any other runs in the handler.
RunsDirectly(p, kind) ==
  /\ Up(p) /\ kind \in {"direct", "gated"} /\ Use(kind)
  /\ runs' = Created(kind, p, FirstStatement(kind))
  /\ UNCHANGED <<scene, now, proc, seen>>

\* finish_run(run_id, "awaiting_approval"), or a refused one.
Parks(r, p) ==
  /\ Has(r, p, "park")
  /\ \/ /\ runs' = [runs EXCEPT ![r].status = "awaiting_approval", ![r].at = "none"]
        /\ UNCHANGED left
     \/ runs' = [runs EXCEPT ![r].at = "none"] /\ Use("statement")
  /\ UNCHANGED <<scene, now, proc, seen>>

\* run_agent and add_run_step, which may raise: there is no run_in_background here.
DirectWorks(r, p) ==
  /\ Has(r, p, "work") /\ runs[r].kind = "direct"
  /\ \/ runs' = [runs EXCEPT ![r].at = "finish"] /\ UNCHANGED left
     \/ /\ runs' = [runs EXCEPT ![r].at = "none"]
        /\ Use("raise") \/ Use("statement")
  /\ UNCHANGED <<scene, now, proc, seen>>

DirectEnds(r, p) ==
  /\ Has(r, p, "finish")
  /\ \/ /\ \E status \in {"ended", "awaiting_user_input"} :
             runs' = [runs EXCEPT ![r].status = status, ![r].at = "none"]
        /\ UNCHANGED left
     \/ runs' = [runs EXCEPT ![r].at = "none"] /\ Use("statement")
  /\ UNCHANGED <<scene, now, proc, seen>>

\* routes/runs.py
Aborts(r) ==
  /\ \E p \in Procs : Up(p)
  /\ runs[r].status \notin Settled /\ Use("abort")
  /\ runs' = [runs EXCEPT ![r].status = "aborted"]
  /\ UNCHANGED <<scene, now, proc, seen>>

---------------------------------------------------------------------------

SchedulerStep(p) ==
  \/ TickStarts(p) \/ LookRaises(p) \/ Fires(p) \/ FireIsLogged(p) \/ TickEnds(p)
  \/ Sweeps(p)
  \/ \E f \in Plans : Looks(p, f)

RunStep(r, p) ==
  TriggerIsLogged(r, p) \/ BackgroundStarts(r, p) \/ BackgroundEnds(r, p)
    \/ BackgroundRaises(r, p) \/ BackgroundRecords(r, p)
    \/ Parks(r, p) \/ DirectWorks(r, p) \/ DirectEnds(r, p)

ProcStep(p) ==
  \/ Starts(p) \/ Ends(p) \/ SchedulerStep(p) \/ TickFails(p) \/ FireFails(p)
  \/ \E kind \in Kinds : Triggered(p, kind) \/ RunsDirectly(p, kind)
  \/ \E r \in DOMAIN runs : RunStep(r, p)

Next ==
  \/ ClockTicks
  \/ \E p \in Procs : ProcStep(p)
  \/ \E r \in DOMAIN runs : Aborts(r)

Spec == Init /\ [][Next]_vars

\* Time goes on, and asyncio runs the scheduler's task again.
FairSpec == Spec /\ WF_vars(ClockTicks) /\ \A p \in Procs : WF_vars(SchedulerStep(p))

---------------------------------------------------------------------------
(* Properties *)

TypeOK ==
  /\ scene \in Scenes
  /\ now \in Minutes
  /\ proc \in [Procs -> Proc]
  /\ runs \in Seq(Run)
  /\ left \in [Events -> Nat]
  /\ seen \in Observations

\* However often the process restarts or a tick fails, no slot starts two runs of its
\* plan, unless two processes were up together (scheduler.py: last_checked; its
\* opening comment relies on a single replica).
SlotFiresOnce ==
  ~seen.both => \A f \in Plans : \A s \in 1..MaxNow : seen.fires[f][s] <= 1

\* A process loses no slot between two of its ticks: each that has passed since it
\* first looked at a plan has a run, or its create_run failed, or is being worked on.
\* A tick that fails half-way leaves the later plans for the next (_tick).
NoSlotSlips ==
  \A p \in Procs : \A f \in Plans : \A s \in scene.slots[f] :
    /\ Up(p) /\ seen.first[p][f] # Never
    /\ seen.first[p][f] < s /\ s <= proc[p].since[f]
    => \/ seen.fires[f][s] > 0 \/ s \in seen.lost[f]
       \/ proc[p].at = "create" /\ proc[p].plan = f /\ s \in proc[p].covers

\* Only trouble strands a run: without a crash, an update, a refused statement or an
\* agent that raises, a 'queued' run has a coroutine that will take it further
\* (the handlers of webhooks.py and agents.py, and _tick).
StrandedByTroubleOnly ==
  (\A e \in {"crash", "rollout", "statement", "raise"} : left[e] = scene.budget[e]) =>
    \A r \in DOMAIN runs : runs[r].status = "queued" =>
      \/ runs[r].at # "none"
      \/ \E p \in Procs : proc[p].at = "audit" /\ Fired(p) = r

\* One failing tick does not stop the scheduler, nor does a plan that raises at every
\* tick (run_scheduler): while its process lives the sweep, which comes after the tick in
\* the same loop, comes round again and again; and a slot that has come is looked at, if
\* there is no such plan, behind which a tick never gets.
Behind(p, f) == Up(p) /\ \E s \in scene.slots[f] : proc[p].since[f] < s /\ s <= now

SchedulerGoesOn ==
  \A p \in Procs :
    /\ []<>(proc[p].at = "sweep" \/ ~Up(p))
    /\ \A f \in Plans : Behind(p, f) ~> (~Behind(p, f) \/ scene.malformed # {})

\* The rows go through the lifecycle of RunLifecycle: who writes one has created it, or
\* is its coroutine, or has the guard of an abort, a sweep or a start-up.  A run is in
\* the hands of its coroutine's process, and of the tick that has created it.  Which of
\* 'success' and 'failed' an ended run has is left open here.
Owns(p, r) ==
  /\ runs[r].of = p
  /\ runs[r].at # "none" \/ (proc[p].at = "audit" /\ Fired(p) = r)

StatusOf == [r \in Followed |->
  IF r \notin DOMAIN runs THEN "none" ELSE IF runs[r].status = "ended" THEN "failed" ELSE runs[r].status]
OwnersOf == [r \in Followed |-> {p \in Procs : r \in DOMAIN runs /\ Owns(p, r)}]

Lifecycle == INSTANCE RunLifecycle
  WITH Runs <- Followed, Owners <- Procs, status <- StatusOf, owners <- OwnersOf

ImplementsLifecycle == Lifecycle!Spec
=============================================================================
