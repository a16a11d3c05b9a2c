# OpsSquad in TLA+

A specification of the runtime of OpsSquad: how a *run* (a Flightplan, a chat)
is started, executed step by step or tool call by tool call, paused for a human,
resumed, aborted, and what is left of it after a failure, a restart or a rolling
update; what the rule-based agents and their tools do inside a step; where runs
come from (schedules, webhooks, direct requests); how the services start up
against a Vault that forgets; and the agent that switches the local model servers.
The modules are translated from the code under `src/`; `PROJECT.json` maps each
definition to the lines it stands for.

- [1. The system](#1-the-system)
- [2. The modules](#2-the-modules)
- [3. What is checked](#3-what-is-checked)
- [4. What is proved](#4-what-is-proved)
- [5. Where the code and its comments disagree](#5-where-the-code-and-its-comments-disagree)
- [6. What is not modelled](#6-what-is-not-modelled)
- [7. Plan](#7-plan)

To check a run: `tlc -workers 2 -config flightplan.cfg MCFlightplan.tla`; to
check a proof: `tlapm FlightplanProofs.tla`.

## 1. The system

OpsSquad is a React frontend, a Node BFF (sessions, roles, a WebSocket that
streams runs), a Python runtime (FastAPI, one asyncio process) that executes
runs, PostgreSQL (runs, their steps, the catalogue of agents and Flightplans),
Redis (WebSocket tickets), Vault (secrets) and, beside the cluster, a small
agent that starts and stops the local model servers.

| Component | State | Operations | What is hard | What makes it correct |
|---|---|---|---|---|
| Flightplan engine (`orchestrator/graph.py`, `routes/flightplans.py`, `repo.py`) | `runs.status`, `run_steps`; per coroutine: position, `user_role`, `context["steps"]`, `any_step_failed` | execute, approve, abort, the step loop, resume, the start-up that fails orphans | the handler's check and the coroutine's write are far apart; only some writes are guarded; a resume rebuilds its memory from rows | gates hold; no step twice; an abort stops the run; 'success' is complete; a running run is being run, and ends |
| Agent loop (`orchestrator/executor.py`) | conversation, iteration and call counters, `tool_calls` | propose a round, gate, execute, ask, conclude, fail; read calls out of a text, trim the history | a whole round pauses and is executed later by other code; counters and "nothing ran yet" restart in each segment; a text is no protocol | a mutating call runs once per approval; a denied tool is not run; no call of a text is run twice or missed; the latest round is never trimmed |
| Chat runs (`routes/chat.py`, `scheduler.py`) | `runs.status`, `runs.inputs` (the pending conversation), `run_steps` | chat, reply, approve or deny a command, sweep, abort | the pending state and the status are two statements; replies, decisions, sweep, abort race | a paused run can be gone on with; the trace is a sequence; every run ends, also one nobody answers |
| Step ordering, `when` expressions (`graph.py`, `safe_eval.py`) | none | `_topo_order`, `safe_evaluate`, `_eval_expr` | cycles, unknown needs, short circuits, exceptions that count as false | each step after what it needs; a step runs exactly when its condition holds |
| Thread memory (`routes/chat.py`) | chat messages, the thread's summary | history of a new run of a thread | the cut at the threshold, a summary that fails | every turn is replayed or summarised |
| Simulated agents (`agents/*.py`) | the data of the calls of one step | fifteen agents and a fallback, called by the plans of `db/seed.sql` | they see the data of an answer and not whether it was an error | nothing a gate looks for is shipped; a bad release does not stay without a rollback; guardrails hold |
| Tools (`tools/*.py`) | a report in `/tmp`, the Argo CD application, replicas | some thirty commands and requests, real or stubs | exit codes, timeouts, empty or unreadable output; shared state outside | what is reported as synced gets live; a rollback goes to the release before |
| Scheduler (`scheduler.py`) | `last_checked` in memory | tick, sweep | a tick that fails half-way, restarts, two processes | a slot fires at most once, and does not slip between two ticks |
| Webhooks, direct runs (`routes/webhooks.py`, `routes/agents.py`) | `runs.status` | push, alert, run an agent | a run exists before anything executes it | only trouble strands a run |
| Start-up (`vault.py`, `config.py`, `main.py`, `bff/src/vault.js`, `bff/src/bootstrap.js`) | token, secrets, the phase | login with retries, read the secrets, check, connect | Vault restarts, half-written secrets, the kubelet's patience | who serves is safely configured; who is well configured gets to serve |
| Sessions (`bff/src/routes/auth.js`, `jwt.js`) | one refresh token per user | login, refresh, logout | two browsers, a demotion during a session | a revoked session gets no new token |
| Run stream (`bff/src/ws/streamRuns.js`) | tickets, the last snapshot | ticket, connect, poll | a terminal status that is overwritten | a viewer sees the final status |
| Model control (`local-model-control/agent.py`) | processes, `active_model` | start, load, stop, status | a read outside the lock, servers that linger | at most one server, and the one asked for |

How they interact.  Every request of the frontend passes the BFF to a route of
the runtime.  A route reads or inserts the run's row, then spawns a coroutine
with `run_in_background` and answers; from then on the route and the coroutine
share nothing but the database.  The coroutine calls `run_agent`, which asks the
model and runs tools, and reports each round through the callback `on_step`.  An
abort is a guarded `UPDATE` that the step loop of a Flightplan polls and the chat
loop does not.  The scheduler inserts runs (as does a webhook) and sweeps paused
ones; the start-up of the process fails those left 'running'.

Everything hard follows from three facts.  There is one process, but every
`await` lets another coroutine run, so any check made before an `await` may be
stale after it.  The coroutines are in memory, and the rows are not.  And of the
statements that write `runs.status` only some (`mark_run_running`, `abort_run`,
the sweep, `fail_orphaned_runs`) look at the status they replace; `finish_run`
and the `mark_run_awaiting_*` family do not.

## 2. The modules

    RunLifecycle                      what every run promises (abstract)
      ^ implemented by                  ^ theorems: RunLifecycleProofs
      |
      +-- Flightplan  <- MCFlightplan   the Flightplan engine
      |     ^ theorems: FlightplanProofs
      |
      +-- ChatRun  <- MCChatRun         chat runs
      |     | ^ theorems: ChatRunProofs
      |     | extends
      |   AgentLoop                     the tool-use loop of a segment
      |
      +-- Service  <- MCService         scheduler, webhooks, direct runs, processes
            ^ theorems: ServiceProofs

    Agents  <- MCAgents               the rule-based agents inside the steps
      | ^ theorems: AgentsProofs
      | extends
    Tools                             what a tool call can answer

    Startup  <- MCStartup             how a process gets to serve
        ^ theorems: StartupProofs
    Algorithms  <- MCAlgorithms       the pure functions of the orchestrator
      | extends
    StepOrder, Memory                 those of them that loop over a plan, a thread, a talk
        ^ theorems: AlgorithmsProofs

    ModelControl                      the switch of the local model
        ^ theorems: ModelControlProofs

The modules meet at the run: Service ends where a coroutine takes a run, which is
where Flightplan begins; Flightplan takes an agent's result as any value of its
constants, and Agents shows which ones the agents give; Startup is the inside of
Service's `Starts`.  They are not composed into one state machine, since the product
would add only interleavings of parts that share nothing.

**Granularity.**  In the detailed modules an action is the code from one
`await` up to and including the next statement that reads or writes shared
state.  A SQL statement is atomic, as it is in PostgreSQL with autocommit.  A
*task* is a request handler followed by the coroutine it spawns, in a slot of
`Tasks`; what it keeps in local variables is the record `task[t]`, which a crash
erases, and `pc` names the await it is about to perform.  A call of a model or a
tool is one effect.  Awaits that touch nothing the model has (audit rows, chat
messages, `publish`, `summarize_run`) only separate the actions around them.

**RunLifecycle** has the statuses of `run_status` and, per run, its *owners*: the
handlers and coroutines that may still write it.  An owner may write any verdict;
everybody else (`Abort`, `Sweep`, `Startup`) writes under the guard of its `WHERE`
clause.  Its promise is `HistoryIsFinal`: a settled run that nobody owns never
changes.  That is weaker than "settled is final", which the code does not keep.

**Flightplan.**  `status`, `by`, `rows` are the columns of `runs` and `run_steps`
that the engine reads; `task` is above; `left` bounds the events of the
environment; `overlap` says that the old and the new pod of a deployment both run, and a
request that comes then may be taken by either.  Two variables record what the code does
not: `hist`, which steps were started, how many approvals were accepted, when an abort was
acknowledged; and `lost`, the runs that were 'running' when the statement that should record
an exception was refused too.

| Code | Actions |
|---|---|
| `POST /flightplans/{slug}/execute`, webhooks, `_tick` | `Execute`, `SpawnExecute` |
| `POST /flightplans/runs/{id}/approve` | `Approve` (the 409 check), `SpawnResume` (the role) |
| `resume_flightplan` | `Rebuild` (`_rebuild_context`), `Count` (`resume_from`) |
| `_run_steps` | `Mark`, `Check` or `Stop` (the abort check and `when`), `Skip`, `Park`, `Refuse`/`Reject`, `StartAgent`, `AgentReturns`, `Finish` |
| `POST /runs/{id}/abort` | `Abort` |
| `run_in_background`'s `except`, a 500 | `Raise`, then `Finish` (its `finish_run`) or `RecordFails` (that one raises too, and nothing catches it); `HandlerFails` |
| a dead process and `fail_orphaned_runs` | `Crash` |
| a rolling update | `Rollout`, `OldPodExits` |

The plan is a constant, already in the order of `_topo_order`.  A `when` condition
is the set of results of the step it mentions for which it is true; an agent
returns any status and output of the constants.  `SELECT ... ORDER BY step_order`
leaves rows of one step in any order, and `Rebuild` chooses one.

**AgentLoop** gives the loop as operators on a *segment*, one call of
`run_agent`: what a round of tool calls does to the conversation, whether it
pauses, which calls run, what a reply or a decision adds.  The text of the model is
left out; a round is a sequence of tools.  The two loops of the code (Claude, and
OpenAI-compatible servers) differ in a handful of operators that take the
provider.

**ChatRun** runs segments inside a run.

| Code | Actions |
|---|---|
| `POST /chat` | `Chat`, `Spawn` |
| `POST /chat/{id}/reply` | `Reply`, `Spawn` or `NothingToAnswer` |
| `approve-command`, `deny-command` | `Decide`, `ExecutePaused` (per call), `CountDecided`, `RecordDecided` |
| `_execute_chat` and the loop | `Mark`, `Count`, `ModelConcludes`, `ModelProposes`, `ModelFails`, `Execute` (per call), `OnStep`, `FinalRow`, `Stash`, `Pause`, `Finish`, `Epilogue` |
| exceptions | `Raise`, then `Fail` (recorded) or `FailRefused`; `HandlerFails` |
| abort, the TTL sweep, a restart | `Abort`, `Age`, `Sweep`, `Crash` |

Rows are only counted, since nothing in a chat reads them back.  `asked` is the command in
the message of a pause, which is the one call of the round that the user sees
(`PendingCommand`, the first that needs an approval); `hist` counts per tool the approvals of
rounds with it (`granted`), those given while a call of it was on show (`shown`) and the calls
that ran (`done`), and remembers a round with two mutating calls (`bundled`).  The clock is the
set `aged` of runs whose `started_at` is older than the TTL.  Rolling updates are
left to Flightplan, whose `Rollout` shows what they do.

**ModelControl** is by itself: nothing in a run depends on which model answers.
`th[t]` is a request in a thread of the HTTP server, `lock` is `_lock`, `servers`
the process table, `order` the model that the last completed load or stop asked
for.  An action is the code between two reads of the process table or two steps of
its servers.

| Code | Actions |
|---|---|
| `do_POST` | `Request`, `Look` (`/start` without the lock) |
| `load_model` | `Acquire`, `Compare`, `Launch`, `LaunchFails` (`Popen` raises) |
| `stop_server` | `ListServers`, `Terminate`, `SeesThemGone` or `TimesOut` (SIGKILL), `KillMisses` |
| `llama-server` (external) | `Bind`, `Loaded`, `Dies`, `Crashes` |

A server that the agent launched stays a zombie until the next launch, so that a
signal to it never raises; one that was started by hand is reaped by its shell, and
the exception ends the request half way through `stop_server`.

**Tools** is a table.  A row says which argument a tool checks (`_safe_arg`,
`_safe_int`), which credential it needs, which exit codes it accepts and how it reads
the output; `Outcome` gives what the caller gets for each way a command can come back,
a timeout included, which `_run` reports as exit code 1.

**Agents** runs the plans of the seed on these tools.  `jobs[j]` is a run: its step,
its call, what its agent `seen` of the answers (`AgentContext.call` keeps the data
only), and `blind`, the data that did not come; `undone` says that a rollback tool reported
success, which the agent itself does not look at.  `report`, `argo` and `redis` are what
runs share outside the program.

| Code | Actions |
|---|---|
| `AgentContext.call`, `Tool.run` | `CallTool`, `CallStub` (`SimulatedTool`), `Refuse` (an unsafe argument, a missing credential) |
| `secrets.scan` | `Scan`, `WriteReport`, `ReadReport` |
| `argocd.sync`, `argocd.rollback` | `ReadHistory`, `PatchTarget`, `OrderSync`, `Poll` |
| Argo CD (external) | `ArgoSyncs` or `ArgoSyncFails`, `ArgoRefreshes` |
| an agent's verdict; the plan's next step | `Conclude`, `Skip`, `Finish` |

Three agents of `ship-to-prod` stop the plan when they fail; `TheAgent` gives the calls of each
and when it fails.  Roles, the approval step, aborts and crashes are Flightplan's.

**Startup** is one container of the runtime or of the BFF, next to Vault, the job that
configures it, the kubelet and the database.  Time is counted in rounds of the five
seconds between two logins, so that the 40 attempts, the two minutes of the job's cycle
and the probe's patience can be compared.

| Code | Actions |
|---|---|
| the kubelet and compose | `Starts`, `KubeletKills` |
| `_login`, `login` | `Login`, `Sleeps` |
| `load_secrets_from_vault`, `loadSecrets` | `Reads` (one path each) |
| the checks of `lifespan` and `bootstrap.js` | `Checks` |
| `init_pool`, `connectRedis`, `listen` | `Connects`, `ConnectFails` |
| Vault and `k8s/07-vault-init-job.yaml` | `VaultRestarts`, `VaultIsUp`, `JobStarts`, `JobWrites` |

**Service** has the rows of `runs` and the processes that create and execute them.  A
process holds its scheduler (`last_checked` is `since`) and the coroutines of its runs,
which `Ends` takes away.  A cron expression is the set of minutes it names; a plan may be
`malformed`, one that `croniter` raises on (`repo.py:41-46` selects on the trigger's type, and
`bff/src/routes/flightplans.js:18-28` saves a plan without a look at its cron).

| Code | Actions |
|---|---|
| `run_scheduler`, `_tick` | `TickStarts`, `Looks` (a plan), `Fires`, `FireIsLogged`, `TickEnds`, `Sweeps`; `TickFails`, `FireFails`, `LookRaises` (a malformed plan) |
| `POST /webhooks/...` | `Triggered`, `TriggerIsLogged` |
| `POST /agents/{slug}/run` | `RunsDirectly`, `Parks`, `DirectWorks`, `DirectEnds` |
| `execute_flightplan` and `run_in_background` from outside | `BackgroundStarts`, `BackgroundEnds`; `BackgroundRaises`, `BackgroundRecords` (or the record is refused) |
| `lifespan`, the end of a process | `Starts` (with `fail_orphaned_runs`), `Ends` |
| `POST /runs/{id}/abort` | `Aborts` |

The mapping to RunLifecycle follows the runs with the numbers `Followed`, one by one.
`StatusOf` is the row's status, 'none' before it is inserted ('success' and 'failed', which
Service does not tell apart, are one of the two); `OwnersOf` has the
processes in which a coroutine executes the run, or whose scheduler has inserted it and
is between the insert and the spawn (`Owns`).

**Algorithms** has the pure functions.  The conditions and the texts recurse over trees
and are functions, called in one step: `Eval` and `ShouldRun`, `ExtractCalls`.  The
others loop over sequences and are state machines, which can be proved about.
**StepOrder** is `_topo_order` visit by visit: `VisitsRoot`, `VisitsNeed` (a call of
`visit`), `Leaves` (its end), with the stack of calls as a variable.  **Memory** is what a
model is shown of the past.

| Code | Actions |
|---|---|
| `build_thread_history` | `ContinuesThread`, `SeesRun` (`dict.fromkeys`), `Cuts`, `Summarises`, `Replays`, `Recalls` |
| `_trim_old_tool_output` | `TrimsTalk`, `Counts`, `CountsAll`, `Shortens`, `Trims` |

A behaviour of Algorithms makes one call at a time.  Its steps are those of StepOrder, those of
Memory, or leave the variables of both alone, so that what holds of `OrderSpec` and of
`MemorySpec` holds of it.  The invariants compare each result with a definition that is
written the other way round: not by a traversal but by what precedes what, not by
evaluating in order but by what a condition says, not by scanning but by what the
author of a text meant, not by cutting a list but by what began before what.

## 3. What is checked

Every passing run has a mutant per property in `PROJECT.json`: a plausible bug in
a definition, under which TLC finds that property violated.

### Passing runs

**`flightplan`** (MCFlightplan, 910 000 states).  One run of `ship-to-prod` cut
to build, approval, deploy, verify and a rollback conditional on verify's failure,
triggered by a dev or by a push; two task slots; two approvals, two exceptions (the
second may hit the statement that records the first) and one each of abort, crash,
rolling update.

- `GateHonoured`: no agent behind an unconditional approval step starts before an
  approval was accepted.
- `NoStepTwice`: with at most one accepted approval no step is started twice; and
  with any number of them none is up to the gate at which the run was first parked.
- `SuccessIsComplete`: with at most one accepted approval 'success' means one row per
  step, in order, none failed.  (For the steps behind the gate neither holds with two:
  see `flightplan_twice`.)
- `PastTheGate`: a coroutine that resumes a run from the first gate it was parked on
  takes no step up to that gate.
- `AbortStops`: after an abort at most the step that was past its check starts; and
  if none was, the abort is the last word, unless an exception follows it or the run was
  parked on its last step.
- `RunningHasOwner`, `RunningEnds`: until two processes overlap, a run shown as
  'running' has a coroutine that executes it or records its exception, and stops being
  'running', unless that record was refused.
- `ImplementsLifecycle`: the engine implements RunLifecycle.

**`chat`** (MCChatRun, 7.7 million states).  One run of a dialogue with a mutation
behind a read, a round of two mutations, and a question, one round a segment; Claude or a
lenient local server; a user whose role may change between requests; three answers
(replies or decisions), one after the other or at the same time.  The task slots are
symmetric.

- `MutationsAreGranted`: a mutating tool never ran more often than rounds with a call of it
  were approved, each call counted.  An approval is of a round, of which the user sees one
  call; `docs/guide/09-security.md:131-134` says so.  So, second, where no approved round held
  another mutating call, and no two requests were worked on at once, it never ran more often
  than approvals were given while a call of it was the one on show.
- `PausedIsResumable`: a run that waits has pending what the answer needs, a question or the
  very command its user is shown, which was not denied before, unless two requests were
  worked on at once.

**`chat_ends`** (690 000 states): a dialogue with up to two rounds a segment and two
answers, by a user who may mutate, with one abort, crash, exception or refused record (a
failing Claude, which costs nothing here, raises too); under fairness.

- `TraceIsSequence`: rows are numbered 0, 1, 2, ... unless two requests were worked on
  at once;
- `RunningEnds`, `WaitingEnds`: the loop ends, and the sweep ends a run nobody answers,
  wherever it waits (except a run whose exception could not be recorded);
- `ImplementsLifecycle`.

**`models`** (ModelControl, 150 000 states).  Two threads, three requests of any
kind, three processes, two models, one crash; at first no server or one that was
started by hand.

- `OneServer`: never two servers that nobody told to stop.
- `LastOrderStands`: whenever the lock is free, what is up is what the last completed
  request asked for.
- `PortIsFree`: a new server finds its port free.
- `RequestsEnd`: every request ends, whatever raises while the lock is held.

The second and the third do not hold once a server had to be sent a SIGKILL, which
nobody waits for, and say so.

**`agents`** (MCAgents, 64 000 states).  The seeded plans, alone and in pairs, in the situations of
`MCScenes`: each trouble a gate looks for, with one call that comes back in any other
way than exit code 0, or a sync that fails; real tools or stubs; an Argo CD status that
lags, or an Argo CD that is down; incidents of two severities and five states of the deployment.

- `DeployIsEarned`: a release with a committed secret, failing tests or a critical
  vulnerability is shipped only if the very call that looks for it came back without
  data, or the report of a secret was read while another run's scan rewrote it.
- `BadReleaseIsRolledBack`: of a shipped release that verify can see to be bad, a rollback
  tool has reported success by the end of the run, unless both rollback calls failed, an
  exception ended the run, or the metrics did not come.
- `GuardrailsHold`: incident-response stays within `max_replicas`, scales only in a P1
  or P2 incident, and to nothing only if none are wanted or diagnose did not see how
  many are.
- `RollbackRestores`: the rollback of a run that is alone goes to the revision that was
  live before its deploy, once Argo CD had carried the deploy out.
- `ClaimsComeTrue`: a revision that a tool reported as synced becomes live, though the
  status it saw may be from before its order: unless Argo CD is down, a later order replaced
  this one, or this very sync failed after the report.

**`startup`** (MCStartup, 1.6 million states).  Runtime and BFF with the cluster's and
compose's configuration and with mistakes in each; one restart of Vault, one crash, one
refusal of the database; 40 attempts, a window of 24 rounds, a patience of 12 (or 60).

- `ServingIsSafe`: who serves has a JWT secret that is not the public one, runs commands
  unasked only in the test namespace, and has read every secret it was to read.
- `StartsUp`: a well-configured container gets to serve.

**`service`** (MCService, 187 000 states).  Two scheduled plans that come due together and
one of them again, two processes; twelve scenes with a few kinds of trouble each: a refused
statement on top of another, an exception and a refused record, a malformed plan.

- `SlotFiresOnce`: however often the process restarts or a tick fails, no slot starts two
  runs of its plan, unless two processes were up together.
- `NoSlotSlips`: each slot a process has passed has its run, or its `create_run` failed.
- `StrandedByTroubleOnly`: without a crash, an update, a refused statement or an agent
  that raises, a 'queued' run has a coroutine that will take it further.
- `SchedulerGoesOn`: neither a failing tick nor a plan that raises at every tick stops the
  loop and the sweep in it; and a slot that has come is looked at, if there is no such plan.
- `ImplementsLifecycle`: every run it creates goes through RunLifecycle.

**`algorithms`** (MCAlgorithms, 26 000 states).  Every plan of three steps with up to two
needs each, plans that name a step twice and plans that need an unknown one; 1040 conditions
over five contexts; 4368 texts of up to three pieces; threads of up to five runs; talks of up
to three rounds.

- `OrderIsRight`: each step once and each need before the step that has it, except needs
  that close a cycle; an order that is right already is left alone; a plan that needs a step
  it does not have raises, and no other.
- `StepRunsWhenItHolds`: a step runs exactly when its condition holds; what a skipped step
  never wrote reads as None, and what cannot be evaluated skips.
- `CallsAreFound`: no call of a text is run twice or made up; all are found when no brace
  is unbalanced or inside a string and no bare JSON stands beside a fence.
- `HistoryIsKept`: a thread's last runs are shown whole, and the summary, if there is one,
  stands for exactly the others; of a talk the latest round stays whole, the oldest outputs
  are shortened first and no more of them than needed.

The same conditions and texts were once run through the functions of the source, with
the same results.

### Why the bounds are enough

*Two slots*: every race here is between two coroutines of one run, or a coroutine
and a request; a third answers 409 or repeats one of the two.  *One run*: no
statement but `fail_orphaned_runs` and the sweep touches two runs, and these treat
each by itself; the theorems of section 4 have no such bound.  *The plan* has a
step before and after the gate, one that ends the run by failing and one that does
not, and a conditional one.  *Two answers* (approvals, replies, decisions) are a
double click as well as a second pause, and a third (in `chat`) is what it takes to
reply to a run whose pending state another request has just used up.  *MaxIterations 2 and MaxCallsPerTool 1*
(8 and 4 in the code) reach the iteration cap, the per-tool cap and the repeat
breaker in a few rounds; nothing else depends on their values.  `chat` has one round a
segment, so that three answers can be searched: a pause ends a segment, and what it relates
(approvals, executions, the pending state) crosses segments and not rounds.  *One trouble* (or
one of each kind) at every point, and two exceptions, since the second may hit the record of
the first; two crashes only repeat it, since a restart leaves no coroutine.  *Agents*: a run's verdicts depend on its own calls, so one fault at
any call shows what a gate does without its data, and a second would only open a second
gate; runs meet at the report and at Argo CD, where pairs show every order.  `MaxPolls 1`
(15 in the code) has a poll before and one after whatever Argo CD does.  *Startup* has the
code's numbers.  *Service*: a slot that two plans share, a second slot and one minute after
it show a first look, a fire and a coalesced look; scenes keep troubles apart because each
of them ends what the other would disturb.  *Algorithms*: three steps have every kind of
edge a depth-first search tells apart, cycles of two and three included; `Threshold 3`,
`Keep 2` stand for 10 and 10 and keep their difference visible, and five runs are two more
than the threshold.  *ModelControl*: the lock serialises all but the look of a
`/start`, so that two threads show every overlap, and a third request meets what an
exception or a SIGKILL of the second left behind.

Deadlock is not checked: a run that is settled, with nothing left of the budget,
stops, and so does one that waits for a human.

### Fairness

Flightplan and ChatRun assume weak fairness per task slot: asyncio runs a coroutine whose
await has completed, and the awaits end (statements, and model and tool calls
with the timeouts of `config.py` and `tools/real.py`).  ChatRun also assumes
that time passes and that the sweep runs: `run_scheduler` catches the exceptions
of a tick and of the sweep.  Nothing is assumed of users, exceptions, crashes or
deployments.  In particular a slot that a crash empties owes nothing, and what
becomes of its run is shown by the start-up, which is part of the crash action: a
process that stays dead is not modelled.

Agents assumes weak fairness per run, whose awaits all have a timeout, and that Argo CD
works off its orders while it is up: each is carried out or fails.  Startup assumes that Vault comes back, that the job
runs and completes, and that the container goes on by itself and is started again by the
kubelet.  Service assumes that the clock goes on and that asyncio runs the scheduler's
task; nothing of requests, and no restart: `SchedulerGoesOn` speaks of a process that lives.

ModelControl assumes weak fairness per thread, whose waits all have a timeout, and
that the kernel removes a killed process; a server may ignore a SIGTERM for ever.
Python's lock promises no order, but as the requests are finitely many a thread
that waits for it is in the end alone with it.

## 4. What is proved

TLAPS proves the following for every plan, every number of runs and task slots,
every set of outputs and every budget, from the assumptions named in the modules
(`StepsAssumption` etc.: the constants have the types the code gives them).

| Theorem | States | Argument |
|---|---|---|
| `RunLifecycleProofs!TypeCorrect`, `HistoryStays` | `TypeOK`, `HistoryIsFinal` of the lifecycle | one step per operation |
| `FlightplanProofs!TypeCorrect` | `Spec => []TypeOK` | `TypeInv`: the types, and that a coroutine in the loop body stands on a step of the plan; without it `Steps[task[t].at]` and the rows it writes have no type |
| `FlightplanProofs!GatesHold` | `Spec => []GateHonoured` | `GateInv` |
| `FlightplanProofs!RunningIsOwned` | `Spec => []RunningHasOwner` | `OwnerInv`: before the first overlap no task is of an old pod, and each running run has an executing task, or is in `lost` |
| `FlightplanProofs!LifecycleImplemented` | `Spec => ImplementsLifecycle` | every step is a step of RunLifecycle or a stutter under `owners <- OwnersOf` |
| `FlightplanProofs!HistoryIsKept` | `Spec => Lifecycle!HistoryIsFinal` | the refinement and RunLifecycle's own theorem |
| `FlightplanProofs!StepsRunOnce` | `Spec => []NoStepTwice` | `CourseInv` for one approval, `GatePassInv` up to the gate |
| `FlightplanProofs!SuccessIsEarned` | `Spec => []SuccessIsComplete` | `CourseInv` |
| `FlightplanProofs!AbortsStop` | `Spec => []AbortStops` | `AbortInv` on `CourseInv` |
| `FlightplanProofs!GateIsPassed` | `Spec => []PastTheGate` | `GatePassInv` |
| `ChatRunProofs!TypeCorrect` | `Spec => []TypeOK` | `TypeInv`: the types, and that a worker at a round has one with calls in it (`RoundHasCall`) |
| `ChatRunProofs!GrantsHold` | `Spec => []MutationsAreGranted` | `GrantInv` for what was approved, `ShownInv` on `WorkInv` for what was seen |
| `ChatRunProofs!PausedCanBeResumed`, `TraceStaysSequence` | `Spec => []PausedIsResumable`, `Spec => []TraceIsSequence` | `WorkInv` |
| `ChatRunProofs!LifecycleImplemented`, `HistoryIsKept` | `Spec => ImplementsLifecycle`, `Spec => Lifecycle!HistoryIsFinal` | as for Flightplan |
| `ModelControlProofs!TypeCorrect` | `Spec => []TypeOK`, with who holds the lock | part of `OneInv` |
| `ModelControlProofs!OneServerOnly` | `Spec => []OneServer` | `OneInv`: between its list and its launch the thread with the lock has seen or signalled every server |
| `ModelControlProofs!OrderStands`, `PortFree` | `Spec => []LastOrderStands`, `Spec => []PortIsFree` | `OrderInv` on `OneInv` |
| `StartupProofs!TypeCorrect` | `Spec => []TypeOK` | part of `StartInv` |
| `StartupProofs!ServesSafely` | `Spec => []ServingIsSafe` | `StartInv` |
| `AgentsProofs!TypeCorrect` | `Spec => []TypeOK` | no job counts past its plan, its agent's calls or the polls of a sync |
| `AgentsProofs!DeploysAreEarned`, `BadReleasesAreRolledBack` | `Spec => []DeployIsEarned`, `Spec => []BadReleaseIsRolledBack` | `GatesInv` |
| `AgentsProofs!GuardrailsAreKept` | `Spec => []GuardrailsHold`, if `MaxReplicas > 0` | `GuardInv` |
| `AgentsProofs!RollbacksRestore` | `Spec => []RollbackRestores` | `RestoreInv` |
| `ServiceProofs!TypeCorrect` | `Spec => []TypeOK` | no step writes a status outside `run_status` |
| `ServiceProofs!NoSlotFiresTwice`, `SlotsAreSeen` | `Spec => []SlotFiresOnce`, `Spec => []NoSlotSlips` | `SchedulerInv` |
| `ServiceProofs!OnlyTroubleStrands` | `Spec => []StrandedByTroubleOnly` | `RowInv` on `SchedulerInv` |
| `ServiceProofs!LifecycleImplemented`, `HistoryIsKept` | `Spec => ImplementsLifecycle`, `Spec => Lifecycle!HistoryIsFinal` | `LifeInv`: `RowInv`, and whose run a scheduler has in hand |
| `AlgorithmsProofs!OrderIsCorrect` | `OrderSpec => []OrderIsRight` | `OrderInv`, of a depth-first search |
| `AlgorithmsProofs!HistoryIsRight` | `MemorySpec => []HistoryIsKept` | `MemoryInv` |

One theorem has a hypothesis about a constant beside its type, `MaxReplicas > 0`, which
the seeded plan meets (`db/seed.sql:135`: 10); the paragraph on guardrails says why it is needed.

*Why `GateHonoured` is not inductive.*  It speaks of steps that have run.  A
coroutine that already stands behind a gate breaks it in its next step, and so
does one that takes the approval step for an agent's.  `GateInv` adds where the
coroutines of a run without an approval may stand (`AllInFront`): none came by
`resume_flightplan`, each is at or before every unconditional gate, and none at
such a gate is about to skip it or to look an agent up.  It is kept
because `Park` ends its coroutine, `Check` sends an unconditional approval step to
`Park`, and the only way behind the gate is `Approve`, which counts the approval.

*One course.*  `SuccessIsComplete` and the first half of `NoStepTwice` speak of a run
approved at most once, and hold because such a run is worked on by one task at a time.
`CourseInv` says so, and what that task finds: the rows are the steps before its place, in
the plan's order, one each, with at most the accepted gate left out; no step from its place
on was started before; and a run that is unborn, waits for its first approval, or has
succeeded has no task.  The second approval of a pause is what breaks it
(`flightplan_twice`).

*Aborts.*  `AbortInv` adds to it that the one coroutine of an aborted run that is past its
check has not started its agent yet, and that an abort which found the run at rest has
nobody past the check.  A run that was parked on its last step is left out of the second: the
coroutine that its approval spawns has no step left, never enters the loop in which an
abort is looked for, and writes its verdict over the abort.  Only that run, not each run
of a plan that ends in a gate, since one that is aborted before it gets there stays
aborted.

*Past the gate.*  `resume_flightplan` goes on at the number of rows plus one, since a gate
has no row.  `GatePassInv` needs neither a plan with one gate nor a bound on the approvals.
The coroutine a run was created with, which was let past no gate, has the run for itself
(`FirstAlone`) and new steps ahead (`Ahead`), and leaves a row for each step behind it.  So
once it parks, the rows are at least those up to that gate (`ParkedOn`), and as rows never
get fewer, every coroutine that resumes the run begins behind it (`Passes`).  Hence nothing
up to it is done again, and only there: on a second gate two rows are missing, the resume
counts one of them, and it finds that gate again.

*The refinement.*  `TaskMoves` reduces the fourteen steps of a coroutine, an
exception and a failing handler to four: proceed, `mark_run_running`, leave,
conclude.  Each is a step of the lifecycle, because a live task owns its run from
the handler's check on.  Approvals and executions are `Claim` and `Create`, and
the remaining events are those of the same names.

ChatRun is reduced in the same way, where a decision and a reply are claims too, and the sweep is
the lifecycle's.

In Service a process owns a run by its coroutine, or by the scheduler that has it in hand,
which is the latest run that this scheduler inserted (`Fired`, a choice).  `HandInv` says that
there is one whenever the scheduler is between the insert and the spawn; with the rows of
`RowInv` each action is then one operation of the lifecycle or none.

*An owner, or a refused record.*  What ends a running run is `finish_run` at the end of the
loop or in the `except` of `run_in_background`, or the guarded writes of an abort and a start-up.
Only the second of the two can be refused with nothing left to catch it: `RecordFails` puts
the run into `lost` if it is 'running' then, and `OwnerInv` needs no more than that.

*Granted calls.*  A mutating call runs in `Execute`, unless a round waits for it, or in
`ExecutePaused`, after an approval.  So what ran by itself says nothing of what an approved
round has still to run, and a second approval of the same pause adds its own.  `GrantInv`
bounds the sum: per run and tool, what has run and the calls which approved requests hold in hand
(the cardinality of `PendingCalls`) are covered by what was granted.  The other half is that a
round that did not wait holds no mutating call that would run: each is of a denied tool and will be
refused (`NothingUngranted`).  Here the prover needs the finite sets of the pending calls to
be compared step by step, since each execution takes one element away.

*Shown calls.*  The second half of `MutationsAreGranted` is about runs with no two requests at
once and no approved round of two mutating calls (`bundled`).  `ShownInv` says that in such a
run what was granted of a tool is what was shown of it, which carries `GrantInv` over.  An
approval grants each call of the pending round; of mutating ones there is one (`SingleCall`),
and that is the one on show, as `WorkInv` says of a paused run (`asked` is among its open calls
and needs an approval).

*One worker.*  Without two requests at once, `WorkInv` says that a run has at most one
worker, and that what this one relies on is so (`Sound`): it numbers its next row by the
rows there are; the status it is about to write promises no more than its conversation, or
the pending state it has stashed, can answer; and where the run still waits it has not begun.
Hence the rows are a sequence and a paused run can be answered.

*One server.*  `OneServer` alone does not say why a launch may start another server.
`OneInv` adds that the lock is held by exactly the thread between its two ends
(part of `TypeOK`), that every server nobody told to stop is on the list of a thread
about to signal, and that there is none when it is about to launch (`Swept`).

*The last order.*  `OrderInv` adds what a thread knows of servers it did not start: whoever
stops has all of them on its list (`Counted`), a server that has yet to bind has the table to itself
but for killed ones (`StartsAlone`), and until a server had to be killed there is one at most, of the
model ordered (`Unforced`).

*Serving is safe.*  A container that serves is looked at long after it has been checked.
`StartInv` adds what each phase has behind it: only a container with a Vault stands at the
login or at a path (`Placed`), the paths before the next one have been read by it and all
of them by one that is past reading (`Loaded`), and one that connects or serves has passed
the checks (`Checked`).  The proof holds for every number of attempts, every window and
every set of configurations, and does not rest on the fairness that gets it there.

*A deploy is earned.*  `DeployIsEarned` says nothing of a job that has not shipped, so the
step that ships would have nothing to go by.  `GatesInv` adds what each gate has behind it:
once its call is made the agent has seen the trouble or the data did not come (`LooksInv`),
and a job that goes on has passed the gates before it, and the verification or the rollback
after it (`PassedInv`).  For the rollback that means `Handled`: one of its two tools
reported success, or both failed; that the agent concluded means nothing.  That a report which reads as empty was emptied by another
ship-to-prod run (`ReportInv`) needs that no other plan calls `secrets.scan`
(`OnlyShipsScan`).  The fifteen kinds of step are reduced to `Called`, `MovesOn` and those of
Argo CD, which touch nothing the invariant speaks of.  The assumption on `Scenes` only types
them, and the theorems hold for every number of runs at once and every number of faults.

*Guardrails.*  `remediate` scales to three times what `diagnose` reports, cut to
`max_replicas`.  `GuardInv` carries that number through the plan: what a job was told and
hands on is what there is, or its answer did not come (`Told`), and only the third step
scales, if its action is allowed.  `MaxReplicas > 0` is needed because the
deployment starts with one replica, which a guardrail of none would exceed before anything ran.

*A rollback goes one back.*  The tool takes the second last entry of the history, so all
depends on the deploy having made exactly one entry when it reads.  `RestoreInv` says
that the live revision is the last entry, that an order pending in Argo CD is the run's own, and
where the run stands between its deploy, the order carried out, and its rollback.  A run that is
alone shares Argo CD with jobs of empty plans, which never take a step (`Idle`).

*Why `last_checked` is enough.*  `SlotFiresOnce` counts runs that exist, so by itself it
does not say why the next tick starts no other.  `SchedulerInv` adds, for as long as no
two processes have been up together, that whatever has fired lies at or before
`last_checked` of the one process that is up, or, where the plan has no entry yet, before
the `now` of the tick that will make one (`FiredIsPast`), and that what a tick is about to
fire has not fired (`CoversAreNew`).  A restart loses `last_checked` and keeps both, since a
first look at a plan covers nothing.  `NoSlotSlips` needs no such condition: it speaks of
one process at a time, and holds for any number of them.

*Who takes a queued run further.*  `RowInv` adds to `SchedulerInv` that each queued row has a
coroutine, or is the latest run of a scheduler that has inserted it and has not spawned it
yet (`Held`), and that at most one process is up (`OnePod`).  Both hold
while nothing has gone wrong, and whether something has is read off the budgets, which only
shrink (`Budgeted`): an untroubled state was reached through untroubled states.

*The order of the steps.*  `OrderInv` is the invariant of a depth-first search.  A step is
visited if and only if it is on the stack or listed, never both; the stack is a path (`IsPath`:
each visit is below those it was called from); the loops have left nothing unvisited behind
them (`LoopsVisit`); and what a listed step needs is listed before it, or was on the stack
when the step was left, and then the step is below its own need, which is a cycle (`Sorted`).
`Below` is the least closed set, so that a path needs no recursion to speak of.  That a
plan in order is left alone is the special case in which no stack is higher than one
(`Straight`).  Ids may repeat: `by_id` takes the last of them, which exists since a set of
places has a greatest member (`LastNumber`).

*What a model is shown.*  Of a thread `MemoryInv` says that `run_order` has each run once,
in the order in which they began (`Ordered`), and that the turns before the cursor are
replayed but for those of the runs cut off (`Replayed`).  That exactly `Keep` runs of a long
thread are shown is then a count of places (`CountPlaces`).  Of a talk it says that `total`
is the length in which shortened messages count without their mark, that what is shortened is
all that can be before the cursor, and that each was shortened when the talk was too long
(`Needed`).  The length is a recursive function; that it exists and changes as a message is
shortened is proved by the least place at which it would not (`Onwards`), as the library's
induction cannot be instantiated.

Only model-checked are the liveness properties (`RunningEnds`, `WaitingEnds`, `RequestsEnd`,
`ClaimsComeTrue`, `StartsUp`, `SchedulerGoesOn`), since liveness under fairness and ENABLED
are beyond this prover; `StepRunsWhenItHolds` and `CallsAreFound`, whose functions recurse
over expressions and texts, since what a recursive definition computes for every tree needs an
induction that it cannot instantiate; and the runs of section 5, which are counterexamples.
Every other property of a passing run is the subject of a theorem.

## 5. Where the code and its comments disagree

Four runs check one statement of a comment or a document each, and TLC finds a
behaviour of the code that contradicts it.

| Run | Statement | What happens |
|---|---|---|
| `flightplan_twice` | `resume_flightplan` resumes a run that is awaiting approval | of two approvals of one pause the second resumes a running run (nothing else happens in this run: two approvals are its whole budget) |
| `chat_denied` | a denied tool is not run | approving a new tool of a round also runs the denied one in it |
| `agents_failopen` | `fail_fast`: stop the whole plan if tests fail | a test run killed at its timeout counts as no failures, and the release is shipped |
| `startup_window` | the login rides out the window after a Vault restart, a failed lookup included | the runtime gives up at the first refused connection, which is what the trace shows; and for an error that it does retry the kubelet ends it before the job has run (the other half of the finding, which `KubeletKills` has and this trace does not) |

What the models also show, without a run of its own, because nothing in the repository
promises the contrary, or because the case is a step or two that need no search:

- *Recording an exception.* `run_in_background` (`graph.py:29-37`) exists so that no exception
  leaves a run 'running', but the `finish_run` in its `except` can raise in the same outage,
  and then the run stays 'running' until the process is started again (`RecordFails`,
  `FailRefused`, `BackgroundRecords`; the properties on 'running' runs except these, by `lost`).
- *A malformed cron.*  `croniter` raises at `scheduler.py:52`, before `last_checked` is set, at
  every tick; the plans behind it in the `SELECT` are then never looked at (`LookRaises`).  The
  loop and the sweep go on (`SchedulerGoesOn`), and nothing but the log says why a plan
  that is due does not fire.
- *A rollback that did not happen.*  The rollback agent sees no `ok` (`base.py:44`) and reports
  "Reverted to the last known-good release." of a release that is still live, if both of its calls
  failed; `BadReleaseIsRolledBack` excepts that case, since the code cannot tell.
- *Runs.* A run aborted in its last step is overwritten by `finish_run`, though
  `docs/guide/06-database.md:86` draws 'aborted' as an end; a chat never looks for an abort.
  A run that GitHub or the scheduler started goes on as a viewer after its approval.  A plan
  with two gates cannot get past the second, as the resume counts one row too few (up to the
  first all is well: `GateIsPassed`).  `ship-to-prod` builds before its gate, and `build` is
  seeded as mutating.  A run left 'queued' is failed by nothing.  After two processes
  overlapped in a rolling update a run may be shown as 'running' with nobody executing it,
  and two schedulers may fire one slot.
- *Chats.*  A call beside `ask_user` in one round stays unanswered, and the next request is
  refused.  In a resumed segment "nothing ran yet" forgets the approved command, and a
  failing server turns a real result into a simulated answer.  A thread whose summary
  fails loses its old turns.
- *Direct runs, webhooks.*  A direct prod run of a mutating agent waits for an approval that
  no route can give.  A delivery that is repeated starts a second run.
- *Agents and tools.*  Whatever a failing call leaves out reads as good news: no secret, no
  failed test, no vulnerability, no error rate.  Pytest that ends with errors and no failure
  counts as none failed.  Two scans share one report file.  `argocd.sync` may report the
  'Synced' of before its order, also if the sync fails afterwards; a rollback after that goes
  one revision too far.
- *Texts.*  Bare JSON beside a fence is not read; an unclosed brace swallows the calls after
  it, and a brace inside a string argument loses its call; a tag with malformed arguments
  calls its tool with none.  An output a little longer than 300 characters gets longer when
  it is shortened, and the marks are not counted.
- *Plans.*  `_topo_order` breaks a cycle silently, and raises KeyError in the middle of the
  run for a need that does not exist.
- *Model control.*  A `/start` that looked before a `/load` stops what that loaded.

## 6. What is not modelled

`PROJECT.json` lists every component with its status.  Not modelled are the BFF's
sessions and its run stream (planned, section 7), and, for good, the rendering of the
frontend's pages, the BFF's forwarding routes, the evaluation scripts and the deployment
files apart from the update strategy, the probes and the Vault job.  Inside the modelled
components these are abstracted: the arguments of tool calls (only repetition and safety
matter), the wording of prompts, results, hints and summaries, the redaction of output,
audit rows, notifications, template resolution of parameters, the two providers' wire
formats, slices in conditions, which payloads a webhook accepts, and the effects of the
commands that nothing looks at afterwards.

## 7. Plan

1. *Sessions*, *run stream* and *pages*: refresh tokens of two browsers, single-use
   tickets, a stream over RunLifecycle, whose settled statuses may change, and the
   two pages that offer an answer (`Chat.jsx`, `RunDetail.jsx`) over that stream.
2. Proofs: of runs approved twice, what still holds behind the gate; of
   `flightplan_twice` and `chat_denied`, the weaker statements that are true; of a run of
   Flightplan as one of Service, the refinement that item 3 needs.
3. *Composition*: Service's background runs refined by Flightplan's, over one table of runs.
