------------------------------- MODULE Agents -------------------------------
(***************************************************************************)
(* src/runtime/app/agents: the rule-based agents a run uses when it has no *)
(* model, the tools they call, and the Flightplans that string them        *)
(* together (src/db/seed.sql).                                             *)
(*                                                                         *)
(* A job is one run.  Its agents call their tools in order, keep of every  *)
(* answer the data only (AgentContext.call drops ok and error), and give a *)
(* verdict on what they kept.  Jobs share what is outside: the gitleaks    *)
(* report, the Argo CD application and the redis deployment.  The roles,   *)
(* the approval step, aborts and crashes of a run are in Flightplan.       *)
(***************************************************************************)
EXTENDS Tools, Sequences

CONSTANTS
  Jobs,            \* runs worked on at the same time
  Scenes,          \* the situations a behaviour may start in
  MaxReplicas,     \* incident-response: guardrails.max_replicas
  MaxPolls         \* bound on the polls of _argocd_wait_synced (15 in the code)

ASSUME BoundsAssumption == MaxReplicas \in Nat /\ MaxPolls \in Nat

VARIABLES
  scene,    \* the situation, which no step changes
  faults,   \* calls that may still come back with another exit than "zero", syncs that may fail
  jobs,
  report,   \* /tmp/gitleaks-report.json
  argo,     \* the Argo CD application
  redis     \* replicas of the deployment kubectl.scale defaults to

vars == <<scene, faults, jobs, report, argo, redis>>

---------------------------------------------------------------------------
(* What the tools can find *)

Severities == {"none", "P1", "P2", "P3", "P4"}

\* The data an agent looks at, of all the data the tools return.
Facts == [ secrets: BOOLEAN, tests: {"pass", "fail", "error"}, cves: {"NONE", "HIGH", "CRITICAL"},
           smoke: BOOLEAN, rate: {"low", "high"}, severity: Severities,
           desired: 0..6, ready: 0..6, noisy: BOOLEAN ]

\* What an agent assumes of data that is missing: the defaults of its .get(...).
Missing == [ secrets |-> FALSE, tests |-> "pass", cves |-> "NONE", smoke |-> FALSE, rate |-> "low",
             severity |-> "none", desired |-> 0, ready |-> 0, noisy |-> FALSE ]

Reverts == {"helm.rollback", "argocd.rollback"}

\* The data each tool brings; a rollback brings no data but itself.
Brings(tool) ==
  CASE tool = "secrets.scan"      -> {"secrets"}
    [] tool = "test.run"          -> {"tests"}
    [] tool = "trivy.scan"        -> {"cves"}
    [] tool = "http.smoke_test"   -> {"smoke"}
    [] tool = "prometheus.query"  -> {"rate"}
    [] tool = "alertmanager.read" -> {"severity"}
    [] tool = "kubectl.get"       -> {"desired", "ready"}
    [] tool = "kubectl.logs"      -> {"noisy"}
    [] tool \in Reverts           -> {tool}
    [] OTHER                      -> {}

\* pytest may end with errors and no failure ("3 passed, 1 error"): nothing failed then.
TestsFailed(seen) == seen.tests = "fail"

---------------------------------------------------------------------------
(* Agents: what each calls and what it concludes from what it saw *)

Agent(calls, failed) == [calls |-> calls, failed |-> failed]

CodeReviewAgent(seen) == Agent(<<"git.diff", "secrets.scan", "lint.run">>, seen.secrets)

TestRunnerAgent(seen) == Agent(<<"git.diff", "test.select", "test.run">>, TestsFailed(seen))

BuildAgent == Agent(<<"docker.build", "docker.tag", "registry.push">>, FALSE)

\* policy.block_on, by default and in ship-to-prod: CRITICAL.
SecurityScanAgent(seen) == Agent(<<"registry.pull", "trivy.scan", "iac.scan">>, seen.cves = "CRITICAL")

DeployAgent == Agent(<<"helm.upgrade", "argocd.sync", "kubectl.get">>, FALSE)

\* Mutant of VerifyAgent: the error rate is not looked at.
VerifySmokeOnly(seen) == Agent(<<"http.smoke_test", "prometheus.query">>, ~seen.smoke)

VerifyAgent(seen) == Agent(<<"http.smoke_test", "prometheus.query">>, ~seen.smoke \/ seen.rate = "high")

RollbackAgent == Agent(<<"helm.rollback", "argocd.rollback", "kubectl.get">>, FALSE)

IncidentTriageAgent == Agent(<<"alertmanager.read", "pagerduty.read">>, FALSE)

DiagnoseAgent == Agent(<<"kubectl.logs", "kubectl.get", "prometheus.query", "git.log">>, FALSE)

RemediateAgent(action, allowed) ==
  IF action \notin allowed THEN Agent(<<>>, TRUE)
  ELSE Agent(CASE action = "scale_hpa"        -> <<"kubectl.scale">>
               [] action = "rollback_release" -> <<"helm.rollback">>
               [] OTHER                       -> <<"kubectl.restart">>, FALSE)

TerraformPlanAgent  == Agent(<<"git.diff", "terraform.plan">>, FALSE)
TerraformApplyAgent == Agent(<<"terraform.apply">>, FALSE)
CostAnalyzerAgent   == Agent(<<"cloud.cost_explorer", "kubectl.get", "prometheus.query">>, FALSE)
PostmortemAgent     == Agent(<<"runs.read">>, FALSE)
NotifyAgent         == Agent(<<"slack.post">>, FALSE)

\* _run_simulated for an agent without a module: its declared tools, some of them here.
Fallback == Agent(<<"kubectl.describe", "kubectl.scale", "pagerduty.list", "helm.rollback">>, FALSE)

\* diagnose's recommendation, which incident-response hands to remediate.
Recommend(seen, severity) ==
  IF seen.ready >= seen.desired /\ seen.noisy
  THEN [severity |-> severity, action |-> "scale_hpa", replicas |-> 3 * seen.desired]
  ELSE [severity |-> severity, action |-> "restart_pod", replicas |-> 0]

\* Mutant of Clamp: the requested number is applied.
ClampNothing(target, max) == target

\* The replicas remediate applies.
Clamp(target, max) == IF target > max THEN max ELSE target

---------------------------------------------------------------------------
(* Plans and jobs *)

\* The agent steps of the seeded Flightplans, and agents run alone.
Plan == [ ship      |-> <<"code-review", "test-runner", "build", "security-scan", "deploy", "verify", "rollback">>,
          incident  |-> <<"incident-triage", "diagnose", "remediate", "notify", "postmortem">>,
          sweep     |-> <<"cost-analyzer", "terraform-plan">>,
          apply     |-> <<"terraform-apply">>,
          undo      |-> <<"rollback">>,
          remedy    |-> <<"remediate">>,
          assistant |-> <<"assistant">>,
          idle      |-> <<>> ]

PlanNames == DOMAIN Plan

\* What a job waits for: the next call, or a step inside secrets.scan and argocd.*.
Waits == {"call", "report", "read", "patch", "sync", "poll"}

Given == [severity |-> "none", action |-> "restart_pod", replicas |-> 4]

\* blind: the data that did not come, the rollbacks that failed, and why.  undone: a
\* rollback tool reported success (a stub always does).  carried: Argo CD has carried out
\* the job's deploy.  before, back, claims: revisions of the
\* application before the deploy, picked by the rollback, reported as live.  mine: the
\* job's last order to Argo CD, by number.
NewJob(plan, action) ==
  [ plan |-> plan, at |-> 1, pc |-> 1, wait |-> "call", failed |-> FALSE,
    status |-> IF Plan[plan] = <<>> THEN "success" ELSE "running",
    seen |-> Missing, out |-> [Given EXCEPT !.action = action], blind |-> {},
    shipped |-> FALSE, undone |-> FALSE, carried |-> FALSE,
    polls |-> 0, before |-> 0, back |-> 0, claims |-> 0, mine |-> 0 ]

Actions == {"restart_pod", "scale_hpa", "rollback_release"}

\* 0 is none of them: a target of 0 follows the branch.
Revisions == Nat \ {0}

Scene == [ plans: [Jobs -> PlanNames], facts: Facts, faults: Nat, real: BOOLEAN, creds: SUBSET {"aws", "slack", "pagerduty"},
           unsafe: SUBSET {"tag", "target", "scan_path"}, action: Actions, allowed: SUBSET Actions,
           up: BOOLEAN, head: Revisions, history: Seq(Revisions), status: {"Synced", "OutOfSync"} ]

ASSUME ScenesAssumption == Scenes \subseteq Scene

Ships(j)   == jobs[j].plan = "ship"
Running(j) == jobs[j].status = "running"
Slug(j)    == Plan[jobs[j].plan][jobs[j].at]

\* get_agent_impl
TheAgent(j) ==
  LET job == jobs[j]  seen == job.seen  slug == Slug(j)
  IN CASE slug = "code-review"     -> CodeReviewAgent(seen)
       [] slug = "test-runner"     -> TestRunnerAgent(seen)
       [] slug = "build"           -> BuildAgent
       [] slug = "security-scan"   -> SecurityScanAgent(seen)
       [] slug = "deploy"          -> DeployAgent
       [] slug = "verify"          -> VerifyAgent(seen)
       [] slug = "rollback"        -> RollbackAgent
       [] slug = "incident-triage" -> IncidentTriageAgent
       [] slug = "diagnose"        -> DiagnoseAgent
       [] slug = "remediate"       -> RemediateAgent(job.out.action, IF job.plan = "incident" THEN scene.allowed ELSE {job.out.action})
       [] slug = "terraform-plan"  -> TerraformPlanAgent
       [] slug = "terraform-apply" -> TerraformApplyAgent
       [] slug = "cost-analyzer"   -> CostAnalyzerAgent
       [] slug = "postmortem"      -> PostmortemAgent
       [] slug = "notify"          -> NotifyAgent
       [] OTHER                    -> Fallback

\* The `when` clauses of the seeded plans; only verify fails without ending ship-to-prod.
ShouldRun(j) ==
  LET job == jobs[j]
  IN CASE job.plan = "ship" /\ Slug(j) = "rollback"      -> job.failed
       [] job.plan = "incident" /\ Slug(j) = "remediate" -> job.out.severity \in {"P1", "P2"}
       [] OTHER                                          -> TRUE

\* Mutant of StopsPipeline: code-review is not fail_fast.
StopsOnTestsAndScan(slug) == slug \in {"test-runner", "security-scan"}

\* fail_fast, or a policy with block_on.
StopsPipeline(slug) == slug \in {"code-review", "test-runner", "security-scan"}

\* The parameters the caller chooses: those of a run of one agent, and the commit.
Chosen(j) ==
  CASE jobs[j].plan = "ship"                  -> IF Slug(j) \in {"build", "security-scan"} THEN {"tag"} ELSE {}
    [] jobs[j].plan \in {"incident", "sweep"} -> {}
    [] OTHER                                  -> {"tag", "target", "scan_path"}

InCall(j) ==
  /\ Running(j)
  /\ jobs[j].at <= Len(Plan[jobs[j].plan])
  /\ ShouldRun(j)
  /\ jobs[j].pc <= Len(TheAgent(j).calls)

Tool(j) == TheAgent(j).calls[jobs[j].pc]
Real(j) == IsReal(Tool(j), scene.real)

\* Some tools take more than one step.
Stepwise(j) == Real(j) /\ Tool(j) \in {"secrets.scan", "argocd.sync", "argocd.rollback"}

At(j, wait, tools) == InCall(j) /\ Stepwise(j) /\ jobs[j].wait = wait /\ Tool(j) \in tools

\* The fallback refuses to mutate.
Refused(j) == Slug(j) = "assistant" /\ Tool(j) \in MUTATING_TOOLS

\* A command exits with 0, or with something else within the bound; output nobody reads
\* cannot be wrong.
Exit(j, x) ==
  /\ x \in {"blank", "garbled"} => TheTool(Tool(j)).reads \notin {"nothing", "status"}
  /\ IF x = "zero" THEN UNCHANGED faults ELSE faults > 0 /\ faults' = faults - 1

AnswerOf(j, x) == Outcome(TheTool(Tool(j)), x, scene.unsafe \cap Chosen(j), scene.creds)

Keep(seen, names) == [f \in DOMAIN seen |-> IF f \in names THEN scene.facts[f] ELSE seen[f]]

\* AgentContext.call: what a job makes of the answer to its call.
Return(job, tool, answer) ==
  CASE answer = "raise" -> [job EXCEPT !.status = "failed", !.wait = "call", !.blind = @ \cup {"raised"}]
    [] answer = "ok"    -> [job EXCEPT !.pc = @ + 1, !.wait = "call", !.seen = Keep(@, Brings(tool)),
                                       !.undone = @ \/ tool \in Reverts]
    [] OTHER            -> [job EXCEPT !.pc = @ + 1, !.wait = "call", !.blind = @ \cup Brings(tool)]

Answers(j, answer) == jobs' = [jobs EXCEPT ![j] = Return(@, Tool(j), answer)]

\* What is live is what was synced last.
Latest(history) == IF history = <<>> THEN 0 ELSE history[Len(history)]

Init ==
  /\ scene \in Scenes
  /\ faults = scene.faults
  /\ jobs = [j \in Jobs |-> NewJob(scene.plans[j], scene.action)]
  /\ report = "none"
  /\ argo = [target |-> 0, head |-> scene.head, live |-> Latest(scene.history), history |-> scene.history,
             status |-> scene.status, op |-> {}, orders |-> 0, failed |-> 0]
  /\ redis = 1

---------------------------------------------------------------------------
(* Calls of one step *)

\* The effect of a command that was killed may or may not have taken place.
Effect(x, done, undone) == IF x = "zero" THEN {done} ELSE IF x = "timeout" THEN {done, undone} ELSE {undone}

Replicas(j) == IF jobs[j].plan = "incident" THEN Clamp(jobs[j].out.replicas, MaxReplicas) ELSE jobs[j].out.replicas

CallTool(j) ==
  /\ InCall(j) /\ Real(j) /\ ~Stepwise(j) /\ ~Refused(j)
  /\ \E x \in Exits :
       /\ Exit(j, x)
       /\ jobs' = [jobs EXCEPT ![j] = [Return(jobs[j], Tool(j), AnswerOf(j, x))
                                       EXCEPT !.shipped = @ \/ Tool(j) = "helm.upgrade"]]
       /\ redis' \in IF Tool(j) = "kubectl.scale" /\ "target" \notin scene.unsafe \cap Chosen(j)
                     THEN Effect(x, Replicas(j), redis) ELSE {redis}
  /\ UNCHANGED <<scene, report, argo>>

\* SimulatedTool.run: always ok, the same data for the same input, nothing happens.
CallStub(j) ==
  /\ InCall(j) /\ ~Real(j) /\ ~Refused(j)
  /\ jobs' = [jobs EXCEPT ![j] = [Return(jobs[j], Tool(j), "ok") EXCEPT !.shipped = @ \/ Tool(j) = "helm.upgrade"]]
  /\ UNCHANGED <<scene, faults, report, argo, redis>>

Refuse(j) ==
  /\ InCall(j) /\ Refused(j)
  /\ Answers(j, "error")
  /\ UNCHANGED <<scene, faults, report, argo, redis>>

---------------------------------------------------------------------------
(* secrets.scan *)

\* gitleaks truncates the report that all runs share, then writes it.
Scan(j) ==
  /\ At(j, "call", {"secrets.scan"})
  /\ \E x \in Exits :
       /\ Exit(j, x)
       /\ IF x = "zero" THEN report' = "empty" /\ jobs' = [jobs EXCEPT ![j].wait = "report"]
                        ELSE report' \in {report, "empty"} /\ Answers(j, AnswerOf(j, x))
  /\ UNCHANGED <<scene, argo, redis>>

WriteReport(j) ==
  /\ At(j, "report", {"secrets.scan"})
  /\ report' = "full"
  /\ jobs' = [jobs EXCEPT ![j].wait = "read"]
  /\ UNCHANGED <<scene, faults, argo, redis>>

\* The report is read after gitleaks has exited; an empty one has no findings.
ReadReport(j) ==
  /\ At(j, "read", {"secrets.scan"})
  /\ IF report = "full" THEN Answers(j, "ok")
     ELSE jobs' = [jobs EXCEPT ![j] = [jobs[j] EXCEPT !.pc = @ + 1, !.wait = "call", !.blind = @ \cup {"overlap"}]]
  /\ UNCHANGED <<scene, faults, report, argo, redis>>

---------------------------------------------------------------------------
(* argocd.sync and argocd.rollback *)

Wanted == IF argo.target = 0 THEN argo.head ELSE argo.target

\* Mutant of Previous: the oldest revision.
Oldest(history) == history[1]

\* history[-2]: the revision before the last one that was synced.
Previous(history) == history[Len(history) - 1]

ReadHistory(j) ==
  /\ At(j, "call", {"argocd.rollback"})
  /\ \E x \in Exits :
       /\ Exit(j, x)
       /\ IF x = "zero" /\ Len(argo.history) >= 2
          THEN jobs' = [jobs EXCEPT ![j].wait = "patch", ![j].back = Previous(argo.history)]
          ELSE Answers(j, IF x = "zero" THEN "error" ELSE AnswerOf(j, x))
  /\ UNCHANGED <<scene, report, argo, redis>>

\* kubectl patch of spec.source.targetRevision
PatchTarget(j) ==
  /\ At(j, "patch", {"argocd.rollback"})
  /\ \E x \in {"zero", "one", "timeout"} :
       /\ Exit(j, x)
       /\ argo' \in Effect(x, [argo EXCEPT !.target = jobs[j].back, !.orders = @ + 1], argo)
       /\ IF x = "zero" THEN jobs' = [jobs EXCEPT ![j].wait = "sync", ![j].mine = argo.orders + 1, ![j].claims = 0]
                        ELSE Answers(j, "error")
  /\ UNCHANGED <<scene, report, redis>>

\* Mutant of OrderSync: the rollback waits without ordering the sync.
OrderSyncOnly(j) ==
  /\ At(j, "call", {"argocd.sync"}) \/ At(j, "sync", {"argocd.rollback"})
  /\ faults' = faults
  /\ argo' = IF Tool(j) = "argocd.rollback" THEN argo ELSE [argo EXCEPT !.op = {j}, !.orders = @ + 1]
  /\ jobs' = [jobs EXCEPT ![j] = [@ EXCEPT !.wait = "poll", !.polls = 0, !.mine = argo'.orders]]
  /\ UNCHANGED <<scene, report, redis>>

\* kubectl patch of operation.sync; a later order replaces one that has not started.
OrderSync(j) ==
  /\ At(j, "call", {"argocd.sync"}) \/ At(j, "sync", {"argocd.rollback"})
  /\ \E x \in {"zero", "one", "timeout"} :
       /\ Exit(j, x)
       /\ argo' \in Effect(x, [argo EXCEPT !.op = {j}, !.orders = @ + 1], argo)
       /\ LET deploys == Tool(j) = "argocd.sync"
              job == [jobs[j] EXCEPT !.before = IF deploys THEN argo.live ELSE @]
          IN jobs' = [jobs EXCEPT ![j] =
               IF x # "zero" THEN Return(job, Tool(j), "error")
               ELSE [job EXCEPT !.wait = "poll", !.polls = 0,
                                !.mine = IF deploys \/ @ = argo.orders THEN argo.orders + 1 ELSE 0]]
  /\ UNCHANGED <<scene, report, redis>>

\* Mutant of Poll: one poll past the deadline.
PollOnceMore(j) ==
  /\ At(j, "poll", {"argocd.sync", "argocd.rollback"})
  /\ jobs' = [jobs EXCEPT ![j] =
       IF argo.status = "Synced" THEN Return(@, Tool(j), "ok")
       ELSE IF @.polls <= MaxPolls THEN [jobs[j] EXCEPT !.polls = @ + 1] ELSE Return(@, Tool(j), "error")]
  /\ UNCHANGED <<scene, faults, report, argo, redis>>

\* _argocd_wait_synced: a status from before the order counts; the deadline ends the wait.
Poll(j) ==
  /\ At(j, "poll", {"argocd.sync", "argocd.rollback"})
  /\ jobs' = [jobs EXCEPT ![j] =
       IF argo.status = "Synced"
       THEN [Return(@, Tool(j), "ok") EXCEPT !.claims = IF Tool(j) = "argocd.sync" THEN Wanted ELSE jobs[j].back]
       ELSE IF @.polls < MaxPolls THEN [jobs[j] EXCEPT !.polls = @ + 1] ELSE Return(@, Tool(j), "error")]
  /\ UNCHANGED <<scene, faults, report, argo, redis>>

\* External: Argo CD carries out the order and records what it synced.
ArgoSyncs ==
  /\ scene.up /\ argo.op # {}
  /\ argo' = [argo EXCEPT !.op = {}, !.live = Wanted, !.history = Append(@, Wanted), !.status = "Synced"]
  /\ jobs' = [j \in Jobs |-> IF j \in argo.op THEN [jobs[j] EXCEPT !.carried = @ \/ jobs[j].back = 0] ELSE jobs[j]]
  /\ UNCHANGED <<scene, faults, report, redis>>

\* External: or the sync fails.  The order is spent, and what was live stays live.
ArgoSyncFails ==
  /\ scene.up /\ argo.op # {}
  /\ faults > 0 /\ faults' = faults - 1
  /\ argo' = [argo EXCEPT !.op = {}, !.failed = argo.orders]
  /\ UNCHANGED <<scene, jobs, report, redis>>

\* External: Argo CD compares what is live with what is wanted, some time after a change.
ArgoRefreshes ==
  /\ scene.up
  /\ argo' = [argo EXCEPT !.status = IF argo.live = Wanted THEN "Synced" ELSE "OutOfSync"]
  /\ argo' # argo
  /\ UNCHANGED <<scene, faults, jobs, report, redis>>

---------------------------------------------------------------------------
(* The steps of a plan *)

\* The agent has made its calls: its verdict, and whether the plan goes on.
Conclude(j) ==
  /\ Running(j) /\ jobs[j].at <= Len(Plan[jobs[j].plan]) /\ ShouldRun(j)
  /\ jobs[j].pc > Len(TheAgent(j).calls)
  /\ LET job == jobs[j]  failed == TheAgent(j).failed
     IN jobs' = [jobs EXCEPT ![j] =
          [job EXCEPT !.failed = @ \/ failed,
                      !.out = CASE Slug(j) = "incident-triage" -> [@ EXCEPT !.severity = job.seen.severity]
                                [] Slug(j) = "diagnose"        -> Recommend(job.seen, job.out.severity)
                                [] OTHER                       -> @,
                      !.status = IF failed /\ StopsPipeline(Slug(j)) THEN "failed" ELSE @,
                      !.at = @ + 1, !.pc = 1, !.seen = Missing]]
  /\ UNCHANGED <<scene, faults, report, argo, redis>>

Skip(j) ==
  /\ Running(j) /\ jobs[j].at <= Len(Plan[jobs[j].plan]) /\ ~ShouldRun(j)
  /\ jobs' = [jobs EXCEPT ![j].at = @ + 1]
  /\ UNCHANGED <<scene, faults, report, argo, redis>>

Finish(j) ==
  /\ Running(j) /\ jobs[j].at > Len(Plan[jobs[j].plan])
  /\ jobs' = [jobs EXCEPT ![j].status = IF jobs[j].failed THEN "failed" ELSE "success"]
  /\ UNCHANGED <<scene, faults, report, argo, redis>>

JobStep(j) ==
  \/ CallTool(j) \/ CallStub(j) \/ Refuse(j)
  \/ Scan(j) \/ WriteReport(j) \/ ReadReport(j)
  \/ ReadHistory(j) \/ PatchTarget(j) \/ OrderSync(j) \/ Poll(j)
  \/ Conclude(j) \/ Skip(j) \/ Finish(j)

Next == (\E j \in Jobs : JobStep(j)) \/ ArgoSyncs \/ ArgoSyncFails \/ ArgoRefreshes

Spec == Init /\ [][Next]_vars

\* Every await of a job has a timeout; Argo CD works off its orders while it is up: each is
\* carried out or fails.
FairSpec == Spec /\ (\A j \in Jobs : WF_vars(JobStep(j))) /\ WF_vars(ArgoSyncs \/ ArgoSyncFails)

---------------------------------------------------------------------------
(* Properties *)

Job == [ plan: PlanNames, at: 1..8, pc: 1..5, wait: Waits, status: {"running", "success", "failed"}, failed: BOOLEAN,
         seen: Facts, out: [severity: Severities, action: Actions, replicas: 0..18],
         blind: SUBSET (DOMAIN Missing \cup Reverts \cup {"overlap", "raised"}),
         shipped: BOOLEAN, undone: BOOLEAN, carried: BOOLEAN,
         polls: 0..MaxPolls, before: Nat, back: Nat, claims: Nat, mine: Nat ]

TypeOK ==
  /\ scene \in Scenes /\ faults \in 0..scene.faults /\ redis \in 0..18
  /\ jobs \in [Jobs -> Job]
  /\ report \in {"none", "empty", "full"}
  /\ argo \in [target: Nat, head: Revisions, live: Nat, history: Seq(Revisions), status: {"Synced", "OutOfSync"},
               op: SUBSET Jobs, orders: Nat, failed: Nat]

\* Nothing that review, test or scan looks for is shipped, unless the very call that looks
\* for it came back without data or, for a secret, the report was read while the scan of
\* another run was rewriting it (agents/*.py, the gates of ship-to-prod).
DeployIsEarned ==
  \A j \in Jobs : Ships(j) =>
    /\ jobs[j].shipped =>
         /\ scene.facts.secrets => {"secrets", "overlap"} \cap jobs[j].blind # {}
         /\ TestsFailed(scene.facts) => "tests" \in jobs[j].blind
         /\ scene.facts.cves = "CRITICAL" => "cves" \in jobs[j].blind
    /\ "overlap" \in jobs[j].blind => \E k \in Jobs \ {j} : Ships(k)

\* A release that verify could see to be bad does not stay without a rollback: by the end
\* of the run a rollback tool has reported success, unless both were called and failed, or
\* the run ended by an exception, or the metrics did not come.  (A failed call makes no
\* difference to what the rollback agent reports: rollback.py:18.)
BadReleaseIsRolledBack ==
  \A j \in Jobs : Ships(j) /\ ~Running(j) /\ jobs[j].shipped =>
    \/ scene.facts.smoke /\ scene.facts.rate = "low"
    \/ jobs[j].undone
    \/ Reverts \subseteq jobs[j].blind
    \/ "raised" \in jobs[j].blind
    \/ scene.facts.smoke /\ "rate" \in jobs[j].blind

\* incident-response scales within its guardrails, only in a P1 or P2 incident, and to
\* nothing only if none are wanted or diagnose did not get to see how many are
\* (remediate.py, diagnose.py).
GuardrailsHold ==
  (\A j \in Jobs : jobs[j].plan \in {"incident", "idle"}) =>
    /\ redis <= MaxReplicas
    /\ redis = 0 => scene.facts.desired = 0 \/ \E j \in Jobs : "desired" \in jobs[j].blind
    /\ redis # 1 => "scale_hpa" \in scene.allowed /\ scene.facts.severity \in {"P1", "P2"}

Alone(j) == \A k \in Jobs \ {j} : Plan[jobs[k].plan] = <<>>

\* The rollback of a run that is alone picks the revision that was live before the deploy,
\* provided Argo CD had carried the deploy out by then: a run that was told "Synced" too
\* early would go back one revision too far (RealArgocdRollback, history[-2]).
RollbackRestores ==
  \A j \in Jobs : Ships(j) /\ Alone(j) /\ jobs[j].carried /\ jobs[j].wait = "sync" => jobs[j].back = jobs[j].before

\* What a tool reported as synced becomes live, although the status it saw may be from
\* before its order: unless Argo CD is down, a later order replaced this one, or this very
\* sync failed after the report (_argocd_wait_synced looks at the status, not the operation).
ClaimsComeTrue ==
  scene.up => []<>(\A j \in Jobs : \/ jobs[j].claims \in {0, argo.live}
                                    \/ jobs[j].mine # argo.orders
                                    \/ jobs[j].mine = argo.failed)

\* flightplans/ship-to-prod.yaml:21: "fail_fast: true # stop the whole plan if tests fail".
FailedTestsStop == \A j \in Jobs : Ships(j) /\ TestsFailed(scene.facts) => ~jobs[j].shipped
=============================================================================
