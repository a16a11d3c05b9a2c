---------------------------- MODULE AgentsProofs ----------------------------
(***************************************************************************)
(* Theorems about Agents, for any number of jobs, faults and situations:   *)
(* what the gates of ship-to-prod look for is not shipped unless the call  *)
(* that looks came back without data; a release that verify could see to   *)
(* be bad does not stay without a rollback unless both rollback calls      *)
(* failed, and the rollback of a run that is alone goes back to what was   *)
(* live before it; incident-response keeps to its guardrails.              *)
(***************************************************************************)
EXTENDS Agents, TLAPS

---------------------------------------------------------------------------
(* The inductive invariant.                                                 *)

Fields == DOMAIN NewJob("ship", "restart_pod")

\* The part of a job's type the arguments below need.
IsJob(job) ==
  /\ DOMAIN job = Fields
  /\ job.plan \in PlanNames
  /\ job.at \in Nat \ {0} /\ job.pc \in Nat \ {0}
  /\ job.seen \in Facts
  /\ job.failed \in BOOLEAN /\ job.undone \in BOOLEAN /\ job.shipped \in BOOLEAN

Typed ==
  /\ scene \in Scene
  /\ DOMAIN jobs = Jobs /\ jobs = [j \in Jobs |-> jobs[j]]
  /\ \A j \in Jobs : IsJob(jobs[j])

OtherShips(j) == \E k \in Jobs \ {j} : Ships(k)

\* Only the scan of another ship-to-prod run empties the report between gitleaks' exit and
\* the read.
ReportInv == \A j \in Jobs : jobs[j].wait = "read" /\ report # "full" => OtherShips(j)

OverlapInv == \A j \in Jobs : "overlap" \in jobs[j].blind => OtherShips(j)

\* What each gate has established once it is behind the job.
Reviewed(job) == scene.facts.secrets => {"secrets", "overlap"} \cap job.blind # {}
Tested(job)   == TestsFailed(scene.facts) => "tests" \in job.blind
Scanned(job)  == scene.facts.cves = "CRITICAL" => "cves" \in job.blind
Verified(job) == scene.facts.smoke /\ (scene.facts.rate = "low" \/ "rate" \in job.blind)

\* A rollback tool reported success, or both failed.
Handled(job)  == job.undone \/ Reverts \subseteq job.blind

\* A gate whose call has been made has seen the trouble, unless its data did not come.
LooksInv(job) ==
  /\ job.seen.smoke => scene.facts.smoke
  /\ job.at = 1 /\ job.pc > 2 => job.seen.secrets \/ Reviewed(job)
  /\ job.at = 2 /\ job.pc > 3 => TestsFailed(job.seen) \/ Tested(job)
  /\ job.at = 4 /\ job.pc > 2 => job.seen.cves = "CRITICAL" \/ Scanned(job)
  /\ job.at = 6 /\ job.pc > 2 => job.seen.rate = "high" \/ scene.facts.rate = "low" \/ "rate" \in job.blind
  /\ job.at = 7 /\ job.pc > 1 => job.undone \/ "helm.rollback" \in job.blind
  /\ job.at = 7 /\ job.pc > 2 => job.undone \/ "argocd.rollback" \in job.blind

\* A job that goes on has passed the gates behind it.
PassedInv(job) ==
  /\ job.at > 1 => Reviewed(job)
  /\ job.at > 2 => Tested(job)
  /\ job.at > 4 => Scanned(job)
  /\ job.at > 6 => job.failed \/ Verified(job)
  /\ job.at > 7 => ~job.failed \/ Handled(job)

\* What stays true of a job that has shipped, however it ended.
ShippedInv(job) ==
  /\ job.at > 4 /\ Reviewed(job) /\ Tested(job) /\ Scanned(job)
  /\ job.status # "running" => Verified(job) \/ Handled(job) \/ "raised" \in job.blind

ShipInv(job) ==
  /\ job.status = "running" => LooksInv(job) /\ PassedInv(job)
  /\ job.shipped => ShippedInv(job)

GatesInv ==
  Typed /\ ReportInv /\ OverlapInv /\ \A j \in Jobs : Ships(j) => ShipInv(jobs[j])

---------------------------------------------------------------------------
(* What a step does to the fields of a job the invariant speaks of.          *)

LEMMA FieldNames ==
  Fields = {"plan", "at", "pc", "wait", "failed", "status", "seen", "out", "blind", "shipped",
            "undone", "carried", "polls", "before", "back", "claims", "mine"}
BY DEF Fields, NewJob

\* Nothing of interest, apart from where the job waits.
Waiting(job, new) ==
  /\ IsJob(new) /\ new.plan = job.plan /\ new.at = job.at /\ new.pc = job.pc /\ new.seen = job.seen
  /\ new.blind = job.blind /\ new.failed = job.failed /\ new.undone = job.undone
  /\ new.status = job.status /\ new.shipped = job.shipped

\* The outcome of a call: it raised, brought its data, or brought none.
Answered(job, new, tool) ==
  /\ IsJob(new) /\ new.plan = job.plan /\ new.at = job.at
  /\ new.failed = job.failed /\ new.wait = "call"
  /\ job.shipped => new.shipped
  /\ new.shipped => job.shipped \/ tool = "helm.upgrade"
  /\ \/ /\ new.status = "failed" /\ new.pc = job.pc /\ new.seen = job.seen
        /\ new.blind = job.blind \cup {"raised"} /\ new.undone = job.undone
     \/ /\ new.status = job.status /\ new.pc = job.pc + 1 /\ new.seen = Keep(job.seen, Brings(tool))
        /\ new.blind = job.blind /\ new.undone = (job.undone \/ tool \in Reverts)
     \/ /\ new.status = job.status /\ new.pc = job.pc + 1 /\ new.seen = job.seen
        /\ new.blind = job.blind \cup Brings(tool) /\ new.undone = job.undone

LEMMA KeepType ==
  ASSUME Typed, NEW seen \in Facts, NEW names
  PROVE  /\ Keep(seen, names) \in Facts
         /\ \A f \in {"secrets", "tests", "cves", "smoke", "rate"} :
              Keep(seen, names)[f] = IF f \in names THEN scene.facts[f] ELSE seen[f]
<1>1. scene.facts \in Facts
  BY DEF Typed, Scene
<1> QED BY <1>1 DEF Keep, Facts

LEMMA ReturnType ==
  ASSUME Typed, NEW job, IsJob(job), NEW tool, NEW answer
  PROVE  Answered(job, Return(job, tool, answer), tool) /\ DOMAIN Return(job, tool, answer) = Fields
<1> DEFINE kept == Keep(job.seen, Brings(tool))
<1>1. kept \in Facts
  BY KeepType DEF IsJob
<1>2. CASE answer = "raise"
  BY <1>2, FieldNames DEF Return, Answered, IsJob
<1>3. CASE answer = "ok"
  <2>1. Return(job, tool, answer) = [job EXCEPT !.pc = job.pc + 1, !.wait = "call", !.seen = kept,
                                                    !.undone = @ \/ tool \in Reverts]
    BY <1>3 DEF Return
  <2> HIDE DEF kept
  <2>2. DOMAIN Return(job, tool, answer) = Fields
    BY <2>1, FieldNames DEF IsJob
  <2>3. Return(job, tool, answer).seen = kept
    BY <2>1, FieldNames DEF IsJob
  <2>4. IsJob(Return(job, tool, answer))
    BY <1>1, <2>1, <2>2, <2>3, FieldNames DEF IsJob
  <2>5. /\ Return(job, tool, answer).pc = job.pc + 1 /\ Return(job, tool, answer).wait = "call"
        /\ Return(job, tool, answer).undone = (job.undone \/ tool \in Reverts)
        /\ \A f \in Fields \ {"pc", "wait", "seen", "undone"} : Return(job, tool, answer)[f] = job[f]
    BY <2>1, FieldNames DEF IsJob
  <2> QED BY <2>2, <2>3, <2>4, <2>5, FieldNames DEF Answered, kept
<1>4. CASE answer \notin {"raise", "ok"}
  BY <1>4, FieldNames DEF Return, Answered, IsJob
<1> QED BY <1>2, <1>3, <1>4 DEF Answered, IsJob

---------------------------------------------------------------------------
(* The agents of ship-to-prod, and who scans for secrets.                    *)

LEMMA ShipAgents ==
  ASSUME NEW j \in Jobs, Ships(j), jobs[j].at \in Nat \ {0}
  PROVE  /\ jobs[j].at = 1 => Slug(j) = "code-review" /\ TheAgent(j) = CodeReviewAgent(jobs[j].seen)
         /\ jobs[j].at = 2 => Slug(j) = "test-runner" /\ TheAgent(j) = TestRunnerAgent(jobs[j].seen)
         /\ jobs[j].at = 3 => Slug(j) = "build" /\ TheAgent(j) = BuildAgent
         /\ jobs[j].at = 4 => Slug(j) = "security-scan" /\ TheAgent(j) = SecurityScanAgent(jobs[j].seen)
         /\ jobs[j].at = 5 => Slug(j) = "deploy" /\ TheAgent(j) = DeployAgent
         /\ jobs[j].at = 6 => Slug(j) = "verify" /\ TheAgent(j) = VerifyAgent(jobs[j].seen)
         /\ jobs[j].at = 7 => Slug(j) = "rollback" /\ TheAgent(j) = RollbackAgent
         /\ Len(Plan[jobs[j].plan]) = 7
<1>1. Plan[jobs[j].plan] = <<"code-review", "test-runner", "build", "security-scan", "deploy", "verify", "rollback">>
  BY DEF Ships, Plan
<1>2. CASE jobs[j].at = 1
  BY <1>1, <1>2 DEF Slug, TheAgent
<1>3. CASE jobs[j].at = 2
  BY <1>1, <1>3 DEF Slug, TheAgent
<1>4. CASE jobs[j].at = 3
  BY <1>1, <1>4 DEF Slug, TheAgent
<1>5. CASE jobs[j].at = 4
  BY <1>1, <1>5 DEF Slug, TheAgent
<1>6. CASE jobs[j].at = 5
  BY <1>1, <1>6 DEF Slug, TheAgent
<1>7. CASE jobs[j].at = 6
  BY <1>1, <1>7 DEF Slug, TheAgent
<1>8. CASE jobs[j].at = 7
  BY <1>1, <1>8 DEF Slug, TheAgent
<1>9. CASE jobs[j].at \notin 1..7
  BY <1>1, <1>9
<1> QED BY <1>2, <1>3, <1>4, <1>5, <1>6, <1>7, <1>8, <1>9

\* A sequence of three calls.
LEMMA ThreeCalls ==
  ASSUME NEW j \in Jobs, IsJob(jobs[j]), InCall(j), NEW c1, NEW c2, NEW c3, TheAgent(j).calls = <<c1, c2, c3>>
  PROVE  /\ jobs[j].pc \in 1..3
         /\ jobs[j].pc = 1 => Tool(j) = c1
         /\ jobs[j].pc = 2 => Tool(j) = c2
         /\ jobs[j].pc = 3 => Tool(j) = c3
<1>1. jobs[j].pc \in Nat /\ jobs[j].pc >= 1 /\ jobs[j].pc <= 3
  BY DEF InCall, IsJob
<1>2. Tool(j) = TheAgent(j).calls[jobs[j].pc]
  BY DEF Tool
<1> HIDE DEF Tool, TheAgent
<1> QED BY <1>1, <1>2

LEMMA TwoCalls ==
  ASSUME NEW j \in Jobs, IsJob(jobs[j]), InCall(j), NEW c1, NEW c2, TheAgent(j).calls = <<c1, c2>>
  PROVE  /\ jobs[j].pc \in 1..2
         /\ jobs[j].pc = 1 => Tool(j) = c1
         /\ jobs[j].pc = 2 => Tool(j) = c2
<1>1. jobs[j].pc \in Nat /\ jobs[j].pc >= 1 /\ jobs[j].pc <= 2
  BY DEF InCall, IsJob
<1>2. Tool(j) = TheAgent(j).calls[jobs[j].pc]
  BY DEF Tool
<1> HIDE DEF Tool, TheAgent
<1> QED BY <1>1, <1>2

\* The calls the gates, the deploy and the verification rest on.
LEMMA ShipCalls ==
  ASSUME NEW j \in Jobs, Ships(j), IsJob(jobs[j]), InCall(j)
  PROVE  /\ jobs[j].at \in 1..7
         /\ jobs[j].at = 1 /\ jobs[j].pc = 2 => Tool(j) = "secrets.scan"
         /\ jobs[j].at = 2 /\ jobs[j].pc = 3 => Tool(j) = "test.run"
         /\ jobs[j].at = 4 /\ jobs[j].pc = 2 => Tool(j) = "trivy.scan"
         /\ jobs[j].at = 6 /\ jobs[j].pc = 2 => Tool(j) = "prometheus.query"
         /\ jobs[j].at = 7 /\ jobs[j].pc = 1 => Tool(j) = "helm.rollback"
         /\ jobs[j].at = 7 /\ jobs[j].pc = 2 => Tool(j) = "argocd.rollback"
         /\ Tool(j) = "helm.upgrade" => jobs[j].at = 5
<1>1. jobs[j].at \in 1..7
  <2>1. jobs[j].at \in Nat \ {0} /\ jobs[j].at <= Len(Plan[jobs[j].plan])
    BY DEF InCall, IsJob
  <2>2. Len(Plan[jobs[j].plan]) = 7
    BY <2>1, ShipAgents
  <2> QED BY <2>1, <2>2
<1> DEFINE calls == TheAgent(j).calls
<1>2. CASE jobs[j].at = 1
  <2>1. calls = <<"git.diff", "secrets.scan", "lint.run">>
    BY <1>2, ShipAgents DEF CodeReviewAgent, Agent
  <2> QED BY <1>2, <2>1, ThreeCalls
<1>3. CASE jobs[j].at = 2
  <2>1. calls = <<"git.diff", "test.select", "test.run">>
    BY <1>3, ShipAgents DEF TestRunnerAgent, Agent
  <2> QED BY <1>3, <2>1, ThreeCalls
<1>4. CASE jobs[j].at = 3
  <2>1. calls = <<"docker.build", "docker.tag", "registry.push">>
    BY <1>4, ShipAgents DEF BuildAgent, Agent
  <2> QED BY <1>4, <2>1, ThreeCalls
<1>5. CASE jobs[j].at = 4
  <2>1. calls = <<"registry.pull", "trivy.scan", "iac.scan">>
    BY <1>5, ShipAgents DEF SecurityScanAgent, Agent
  <2> QED BY <1>5, <2>1, ThreeCalls
<1>6. CASE jobs[j].at = 5
  BY <1>6
<1>7. CASE jobs[j].at = 6
  <2>1. calls = <<"http.smoke_test", "prometheus.query">>
    BY <1>7, ShipAgents DEF VerifyAgent, Agent
  <2> QED BY <1>7, <2>1, TwoCalls
<1>8. CASE jobs[j].at = 7
  <2>1. calls = <<"helm.rollback", "argocd.rollback", "kubectl.get">>
    BY <1>8, ShipAgents DEF RollbackAgent, Agent
  <2> QED BY <1>8, <2>1, ThreeCalls
<1> QED BY <1>1, <1>2, <1>3, <1>4, <1>5, <1>6, <1>7, <1>8

\* No other plan has a code-review step.
LEMMA OnlyShipsReview ==
  ASSUME NEW j \in Jobs, IsJob(jobs[j]), jobs[j].at <= Len(Plan[jobs[j].plan]), Slug(j) = "code-review"
  PROVE  Ships(j)
<1> USE DEF IsJob, Slug, PlanNames
<1>1. CASE jobs[j].plan = "incident"
  BY <1>1 DEF Plan
<1>2. CASE jobs[j].plan = "sweep"
  BY <1>2 DEF Plan
<1>3. CASE jobs[j].plan \in {"apply", "undo", "remedy", "assistant", "idle"}
  BY <1>3 DEF Plan
<1>4. DOMAIN Plan = {"ship", "incident", "sweep", "apply", "undo", "remedy", "assistant", "idle"}
  BY DEF Plan
<1> QED BY <1>1, <1>2, <1>3, <1>4 DEF Ships

\* No other agent scans for secrets.
LEMMA ScansAreReviews ==
  ASSUME NEW j \in Jobs, IsJob(jobs[j]), InCall(j), Tool(j) = "secrets.scan"
  PROVE  Slug(j) = "code-review"
<1> SUFFICES ASSUME Slug(j) # "code-review" PROVE FALSE
  OBVIOUS
<1> USE DEF Agent
<1>1. CASE Slug(j) = "test-runner"
  <2>1. TheAgent(j).calls = <<"git.diff", "test.select", "test.run">>
    BY <1>1 DEF TheAgent, TestRunnerAgent, Agent
  <2> QED BY <2>1, ThreeCalls
<1>2. CASE Slug(j) = "build"
  <2>1. TheAgent(j).calls = <<"docker.build", "docker.tag", "registry.push">>
    BY <1>2 DEF TheAgent, BuildAgent, Agent
  <2> QED BY <2>1, ThreeCalls
<1>3. CASE Slug(j) = "security-scan"
  <2>1. TheAgent(j).calls = <<"registry.pull", "trivy.scan", "iac.scan">>
    BY <1>3 DEF TheAgent, SecurityScanAgent, Agent
  <2> QED BY <2>1, ThreeCalls
<1>4. CASE Slug(j) = "deploy"
  <2>1. TheAgent(j).calls = <<"helm.upgrade", "argocd.sync", "kubectl.get">>
    BY <1>4 DEF TheAgent, DeployAgent
  <2> QED BY <2>1, ThreeCalls
<1>5. CASE Slug(j) = "verify"
  <2>1. TheAgent(j).calls = <<"http.smoke_test", "prometheus.query">>
    BY <1>5 DEF TheAgent, VerifyAgent
  <2> QED BY <2>1, TwoCalls
<1>6. CASE Slug(j) = "rollback"
  <2>1. TheAgent(j).calls = <<"helm.rollback", "argocd.rollback", "kubectl.get">>
    BY <1>6 DEF TheAgent, RollbackAgent
  <2> QED BY <2>1, ThreeCalls
<1>7. CASE Slug(j) = "incident-triage"
  <2>1. TheAgent(j).calls = <<"alertmanager.read", "pagerduty.read">>
    BY <1>7 DEF TheAgent, IncidentTriageAgent
  <2> QED BY <2>1, TwoCalls
<1>8. CASE Slug(j) = "diagnose"
  BY <1>8 DEF TheAgent, DiagnoseAgent, InCall, Tool, IsJob
<1>9. CASE Slug(j) = "remediate"
  BY <1>9 DEF TheAgent, RemediateAgent, InCall, Tool, IsJob
<1>10. CASE Slug(j) = "terraform-plan"
  <2>1. TheAgent(j).calls = <<"git.diff", "terraform.plan">>
    BY <1>10 DEF TheAgent, TerraformPlanAgent
  <2> QED BY <2>1, TwoCalls
<1>11. CASE Slug(j) = "terraform-apply"
  BY <1>11 DEF TheAgent, TerraformApplyAgent, InCall, Tool, IsJob
<1>12. CASE Slug(j) = "cost-analyzer"
  <2>1. TheAgent(j).calls = <<"cloud.cost_explorer", "kubectl.get", "prometheus.query">>
    BY <1>12 DEF TheAgent, CostAnalyzerAgent
  <2> QED BY <2>1, ThreeCalls
<1>13. CASE Slug(j) = "postmortem"
  BY <1>13 DEF TheAgent, PostmortemAgent, InCall, Tool, IsJob
<1>14. CASE Slug(j) = "notify"
  BY <1>14 DEF TheAgent, NotifyAgent, InCall, Tool, IsJob
<1>15. CASE Slug(j) \notin {"test-runner", "build", "security-scan", "deploy", "verify", "rollback",
                            "incident-triage", "diagnose", "remediate", "terraform-plan", "terraform-apply",
                            "cost-analyzer", "postmortem", "notify"}
  BY <1>15 DEF TheAgent, Fallback, InCall, Tool, IsJob
<1> QED BY <1>1, <1>2, <1>3, <1>4, <1>5, <1>6, <1>7, <1>8, <1>9, <1>10, <1>11, <1>12, <1>13, <1>14, <1>15

LEMMA OnlyShipsScan ==
  ASSUME NEW j \in Jobs, IsJob(jobs[j]), InCall(j), Tool(j) = "secrets.scan"
  PROVE  Ships(j)
BY OnlyShipsReview, ScansAreReviews DEF InCall

---------------------------------------------------------------------------
(* The calls of a job.                                                       *)

Others(j) == \A k \in Jobs \ {j} : jobs'[k] = jobs[k]

JobsShape == DOMAIN jobs = Jobs /\ jobs = [k \in Jobs |-> jobs[k]]

\* The report was read while the scan of another run was rewriting it.
Overlapped(job, new) ==
  /\ IsJob(new) /\ new.plan = job.plan /\ new.at = job.at /\ new.pc = job.pc + 1 /\ new.seen = job.seen
  /\ new.failed = job.failed /\ new.undone = job.undone /\ new.status = job.status
  /\ new.shipped = job.shipped /\ new.wait = "call" /\ new.blind = job.blind \cup {"overlap"}

\* What a job's calls do to it and to the report.
Called(j) ==
  /\ InCall(j) /\ scene' = scene /\ JobsShape' /\ Others(j)
  /\ \/ Waiting(jobs[j], jobs'[j])
     \/ Answered(jobs[j], jobs'[j], Tool(j))
     \/ /\ Overlapped(jobs[j], jobs'[j]) /\ Tool(j) = "secrets.scan"
        /\ jobs[j].wait = "read" /\ report # "full"
  /\ \/ report' = report /\ (jobs'[j].wait = "read" => jobs[j].wait = "read")
     \/ report' = "full"
     \/ Tool(j) = "secrets.scan" /\ jobs'[j].wait # "read"

LEMMA SetJob ==
  ASSUME Typed, NEW j \in Jobs, NEW new, jobs' = [jobs EXCEPT ![j] = new]
  PROVE  JobsShape' /\ jobs'[j] = new /\ Others(j)
BY DEF Typed, JobsShape, Others

LEMMA ShippedType ==
  ASSUME NEW job, NEW r, NEW tool, Answered(job, r, tool)
  PROVE  Answered(job, [r EXCEPT !.shipped = @ \/ tool = "helm.upgrade"], tool)
<1> DEFINE new == [r EXCEPT !.shipped = @ \/ tool = "helm.upgrade"]
<1>1. DOMAIN new = Fields /\ \A f \in Fields \ {"shipped"} : new[f] = r[f]
  BY FieldNames DEF Answered, IsJob
<1>2. new.shipped = (r.shipped \/ tool = "helm.upgrade") /\ new.shipped \in BOOLEAN
  BY FieldNames DEF Answered, IsJob
<1> HIDE DEF new
<1>3. IsJob(new)
  BY <1>1, <1>2, FieldNames DEF Answered, IsJob
<1>4. Answered(job, new, tool)
  BY <1>1, <1>2, <1>3, FieldNames DEF Answered
<1> QED BY <1>4 DEF new

LEMMA CallsType ==
  ASSUME Typed, NEW j \in Jobs, CallTool(j) \/ CallStub(j) \/ Refuse(j)
  PROVE  Called(j)
<1>1. IsJob(jobs[j])
  BY DEF Typed
<1>2. InCall(j) /\ scene' = scene /\ report' = report
  BY DEF CallTool, CallStub, Refuse
<1>3. PICK answer :
        \/ jobs' = [jobs EXCEPT ![j] = [Return(jobs[j], Tool(j), answer)
                                         EXCEPT !.shipped = @ \/ Tool(j) = "helm.upgrade"]]
        \/ jobs' = [jobs EXCEPT ![j] = Return(@, Tool(j), answer)]
  BY DEF CallTool, CallStub, Refuse, Answers
<1> DEFINE r == Return(jobs[j], Tool(j), answer)
           new == [r EXCEPT !.shipped = @ \/ Tool(j) = "helm.upgrade"]
<1>4. Answered(jobs[j], r, Tool(j)) /\ Answered(jobs[j], new, Tool(j))
  BY <1>1, ReturnType, ShippedType
<1>5. jobs' = [jobs EXCEPT ![j] = new] \/ jobs' = [jobs EXCEPT ![j] = r]
  BY <1>3
<1> HIDE DEF r, new
<1>6. JobsShape' /\ Others(j) /\ Answered(jobs[j], jobs'[j], Tool(j))
  BY <1>4, <1>5, SetJob
<1>7. jobs'[j].wait = "call"
  BY <1>6 DEF Answered
<1> QED BY <1>2, <1>6, <1>7 DEF Called

LEMMA ScanType ==
  ASSUME Typed, NEW j \in Jobs, Scan(j)
  PROVE  Called(j)
<1>1. IsJob(jobs[j]) /\ InCall(j) /\ Tool(j) = "secrets.scan" /\ scene' = scene
  BY DEF Typed, Scan, At
<1>2. PICK answer : \/ jobs' = [jobs EXCEPT ![j].wait = "report"]
                    \/ jobs' = [jobs EXCEPT ![j] = Return(@, Tool(j), answer)]
  BY DEF Scan, Answers
<1>3. CASE jobs' = [jobs EXCEPT ![j].wait = "report"]
  <2> DEFINE new == [jobs[j] EXCEPT !.wait = "report"]
  <2>1. Waiting(jobs[j], new) /\ new.wait = "report"
    BY <1>1, FieldNames DEF Waiting, IsJob
  <2>2. jobs' = [jobs EXCEPT ![j] = new]
    BY <1>3
  <2> HIDE DEF new
  <2> QED BY <1>1, <2>1, <2>2, SetJob DEF Called
<1>4. CASE jobs' = [jobs EXCEPT ![j] = Return(@, Tool(j), answer)]
  <2> DEFINE new == Return(jobs[j], Tool(j), answer)
  <2>1. Answered(jobs[j], new, Tool(j)) /\ new.wait = "call"
    BY <1>1, ReturnType DEF Answered
  <2>2. jobs' = [jobs EXCEPT ![j] = new]
    BY <1>4
  <2> HIDE DEF new
  <2> QED BY <1>1, <2>1, <2>2, SetJob DEF Called
<1> QED BY <1>2, <1>3, <1>4

LEMMA ReportType ==
  ASSUME Typed, NEW j \in Jobs, WriteReport(j) \/ ReadReport(j)
  PROVE  Called(j)
<1>1. IsJob(jobs[j]) /\ InCall(j) /\ Tool(j) = "secrets.scan" /\ scene' = scene
  BY DEF Typed, WriteReport, ReadReport, At
<1>2. CASE WriteReport(j)
  <2> DEFINE new == [jobs[j] EXCEPT !.wait = "read"]
  <2>1. Waiting(jobs[j], new)
    BY <1>1, FieldNames DEF Waiting, IsJob
  <2>2. jobs' = [jobs EXCEPT ![j] = new] /\ report' = "full"
    BY <1>2 DEF WriteReport
  <2> HIDE DEF new
  <2> QED BY <1>1, <2>1, <2>2, SetJob DEF Called
<1>3. CASE ReadReport(j) /\ report = "full"
  <2> DEFINE new == Return(jobs[j], Tool(j), "ok")
  <2>1. Answered(jobs[j], new, Tool(j)) /\ new.wait = "call"
    BY <1>1, ReturnType DEF Answered
  <2>2. jobs' = [jobs EXCEPT ![j] = new] /\ report' = report
    BY <1>3 DEF ReadReport, Answers
  <2> HIDE DEF new
  <2> QED BY <1>1, <2>1, <2>2, SetJob DEF Called
<1>4. CASE ReadReport(j) /\ report # "full"
  <2> DEFINE new == [jobs[j] EXCEPT !.pc = @ + 1, !.wait = "call", !.blind = @ \cup {"overlap"}]
  <2>1. Overlapped(jobs[j], new) /\ new.wait = "call"
    BY <1>1, FieldNames DEF Overlapped, IsJob
  <2>2. jobs' = [jobs EXCEPT ![j] = new] /\ report' = report /\ jobs[j].wait = "read"
    BY <1>4 DEF ReadReport, At
  <2> HIDE DEF new
  <2> QED BY <1>1, <1>4, <2>1, <2>2, SetJob DEF Called
<1> QED BY <1>2, <1>3, <1>4

LEMMA ArgoCallsType ==
  ASSUME Typed, NEW j \in Jobs, ReadHistory(j) \/ PatchTarget(j) \/ OrderSync(j) \/ Poll(j)
  PROVE  Called(j)
<1>1. IsJob(jobs[j]) /\ InCall(j) /\ scene' = scene /\ report' = report
  BY DEF Typed, ReadHistory, PatchTarget, OrderSync, Poll, At
<1> SUFFICES ASSUME NEW new, jobs' = [jobs EXCEPT ![j] = new], new.wait # "read",
                    Waiting(jobs[j], new) \/ Answered(jobs[j], new, Tool(j))
             PROVE  Called(j)
  <2>1. CASE ReadHistory(j)
    <3>1. PICK answer :
            \/ jobs' = [jobs EXCEPT ![j].wait = "patch", ![j].back = Previous(argo.history)]
            \/ jobs' = [jobs EXCEPT ![j] = Return(@, Tool(j), answer)]
      BY <2>1 DEF ReadHistory, Answers
    <3> DEFINE w == [jobs[j] EXCEPT !.wait = "patch", !.back = Previous(argo.history)]
               r == Return(jobs[j], Tool(j), answer)
    <3>2. Waiting(jobs[j], w) /\ w.wait # "read"
      BY <1>1, FieldNames DEF Waiting, IsJob
    <3>3. Answered(jobs[j], r, Tool(j)) /\ r.wait # "read"
      BY <1>1, ReturnType DEF Answered
    <3>4. jobs' = [jobs EXCEPT ![j] = w] \/ jobs' = [jobs EXCEPT ![j] = r]
      BY <3>1
    <3> HIDE DEF w, r
    <3> QED BY <3>2, <3>3, <3>4
  <2>2. CASE PatchTarget(j)
    <3> DEFINE w == [jobs[j] EXCEPT !.wait = "sync", !.mine = argo.orders + 1, !.claims = 0]
               r == Return(jobs[j], Tool(j), "error")
    <3>1. jobs' = [jobs EXCEPT ![j] = w] \/ jobs' = [jobs EXCEPT ![j] = r]
      BY <2>2 DEF PatchTarget, Answers
    <3>2. Waiting(jobs[j], w) /\ w.wait # "read"
      BY <1>1, FieldNames DEF Waiting, IsJob
    <3>3. Answered(jobs[j], r, Tool(j)) /\ r.wait # "read"
      BY <1>1, ReturnType DEF Answered
    <3> HIDE DEF w, r
    <3> QED BY <3>1, <3>2, <3>3
  <2>3. CASE OrderSync(j)
    <3> DEFINE job == [jobs[j] EXCEPT !.before = IF Tool(j) = "argocd.sync" THEN argo.live ELSE @]
               order(mine) == [job EXCEPT !.wait = "poll", !.polls = 0, !.mine = mine]
               r == Return(job, Tool(j), "error")
    <3>1. PICK mine : jobs' = [jobs EXCEPT ![j] = order(mine)] \/ jobs' = [jobs EXCEPT ![j] = r]
      BY <2>3 DEF OrderSync
    <3>2. IsJob(job) /\ \A f \in Fields \ {"before"} : job[f] = jobs[j][f]
      BY <1>1, FieldNames DEF IsJob
    <3> HIDE DEF job
    <3>3. Waiting(jobs[j], order(mine)) /\ order(mine).wait # "read"
      BY <1>1, <3>2, FieldNames DEF Waiting, IsJob
    <3>4. Answered(jobs[j], r, Tool(j)) /\ r.wait # "read"
      BY <1>1, <3>2, ReturnType, FieldNames DEF Answered
    <3> HIDE DEF order, r
    <3> QED BY <3>1, <3>3, <3>4
  <2>4. CASE Poll(j)
    <3> DEFINE r0 == Return(jobs[j], Tool(j), "ok")
               s == [r0 EXCEPT !.claims = IF Tool(j) = "argocd.sync" THEN Wanted ELSE jobs[j].back]
               w == [jobs[j] EXCEPT !.polls = @ + 1]
               r == Return(jobs[j], Tool(j), "error")
    <3>1. \/ jobs' = [jobs EXCEPT ![j] = s] \/ jobs' = [jobs EXCEPT ![j] = w]
          \/ jobs' = [jobs EXCEPT ![j] = r]
      BY <2>4 DEF Poll
    <3>2. Answered(jobs[j], r0, Tool(j)) /\ Answered(jobs[j], r, Tool(j)) /\ r.wait # "read"
      BY <1>1, ReturnType DEF Answered
    <3>3. Waiting(jobs[j], w) /\ w.wait # "read"
      BY <1>1, <2>4, FieldNames DEF Waiting, IsJob, Poll, At
    <3> HIDE DEF r0, r, w
    <3>4. DOMAIN s = Fields /\ \A f \in Fields \ {"claims"} : s[f] = r0[f]
      BY <3>2, FieldNames DEF Answered, IsJob
    <3> HIDE DEF s
    <3>5. Answered(jobs[j], s, Tool(j)) /\ s.wait # "read"
      BY <3>2, <3>4, FieldNames DEF Answered, IsJob
    <3> QED BY <3>1, <3>2, <3>3, <3>5
  <2> QED BY <2>1, <2>2, <2>3, <2>4
<1>2. JobsShape' /\ jobs'[j] = new /\ Others(j)
  BY SetJob
<1> QED BY <1>1, <1>2 DEF Called

---------------------------------------------------------------------------
(* The other steps of a job, and of Argo CD.                                 *)

\* The end of an agent, a step skipped, and the end of the plan.
Concluded(j, job, new) ==
  /\ IsJob(new) /\ new.plan = job.plan /\ new.at = job.at + 1 /\ new.pc = 1 /\ new.seen = Missing
  /\ new.blind = job.blind /\ new.shipped = job.shipped
  /\ new.failed = (job.failed \/ TheAgent(j).failed)
  /\ new.undone = job.undone
  /\ new.status = IF TheAgent(j).failed /\ StopsPipeline(Slug(j)) THEN "failed" ELSE job.status
  /\ ShouldRun(j) /\ job.pc > Len(TheAgent(j).calls) /\ job.at <= Len(Plan[job.plan])

Skipped(j, job, new) ==
  /\ IsJob(new) /\ new.plan = job.plan /\ new.at = job.at + 1 /\ new.pc = job.pc /\ new.seen = job.seen
  /\ new.blind = job.blind /\ new.shipped = job.shipped /\ new.failed = job.failed
  /\ new.undone = job.undone /\ new.status = job.status
  /\ ~ShouldRun(j) /\ job.at <= Len(Plan[job.plan])

Finished(job, new) ==
  /\ IsJob(new) /\ new.plan = job.plan /\ new.at = job.at /\ new.pc = job.pc /\ new.seen = job.seen
  /\ new.blind = job.blind /\ new.shipped = job.shipped /\ new.failed = job.failed
  /\ new.undone = job.undone /\ new.status # "running" /\ job.at > Len(Plan[job.plan])

MovesOn(j) ==
  /\ Running(j) /\ scene' = scene /\ report' = report /\ JobsShape' /\ Others(j)
  /\ jobs'[j].wait = jobs[j].wait
  /\ \/ Concluded(j, jobs[j], jobs'[j]) \/ Skipped(j, jobs[j], jobs'[j]) \/ Finished(jobs[j], jobs'[j])

\* A verdict is true or false.
LEMMA VerdictType ==
  ASSUME NEW j \in Jobs, IsJob(jobs[j])
  PROVE  TheAgent(j).failed \in BOOLEAN
<1>1. jobs[j].seen.secrets \in BOOLEAN
  BY DEF IsJob, Facts
<1> USE DEF Agent
<1>2. CASE Slug(j) \in {"code-review", "test-runner", "security-scan", "verify"}
  BY <1>1, <1>2 DEF TheAgent, CodeReviewAgent, TestRunnerAgent, SecurityScanAgent, VerifyAgent, TestsFailed
<1>3. CASE Slug(j) = "remediate"
  BY <1>3 DEF TheAgent, RemediateAgent
<1>4. CASE Slug(j) \notin {"code-review", "test-runner", "security-scan", "verify", "remediate"}
  BY <1>4 DEF TheAgent, BuildAgent, DeployAgent, RollbackAgent, IncidentTriageAgent, DiagnoseAgent,
              TerraformPlanAgent, TerraformApplyAgent, CostAnalyzerAgent, PostmortemAgent, NotifyAgent, Fallback
<1> QED BY <1>2, <1>3, <1>4

LEMMA ConcludeType ==
  ASSUME Typed, NEW j \in Jobs, Conclude(j)
  PROVE  MovesOn(j)
<1>1. IsJob(jobs[j]) /\ Running(j) /\ scene' = scene /\ report' = report /\ ShouldRun(j)
      /\ jobs[j].pc > Len(TheAgent(j).calls) /\ jobs[j].at <= Len(Plan[jobs[j].plan])
  BY DEF Typed, Conclude
<1>2. TheAgent(j).failed \in BOOLEAN /\ Missing \in Facts
  BY <1>1, VerdictType DEF Missing, Facts, Severities
<1> DEFINE failed == TheAgent(j).failed
           ends(out) == [jobs[j] EXCEPT
             !.failed = @ \/ failed, !.out = out,
             !.status = IF failed /\ StopsPipeline(Slug(j)) THEN "failed" ELSE @,
             !.at = @ + 1, !.pc = 1, !.seen = Missing]
<1>3. PICK out : jobs' = [jobs EXCEPT ![j] = ends(out)]
  BY DEF Conclude
<1> HIDE DEF failed
<1>4. DOMAIN ends(out) = Fields /\ ends(out).plan = jobs[j].plan /\ ends(out).at = jobs[j].at + 1
      /\ ends(out).pc = 1 /\ ends(out).seen = Missing /\ ends(out).blind = jobs[j].blind
      /\ ends(out).shipped = jobs[j].shipped /\ ends(out).failed = (jobs[j].failed \/ failed)
      /\ ends(out).undone = jobs[j].undone /\ ends(out).wait = jobs[j].wait
      /\ ends(out).status = IF failed /\ StopsPipeline(Slug(j)) THEN "failed" ELSE jobs[j].status
  BY <1>1, FieldNames DEF IsJob
<1> HIDE DEF ends
<1>5. IsJob(ends(out))
  BY <1>1, <1>2, <1>4 DEF IsJob, failed
<1>6. Concluded(j, jobs[j], ends(out))
  BY <1>1, <1>4, <1>5 DEF Concluded, failed
<1> QED BY <1>1, <1>3, <1>4, <1>6, SetJob DEF MovesOn

LEMMA SkipType ==
  ASSUME Typed, NEW j \in Jobs, Skip(j)
  PROVE  MovesOn(j)
<1>1. IsJob(jobs[j]) /\ Running(j) /\ scene' = scene /\ report' = report /\ ~ShouldRun(j)
      /\ jobs[j].at <= Len(Plan[jobs[j].plan])
  BY DEF Typed, Skip
<1> DEFINE new == [jobs[j] EXCEPT !.at = @ + 1]
<1>2. Skipped(j, jobs[j], new) /\ new.wait = jobs[j].wait
  BY <1>1, FieldNames DEF Skipped, IsJob
<1>3. jobs' = [jobs EXCEPT ![j] = new]
  BY DEF Skip
<1> HIDE DEF new
<1> QED BY <1>1, <1>2, <1>3, SetJob DEF MovesOn

LEMMA FinishType ==
  ASSUME Typed, NEW j \in Jobs, Finish(j)
  PROVE  MovesOn(j)
<1>1. IsJob(jobs[j]) /\ Running(j) /\ scene' = scene /\ report' = report
      /\ jobs[j].at > Len(Plan[jobs[j].plan])
  BY DEF Typed, Finish
<1> DEFINE new == [jobs[j] EXCEPT !.status = IF jobs[j].failed THEN "failed" ELSE "success"]
<1>2. Finished(jobs[j], new) /\ new.wait = jobs[j].wait
  BY <1>1, FieldNames DEF Finished, IsJob
<1>3. jobs' = [jobs EXCEPT ![j] = new]
  BY DEF Finish
<1> HIDE DEF new
<1> QED BY <1>1, <1>2, <1>3, SetJob DEF MovesOn

\* Argo CD touches no field the invariant speaks of.
LEMMA ArgoType ==
  ASSUME Typed, ArgoSyncs \/ ArgoSyncFails \/ ArgoRefreshes
  PROVE  /\ scene' = scene /\ report' = report /\ JobsShape'
         /\ \A j \in Jobs : Waiting(jobs[j], jobs'[j]) /\ jobs'[j].wait = jobs[j].wait
<1>1. scene' = scene /\ report' = report
  BY DEF ArgoSyncs, ArgoSyncFails, ArgoRefreshes
<1>2. CASE ArgoSyncs
  <2>1. jobs' = [j \in Jobs |-> IF j \in argo.op THEN [jobs[j] EXCEPT !.carried = @ \/ jobs[j].back = 0] ELSE jobs[j]]
    BY <1>2 DEF ArgoSyncs
  <2>2. ASSUME NEW j \in Jobs
        PROVE  Waiting(jobs[j], jobs'[j]) /\ jobs'[j].wait = jobs[j].wait
    <3>1. IsJob(jobs[j])
      BY DEF Typed
    <3>2. jobs'[j] = IF j \in argo.op THEN [jobs[j] EXCEPT !.carried = @ \/ jobs[j].back = 0] ELSE jobs[j]
      BY <2>1
    <3> QED BY <3>1, <3>2, FieldNames DEF Waiting, IsJob
  <2> QED BY <1>1, <2>1, <2>2 DEF JobsShape
<1>3. CASE ArgoSyncFails \/ ArgoRefreshes
  BY <1>1, <1>3 DEF ArgoSyncFails, ArgoRefreshes, Typed, Waiting, JobsShape
<1> QED BY <1>2, <1>3

---------------------------------------------------------------------------
(* The invariant is inductive.                                               *)

LEMMA InitGates == Init => GatesInv
<1> SUFFICES ASSUME Init PROVE GatesInv
  OBVIOUS
<1>1. scene \in Scene /\ scene.plans \in [Jobs -> PlanNames]
  BY ScenesAssumption DEF Init, Scene
<1>2. Missing \in Facts
  BY DEF Missing, Facts, Severities
<1>3. ASSUME NEW j \in Jobs
      PROVE  /\ IsJob(jobs[j]) /\ jobs[j].wait = "call" /\ jobs[j].blind = {} /\ ~jobs[j].shipped
             /\ jobs[j].at = 1 /\ jobs[j].pc = 1 /\ jobs[j].seen = Missing
  <2>1. scene.plans[j] \in PlanNames
    BY <1>1
  <2>2. jobs[j] = NewJob(scene.plans[j], scene.action)
    BY DEF Init
  <2> QED BY <1>2, <2>1, <2>2, FieldNames DEF NewJob, IsJob
<1>4. Typed
  BY <1>1, <1>3 DEF Typed, Init
<1>5. ASSUME NEW j \in Jobs
      PROVE  ShipInv(jobs[j])
  BY <1>3, <1>5 DEF ShipInv, LooksInv, PassedInv, Missing
<1> QED BY <1>3, <1>4, <1>5 DEF GatesInv, ReportInv, OverlapInv

LEMMA WaitsInv ==
  ASSUME NEW job, NEW new, Waiting(job, new), ShipInv(job)
  PROVE  ShipInv(new)
BY DEF Waiting, ShipInv, LooksInv, PassedInv, ShippedInv, Reviewed, Tested, Scanned, Verified, Handled

\* The data a call brings are the tools' findings.
LEMMA BringsData ==
  /\ Brings("secrets.scan") = {"secrets"} /\ Brings("test.run") = {"tests"}
  /\ Brings("trivy.scan") = {"cves"} /\ Brings("prometheus.query") = {"rate"}
  /\ Brings("helm.rollback") = {"helm.rollback"} /\ Brings("argocd.rollback") = {"argocd.rollback"}
  /\ \A tool : "overlap" \notin Brings(tool)
BY DEF Brings, Reverts

\* A call that did not raise.
LEMMA AnswerInv ==
  ASSUME Typed, NEW j \in Jobs, Ships(j), InCall(j), ShipInv(jobs[j]), NEW new,
         IsJob(new), new.plan = jobs[j].plan, new.at = jobs[j].at, new.pc = jobs[j].pc + 1,
         new.failed = jobs[j].failed, jobs[j].undone => new.undone, new.status = jobs[j].status,
         new.shipped => jobs[j].shipped \/ Tool(j) = "helm.upgrade",
         jobs[j].blind \subseteq new.blind,
         \/ new.seen = Keep(jobs[j].seen, Brings(Tool(j))) /\ (Tool(j) \in Reverts => new.undone)
         \/ new.seen = jobs[j].seen /\ Brings(Tool(j)) \subseteq new.blind
         \/ new.seen = jobs[j].seen /\ Tool(j) = "secrets.scan" /\ "overlap" \in new.blind
  PROVE  ShipInv(new)
<1> DEFINE job == jobs[j]  tool == Tool(j)
<1>1. IsJob(job) /\ job.status = "running" /\ LooksInv(job) /\ PassedInv(job)
  BY DEF Typed, InCall, Running, ShipInv
<1>2. /\ job.at \in 1..7
      /\ job.at = 1 /\ job.pc = 2 => tool = "secrets.scan"
      /\ job.at = 2 /\ job.pc = 3 => tool = "test.run"
      /\ job.at = 4 /\ job.pc = 2 => tool = "trivy.scan"
      /\ job.at = 6 /\ job.pc = 2 => tool = "prometheus.query"
      /\ job.at = 7 /\ job.pc = 1 => tool = "helm.rollback"
      /\ job.at = 7 /\ job.pc = 2 => tool = "argocd.rollback"
      /\ tool = "helm.upgrade" => job.at = 5
  BY <1>1, ShipCalls
<1>3. /\ new.plan = job.plan /\ new.at = job.at /\ new.pc = job.pc + 1 /\ new.failed = job.failed
      /\ (job.undone => new.undone) /\ new.status = "running" /\ job.blind \subseteq new.blind
      /\ new.shipped => job.shipped \/ tool = "helm.upgrade"
  BY <1>1
\* What is seen is what it was, or what there is.
<1>4. /\ new.seen.secrets = job.seen.secrets \/ new.seen.secrets = scene.facts.secrets
      /\ new.seen.tests = job.seen.tests \/ new.seen.tests = scene.facts.tests
      /\ new.seen.cves = job.seen.cves \/ new.seen.cves = scene.facts.cves
      /\ new.seen.smoke = job.seen.smoke \/ new.seen.smoke = scene.facts.smoke
      /\ new.seen.rate = job.seen.rate \/ new.seen.rate = scene.facts.rate
  BY <1>1, KeepType DEF IsJob
\* What the call looks for is seen now, or has not come.
<1>5. /\ tool = "secrets.scan" => new.seen.secrets = scene.facts.secrets \/ {"secrets", "overlap"} \cap new.blind # {}
      /\ tool = "test.run" => new.seen.tests = scene.facts.tests \/ "tests" \in new.blind
      /\ tool = "trivy.scan" => new.seen.cves = scene.facts.cves \/ "cves" \in new.blind
      /\ tool = "prometheus.query" => new.seen.rate = scene.facts.rate \/ "rate" \in new.blind
      /\ tool = "helm.rollback" => new.undone \/ "helm.rollback" \in new.blind
      /\ tool = "argocd.rollback" => new.undone \/ "argocd.rollback" \in new.blind
  BY <1>1, KeepType, BringsData DEF IsJob, Reverts
<1>6. job.at \in Nat /\ job.pc \in Nat /\ scene.facts.rate \in {"low", "high"}
  BY <1>1 DEF IsJob, Typed, Scene, Facts
<1> HIDE DEF job, tool
<1>7. LooksInv(new)
  BY <1>1, <1>2, <1>3, <1>4, <1>5, <1>6 DEF LooksInv, Reviewed, Tested, Scanned, TestsFailed
<1>8. PassedInv(new)
  BY <1>1, <1>2, <1>3, <1>6 DEF PassedInv, Reviewed, Tested, Scanned, Verified
<1>9. new.shipped => ShippedInv(new)
  <2>1. job.shipped => ShippedInv(job)
    BY DEF ShipInv, job
  <2>2. tool = "helm.upgrade" => job.at > 4
    BY <1>2
  <2> QED BY <1>1, <1>3, <1>6, <2>1, <2>2 DEF ShippedInv, PassedInv, Reviewed, Tested, Scanned
<1> QED BY <1>7, <1>8, <1>9 DEF ShipInv

LEMMA RaiseInv ==
  ASSUME Typed, NEW j \in Jobs, Ships(j), InCall(j), ShipInv(jobs[j]), NEW new,
         new.at = jobs[j].at, new.status = "failed",
         new.shipped => jobs[j].shipped \/ Tool(j) = "helm.upgrade",
         new.blind = jobs[j].blind \cup {"raised"}
  PROVE  ShipInv(new)
<1>1. IsJob(jobs[j]) /\ jobs[j].status = "running" /\ PassedInv(jobs[j])
  BY DEF Typed, InCall, Running, ShipInv
<1>2. Tool(j) = "helm.upgrade" => jobs[j].at > 4
  BY <1>1, ShipCalls
<1>3. jobs[j].at \in Nat
  BY <1>1 DEF IsJob
<1> QED BY <1>1, <1>2, <1>3 DEF ShipInv, ShippedInv, PassedInv, Reviewed, Tested, Scanned

LEMMA CalledInv ==
  ASSUME Typed, NEW j \in Jobs, Ships(j), ShipInv(jobs[j]), Called(j)
  PROVE  ShipInv(jobs'[j])
<1>1. InCall(j)
  BY DEF Called
<1>2. CASE Waiting(jobs[j], jobs'[j])
  BY <1>2, WaitsInv
<1>3. CASE Answered(jobs[j], jobs'[j], Tool(j))
  <2>1. CASE jobs'[j].status = "failed" /\ jobs'[j].blind = jobs[j].blind \cup {"raised"}
    BY <1>1, <1>3, <2>1, RaiseInv DEF Answered
  <2>2. CASE /\ jobs'[j].status = jobs[j].status /\ jobs'[j].pc = jobs[j].pc + 1
             /\ jobs'[j].seen = Keep(jobs[j].seen, Brings(Tool(j))) /\ jobs'[j].blind = jobs[j].blind
             /\ jobs'[j].undone = (jobs[j].undone \/ Tool(j) \in Reverts)
    BY <1>1, <1>3, <2>2, AnswerInv DEF Answered
  <2>3. CASE /\ jobs'[j].status = jobs[j].status /\ jobs'[j].pc = jobs[j].pc + 1
             /\ jobs'[j].seen = jobs[j].seen /\ jobs'[j].blind = jobs[j].blind \cup Brings(Tool(j))
             /\ jobs'[j].undone = jobs[j].undone
    BY <1>1, <1>3, <2>3, AnswerInv DEF Answered
  <2> QED BY <1>3, <2>1, <2>2, <2>3 DEF Answered
<1>4. CASE Overlapped(jobs[j], jobs'[j]) /\ Tool(j) = "secrets.scan"
  BY <1>1, <1>4, AnswerInv DEF Overlapped
<1> QED BY <1>2, <1>3, <1>4 DEF Called

LEMMA AgentVerdict ==
  ASSUME NEW calls, NEW failed \in BOOLEAN
  PROVE  Agent(calls, failed).failed <=> failed
BY DEF Agent

LEMMA ShipSteps ==
  ASSUME NEW j \in Jobs, Ships(j), IsJob(jobs[j]), jobs[j].at <= Len(Plan[jobs[j].plan])
  PROVE  jobs[j].at \in 1..7
<1>1. jobs[j].at \in Nat \ {0}
  BY DEF IsJob
<1>2. Len(Plan[jobs[j].plan]) = 7
  BY <1>1, ShipAgents
<1> QED BY <1>1, <1>2

LEMMA ConcludedInv ==
  ASSUME Typed, NEW j \in Jobs, Ships(j), Running(j), ShipInv(jobs[j]), NEW new, Concluded(j, jobs[j], new)
  PROVE  ShipInv(new)
<1> DEFINE job == jobs[j]  failed == TheAgent(j).failed
<1>1. IsJob(job) /\ job.status = "running" /\ LooksInv(job) /\ PassedInv(job)
  BY DEF Typed, Running, ShipInv
<1>2. job.shipped => ShippedInv(job)
  BY DEF ShipInv
<1>3. /\ job.at \in 1..7 /\ job.pc > Len(TheAgent(j).calls) /\ job.pc \in Nat
  BY <1>1, ShipSteps DEF Concluded, IsJob
<1>4. /\ new.at = job.at + 1 /\ new.seen = Missing /\ new.pc = 1 /\ new.blind = job.blind /\ new.shipped = job.shipped
      /\ new.failed = (job.failed \/ failed) /\ new.undone = job.undone
      /\ new.status = IF failed /\ StopsPipeline(Slug(j)) THEN "failed" ELSE "running"
  BY <1>1 DEF Concluded
\* The verdict is on what was seen.
<1>5. /\ job.at = 1 => (job.seen.secrets => failed) /\ job.pc > 2 /\ StopsPipeline(Slug(j))
      /\ job.at = 2 => (TestsFailed(job.seen) => failed) /\ job.pc > 3 /\ StopsPipeline(Slug(j))
      /\ job.at = 4 => (job.seen.cves = "CRITICAL" => failed) /\ job.pc > 2 /\ StopsPipeline(Slug(j))
      /\ job.at = 6 => (failed \/ (job.seen.smoke /\ job.seen.rate # "high")) /\ job.pc > 2
      /\ job.at = 7 => job.pc > 2 /\ Slug(j) = "rollback"
  <2>1. job.at \in Nat \ {0} /\ Ships(j)
    BY <1>1 DEF IsJob
  <2>2. CASE job.at = 1
    <3>1. Slug(j) = "code-review" /\ TheAgent(j) = CodeReviewAgent(job.seen)
      BY <2>1, <2>2, ShipAgents
    <3>2. Len(TheAgent(j).calls) = 3 /\ (job.seen.secrets => failed)
      BY <3>1 DEF CodeReviewAgent, Agent
    <3> HIDE DEF job, failed
    <3> QED BY <1>3, <2>2, <3>1, <3>2 DEF StopsPipeline
  <2>3. CASE job.at = 2
    <3>1. Slug(j) = "test-runner" /\ TheAgent(j) = TestRunnerAgent(job.seen)
      BY <2>1, <2>3, ShipAgents
    <3>2. Len(TheAgent(j).calls) = 3 /\ (TestsFailed(job.seen) => failed)
      BY <3>1 DEF TestRunnerAgent, Agent
    <3> HIDE DEF job, failed
    <3> QED BY <1>3, <2>3, <3>1, <3>2 DEF StopsPipeline
  <2>4. CASE job.at = 4
    <3>1. Slug(j) = "security-scan" /\ TheAgent(j) = SecurityScanAgent(job.seen)
      BY <2>1, <2>4, ShipAgents
    <3>2. Len(TheAgent(j).calls) = 3
      BY <3>1 DEF SecurityScanAgent, Agent
    <3>3. failed <=> (job.seen.cves = "CRITICAL")
      BY <3>1, AgentVerdict DEF SecurityScanAgent
    <3> HIDE DEF job, failed
    <3> QED BY <1>3, <2>4, <3>1, <3>2, <3>3 DEF StopsPipeline
  <2>5. CASE job.at = 6
    <3>1. Slug(j) = "verify" /\ TheAgent(j) = VerifyAgent(job.seen)
      BY <2>1, <2>5, ShipAgents
    <3>2. Len(TheAgent(j).calls) = 2
      BY <3>1 DEF VerifyAgent, Agent
    <3>3. failed <=> (~job.seen.smoke \/ job.seen.rate = "high")
      BY <3>1, AgentVerdict DEF VerifyAgent
    <3> HIDE DEF job, failed
    <3> QED BY <1>3, <2>5, <3>1, <3>2, <3>3
  <2>6. CASE job.at = 7
    <3>1. TheAgent(j) = RollbackAgent
      BY <2>1, <2>6, ShipAgents
    <3>2. Len(TheAgent(j).calls) = 3
      BY <3>1 DEF RollbackAgent, Agent
    <3>3. Slug(j) = "rollback"
      BY <2>1, <2>6, ShipAgents
    <3> HIDE DEF job
    <3> QED BY <1>3, <2>6, <3>2, <3>3
  <2> QED BY <1>3, <2>2, <2>3, <2>4, <2>5, <2>6
<1>6. new.status = "running" => LooksInv(new)
  BY <1>3, <1>4 DEF LooksInv, Missing
<1>7. new.status = "running" => PassedInv(new)
  <2> SUFFICES ASSUME new.status = "running" PROVE PassedInv(new)
    OBVIOUS
  <2>0. ~(failed /\ StopsPipeline(Slug(j)))
    BY <1>4
  <2>1. new.at > 1 => Reviewed(new)
    <3>1. Reviewed(job)
      BY <1>1, <1>3, <1>5, <2>0 DEF PassedInv, LooksInv
    <3> QED BY <1>4, <3>1 DEF Reviewed
  <2>2. new.at > 2 => Tested(new)
    <3>1. job.at > 1 => Tested(job)
      BY <1>1, <1>3, <1>5, <2>0 DEF PassedInv, LooksInv
    <3> QED BY <1>3, <1>4, <3>1 DEF Tested
  <2>3. new.at > 4 => Scanned(new)
    <3>1. job.at > 3 => Scanned(job)
      BY <1>1, <1>3, <1>5, <2>0 DEF PassedInv, LooksInv
    <3> QED BY <1>3, <1>4, <3>1 DEF Scanned
  <2>4. new.at > 6 => new.failed \/ Verified(new)
    <3>1. CASE job.at = 6 /\ ~failed
      <4>1. job.seen.smoke /\ job.seen.rate # "high"
        BY <1>5, <3>1
      <4>2. Verified(job)
        BY <1>1, <1>5, <3>1, <4>1 DEF LooksInv, Verified
      <4> QED BY <1>4, <4>2 DEF Verified
    <3>2. CASE failed
      BY <1>4, <3>2
    <3>3. CASE job.at = 7
      <4>1. job.failed \/ Verified(job)
        BY <1>1, <3>3 DEF PassedInv
      <4>2. job.failed => new.failed
        BY <1>4
      <4>3. Verified(job) => Verified(new)
        BY <1>4 DEF Verified
      <4> QED BY <4>1, <4>2, <4>3
    <3> QED BY <1>3, <1>4, <3>1, <3>2, <3>3
  <2>5. new.at > 7 => ~new.failed \/ Handled(new)
    <3>1. job.at = 7 => Handled(new)
      BY <1>1, <1>3, <1>4, <1>5 DEF LooksInv, Handled, Reverts
    <3> QED BY <1>3, <1>4, <3>1
  <2> QED BY <2>1, <2>2, <2>3, <2>4, <2>5 DEF PassedInv
\* Only a step before the deploy ends the pipeline.
<1>8. new.status # "running" => job.at \in {1, 2, 4}
  <2>1. job.at = 3 => Slug(j) = "build"
    BY <1>3, ShipAgents DEF job
  <2>2. job.at = 5 => Slug(j) = "deploy"
    BY <1>3, ShipAgents DEF job
  <2>3. job.at = 6 => Slug(j) = "verify"
    BY <1>3, ShipAgents DEF job
  <2> QED BY <1>3, <1>4, <1>5, <2>1, <2>2, <2>3 DEF StopsPipeline
<1>9. new.shipped => ShippedInv(new)
  BY <1>2, <1>3, <1>4, <1>8 DEF ShippedInv, Reviewed, Tested, Scanned
<1> QED BY <1>6, <1>7, <1>9 DEF ShipInv

LEMMA SkippedInv ==
  ASSUME Typed, NEW j \in Jobs, Ships(j), Running(j), ShipInv(jobs[j]), NEW new, Skipped(j, jobs[j], new)
  PROVE  ShipInv(new)
<1>1. IsJob(jobs[j]) /\ jobs[j].status = "running" /\ LooksInv(jobs[j]) /\ PassedInv(jobs[j])
      /\ (jobs[j].shipped => ShippedInv(jobs[j]))
  BY DEF Typed, Running, ShipInv
<1>2. jobs[j].at = 7 /\ ~jobs[j].failed
  <2>1. jobs[j].at \in 1..7
    BY <1>1, ShipSteps DEF Skipped
  <2>2. Slug(j) = "rollback" /\ ~jobs[j].failed
    BY DEF Skipped, ShouldRun, Ships
  <2> QED BY <2>1, <2>2, ShipAgents
<1>3. /\ new.at = 8 /\ new.seen = jobs[j].seen /\ new.blind = jobs[j].blind /\ new.shipped = jobs[j].shipped
      /\ new.failed = jobs[j].failed /\ new.undone = jobs[j].undone /\ new.status = "running"
  BY <1>1, <1>2 DEF Skipped
<1>4. LooksInv(new)
  BY <1>1, <1>3 DEF LooksInv
<1>5. PassedInv(new)
  BY <1>1, <1>2, <1>3 DEF PassedInv, Reviewed, Tested, Scanned, Verified
<1>6. new.shipped => ShippedInv(new)
  BY <1>1, <1>3 DEF ShippedInv, Reviewed, Tested, Scanned
<1> QED BY <1>4, <1>5, <1>6 DEF ShipInv

LEMMA FinishedInv ==
  ASSUME Typed, NEW j \in Jobs, Ships(j), Running(j), ShipInv(jobs[j]), NEW new, Finished(jobs[j], new)
  PROVE  ShipInv(new)
<1>1. IsJob(jobs[j]) /\ PassedInv(jobs[j]) /\ (jobs[j].shipped => ShippedInv(jobs[j]))
  BY DEF Typed, Running, ShipInv
<1>2. jobs[j].at > 7
  BY <1>1, ShipAgents DEF Finished, IsJob
<1>3. /\ new.at = jobs[j].at /\ new.blind = jobs[j].blind /\ new.shipped = jobs[j].shipped
      /\ new.failed = jobs[j].failed /\ new.undone = jobs[j].undone /\ new.status # "running"
      /\ jobs[j].at \in Nat
  BY <1>1 DEF Finished, IsJob
<1>4. Verified(new) \/ Handled(new)
  BY <1>1, <1>2, <1>3 DEF PassedInv, Verified, Handled
<1> QED BY <1>1, <1>3, <1>4 DEF ShipInv, ShippedInv, Reviewed, Tested, Scanned

LEMMA MovesOnInv ==
  ASSUME Typed, NEW j \in Jobs, Ships(j), ShipInv(jobs[j]), MovesOn(j)
  PROVE  ShipInv(jobs'[j])
BY ConcludedInv, SkippedInv, FinishedInv DEF MovesOn

LEMMA KeepsGates == GatesInv /\ [Next]_vars => GatesInv'
<1> SUFFICES ASSUME GatesInv, [Next]_vars PROVE GatesInv'
  OBVIOUS
<1> USE DEF GatesInv
<1>1. CASE UNCHANGED vars
  BY <1>1 DEF vars, Typed, IsJob, ReportInv, OverlapInv, OtherShips, Ships, ShipInv, LooksInv, PassedInv,
              ShippedInv, Reviewed, Tested, Scanned, Verified, Handled
<1>2. ASSUME scene' = scene, JobsShape',
             \A j \in Jobs : IsJob(jobs'[j]) /\ jobs'[j].plan = jobs[j].plan,
             \A j \in Jobs : Ships(j) => ShipInv(jobs'[j]),
             \A j \in Jobs : "overlap" \in jobs'[j].blind => OtherShips(j),
             \A j \in Jobs : jobs'[j].wait = "read" /\ report' # "full" => OtherShips(j)
      PROVE  GatesInv'
  <2>1. \A j \in Jobs : Ships(j)' <=> Ships(j)
    BY <1>2 DEF Ships
  <2>2. \A j \in Jobs : OtherShips(j)' <=> OtherShips(j)
    BY <2>1 DEF OtherShips
  <2>3. Typed'
    BY <1>2 DEF Typed, JobsShape, IsJob
  <2>4. ReportInv' /\ OverlapInv'
    BY <1>2, <2>2 DEF ReportInv, OverlapInv
  <2>5. \A j \in Jobs : Ships(j)' => ShipInv(jobs[j])'
    BY <1>2, <2>1 DEF ShipInv, LooksInv, PassedInv, ShippedInv, Reviewed, Tested, Scanned, Verified,
                     Handled
  <2> QED BY <2>3, <2>4, <2>5
<1>3. ASSUME NEW j \in Jobs, Called(j)
      PROVE  GatesInv'
  <2>1. IsJob(jobs'[j]) /\ jobs'[j].plan = jobs[j].plan
    BY <1>3 DEF Called, Waiting, Answered, Overlapped
  <2>2. scene' = scene /\ JobsShape' /\ \A k \in Jobs \ {j} : jobs'[k] = jobs[k]
    BY <1>3 DEF Called, Others
  <2>3. Ships(j) => ShipInv(jobs'[j])
    BY <1>3, CalledInv
  <2>4. "overlap" \in jobs'[j].blind => OtherShips(j)
    <3>1. CASE Waiting(jobs[j], jobs'[j])
      BY <3>1 DEF Waiting, OverlapInv
    <3>2. CASE Answered(jobs[j], jobs'[j], Tool(j))
      BY <3>2, BringsData DEF Answered, OverlapInv
    <3>3. CASE jobs[j].wait = "read" /\ report # "full"
      BY <3>3 DEF ReportInv
    <3> QED BY <1>3, <3>1, <3>2, <3>3 DEF Called
  <2>5. ASSUME NEW k \in Jobs, jobs'[k].wait = "read", report' # "full"
        PROVE  OtherShips(k)
    <3>1. CASE report' = report /\ (jobs'[j].wait = "read" => jobs[j].wait = "read")
      BY <2>2, <2>5, <3>1 DEF ReportInv
    <3>2. CASE Tool(j) = "secrets.scan" /\ jobs'[j].wait # "read"
      <4>1. Ships(j)
        BY <1>3, <3>2, OnlyShipsScan DEF Called, Typed
      <4> QED BY <2>5, <3>2, <4>1 DEF OtherShips
    <3> QED BY <1>3, <2>5, <3>1, <3>2 DEF Called
  <2>6. \A k \in Jobs : IsJob(jobs'[k]) /\ jobs'[k].plan = jobs[k].plan
    BY <2>1, <2>2 DEF Typed
  <2>7. \A k \in Jobs : Ships(k) => ShipInv(jobs'[k])
    BY <2>2, <2>3
  <2>8. \A k \in Jobs : "overlap" \in jobs'[k].blind => OtherShips(k)
    BY <2>2, <2>4 DEF OverlapInv
  <2> QED BY <1>2, <2>2, <2>5, <2>6, <2>7, <2>8
<1>4. ASSUME NEW j \in Jobs, MovesOn(j)
      PROVE  GatesInv'
  <2>1. IsJob(jobs'[j]) /\ jobs'[j].plan = jobs[j].plan /\ jobs'[j].blind = jobs[j].blind
        /\ jobs'[j].wait = jobs[j].wait
    BY <1>4 DEF MovesOn, Concluded, Skipped, Finished
  <2>2. scene' = scene /\ report' = report /\ JobsShape' /\ \A k \in Jobs \ {j} : jobs'[k] = jobs[k]
    BY <1>4 DEF MovesOn, Others
  <2>3. Ships(j) => ShipInv(jobs'[j])
    BY <1>4, MovesOnInv
  <2>4. \A k \in Jobs : IsJob(jobs'[k]) /\ jobs'[k].plan = jobs[k].plan
    BY <2>1, <2>2 DEF Typed
  <2>5. \A k \in Jobs : Ships(k) => ShipInv(jobs'[k])
    BY <2>2, <2>3
  <2>6. \A k \in Jobs : "overlap" \in jobs'[k].blind => OtherShips(k)
    BY <2>1, <2>2 DEF OverlapInv
  <2>7. \A k \in Jobs : jobs'[k].wait = "read" /\ report' # "full" => OtherShips(k)
    BY <2>1, <2>2 DEF ReportInv
  <2> QED BY <1>2, <2>2, <2>4, <2>5, <2>6, <2>7
<1>5. CASE ArgoSyncs \/ ArgoSyncFails \/ ArgoRefreshes
  <2>1. /\ scene' = scene /\ report' = report /\ JobsShape'
        /\ \A j \in Jobs : Waiting(jobs[j], jobs'[j]) /\ jobs'[j].wait = jobs[j].wait
    BY <1>5, ArgoType
  <2>2. \A j \in Jobs : Ships(j) => ShipInv(jobs'[j])
    BY <2>1, WaitsInv
  <2>3. \A j \in Jobs : /\ IsJob(jobs'[j]) /\ jobs'[j].plan = jobs[j].plan
                        /\ jobs'[j].blind = jobs[j].blind /\ jobs'[j].wait = jobs[j].wait
    BY <2>1 DEF Waiting
  <2> QED BY <1>2, <2>1, <2>2, <2>3 DEF ReportInv, OverlapInv
<1>6. ASSUME NEW j \in Jobs, JobStep(j)
      PROVE  Called(j) \/ MovesOn(j)
  BY <1>6, CallsType, ScanType, ReportType, ArgoCallsType, ConcludeType, SkipType, FinishType DEF JobStep
<1> QED BY <1>1, <1>3, <1>4, <1>5, <1>6 DEF Next

---------------------------------------------------------------------------
(* The gates of ship-to-prod.                                               *)

\* What code review, tests and scan look for is not shipped by ship-to-prod, unless the
\* call that looks for it came back without data, or two runs shared the report file
\* (agents/code_review.py, test_runner.py, security_scan.py; the gates of ship-to-prod).
THEOREM DeploysAreEarned == Spec => []DeployIsEarned
<1>1. GatesInv => DeployIsEarned
  BY DEF GatesInv, OverlapInv, OtherShips, ShipInv, ShippedInv, Reviewed, Tested, Scanned, DeployIsEarned
<1> QED BY <1>1, InitGates, KeepsGates, PTL DEF Spec

\* Of a release whose smoke test or error rate is bad, a rollback tool has reported success
\* by the end of the run, unless both rollback calls failed, an exception ended the run, or
\* the metrics did not come (agents/verify.py; ship-to-prod's rollback step).
THEOREM BadReleasesAreRolledBack == Spec => []BadReleaseIsRolledBack
<1>1. GatesInv => BadReleaseIsRolledBack
  BY DEF GatesInv, ShipInv, ShippedInv, Verified, Handled, BadReleaseIsRolledBack, Running
<1> QED BY <1>1, InitGates, KeepsGates, PTL DEF Spec

---------------------------------------------------------------------------
(* Types.                                                                    *)

LEMMA TypesAreTyped ==
  ASSUME TypeOK
  PROVE  Typed /\ \A j \in Jobs : jobs[j] \in Job
<1>1. \A j \in Jobs : jobs[j] \in Job
  BY DEF TypeOK
<1>2. ASSUME NEW j \in Jobs PROVE IsJob(jobs[j])
  <2>1. jobs[j] \in Job
    BY <1>1
  <2>2. DOMAIN jobs[j] = Fields
    BY <2>1, FieldNames DEF Job
  <2> QED BY <2>1, <2>2 DEF Job, IsJob
<1> QED BY <1>1, <1>2, ScenesAssumption DEF TypeOK, Typed

LEMMA SceneFacts ==
  ASSUME TypeOK
  PROVE  /\ scene.facts \in Facts /\ scene.faults \in Nat /\ scene.head \in Revisions
         /\ scene.history \in Seq(Revisions) /\ scene.action \in Actions
BY ScenesAssumption DEF TypeOK, Scene

\* No agent makes more than four calls.
LEMMA FewCalls ==
  ASSUME NEW j \in Jobs
  PROVE  Len(TheAgent(j).calls) \in 0..4
<1> USE DEF Agent
<1>1. CASE Slug(j) \in {"code-review", "test-runner", "build", "security-scan"}
  BY <1>1 DEF TheAgent, CodeReviewAgent, TestRunnerAgent, BuildAgent, SecurityScanAgent
<1>2. CASE Slug(j) \in {"deploy", "verify", "rollback", "incident-triage"}
  BY <1>2 DEF TheAgent, DeployAgent, VerifyAgent, RollbackAgent, IncidentTriageAgent
<1>3. CASE Slug(j) \in {"diagnose", "terraform-plan", "terraform-apply", "cost-analyzer"}
  BY <1>3 DEF TheAgent, DiagnoseAgent, TerraformPlanAgent, TerraformApplyAgent, CostAnalyzerAgent
<1>4. CASE Slug(j) = "remediate"
  BY <1>4 DEF TheAgent, RemediateAgent
<1>5. CASE Slug(j) \in {"postmortem", "notify"}
  BY <1>5 DEF TheAgent, PostmortemAgent, NotifyAgent
<1>6. CASE Slug(j) \notin {"code-review", "test-runner", "build", "security-scan", "deploy", "verify", "rollback",
                           "incident-triage", "diagnose", "remediate", "terraform-plan", "terraform-apply",
                           "cost-analyzer", "postmortem", "notify"}
  BY <1>6 DEF TheAgent, Fallback
<1> QED BY <1>1, <1>2, <1>3, <1>4, <1>5, <1>6

LEMMA ShortPlans == \A plan \in PlanNames : Len(Plan[plan]) \in 0..7
BY DEF Plan, PlanNames

LEMMA BroughtNames == \A tool : Brings(tool) \subseteq DOMAIN Missing \cup Reverts
BY DEF Brings, Missing

\* What no call changes.
Same(job, new) ==
  /\ new.plan = job.plan /\ new.at = job.at /\ new.out = job.out
  /\ new.carried = job.carried /\ new.before = job.before /\ new.back = job.back

\* A call's answer.
Answer(job, r, answer) ==
  /\ Same(job, r) /\ r.wait = "call"
  /\ answer # "raise" => r.pc = job.pc + 1
  /\ r.pc = job.pc \/ r.pc = job.pc + 1

LEMMA ReturnJob ==
  ASSUME TypeOK, NEW job \in Job, job.pc \in 1..4, NEW tool, NEW answer
  PROVE  Return(job, tool, answer) \in Job /\ Answer(job, Return(job, tool, answer), answer)
<1> DEFINE kept == Keep(job.seen, Brings(tool))  brought == job.blind \cup Brings(tool)  next == job.pc + 1
<1>1. kept \in Facts
  BY KeepType, TypesAreTyped DEF Job
<1>2. brought \in SUBSET (DOMAIN Missing \cup Reverts \cup {"overlap", "raised"})
  BY BroughtNames DEF Job
<1>n. next \in 1..5
  BY DEF Job
<1> HIDE DEF kept, brought, next
<1>3. CASE answer = "raise"
  <2> DEFINE x == [job EXCEPT !.status = "failed", !.wait = "call", !.blind = @ \cup {"raised"}]
  <2>1. x \in Job
    BY DEF Job, Waits
  <2>2. Same(job, x) /\ x.wait = "call" /\ x.pc = job.pc
    BY DEF Job, Same
  <2>3. Return(job, tool, answer) = x
    BY <1>3 DEF Return
  <2> HIDE DEF x
  <2> QED BY <1>3, <2>1, <2>2, <2>3 DEF Answer
<1>4. CASE answer = "ok"
  <2> DEFINE x == [job EXCEPT !.pc = next, !.wait = "call", !.seen = kept, !.undone = @ \/ tool \in Reverts]
  <2>1. x \in Job
    BY <1>1, <1>n DEF Job, Waits
  <2>2. Same(job, x) /\ x.wait = "call" /\ x.pc = next
    BY DEF Job, Same
  <2>3. Return(job, tool, answer) = x
    BY <1>4 DEF Return, kept, next
  <2> HIDE DEF x
  <2> QED BY <2>1, <2>2, <2>3 DEF Answer, next
<1>5. CASE answer \notin {"raise", "ok"}
  <2> DEFINE x == [job EXCEPT !.pc = next, !.wait = "call", !.blind = brought]
  <2>1. x \in Job
    BY <1>2, <1>n DEF Job, Waits
  <2>2. Same(job, x) /\ x.wait = "call" /\ x.pc = next
    BY DEF Job, Same
  <2>3. Return(job, tool, answer) = x
    BY <1>5 DEF Return, brought, next
  <2> HIDE DEF x
  <2> QED BY <2>1, <2>2, <2>3 DEF Answer, next
<1> QED BY <1>3, <1>4, <1>5

LEMMA ShippingJob ==
  ASSUME NEW job, NEW answer, NEW r \in Job, Answer(job, r, answer), NEW b \in BOOLEAN
  PROVE  [r EXCEPT !.shipped = b] \in Job /\ Answer(job, [r EXCEPT !.shipped = b], answer)
<1> DEFINE t == [r EXCEPT !.shipped = b]
<1>1. t \in Job
  BY DEF Job
<1>2. t.wait = r.wait /\ t.pc = r.pc /\ Same(r, t)
  BY DEF Job, Same
<1> HIDE DEF t
<1>3. Answer(job, t, answer)
  BY <1>2 DEF Answer, Same
<1> QED BY <1>1, <1>3 DEF t

ArgoState == [target: Nat, head: Revisions, live: Nat, history: Seq(Revisions), status: {"Synced", "OutOfSync"},
              op: SUBSET Jobs, orders: Nat, failed: Nat]

LEMMA TypeFrame ==
  ASSUME TypeOK, NEW j \in Jobs, NEW new \in Job, jobs' = [jobs EXCEPT ![j] = new], scene' = scene,
         faults' \in 0..scene.faults, report' \in {"none", "empty", "full"}, argo' \in ArgoState, redis' \in 0..18
  PROVE  TypeOK' /\ jobs'[j] = new /\ Others(j)
<1>1. jobs' \in [Jobs -> Job] /\ jobs'[j] = new /\ Others(j)
  BY DEF TypeOK, Others
<1> QED BY <1>1 DEF TypeOK, ArgoState

LEMMA CallingType ==
  ASSUME TypeOK, NEW j \in Jobs, InCall(j)
  PROVE  jobs[j] \in Job /\ jobs[j].pc \in 1..4 /\ jobs[j].at \in 1..7 /\ Running(j)
<1>1. jobs[j] \in Job /\ jobs[j].plan \in PlanNames
  BY TypesAreTyped DEF Job
<1>2. Len(TheAgent(j).calls) \in 0..4 /\ Len(Plan[jobs[j].plan]) \in 0..7
  BY <1>1, FewCalls, ShortPlans
<1>3. jobs[j].pc <= Len(TheAgent(j).calls) /\ jobs[j].at <= Len(Plan[jobs[j].plan]) /\ Running(j)
  BY DEF InCall
<1>4. jobs[j].pc \in 1..5 /\ jobs[j].at \in 1..8
  BY <1>1 DEF Job
<1> DEFINE calls == Len(TheAgent(j).calls)  steps == Len(Plan[jobs[j].plan])
<1> HIDE DEF calls, steps
<1>5. calls \in 0..4 /\ steps \in 0..7 /\ jobs[j].pc <= calls /\ jobs[j].at <= steps
  BY <1>2, <1>3 DEF calls, steps
<1>6. jobs[j].pc \in 1..4 /\ jobs[j].at \in 1..7
  BY <1>4, <1>5
<1> QED BY <1>1, <1>3, <1>6

LEMMA ExitType ==
  ASSUME TypeOK, NEW j \in Jobs, NEW x, Exit(j, x)
  PROVE  faults' \in 0..scene.faults
BY SceneFacts DEF TypeOK, Exit

LEMMA ReplicasType ==
  ASSUME TypeOK, NEW j \in Jobs
  PROVE  Replicas(j) \in 0..18
<1>1. jobs[j].out.replicas \in 0..18
  BY TypesAreTyped DEF Job
<1> QED BY <1>1, BoundsAssumption DEF Replicas, Clamp

LEMMA EffectType == \A x, done, undone : Effect(x, done, undone) \subseteq {done, undone}
BY DEF Effect

\* The calls that take one step.
LEMMA CallStep ==
  ASSUME TypeOK, NEW j \in Jobs, CallTool(j) \/ CallStub(j) \/ Refuse(j)
  PROVE  /\ TypeOK' /\ Others(j) /\ argo' = argo /\ InCall(j) /\ Same(jobs[j], jobs'[j])
         /\ jobs'[j].wait = "call"
         /\ \/ jobs'[j].pc = jobs[j].pc + 1
            \/ jobs'[j].pc = jobs[j].pc /\ Tool(j) \notin {"argocd.sync", "argocd.rollback"}
<1>1. InCall(j) /\ scene' = scene /\ report' = report /\ argo' = argo
  BY DEF CallTool, CallStub, Refuse
<1>2. jobs[j] \in Job /\ jobs[j].pc \in 1..4
  BY <1>1, CallingType
<1> DEFINE Got(answer) ==
             /\ \/ jobs' = [jobs EXCEPT ![j] = [Return(jobs[j], Tool(j), answer)
                                              EXCEPT !.shipped = @ \/ Tool(j) = "helm.upgrade"]]
                \/ jobs' = [jobs EXCEPT ![j] = Return(jobs[j], Tool(j), answer)]
             /\ answer # "raise" \/ Tool(j) \notin {"argocd.sync", "argocd.rollback"}
<1>3. PICK answer : Got(answer)
  <2>1. CASE CallTool(j)
    <3>1. PICK x : jobs' = [jobs EXCEPT ![j] = [Return(jobs[j], Tool(j), AnswerOf(j, x))
                                              EXCEPT !.shipped = @ \/ Tool(j) = "helm.upgrade"]]
      BY <2>1 DEF CallTool
    <3>2. ASSUME Tool(j) \in {"argocd.sync", "argocd.rollback"} PROVE FALSE
      BY <2>1, <3>2 DEF CallTool, Stepwise
    <3>3. Got(AnswerOf(j, x))
      BY <3>1, <3>2
    <3> QED BY <3>3
  <2>2. CASE CallStub(j)
    <3>1. Got("ok")
      BY <2>2 DEF CallStub
    <3> QED BY <3>1
  <2>3. CASE Refuse(j)
    <3>1. Got("error")
      BY <2>3 DEF Refuse, Answers
    <3> QED BY <3>1
  <2> QED BY <2>1, <2>2, <2>3
<1> DEFINE r == Return(jobs[j], Tool(j), answer)
           s == [r EXCEPT !.shipped = @ \/ Tool(j) = "helm.upgrade"]
<1>4. r \in Job /\ Answer(jobs[j], r, answer)
  BY <1>2, ReturnJob
<1> HIDE DEF r
<1>5. s \in Job /\ Answer(jobs[j], s, answer)
  <2> DEFINE ships == (r.shipped \/ Tool(j) = "helm.upgrade")
  <2>1. ships \in BOOLEAN
    BY <1>4 DEF Job
  <2>2. s = [r EXCEPT !.shipped = ships]
    BY <1>4 DEF Job
  <2> HIDE DEF ships, s
  <2> QED BY <1>4, <2>1, <2>2, ShippingJob
<1>6. jobs' = [jobs EXCEPT ![j] = r] \/ jobs' = [jobs EXCEPT ![j] = s]
  BY <1>3 DEF r
<1>7. faults' \in 0..scene.faults /\ redis' \in 0..18
  <2>1. CASE CallTool(j)
    <3>1. faults' \in 0..scene.faults
      BY <2>1, ExitType DEF CallTool
    <3>2. redis' \in {Replicas(j), redis}
      BY <2>1, EffectType DEF CallTool
    <3> QED BY <3>1, <3>2, ReplicasType DEF TypeOK
  <2>2. CASE CallStub(j) \/ Refuse(j)
    BY <2>2 DEF CallStub, Refuse, TypeOK
  <2> QED BY <2>1, <2>2
<1>8. report' \in {"none", "empty", "full"} /\ argo' \in ArgoState
  BY <1>1 DEF TypeOK, ArgoState
<1> HIDE DEF s
<1>9. PICK new \in {r, s} : jobs' = [jobs EXCEPT ![j] = new]
  BY <1>6
<1>10. TypeOK' /\ jobs'[j] = new /\ Others(j)
  BY <1>1, <1>4, <1>5, <1>7, <1>8, <1>9, TypeFrame
<1> QED BY <1>1, <1>3, <1>4, <1>5, <1>9, <1>10 DEF Answer

\* secrets.scan
LEMMA ScanStep ==
  ASSUME TypeOK, NEW j \in Jobs, Scan(j) \/ WriteReport(j) \/ ReadReport(j)
  PROVE  /\ TypeOK' /\ Others(j) /\ argo' = argo /\ redis' = redis /\ InCall(j) /\ Same(jobs[j], jobs'[j])
         /\ jobs'[j].wait \in {"call", "report", "read"} /\ Tool(j) = "secrets.scan"
         /\ jobs'[j].pc = jobs[j].pc \/ jobs'[j].pc = jobs[j].pc + 1
<1>1. /\ InCall(j) /\ scene' = scene /\ argo' = argo /\ redis' = redis /\ Tool(j) = "secrets.scan"
  BY DEF Scan, WriteReport, ReadReport, At
<1>2. jobs[j] \in Job /\ jobs[j].pc \in 1..4
  BY <1>1, CallingType
<1>3. faults' \in 0..scene.faults /\ report' \in {"none", "empty", "full"} /\ argo' \in ArgoState /\ redis' \in 0..18
  <2>1. argo' \in ArgoState /\ redis' \in 0..18
    BY <1>1 DEF TypeOK, ArgoState
  <2>2. report' \in {"none", "empty", "full"}
    BY DEF TypeOK, Scan, WriteReport, ReadReport
  <2>3. faults' \in 0..scene.faults
    BY ExitType DEF Scan, WriteReport, ReadReport, TypeOK
  <2> QED BY <2>1, <2>2, <2>3
<1> SUFFICES ASSUME NEW new \in Job, jobs' = [jobs EXCEPT ![j] = new], Same(jobs[j], new),
                    new.wait \in {"call", "report", "read"}, new.pc = jobs[j].pc \/ new.pc = jobs[j].pc + 1
             PROVE  TypeOK' /\ Others(j) /\ jobs'[j] = new
  <2> DEFINE w(wait) == [jobs[j] EXCEPT !.wait = wait]
             r(answer) == Return(jobs[j], Tool(j), answer)
             o == [jobs[j] EXCEPT !.pc = @ + 1, !.wait = "call", !.blind = @ \cup {"overlap"}]
  <2>1. \/ \E wait \in {"report", "read"} : jobs' = [jobs EXCEPT ![j] = w(wait)]
        \/ \E answer : jobs' = [jobs EXCEPT ![j] = r(answer)]
        \/ jobs' = [jobs EXCEPT ![j] = o]
    BY DEF Scan, WriteReport, ReadReport, Answers
  <2>2. \A wait \in {"report", "read"} : w(wait) \in Job /\ Same(jobs[j], w(wait)) /\ w(wait).wait = wait
                                         /\ w(wait).pc = jobs[j].pc
    BY <1>2 DEF Job, Waits, Same
  <2>3. \A answer : r(answer) \in Job /\ Answer(jobs[j], r(answer), answer)
    BY <1>2, ReturnJob
  <2>4. o \in Job
    <3>1. jobs[j].pc + 1 \in 1..5 /\ jobs[j].blind \cup {"overlap"} \in SUBSET (DOMAIN Missing \cup Reverts \cup {"overlap", "raised"})
      BY <1>2 DEF Job
    <3> QED BY <1>2, <3>1 DEF Job, Waits
  <2>5. Same(jobs[j], o) /\ o.wait = "call" /\ o.pc = jobs[j].pc + 1
    BY <1>2 DEF Job, Same
  <2> HIDE DEF w, r, o
  <2> QED BY <1>1, <2>1, <2>2, <2>3, <2>4, <2>5 DEF Answer
<1> QED BY <1>1, <1>3, TypeFrame

---------------------------------------------------------------------------
(* The steps of argocd.sync and argocd.rollback.                             *)

\* The rollback has picked the revision to go back to.
PicksBack(j) ==
  /\ jobs[j].wait = "call" /\ jobs'[j].wait = "patch" /\ jobs'[j].pc = jobs[j].pc
  /\ jobs'[j].plan = jobs[j].plan /\ jobs'[j].at = jobs[j].at /\ jobs'[j].out = jobs[j].out
  /\ jobs'[j].carried = jobs[j].carried /\ jobs'[j].before = jobs[j].before
  /\ Len(argo.history) >= 2 /\ jobs'[j].back = Previous(argo.history)

\* The call has come back.
ComesBack(j) ==
  /\ Same(jobs[j], jobs'[j]) /\ jobs'[j].wait = "call"
  /\ jobs'[j].pc = jobs[j].pc \/ jobs'[j].pc = jobs[j].pc + 1

LEMMA PreviousType == \A history \in Seq(Revisions) : Len(history) >= 2 => Previous(history) \in Revisions
BY DEF Previous

LEMMA ReadHistoryStep ==
  ASSUME TypeOK, NEW j \in Jobs, ReadHistory(j)
  PROVE  /\ TypeOK' /\ Others(j) /\ argo' = argo /\ InCall(j) /\ Tool(j) = "argocd.rollback"
         /\ PicksBack(j) \/ ComesBack(j)
<1>1. /\ InCall(j) /\ Tool(j) = "argocd.rollback" /\ jobs[j].wait = "call"
      /\ scene' = scene /\ report' = report /\ argo' = argo /\ redis' = redis
  BY DEF ReadHistory, At
<1>2. jobs[j] \in Job /\ jobs[j].pc \in 1..4
  BY <1>1, CallingType
<1>3. faults' \in 0..scene.faults
  BY ExitType DEF ReadHistory
<1>4. report' \in {"none", "empty", "full"} /\ argo' \in ArgoState /\ redis' \in 0..18
  BY <1>1 DEF TypeOK, ArgoState
<1> DEFINE w == [jobs[j] EXCEPT !.wait = "patch", !.back = Previous(argo.history)]
           r(answer) == Return(jobs[j], Tool(j), answer)
<1>5. \/ jobs' = [jobs EXCEPT ![j] = w] /\ Len(argo.history) >= 2
      \/ \E answer : jobs' = [jobs EXCEPT ![j] = r(answer)]
  BY DEF ReadHistory, Answers
<1>6. CASE jobs' = [jobs EXCEPT ![j] = w] /\ Len(argo.history) >= 2
  <2>1. Previous(argo.history) \in Nat
    BY <1>6, PreviousType DEF TypeOK, Revisions
  <2>2. w \in Job
    BY <1>2, <2>1 DEF Job, Waits
  <2>3. w.wait = "patch" /\ w.back = Previous(argo.history) /\ w.pc = jobs[j].pc /\ w.plan = jobs[j].plan
        /\ w.at = jobs[j].at /\ w.out = jobs[j].out /\ w.carried = jobs[j].carried /\ w.before = jobs[j].before
    BY <1>2 DEF Job
  <2> HIDE DEF w
  <2>4. TypeOK' /\ jobs'[j] = w /\ Others(j)
    BY <1>1, <1>3, <1>4, <1>6, <2>2, TypeFrame
  <2> QED BY <1>1, <1>6, <2>3, <2>4 DEF PicksBack
<1>7. ASSUME NEW answer, jobs' = [jobs EXCEPT ![j] = r(answer)]
      PROVE  TypeOK' /\ Others(j) /\ ComesBack(j)
  <2>1. r(answer) \in Job /\ Answer(jobs[j], r(answer), answer)
    BY <1>2, ReturnJob
  <2> HIDE DEF r
  <2>2. TypeOK' /\ jobs'[j] = r(answer) /\ Others(j)
    BY <1>1, <1>3, <1>4, <1>7, <2>1, TypeFrame
  <2> QED BY <2>1, <2>2 DEF Answer, ComesBack
<1> QED BY <1>1, <1>5, <1>6, <1>7

LEMMA PatchTargetStep ==
  ASSUME TypeOK, NEW j \in Jobs, PatchTarget(j)
  PROVE  /\ TypeOK' /\ Others(j) /\ InCall(j) /\ Tool(j) = "argocd.rollback" /\ jobs[j].wait = "patch"
         /\ argo'.op = argo.op /\ argo'.history = argo.history /\ argo'.live = argo.live
         /\ \/ ComesBack(j) /\ jobs'[j].pc = jobs[j].pc + 1
            \/ Same(jobs[j], jobs'[j]) /\ jobs'[j].wait = "sync" /\ jobs'[j].pc = jobs[j].pc
<1>1. /\ InCall(j) /\ Tool(j) = "argocd.rollback" /\ jobs[j].wait = "patch"
      /\ scene' = scene /\ report' = report /\ redis' = redis
  BY DEF PatchTarget, At
<1>2. jobs[j] \in Job /\ jobs[j].pc \in 1..4
  BY <1>1, CallingType
<1>3. faults' \in 0..scene.faults
  BY ExitType DEF PatchTarget
<1>4. report' \in {"none", "empty", "full"} /\ redis' \in 0..18
  BY <1>1 DEF TypeOK
<1> DEFINE patched == [argo EXCEPT !.target = jobs[j].back, !.orders = @ + 1]
           w == [jobs[j] EXCEPT !.wait = "sync", !.mine = argo.orders + 1, !.claims = 0]
           r == Return(jobs[j], Tool(j), "error")
<1>5. argo' \in {patched, argo} /\ (jobs' = [jobs EXCEPT ![j] = w] \/ jobs' = [jobs EXCEPT ![j] = r])
  <2>1. PICK x : argo' \in Effect(x, patched, argo)
    BY DEF PatchTarget
  <2>2. jobs' = [jobs EXCEPT ![j] = w] \/ jobs' = [jobs EXCEPT ![j] = r]
    BY DEF PatchTarget, Answers
  <2> QED BY <2>1, <2>2, EffectType
<1>6. argo \in ArgoState /\ argo.orders + 1 \in Nat /\ jobs[j].back \in Nat
  BY <1>2 DEF TypeOK, ArgoState, Job
<1>7. argo' \in ArgoState /\ argo'.op = argo.op /\ argo'.history = argo.history /\ argo'.live = argo.live
  BY <1>5, <1>6 DEF ArgoState
<1> HIDE DEF patched
<1>8. w \in Job /\ Same(jobs[j], w) /\ w.wait = "sync" /\ w.pc = jobs[j].pc
  <2>1. w \in Job
    BY <1>2, <1>6 DEF Job, Waits
  <2>2. Same(jobs[j], w) /\ w.wait = "sync" /\ w.pc = jobs[j].pc
    BY <1>2 DEF Same, Job
  <2> QED BY <2>1, <2>2
<1>9. r \in Job /\ Answer(jobs[j], r, "error")
  BY <1>2, ReturnJob
<1> HIDE DEF w, r
<1>10. PICK new \in {w, r} : jobs' = [jobs EXCEPT ![j] = new]
  BY <1>5
<1>11. TypeOK' /\ jobs'[j] = new /\ Others(j)
  BY <1>1, <1>3, <1>4, <1>7, <1>8, <1>9, <1>10, TypeFrame
<1>12. CASE new = w
  BY <1>1, <1>7, <1>8, <1>11, <1>12
<1>13. CASE new = r
  <2>1. ComesBack(j) /\ jobs'[j].pc = jobs[j].pc + 1
    BY <1>9, <1>11, <1>13 DEF Answer, ComesBack
  <2> QED BY <1>1, <1>7, <1>11, <2>1
<1> QED BY <1>10, <1>12, <1>13

\* What an order to sync leaves of the job.
Orders(j) ==
  /\ jobs'[j].plan = jobs[j].plan /\ jobs'[j].at = jobs[j].at /\ jobs'[j].out = jobs[j].out
  /\ jobs'[j].carried = jobs[j].carried /\ jobs'[j].back = jobs[j].back
  /\ jobs'[j].before = IF Tool(j) = "argocd.sync" THEN argo.live ELSE jobs[j].before
  /\ \/ jobs'[j].wait = "poll" /\ jobs'[j].pc = jobs[j].pc
     \/ jobs'[j].wait = "call" /\ jobs'[j].pc = jobs[j].pc + 1

LEMMA OrderSyncStep ==
  ASSUME TypeOK, NEW j \in Jobs, OrderSync(j)
  PROVE  /\ TypeOK' /\ Others(j) /\ InCall(j) /\ Orders(j)
         /\ \/ Tool(j) = "argocd.sync" /\ jobs[j].wait = "call"
            \/ Tool(j) = "argocd.rollback" /\ jobs[j].wait = "sync"
         /\ argo'.op \in {argo.op, {j}} /\ argo'.history = argo.history /\ argo'.live = argo.live
<1>1. /\ InCall(j) /\ scene' = scene /\ report' = report /\ redis' = redis
      /\ \/ Tool(j) = "argocd.sync" /\ jobs[j].wait = "call"
         \/ Tool(j) = "argocd.rollback" /\ jobs[j].wait = "sync"
  BY DEF OrderSync, At
<1>2. jobs[j] \in Job /\ jobs[j].pc \in 1..4
  BY <1>1, CallingType
<1>3. faults' \in 0..scene.faults
  BY ExitType DEF OrderSync
<1>4. report' \in {"none", "empty", "full"} /\ redis' \in 0..18
  BY <1>1 DEF TypeOK
<1> DEFINE live == IF Tool(j) = "argocd.sync" THEN argo.live ELSE jobs[j].before
           job == [jobs[j] EXCEPT !.before = live]
           mine == IF Tool(j) = "argocd.sync" \/ jobs[j].mine = argo.orders THEN argo.orders + 1 ELSE 0
           ordered == [argo EXCEPT !.op = {j}, !.orders = @ + 1]
           w == [job EXCEPT !.wait = "poll", !.polls = 0, !.mine = mine]
           r == Return(job, Tool(j), "error")
<1>5. argo' \in {ordered, argo}
  <2>1. PICK x : argo' \in Effect(x, ordered, argo)
    BY DEF OrderSync
  <2> QED BY <2>1, EffectType
<1>6. argo \in ArgoState /\ argo.orders + 1 \in Nat /\ argo.live \in Nat
  BY DEF TypeOK, ArgoState
<1>7. live \in Nat /\ mine \in Nat
  BY <1>2, <1>6 DEF Job
<1>8. jobs[j].mine \in Nat /\ job.mine = jobs[j].mine
  BY <1>2 DEF Job
<1>9. jobs' = [jobs EXCEPT ![j] = w] \/ jobs' = [jobs EXCEPT ![j] = r]
  BY <1>8 DEF OrderSync
<1>10. /\ argo' \in ArgoState /\ argo'.op \in {argo.op, {j}} /\ argo'.history = argo.history /\ argo'.live = argo.live
  <2>1. ordered \in ArgoState
    BY <1>6 DEF ArgoState
  <2>2. ordered.op = {j} /\ ordered.history = argo.history /\ ordered.live = argo.live
    BY <1>6 DEF ArgoState
  <2> HIDE DEF ordered
  <2> QED BY <1>5, <1>6, <2>1, <2>2
<1> HIDE DEF ordered, live, mine
<1>11. job \in Job /\ job.plan = jobs[j].plan /\ job.at = jobs[j].at /\ job.out = jobs[j].out /\ job.pc = jobs[j].pc
       /\ job.carried = jobs[j].carried /\ job.back = jobs[j].back /\ job.before = live
  BY <1>2, <1>7 DEF Job
<1> HIDE DEF job
<1>12. w \in Job
  <2>1. 0 \in 0..MaxPolls /\ "poll" \in Waits
    BY BoundsAssumption DEF Waits
  <2> QED BY <1>7, <1>11, <2>1 DEF Job
<1>13. Same(job, w) /\ w.wait = "poll" /\ w.pc = job.pc
  BY <1>11 DEF Same, Job
<1>14. r \in Job /\ Answer(job, r, "error")
  BY <1>2, <1>11, ReturnJob
<1> HIDE DEF w, r
<1>15. PICK new \in {w, r} : jobs' = [jobs EXCEPT ![j] = new]
  BY <1>9
<1>16. TypeOK' /\ jobs'[j] = new /\ Others(j)
  BY <1>1, <1>3, <1>4, <1>10, <1>12, <1>14, <1>15, TypeFrame
<1>17. Same(job, new) /\ ((new.wait = "poll" /\ new.pc = job.pc) \/ (new.wait = "call" /\ new.pc = job.pc + 1))
  BY <1>13, <1>14 DEF Answer
<1>18. Orders(j)
  BY <1>11, <1>16, <1>17 DEF Orders, Same, live
<1> QED BY <1>1, <1>10, <1>16, <1>18

LEMMA PollStep ==
  ASSUME TypeOK, NEW j \in Jobs, Poll(j)
  PROVE  /\ TypeOK' /\ Others(j) /\ InCall(j) /\ argo' = argo
         /\ Tool(j) \in {"argocd.sync", "argocd.rollback"} /\ jobs[j].wait = "poll"
         /\ \/ ComesBack(j) /\ jobs'[j].pc = jobs[j].pc + 1
            \/ Same(jobs[j], jobs'[j]) /\ jobs'[j].wait = "poll" /\ jobs'[j].pc = jobs[j].pc
<1>1. /\ InCall(j) /\ scene' = scene /\ faults' = faults /\ report' = report /\ redis' = redis /\ argo' = argo
      /\ Tool(j) \in {"argocd.sync", "argocd.rollback"} /\ jobs[j].wait = "poll"
  BY DEF Poll, At
<1>2. jobs[j] \in Job /\ jobs[j].pc \in 1..4
  BY <1>1, CallingType
<1>3. faults' \in 0..scene.faults /\ report' \in {"none", "empty", "full"} /\ redis' \in 0..18 /\ argo' \in ArgoState
  BY <1>1 DEF TypeOK, ArgoState
<1> DEFINE ok == Return(jobs[j], Tool(j), "ok")
           claims == IF Tool(j) = "argocd.sync" THEN Wanted ELSE jobs[j].back
           c == [ok EXCEPT !.claims = claims]
           w == [jobs[j] EXCEPT !.polls = @ + 1]
           r == Return(jobs[j], Tool(j), "error")
<1>4. /\ \/ jobs' = [jobs EXCEPT ![j] = c] \/ jobs' = [jobs EXCEPT ![j] = r]
         \/ jobs' = [jobs EXCEPT ![j] = w] /\ jobs[j].polls < MaxPolls
  BY DEF Poll
<1>5. claims \in Nat
  BY <1>2 DEF TypeOK, Job, Wanted, Revisions
<1>6. ok \in Job /\ Answer(jobs[j], ok, "ok") /\ r \in Job /\ Answer(jobs[j], r, "error")
  BY <1>2, ReturnJob
<1> HIDE DEF claims, ok, r
<1>7. c \in Job /\ Same(ok, c) /\ c.wait = ok.wait /\ c.pc = ok.pc
  <2>1. c \in Job
    BY <1>5, <1>6 DEF Job
  <2>2. Same(ok, c) /\ c.wait = ok.wait /\ c.pc = ok.pc
    BY <1>6 DEF Job, Same
  <2> QED BY <2>1, <2>2
<1>8. CASE jobs' = [jobs EXCEPT ![j] = w] /\ jobs[j].polls < MaxPolls
  <2>1. jobs[j].polls + 1 \in 0..MaxPolls
    BY <1>2, <1>8, BoundsAssumption DEF Job
  <2>2. w \in Job
    BY <1>2, <2>1 DEF Job
  <2>3. Same(jobs[j], w) /\ w.wait = "poll" /\ w.pc = jobs[j].pc
    BY <1>1, <1>2 DEF Same, Job
  <2> HIDE DEF w
  <2>4. TypeOK' /\ jobs'[j] = w /\ Others(j)
    BY <1>1, <1>3, <1>8, <2>2, TypeFrame
  <2> QED BY <1>1, <2>3, <2>4
<1> HIDE DEF c
<1>9. ASSUME NEW new \in {c, r}, jobs' = [jobs EXCEPT ![j] = new]
      PROVE  TypeOK' /\ Others(j) /\ ComesBack(j) /\ jobs'[j].pc = jobs[j].pc + 1
  <2>1. new \in Job /\ Same(jobs[j], new) /\ new.wait = "call" /\ new.pc = jobs[j].pc + 1
    BY <1>6, <1>7 DEF Answer, Same
  <2>2. TypeOK' /\ jobs'[j] = new /\ Others(j)
    BY <1>1, <1>3, <1>9, <2>1, TypeFrame
  <2> QED BY <2>1, <2>2 DEF ComesBack
<1> QED BY <1>1, <1>4, <1>8, <1>9

---------------------------------------------------------------------------
(* The steps of a plan, and of Argo CD.                                      *)

\* What the end of an agent, a step skipped and the end of the plan leave.
Going(j) ==
  /\ jobs'[j].plan = jobs[j].plan /\ jobs'[j].wait = jobs[j].wait /\ jobs'[j].carried = jobs[j].carried
  /\ jobs'[j].before = jobs[j].before /\ jobs'[j].back = jobs[j].back

\* What an agent passes on to the next ones.
PassedOn(slug, job) ==
  CASE slug = "incident-triage" -> [job.out EXCEPT !.severity = job.seen.severity]
    [] slug = "diagnose"        -> Recommend(job.seen, job.out.severity)
    [] OTHER                    -> job.out

LEMMA PassedOnType ==
  ASSUME NEW job \in Job, NEW slug
  PROVE  PassedOn(slug, job) \in [severity: Severities, action: Actions, replicas: 0..18]
<1>1. /\ job.out \in [severity: Severities, action: Actions, replicas: 0..18]
      /\ job.seen.severity \in Severities /\ job.seen.desired \in 0..6
  BY DEF Job, Facts
<1>2. 3 * job.seen.desired \in 0..18
  BY <1>1
<1>3. Recommend(job.seen, job.out.severity) \in [severity: Severities, action: Actions, replicas: 0..18]
  BY <1>1, <1>2 DEF Recommend, Actions
<1>4. [job.out EXCEPT !.severity = job.seen.severity] \in [severity: Severities, action: Actions, replicas: 0..18]
  BY <1>1
<1> QED BY <1>1, <1>3, <1>4 DEF PassedOn

LEMMA ConcludeStep ==
  ASSUME TypeOK, NEW j \in Jobs, Conclude(j)
  PROVE  /\ TypeOK' /\ Others(j) /\ argo' = argo /\ redis' = redis /\ Going(j)
         /\ jobs'[j].at = jobs[j].at + 1 /\ jobs'[j].pc = 1 /\ jobs'[j].seen = Missing
         /\ jobs'[j].out = PassedOn(Slug(j), jobs[j]) /\ jobs'[j].blind = jobs[j].blind
<1>1. /\ scene' = scene /\ faults' = faults /\ report' = report /\ argo' = argo /\ redis' = redis
      /\ jobs[j].at <= Len(Plan[jobs[j].plan])
  BY DEF Conclude
<1>2. jobs[j] \in Job /\ jobs[j].plan \in PlanNames
  BY TypesAreTyped DEF Job
<1>3. faults' \in 0..scene.faults /\ report' \in {"none", "empty", "full"} /\ redis' \in 0..18 /\ argo' \in ArgoState
  BY <1>1 DEF TypeOK, ArgoState
<1> DEFINE bad == TheAgent(j).failed
           failed == jobs[j].failed \/ bad
           out == PassedOn(Slug(j), jobs[j])
           status == IF bad /\ StopsPipeline(Slug(j)) THEN "failed" ELSE jobs[j].status
           at == jobs[j].at + 1
           new == [jobs[j] EXCEPT !.failed = failed, !.out = out, !.status = status,
                                  !.at = at, !.pc = 1, !.seen = Missing]
<1>4. jobs' = [jobs EXCEPT ![j] = new]
  BY DEF Conclude, PassedOn
<1>5. failed \in BOOLEAN
  <2>1. bad \in BOOLEAN
    BY TypesAreTyped, VerdictType DEF Typed
  <2> HIDE DEF bad
  <2> QED BY <1>2, <2>1 DEF Job
<1>6. out \in [severity: Severities, action: Actions, replicas: 0..18]
  BY <1>2, PassedOnType
<1>7. status \in {"running", "success", "failed"}
  BY <1>2 DEF Job
<1>8. at \in 1..8
  <2>1. Len(Plan[jobs[j].plan]) \in 0..7
    BY <1>2, ShortPlans
  <2> DEFINE steps == Len(Plan[jobs[j].plan])
  <2>2. steps \in 0..7 /\ jobs[j].at <= steps
    BY <1>1, <2>1
  <2> HIDE DEF steps
  <2> QED BY <1>2, <2>2 DEF Job
<1>9. Missing \in Facts
  BY DEF Missing, Facts, Severities
<1> HIDE DEF failed, out, status, at
<1>10. new \in Job
  <2> DEFINE mid == [jobs[j] EXCEPT !.failed = failed, !.status = status]
  <2>1. mid \in Job
    BY <1>2, <1>5, <1>7 DEF Job
  <2> DEFINE most == [mid EXCEPT !.at = at, !.pc = 1]
  <2>2. new = [most EXCEPT !.out = out, !.seen = Missing]
    BY <1>2 DEF Job
  <2> HIDE DEF mid, new
  <2>3. most \in Job
    <3>1. 1 \in 1..5
      OBVIOUS
    <3> QED BY <1>8, <2>1, <3>1 DEF Job
  <2> HIDE DEF most
  <2> QED BY <1>6, <1>9, <2>2, <2>3 DEF Job
<1>11. /\ new.plan = jobs[j].plan /\ new.wait = jobs[j].wait /\ new.carried = jobs[j].carried
       /\ new.before = jobs[j].before /\ new.back = jobs[j].back /\ new.blind = jobs[j].blind
       /\ new.at = at /\ new.pc = 1 /\ new.seen = Missing /\ new.out = out
  BY <1>2 DEF Job
<1> HIDE DEF new
<1>12. TypeOK' /\ jobs'[j] = new /\ Others(j)
  BY <1>1, <1>3, <1>4, <1>10, TypeFrame
<1> QED BY <1>1, <1>11, <1>12 DEF Going, at, out

LEMMA SkipStep ==
  ASSUME TypeOK, NEW j \in Jobs, Skip(j)
  PROVE  /\ TypeOK' /\ Others(j) /\ argo' = argo /\ redis' = redis /\ Going(j)
         /\ jobs'[j].at = jobs[j].at + 1 /\ jobs'[j].pc = jobs[j].pc /\ jobs'[j].seen = jobs[j].seen
         /\ jobs'[j].out = jobs[j].out /\ jobs'[j].blind = jobs[j].blind
<1>1. /\ scene' = scene /\ faults' = faults /\ report' = report /\ argo' = argo /\ redis' = redis
      /\ jobs[j].at <= Len(Plan[jobs[j].plan])
  BY DEF Skip
<1>2. jobs[j] \in Job /\ jobs[j].plan \in PlanNames
  BY TypesAreTyped DEF Job
<1>3. faults' \in 0..scene.faults /\ report' \in {"none", "empty", "full"} /\ redis' \in 0..18 /\ argo' \in ArgoState
  BY <1>1 DEF TypeOK, ArgoState
<1> DEFINE at == jobs[j].at + 1
           new == [jobs[j] EXCEPT !.at = at]
<1>4. jobs' = [jobs EXCEPT ![j] = new]
  BY DEF Skip
<1>5. at \in 1..8
  <2>1. Len(Plan[jobs[j].plan]) \in 0..7
    BY <1>2, ShortPlans
  <2> DEFINE steps == Len(Plan[jobs[j].plan])
  <2>2. steps \in 0..7 /\ jobs[j].at <= steps
    BY <1>1, <2>1
  <2> HIDE DEF steps
  <2> QED BY <1>2, <2>2 DEF Job
<1> HIDE DEF at
<1>6. new \in Job
  BY <1>2, <1>5 DEF Job
<1>7. /\ new.plan = jobs[j].plan /\ new.wait = jobs[j].wait /\ new.carried = jobs[j].carried
      /\ new.before = jobs[j].before /\ new.back = jobs[j].back /\ new.blind = jobs[j].blind
      /\ new.at = at /\ new.pc = jobs[j].pc /\ new.seen = jobs[j].seen /\ new.out = jobs[j].out
  BY <1>2 DEF Job
<1> HIDE DEF new
<1>8. TypeOK' /\ jobs'[j] = new /\ Others(j)
  BY <1>1, <1>3, <1>4, <1>6, TypeFrame
<1> QED BY <1>1, <1>7, <1>8 DEF Going, at

LEMMA FinishStep ==
  ASSUME TypeOK, NEW j \in Jobs, Finish(j)
  PROVE  /\ TypeOK' /\ Others(j) /\ argo' = argo /\ redis' = redis /\ Going(j)
         /\ jobs'[j].at = jobs[j].at /\ jobs'[j].pc = jobs[j].pc /\ jobs'[j].seen = jobs[j].seen
         /\ jobs'[j].out = jobs[j].out /\ jobs'[j].blind = jobs[j].blind /\ jobs'[j].status # "running"
<1>1. scene' = scene /\ faults' = faults /\ report' = report /\ argo' = argo /\ redis' = redis
  BY DEF Finish
<1>2. jobs[j] \in Job
  BY TypesAreTyped
<1>3. faults' \in 0..scene.faults /\ report' \in {"none", "empty", "full"} /\ redis' \in 0..18 /\ argo' \in ArgoState
  BY <1>1 DEF TypeOK, ArgoState
<1> DEFINE status == IF jobs[j].failed THEN "failed" ELSE "success"
           new == [jobs[j] EXCEPT !.status = status]
<1>4. jobs' = [jobs EXCEPT ![j] = new] /\ status \in {"success", "failed"}
  BY DEF Finish
<1> HIDE DEF status
<1>5. new \in Job
  BY <1>2, <1>4 DEF Job
<1>6. /\ new.plan = jobs[j].plan /\ new.wait = jobs[j].wait /\ new.carried = jobs[j].carried
      /\ new.before = jobs[j].before /\ new.back = jobs[j].back /\ new.blind = jobs[j].blind
      /\ new.at = jobs[j].at /\ new.pc = jobs[j].pc /\ new.seen = jobs[j].seen /\ new.out = jobs[j].out
      /\ new.status # "running"
  BY <1>2, <1>4 DEF Job
<1> HIDE DEF new
<1>7. TypeOK' /\ jobs'[j] = new /\ Others(j)
  BY <1>1, <1>3, <1>4, <1>5, TypeFrame
<1> QED BY <1>1, <1>6, <1>7 DEF Going

LEMMA WantedType == TypeOK => Wanted \in Revisions
<1> SUFFICES ASSUME TypeOK PROVE Wanted \in Revisions
  OBVIOUS
<1>1. argo.target \in Nat /\ argo.head \in Revisions
  BY DEF TypeOK
<1> QED BY <1>1 DEF Wanted, Revisions

LEMMA ArgoSyncsStep ==
  ASSUME TypeOK, ArgoSyncs
  PROVE  /\ TypeOK' /\ redis' = redis /\ argo'.op = {} /\ argo'.live = Wanted
         /\ argo'.history = Append(argo.history, Wanted)
         /\ \A j \in Jobs :
              /\ Going(j) \/ (j \in argo.op /\ jobs[j].back = 0)
              /\ jobs'[j].plan = jobs[j].plan /\ jobs'[j].at = jobs[j].at /\ jobs'[j].pc = jobs[j].pc
              /\ jobs'[j].wait = jobs[j].wait /\ jobs'[j].seen = jobs[j].seen /\ jobs'[j].out = jobs[j].out
              /\ jobs'[j].blind = jobs[j].blind /\ jobs'[j].status = jobs[j].status
              /\ jobs'[j].before = jobs[j].before /\ jobs'[j].back = jobs[j].back
<1>1. /\ scene' = scene /\ faults' = faults /\ report' = report /\ redis' = redis
      /\ argo' = [argo EXCEPT !.op = {}, !.live = Wanted, !.history = Append(@, Wanted), !.status = "Synced"]
      /\ jobs' = [j \in Jobs |-> IF j \in argo.op THEN [jobs[j] EXCEPT !.carried = @ \/ jobs[j].back = 0] ELSE jobs[j]]
  BY DEF ArgoSyncs
<1>2. Wanted \in Revisions
  BY WantedType
<1>3. argo \in ArgoState
  BY DEF TypeOK, ArgoState
<1> DEFINE wanted == Wanted  longer == Append(argo.history, wanted)
<1>4. wanted \in Nat /\ longer \in Seq(Revisions)
  BY <1>2, <1>3 DEF Revisions, ArgoState
<1>5. argo' = [argo EXCEPT !.op = {}, !.live = wanted, !.history = longer, !.status = "Synced"]
  BY <1>1
<1> HIDE DEF wanted, longer
<1>6. argo' \in ArgoState /\ argo'.op = {} /\ argo'.live = wanted /\ argo'.history = longer
  BY <1>3, <1>4, <1>5 DEF ArgoState
<1>7. ASSUME NEW j \in Jobs
      PROVE  /\ jobs'[j] \in Job /\ (Going(j) \/ (j \in argo.op /\ jobs[j].back = 0))
             /\ jobs'[j].plan = jobs[j].plan /\ jobs'[j].at = jobs[j].at /\ jobs'[j].pc = jobs[j].pc
             /\ jobs'[j].wait = jobs[j].wait /\ jobs'[j].seen = jobs[j].seen /\ jobs'[j].out = jobs[j].out
             /\ jobs'[j].blind = jobs[j].blind /\ jobs'[j].status = jobs[j].status
             /\ jobs'[j].before = jobs[j].before /\ jobs'[j].back = jobs[j].back
  <2>1. jobs[j] \in Job
    BY TypesAreTyped
  <2> DEFINE carried == jobs[j].carried \/ jobs[j].back = 0
             new == [jobs[j] EXCEPT !.carried = carried]
  <2>2. jobs'[j] = IF j \in argo.op THEN new ELSE jobs[j]
    BY <1>1
  <2>3. carried \in BOOLEAN /\ (carried = jobs[j].carried \/ jobs[j].back = 0)
    BY <2>1 DEF Job
  <2> HIDE DEF carried
  <2>4. new \in Job
    BY <2>1, <2>3 DEF Job
  <2>5. /\ new.plan = jobs[j].plan /\ new.at = jobs[j].at /\ new.pc = jobs[j].pc /\ new.carried = carried
        /\ new.wait = jobs[j].wait /\ new.seen = jobs[j].seen /\ new.out = jobs[j].out
        /\ new.blind = jobs[j].blind /\ new.status = jobs[j].status
        /\ new.before = jobs[j].before /\ new.back = jobs[j].back
    BY <2>1 DEF Job
  <2> HIDE DEF new
  <2> QED BY <2>1, <2>2, <2>3, <2>4, <2>5 DEF Going
<1>8. jobs' \in [Jobs -> Job]
  BY <1>1, <1>7
<1>9. TypeOK'
  BY <1>1, <1>6, <1>8 DEF TypeOK, ArgoState
<1> QED BY <1>1, <1>6, <1>7, <1>9 DEF wanted, longer

LEMMA ArgoSyncFailsStep ==
  ASSUME TypeOK, ArgoSyncFails
  PROVE  /\ TypeOK' /\ redis' = redis /\ jobs' = jobs /\ scene' = scene
         /\ argo'.op = {} /\ argo'.live = argo.live /\ argo'.history = argo.history
<1>1. scene' = scene /\ report' = report /\ redis' = redis /\ jobs' = jobs
      /\ argo' = [argo EXCEPT !.op = {}, !.failed = argo.orders]
  BY DEF ArgoSyncFails
<1>2. faults' \in 0..scene.faults
  BY SceneFacts DEF ArgoSyncFails, TypeOK
<1>3. argo \in ArgoState
  BY DEF TypeOK, ArgoState
<1>4. argo' \in ArgoState /\ argo'.op = {} /\ argo'.live = argo.live /\ argo'.history = argo.history
  BY <1>1, <1>3 DEF ArgoState
<1> QED BY <1>1, <1>2, <1>4 DEF TypeOK, ArgoState

LEMMA ArgoRefreshesStep ==
  ASSUME TypeOK, ArgoRefreshes
  PROVE  /\ TypeOK' /\ redis' = redis /\ jobs' = jobs /\ scene' = scene
         /\ argo'.op = argo.op /\ argo'.live = argo.live /\ argo'.history = argo.history
<1>1. scene' = scene /\ faults' = faults /\ report' = report /\ redis' = redis /\ jobs' = jobs
  BY DEF ArgoRefreshes
<1>2. PICK status \in {"Synced", "OutOfSync"} : argo' = [argo EXCEPT !.status = status]
  BY DEF ArgoRefreshes
<1>3. argo \in ArgoState
  BY DEF TypeOK, ArgoState
<1>4. argo' \in ArgoState /\ argo'.op = argo.op /\ argo'.live = argo.live /\ argo'.history = argo.history
  BY <1>2, <1>3 DEF ArgoState
<1> QED BY <1>1, <1>4 DEF TypeOK, ArgoState

LEMMA InitTypes == Init => TypeOK
<1> SUFFICES ASSUME Init PROVE TypeOK
  OBVIOUS
<1>1. scene \in Scenes /\ scene \in Scene
  BY ScenesAssumption DEF Init
<1>2. ASSUME NEW plan \in PlanNames, NEW action \in Actions
      PROVE  NewJob(plan, action) \in Job
  <2> DEFINE out == [Given EXCEPT !.action = action]
             status == IF Plan[plan] = <<>> THEN "success" ELSE "running"
  <2>1. out \in [severity: Severities, action: Actions, replicas: 0..18]
    BY DEF Given, Severities, Actions
  <2>2. Missing \in Facts /\ 0 \in 0..MaxPolls /\ "call" \in Waits /\ status \in {"running", "success", "failed"}
    BY BoundsAssumption DEF Missing, Facts, Severities, Waits
  <2> HIDE DEF out, status
  <2>3. [ plan |-> plan, at |-> 1, pc |-> 1, wait |-> "call", failed |-> FALSE, status |-> status,
          seen |-> Missing, out |-> out, blind |-> {}, shipped |-> FALSE, undone |-> FALSE, carried |-> FALSE,
          polls |-> 0, before |-> 0, back |-> 0, claims |-> 0, mine |-> 0 ] \in Job
    BY <2>1, <2>2 DEF Job
  <2> QED BY <2>3 DEF NewJob, out, status
<1>3. jobs \in [Jobs -> Job]
  <2>1. scene.plans \in [Jobs -> PlanNames] /\ scene.action \in Actions
    BY <1>1 DEF Scene
  <2>2. \A j \in Jobs : NewJob(scene.plans[j], scene.action) \in Job
    BY <1>2, <2>1
  <2> QED BY <2>2 DEF Init
<1>4. scene.faults \in Nat /\ scene.head \in Revisions /\ scene.history \in Seq(Revisions)
      /\ scene.status \in {"Synced", "OutOfSync"}
  BY <1>1 DEF Scene
<1>5. Latest(scene.history) \in Nat
  BY <1>4 DEF Latest, Revisions
<1>6. argo \in ArgoState
  <2> DEFINE live == Latest(scene.history)
  <2>1. argo = [target |-> 0, head |-> scene.head, live |-> live, history |-> scene.history,
                status |-> scene.status, op |-> {}, orders |-> 0, failed |-> 0]
    BY DEF Init
  <2>2. live \in Nat
    BY <1>5
  <2> HIDE DEF live
  <2> QED BY <1>4, <2>1, <2>2 DEF ArgoState
<1> QED BY <1>1, <1>3, <1>4, <1>6 DEF Init, TypeOK, ArgoState

LEMMA KeepsTypes == TypeOK /\ [Next]_vars => TypeOK'
<1> SUFFICES ASSUME TypeOK, [Next]_vars PROVE TypeOK'
  OBVIOUS
<1>1. CASE UNCHANGED vars
  BY <1>1 DEF vars, TypeOK
<1>2. ASSUME NEW j \in Jobs, JobStep(j)
      PROVE  TypeOK'
  BY <1>2, CallStep, ScanStep, ReadHistoryStep, PatchTargetStep, OrderSyncStep, PollStep, ConcludeStep, SkipStep,
     FinishStep DEF JobStep
<1> QED BY <1>1, <1>2, ArgoSyncsStep, ArgoSyncFailsStep, ArgoRefreshesStep DEF Next

\* Every variable keeps its type: no job counts past its plan or its agent's calls, no more
\* calls go wrong than the situation allows, Argo CD's orders and history stay well formed.
THEOREM TypeCorrect == Spec => []TypeOK
<1> QED BY InitTypes, KeepsTypes, PTL DEF Spec

---------------------------------------------------------------------------
(* The guardrails of incident-response.                                      *)

Incident == \A j \in Jobs : jobs[j].plan \in {"incident", "idle"}

\* What a job was told, and hands on, is what there is.
Told(job) ==
  /\ job.seen.severity \in {"none", scene.facts.severity}
  /\ job.out.severity \in {"none", scene.facts.severity}
  /\ job.at = 2 /\ job.pc > 2 => job.seen.desired = scene.facts.desired \/ "desired" \in job.blind
  /\ job.at > 2 /\ job.out.action = "scale_hpa" => job.out.replicas = 3 * scene.facts.desired \/ "desired" \in job.blind

Scaled ==
  /\ redis <= MaxReplicas
  /\ redis = 0 => scene.facts.desired = 0 \/ \E j \in Jobs : "desired" \in jobs[j].blind
  /\ redis # 1 => "scale_hpa" \in scene.allowed /\ scene.facts.severity \in {"P1", "P2"}

GuardInv == TypeOK /\ (Incident => Scaled /\ \A j \in Jobs : Told(jobs[j]))

Calls(j) ==
  \/ CallTool(j) \/ CallStub(j) \/ Refuse(j) \/ Scan(j) \/ WriteReport(j) \/ ReadReport(j)
  \/ ReadHistory(j) \/ PatchTarget(j) \/ OrderSync(j) \/ Poll(j)

LEMMA CallsKeep ==
  ASSUME TypeOK, NEW j \in Jobs, Calls(j)
  PROVE  /\ TypeOK' /\ Called(j) /\ Others(j)
         /\ jobs'[j].out = jobs[j].out /\ jobs'[j].plan = jobs[j].plan /\ jobs'[j].at = jobs[j].at
<1>1. Typed
  BY TypesAreTyped
<1>2. CASE CallTool(j) \/ CallStub(j) \/ Refuse(j)
  BY <1>1, <1>2, CallStep, CallsType DEF Same
<1>3. CASE Scan(j) \/ WriteReport(j) \/ ReadReport(j)
  BY <1>1, <1>3, ScanStep, ScanType, ReportType DEF Same
<1>4. CASE ReadHistory(j)
  BY <1>1, <1>4, ReadHistoryStep, ArgoCallsType DEF Same, PicksBack, ComesBack
<1>5. CASE PatchTarget(j)
  BY <1>1, <1>5, PatchTargetStep, ArgoCallsType DEF Same, ComesBack
<1>6. CASE OrderSync(j)
  BY <1>1, <1>6, OrderSyncStep, ArgoCallsType DEF Orders
<1>7. CASE Poll(j)
  BY <1>1, <1>7, PollStep, ArgoCallsType DEF Same, ComesBack
<1> QED BY <1>2, <1>3, <1>4, <1>5, <1>6, <1>7 DEF Calls

LEMMA StepsKeepScene ==
  ASSUME NEW j \in Jobs, JobStep(j)
  PROVE  scene' = scene /\ (redis' = redis \/ CallTool(j))
<1>1. CASE CallStub(j) \/ Refuse(j) \/ Conclude(j) \/ Skip(j) \/ Finish(j)
  BY <1>1 DEF CallStub, Refuse, Conclude, Skip, Finish
<1>2. CASE Scan(j) \/ WriteReport(j) \/ ReadReport(j)
  BY <1>2 DEF Scan, WriteReport, ReadReport
<1>3. CASE ReadHistory(j) \/ PatchTarget(j) \/ OrderSync(j) \/ Poll(j)
  BY <1>3 DEF ReadHistory, PatchTarget, OrderSync, Poll
<1>4. CASE CallTool(j)
  BY <1>4 DEF CallTool
<1> QED BY <1>1, <1>2, <1>3, <1>4 DEF JobStep

\* The agents of incident-response; an idle job has none.
LEMMA IncidentAgents ==
  ASSUME TypeOK, NEW j \in Jobs, jobs[j].plan \in {"incident", "idle"}, jobs[j].at <= Len(Plan[jobs[j].plan])
  PROVE  /\ jobs[j].plan = "incident" /\ jobs[j].at \in 1..5
         /\ jobs[j].at = 1 => Slug(j) = "incident-triage"
         /\ jobs[j].at = 2 => Slug(j) = "diagnose"
         /\ jobs[j].at = 3 => Slug(j) = "remediate"
         /\ jobs[j].at = 4 => Slug(j) = "notify"
         /\ jobs[j].at = 5 => Slug(j) = "postmortem"
<1>1. jobs[j].at \in 1..8
  BY TypesAreTyped DEF Job
<1>2. jobs[j].plan = "incident"
  <2>1. Len(Plan["idle"]) = 0
    BY DEF Plan
  <2> QED BY <1>1, <2>1
<1>3. Plan[jobs[j].plan] = <<"incident-triage", "diagnose", "remediate", "notify", "postmortem">>
  BY <1>2 DEF Plan
<1>4. jobs[j].at \in 1..5
  <2>1. Len(Plan[jobs[j].plan]) = 5
    BY <1>3
  <2> QED BY <1>1, <2>1
<1> QED BY <1>2, <1>3, <1>4 DEF Slug

\* Only an allowed remediation scales, and diagnose looks at the replicas.
LEMMA IncidentCalls ==
  ASSUME TypeOK, NEW j \in Jobs, jobs[j].plan \in {"incident", "idle"}, InCall(j)
  PROVE  /\ jobs[j].plan = "incident" /\ jobs[j].at \in 1..5
         /\ jobs[j].at = 2 /\ jobs[j].pc = 2 => Tool(j) = "kubectl.get"
         /\ Tool(j) = "kubectl.scale" =>
              /\ jobs[j].at = 3 /\ jobs[j].out.action = "scale_hpa" /\ "scale_hpa" \in scene.allowed
              /\ jobs[j].out.severity \in {"P1", "P2"}
<1>1. jobs[j].at <= Len(Plan[jobs[j].plan]) /\ jobs[j].pc \in 1..4 /\ jobs[j] \in Job
      /\ ShouldRun(j) /\ jobs[j].pc <= Len(TheAgent(j).calls)
  BY CallingType DEF InCall
<1>2. jobs[j].plan = "incident" /\ jobs[j].at \in 1..5
  BY <1>1, IncidentAgents
<1>3. IsJob(jobs[j])
  BY TypesAreTyped DEF Typed
<1>4. CASE jobs[j].at = 1
  <2>1. Slug(j) = "incident-triage"
    BY <1>1, <1>4, IncidentAgents
  <2>2. TheAgent(j).calls = <<"alertmanager.read", "pagerduty.read">>
    BY <2>1 DEF TheAgent, IncidentTriageAgent, Agent
  <2> QED BY <1>2, <1>3, <1>4, <2>2, TwoCalls
<1>5. CASE jobs[j].at = 2
  <2>1. Slug(j) = "diagnose"
    BY <1>1, <1>5, IncidentAgents
  <2>2. TheAgent(j).calls = <<"kubectl.logs", "kubectl.get", "prometheus.query", "git.log">>
    BY <2>1 DEF TheAgent, DiagnoseAgent, Agent
  <2>3. Tool(j) = TheAgent(j).calls[jobs[j].pc]
    BY DEF Tool
  <2> HIDE DEF Tool, TheAgent
  <2>4. Tool(j) # "kubectl.scale" /\ (jobs[j].pc = 2 => Tool(j) = "kubectl.get")
    BY <1>1, <2>2, <2>3
  <2> QED BY <1>2, <1>5, <2>4
<1>6. CASE jobs[j].at = 3
  <2>1. Slug(j) = "remediate"
    BY <1>1, <1>6, IncidentAgents
  <2>2. jobs[j].out.severity \in {"P1", "P2"}
    BY <1>1, <1>2, <2>1 DEF ShouldRun
  <2>3. TheAgent(j) = RemediateAgent(jobs[j].out.action, scene.allowed)
    BY <1>2, <2>1 DEF TheAgent
  <2>4. ASSUME Tool(j) = "kubectl.scale"
        PROVE  jobs[j].out.action = "scale_hpa" /\ "scale_hpa" \in scene.allowed
    <3>1. jobs[j].out.action \in scene.allowed
      BY <1>1, <2>3 DEF RemediateAgent, Agent
    <3>2. jobs[j].out.action = "scale_hpa"
      BY <1>1, <2>3, <2>4, <3>1 DEF RemediateAgent, Agent, Tool
    <3> QED BY <3>1, <3>2
  <2> QED BY <1>2, <1>6, <2>2, <2>4
<1>7. CASE jobs[j].at = 4
  <2>1. Slug(j) = "notify"
    BY <1>1, <1>7, IncidentAgents
  <2>2. Tool(j) = "slack.post"
    BY <1>1, <2>1 DEF TheAgent, NotifyAgent, Agent, Tool
  <2> QED BY <1>2, <1>7, <2>2
<1>8. CASE jobs[j].at = 5
  <2>1. Slug(j) = "postmortem"
    BY <1>1, <1>8, IncidentAgents
  <2>2. Tool(j) = "runs.read"
    BY <1>1, <2>1 DEF TheAgent, PostmortemAgent, Agent, Tool
  <2> QED BY <1>2, <1>8, <2>2
<1> QED BY <1>2, <1>4, <1>5, <1>6, <1>7, <1>8

LEMMA KeepsFacts ==
  ASSUME NEW seen \in Facts, NEW names
  PROVE  /\ Keep(seen, names).severity \in {seen.severity, scene.facts.severity}
         /\ Keep(seen, names).desired \in {seen.desired, scene.facts.desired}
         /\ "desired" \in names => Keep(seen, names).desired = scene.facts.desired
BY DEF Keep, Facts

LEMMA CallsTell ==
  ASSUME TypeOK, NEW j \in Jobs, jobs[j].plan \in {"incident", "idle"}, Calls(j), Told(jobs[j])
  PROVE  Told(jobs'[j]) /\ jobs[j].blind \subseteq jobs'[j].blind
<1> DEFINE job == jobs[j]  new == jobs'[j]
<1>1. Called(j) /\ new.out = job.out /\ new.at = job.at /\ scene' = scene /\ InCall(j)
  BY CallsKeep DEF Called
<1>2. /\ job.at = 2 /\ job.pc = 2 => Tool(j) = "kubectl.get"
      /\ job.pc \in 1..4 /\ job.at \in 1..7 /\ job.seen \in Facts
  BY <1>1, IncidentCalls, CallingType DEF Job
<1>3. Brings("kubectl.get") = {"desired", "ready"}
  BY DEF Brings, Reverts
<1> DEFINE Sees(seen, blind) ==
             /\ seen.severity \in {job.seen.severity, scene.facts.severity}
             /\ seen.desired \in {job.seen.desired, scene.facts.desired}
             /\ Tool(j) = "kubectl.get" => seen.desired = scene.facts.desired \/ "desired" \in blind
<1>4. /\ job.blind \subseteq new.blind
      /\ \/ new.seen = job.seen /\ new.pc = job.pc
         \/ Sees(new.seen, new.blind) /\ new.pc = job.pc + 1
  <2>1. CASE Waiting(job, new)
    BY <2>1 DEF Waiting
  <2>2. CASE Answered(job, new, Tool(j))
    <3>1. Sees(Keep(job.seen, Brings(Tool(j))), new.blind)
      BY <1>2, <1>3, KeepsFacts
    <3>2. job.blind \subseteq new.blind
      BY <2>2 DEF Answered
    <3>3. CASE new.pc = job.pc /\ new.seen = job.seen
      BY <3>2, <3>3
    <3>4. CASE new.pc = job.pc + 1 /\ new.seen = Keep(job.seen, Brings(Tool(j)))
      BY <3>1, <3>2, <3>4
    <3>5. CASE new.pc = job.pc + 1 /\ new.seen = job.seen /\ new.blind = job.blind \cup Brings(Tool(j))
      <4>1. Tool(j) = "kubectl.get" => "desired" \in new.blind
        BY <1>3, <3>5
      <4> QED BY <3>2, <3>5, <4>1
    <3> QED BY <2>2, <3>3, <3>4, <3>5 DEF Answered
  <2>3. CASE Overlapped(job, new) /\ Tool(j) = "secrets.scan"
    BY <2>3 DEF Overlapped
  <2> QED BY <1>1, <2>1, <2>2, <2>3 DEF Called
<1>5. /\ new.seen.severity \in {"none", scene.facts.severity} /\ new.out.severity \in {"none", scene.facts.severity}
  BY <1>1, <1>4 DEF Told
<1>6. new.at = 2 /\ new.pc > 2 => new.seen.desired = scene.facts.desired \/ "desired" \in new.blind
  <2> SUFFICES ASSUME job.at = 2, new.pc > 2 PROVE new.seen.desired = scene.facts.desired \/ "desired" \in new.blind
    BY <1>1
  <2>1. CASE job.pc = 2
    BY <1>2, <1>4, <2>1
  <2>2. CASE job.pc > 2
    <3>1. job.seen.desired = scene.facts.desired \/ "desired" \in job.blind
      BY <2>2 DEF Told
    <3> HIDE DEF job, new
    <3> QED BY <1>4, <3>1
  <2>3. CASE job.pc < 2
    BY <1>2, <1>4, <2>3
  <2> QED BY <1>2, <2>1, <2>2, <2>3
<1>7. new.at > 2 /\ new.out.action = "scale_hpa" => new.out.replicas = 3 * scene.facts.desired \/ "desired" \in new.blind
  BY <1>1, <1>4 DEF Told
<1> QED BY <1>1, <1>4, <1>5, <1>6, <1>7 DEF Told

LEMMA ConcludeTells ==
  ASSUME TypeOK, NEW j \in Jobs, jobs[j].plan \in {"incident", "idle"}, Conclude(j), Told(jobs[j])
  PROVE  Told(jobs'[j])
<1> DEFINE job == jobs[j]  new == jobs'[j]
<1>1. /\ new.at = job.at + 1 /\ new.pc = 1 /\ new.seen = Missing /\ new.out = PassedOn(Slug(j), job)
      /\ new.blind = job.blind
  BY ConcludeStep
<1>2. /\ scene' = scene /\ job.at <= Len(Plan[job.plan]) /\ job.pc > Len(TheAgent(j).calls)
  BY DEF Conclude
<1>3. /\ job.at \in 1..5
      /\ job.at = 1 => Slug(j) = "incident-triage"
      /\ job.at = 2 => Slug(j) = "diagnose"
      /\ job.at > 2 => Slug(j) \notin {"incident-triage", "diagnose"}
  BY <1>2, IncidentAgents
<1>4. job \in Job
  BY TypesAreTyped
<1>5. Missing.severity = "none"
  BY DEF Missing
<1>6. CASE job.at = 1
  <2>1. new.out = [job.out EXCEPT !.severity = job.seen.severity]
    BY <1>1, <1>3, <1>6 DEF PassedOn
  <2>2. new.out.severity = job.seen.severity
    BY <1>4, <2>1 DEF Job
  <2>3. new.at = 2
    BY <1>1, <1>6
  <2> QED BY <1>1, <1>2, <1>5, <2>2, <2>3 DEF Told
<1>7. CASE job.at = 2
  <2>1. new.out = Recommend(job.seen, job.out.severity)
    BY <1>1, <1>3, <1>7 DEF PassedOn
  <2>2. new.out.severity = job.out.severity /\ (new.out.action = "scale_hpa" => new.out.replicas = 3 * job.seen.desired)
    BY <2>1 DEF Recommend
  <2>3. job.pc > 2
    <3>1. Len(TheAgent(j).calls) = 4
      BY <1>3, <1>7 DEF TheAgent, DiagnoseAgent, Agent
    <3> QED BY <1>2, <1>4, <3>1 DEF Job
  <2>4. job.seen.desired = scene.facts.desired \/ "desired" \in job.blind
    BY <1>7, <2>3 DEF Told
  <2>5. new.at = 3
    BY <1>1, <1>7
  <2> QED BY <1>1, <1>2, <1>5, <2>2, <2>4, <2>5 DEF Told
<1>8. CASE job.at > 2
  <2>1. new.out = job.out
    BY <1>1, <1>3, <1>8 DEF PassedOn
  <2>2. new.at > 2 /\ new.at # 2
    BY <1>1, <1>3, <1>8
  <2> QED BY <1>1, <1>2, <1>5, <1>8, <2>1, <2>2 DEF Told
<1> QED BY <1>3, <1>6, <1>7, <1>8

LEMMA MovesTell ==
  ASSUME TypeOK, NEW j \in Jobs, jobs[j].plan \in {"incident", "idle"}, Skip(j) \/ Finish(j), Told(jobs[j])
  PROVE  Told(jobs'[j]) /\ jobs'[j].blind = jobs[j].blind
<1> DEFINE job == jobs[j]  new == jobs'[j]
<1>1. scene' = scene
  BY DEF Skip, Finish
<1>2. new.pc = job.pc /\ new.seen = job.seen /\ new.out = job.out /\ new.blind = job.blind
  BY SkipStep, FinishStep
<1>3. CASE Skip(j)
  <2>1. job.at <= Len(Plan[job.plan]) /\ ~ShouldRun(j)
    BY <1>3 DEF Skip
  <2>2. job.plan = "incident" /\ job.at \in 1..5
    BY <2>1, IncidentAgents
  <2>3. Slug(j) = "remediate"
    BY <2>1, <2>2 DEF ShouldRun
  <2>4. job.at = 3
    BY <2>1, <2>2, <2>3, IncidentAgents
  <2>5. new.at = 4
    <3>1. new.at = job.at + 1
      BY <1>3, SkipStep
    <3> QED BY <2>4, <3>1
  <2> QED BY <1>1, <1>2, <2>4, <2>5 DEF Told
<1>4. CASE Finish(j)
  <2>1. new.at = job.at
    BY <1>4, FinishStep
  <2> QED BY <1>1, <1>2, <2>1 DEF Told
<1> QED BY <1>3, <1>4

\* The replicas that a remediation asks for.
LEMMA ScaledInv ==
  ASSUME TypeOK, Incident, Scaled, NEW j \in Jobs, CallTool(j), Told(jobs[j]), MaxReplicas > 0,
         \A k \in Jobs : jobs[k].blind \subseteq jobs'[k].blind
  PROVE  Scaled'
<1>1. InCall(j) /\ scene' = scene
  BY DEF CallTool
<1>2. redis \in Nat /\ MaxReplicas \in Nat /\ scene.facts.desired \in 0..6
  BY SceneFacts, BoundsAssumption DEF TypeOK, Facts
<1>3. CASE redis' = redis
  BY <1>1, <1>3 DEF Scaled
<1>4. CASE redis' # redis
  <2>1. Tool(j) = "kubectl.scale" /\ redis' = Replicas(j)
    <3>1. redis' \in (IF Tool(j) = "kubectl.scale" /\ "target" \notin scene.unsafe \cap Chosen(j)
                      THEN UNION {Effect(x, Replicas(j), redis) : x \in Exits} ELSE {redis})
      BY DEF CallTool
    <3>2. \A x \in Exits : Effect(x, Replicas(j), redis) \subseteq {Replicas(j), redis}
      BY EffectType
    <3> QED BY <1>4, <3>1, <3>2
  <2>2. /\ jobs[j].plan = "incident" /\ jobs[j].at = 3 /\ jobs[j].out.action = "scale_hpa" /\ "scale_hpa" \in scene.allowed
        /\ jobs[j].out.severity \in {"P1", "P2"}
    BY <1>1, <2>1, IncidentCalls DEF Incident
  <2>3. scene.facts.severity \in {"P1", "P2"}
    BY <2>2 DEF Told
  <2>4. jobs[j].out.replicas = 3 * scene.facts.desired \/ "desired" \in jobs[j].blind
    BY <2>2 DEF Told
  <2>5. jobs[j].out.replicas \in 0..18
    BY TypesAreTyped DEF Job
  <2>6. redis' = IF jobs[j].out.replicas > MaxReplicas THEN MaxReplicas ELSE jobs[j].out.replicas
    BY <2>1, <2>2 DEF Replicas, Clamp
  <2> DEFINE n == jobs[j].out.replicas  desired == scene.facts.desired
  <2>7. redis' <= MaxReplicas /\ (redis' = 0 => n = 0)
    BY <1>2, <2>5, <2>6
  <2>8. n = 3 * desired /\ n = 0 => desired = 0
    BY <1>2
  <2>9. redis' = 0 => scene.facts.desired = 0 \/ \E k \in Jobs : "desired" \in jobs'[k].blind
    <3> HIDE DEF n, desired
    <3>1. n = 3 * desired \/ "desired" \in jobs[j].blind
      BY <2>4 DEF n, desired
    <3>2. redis' = 0 => desired = 0 \/ "desired" \in jobs'[j].blind
      BY <2>7, <2>8, <3>1
    <3> QED BY <3>2 DEF desired
  <2> QED BY <1>1, <2>2, <2>3, <2>7, <2>9 DEF Scaled
<1> QED BY <1>3, <1>4

LEMMA InitGuards == MaxReplicas > 0 /\ Init => GuardInv
<1> SUFFICES ASSUME MaxReplicas > 0, Init PROVE GuardInv
  OBVIOUS
<1>1. TypeOK
  BY InitTypes
<1>2. Scaled
  BY BoundsAssumption DEF Scaled, Init
<1>3. ASSUME NEW j \in Jobs PROVE Told(jobs[j])
  <2>1. jobs[j] = NewJob(scene.plans[j], scene.action)
    BY DEF Init
  <2>2. jobs[j].at = 1 /\ jobs[j].seen.severity = "none" /\ jobs[j].out.severity = "none"
    BY <2>1 DEF NewJob, Missing, Given
  <2> QED BY <2>2 DEF Told
<1> QED BY <1>1, <1>2, <1>3 DEF GuardInv

LEMMA KeepsGuards == MaxReplicas > 0 /\ GuardInv /\ [Next]_vars => GuardInv'
<1> SUFFICES ASSUME MaxReplicas > 0, GuardInv, [Next]_vars PROVE GuardInv'
  OBVIOUS
<1>1. TypeOK /\ TypeOK'
  BY KeepsTypes DEF GuardInv
<1>s. scene' = scene
  BY StepsKeepScene DEF Next, vars, ArgoSyncs, ArgoSyncFails, ArgoRefreshes
<1> SUFFICES ASSUME Incident' PROVE Scaled' /\ \A k \in Jobs : Told(jobs'[k])
  <2>1. (\A k \in Jobs : Told(jobs'[k])) => \A k \in Jobs : Told(jobs[k])'
    BY <1>s DEF Told
  <2> QED BY <1>1, <2>1 DEF GuardInv
<1> DEFINE Goes(k) == Told(jobs'[k]) /\ jobs[k].blind \subseteq jobs'[k].blind
<1>2. CASE UNCHANGED vars
  BY <1>2 DEF vars, GuardInv, Incident, Scaled, Told
<1>3. ASSUME NEW j \in Jobs, JobStep(j)
      PROVE  Scaled' /\ \A k \in Jobs : Told(jobs'[k])
  <2>1. scene' = scene /\ (redis' = redis \/ CallTool(j))
    BY <1>3, StepsKeepScene
  <2>2. Others(j) /\ jobs'[j].plan = jobs[j].plan
    BY <1>1, <1>3, CallsKeep, ConcludeStep, SkipStep, FinishStep DEF JobStep, Calls, Going
  <2>3. Incident /\ Scaled /\ \A k \in Jobs : Told(jobs[k])
    BY <2>2 DEF Others, Incident, GuardInv
  <2>4. jobs[j].plan \in {"incident", "idle"}
    BY <2>3 DEF Incident
  <2>5. Goes(j)
    <3>1. CASE Calls(j)
      BY <1>1, <2>3, <2>4, <3>1, CallsTell
    <3>2. CASE Conclude(j)
      BY <1>1, <2>3, <2>4, <3>2, ConcludeTells, ConcludeStep
    <3>3. CASE Skip(j) \/ Finish(j)
      BY <1>1, <2>3, <2>4, <3>3, MovesTell
    <3> QED BY <1>3, <3>1, <3>2, <3>3 DEF JobStep, Calls
  <2>6. ASSUME NEW k \in Jobs PROVE Goes(k)
    <3>1. CASE k # j
      <4>1. jobs'[k] = jobs[k] /\ Told(jobs[k])
        BY <2>2, <2>3, <3>1 DEF Others
      <4> QED BY <2>1, <4>1 DEF Told
    <3> QED BY <2>5, <3>1
  <2>7. Scaled'
    <3>1. CASE redis' = redis
      <4>1. \A k \in Jobs : jobs[k].blind \subseteq jobs'[k].blind
        BY <2>6
      <4> QED BY <2>1, <2>3, <3>1, <4>1 DEF Scaled
    <3>2. CASE CallTool(j)
      BY <1>1, <2>3, <2>6, <3>2, ScaledInv
    <3> QED BY <2>1, <3>1, <3>2
  <2> QED BY <2>6, <2>7
<1>4. CASE ArgoSyncs
  <2>1. scene' = scene /\ redis' = redis
    BY <1>4 DEF ArgoSyncs
  <2>2. \A j \in Jobs :
          /\ jobs'[j].plan = jobs[j].plan /\ jobs'[j].at = jobs[j].at /\ jobs'[j].pc = jobs[j].pc
          /\ jobs'[j].seen = jobs[j].seen /\ jobs'[j].out = jobs[j].out /\ jobs'[j].blind = jobs[j].blind
    BY <1>1, <1>4, ArgoSyncsStep
  <2>3. Incident /\ Scaled /\ \A k \in Jobs : Told(jobs[k])
    BY <2>2 DEF Incident, GuardInv
  <2>4. Scaled'
    BY <2>1, <2>2, <2>3 DEF Scaled
  <2>5. ASSUME NEW k \in Jobs PROVE Told(jobs'[k])
    <3>1. Told(jobs[k])
      BY <2>3
    <3> QED BY <2>1, <2>2, <3>1 DEF Told
  <2> QED BY <2>4, <2>5
<1>5. CASE ArgoSyncFails \/ ArgoRefreshes
  <2>1. scene' = scene /\ redis' = redis /\ jobs' = jobs
    BY <1>5 DEF ArgoSyncFails, ArgoRefreshes
  <2>2. Incident /\ Scaled /\ \A k \in Jobs : Told(jobs[k])
    BY <2>1 DEF Incident, GuardInv
  <2>3. Scaled'
    BY <2>1, <2>2 DEF Scaled
  <2>4. ASSUME NEW k \in Jobs PROVE Told(jobs'[k])
    <3>1. Told(jobs[k])
      BY <2>2
    <3> QED BY <2>1, <3>1 DEF Told
  <2> QED BY <2>3, <2>4
<1> QED BY <1>2, <1>3, <1>4, <1>5 DEF Next

\* incident-response scales redis within its guardrails, only in a P1 or P2 incident with an
\* allowed action, and to nothing only if none are wanted or diagnose did not get to see how
\* many are, for a guardrail of at least one replica (remediate.py, diagnose.py).
THEOREM GuardrailsAreKept ==
  ASSUME MaxReplicas > 0 PROVE Spec => []GuardrailsHold
<1>1. GuardInv => GuardrailsHold
  BY DEF GuardInv, GuardrailsHold, Incident, Scaled
<1>2. Init => GuardInv
  BY InitGuards
<1>3. GuardInv /\ [Next]_vars => GuardInv'
  BY KeepsGuards
<1> QED BY <1>1, <1>2, <1>3, PTL DEF Spec

---------------------------------------------------------------------------
(* The rollback of ship-to-prod.                                             *)

\* The deploy's order is behind the job; the rollback has picked a revision.
Past(job)   == job.at > 5 \/ (job.at = 5 /\ (job.pc > 2 \/ (job.pc = 2 /\ job.wait = "poll")))
Picked(job) == job.at > 7 \/ (job.at = 7 /\ (job.pc > 2 \/ (job.pc = 2 /\ job.wait \in {"patch", "sync", "poll"})))

\* A run whose plan is empty never runs.
Idle == \A k \in Jobs : Plan[jobs[k].plan] = <<>> => ~Running(k)

LiveIsLatest == argo.live = Latest(argo.history)

\* Once the deploy is carried out, the revision before it is the one before the last, until
\* the rollback has picked it.
OneBack(job, app) ==
  /\ job.wait \in {"patch", "sync"} => job.back # 0
  /\ job.back # 0 => Picked(job)
  /\ job.carried => Past(job)
  /\ job.carried /\ job.back # 0 /\ job.wait \in {"patch", "sync", "poll"} => job.back = job.before
  /\ job.carried /\ job.back = 0 =>
       /\ app.op = {} /\ Len(app.history) > 0
       /\ Len(app.history) > 1 => Previous(app.history) = job.before

\* A pending order is the job's own, the deploy's unless it has picked a revision.
Ordered(j, job, app) ==
  app.op # {} =>
    /\ app.op = {j} /\ Past(job)
    /\ job.back = 0 => ~job.carried /\ job.before = app.live

RestoreInv ==
  /\ TypeOK /\ Idle /\ LiveIsLatest
  /\ \A j \in Jobs : Ships(j) /\ Alone(j) => OneBack(jobs[j], argo) /\ Ordered(j, jobs[j], argo)

\* Where ship-to-prod calls Argo CD.
LEMMA ShipSyncs ==
  ASSUME TypeOK, NEW j \in Jobs, Ships(j), InCall(j)
  PROVE  /\ Tool(j) = "argocd.sync" <=> jobs[j].at = 5 /\ jobs[j].pc = 2
         /\ Tool(j) = "argocd.rollback" <=> jobs[j].at = 7 /\ jobs[j].pc = 2
<1>1. IsJob(jobs[j]) /\ jobs[j].at \in 1..7
  BY CallingType, TypesAreTyped DEF Typed
<1> DEFINE calls == TheAgent(j).calls
<1>2. CASE jobs[j].at = 1
  <2>1. calls = <<"git.diff", "secrets.scan", "lint.run">>
    BY <1>2, ShipAgents DEF CodeReviewAgent, Agent
  <2> QED BY <1>1, <1>2, <2>1, ThreeCalls
<1>3. CASE jobs[j].at = 2
  <2>1. calls = <<"git.diff", "test.select", "test.run">>
    BY <1>3, ShipAgents DEF TestRunnerAgent, Agent
  <2> QED BY <1>1, <1>3, <2>1, ThreeCalls
<1>4. CASE jobs[j].at = 3
  <2>1. calls = <<"docker.build", "docker.tag", "registry.push">>
    BY <1>4, ShipAgents DEF BuildAgent, Agent
  <2> QED BY <1>1, <1>4, <2>1, ThreeCalls
<1>5. CASE jobs[j].at = 4
  <2>1. calls = <<"registry.pull", "trivy.scan", "iac.scan">>
    BY <1>5, ShipAgents DEF SecurityScanAgent, Agent
  <2> QED BY <1>1, <1>5, <2>1, ThreeCalls
<1>6. CASE jobs[j].at = 5
  <2>1. calls = <<"helm.upgrade", "argocd.sync", "kubectl.get">>
    BY <1>6, ShipAgents DEF DeployAgent, Agent
  <2> QED BY <1>1, <1>6, <2>1, ThreeCalls
<1>7. CASE jobs[j].at = 6
  <2>1. calls = <<"http.smoke_test", "prometheus.query">>
    BY <1>7, ShipAgents DEF VerifyAgent, Agent
  <2> QED BY <1>1, <1>7, <2>1, TwoCalls
<1>8. CASE jobs[j].at = 7
  <2>1. calls = <<"helm.rollback", "argocd.rollback", "kubectl.get">>
    BY <1>8, ShipAgents DEF RollbackAgent, Agent
  <2> QED BY <1>1, <1>8, <2>1, ThreeCalls
<1> QED BY <1>1, <1>2, <1>3, <1>4, <1>5, <1>6, <1>7, <1>8

\* What is behind a job stays behind it.
LEMMA StaysPast ==
  ASSUME NEW job \in Job, NEW new \in Job,
         \/ new.at = job.at + 1
         \/ new.at = job.at /\ new.pc = job.pc + 1
         \/ new.at = job.at /\ new.pc = job.pc /\ new.wait = job.wait
         \/ new.at = job.at /\ new.pc = job.pc /\ (job.at \notin {5, 7} \/ job.pc # 2)
  PROVE  (Past(job) => Past(new)) /\ (Picked(job) => Picked(new))
<1>1. job.at \in 1..8 /\ job.pc \in 1..5 /\ new.at \in 1..8 /\ new.pc \in 1..5
  BY DEF Job
<1>2. Past(job) => Past(new)
  BY <1>1 DEF Past
<1>3. Picked(job) => Picked(new)
  BY <1>1 DEF Picked
<1> QED BY <1>2, <1>3

\* A step that touches neither Argo CD nor what the job knows of it.
LEMMA Unchanged ==
  ASSUME NEW j \in Jobs, NEW job, NEW new, NEW app, NEW after, OneBack(job, app), Ordered(j, job, app),
         new.carried = job.carried, new.before = job.before, new.back = job.back,
         Past(job) => Past(new), Picked(job) => Picked(new),
         new.wait = job.wait \/ new.wait \in {"call", "report", "read"},
         after.op = app.op, after.history = app.history, after.live = app.live
  PROVE  OneBack(new, after) /\ Ordered(j, new, after)
<1>1. OneBack(new, after)
  BY DEF OneBack
<1>2. Ordered(j, new, after)
  BY DEF Ordered
<1> QED BY <1>1, <1>2

LEMMA CallsKeepBack ==
  ASSUME TypeOK, NEW j \in Jobs, Ships(j), OneBack(jobs[j], argo), Ordered(j, jobs[j], argo),
         CallTool(j) \/ CallStub(j) \/ Refuse(j) \/ Scan(j) \/ WriteReport(j) \/ ReadReport(j) \/ Poll(j)
  PROVE  OneBack(jobs'[j], argo') /\ Ordered(j, jobs'[j], argo')
<1> DEFINE job == jobs[j]  new == jobs'[j]
<1>1. /\ TypeOK' /\ InCall(j) /\ Same(job, new) /\ argo' = argo
      /\ \/ new.wait \in {"call", "report", "read"}
         \/ new.wait = job.wait
      /\ \/ new.pc = job.pc + 1
         \/ new.pc = job.pc /\ (new.wait = job.wait \/ Tool(j) \notin {"argocd.sync", "argocd.rollback"})
  <2>1. CASE CallTool(j) \/ CallStub(j) \/ Refuse(j)
    BY <2>1, CallStep
  <2>2. CASE Scan(j) \/ WriteReport(j) \/ ReadReport(j)
    BY <2>2, ScanStep
  <2>3. CASE Poll(j)
    BY <2>3, PollStep DEF ComesBack
  <2> QED BY <2>1, <2>2, <2>3
<1>2. job \in Job /\ new \in Job /\ new.at = job.at
  BY <1>1 DEF TypeOK, Same
<1>3. Tool(j) \notin {"argocd.sync", "argocd.rollback"} => job.at \notin {5, 7} \/ job.pc # 2
  BY <1>1, ShipSyncs
<1>4. (Past(job) => Past(new)) /\ (Picked(job) => Picked(new))
  <2> HIDE DEF job, new
  <2> QED BY <1>1, <1>2, <1>3, StaysPast
<1>5. /\ new.carried = job.carried /\ new.before = job.before /\ new.back = job.back
  BY <1>1 DEF Same
<1> HIDE DEF job, new
<1>6. OneBack(job, argo) /\ Ordered(j, job, argo)
  BY DEF job
<1>7. OneBack(new, argo') /\ Ordered(j, new, argo')
  BY <1>1, <1>4, <1>5, <1>6, Unchanged
<1> QED BY <1>7 DEF new

LEMMA HistoryGoesBack ==
  ASSUME TypeOK, NEW j \in Jobs, Ships(j), OneBack(jobs[j], argo), Ordered(j, jobs[j], argo), ReadHistory(j)
  PROVE  OneBack(jobs'[j], argo') /\ Ordered(j, jobs'[j], argo')
<1> DEFINE job == jobs[j]  new == jobs'[j]
<1>1. TypeOK' /\ InCall(j) /\ argo' = argo /\ Tool(j) = "argocd.rollback" /\ (PicksBack(j) \/ ComesBack(j))
  BY ReadHistoryStep
<1>2. job \in Job /\ new \in Job /\ job.at = 7 /\ job.pc = 2 /\ job.wait = "call"
  BY <1>1, ShipSyncs DEF TypeOK, ReadHistory, At
<1>3. job.back = 0 /\ Past(job)
  BY <1>2 DEF OneBack, Picked, Past
<1>4. CASE ComesBack(j)
  <2>1. new.at = 7 /\ new.back = 0 /\ new.wait = "call" /\ new.carried = job.carried /\ new.before = job.before
    BY <1>2, <1>3, <1>4 DEF ComesBack, Same
  <2>2. Past(new)
    BY <2>1 DEF Past
  <2>3. OneBack(new, argo')
    BY <1>1, <1>3, <2>1, <2>2 DEF OneBack
  <2>4. Ordered(j, new, argo')
    BY <1>1, <1>3, <2>1, <2>2 DEF Ordered
  <2> QED BY <2>3, <2>4
<1>5. CASE PicksBack(j)
  <2>1. new.at = 7 /\ new.pc = 2 /\ new.wait = "patch" /\ new.carried = job.carried /\ new.before = job.before
        /\ Len(argo.history) >= 2 /\ new.back = Previous(argo.history)
    BY <1>2, <1>5 DEF PicksBack
  <2>2. new.back # 0
    BY <2>1, PreviousType DEF TypeOK, Revisions
  <2>3. Past(new) /\ Picked(new)
    BY <2>1 DEF Past, Picked
  <2>4. job.carried => Previous(argo.history) = job.before
    BY <1>3, <2>1 DEF OneBack
  <2>5. OneBack(new, argo')
    BY <2>1, <2>2, <2>3, <2>4 DEF OneBack
  <2>6. Ordered(j, new, argo')
    BY <1>1, <2>2, <2>3 DEF Ordered
  <2> QED BY <2>5, <2>6
<1> QED BY <1>1, <1>4, <1>5

LEMMA PatchGoesBack ==
  ASSUME TypeOK, NEW j \in Jobs, Ships(j), OneBack(jobs[j], argo), Ordered(j, jobs[j], argo), PatchTarget(j)
  PROVE  OneBack(jobs'[j], argo') /\ Ordered(j, jobs'[j], argo')
<1> DEFINE job == jobs[j]  new == jobs'[j]
<1>1. /\ TypeOK' /\ InCall(j) /\ Tool(j) = "argocd.rollback" /\ job.wait = "patch"
      /\ argo'.op = argo.op /\ argo'.history = argo.history /\ argo'.live = argo.live
      /\ \/ ComesBack(j) /\ new.pc = job.pc + 1
         \/ Same(job, new) /\ new.wait = "sync" /\ new.pc = job.pc
  BY PatchTargetStep
<1>2. job.at = 7 /\ job.pc = 2
  BY <1>1, ShipSyncs
<1>3. /\ new.at = 7 /\ new.back = job.back /\ new.carried = job.carried /\ new.before = job.before
      /\ \/ new.pc = 3 /\ new.wait = "call"
         \/ new.pc = 2 /\ new.wait = "sync"
  BY <1>1, <1>2 DEF ComesBack, Same
<1>4. Past(new) /\ Picked(new)
  BY <1>3 DEF Past, Picked
<1>5. job.back # 0 /\ (job.carried => job.back = job.before)
  BY <1>1 DEF OneBack
<1>6. OneBack(new, argo')
  BY <1>1, <1>3, <1>4, <1>5 DEF OneBack
<1>7. Ordered(j, new, argo')
  BY <1>1, <1>3, <1>4, <1>5 DEF Ordered
<1> QED BY <1>6, <1>7

LEMMA OrderGoesBack ==
  ASSUME TypeOK, NEW j \in Jobs, Ships(j), OneBack(jobs[j], argo), Ordered(j, jobs[j], argo), OrderSync(j)
  PROVE  OneBack(jobs'[j], argo') /\ Ordered(j, jobs'[j], argo')
<1> DEFINE job == jobs[j]  new == jobs'[j]
<1>1. /\ TypeOK' /\ InCall(j) /\ Orders(j)
      /\ \/ Tool(j) = "argocd.sync" /\ job.wait = "call"
         \/ Tool(j) = "argocd.rollback" /\ job.wait = "sync"
      /\ argo'.op \in {argo.op, {j}} /\ argo'.history = argo.history /\ argo'.live = argo.live
  BY OrderSyncStep
<1>2. CASE Tool(j) = "argocd.sync" /\ job.wait = "call"
  <2>1. job.at = 5 /\ job.pc = 2
    BY <1>1, <1>2, ShipSyncs
  <2>2. ~Past(job) /\ ~Picked(job)
    BY <1>2, <2>1 DEF Past, Picked
  <2>3. job.back = 0 /\ ~job.carried /\ argo.op = {}
    BY <2>2 DEF OneBack, Ordered
  <2>4. /\ new.at = 5 /\ new.back = 0 /\ ~new.carried /\ new.before = argo.live
        /\ \/ new.pc = 2 /\ new.wait = "poll"
           \/ new.pc = 3 /\ new.wait = "call"
    BY <1>1, <1>2, <2>1, <2>3 DEF Orders
  <2>5. Past(new)
    BY <2>4 DEF Past
  <2>6. OneBack(new, argo')
    BY <2>4, <2>5 DEF OneBack
  <2>7. Ordered(j, new, argo')
    BY <1>1, <2>3, <2>4, <2>5 DEF Ordered
  <2> QED BY <2>6, <2>7
<1>3. CASE Tool(j) = "argocd.rollback" /\ job.wait = "sync"
  <2>1. job.at = 7 /\ job.pc = 2
    BY <1>1, <1>3, ShipSyncs
  <2>2. job.back # 0 /\ (job.carried => job.back = job.before)
    BY <1>3 DEF OneBack
  <2>3. /\ new.at = 7 /\ new.back = job.back /\ new.carried = job.carried /\ new.before = job.before
        /\ \/ new.pc = 2 /\ new.wait = "poll"
           \/ new.pc = 3 /\ new.wait = "call"
    BY <1>1, <1>3, <2>1 DEF Orders
  <2>4. Past(new) /\ Picked(new)
    BY <2>3 DEF Past, Picked
  <2>5. OneBack(new, argo')
    BY <2>2, <2>3, <2>4 DEF OneBack
  <2>6. argo.op # {} => argo.op = {j}
    BY DEF Ordered
  <2>7. Ordered(j, new, argo')
    BY <1>1, <2>2, <2>3, <2>4, <2>6 DEF Ordered
  <2> QED BY <2>5, <2>7
<1> QED BY <1>1, <1>2, <1>3

LEMMA MovesKeepBack ==
  ASSUME TypeOK, NEW j \in Jobs, OneBack(jobs[j], argo), Ordered(j, jobs[j], argo), Conclude(j) \/ Skip(j) \/ Finish(j)
  PROVE  OneBack(jobs'[j], argo') /\ Ordered(j, jobs'[j], argo')
<1> DEFINE job == jobs[j]  new == jobs'[j]
<1>1. /\ TypeOK' /\ argo' = argo /\ Going(j)
      /\ new.at = job.at + 1 \/ (new.at = job.at /\ new.pc = job.pc)
  BY ConcludeStep, SkipStep, FinishStep
<1>2. job \in Job /\ new \in Job
  BY <1>1 DEF TypeOK
<1>3. new.wait = job.wait /\ new.carried = job.carried /\ new.before = job.before /\ new.back = job.back
  BY <1>1 DEF Going
<1> HIDE DEF job, new
<1>4. (Past(job) => Past(new)) /\ (Picked(job) => Picked(new))
  BY <1>1, <1>2, <1>3, StaysPast
<1>5. OneBack(job, argo) /\ Ordered(j, job, argo)
  BY DEF job
<1>6. OneBack(new, argo') /\ Ordered(j, new, argo')
  BY <1>1, <1>3, <1>4, <1>5, Unchanged
<1> QED BY <1>6 DEF new

\* What Argo CD makes live was one back from then on.
LEMMA SyncMovesOneBack ==
  ASSUME TypeOK, LiveIsLatest, NEW j \in Jobs, OneBack(jobs[j], argo), Ordered(j, jobs[j], argo), ArgoSyncs
  PROVE  OneBack(jobs'[j], argo') /\ Ordered(j, jobs'[j], argo')
<1> DEFINE job == jobs[j]  new == jobs'[j]
<1>1. /\ TypeOK' /\ argo'.op = {} /\ argo'.history = Append(argo.history, Wanted) /\ argo.op # {}
      /\ new.carried => job.carried \/ job.back = 0
      /\ new.carried /\ job.back # 0 => job.carried
      /\ new.at = job.at /\ new.pc = job.pc /\ new.wait = job.wait
      /\ new.before = job.before /\ new.back = job.back
  BY ArgoSyncsStep DEF ArgoSyncs, Going
<1>2. Past(job) /\ (job.back = 0 => job.before = argo.live)
  BY <1>1 DEF Ordered
<1>3. Past(new) /\ (Picked(job) => Picked(new))
  BY <1>1, <1>2 DEF Past, Picked
<1>4. /\ Len(argo'.history) > 0
      /\ Len(argo'.history) > 1 => Previous(argo'.history) = argo.live
  <2> DEFINE history == argo.history  wanted == Wanted
  <2>1. history \in Seq(Revisions) /\ wanted \in Revisions /\ argo.live = Latest(history)
    BY WantedType DEF TypeOK, LiveIsLatest
  <2>2. argo'.history = Append(history, wanted)
    BY <1>1
  <2> HIDE DEF history, wanted
  <2>3. Len(Append(history, wanted)) = Len(history) + 1 /\ Len(history) \in Nat
    BY <2>1
  <2>4. Len(history) > 0 => Append(history, wanted)[Len(history)] = history[Len(history)]
    BY <2>1
  <2>5. Len(history) > 0 => history # <<>>
    BY <2>1
  <2> QED BY <2>1, <2>2, <2>3, <2>4, <2>5 DEF Previous, Latest
<1>5. OneBack(new, argo')
  BY <1>1, <1>2, <1>3, <1>4 DEF OneBack
<1>6. Ordered(j, new, argo')
  BY <1>1 DEF Ordered
<1> QED BY <1>5, <1>6

\* Only a job that runs takes a step, and no step changes a plan.
LEMMA StepsKeepPlans ==
  ASSUME TypeOK, [Next]_vars
  PROVE  /\ \A k \in Jobs : jobs'[k].plan = jobs[k].plan
         /\ Idle => Idle'
         /\ LiveIsLatest => LiveIsLatest'
<1>1. CASE UNCHANGED vars
  BY <1>1 DEF vars, Idle, Running, LiveIsLatest
<1>2. ASSUME NEW j \in Jobs, JobStep(j)
      PROVE  /\ Others(j) /\ jobs'[j].plan = jobs[j].plan /\ Running(j)
             /\ argo'.history = argo.history /\ argo'.live = argo.live
  <2>1. Others(j) /\ jobs'[j].plan = jobs[j].plan
    BY <1>2, CallsKeep, ConcludeStep, SkipStep, FinishStep DEF JobStep, Calls, Going
  <2>2. CASE Conclude(j) \/ Skip(j) \/ Finish(j)
    BY <2>1, <2>2, ConcludeStep, SkipStep, FinishStep DEF Conclude, Skip, Finish
  <2>3. CASE Calls(j)
    <3>1. InCall(j)
      BY <2>3, CallStep, ScanStep, ReadHistoryStep, PatchTargetStep, OrderSyncStep, PollStep DEF Calls
    <3>2. argo'.history = argo.history /\ argo'.live = argo.live
      BY <2>3, CallStep, ScanStep, ReadHistoryStep, PatchTargetStep, OrderSyncStep, PollStep DEF Calls
    <3> QED BY <2>1, <3>1, <3>2 DEF InCall
  <2> QED BY <1>2, <2>2, <2>3 DEF JobStep, Calls
<1>3. ASSUME NEW j \in Jobs, JobStep(j)
      PROVE  /\ \A k \in Jobs : jobs'[k].plan = jobs[k].plan
             /\ Idle => Idle'
             /\ LiveIsLatest => LiveIsLatest'
  <2>1. Others(j) /\ jobs'[j].plan = jobs[j].plan /\ Running(j)
        /\ argo'.history = argo.history /\ argo'.live = argo.live
    BY <1>2, <1>3
  <2>2. \A k \in Jobs : jobs'[k].plan = jobs[k].plan
    BY <2>1 DEF Others
  <2>3. ASSUME Idle, NEW k \in Jobs, Plan[jobs'[k].plan] = <<>> PROVE jobs'[k].status # "running"
    <3>1. Plan[jobs[k].plan] = <<>>
      BY <2>2, <2>3
    <3>2. ~Running(k)
      BY <2>3, <3>1 DEF Idle
    <3>3. jobs'[k] = jobs[k]
      BY <2>1, <3>2 DEF Others
    <3> QED BY <3>2, <3>3 DEF Running
  <2>4. Idle => Idle'
    BY <2>3 DEF Idle, Running
  <2> QED BY <2>1, <2>2, <2>4 DEF LiveIsLatest
<1>4. CASE ArgoSyncs
  <2>1. /\ argo'.live = Wanted /\ argo'.history = Append(argo.history, Wanted)
        /\ \A k \in Jobs : jobs'[k].plan = jobs[k].plan /\ jobs'[k].status = jobs[k].status
    BY <1>4, ArgoSyncsStep
  <2>2. Idle => Idle'
    BY <2>1 DEF Idle, Running
  <2>3. LiveIsLatest'
    <3> DEFINE history == argo.history  wanted == Wanted
    <3>1. history \in Seq(Revisions) /\ wanted \in Revisions /\ argo'.live = wanted
          /\ argo'.history = Append(history, wanted)
      BY <2>1, WantedType DEF TypeOK
    <3> HIDE DEF history, wanted
    <3>2. /\ Append(history, wanted) # <<>>
          /\ Append(history, wanted)[Len(Append(history, wanted))] = wanted
      BY <3>1
    <3>3. argo'.live = Latest(argo'.history)
      BY <3>1, <3>2 DEF Latest
    <3> QED BY <3>3 DEF LiveIsLatest, Latest
  <2> QED BY <2>1, <2>2, <2>3
<1>5. CASE ArgoSyncFails \/ ArgoRefreshes
  BY <1>5, ArgoSyncFailsStep, ArgoRefreshesStep DEF Idle, Running, LiveIsLatest, Latest
<1> QED BY <1>1, <1>3, <1>4, <1>5 DEF Next

LEMMA InitRestores == Init => RestoreInv
<1> SUFFICES ASSUME Init PROVE RestoreInv
  OBVIOUS
<1>1. TypeOK
  BY InitTypes
<1>2. ASSUME NEW j \in Jobs
      PROVE  /\ jobs[j].wait = "call" /\ jobs[j].back = 0 /\ jobs[j].carried = FALSE
             /\ Plan[jobs[j].plan] = <<>> => jobs[j].status = "success"
  <2>1. jobs[j] = NewJob(scene.plans[j], scene.action)
    BY DEF Init
  <2> DEFINE plan == scene.plans[j]  action == scene.action
  <2>2. jobs[j] = NewJob(plan, action)
    BY <2>1
  <2> HIDE DEF plan, action
  <2>3. jobs[j].wait = "call" /\ jobs[j].back = 0 /\ jobs[j].carried = FALSE
    BY <2>2 DEF NewJob
  <2>4. jobs[j].plan = plan /\ jobs[j].status = IF Plan[plan] = <<>> THEN "success" ELSE "running"
    BY <2>2 DEF NewJob
  <2> QED BY <2>3, <2>4
<1>3. Idle
  BY <1>2 DEF Idle, Running
<1>4. LiveIsLatest /\ argo.op = {}
  BY DEF LiveIsLatest, Init
<1>5. ASSUME NEW j \in Jobs PROVE OneBack(jobs[j], argo) /\ Ordered(j, jobs[j], argo)
  <2> QED BY <1>2, <1>4 DEF OneBack, Ordered
<1> QED BY <1>1, <1>3, <1>4, <1>5 DEF RestoreInv

LEMMA KeepsRestores == RestoreInv /\ [Next]_vars => RestoreInv'
<1> SUFFICES ASSUME RestoreInv, [Next]_vars PROVE RestoreInv'
  OBVIOUS
<1>1. TypeOK /\ TypeOK' /\ Idle /\ LiveIsLatest
  BY KeepsTypes DEF RestoreInv
<1>2. Idle' /\ LiveIsLatest' /\ \A k \in Jobs : jobs'[k].plan = jobs[k].plan
  BY <1>1, StepsKeepPlans
<1>3. ASSUME NEW j \in Jobs, Ships(j), Alone(j)
      PROVE  OneBack(jobs'[j], argo') /\ Ordered(j, jobs'[j], argo')
  <2>1. OneBack(jobs[j], argo) /\ Ordered(j, jobs[j], argo)
    BY <1>3 DEF RestoreInv
  <2>2. CASE UNCHANGED vars
    BY <2>1, <2>2 DEF vars
  <2>3. ASSUME NEW k \in Jobs, JobStep(k) PROVE k = j
    <3>1. Running(k)
      BY <2>3 DEF JobStep, CallTool, CallStub, Refuse, Scan, WriteReport, ReadReport, ReadHistory, PatchTarget,
                  OrderSync, Poll, Conclude, Skip, Finish, At, InCall
    <3>2. ~(Plan[jobs[k].plan] = <<>>)
      BY <1>1, <3>1 DEF Idle
    <3> QED BY <1>3, <3>2 DEF Alone
  <2>4. CASE JobStep(j)
    BY <1>1, <1>3, <2>1, <2>4, CallsKeepBack, HistoryGoesBack, PatchGoesBack, OrderGoesBack, MovesKeepBack DEF JobStep
  <2>5. CASE ArgoSyncs
    BY <1>1, <2>1, <2>5, SyncMovesOneBack
  <2>6. CASE ArgoSyncFails \/ ArgoRefreshes
    BY <1>1, <2>1, <2>6, ArgoSyncFailsStep, ArgoRefreshesStep DEF OneBack, Ordered
  <2> QED BY <2>2, <2>3, <2>4, <2>5, <2>6 DEF Next
<1>4. ASSUME NEW j \in Jobs, Ships(j)', Alone(j)'
      PROVE  (OneBack(jobs[j], argo) /\ Ordered(j, jobs[j], argo))'
  <2>1. Ships(j) /\ Alone(j)
    BY <1>2, <1>4 DEF Ships, Alone
  <2> QED BY <1>3, <2>1
<1> QED BY <1>1, <1>2, <1>4 DEF RestoreInv

\* The rollback of a run that is alone picks the revision that was live before its deploy,
\* if Argo CD had carried the deploy out (RealArgocdRollback, history[-2]): the deploy makes
\* one entry, and nothing else is synced until the rollback has picked.
THEOREM RollbacksRestore == Spec => []RollbackRestores
<1>1. RestoreInv => RollbackRestores
  BY DEF RestoreInv, OneBack, RollbackRestores
<1> QED BY <1>1, InitRestores, KeepsRestores, PTL DEF Spec
=============================================================================
