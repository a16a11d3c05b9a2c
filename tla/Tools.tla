------------------------------- MODULE Tools -------------------------------
(***************************************************************************)
(* src/runtime/app/tools: what a tool call can answer.                     *)
(*                                                                         *)
(* A tool runs one command or one HTTP request.  A row says whether it     *)
(* checks its arguments, which credential it cannot do without, which exit *)
(* codes it accepts and how it reads the output; Outcome says what the     *)
(* caller gets: the data, a result without data (ok, but nothing was       *)
(* found in the output), an error (ok=False) or an exception.              *)
(***************************************************************************)
EXTENDS Naturals

\* How a command or request comes back.  "blank" and "garbled" are exit code 0 (or a
\* status below 400) with no output, or with output that is not what was asked for.
Exits    == {"zero", "one", "other", "timeout", "blank", "garbled"}
Outcomes == {"ok", "empty", "error", "raise"}

\* _run: a command past its timeout is killed and reported as exit code 1, no output.
Code(exit) == CASE exit = "timeout"             -> "one"
                [] exit \in {"blank", "garbled"} -> "zero"
                [] OTHER                         -> exit

---------------------------------------------------------------------------
(* Rows *)

\* checks: the parameter that must pass _safe_arg or _safe_int (for kubectl.restart an
\* unsafe target is also the runtime's own deployment, which it refuses).
Row(name, checks, reads) ==
  [name |-> name, checks |-> checks, reads |-> reads, needs |-> "nothing", accepts |-> {"zero"}]

Needing(row, credential) == [row EXCEPT !.needs = credential]
Accepting(row, codes)    == [row EXCEPT !.accepts = codes]

KubectlTools == { Row("kubectl.get", "target", "json"),        Row("kubectl.logs", "target", "nothing"),
                  Row("kubectl.events", "nothing", "json"),    Row("kubectl.describe", "target", "nothing"),
                  Row("kubectl.restart", "target", "nothing"), Row("kubectl.scale", "target", "nothing") }

TerraformTools == { Row("terraform.plan", "nothing", "regex"), Row("terraform.apply", "nothing", "nothing") }

TrivyTools == { Row("trivy.scan", "scan_path", "json") }

DockerTools == { Row("docker.build", "tag", "nothing"), Row("docker.tag", "tag", "nothing") }

HelmTools == { Row("helm.upgrade", "tag", "nothing"), Row("helm.rollback", "nothing", "nothing") }

ArgocdTools == { Row("argocd.sync", "nothing", "nothing"), Row("argocd.rollback", "nothing", "lenient") }

SaasTools == { Needing(Row("cloud.cost_explorer", "nothing", "caught"), "aws"),
               Needing(Row("slack.post", "nothing", "nothing"), "slack"),
               Needing(Row("pagerduty.read", "nothing", "lenient"), "pagerduty") }

GitTools == { Row("git.diff", "nothing", "nothing"), Row("git.log", "nothing", "nothing") }

\* ruff and pytest exit with 1 when they found something.
ScanTools == { Row("secrets.scan", "nothing", "lenient"),
               Accepting(Row("lint.run", "nothing", "lenient"), {"zero", "one"}),
               Accepting(Row("test.run", "nothing", "regex"), {"zero", "one"}),
               Row("test.select", "nothing", "nothing") }

RegistryTools == { Row("registry.push", "tag", "nothing"), Row("registry.pull", "tag", "nothing") }

IacTools == { Row("iac.scan", "nothing", "json") }

\* The smoke test answers ok=True whatever its requests came to.
ProbeTools == { Accepting(Row("http.smoke_test", "nothing", "status"), {"zero", "one", "other"}),
                Row("prometheus.query", "nothing", "lenient"), Row("alertmanager.read", "nothing", "lenient") }

ListTools == { Row("prometheus.targets", "nothing", "lenient"), Row("registry.list", "nothing", "lenient"),
               Needing(Row("pagerduty.list", "nothing", "lenient"), "pagerduty") }

REAL_TOOLS == UNION { KubectlTools, TerraformTools, TrivyTools, DockerTools, HelmTools, ArgocdTools,
                      SaasTools, GitTools, ScanTools, RegistryTools, IacTools, ProbeTools, ListTools }

RealNames == {row.name : row \in REAL_TOOLS}

\* runs.read has no real implementation: it is a stub in every deployment.
SIMULATED_TOOLS == RealNames \cup {"runs.read"}

IsReal(name, realEnabled) == realEnabled /\ name \in RealNames

\* get_tool
TheTool(name) == CHOOSE row \in REAL_TOOLS : row.name = name

MUTATING_TOOLS == { "kubectl.restart", "kubectl.scale", "terraform.apply", "helm.upgrade", "helm.rollback",
                    "argocd.sync", "argocd.rollback", "docker.build", "docker.tag", "registry.push" }

---------------------------------------------------------------------------
(* Answers *)

\* What each way of reading makes of no output and of output it cannot parse.
Reading == [ nothing |-> [blank |-> "ok",    garbled |-> "ok"],
             regex   |-> [blank |-> "empty", garbled |-> "empty"],
             lenient |-> [blank |-> "empty", garbled |-> "raise"],
             caught  |-> [blank |-> "error", garbled |-> "error"],
             json    |-> [blank |-> "raise", garbled |-> "raise"],
             status  |-> [blank |-> "ok",    garbled |-> "ok"] ]

\* unsafe: the parameters passed that do not pass their check.  creds: the credentials.
Outcome(row, exit, unsafe, creds) ==
  CASE row.checks \in unsafe \/ row.needs \notin creds \cup {"nothing"} -> "error"
    [] Code(exit) \notin row.accepts                                   -> "error"
    [] exit \in {"blank", "garbled"}                                   -> Reading[row.reads][exit]
    [] exit = "timeout" \/ (row.reads = "status" /\ exit # "zero")     -> "empty"
    [] OTHER                                                           -> "ok"
=============================================================================
