------------------------------ MODULE Startup ------------------------------
(***************************************************************************)
(* How the runtime and the BFF come up: runtime/app/vault.py and main.py   *)
(* (lifespan), bff/src/vault.js and bootstrap.js, next to a Vault that     *)
(* forgets everything when it restarts, the job that configures it again   *)
(* (k8s/07-vault-init-job.yaml) and the kubelet, which starts an ended     *)
(* container again and ends one that does not serve.  Time is counted in   *)
(* rounds of LOGIN_RETRY_SECONDS (5 s).                                    *)
(***************************************************************************)
EXTENDS Integers, Sequences

CONSTANTS
  MaxLoginAttempts, \* MAX_LOGIN_ATTEMPTS (40)
  Window,           \* the rounds Vault may stay unconfigured: 2 minutes (24)
  Deployments,      \* what a cluster or a compose file may set
  Budget            \* how often each event of the environment may happen

\* A secret: missing, the public INSECURE_DEFAULT_JWT_SECRET, or a good one.
Secrets == {"empty", "placeholder", "good"}

\* who: the service whose container it is.  vault: VAULT_ADDR is set.  seed: the jwt secret the job writes.  jwt, mode and
\* test: JWT_SECRET, APPROVAL_MODE, and ENVIRONMENT=test in the test namespace.
\* patience: rounds the kubelet's liveness probe waits for /health.
Settings == [who: {"runtime", "bff"}, vault: BOOLEAN, seed: Secrets, jwt: Secrets,
             mode: {"manual", "auto", "typo"}, test: BOOLEAN, patience: Nat]

Events == {"restart", "crash", "database"}

ASSUME StartupAssumption ==
  /\ MaxLoginAttempts \in Nat \ {0} /\ Window \in Nat
  /\ Deployments \subseteq Settings
  /\ Budget \in [Events -> Nat]

VARIABLES
  config,    \* the deployment, which no step changes
  vault,     \* up, and what has been written since it came up
  job,       \* the command the init job is at (0: it is not running)
  pod,       \* the container
  left       \* what is left of Budget

vars == <<config, vault, job, pod, left>>

\* What the job writes, in its order: the auth roles come before the secrets.
Job == <<"role", "jwt", "llm", "webhooks", "integrations">>
Written == {Job[i] : i \in DOMAIN Job}
Configured == vault.has = Written

\* What load_secrets_from_vault reads; the bff's policy lets it read one path.
Paths == IF config.who = "runtime" THEN <<"jwt", "llm", "webhooks", "integrations">> ELSE <<"jwt">>

Phases == {"down", "login", "sleep", "read", "check", "connect", "serving"}
Starting == Phases \ {"down", "serving"}
Causes == {"none", "denied", "unreachable", "missing", "unsafe", "database", "probe", "crash"}

\* attempt: of _login.  age: rounds since the container started.  late: rounds it
\* has seen Vault up and not configured.  token: Vault still knows the token it
\* was given.  next: the path it reads next.  got: the paths whose data it has.
\* ended: why it last ended.
Pod == [pc: Phases, attempt: 0..MaxLoginAttempts, age: Nat, late: 0..Window, token: BOOLEAN,
        next: 1..5, jwt: Secrets, got: SUBSET Written, ended: Causes]

NewPod == [pc |-> "down", attempt |-> 0, age |-> 0, late |-> 0, token |-> FALSE,
           next |-> 1, jwt |-> "empty", got |-> {}, ended |-> "none"]

Init ==
  /\ config \in Deployments
  /\ vault = [up |-> TRUE, has |-> {}]
  /\ job = 0
  /\ pod = NewPod
  /\ left = Budget

---------------------------------------------------------------------------
(* Vault and its init job *)

\* The dev server keeps everything in memory: roles, secrets and tokens.
VaultRestarts ==
  /\ config.vault /\ vault.up /\ left["restart"] > 0
  /\ vault' = [up |-> FALSE, has |-> {}]
  /\ job' = 0
  /\ pod' = [pod EXCEPT !.token = FALSE, !.late = 0]
  /\ left' = [left EXCEPT !["restart"] = @ - 1]
  /\ UNCHANGED config

VaultIsUp ==
  /\ ~vault.up
  /\ vault' = [vault EXCEPT !.up = TRUE]
  /\ UNCHANGED <<config, job, pod, left>>

\* The CronJob; while Vault is down it waits.
JobStarts ==
  /\ config.vault /\ vault.up /\ job = 0 /\ ~Configured
  /\ job' = 1
  /\ UNCHANGED <<config, vault, pod, left>>

JobWrites ==
  /\ job # 0
  /\ vault' = [vault EXCEPT !.has = @ \cup {Job[job]}]
  /\ job' = IF job = Len(Job) THEN 0 ELSE job + 1
  /\ UNCHANGED <<config, pod, left>>

---------------------------------------------------------------------------
(* One container *)

Ended(cause) == [NewPod EXCEPT !.late = pod.late, !.ended = cause]

\* Mutant of FirstPhase: the secrets are looked at before Vault is asked.
ChecksFirst(c) == "check"

FirstPhase(c) == IF c.vault THEN "login" ELSE "check"

Starts ==
  /\ pod.pc = "down"
  /\ pod' = [NewPod EXCEPT !.pc = FirstPhase(config), !.attempt = 1, !.late = pod.late,
                           !.jwt = config.jwt, !.ended = pod.ended]
  /\ UNCHANGED <<config, vault, job, left>>

\* runtime: only an HTTP error status is tried again; bff: a refused connection as well.
Retried == vault.up \/ config.who = "bff"

\* Mutant of LastAttempt: one attempt too many.
OneMore(attempt) == attempt > MaxLoginAttempts

LastAttempt(attempt) == attempt = MaxLoginAttempts

Login ==
  /\ pod.pc = "login"
  /\ pod' = IF vault.up /\ "role" \in vault.has THEN [pod EXCEPT !.pc = "read", !.token = TRUE]
            ELSE IF ~Retried THEN Ended("unreachable")
            ELSE IF LastAttempt(pod.attempt) THEN Ended("denied")
            ELSE [pod EXCEPT !.pc = "sleep"]
  /\ UNCHANGED <<config, vault, job, left>>

\* A round passes.  The job has run before Vault was up for Window rounds, and the
\* kubelet's patience is not over.
Sleeps ==
  /\ pod.pc = "sleep"
  /\ pod.age < config.patience
  /\ vault.up => pod.late < Window \/ Configured
  /\ pod' = [pod EXCEPT !.pc = "login", !.attempt = @ + 1, !.age = @ + 1,
                        !.late = IF vault.up /\ ~Configured THEN @ + 1 ELSE @]
  /\ UNCHANGED <<config, vault, job, left>>

\* uvicorn opens its port when the lifespan has started, server.js listens last:
\* until then /health answers nobody.
KubeletKills ==
  /\ pod.pc = "sleep" /\ pod.age >= config.patience
  /\ pod' = Ended("probe")
  /\ UNCHANGED <<config, vault, job, left>>

\* Mutant of Readable: an answer without data counts as empty.
AnyAnswer(path) == vault.up

\* An answer that has no ["data"]["data"] (403, 404) raises, and ends the start-up.
Readable(path) == vault.up /\ pod.token /\ path \in vault.has

\* What Vault stores replaces the environment's, an empty secret in the runtime only.
Effective(own, stored) == IF stored = "empty" /\ config.who = "bff" THEN own ELSE stored

Reads ==
  /\ pod.pc = "read"
  /\ LET path == Paths[pod.next]
         last == pod.next = Len(Paths)
     IN  pod' = IF ~Readable(path) THEN Ended(IF vault.up THEN "missing" ELSE "unreachable")
                ELSE [pod EXCEPT !.pc = IF last THEN "check" ELSE "read",
                                 !.next = IF last THEN 1 ELSE @ + 1,
                                 !.jwt = IF path = "jwt" THEN Effective(@, config.seed) ELSE @,
                                 !.got = @ \cup ({path} \cap vault.has)]
  /\ UNCHANGED <<config, vault, job, left>>

Acceptable(jwt) == jwt = "good"

ModeAllowed(mode, test) == mode = "manual" \/ (mode = "auto" /\ test)

Checks ==
  /\ pod.pc = "check"
  /\ pod' = IF Acceptable(pod.jwt) /\ (config.who = "runtime" => ModeAllowed(config.mode, config.test))
            THEN [pod EXCEPT !.pc = "connect"]
            ELSE Ended("unsafe")
  /\ UNCHANGED <<config, vault, job, left>>

\* init_pool and fail_orphaned_runs, the scheduler's task and yield; connectRedis
\* and listen.
Connects ==
  /\ pod.pc = "connect"
  /\ pod' = [pod EXCEPT !.pc = "serving"]
  /\ UNCHANGED <<config, vault, job, left>>

\* The database or Redis refuses.
ConnectFails ==
  /\ pod.pc = "connect" /\ left["database"] > 0
  /\ pod' = Ended("database")
  /\ left' = [left EXCEPT !["database"] = @ - 1]
  /\ UNCHANGED <<config, vault, job>>

Crashes ==
  /\ pod.pc = "serving" /\ left["crash"] > 0
  /\ pod' = Ended("crash")
  /\ left' = [left EXCEPT !["crash"] = @ - 1]
  /\ UNCHANGED <<config, vault, job>>

Step == Starts \/ Login \/ Sleeps \/ KubeletKills \/ Reads \/ Checks \/ Connects

Next ==
  \/ VaultRestarts \/ VaultIsUp \/ JobStarts \/ JobWrites
  \/ Step \/ ConnectFails \/ Crashes

Spec == Init /\ [][Next]_vars

\* Vault comes back, the CronJob runs every two minutes, the kubelet restarts what
\* ended, and a process goes on by itself.
FairSpec ==
  /\ Spec
  /\ WF_vars(VaultIsUp) /\ WF_vars(JobStarts) /\ WF_vars(JobWrites)
  /\ WF_vars(Step)

---------------------------------------------------------------------------
(* Properties *)

TypeOK ==
  /\ config \in Settings
  /\ vault \in [up: BOOLEAN, has: SUBSET Written]
  /\ job \in 0..Len(Job)
  /\ pod \in Pod
  /\ left \in [Events -> Nat]
  /\ job # 0 => vault.up

\* Whatever Vault did while a container came up, one that serves does so with a
\* secret that is not public, runs commands unasked only in the test namespace, and
\* with Vault in use has the data of every path it was to read: no start-up goes on
\* with half of it, say without the webhooks' secrets (main.py: lifespan; vault.py:
\* load_secrets_from_vault).
ServingIsSafe ==
  pod.pc = "serving" =>
    /\ pod.jwt = "good"
    /\ config.who = "runtime" => config.mode = "manual" \/ config.test
    /\ config.vault => \A i \in DOMAIN Paths : Paths[i] \in pod.got

\* A well-configured container gets to serve, however its start-ups run into Vault's
\* restarts, the job's half-written secrets, the kubelet's patience and its own
\* crashes (vault.py, main.py, k8s/07-vault-init-job.yaml).
WellConfigured ==
  /\ (IF config.vault THEN Effective(config.jwt, config.seed) ELSE config.jwt) = "good"
  /\ config.who = "runtime" => config.mode = "manual" \/ (config.mode = "auto" /\ config.test)

StartsUp == WellConfigured ~> pod.pc = "serving"

\* docs/guide/09-security.md:181-186: a pod that boots before Vault is configured
\* again no longer ends on its login; it tries every 5 s for up to 3.3 minutes.  The
\* code ends it when Vault does not answer, and the kubelet before it is configured.
WindowIsRiddenOut == pod.ended \notin {"unreachable", "probe"}
=============================================================================
