--------------------------- MODULE StartupProofs ---------------------------
(***************************************************************************)
(* Theorems about Startup, for every bound on the attempts, every window,  *)
(* every set of deployments and every budget of trouble.                   *)
(***************************************************************************)
EXTENDS Startup, TLAPS

---------------------------------------------------------------------------
(* The inductive invariant: what a container that has come this far has     *)
(* behind it.                                                               *)

\* The container asks Vault only where there is one, and has an attempt left when
\* it sleeps; it stands at a path of its own.
Placed ==
  /\ pod.pc \in {"login", "sleep", "read"} => config.vault
  /\ pod.pc \in {"login", "sleep"} => pod.next = 1
  /\ pod.pc = "sleep" => pod.attempt < MaxLoginAttempts
  /\ pod.pc = "read" => pod.next \in 1..Len(Paths)

\* The paths before the next one have been read, all of them by a container that is
\* past reading.
Loaded ==
  /\ pod.pc = "read" => \A i \in 1..Len(Paths) : i < pod.next => Paths[i] \in pod.got
  /\ pod.pc \in {"check", "connect", "serving"} /\ config.vault =>
       \A i \in 1..Len(Paths) : Paths[i] \in pod.got

\* A container that connects or serves has passed its checks.
Checked ==
  pod.pc \in {"connect", "serving"} =>
    /\ pod.jwt = "good"
    /\ config.who = "runtime" => ModeAllowed(config.mode, config.test)

StartInv == TypeOK /\ Placed /\ Loaded /\ Checked

---------------------------------------------------------------------------
(* Lemmas about the constants of the module.                                *)

LEMMA JobFacts == /\ Len(Job) = 5 /\ DOMAIN Job = 1..5
                  /\ \A i \in 1..5 : Job[i] \in Written
                  /\ {"jwt", "llm", "webhooks", "integrations"} \subseteq Written
  BY DEF Job, Written

LEMMA PathFacts ==
  /\ Len(Paths) \in 1..4 /\ DOMAIN Paths = 1..Len(Paths)
  /\ \A i \in 1..Len(Paths) : Paths[i] \in Written
<1>1. CASE config.who = "runtime"
  <2>1. Paths = <<"jwt", "llm", "webhooks", "integrations">>
    BY <1>1 DEF Paths
  <2>2. Len(Paths) = 4 /\ DOMAIN Paths = 1..4
    BY <2>1
  <2>3. \A i \in 1..4 : Paths[i] \in {"jwt", "llm", "webhooks", "integrations"}
    BY <2>1
  <2> QED BY <2>2, <2>3, JobFacts
<1>2. CASE config.who # "runtime"
  <2>1. Paths = <<"jwt">>
    BY <1>2 DEF Paths
  <2>2. Len(Paths) = 1 /\ DOMAIN Paths = 1..1 /\ Paths[1] = "jwt"
    BY <2>1
  <2> QED BY <2>2, JobFacts
<1> QED BY <1>1, <1>2

LEMMA NewPodType == NewPod \in Pod
  BY StartupAssumption DEF NewPod, Pod, Phases, Starting, Causes, Secrets

\* An ended container is a new one, apart from what the kubelet and Vault did to it.
LEMMA EndedType ==
  ASSUME TypeOK, NEW cause \in Causes
  PROVE  Ended(cause) \in Pod /\ Ended(cause).pc = "down"
<1>1. pod.late \in 0..Window
  BY DEF TypeOK, Pod
<1>2. Ended(cause) = [NewPod EXCEPT !.late = pod.late, !.ended = cause]
  BY DEF Ended
<1>3. Ended(cause) \in Pod
  BY <1>1, <1>2, NewPodType DEF Pod
<1>4. NewPod.pc = "down"
  BY DEF NewPod
<1>5. Ended(cause).pc = "down"
  BY <1>2, <1>4, NewPodType DEF Pod
<1> QED BY <1>3, <1>5

---------------------------------------------------------------------------
(* The invariant holds initially and is preserved.                          *)

LEMMA InitHolds == Init => StartInv
<1> SUFFICES ASSUME Init PROVE StartInv
  OBVIOUS
<1>1. TypeOK
  BY NewPodType, JobFacts, StartupAssumption DEF Init, TypeOK, Settings
<1>2. Placed /\ Loaded /\ Checked
  BY DEF Init, NewPod, Placed, Loaded, Checked
<1> QED BY <1>1, <1>2 DEF StartInv

\* A step that ends the container, or leaves it down, disturbs nothing but types.
LEMMA DownHolds ==
  ASSUME pod'.pc = "down", UNCHANGED config
  PROVE  (Placed /\ Loaded /\ Checked)'
  BY DEF Placed, Loaded, Checked

LEMMA NextHolds == StartInv /\ [Next]_vars => StartInv'
<1> SUFFICES ASSUME StartInv, [Next]_vars PROVE StartInv'
  OBVIOUS
<1>c. UNCHANGED config
  BY DEF Next, Step, vars, VaultRestarts, VaultIsUp, JobStarts, JobWrites, Starts, Login, Sleeps,
         KubeletKills, Reads, Checks, Connects, ConnectFails, Crashes
<1>p. Paths' = Paths /\ Len(Paths)' = Len(Paths)
  BY <1>c DEF Paths
<1>1. CASE VaultRestarts \/ VaultIsUp \/ JobStarts \/ JobWrites
  <2>1. TypeOK'
    <3>1. CASE VaultRestarts
      <4>1. pod' = [pod EXCEPT !.token = FALSE, !.late = 0]
        BY <3>1 DEF VaultRestarts
      <4>2. 0 \in 0..Window /\ pod \in Pod
        BY StartupAssumption DEF StartInv, TypeOK
      <4>3. pod' \in Pod
        BY <4>1, <4>2 DEF Pod
      <4>4. left' \in [Events -> Nat]
        BY <3>1 DEF VaultRestarts, StartInv, TypeOK, Events
      <4> QED BY <3>1, <4>3, <4>4, JobFacts DEF VaultRestarts, StartInv, TypeOK
    <3>2. CASE VaultIsUp
      BY <3>2 DEF VaultIsUp, StartInv, TypeOK
    <3>3. CASE JobStarts
      BY <3>3, JobFacts DEF JobStarts, StartInv, TypeOK
    <3>4. CASE JobWrites
      <4>1. job \in 1..5 /\ Job[job] \in Written
        BY <3>4, JobFacts DEF JobWrites, StartInv, TypeOK
      <4>2. vault' \in [up: BOOLEAN, has: SUBSET Written] /\ vault'.up = vault.up
        BY <3>4, <4>1 DEF JobWrites, StartInv, TypeOK
      <4>3. job' \in 0..Len(Job)
        BY <3>4, <4>1, JobFacts DEF JobWrites
      <4> QED BY <3>4, <4>2, <4>3 DEF JobWrites, StartInv, TypeOK
    <3> QED BY <1>1, <3>1, <3>2, <3>3, <3>4
  <2>2. /\ pod'.pc = pod.pc /\ pod'.next = pod.next /\ pod'.attempt = pod.attempt
        /\ pod'.got = pod.got /\ pod'.jwt = pod.jwt
    BY <1>1 DEF StartInv, TypeOK, VaultRestarts, VaultIsUp, JobStarts, JobWrites, Pod
  <2>3. (Placed /\ Loaded /\ Checked)'
    BY <2>2, <1>c, <1>p DEF StartInv, Placed, Loaded, Checked
  <2> QED BY <2>1, <2>3 DEF StartInv
<1>2. CASE Starts
  <2>1. pod' = [NewPod EXCEPT !.pc = FirstPhase(config), !.attempt = 1, !.late = pod.late,
                              !.jwt = config.jwt, !.ended = pod.ended]
    BY <1>2 DEF Starts
  <2>2. TypeOK'
    <3>1. FirstPhase(config) \in Phases /\ config.jwt \in Secrets
      BY DEF StartInv, TypeOK, FirstPhase, Settings, Phases
    <3>2. pod.late \in 0..Window /\ pod.ended \in Causes /\ 1 \in 0..MaxLoginAttempts
      BY StartupAssumption DEF StartInv, TypeOK, Pod
    <3>3. pod' \in Pod
      BY <2>1, <3>1, <3>2, NewPodType DEF Pod
    <3> QED BY <1>2, <3>3 DEF StartInv, TypeOK, Starts
  <2>3. /\ pod'.pc = (IF config.vault THEN "login" ELSE "check")
        /\ pod'.next = 1
    BY <2>1, NewPodType DEF NewPod, FirstPhase, Pod
  <2>4. (Placed /\ Loaded /\ Checked)'
    BY <2>3, <1>c DEF Placed, Loaded, Checked
  <2> QED BY <2>2, <2>4 DEF StartInv
<1>3. CASE Login
  <2>1. CASE pod' = [pod EXCEPT !.pc = "read", !.token = TRUE]
    <3>1. TypeOK'
      <4>1. pod \in Pod /\ "read" \in Phases
        BY DEF StartInv, TypeOK, Phases
      <4>2. pod' \in Pod
        BY <4>1, <2>1 DEF Pod
      <4> QED BY <1>3, <4>2 DEF StartInv, TypeOK, Login
    <3>2. pod'.pc = "read" /\ pod'.next = 1 /\ config.vault
      <4>1. pod \in Pod /\ pod.next = 1 /\ config.vault
        BY <1>3 DEF StartInv, TypeOK, Login, Placed
      <4> QED BY <4>1, <2>1 DEF Pod
    <3>3. (Placed /\ Loaded /\ Checked)'
      BY <3>2, <1>c, <1>p, PathFacts DEF Placed, Loaded, Checked
    <3> QED BY <3>1, <3>3 DEF StartInv
  <2>2. CASE \E cause \in Causes : pod' = Ended(cause)
    <3>1. pod' \in Pod /\ pod'.pc = "down"
      BY <2>2, EndedType DEF StartInv
    <3>2. TypeOK'
      BY <1>3, <3>1 DEF StartInv, TypeOK, Login
    <3> QED BY <3>1, <3>2, <1>c, DownHolds DEF StartInv
  <2>3. CASE pod' = [pod EXCEPT !.pc = "sleep"] /\ ~LastAttempt(pod.attempt)
    <3>1. TypeOK'
      <4>1. pod \in Pod /\ "sleep" \in Phases
        BY DEF StartInv, TypeOK, Phases
      <4>2. pod' \in Pod
        BY <4>1, <2>3 DEF Pod
      <4> QED BY <1>3, <4>2 DEF StartInv, TypeOK, Login
    <3>2. pod'.pc = "sleep" /\ pod'.next = 1 /\ config.vault /\ pod'.attempt = pod.attempt
      BY <1>3, <2>3 DEF StartInv, TypeOK, Pod, Login, Placed
    <3>3. pod.attempt < MaxLoginAttempts
      BY <2>3, StartupAssumption DEF StartInv, TypeOK, Pod, LastAttempt
    <3>4. (Placed /\ Loaded /\ Checked)'
      BY <3>2, <3>3, <1>c, <1>p DEF Placed, Loaded, Checked
    <3> QED BY <3>1, <3>4 DEF StartInv
  <2> QED BY <1>3, <2>1, <2>2, <2>3 DEF Login, Causes
<1>4. CASE Sleeps
  <2>1. TypeOK'
    <3>1. pod.attempt + 1 \in 0..MaxLoginAttempts /\ pod.age + 1 \in Nat
      BY <1>4, StartupAssumption DEF StartInv, TypeOK, Placed, Sleeps, Pod
    <3>2. (IF vault.up /\ ~Configured THEN pod.late + 1 ELSE pod.late) \in 0..Window
      BY <1>4, StartupAssumption DEF StartInv, TypeOK, Sleeps, Pod
    <3>3. pod' \in Pod
      BY <1>4, <3>1, <3>2 DEF StartInv, TypeOK, Sleeps, Pod, Phases
    <3> QED BY <1>4, <3>3 DEF StartInv, TypeOK, Sleeps
  <2>2. pod'.pc = "login" /\ pod'.next = 1 /\ config.vault
    BY <1>4 DEF StartInv, TypeOK, Pod, Sleeps, Placed
  <2>3. (Placed /\ Loaded /\ Checked)'
    BY <2>2, <1>c DEF Placed, Loaded, Checked
  <2> QED BY <2>1, <2>3 DEF StartInv
<1>5. CASE KubeletKills \/ ConnectFails \/ Crashes
  <2>1. \E cause \in Causes : pod' = Ended(cause)
    BY <1>5 DEF KubeletKills, ConnectFails, Crashes, Causes
  <2>2. TypeOK' /\ pod'.pc = "down"
    BY <1>5, <1>c, <2>1, EndedType DEF StartInv, TypeOK, KubeletKills, ConnectFails, Crashes, Events
  <2> QED BY <2>2, <1>c, DownHolds DEF StartInv
<1>6. CASE Reads
  <2> DEFINE path == Paths[pod.next]
             last == pod.next = Len(Paths)
  <2>1. pod.pc = "read" /\ pod.next \in 1..Len(Paths) /\ config.vault /\ path \in Written
    BY <1>6, PathFacts DEF Reads, StartInv, Placed
  <2>2. CASE ~Readable(path)
    <3>1. \E cause \in Causes : pod' = Ended(cause)
      BY <1>6, <2>2 DEF Reads, Causes
    <3>2. TypeOK' /\ pod'.pc = "down"
      BY <1>6, <1>c, <3>1, EndedType DEF StartInv, TypeOK, Reads
    <3> QED BY <3>2, <1>c, DownHolds DEF StartInv
  <2>3. CASE Readable(path)
    <3>1. path \in vault.has
      BY <2>3 DEF Readable
    <3>2. /\ pod'.pc = (IF last THEN "check" ELSE "read")
          /\ pod'.next = (IF last THEN 1 ELSE pod.next + 1)
          /\ pod'.got = pod.got \cup {path}
      BY <1>6, <2>3, <3>1 DEF Reads, StartInv, TypeOK, Pod
    <3>3. Effective(pod.jwt, config.seed) \in Secrets
      BY DEF StartInv, TypeOK, Pod, Effective, Settings
    <3>4. TypeOK'
      <4>1. (IF last THEN 1 ELSE pod.next + 1) \in 1..5
        BY <2>1, PathFacts
      <4>2. pod.got \cup ({path} \cap vault.has) \in SUBSET Written
        BY <2>1 DEF StartInv, TypeOK, Pod
      <4>3. pod' = [pod EXCEPT !.pc = IF last THEN "check" ELSE "read",
                               !.next = IF last THEN 1 ELSE pod.next + 1,
                               !.jwt = IF path = "jwt" THEN Effective(pod.jwt, config.seed) ELSE pod.jwt,
                               !.got = pod.got \cup ({path} \cap vault.has)]
        BY <1>6, <2>3 DEF Reads
      <4>4. pod' \in Pod
        BY <4>1, <4>2, <4>3, <3>3 DEF StartInv, TypeOK, Pod, Phases
      <4> QED BY <1>6, <4>4 DEF Reads, StartInv, TypeOK
    <3>5. Placed'
      BY <2>1, <3>2, <1>c, <1>p, PathFacts DEF Placed
    <3>6. \A i \in 1..Len(Paths) : i <= pod.next => Paths[i] \in pod'.got
      BY <2>1, <3>2, PathFacts DEF StartInv, Loaded
    <3>7. Loaded' /\ Checked'
      BY <2>1, <3>2, <3>6, <1>c, <1>p, PathFacts DEF Loaded, Checked
    <3> QED BY <3>4, <3>5, <3>7 DEF StartInv
  <2> QED BY <2>2, <2>3
<1>7. CASE Checks
  <2>1. CASE /\ pod' = [pod EXCEPT !.pc = "connect"] /\ Acceptable(pod.jwt)
             /\ config.who = "runtime" => ModeAllowed(config.mode, config.test)
    <3>1. TypeOK'
      BY <1>7, <1>c, <2>1 DEF StartInv, TypeOK, Checks, Pod, Phases
    <3>2. /\ pod'.pc = "connect" /\ pod'.got = pod.got /\ pod'.jwt = pod.jwt
          /\ pod.jwt = "good" /\ pod.pc = "check"
      BY <1>7, <2>1 DEF Checks, Acceptable, StartInv, TypeOK, Pod
    <3>3. (Placed /\ Loaded /\ Checked)'
      BY <2>1, <3>2, <1>c, <1>p DEF StartInv, Placed, Loaded, Checked, ModeAllowed
    <3> QED BY <3>1, <3>3 DEF StartInv
  <2>2. CASE pod' = Ended("unsafe")
    <3>1. TypeOK' /\ pod'.pc = "down"
      BY <1>7, <1>c, <2>2, EndedType DEF StartInv, TypeOK, Checks, Causes
    <3> QED BY <3>1, <1>c, DownHolds DEF StartInv
  <2> QED BY <1>7, <2>1, <2>2 DEF Checks
<1>8. CASE Connects
  <2>1. TypeOK'
    BY <1>8, <1>c DEF StartInv, TypeOK, Connects, Pod, Phases
  <2>2. pod'.pc = "serving" /\ pod'.got = pod.got /\ pod'.jwt = pod.jwt /\ pod.pc = "connect"
    BY <1>8 DEF Connects, StartInv, TypeOK, Pod
  <2>3. (Placed /\ Loaded /\ Checked)'
    BY <2>2, <1>c, <1>p DEF StartInv, Placed, Loaded, Checked, ModeAllowed
  <2> QED BY <2>1, <2>3 DEF StartInv
<1>9. CASE UNCHANGED vars
  BY <1>9, <1>p DEF vars, StartInv, TypeOK, Placed, Loaded, Checked, ModeAllowed
<1> QED BY <1>1, <1>2, <1>3, <1>4, <1>5, <1>6, <1>7, <1>8, <1>9 DEF Next, Step

---------------------------------------------------------------------------

\* Type correctness of the start-up: no attempt past MAX_LOGIN_ATTEMPTS, no path past
\* the last, no write of the init job while Vault is down (vault.py, main.py).
THEOREM TypeCorrect == Spec => []TypeOK
<1>1. StartInv => TypeOK
  BY DEF StartInv
<1> QED BY <1>1, InitHolds, NextHolds, PTL DEF Spec

\* A container that serves is safely configured, whatever Vault, its init job, the
\* kubelet and the database did while it came up (main.py: lifespan).
THEOREM ServesSafely == Spec => []ServingIsSafe
<1>1. StartInv => ServingIsSafe
  BY PathFacts DEF StartInv, TypeOK, Loaded, Checked, ServingIsSafe, ModeAllowed
<1> QED BY <1>1, InitHolds, NextHolds, PTL DEF Spec
=============================================================================
