----------------------------- MODULE MCStartup -----------------------------
(***************************************************************************)
(* Startup with k8s/01-configmap.yaml, docker-compose.yml and mistakes in  *)
(* each.  The order of the bounds is the order of the code's: the kubelet  *)
(* gives up (9 to 12 rounds) before the job has run (24) and that before   *)
(* the login does (40).  The longer patience is a probe that waits.        *)
(***************************************************************************)
EXTENDS Startup

Set(w, v, seed, jwt, mode, test, patience) ==
  [who |-> w, vault |-> v, seed |-> seed, jwt |-> jwt, mode |-> mode, test |-> test, patience |-> patience]

Services == {"runtime", "bff"}

Cluster == {Set(w, TRUE, s, j, "manual", FALSE, n) : s \in {"good", "empty"},
                                                  j \in {"placeholder", "good"}, n \in {12, 60}, w \in Services}
Compose == {Set(w, FALSE, "empty", j, m, t, 12) : j \in Secrets, m \in {"manual", "auto", "typo"},
                                              t \in BOOLEAN, w \in Services}
MCDeployments == Cluster \cup Compose

ClusterOnly == {Set("runtime", TRUE, "good", "empty", "manual", FALSE, 12)}

Once == [e \in Events |-> 1]
=============================================================================
