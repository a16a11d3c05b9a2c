------------------------------ MODULE MCAgents ------------------------------
(***************************************************************************)
(* The situations TLC starts the agents in: which runs, what their tools   *)
(* can find, how many calls go wrong.                                      *)
(***************************************************************************)
EXTENDS Agents

CONSTANTS a, b

MCJobs == {a, b}

Clean == [ secrets |-> FALSE, tests |-> "pass", cves |-> "HIGH", smoke |-> TRUE, rate |-> "low",
           severity |-> "P1", desired |-> 4, ready |-> 4, noisy |-> TRUE ]

\* Both runs' plans, and up to n calls that go wrong.
Runs(p, q, facts, n) ==
  [ plans |-> [j \in MCJobs |-> IF j = a THEN p ELSE q], facts |-> facts, faults |-> n, real |-> TRUE,
    creds |-> {"slack", "pagerduty"}, unsafe |-> {}, action |-> "restart_pod", allowed |-> Actions, up |-> TRUE, head |-> 3,
    history |-> <<1, 2>>, status |-> "OutOfSync" ]

Stale(s) == [s EXCEPT !.status = "Synced"]

\* Each trouble a gate looks for, in one run with one call that goes wrong.
Gates == { Runs("ship", "idle", f, 1) : f \in
  { [Clean EXCEPT !.secrets = TRUE], [Clean EXCEPT !.tests = "fail"], [Clean EXCEPT !.tests = "error"],
    [Clean EXCEPT !.cves = "CRITICAL"], [Clean EXCEPT !.smoke = FALSE], [Clean EXCEPT !.rate = "high"] } }

\* The same with stubs for tools; a bad release with a status that lags, or Argo CD down.
Lagging == { [s EXCEPT !.real = FALSE] : s \in Gates }
             \cup { Stale(Runs("ship", "idle", [Clean EXCEPT !.smoke = FALSE], 1)),
                    [Runs("ship", "idle", [Clean EXCEPT !.rate = "high"], 1) EXCEPT !.up = FALSE] }

\* Two runs at the same time, which find a secret, or a bad release.
Pairs == { [Stale(Runs("ship", "ship", [Clean EXCEPT !.secrets = TRUE], 0)) EXCEPT !.up = FALSE],
           Stale(Runs("ship", "undo", [Clean EXCEPT !.smoke = FALSE], 0)) }

Incidents == { Runs("incident", "idle", f, 1) : f \in
  { Clean, [Clean EXCEPT !.severity = "P3"], [Clean EXCEPT !.ready = 1], [Clean EXCEPT !.desired = 2, !.ready = 2] } }
  \cup { [Runs("incident", "idle", [Clean EXCEPT !.ready = 1], 0) EXCEPT !.allowed = {"rollback_release"}] }

Others == { Runs("sweep", "apply", Clean, 1), Runs("undo", "undo", Clean, 1),
            [Runs("undo", "assistant", Clean, 0) EXCEPT !.history = <<2>>],
            [Runs("remedy", "assistant", Clean, 0) EXCEPT !.action = "scale_hpa", !.unsafe = {"target"}],
            [Runs("remedy", "idle", Clean, 1) EXCEPT !.action = "scale_hpa"],
            [Runs("remedy", "assistant", Clean, 1) EXCEPT !.action = "rollback_release"] }

MCScenes == Gates \cup Lagging \cup Pairs \cup Incidents \cup Others

\* Failing tests and one call that goes wrong.
TestScenes == { Runs("ship", "idle", [Clean EXCEPT !.tests = "fail"], 1) }
=============================================================================
