---------------------------- MODULE MCFlightplan ----------------------------
(***************************************************************************)
(* Flightplan on plans cut down from db/seed.sql: enough steps of each     *)
(* kind, with the agents' seeded min_role and is_mutating.                 *)
(***************************************************************************)
EXTENDS Flightplan

AgentStep(minRole, mutating, stops) ==
  [kind |-> "agent", known |-> TRUE, minRole |-> minRole, mutating |-> mutating,
   stops |-> stops, dep |-> 0, holds |-> {}]

ApprovalStep ==
  [kind |-> "approval", known |-> TRUE, minRole |-> Viewer, mutating |-> FALSE,
   stops |-> FALSE, dep |-> 0, holds |-> {}]

\* A step with `when: steps.<dep>.status == 'failed'`.
OnFailureOf(d, step) ==
  [step EXCEPT !.dep = d,
               !.holds = {[status |-> "failed", out |-> o] : o \in Outputs \cup {NoOutput}}]

\* ship-to-prod cut down: build, approval, deploy, verify, and rollback when
\* verify failed.  deploy is given review's fail_fast, so that a failure that
\* ends the run and one that does not both occur.
ShipToProd ==
  << AgentStep(Dev, TRUE, FALSE),
     ApprovalStep,
     AgentStep(Dev, TRUE, TRUE),
     AgentStep(Dev, FALSE, FALSE),
     OnFailureOf(4, AgentStep(Admin, TRUE, FALSE)) >>

OneOutput == {"output"}

UserOrPush == {[by |-> "user", role |-> Dev], [by |-> "system", role |-> Admin]}
DevRole == {Dev}

\* Every event once, but two approvals (which may resume one pause twice) and two
\* exceptions (the second may hit the statement that records the first).
EveryEvent == [e \in Events |-> IF e \in {"approve", "raise"} THEN 2 ELSE 1]

\* Two approvals and nothing else.
OnlyApprovals == [e \in Events |-> IF e = "approve" THEN 2 ELSE 0]
=============================================================================
