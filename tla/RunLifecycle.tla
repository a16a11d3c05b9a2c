---------------------------- MODULE RunLifecycle ----------------------------
(***************************************************************************)
(* What every run of table runs goes through, whoever executes it: the     *)
(* abstract specification that Flightplan, ChatRun and Service implement.  *)
(*                                                                         *)
(* The actors are the owners: a request handler that has read the run and  *)
(* decided to act on it, and the coroutine it spawns.  Besides them only   *)
(* an abort, the sweep of paused runs and the start-up of a new process    *)
(* write a status, each with a guard in its WHERE clause; an owner's own   *)
(* writes have none.                                                       *)
(***************************************************************************)
EXTENDS FiniteSets

CONSTANTS Runs, Owners

VARIABLES
  status,   \* runs.status ("none": the row does not exist)
  owners    \* who may still write it

vars == <<status, owners>>

Settled == {"success", "failed", "aborted"}
Paused  == {"awaiting_approval", "awaiting_user_input", "awaiting_command_approval"}
Open    == {"queued", "running"} \cup Paused
Status  == {"none"} \cup Settled \cup Open

Init == /\ status = [r \in Runs |-> "none"]
        /\ owners = [r \in Runs |-> {}]

Write(r, s) == status' = [status EXCEPT ![r] = s]
Join(r, o)  == owners' = [owners EXCEPT ![r] = @ \cup {o}]
Part(r, o)  == owners' = [owners EXCEPT ![r] = @ \ {o}]

\* create_run: the handler that inserts the row owns it.
Create(r, o) == /\ status[r] = "none"
                /\ Write(r, "queued")
                /\ Join(r, o)

\* Any of the routes that answer 409 unless the run is paused.
Claim(r, o) == /\ status[r] \in Paused
               /\ Join(r, o)
               /\ UNCHANGED status

\* mark_run_running.
Start(r, o) == /\ o \in owners[r]
               /\ status[r] \in {"queued"} \cup Paused
               /\ Write(r, "running")
               /\ UNCHANGED owners

\* An owner's verdict: finish_run or mark_run_awaiting_*, and its last act or not.
Conclude(r, o, s) == /\ o \in owners[r]
                     /\ Write(r, s)
                     /\ Part(r, o) \/ UNCHANGED owners

\* An owner ends without a verdict: it saw the abort, or its handler failed.
Leave(r, o) == /\ o \in owners[r]
               /\ Part(r, o)
               /\ UNCHANGED status

\* abort_run.
Abort(r) == /\ status[r] \in Open
            /\ Write(r, "aborted")
            /\ UNCHANGED owners

\* abort_stale_paused_runs.
Sweep == /\ \E late \in SUBSET {r \in Runs : status[r] \in Paused} :
              status' = [r \in Runs |-> IF r \in late THEN "aborted" ELSE status[r]]
         /\ UNCHANGED owners

\* A process starts: fail_orphaned_runs.  The owners of a process that died are
\* gone; those of one that is being replaced are still there.
Startup == /\ status' = [r \in Runs |-> IF status[r] = "running" THEN "failed" ELSE status[r]]
           /\ \/ owners' = [r \in Runs |-> {}]
              \/ UNCHANGED owners

\* ... until that process exits too.
Exit == /\ \E gone \in SUBSET Owners : owners' = [r \in Runs |-> owners[r] \ gone]
        /\ UNCHANGED status

Next ==
  \/ \E r \in Runs, o \in Owners :
       \/ Create(r, o) \/ Claim(r, o) \/ Start(r, o) \/ Leave(r, o)
       \/ \E s \in Settled \cup Paused : Conclude(r, o, s)
  \/ \E r \in Runs : Abort(r)
  \/ Sweep \/ Startup \/ Exit

Spec == Init /\ [][Next]_vars

-----------------------------------------------------------------------------
(* What the lifecycle promises *)

\* Statuses are those of the run_status enum, owners are owners.
TypeOK == /\ status \in [Runs -> Status]
          /\ owners \in [Runs -> SUBSET Owners]

\* A run that is settled and that nobody owns any more never changes again: its
\* row is history.  (While an owner is left even 'aborted' may be overwritten.)
HistoryIsFinal ==
  [][\A r \in Runs : status[r] \in Settled /\ owners[r] = {} =>
       status'[r] = status[r] /\ owners'[r] = {}]_vars
=============================================================================
