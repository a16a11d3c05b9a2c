------------------------------ MODULE ChatRun ------------------------------
(***************************************************************************)
(* A chat run: the handlers of routes/chat.py that start it, answer its    *)
(* questions and decide its commands, the coroutine _execute_chat they     *)
(* spawn, the agent loop inside it (AgentLoop), and what else writes the   *)
(* row: an abort, the sweep of paused runs, the start-up of the runtime.   *)
(*                                                                         *)
(* As in Flightplan, an action is the code from one await up to and        *)
(* including the next one that changes or reads shared state; a task is a  *)
(* handler and the coroutine it becomes.  A run that waits for its user    *)
(* has no task: what it will go on with is in runs.inputs (pend).          *)
(***************************************************************************)
EXTENDS AgentLoop, FiniteSets

CONSTANTS
  Runs,      \* ids of the rows of table runs
  Tasks,     \* slots for concurrently live handlers and coroutines
  Provided,  \* the providers users may have chosen
  MayMutate, \* the values of user_role in MUTATION_ROLE_BAR at a request
  Budget     \* how often each event of the environment may happen

\* An answer is a reply or a decision, trouble an abort, an exception or a crash.
Events == {"answer", "trouble"}

ASSUME ProvidedAssumption == Provided \subseteq Providers
ASSUME RoleAssumption     == MayMutate \subseteq BOOLEAN
ASSUME BudgetAssumption   == Budget \in [Events -> Nat]

VARIABLES
  status,    \* runs.status ("none": the row does not exist)
  provider,  \* the run's model provider, kept in every pending state
  pend,      \* the conversation in runs.inputs
  asked,     \* the command in the message "Wants to run ...", what the user sees
  rows,      \* how many rows of run_steps the run has
  task,      \* the live handlers and coroutines
  aged,      \* the runs that started longer than the TTL ago
  left,      \* what is left of Budget
  hist,      \* per run, observations the code does not keep (see NoHistory)
  lost       \* observation: the runs shown as 'running' when an exception in
             \* their coroutine could not be recorded

vars == <<status, provider, pend, asked, rows, task, aged, left, hist, lost>>

Settled == {"success", "failed", "aborted"}
Waiting == {"awaiting_user_input", "awaiting_command_approval"}
RunStatus == Settled \cup Waiting \cup {"none", "queued", "running"}

Handling   == {"created", "replying", "deciding", "recording"}
Background == {"mark", "count", "model", "tools", "step", "row", "stash", "pause",
               "finish", "epilogue", "fail"}

Task == [pc       : {"idle"} \cup Handling \cup Background,
         run      : Runs,
         may      : BOOLEAN,      \* user_role in MUTATION_ROLE_BAR
         approved : BOOLEAN,      \* the decision being carried out
         seg      : Segments,
         order    : Nat,          \* step_order
         next     : {"model", "row"},   \* where on_step returns to
         outcome  : {"success"} \cup Waiting]   \* result["status"]

Live(t) == task[t].pc # "idle"

NewTask(p, r, may, approved, seg) ==
  [pc |-> p, run |-> r, may |-> may, approved |-> approved, seg |-> seg,
   order |-> 0, next |-> "model", outcome |-> "success"]
NoTask(r) == NewTask("idle", r, FALSE, FALSE, NewSegment(NewConversation))
Done(t)   == NoTask(task[t].run)

\* A coroutine that has written its status, or is about to write 'failed': what it
\* still holds no longer matters.
Winding(t, p) == [NoTask(task[t].run) EXCEPT !.pc = p]

\* granted[c]: calls of the mutating tool c in the rounds whose approval was
\* accepted; shown[c]: approvals accepted while a call of c was the one shown;
\* done[c]: calls of it that ran.  bundled: a round was approved that held a second
\* mutating call.  double: a request was accepted while another one of this run was
\* still being worked on.  dense: every row was inserted with the number of rows
\* before it as its step_order.
NoHistory == [granted |-> [c \in Mutating |-> 0], shown |-> [c \in Mutating |-> 0],
              done |-> [c \in Mutating |-> 0], bundled |-> FALSE,
              double |-> FALSE, dense |-> TRUE]

Init ==
  /\ status   = [r \in Runs |-> "none"]
  /\ provider = [r \in Runs |-> "none"]
  /\ pend     = [r \in Runs |-> NewConversation]
  /\ asked    = [r \in Runs |-> Ask]
  /\ rows     = [r \in Runs |-> 0]
  /\ \E r \in Runs : task = [t \in Tasks |-> NoTask(r)]
  /\ aged = {}
  /\ left = Budget
  /\ hist = [r \in Runs |-> NoHistory]
  /\ lost = {}

Spend(e) == /\ left[e] > 0
            /\ left' = [left EXCEPT ![e] = @ - 1]

SetStatus(r, s) == status' = [status EXCEPT ![r] = s]

AddRunStep(r, order) ==
  /\ rows' = [rows EXCEPT ![r] = @ + 1]
  /\ hist' = [hist EXCEPT ![r].dense = @ /\ order = rows[r]]

-----------------------------------------------------------------------------
(* The handlers *)

\* Whether somebody is still working on run r: what its coroutine does after the
\* status is written (a chat message, the audit row) touches nothing here.
Busy(r) == \E t \in Tasks : task[t].run = r /\ task[t].pc \notin {"idle", "epilogue", "fail"}

\* POST /chat: create_run ...
Chat(r, t) ==
  /\ status[r] = "none"
  /\ ~Live(t)
  /\ \E p \in Provided, may \in MayMutate :
       /\ provider' = [provider EXCEPT ![r] = p]
       /\ task' = [task EXCEPT ![t] =
                     NewTask("created", r, may, FALSE, NewSegment(NewConversation))]
  /\ SetStatus(r, "queued")
  /\ UNCHANGED <<pend, rows, aged, left, hist, asked, lost>>

\* POST /chat/{id}/reply, up to the read of the row and the 409 check.
Reply(r, t) ==
  /\ status[r] = "awaiting_user_input"
  /\ ~Live(t)
  /\ Spend("answer")
  /\ \E may \in MayMutate :
       task' = [task EXCEPT ![t] = NewTask("replying", r, may, FALSE, NewSegment(pend[r]))]
  /\ hist' = [hist EXCEPT ![r].double = @ \/ Busy(r)]
  /\ UNCHANGED <<status, provider, pend, rows, aged, asked, lost>>

\* ... and, after the user's chat message, create_task: right away for a new run,
\* with the reply in the conversation for a paused one.
Spawn(t) ==
  /\ \/ /\ task[t].pc = "created"
        /\ task' = [task EXCEPT ![t].pc = "mark"]
     \/ /\ task[t].pc = "replying"
        /\ In(Ask, task[t].seg.conv.open)
        /\ task' = [task EXCEPT ![t].pc = "mark",
                                ![t].seg = NewSegment(Replied(task[t].seg.conv))]
  /\ UNCHANGED <<status, provider, pend, rows, aged, left, hist, asked, lost>>

\* build_resume_messages finds no ask_user call to answer: a 500.
NothingToAnswer(t) ==
  /\ task[t].pc = "replying"
  /\ ~In(Ask, task[t].seg.conv.open)
  /\ task' = [task EXCEPT ![t] = Done(t)]
  /\ UNCHANGED <<status, provider, pend, rows, aged, left, hist, asked, lost>>

Occurrences(c, round) == Cardinality({k \in DOMAIN round : round[k] = c})

\* The approval of a round is one of more than one mutating call.
Bundles(round) == \E j, k \in DOMAIN round :
                    j # k /\ round[j] \in Mutating /\ round[k] \in Mutating

\* What is observed of a run whose user approves the round of its pending state.
Granted(r) ==
  [hist[r] EXCEPT
     !.granted = [c \in Mutating |-> @[c] + Occurrences(c, pend[r].open)],
     !.shown   = [c \in Mutating |-> @[c] + IF c = asked[r] THEN 1 ELSE 0],
     !.bundled = @ \/ Bundles(pend[r].open)]

\* POST /chat/{id}/approve-command and deny-command, up to the 409 check.
Decide(r, t) ==
  /\ status[r] = "awaiting_command_approval"
  /\ ~Live(t)
  /\ Spend("answer")
  /\ \E may \in MayMutate, approved \in BOOLEAN :
       /\ task' = [task EXCEPT ![t] =
                     NewTask("deciding", r, may, approved,
                             [NewSegment(pend[r]) EXCEPT !.todo = pend[r].open])]
       /\ hist' = [hist EXCEPT
                     ![r] = [(IF approved THEN Granted(r) ELSE hist[r])
                               EXCEPT !.double = @ \/ Busy(r)]]
  /\ UNCHANGED <<status, provider, pend, rows, aged, asked, lost>>

\* A tool has run for the run.
Ran(r, c) == IF c \in Mutating THEN hist' = [hist EXCEPT ![r].done[c] = @ + 1]
                               ELSE UNCHANGED hist

\* execute_paused_round: the next call of the round.
ExecutePaused(t) ==
  LET seg == task[t].seg
      c   == Head(seg.todo)
  IN  /\ task[t].pc = "deciding"
      /\ seg.todo # <<>>
      /\ IF RunsDecided(c, task[t].approved) THEN Ran(task[t].run, c) ELSE UNCHANGED hist
      /\ task' = [task EXCEPT ![t].seg.todo = Tail(@)]
      /\ UNCHANGED <<status, provider, pend, rows, aged, left, asked, lost>>

\* The round is answered: count_run_steps ...
CountDecided(t) ==
  /\ task[t].pc = "deciding"
  /\ task[t].seg.todo = <<>>
  /\ task' = [task EXCEPT ![t].pc = "recording", ![t].order = rows[task[t].run]]
  /\ UNCHANGED <<status, provider, pend, rows, aged, left, hist, asked, lost>>

\* ... add_run_step and create_task.
RecordDecided(t) ==
  /\ task[t].pc = "recording"
  /\ AddRunStep(task[t].run, task[t].order)
  /\ task' = [task EXCEPT ![t].pc = "mark",
                          ![t].seg = NewSegment(Decided(@.conv, task[t].approved))]
  /\ UNCHANGED <<status, provider, pend, aged, left, asked, lost>>

-----------------------------------------------------------------------------
(* _execute_chat *)

\* mark_run_running: a no-op on a run aborted meanwhile.  The coroutine goes on
\* all the same: nothing in it looks at the status.
Mark(t) ==
  LET r == task[t].run IN
  /\ task[t].pc = "mark"
  /\ SetStatus(r, IF status[r] \in {"queued"} \cup Waiting THEN "running" ELSE status[r])
  /\ task' = [task EXCEPT ![t].pc = "count"]
  /\ UNCHANGED <<provider, pend, rows, aged, left, hist, asked, lost>>

\* Mutants of StartOrder: step_order starts at zero in every segment, or at the
\* number of the last row.
OrderFromZero(r) == 0
OrderOfLast(r)   == rows[r] - 1

StartOrder(r) == rows[r]

Count(t) ==
  /\ task[t].pc = "count"
  /\ task' = [task EXCEPT ![t].pc = "model", ![t].order = StartOrder(task[t].run)]
  /\ UNCHANGED <<status, provider, pend, rows, aged, left, hist, asked, lost>>

\* on_step is called next, and then the loop goes on, or is left with an outcome.
ThenStep(t, seg, next, outcome) ==
  task' = [task EXCEPT ![t].pc = "step", ![t].next = next, ![t].outcome = outcome,
                       ![t].seg = IF next = "row" THEN Leave(seg) ELSE seg]

\* The model answers in words: no calls, the loop ends.
ModelConcludes(t) ==
  /\ task[t].pc = "model"
  /\ provider[task[t].run] # "none"
  /\ ~Rejected(task[t].seg, provider[task[t].run])
  /\ ThenStep(t, task[t].seg, "row", "success")
  /\ UNCHANGED <<status, provider, pend, rows, aged, left, hist, asked, lost>>

\* The model proposes a round of calls.  In the order of the code: the repeat
\* breaker, ask_user (an empty question is no question: the run ends), the
\* approval gate, and only then the execution.
ModelProposes(t) ==
  LET seg == task[t].seg
      p   == provider[task[t].run]
  IN  /\ task[t].pc = "model"
      /\ p # "none"
      /\ ~Rejected(seg, p)
      /\ \E round \in Rounds, repeats \in BOOLEAN, empty \in BOOLEAN :
           /\ repeats => CanRepeat(seg, round) /\ p = "lenient"
           /\ empty   => In(Ask, round)
           /\ IF Looping(seg, p, round, repeats)
                THEN ThenStep(t, seg, "row", "success")
              ELSE IF In(Ask, round)
                THEN ThenStep(t, Propose(seg, round), "row",
                              IF empty THEN "success" ELSE "awaiting_user_input")
              ELSE IF Pauses(seg, round, task[t].may)
                THEN ThenStep(t, Propose(seg, round), "row", "awaiting_command_approval")
              ELSE task' = [task EXCEPT ![t].pc = "tools", ![t].seg = Begin(seg, round)]
      /\ UNCHANGED <<status, provider, pend, rows, aged, left, hist, asked, lost>>

\* The model call fails, or there is no model.  A local server's failure keeps the
\* results of the tools this segment ran; if it ran none, and without a key, the
\* answer is that of _run_simulated.  Claude's failure is an exception.
ModelFails(t) ==
  /\ task[t].pc = "model"
  /\ task' = [task EXCEPT ![t] =
                IF provider[task[t].run] = "anthropic" THEN Winding(t, "fail")
                ELSE [task[t] EXCEPT !.pc = "row", !.outcome = "success",
                                     !.seg = Leave(task[t].seg)]]
  /\ UNCHANGED <<status, provider, pend, rows, aged, left, hist, asked, lost>>

\* The next call of the round; after the last one the round's results go to
\* on_step.  At the iteration cap one last call without tools concludes.
Execute(t) ==
  LET seg  == task[t].seg
      told == Answer(seg)
  IN  /\ task[t].pc = "tools"
      /\ IF CallRuns(seg, task[t].may) THEN Ran(task[t].run, Head(seg.todo)) ELSE UNCHANGED hist
      /\ IF told.todo # <<>>
           THEN task' = [task EXCEPT ![t].seg = told]
           ELSE ThenStep(t, Complete(told),
                         IF MayIterate(Complete(told)) THEN "model" ELSE "row", "success")
      /\ UNCHANGED <<status, provider, pend, rows, aged, left, asked, lost>>

\* Mutant of OnStep: the counter is not advanced.
OnStepUncounted(t) ==
  /\ task[t].pc = "step"
  /\ AddRunStep(task[t].run, task[t].order)
  /\ task' = [task EXCEPT ![t].pc = task[t].next]
  /\ UNCHANGED <<status, provider, pend, aged, left, asked, lost>>

\* on_step: the row of a round.
OnStep(t) ==
  /\ task[t].pc = "step"
  /\ AddRunStep(task[t].run, task[t].order)
  /\ task' = [task EXCEPT ![t].pc = task[t].next, ![t].order = @ + 1]
  /\ UNCHANGED <<status, provider, pend, aged, left, asked, lost>>

\* Mutant of AfterRow: the run pauses without its pending state.
PauseUnstashed(outcome) == IF outcome \in Waiting THEN "pause" ELSE "finish"

AfterRow(outcome) == IF outcome \in Waiting THEN "stash" ELSE "finish"

\* The row that carries the output.
FinalRow(t) ==
  /\ task[t].pc = "row"
  /\ AddRunStep(task[t].run, task[t].order)
  /\ task' = [task EXCEPT ![t].pc = AfterRow(task[t].outcome)]
  /\ UNCHANGED <<status, provider, pend, aged, left, asked, lost>>

\* set_run_pending_state, and then mark_run_awaiting_*, whatever the status is: the
\* status, with the message that asks.
Stash(t) ==
  /\ task[t].pc = "stash"
  /\ pend' = [pend EXCEPT ![task[t].run] = task[t].seg.conv]
  /\ task' = [task EXCEPT ![t].pc = "pause"]
  /\ UNCHANGED <<status, provider, rows, aged, left, hist, asked, lost>>

Pause(t) ==
  /\ task[t].pc = "pause"
  /\ SetStatus(task[t].run, task[t].outcome)
  /\ asked' = [asked EXCEPT ![task[t].run] =
                  IF task[t].outcome = "awaiting_command_approval"
                    THEN PendingCommand(task[t].seg.conv) ELSE Ask]
  /\ task' = [task EXCEPT ![t] = Winding(t, "epilogue")]
  /\ UNCHANGED <<provider, pend, rows, aged, left, hist, lost>>

\* finish_run, whatever the status is.
Finish(t) ==
  /\ task[t].pc = "finish"
  /\ SetStatus(task[t].run, "success")
  /\ task' = [task EXCEPT ![t] = Winding(t, "epilogue")]
  /\ UNCHANGED <<provider, pend, rows, aged, left, hist, asked, lost>>

\* The chat message and the audit row.
Epilogue(t) ==
  /\ task[t].pc = "epilogue"
  /\ task' = [task EXCEPT ![t] = Done(t)]
  /\ UNCHANGED <<status, provider, pend, rows, aged, left, hist, asked, lost>>

-----------------------------------------------------------------------------
(* Failures, and the others who write the row *)

\* An exception in the coroutine, which run_in_background catches ...
Raise(t) ==
  /\ task[t].pc \in Background \ {"fail"}
  /\ Spend("trouble")
  /\ task' = [task EXCEPT ![t] = Winding(t, "fail")]
  /\ UNCHANGED <<status, provider, pend, rows, aged, hist, asked, lost>>

\* Mutant of Fail: the exception is logged and not recorded.
FailUnrecorded(t) ==
  /\ task[t].pc = "fail"
  /\ task' = [task EXCEPT ![t] = Done(t)]
  /\ UNCHANGED <<status, provider, pend, rows, aged, left, hist, asked, lost>>

\* ... and records, even after the run was finished or paused.
Fail(t) ==
  /\ task[t].pc = "fail"
  /\ SetStatus(task[t].run, "failed")
  /\ task' = [task EXCEPT ![t] = Done(t)]
  /\ UNCHANGED <<provider, pend, rows, aged, left, hist, asked, lost>>

\* ... unless that statement raises too: nothing catches it, the row stays as it is.
FailRefused(t) ==
  /\ task[t].pc = "fail"
  /\ Spend("trouble")
  /\ task' = [task EXCEPT ![t] = Done(t)]
  /\ lost' = lost \cup {r \in Runs : r = task[t].run /\ status[r] = "running"}
  /\ UNCHANGED <<status, provider, pend, asked, rows, aged, hist>>

\* An exception in a handler: a 500, and the run stays as it is.
HandlerFails(t) ==
  /\ task[t].pc \in Handling
  /\ Spend("trouble")
  /\ task' = [task EXCEPT ![t] = Done(t)]
  /\ UNCHANGED <<status, provider, pend, rows, aged, hist, asked, lost>>

\* POST /runs/{id}/abort.
Abort(r) ==
  /\ status[r] \in {"queued", "running"} \cup Waiting
  /\ Spend("trouble")
  /\ SetStatus(r, "aborted")
  /\ UNCHANGED <<provider, pend, rows, task, aged, hist, asked, lost>>

\* The TTL has passed since started_at, which is when the row was inserted.
Age(r) ==
  /\ status[r] # "none" /\ r \notin aged
  /\ aged' = aged \cup {r}
  /\ UNCHANGED <<status, provider, pend, rows, task, left, hist, asked, lost>>

\* Mutants of Stale: only runs that wait for a reply are swept; or any old run is.
StaleReplies == {r \in aged : status[r] = "awaiting_user_input"}
StaleAny     == {r \in aged : status[r] \in RunStatus \ {"none", "aborted"}}

Stale == {r \in aged : status[r] \in Waiting}

\* abort_stale_paused_runs, once a minute.
Sweep ==
  /\ Stale # {}
  /\ status' = [r \in Runs |-> IF r \in Stale THEN "aborted" ELSE status[r]]
  /\ UNCHANGED <<provider, pend, rows, task, aged, left, hist, asked, lost>>

\* The process dies; the next one fails what was 'running' and keeps the rest.
Crash ==
  /\ Spend("trouble")
  /\ task' = [t \in Tasks |-> Done(t)]
  /\ status' = [r \in Runs |-> IF status[r] = "running" THEN "failed" ELSE status[r]]
  /\ UNCHANGED <<provider, pend, rows, aged, hist, asked, lost>>

-----------------------------------------------------------------------------
Handler(t) == Spawn(t) \/ NothingToAnswer(t) \/ ExecutePaused(t) \/ CountDecided(t)
              \/ RecordDecided(t)

Coroutine(t) ==
  \/ Mark(t) \/ Count(t) \/ ModelConcludes(t) \/ ModelProposes(t) \/ ModelFails(t)
  \/ Execute(t) \/ OnStep(t) \/ FinalRow(t) \/ Stash(t) \/ Pause(t) \/ Finish(t)
  \/ Epilogue(t) \/ Fail(t)

Next ==
  \/ \E t \in Tasks : Handler(t) \/ Coroutine(t)
                      \/ Raise(t) \/ FailRefused(t) \/ HandlerFails(t)
  \/ \E r \in Runs, t \in Tasks : Chat(r, t) \/ Reply(r, t) \/ Decide(r, t)
  \/ \E r \in Runs : Abort(r) \/ Age(r)
  \/ Sweep \/ Crash

Spec == Init /\ [][Next]_vars

\* asyncio runs every coroutine whose await has completed, every await of these
\* has a timeout; time passes, and the scheduler's loop survives its exceptions.
Fairness == /\ \A t \in Tasks : WF_vars(Handler(t) \/ Coroutine(t))
            /\ \A r \in Runs : WF_vars(Age(r))
            /\ WF_vars(Sweep)

FairSpec == Spec /\ Fairness

-----------------------------------------------------------------------------
(* Properties *)

\* Every variable stays in the set of values the columns of runs and run_steps and
\* the coroutine's locals can hold.
TypeOK ==
  /\ status   \in [Runs -> RunStatus]
  /\ provider \in [Runs -> Providers]
  /\ pend     \in [Runs -> Conversations]
  /\ asked    \in [Runs -> Calls]
  /\ rows     \in [Runs -> Nat]
  /\ task     \in [Tasks -> Task]
  /\ aged     \subseteq Runs
  /\ left     \in [Events -> Nat]
  /\ hist     \in [Runs -> [granted : [Mutating -> Nat], shown : [Mutating -> Nat],
                            done : [Mutating -> Nat], bundled : BOOLEAN,
                            double : BOOLEAN, dense : BOOLEAN]]
  /\ lost     \subseteq Runs

\* In a chat no mutating call runs beyond what the user approved, whatever is asked,
\* denied, retried, aborted or lost in a crash.  An approval is of a round, and is
\* good for running each of its calls once: of these the user is shown one, and the
\* others (even of a tool denied before) go with it, which
\* docs/guide/09-security.md:131-134 says of two different calls.  But as long as no
\* approved round held a second mutating call, and no two requests worked on the run
\* at once, nothing unseen runs: a tool has not run more often than approvals were
\* given while a call of it was the one on show.
MutationsAreGranted ==
  \A r \in Runs, c \in Mutating : ~AutoApprove =>
    /\ hist[r].done[c] <= hist[r].granted[c]
    /\ ~hist[r].bundled /\ ~hist[r].double => hist[r].done[c] <= hist[r].shown[c]

\* A paused run can be gone on with: as long as no two requests worked on it at
\* once, a run that awaits a reply has a question in its pending state, and one that
\* awaits a decision has there the command its user is shown, which needs an approval
\* and was not denied before.  (Two at once may leave the state of one with the
\* status of the other.)
PausedIsResumable ==
  \A r \in Runs : ~hist[r].double =>
    /\ status[r] = "awaiting_user_input" => In(Ask, pend[r].open)
    /\ status[r] = "awaiting_command_approval" =>
         /\ asked[r] \in Mutating \ pend[r].denied
         /\ In(asked[r], pend[r].open)

\* The run's trace is a sequence: as long as no two requests worked on it at once,
\* its rows carry the step_orders 0, 1, 2, ... with no gap and no repetition, across
\* pauses, decisions and crashes.
TraceIsSequence ==
  \A r \in Runs : ~hist[r].double => hist[r].dense

\* A run does not stay 'running' for ever: the loop is bounded, an exception is
\* recorded, and a start-up fails what the dead process was running.  Excepted is a
\* run whose coroutine raised once more in the statement that should record it.
RunningEnds ==
  \A r \in Runs : (status[r] = "running") ~> (status[r] # "running" \/ r \in lost)

\* A run that waits for its user ends once the user stops answering: the sweep
\* aborts it after the TTL, wherever the dialogue stands.  The same case is excepted:
\* a run resumed by an answer may be left 'running'.
WaitingEnds ==
  \A r \in Runs : (status[r] \in Waiting) ~> (status[r] \in Settled \/ r \in lost)

\* A chat run is an implementation of the run lifecycle: a task owns its run from
\* the handler's check of the status to its own end.
OwnersOf == [r \in Runs |-> {t \in Tasks : Live(t) /\ task[t].run = r}]

Lifecycle == INSTANCE RunLifecycle WITH Owners <- Tasks, owners <- OwnersOf

ImplementsLifecycle == Lifecycle!Spec

(* What the repository says and the code does not keep *)

\* A tool the user denied in this run is not run (_denied_tools, and "the user
\* already denied ... in this run; it was not run").
DeniedIsNeverRun ==
  \A t \in Tasks : task[t].pc = "deciding" /\ task[t].approved /\ task[t].seg.todo # <<>> =>
    Head(task[t].seg.todo) \notin task[t].seg.conv.denied
=============================================================================
