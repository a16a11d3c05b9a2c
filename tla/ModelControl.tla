---------------------------- MODULE ModelControl ----------------------------
(***************************************************************************)
(* local-model-control/agent.py: a threaded HTTP server that starts, loads *)
(* and stops llama-server processes.                                       *)
(*                                                                         *)
(* A request is a thread.  What it knows of the servers it reads from the  *)
(* process table, without a lock in /start; one lock covers a whole load   *)
(* or stop, the waiting included.  The servers are external: they bind the *)
(* port when they start, die some time after a SIGTERM or never, and soon  *)
(* after a SIGKILL, which nobody waits for.                                *)
(***************************************************************************)
EXTENDS Naturals

CONSTANTS
  Threads,      \* slots of requests worked on at the same time
  Pids,         \* slots of the process table
  Models,       \* the listing of MODEL_DIR
  Default,      \* DEFAULT_MODEL
  NoModel,      \* None
  NoThread,     \* nobody holds the lock
  MaxRequests,  \* bound on the requests
  MaxCrashes    \* bound on servers that die by themselves

ASSUME ModelsAssumption  == Default \in Models /\ NoModel \notin Models
ASSUME ThreadsAssumption == NoThread \notin Threads
ASSUME BoundsAssumption  == MaxRequests \in Nat /\ MaxCrashes \in Nat

VARIABLES
  servers,   \* the process table
  lock,      \* _lock
  th,        \* the threads
  order,     \* the model the last completed load or stop asked for
  forced,    \* a server had to be sent a SIGKILL
  spent      \* requests and crashes so far

vars == <<servers, lock, th, order, forced, spent>>

---------------------------------------------------------------------------
(* Servers *)

Fresh   == {"starting", "loading", "serving"}   \* nobody told it to stop
Told    == {"dying", "killed"}                  \* got a SIGTERM, a SIGKILL
Server  == [st: {"none"} \cup Fresh \cup Told, model: Models, byHand: BOOLEAN]

Is(p, sts) == servers[p].st \in sts
Listed     == {p \in Pids : ~Is(p, {"none"})}   \* running_servers
Bound(p)   == Is(p, {"loading", "serving"} \cup Told)

\* active_model is the first entry that listdir gives, whichever that is.
ActiveModels == IF Listed = {} THEN {NoModel} ELSE {servers[p].model : p \in Listed}

\* A child of the agent stays a zombie, which a signal reaches; a server that was
\* started by hand is reaped by its shell, and the signal raises.
Vanished(ps) == {p \in ps : Is(p, {"none"}) /\ servers[p].byHand}

Signal(ps, sts, st) ==
  [p \in Pids |-> IF p \in ps /\ Is(p, sts) THEN [servers[p] EXCEPT !.st = st] ELSE servers[p]]

---------------------------------------------------------------------------
(* Threads *)

Kinds  == {"start", "load", "stop"}
Pcs    == {"idle", "look", "lock", "compare", "list", "term", "wait", "launch"}
Thread == [pc: Pcs, kind: Kinds, want: Models \cup {NoModel}, pids: SUBSET Pids]
Idle   == [pc |-> "idle", kind |-> "stop", want |-> NoModel, pids |-> {}]

Moves(t, from, to) == th[t].pc = from /\ th' = [th EXCEPT ![t].pc = to]

\* The end of the request, by an answer or an exception.
Ends(t)    == th' = [th EXCEPT ![t] = Idle]
Release(t) == lock' = NoThread

Init ==
  /\ servers \in [Pids -> {[st |-> "none", model |-> Default, byHand |-> FALSE]}
                       \cup [st: {"serving"}, model: Models, byHand: {TRUE}]]
  /\ \A p, q \in Listed : p = q
  /\ lock = NoThread
  /\ th = [t \in Threads |-> Idle]
  /\ order \in ActiveModels
  /\ forced = FALSE
  /\ spent = [requests |-> 0, crashes |-> 0]

\* do_POST.  GET requests and check_status only read.
Request(t, kind, want) ==
  /\ th[t].pc = "idle"
  /\ spent.requests < MaxRequests
  /\ \/ kind = "start" /\ want = Default
     \/ kind = "load"  /\ want \in Models
     \/ kind = "stop"  /\ want = NoModel
  /\ th' = [th EXCEPT ![t] = [pc |-> IF kind = "start" THEN "look" ELSE "lock",
                              kind |-> kind, want |-> want, pids |-> {}]]
  /\ spent' = [spent EXCEPT !.requests = @ + 1]
  /\ UNCHANGED <<servers, lock, order, forced>>

\* /start looks for a model before load_model takes the lock.
Look(t) ==
  /\ \E active \in ActiveModels :
       IF active = NoModel THEN Moves(t, "look", "lock") ELSE th[t].pc = "look" /\ Ends(t)
  /\ UNCHANGED <<servers, lock, order, forced, spent>>

\* Mutant of Acquire: no lock.
AcquireAnyway(t) ==
  /\ lock' = t
  /\ Moves(t, "lock", IF th[t].kind = "stop" THEN "list" ELSE "compare")
  /\ UNCHANGED <<servers, order, forced, spent>>

Acquire(t) ==
  /\ lock = NoThread
  /\ lock' = t
  /\ Moves(t, "lock", IF th[t].kind = "stop" THEN "list" ELSE "compare")
  /\ UNCHANGED <<servers, order, forced, spent>>

\* Mutant of Compare: it returns whatever the active model is.
CompareAny(t) ==
  /\ IF Listed # {}
     THEN /\ th[t].pc = "compare"
          /\ Ends(t) /\ Release(t)
          /\ order' = th[t].want
     ELSE /\ Moves(t, "compare", "list")
          /\ UNCHANGED <<lock, order>>
  /\ UNCHANGED <<servers, forced, spent>>

\* load_model returns at once if the model is the active one.
Compare(t) ==
  /\ \E active \in ActiveModels :
       IF active = th[t].want
       THEN /\ th[t].pc = "compare"
            /\ Ends(t) /\ Release(t)
            /\ order' = active
       ELSE /\ Moves(t, "compare", "list")
            /\ UNCHANGED <<lock, order>>
  /\ UNCHANGED <<servers, forced, spent>>

\* stop_server: list the servers, signal them, wait, signal again.
ListServers(t) ==
  /\ th[t].pc = "list"
  /\ th' = [th EXCEPT ![t].pc = "term", ![t].pids = Listed]
  /\ UNCHANGED <<servers, lock, order, forced, spent>>

Terminate(t) ==
  /\ LET ps == th[t].pids
     IN  IF Vanished(ps) = {}
         THEN /\ Moves(t, "term", "wait")
              /\ servers' = Signal(ps, Fresh, "dying")
              /\ UNCHANGED lock
         ELSE /\ th[t].pc = "term"
              /\ \E before \in SUBSET (ps \ Vanished(ps)) :
                   servers' = Signal(before, Fresh, "dying")
              /\ Ends(t) /\ Release(t)
  /\ UNCHANGED <<order, forced, spent>>

\* stop_server returns: the last act of a stop, and not of a load.
Stopped(t) ==
  IF th[t].kind = "stop"
  THEN /\ th[t].pc = "wait"
       /\ Ends(t) /\ Release(t)
       /\ order' = NoModel
  ELSE /\ Moves(t, "wait", "launch")
       /\ UNCHANGED <<lock, order>>

\* Mutant of SeesThemGone: it does not wait.
DoesNotWait(t) ==
  /\ Stopped(t)
  /\ UNCHANGED <<servers, forced, spent>>

SeesThemGone(t) ==
  /\ th[t].pids \cap Listed = {}
  /\ Stopped(t)
  /\ UNCHANGED <<servers, forced, spent>>

TimesOut(t) ==
  /\ th[t].pids \cap Listed # {}
  /\ servers' = Signal(th[t].pids, Told, "killed")
  /\ forced' = TRUE
  /\ Stopped(t)
  /\ UNCHANGED spent

\* A server started by hand dies between the look at it and the SIGKILL.
KillMisses(t) ==
  /\ th[t].pc = "wait"
  /\ \E p \in th[t].pids :
       /\ Is(p, {"dying"}) /\ servers[p].byHand
       /\ \E before \in SUBSET (th[t].pids \ {p}) :
            /\ servers' = [Signal(before, Told, "killed") EXCEPT ![p].st = "none"]
            /\ forced' = (forced \/ before \cap Listed # {})
  /\ Ends(t) /\ Release(t)
  /\ UNCHANGED <<order, spent>>

\* Popen, or its exception: the binary is not installed.
Launch(t) ==
  /\ th[t].pc = "launch"
  /\ \E p \in Pids \ Listed :
       servers' = [servers EXCEPT ![p] =
                     [st |-> "starting", model |-> th[t].want, byHand |-> FALSE]]
  /\ order' = th[t].want
  /\ Ends(t) /\ Release(t)
  /\ UNCHANGED <<forced, spent>>

\* Mutant of LaunchFails: the exception passes the release by.
LaunchFailsHolding(t) ==
  /\ th[t].pc = "launch"
  /\ Ends(t)
  /\ UNCHANGED <<servers, lock, order, forced, spent>>

LaunchFails(t) ==
  /\ th[t].pc = "launch"
  /\ Ends(t) /\ Release(t)
  /\ UNCHANGED <<servers, order, forced, spent>>

Step(t) == \/ Look(t) \/ Acquire(t) \/ Compare(t) \/ ListServers(t) \/ Terminate(t)
           \/ SeesThemGone(t) \/ TimesOut(t) \/ KillMisses(t) \/ Launch(t) \/ LaunchFails(t)

---------------------------------------------------------------------------
(* What the servers do by themselves *)

Becomes(p, st) == servers' = [servers EXCEPT ![p].st = st]

\* A server that finds its port taken exits.
Bind(p) ==
  /\ Is(p, {"starting"})
  /\ Becomes(p, IF \E q \in Pids \ {p} : Bound(q) THEN "none" ELSE "loading")
  /\ UNCHANGED <<lock, th, order, forced, spent>>

Loaded(p) ==
  /\ Is(p, {"loading"}) /\ Becomes(p, "serving")
  /\ UNCHANGED <<lock, th, order, forced, spent>>

Dies(p) ==
  /\ Is(p, Told) /\ Becomes(p, "none")
  /\ UNCHANGED <<lock, th, order, forced, spent>>

\* Out of memory, a file it cannot load, a kill by hand.
Crashes(p) ==
  /\ Is(p, Fresh) /\ Becomes(p, "none")
  /\ spent.crashes < MaxCrashes
  /\ spent' = [spent EXCEPT !.crashes = @ + 1]
  /\ UNCHANGED <<lock, th, order, forced>>

Next ==
  \/ \E t \in Threads : \/ \E kind \in Kinds, want \in Models \cup {NoModel} : Request(t, kind, want)
                        \/ Step(t)
  \/ \E p \in Pids : Bind(p) \/ Loaded(p) \/ Dies(p) \/ Crashes(p)

Spec == Init /\ [][Next]_vars

\* A thread that can go on does, and the kernel removes what was killed.
FairSpec == /\ Spec
            /\ \A t \in Threads : WF_vars(Step(t))
            /\ \A p \in Pids : WF_vars(Is(p, {"killed"}) /\ Dies(p))

---------------------------------------------------------------------------
(* Properties *)

\* The types, and who holds the lock: exactly the thread between Acquire and its
\* release (the with statement of load_model and of /stop).
Locked == {"compare", "list", "term", "wait", "launch"}

TypeOK ==
  /\ servers \in [Pids -> Server]
  /\ lock \in Threads \cup {NoThread}
  /\ th \in [Threads -> Thread]
  /\ order \in Models \cup {NoModel}
  /\ forced \in BOOLEAN
  /\ spent \in [requests: 0 .. MaxRequests, crashes: 0 .. MaxCrashes]
  /\ \A t \in Threads : th[t].pc \in Locked <=> lock = t

\* However requests, deaths and exceptions interleave, load_model never leaves two
\* servers that nobody told to stop: they share one GPU and one port.
OneServer == \A p, q \in Pids : Is(p, Fresh) /\ Is(q, Fresh) => p = q

\* Whenever the lock is free, what is up is the model that the last completed load
\* asked for and nothing after a stop, unless a server had to be killed: nobody
\* waits for that one, and a load of its model takes it for the active one.
LastOrderStands ==
  lock = NoThread /\ ~forced => \A p \in Pids : Is(p, Fresh) => servers[p].model = order

\* The server that load_model starts finds the port free (it would exit otherwise,
\* after the request was answered 'loading'), unless a killed one still has it.
PortIsFree == \A p, q \in Pids : Is(p, {"starting"}) /\ p # q /\ Bound(q) => Is(q, {"killed"})

\* Every request ends, and with it the wait of the others for the lock: whatever
\* raises while it is held releases it, and stop_server gives up after its timeout.
RequestsEnd == \A t \in Threads : th[t].pc # "idle" ~> th[t].pc = "idle"
=============================================================================
