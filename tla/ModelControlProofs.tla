------------------------- MODULE ModelControlProofs -------------------------
(***************************************************************************)
(* ModelControl: the lock is held by exactly one thread, and with it there *)
(* is never more than one server that nobody told to stop.  Unless a       *)
(* server has to be killed, what is up is what was asked for last, and a   *)
(* server finds its port free.  All this for any number of requests,       *)
(* threads, processes and models.                                          *)
(***************************************************************************)
EXTENDS ModelControl, TLAPS

\* What the thread that holds the lock knows: between its list and its launch no
\* server is started, so those it has not signalled are on the list, and after the
\* signals there is none.
Swept == \A t \in Threads, p \in Pids :
           Is(p, Fresh) => /\ th[t].pc = "term" => p \in th[t].pids
                           /\ th[t].pc \notin {"wait", "launch"}

\* Only the stop wants no model, and it launches none.
Wanted == \A t \in Threads : /\ th[t].kind = "stop" \/ th[t].want \in Models
                             /\ th[t].pc = "launch" => th[t].kind # "stop"

OneInv == TypeOK /\ OneServer /\ Swept /\ Wanted

USE ModelsAssumption, ThreadsAssumption, BoundsAssumption

\* Who is listed: a server in any state but "none".
LEMMA FreshIsListed == ASSUME NEW p \in Pids, Is(p, Fresh) PROVE p \in Listed
BY DEF Listed, Is, Fresh

\* A signal makes no server fresh, and none of those it reaches stays fresh.
LEMMA SignalTells ==
  ASSUME servers \in [Pids -> Server], NEW ps \in SUBSET Pids,
         NEW sts \in SUBSET (Fresh \cup Told), NEW st \in Told
  PROVE  /\ Signal(ps, sts, st) \in [Pids -> Server]
         /\ \A p \in Pids : Signal(ps, sts, st)[p].st \in Fresh =>
              /\ Is(p, Fresh)
              /\ ~(p \in ps /\ Is(p, sts))
BY DEF Signal, Server, Told, Fresh, Is

\* A thread that does not stand between its signals and its launch knows nothing
\* that could become wrong, as long as nobody starts a server.
LEMMA SweptKept ==
  ASSUME Swept, NEW t \in Threads,
         \A s \in Threads \ {t} : th'[s] = th[s],
         \A p \in Pids : Is(p, Fresh)' => Is(p, Fresh),
         th'[t].pc \notin {"term", "wait", "launch"}
  PROVE  Swept'
<1> SUFFICES ASSUME NEW s \in Threads, NEW p \in Pids, Is(p, Fresh)'
             PROVE  /\ th'[s].pc = "term" => p \in th'[s].pids
                    /\ th'[s].pc \notin {"wait", "launch"}
  BY DEF Swept
<1>1. Is(p, Fresh)
  OBVIOUS
<1> QED
  BY <1>1 DEF Swept

LEMMA InitOne == Init => OneInv
<1> SUFFICES ASSUME Init PROVE OneInv
  OBVIOUS
<1>0. Idle \in Thread
  BY DEF Idle, Thread, Pcs, Kinds
<1>1. /\ servers \in [Pids -> Server]
      /\ th \in [Threads -> Thread]
  <2>1. [st |-> "none", model |-> Default, byHand |-> FALSE] \in Server
    BY DEF Server
  <2>2. [st: {"serving"}, model: Models, byHand: {TRUE}] \subseteq Server
    BY DEF Server, Fresh
  <2> QED
    BY <1>0, <2>1, <2>2 DEF Init
<1>2. ActiveModels \subseteq Models \cup {NoModel}
  BY <1>1 DEF ActiveModels, Listed, Server
<1>3. TypeOK
  <2>1. spent \in [requests: 0 .. MaxRequests, crashes: 0 .. MaxCrashes]
    BY DEF Init
  <2>2. \A t \in Threads : th[t].pc \in Locked <=> lock = t
    BY DEF Init, Idle, Locked
  <2> QED
    BY <1>1, <1>2, <2>1, <2>2 DEF Init, TypeOK
<1>4. OneServer
  BY FreshIsListed DEF Init, OneServer
<1>5. Swept
  BY DEF Init, Swept, Idle
<1>6. Wanted
  BY DEF Init, Wanted, Idle
<1> QED
  BY <1>3, <1>4, <1>5, <1>6 DEF OneInv

LEMMA NextOne == OneInv /\ [Next]_vars => OneInv'
<1> SUFFICES ASSUME OneInv, [Next]_vars PROVE OneInv'
  OBVIOUS
<1> USE DEF OneInv
<1>1. ASSUME NEW t \in Threads, NEW kind \in Kinds, NEW want \in Models \cup {NoModel},
             Request(t, kind, want)
      PROVE  OneInv'
  <2>1. TypeOK'
    BY <1>1 DEF TypeOK, Request, Thread, Kinds, Pcs, Locked
  <2>2. OneServer'
    BY <1>1 DEF Request, OneServer, Is
  <2>3. Swept'
    BY <1>1 DEF Request, Swept, Is, TypeOK
  <2>4. Wanted'
    BY <1>1 DEF Request, Wanted, TypeOK, Thread
  <2> QED
    BY <2>1, <2>2, <2>3, <2>4
<1>2. ASSUME NEW t \in Threads, Look(t) PROVE OneInv'
  <2>1. TypeOK'
    BY <1>2 DEF TypeOK, Look, Moves, Ends, Idle, Thread, Kinds, Pcs, Locked
  <2>2. OneServer'
    BY <1>2 DEF Look, OneServer, Is
  <2>3. Swept'
    <3>1. /\ \A s \in Threads \ {t} : th'[s] = th[s]
          /\ th'[t].pc \in {"idle", "lock"}
      BY <1>2 DEF Look, Moves, Ends, Idle, TypeOK, Thread
    <3> QED
      BY <1>2, <3>1, SweptKept DEF Look, Is
  <2>4. Wanted'
    BY <1>2 DEF Look, Moves, Ends, Idle, Wanted, TypeOK, Thread
  <2> QED
    BY <2>1, <2>2, <2>3, <2>4
<1>3. ASSUME NEW t \in Threads, Acquire(t) PROVE OneInv'
  <2>1. TypeOK'
    BY <1>3 DEF TypeOK, Acquire, Moves, Thread, Pcs, Locked
  <2>2. OneServer'
    BY <1>3 DEF Acquire, OneServer, Is
  <2>3. Swept'
    BY <1>3 DEF Acquire, Moves, Swept, Is, TypeOK
  <2>4. Wanted'
    BY <1>3 DEF Acquire, Moves, Ends, Idle, Wanted, TypeOK, Thread
  <2> QED
    BY <2>1, <2>2, <2>3, <2>4
<1>4. ASSUME NEW t \in Threads, Compare(t) PROVE OneInv'
  <2>0. ActiveModels \subseteq Models \cup {NoModel}
    BY DEF ActiveModels, Listed, Server, TypeOK
  <2>1. TypeOK'
    BY <1>4, <2>0 DEF TypeOK, Compare, Moves, Ends, Release, Idle, Thread, Kinds, Pcs, Locked
  <2>2. OneServer'
    BY <1>4 DEF Compare, OneServer, Is
  <2>3. Swept'
    <3>1. /\ \A s \in Threads \ {t} : th'[s] = th[s]
          /\ th'[t].pc \in {"idle", "list"}
      BY <1>4 DEF Compare, Moves, Ends, Idle, TypeOK, Thread
    <3> QED
      BY <1>4, <3>1, SweptKept DEF Compare, Is
  <2>4. Wanted'
    BY <1>4 DEF Compare, Moves, Ends, Idle, Wanted, TypeOK, Thread
  <2> QED
    BY <2>1, <2>2, <2>3, <2>4
<1>5. ASSUME NEW t \in Threads, ListServers(t) PROVE OneInv'
  <2>1. TypeOK'
    <3>1. Listed \in SUBSET Pids
      BY DEF Listed
    <3> DEFINE moved == [th[t] EXCEPT !.pc = "term", !.pids = Listed]
    <3>2. th' \in [Threads -> Thread]
      <4>1. moved \in Thread
        BY <3>1 DEF TypeOK, Thread, Pcs
      <4>2. th' = [th EXCEPT ![t] = moved]
        BY <1>5 DEF ListServers, TypeOK
      <4> QED
        BY <4>1, <4>2 DEF TypeOK
    <3>3. \A s \in Threads : th'[s].pc \in Locked <=> th[s].pc \in Locked
      BY <1>5 DEF TypeOK, ListServers, Thread, Locked
    <3> QED
      BY <1>5, <3>2, <3>3 DEF TypeOK, ListServers
  <2>2. OneServer'
    BY <1>5 DEF ListServers, OneServer, Is
  <2>3. Swept'
    BY <1>5 DEF ListServers, Swept, Is, Listed, Fresh, TypeOK
  <2>4. Wanted'
    BY <1>5 DEF ListServers, Moves, Ends, Idle, Wanted, TypeOK, Thread
  <2> QED
    BY <2>1, <2>2, <2>3, <2>4
<1>6. ASSUME NEW t \in Threads, Terminate(t) PROVE OneInv'
  <2>1. PICK ps \in SUBSET Pids : /\ servers' = Signal(ps, Fresh, "dying")
                                  /\ th'[t].pc = "wait" => ps = th[t].pids
    BY <1>6 DEF Terminate, TypeOK, Thread, Ends, Idle
  <2>2. /\ servers' \in [Pids -> Server]
        /\ \A p \in Pids : Is(p, Fresh)' => Is(p, Fresh) /\ p \notin ps
    BY <2>1, SignalTells DEF TypeOK, Is, Told
  <2>3. TypeOK'
    BY <1>6, <2>2 DEF TypeOK, Terminate, Moves, Ends, Release, Idle, Thread, Kinds, Pcs, Locked
  <2>4. OneServer'
    BY <2>2 DEF OneServer
  <2>5. Swept'
    <3>1. CASE th'[t].pc = "wait"
      <4>1. \A p \in Pids : ~Is(p, Fresh)'
        BY <1>6, <2>1, <2>2, <3>1 DEF Terminate, Moves, Swept
      <4> QED
        BY <4>1 DEF Swept
    <3>2. CASE th'[t].pc # "wait"
      <4>1. /\ \A s \in Threads \ {t} : th'[s] = th[s]
            /\ th'[t].pc = "idle"
        BY <1>6, <3>2 DEF Terminate, Moves, Ends, Idle, TypeOK, Thread
      <4> QED
        BY <2>2, <4>1, SweptKept
    <3> QED
      BY <3>1, <3>2
  <2>6. Wanted'
    BY <1>6 DEF Terminate, Moves, Ends, Idle, Wanted, TypeOK, Thread
  <2> QED
    BY <2>3, <2>4, <2>5, <2>6
<1>7. ASSUME NEW t \in Threads, SeesThemGone(t) \/ TimesOut(t) PROVE OneInv'
  <2>1. \/ UNCHANGED servers
        \/ servers' = Signal(th[t].pids, Told, "killed")
    BY <1>7 DEF SeesThemGone, TimesOut
  <2>2. /\ servers' \in [Pids -> Server]
        /\ \A p \in Pids : Is(p, Fresh)' => Is(p, Fresh)
    <3>1. CASE UNCHANGED servers
      BY <3>1 DEF TypeOK, Is
    <3>2. CASE servers' = Signal(th[t].pids, Told, "killed")
      <4>1. th[t].pids \in SUBSET Pids /\ Told \in SUBSET (Fresh \cup Told) /\ "killed" \in Told
        BY DEF TypeOK, Thread, Told
      <4>2. servers \in [Pids -> Server]
        BY DEF TypeOK
      <4> QED
        BY <3>2, <4>1, <4>2, SignalTells DEF Is
    <3> QED
      BY <2>1, <3>1, <3>2
  <2>3. TypeOK'
    <3>1. /\ th[t].pc = "wait"
          /\ \/ Ends(t) /\ Release(t) /\ order' = NoModel
             \/ Moves(t, "wait", "launch") /\ UNCHANGED <<lock, order>>
      BY <1>7 DEF SeesThemGone, TimesOut, Stopped, Moves
    <3>2. forced' \in BOOLEAN /\ UNCHANGED spent
      BY <1>7 DEF TypeOK, SeesThemGone, TimesOut
    <3> QED
      BY <2>2, <3>1, <3>2 DEF TypeOK, Moves, Ends, Release, Idle, Thread, Kinds, Pcs, Locked
  <2>4. OneServer'
    BY <2>2 DEF OneServer
  <2>5. Swept'
    BY <1>7, <2>2 DEF SeesThemGone, TimesOut, Stopped, Moves, Ends, Idle, Swept, TypeOK
  <2>6. Wanted'
    BY <1>7 DEF SeesThemGone, TimesOut, Stopped, Moves, Ends, Idle, Wanted, TypeOK, Thread
  <2> QED
    BY <2>3, <2>4, <2>5, <2>6
<1>8. ASSUME NEW t \in Threads, KillMisses(t) PROVE OneInv'
  <2>1. PICK gone \in Pids, before \in SUBSET Pids :
          servers' = [Signal(before, Told, "killed") EXCEPT ![gone].st = "none"]
    BY <1>8 DEF KillMisses, TypeOK, Thread
  <2>2. /\ servers' \in [Pids -> Server]
        /\ \A p \in Pids : Is(p, Fresh)' => Is(p, Fresh)
    <3> DEFINE signalled == Signal(before, Told, "killed")
    <3>1. Told \in SUBSET (Fresh \cup Told) /\ "killed" \in Told /\ servers \in [Pids -> Server]
      BY DEF TypeOK, Told
    <3>2. /\ signalled \in [Pids -> Server]
          /\ \A p \in Pids : signalled[p].st \in Fresh => Is(p, Fresh)
      BY <3>1, SignalTells
    <3> HIDE DEF signalled
    <3>3. servers' = [signalled EXCEPT ![gone].st = "none"]
      BY <2>1 DEF signalled
    <3> QED
      BY <3>2, <3>3 DEF Is, Fresh, Server
  <2>3. TypeOK'
    BY <1>8, <2>2 DEF TypeOK, KillMisses, Ends, Release, Idle, Thread, Kinds, Pcs, Locked
  <2>4. OneServer'
    BY <2>2 DEF OneServer
  <2>5. Swept'
    BY <1>8, <2>2 DEF KillMisses, Ends, Idle, Swept, TypeOK
  <2>6. Wanted'
    BY <1>8 DEF KillMisses, Moves, Ends, Idle, Wanted, TypeOK, Thread
  <2> QED
    BY <2>3, <2>4, <2>5, <2>6
<1>9. ASSUME NEW t \in Threads, Launch(t) PROVE OneInv'
  <2>1. PICK p \in Pids : servers' = [servers EXCEPT ![p] =
                            [st |-> "starting", model |-> th[t].want, byHand |-> FALSE]]
    BY <1>9 DEF Launch
  <2>2. \A q \in Pids : ~Is(q, Fresh)
    BY <1>9 DEF Launch, Swept
  <2>3. \A q \in Pids : Is(q, Fresh)' => q = p
    BY <2>1, <2>2 DEF Is, TypeOK
  <2>4. th[t].want \in Models
    BY <1>9 DEF Launch, Wanted
  <2>5. TypeOK'
    BY <1>9, <2>1, <2>4 DEF TypeOK, Launch, Ends, Release, Idle, Thread, Kinds, Pcs, Locked,
                            Server, Fresh
  <2>6. OneServer'
    BY <2>3 DEF OneServer
  <2>7. Swept'
    BY <1>9 DEF Launch, Ends, Idle, Swept, TypeOK, Locked
  <2>8. Wanted'
    BY <1>9 DEF Launch, Moves, Ends, Idle, Wanted, TypeOK, Thread
  <2> QED
    BY <2>5, <2>6, <2>7, <2>8
<1>10. ASSUME NEW t \in Threads, LaunchFails(t) PROVE OneInv'
  <2>1. TypeOK'
    BY <1>10 DEF TypeOK, LaunchFails, Ends, Release, Idle, Thread, Kinds, Pcs, Locked
  <2>2. OneServer'
    BY <1>10 DEF LaunchFails, OneServer, Is
  <2>3. Swept'
    BY <1>10 DEF LaunchFails, Ends, Idle, Swept, Is, TypeOK
  <2>4. Wanted'
    BY <1>10 DEF LaunchFails, Moves, Ends, Idle, Wanted, TypeOK, Thread
  <2> QED
    BY <2>1, <2>2, <2>3, <2>4
<1>11. ASSUME NEW p \in Pids, Bind(p) \/ Loaded(p) \/ Dies(p) \/ Crashes(p) PROVE OneInv'
  <2>1. PICK st \in {"none", "loading", "serving"} : /\ Becomes(p, st)
                                                     /\ st # "none" => Is(p, Fresh)
    BY <1>11 DEF Bind, Loaded, Dies, Crashes, Is, Fresh
  <2>2. /\ servers' \in [Pids -> Server]
        /\ \A q \in Pids : Is(q, Fresh)' => Is(q, Fresh)
    BY <2>1 DEF Becomes, TypeOK, Is, Fresh, Server
  <2>3. UNCHANGED <<lock, th, order, forced>>
    BY <1>11 DEF Bind, Loaded, Dies, Crashes
  <2>4. TypeOK'
    BY <1>11, <2>2, <2>3 DEF TypeOK, Bind, Loaded, Dies, Crashes
  <2>5. OneServer'
    BY <2>2 DEF OneServer
  <2>6. Swept'
    BY <2>2, <2>3 DEF Swept
  <2>7. Wanted'
    BY <2>3 DEF Wanted
  <2> QED
    BY <2>4, <2>5, <2>6, <2>7
<1>12. CASE UNCHANGED vars
  BY <1>12 DEF vars, TypeOK, OneServer, Swept, Wanted, Is
<1> QED
  BY <1>1, <1>2, <1>3, <1>4, <1>5, <1>6, <1>7, <1>8, <1>9, <1>10, <1>11, <1>12 DEF Next, Step

\* The types hold, and the lock is held by exactly the thread that is between the two
\* ends of its with statement (agent.py:107 and 160).
THEOREM TypeCorrect == Spec => []TypeOK
<1>1. OneInv => TypeOK
  BY DEF OneInv
<1> QED
  BY <1>1, InitOne, NextOne, PTL DEF Spec

\* load_model and /stop never leave two servers that nobody told to stop.
THEOREM OneServerOnly == Spec => []OneServer
<1>1. OneInv => OneServer
  BY DEF OneInv
<1> QED
  BY <1>1, InitOne, NextOne, PTL DEF Spec

-----------------------------------------------------------------------------
(* What is up, and on which port *)

\* Whoever stops the servers has all of them on its list, so that behind its wait only
\* killed ones are left.
Counted == \A t \in Threads, p \in Listed :
             /\ th[t].pc \in {"term", "wait"} => p \in th[t].pids
             /\ th[t].pc = "launch" => Is(p, {"killed"})

\* A server that has yet to bind its port shares the table with killed ones only.
StartsAlone == \A p, q \in Pids : Is(p, {"starting"}) /\ p # q => Is(q, {"none", "killed"})

\* As long as no server had to be killed, there is at most one in any state, and one
\* that nobody told to stop is the one that was ordered.
Unforced == ~forced => /\ \A p \in Pids : ~Is(p, {"killed"})
                       /\ \A p, q \in Listed : p = q
                       /\ \A p \in Pids : Is(p, Fresh) => servers[p].model = order

OrderInv == Counted /\ StartsAlone /\ Unforced

\* No server comes, none starts over, and a killed one stays killed until it is gone.
Shrinks == \A p \in Pids :
  /\ servers'[p].model = servers[p].model
  /\ servers'[p].st \in Fresh => servers[p].st \in Fresh
  /\ servers'[p].st = "starting" => servers[p].st = "starting"
  /\ servers[p].st = "none" => servers'[p].st = "none"
  /\ servers[p].st = "killed" => servers'[p].st \in {"none", "killed"}

\* What a thread knows of the servers afterwards.
Knows(w, listed, killed) == /\ w.pc \in {"term", "wait"} => listed \subseteq w.pids
                            /\ w.pc = "launch" => listed \subseteq killed

Killed == {p \in Pids : Is(p, {"killed"})}

\* Where no server starts, it is enough to look at the thread and at the order.
LEMMA FewerServers ==
  ASSUME OrderInv, Shrinks, forced => forced',
         ~forced' => Killed' = {} /\ \A p \in Pids : Is(p, Fresh)' => servers[p].model = order',
         \A t \in Threads : th'[t] = th[t] \/ Knows(th'[t], Listed', Killed')
  PROVE  OrderInv'
<1>1. \A p \in Pids : p \in Listed' => p \in Listed /\ (p \in Killed => p \in Killed')
  BY DEF Shrinks, Listed, Killed, Is
<1>2. Counted'
  <2> SUFFICES ASSUME NEW t \in Threads, NEW p \in Listed'
               PROVE  /\ th'[t].pc \in {"term", "wait"} => p \in th'[t].pids
                      /\ th'[t].pc = "launch" => p \in Killed'
    BY DEF Counted, Listed, Killed
  <2>1. p \in Pids /\ p \in Listed
    BY <1>1 DEF Listed
  <2>2. CASE Knows(th'[t], Listed', Killed')
    BY <2>2 DEF Knows
  <2>3. CASE th'[t] = th[t]
    BY <1>1, <2>1, <2>3 DEF OrderInv, Counted, Killed
  <2> QED BY <2>2, <2>3
<1>3. StartsAlone'
  BY DEF OrderInv, StartsAlone, Shrinks, Is
<1>4. Unforced'
  <2> SUFFICES ASSUME ~forced' PROVE Unforced'
    BY DEF Unforced
  <2>1. \A p, q \in Listed' : p = q
    BY <1>1 DEF OrderInv, Unforced, Listed
  <2>2. \A p \in Pids : ~Is(p, {"killed"})'
    BY DEF Killed, Is
  <2>3. \A p \in Pids : Is(p, Fresh)' => servers'[p].model = order'
    BY DEF Shrinks, Is
  <2> QED BY <2>1, <2>2, <2>3 DEF Unforced
<1> QED BY <1>2, <1>3, <1>4 DEF OrderInv

\* A signal takes no server away and starts none.
LEMMA SignalShrinks ==
  ASSUME servers \in [Pids -> Server], NEW ps \in SUBSET Pids,
         NEW sts, NEW st \in Told, sts = Fresh \/ (sts = Told /\ st = "killed"),
         servers' = Signal(ps, sts, st)
  PROVE  /\ Shrinks
         /\ st # "killed" => Killed' = Killed
         /\ Listed' = Listed
         /\ \A p \in ps : servers[p].st \in sts => servers'[p].st = st
<1>1. \A p \in Pids :
        /\ servers[p] \in Server
        /\ servers'[p] = IF p \in ps /\ servers[p].st \in sts
                           THEN [servers[p] EXCEPT !.st = st] ELSE servers[p]
  BY DEF Signal, Is
<1>2. \A p \in Pids : /\ servers'[p].model = servers[p].model
                      /\ servers'[p].st = IF p \in ps /\ servers[p].st \in sts
                                            THEN st ELSE servers[p].st
  BY <1>1 DEF Server
<1>3. Shrinks
  BY <1>2 DEF Shrinks, Fresh, Told
<1>4. Listed' = Listed
  BY <1>2 DEF Listed, Is, Fresh, Told
<1>5. st # "killed" => Killed' = Killed
  BY <1>2 DEF Killed, Is, Fresh
<1> QED BY <1>2, <1>3, <1>4, <1>5

\* Where the servers stay as they are, it is enough to look at the thread.
LEMMA SameServers ==
  ASSUME OrderInv, UNCHANGED <<servers, forced>>,
         ~forced => \A p \in Pids : Is(p, Fresh) => servers[p].model = order',
         \A t \in Threads : th'[t] = th[t] \/ Knows(th'[t], Listed, Killed)
  PROVE  OrderInv'
<1>1. Shrinks /\ Listed' = Listed /\ Killed' = Killed
  BY DEF Shrinks, Listed, Killed, Is
<1>2. ~forced' => Killed' = {}
  BY <1>1 DEF OrderInv, Unforced, Killed
<1>3. \A p \in Pids : Is(p, Fresh)' <=> Is(p, Fresh)
  BY DEF Is
<1> QED BY <1>1, <1>2, <1>3, FewerServers

\* Nobody but its holder is past the lock.
LEMMA HolderOnly ==
  ASSUME TypeOK, NEW t \in Threads, th[t].pc \in Locked
  PROVE  lock = t /\ \A s \in Threads \ {t} : th[s].pc \notin Locked
BY DEF TypeOK

LEMMA OrderStep == OneInv /\ OrderInv /\ [Next]_vars => OrderInv'
<1> SUFFICES ASSUME OneInv, OrderInv, [Next]_vars PROVE OrderInv'
  OBVIOUS
<1>0. /\ servers \in [Pids -> Server] /\ th \in [Threads -> Thread] /\ Idle.pc = "idle"
      /\ \A t \in Threads : th[t].pids \subseteq Pids
      /\ ~forced => \A p \in Pids : Is(p, Fresh) => servers[p].model = order
  BY DEF OneInv, TypeOK, Thread, Idle, OrderInv, Unforced
<1>1. ASSUME NEW t \in Threads,
             \/ \E kind \in Kinds, want \in Models \cup {NoModel} : Request(t, kind, want)
             \/ Look(t) \/ Acquire(t) \/ LaunchFails(t)
      PROVE  OrderInv'
  <2>1. th'[t].pc \in {"idle", "look", "lock", "list", "compare"}
    BY <1>0, <1>1 DEF Request, Look, Acquire, LaunchFails, Moves, Ends, Thread
  <2>2. \A s \in Threads \ {t} : th'[s] = th[s]
    BY <1>0, <1>1 DEF Request, Look, Acquire, LaunchFails, Moves, Ends
  <2>3. UNCHANGED <<servers, order, forced>>
    BY <1>1 DEF Request, Look, Acquire, LaunchFails
  <2> QED BY <1>0, <2>1, <2>2, <2>3, SameServers DEF Knows
<1>2. ASSUME NEW t \in Threads, Compare(t) PROVE OrderInv'
  <2>1. /\ th'[t].pc \in {"idle", "list"} /\ UNCHANGED <<servers, forced>>
        /\ \A s \in Threads \ {t} : th'[s] = th[s]
        /\ order' = order \/ order' \in ActiveModels
    BY <1>0, <1>2 DEF Compare, Moves, Ends, Thread
  <2>2. ASSUME ~forced, NEW p \in Pids, Is(p, Fresh) PROVE servers[p].model = order'
    <3>1. CASE order' = order
      BY <1>0, <2>2, <3>1
    <3>2. CASE order' \in ActiveModels
      <4>1. PICK q \in Listed : order' = servers[q].model
        BY <2>2, <3>2, FreshIsListed DEF ActiveModels
      <4>2. p = q
        BY <2>2, FreshIsListed DEF OrderInv, Unforced
      <4> QED BY <4>1, <4>2
    <3> QED BY <2>1, <3>1, <3>2
  <2> QED BY <2>1, <2>2, SameServers DEF Knows
<1>3. ASSUME NEW t \in Threads, ListServers(t) PROVE OrderInv'
  <2>1. /\ th'[t].pc = "term" /\ th'[t].pids = Listed
        /\ \A s \in Threads \ {t} : th'[s] = th[s]
        /\ UNCHANGED <<servers, order, forced>>
    BY <1>0, <1>3 DEF ListServers, Thread
  <2> QED BY <1>0, <2>1, SameServers DEF Knows
<1>4. ASSUME NEW t \in Threads, Terminate(t) PROVE OrderInv'
  <2>1. PICK ps \in SUBSET Pids : servers' = Signal(ps, Fresh, "dying")
    BY <1>0, <1>4 DEF Terminate
  <2>2. Shrinks /\ Killed' = Killed /\ Listed' = Listed
    BY <1>0, <2>1, SignalShrinks DEF Told
  <2>3. /\ \A s \in Threads \ {t} : th'[s] = th[s]
        /\ th'[t].pc = "idle" \/ (th'[t].pc = "wait" /\ th'[t].pids = th[t].pids)
        /\ th[t].pc = "term" /\ UNCHANGED <<order, forced>>
    BY <1>0, <1>4 DEF Terminate, Moves, Ends, Thread
  <2>4. Knows(th'[t], Listed', Killed')
    BY <2>2, <2>3 DEF OrderInv, Counted, Knows
  <2>5. ~forced' => Killed' = {} /\ \A p \in Pids : Is(p, Fresh)' => servers[p].model = order'
    BY <1>0, <2>2, <2>3 DEF OrderInv, Unforced, Killed, Shrinks, Is
  <2> QED BY <2>2, <2>3, <2>4, <2>5, FewerServers
<1>5. ASSUME NEW t \in Threads, SeesThemGone(t) PROVE OrderInv'
  <2>1. /\ th[t].pc = "wait" /\ UNCHANGED <<servers, forced>>
        /\ th'[t].pc \in {"idle", "launch"} /\ \A s \in Threads \ {t} : th'[s] = th[s]
        /\ th[t].pids \cap Listed = {}
    BY <1>0, <1>5 DEF SeesThemGone, Stopped, Moves, Ends, Thread
  <2>2. Listed = {}
    BY <2>1 DEF OrderInv, Counted
  <2>3. \A p \in Pids : ~Is(p, Fresh)
    BY <2>2, FreshIsListed
  <2> QED BY <2>1, <2>2, <2>3, SameServers DEF Knows
<1>6. ASSUME NEW t \in Threads, TimesOut(t) PROVE OrderInv'
  <2>1. /\ th[t].pc = "wait" /\ servers' = Signal(th[t].pids, Told, "killed")
        /\ forced' = TRUE
        /\ th'[t].pc \in {"idle", "launch"} /\ \A s \in Threads \ {t} : th'[s] = th[s]
    BY <1>0, <1>6 DEF TimesOut, Stopped, Moves, Ends, Thread
  <2>2. /\ Shrinks /\ Listed' = Listed
        /\ \A p \in th[t].pids : servers[p].st \in Told => servers'[p].st = "killed"
    BY <1>0, <2>1, SignalShrinks DEF Told
  <2>3. \A p \in Listed : p \in th[t].pids /\ p \in Pids /\ ~Is(p, Fresh)
    BY <2>1 DEF OrderInv, Counted, OneInv, Swept, Listed
  <2>4. \A p \in Listed : servers[p].st \in Told
    BY <1>0, <2>3 DEF Listed, Is, Server
  <2>5. Knows(th'[t], Listed', Killed')
    BY <2>1, <2>2, <2>3, <2>4 DEF Knows, Killed, Is
  <2>6. /\ forced => forced'
        /\ ~forced' => Killed' = {} /\ \A p \in Pids : Is(p, Fresh)' => servers[p].model = order'
    BY <2>1
  <2>7. \A s \in Threads : th'[s] = th[s] \/ Knows(th'[s], Listed', Killed')
    BY <2>1, <2>5
  <2> QED BY <2>2, <2>6, <2>7, FewerServers
<1>7. ASSUME NEW t \in Threads, KillMisses(t) PROVE OrderInv'
  <2>1. PICK gone \in Pids, before \in SUBSET Pids :
          /\ Is(gone, {"dying"}) /\ gone \notin before
          /\ servers' = [Signal(before, Told, "killed") EXCEPT ![gone].st = "none"]
          /\ forced' = (forced \/ before \cap Listed # {})
    BY <1>0, <1>7 DEF KillMisses
  <2>2. /\ th[t].pc = "wait" /\ th'[t].pc = "idle" /\ order' = order
        /\ \A s \in Threads \ {t} : th'[s] = th[s]
    BY <1>0, <1>7 DEF KillMisses, Ends
  <2>3. ASSUME NEW p \in Pids
        PROVE  /\ servers'[p].model = servers[p].model
               /\ servers'[p].st = IF p = gone THEN "none"
                                   ELSE IF p \in before /\ servers[p].st \in Told THEN "killed"
                                   ELSE servers[p].st
    <3>1. servers[p] \in Server /\ gone \notin before
      BY <1>0, <2>1
    <3>2. servers'[p] = IF p = gone THEN [servers[p] EXCEPT !.st = "none"]
                        ELSE IF p \in before /\ servers[p].st \in Told
                          THEN [servers[p] EXCEPT !.st = "killed"] ELSE servers[p]
      BY <1>0, <2>1, <3>1 DEF Signal, Is
    <3> QED BY <3>1, <3>2 DEF Server
  <2>4. Shrinks
    BY <1>0, <2>1, <2>3 DEF Shrinks, Is, Fresh, Told
  <2>5. ~forced' => Killed' = {}
    <3> SUFFICES ASSUME ~forced', NEW p \in Pids PROVE servers'[p].st # "killed"
      BY DEF Killed, Is
    <3>1. servers[p].st # "killed" /\ before \cap Listed = {}
      BY <2>1 DEF OrderInv, Unforced, Is
    <3>2. p \in before => servers[p].st = "none"
      BY <3>1 DEF Listed, Is
    <3> QED BY <2>3, <3>1, <3>2 DEF Told
  <2>6. \A p \in Pids : Is(p, Fresh)' => Is(p, Fresh)
    BY <2>4 DEF Shrinks, Is
  <2>7. forced => forced'
    BY <2>1
  <2> QED BY <1>0, <2>2, <2>4, <2>5, <2>6, <2>7, FewerServers DEF Knows
<1>8. ASSUME NEW t \in Threads, Launch(t) PROVE OrderInv'
  <2>1. PICK p \in Pids \ Listed : servers' = [servers EXCEPT ![p] =
                                     [st |-> "starting", model |-> th[t].want, byHand |-> FALSE]]
    BY <1>8 DEF Launch
  <2>2. /\ th[t].pc = "launch" /\ th'[t].pc = "idle" /\ order' = th[t].want
        /\ \A s \in Threads \ {t} : th'[s] = th[s]
    BY <1>0, <1>8 DEF Launch, Ends
  <2>3. UNCHANGED forced
    BY <1>8 DEF Launch
  <2>4. \A q \in Listed : Is(q, {"killed"}) /\ q \in Pids
    BY <2>2 DEF OrderInv, Counted, Listed
  <2>5. /\ servers'[p].st = "starting" /\ servers'[p].model = order'
        /\ \A q \in Pids \ {p} : servers'[q] = servers[q]
    BY <1>0, <2>1, <2>2
  <2>6. \A q \in Pids \ {p} : servers[q].st \in {"none", "killed"}
    BY <2>4 DEF Listed, Is
  <2>7. Counted'
    <3>1. \A s \in Threads : th'[s].pc \notin Locked
      <4>1. \A s \in Threads \ {t} : th[s].pc \notin Locked
        BY <2>2, HolderOnly DEF OneInv, Locked
      <4> QED BY <2>2, <4>1 DEF Locked
    <3> QED BY <3>1 DEF Counted, Locked
  <2>8. StartsAlone'
    BY <2>5, <2>6 DEF StartsAlone, Is
  <2>9. Unforced'
    <3> SUFFICES ASSUME ~forced PROVE Unforced'
      BY <2>3 DEF Unforced
    <3>1. \A q \in Pids \ {p} : servers'[q].st = "none"
      BY <2>5, <2>6 DEF OrderInv, Unforced, Is
    <3>2. \A q \in Pids : servers'[q].st # "killed"
      BY <2>5, <3>1
    <3>3. \A q \in Pids : servers'[q].st # "none" => q = p
      BY <3>1
    <3> QED BY <2>5, <3>1, <3>2, <3>3 DEF Unforced, Listed, Is, Fresh
  <2> QED BY <2>7, <2>8, <2>9 DEF OrderInv
<1>9. ASSUME NEW p \in Pids, Bind(p) \/ Loaded(p) \/ Dies(p) \/ Crashes(p) PROVE OrderInv'
  <2>1. PICK st \in {"none", "loading", "serving"} :
          Becomes(p, st) /\ (st # "none" => Is(p, Fresh))
    BY <1>9 DEF Bind, Loaded, Dies, Crashes, Is, Fresh
  <2>2. /\ servers'[p].st = st /\ servers'[p].model = servers[p].model
        /\ \A q \in Pids \ {p} : servers'[q] = servers[q]
    BY <1>0, <2>1 DEF Becomes, Server
  <2>3. UNCHANGED <<th, order, forced>>
    BY <1>9 DEF Bind, Loaded, Dies, Crashes
  <2>4. Shrinks /\ servers'[p].st # "killed"
    BY <2>1, <2>2 DEF Shrinks, Is, Fresh
  <2>5. ~forced' => Killed' = {}
    BY <2>2, <2>3, <2>4 DEF OrderInv, Unforced, Killed, Is
  <2>6. \A q \in Pids : Is(q, Fresh)' => Is(q, Fresh)
    BY <2>4 DEF Shrinks, Is
  <2> QED BY <1>0, <2>3, <2>4, <2>5, <2>6, FewerServers
<1>10. CASE UNCHANGED vars
  BY <1>10 DEF vars, OrderInv, Counted, StartsAlone, Unforced, Listed, Is
<1> QED
  BY <1>1, <1>2, <1>3, <1>4, <1>5, <1>6, <1>7, <1>8, <1>9, <1>10 DEF Next, Step

LEMMA InitOrder == Init => OrderInv
<1> SUFFICES ASSUME Init PROVE OrderInv
  OBVIOUS
<1>1. ASSUME NEW p \in Pids PROVE servers[p].st \in {"none", "serving"}
  <2>1. \/ servers[p] = [st |-> "none", model |-> Default, byHand |-> FALSE]
        \/ servers[p] \in [st: {"serving"}, model: Models, byHand: {TRUE}]
    BY DEF Init
  <2>2. \A x \in [st: {"serving"}, model: Models, byHand: {TRUE}] : x.st = "serving"
    OBVIOUS
  <2>3. [st |-> "none", model |-> Default, byHand |-> FALSE].st = "none"
    OBVIOUS
  <2>4. servers[p].st = "none" \/ servers[p].st = "serving"
    BY <2>1, <2>2, <2>3, Zenon
  <2> QED BY <2>4
<1>2. Counted
  BY DEF Init, Counted, Idle
<1>3. StartsAlone
  BY <1>1 DEF StartsAlone, Is
<1>4. \A p, q \in Listed : p = q
  BY DEF Init
<1>5. ASSUME NEW p \in Pids, Is(p, Fresh) PROVE servers[p].model = order
  <2>1. p \in Listed
    BY <1>5, FreshIsListed
  <2>2. order \in {servers[q].model : q \in Listed}
    BY <2>1 DEF Init, ActiveModels
  <2> QED BY <1>4, <2>1, <2>2
<1> QED BY <1>1, <1>2, <1>3, <1>4, <1>5 DEF OrderInv, Unforced, Is

LEMMA OrderAlways == Spec => [](OneInv /\ OrderInv)
BY InitOne, NextOne, InitOrder, OrderStep, PTL DEF Spec

\* As long as no server had to be killed, what is up when nobody loads or stops is what
\* was ordered last.
THEOREM OrderStands == Spec => []LastOrderStands
<1>1. OrderInv => LastOrderStands
  BY DEF OrderInv, Unforced, LastOrderStands
<1> QED
  BY <1>1, OrderAlways, PTL

\* A server that load_model starts finds its port free of everything but killed servers.
THEOREM PortFree == Spec => []PortIsFree
<1>1. OrderInv => PortIsFree
  BY DEF OrderInv, StartsAlone, PortIsFree, Bound, Is, Told
<1> QED
  BY <1>1, OrderAlways, PTL
=============================================================================
