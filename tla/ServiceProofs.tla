--------------------------- MODULE ServiceProofs ---------------------------
(***************************************************************************)
(* Theorems about the scheduler in Service, for any number of processes,   *)
(* plans, minutes, runs and events: it fires no slot twice while one       *)
(* process is up at a time, and lets none slip between two of its ticks.   *)
(* And about the rows of the runs it and the requests create: none stays   *)
(* queued without a coroutine unless something failed, and each goes       *)
(* through RunLifecycle.                                                   *)
(***************************************************************************)
EXTENDS Service, TLAPS

---------------------------------------------------------------------------
(* The inductive invariant.                                                 *)

Typed ==
  /\ scene \in Scenes
  /\ now \in Minutes
  /\ proc \in [Procs -> Proc]
  /\ seen \in Observations

\* Where the tick's own now counts.
Ticking == {"tick", "create", "audit"}

\* last_checked is not in the future, nor past the now of a tick.
ClockInv == \A p \in Procs, f \in Plans :
  /\ proc[p].since[f] <= now
  /\ proc[p].at \in Ticking => proc[p].tick <= now /\ proc[p].since[f] <= proc[p].tick

\* A plan without an entry in last_checked has not been looked at.
FirstInv == \A p \in Procs, f \in Plans :
  Up(p) /\ proc[p].since[f] = Never => seen.first[p][f] = Never

OneProcess == \A p, q \in Procs : Up(p) /\ Up(q) => p = q

\* No slot has fired twice, and none before its time.
FiredOnce == \A f \in Plans, s \in 1..MaxNow :
  seen.fires[f][s] <= 1 /\ (seen.fires[f][s] > 0 => s <= now)

\* What has fired lies behind last_checked, and where there is no entry yet, behind the
\* now of the tick that will make one.
FiredIsPast == \A p \in Procs, f \in Plans, s \in 1..MaxNow :
  Up(p) /\ seen.fires[f][s] > 0 =>
    /\ proc[p].since[f] # Never => s <= proc[p].since[f]
    /\ proc[p].since[f] = Never /\ proc[p].at \in Ticking => s <= proc[p].tick

\* What a tick is about to fire has not fired.
CoversAreNew == \A p \in Procs, s \in 1..MaxNow :
  Up(p) /\ proc[p].at = "create" /\ s \in proc[p].covers =>
    /\ proc[p].since[proc[p].plan] # Never
    /\ s <= proc[p].since[proc[p].plan]
    /\ seen.fires[proc[p].plan][s] = 0

FireInv == ~seen.both => OneProcess /\ FiredOnce /\ FiredIsPast /\ CoversAreNew

SchedulerInv == Typed /\ ClockInv /\ FirstInv /\ NoSlotSlips /\ FireInv

---------------------------------------------------------------------------
(* What the actions do to one process, field by field.                      *)

LEMMA SceneTypes ==
  ASSUME Typed
  PROVE  /\ scene.slots \in [Plans -> SUBSET (1..MaxNow)]
         /\ scene.until \in 0..MaxNow
BY ServiceAssumption DEF Typed

LEMMA FireTypes ==
  ASSUME Typed
  PROVE  \A f \in Plans, s \in 1..MaxNow : seen.fires[f][s] \in Nat
<1>1. seen.fires \in [Plans -> [1..MaxNow -> Nat]]
  BY DEF Typed, Observations
<1> QED BY <1>1

LEMMA NewProcType ==
  ASSUME NEW pc \in {"absent", "down", "up"}
  PROVE  /\ NewProc(pc) \in Proc
         /\ NewProc(pc).pc = pc /\ NewProc(pc).at = "asleep"
         /\ \A f \in Plans : NewProc(pc).since[f] = Never
BY PlansAssumption, ServiceAssumption DEF NewProc, Proc, Scheduler, Minutes, Never

\* All processes but p stay as they are.
Others(p) == \A q \in Procs : q # p => proc'[q] = proc[q]

LEMMA StartsType ==
  ASSUME Typed, NEW p \in Procs, Starts(p)
  PROVE  /\ Typed' /\ Others(p) /\ ~Up(p) /\ now' = now /\ scene' = scene
         /\ proc'[p] = NewProc("up")
         /\ seen'.fires = seen.fires /\ seen'.lost = seen.lost
         /\ seen'.both = (seen.both \/ \E q \in Procs : Up(q))
         /\ \A q \in Procs, f \in Plans :
              seen'.first[q][f] = IF q = p THEN Never ELSE seen.first[q][f]
<1>1. /\ proc' = [proc EXCEPT ![p] = NewProc("up")] /\ now' = now /\ scene' = scene /\ ~Up(p)
      /\ seen' = [seen EXCEPT !.first[p] = [f \in Plans |-> Never], !.both = @ \/ \E q \in Procs : Up(q)]
  BY DEF Starts, Use, Up
<1>2. proc' \in [Procs -> Proc] /\ proc'[p] = NewProc("up") /\ Others(p)
  BY <1>1, NewProcType DEF Typed, Others
<1>3. /\ seen' \in Observations
      /\ seen'.fires = seen.fires /\ seen'.lost = seen.lost
      /\ seen'.both = (seen.both \/ \E q \in Procs : Up(q))
      /\ \A q \in Procs, f \in Plans :
              seen'.first[q][f] = IF q = p THEN Never ELSE seen.first[q][f]
  BY <1>1 DEF Typed, Observations
<1> QED BY <1>1, <1>2, <1>3 DEF Typed

LEMMA EndsType ==
  ASSUME Typed, NEW p \in Procs, Ends(p)
  PROVE  Typed' /\ Others(p) /\ ~Up(p)' /\ UNCHANGED <<scene, now, seen>> /\ proc'[p].at = "asleep"
         /\ \A f \in Plans : proc'[p].since[f] = Never
<1>1. PICK pc \in {"absent", "down"} : proc' = [proc EXCEPT ![p] = NewProc(pc)]
  BY DEF Ends
<1>2. UNCHANGED <<scene, now, seen>>
  BY DEF Ends
<1>3. proc' \in [Procs -> Proc] /\ proc'[p] = NewProc(pc) /\ Others(p)
  BY <1>1, NewProcType DEF Typed, Others
<1> QED BY <1>2, <1>3, NewProcType DEF Typed, Up

\* The slots that a look at f covers.
DueNow(p, f) == {s \in scene.slots[f] : Due(Since(p, f), s, proc[p].tick)}

LEMMA LooksType ==
  ASSUME Typed, NEW p \in Procs, NEW f \in Plans, Looks(p, f)
  PROVE  /\ Typed' /\ Others(p) /\ Up(p) /\ proc[p].at = "tick" /\ UNCHANGED <<scene, now>>
         /\ proc'[p].pc = "up" /\ proc'[p].plan = f /\ proc'[p].covers = DueNow(p, f)
         /\ proc'[p].tick = proc[p].tick
         /\ \A g \in Plans : proc'[p].since[g] = IF g = f THEN proc[p].tick ELSE proc[p].since[g]
         /\ proc'[p].at = IF DueNow(p, f) = {} THEN "tick" ELSE "create"
         /\ seen'.fires = seen.fires /\ seen'.lost = seen.lost /\ seen'.both = seen.both
         /\ \A q \in Procs, g \in Plans :
              seen'.first[q][g] = IF q = p /\ g = f /\ seen.first[p][f] = Never
                                  THEN proc[p].tick ELSE seen.first[q][g]
<1> DEFINE due == DueNow(p, f)
           new == [proc[p] EXCEPT !.todo = @ \ {f}, !.since[f] = proc[p].tick, !.plan = f,
                                  !.covers = due, !.at = IF due = {} THEN "tick" ELSE "create"]
<1>1. due \in SUBSET Minutes
  BY SceneTypes, ServiceAssumption DEF Minutes, DueNow
<1>2. proc[p] \in Proc /\ proc[p].tick \in Minutes
  BY DEF Typed, Proc
<1>3. new \in Proc
  BY <1>1, <1>2 DEF Proc, Scheduler
<1>4. proc' = [proc EXCEPT ![p] = new]
  BY DEF Looks, Checked, Typed, DueNow
<1>5. proc' \in [Procs -> Proc] /\ proc'[p] = new /\ Others(p)
  BY <1>3, <1>4 DEF Typed, Others
<1>6. Up(p) /\ proc[p].at = "tick" /\ UNCHANGED <<scene, now>>
  BY DEF Looks
<1>7. seen' = IF seen.first[p][f] = Never THEN [seen EXCEPT !.first[p][f] = proc[p].tick] ELSE seen
  BY DEF Looks
<1>8. /\ seen' \in Observations
      /\ seen'.fires = seen.fires /\ seen'.lost = seen.lost /\ seen'.both = seen.both
      /\ \A q \in Procs, g \in Plans :
           seen'.first[q][g] = IF q = p /\ g = f /\ seen.first[p][f] = Never
                               THEN proc[p].tick ELSE seen.first[q][g]
  BY <1>2, <1>7 DEF Typed, Observations
<1>9. /\ new.pc = "up" /\ new.plan = f /\ new.covers = due /\ new.tick = proc[p].tick
      /\ \A g \in Plans : new.since[g] = IF g = f THEN proc[p].tick ELSE proc[p].since[g]
      /\ new.at = IF due = {} THEN "tick" ELSE "create"
  BY <1>2, <1>6 DEF Proc, Up
<1> QED BY <1>5, <1>6, <1>8, <1>9 DEF Typed

LEMMA FiresType ==
  ASSUME Typed, NEW p \in Procs, Fires(p)
  PROVE  /\ Typed' /\ Others(p) /\ Up(p) /\ proc[p].at = "create" /\ UNCHANGED <<scene, now>>
         /\ proc'[p] = [proc[p] EXCEPT !.at = "audit"]
         /\ seen'.first = seen.first /\ seen'.lost = seen.lost /\ seen'.both = seen.both
         /\ \A f \in Plans, s \in 1..MaxNow :
              seen'.fires[f][s] = IF f = proc[p].plan /\ s \in proc[p].covers
                                  THEN seen.fires[f][s] + 1 ELSE seen.fires[f][s]
<1>1. proc[p] \in Proc /\ proc[p].plan \in Plans
  BY DEF Typed, Proc
<1>2. proc' = [proc EXCEPT ![p] = [proc[p] EXCEPT !.at = "audit"]]
  BY DEF Fires, Typed
<1>3. [proc[p] EXCEPT !.at = "audit"] \in Proc
  BY <1>1 DEF Proc, Scheduler
<1>4. seen' = [seen EXCEPT !.fires[proc[p].plan] =
                [s \in 1..MaxNow |-> IF s \in proc[p].covers THEN @[s] + 1 ELSE @[s]]]
  BY DEF Fires
<1>5. /\ seen' \in Observations
      /\ seen'.first = seen.first /\ seen'.lost = seen.lost /\ seen'.both = seen.both
      /\ \A f \in Plans, s \in 1..MaxNow :
              seen'.fires[f][s] = IF f = proc[p].plan /\ s \in proc[p].covers
                                  THEN seen.fires[f][s] + 1 ELSE seen.fires[f][s]
  <2> DEFINE old == seen.fires[proc[p].plan]
             row == [s \in 1..MaxNow |-> IF s \in proc[p].covers THEN old[s] + 1 ELSE old[s]]
             table == [seen.fires EXCEPT ![proc[p].plan] = row]
  <2>1. seen.fires \in [Plans -> [1..MaxNow -> Nat]] /\ seen \in Observations
    BY DEF Typed, Observations
  <2>2. \A s \in 1..MaxNow : old[s] \in Nat
    BY <1>1, <2>1
  <2>3. row \in [1..MaxNow -> Nat]
    BY <2>2
  <2>4. table \in [Plans -> [1..MaxNow -> Nat]]
    BY <1>1, <2>1, <2>3
  <2>5. seen' = [seen EXCEPT !.fires = table]
    BY <1>4, <2>1 DEF Observations
  <2>6. \A f \in Plans : table[f] = IF f = proc[p].plan THEN row ELSE seen.fires[f]
    BY <1>1, <2>1
  <2>7. seen' \in Observations /\ seen'.fires = table
    BY <2>1, <2>4, <2>5 DEF Observations
  <2>8. seen'.first = seen.first /\ seen'.lost = seen.lost /\ seen'.both = seen.both
    BY <2>1, <2>5 DEF Observations
  <2>9. ASSUME NEW f \in Plans, NEW s \in 1..MaxNow
        PROVE  table[f][s] = IF f = proc[p].plan /\ s \in proc[p].covers
                             THEN seen.fires[f][s] + 1 ELSE seen.fires[f][s]
    <3>1. row[s] = IF s \in proc[p].covers THEN old[s] + 1 ELSE old[s]
      OBVIOUS
    <3>2. table[f] = IF f = proc[p].plan THEN row ELSE seen.fires[f]
      BY <2>6
    <3> HIDE DEF row, table
    <3> QED BY <3>1, <3>2
  <2> HIDE DEF old, row, table
  <2> QED BY <2>7, <2>8, <2>9
<1>6. Up(p) /\ proc[p].at = "create" /\ UNCHANGED <<scene, now>>
  BY DEF Fires
<1> QED BY <1>2, <1>3, <1>5, <1>6 DEF Typed, Others

LEMMA FireFailsType ==
  ASSUME Typed, NEW p \in Procs, FireFails(p)
  PROVE  /\ Typed' /\ Others(p) /\ Up(p) /\ proc[p].at = "create" /\ UNCHANGED <<scene, now>>
         /\ proc'[p] = [proc[p] EXCEPT !.at = "sweep"]
         /\ seen'.first = seen.first /\ seen'.fires = seen.fires /\ seen'.both = seen.both
         /\ \A f \in Plans :
              seen'.lost[f] = IF f = proc[p].plan THEN seen.lost[f] \cup proc[p].covers ELSE seen.lost[f]
<1>1. proc[p] \in Proc /\ proc[p].plan \in Plans /\ proc[p].covers \in SUBSET Minutes
  BY DEF Typed, Proc
<1>2. proc' = [proc EXCEPT ![p] = [proc[p] EXCEPT !.at = "sweep"]]
  BY DEF FireFails, AfterFailure, Typed
<1>3. [proc[p] EXCEPT !.at = "sweep"] \in Proc
  BY <1>1 DEF Proc, Scheduler
<1>4. seen' = [seen EXCEPT !.lost[proc[p].plan] = @ \cup proc[p].covers]
  BY DEF FireFails
<1>5. /\ seen' \in Observations
      /\ seen'.first = seen.first /\ seen'.fires = seen.fires /\ seen'.both = seen.both
      /\ \A f \in Plans :
              seen'.lost[f] = IF f = proc[p].plan THEN seen.lost[f] \cup proc[p].covers ELSE seen.lost[f]
  BY <1>1, <1>4 DEF Typed, Observations
<1>6. Up(p) /\ proc[p].at = "create" /\ UNCHANGED <<scene, now>>
  BY DEF FireFails
<1> QED BY <1>2, <1>3, <1>5, <1>6 DEF Typed, Others

\* The steps of the scheduler that only move it.
LEMMA MovesType ==
  ASSUME Typed, NEW p \in Procs,
         \/ TickStarts(p) \/ TickFails(p) \/ LookRaises(p)
         \/ FireIsLogged(p) \/ TickEnds(p) \/ Sweeps(p)
  PROVE  /\ Typed' /\ Others(p) /\ Up(p) /\ proc[p].at # "create" /\ UNCHANGED <<scene, now, seen>>
         /\ proc'[p].pc = "up" /\ proc'[p].since = proc[p].since /\ proc'[p].at # "create"
         /\ proc'[p].at \in Ticking =>
              \/ proc'[p].tick = now
              \/ proc[p].at \in Ticking /\ proc'[p].tick = proc[p].tick
<1>1. proc[p] \in Proc /\ now \in Minutes /\ proc[p].since \in [Plans -> Minutes \cup {Never}]
  BY DEF Typed, Proc
<1>2. CASE TickStarts(p)
  <2>1. proc' = [proc EXCEPT ![p] = [proc[p] EXCEPT !.at = "tick", !.tick = now, !.todo = Plans]]
    BY <1>2 DEF TickStarts, Typed
  <2>2. [proc[p] EXCEPT !.at = "tick", !.tick = now, !.todo = Plans] \in Proc
    BY <1>1 DEF Proc, Scheduler
  <2>3. proc[p].at = "asleep" /\ Up(p) /\ UNCHANGED <<scene, now, seen>>
    BY <1>2 DEF TickStarts
  <2> QED BY <1>1, <2>1, <2>2, <2>3 DEF Typed, Others, Up, Proc, Ticking
<1>3. CASE TickFails(p) \/ LookRaises(p) \/ FireIsLogged(p) \/ TickEnds(p)
  <2>1. PICK at \in {"tick", "sweep"} : proc' = [proc EXCEPT ![p] = [proc[p] EXCEPT !.at = at]]
    BY <1>3 DEF TickFails, LookRaises, FireIsLogged, TickEnds, AfterFailure, Typed
  <2>2. [proc[p] EXCEPT !.at = at] \in Proc
    BY <1>1 DEF Proc, Scheduler
  <2>3. Up(p) /\ proc[p].at # "create" /\ UNCHANGED <<scene, now, seen>>
    BY <1>3 DEF TickFails, LookRaises, FireIsLogged, TickEnds
  <2>4. at = "tick" => proc[p].at = "audit"
    BY <1>1, <1>3, <2>1 DEF TickFails, LookRaises, FireIsLogged, TickEnds, AfterFailure, Typed, Proc
  <2> QED BY <1>1, <2>1, <2>2, <2>3, <2>4 DEF Typed, Others, Up, Proc, Ticking
<1>4. CASE Sweeps(p)
  <2> DEFINE new == [NewProc("up") EXCEPT !.since = proc[p].since,
                                    !.wake = IF now < scene.until THEN now + 1 ELSE now]
  <2>1. proc' = [proc EXCEPT ![p] = new]
    BY <1>4 DEF Sweeps
  <2>2. (IF now < scene.until THEN now + 1 ELSE now) \in Minutes
    BY <1>1, SceneTypes, ServiceAssumption DEF Minutes
  <2>3. new \in Proc /\ new.pc = "up" /\ new.since = proc[p].since /\ new.at = "asleep"
    BY <1>1, <2>2, NewProcType DEF Proc
  <2>4. Up(p) /\ proc[p].at = "sweep" /\ UNCHANGED <<scene, now, seen>>
    BY <1>4 DEF Sweeps
  <2> QED BY <2>1, <2>3, <2>4 DEF Typed, Others, Up, Ticking
<1> QED BY <1>2, <1>3, <1>4

---------------------------------------------------------------------------
(* The invariant holds initially and is preserved.                          *)

LEMMA InitHolds == Init => SchedulerInv
<1> SUFFICES ASSUME Init PROVE SchedulerInv
  OBVIOUS
<1>1. \A p \in Procs : /\ proc[p] \in Proc /\ ~Up(p) /\ proc[p].at = "asleep"
                       /\ \A f \in Plans : proc[p].since[f] = Never
  BY NewProcType DEF Init, Up
<1>2. /\ seen \in Observations
      /\ \A f \in Plans, s \in 1..MaxNow : seen.fires[f][s] = 0
  BY DEF Init, Observations
<1>3. now = 0 /\ scene \in Scenes /\ proc = [p \in Procs |-> proc[p]]
  BY DEF Init
<1>4. Typed
  BY <1>1, <1>2, <1>3, ServiceAssumption DEF Typed, Minutes
<1>5. ClockInv /\ FirstInv /\ NoSlotSlips
  BY <1>1, <1>3 DEF ClockInv, FirstInv, NoSlotSlips, Never, Ticking
<1>6. FireInv
  BY <1>1, <1>2 DEF FireInv, OneProcess, FiredOnce, FiredIsPast, CoversAreNew
<1> QED BY <1>4, <1>5, <1>6 DEF SchedulerInv

\* Requests and the coroutines they start leave the scheduler alone.
LEMMA RunsHold ==
  ASSUME SchedulerInv, UNCHANGED <<scene, now, proc, seen>>
  PROVE  SchedulerInv'
<1>1. Typed' /\ ClockInv' /\ FirstInv'
  BY DEF SchedulerInv, Typed, ClockInv, FirstInv, Up
<1>2. NoSlotSlips'
  BY DEF SchedulerInv, NoSlotSlips, Up
<1>3. FireInv'
  BY DEF SchedulerInv, FireInv, OneProcess, FiredOnce, FiredIsPast, CoversAreNew, Up
<1> QED BY <1>1, <1>2, <1>3 DEF SchedulerInv

LEMMA ClockHolds == SchedulerInv /\ ClockTicks => SchedulerInv'
<1> SUFFICES ASSUME SchedulerInv, ClockTicks PROVE SchedulerInv'
  OBVIOUS
<1>1. UNCHANGED <<scene, proc, seen>> /\ now' = now + 1 /\ now < scene.until
  BY DEF ClockTicks
<1>2. Typed /\ now \in Nat /\ scene.until \in 0..MaxNow /\ MaxNow \in Nat
  BY SceneTypes, ServiceAssumption DEF SchedulerInv, Typed, Minutes
<1>3. Typed'
  BY <1>1, <1>2 DEF Typed, Minutes
<1>4. \A p \in Procs : proc[p].tick \in Int /\ \A f \in Plans : proc[p].since[f] \in Int
  BY <1>2 DEF Typed, Proc, Minutes, Never
<1>5. ClockInv'
  BY <1>1, <1>2, <1>4 DEF SchedulerInv, ClockInv
<1>6. FirstInv' /\ NoSlotSlips'
  BY <1>1 DEF SchedulerInv, FirstInv, NoSlotSlips, Up
<1>7. FireInv'
  BY <1>1, <1>2 DEF SchedulerInv, FireInv, OneProcess, FiredOnce, FiredIsPast, CoversAreNew, Up
<1> QED BY <1>3, <1>5, <1>6, <1>7 DEF SchedulerInv

\* A process that starts knows nothing; one that is alone stays so.
LEMMA StartsHolds ==
  ASSUME SchedulerInv, NEW p \in Procs, Starts(p)
  PROVE  SchedulerInv'
<1>1. Typed /\ Typed'
  BY StartsType DEF SchedulerInv
<1>2. /\ Others(p) /\ ~Up(p) /\ now' = now /\ scene' = scene
      /\ seen'.fires = seen.fires /\ seen'.lost = seen.lost
      /\ seen'.both = (seen.both \/ \E q \in Procs : Up(q))
      /\ \A q \in Procs, f \in Plans :
           seen'.first[q][f] = IF q = p THEN Never ELSE seen.first[q][f]
  BY <1>1, StartsType
<1>3. proc'[p].at = "asleep" /\ \A f \in Plans : proc'[p].since[f] = Never
  BY <1>1, StartsType, NewProcType
<1>4. now \in Nat
  BY <1>1, ServiceAssumption DEF Typed, Minutes
<1>5. ClockInv'
  BY <1>2, <1>3, <1>4 DEF SchedulerInv, ClockInv, Others, Ticking, Never
<1>6. FirstInv'
  BY <1>2, <1>3 DEF SchedulerInv, FirstInv, Others, Up
<1>7. NoSlotSlips'
  BY <1>2, <1>3 DEF SchedulerInv, NoSlotSlips, Others, Up
<1>8. FireInv'
  <2> SUFFICES ASSUME ~seen'.both PROVE (OneProcess /\ FiredOnce /\ FiredIsPast /\ CoversAreNew)'
    BY DEF FireInv
  <2>1. ~seen.both /\ \A q \in Procs : ~Up(q)
    BY <1>1, <1>2 DEF Typed, Observations
  <2>2. OneProcess'
    BY <1>2, <2>1 DEF OneProcess, Others, Up
  <2>3. FiredOnce'
    BY <1>2, <2>1 DEF SchedulerInv, FireInv, FiredOnce
  <2>4. FiredIsPast' /\ CoversAreNew'
    BY <1>2, <1>3, <2>1 DEF FiredIsPast, CoversAreNew, Others, Up, Ticking
  <2> QED BY <2>2, <2>3, <2>4
<1> QED BY <1>1, <1>5, <1>6, <1>7, <1>8 DEF SchedulerInv

\* With a process goes everything it knew.
LEMMA EndsHolds ==
  ASSUME SchedulerInv, NEW p \in Procs, Ends(p)
  PROVE  SchedulerInv'
<1>1. Typed /\ Typed'
  BY EndsType DEF SchedulerInv
<1>2. /\ Others(p) /\ ~Up(p)' /\ UNCHANGED <<scene, now, seen>> /\ proc'[p].at = "asleep"
      /\ \A f \in Plans : proc'[p].since[f] = Never
  BY <1>1, EndsType
<1>3. now \in Nat
  BY <1>1, ServiceAssumption DEF Typed, Minutes
<1>4. ClockInv'
  BY <1>2, <1>3 DEF SchedulerInv, ClockInv, Others, Ticking, Never
<1>5. FirstInv' /\ NoSlotSlips'
  BY <1>2 DEF SchedulerInv, FirstInv, NoSlotSlips, Others, Up
<1>6. FireInv'
  BY <1>2 DEF SchedulerInv, FireInv, OneProcess, FiredOnce, FiredIsPast, CoversAreNew, Others, Up
<1> QED BY <1>1, <1>4, <1>5, <1>6 DEF SchedulerInv

LEMMA MovesHold ==
  ASSUME SchedulerInv, NEW p \in Procs,
         \/ TickStarts(p) \/ TickFails(p) \/ LookRaises(p)
         \/ FireIsLogged(p) \/ TickEnds(p) \/ Sweeps(p)
  PROVE  SchedulerInv'
<1>1. Typed /\ Typed'
  BY MovesType DEF SchedulerInv
<1>2. /\ Others(p) /\ Up(p) /\ proc[p].at # "create" /\ UNCHANGED <<scene, now, seen>>
      /\ proc'[p].pc = "up" /\ proc'[p].since = proc[p].since /\ proc'[p].at # "create"
  BY <1>1, MovesType
<1>3. proc'[p].at \in Ticking =>
         proc'[p].tick = now \/ (proc[p].at \in Ticking /\ proc'[p].tick = proc[p].tick)
  BY <1>1, MovesType
<1>4. ClockInv'
  <2>1. now \in Int /\ \A f \in Plans : proc[p].since[f] \in Int
    BY <1>1, ServiceAssumption DEF Typed, Proc, Minutes, Never
  <2> QED BY <1>2, <1>3, <2>1 DEF SchedulerInv, ClockInv, Others
<1>5. FirstInv' /\ NoSlotSlips'
  BY <1>2 DEF SchedulerInv, FirstInv, NoSlotSlips, Others, Up
<1>6. FireInv'
  <2> SUFFICES ASSUME ~seen.both PROVE (OneProcess /\ FiredOnce /\ FiredIsPast /\ CoversAreNew)'
    BY <1>2 DEF FireInv
  <2>1. OneProcess /\ FiredOnce /\ FiredIsPast /\ CoversAreNew
    BY DEF SchedulerInv, FireInv
  <2>2. OneProcess' /\ FiredOnce' /\ CoversAreNew'
    BY <1>2, <2>1 DEF OneProcess, FiredOnce, CoversAreNew, Others, Up
  <2>3. FiredIsPast'
    BY <1>2, <1>3, <2>1 DEF FiredOnce, FiredIsPast, Others, Up
  <2> QED BY <2>2, <2>3
<1> QED BY <1>1, <1>4, <1>5, <1>6 DEF SchedulerInv

\* A look covers what has passed since the last one, and none of that has fired.
LEMMA LooksHolds ==
  ASSUME SchedulerInv, NEW p \in Procs, NEW f \in Plans, Looks(p, f)
  PROVE  SchedulerInv'
<1>1. Typed /\ Typed'
  BY LooksType DEF SchedulerInv
<1>2. /\ Others(p) /\ Up(p) /\ proc[p].at = "tick" /\ UNCHANGED <<scene, now>>
      /\ proc'[p].pc = "up" /\ proc'[p].plan = f /\ proc'[p].covers = DueNow(p, f)
      /\ proc'[p].tick = proc[p].tick
      /\ \A g \in Plans : proc'[p].since[g] = IF g = f THEN proc[p].tick ELSE proc[p].since[g]
      /\ proc'[p].at = IF DueNow(p, f) = {} THEN "tick" ELSE "create"
      /\ seen'.fires = seen.fires /\ seen'.lost = seen.lost /\ seen'.both = seen.both
      /\ \A q \in Procs, g \in Plans :
           seen'.first[q][g] = IF q = p /\ g = f /\ seen.first[p][f] = Never
                               THEN proc[p].tick ELSE seen.first[q][g]
  BY <1>1, LooksType
<1>3. /\ proc[p].tick \in Nat /\ now \in Nat
      /\ \A g \in Plans : proc[p].since[g] \in Nat \cup {-1}
      /\ \A g \in Plans : proc'[p].since[g] = IF g = f THEN proc[p].tick ELSE proc[p].since[g]
  BY <1>1, <1>2, ServiceAssumption DEF Typed, Proc, Minutes, Never
<1>4. proc[p].tick <= now /\ \A g \in Plans : proc[p].since[g] <= proc[p].tick
  BY <1>2 DEF SchedulerInv, ClockInv, Ticking
<1>5. \A s \in DueNow(p, f) : /\ s \in 1..MaxNow /\ s \in scene.slots[f]
                     /\ proc[p].since[f] # Never /\ proc[p].since[f] < s /\ s <= proc[p].tick
  BY <1>1, <1>3, SceneTypes DEF DueNow, Due, Since
<1>6. ClockInv'
  <2> SUFFICES ASSUME NEW q \in Procs, NEW g \in Plans
               PROVE  /\ proc'[q].since[g] <= now
                      /\ proc'[q].at \in Ticking => proc'[q].tick <= now /\ proc'[q].since[g] <= proc'[q].tick
    BY <1>2 DEF ClockInv
  <2>1. CASE q # p
    BY <1>2, <2>1 DEF SchedulerInv, ClockInv, Others
  <2>2. CASE q = p
    BY <1>2, <1>3, <1>4, <2>2
  <2> QED BY <2>1, <2>2
<1>7. FirstInv'
  <2> SUFFICES ASSUME NEW q \in Procs, NEW g \in Plans, proc'[q].pc = "up", proc'[q].since[g] = Never
               PROVE  seen'.first[q][g] = Never
    BY DEF FirstInv, Up
  <2>1. CASE q # p
    BY <1>2, <2>1 DEF SchedulerInv, FirstInv, Others, Up
  <2>2. CASE q = p
    <3>1. g # f
      BY <1>3, <2>2 DEF Never
    <3> QED BY <1>2, <1>3, <2>2, <3>1 DEF SchedulerInv, FirstInv
  <2> QED BY <2>1, <2>2
<1>8. NoSlotSlips'
  <2> SUFFICES ASSUME NEW q \in Procs, NEW g \in Plans, NEW s \in scene.slots[g],
                      proc'[q].pc = "up", seen'.first[q][g] # Never,
                      seen'.first[q][g] < s, s <= proc'[q].since[g]
               PROVE  \/ seen.fires[g][s] > 0 \/ s \in seen.lost[g]
                      \/ proc'[q].at = "create" /\ proc'[q].plan = g /\ s \in proc'[q].covers
    BY <1>2 DEF NoSlotSlips, Up
  <2>1. CASE q # p
    BY <1>2, <2>1 DEF SchedulerInv, NoSlotSlips, Others, Up
  <2>2. CASE q = p /\ g # f
    BY <1>2, <1>3, <2>2 DEF SchedulerInv, NoSlotSlips, Up
  <2>3. CASE q = p /\ g = f
    <3>1. s <= proc[p].tick /\ s \in Nat
      BY <1>1, <1>3, <2>3, SceneTypes
    <3>2. seen.first[p][f] # Never /\ seen.first[p][f] < s
      BY <1>2, <1>3, <2>3, <3>1
    <3>3. proc[p].since[f] # Never
      BY <1>2, <3>2 DEF SchedulerInv, FirstInv
    <3>4. CASE s <= proc[p].since[f]
      BY <1>2, <2>3, <3>2, <3>4 DEF SchedulerInv, NoSlotSlips
    <3>5. CASE proc[p].since[f] < s
      <4>1. s \in DueNow(p, f)
        BY <2>3, <3>1, <3>3, <3>5 DEF DueNow, Due, Since
      <4> QED BY <1>2, <2>3, <4>1
    <3> QED BY <1>3, <3>1, <3>4, <3>5
  <2> QED BY <2>1, <2>2, <2>3
<1>9. FireInv'
  <2> SUFFICES ASSUME ~seen.both PROVE (OneProcess /\ FiredOnce /\ FiredIsPast /\ CoversAreNew)'
    BY <1>2 DEF FireInv
  <2>1. OneProcess /\ FiredOnce /\ FiredIsPast /\ CoversAreNew
    BY DEF SchedulerInv, FireInv
  <2>2. OneProcess' /\ FiredOnce'
    BY <1>2, <2>1 DEF OneProcess, FiredOnce, Others, Up
  <2>3. \A s \in 1..MaxNow : seen.fires[f][s] > 0 =>
          s <= proc[p].tick /\ (proc[p].since[f] # Never => s <= proc[p].since[f])
    BY <1>2, <1>3, <1>4, <2>1 DEF FiredIsPast, Ticking
  <2>4. FiredIsPast'
    <3> SUFFICES ASSUME NEW q \in Procs, NEW g \in Plans, NEW s \in 1..MaxNow,
                        proc'[q].pc = "up", seen.fires[g][s] > 0
                 PROVE  /\ proc'[q].since[g] # Never => s <= proc'[q].since[g]
                        /\ proc'[q].since[g] = Never /\ proc'[q].at \in Ticking => s <= proc'[q].tick
      BY <1>2 DEF FiredIsPast, Up
    <3>1. CASE q # p
      BY <1>2, <2>1, <3>1 DEF FiredIsPast, Others, Up
    <3>2. CASE q = p /\ g # f
      <4>1. proc'[q].since[g] = proc[p].since[g] /\ proc'[q].tick = proc[p].tick
        BY <1>2, <1>3, <3>2
      <4>2. /\ proc[p].since[g] # Never => s <= proc[p].since[g]
            /\ proc[p].since[g] = Never => s <= proc[p].tick
        BY <1>2, <2>1 DEF FiredIsPast, Ticking
      <4> QED BY <4>1, <4>2
    <3>3. CASE q = p /\ g = f
      BY <1>2, <1>3, <2>3, <3>3 DEF Never
    <3> QED BY <3>1, <3>2, <3>3
  <2>5. CoversAreNew'
    <3> SUFFICES ASSUME NEW q \in Procs, NEW s \in 1..MaxNow, proc'[q].pc = "up",
                        proc'[q].at = "create", s \in proc'[q].covers
                 PROVE  /\ proc'[q].since[proc'[q].plan] # Never
                        /\ s <= proc'[q].since[proc'[q].plan]
                        /\ seen.fires[proc'[q].plan][s] = 0
      BY <1>2 DEF CoversAreNew, Up
    <3>1. CASE q # p
      BY <1>2, <2>1, <3>1 DEF CoversAreNew, Others, Up
    <3>2. CASE q = p
      <4>1. s \in DueNow(p, f) /\ proc'[q].plan = f /\ proc'[q].since[f] = proc[p].tick
        BY <1>2, <1>3, <3>2
      <4>2. seen.fires[f][s] \in Nat
        BY <1>1, <1>5, <4>1, FireTypes
      <4>3. /\ proc[p].since[f] # Never /\ proc[p].since[f] < s /\ s <= proc[p].tick
            /\ proc[p].since[f] \in Int /\ s \in Int
        BY <1>3, <1>5, <4>1
      <4>4. seen.fires[f][s] > 0 => s <= proc[p].since[f]
        BY <2>3, <4>3
      <4>5. seen.fires[f][s] = 0
        BY <4>2, <4>3, <4>4
      <4>6. proc[p].tick # Never
        BY <1>3 DEF Never
      <4> QED BY <4>1, <4>3, <4>5, <4>6
    <3> QED BY <3>1, <3>2
  <2> QED BY <2>1, <2>2, <2>4, <2>5
<1> QED BY <1>1, <1>6, <1>7, <1>8, <1>9 DEF SchedulerInv

LEMMA FiresHolds ==
  ASSUME SchedulerInv, NEW p \in Procs, Fires(p)
  PROVE  SchedulerInv'
<1>1. Typed /\ Typed'
  BY FiresType DEF SchedulerInv
<1>2. /\ Others(p) /\ Up(p) /\ proc[p].at = "create" /\ UNCHANGED <<scene, now>>
      /\ seen'.first = seen.first /\ seen'.lost = seen.lost /\ seen'.both = seen.both
      /\ \A f \in Plans, s \in 1..MaxNow :
           seen'.fires[f][s] = IF f = proc[p].plan /\ s \in proc[p].covers
                               THEN seen.fires[f][s] + 1 ELSE seen.fires[f][s]
  BY <1>1, FiresType
<1>e. proc'[p] = [proc[p] EXCEPT !.at = "audit"]
  BY <1>1, FiresType
<1>3. /\ proc'[p].pc = "up" /\ proc'[p].at = "audit" /\ proc'[p].since = proc[p].since
      /\ proc'[p].tick = proc[p].tick
  BY <1>1, <1>2, <1>e DEF Typed, Proc, Up
<1>4. /\ \A f \in Plans, s \in 1..MaxNow : seen.fires[f][s] \in Nat
      /\ proc[p].plan \in Plans /\ now \in Nat
      /\ \A f \in Plans : proc[p].since[f] \in Nat \cup {-1}
  <2>1. proc[p].plan \in Plans /\ now \in Nat /\ \A f \in Plans : proc[p].since[f] \in Nat \cup {-1}
    BY <1>1, ServiceAssumption DEF Typed, Proc, Minutes, Never
  <2> QED BY <1>1, <2>1, FireTypes
<1>5. ClockInv' /\ FirstInv'
  <2>1. ClockInv'
    BY <1>2, <1>3 DEF SchedulerInv, ClockInv, Others, Ticking
  <2>2. FirstInv'
    BY <1>2, <1>3 DEF SchedulerInv, FirstInv, Others, Up
  <2> QED BY <2>1, <2>2
<1>6. NoSlotSlips'
  <2> SUFFICES ASSUME NEW q \in Procs, NEW g \in Plans, NEW s \in scene.slots[g],
                      proc'[q].pc = "up", seen.first[q][g] # Never,
                      seen.first[q][g] < s, s <= proc'[q].since[g]
               PROVE  \/ seen'.fires[g][s] > 0 \/ s \in seen.lost[g]
                      \/ proc'[q].at = "create" /\ proc'[q].plan = g /\ s \in proc'[q].covers
    BY <1>2 DEF NoSlotSlips, Up
  <2>1. s \in 1..MaxNow
    BY <1>1, SceneTypes
  <2>2. \/ seen.fires[g][s] > 0 \/ s \in seen.lost[g]
        \/ proc[q].at = "create" /\ proc[q].plan = g /\ s \in proc[q].covers
    BY <1>2, <1>3 DEF SchedulerInv, NoSlotSlips, Others, Up
  <2>3. seen.fires[g][s] > 0 => seen'.fires[g][s] > 0
    BY <1>2, <1>4, <2>1
  <2>4. CASE q # p
    BY <1>2, <2>2, <2>3, <2>4 DEF Others
  <2>5. CASE q = p
    BY <1>2, <1>4, <2>1, <2>2, <2>3, <2>5
  <2> QED BY <2>4, <2>5
<1>7. FireInv'
  <2> SUFFICES ASSUME ~seen.both PROVE (OneProcess /\ FiredOnce /\ FiredIsPast /\ CoversAreNew)'
    BY <1>2 DEF FireInv
  <2>1. OneProcess /\ FiredOnce /\ FiredIsPast /\ CoversAreNew
    BY DEF SchedulerInv, FireInv
  <2>2. OneProcess' /\ \A q \in Procs : proc'[q].pc = "up" => q = p
    BY <1>2, <2>1 DEF OneProcess, Others, Up
  <2>3. \A s \in 1..MaxNow : s \in proc[p].covers =>
          /\ proc[p].since[proc[p].plan] # Never /\ s <= proc[p].since[proc[p].plan]
          /\ seen.fires[proc[p].plan][s] = 0
    BY <1>2, <2>1 DEF CoversAreNew
  <2>4. proc[p].since[proc[p].plan] <= now
    BY <1>4 DEF SchedulerInv, ClockInv
  <2>5. FiredOnce'
    BY <1>2, <1>4, <2>1, <2>3, <2>4 DEF FiredOnce
  <2>6. FiredIsPast'
    <3> SUFFICES ASSUME NEW g \in Plans, NEW s \in 1..MaxNow, seen'.fires[g][s] > 0
                 PROVE  /\ proc[p].since[g] # Never => s <= proc[p].since[g]
                        /\ proc[p].since[g] = Never => s <= proc[p].tick
      BY <1>3, <2>2 DEF FiredIsPast, Up
    <3>1. CASE g = proc[p].plan /\ s \in proc[p].covers
      BY <2>3, <3>1
    <3>2. CASE ~(g = proc[p].plan /\ s \in proc[p].covers)
      BY <1>2, <2>1, <3>2 DEF FiredIsPast, Ticking
    <3> QED BY <3>1, <3>2
  <2>7. CoversAreNew'
    BY <1>3, <2>2 DEF CoversAreNew, Up
  <2> QED BY <2>2, <2>5, <2>6, <2>7
<1> QED BY <1>1, <1>5, <1>6, <1>7 DEF SchedulerInv

LEMMA FireFailsHolds ==
  ASSUME SchedulerInv, NEW p \in Procs, FireFails(p)
  PROVE  SchedulerInv'
<1>1. Typed /\ Typed'
  BY FireFailsType DEF SchedulerInv
<1>2. /\ Others(p) /\ Up(p) /\ proc[p].at = "create" /\ UNCHANGED <<scene, now>>
      /\ seen'.first = seen.first /\ seen'.fires = seen.fires /\ seen'.both = seen.both
      /\ \A f \in Plans :
           seen'.lost[f] = IF f = proc[p].plan THEN seen.lost[f] \cup proc[p].covers ELSE seen.lost[f]
  BY <1>1, FireFailsType
<1>e. proc'[p] = [proc[p] EXCEPT !.at = "sweep"]
  BY <1>1, FireFailsType
<1>3. proc'[p].pc = "up" /\ proc'[p].at = "sweep" /\ proc'[p].since = proc[p].since
  BY <1>1, <1>2, <1>e DEF Typed, Proc, Up
<1>4. ClockInv' /\ FirstInv'
  BY <1>2, <1>3 DEF SchedulerInv, ClockInv, FirstInv, Others, Ticking, Up
<1>5. NoSlotSlips'
  <2> SUFFICES ASSUME NEW q \in Procs, NEW g \in Plans, NEW s \in scene.slots[g],
                      proc'[q].pc = "up", seen.first[q][g] # Never,
                      seen.first[q][g] < s, s <= proc'[q].since[g]
               PROVE  \/ seen.fires[g][s] > 0 \/ s \in seen'.lost[g]
                      \/ proc'[q].at = "create" /\ proc'[q].plan = g /\ s \in proc'[q].covers
    BY <1>2 DEF NoSlotSlips, Up
  <2>1. \/ seen.fires[g][s] > 0 \/ s \in seen.lost[g]
        \/ proc[q].at = "create" /\ proc[q].plan = g /\ s \in proc[q].covers
    BY <1>2, <1>3 DEF SchedulerInv, NoSlotSlips, Others, Up
  <2>2. CASE q # p
    BY <1>2, <2>1, <2>2 DEF Others
  <2>3. CASE q = p
    BY <1>2, <2>1, <2>3
  <2> QED BY <2>2, <2>3
<1>6. FireInv'
  BY <1>2, <1>3 DEF SchedulerInv, FireInv, OneProcess, FiredOnce, FiredIsPast, CoversAreNew, Others, Up, Ticking
<1> QED BY <1>1, <1>4, <1>5, <1>6 DEF SchedulerInv

LEMMA NextHolds == SchedulerInv /\ [Next]_vars => SchedulerInv'
<1> SUFFICES ASSUME SchedulerInv, [Next]_vars PROVE SchedulerInv'
  OBVIOUS
<1>1. CASE ClockTicks
  BY <1>1, ClockHolds
<1>2. ASSUME NEW p \in Procs, ProcStep(p) PROVE SchedulerInv'
  <2>1. CASE Starts(p)
    BY <2>1, StartsHolds
  <2>2. CASE Ends(p)
    BY <2>2, EndsHolds
  <2>3. CASE \/ TickStarts(p) \/ TickFails(p) \/ LookRaises(p)
             \/ FireIsLogged(p) \/ TickEnds(p) \/ Sweeps(p)
    BY <2>3, MovesHold
  <2>4. ASSUME NEW f \in Plans, Looks(p, f) PROVE SchedulerInv'
    BY <2>4, LooksHolds
  <2>5. CASE Fires(p)
    BY <2>5, FiresHolds
  <2>6. CASE FireFails(p)
    BY <2>6, FireFailsHolds
  <2>7. CASE \E kind \in Kinds : Triggered(p, kind) \/ RunsDirectly(p, kind)
    BY <2>7, RunsHold DEF Triggered, RunsDirectly
  <2>8. CASE \E r \in DOMAIN runs : RunStep(r, p)
    BY <2>8, RunsHold DEF RunStep, TriggerIsLogged, BackgroundStarts, BackgroundEnds,
         BackgroundRaises, BackgroundRecords, Parks, DirectWorks, DirectEnds
  <2> QED BY <1>2, <2>1, <2>2, <2>3, <2>4, <2>5, <2>6, <2>7, <2>8 DEF ProcStep, SchedulerStep
<1>3. CASE \E r \in DOMAIN runs : Aborts(r)
  BY <1>3, RunsHold DEF Aborts
<1>4. CASE UNCHANGED vars
  BY <1>4, RunsHold DEF vars
<1> QED BY <1>1, <1>2, <1>3, <1>4 DEF Next

---------------------------------------------------------------------------
(* The theorems.                                                            *)

LEMMA Invariance == Spec => []SchedulerInv
  BY InitHolds, NextHolds, PTL DEF Spec

\* However often a process ends and starts again, a statement fails or a tick is given
\* up, no slot of a schedule starts two runs, as long as there is one process at a time
\* (scheduler.py: last_checked starts empty and is set to the now of the tick).
THEOREM NoSlotFiresTwice == Spec => []SlotFiresOnce
<1>1. SchedulerInv => SlotFiresOnce
  BY DEF SchedulerInv, FireInv, FiredOnce, SlotFiresOnce
<1> QED BY <1>1, Invariance, PTL

\* Between two looks at a plan no slot is passed over without a run or a refused
\* statement, also with several processes (_tick: next_fire is after the last look).
THEOREM SlotsAreSeen == Spec => []NoSlotSlips
<1>1. SchedulerInv => NoSlotSlips
  BY DEF SchedulerInv
<1> QED BY <1>1, Invariance, PTL

---------------------------------------------------------------------------
(* The rows of table runs.                                                  *)

Rows == runs \in Seq(Run) /\ left \in [Events -> Nat]

\* Row r is rewritten as x.
Rewrites(r, x) == runs' = [runs EXCEPT ![r] = x]

LEMMA OneRow ==
  ASSUME Rows, NEW r \in DOMAIN runs, NEW x \in Run, Rewrites(r, x)
  PROVE  /\ runs' \in Seq(Run) /\ DOMAIN runs' = DOMAIN runs
         /\ runs'[r] = x /\ \A q \in DOMAIN runs : q # r => runs'[q] = runs[q]
BY DEF Rows, Rewrites

LEMMA EachRow ==
  ASSUME Rows, runs' \in [DOMAIN runs -> Run]
  PROVE  runs' \in Seq(Run) /\ DOMAIN runs' = DOMAIN runs
<1>1. DOMAIN runs = 1..Len(runs) /\ Len(runs) \in Nat
  BY DEF Rows
<1> QED BY <1>1 DEF Rows

LEMMA OneMore ==
  ASSUME Rows, NEW x \in Run, runs' = Append(runs, x)
  PROVE  /\ runs' \in Seq(Run) /\ DOMAIN runs = 1..Len(runs) /\ Len(runs) \in Nat
         /\ DOMAIN runs' = 1..Len(runs) + 1 /\ runs'[Len(runs) + 1] = x
         /\ \A r \in DOMAIN runs : runs'[r] = runs[r]
BY DEF Rows

LEMMA RowType ==
  ASSUME Rows, NEW r \in DOMAIN runs
  PROVE  runs[r] \in Run /\ \A s \in Statuses, at \in {"none", "audit", "mark", "work", "record", "park", "finish"} :
            /\ [runs[r] EXCEPT !.status = s] \in Run
            /\ [runs[r] EXCEPT !.at = at] \in Run
            /\ [runs[r] EXCEPT !.status = s, !.at = at] \in Run
<1>1. runs[r] \in Run
  BY DEF Rows
<1> QED BY <1>1 DEF Run

LEMMA BudgetTypes == ASSUME Typed PROVE scene.budget \in [Events -> Nat]
BY ServiceAssumption DEF Typed

Trouble == {"crash", "rollout", "statement", "raise"}
Budgeted == \A e \in Events : left[e] <= scene.budget[e]
Untroubled == \A e \in Trouble : left[e] = scene.budget[e]

LEMMA UseType ==
  ASSUME Typed, Rows, Budgeted, NEW e \in Events, Use(e), scene' = scene
  PROVE  /\ left' \in [Events -> Nat] /\ Budgeted'
         /\ Untroubled' => Untroubled /\ e \notin Trouble
<1>1. /\ left \in [Events -> Nat] /\ left[e] > 0 /\ left' = [left EXCEPT ![e] = left[e] - 1]
      /\ scene.budget \in [Events -> Nat]
  BY BudgetTypes DEF Rows, Use
<1>2. /\ left' \in [Events -> Nat]
      /\ \A f \in Events : left'[f] = IF f = e THEN left[f] - 1 ELSE left[f]
      /\ \A f \in Events : left[f] \in Nat /\ scene.budget[f] \in Nat /\ left[f] <= scene.budget[f]
  BY <1>1 DEF Budgeted
<1>3. Budgeted'
  BY <1>1, <1>2 DEF Budgeted
<1>4. Trouble \subseteq Events
  BY DEF Trouble, Events
<1>5. ASSUME Untroubled' PROVE Untroubled /\ e \notin Trouble
  <2>1. \A f \in Trouble : left'[f] = scene.budget[f]
    BY <1>5 DEF Untroubled
  <2>2. e \notin Trouble
    BY <1>2, <1>4, <2>1
  <2> QED BY <1>2, <1>4, <2>1, <2>2 DEF Untroubled
<1> QED BY <1>2, <1>3, <1>5

LEMMA SpareType ==
  ASSUME Rows, Budgeted, UNCHANGED <<scene, left>>
  PROVE  left' \in [Events -> Nat] /\ Budgeted' /\ (Untroubled' => Untroubled)
BY DEF Rows, Budgeted, Untroubled

---------------------------------------------------------------------------
(* What strands no run: one process at a time, and a tick that fires.       *)

\* r is the latest run that p's scheduler has created.
Last(p, r) ==
  /\ runs[r].kind = "cron" /\ runs[r].of = p
  /\ \A q \in DOMAIN runs : runs[q].kind = "cron" /\ runs[q].of = p => q <= r

OnePod == \A p, q \in Procs : proc[p].pc # "absent" /\ proc[q].pc # "absent" => p = q
Asleep == \A p \in Procs : ~Up(p) => proc[p].at = "asleep"
Held == \A r \in DOMAIN runs : runs[r].status = "queued" =>
          \/ runs[r].at # "none"
          \/ \E p \in Procs : proc[p].at = "audit" /\ Last(p, r)

StrandInv == Budgeted /\ Asleep /\ (Untroubled => OnePod /\ Held)

RowInv == SchedulerInv /\ Rows /\ StrandInv

\* The latest run is the one that Fired chooses.
LEMMA FiredIsLast ==
  ASSUME Rows, NEW p \in Procs, NEW r \in DOMAIN runs, Last(p, r)
  PROVE  Fired(p) = r
<1> DEFINE Is(x) == /\ runs[x].kind = "cron" /\ runs[x].of = p
                    /\ \A q \in DOMAIN runs : runs[q].kind = "cron" /\ runs[q].of = p => q <= x
<1>1. Is(r)
  BY DEF Last
<1>2. Fired(p) = CHOOSE x \in DOMAIN runs : Is(x)
  BY DEF Fired
<1>3. Fired(p) \in DOMAIN runs /\ Is(Fired(p))
  <2> HIDE DEF Is
  <2> QED BY <1>1, <1>2
<1>4. Fired(p) <= r /\ r <= Fired(p)
  BY <1>1, <1>3
<1>5. DOMAIN runs \subseteq Int
  BY DEF Rows
<1> QED BY <1>3, <1>4, <1>5

\* No scheduler leaves the place where it holds a run.
Holding == \A q \in Procs : proc[q].at = "audit" => proc'[q].at = "audit"

\* Rows are rewritten, and those that stay queued keep their coroutine.
LEMMA HeldStays ==
  ASSUME Held, Holding, DOMAIN runs' = DOMAIN runs,
         \A r \in DOMAIN runs :
           /\ runs'[r].kind = runs[r].kind /\ runs'[r].of = runs[r].of
           /\ runs'[r].status = "queued" =>
                runs[r].status = "queued" /\ (runs[r].at # "none" => runs'[r].at # "none")
  PROVE  Held'
<1>1. \A p \in Procs, r \in DOMAIN runs : Last(p, r) => Last(p, r)'
  BY DEF Last
<1> SUFFICES ASSUME NEW r \in DOMAIN runs, runs'[r].status = "queued", runs'[r].at = "none"
             PROVE  \E p \in Procs : proc'[p].at = "audit" /\ Last(p, r)'
  BY DEF Held
<1>2. PICK p \in Procs : proc[p].at = "audit" /\ Last(p, r)
  BY DEF Held
<1> QED BY <1>1, <1>2 DEF Holding

\* A request's run comes with its coroutine.
LEMMA HeldGrows ==
  ASSUME Rows, Held, Holding, NEW x \in Run, runs' = Append(runs, x), x.kind # "cron", x.at # "none"
  PROVE  Held'
<1>1. /\ DOMAIN runs = 1..Len(runs) /\ Len(runs) \in Nat
      /\ DOMAIN runs' = 1..Len(runs) + 1 /\ runs'[Len(runs) + 1] = x
      /\ \A r \in DOMAIN runs : runs'[r] = runs[r]
  BY OneMore
<1>2. \A r \in DOMAIN runs' : r = Len(runs) + 1 \/ r \in DOMAIN runs
  BY <1>1
<1>3. \A p \in Procs, r \in DOMAIN runs : Last(p, r) => Last(p, r)'
  BY <1>1, <1>2 DEF Last
<1> SUFFICES ASSUME NEW r \in DOMAIN runs', runs'[r].status = "queued", runs'[r].at = "none"
             PROVE  \E p \in Procs : proc'[p].at = "audit" /\ Last(p, r)'
  BY DEF Held
<1>4. r \in DOMAIN runs /\ runs'[r] = runs[r]
  BY <1>1, <1>2
<1>5. PICK p \in Procs : proc[p].at = "audit" /\ Last(p, r)
  BY <1>4 DEF Held
<1> QED BY <1>3, <1>4, <1>5 DEF Holding

\* Only the process that fires is there, and it held nothing: what it creates is its
\* latest run.
LEMMA HeldFires ==
  ASSUME Rows, Held, NEW p \in Procs, NEW x \in Run, runs' = Append(runs, x), x.kind = "cron", x.of = p,
         \A q \in Procs : proc[q].at # "audit", proc'[p].at = "audit"
  PROVE  Held'
<1>0. PICK n \in Nat : n = Len(runs) + 1
  BY DEF Rows
<1>1. /\ DOMAIN runs' = 1..n /\ runs'[n] = x
      /\ DOMAIN runs = 1..Len(runs) /\ Len(runs) \in Nat
      /\ \A r \in DOMAIN runs : runs'[r] = runs[r]
  BY <1>0, OneMore
<1>2. \A r \in DOMAIN runs' : r <= n /\ (r = n \/ r \in DOMAIN runs)
  BY <1>0, <1>1
<1>3. Last(p, n)'
  BY <1>1, <1>2 DEF Last
<1> SUFFICES ASSUME NEW r \in DOMAIN runs', runs'[r].status = "queued", runs'[r].at = "none"
             PROVE  \E q \in Procs : proc'[q].at = "audit" /\ Last(q, r)'
  BY DEF Held
<1>4. CASE r = n
  BY <1>3, <1>4
<1>5. CASE r \in DOMAIN runs
  BY <1>1, <1>5 DEF Held
<1> QED BY <1>2, <1>4, <1>5

---------------------------------------------------------------------------
(* Each step keeps it.                                                      *)

Spots == {"none", "audit", "mark", "work", "record", "park", "finish"}

\* One row is rewritten, whatever its coroutine does.
LEMMA RewriteHolds ==
  ASSUME RowInv, UNCHANGED <<scene, proc>>, left' \in [Events -> Nat], Budgeted',
         NEW r \in DOMAIN runs, NEW status \in Statuses, NEW at \in Spots,
         Rewrites(r, [runs[r] EXCEPT !.status = status, !.at = at]),
         Untroubled' => Untroubled /\ (status = "queued" => runs[r].status = "queued" /\ at # "none")
  PROVE  Rows' /\ StrandInv'
<1> DEFINE x == [runs[r] EXCEPT !.status = status, !.at = at]
<1>1. runs[r] \in Run /\ x \in Run
  BY RowType DEF RowInv, Spots
<1>2. x.kind = runs[r].kind /\ x.of = runs[r].of /\ x.status = status /\ x.at = at
  BY <1>1 DEF Run
<1> HIDE DEF x
<1>3. /\ runs' \in Seq(Run) /\ DOMAIN runs' = DOMAIN runs
      /\ runs'[r] = x /\ \A q \in DOMAIN runs : q # r => runs'[q] = runs[q]
  <2>1. Rewrites(r, x)
    BY DEF x
  <2> QED BY <1>1, <2>1, OneRow DEF RowInv
<1>4. Rows'
  BY <1>3 DEF Rows
<1>5. Asleep'
  BY DEF RowInv, StrandInv, Asleep, Up
<1>6. ASSUME Untroubled' PROVE OnePod' /\ Held'
  <2>1. OnePod /\ Held /\ (status = "queued" => runs[r].status = "queued" /\ at # "none")
    BY <1>6 DEF RowInv, StrandInv
  <2>2. Holding
    BY DEF Holding
  <2>3. \A q \in DOMAIN runs :
          /\ runs'[q].kind = runs[q].kind /\ runs'[q].of = runs[q].of
          /\ runs'[q].status = "queued" =>
               runs[q].status = "queued" /\ (runs[q].at # "none" => runs'[q].at # "none")
    BY <1>2, <1>3, <2>1
  <2>4. Held'
    BY <1>3, <2>1, <2>2, <2>3, HeldStays
  <2>5. OnePod'
    BY <2>1 DEF OnePod
  <2> QED BY <2>4, <2>5
<1> QED BY <1>4, <1>5, <1>6 DEF StrandInv

\* A coroutine with run r performs its next statement.
LEMMA RunStepHolds ==
  ASSUME RowInv, NEW p \in Procs, NEW r \in DOMAIN runs, RunStep(r, p)
  PROVE  Rows' /\ StrandInv'
<1> DEFINE To(status, at) == [runs[r] EXCEPT !.status = status, !.at = at]
<1>1. Typed /\ Rows /\ Budgeted /\ runs[r] \in Run /\ runs[r].status \in Statuses
  <2>1. Typed /\ Rows /\ Budgeted
    BY DEF RowInv, SchedulerInv, StrandInv
  <2>2. runs[r] \in Run
    BY <2>1, RowType
  <2> QED BY <2>1, <2>2 DEF Run
<1>2. UNCHANGED <<scene, proc>>
  BY DEF RunStep, TriggerIsLogged, BackgroundStarts, BackgroundEnds,
         BackgroundRaises, BackgroundRecords, Parks, DirectWorks, DirectEnds
<1>3. \A at \in Spots : [runs[r] EXCEPT !.at = at] = To(runs[r].status, at)
  BY <1>1 DEF Run
<1>4. "statement" \in Events /\ "raise" \in Events /\ "statement" \in Trouble /\ "raise" \in Trouble
  BY DEF Events, Trouble
<1>5. ASSUME left' = left PROVE left' \in [Events -> Nat] /\ Budgeted' /\ (Untroubled' => Untroubled)
  BY <1>1, <1>2, <1>5, SpareType
<1>6. ASSUME NEW e \in {"statement", "raise"}, Use(e)
      PROVE  left' \in [Events -> Nat] /\ Budgeted' /\ ~Untroubled'
  BY <1>1, <1>2, <1>4, <1>6, UseType
\* A statement that is refused, or an agent that raises: the row stays as it is.
<1>7. ASSUME NEW at \in Spots, runs' = [runs EXCEPT ![r].at = at],
             NEW e \in {"statement", "raise"}, Use(e)
      PROVE  Rows' /\ StrandInv'
  <2>1. Rewrites(r, To(runs[r].status, at))
    BY <1>1, <1>3, <1>7 DEF Rewrites
  <2> QED BY <1>1, <1>2, <1>6, <1>7, <2>1, RewriteHolds
\* The coroutine goes on with the row as it is.
<1>8. ASSUME NEW at \in Spots \ {"none"}, runs' = [runs EXCEPT ![r].at = at], UNCHANGED left
      PROVE  Rows' /\ StrandInv'
  <2>1. Rewrites(r, To(runs[r].status, at))
    BY <1>1, <1>3, <1>8 DEF Rewrites
  <2> QED BY <1>1, <1>2, <1>5, <1>8, <2>1, RewriteHolds
\* It ends the run, or parks it.
<1>9. ASSUME NEW status \in Statuses \ {"queued"}, UNCHANGED left,
             runs' = [runs EXCEPT ![r].status = status, ![r].at = "none"]
      PROVE  Rows' /\ StrandInv'
  <2>1. Rewrites(r, To(status, "none")) /\ "none" \in Spots
    BY <1>1, <1>9 DEF Rewrites, Spots
  <2> QED BY <1>1, <1>2, <1>5, <1>9, <2>1, RewriteHolds
<1>10. /\ "none" \in Spots /\ {"mark", "finish", "record"} \subseteq Spots \ {"none"}
       /\ {"ended", "awaiting_approval", "awaiting_user_input", "aborted"} \subseteq Statuses \ {"queued"}
  BY DEF Spots, Statuses, Settled
<1>11. CASE TriggerIsLogged(r, p)
  <2>1. CASE runs' = [runs EXCEPT ![r].at = "mark"] /\ UNCHANGED left
    BY <1>8, <1>10, <2>1
  <2>2. CASE runs' = [runs EXCEPT ![r].at = "none"] /\ Use("statement")
    BY <1>7, <1>10, <2>2
  <2> QED BY <1>11, <2>1, <2>2 DEF TriggerIsLogged
<1>12. CASE BackgroundStarts(r, p)
  <2>1. Marked(runs[r].status) \in Statuses \ {"queued"} /\ "work" \in Spots
    BY <1>1 DEF Marked, Statuses, Settled, Spots
  <2>2. Rewrites(r, To(Marked(runs[r].status), "work")) /\ left' = left
    BY <1>1, <1>12 DEF BackgroundStarts, Rewrites
  <2> QED BY <1>1, <1>2, <1>5, <2>1, <2>2, RewriteHolds
<1>13. CASE BackgroundEnds(r, p)
  <2>1. PICK status \in {"ended", "awaiting_approval", "aborted"} :
          runs' = [runs EXCEPT ![r].status = status, ![r].at = "none"]
    BY <1>13 DEF BackgroundEnds
  <2>2. UNCHANGED left
    BY <1>13 DEF BackgroundEnds
  <2> QED BY <1>9, <1>10, <2>1, <2>2
<1>14. CASE BackgroundRaises(r, p)
  <2>1. runs' = [runs EXCEPT ![r].at = "record"]
    BY <1>14 DEF BackgroundRaises
  <2>2. PICK e \in {"statement", "raise"} : Use(e)
    BY <1>14 DEF BackgroundRaises
  <2> QED BY <1>7, <1>10, <2>1, <2>2
<1>15. CASE BackgroundRecords(r, p)
  <2>1. CASE runs' = [runs EXCEPT ![r].status = "ended", ![r].at = "none"] /\ UNCHANGED left
    BY <1>9, <1>10, <2>1
  <2>2. CASE runs' = [runs EXCEPT ![r].at = "none"] /\ Use("statement")
    BY <1>7, <1>10, <2>2
  <2> QED BY <1>15, <2>1, <2>2 DEF BackgroundRecords
<1>16. CASE Parks(r, p)
  <2>1. CASE runs' = [runs EXCEPT ![r].status = "awaiting_approval", ![r].at = "none"] /\ UNCHANGED left
    BY <1>9, <1>10, <2>1
  <2>2. CASE runs' = [runs EXCEPT ![r].at = "none"] /\ Use("statement")
    BY <1>7, <1>10, <2>2
  <2> QED BY <1>16, <2>1, <2>2 DEF Parks
<1>17. CASE DirectWorks(r, p)
  <2>1. CASE runs' = [runs EXCEPT ![r].at = "finish"] /\ UNCHANGED left
    BY <1>8, <1>10, <2>1
  <2>2. CASE runs' = [runs EXCEPT ![r].at = "none"] /\ (Use("raise") \/ Use("statement"))
    BY <1>7, <1>10, <2>2
  <2> QED BY <1>17, <2>1, <2>2 DEF DirectWorks
<1>18. CASE DirectEnds(r, p)
  <2>1. CASE /\ \E status \in {"ended", "awaiting_user_input"} :
                  runs' = [runs EXCEPT ![r].status = status, ![r].at = "none"]
             /\ UNCHANGED left
    BY <1>9, <1>10, <2>1
  <2>2. CASE runs' = [runs EXCEPT ![r].at = "none"] /\ Use("statement")
    BY <1>7, <1>10, <2>2
  <2> QED BY <1>18, <2>1, <2>2 DEF DirectEnds
<1> QED BY <1>11, <1>12, <1>13, <1>14, <1>15, <1>16, <1>17, <1>18 DEF RunStep

LEMMA AbortsHolds ==
  ASSUME RowInv, NEW r \in DOMAIN runs, Aborts(r)
  PROVE  Rows' /\ StrandInv'
<1>1. Typed /\ Rows /\ Budgeted /\ runs[r] \in Run /\ runs[r].at \in Spots
  <2>1. Typed /\ Rows /\ Budgeted
    BY DEF RowInv, SchedulerInv, StrandInv
  <2>2. runs[r] \in Run
    BY <2>1, RowType
  <2> QED BY <2>1, <2>2 DEF Run, Spots
<1>2. Rewrites(r, [runs[r] EXCEPT !.status = "aborted", !.at = runs[r].at])
  BY <1>1 DEF Aborts, Rewrites, Run
<1>3. UNCHANGED <<scene, proc>> /\ Use("abort") /\ "abort" \in Events /\ "aborted" \in Statuses
  BY DEF Aborts, Events, Statuses, Settled
<1>4. left' \in [Events -> Nat] /\ Budgeted' /\ (Untroubled' => Untroubled)
  BY <1>1, <1>3, UseType
<1> QED BY <1>1, <1>2, <1>3, <1>4, RewriteHolds

\* A request creates its run.
LEMMA RequestHolds ==
  ASSUME RowInv, NEW p \in Procs, NEW kind \in Kinds, Triggered(p, kind) \/ RunsDirectly(p, kind)
  PROVE  Rows' /\ StrandInv'
<1>1. Typed /\ Rows /\ Budgeted
  BY DEF RowInv, SchedulerInv, StrandInv
<1>2. UNCHANGED <<scene, proc>> /\ Use(kind) /\ kind \in Events /\ kind # "cron"
  BY DEF Triggered, RunsDirectly, Events
<1>3. PICK at \in {"audit", "work", "park"} : runs' = Created(kind, p, at)
  BY DEF Triggered, RunsDirectly, FirstStatement
<1> DEFINE x == [kind |-> kind, status |-> "queued", at |-> at, of |-> p]
<1>4. x \in Run /\ x.kind # "cron" /\ x.at # "none"
  BY <1>2 DEF Run, Statuses
<1>5. runs' = Append(runs, x)
  BY <1>3 DEF Created
<1> HIDE DEF x
<1>6. left' \in [Events -> Nat] /\ Budgeted' /\ (Untroubled' => Untroubled)
  BY <1>1, <1>2, UseType
<1>7. Rows'
  BY <1>1, <1>4, <1>5, <1>6, OneMore DEF Rows
<1>8. Asleep'
  BY <1>2 DEF RowInv, StrandInv, Asleep, Up
<1>9. ASSUME Untroubled' PROVE OnePod' /\ Held'
  <2>1. OnePod /\ Held
    BY <1>6, <1>9 DEF RowInv, StrandInv
  <2>2. Holding
    BY <1>2 DEF Holding
  <2>3. Held'
    BY <1>1, <1>4, <1>5, <2>1, <2>2, HeldGrows
  <2>4. OnePod'
    BY <1>2, <2>1 DEF OnePod
  <2> QED BY <2>3, <2>4
<1> QED BY <1>6, <1>7, <1>8, <1>9 DEF StrandInv

\* Steps of the scheduler that leave the rows as they are.
LEMMA QuietHolds ==
  ASSUME RowInv, NEW p \in Procs, Typed', Others(p), Up(p), proc'[p].pc = "up", proc[p].at # "audit",
         UNCHANGED <<scene, runs>>, left' \in [Events -> Nat], Budgeted', Untroubled' => Untroubled
  PROVE  Rows' /\ StrandInv'
<1>1. Rows' /\ \A q \in Procs : q # p => proc'[q] = proc[q]
  BY DEF RowInv, Rows, Others
<1>2. Asleep'
  BY <1>1 DEF RowInv, StrandInv, Asleep, Up
<1>3. ASSUME Untroubled' PROVE OnePod' /\ Held'
  <2>1. OnePod /\ Held
    BY <1>3 DEF RowInv, StrandInv
  <2>2. Holding
    BY <1>1 DEF Holding
  <2>3. Held'
    BY <2>1, <2>2, HeldStays
  <2>4. OnePod'
    BY <1>1, <2>1 DEF OnePod, Up
  <2> QED BY <2>3, <2>4
<1> QED BY <1>1, <1>2, <1>3 DEF StrandInv

\* The sweep aborts old runs that wait for the user; no queued one.
LEMMA SweepsHolds ==
  ASSUME RowInv, NEW p \in Procs, Sweeps(p)
  PROVE  Rows' /\ StrandInv'
<1>1. Typed /\ Rows /\ Budgeted
  BY DEF RowInv, SchedulerInv, StrandInv
<1>2. /\ Typed' /\ Others(p) /\ Up(p) /\ proc'[p].pc = "up" /\ proc[p].at = "sweep"
      /\ UNCHANGED <<scene, left>>
  BY <1>1, MovesType DEF Sweeps
<1>3. PICK old \in SUBSET {r \in DOMAIN runs : runs[r].status = "awaiting_user_input"} :
        runs' = [r \in DOMAIN runs |-> IF r \in old THEN [runs[r] EXCEPT !.status = "aborted"] ELSE runs[r]]
  BY DEF Sweeps
<1>4. ASSUME NEW r \in DOMAIN runs
      PROVE  /\ runs'[r] \in Run /\ runs'[r].kind = runs[r].kind /\ runs'[r].of = runs[r].of
             /\ runs'[r].status = "queued" => runs'[r] = runs[r]
  <2>1. runs[r] \in Run
    BY <1>1, RowType
  <2>2. CASE r \in old
    <3> DEFINE x == [runs[r] EXCEPT !.status = "aborted"]
    <3>1. x \in Run /\ x.kind = runs[r].kind /\ x.of = runs[r].of /\ x.status = "aborted"
      BY <2>1 DEF Run, Statuses, Settled
    <3>2. runs'[r] = x
      BY <1>3, <2>2
    <3> HIDE DEF x
    <3> QED BY <3>1, <3>2
  <2>3. CASE r \notin old
    BY <1>3, <2>1, <2>3
  <2> QED BY <2>2, <2>3
<1>5. runs' \in [DOMAIN runs -> Run]
  BY <1>3, <1>4
<1>6. runs' \in Seq(Run) /\ DOMAIN runs' = DOMAIN runs
  BY <1>1, <1>5, EachRow
<1>7. left' \in [Events -> Nat] /\ Budgeted' /\ (Untroubled' => Untroubled)
  BY <1>1, <1>2, SpareType
<1>8. \A q \in Procs : q # p => proc'[q] = proc[q]
  BY <1>2 DEF Others
<1>9. Asleep'
  BY <1>2, <1>8 DEF RowInv, StrandInv, Asleep, Up
<1>10. ASSUME Untroubled' PROVE OnePod' /\ Held'
  <2>1. OnePod /\ Held
    BY <1>7, <1>10 DEF RowInv, StrandInv
  <2>2. Holding
    BY <1>2, <1>8 DEF Holding
  <2>3. \A r \in DOMAIN runs :
          /\ runs'[r].kind = runs[r].kind /\ runs'[r].of = runs[r].of
          /\ runs'[r].status = "queued" =>
               runs[r].status = "queued" /\ (runs[r].at # "none" => runs'[r].at # "none")
    BY <1>4
  <2>4. Held'
    BY <1>6, <2>1, <2>2, <2>3, HeldStays
  <2>5. OnePod'
    BY <1>2, <1>8, <2>1 DEF OnePod, Up
  <2> QED BY <2>4, <2>5
<1> QED BY <1>6, <1>7, <1>9, <1>10 DEF Rows, StrandInv

\* The tick's coroutine is created: the run it created has one.
LEMMA FireIsLoggedHolds ==
  ASSUME RowInv, NEW p \in Procs, FireIsLogged(p)
  PROVE  Rows' /\ StrandInv'
<1>1. Typed /\ Rows /\ Budgeted
  BY DEF RowInv, SchedulerInv, StrandInv
<1>2. /\ Typed' /\ Others(p) /\ Up(p) /\ proc'[p].pc = "up" /\ proc[p].at = "audit" /\ scene' = scene
  BY <1>1, MovesType DEF FireIsLogged
<1>3. /\ \A q \in Procs : q # p => proc'[q] = proc[q]
      /\ "statement" \in Events /\ "statement" \in Trouble
  BY <1>2 DEF Others, Events, Trouble
<1>4. Asleep'
  BY <1>2, <1>3 DEF RowInv, StrandInv, Asleep, Up
<1>5. CASE runs' = [runs EXCEPT ![Fired(p)].at = "mark"] /\ UNCHANGED left
  <2> DEFINE f == Fired(p)
  <2>1. left' \in [Events -> Nat] /\ Budgeted' /\ (Untroubled' => Untroubled)
    BY <1>1, <1>2, <1>5, SpareType
  <2>2. \A r \in DOMAIN runs : Last(p, r) => f = r
    BY <1>1, FiredIsLast
  <2> HIDE DEF f
  <2>3. DOMAIN runs' = DOMAIN runs /\ \A r \in DOMAIN runs : r # f => runs'[r] = runs[r]
    BY <1>5 DEF f
  <2>4. ASSUME f \in DOMAIN runs
        PROVE  /\ runs'[f] \in Run /\ runs'[f].kind = runs[f].kind /\ runs'[f].of = runs[f].of
               /\ runs'[f].status = runs[f].status /\ runs'[f].at = "mark"
    <3> DEFINE x == [runs[f] EXCEPT !.at = "mark"]
    <3>1. runs[f] \in Run
      BY <1>1, <2>4, RowType
    <3>2. x \in Run /\ x.kind = runs[f].kind /\ x.of = runs[f].of /\ x.status = runs[f].status /\ x.at = "mark"
      BY <3>1 DEF Run
    <3>3. runs'[f] = x
      BY <1>5, <2>4 DEF f
    <3> HIDE DEF x
    <3> QED BY <3>2, <3>3
  <2>5. \A r \in DOMAIN runs : runs'[r] \in Run
    BY <1>1, <2>3, <2>4, RowType
  <2>6. runs' \in [DOMAIN runs -> Run]
    <3>1. runs' = [r \in DOMAIN runs |-> runs'[r]]
      BY <1>5
    <3> QED BY <2>5, <3>1
  <2>7. Rows'
    BY <1>1, <2>1, <2>6, EachRow DEF Rows
  <2>8. ASSUME Untroubled' PROVE OnePod' /\ Held'
    <3>1. OnePod /\ Held
      BY <2>1, <2>8 DEF RowInv, StrandInv
    <3>2. \A q \in Procs : proc[q].at = "audit" => q = p
      BY <1>2, <3>1 DEF OnePod, RowInv, StrandInv, Asleep, Up
    <3>3. ASSUME NEW r \in DOMAIN runs, runs'[r].status = "queued" PROVE runs'[r].at # "none"
      <4>1. CASE r = f
        BY <2>4, <4>1
      <4>2. CASE r # f
        BY <2>2, <2>3, <3>1, <3>2, <3>3, <4>2 DEF Held
      <4> QED BY <4>1, <4>2
    <3>4. Held'
      BY <2>3, <3>3 DEF Held
    <3>5. OnePod'
      BY <1>2, <1>3, <3>1 DEF OnePod, Up
    <3> QED BY <3>4, <3>5
  <2> QED BY <1>4, <2>1, <2>7, <2>8 DEF StrandInv
<1>6. CASE Use("statement") /\ UNCHANGED runs
  <2>1. left' \in [Events -> Nat] /\ Budgeted' /\ ~Untroubled'
    BY <1>1, <1>2, <1>3, <1>6, UseType
  <2> QED BY <1>1, <1>4, <1>6, <2>1 DEF Rows, StrandInv
<1> QED BY <1>5, <1>6 DEF FireIsLogged

\* The tick creates its run.
LEMMA FiresHoldsRows ==
  ASSUME RowInv, NEW p \in Procs, Fires(p)
  PROVE  Rows' /\ StrandInv'
<1>1. Typed /\ Rows /\ Budgeted
  BY DEF RowInv, SchedulerInv, StrandInv
<1>2. /\ Others(p) /\ Up(p) /\ proc[p].at = "create" /\ scene' = scene
      /\ proc'[p] = [proc[p] EXCEPT !.at = "audit"]
  BY <1>1, FiresType
<1>3. /\ \A q \in Procs : q # p => proc'[q] = proc[q]
      /\ proc'[p].pc = "up" /\ proc'[p].at = "audit"
  BY <1>1, <1>2 DEF Others, Typed, Proc, Up
<1> DEFINE x == [kind |-> "cron", status |-> "queued", at |-> "none", of |-> p]
<1>4. x \in Run /\ x.kind = "cron" /\ x.of = p
  BY DEF Run, Statuses, Kinds
<1>5. runs' = Append(runs, x) /\ left' = left
  BY DEF Fires, Created
<1> HIDE DEF x
<1>6. left' \in [Events -> Nat] /\ Budgeted' /\ (Untroubled' => Untroubled)
  BY <1>1, <1>2, <1>5, SpareType
<1>7. Rows'
  BY <1>1, <1>4, <1>5, <1>6, OneMore DEF Rows
<1>8. Asleep'
  BY <1>3 DEF RowInv, StrandInv, Asleep, Up
<1>9. ASSUME Untroubled' PROVE OnePod' /\ Held'
  <2>1. OnePod /\ Held
    BY <1>6, <1>9 DEF RowInv, StrandInv
  <2>2. \A q \in Procs : proc[q].at # "audit"
    BY <1>2, <2>1 DEF OnePod, RowInv, StrandInv, Asleep, Up
  <2>3. Held'
    BY <1>1, <1>3, <1>4, <1>5, <2>1, <2>2, HeldFires
  <2>4. OnePod'
    BY <1>2, <1>3, <2>1 DEF OnePod, Up
  <2> QED BY <2>3, <2>4
<1> QED BY <1>6, <1>7, <1>8, <1>9 DEF StrandInv

\* A process that starts had no scheduler, and marks no queued run.
LEMMA StartsHoldsRows ==
  ASSUME RowInv, NEW p \in Procs, Starts(p)
  PROVE  Rows' /\ StrandInv'
<1>1. Typed /\ Rows /\ Budgeted
  BY DEF RowInv, SchedulerInv, StrandInv
<1>2. Others(p) /\ ~Up(p) /\ scene' = scene /\ proc'[p] = NewProc("up")
  BY <1>1, StartsType
<1>3. \A q \in Procs : q # p => proc'[q] = proc[q]
  BY <1>2 DEF Others
<1>4. proc'[p].pc = "up" /\ proc'[p].at = "asleep" /\ proc[p].at = "asleep"
  BY <1>2, NewProcType DEF RowInv, StrandInv, Asleep
<1>5. runs' = [r \in DOMAIN runs |->
                IF Orphaned(runs[r].status) THEN [runs[r] EXCEPT !.status = "ended"] ELSE runs[r]]
  BY DEF Starts
<1>6. ASSUME NEW r \in DOMAIN runs
      PROVE  /\ runs'[r] \in Run /\ runs'[r].kind = runs[r].kind /\ runs'[r].of = runs[r].of
             /\ runs'[r].status = "queued" => runs'[r] = runs[r]
  <2>1. runs[r] \in Run
    BY <1>1, RowType
  <2>2. CASE Orphaned(runs[r].status)
    <3> DEFINE x == [runs[r] EXCEPT !.status = "ended"]
    <3>1. x \in Run /\ x.kind = runs[r].kind /\ x.of = runs[r].of /\ x.status = "ended"
      BY <2>1 DEF Run, Statuses, Settled
    <3>2. runs'[r] = x
      BY <1>5, <2>2
    <3> HIDE DEF x
    <3> QED BY <3>1, <3>2
  <2>3. CASE ~Orphaned(runs[r].status)
    BY <1>5, <2>1, <2>3
  <2> QED BY <2>2, <2>3
<1>7. runs' \in [DOMAIN runs -> Run]
  BY <1>5, <1>6
<1>8. runs' \in Seq(Run) /\ DOMAIN runs' = DOMAIN runs
  BY <1>1, <1>7, EachRow
<1>9. Asleep'
  BY <1>3, <1>4 DEF RowInv, StrandInv, Asleep, Up
<1>10. CASE proc[p].pc = "down" /\ UNCHANGED left
  <2>1. left' \in [Events -> Nat] /\ Budgeted' /\ (Untroubled' => Untroubled)
    BY <1>1, <1>2, <1>10, SpareType
  <2>2. ASSUME Untroubled' PROVE OnePod' /\ Held'
    <3>1. OnePod /\ Held
      BY <2>1, <2>2 DEF RowInv, StrandInv
    <3>2. Holding
      BY <1>3, <1>4 DEF Holding
    <3>3. \A r \in DOMAIN runs :
            /\ runs'[r].kind = runs[r].kind /\ runs'[r].of = runs[r].of
            /\ runs'[r].status = "queued" =>
                 runs[r].status = "queued" /\ (runs[r].at # "none" => runs'[r].at # "none")
      BY <1>6
    <3>4. Held'
      BY <1>8, <3>1, <3>2, <3>3, HeldStays
    <3>5. OnePod'
      BY <1>3, <1>10, <3>1 DEF OnePod
    <3> QED BY <3>4, <3>5
  <2> QED BY <1>8, <1>9, <2>1, <2>2 DEF Rows, StrandInv
<1>11. CASE Use("rollout")
  <2>1. "rollout" \in Events /\ "rollout" \in Trouble
    BY DEF Events, Trouble
  <2>2. left' \in [Events -> Nat] /\ Budgeted' /\ ~Untroubled'
    BY <1>1, <1>2, <1>11, <2>1, UseType
  <2> QED BY <1>8, <1>9, <2>2 DEF Rows, StrandInv
<1> QED BY <1>10, <1>11 DEF Starts

\* A process ends by a crash, or because another one is up.
LEMMA EndsHoldsRows ==
  ASSUME RowInv, NEW p \in Procs, Ends(p)
  PROVE  Rows' /\ StrandInv'
<1>1. Typed /\ Rows /\ Budgeted
  BY DEF RowInv, SchedulerInv, StrandInv
<1>2. Others(p) /\ Up(p) /\ scene' = scene /\ proc'[p].at = "asleep"
  BY <1>1, EndsType DEF Ends
<1>3. Asleep'
  BY <1>2 DEF RowInv, StrandInv, Asleep, Up, Others
<1>4. runs' = [r \in DOMAIN runs |-> IF runs[r].of = p THEN [runs[r] EXCEPT !.at = "none"] ELSE runs[r]]
  BY DEF Ends
<1>5. \A r \in DOMAIN runs : runs'[r] \in Run
  <2> SUFFICES ASSUME NEW r \in DOMAIN runs PROVE runs'[r] \in Run
    OBVIOUS
  <2>1. runs[r] \in Run
    BY <1>1, RowType
  <2>2. [runs[r] EXCEPT !.at = "none"] \in Run
    BY <2>1 DEF Run
  <2> QED BY <1>4, <2>1, <2>2
<1>6. runs' \in [DOMAIN runs -> Run]
  BY <1>4, <1>5
<1>7. runs' \in Seq(Run)
  BY <1>1, <1>6, EachRow
<1>8. CASE Use("crash")
  <2>1. "crash" \in Events /\ "crash" \in Trouble
    BY DEF Events, Trouble
  <2>2. left' \in [Events -> Nat] /\ Budgeted' /\ ~Untroubled'
    BY <1>1, <1>2, <1>8, <2>1, UseType
  <2> QED BY <1>3, <1>7, <2>2 DEF Rows, StrandInv
<1>9. CASE (\E q \in Procs \ {p} : Up(q)) /\ UNCHANGED left
  <2>1. left' \in [Events -> Nat] /\ Budgeted' /\ (Untroubled' => Untroubled)
    BY <1>1, <1>2, <1>9, SpareType
  <2>2. ~OnePod
    BY <1>2, <1>9 DEF OnePod, Up
  <2>3. ~Untroubled'
    BY <2>1, <2>2 DEF RowInv, StrandInv
  <2> QED BY <1>3, <1>7, <2>1, <2>3 DEF Rows, StrandInv
<1> QED BY <1>8, <1>9 DEF Ends

LEMMA RowNext == RowInv /\ [Next]_vars => RowInv'
<1> SUFFICES ASSUME RowInv, [Next]_vars PROVE RowInv'
  OBVIOUS
<1>1. Typed /\ Rows /\ Budgeted /\ SchedulerInv
  BY DEF RowInv, SchedulerInv, StrandInv
<1>2. SchedulerInv'
  BY <1>1, NextHolds
<1>3. Typed'
  BY <1>2 DEF SchedulerInv
<1>4. ASSUME UNCHANGED <<scene, left>>
      PROVE  left' \in [Events -> Nat] /\ Budgeted' /\ (Untroubled' => Untroubled)
  BY <1>1, <1>4, SpareType
<1>5. ASSUME Use("statement"), UNCHANGED scene
      PROVE  left' \in [Events -> Nat] /\ Budgeted' /\ (Untroubled' => Untroubled)
  <2>1. "statement" \in Events
    BY DEF Events
  <2> QED BY <1>1, <1>5, <2>1, UseType
<1>6. CASE UNCHANGED <<scene, proc, runs, left>>
  <2>1. Rows' /\ Budgeted' /\ Asleep' /\ (Untroubled' => Untroubled)
    BY <1>1, <1>4, <1>6 DEF Rows, RowInv, StrandInv, Asleep, Up
  <2>2. OnePod /\ Held => OnePod' /\ Held'
    <3>1. OnePod => OnePod'
      BY <1>6 DEF OnePod
    <3>2. Holding
      BY <1>6 DEF Holding
    <3>3. Held => Held'
      BY <1>6, <3>2, HeldStays
    <3> QED BY <3>1, <3>3
  <2> QED BY <1>2, <2>1, <2>2 DEF RowInv, StrandInv
<1>7. ASSUME NEW p \in Procs, ProcStep(p) PROVE Rows' /\ StrandInv'
  <2>1. CASE Starts(p)
    BY <2>1, StartsHoldsRows
  <2>2. CASE Ends(p)
    BY <2>2, EndsHoldsRows
  <2>3. CASE TickStarts(p) \/ LookRaises(p) \/ TickEnds(p)
    <3>1. /\ Others(p) /\ Up(p) /\ proc'[p].pc = "up"
      BY <1>1, <2>3, MovesType
    <3>2. proc[p].at # "audit" /\ UNCHANGED <<scene, runs, left>>
      BY <2>3 DEF TickStarts, LookRaises, TickEnds
    <3> QED BY <1>3, <1>4, <3>1, <3>2, QuietHolds
  <2>4. CASE TickFails(p)
    <3>1. /\ Others(p) /\ Up(p) /\ proc'[p].pc = "up"
      BY <1>1, <2>4, MovesType
    <3>2. proc[p].at # "audit" /\ UNCHANGED <<scene, runs>> /\ Use("statement")
      BY <2>4 DEF TickFails
    <3> QED BY <1>3, <1>5, <3>1, <3>2, QuietHolds
  <2>5. ASSUME NEW f \in Plans, Looks(p, f) PROVE Rows' /\ StrandInv'
    <3>1. /\ Others(p) /\ Up(p) /\ proc'[p].pc = "up" /\ proc[p].at = "tick"
      BY <1>1, <2>5, LooksType
    <3>2. UNCHANGED <<scene, runs, left>>
      BY <2>5 DEF Looks
    <3> QED BY <1>3, <1>4, <3>1, <3>2, QuietHolds
  <2>6. CASE FireFails(p)
    <3>1. /\ Others(p) /\ Up(p) /\ proc[p].at = "create" /\ proc'[p] = [proc[p] EXCEPT !.at = "sweep"]
      BY <1>1, <2>6, FireFailsType
    <3>2. proc'[p].pc = "up"
      BY <1>1, <3>1 DEF Typed, Proc, Up
    <3>3. UNCHANGED <<scene, runs>> /\ Use("statement")
      BY <2>6 DEF FireFails
    <3> QED BY <1>3, <1>5, <3>1, <3>2, <3>3, QuietHolds
  <2>7. CASE Fires(p)
    BY <2>7, FiresHoldsRows
  <2>8. CASE FireIsLogged(p)
    BY <2>8, FireIsLoggedHolds
  <2>9. CASE Sweeps(p)
    BY <2>9, SweepsHolds
  <2>10. CASE \E kind \in Kinds : Triggered(p, kind) \/ RunsDirectly(p, kind)
    BY <2>10, RequestHolds
  <2>11. CASE \E r \in DOMAIN runs : RunStep(r, p)
    BY <2>11, RunStepHolds
  <2> QED BY <1>7, <2>1, <2>2, <2>3, <2>4, <2>5, <2>6, <2>7, <2>8, <2>9, <2>10, <2>11 DEF ProcStep, SchedulerStep
<1>8. CASE \E r \in DOMAIN runs : Aborts(r)
  BY <1>2, <1>8, AbortsHolds DEF RowInv
<1>9. CASE ClockTicks \/ UNCHANGED vars
  BY <1>6, <1>9 DEF ClockTicks, vars
<1> QED BY <1>2, <1>7, <1>8, <1>9 DEF Next, RowInv

LEMMA RowInit == Init => RowInv
<1> SUFFICES ASSUME Init PROVE RowInv
  OBVIOUS
<1>1. SchedulerInv
  BY InitHolds
<1>2. Rows /\ Budgeted /\ Held
  <2>1. runs = <<>> /\ left = scene.budget /\ scene.budget \in [Events -> Nat]
    BY <1>1, BudgetTypes DEF Init, SchedulerInv
  <2>2. runs \in Seq(Run) /\ DOMAIN runs = {}
    BY <2>1
  <2> QED BY <2>1, <2>2 DEF Rows, Budgeted, Held
<1>3. Asleep /\ OnePod
  <2> DEFINE first == CHOOSE q \in Procs : TRUE
  <2>1. \A p \in Procs : proc[p] = NewProc(IF p = first THEN "down" ELSE "absent")
    BY DEF Init
  <2>2. \A p \in Procs : proc[p].at = "asleep" /\ (p # first => proc[p].pc = "absent")
    <3> HIDE DEF first
    <3> QED BY <2>1, NewProcType
  <2> HIDE DEF first
  <2> QED BY <2>2 DEF Asleep, OnePod
<1> QED BY <1>1, <1>2, <1>3 DEF RowInv, StrandInv

LEMMA RowInvariance == Spec => []RowInv
  BY RowInit, RowNext, PTL DEF Spec

\* The rows have only the statuses of run_status, whatever fails and restarts.
THEOREM TypeCorrect == Spec => []TypeOK
<1>1. RowInv => TypeOK
  BY DEF RowInv, SchedulerInv, Typed, Rows, TypeOK
<1> QED BY <1>1, RowInvariance, PTL

\* Nothing but a crash, an update, a refused statement or an agent that raises leaves a
\* 'queued' run without the coroutine that is to take it further (webhooks.py, agents.py
\* and _tick, each of which creates the row statements before the coroutine).
THEOREM OnlyTroubleStrands == Spec => []StrandedByTroubleOnly
<1>1. RowInv => StrandedByTroubleOnly
  <2> SUFFICES ASSUME RowInv, \A e \in {"crash", "rollout", "statement", "raise"} : left[e] = scene.budget[e],
                      NEW r \in DOMAIN runs, runs[r].status = "queued", runs[r].at = "none"
               PROVE  \E p \in Procs : proc[p].at = "audit" /\ Fired(p) = r
    BY DEF StrandedByTroubleOnly
  <2>1. Held /\ Rows
    BY DEF RowInv, StrandInv, Untroubled, Trouble
  <2>2. PICK p \in Procs : proc[p].at = "audit" /\ Last(p, r)
    BY <2>1 DEF Held
  <2> QED BY <2>1, <2>2, FiredIsLast
<1> QED BY <1>1, RowInvariance, PTL

---------------------------------------------------------------------------
(* The lifecycle of a run.                                                  *)

\* The scheduler that writes the audit row has created a run.
HandInv == \A p \in Procs : proc[p].at = "audit" => \E r \in DOMAIN runs : Last(p, r)

\* Who owns a run, without the choice in Fired.
Hand(p, r) == /\ runs[r].of = p
              /\ runs[r].at # "none" \/ (proc[p].at = "audit" /\ Last(p, r))

LEMMA OwnersByHand == Rows /\ HandInv => \A r \in DOMAIN runs, p \in Procs : Owns(p, r) <=> Hand(p, r)
<1> SUFFICES ASSUME Rows, HandInv, NEW r \in DOMAIN runs, NEW p \in Procs
             PROVE  Owns(p, r) <=> Hand(p, r)
  OBVIOUS
<1>1. ASSUME proc[p].at = "audit" PROVE Fired(p) = r <=> Last(p, r)
  <2>1. PICK q \in DOMAIN runs : Last(p, q)
    BY <1>1 DEF HandInv
  <2>2. Fired(p) = q
    BY <2>1, FiredIsLast
  <2> QED BY <2>1, <2>2, FiredIsLast
<1> QED BY <1>1 DEF Owns, Hand

\* Rows that are rewritten keep their kind and their process.
SameRows == /\ DOMAIN runs' = DOMAIN runs
            /\ \A r \in DOMAIN runs : runs'[r].kind = runs[r].kind /\ runs'[r].of = runs[r].of

LEMMA LastStays ==
  ASSUME SameRows
  PROVE  \A p \in Procs, r \in DOMAIN runs : Last(p, r)' <=> Last(p, r)
BY DEF SameRows, Last

LEMMA LastGrows ==
  ASSUME Rows, NEW n, n = Len(runs) + 1, NEW x \in Run, runs' = Append(runs, x)
  PROVE  /\ x.kind # "cron" => \A p \in Procs, r \in DOMAIN runs : Last(p, r)' <=> Last(p, r)
         /\ x.kind = "cron" => Last(x.of, n)' /\ \A r \in DOMAIN runs :
              /\ ~Last(x.of, r)'
              /\ \A p \in Procs : p # x.of => (Last(p, r)' <=> Last(p, r))
<1>1. /\ DOMAIN runs' = 1..n /\ runs'[n] = x /\ n \in Nat
      /\ DOMAIN runs = 1..Len(runs) /\ Len(runs) \in Nat
      /\ \A r \in DOMAIN runs : runs'[r] = runs[r]
  BY OneMore
<1>2. /\ \A r \in DOMAIN runs' : r <= n /\ (r = n \/ r \in DOMAIN runs)
      /\ \A r \in DOMAIN runs : r \in DOMAIN runs' /\ r # n /\ ~(n <= r)
      /\ n \in DOMAIN runs'
  BY <1>1
<1>3. ASSUME x.kind # "cron", NEW p \in Procs, NEW r \in DOMAIN runs PROVE Last(p, r)' <=> Last(p, r)
  BY <1>1, <1>2, <1>3 DEF Last
<1>4. ASSUME x.kind = "cron" PROVE Last(x.of, n)'
  BY <1>1, <1>2, <1>4 DEF Last
<1>5. ASSUME x.kind = "cron", NEW r \in DOMAIN runs PROVE ~Last(x.of, r)'
  BY <1>1, <1>2, <1>5 DEF Last
<1>6. ASSUME x.kind = "cron", NEW r \in DOMAIN runs, NEW p \in Procs, p # x.of PROVE Last(p, r)' <=> Last(p, r)
  BY <1>1, <1>2, <1>6 DEF Last
<1> QED BY <1>3, <1>4, <1>5, <1>6

---------------------------------------------------------------------------
(* What a step does to one run.                                             *)

Shown(r) == IF r \notin DOMAIN runs THEN "none"
            ELSE IF runs[r].status = "ended" THEN "failed" ELSE runs[r].status
Holders(r) == {p \in Procs : r \in DOMAIN runs /\ Hand(p, r)}

Hands == Rows /\ HandInv
Views == /\ StatusOf = [r \in Followed |-> Shown(r)]
         /\ OwnersOf = [r \in Followed |-> Holders(r)]

\* The mapping, run by run.
LEMMA Seen == Hands => Views
<1> SUFFICES ASSUME Rows, HandInv PROVE Views
  BY DEF Hands
<1>1. \A r \in Followed : {p \in Procs : r \in DOMAIN runs /\ Owns(p, r)} = Holders(r)
  BY OwnersByHand DEF Holders
<1> QED BY <1>1 DEF Views, StatusOf, OwnersOf, Shown

\* One run is shown as s and held by H now, or nothing has changed.
OnlyRun(r, s, H) ==
  /\ Shown(r)' = s /\ Holders(r)' = H
  /\ \A q \in Followed : q # r => Shown(q)' = Shown(q) /\ Holders(q)' = Holders(q)

\* A step of one owner is one of the lifecycle.
LEMMA OwnerStep ==
  ASSUME Hands, Hands', NEW r, NEW p \in Procs, NEW s, NEW H, OnlyRun(r, s, H),
         \/ Shown(r) = "none" /\ s = "queued" /\ H = Holders(r) \cup {p}
         \/ /\ H = Holders(r) /\ (s = Shown(r) \/ (p \in Holders(r) /\ s = "running"
               /\ Shown(r) \in {"queued"} \cup Lifecycle!Paused))
         \/ p \in Holders(r) /\ H = Holders(r) \ {p} /\ s = Shown(r)
         \/ /\ p \in Holders(r) /\ H \in {Holders(r), Holders(r) \ {p}}
            /\ s \in Lifecycle!Settled \cup Lifecycle!Paused
         \/ Shown(r) \in Lifecycle!Open /\ s = "aborted" /\ H = Holders(r)
  PROVE  [Lifecycle!Next]_(Lifecycle!vars)
<1>1. /\ StatusOf = [q \in Followed |-> Shown(q)] /\ OwnersOf = [q \in Followed |-> Holders(q)]
  BY Seen DEF Views
<1>2. /\ StatusOf' = [q \in Followed |-> Shown(q)'] /\ OwnersOf' = [q \in Followed |-> Holders(q)']
  <2>1. Views'
    BY Seen, PTL
  <2> QED BY <2>1 DEF Views
<1>3. CASE r \notin Followed
  <2>1. StatusOf' = StatusOf /\ OwnersOf' = OwnersOf
    BY <1>1, <1>2, <1>3 DEF OnlyRun
  <2> QED BY <2>1 DEF Lifecycle!vars
<1>4. CASE r \in Followed
  <2>1. /\ StatusOf' = [StatusOf EXCEPT ![r] = s] /\ OwnersOf' = [OwnersOf EXCEPT ![r] = H]
        /\ StatusOf[r] = Shown(r) /\ OwnersOf[r] = Holders(r)
    BY <1>1, <1>2, <1>4 DEF OnlyRun
  <2>2. s = Shown(r) => StatusOf' = StatusOf
    BY <1>1, <1>4, <2>1
  <2>3. H = Holders(r) => OwnersOf' = OwnersOf
    BY <1>1, <1>4, <2>1
  <2>4. CASE s = Shown(r) /\ H = Holders(r)
    BY <2>2, <2>3, <2>4 DEF Lifecycle!vars
  <2>5. CASE Shown(r) = "none" /\ s = "queued" /\ H = Holders(r) \cup {p}
    <3>1. Lifecycle!Create(r, p)
      BY <2>1, <2>5 DEF Lifecycle!Create, Lifecycle!Write, Lifecycle!Join
    <3> QED BY <1>4, <3>1 DEF Lifecycle!Next
  <2>6. CASE /\ H = Holders(r) /\ p \in Holders(r) /\ s = "running"
             /\ Shown(r) \in {"queued"} \cup Lifecycle!Paused
    <3>1. Lifecycle!Start(r, p)
      BY <2>1, <2>3, <2>6 DEF Lifecycle!Start, Lifecycle!Write
    <3> QED BY <1>4, <3>1 DEF Lifecycle!Next
  <2>7. CASE p \in Holders(r) /\ H = Holders(r) \ {p} /\ s = Shown(r)
    <3>1. Lifecycle!Leave(r, p)
      BY <2>1, <2>2, <2>7 DEF Lifecycle!Leave, Lifecycle!Part
    <3> QED BY <1>4, <3>1 DEF Lifecycle!Next
  <2>8. CASE /\ p \in Holders(r) /\ H \in {Holders(r), Holders(r) \ {p}}
             /\ s \in Lifecycle!Settled \cup Lifecycle!Paused
    <3>1. Lifecycle!Conclude(r, p, s)
      BY <2>1, <2>3, <2>8 DEF Lifecycle!Conclude, Lifecycle!Write, Lifecycle!Part
    <3> QED BY <1>4, <2>8, <3>1 DEF Lifecycle!Next
  <2>9. CASE Shown(r) \in Lifecycle!Open /\ s = "aborted" /\ H = Holders(r)
    <3>1. Lifecycle!Abort(r)
      BY <2>1, <2>3, <2>9 DEF Lifecycle!Abort, Lifecycle!Write
    <3> QED BY <1>4, <3>1 DEF Lifecycle!Next
  <2> QED BY <2>4, <2>5, <2>6, <2>7, <2>8, <2>9
<1> QED BY <1>3, <1>4

LifeInv == RowInv /\ HandInv

\* Nobody takes up or drops the audit row: who holds a run whose coroutine stays still
\* holds it.
SameAudits == \A q \in Procs : proc'[q].at = "audit" <=> proc[q].at = "audit"

LEMMA HoldersStay ==
  ASSUME SameRows, SameAudits
  PROVE  /\ HandInv => HandInv'
         /\ \A r : (r \in DOMAIN runs => runs'[r].at = runs[r].at) => Holders(r)' = Holders(r)
<1>1. \A p \in Procs, r \in DOMAIN runs : Last(p, r)' <=> Last(p, r)
  BY LastStays
<1>2. HandInv => HandInv'
  BY <1>1 DEF HandInv, SameAudits, SameRows
<1>3. ASSUME NEW r, r \in DOMAIN runs => runs'[r].at = runs[r].at PROVE Holders(r)' = Holders(r)
  <2>1. \A p \in Procs : r \in DOMAIN runs => (Hand(p, r)' <=> Hand(p, r))
    BY <1>1, <1>3 DEF Hand, SameRows, SameAudits
  <2> QED BY <2>1 DEF Holders, SameRows
<1> QED BY <1>2, <1>3

\* A row is rewritten by its coroutine, or by an abort.
LEMMA RewriteLives ==
  ASSUME LifeInv, Rows', proc' = proc,
         NEW r \in DOMAIN runs, NEW status \in Statuses, NEW at \in Spots,
         Rewrites(r, [runs[r] EXCEPT !.status = status, !.at = at]),
         \/ /\ runs[r].at # "none"
            /\ \/ status \in {runs[r].status} \cup (Statuses \ {"queued", "running"})
               \/ /\ at # "none" /\ status = "running"
                  /\ runs[r].status \in {"queued", "awaiting_approval", "awaiting_user_input"}
         \/ at = runs[r].at /\ status = "aborted" /\ runs[r].status \notin Settled
  PROVE  HandInv' /\ [Lifecycle!Next]_(Lifecycle!vars)
<1> DEFINE x == [runs[r] EXCEPT !.status = status, !.at = at]
           p == runs[r].of
<1>1. Hands /\ runs[r] \in Run /\ x \in Run
  BY RowType DEF LifeInv, RowInv, Hands, Spots
<1>2. x.kind = runs[r].kind /\ x.of = p /\ x.status = status /\ x.at = at /\ p \in Procs
      /\ runs[r].status \in Statuses
  BY <1>1 DEF Run
<1>3. Rewrites(r, x)
  OBVIOUS
<1> HIDE DEF x
<1>4. /\ DOMAIN runs' = DOMAIN runs
      /\ runs'[r] = x /\ \A q \in DOMAIN runs : q # r => runs'[q] = runs[q]
  BY <1>1, <1>3, OneRow DEF Hands
<1>5. SameRows /\ SameAudits
  BY <1>2, <1>4 DEF SameRows, SameAudits
<1>6. HandInv' /\ Hands'
  BY <1>1, <1>5, HoldersStay DEF Hands
<1>7. \A q : q # r => Shown(q)' = Shown(q) /\ Holders(q)' = Holders(q)
  BY <1>4, <1>5, HoldersStay DEF Shown
<1>8. /\ Shown(r) = IF runs[r].status = "ended" THEN "failed" ELSE runs[r].status
      /\ Shown(r)' = IF status = "ended" THEN "failed" ELSE status
  BY <1>2, <1>4 DEF Shown
<1>9. /\ Holders(r) \subseteq {p} /\ Holders(r)' \subseteq {p}
      /\ runs[r].at # "none" => p \in Holders(r)
      /\ at # "none" => p \in Holders(r)'
      /\ at = runs[r].at => Holders(r)' = Holders(r)
  <2>1. Holders(r) \subseteq {p} /\ (runs[r].at # "none" => p \in Holders(r))
    BY <1>2 DEF Holders, Hand
  <2>2. Holders(r)' \subseteq {p} /\ (at # "none" => p \in Holders(r)')
    BY <1>2, <1>4 DEF Holders, Hand
  <2>3. at = runs[r].at => Holders(r)' = Holders(r)
    BY <1>2, <1>4, <1>5, HoldersStay
  <2> QED BY <2>1, <2>2, <2>3
<1>10. OnlyRun(r, Shown(r)', Holders(r)')
  BY <1>7 DEF OnlyRun
<1> HIDE DEF p
<1>11. CASE runs[r].at # "none" /\ status = runs[r].status
  <2>1. Shown(r)' = Shown(r)
    BY <1>8, <1>11
  <2>2. p \in Holders(r) /\ Holders(r)' \in {Holders(r), Holders(r) \ {p}}
    BY <1>9, <1>11
  <2> QED BY <1>1, <1>2, <1>6, <1>10, <2>1, <2>2, OwnerStep
<1>12. CASE runs[r].at # "none" /\ status \in Statuses \ {"queued", "running"}
  <2>1. Shown(r)' \in Lifecycle!Settled \cup Lifecycle!Paused
    BY <1>8, <1>12 DEF Statuses, Settled, Lifecycle!Settled, Lifecycle!Paused
  <2>2. p \in Holders(r) /\ Holders(r)' \in {Holders(r), Holders(r) \ {p}}
    BY <1>9, <1>12
  <2> QED BY <1>1, <1>2, <1>6, <1>10, <2>1, <2>2, OwnerStep
<1>13. CASE /\ runs[r].at # "none" /\ at # "none" /\ status = "running"
            /\ runs[r].status \in {"queued", "awaiting_approval", "awaiting_user_input"}
  <2>1. Shown(r)' = "running" /\ Shown(r) \in {"queued"} \cup Lifecycle!Paused
    BY <1>8, <1>13 DEF Lifecycle!Paused
  <2>2. p \in Holders(r) /\ Holders(r)' = Holders(r)
    BY <1>9, <1>13
  <2> QED BY <1>1, <1>2, <1>6, <1>10, <2>1, <2>2, OwnerStep
<1>14. CASE at = runs[r].at /\ status = "aborted" /\ runs[r].status \notin Settled
  <2>1. Shown(r)' = "aborted" /\ Shown(r) \in Lifecycle!Open
    BY <1>2, <1>8, <1>14 DEF Statuses, Settled, Lifecycle!Open, Lifecycle!Paused
  <2>2. Holders(r)' = Holders(r)
    BY <1>9, <1>14
  <2> QED BY <1>1, <1>2, <1>6, <1>10, <2>1, <2>2, OwnerStep
<1> QED BY <1>6, <1>11, <1>12, <1>13, <1>14

\* A coroutine with run r performs its next statement.
LEMMA RunStepLives ==
  ASSUME LifeInv, Rows', NEW p \in Procs, NEW r \in DOMAIN runs, RunStep(r, p)
  PROVE  HandInv' /\ [Lifecycle!Next]_(Lifecycle!vars)
<1> DEFINE To(status, at) == [runs[r] EXCEPT !.status = status, !.at = at]
<1>1. runs[r] \in Run /\ runs[r].status \in Statuses
  <2>1. runs[r] \in Run
    BY RowType DEF LifeInv, RowInv
  <2> QED BY <2>1 DEF Run
<1>2. proc' = proc
  BY DEF RunStep, TriggerIsLogged, BackgroundStarts, BackgroundEnds,
         BackgroundRaises, BackgroundRecords, Parks, DirectWorks, DirectEnds
<1>3. \A at \in Spots : [runs[r] EXCEPT !.at = at] = To(runs[r].status, at)
  BY <1>1 DEF Run
<1>4. runs[r].at # "none"
  BY DEF RunStep, TriggerIsLogged, BackgroundStarts, BackgroundEnds,
         BackgroundRaises, BackgroundRecords, Parks, DirectWorks, DirectEnds, Has
\* The row stays as it is ...
<1>5. ASSUME NEW at \in Spots, runs' = [runs EXCEPT ![r].at = at]
      PROVE  HandInv' /\ [Lifecycle!Next]_(Lifecycle!vars)
  <2>1. Rewrites(r, To(runs[r].status, at))
    BY <1>1, <1>3, <1>5 DEF Rewrites
  <2> QED BY <1>1, <1>2, <1>4, <2>1, RewriteLives
\* ... or is finished or parked.
<1>6. ASSUME NEW status \in Statuses \ {"queued", "running"},
             runs' = [runs EXCEPT ![r].status = status, ![r].at = "none"]
      PROVE  HandInv' /\ [Lifecycle!Next]_(Lifecycle!vars)
  <2>1. Rewrites(r, To(status, "none")) /\ "none" \in Spots
    BY <1>1, <1>6 DEF Rewrites, Spots
  <2> QED BY <1>1, <1>2, <1>4, <1>6, <2>1, RewriteLives
<1>7. /\ {"none", "mark", "finish", "record"} \subseteq Spots
      /\ {"ended", "awaiting_approval", "awaiting_user_input", "aborted"}
           \subseteq Statuses \ {"queued", "running"}
  BY DEF Spots, Statuses, Settled
<1>8. CASE TriggerIsLogged(r, p) \/ BackgroundRaises(r, p) \/ DirectWorks(r, p)
  <2>1. PICK at \in {"none", "mark", "finish", "record"} : runs' = [runs EXCEPT ![r].at = at]
    BY <1>8 DEF TriggerIsLogged, BackgroundRaises, DirectWorks
  <2> QED BY <1>5, <1>7, <2>1
<1>9. CASE BackgroundStarts(r, p)
  <2>1. "work" \in Spots /\ Marked(runs[r].status) \in Statuses
    BY <1>1 DEF Marked, Statuses, Settled, Spots
  <2>2. Rewrites(r, To(Marked(runs[r].status), "work"))
    BY <1>1, <1>9 DEF BackgroundStarts, Rewrites
  <2>3. \/ Marked(runs[r].status) = runs[r].status
        \/ /\ Marked(runs[r].status) = "running"
           /\ runs[r].status \in {"queued", "awaiting_approval", "awaiting_user_input"}
    BY DEF Marked
  <2> QED BY <1>1, <1>2, <1>4, <2>1, <2>2, <2>3, RewriteLives
<1>10. CASE BackgroundEnds(r, p) \/ BackgroundRecords(r, p) \/ Parks(r, p) \/ DirectEnds(r, p)
  <2>1. CASE runs' = [runs EXCEPT ![r].at = "none"]
    BY <1>5, <1>7, <2>1
  <2>2. CASE \E status \in {"ended", "awaiting_approval", "awaiting_user_input", "aborted"} :
               runs' = [runs EXCEPT ![r].status = status, ![r].at = "none"]
    BY <1>6, <1>7, <2>2
  <2> QED BY <1>10, <2>1, <2>2 DEF BackgroundEnds, BackgroundRecords, Parks, DirectEnds
<1> QED BY <1>8, <1>9, <1>10 DEF RunStep

\* routes/runs.py: abort.
LEMMA AbortsLives ==
  ASSUME LifeInv, Rows', NEW r \in DOMAIN runs, Aborts(r)
  PROVE  HandInv' /\ [Lifecycle!Next]_(Lifecycle!vars)
<1>1. runs[r] \in Run /\ runs[r].at \in Spots /\ "aborted" \in Statuses
  <2>1. runs[r] \in Run
    BY RowType DEF LifeInv, RowInv
  <2> QED BY <2>1 DEF Run, Spots, Statuses, Settled
<1>2. Rewrites(r, [runs[r] EXCEPT !.status = "aborted", !.at = runs[r].at])
  BY <1>1 DEF Aborts, Rewrites, Run
<1>3. proc' = proc /\ runs[r].status \notin Settled
  BY DEF Aborts
<1> QED BY <1>1, <1>2, <1>3, RewriteLives

\* A request creates its run, and has it in hand.
LEMMA RequestLives ==
  ASSUME LifeInv, Rows', NEW p \in Procs, NEW kind \in Kinds, Triggered(p, kind) \/ RunsDirectly(p, kind)
  PROVE  HandInv' /\ [Lifecycle!Next]_(Lifecycle!vars)
<1>1. proc' = proc /\ kind # "cron" /\ Hands
  BY DEF Triggered, RunsDirectly, LifeInv, RowInv, Hands
<1>2. PICK at \in {"audit", "work", "park"} : runs' = Created(kind, p, at)
  BY DEF Triggered, RunsDirectly, FirstStatement
<1> DEFINE x == [kind |-> kind, status |-> "queued", at |-> at, of |-> p]
<1>0. PICK n \in Nat : n = Len(runs) + 1
  BY <1>1 DEF Hands, Rows
<1>3. x \in Run /\ x.kind # "cron" /\ x.at # "none" /\ x.of = p /\ x.status = "queued"
  BY <1>1 DEF Run, Statuses
<1>4. runs' = Append(runs, x)
  BY <1>2 DEF Created
<1> HIDE DEF x
<1>5. /\ DOMAIN runs' = DOMAIN runs \cup {n} /\ n \notin DOMAIN runs /\ runs'[n] = x
      /\ \A r \in DOMAIN runs : runs'[r] = runs[r]
  BY <1>0, <1>1, <1>3, <1>4, OneMore DEF Hands
<1>6. \A q \in Procs, r \in DOMAIN runs : Last(q, r)' <=> Last(q, r)
  BY <1>0, <1>1, <1>3, <1>4, LastGrows DEF Hands
<1>7. HandInv' /\ Hands'
  BY <1>1, <1>5, <1>6 DEF Hands, HandInv
<1>8. ASSUME NEW r, r # n PROVE Shown(r)' = Shown(r) /\ Holders(r)' = Holders(r)
  <2>1. r \in DOMAIN runs' <=> r \in DOMAIN runs
    BY <1>5, <1>8
  <2>2. Shown(r)' = Shown(r)
    BY <1>5, <2>1 DEF Shown
  <2>3. \A q \in Procs : r \in DOMAIN runs => (Hand(q, r)' <=> Hand(q, r))
    BY <1>1, <1>5, <1>6 DEF Hand
  <2> QED BY <2>1, <2>2, <2>3 DEF Holders
<1>9. Shown(n) = "none" /\ Holders(n) = {} /\ Shown(n)' = "queued"
  BY <1>3, <1>5 DEF Shown, Holders
<1>10. Holders(n)' = {p}
  BY <1>3, <1>5 DEF Holders, Hand
<1>11. OnlyRun(n, "queued", {p})
  BY <1>8, <1>9, <1>10 DEF OnlyRun
<1> QED BY <1>1, <1>7, <1>9, <1>11, OwnerStep

\* The tick creates its run, and has it in hand.
LEMMA FiresLives ==
  ASSUME LifeInv, Rows', NEW p \in Procs, Fires(p)
  PROVE  HandInv' /\ [Lifecycle!Next]_(Lifecycle!vars)
<1>1. Hands /\ Typed
  BY DEF LifeInv, RowInv, SchedulerInv, Hands
<1>2. Others(p) /\ proc[p].at = "create" /\ proc'[p] = [proc[p] EXCEPT !.at = "audit"]
  BY <1>1, FiresType
<1>3. (\A q \in Procs : q # p => proc'[q] = proc[q]) /\ proc'[p].at = "audit"
  BY <1>1, <1>2 DEF Others, Typed, Proc
<1> DEFINE x == [kind |-> "cron", status |-> "queued", at |-> "none", of |-> p]
<1>0. PICK n \in Nat : n = Len(runs) + 1
  BY <1>1 DEF Hands, Rows
<1>4. x \in Run /\ x.kind = "cron" /\ x.at = "none" /\ x.of = p /\ x.status = "queued"
  BY DEF Run, Statuses, Kinds
<1>5. runs' = Append(runs, x)
  BY DEF Fires, Created
<1> HIDE DEF x
<1>6. /\ DOMAIN runs' = DOMAIN runs \cup {n} /\ n \notin DOMAIN runs /\ runs'[n] = x
      /\ \A r \in DOMAIN runs : runs'[r] = runs[r]
  BY <1>0, <1>1, <1>4, <1>5, OneMore DEF Hands
<1>7. /\ Last(p, n)'
      /\ \A r \in DOMAIN runs : ~Last(p, r)' /\ \A q \in Procs : q # p => (Last(q, r)' <=> Last(q, r))
  BY <1>0, <1>1, <1>4, <1>5, LastGrows DEF Hands
<1>8. HandInv' /\ Hands'
  <2>1. ASSUME NEW q \in Procs, proc'[q].at = "audit" PROVE \E r \in DOMAIN runs' : Last(q, r)'
    BY <1>1, <1>3, <1>6, <1>7, <2>1 DEF Hands, HandInv
  <2> QED BY <2>1 DEF Hands, HandInv
<1>9. ASSUME NEW r, r # n PROVE Shown(r)' = Shown(r) /\ Holders(r)' = Holders(r)
  <2>1. r \in DOMAIN runs' <=> r \in DOMAIN runs
    BY <1>6, <1>9
  <2>2. Shown(r)' = Shown(r)
    BY <1>6, <2>1 DEF Shown
  <2>3. \A q \in Procs : r \in DOMAIN runs => (Hand(q, r)' <=> Hand(q, r))
    BY <1>2, <1>3, <1>6, <1>7 DEF Hand
  <2> QED BY <2>1, <2>2, <2>3 DEF Holders
<1>10. Shown(n) = "none" /\ Holders(n) = {} /\ Shown(n)' = "queued"
  BY <1>4, <1>6 DEF Shown, Holders
<1>11. Holders(n)' = {p}
  BY <1>3, <1>4, <1>6, <1>7 DEF Holders, Hand
<1>12. OnlyRun(n, "queued", {p})
  BY <1>9, <1>10, <1>11 DEF OnlyRun
<1> QED BY <1>1, <1>8, <1>10, <1>12, OwnerStep

\* The tick hands its run to a coroutine, or leaves it.
LEMMA FireIsLoggedLives ==
  ASSUME LifeInv, Rows', NEW p \in Procs, FireIsLogged(p)
  PROVE  HandInv' /\ [Lifecycle!Next]_(Lifecycle!vars)
<1>1. Hands /\ Typed
  BY DEF LifeInv, RowInv, SchedulerInv, Hands
<1>2. proc[p].at = "audit" /\ \A q \in Procs : q # p => proc'[q] = proc[q]
  BY <1>1, MovesType DEF FireIsLogged, Others
<1>3. PICK f \in DOMAIN runs : Last(p, f)
  BY <1>1, <1>2 DEF Hands, HandInv
<1>4. Fired(p) = f /\ runs[f].of = p /\ runs[f] \in Run
  BY <1>1, <1>3, FiredIsLast, RowType DEF Hands, Last
<1>5. \A r \in DOMAIN runs : Last(p, r) => r = f
  BY <1>1, <1>4, FiredIsLast DEF Hands
<1>6. proc'[p].at # "audit"
  <2>1. PICK at \in {"tick", "sweep"} : proc' = [proc EXCEPT ![p].at = at]
    BY DEF FireIsLogged, AfterFailure
  <2> QED BY <1>1, <2>1 DEF Typed, Proc
<1>7. /\ DOMAIN runs' = DOMAIN runs /\ \A r \in DOMAIN runs : r # f => runs'[r] = runs[r]
      /\ runs'[f].kind = runs[f].kind /\ runs'[f].of = runs[f].of /\ runs'[f].status = runs[f].status
      /\ runs'[f].at \in {runs[f].at, "mark"}
  <2>1. CASE runs' = [runs EXCEPT ![f].at = "mark"]
    <3> DEFINE x == [runs[f] EXCEPT !.at = "mark"]
    <3>1. x \in Run /\ x.kind = runs[f].kind /\ x.of = runs[f].of /\ x.status = runs[f].status /\ x.at = "mark"
      BY <1>4 DEF Run
    <3>2. Rewrites(f, x)
      BY <1>1, <1>4, <2>1 DEF Rewrites
    <3> HIDE DEF x
    <3> QED BY <1>1, <3>1, <3>2, OneRow DEF Hands
  <2>2. CASE runs' = runs
    BY <2>2
  <2> QED BY <1>4, <2>1, <2>2 DEF FireIsLogged
<1>8. \A q \in Procs, r \in DOMAIN runs : Last(q, r)' <=> Last(q, r)
  <2>1. SameRows
    BY <1>7 DEF SameRows
  <2> QED BY <2>1, LastStays
<1>9. HandInv' /\ Hands'
  BY <1>1, <1>2, <1>6, <1>7, <1>8 DEF Hands, HandInv
<1>10. ASSUME NEW r PROVE Shown(r)' = Shown(r) /\ (r # f => Holders(r)' = Holders(r))
  <2>1. Shown(r)' = Shown(r)
    BY <1>7 DEF Shown
  <2>2. ASSUME r # f PROVE Holders(r)' = Holders(r)
    <3>1. \A q \in Procs : r \in DOMAIN runs => (Hand(q, r)' <=> Hand(q, r))
      BY <1>2, <1>5, <1>6, <1>7, <1>8, <2>2 DEF Hand
    <3> QED BY <1>7, <3>1 DEF Holders
  <2> QED BY <2>1, <2>2
<1>11. Holders(f) = {p} /\ Holders(f)' \in {{p}, {}}
  <2>1. Holders(f) = {p}
    BY <1>2, <1>3, <1>4 DEF Holders, Hand
  <2>2. Holders(f)' \subseteq {p}
    BY <1>4, <1>7 DEF Holders, Hand
  <2> QED BY <2>1, <2>2
<1>12. OnlyRun(f, Shown(f), Holders(f)')
  BY <1>10 DEF OnlyRun
<1>13. Holders(f)' = Holders(f) \/ (p \in Holders(f) /\ Holders(f)' = Holders(f) \ {p})
  BY <1>11
<1> QED BY <1>1, <1>9, <1>12, <1>13, OwnerStep

\* Rows are only read.
LEMMA QuietLives ==
  ASSUME LifeInv, Rows', runs' = runs, SameAudits
  PROVE  HandInv' /\ [Lifecycle!Next]_(Lifecycle!vars)
<1>1. SameRows /\ Hands
  BY DEF SameRows, LifeInv, RowInv, Hands
<1>2. HandInv' /\ Hands' /\ \A r : Holders(r)' = Holders(r)
  BY <1>1, HoldersStay DEF Hands
<1>3. Views /\ Views'
  <2>1. Views'
    BY <1>2, Seen, PTL
  <2> QED BY <1>1, <2>1, Seen
<1>4. \A r : Shown(r)' = Shown(r)
  BY DEF Shown
<1> QED BY <1>2, <1>3, <1>4 DEF Views, Lifecycle!vars

\* abort_stale_paused_runs.
LEMMA SweepsLives ==
  ASSUME LifeInv, Rows', NEW p \in Procs, Sweeps(p)
  PROVE  HandInv' /\ [Lifecycle!Next]_(Lifecycle!vars)
<1>1. Hands /\ Typed /\ proc[p].at = "sweep"
  BY DEF LifeInv, RowInv, SchedulerInv, Hands, Sweeps
<1>2. PICK old \in SUBSET {r \in DOMAIN runs : runs[r].status = "awaiting_user_input"} :
        runs' = [r \in DOMAIN runs |-> IF r \in old THEN [runs[r] EXCEPT !.status = "aborted"] ELSE runs[r]]
  BY DEF Sweeps
<1>3. ASSUME NEW r \in DOMAIN runs
      PROVE  /\ runs'[r].kind = runs[r].kind /\ runs'[r].of = runs[r].of /\ runs'[r].at = runs[r].at
             /\ runs'[r].status = IF r \in old THEN "aborted" ELSE runs[r].status
  <2>1. runs[r] \in Run
    BY <1>1, RowType DEF Hands
  <2> QED BY <1>2, <2>1 DEF Run
<1>4. SameAudits
  <2>1. \A q \in Procs : q # p => proc'[q] = proc[q]
    BY <1>1, MovesType DEF Others
  <2>2. proc'[p].at = "asleep"
    <3> DEFINE x == [NewProc("up") EXCEPT !.since = proc[p].since, !.wake = IF now < scene.until THEN now + 1 ELSE now]
    <3>1. proc'[p] = x
      BY <1>1 DEF Sweeps, Typed
    <3>2. x.at = "asleep"
      BY DEF NewProc
    <3> QED BY <3>1, <3>2
  <2> QED BY <1>1, <2>1, <2>2 DEF SameAudits
<1>5. SameRows
  BY <1>2, <1>3 DEF SameRows
<1>6. HandInv' /\ Hands' /\ \A r : Holders(r)' = Holders(r)
  BY <1>1, <1>3, <1>4, <1>5, HoldersStay DEF Hands
<1>7. Views /\ Views'
  <2>1. Views'
    BY <1>6, Seen, PTL
  <2> QED BY <1>1, <2>1, Seen
<1>8. ASSUME NEW r PROVE Shown(r)' = (IF r \in old THEN "aborted" ELSE Shown(r))
                         /\ (r \in old => Shown(r) = "awaiting_user_input")
  BY <1>2, <1>3 DEF Shown
<1> DEFINE late == old \cap Followed
<1>9. late \in SUBSET {r \in Followed : StatusOf[r] \in Lifecycle!Paused}
  BY <1>7, <1>8 DEF Views, Lifecycle!Paused
<1>10. StatusOf' = [r \in Followed |-> IF r \in late THEN "aborted" ELSE StatusOf[r]]
  BY <1>7, <1>8 DEF Views
<1>11. OwnersOf' = OwnersOf
  BY <1>6, <1>7 DEF Views
<1> HIDE DEF late
<1>12. Lifecycle!Sweep
  BY <1>9, <1>10, <1>11 DEF Lifecycle!Sweep
<1> QED BY <1>6, <1>12 DEF Lifecycle!Next

\* A process starts: what was running has failed, and nobody loses a run.
LEMMA StartsLives ==
  ASSUME LifeInv, Rows', NEW p \in Procs, Starts(p)
  PROVE  HandInv' /\ [Lifecycle!Next]_(Lifecycle!vars)
<1>1. Hands /\ Typed /\ Asleep
  BY DEF LifeInv, RowInv, SchedulerInv, StrandInv, Hands
<1>2. SameAudits
  <2>1. Others(p) /\ ~Up(p) /\ proc'[p] = NewProc("up")
    BY <1>1, StartsType
  <2>2. proc[p].at = "asleep" /\ proc'[p].at = "asleep"
    BY <1>1, <2>1, NewProcType DEF Asleep
  <2> QED BY <2>1, <2>2 DEF SameAudits, Others
<1>3. runs' = [r \in DOMAIN runs |->
                IF Orphaned(runs[r].status) THEN [runs[r] EXCEPT !.status = "ended"] ELSE runs[r]]
  BY DEF Starts
<1>4. ASSUME NEW r \in DOMAIN runs
      PROVE  /\ runs'[r].kind = runs[r].kind /\ runs'[r].of = runs[r].of /\ runs'[r].at = runs[r].at
             /\ runs'[r].status = IF runs[r].status = "running" THEN "ended" ELSE runs[r].status
  <2>1. runs[r] \in Run
    BY <1>1, RowType DEF Hands
  <2> QED BY <1>3, <2>1 DEF Run, Orphaned
<1>5. SameRows
  BY <1>3, <1>4 DEF SameRows
<1>6. HandInv' /\ Hands' /\ \A r : Holders(r)' = Holders(r)
  BY <1>1, <1>2, <1>4, <1>5, HoldersStay DEF Hands
<1>7. Views /\ Views'
  <2>1. Views'
    BY <1>6, Seen, PTL
  <2> QED BY <1>1, <2>1, Seen
<1>8. \A r : Shown(r)' = IF Shown(r) = "running" THEN "failed" ELSE Shown(r)
  BY <1>4, <1>5 DEF Shown, SameRows
<1>9. Lifecycle!Startup
  <2>1. StatusOf' = [r \in Followed |-> IF StatusOf[r] = "running" THEN "failed" ELSE StatusOf[r]]
    BY <1>7, <1>8 DEF Views
  <2>2. OwnersOf' = OwnersOf
    BY <1>6, <1>7 DEF Views
  <2> QED BY <2>1, <2>2 DEF Lifecycle!Startup
<1> QED BY <1>6, <1>9 DEF Lifecycle!Next

\* A process ends, and with it the coroutines and the tick it had.
LEMMA EndsLives ==
  ASSUME LifeInv, Rows', NEW p \in Procs, Ends(p)
  PROVE  HandInv' /\ [Lifecycle!Next]_(Lifecycle!vars)
<1>1. Hands /\ Typed
  BY DEF LifeInv, RowInv, SchedulerInv, Hands
<1>2. proc'[p].at = "asleep" /\ \A q \in Procs : q # p => proc'[q] = proc[q]
  BY <1>1, EndsType DEF Others
<1>3. runs' = [r \in DOMAIN runs |-> IF runs[r].of = p THEN [runs[r] EXCEPT !.at = "none"] ELSE runs[r]]
  BY DEF Ends
<1>4. ASSUME NEW r \in DOMAIN runs
      PROVE  /\ runs'[r].kind = runs[r].kind /\ runs'[r].of = runs[r].of /\ runs'[r].status = runs[r].status
             /\ runs'[r].at = IF runs[r].of = p THEN "none" ELSE runs[r].at
  <2>1. runs[r] \in Run
    BY <1>1, RowType DEF Hands
  <2> QED BY <1>3, <2>1 DEF Run
<1>5. SameRows
  BY <1>3, <1>4 DEF SameRows
<1>6. \A q \in Procs, r \in DOMAIN runs : Last(q, r)' <=> Last(q, r)
  BY <1>5, LastStays
<1>7. HandInv' /\ Hands'
  BY <1>1, <1>2, <1>5, <1>6 DEF Hands, HandInv, SameRows
<1>8. \A r : Holders(r)' = Holders(r) \ {p}
  <2> SUFFICES ASSUME NEW r PROVE Holders(r)' = Holders(r) \ {p}
    OBVIOUS
  <2>1. \A q \in Procs : r \in DOMAIN runs => (Hand(q, r)' <=> q # p /\ Hand(q, r))
    BY <1>2, <1>4, <1>6 DEF Hand
  <2> QED BY <1>5, <2>1 DEF Holders, SameRows
<1>9. Views /\ Views'
  <2>1. Views'
    BY <1>7, Seen, PTL
  <2> QED BY <1>1, <2>1, Seen
<1>10. \A r : Shown(r)' = Shown(r)
  BY <1>4, <1>5 DEF Shown, SameRows
<1>11. Lifecycle!Exit
  <2>1. OwnersOf' = [r \in Followed |-> OwnersOf[r] \ {p}]
    BY <1>8, <1>9 DEF Views
  <2>2. StatusOf' = StatusOf
    BY <1>9, <1>10 DEF Views
  <2> QED BY <2>1, <2>2 DEF Lifecycle!Exit
<1> QED BY <1>7, <1>11 DEF Lifecycle!Next

\* Every step is one of the lifecycle, or changes nothing of it.
LEMMA LifeNext == LifeInv /\ [Next]_vars => LifeInv' /\ [Lifecycle!Next]_(Lifecycle!vars)
<1> SUFFICES ASSUME LifeInv, [Next]_vars PROVE LifeInv' /\ [Lifecycle!Next]_(Lifecycle!vars)
  OBVIOUS
<1>1. RowInv' /\ Rows' /\ Typed
  <2>1. RowInv'
    BY RowNext DEF LifeInv
  <2> QED BY <2>1 DEF LifeInv, RowInv, SchedulerInv
<1> SUFFICES HandInv' /\ [Lifecycle!Next]_(Lifecycle!vars)
  BY <1>1 DEF LifeInv
<1>2. ASSUME NEW p \in Procs, Others(p), runs' = runs, proc[p].at # "audit", proc'[p].at # "audit"
      PROVE  HandInv' /\ [Lifecycle!Next]_(Lifecycle!vars)
  BY <1>1, <1>2, QuietLives DEF SameAudits, Others
<1>3. CASE UNCHANGED <<proc, runs>>
  BY <1>1, <1>3, QuietLives DEF SameAudits
<1>4. ASSUME NEW p \in Procs, ProcStep(p) PROVE HandInv' /\ [Lifecycle!Next]_(Lifecycle!vars)
  <2>1. CASE Starts(p)
    BY <1>1, <2>1, StartsLives
  <2>2. CASE Ends(p)
    BY <1>1, <2>2, EndsLives
  <2>3. CASE TickStarts(p) \/ LookRaises(p) \/ TickEnds(p) \/ TickFails(p) \/ FireFails(p)
    <3>1. Others(p)
      BY <1>1, <2>3, MovesType, FireFailsType
    <3>2. PICK at \in {"tick", "sweep"} : proc'[p].at = at
      BY <1>1, <2>3 DEF TickStarts, LookRaises, TickEnds, TickFails, FireFails, AfterFailure, Typed, Proc
    <3>3. runs' = runs /\ proc[p].at # "audit"
      BY <2>3 DEF TickStarts, LookRaises, TickEnds, TickFails, FireFails
    <3> QED BY <1>2, <3>1, <3>2, <3>3
  <2>4. ASSUME NEW f \in Plans, Looks(p, f) PROVE HandInv' /\ [Lifecycle!Next]_(Lifecycle!vars)
    <3>1. Others(p) /\ proc[p].at = "tick" /\ proc'[p].at # "audit"
      BY <1>1, <2>4, LooksType
    <3>2. runs' = runs
      BY <2>4 DEF Looks
    <3> QED BY <1>2, <3>1, <3>2
  <2>5. CASE Fires(p)
    BY <1>1, <2>5, FiresLives
  <2>6. CASE FireIsLogged(p)
    BY <1>1, <2>6, FireIsLoggedLives
  <2>7. CASE Sweeps(p)
    BY <1>1, <2>7, SweepsLives
  <2>8. CASE \E kind \in Kinds : Triggered(p, kind) \/ RunsDirectly(p, kind)
    BY <1>1, <2>8, RequestLives
  <2>9. CASE \E r \in DOMAIN runs : RunStep(r, p)
    BY <1>1, <2>9, RunStepLives
  <2> QED BY <1>4, <2>1, <2>2, <2>3, <2>4, <2>5, <2>6, <2>7, <2>8, <2>9 DEF ProcStep, SchedulerStep
<1>5. CASE \E r \in DOMAIN runs : Aborts(r)
  BY <1>1, <1>5, AbortsLives
<1>6. CASE ClockTicks \/ UNCHANGED vars
  BY <1>3, <1>6 DEF ClockTicks, vars
<1> QED BY <1>4, <1>5, <1>6 DEF Next

LEMMA LifeInit == Init => LifeInv /\ Lifecycle!Init
<1> SUFFICES ASSUME Init PROVE LifeInv /\ Lifecycle!Init
  OBVIOUS
<1>1. RowInv
  BY RowInit
<1>2. \A p \in Procs : proc[p].at = "asleep"
  BY DEF Init, NewProc
<1>3. HandInv
  BY <1>2 DEF HandInv
<1>4. DOMAIN runs = {}
  BY DEF Init
<1>5. \A r : Shown(r) = "none" /\ Holders(r) = {}
  BY <1>4 DEF Shown, Holders
<1>6. Views
  BY <1>1, <1>3, Seen DEF RowInv, Hands
<1>7. Lifecycle!Init
  BY <1>5, <1>6 DEF Views, Lifecycle!Init
<1> QED BY <1>1, <1>3, <1>7 DEF LifeInv

\* The runs of the scheduler, the webhooks and the direct requests go through the
\* lifecycle of every run: only who has created a run, or its coroutine, writes it freely,
\* everything else (abort, the sweep, a start-up) with the guard of its statement, for any
\* number of processes, crashes, updates and refused statements.
THEOREM LifecycleImplemented == Spec => ImplementsLifecycle
<1>1. Spec => []LifeInv
  BY LifeInit, LifeNext, PTL DEF Spec
<1> QED BY <1>1, LifeInit, LifeNext, PTL DEF Spec, ImplementsLifecycle, Lifecycle!Spec

Proved == INSTANCE RunLifecycleProofs
  WITH Runs <- Followed, Owners <- Procs, status <- StatusOf, owners <- OwnersOf

\* A settled run that no coroutine and no tick has in hand never changes again: neither the
\* sweep nor a start-up touches it.
THEOREM HistoryIsKept == Spec => Lifecycle!HistoryIsFinal
<1>1. Lifecycle!Init => Proved!Init
  BY DEF Lifecycle!Init, Proved!Init
<1>2. [Lifecycle!Next]_(Lifecycle!vars) => [Proved!Next]_(Proved!vars)
  BY DEF Lifecycle!vars, Proved!vars, Lifecycle!Next, Proved!Next,
         Lifecycle!Create, Lifecycle!Claim, Lifecycle!Start, Lifecycle!Leave,
         Lifecycle!Conclude, Lifecycle!Abort, Lifecycle!Sweep, Lifecycle!Startup,
         Lifecycle!Exit, Lifecycle!Write, Lifecycle!Join, Lifecycle!Part,
         Lifecycle!Settled, Lifecycle!Paused, Lifecycle!Open,
         Proved!Create, Proved!Claim, Proved!Start, Proved!Leave,
         Proved!Conclude, Proved!Abort, Proved!Sweep, Proved!Startup,
         Proved!Exit, Proved!Write, Proved!Join, Proved!Part,
         Proved!Settled, Proved!Paused, Proved!Open
<1>3. Lifecycle!Spec => Proved!Spec
  BY <1>1, <1>2, PTL DEF Lifecycle!Spec, Proved!Spec
<1>4. Proved!Spec => Proved!HistoryIsFinal
  BY Proved!HistoryStays
<1>5. Proved!HistoryIsFinal => Lifecycle!HistoryIsFinal
  BY DEF Proved!HistoryIsFinal, Lifecycle!HistoryIsFinal, Proved!vars, Lifecycle!vars,
         Proved!Settled, Lifecycle!Settled
<1> QED BY <1>3, <1>4, <1>5, LifecycleImplemented, PTL DEF ImplementsLifecycle
=============================================================================
