------------------------- MODULE RunLifecycleProofs -------------------------
(***************************************************************************)
(* What the lifecycle of a run promises, for any runs and any owners.      *)
(* FlightplanProofs, ChatRunProofs and ServiceProofs show that the engine, *)
(* the chats and the service implement the lifecycle, so that they keep    *)
(* these promises too.                                                     *)
(***************************************************************************)
EXTENDS RunLifecycle, TLAPS

\* Every step of every operation keeps the statuses in the enum.
LEMMA TypeStep == TypeOK /\ [Next]_vars => TypeOK'
<1> SUFFICES ASSUME TypeOK, [Next]_vars PROVE TypeOK'
  OBVIOUS
<1>1. CASE UNCHANGED vars
  BY <1>1 DEF vars, TypeOK
<1>2. ASSUME NEW r \in Runs, NEW o \in Owners,
             Create(r, o) \/ Claim(r, o) \/ Start(r, o) \/ Leave(r, o)
      PROVE  TypeOK'
  BY <1>2 DEF Create, Claim, Start, Leave, Write, Join, Part, TypeOK, Status, Open
<1>3. ASSUME NEW r \in Runs, NEW o \in Owners, NEW s \in Settled \cup Paused,
             Conclude(r, o, s)
      PROVE  TypeOK'
  BY <1>3 DEF Conclude, Write, Part, TypeOK, Status, Open
<1>4. ASSUME NEW r \in Runs, Abort(r) PROVE TypeOK'
  BY <1>4 DEF Abort, Write, TypeOK, Status, Settled
<1>5. CASE Sweep
  BY <1>5 DEF Sweep, TypeOK, Status, Settled
<1>6. CASE Startup
  BY <1>6 DEF Startup, TypeOK, Status, Settled
<1>7. CASE Exit
  BY <1>7 DEF Exit, TypeOK
<1> QED BY <1>1, <1>2, <1>3, <1>4, <1>5, <1>6, <1>7 DEF Next

\* Type correctness: a run's status is one of the run_status enum.
THEOREM TypeCorrect == Spec => []TypeOK
<1>1. Init => TypeOK
  BY DEF Init, TypeOK, Status
<1> QED BY <1>1, TypeStep, PTL DEF Spec

\* A settled run that nobody owns stays as it is, and unowned.
FinalStep ==
  \A r \in Runs : status[r] \in Settled /\ owners[r] = {} =>
    status'[r] = status[r] /\ owners'[r] = {}

\* No operation touches a settled run without an owner: each has a guard that
\* such a run does not satisfy.
LEMMA FinalIsFinal == TypeOK /\ [Next]_vars => FinalStep
<1> SUFFICES ASSUME TypeOK, [Next]_vars, NEW r \in Runs,
                    status[r] \in Settled, owners[r] = {}
             PROVE  status'[r] = status[r] /\ owners'[r] = {}
  BY DEF FinalStep
<1>1. CASE UNCHANGED vars
  BY <1>1 DEF vars
<1>2. ASSUME NEW q \in Runs, NEW o \in Owners,
             Create(q, o) \/ Claim(q, o) \/ Start(q, o) \/ Leave(q, o)
      PROVE  status'[r] = status[r] /\ owners'[r] = {}
  <2>1. q # r
    BY <1>2 DEF Create, Claim, Start, Leave, Settled, Paused
  <2> QED BY <1>2, <2>1 DEF Create, Claim, Start, Leave, Write, Join, Part, TypeOK
<1>3. ASSUME NEW q \in Runs, NEW o \in Owners, NEW s \in Settled \cup Paused,
             Conclude(q, o, s)
      PROVE  status'[r] = status[r] /\ owners'[r] = {}
  <2>1. q # r
    BY <1>3 DEF Conclude
  <2> QED BY <1>3, <2>1 DEF Conclude, Write, Part, TypeOK
<1>4. ASSUME NEW q \in Runs, Abort(q) PROVE status'[r] = status[r] /\ owners'[r] = {}
  BY <1>4 DEF Abort, Write, Settled, Open, Paused, TypeOK
<1>5. CASE Sweep
  BY <1>5 DEF Sweep, Settled, Paused
<1>6. CASE Startup
  BY <1>6 DEF Startup, Settled
<1>7. CASE Exit
  BY <1>7 DEF Exit
<1> QED BY <1>1, <1>2, <1>3, <1>4, <1>5, <1>6, <1>7 DEF Next

\* A settled run that no handler and no coroutine owns any more is history: neither
\* a late request, nor a sweep, nor a start-up changes it.
THEOREM HistoryStays == Spec => HistoryIsFinal
<1>1. TypeOK /\ [Next]_vars => [FinalStep]_vars
  BY FinalIsFinal
<1> QED BY <1>1, TypeCorrect, PTL DEF Spec, HistoryIsFinal, FinalStep
=============================================================================
