--------------------------- MODULE ChatRunProofs ---------------------------
(***************************************************************************)
(* Theorems about a chat run: its types, that no mutating call runs        *)
(* without a grant, that a paused run can be gone on with, that its rows   *)
(* are a sequence, and that it implements RunLifecycle.                    *)
(*                                                                         *)
(* First what each action does to the task, the row and the history, one   *)
(* lemma per action; the invariants then rest on these lemmas and not on   *)
(* the actions.                                                            *)
(***************************************************************************)
EXTENDS ChatRun, FiniteSetTheorems, SequenceTheorems, WellFoundedInduction, TLAPS

-----------------------------------------------------------------------------
(* The operators of the loop keep their types *)

USE ToolsAssumption, RoundsAssumption

LEMMA NewSegmentType ==
  ASSUME NEW conv \in Conversations PROVE NewSegment(conv) \in Segments
BY DEF NewSegment, Segments, Conversations

LEMMA NewConversationType == NewConversation \in Conversations
BY DEF NewConversation, Conversations

LEMMA LeaveType ==
  ASSUME NEW seg \in Segments
  PROVE  Leave(seg) \in Segments /\ Leave(seg).conv = seg.conv
BY NewSegmentType DEF Leave, Segments, NewSegment

LEMMA ProposeType ==
  ASSUME NEW seg \in Segments, NEW round \in Rounds
  PROVE  /\ Propose(seg, round) \in Segments
         /\ Propose(seg, round).conv.open = round
         /\ Propose(seg, round).conv.denied = seg.conv.denied
BY DEF Propose, Segments, Conversations

LEMMA BeginType ==
  ASSUME NEW seg \in Segments, NEW round \in Rounds
  PROVE  /\ Begin(seg, round) \in Segments
         /\ Begin(seg, round).todo = round
         /\ Begin(seg, round).conv.denied = seg.conv.denied
BY DEF Begin, Segments, Conversations

LEMMA AnswerType ==
  ASSUME NEW seg \in Segments, seg.todo # <<>>
  PROVE  /\ Answer(seg) \in Segments
         /\ Answer(seg).todo = Tail(seg.todo)
         /\ Answer(seg).conv = seg.conv
<1>1. Tail(seg.todo) \in Seq(Calls) /\ Head(seg.todo) \in Calls
  BY DEF Segments
<1>2. [seg.counts EXCEPT ![Head(seg.todo)] = @ + 1] \in [Calls -> Nat]
  BY <1>1 DEF Segments
<1> QED BY <1>1, <1>2 DEF Answer, Segments

LEMMA CompleteType ==
  ASSUME NEW seg \in Segments
  PROVE  Complete(seg) \in Segments /\ Complete(seg).conv.denied = seg.conv.denied
<1>1. [seg.conv EXCEPT !.open = <<>>] \in Conversations
  BY EmptySeq DEF Segments, Conversations
<1>2. seg.iter + 1 \in Nat
  BY DEF Segments
<1>3. Complete(seg) = [[seg EXCEPT !.conv = [seg.conv EXCEPT !.open = <<>>]]
                              EXCEPT !.iter = seg.iter + 1]
  BY DEF Complete, Segments
<1> QED BY <1>1, <1>2, <1>3 DEF Segments, Conversations

LEMMA RepliedType ==
  ASSUME NEW conv \in Conversations, In(Ask, conv.open)
  PROVE  Replied(conv) \in Conversations
<1> DEFINE k == CHOOSE j \in DOMAIN conv.open :
                  conv.open[j] = Ask /\ \A i \in 1..(j - 1) : conv.open[i] # Ask
           n == Len(conv.open) - 1
           s == [i \in 1..n |-> IF i < k THEN conv.open[i] ELSE conv.open[i + 1]]
<1>1. conv.open \in Seq(Calls) /\ Len(conv.open) \in Nat /\ DOMAIN conv.open = 1..Len(conv.open)
  BY DEF Conversations
<1>2. n \in Nat
  BY <1>1 DEF In
<1>3. \A i \in 1..n : i \in 1..Len(conv.open) /\ i + 1 \in 1..Len(conv.open)
  BY <1>1
<1>4. \A i \in 1..n : conv.open[i] \in Calls /\ conv.open[i + 1] \in Calls
  BY <1>1, <1>3, ElementOfSeq
<1> HIDE DEF k
<1>5. s \in [1..n -> Calls]
  BY <1>4
<1>6. s \in Seq(Calls)
  BY <1>2, <1>5, SeqDef
<1>7. Replied(conv) = [conv EXCEPT !.open = s]
  BY DEF Replied, k
<1> HIDE DEF s
<1> QED BY <1>6, <1>7 DEF Conversations

LEMMA DecidedType ==
  ASSUME NEW conv \in Conversations, NEW approved \in BOOLEAN
  PROVE  Decided(conv, approved) \in Conversations
BY DEF Decided, Conversations

LEMMA OccurrencesType ==
  ASSUME NEW c, NEW round \in Seq(Calls)
  PROVE  /\ IsFiniteSet({k \in DOMAIN round : round[k] = c})
         /\ Occurrences(c, round) \in Nat
<1> DEFINE S == {k \in DOMAIN round : round[k] = c}
<1>1. IsFiniteSet(1..Len(round))
  BY FS_Interval
<1>2. S \subseteq 1..Len(round)
  OBVIOUS
<1>3. IsFiniteSet(S)
  BY <1>1, <1>2, FS_Subset
<1> QED BY <1>3, FS_CardinalityType DEF Occurrences


\* The command a paused round shows is one that needs the user: the first such call
\* of the round is well defined as soon as there is one.
LEMMA PendingCommandGated ==
  ASSUME NEW conv \in Conversations, Gated(conv) # {}
  PROVE  /\ PendingCommand(conv) \in Mutating \ conv.denied
         /\ In(PendingCommand(conv), conv.open)
<1> DEFINE G == Gated(conv)
           R == {ss \in Nat \X Nat : ss[1] < ss[2]}
           least == CHOOSE k \in G : \A j \in G : k <= j
<1>1. G \subseteq Nat
  BY DEF Gated, Conversations
<1>2. IsWellFoundedOn(R, Nat)
  BY NatLessThanWellFounded DEF OpToRel
<1>3. \A m, n \in Nat : <<m, n>> \in R <=> m < n
  OBVIOUS
<1> HIDE DEF R, G
<1>4. PICK n \in G : \A m \in G : ~(<<m, n>> \in R)
  BY <1>1, <1>2, WFMin DEF G
<1>5. ASSUME NEW m \in G PROVE n <= m
  <2>1. ~(m < n) /\ m \in Nat /\ n \in Nat
    BY <1>1, <1>3, <1>4
  <2> QED BY <2>1
<1>6. least \in G
  BY <1>4, <1>5
<1>7. PendingCommand(conv) = conv.open[least]
  BY DEF PendingCommand, G
<1> HIDE DEF least
<1> QED BY <1>6, <1>7 DEF G, Gated, In

-----------------------------------------------------------------------------
(* What the actions do, one lemma each; the invariants below use only these *)

\* What a run with status s needs to find in its conversation, if cmd is what its
\* user is asked about.
Answerable(s, conv, cmd) ==
  /\ s = "awaiting_user_input" => In(Ask, conv.open)
  /\ s = "awaiting_command_approval" =>
       cmd \in Mutating \ conv.denied /\ In(cmd, conv.open)

\* Where a coroutine has an outcome.
Pausing == {"step", "row", "stash", "pause"}

\* A round that is being executed has a call left, and one that waits for the user
\* has what the user is to be asked about.
Fit(j) == /\ j.pc = "tools" => j.seg.todo # <<>>
          /\ j.pc \in Pausing => Answerable(j.outcome, j.seg.conv, PendingCommand(j.seg.conv))

TasksFit == \A t \in Tasks : Fit(task[t])

TypeInv == TypeOK /\ TasksFit

Histories == [granted : [Mutating -> Nat], shown : [Mutating -> Nat],
              done : [Mutating -> Nat], bundled : BOOLEAN,
              double : BOOLEAN, dense : BOOLEAN]

\* Between two states a run's history of approvals is the same; nothing but dense may
\* change in its history ...
SameGrants(q)   == /\ hist'[q].granted = hist[q].granted
                   /\ hist'[q].shown = hist[q].shown
                   /\ hist'[q].bundled <=> hist[q].bundled

SameButDense(q) == /\ SameGrants(q)
                   /\ hist'[q].done = hist[q].done
                   /\ hist'[q].double <=> hist[q].double

\* ... and nothing but done.
SameButDone(q) == /\ SameGrants(q)
                  /\ hist'[q].double <=> hist[q].double
                  /\ hist'[q].dense <=> hist[q].dense

LEMMA AddRunStepEffect ==
  ASSUME TypeOK, NEW r \in Runs, NEW order \in Nat, AddRunStep(r, order)
  PROVE  /\ rows' \in [Runs -> Nat] /\ hist' \in [Runs -> Histories]
         /\ \A q \in Runs : SameButDense(q)
         /\ \A q \in Runs \ {r} : rows'[q] = rows[q] /\ hist'[q] = hist[q]
         /\ rows'[r] = rows[r] + 1
         /\ hist'[r].dense <=> hist[r].dense /\ order = rows[r]
<1> DEFINE d == hist[r].dense /\ order = rows[r]
           new == [hist[r] EXCEPT !.dense = d]
<1>1. hist \in [Runs -> Histories] /\ rows \in [Runs -> Nat]
  BY DEF TypeOK, Histories
<1>2. hist' = [hist EXCEPT ![r] = new]
  BY <1>1 DEF AddRunStep
<1>3. d \in BOOLEAN
  OBVIOUS
<1> HIDE DEF d
<1>4. new \in Histories /\ new.granted = hist[r].granted /\ new.done = hist[r].done
      /\ new.shown = hist[r].shown /\ new.bundled = hist[r].bundled
      /\ new.double = hist[r].double /\ new.dense = d
  BY <1>1, <1>3 DEF Histories
<1> HIDE DEF new
<1>5. /\ hist' \in [Runs -> Histories]
      /\ hist'[r] = new
      /\ \A q \in Runs \ {r} : hist'[q] = hist[q]
  BY <1>1, <1>2, <1>4
<1>6. \A q \in Runs : SameButDense(q)
  BY <1>1, <1>4, <1>5 DEF SameButDense, SameGrants
<1>7. /\ rows' \in [Runs -> Nat]
      /\ rows'[r] = rows[r] + 1
      /\ \A q \in Runs \ {r} : rows'[q] = rows[q]
  BY <1>1 DEF AddRunStep
<1>8. hist'[r].dense <=> hist[r].dense /\ order = rows[r]
  BY <1>4, <1>5 DEF d
<1> QED BY <1>5, <1>6, <1>7, <1>8

LEMMA RanEffect ==
  ASSUME TypeOK, NEW r \in Runs, NEW c \in Calls, Ran(r, c)
  PROVE  /\ hist' \in [Runs -> Histories]
         /\ \A q \in Runs : SameButDone(q)
         /\ \A q \in Runs, m \in Mutating :
              hist'[q].done[m] = IF q = r /\ m = c THEN hist[q].done[m] + 1
                                                   ELSE hist[q].done[m]
<1>1. hist \in [Runs -> Histories]
  BY DEF TypeOK, Histories
<1>2. CASE c \in Mutating
  <2> DEFINE d == [hist[r].done EXCEPT ![c] = @ + 1]
             new == [hist[r] EXCEPT !.done = d]
  <2>1. hist' = [hist EXCEPT ![r] = new]
    BY <1>1, <1>2 DEF Ran
  <2>2. d \in [Mutating -> Nat] /\ d[c] = hist[r].done[c] + 1
        /\ \A m \in Mutating \ {c} : d[m] = hist[r].done[m]
    BY <1>1, <1>2 DEF Histories
  <2> HIDE DEF d
  <2>3. new \in Histories /\ new.granted = hist[r].granted /\ new.done = d
        /\ new.shown = hist[r].shown /\ (new.bundled <=> hist[r].bundled)
        /\ (new.double <=> hist[r].double) /\ (new.dense <=> hist[r].dense)
    BY <1>1, <2>2 DEF Histories
  <2> HIDE DEF new
  <2>4. /\ hist' \in [Runs -> Histories]
        /\ hist'[r] = new
        /\ \A q \in Runs \ {r} : hist'[q] = hist[q]
    BY <1>1, <2>1, <2>3
  <2>5. \A q \in Runs : SameButDone(q)
    BY <1>1, <2>3, <2>4 DEF SameButDone, SameGrants
  <2> QED BY <2>2, <2>3, <2>4, <2>5
<1>3. CASE c \notin Mutating
  BY <1>1, <1>3 DEF Ran, SameButDone, SameGrants
<1> QED BY <1>2, <1>3

\* Task t makes a step, or is started, for run r; no other task changes.
Takes(t, r) == /\ task' = [task EXCEPT ![t] = task'[t]]
               /\ task'[t] \in Task
               /\ task'[t].run = r
               /\ Fit(task'[t])

Moves(t) == Takes(t, task[t].run)

\* What the row and its history have in common in the two states.
SameRow  == UNCHANGED <<status, provider, pend, rows, aged, left, hist, asked, lost>>

LEMMA SetTask ==
  ASSUME TypeOK, NEW t \in Tasks, NEW new \in Task,
         Fit(new),
         task' = [task EXCEPT ![t] = new]
  PROVE  /\ Takes(t, new.run) /\ task'[t] = new
         /\ new.run = task[t].run => Moves(t)
BY DEF Moves, Takes, TypeOK

LEMMA WindingType ==
  ASSUME TypeOK, NEW t \in Tasks, NEW p \in {"idle"} \cup Background
  PROVE  /\ Winding(t, p) \in Task
         /\ Winding(t, p).pc = p
         /\ Winding(t, p).run = task[t].run
         /\ p # "tools" => Fit(Winding(t, p))
         /\ Fit(Done(t))
         /\ Done(t) \in Task
         /\ Done(t).pc = "idle"
         /\ Done(t).run = task[t].run
BY NewConversationType, NewSegmentType
   DEF Winding, Done, NoTask, NewTask, Task, TypeOK, Fit, Answerable

\* A coroutine's program counter changes, or that and one more local.
LEMMA SetPc ==
  ASSUME TypeInv, NEW t \in Tasks, NEW p \in Handling \cup Background, p # "tools",
         p \in Pausing => task[t].pc \in Pausing,
         task' = [task EXCEPT ![t].pc = p]
  PROVE  /\ Moves(t)
         /\ task'[t].pc = p /\ task'[t].seg = task[t].seg /\ task'[t].order = task[t].order
         /\ task'[t].next = task[t].next /\ task'[t].outcome = task[t].outcome /\ task'[t].may = task[t].may
<1> DEFINE new == [task[t] EXCEPT !.pc = p]
<1>0. TypeOK /\ task[t] \in Task /\ Fit(task[t])
  BY DEF TypeInv, TypeOK, TasksFit
<1>1. /\ new \in Task /\ new.run = task[t].run
      /\ new.pc = p /\ new.seg = task[t].seg /\ new.order = task[t].order
      /\ new.next = task[t].next /\ new.outcome = task[t].outcome /\ new.may = task[t].may
  BY <1>0 DEF Task
<1>2. task' = [task EXCEPT ![t] = new]
  BY <1>0 DEF TypeOK
<1>3. Fit(new)
  BY <1>0, <1>1 DEF Fit
<1> HIDE DEF new
<1>4. Moves(t) /\ task'[t] = new
  BY <1>0, <1>1, <1>2, <1>3, SetTask
<1> QED BY <1>1, <1>4

LEMMA SetPcOrder ==
  ASSUME TypeInv, NEW t \in Tasks, NEW p \in Handling \cup Background, p # "tools",
         p \in Pausing => task[t].pc \in Pausing,
         NEW n \in Nat,
         task' = [task EXCEPT ![t].pc = p, ![t].order = n]
  PROVE  /\ Moves(t)
         /\ task'[t].pc = p /\ task'[t].order = n /\ task'[t].seg = task[t].seg
         /\ task'[t].next = task[t].next /\ task'[t].outcome = task[t].outcome /\ task'[t].may = task[t].may
<1> DEFINE new == [task[t] EXCEPT !.pc = p, !.order = n]
<1>0. TypeOK /\ task[t] \in Task /\ Fit(task[t])
  BY DEF TypeInv, TypeOK, TasksFit
<1>1. /\ new \in Task /\ new.run = task[t].run
      /\ new.pc = p /\ new.order = n /\ new.seg = task[t].seg
      /\ new.next = task[t].next /\ new.outcome = task[t].outcome /\ new.may = task[t].may
  BY <1>0 DEF Task
<1>2. task' = [task EXCEPT ![t] = new]
  BY <1>0 DEF TypeOK, Task
<1>3. Fit(new)
  BY <1>0, <1>1 DEF Fit
<1> HIDE DEF new
<1>4. Moves(t) /\ task'[t] = new
  BY <1>0, <1>1, <1>2, <1>3, SetTask
<1> QED BY <1>1, <1>4

LEMMA SetPcSeg ==
  ASSUME TypeInv, NEW t \in Tasks, NEW p \in Handling \cup Background, p # "tools",
         p \in Pausing => task[t].pc \in Pausing,
         NEW seg \in Segments,
         p \notin Pausing,
         task' = [task EXCEPT ![t].pc = p, ![t].seg = seg]
  PROVE  /\ Moves(t)
         /\ task'[t].pc = p /\ task'[t].seg = seg /\ task'[t].order = task[t].order
         /\ task'[t].next = task[t].next /\ task'[t].outcome = task[t].outcome /\ task'[t].may = task[t].may
<1> DEFINE new == [task[t] EXCEPT !.pc = p, !.seg = seg]
<1>0. TypeOK /\ task[t] \in Task /\ Fit(task[t])
  BY DEF TypeInv, TypeOK, TasksFit
<1>1. /\ new \in Task /\ new.run = task[t].run
      /\ new.pc = p /\ new.seg = seg /\ new.order = task[t].order
      /\ new.next = task[t].next /\ new.outcome = task[t].outcome /\ new.may = task[t].may
  BY <1>0 DEF Task
<1>2. task' = [task EXCEPT ![t] = new]
  BY <1>0 DEF TypeOK, Task
<1>3. Fit(new)
  BY <1>0, <1>1 DEF Fit
<1> HIDE DEF new
<1>4. Moves(t) /\ task'[t] = new
  BY <1>0, <1>1, <1>2, <1>3, SetTask
<1> QED BY <1>1, <1>4

LEMMA SpawnMoves ==
  ASSUME TypeInv, NEW t \in Tasks, Spawn(t)
  PROVE  /\ Moves(t) /\ SameRow
         /\ task[t].pc \in {"created", "replying"}
         /\ task'[t].pc = "mark"
<1>1. SameRow /\ task[t].pc \in {"created", "replying"} /\ task[t] \in Task
  BY DEF Spawn, SameRow, TypeInv, TypeOK
<1>2. CASE task' = [task EXCEPT ![t].pc = "mark"]
  BY <1>1, <1>2, SetPc DEF Background, Task, Pausing
<1>3. CASE /\ task[t].pc = "replying"
           /\ In(Ask, task[t].seg.conv.open)
           /\ task' = [task EXCEPT ![t].pc = "mark",
                                   ![t].seg = NewSegment(Replied(task[t].seg.conv))]
  <2>1. NewSegment(Replied(task[t].seg.conv)) \in Segments
    BY <1>1, <1>3, RepliedType, NewSegmentType DEF Task, Segments
  <2>2. "mark" \in Handling \cup Background /\ "mark" \notin Pausing \cup {"tools"}
    BY DEF Background, Pausing
  <2> QED BY <1>1, <1>3, <2>1, <2>2, SetPcSeg
<1> QED BY <1>1, <1>2, <1>3 DEF Spawn

LEMMA ExecutePausedMoves ==
  ASSUME TypeOK, NEW t \in Tasks, ExecutePaused(t)
  PROVE  /\ Moves(t) /\ UNCHANGED <<status, provider, pend, rows, aged, left, asked, lost>>
         /\ task[t].pc = "deciding" /\ task'[t].pc = "deciding"
         /\ task[t].seg.todo # <<>>
         /\ task'[t].seg.todo = Tail(task[t].seg.todo)
         /\ task'[t].approved = task[t].approved
         /\ IF RunsDecided(Head(task[t].seg.todo), task[t].approved)
              THEN Ran(task[t].run, Head(task[t].seg.todo)) ELSE UNCHANGED hist
<1>1. /\ task[t] \in Task /\ task[t].pc = "deciding"
      /\ task[t].seg \in Segments /\ task[t].seg.todo # <<>>
  BY DEF ExecutePaused, TypeOK, Task
<1>2. task' = [task EXCEPT ![t].seg.todo = Tail(@)]
  BY DEF ExecutePaused
<1> DEFINE seg == [task[t].seg EXCEPT !.todo = Tail(@)]
           new == [task[t] EXCEPT !.seg = seg]
<1>3. Tail(task[t].seg.todo) \in Seq(Calls)
  BY <1>1 DEF Segments
<1>4. seg \in Segments /\ seg.todo = Tail(task[t].seg.todo)
  BY <1>1, <1>3 DEF Segments
<1>5. task' = [task EXCEPT ![t] = new]
  BY <1>1, <1>2, <1>4 DEF TypeOK
<1> HIDE DEF seg
<1>6. new \in Task /\ new.seg = seg /\ new.run = task[t].run /\ new.pc = task[t].pc
      /\ new.approved = task[t].approved /\ Fit(new)
  BY <1>1, <1>4 DEF Task, Fit, Pausing
<1> HIDE DEF new
<1>7. Moves(t) /\ task'[t] = new
  BY <1>1, <1>5, <1>6, SetTask
<1> QED BY <1>1, <1>4, <1>6, <1>7 DEF ExecutePaused

LEMMA CountDecidedMoves ==
  ASSUME TypeInv, NEW t \in Tasks, CountDecided(t)
  PROVE  /\ Moves(t) /\ SameRow
         /\ task[t].pc = "deciding" /\ task'[t].pc = "recording"
         /\ task'[t].order = rows[task[t].run]
<1> DEFINE n == rows[task[t].run]
<1>1. n \in Nat
  BY DEF TypeInv, TypeOK, Task
<1>2. /\ SameRow /\ task[t].pc = "deciding"
      /\ task' = [task EXCEPT ![t].pc = "recording", ![t].order = n]
  BY DEF CountDecided, SameRow
<1>3. "recording" \in Handling \cup Background /\ "recording" \notin Pausing \cup {"tools"}
  BY DEF Handling, Pausing
<1>4. n = rows[task[t].run]
  OBVIOUS
<1> HIDE DEF n
<1>5. Moves(t) /\ task'[t].pc = "recording" /\ task'[t].order = n
  BY <1>1, <1>2, <1>3, SetPcOrder
<1> QED BY <1>2, <1>4, <1>5

LEMMA RecordDecidedMoves ==
  ASSUME TypeInv, NEW t \in Tasks, RecordDecided(t)
  PROVE  /\ Moves(t) /\ UNCHANGED <<status, provider, pend, aged, left, asked, lost>>
         /\ task[t].pc = "recording" /\ task'[t].pc = "mark"
         /\ AddRunStep(task[t].run, task[t].order)
<1> DEFINE seg == NewSegment(Decided(task[t].seg.conv, task[t].approved))
<1>1. TypeOK /\ task[t] \in Task
  BY DEF TypeInv, TypeOK
<1>2. seg \in Segments
  BY <1>1, DecidedType, NewSegmentType DEF Task, Segments
<1>3. task' = [task EXCEPT ![t].pc = "mark", ![t].seg = seg]
  BY <1>1 DEF RecordDecided, TypeOK, Task
<1> HIDE DEF seg
<1>4. Moves(t) /\ task'[t].pc = "mark"
  <2>1. "mark" \in Handling \cup Background /\ "mark" \notin Pausing \cup {"tools"}
    BY DEF Background, Pausing
  <2> QED BY <1>2, <1>3, <2>1, SetPcSeg
<1> QED BY <1>4 DEF RecordDecided

LEMMA MarkMoves ==
  ASSUME TypeInv, NEW t \in Tasks, Mark(t)
  PROVE  /\ Moves(t) /\ UNCHANGED <<provider, pend, rows, aged, left, hist, asked, lost>>
         /\ task[t].pc = "mark" /\ task'[t].pc = "count"
         /\ status' = [status EXCEPT ![task[t].run] =
              IF status[task[t].run] \in {"queued"} \cup Waiting THEN "running"
                                                    ELSE status[task[t].run]]
<1>1. task[t] \in Task
  BY DEF TypeInv, TypeOK
<1> QED BY <1>1, SetPc DEF Mark, SetStatus, Task, Background, Pausing

LEMMA CountMoves ==
  ASSUME TypeInv, NEW t \in Tasks, Count(t)
  PROVE  /\ Moves(t) /\ SameRow
         /\ task[t].pc = "count" /\ task'[t].pc = "model"
         /\ task'[t].order = rows[task[t].run]
<1> DEFINE n == rows[task[t].run]
<1>1. n \in Nat
  BY DEF TypeInv, TypeOK, Task
<1>2. /\ SameRow /\ task[t].pc = "count"
      /\ task' = [task EXCEPT ![t].pc = "model", ![t].order = n]
  BY DEF Count, SameRow, StartOrder
<1>3. "model" \in Handling \cup Background /\ "model" \notin Pausing \cup {"tools"}
  BY DEF Background, Pausing
<1>4. n = rows[task[t].run]
  OBVIOUS
<1> HIDE DEF n
<1>5. Moves(t) /\ task'[t].pc = "model" /\ task'[t].order = n
  BY <1>1, <1>2, <1>3, SetPcOrder
<1> QED BY <1>2, <1>4, <1>5

\* A step that leaves the loop for on_step, or for the row of the result.
LEMMA ThenStepMoves ==
  ASSUME TypeOK, NEW t \in Tasks, NEW seg \in Segments, NEW next \in {"model", "row"},
         NEW outcome \in {"success"} \cup Waiting,
         Answerable(outcome, seg.conv, PendingCommand(seg.conv)),
         ThenStep(t, seg, next, outcome)
  PROVE  /\ Moves(t)
         /\ task'[t].pc = "step" /\ task'[t].next = next /\ task'[t].outcome = outcome
         /\ task'[t].order = task[t].order /\ task'[t].seg.conv = seg.conv
<1> DEFINE left0 == IF next = "row" THEN Leave(seg) ELSE seg
           new == [task[t] EXCEPT !.pc = "step", !.next = next, !.outcome = outcome,
                                  !.seg = left0]
<1>0. task[t] \in Task
  BY DEF TypeOK
<1>1. left0 \in Segments /\ left0.conv = seg.conv
  BY LeaveType
<1>2. task' = [task EXCEPT ![t].pc = "step", ![t].next = next, ![t].outcome = outcome,
                       ![t].seg = left0]
  BY DEF ThenStep
<1> HIDE DEF left0
<1>3. /\ new \in Task /\ new.run = task[t].run
      /\ new.pc = "step" /\ new.next = next /\ new.outcome = outcome
      /\ new.order = task[t].order /\ new.seg = left0
  BY <1>0, <1>1 DEF Task, Background
<1>4. task' = [task EXCEPT ![t] = new]
  BY <1>0, <1>2 DEF TypeOK, Task
<1>5. Fit(new)
  BY <1>1, <1>3 DEF Fit
<1> HIDE DEF new
<1>6. Moves(t) /\ task'[t] = new
  BY <1>3, <1>4, <1>5, SetTask
<1> QED BY <1>1, <1>3, <1>6

LEMMA ModelConcludesMoves ==
  ASSUME TypeOK, NEW t \in Tasks, ModelConcludes(t)
  PROVE  /\ Moves(t) /\ SameRow
         /\ task[t].pc = "model" /\ task'[t].pc = "step"
         /\ task'[t].outcome = "success"
         /\ task'[t].order = task[t].order
<1>1. task[t].seg \in Segments
  BY DEF TypeOK, Task
<1>2. /\ SameRow /\ task[t].pc = "model"
      /\ ThenStep(t, task[t].seg, "row", "success")
  BY DEF ModelConcludes, SameRow
<1>3. \A conv : Answerable("success", conv, PendingCommand(conv))
  BY DEF Answerable
<1> QED BY <1>1, <1>2, <1>3, ThenStepMoves

\* A round is executed only if none of its calls needs the user.
LEMMA ModelProposesMoves ==
  ASSUME TypeOK, NEW t \in Tasks, ModelProposes(t)
  PROVE  /\ Moves(t) /\ SameRow
         /\ task[t].pc = "model"
         /\ \/ /\ task'[t].pc = "step"
               /\ task'[t].order = task[t].order
            \/ \E round \in Rounds :
                 /\ task'[t].pc = "tools"
                 /\ task'[t].order = task[t].order /\ task'[t].may = task[t].may
                 /\ task'[t].seg.todo = round
                 /\ task'[t].seg.conv.denied = task[t].seg.conv.denied
                 /\ ~Pauses(task[t].seg, round, task[t].may)
<1> DEFINE seg == task[t].seg
<1>1. SameRow /\ task[t].pc = "model" /\ seg \in Segments
  BY DEF ModelProposes, SameRow, TypeOK, Task
<1>2. PICK round \in Rounds, repeats \in BOOLEAN, empty \in BOOLEAN :
        /\ empty => In(Ask, round)
        /\ IF Looping(seg, provider[task[t].run], round, repeats)
             THEN ThenStep(t, seg, "row", "success")
           ELSE IF In(Ask, round)
             THEN ThenStep(t, Propose(seg, round), "row",
                           IF empty THEN "success" ELSE "awaiting_user_input")
           ELSE IF Pauses(seg, round, task[t].may)
             THEN ThenStep(t, Propose(seg, round), "row", "awaiting_command_approval")
           ELSE task' = [task EXCEPT ![t].pc = "tools", ![t].seg = Begin(seg, round)]
  BY DEF ModelProposes
<1> HIDE DEF seg
<1>3. /\ Propose(seg, round) \in Segments
      /\ Propose(seg, round).conv.open = round
      /\ Propose(seg, round).conv.denied = seg.conv.denied
  BY <1>1, ProposeType
<1> DEFINE told == Propose(seg, round)
<1> HIDE DEF told
<1>4. /\ told \in Segments /\ told.conv \in Conversations
      /\ told.conv.open = round /\ told.conv.denied = seg.conv.denied
  BY <1>3 DEF told, Segments
<1>10. \A conv : Answerable("success", conv, PendingCommand(conv))
  BY DEF Answerable
<1>5. CASE ThenStep(t, seg, "row", "success")
  <2>1. /\ Moves(t) /\ task'[t].pc = "step" /\ task'[t].order = task[t].order
    BY <1>1, <1>5, <1>10, ThenStepMoves
  <2> QED BY <1>1, <2>1
<1>6. CASE In(Ask, round) /\ ThenStep(t, told, "row", "success")
  <2>1. /\ Moves(t) /\ task'[t].pc = "step" /\ task'[t].order = task[t].order
    BY <1>4, <1>6, <1>10, ThenStepMoves
  <2> QED BY <1>1, <2>1
<1>7. CASE In(Ask, round) /\ ThenStep(t, told, "row", "awaiting_user_input")
  <2>1. Answerable("awaiting_user_input", told.conv, PendingCommand(told.conv))
    BY <1>4, <1>7 DEF Answerable
  <2>2. Moves(t) /\ task'[t].pc = "step" /\ task'[t].order = task[t].order
    BY <1>4, <1>7, <2>1, ThenStepMoves DEF Waiting
  <2> QED BY <1>1, <2>2
<1>8. CASE /\ Pauses(seg, round, task[t].may)
           /\ ThenStep(t, told, "row", "awaiting_command_approval")
  <2>1. Gated(told.conv) # {}
    BY <1>4, <1>8 DEF Pauses, GateCall, Gated
  <2>2. Answerable("awaiting_command_approval", told.conv, PendingCommand(told.conv))
    BY <1>4, <2>1, PendingCommandGated DEF Answerable
  <2>3. Moves(t) /\ task'[t].pc = "step" /\ task'[t].order = task[t].order
    BY <1>4, <1>8, <2>2, ThenStepMoves DEF Waiting
  <2> QED BY <1>1, <2>3
<1>9. CASE /\ ~Pauses(seg, round, task[t].may)
           /\ task' = [task EXCEPT ![t].pc = "tools", ![t].seg = Begin(seg, round)]
  <2> DEFINE begun == Begin(seg, round)
  <2>1. /\ begun \in Segments /\ begun.todo = round
        /\ begun.conv.denied = seg.conv.denied
    BY <1>1, BeginType
  <2>2. task' = [task EXCEPT ![t].pc = "tools", ![t].seg = begun]
    BY <1>9
  <2> HIDE DEF begun
  <2> DEFINE new == [task[t] EXCEPT !.pc = "tools", !.seg = begun]
  <2>3. task[t] \in Task
    BY DEF TypeOK
  <2>4. /\ new \in Task /\ new.run = task[t].run /\ new.pc = "tools" /\ new.seg = begun
        /\ new.order = task[t].order /\ new.may = task[t].may
    BY <2>1, <2>3 DEF Task, Background
  <2>5. task' = [task EXCEPT ![t] = new] /\ Fit(new)
    BY <2>1, <2>2, <2>3, <2>4 DEF TypeOK, Task, Fit, Pausing
  <2> HIDE DEF new
  <2>6. Moves(t) /\ task'[t] = new
    BY <2>4, <2>5, SetTask
  <2>7. /\ task'[t].seg.todo = round
        /\ task'[t].seg.conv.denied = task[t].seg.conv.denied
        /\ ~Pauses(task[t].seg, round, task[t].may)
    BY <1>9, <2>1, <2>4, <2>6 DEF seg
  <2> QED BY <1>1, <2>4, <2>7, <2>6
<1> QED BY <1>2, <1>5, <1>6, <1>7, <1>8, <1>9 DEF told

LEMMA ModelFailsMoves ==
  ASSUME TypeOK, NEW t \in Tasks, ModelFails(t)
  PROVE  /\ Moves(t) /\ SameRow
         /\ task[t].pc = "model"
         /\ \/ task'[t].pc = "fail"
            \/ /\ task'[t].pc = "row" /\ task'[t].order = task[t].order
               /\ task'[t].outcome = "success"
<1>1. SameRow /\ task[t].pc = "model" /\ task[t] \in Task
  BY DEF ModelFails, SameRow, TypeOK
<1>2. CASE task' = [task EXCEPT ![t] = Winding(t, "fail")]
  <2>1. "fail" \in Background
    BY DEF Background
  <2> DEFINE new == Winding(t, "fail")
  <2>2. new \in Task /\ new.pc = "fail" /\ new.run = task[t].run /\ Fit(new)
    BY <2>1, WindingType
  <2> HIDE DEF new
  <2>3. Moves(t) /\ task'[t] = new
    BY <1>2, <2>2, SetTask DEF new
  <2> QED BY <1>1, <2>2, <2>3
<1>3. CASE task' = [task EXCEPT ![t] = [task[t] EXCEPT !.pc = "row", !.outcome = "success",
                                                   !.seg = Leave(task[t].seg)]]
  <2> DEFINE gone == Leave(task[t].seg)
             new  == [task[t] EXCEPT !.pc = "row", !.outcome = "success", !.seg = gone]
  <2>1. gone \in Segments
    BY <1>1, LeaveType DEF Task
  <2>2. task' = [task EXCEPT ![t] = new]
    BY <1>3
  <2> HIDE DEF gone
  <2>3. /\ new \in Task /\ new.run = task[t].run
        /\ new.pc = "row" /\ new.outcome = "success" /\ new.order = task[t].order
        /\ Fit(new)
    BY <1>1, <2>1 DEF Task, Background, Fit, Answerable
  <2> HIDE DEF new
  <2>4. Moves(t) /\ task'[t] = new
    BY <2>2, <2>3, SetTask
  <2> QED BY <1>1, <2>3, <2>4
<1>4. \/ task' = [task EXCEPT ![t] = Winding(t, "fail")]
      \/ task' = [task EXCEPT ![t] = [task[t] EXCEPT !.pc = "row", !.outcome = "success",
                                                     !.seg = Leave(task[t].seg)]]
  BY DEF ModelFails
<1> QED BY <1>2, <1>3, <1>4

\* The round's next call: it runs only if CallRuns says so, and the rest of the
\* round follows, or on_step.
LEMMA ExecuteMoves ==
  ASSUME TypeInv, NEW t \in Tasks, Execute(t)
  PROVE  /\ Moves(t) /\ UNCHANGED <<status, provider, pend, rows, aged, left, asked, lost>>
         /\ task[t].pc = "tools" /\ task[t].seg.todo # <<>>
         /\ task'[t].order = task[t].order
         /\ \/ /\ task'[t].pc = "tools" /\ task'[t].may = task[t].may
               /\ task'[t].seg.todo = Tail(task[t].seg.todo)
               /\ task'[t].seg.conv = task[t].seg.conv
            \/ task'[t].pc = "step" /\ task'[t].outcome = "success"
         /\ IF CallRuns(task[t].seg, task[t].may)
              THEN Ran(task[t].run, Head(task[t].seg.todo)) ELSE UNCHANGED hist
<1> DEFINE seg  == task[t].seg
           told == Answer(seg)
           next == IF MayIterate(Complete(told)) THEN "model" ELSE "row"
<1>0. TypeOK
  BY DEF TypeInv
<1>1. /\ task[t] \in Task /\ task[t].pc = "tools"
      /\ seg \in Segments /\ seg.todo # <<>>
  BY DEF TypeInv, TasksFit, Fit, Execute, TypeOK, Task
<1>2. /\ UNCHANGED <<status, provider, pend, rows, aged, left, asked, lost>>
      /\ IF CallRuns(seg, task[t].may) THEN Ran(task[t].run, Head(seg.todo))
                                       ELSE UNCHANGED hist
      /\ IF told.todo # <<>> THEN task' = [task EXCEPT ![t].seg = told]
                             ELSE ThenStep(t, Complete(told), next, "success")
  BY DEF Execute
<1> HIDE DEF seg
<1>3. told \in Segments /\ told.todo = Tail(seg.todo) /\ told.conv = seg.conv
  BY <1>1, AnswerType
<1> HIDE DEF told
<1>4. CASE told.todo # <<>>
  <2> DEFINE new == [task[t] EXCEPT !.seg = told]
  <2>1. /\ new \in Task /\ new.run = task[t].run /\ new.pc = "tools" /\ new.seg = told
        /\ new.order = task[t].order /\ new.may = task[t].may /\ Fit(new)
    BY <1>1, <1>3, <1>4 DEF Task, Fit, Pausing
  <2>2. task' = [task EXCEPT ![t] = new]
    BY <1>1, <1>2, <1>4
  <2> HIDE DEF new
  <2>3. Moves(t) /\ task'[t] = new
    BY <1>0, <1>4, <2>1, <2>2, SetTask
  <2> QED BY <1>1, <1>2, <1>3, <2>1, <2>3 DEF seg
<1>5. CASE told.todo = <<>>
  <2>1. Complete(told) \in Segments /\ next \in {"model", "row"}
    BY <1>3, CompleteType
  <2> HIDE DEF next
  <2>2. ThenStep(t, Complete(told), next, "success")
    BY <1>2, <1>5
  <2>3. Answerable("success", Complete(told).conv, PendingCommand(Complete(told).conv))
    BY DEF Answerable
  <2>4. /\ Moves(t) /\ task'[t].pc = "step" /\ task'[t].outcome = "success"
        /\ task'[t].order = task[t].order
    BY <1>0, <2>1, <2>2, <2>3, ThenStepMoves
  <2> QED BY <1>1, <1>2, <2>4 DEF seg
<1> QED BY <1>4, <1>5

LEMMA OnStepMoves ==
  ASSUME TypeInv, NEW t \in Tasks, OnStep(t)
  PROVE  /\ Moves(t) /\ UNCHANGED <<status, provider, pend, aged, left, asked, lost>>
         /\ AddRunStep(task[t].run, task[t].order)
         /\ task[t].pc = "step" /\ task'[t].pc \in {"model", "row"}
         /\ task'[t].order = task[t].order + 1
         /\ task'[t].outcome = task[t].outcome /\ task'[t].seg = task[t].seg
<1> DEFINE n == task[t].order + 1
           p == task[t].next
<1>1. TypeOK /\ task[t] \in Task
  BY DEF TypeInv, TypeOK
<1>2. n \in Nat /\ p \in {"model", "row"}
  BY <1>1 DEF Task
<1>3. p \in Handling \cup Background /\ p # "tools"
  BY <1>2 DEF Background
<1>4. /\ task[t].pc = "step" /\ AddRunStep(task[t].run, task[t].order)
      /\ UNCHANGED <<status, provider, pend, aged, left, asked, lost>>
      /\ task' = [task EXCEPT ![t].pc = p, ![t].order = n]
  BY <1>1 DEF OnStep, TypeOK, Task
<1>5. n = task[t].order + 1
  OBVIOUS
<1> HIDE DEF n, p
<1>6. task' = [task EXCEPT ![t].pc = p, ![t].order = n]
  BY <1>4
<1>7. p \in Pausing => task[t].pc \in Pausing
  BY <1>4 DEF Pausing
<1>8. /\ Moves(t) /\ task'[t].pc = p /\ task'[t].order = n /\ task'[t].seg = task[t].seg
      /\ task'[t].outcome = task[t].outcome
  BY <1>2, <1>3, <1>6, <1>7, SetPcOrder
<1> QED BY <1>2, <1>4, <1>5, <1>8

LEMMA FinalRowMoves ==
  ASSUME TypeInv, NEW t \in Tasks, FinalRow(t)
  PROVE  /\ Moves(t) /\ UNCHANGED <<status, provider, pend, aged, left, asked, lost>>
         /\ AddRunStep(task[t].run, task[t].order)
         /\ task[t].pc = "row" /\ task'[t].pc \in {"stash", "finish"}
         /\ task'[t].outcome = task[t].outcome /\ task'[t].seg = task[t].seg
<1> DEFINE p == AfterRow(task[t].outcome)
<1>1. p \in {"stash", "finish"}
  BY DEF AfterRow
<1>2. p \in Handling \cup Background /\ p # "tools"
  BY <1>1 DEF Background
<1>3. /\ task[t].pc = "row" /\ AddRunStep(task[t].run, task[t].order)
      /\ UNCHANGED <<status, provider, pend, aged, left, asked, lost>>
      /\ task' = [task EXCEPT ![t].pc = p]
  BY DEF FinalRow
<1> HIDE DEF p
<1>4. /\ Moves(t) /\ task'[t].pc = p /\ task'[t].seg = task[t].seg
      /\ task'[t].outcome = task[t].outcome
  BY <1>2, <1>3, SetPc DEF Pausing
<1> QED BY <1>1, <1>3, <1>4

LEMMA StashMoves ==
  ASSUME TypeInv, NEW t \in Tasks, Stash(t)
  PROVE  /\ Moves(t) /\ UNCHANGED <<status, provider, rows, aged, left, hist, asked, lost>>
         /\ pend' = [pend EXCEPT ![task[t].run] = task[t].seg.conv]
         /\ task[t].pc = "stash" /\ task'[t].pc = "pause"
         /\ task'[t].outcome = task[t].outcome /\ task'[t].seg = task[t].seg
<1>1. "pause" \in Handling \cup Background /\ "pause" # "tools"
  BY DEF Background
<1>2. /\ task[t].pc = "stash" /\ UNCHANGED <<status, provider, rows, aged, left, hist, asked, lost>>
      /\ pend' = [pend EXCEPT ![task[t].run] = task[t].seg.conv]
      /\ task' = [task EXCEPT ![t].pc = "pause"]
  BY DEF Stash
<1> QED BY <1>1, <1>2, SetPc DEF Pausing

LEMMA WindingMoves ==
  ASSUME TypeOK, NEW t \in Tasks, NEW p \in {"idle"} \cup Background, p # "tools",
         task' = [task EXCEPT ![t] = Winding(t, p)]
  PROVE  Moves(t) /\ task'[t].pc = p
<1> DEFINE new == Winding(t, p)
<1>1. new \in Task /\ new.pc = p /\ new.run = task[t].run /\ Fit(new)
  BY WindingType
<1>2. task' = [task EXCEPT ![t] = new]
  OBVIOUS
<1> HIDE DEF new
<1> QED BY <1>1, <1>2, SetTask

LEMMA DoneMoves ==
  ASSUME TypeOK, NEW t \in Tasks, task' = [task EXCEPT ![t] = Done(t)]
  PROVE  Moves(t) /\ task'[t].pc = "idle"
<1> DEFINE new == Done(t)
<1>1. new \in Task /\ new.pc = "idle" /\ new.run = task[t].run /\ Fit(new)
  BY WindingType
<1>2. task' = [task EXCEPT ![t] = new]
  OBVIOUS
<1> HIDE DEF new
<1> QED BY <1>1, <1>2, SetTask

\* The steps that write a verdict.
LEMMA VerdictMoves ==
  ASSUME TypeOK, NEW t \in Tasks, Pause(t) \/ Finish(t) \/ Fail(t)
  PROVE  /\ Moves(t) /\ UNCHANGED <<provider, pend, rows, aged, left, hist, lost>>
         /\ \/ /\ task[t].pc = "pause" /\ task'[t].pc = "epilogue"
               /\ status' = [status EXCEPT ![task[t].run] = task[t].outcome]
               /\ asked' = [asked EXCEPT ![task[t].run] =
                              IF task[t].outcome = "awaiting_command_approval"
                                THEN PendingCommand(task[t].seg.conv) ELSE Ask]
            \/ /\ task[t].pc = "finish" /\ task'[t].pc = "epilogue"
               /\ status' = [status EXCEPT ![task[t].run] = "success"]
               /\ asked' = asked
            \/ /\ task[t].pc = "fail" /\ task'[t].pc = "idle"
               /\ status' = [status EXCEPT ![task[t].run] = "failed"]
               /\ asked' = asked
<1>1. "epilogue" \in Background
  BY DEF Background
<1>2. CASE Pause(t)
  <2>1. task' = [task EXCEPT ![t] = Winding(t, "epilogue")]
    BY <1>2 DEF Pause
  <2>2. Moves(t) /\ task'[t].pc = "epilogue"
    BY <1>1, <2>1, WindingMoves
  <2> QED BY <1>2, <2>2 DEF Pause, SetStatus
<1>3. CASE Finish(t)
  <2>1. task' = [task EXCEPT ![t] = Winding(t, "epilogue")]
    BY <1>3 DEF Finish
  <2>2. Moves(t) /\ task'[t].pc = "epilogue"
    BY <1>1, <2>1, WindingMoves
  <2> QED BY <1>3, <2>2 DEF Finish, SetStatus
<1>4. CASE Fail(t)
  <2>1. task' = [task EXCEPT ![t] = Done(t)]
    BY <1>4 DEF Fail
  <2>2. Moves(t) /\ task'[t].pc = "idle"
    BY <2>1, DoneMoves
  <2> QED BY <1>4, <2>2 DEF Fail, SetStatus
<1> QED BY <1>2, <1>3, <1>4

\* The steps that end a task without one, or send it to record a failure.
LEMMA EndMoves ==
  ASSUME TypeOK, NEW t \in Tasks,
         \/ Epilogue(t) \/ NothingToAnswer(t)
         \/ Raise(t) \/ FailRefused(t) \/ HandlerFails(t)
  PROVE  /\ Moves(t) /\ UNCHANGED <<status, provider, pend, asked, rows, aged, hist>>
         /\ left' \in [Events -> Nat] /\ lost' \subseteq Runs
         /\ Live(t) /\ task'[t].pc \in {"idle", "fail"}
         /\ task'[t].pc = "fail" => task[t].pc \in Background \ {"fail"}
<1>1. "fail" \in Background
  BY DEF Background
<1>2. /\ \A e \in Events : Spend(e) => left' \in [Events -> Nat]
      /\ left \in [Events -> Nat] /\ lost \subseteq Runs
  BY DEF Spend, TypeOK
<1>3. CASE Raise(t)
  <2>1. /\ task' = [task EXCEPT ![t] = Winding(t, "fail")]
        /\ task[t].pc \in Background \ {"fail"} /\ Spend("trouble")
        /\ UNCHANGED <<status, provider, pend, asked, rows, aged, hist, lost>>
    BY <1>3 DEF Raise
  <2>2. Moves(t) /\ task'[t].pc = "fail"
    BY <1>1, <2>1, WindingMoves
  <2> QED BY <1>2, <2>1, <2>2 DEF Live, Background, Events
<1>4. CASE Epilogue(t) \/ FailRefused(t) \/ HandlerFails(t) \/ NothingToAnswer(t)
  <2>1. task' = [task EXCEPT ![t] = Done(t)]
    BY <1>4 DEF Epilogue, FailRefused, HandlerFails, NothingToAnswer
  <2>2. /\ Live(t)
        /\ left' = left \/ Spend("trouble")
        /\ lost' = lost \/ lost' = lost \cup {r \in Runs : r = task[t].run /\ status[r] = "running"}
        /\ UNCHANGED <<status, provider, pend, asked, rows, aged, hist>>
    BY <1>4 DEF Epilogue, FailRefused, HandlerFails, NothingToAnswer, Live, Handling
  <2>3. Moves(t) /\ task'[t].pc = "idle"
    BY <2>1, DoneMoves
  <2>4. lost' \subseteq Runs
    BY <1>2, <2>2
  <2> QED BY <1>2, <2>2, <2>3, <2>4 DEF Events
<1> QED BY <1>3, <1>4

LEMMA NewTaskType ==
  ASSUME NEW p \in Handling, NEW r \in Runs, NEW may \in BOOLEAN, NEW approved \in BOOLEAN,
         NEW seg \in Segments
  PROVE  /\ NewTask(p, r, may, approved, seg) \in Task
         /\ NewTask(p, r, may, approved, seg).pc = p
         /\ NewTask(p, r, may, approved, seg).run = r
         /\ NewTask(p, r, may, approved, seg).seg = seg
         /\ NewTask(p, r, may, approved, seg).approved <=> approved
         /\ Fit(NewTask(p, r, may, approved, seg))
BY DEF NewTask, Task, Fit, Handling, Pausing

LEMMA SpendType ==
  ASSUME TypeOK, NEW e \in Events, Spend(e)
  PROVE  left' \in [Events -> Nat]
BY DEF Spend, TypeOK

LEMMA ChatMoves ==
  ASSUME TypeOK, NEW r \in Runs, NEW t \in Tasks, Chat(r, t)
  PROVE  /\ Takes(t, r) /\ ~Live(t) /\ task'[t].pc = "created"
         /\ status[r] = "none" /\ status' = [status EXCEPT ![r] = "queued"]
         /\ provider' \in [Runs -> Providers]
         /\ UNCHANGED <<pend, rows, aged, left, hist, asked, lost>>
<1>1. PICK p \in Provided, may \in MayMutate :
        /\ provider' = [provider EXCEPT ![r] = p]
        /\ task' = [task EXCEPT ![t] =
                      NewTask("created", r, may, FALSE, NewSegment(NewConversation))]
  BY DEF Chat
<1> DEFINE seg == NewSegment(NewConversation)
           new == NewTask("created", r, may, FALSE, seg)
<1>2. "created" \in Handling /\ may \in BOOLEAN /\ FALSE \in BOOLEAN /\ seg \in Segments
  BY RoleAssumption, NewSegmentType, NewConversationType DEF Handling
<1>3. task' = [task EXCEPT ![t] = new]
  BY <1>1
<1> HIDE DEF seg
<1>4. new \in Task /\ new.pc = "created" /\ new.run = r /\ Fit(new)
  BY <1>2 DEF NewTask, Task, Fit, Handling, Pausing
<1> HIDE DEF new
<1>5. Takes(t, r) /\ task'[t].pc = "created"
  BY <1>3, <1>4, SetTask
<1>6. provider' \in [Runs -> Providers]
  BY <1>1, ProvidedAssumption DEF TypeOK
<1> QED BY <1>5, <1>6 DEF Chat, SetStatus

LEMMA ReplyMoves ==
  ASSUME TypeOK, NEW r \in Runs, NEW t \in Tasks, Reply(r, t)
  PROVE  /\ Takes(t, r) /\ ~Live(t) /\ task'[t].pc = "replying"
         /\ status[r] = "awaiting_user_input"
         /\ UNCHANGED <<status, provider, pend, rows, aged, asked, lost>>
         /\ left' \in [Events -> Nat]
         /\ hist' \in [Runs -> Histories]
         /\ \A q \in Runs : /\ SameGrants(q)
                            /\ hist'[q].done = hist[q].done
                            /\ hist'[q].dense <=> hist[q].dense
         /\ \A q \in Runs \ {r} : hist'[q].double <=> hist[q].double
         /\ hist'[r].double <=> hist[r].double \/ Busy(r)
<1>1. PICK may \in MayMutate :
        task' = [task EXCEPT ![t] = NewTask("replying", r, may, FALSE, NewSegment(pend[r]))]
  BY DEF Reply
<1> DEFINE seg == NewSegment(pend[r])
           new == NewTask("replying", r, may, FALSE, seg)
<1>2. "replying" \in Handling /\ may \in BOOLEAN /\ FALSE \in BOOLEAN /\ seg \in Segments
  BY RoleAssumption, NewSegmentType DEF Handling, TypeOK
<1>3. task' = [task EXCEPT ![t] = new]
  BY <1>1
<1> HIDE DEF seg
<1>4. new \in Task /\ new.pc = "replying" /\ new.run = r /\ Fit(new)
  BY <1>2 DEF NewTask, Task, Fit, Handling, Pausing
<1> HIDE DEF new
<1>5. Takes(t, r) /\ task'[t].pc = "replying"
  BY <1>3, <1>4, SetTask
<1>6. left' \in [Events -> Nat]
  BY SpendType DEF Reply, Events
<1> DEFINE d == hist[r].double \/ Busy(r)
           h == [hist[r] EXCEPT !.double = d]
<1>7. hist \in [Runs -> Histories]
  BY DEF TypeOK, Histories
<1>8. hist' = [hist EXCEPT ![r] = h]
  BY <1>7 DEF Reply
<1>9. d \in BOOLEAN
  OBVIOUS
<1> HIDE DEF d
<1>10. /\ h \in Histories /\ h.granted = hist[r].granted /\ h.done = hist[r].done
       /\ h.shown = hist[r].shown /\ h.bundled = hist[r].bundled
       /\ h.dense = hist[r].dense /\ h.double = d
  BY <1>7, <1>9 DEF Histories
<1> HIDE DEF h
<1>11. hist' \in [Runs -> Histories] /\ hist'[r] = h /\ \A q \in Runs \ {r} : hist'[q] = hist[q]
  BY <1>7, <1>8, <1>10
<1>12. hist'[r].double <=> hist[r].double \/ Busy(r)
  BY <1>10, <1>11 DEF d
<1>13. \A q \in Runs : /\ SameGrants(q)
                       /\ hist'[q].done = hist[q].done
                       /\ hist'[q].dense <=> hist[q].dense
  BY <1>10, <1>11 DEF SameGrants
<1> QED BY <1>5, <1>6, <1>11, <1>12, <1>13 DEF Reply

\* An approval is recorded of the round and of the command that is shown.
LEMMA GrantedType ==
  ASSUME TypeOK, NEW r \in Runs
  PROVE  /\ Granted(r) \in Histories
         /\ Granted(r).done = hist[r].done
         /\ Granted(r).double <=> hist[r].double
         /\ Granted(r).dense <=> hist[r].dense
         /\ Granted(r).bundled <=> hist[r].bundled \/ Bundles(pend[r].open)
         /\ \A c \in Mutating :
              /\ Granted(r).granted[c] = hist[r].granted[c] + Occurrences(c, pend[r].open)
              /\ Granted(r).shown[c] = hist[r].shown[c] + IF c = asked[r] THEN 1 ELSE 0
<1> DEFINE g == [c \in Mutating |-> hist[r].granted[c] + Occurrences(c, pend[r].open)]
           s == [c \in Mutating |-> hist[r].shown[c] + IF c = asked[r] THEN 1 ELSE 0]
           b == hist[r].bundled \/ Bundles(pend[r].open)
           h == [hist[r] EXCEPT !.granted = g, !.shown = s, !.bundled = b]
<1>1. hist[r] \in Histories /\ pend[r].open \in Seq(Calls)
  BY DEF TypeOK, Histories, Conversations
<1>2. Granted(r) = h
  BY <1>1 DEF Granted, Histories
<1>3. g \in [Mutating -> Nat]
  <2>1. \A c \in Mutating : hist[r].granted[c] \in Nat /\ Occurrences(c, pend[r].open) \in Nat
    BY <1>1, OccurrencesType DEF Histories
  <2> QED BY <2>1
<1>4. s \in [Mutating -> Nat]
  BY <1>1 DEF Histories
<1>5. b \in BOOLEAN
  OBVIOUS
<1>6. \A c \in Mutating :
        /\ g[c] = hist[r].granted[c] + Occurrences(c, pend[r].open)
        /\ s[c] = hist[r].shown[c] + IF c = asked[r] THEN 1 ELSE 0
  OBVIOUS
<1>7. b <=> hist[r].bundled \/ Bundles(pend[r].open)
  OBVIOUS
<1> HIDE DEF g, s, b
<1>8. /\ h \in Histories /\ h.granted = g /\ h.shown = s /\ h.bundled = b
      /\ h.done = hist[r].done /\ h.double = hist[r].double /\ h.dense = hist[r].dense
  BY <1>1, <1>3, <1>4, <1>5 DEF Histories
<1> HIDE DEF h
<1> QED BY <1>2, <1>6, <1>7, <1>8

LEMMA DecideMoves ==
  ASSUME TypeOK, NEW r \in Runs, NEW t \in Tasks, Decide(r, t)
  PROVE  /\ Takes(t, r) /\ ~Live(t) /\ task'[t].pc = "deciding"
         /\ task'[t].seg.todo = pend[r].open
         /\ status[r] = "awaiting_command_approval"
         /\ UNCHANGED <<status, provider, pend, rows, aged, asked, lost>>
         /\ left' \in [Events -> Nat]
         /\ hist' \in [Runs -> Histories]
         /\ \A q \in Runs : /\ hist'[q].done = hist[q].done
                            /\ hist'[q].dense <=> hist[q].dense
         /\ \A q \in Runs \ {r} : SameGrants(q) /\ (hist'[q].double <=> hist[q].double)
         /\ hist'[r].double <=> hist[r].double \/ Busy(r)
         /\ \A c \in Mutating :
              hist'[r].granted[c] = hist[r].granted[c]
                + IF task'[t].approved THEN Occurrences(c, pend[r].open) ELSE 0
         /\ ~task'[t].approved => SameGrants(r)
         /\ task'[t].approved =>
              /\ hist'[r].bundled <=> hist[r].bundled \/ Bundles(pend[r].open)
              /\ \A c \in Mutating :
                   hist'[r].shown[c] = hist[r].shown[c] + IF c = asked[r] THEN 1 ELSE 0
<1>1. PICK may \in MayMutate, approved \in BOOLEAN :
        /\ task' = [task EXCEPT ![t] =
                      NewTask("deciding", r, may, approved,
                              [NewSegment(pend[r]) EXCEPT !.todo = pend[r].open])]
        /\ approved  => hist' = [hist EXCEPT ![r] = [Granted(r) EXCEPT !.double = @ \/ Busy(r)]]
        /\ ~approved => hist' = [hist EXCEPT ![r] = [hist[r] EXCEPT !.double = @ \/ Busy(r)]]
  <2>1. PICK may \in MayMutate, approved \in BOOLEAN :
          /\ task' = [task EXCEPT ![t] =
                        NewTask("deciding", r, may, approved,
                                [NewSegment(pend[r]) EXCEPT !.todo = pend[r].open])]
          /\ hist' = [hist EXCEPT ![r] = [(IF approved THEN Granted(r) ELSE hist[r])
                                            EXCEPT !.double = @ \/ Busy(r)]]
    BY DEF Decide
  <2>2. CASE approved
    BY <2>1, <2>2
  <2>3. CASE ~approved
    <3>1. hist \in [Runs -> Histories]
      BY DEF TypeOK, Histories
    <3> QED BY <2>1, <2>3, <3>1
  <2> QED BY <2>1, <2>2, <2>3
<1> DEFINE fresh == NewSegment(pend[r])
           seg == [fresh EXCEPT !.todo = pend[r].open]
           new == NewTask("deciding", r, may, approved, seg)
<1>2. pend[r].open \in Seq(Calls) /\ fresh \in Segments
  BY NewSegmentType DEF TypeOK, Conversations
<1> HIDE DEF fresh
<1>3. seg \in Segments /\ seg.todo = pend[r].open
  BY <1>2 DEF Segments
<1>4. task' = [task EXCEPT ![t] = new]
  BY <1>1 DEF fresh
<1> HIDE DEF seg
<1>5. "deciding" \in Handling /\ may \in BOOLEAN
  BY RoleAssumption DEF Handling
<1>6. new \in Task /\ new.pc = "deciding" /\ new.run = r /\ new.seg = seg
      /\ (new.approved <=> approved) /\ Fit(new)
  BY <1>3, <1>5, NewTaskType
<1> HIDE DEF new
<1>7. Takes(t, r) /\ task'[t] = new
  BY <1>4, <1>6, SetTask
<1>8. left' \in [Events -> Nat]
  BY SpendType DEF Decide, Events
<1> DEFINE old == IF approved THEN Granted(r) ELSE hist[r]
           d == old.double \/ Busy(r)
           h == [old EXCEPT !.double = d]
<1>9. hist \in [Runs -> Histories]
  BY DEF TypeOK, Histories
<1>10. hist' = [hist EXCEPT ![r] = h]
  <2>1. CASE approved
    <3>1. Granted(r) \in Histories
      BY GrantedType
    <3>2. h = [Granted(r) EXCEPT !.double = @ \/ Busy(r)]
      BY <2>1, <3>1 DEF Histories
    <3> HIDE DEF h
    <3> QED BY <1>1, <2>1, <3>2
  <2>2. CASE ~approved
    <3>1. h = [hist[r] EXCEPT !.double = @ \/ Busy(r)]
      BY <1>9, <2>2 DEF Histories
    <3> HIDE DEF h
    <3> QED BY <1>1, <2>2, <3>1
  <2> QED BY <2>1, <2>2
<1>11. d \in BOOLEAN
  OBVIOUS
<1>12. /\ old \in Histories /\ old.done = hist[r].done
       /\ old.double <=> hist[r].double
       /\ old.dense <=> hist[r].dense
  BY <1>9, GrantedType
<1>13. d <=> hist[r].double \/ Busy(r)
  BY <1>12
<1>14. approved => old = Granted(r)
  OBVIOUS
<1>15. ~approved => old = hist[r]
  OBVIOUS
<1> HIDE DEF old, d
<1>16. /\ h \in Histories /\ h.granted = old.granted /\ h.shown = old.shown
       /\ h.bundled = old.bundled /\ h.done = old.done /\ h.dense = old.dense
       /\ h.double = d
  BY <1>11, <1>12 DEF Histories
<1> HIDE DEF h
<1>17. hist' \in [Runs -> Histories] /\ hist'[r] = h /\ \A q \in Runs \ {r} : hist'[q] = hist[q]
  BY <1>9, <1>10, <1>16
<1>18. /\ \A q \in Runs : /\ hist'[q].done = hist[q].done
                          /\ hist'[q].dense <=> hist[q].dense
       /\ \A q \in Runs \ {r} : SameGrants(q) /\ (hist'[q].double <=> hist[q].double)
       /\ hist'[r].double <=> hist[r].double \/ Busy(r)
  BY <1>12, <1>13, <1>16, <1>17 DEF SameGrants
<1>19. task'[t].pc = "deciding" /\ task'[t].seg.todo = pend[r].open
       /\ (task'[t].approved <=> approved)
  BY <1>3, <1>6, <1>7
<1>20. CASE approved
  <2>1. /\ hist'[r].granted = Granted(r).granted /\ hist'[r].shown = Granted(r).shown
        /\ hist'[r].bundled = Granted(r).bundled
    BY <1>14, <1>16, <1>17, <1>20
  <2>2. /\ hist'[r].bundled <=> hist[r].bundled \/ Bundles(pend[r].open)
        /\ \A c \in Mutating :
             /\ hist'[r].granted[c] = hist[r].granted[c] + Occurrences(c, pend[r].open)
             /\ hist'[r].shown[c] = hist[r].shown[c] + IF c = asked[r] THEN 1 ELSE 0
    BY <2>1, GrantedType
  <2> QED BY <1>7, <1>8, <1>17, <1>18, <1>19, <1>20, <2>2 DEF Decide
<1>21. CASE ~approved
  <2>1. SameGrants(r) /\ hist'[r].granted = hist[r].granted
    BY <1>15, <1>16, <1>17, <1>21 DEF SameGrants
  <2>2. \A c \in Mutating : hist'[r].granted[c] = hist[r].granted[c] + 0
    BY <1>9, <2>1 DEF Histories
  <2> QED BY <1>7, <1>8, <1>17, <1>18, <1>19, <1>21, <2>1, <2>2 DEF Decide
<1> QED BY <1>20, <1>21

LEMMA CrashTasks ==
  ASSUME TypeOK, Crash
  PROVE  /\ task' \in [Tasks -> Task]
         /\ \A t \in Tasks : task'[t].pc = "idle" /\ task'[t].run = task[t].run
         /\ status' = [r \in Runs |-> IF status[r] = "running" THEN "failed" ELSE status[r]]
         /\ UNCHANGED <<provider, pend, asked, rows, aged, hist, lost>>
         /\ left' \in [Events -> Nat]
         /\ TasksFit'
<1>1. \A t \in Tasks : /\ Done(t) \in Task /\ Done(t).pc = "idle" /\ Done(t).run = task[t].run
                       /\ Fit(Done(t))
  BY WindingType
<1>2. left' \in [Events -> Nat]
  BY SpendType DEF Crash, Events
<1>3. \A t \in Tasks : task'[t] = Done(t)
  BY DEF Crash
<1>4. TasksFit'
  BY <1>1, <1>3 DEF TasksFit
<1> QED BY <1>1, <1>2, <1>4 DEF Crash

-----------------------------------------------------------------------------
(* Type correctness *)

RowTypes == /\ status   \in [Runs -> RunStatus]
            /\ provider \in [Runs -> Providers]
            /\ pend     \in [Runs -> Conversations]
            /\ asked    \in [Runs -> Calls]
            /\ rows     \in [Runs -> Nat]
            /\ aged     \subseteq Runs
            /\ left     \in [Events -> Nat]
            /\ hist     \in [Runs -> Histories]
            /\ lost     \subseteq Runs

LEMMA TypeTakes ==
  ASSUME TypeInv, NEW t \in Tasks, NEW r \in Runs, Takes(t, r), RowTypes'
  PROVE  TypeInv'
<1>1. task \in [Tasks -> Task]
  BY DEF TypeInv, TypeOK
<1>2. /\ task' \in [Tasks -> Task]
      /\ \A u \in Tasks \ {t} : task'[u] = task[u]
  BY <1>1 DEF Takes
<1>3. TasksFit'
  BY <1>2 DEF TypeInv, TasksFit, Takes
<1>4. TypeOK'
  BY <1>2 DEF TypeOK, RowTypes, Histories
<1> QED BY <1>3, <1>4 DEF TypeInv

LEMMA TypeMoves ==
  ASSUME TypeInv, NEW t \in Tasks, Moves(t), RowTypes'
  PROVE  TypeInv'
<1>1. task[t].run \in Runs
  BY DEF TypeInv, TypeOK, Task
<1> QED BY <1>1, TypeTakes DEF Moves

LEMMA TypeInit == Init => TypeInv
<1> SUFFICES ASSUME Init PROVE TypeInv
  OBVIOUS
<1>1. \A r \in Runs : NoTask(r) \in Task /\ NoTask(r).pc = "idle"
  BY NewSegmentType, NewConversationType DEF NoTask, NewTask, Task
<1>2. task \in [Tasks -> Task] /\ \A t \in Tasks : task[t].pc = "idle"
  BY <1>1 DEF Init
<1>3. NoHistory \in Histories
  BY DEF NoHistory, Histories
<1>4. RowTypes
  BY <1>3, NewConversationType, BudgetAssumption DEF Init, RowTypes, RunStatus, Providers, Calls
<1>5. TypeOK
  BY <1>2, <1>4 DEF TypeOK, RowTypes, Histories
<1>6. TasksFit
  BY <1>2 DEF TasksFit, Fit, Pausing
<1> QED BY <1>5, <1>6 DEF TypeInv

LEMMA TypeHandler ==
  ASSUME TypeInv, NEW t \in Tasks, Handler(t) PROVE TypeInv'
<1>1. TypeOK /\ RowTypes /\ task[t] \in Task
  BY DEF TypeInv, TypeOK, RowTypes, Histories
<1>2. CASE Spawn(t)
  <2>1. RowTypes'
    BY <1>1, <1>2, SpawnMoves DEF RowTypes, SameRow
  <2> QED BY <1>1, <1>2, <2>1, SpawnMoves, TypeMoves
<1>3. CASE NothingToAnswer(t)
  <2>1. RowTypes'
    BY <1>1, <1>3, EndMoves DEF RowTypes
  <2> QED BY <1>1, <1>3, <2>1, EndMoves, TypeMoves
<1>4. CASE ExecutePaused(t)
  <2>1. task[t].run \in Runs /\ task[t].seg.todo \in Seq(Calls)
    BY <1>1 DEF Task, Segments
  <2>2. task[t].seg.todo # <<>> /\ Head(task[t].seg.todo) \in Calls
    BY <1>1, <1>4, <2>1, ExecutePausedMoves
  <2>3. hist' \in [Runs -> Histories]
    BY <1>1, <1>4, <2>1, <2>2, ExecutePausedMoves, RanEffect DEF RowTypes
  <2>4. RowTypes'
    BY <1>1, <1>4, <2>3, ExecutePausedMoves DEF RowTypes
  <2> QED BY <1>1, <1>4, <2>4, ExecutePausedMoves, TypeMoves
<1>5. CASE CountDecided(t)
  <2>1. RowTypes'
    BY <1>1, <1>5, CountDecidedMoves DEF RowTypes, SameRow
  <2> QED BY <1>1, <1>5, <2>1, CountDecidedMoves, TypeMoves
<1>6. CASE RecordDecided(t)
  <2>1. task[t].run \in Runs /\ task[t].order \in Nat
    BY <1>1 DEF Task
  <2>2. RowTypes'
    BY <1>1, <1>6, <2>1, RecordDecidedMoves, AddRunStepEffect DEF RowTypes
  <2> QED BY <1>1, <1>6, <2>2, RecordDecidedMoves, TypeMoves
<1> QED BY <1>2, <1>3, <1>4, <1>5, <1>6 DEF Handler

LEMMA TypeCoroutine ==
  ASSUME TypeInv, NEW t \in Tasks, Coroutine(t) PROVE TypeInv'
<1>1. /\ TypeOK /\ RowTypes /\ task[t] \in Task
      /\ task[t].run \in Runs /\ task[t].order \in Nat /\ task[t].seg \in Segments
      /\ task[t].outcome \in {"success"} \cup Waiting
  BY DEF TypeInv, TypeOK, RowTypes, Histories, Task
<1>2. CASE Mark(t)
  <2>1. status' \in [Runs -> RunStatus]
    BY <1>1, <1>2, MarkMoves DEF RowTypes, RunStatus
  <2>2. RowTypes'
    BY <1>1, <1>2, <2>1, MarkMoves DEF RowTypes
  <2> QED BY <1>1, <1>2, <2>2, MarkMoves, TypeMoves
<1>3. CASE Count(t)
  <2>1. RowTypes'
    BY <1>1, <1>3, CountMoves DEF RowTypes, SameRow
  <2> QED BY <1>1, <1>3, <2>1, CountMoves, TypeMoves
<1>4. CASE ModelConcludes(t)
  <2>1. RowTypes'
    BY <1>1, <1>4, ModelConcludesMoves DEF RowTypes, SameRow
  <2> QED BY <1>1, <1>4, <2>1, ModelConcludesMoves, TypeMoves
<1>5. CASE ModelProposes(t)
  <2>1. RowTypes'
    BY <1>1, <1>5, ModelProposesMoves DEF RowTypes, SameRow
  <2> QED BY <1>1, <1>5, <2>1, ModelProposesMoves, TypeMoves
<1>6. CASE ModelFails(t)
  <2>1. RowTypes'
    BY <1>1, <1>6, ModelFailsMoves DEF RowTypes, SameRow
  <2> QED BY <1>1, <1>6, <2>1, ModelFailsMoves, TypeMoves
<1>7. CASE Execute(t)
  <2>1. task[t].seg.todo \in Seq(Calls) /\ task[t].seg.todo # <<>>
    BY <1>1, <1>7, ExecuteMoves DEF Segments
  <2>2. Head(task[t].seg.todo) \in Calls
    BY <2>1
  <2>3. hist' \in [Runs -> Histories]
    <3>1. CASE hist' = hist
      BY <1>1, <3>1 DEF RowTypes
    <3>2. CASE Ran(task[t].run, Head(task[t].seg.todo))
      BY <1>1, <2>2, <3>2, RanEffect
    <3> QED BY <1>1, <1>7, <3>1, <3>2, ExecuteMoves
  <2>4. RowTypes'
    BY <1>1, <1>7, <2>3, ExecuteMoves DEF RowTypes
  <2> QED BY <1>1, <1>7, <2>4, ExecuteMoves, TypeMoves
<1>8. CASE OnStep(t)
  <2>1. RowTypes'
    BY <1>1, <1>8, OnStepMoves, AddRunStepEffect DEF RowTypes
  <2> QED BY <1>1, <1>8, <2>1, OnStepMoves, TypeMoves
<1>9. CASE FinalRow(t)
  <2>1. RowTypes'
    BY <1>1, <1>9, FinalRowMoves, AddRunStepEffect DEF RowTypes
  <2> QED BY <1>1, <1>9, <2>1, FinalRowMoves, TypeMoves
<1>10. CASE Stash(t)
  <2>1. pend' \in [Runs -> Conversations]
    BY <1>1, <1>10, StashMoves DEF RowTypes, Segments
  <2>2. RowTypes'
    BY <1>1, <1>10, <2>1, StashMoves DEF RowTypes
  <2> QED BY <1>1, <1>10, <2>2, StashMoves, TypeMoves
<1>11. CASE Pause(t) \/ Finish(t) \/ Fail(t)
  <2>1. task[t].outcome \in RunStatus /\ "success" \in RunStatus /\ "failed" \in RunStatus
    BY <1>1 DEF RunStatus, Settled
  <2>2. status' \in [Runs -> RunStatus]
    BY <1>1, <1>11, <2>1, VerdictMoves DEF RowTypes
  <2>4. Fit(task[t]) /\ Ask \in Calls /\ Mutating \subseteq Calls
    BY DEF TypeInv, TasksFit, Calls
  <2>5. asked' \in [Runs -> Calls]
    <3>1. CASE /\ task[t].pc = "pause"
               /\ asked' = [asked EXCEPT ![task[t].run] =
                              IF task[t].outcome = "awaiting_command_approval"
                                THEN PendingCommand(task[t].seg.conv) ELSE Ask]
      <4>1. task[t].outcome = "awaiting_command_approval"
              => PendingCommand(task[t].seg.conv) \in Calls
        BY <2>4, <3>1 DEF Fit, Pausing, Answerable
      <4> QED BY <1>1, <2>4, <3>1, <4>1 DEF RowTypes
    <3>2. CASE asked' = asked
      BY <1>1, <3>2 DEF RowTypes
    <3> QED BY <1>1, <1>11, <3>1, <3>2, VerdictMoves
  <2>3. RowTypes'
    BY <1>1, <1>11, <2>2, <2>5, VerdictMoves DEF RowTypes
  <2> QED BY <1>1, <1>11, <2>3, VerdictMoves, TypeMoves
<1>12. CASE Epilogue(t)
  <2>1. RowTypes'
    BY <1>1, <1>12, EndMoves DEF RowTypes
  <2> QED BY <1>1, <1>12, <2>1, EndMoves, TypeMoves
<1> QED BY <1>2, <1>3, <1>4, <1>5, <1>6, <1>7, <1>8, <1>9, <1>10, <1>11, <1>12
        DEF Coroutine

\* The others write the status and know nothing of the tasks.
LEMMA TypeOthers ==
  ASSUME TypeInv, (\E r \in Runs : Abort(r) \/ Age(r)) \/ Sweep \/ Crash
  PROVE  TypeInv'
<1>1. TypeOK /\ TasksFit /\ RowTypes
  BY DEF TypeInv, TypeOK, RowTypes, Histories
<1>2. CASE Crash
  <2>1. status' \in [Runs -> RunStatus]
    BY <1>1, <1>2, CrashTasks DEF RowTypes, RunStatus, Settled
  <2>2. RowTypes'
    BY <1>1, <1>2, <2>1, CrashTasks DEF RowTypes
  <2>3. TypeOK'
    BY <1>1, <1>2, <2>2, CrashTasks DEF TypeOK, RowTypes, Histories
  <2>4. TasksFit'
    BY <1>1, <1>2, CrashTasks
  <2> QED BY <2>3, <2>4 DEF TypeInv
<1>3. CASE (\E r \in Runs : Abort(r) \/ Age(r)) \/ Sweep
  <2>1. task' = task
    BY <1>3 DEF Abort, Age, Sweep
  <2>2. left' \in [Events -> Nat]
    BY <1>1, <1>3, SpendType DEF Abort, Age, Sweep, Events, RowTypes
  <2>3. status' \in [Runs -> RunStatus]
    BY <1>1, <1>3 DEF Abort, Age, Sweep, SetStatus, RowTypes, RunStatus, Settled
  <2>4. aged' \subseteq Runs
    BY <1>1, <1>3 DEF Abort, Age, Sweep, RowTypes
  <2>5. RowTypes'
    BY <1>1, <1>3, <2>2, <2>3, <2>4 DEF Abort, Age, Sweep, RowTypes
  <2>6. TypeOK' /\ TasksFit'
    BY <1>1, <2>1, <2>5 DEF TypeOK, RowTypes, Histories, TasksFit
  <2> QED BY <2>6 DEF TypeInv
<1> QED BY <1>2, <1>3

LEMMA TypeRequests ==
  ASSUME TypeInv, NEW r \in Runs, NEW t \in Tasks, Chat(r, t) \/ Reply(r, t) \/ Decide(r, t)
  PROVE  TypeInv'
<1>1. TypeOK /\ RowTypes
  BY DEF TypeInv, TypeOK, RowTypes, Histories
<1>2. CASE Chat(r, t)
  <2>1. status' \in [Runs -> RunStatus]
    BY <1>1, <1>2, ChatMoves DEF RowTypes, RunStatus
  <2>2. RowTypes'
    BY <1>1, <1>2, <2>1, ChatMoves DEF RowTypes
  <2> QED BY <1>1, <1>2, <2>2, ChatMoves, TypeTakes
<1>3. CASE Reply(r, t)
  <2>1. RowTypes'
    BY <1>1, <1>3, ReplyMoves DEF RowTypes
  <2> QED BY <1>1, <1>3, <2>1, ReplyMoves, TypeTakes
<1>4. CASE Decide(r, t)
  <2>1. RowTypes'
    BY <1>1, <1>4, DecideMoves DEF RowTypes
  <2> QED BY <1>1, <1>4, <2>1, DecideMoves, TypeTakes
<1> QED BY <1>2, <1>3, <1>4

LEMMA TypeKept == TypeInv /\ [Next]_vars => TypeInv'
<1> SUFFICES ASSUME TypeInv, [Next]_vars PROVE TypeInv'
  OBVIOUS
<1>1. ASSUME NEW t \in Tasks, Raise(t) \/ FailRefused(t) \/ HandlerFails(t) PROVE TypeInv'
  <2>1. TypeOK /\ RowTypes
    BY DEF TypeInv, TypeOK, RowTypes, Histories
  <2>2. RowTypes'
    BY <1>1, <2>1, EndMoves DEF RowTypes
  <2> QED BY <1>1, <2>1, <2>2, EndMoves, TypeMoves
<1>2. CASE UNCHANGED vars
  BY <1>2 DEF vars, TypeInv, TypeOK, TasksFit
<1> QED BY <1>1, <1>2, TypeHandler, TypeCoroutine, TypeOthers, TypeRequests DEF Next

LEMMA TypeAlways == Spec => []TypeInv
BY TypeInit, TypeKept, PTL DEF Spec

\* Every variable of a chat run keeps its type: the columns of runs and run_steps, the
\* coroutine's locals and the history, for any number of runs, tasks, tools and rounds.
THEOREM TypeCorrect == Spec => []TypeOK
<1>1. TypeInv => TypeOK
  BY DEF TypeInv
<1> QED BY <1>1, TypeAlways, PTL

-----------------------------------------------------------------------------
(* No mutating call without a grant *)

\* The calls of tool c that a decision on run r has granted and execute_paused_round
\* has not come to yet: the task that carries them out and their place in its round.
PendingCalls(r, c) ==
  {p \in Tasks \X (Nat \ {0}) :
     LET j == task[p[1]]
     IN  /\ j.pc = "deciding" /\ j.approved /\ j.run = r
         /\ p[2] \in DOMAIN j.seg.todo /\ j.seg.todo[p[2]] = c}

\* What ran and what is still to run is covered by the grants.
GrantsCover == \A r \in Runs, c \in Mutating :
   /\ IsFiniteSet(PendingCalls(r, c))
   /\ hist[r].done[c] + Cardinality(PendingCalls(r, c)) <= hist[r].granted[c]

\* What a round that did not wait holds of mutating calls will be refused.
NothingUngranted == \A t \in Tasks : task[t].pc = "tools" /\ task[t].may =>
   \A k \in DOMAIN task[t].seg.todo :
     task[t].seg.todo[k] \in Mutating => task[t].seg.todo[k] \in task[t].seg.conv.denied

GrantInv == ~AutoApprove => GrantsCover /\ NothingUngranted

LEMMA CountersType ==
  ASSUME TypeOK, NEW r \in Runs, NEW c \in Mutating
  PROVE  hist[r].done[c] \in Nat /\ hist[r].granted[c] \in Nat
BY DEF TypeOK

\* Fewer calls are pending, and nothing ran and nothing was granted.
LEMMA PendingShrinks ==
  ASSUME TypeOK, GrantsCover,
         \A r \in Runs, c \in Mutating : PendingCalls(r, c)' \subseteq PendingCalls(r, c),
         \A r \in Runs : /\ hist'[r].granted = hist[r].granted
                         /\ hist'[r].done = hist[r].done
  PROVE  GrantsCover'
<1> SUFFICES ASSUME NEW r \in Runs, NEW c \in Mutating
             PROVE  /\ IsFiniteSet(PendingCalls(r, c)')
                    /\ hist'[r].done[c] + Cardinality(PendingCalls(r, c)')
                         <= hist'[r].granted[c]
  BY DEF GrantsCover
<1> DEFINE P == PendingCalls(r, c)
           Q == PendingCalls(r, c)'
<1>1. IsFiniteSet(P) /\ hist[r].done[c] + Cardinality(P) <= hist[r].granted[c]
  BY DEF GrantsCover
<1>2. Q \in SUBSET P
  OBVIOUS
<1>3. hist'[r].done[c] = hist[r].done[c] /\ hist'[r].granted[c] = hist[r].granted[c]
  OBVIOUS
<1> HIDE DEF P, Q
<1>4. IsFiniteSet(Q) /\ Cardinality(Q) <= Cardinality(P)
  BY <1>1, <1>2, FS_Subset
<1>5. Cardinality(P) \in Nat /\ Cardinality(Q) \in Nat
  BY <1>1, <1>4, FS_CardinalityType
<1>6. hist[r].done[c] \in Nat /\ hist[r].granted[c] \in Nat
  BY CountersType
<1>7. hist'[r].done[c] + Cardinality(Q) <= hist'[r].granted[c]
  BY <1>1, <1>3, <1>4, <1>5, <1>6
<1> QED BY <1>4, <1>7 DEF Q

LEMMA NotDeciding ==
  ASSUME TypeOK, NEW t \in Tasks, NEW r \in Runs, Takes(t, r), task'[t].pc # "deciding",
         NEW q \in Runs, NEW c \in Mutating
  PROVE  PendingCalls(q, c)' \subseteq PendingCalls(q, c)
<1>1. \A u \in Tasks \ {t} : task'[u] = task[u]
  BY DEF Takes, TypeOK
<1> QED BY <1>1 DEF PendingCalls

\* The calls a decision makes pending.
LEMMA PendingGrows ==
  ASSUME TypeOK, NEW t \in Tasks, NEW r \in Runs, NEW c \in Mutating,
         Takes(t, r), ~Live(t), task'[t].pc = "deciding",
         IsFiniteSet(PendingCalls(r, c))
  PROVE  /\ IsFiniteSet(PendingCalls(r, c)')
         /\ Cardinality(PendingCalls(r, c)') <= Cardinality(PendingCalls(r, c))
              + IF task'[t].approved THEN Occurrences(c, task'[t].seg.todo) ELSE 0
<1> DEFINE P == PendingCalls(r, c)
           Q == PendingCalls(r, c)'
           todo == task'[t].seg.todo
           K == {k \in DOMAIN todo : todo[k] = c}
           N == {<<t, k>> : k \in K}
           f == [k \in K |-> <<t, k>>]
<1>1. \A u \in Tasks \ {t} : task'[u] = task[u]
  BY DEF Takes, TypeOK
<1>2. todo \in Seq(Calls)
  BY DEF Takes, Task, Segments
<1>3. IsFiniteSet(K) /\ Occurrences(c, todo) = Cardinality(K) /\ Cardinality(K) \in Nat
  BY <1>2, OccurrencesType DEF Occurrences
<1>4. CASE ~task'[t].approved
  <2>1. Q \in SUBSET P
    BY <1>1, <1>4 DEF PendingCalls
  <2> HIDE DEF P, Q
  <2>2. IsFiniteSet(Q) /\ Cardinality(Q) <= Cardinality(P)
    BY <2>1, FS_Subset DEF P
  <2>3. Cardinality(P) \in Nat /\ Cardinality(Q) \in Nat
    BY <2>2, FS_CardinalityType DEF P
  <2> QED BY <1>4, <2>2, <2>3 DEF P, Q
<1>5. CASE task'[t].approved
  <2>1. f \in Bijection(K, N)
    BY DEF Bijection, Injection, Surjection, IsInjective
  <2>2. IsFiniteSet(N) /\ Cardinality(N) = Cardinality(K)
    BY <1>3, <2>1, FS_Bijection DEF ExistsBijection
  <2>3. Q \in SUBSET (P \cup N)
    BY <1>1 DEF PendingCalls
  <2> HIDE DEF P, Q, N, K
  <2>4. IsFiniteSet(P \cup N)
        /\ Cardinality(P \cup N) = Cardinality(P) + Cardinality(N) - Cardinality(P \cap N)
    BY <2>2, FS_Union DEF P
  <2>5. IsFiniteSet(P \cap N)
    BY <2>2, FS_Intersection
  <2>6. IsFiniteSet(Q) /\ Cardinality(Q) <= Cardinality(P \cup N)
    BY <2>3, <2>4, FS_Subset
  <2>7. /\ Cardinality(P) \in Nat /\ Cardinality(N) \in Nat /\ Cardinality(Q) \in Nat
        /\ Cardinality(P \cap N) \in Nat /\ Cardinality(P \cup N) \in Nat
    BY <2>2, <2>4, <2>5, <2>6, FS_CardinalityType DEF P
  <2>8. Cardinality(Q) <= Cardinality(P) + Cardinality(K)
    BY <2>2, <2>4, <2>6, <2>7
  <2> QED BY <1>3, <1>5, <2>6, <2>8 DEF P, Q
<1> QED BY <1>4, <1>5

\* The next call of a decided round is pending no more.
LEMMA PendingSteps ==
  ASSUME TypeOK, NEW t \in Tasks, NEW r \in Runs, NEW c \in Mutating,
         Moves(t), task[t].pc = "deciding", task'[t].pc = "deciding",
         task[t].seg.todo # <<>>, task'[t].seg.todo = Tail(task[t].seg.todo),
         task'[t].approved = task[t].approved,
         IsFiniteSet(PendingCalls(r, c))
  PROVE  /\ IsFiniteSet(PendingCalls(r, c)')
         /\ Cardinality(PendingCalls(r, c)') <= Cardinality(PendingCalls(r, c))
              - IF /\ task[t].approved /\ r = task[t].run
                   /\ c = Head(task[t].seg.todo) THEN 1 ELSE 0
<1> DEFINE P == PendingCalls(r, c)
           Q == PendingCalls(r, c)'
           S == P \ {<<t, 1>>}
           f == [p \in Q |-> IF p[1] = t THEN <<t, p[2] + 1>> ELSE p]
<1>1. \A u \in Tasks \ {t} : task'[u] = task[u]
  BY DEF Moves, Takes, TypeOK
<1>2. /\ task[t].seg.todo \in Seq(Calls) /\ task'[t].seg.todo \in Seq(Calls)
      /\ task'[t].run = task[t].run
  BY DEF Moves, Takes, TypeOK, Task, Segments
<1>3. /\ Len(task[t].seg.todo) \in Nat \ {0}
      /\ Len(task'[t].seg.todo) = Len(task[t].seg.todo) - 1
      /\ Head(task[t].seg.todo) = task[t].seg.todo[1]
      /\ \A k \in 1..Len(task'[t].seg.todo) : task'[t].seg.todo[k] = task[t].seg.todo[k + 1]
      /\ DOMAIN task[t].seg.todo = 1..Len(task[t].seg.todo)
      /\ DOMAIN task'[t].seg.todo = 1..Len(task'[t].seg.todo)
  BY <1>2, HeadTailProperties
<1>4. \A p \in Q : /\ p = <<p[1], p[2]>> /\ p[1] \in Tasks /\ p[2] \in Nat \ {0}
                   /\ f[p] \in S
  <2> SUFFICES ASSUME NEW p \in Q
               PROVE  /\ p = <<p[1], p[2]>> /\ p[1] \in Tasks /\ p[2] \in Nat \ {0}
                      /\ f[p] \in S
    OBVIOUS
  <2>1. p = <<p[1], p[2]>> /\ p[1] \in Tasks /\ p[2] \in Nat \ {0}
    BY DEF PendingCalls
  <2>2. CASE p[1] = t
    <3>1. /\ task[t].approved /\ task[t].run = r
          /\ p[2] \in 1..Len(task'[t].seg.todo) /\ task'[t].seg.todo[p[2]] = c
      BY <1>2, <1>3, <2>2 DEF PendingCalls
    <3>2. p[2] + 1 \in 1..Len(task[t].seg.todo) /\ task[t].seg.todo[p[2] + 1] = c
      BY <1>3, <3>1
    <3>3. <<t, p[2] + 1>> \in P
      BY <1>3, <3>1, <3>2 DEF PendingCalls
    <3>4. <<t, p[2] + 1>> # <<t, 1>>
      BY <2>1
    <3> QED BY <2>1, <2>2, <3>3, <3>4
  <2>3. CASE p[1] # t
    <3>1. p \in P
      BY <1>1, <2>1, <2>3 DEF PendingCalls
    <3>2. p # <<t, 1>>
      BY <2>1, <2>3
    <3> QED BY <2>1, <2>3, <3>1, <3>2
  <2> QED BY <2>2, <2>3
<1>5. \A p, q \in Q : f[p] = f[q] => p = q
  <2> SUFFICES ASSUME NEW p \in Q, NEW q \in Q, f[p] = f[q] PROVE p = q
    OBVIOUS
  <2>1. /\ p = <<p[1], p[2]>> /\ p[2] \in Nat /\ q = <<q[1], q[2]>> /\ q[2] \in Nat
    BY <1>4
  <2>2. CASE p[1] = t /\ q[1] = t
    <3>1. p[2] + 1 = q[2] + 1
      BY <2>2
    <3> QED BY <2>1, <2>2, <3>1
  <2>3. CASE p[1] # t \/ q[1] # t
    BY <2>1, <2>3
  <2> QED BY <2>2, <2>3
<1>6. f \in Injection(Q, S)
  BY <1>4, <1>5 DEF Injection, IsInjective
<1>7. /\ task[t].approved /\ r = task[t].run /\ c = Head(task[t].seg.todo)
      => <<t, 1>> \in P
  BY <1>3 DEF PendingCalls
<1> HIDE DEF P, Q, f
<1>8. /\ IsFiniteSet(S)
      /\ Cardinality(S) = IF <<t, 1>> \in P THEN Cardinality(P) - 1 ELSE Cardinality(P)
  BY FS_RemoveElement DEF P
<1>9. IsFiniteSet(Q) /\ Cardinality(Q) <= Cardinality(S)
  BY <1>6, <1>8, FS_Injection
<1>10. Cardinality(P) \in Nat /\ Cardinality(S) \in Nat /\ Cardinality(Q) \in Nat
  BY <1>8, <1>9, FS_CardinalityType DEF P
<1> QED BY <1>7, <1>8, <1>9, <1>10 DEF P, Q

\* No call that runs in a round the model proposed is one the user must grant.
LEMMA UngrantedNeverRuns ==
  ASSUME TypeOK, NothingUngranted, NEW t \in Tasks, task[t].pc = "tools",
         task[t].seg.todo # <<>>, CallRuns(task[t].seg, task[t].may)
  PROVE  Head(task[t].seg.todo) \notin Mutating
<1>1. task[t].seg.todo \in Seq(Calls)
  BY DEF TypeOK, Task, Segments
<1>2. 1 \in DOMAIN task[t].seg.todo /\ Head(task[t].seg.todo) = task[t].seg.todo[1]
  BY <1>1, HeadTailProperties
<1> QED BY <1>2 DEF CallRuns, NothingUngranted

LEMMA GrantsKeptByDrop ==
  ASSUME TypeOK, GrantInv, NEW t \in Tasks, NEW r \in Runs, Takes(t, r),
         task'[t].pc \notin {"deciding", "tools"},
         \A q \in Runs : /\ hist'[q].granted = hist[q].granted
                         /\ hist'[q].done = hist[q].done
  PROVE  GrantInv'
<1> SUFFICES ASSUME ~AutoApprove PROVE GrantsCover' /\ NothingUngranted'
  BY DEF GrantInv
<1>1. GrantsCover /\ NothingUngranted
  BY DEF GrantInv
<1>2. GrantsCover'
  BY <1>1, NotDeciding, PendingShrinks
<1>3. \A u \in Tasks \ {t} : task'[u] = task[u]
  BY DEF Takes, TypeOK
<1>4. NothingUngranted'
  BY <1>1, <1>3 DEF NothingUngranted
<1> QED BY <1>2, <1>4

LEMMA GrantsKeptByProposal ==
  ASSUME TypeOK, GrantInv, NEW t \in Tasks, ModelProposes(t)
  PROVE  GrantInv'
<1>1. Moves(t) /\ hist' = hist /\ task[t].run \in Runs
  BY ModelProposesMoves DEF SameRow, TypeOK, Task
<1>2. Takes(t, task[t].run)
  BY <1>1 DEF Moves
<1>3. CASE task'[t].pc = "step"
  BY <1>1, <1>2, <1>3, GrantsKeptByDrop
<1>4. ASSUME NEW round \in Rounds,
             task'[t].pc = "tools", task'[t].may = task[t].may,
             task'[t].seg.todo = round,
             task'[t].seg.conv.denied = task[t].seg.conv.denied,
             ~Pauses(task[t].seg, round, task[t].may)
      PROVE  GrantInv'
  <2> SUFFICES ASSUME ~AutoApprove PROVE GrantsCover' /\ NothingUngranted'
    BY DEF GrantInv
  <2>1. GrantsCover /\ NothingUngranted
    BY DEF GrantInv
  <2>2. GrantsCover'
    BY <1>1, <1>2, <1>4, <2>1, NotDeciding, PendingShrinks
  <2>3. \A u \in Tasks \ {t} : task'[u] = task[u]
    BY <1>2 DEF Takes, TypeOK
  <2>4. task[t].may => \A k \in DOMAIN round :
          round[k] \in Mutating => round[k] \in task[t].seg.conv.denied
    BY <1>4 DEF Pauses, GateCall
  <2>5. NothingUngranted'
    BY <1>4, <2>1, <2>3, <2>4 DEF NothingUngranted
  <2> QED BY <2>2, <2>5
<1> QED BY <1>3, <1>4, ModelProposesMoves

LEMMA GrantsKeptByExecution ==
  ASSUME TypeInv, GrantInv, NEW t \in Tasks, Execute(t)
  PROVE  GrantInv'
<1> SUFFICES ASSUME ~AutoApprove PROVE GrantsCover' /\ NothingUngranted'
  BY DEF GrantInv
<1>1. GrantsCover /\ NothingUngranted /\ TypeOK
  BY DEF GrantInv, TypeInv
<1>2. /\ Moves(t) /\ task[t].pc = "tools" /\ task[t].seg.todo # <<>>
      /\ task[t].run \in Runs /\ task[t].seg.todo \in Seq(Calls)
  BY <1>1, ExecuteMoves DEF TypeOK, Task, Segments
<1> DEFINE c == Head(task[t].seg.todo)
<1>3. c \in Calls
  BY <1>2
<1>4. \A q \in Runs : /\ hist'[q].granted = hist[q].granted
                      /\ hist'[q].done = hist[q].done
  <2>1. CASE hist' = hist
    BY <2>1
  <2>2. CASE CallRuns(task[t].seg, task[t].may) /\ Ran(task[t].run, c)
    <3>1. c \notin Mutating
      BY <1>1, <1>2, <2>2, UngrantedNeverRuns
    <3> QED BY <2>2, <3>1 DEF Ran
  <2> QED BY <2>1, <2>2, ExecuteMoves
<1>5. task'[t].pc # "deciding" /\ Takes(t, task[t].run)
  BY <1>2, ExecuteMoves DEF Moves
<1>6. GrantsCover'
  BY <1>1, <1>2, <1>4, <1>5, NotDeciding, PendingShrinks
<1>7. \A u \in Tasks \ {t} : task'[u] = task[u]
  BY <1>1, <1>5 DEF Takes, TypeOK
<1>8. CASE task'[t].pc = "step"
  BY <1>1, <1>6, <1>7, <1>8 DEF NothingUngranted
<1>9. CASE /\ task'[t].pc = "tools" /\ task'[t].may = task[t].may
           /\ task'[t].seg.todo = Tail(task[t].seg.todo)
           /\ task'[t].seg.conv = task[t].seg.conv
  <2>1. \A k \in DOMAIN Tail(task[t].seg.todo) :
          /\ k + 1 \in DOMAIN task[t].seg.todo
          /\ Tail(task[t].seg.todo)[k] = task[t].seg.todo[k + 1]
    BY <1>2, HeadTailProperties
  <2>2. task'[t].may => \A k \in DOMAIN task'[t].seg.todo :
          task'[t].seg.todo[k] \in Mutating =>
            task'[t].seg.todo[k] \in task'[t].seg.conv.denied
    BY <1>1, <1>2, <1>9, <2>1 DEF NothingUngranted
  <2> QED BY <1>1, <1>6, <1>7, <2>2 DEF NothingUngranted
<1> QED BY <1>8, <1>9, ExecuteMoves

LEMMA GrantsKeptByDecision ==
  ASSUME TypeOK, GrantInv, NEW r \in Runs, NEW t \in Tasks, Decide(r, t)
  PROVE  GrantInv'
<1> SUFFICES ASSUME ~AutoApprove PROVE GrantsCover' /\ NothingUngranted'
  BY DEF GrantInv
<1>1. GrantsCover /\ NothingUngranted
  BY DEF GrantInv
<1>2. Takes(t, r) /\ ~Live(t) /\ task'[t].pc = "deciding"
  BY DecideMoves
<1>3. \A u \in Tasks \ {t} : task'[u] = task[u]
  BY <1>2 DEF Takes, TypeOK
<1>4. NothingUngranted'
  BY <1>1, <1>2, <1>3 DEF NothingUngranted
<1>5. ASSUME NEW q \in Runs, NEW c \in Mutating
      PROVE  /\ IsFiniteSet(PendingCalls(q, c)')
             /\ hist'[q].done[c] + Cardinality(PendingCalls(q, c)')
                  <= hist'[q].granted[c]
  <2> DEFINE P == PendingCalls(q, c)
             Q == PendingCalls(q, c)'
             n == IF task'[t].approved THEN Occurrences(c, task'[t].seg.todo) ELSE 0
  <2>1. IsFiniteSet(P) /\ hist[q].done[c] + Cardinality(P) <= hist[q].granted[c]
    BY <1>1 DEF GrantsCover
  <2>2. hist[q].done[c] \in Nat /\ hist[q].granted[c] \in Nat /\ hist'[q].done = hist[q].done
    BY CountersType, DecideMoves
  <2>3. CASE q = r
    <3>1. IsFiniteSet(Q) /\ Cardinality(Q) <= Cardinality(P) + n
      BY <1>2, <2>1, <2>3, PendingGrows
    <3>2. hist'[q].granted[c] = hist[q].granted[c] + n
      BY <2>3, DecideMoves
    <3>3. task'[t].seg.todo \in Seq(Calls)
      BY <1>2 DEF Takes, Task, Segments
    <3>4. n \in Nat
      BY <3>3, OccurrencesType
    <3> HIDE DEF P, Q, n
    <3>5. Cardinality(P) \in Nat /\ Cardinality(Q) \in Nat
      BY <2>1, <3>1, FS_CardinalityType
    <3>6. hist'[q].done[c] + Cardinality(Q) <= hist'[q].granted[c]
      BY <2>1, <2>2, <3>1, <3>2, <3>4, <3>5
    <3> QED BY <3>1, <3>6 DEF Q
  <2>4. CASE q # r
    <3>1. Q \in SUBSET P
      BY <1>2, <1>3, <2>4 DEF PendingCalls, Takes
    <3>2. hist'[q].granted = hist[q].granted
      BY <2>4, DecideMoves DEF SameGrants
    <3> HIDE DEF P, Q
    <3>3. IsFiniteSet(Q) /\ Cardinality(Q) <= Cardinality(P)
      BY <2>1, <3>1, FS_Subset
    <3>4. Cardinality(P) \in Nat /\ Cardinality(Q) \in Nat
      BY <2>1, <3>3, FS_CardinalityType
    <3>5. hist'[q].done[c] + Cardinality(Q) <= hist'[q].granted[c]
      BY <2>1, <2>2, <3>2, <3>3, <3>4
    <3> QED BY <3>3, <3>5 DEF Q
  <2> QED BY <2>3, <2>4
<1>6. GrantsCover'
  BY <1>5 DEF GrantsCover
<1> QED BY <1>4, <1>6

LEMMA GrantsKeptByPausedRound ==
  ASSUME TypeOK, GrantInv, NEW t \in Tasks, ExecutePaused(t)
  PROVE  GrantInv'
<1> SUFFICES ASSUME ~AutoApprove PROVE GrantsCover' /\ NothingUngranted'
  BY DEF GrantInv
<1> DEFINE c == Head(task[t].seg.todo)
           r == task[t].run
<1>1. GrantsCover /\ NothingUngranted
  BY DEF GrantInv
<1>2. /\ Moves(t) /\ task[t].pc = "deciding" /\ task'[t].pc = "deciding"
      /\ task[t].seg.todo # <<>>
      /\ task'[t].seg.todo = Tail(task[t].seg.todo)
      /\ task'[t].approved = task[t].approved
      /\ IF RunsDecided(c, task[t].approved) THEN Ran(r, c) ELSE UNCHANGED hist
  BY ExecutePausedMoves
<1>3. r \in Runs /\ c \in Calls
  BY <1>2 DEF TypeOK, Task, Segments
<1>4. \A u \in Tasks \ {t} : task'[u] = task[u]
  BY <1>2 DEF Moves, Takes, TypeOK
<1>5. NothingUngranted'
  BY <1>1, <1>2, <1>4 DEF NothingUngranted
<1> HIDE DEF c, r
<1>6. ASSUME NEW q \in Runs, NEW m \in Mutating
      PROVE  /\ IsFiniteSet(PendingCalls(q, m)')
             /\ hist'[q].done[m] + Cardinality(PendingCalls(q, m)')
                  <= hist'[q].granted[m]
  <2> DEFINE P == PendingCalls(q, m)
             Q == PendingCalls(q, m)'
             n == IF task[t].approved /\ q = r /\ m = c THEN 1 ELSE 0
  <2>1. IsFiniteSet(P) /\ hist[q].done[m] + Cardinality(P) <= hist[q].granted[m]
    BY <1>1 DEF GrantsCover
  <2>2. hist[q].done[m] \in Nat /\ hist[q].granted[m] \in Nat
    BY CountersType
  <2>3. IsFiniteSet(Q) /\ Cardinality(Q) <= Cardinality(P) - n
    BY <1>2, <2>1, PendingSteps DEF c, r
  <2>4. /\ hist'[q].granted = hist[q].granted
        /\ hist'[q].done[m] <= hist[q].done[m] + n /\ hist'[q].done[m] \in Nat
    <3>1. CASE RunsDecided(c, task[t].approved)
      <4>1. /\ hist'[q].granted = hist[q].granted
            /\ hist'[q].done[m] = IF q = r /\ m = c THEN hist[q].done[m] + 1
                                                     ELSE hist[q].done[m]
        BY <1>2, <1>3, <3>1, RanEffect DEF SameButDone, SameGrants
      <4>2. m = c => task[t].approved
        BY <3>1 DEF RunsDecided
      <4> QED BY <2>2, <4>1, <4>2
    <3>2. CASE ~RunsDecided(c, task[t].approved)
      BY <1>2, <2>2, <3>2
    <3> QED BY <3>1, <3>2
  <2>5. n \in Nat
    OBVIOUS
  <2> HIDE DEF P, Q, n
  <2>6. Cardinality(P) \in Nat /\ Cardinality(Q) \in Nat
    BY <2>1, <2>3, FS_CardinalityType
  <2>7. hist'[q].granted[m] = hist[q].granted[m]
    BY <2>4
  <2> DEFINE d == hist'[q].done[m]
             e == hist[q].done[m]
             g == hist[q].granted[m]
  <2>8. d <= e + n /\ d \in Nat /\ e \in Nat /\ g \in Nat /\ e + Cardinality(P) <= g
    BY <2>1, <2>2, <2>4
  <2> HIDE DEF d, e, g
  <2>9. d + Cardinality(Q) <= g
    BY <2>3, <2>5, <2>6, <2>8
  <2> QED BY <2>3, <2>7, <2>9 DEF Q, d, g
<1>7. GrantsCover'
  BY <1>6 DEF GrantsCover
<1> QED BY <1>5, <1>7

LEMMA GrantsInit == Init => GrantInv
<1> SUFFICES ASSUME Init PROVE GrantsCover /\ NothingUngranted
  BY DEF GrantInv
<1>1. \A t \in Tasks : task[t].pc = "idle"
  BY DEF Init, NoTask, NewTask
<1>2. ASSUME NEW r \in Runs, NEW c \in Mutating
      PROVE  /\ PendingCalls(r, c) = {}
             /\ hist[r].done[c] = 0 /\ hist[r].granted[c] = 0
  BY <1>1 DEF PendingCalls, Init, NoHistory
<1>3. ASSUME NEW r \in Runs, NEW c \in Mutating
      PROVE  /\ IsFiniteSet(PendingCalls(r, c))
             /\ hist[r].done[c] + Cardinality(PendingCalls(r, c)) <= hist[r].granted[c]
  <2>1. IsFiniteSet(PendingCalls(r, c)) /\ Cardinality(PendingCalls(r, c)) = 0
    BY <1>2, FS_EmptySet
  <2> QED BY <1>2, <2>1
<1>4. NothingUngranted
  BY <1>1 DEF NothingUngranted
<1> QED BY <1>3, <1>4 DEF GrantsCover

LEMMA GrantsKept == TypeInv /\ GrantInv /\ [Next]_vars => GrantInv'
<1> SUFFICES ASSUME TypeInv, GrantInv, [Next]_vars PROVE GrantInv'
  OBVIOUS
<1>1. TypeOK
  BY DEF TypeInv
\* Most steps let calls go and run none.
<1>2. ASSUME NEW t \in Tasks, Moves(t), task'[t].pc \notin {"deciding", "tools"},
             \A q \in Runs : /\ hist'[q].granted = hist[q].granted
                             /\ hist'[q].done = hist[q].done
      PROVE  GrantInv'
  <2>1. task[t].run \in Runs
    BY <1>1 DEF TypeOK, Task
  <2> QED BY <1>1, <1>2, <2>1, GrantsKeptByDrop DEF Moves
<1>3. ASSUME NEW t \in Tasks, Moves(t), task'[t].pc \notin {"deciding", "tools"},
             AddRunStep(task[t].run, task[t].order)
      PROVE  GrantInv'
  <2>1. task[t].run \in Runs /\ task[t].order \in Nat
    BY <1>1 DEF TypeOK, Task
  <2>2. \A q \in Runs : /\ hist'[q].granted = hist[q].granted
                        /\ hist'[q].done = hist[q].done
    BY <1>1, <1>3, <2>1, AddRunStepEffect DEF SameButDense, SameGrants
  <2> QED BY <1>2, <1>3, <2>2
<1>4. ASSUME NEW t \in Tasks, Handler(t) PROVE GrantInv'
  <2>1. CASE Spawn(t)
    BY <1>1, <1>2, <2>1, SpawnMoves DEF SameRow
  <2>2. CASE NothingToAnswer(t)
    BY <1>1, <1>2, <2>2, EndMoves
  <2>3. CASE CountDecided(t)
    BY <1>1, <1>2, <2>3, CountDecidedMoves DEF SameRow
  <2>4. CASE RecordDecided(t)
    BY <1>1, <1>3, <2>4, RecordDecidedMoves
  <2> QED BY <1>1, <1>4, <2>1, <2>2, <2>3, <2>4, GrantsKeptByPausedRound DEF Handler
<1>5. ASSUME NEW t \in Tasks, Coroutine(t) PROVE GrantInv'
  <2>1. CASE Mark(t)
    BY <1>1, <1>2, <2>1, MarkMoves
  <2>2. CASE Count(t)
    BY <1>1, <1>2, <2>2, CountMoves DEF SameRow
  <2>3. CASE ModelConcludes(t)
    BY <1>1, <1>2, <2>3, ModelConcludesMoves DEF SameRow
  <2>4. CASE ModelFails(t)
    BY <1>1, <1>2, <2>4, ModelFailsMoves DEF SameRow
  <2>5. CASE OnStep(t)
    BY <1>1, <1>3, <2>5, OnStepMoves
  <2>6. CASE FinalRow(t)
    BY <1>1, <1>3, <2>6, FinalRowMoves
  <2>7. CASE Stash(t)
    BY <1>1, <1>2, <2>7, StashMoves
  <2>8. CASE Pause(t) \/ Finish(t) \/ Fail(t)
    BY <1>1, <1>2, <2>8, VerdictMoves
  <2>9. CASE Epilogue(t)
    BY <1>1, <1>2, <2>9, EndMoves
  <2> QED BY <1>1, <1>5, <2>1, <2>2, <2>3, <2>4, <2>5, <2>6, <2>7, <2>8, <2>9,
             GrantsKeptByProposal, GrantsKeptByExecution DEF Coroutine
<1>6. ASSUME NEW t \in Tasks, Raise(t) \/ FailRefused(t) \/ HandlerFails(t) PROVE GrantInv'
  BY <1>1, <1>2, <1>6, EndMoves
<1>7. ASSUME NEW r \in Runs, NEW t \in Tasks, Chat(r, t) \/ Reply(r, t) PROVE GrantInv'
  <2>1. Takes(t, r) /\ task'[t].pc \notin {"deciding", "tools"}
    BY <1>1, <1>7, ChatMoves, ReplyMoves
  <2>2. \A q \in Runs : /\ hist'[q].granted = hist[q].granted
                        /\ hist'[q].done = hist[q].done
    BY <1>1, <1>7, ChatMoves, ReplyMoves DEF SameGrants
  <2> QED BY <1>1, <2>1, <2>2, GrantsKeptByDrop
<1>8. CASE UNCHANGED <<task, hist>>
  BY <1>8 DEF GrantInv, GrantsCover, NothingUngranted, PendingCalls
<1>9. CASE Crash
  <2>1. \A t \in Tasks : task'[t].pc = "idle"
    BY <1>1, <1>9, CrashTasks
  <2>2. hist' = hist
    BY <1>1, <1>9, CrashTasks
  <2>3. \A r \in Runs, c \in Mutating : PendingCalls(r, c)' \subseteq PendingCalls(r, c)
    BY <2>1 DEF PendingCalls
  <2>4. GrantsCover => GrantsCover'
    BY <1>1, <2>2, <2>3, PendingShrinks
  <2> QED BY <2>1, <2>4 DEF GrantInv, NothingUngranted
<1>10. ASSUME NEW r \in Runs, Abort(r) \/ Age(r) PROVE UNCHANGED <<task, hist>>
  BY <1>10 DEF Abort, Age
<1>11. Sweep => UNCHANGED <<task, hist>>
  BY DEF Sweep
<1>12. UNCHANGED vars => UNCHANGED <<task, hist>>
  BY DEF vars
<1> QED BY <1>1, <1>4, <1>5, <1>6, <1>7, <1>8, <1>9, <1>10, <1>11, <1>12,
           GrantsKeptByDecision DEF Next

LEMMA GrantsAlways == Spec => []GrantInv
BY TypeAlways, GrantsInit, GrantsKept, PTL DEF Spec

-----------------------------------------------------------------------------
(* One worker at a time *)

\* Whether t is what Busy looks for.
WorksOn(t, r) == task[t].run = r /\ task[t].pc \notin {"idle", "epilogue", "fail"}

\* Where a task that works on a waiting run can be: it has read that the run waits and
\* has not marked it running.
Entry == Handling \cup {"mark"}
\* What the worker j of a run with status s, pending state pd and n rows relies on.
Sound(s, pd, n, j) ==
  /\ j.pc \in {"recording", "model", "tools", "step", "row"} => j.order = n
  /\ j.pc = "pause" => j.seg.conv = pd
  /\ s \in Waiting => j.pc \in Entry

\* A run that does not exist has no task; and as long as nobody joined a worker, it
\* has at most one, which finds the row as it left it.
RunSound(r) ==
  /\ status[r] = "none" => \A t \in Tasks : task[t].run = r => ~Live(t)
  /\ ~hist[r].double =>
       /\ hist[r].dense
       /\ Answerable(status[r], pend[r], asked[r])
       /\ \A t \in Tasks : WorksOn(t, r) => Sound(status[r], pend[r], rows[r], task[t])
       /\ \A t, u \in Tasks : WorksOn(t, r) /\ WorksOn(u, r) => t = u

WorkInv == \A r \in Runs : RunSound(r)

\* A run that no task begins to work on, and whose status changes only to one that
\* does not wait.
LEMMA RunSoundFrame ==
  ASSUME NEW r \in Runs, RunSound(r),
         status'[r] = "none" => status[r] = "none",
         status'[r] \in Waiting => status'[r] = status[r],
         pend'[r] = pend[r], asked'[r] = asked[r], rows'[r] = rows[r],
         hist'[r].double <=> hist[r].double, hist'[r].dense <=> hist[r].dense,
         \A u \in Tasks : task'[u].run = r /\ Live(u)' => task[u].run = r /\ Live(u),
         \A u \in Tasks : WorksOn(u, r)' => WorksOn(u, r) /\ task'[u] = task[u]
  PROVE  RunSound(r)'
<1>1. status'[r] = "none" => \A u \in Tasks : task'[u].run = r => ~Live(u)'
  BY DEF RunSound
<1>2. ASSUME ~hist'[r].double
      PROVE  /\ hist'[r].dense
             /\ Answerable(status'[r], pend'[r], asked'[r])
             /\ \A u \in Tasks : WorksOn(u, r)'
                  => Sound(status'[r], pend'[r], rows'[r], task'[u])
             /\ \A u, v \in Tasks : WorksOn(u, r)' /\ WorksOn(v, r)' => u = v
  <2>1. /\ hist[r].dense
        /\ Answerable(status[r], pend[r], asked[r])
        /\ \A u \in Tasks : WorksOn(u, r) => Sound(status[r], pend[r], rows[r], task[u])
        /\ \A u, v \in Tasks : WorksOn(u, r) /\ WorksOn(v, r) => u = v
    BY <1>2 DEF RunSound
  <2>2. Answerable(status'[r], pend'[r], asked'[r])
    BY <2>1 DEF Answerable, Waiting
  <2>3. ASSUME NEW u \in Tasks, WorksOn(u, r)'
        PROVE  Sound(status'[r], pend'[r], rows'[r], task'[u])
    <3>1. Sound(status[r], pend[r], rows[r], task[u]) /\ task'[u] = task[u]
      BY <2>1, <2>3
    <3> QED BY <3>1 DEF Sound
  <2>4. \A u, v \in Tasks : WorksOn(u, r)' /\ WorksOn(v, r)' => u = v
    BY <2>1
  <2> QED BY <1>2, <2>1, <2>2, <2>3, <2>4
<1> QED BY <1>1, <1>2 DEF RunSound

\* Runs other than that of the task that moves.
LEMMA OtherRuns ==
  ASSUME TypeOK, WorkInv, NEW t \in Tasks, NEW r \in Runs, Takes(t, r),
         ~Live(t) \/ task[t].run = r,
         NEW q \in Runs, q # r,
         status'[q] = status[q], pend'[q] = pend[q], asked'[q] = asked[q], rows'[q] = rows[q],
         hist'[q].double <=> hist[q].double, hist'[q].dense <=> hist[q].dense
  PROVE  RunSound(q)'
<1>1. \A u \in Tasks \ {t} : task'[u] = task[u]
  BY DEF Takes, TypeOK
<1>2. task'[t].run # q /\ ~(task[t].run = q /\ Live(t))
  BY DEF Takes
<1>3. \A u \in Tasks : task'[u].run = q => task'[u] = task[u] /\ u # t
  BY <1>1, <1>2
<1>4. /\ \A u \in Tasks : task'[u].run = q /\ Live(u)' => task[u].run = q /\ Live(u)
      /\ \A u \in Tasks : WorksOn(u, q)' => WorksOn(u, q) /\ task'[u] = task[u]
  BY <1>3 DEF Live, WorksOn
<1>5. RunSound(q)
  BY DEF WorkInv
<1> QED BY <1>4, <1>5, RunSoundFrame

\* The worker of a run makes a step.
LEMMA WorkerSteps ==
  ASSUME TypeOK, WorkInv, NEW t \in Tasks, NEW r \in Runs, r = task[t].run,
         Moves(t), WorksOn(t, r),
         \A q \in Runs \ {r} :
           /\ status'[q] = status[q] /\ pend'[q] = pend[q] /\ asked'[q] = asked[q]
           /\ rows'[q] = rows[q]
           /\ hist'[q].double <=> hist[q].double
           /\ hist'[q].dense <=> hist[q].dense,
         status'[r] = "none" => status[r] = "none",
         hist'[r].double <=> hist[r].double,
         ~hist[r].double =>
           /\ hist'[r].dense
           /\ Answerable(status'[r], pend'[r], asked'[r])
           /\ WorksOn(t, r)' => Sound(status'[r], pend'[r], rows'[r], task'[t])
  PROVE  WorkInv'
<1>1. Takes(t, r) /\ Live(t)
  BY DEF Moves, WorksOn, Live
<1>2. ASSUME NEW q \in Runs, q # r PROVE RunSound(q)'
  BY <1>1, <1>2, OtherRuns
<1>3. \A u \in Tasks \ {t} : task'[u] = task[u]
  BY <1>1 DEF Takes, TypeOK
<1>4. RunSound(r)
  BY DEF WorkInv
<1>5. status'[r] # "none"
  BY <1>1, <1>4 DEF RunSound
<1>6. ASSUME ~hist'[r].double
      PROVE  /\ hist'[r].dense
             /\ Answerable(status'[r], pend'[r], asked'[r])
             /\ \A u \in Tasks : WorksOn(u, r)'
                  => Sound(status'[r], pend'[r], rows'[r], task'[u])
             /\ \A u, v \in Tasks : WorksOn(u, r)' /\ WorksOn(v, r)' => u = v
  <2>1. WorksOn(t, r) /\ \A u, v \in Tasks : WorksOn(u, r) /\ WorksOn(v, r) => u = v
    BY <1>4, <1>6 DEF RunSound
  <2>2. \A u \in Tasks : WorksOn(u, r)' => u = t
    BY <1>3, <2>1 DEF WorksOn
  <2> QED BY <1>6, <2>2
<1>7. RunSound(r)'
  BY <1>5, <1>6 DEF RunSound
<1> QED BY <1>2, <1>7 DEF WorkInv

\* What a worker relies on.
LEMMA WorkerIsSound ==
  ASSUME WorkInv, NEW t \in Tasks, NEW r \in Runs, WorksOn(t, r), ~hist[r].double
  PROVE  /\ hist[r].dense
         /\ Answerable(status[r], pend[r], asked[r])
         /\ Sound(status[r], pend[r], rows[r], task[t])
BY DEF WorkInv, RunSound

\* The steps that leave the row as it is.
LEMMA WorkerKeepsRow ==
  ASSUME TypeOK, WorkInv, NEW t \in Tasks, NEW r \in Runs, r = task[t].run,
         Moves(t), WorksOn(t, r),
         UNCHANGED <<status, pend, asked, rows>>,
         \A q \in Runs : /\ hist'[q].double <=> hist[q].double
                         /\ hist'[q].dense <=> hist[q].dense,
         ~hist[r].double /\ WorksOn(t, r)' => Sound(status[r], pend[r], rows[r], task'[t])
  PROVE  WorkInv'
<1>1. ~hist[r].double => hist[r].dense /\ Answerable(status[r], pend[r], asked[r])
  BY WorkerIsSound
<1> QED BY <1>1, WorkerSteps

\* The steps that add a row.
LEMMA WorkerAddsRow ==
  ASSUME TypeOK, WorkInv, NEW t \in Tasks, NEW r \in Runs, r = task[t].run,
         Moves(t), task[t].pc \in {"recording", "step", "row"},
         UNCHANGED <<status, pend, asked>>, AddRunStep(r, task[t].order),
         ~hist[r].double /\ WorksOn(t, r)'
           => Sound(status[r], pend[r], rows[r] + 1, task'[t])
  PROVE  WorkInv'
<1>1. WorksOn(t, r) /\ task[t].order \in Nat
  BY DEF WorksOn, TypeOK, Task
<1>2. /\ \A q \in Runs : hist'[q].double <=> hist[q].double
      /\ \A q \in Runs \ {r} : rows'[q] = rows[q] /\ hist'[q] = hist[q]
      /\ rows'[r] = rows[r] + 1
      /\ hist'[r].dense <=> hist[r].dense /\ task[t].order = rows[r]
  BY <1>1, AddRunStepEffect DEF SameButDense
<1>3. ~hist[r].double => /\ hist[r].dense /\ task[t].order = rows[r]
                        /\ Answerable(status[r], pend[r], asked[r])
  BY <1>1, WorkerIsSound DEF Sound
<1> QED BY <1>1, <1>2, <1>3, WorkerSteps

LEMMA WorkHandler ==
  ASSUME TypeInv, WorkInv, NEW t \in Tasks, NEW r \in Runs, r = task[t].run, Handler(t)
  PROVE  WorkInv'
<1>1. TypeOK
  BY DEF TypeInv
<1>2. CASE Spawn(t)
  <2>1. /\ Moves(t) /\ SameRow /\ WorksOn(t, r) /\ task'[t].pc = "mark"
    BY <1>1, <1>2, SpawnMoves DEF WorksOn
  <2>2. Sound(status[r], pend[r], rows[r], task'[t])
    BY <2>1 DEF Sound, Entry
  <2> QED BY <1>1, <2>1, <2>2, WorkerKeepsRow DEF SameRow
<1>3. CASE NothingToAnswer(t)
  <2>1. /\ Moves(t) /\ task[t].pc = "replying" /\ task'[t].pc \in {"idle", "fail"}
        /\ UNCHANGED <<status, pend, asked, rows, hist>>
    BY <1>1, <1>3, EndMoves DEF NothingToAnswer
  <2>2. WorksOn(t, r) /\ ~WorksOn(t, r)'
    BY <2>1 DEF WorksOn
  <2> QED BY <1>1, <2>1, <2>2, WorkerKeepsRow
<1>4. CASE ExecutePaused(t)
  <2>1. /\ Moves(t) /\ task[t].pc = "deciding" /\ task'[t].pc = "deciding"
        /\ UNCHANGED <<status, pend, asked, rows>>
        /\ task[t].seg.todo \in Seq(Calls) /\ task[t].seg.todo # <<>>
    BY <1>1, <1>4, ExecutePausedMoves DEF TypeOK, Task, Segments
  <2>2. Head(task[t].seg.todo) \in Calls
    BY <2>1
  <2>3. \A q \in Runs : /\ hist'[q].double <=> hist[q].double
                        /\ hist'[q].dense <=> hist[q].dense
    <3>1. CASE hist' = hist
      BY <3>1
    <3>2. CASE Ran(r, Head(task[t].seg.todo))
      BY <1>1, <2>2, <3>2, RanEffect DEF SameButDone
    <3> QED BY <1>1, <1>4, <3>1, <3>2, ExecutePausedMoves
  <2>4. WorksOn(t, r)
    BY <2>1 DEF WorksOn
  <2>5. Sound(status[r], pend[r], rows[r], task'[t])
    BY <2>1 DEF Sound, Entry, Handling
  <2> QED BY <1>1, <2>1, <2>3, <2>4, <2>5, WorkerKeepsRow
<1>5. CASE CountDecided(t)
  <2>1. /\ Moves(t) /\ SameRow /\ WorksOn(t, r) /\ task'[t].pc = "recording"
        /\ task'[t].order = rows[r]
    BY <1>1, <1>5, CountDecidedMoves DEF WorksOn
  <2>2. Sound(status[r], pend[r], rows[r], task'[t])
    BY <2>1 DEF Sound, Entry, Handling
  <2> QED BY <1>1, <2>1, <2>2, WorkerKeepsRow DEF SameRow
<1>6. CASE RecordDecided(t)
  <2>1. /\ Moves(t) /\ task[t].pc = "recording" /\ task'[t].pc = "mark"
        /\ UNCHANGED <<status, pend, asked>> /\ AddRunStep(r, task[t].order)
    BY <1>1, <1>6, RecordDecidedMoves
  <2>2. Sound(status[r], pend[r], rows[r] + 1, task'[t])
    BY <2>1 DEF Sound, Entry
  <2> QED BY <1>1, <2>1, <2>2, WorkerAddsRow
<1> QED BY <1>2, <1>3, <1>4, <1>5, <1>6 DEF Handler

\* The coroutine up to the row of its result.
LEMMA WorkLoop ==
  ASSUME TypeInv, WorkInv, NEW t \in Tasks, NEW r \in Runs, r = task[t].run,
         \/ Mark(t) \/ Count(t) \/ ModelConcludes(t) \/ ModelProposes(t) \/ ModelFails(t)
         \/ Execute(t)
  PROVE  WorkInv'
<1>1. TypeOK
  BY DEF TypeInv
<1>2. CASE Mark(t)
  <2>1. /\ Moves(t) /\ UNCHANGED <<pend, asked, rows, hist>>
        /\ task[t].pc = "mark" /\ task'[t].pc = "count"
        /\ status' = [status EXCEPT ![r] =
                        IF status[r] \in {"queued"} \cup Waiting THEN "running" ELSE status[r]]
    BY <1>1, <1>2, MarkMoves
  <2>2. WorksOn(t, r)
    BY <2>1 DEF WorksOn
  <2>3. /\ \A q \in Runs \ {r} : status'[q] = status[q]
        /\ status'[r] \notin Waiting
        /\ status'[r] = "none" => status[r] = "none"
    BY <1>1, <2>1 DEF TypeOK, Waiting
  <2>4. /\ Answerable(status'[r], pend'[r], asked'[r])
        /\ Sound(status'[r], pend'[r], rows'[r], task'[t])
    BY <2>1, <2>3 DEF Answerable, Waiting, Sound
  <2>5. ~hist[r].double => hist'[r].dense
    BY <2>1, <2>2, WorkerIsSound
  <2> QED BY <1>1, <2>1, <2>2, <2>3, <2>4, <2>5, WorkerSteps
\* From here on the status is not one that waits, as nobody else works on the run.
<1>3. ASSUME WorksOn(t, r), task[t].pc \notin Entry, ~hist[r].double
      PROVE  status[r] \notin Waiting
  BY <1>3, WorkerIsSound DEF Sound
<1>4. CASE Count(t)
  <2>1. /\ Moves(t) /\ SameRow /\ task[t].pc = "count" /\ task'[t].pc = "model"
        /\ task'[t].order = rows[r]
    BY <1>1, <1>4, CountMoves
  <2>2. WorksOn(t, r) /\ task[t].pc \notin Entry
    BY <2>1 DEF WorksOn, Entry, Handling
  <2>3. ~hist[r].double => Sound(status[r], pend[r], rows[r], task'[t])
    BY <1>3, <2>1, <2>2 DEF Sound
  <2> QED BY <1>1, <2>1, <2>2, <2>3, WorkerKeepsRow DEF SameRow
<1>5. CASE ModelConcludes(t) \/ ModelProposes(t) \/ ModelFails(t)
  <2>1. /\ Moves(t) /\ SameRow /\ task[t].pc = "model"
        /\ \/ /\ task'[t].pc \in {"step", "row"}
              /\ task'[t].order = task[t].order
           \/ task'[t].pc = "tools" /\ task'[t].order = task[t].order
           \/ task'[t].pc = "fail"
    BY <1>1, <1>5, ModelConcludesMoves, ModelProposesMoves, ModelFailsMoves
  <2>2. WorksOn(t, r) /\ task[t].pc \notin Entry
    BY <2>1 DEF WorksOn, Entry, Handling
  <2>3. ~hist[r].double => task[t].order = rows[r]
    BY <2>1, <2>2, WorkerIsSound DEF Sound
  <2>4. ~hist[r].double /\ WorksOn(t, r)' => Sound(status[r], pend[r], rows[r], task'[t])
    BY <1>3, <2>1, <2>2, <2>3 DEF Sound, WorksOn
  <2> QED BY <1>1, <2>1, <2>2, <2>4, WorkerKeepsRow DEF SameRow
<1>6. CASE Execute(t)
  <2>1. /\ Moves(t) /\ task[t].pc = "tools"
        /\ UNCHANGED <<status, pend, asked, rows>>
        /\ task'[t].order = task[t].order
        /\ \/ task'[t].pc = "tools"
           \/ task'[t].pc = "step" /\ task'[t].outcome = "success"
        /\ task[t].seg.todo \in Seq(Calls) /\ task[t].seg.todo # <<>>
    BY <1>1, <1>6, ExecuteMoves DEF TypeOK, Task, Segments
  <2>2. Head(task[t].seg.todo) \in Calls
    BY <2>1
  <2>3. \A q \in Runs : /\ hist'[q].double <=> hist[q].double
                        /\ hist'[q].dense <=> hist[q].dense
    <3>1. CASE hist' = hist
      BY <3>1
    <3>2. CASE Ran(r, Head(task[t].seg.todo))
      BY <1>1, <2>2, <3>2, RanEffect DEF SameButDone
    <3> QED BY <1>1, <1>6, <3>1, <3>2, ExecuteMoves
  <2>4. WorksOn(t, r) /\ task[t].pc \notin Entry
    BY <2>1 DEF WorksOn, Entry, Handling
  <2>5. ~hist[r].double => task[t].order = rows[r]
    BY <2>1, <2>4, WorkerIsSound DEF Sound
  <2>6. ~hist[r].double => Sound(status[r], pend[r], rows[r], task'[t])
    BY <1>3, <2>1, <2>4, <2>5 DEF Sound
  <2> QED BY <1>1, <2>1, <2>3, <2>4, <2>6, WorkerKeepsRow
<1> QED BY <1>2, <1>4, <1>5, <1>6

\* The rows, the pending state and the verdict.
LEMMA WorkVerdict ==
  ASSUME TypeInv, WorkInv, NEW t \in Tasks, NEW r \in Runs, r = task[t].run,
         OnStep(t) \/ FinalRow(t) \/ Stash(t) \/ Pause(t) \/ Finish(t)
  PROVE  WorkInv'
<1>1. TypeOK /\ task[t].order \in Nat
  BY DEF TypeInv, TypeOK, Task
<1>2. ASSUME WorksOn(t, r), task[t].pc \notin Entry, ~hist[r].double
      PROVE  status[r] \notin Waiting
  BY <1>2, WorkerIsSound DEF Sound
<1>3. CASE OnStep(t)
  <2>1. /\ Moves(t) /\ UNCHANGED <<status, pend, asked>> /\ AddRunStep(r, task[t].order)
        /\ task[t].pc = "step" /\ task'[t].pc \in {"model", "row"}
        /\ task'[t].order = task[t].order + 1
        /\ task'[t].outcome = task[t].outcome /\ task'[t].seg = task[t].seg
    BY <1>1, <1>3, OnStepMoves
  <2>2. WorksOn(t, r) /\ task[t].pc \notin Entry
    BY <2>1 DEF WorksOn, Entry, Handling
  <2>3. ~hist[r].double => task[t].order = rows[r]
    BY <2>1, <2>2, WorkerIsSound DEF Sound
  <2>4. ~hist[r].double => Sound(status[r], pend[r], rows[r] + 1, task'[t])
    BY <1>2, <2>1, <2>2, <2>3 DEF Sound
  <2> QED BY <1>1, <2>1, <2>4, WorkerAddsRow
<1>4. CASE FinalRow(t)
  <2>1. /\ Moves(t) /\ UNCHANGED <<status, pend, asked>> /\ AddRunStep(r, task[t].order)
        /\ task[t].pc = "row" /\ task'[t].pc \in {"stash", "finish"}
        /\ task'[t].outcome = task[t].outcome /\ task'[t].seg = task[t].seg
    BY <1>1, <1>4, FinalRowMoves
  <2>2. WorksOn(t, r) /\ task[t].pc \notin Entry
    BY <2>1 DEF WorksOn, Entry, Handling
  <2>3. ~hist[r].double => Sound(status[r], pend[r], rows[r] + 1, task'[t])
    BY <1>2, <2>1, <2>2 DEF Sound
  <2> QED BY <1>1, <2>1, <2>3, WorkerAddsRow
<1>5. CASE Stash(t)
  <2>1. /\ Moves(t) /\ UNCHANGED <<status, asked, rows, hist>>
        /\ pend' = [pend EXCEPT ![r] = task[t].seg.conv]
        /\ task[t].pc = "stash" /\ task'[t].pc = "pause"
        /\ task'[t].seg = task[t].seg
    BY <1>1, <1>5, StashMoves
  <2>2. WorksOn(t, r) /\ task[t].pc \notin Entry
    BY <2>1 DEF WorksOn, Entry, Handling
  <2>3. pend'[r] = task[t].seg.conv /\ \A q \in Runs \ {r} : pend'[q] = pend[q]
    BY <1>1, <2>1 DEF TypeOK
  <2>4. ~hist[r].double => hist[r].dense /\ status[r] \notin Waiting
    BY <1>2, <2>1, <2>2, WorkerIsSound DEF Sound
  <2>5. ~hist[r].double => /\ Sound(status'[r], pend'[r], rows'[r], task'[t])
                           /\ Answerable(status'[r], pend'[r], asked'[r])
    BY <2>1, <2>3, <2>4 DEF Sound, Answerable, Waiting
  <2> QED BY <1>1, <2>1, <2>2, <2>3, <2>4, <2>5, WorkerSteps
<1>6. CASE Pause(t) \/ Finish(t)
  <2> DEFINE cmd == IF task[t].outcome = "awaiting_command_approval"
                      THEN PendingCommand(task[t].seg.conv) ELSE Ask
  <2>1. /\ Moves(t) /\ UNCHANGED <<pend, rows, hist>> /\ task'[t].pc = "epilogue"
        /\ \/ /\ task[t].pc = "pause"
              /\ status' = [status EXCEPT ![r] = task[t].outcome]
              /\ asked' = [asked EXCEPT ![r] = cmd]
           \/ /\ task[t].pc = "finish"
              /\ status' = [status EXCEPT ![r] = "success"]
              /\ asked' = asked
    BY <1>1, <1>6, VerdictMoves DEF Pause, Finish
  <2>2. task[t].outcome = "awaiting_command_approval" => cmd = PendingCommand(task[t].seg.conv)
    OBVIOUS
  <2> HIDE DEF cmd
  <2>3. WorksOn(t, r) /\ ~WorksOn(t, r)'
    BY <2>1 DEF WorksOn
  <2>4. /\ \A q \in Runs \ {r} : status'[q] = status[q] /\ asked'[q] = asked[q]
        /\ status'[r] # "none"
        /\ \/ status'[r] = "success"
           \/ task[t].pc = "pause" /\ status'[r] = task[t].outcome /\ asked'[r] = cmd
    BY <1>1, <2>1 DEF TypeOK, Task, Waiting
  <2>5. CASE status'[r] = "success"
    <3>1. ~hist[r].double => hist[r].dense /\ Answerable(status'[r], pend'[r], asked'[r])
      BY <2>3, <2>5, WorkerIsSound DEF Answerable
    <3> QED BY <1>1, <2>1, <2>3, <2>4, <3>1, WorkerSteps
  <2>6. CASE task[t].pc = "pause" /\ status'[r] = task[t].outcome /\ asked'[r] = cmd
    <3>1. Answerable(task[t].outcome, task[t].seg.conv, PendingCommand(task[t].seg.conv))
      BY <2>6 DEF TypeInv, TasksFit, Fit, Pausing
    <3>2. ~hist[r].double => hist[r].dense /\ task[t].seg.conv = pend[r]
      BY <2>3, <2>6, WorkerIsSound DEF Sound
    <3>3. ~hist[r].double => Answerable(status'[r], pend'[r], asked'[r])
      BY <2>1, <2>2, <2>6, <3>1, <3>2 DEF Answerable
    <3> QED BY <1>1, <2>1, <2>3, <2>4, <3>2, <3>3, WorkerSteps
  <2> QED BY <2>4, <2>5, <2>6
<1> QED BY <1>3, <1>4, <1>5, <1>6

\* A task that ends or fails, and one that has written its verdict.
LEMMA WorkEnds ==
  ASSUME TypeInv, WorkInv, NEW t \in Tasks, NEW r \in Runs, r = task[t].run,
         \/ Epilogue(t) \/ Fail(t)
         \/ Raise(t) \/ FailRefused(t) \/ HandlerFails(t)
  PROVE  WorkInv'
<1>1. TypeOK
  BY DEF TypeInv
<1>2. /\ Moves(t) /\ UNCHANGED <<pend, asked, rows, hist>> /\ Live(t)
      /\ task'[t].pc \in {"idle", "fail"}
      /\ \/ status' = status
         \/ task[t].pc = "fail" /\ status' = [status EXCEPT ![r] = "failed"]
  BY <1>1, EndMoves, VerdictMoves DEF Live, Fail
<1>3. ~WorksOn(t, r)'
  BY <1>2 DEF WorksOn
<1>4. CASE WorksOn(t, r)
  <2>1. status' = status
    BY <1>2, <1>4 DEF WorksOn
  <2> QED BY <1>1, <1>2, <1>3, <1>4, <2>1, WorkerKeepsRow
<1>5. CASE ~WorksOn(t, r)
  <2>1. Takes(t, r) /\ \A u \in Tasks \ {t} : task'[u] = task[u]
    BY <1>1, <1>2 DEF Moves, Takes, TypeOK
  <2>2. \A q \in Runs \ {r} : status'[q] = status[q]
    BY <1>1, <1>2 DEF TypeOK
  <2>3. ASSUME NEW q \in Runs, q # r PROVE RunSound(q)'
    BY <1>1, <1>2, <2>1, <2>2, <2>3, OtherRuns
  <2>4. /\ status'[r] = "none" => status[r] = "none"
        /\ status'[r] \in Waiting => status'[r] = status[r]
    BY <1>1, <1>2 DEF TypeOK, Waiting
  <2>5. /\ \A u \in Tasks : task'[u].run = r /\ Live(u)' => task[u].run = r /\ Live(u)
        /\ \A u \in Tasks : WorksOn(u, r)' => WorksOn(u, r) /\ task'[u] = task[u]
    BY <1>2, <1>3, <2>1 DEF Live, WorksOn
  <2>6. RunSound(r)
    BY DEF WorkInv
  <2>7. RunSound(r)'
    BY <1>2, <2>4, <2>5, <2>6, RunSoundFrame
  <2> QED BY <2>3, <2>7 DEF WorkInv
<1> QED BY <1>4, <1>5

\* A request takes a run: the first of a new one, or one more of a paused one.
LEMMA WorkBegins ==
  ASSUME TypeInv, WorkInv, NEW r \in Runs, NEW t \in Tasks,
         Chat(r, t) \/ Reply(r, t) \/ Decide(r, t)
  PROVE  WorkInv'
<1>1. TypeOK
  BY DEF TypeInv
<1>2. /\ Takes(t, r) /\ ~Live(t) /\ UNCHANGED <<pend, asked, rows>>
      /\ \A q \in Runs : hist'[q].dense <=> hist[q].dense
      /\ \A q \in Runs \ {r} : hist'[q].double <=> hist[q].double
      /\ \/ /\ task'[t].pc = "created" /\ hist' = hist
            /\ status[r] = "none" /\ status' = [status EXCEPT ![r] = "queued"]
         \/ /\ task'[t].pc \in {"replying", "deciding"}
            /\ status[r] \in Waiting /\ status' = status
            /\ hist'[r].double <=> hist[r].double \/ Busy(r)
  <2>1. CASE Chat(r, t)
    BY <1>1, <2>1, ChatMoves
  <2>2. CASE Reply(r, t)
    BY <1>1, <2>2, ReplyMoves DEF Waiting
  <2>3. CASE Decide(r, t)
    BY <1>1, <2>3, DecideMoves DEF Waiting
  <2> QED BY <2>1, <2>2, <2>3
<1>3. /\ \A q \in Runs \ {r} : status'[q] = status[q]
      /\ status'[r] # "none"
      /\ status'[r] = "queued" \/ status'[r] = status[r]
  BY <1>1, <1>2 DEF TypeOK, Waiting
<1>4. ASSUME NEW q \in Runs, q # r PROVE RunSound(q)'
  BY <1>1, <1>2, <1>3, <1>4, OtherRuns
<1>5. RunSound(r) /\ \A u \in Tasks \ {t} : task'[u] = task[u]
  BY <1>1, <1>2 DEF WorkInv, Takes, TypeOK
<1>6. ASSUME ~hist'[r].double
      PROVE  ~hist[r].double /\ \A u \in Tasks : ~WorksOn(u, r)
  <2>1. CASE status[r] = "none" /\ hist' = hist
    BY <1>5, <1>6, <2>1 DEF RunSound, WorksOn, Live
  <2>2. CASE hist'[r].double <=> hist[r].double \/ Busy(r)
    BY <1>6, <2>2 DEF Busy, WorksOn
  <2> QED BY <1>2, <2>1, <2>2
<1>7. ASSUME ~hist'[r].double
      PROVE  /\ hist'[r].dense
             /\ Answerable(status'[r], pend'[r], asked'[r])
             /\ \A u \in Tasks : WorksOn(u, r)'
                  => Sound(status'[r], pend'[r], rows'[r], task'[u])
             /\ \A u, v \in Tasks : WorksOn(u, r)' /\ WorksOn(v, r)' => u = v
  <2>1. hist'[r].dense /\ Answerable(status'[r], pend'[r], asked'[r])
    BY <1>2, <1>3, <1>5, <1>6, <1>7 DEF RunSound, Answerable
  <2>2. \A u \in Tasks : WorksOn(u, r)' => u = t
    BY <1>5, <1>6, <1>7 DEF WorksOn
  <2>3. Sound(status'[r], pend'[r], rows'[r], task'[t])
    BY <1>2 DEF Sound, Entry, Handling
  <2> QED BY <2>1, <2>2, <2>3
<1>8. RunSound(r)'
  BY <1>3, <1>7 DEF RunSound
<1> QED BY <1>4, <1>8 DEF WorkInv

LEMMA WorkInit == Init => WorkInv
<1> SUFFICES ASSUME Init PROVE WorkInv
  OBVIOUS
<1>1. \A t \in Tasks : task[t].pc = "idle"
  BY DEF Init, NoTask, NewTask
<1> QED BY <1>1 DEF Init, WorkInv, RunSound, Live, WorksOn, NoHistory, Answerable

\* What leaves the tasks alone, or ends them all.
LEMMA WorkOthers ==
  ASSUME TypeInv, WorkInv,
         (\E r \in Runs : Abort(r) \/ Age(r)) \/ Sweep \/ Crash \/ UNCHANGED vars
  PROVE  WorkInv'
<1>1. TypeOK
  BY DEF TypeInv
<1>2. /\ UNCHANGED <<pend, asked, rows, hist>>
      /\ \/ task' = task
         \/ \A u \in Tasks : task'[u].pc = "idle"
  BY <1>1, CrashTasks DEF Abort, Age, Sweep, vars
<1>3. \A q \in Runs : \/ status'[q] = status[q]
                      \/ status'[q] \in {"aborted", "failed"}
  BY <1>1, CrashTasks DEF Abort, Age, Sweep, vars, SetStatus, TypeOK
<1>4. ASSUME NEW q \in Runs PROVE RunSound(q)'
  <2>1. /\ status'[q] = "none" => status[q] = "none"
        /\ status'[q] \in Waiting => status'[q] = status[q]
    BY <1>3 DEF Waiting
  <2>2. /\ \A u \in Tasks : task'[u].run = q /\ Live(u)' => task[u].run = q /\ Live(u)
        /\ \A u \in Tasks : WorksOn(u, q)' => WorksOn(u, q) /\ task'[u] = task[u]
    BY <1>2 DEF Live, WorksOn
  <2>3. RunSound(q)
    BY DEF WorkInv
  <2> QED BY <1>2, <2>1, <2>2, <2>3, RunSoundFrame
<1> QED BY <1>4 DEF WorkInv

LEMMA WorkKept == TypeInv /\ WorkInv /\ [Next]_vars => WorkInv'
<1> SUFFICES ASSUME TypeInv, WorkInv, [Next]_vars PROVE WorkInv'
  OBVIOUS
<1>1. \A t \in Tasks : task[t].run \in Runs
  BY DEF TypeInv, TypeOK, Task
<1>2. ASSUME NEW t \in Tasks, Handler(t) \/ Coroutine(t) \/ Raise(t) \/ FailRefused(t) \/ HandlerFails(t)
      PROVE  WorkInv'
  <2>1. PICK r \in Runs : r = task[t].run
    BY <1>1
  <2> QED BY <1>2, <2>1, WorkHandler, WorkLoop, WorkVerdict, WorkEnds DEF Coroutine
<1>3. ASSUME NEW r \in Runs, NEW t \in Tasks, Chat(r, t) \/ Reply(r, t) \/ Decide(r, t)
      PROVE  WorkInv'
  BY <1>3, WorkBegins
<1>4. CASE (\E r \in Runs : Abort(r) \/ Age(r)) \/ Sweep \/ Crash \/ UNCHANGED vars
  BY <1>4, WorkOthers
<1> QED BY <1>2, <1>3, <1>4 DEF Next

LEMMA WorkAlways == Spec => []WorkInv
BY TypeAlways, WorkInit, WorkKept, PTL DEF Spec

\* As long as no two requests worked on a run at once, a run that awaits a reply has a
\* question in runs.inputs, and one that awaits a decision the command its user is
\* shown: the worker that pauses it is alone from the round it proposed to the status
\* it writes.
THEOREM PausedCanBeResumed == Spec => []PausedIsResumable
<1>1. WorkInv => PausedIsResumable
  <2> SUFFICES ASSUME WorkInv, NEW r \in Runs, ~hist[r].double
               PROVE  /\ status[r] = "awaiting_user_input" => In(Ask, pend[r].open)
                      /\ status[r] = "awaiting_command_approval" =>
                           /\ asked[r] \in Mutating \ pend[r].denied
                           /\ In(asked[r], pend[r].open)
    BY DEF PausedIsResumable
  <2>1. Answerable(status[r], pend[r], asked[r])
    BY DEF WorkInv, RunSound
  <2> QED BY <2>1 DEF Answerable
<1> QED BY <1>1, WorkAlways, PTL

\* As long as no two requests worked on a run at once, its rows are numbered 0, 1,
\* 2, ... with no gap and no repetition: what the worker read in count_run_steps stays
\* the number of rows until it has written them, across pauses, failures and crashes.
THEOREM TraceStaysSequence == Spec => []TraceIsSequence
<1>1. WorkInv => TraceIsSequence
  BY DEF WorkInv, RunSound, TraceIsSequence
<1> QED BY <1>1, WorkAlways, PTL

-----------------------------------------------------------------------------
(* No mutating call that nobody approved, or that nobody saw *)

\* Where no approved round held a second mutating call and no two requests worked on
\* the run at once, every call that was granted was the one on show.
ShownInv == \A r \in Runs, c \in Mutating :
  ~hist[r].bundled /\ ~hist[r].double => hist[r].granted[c] = hist[r].shown[c]

\* A round with one mutating call holds that call once and no other.
LEMMA SingleCall ==
  ASSUME NEW round \in Seq(Calls), ~Bundles(round), NEW m \in Mutating, In(m, round),
         NEW c \in Mutating
  PROVE  Occurrences(c, round) = IF c = m THEN 1 ELSE 0
<1> DEFINE S == {k \in DOMAIN round : round[k] = c}
<1>1. PICK k \in DOMAIN round : round[k] = m
  BY DEF In
<1>2. \A j \in DOMAIN round : round[j] \in Mutating => j = k
  BY <1>1 DEF Bundles
<1>3. S = IF c = m THEN {k} ELSE {}
  BY <1>1, <1>2
<1>4. Occurrences(c, round) = Cardinality(S)
  BY DEF Occurrences
<1> HIDE DEF S
<1>5. Cardinality({k}) = 1 /\ Cardinality({}) = 0
  BY FS_EmptySet, FS_Singleton
<1> QED BY <1>3, <1>4, <1>5

LEMMA ShownKeptByDecision ==
  ASSUME TypeOK, WorkInv, ShownInv, NEW r \in Runs, NEW t \in Tasks, Decide(r, t)
  PROVE  ShownInv'
<1> SUFFICES ASSUME NEW q \in Runs, NEW c \in Mutating,
                    ~hist'[q].bundled, ~hist'[q].double
             PROVE  hist'[q].granted[c] = hist'[q].shown[c]
  BY DEF ShownInv
<1>1. CASE SameGrants(q)
  <2>1. ~hist[q].bundled /\ ~hist[q].double
    BY <1>1, DecideMoves DEF SameGrants
  <2> QED BY <1>1, <2>1 DEF ShownInv, SameGrants
<1>2. CASE q = r /\ task'[t].approved
  <2>1. /\ ~hist[r].bundled /\ ~hist[r].double /\ ~Bundles(pend[r].open)
        /\ hist'[r].granted[c] = hist[r].granted[c] + Occurrences(c, pend[r].open)
        /\ hist'[r].shown[c] = hist[r].shown[c] + IF c = asked[r] THEN 1 ELSE 0
    BY <1>2, DecideMoves
  <2>2. asked[r] \in Mutating /\ In(asked[r], pend[r].open)
    BY <2>1, DecideMoves DEF WorkInv, RunSound, Answerable
  <2>3. pend[r].open \in Seq(Calls)
    BY DEF TypeOK, Conversations
  <2>4. Occurrences(c, pend[r].open) = IF c = asked[r] THEN 1 ELSE 0
    BY <2>1, <2>2, <2>3, SingleCall
  <2>5. hist[r].granted[c] = hist[r].shown[c]
    BY <2>1 DEF ShownInv
  <2> QED BY <1>2, <2>1, <2>4, <2>5
<1> QED BY <1>1, <1>2, DecideMoves

\* Every other step leaves the history of approvals alone.
LEMMA GrantsOnlyByDecision ==
  ASSUME TypeInv, [Next]_vars, ~\E r \in Runs, t \in Tasks : Decide(r, t), NEW q \in Runs
  PROVE  SameGrants(q) /\ (hist[q].double => hist'[q].double)
<1>1. TypeOK
  BY DEF TypeInv
<1>2. CASE hist' = hist
  BY <1>2 DEF SameGrants
<1>3. ASSUME NEW t \in Tasks, AddRunStep(task[t].run, task[t].order)
      PROVE  SameGrants(q) /\ (hist[q].double => hist'[q].double)
  <2>1. task[t].run \in Runs /\ task[t].order \in Nat
    BY <1>1 DEF TypeOK, Task
  <2> QED BY <1>1, <1>3, <2>1, AddRunStepEffect DEF SameButDense
<1>4. ASSUME NEW t \in Tasks, task[t].seg.todo # <<>>,
             Ran(task[t].run, Head(task[t].seg.todo))
      PROVE  SameGrants(q) /\ (hist[q].double => hist'[q].double)
  <2>1. task[t].run \in Runs /\ task[t].seg.todo \in Seq(Calls)
    BY <1>1 DEF TypeOK, Task, Segments
  <2>2. Head(task[t].seg.todo) \in Calls
    BY <1>4, <2>1
  <2> QED BY <1>1, <1>4, <2>1, <2>2, RanEffect DEF SameButDone
<1>5. ASSUME NEW t \in Tasks, Handler(t)
      PROVE  SameGrants(q) /\ (hist[q].double => hist'[q].double)
  <2>1. CASE Spawn(t) \/ NothingToAnswer(t) \/ CountDecided(t)
    BY <1>2, <2>1 DEF Spawn, NothingToAnswer, CountDecided
  <2>2. CASE ExecutePaused(t)
    BY <1>1, <1>2, <1>4, <2>2, ExecutePausedMoves
  <2>3. CASE RecordDecided(t)
    BY <1>3, <2>3 DEF RecordDecided
  <2> QED BY <1>5, <2>1, <2>2, <2>3 DEF Handler
<1>6. ASSUME NEW t \in Tasks, Coroutine(t)
      PROVE  SameGrants(q) /\ (hist[q].double => hist'[q].double)
  <2>1. CASE \/ Mark(t) \/ Count(t) \/ ModelConcludes(t) \/ ModelProposes(t)
             \/ ModelFails(t)
    BY <1>1, <1>2, <2>1, MarkMoves, CountMoves, ModelConcludesMoves, ModelProposesMoves,
       ModelFailsMoves DEF SameRow
  <2>2. CASE Execute(t)
    BY <1>2, <1>4, <2>2, ExecuteMoves
  <2>3. CASE OnStep(t) \/ FinalRow(t)
    BY <1>3, <2>3 DEF OnStep, FinalRow
  <2>4. CASE Stash(t) \/ Pause(t) \/ Finish(t) \/ Epilogue(t) \/ Fail(t)
    BY <1>2, <2>4 DEF Stash, Pause, Finish, Epilogue, Fail
  <2> QED BY <1>6, <2>1, <2>2, <2>3, <2>4 DEF Coroutine
<1>7. ASSUME NEW t \in Tasks, Raise(t) \/ FailRefused(t) \/ HandlerFails(t)
      PROVE  SameGrants(q) /\ (hist[q].double => hist'[q].double)
  BY <1>2, <1>7 DEF Raise, FailRefused, HandlerFails
<1>8. ASSUME NEW r \in Runs, NEW t \in Tasks, Chat(r, t) \/ Reply(r, t)
      PROVE  SameGrants(q) /\ (hist[q].double => hist'[q].double)
  <2>1. CASE Chat(r, t)
    BY <1>2, <2>1 DEF Chat
  <2>2. CASE Reply(r, t)
    BY <1>1, <2>2, ReplyMoves
  <2> QED BY <1>8, <2>1, <2>2
<1>9. CASE (\E r \in Runs : Abort(r) \/ Age(r)) \/ Sweep \/ Crash \/ UNCHANGED vars
  BY <1>2, <1>9 DEF Abort, Age, Sweep, Crash, vars
<1> QED BY <1>5, <1>6, <1>7, <1>8, <1>9 DEF Next

LEMMA ShownKept == TypeInv /\ WorkInv /\ ShownInv /\ [Next]_vars => ShownInv'
<1> SUFFICES ASSUME TypeInv, WorkInv, ShownInv, [Next]_vars PROVE ShownInv'
  OBVIOUS
<1>1. CASE \E r \in Runs, t \in Tasks : Decide(r, t)
  BY <1>1, ShownKeptByDecision DEF TypeInv
<1>2. CASE ~\E r \in Runs, t \in Tasks : Decide(r, t)
  <2>1. \A q \in Runs : SameGrants(q) /\ (hist[q].double => hist'[q].double)
    BY <1>2, GrantsOnlyByDecision
  <2> QED BY <2>1 DEF ShownInv, SameGrants
<1> QED BY <1>1, <1>2

\* Without automatic approval no mutating tool runs more often than the rounds the
\* user approved held calls of it, whatever the requests, roles, models, failures and
\* crashes: the executions of run_agent never run one the user must grant, and those
\* of execute_paused_round use up the calls the decision granted.  And where no
\* approved round held a second mutating call and no two requests worked on the run
\* at once, each of these calls was the one the user was shown.
THEOREM GrantsHold == Spec => []MutationsAreGranted
<1>1. Init => ShownInv
  BY DEF Init, NoHistory, ShownInv
<1>2. Spec => []ShownInv
  BY <1>1, TypeAlways, WorkAlways, ShownKept, PTL DEF Spec
<1>3. TypeInv /\ GrantInv /\ ShownInv => MutationsAreGranted
  <2> SUFFICES ASSUME TypeInv, GrantInv, ShownInv, ~AutoApprove,
                      NEW r \in Runs, NEW c \in Mutating
               PROVE  /\ hist[r].done[c] <= hist[r].granted[c]
                      /\ ~hist[r].bundled /\ ~hist[r].double
                           => hist[r].done[c] <= hist[r].shown[c]
    BY DEF MutationsAreGranted
  <2>1. /\ IsFiniteSet(PendingCalls(r, c))
        /\ hist[r].done[c] + Cardinality(PendingCalls(r, c)) <= hist[r].granted[c]
    BY DEF GrantInv, GrantsCover
  <2>2. Cardinality(PendingCalls(r, c)) \in Nat
    BY <2>1, FS_CardinalityType
  <2>3. hist[r].done[c] \in Nat /\ hist[r].granted[c] \in Nat
    BY CountersType DEF TypeInv
  <2>4. hist[r].done[c] <= hist[r].granted[c]
    BY <2>1, <2>2, <2>3
  <2> QED BY <2>4 DEF ShownInv
<1> QED BY <1>2, <1>3, TypeAlways, GrantsAlways, PTL

-----------------------------------------------------------------------------
(* A chat run implements the run lifecycle *)

\* The slots of the tasks, but for one, stay what they are.
LEMMA OtherTasks ==
  ASSUME TypeOK, NEW t \in Tasks, NEW r \in Runs, Takes(t, r)
  PROVE  /\ \A u \in Tasks \ {t} : task'[u] = task[u]
         /\ task'[t].run = r
BY DEF Takes, TypeOK

\* A task that is started, or that goes on, is among the owners of its run ...
LEMMA OwnersGain ==
  ASSUME TypeOK, NEW t \in Tasks, NEW r \in Runs, Takes(t, r), Live(t)',
         ~Live(t) \/ task[t].run = r
  PROVE  OwnersOf' = [OwnersOf EXCEPT ![r] = @ \cup {t}]
<1> DEFINE was(q) == {u \in Tasks : Live(u) /\ task[u].run = q}
           is(q)  == {u \in Tasks : Live(u)' /\ task'[u].run = q}
<1>1. \A q \in Runs : is(q) = IF q = r THEN was(q) \cup {t} ELSE was(q)
  BY OtherTasks DEF Live
<1>2. OwnersOf' = [q \in Runs |-> is(q)] /\ OwnersOf = [q \in Runs |-> was(q)]
  BY DEF OwnersOf
<1> HIDE DEF was, is
<1> QED BY <1>1, <1>2

\* ... and one that ends leaves them.
LEMMA OwnersLose ==
  ASSUME TypeOK, NEW t \in Tasks, NEW r \in Runs, Takes(t, r), ~Live(t)', task[t].run = r
  PROVE  OwnersOf' = [OwnersOf EXCEPT ![r] = @ \ {t}]
<1> DEFINE was(q) == {u \in Tasks : Live(u) /\ task[u].run = q}
           is(q)  == {u \in Tasks : Live(u)' /\ task'[u].run = q}
<1>1. \A q \in Runs : is(q) = IF q = r THEN was(q) \ {t} ELSE was(q)
  BY OtherTasks DEF Live
<1>2. OwnersOf' = [q \in Runs |-> is(q)] /\ OwnersOf = [q \in Runs |-> was(q)]
  BY DEF OwnersOf
<1> HIDE DEF was, is
<1> QED BY <1>1, <1>2

LEMMA OwnersStay ==
  ASSUME TypeOK, NEW t \in Tasks, NEW r \in Runs, Takes(t, r), Live(t), Live(t)',
         task[t].run = r
  PROVE  OwnersOf' = OwnersOf
<1>1. t \in OwnersOf[r] /\ OwnersOf = [q \in Runs |-> OwnersOf[q]]
  BY DEF OwnersOf
<1>2. OwnersOf' = [OwnersOf EXCEPT ![r] = @ \cup {t}]
  BY OwnersGain
<1> HIDE DEF OwnersOf
<1> QED BY <1>1, <1>2

\* What a task can do to the status of its run.
Goes(t)     == Live(t)' /\ UNCHANGED status
Starts(t)   == /\ Live(t)'
               /\ status[task[t].run] \in {"queued"} \cup Waiting
               /\ status' = [status EXCEPT ![task[t].run] = "running"]
Leaves(t)   == ~Live(t)' /\ UNCHANGED status
Decrees(t)  == \E s \in Settled \cup Waiting : status' = [status EXCEPT ![task[t].run] = s]

LEMMA TaskWrites ==
  ASSUME TypeInv, NEW t \in Tasks,
         Handler(t) \/ Coroutine(t) \/ Raise(t) \/ FailRefused(t) \/ HandlerFails(t)
  PROVE  /\ Live(t) /\ Moves(t)
         /\ Goes(t) \/ Starts(t) \/ Leaves(t) \/ Decrees(t)
<1>1. TypeOK
  BY DEF TypeInv
<1>2. CASE Spawn(t) \/ CountDecided(t) \/ RecordDecided(t) \/ ExecutePaused(t)
  BY <1>1, <1>2, SpawnMoves, CountDecidedMoves, RecordDecidedMoves, ExecutePausedMoves
     DEF Live, Goes, SameRow
<1>3. CASE Mark(t)
  <2>1. /\ Moves(t) /\ task[t].pc = "mark" /\ task'[t].pc = "count"
        /\ status' = [status EXCEPT ![task[t].run] =
             IF status[task[t].run] \in {"queued"} \cup Waiting THEN "running"
                                                   ELSE status[task[t].run]]
    BY <1>1, <1>3, MarkMoves
  <2>2. CASE status[task[t].run] \in {"queued"} \cup Waiting
    BY <2>1, <2>2 DEF Live, Starts
  <2>3. CASE status[task[t].run] \notin {"queued"} \cup Waiting
    <3>1. status' = status
      BY <1>1, <2>1, <2>3 DEF TypeOK
    <3> QED BY <2>1, <3>1 DEF Live, Goes
  <2> QED BY <2>2, <2>3
<1>4. CASE Count(t) \/ ModelConcludes(t) \/ ModelProposes(t) \/ ModelFails(t)
  <2>1. Moves(t) /\ UNCHANGED status /\ task[t].pc # "idle" /\ task'[t].pc # "idle"
    BY <1>1, <1>4, CountMoves, ModelConcludesMoves, ModelProposesMoves, ModelFailsMoves
       DEF SameRow
  <2> QED BY <2>1 DEF Live, Goes
<1>5. CASE Execute(t) \/ OnStep(t) \/ FinalRow(t) \/ Stash(t)
  <2>1. Moves(t) /\ UNCHANGED status /\ task[t].pc # "idle" /\ task'[t].pc # "idle"
    BY <1>1, <1>5, ExecuteMoves, OnStepMoves, FinalRowMoves, StashMoves
  <2> QED BY <2>1 DEF Live, Goes
<1>6. CASE Pause(t) \/ Finish(t) \/ Fail(t)
  <2>1. /\ Moves(t) /\ Live(t)
        /\ \E s \in {task[t].outcome, "success", "failed"} :
             status' = [status EXCEPT ![task[t].run] = s]
    BY <1>1, <1>6, VerdictMoves DEF Live
  <2>2. {task[t].outcome, "success", "failed"} \subseteq Settled \cup Waiting
    BY <1>1 DEF TypeOK, Task, Settled
  <2> QED BY <2>1, <2>2 DEF Decrees
<1>7. CASE Epilogue(t) \/ Raise(t) \/ FailRefused(t) \/ HandlerFails(t) \/ NothingToAnswer(t)
  BY <1>1, <1>7, EndMoves DEF Goes, Leaves, Live
<1> QED BY <1>2, <1>3, <1>4, <1>5, <1>6, <1>7 DEF Handler, Coroutine

\* A step of a task is a step of one owner of its run, or of nobody.
LEMMA TaskRefines ==
  ASSUME TypeInv, NEW t \in Tasks,
         Handler(t) \/ Coroutine(t) \/ Raise(t) \/ FailRefused(t) \/ HandlerFails(t)
  PROVE  [Lifecycle!Next]_(Lifecycle!vars)
<1>1. TypeOK
  BY DEF TypeInv
<1>2. Live(t) /\ Moves(t) /\ (Goes(t) \/ Starts(t) \/ Leaves(t) \/ Decrees(t))
  BY TaskWrites
<1>3. PICK r \in Runs : r = task[t].run
  BY <1>1 DEF TypeOK, Task
<1>4. Takes(t, r) /\ t \in OwnersOf[r]
  BY <1>2, <1>3 DEF Moves, OwnersOf
<1>5. CASE Goes(t)
  <2>1. OwnersOf' = OwnersOf
    BY <1>1, <1>2, <1>3, <1>4, <1>5, OwnersStay DEF Goes
  <2> QED BY <1>5, <2>1 DEF Goes, Lifecycle!vars
<1>6. CASE Starts(t)
  <2>1. OwnersOf' = OwnersOf
    BY <1>1, <1>2, <1>3, <1>4, <1>6, OwnersStay DEF Starts
  <2>2. Lifecycle!Start(r, t)
    BY <1>3, <1>4, <1>6, <2>1
       DEF Starts, Waiting, Lifecycle!Start, Lifecycle!Write, Lifecycle!Paused
  <2> QED BY <2>2 DEF Lifecycle!Next
<1>7. CASE Leaves(t)
  <2>1. OwnersOf' = [OwnersOf EXCEPT ![r] = @ \ {t}]
    BY <1>1, <1>3, <1>4, <1>7, OwnersLose DEF Leaves
  <2>2. Lifecycle!Leave(r, t)
    BY <1>4, <1>7, <2>1 DEF Leaves, Lifecycle!Leave, Lifecycle!Part
  <2> QED BY <2>2 DEF Lifecycle!Next
<1>8. CASE Decrees(t)
  <2>1. OwnersOf' = [OwnersOf EXCEPT ![r] = @ \ {t}] \/ OwnersOf' = OwnersOf
    BY <1>1, <1>2, <1>3, <1>4, OwnersLose, OwnersStay
  <2>2. PICK s \in Settled \cup Waiting : status' = [status EXCEPT ![r] = s]
    BY <1>3, <1>8 DEF Decrees
  <2>3. s \in Lifecycle!Settled \cup Lifecycle!Paused
    BY DEF Lifecycle!Settled, Lifecycle!Paused, Settled, Waiting
  <2>4. Lifecycle!Conclude(r, t, s)
    BY <1>4, <2>1, <2>2 DEF Lifecycle!Conclude, Lifecycle!Write, Lifecycle!Part
  <2> QED BY <2>3, <2>4 DEF Lifecycle!Next
<1> QED BY <1>2, <1>5, <1>6, <1>7, <1>8

\* A request creates a run, or lays claim to a paused one.
LEMMA RequestRefines ==
  ASSUME TypeInv, NEW r \in Runs, NEW t \in Tasks, Chat(r, t) \/ Reply(r, t) \/ Decide(r, t)
  PROVE  Lifecycle!Next
<1>1. TypeOK
  BY DEF TypeInv
<1>2. CASE Chat(r, t)
  <2>1. OwnersOf' = [OwnersOf EXCEPT ![r] = @ \cup {t}]
    BY <1>1, <1>2, ChatMoves, OwnersGain DEF Live
  <2>2. Lifecycle!Create(r, t)
    BY <1>1, <1>2, <2>1, ChatMoves DEF Lifecycle!Create, Lifecycle!Write, Lifecycle!Join
  <2> QED BY <2>2 DEF Lifecycle!Next
<1>3. CASE Reply(r, t) \/ Decide(r, t)
  <2>1. OwnersOf' = [OwnersOf EXCEPT ![r] = @ \cup {t}]
    BY <1>1, <1>3, ReplyMoves, DecideMoves, OwnersGain DEF Live
  <2>2. Lifecycle!Claim(r, t)
    BY <1>1, <1>3, <2>1, ReplyMoves, DecideMoves
       DEF Lifecycle!Claim, Lifecycle!Join, Lifecycle!Paused
  <2> QED BY <2>2 DEF Lifecycle!Next
<1> QED BY <1>2, <1>3

\* An abort, the sweep and a start-up write under the guards of the lifecycle; time
\* writes nothing.
LEMMA EventRefines ==
  ASSUME TypeInv, (\E r \in Runs : Abort(r) \/ Age(r)) \/ Sweep \/ Crash
  PROVE  [Lifecycle!Next]_(Lifecycle!vars)
<1>1. task' = task => OwnersOf' = OwnersOf
  BY DEF OwnersOf, Live
<1>2. ASSUME NEW r \in Runs, Abort(r) PROVE Lifecycle!Next
  <2>1. Lifecycle!Abort(r)
    BY <1>1, <1>2 DEF Abort, SetStatus, Waiting, Lifecycle!Abort, Lifecycle!Write,
                      Lifecycle!Open, Lifecycle!Paused
  <2> QED BY <2>1 DEF Lifecycle!Next
<1>3. ASSUME NEW r \in Runs, Age(r) PROVE UNCHANGED Lifecycle!vars
  BY <1>1, <1>3 DEF Age, Lifecycle!vars
<1>4. CASE Sweep
  <2>1. Stale \in SUBSET {r \in Runs : status[r] \in Lifecycle!Paused}
    BY DEF Stale, Waiting, Lifecycle!Paused, TypeInv, TypeOK
  <2>2. Lifecycle!Sweep
    BY <1>1, <1>4, <2>1 DEF Sweep, Lifecycle!Sweep
  <2> QED BY <2>2 DEF Lifecycle!Next
<1>5. CASE Crash
  <2>1. \A t \in Tasks : task'[t].pc = "idle"
    BY <1>5, CrashTasks DEF TypeInv
  <2>2. OwnersOf' = [r \in Runs |-> {}]
    BY <2>1 DEF OwnersOf, Live
  <2>3. Lifecycle!Startup
    BY <1>5, <2>2 DEF Crash, Lifecycle!Startup
  <2> QED BY <2>3 DEF Lifecycle!Next
<1> QED BY <1>2, <1>3, <1>4, <1>5

\* A chat run implements the run lifecycle, for any number of users, models, answers
\* and failures: its handlers and coroutines write the status only as owners of the
\* run, and the abort, the sweep and the start-up only where their queries allow it.
THEOREM LifecycleImplemented == Spec => ImplementsLifecycle
<1>1. Init => Lifecycle!Init
  <2> SUFFICES ASSUME Init PROVE Lifecycle!Init
    OBVIOUS
  <2>1. \A t \in Tasks : task[t].pc = "idle"
    BY DEF Init, NoTask, NewTask
  <2>2. OwnersOf = [r \in Runs |-> {}]
    BY <2>1 DEF OwnersOf, Live
  <2> QED BY <2>2 DEF Init, Lifecycle!Init
<1>2. TypeInv /\ [Next]_vars => [Lifecycle!Next]_(Lifecycle!vars)
  <2> SUFFICES ASSUME TypeInv, [Next]_vars PROVE [Lifecycle!Next]_(Lifecycle!vars)
    OBVIOUS
  <2>1. CASE UNCHANGED vars
    BY <2>1 DEF vars, Lifecycle!vars, OwnersOf, Live
  <2>2. ASSUME NEW t \in Tasks, Handler(t) \/ Coroutine(t) \/ Raise(t) \/ FailRefused(t) \/ HandlerFails(t)
        PROVE  [Lifecycle!Next]_(Lifecycle!vars)
    BY <2>2, TaskRefines
  <2>3. ASSUME NEW r \in Runs, NEW t \in Tasks, Chat(r, t) \/ Reply(r, t) \/ Decide(r, t)
        PROVE  Lifecycle!Next
    BY <2>3, RequestRefines
  <2> QED BY <2>1, <2>2, <2>3, EventRefines DEF Next
<1> QED BY <1>1, <1>2, TypeAlways, PTL DEF Spec, ImplementsLifecycle, Lifecycle!Spec

Proved == INSTANCE RunLifecycleProofs WITH Owners <- Tasks, owners <- OwnersOf

\* A settled chat run that no handler and no coroutine works on any more is history:
\* no request, failure, sweep or start-up changes its status, and nothing works on it.
THEOREM HistoryIsKept == Spec => Lifecycle!HistoryIsFinal
<1>1. Lifecycle!Init => Proved!Init
  BY DEF Lifecycle!Init, Proved!Init
<1>2. [Lifecycle!Next]_(Lifecycle!vars) => [Proved!Next]_(Proved!vars)
  BY DEF Lifecycle!vars, Proved!vars, Lifecycle!Next, Proved!Next,
         Lifecycle!Create, Lifecycle!Claim, Lifecycle!Start, Lifecycle!Leave,
         Lifecycle!Conclude, Lifecycle!Abort, Lifecycle!Sweep, Lifecycle!Startup,
         Lifecycle!Exit, Lifecycle!Write, Lifecycle!Join, Lifecycle!Part,
         Lifecycle!Settled, Lifecycle!Paused, Lifecycle!Open,
         Proved!Create, Proved!Claim, Proved!Start, Proved!Leave,
         Proved!Conclude, Proved!Abort, Proved!Sweep, Proved!Startup,
         Proved!Exit, Proved!Write, Proved!Join, Proved!Part,
         Proved!Settled, Proved!Paused, Proved!Open
<1>3. Lifecycle!Spec => Proved!Spec
  BY <1>1, <1>2, PTL DEF Lifecycle!Spec, Proved!Spec
<1>4. Proved!Spec => Proved!HistoryIsFinal
  BY Proved!HistoryStays
<1>5. Proved!HistoryIsFinal => Lifecycle!HistoryIsFinal
  BY DEF Proved!HistoryIsFinal, Lifecycle!HistoryIsFinal, Proved!vars, Lifecycle!vars,
         Proved!Settled, Lifecycle!Settled
<1> QED BY <1>3, <1>4, <1>5, LifecycleImplemented, PTL DEF ImplementsLifecycle
=============================================================================
