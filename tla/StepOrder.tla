----------------------------- MODULE StepOrder -----------------------------
(***************************************************************************)
(* The order in which the steps of a Flightplan run: _topo_order of        *)
(* graph.py, a depth-first search that marks a step before it visits what  *)
(* the step needs and lists it afterwards.                                 *)
(*                                                                         *)
(* The recursion is written out.  A step is one call of visit up to the    *)
(* next, or the end of one.  As a step is entered once, the place in the   *)
(* loop over its needs is kept per step, and the stack has only ids.       *)
(***************************************************************************)
EXTENDS Integers, Sequences

CONSTANTS
  Names,   \* what a step may be called, or need
  Plans    \* sequences of steps [id, needs]

ASSUME PlansAssumption == Plans \subseteq Seq([id: Names, needs: Seq(Names)])

VARIABLES
  plan,      \* the steps of the definition, as they are listed
  root,      \* the step the loop over them visits next
  at,        \* of each step, which of its needs its visit comes to next
  visited,
  stack,     \* the visits in progress
  ordered,   \* the steps that are listed
  pc

orderVars == <<plan, root, at, visited, stack, ordered, pc>>

Ids == {plan[i].id : i \in DOMAIN plan}

\* by_id: of two steps with one id the last.
IsLast(i) == \A j \in DOMAIN plan : plan[j].id = plan[i].id => j <= i
Needs(id) == plan[CHOOSE i \in DOMAIN plan : plan[i].id = id /\ IsLast(i)].needs

NotStarted ==
  /\ plan = <<>> /\ root = 1 /\ at = <<>>
  /\ visited = {} /\ stack = <<>> /\ ordered = <<>>
  /\ pc = "idle"

Begins ==
  /\ pc = "idle"
  /\ plan' \in Plans
  /\ at' = [id \in {plan'[i].id : i \in DOMAIN plan'} |-> 1]
  /\ pc' = "visit"
  /\ UNCHANGED <<root, visited, stack, ordered>>

\* Mutant of NeedsAreVisited: the last of its needs is left out.
AllButOne(id) == at[id] >= Len(Needs(id))

NeedsAreVisited(id) == at[id] > Len(Needs(id))

Top == stack[Len(stack)]

\* visit(id): it returns at once, or enters the step, or by_id raises KeyError.
Visit(id) ==
  \/ id \in visited /\ UNCHANGED <<visited, stack, pc>>
  \/ /\ id \in Ids \ visited
     /\ visited' = visited \cup {id}
     /\ stack' = Append(stack, id)
     /\ UNCHANGED pc
  \/ /\ id \notin Ids \cup visited
     /\ visited' = visited \cup {id}
     /\ pc' = "raised"
     /\ UNCHANGED stack

VisitsRoot ==
  /\ pc = "visit" /\ stack = <<>> /\ root <= Len(plan)
  /\ Visit(plan[root].id)
  /\ root' = root + 1
  /\ UNCHANGED <<plan, at, ordered>>

VisitsNeed ==
  /\ pc = "visit" /\ stack # <<>> /\ ~NeedsAreVisited(Top)
  /\ Visit(Needs(Top)[at[Top]])
  /\ at' = [at EXCEPT ![Top] = @ + 1]
  /\ UNCHANGED <<plan, root, ordered>>

Leaves ==
  /\ pc = "visit" /\ stack # <<>> /\ NeedsAreVisited(Top)
  /\ ordered' = Append(ordered, Top)
  /\ stack' = SubSeq(stack, 1, Len(stack) - 1)
  /\ UNCHANGED <<plan, root, at, visited, pc>>

Returns ==
  /\ pc = "visit" /\ stack = <<>> /\ root > Len(plan)
  /\ pc' = "returned"
  /\ UNCHANGED <<plan, root, at, visited, stack, ordered>>

\* The caller has the result, or the exception ends the run.
Forgets ==
  /\ pc \in {"returned", "raised"}
  /\ plan' = <<>> /\ root' = 1 /\ at' = <<>>
  /\ visited' = {} /\ stack' = <<>> /\ ordered' = <<>>
  /\ pc' = "idle"

OrderNext == Begins \/ VisitsRoot \/ VisitsNeed \/ Leaves \/ Returns \/ Forgets
OrderSpec == NotStarted /\ [][OrderNext]_orderVars

---------------------------------------------------------------------------
\* What a step needs, and what it needs directly or not: the least set that has what
\* it needs and what each of its members needs.
NeededBy(id) == {Needs(id)[k] : k \in DOMAIN Needs(id)}
Closed(C) == \A b \in C : NeededBy(b) \subseteq C
Below(id) == {b \in Ids : \A C \in SUBSET Ids : NeededBy(id) \subseteq C /\ Closed(C) => b \in C}

\* The plan lists each step once, and after all it needs.
InOrderAlready ==
  /\ \A i, j \in DOMAIN plan : plan[i].id = plan[j].id => i = j
  /\ \A i \in DOMAIN plan : NeededBy(plan[i].id) \subseteq {plan[j].id : j \in 1..(i - 1)}

\* The steps of a Flightplan run in an order that has each of them once and each
\* need before the step that has it, except the needs that close a cycle, which
\* nothing refuses; a plan that is in order already is left alone; and a plan that
\* needs a step it does not have is not run at all (graph.py: _topo_order).
OrderIsRight ==
  /\ pc = "returned" =>
       /\ \A i, j \in DOMAIN ordered : ordered[i] = ordered[j] => i = j
       /\ {ordered[i] : i \in DOMAIN ordered} = Ids
       /\ \A i, j \in DOMAIN ordered :
            ordered[i] \in NeededBy(ordered[j]) /\ ordered[j] \notin Below(ordered[i]) => i <= j
       /\ InOrderAlready => ordered = [i \in DOMAIN plan |-> plan[i].id]
  /\ pc \in {"returned", "raised"} =>
       (pc = "raised" <=> \E id \in Ids : ~(NeededBy(id) \subseteq Ids))
=============================================================================
