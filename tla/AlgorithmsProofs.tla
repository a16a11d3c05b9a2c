-------------------------- MODULE AlgorithmsProofs --------------------------
(***************************************************************************)
(* Theorems about the loops that Algorithms calls: the order of a          *)
(* Flightplan's steps and what a model is shown of the past, for every set *)
(* of names, plans, threads and talks.                                     *)
(*                                                                         *)
(* Of the order: a step is visited when it is on the stack or listed, and  *)
(* not both; each visit on the stack is of a step below those it was       *)
(* called from; so the need of a step that leaves the stack is listed, or  *)
(* on the stack, and then the step closes a cycle.                         *)
(*                                                                         *)
(* Of the past: the runs of a thread are listed once each, as they began,  *)
(* and those cut off are the first of them; of a talk the length is known, *)
(* and what is shortened is all that could be before the cursor.           *)
(***************************************************************************)
EXTENDS StepOrder, Memory, FiniteSetTheorems, SequenceTheorems, WellFoundedInduction, TLAPS

(* Least and greatest members *)

\* A set of naturals has a least member: the order of the naturals is well founded.
LEMMA LeastNumber ==
  ASSUME NEW T, T \subseteq Nat, T # {}
  PROVE  \E n \in T : \A m \in T : n <= m
<1> DEFINE R == {ss \in Nat \X Nat : ss[1] < ss[2]}
<1>1. IsWellFoundedOn(R, Nat)
  BY NatLessThanWellFounded DEF OpToRel
<1>2. \A m, n \in Nat : <<m, n>> \in R <=> m < n
  OBVIOUS
<1> HIDE DEF R
<1>3. PICK n \in T : \A m \in T : ~(<<m, n>> \in R)
  BY <1>1, WFMin
<1>4. ASSUME NEW m \in T PROVE n <= m
  <2>1. ~(m < n)
    BY <1>2, <1>3
  <2> QED BY <2>1
<1> QED BY <1>4

\* A set of places of a sequence has a last one (by_id: the last of two steps with one id).
LEMMA LastNumber ==
  ASSUME NEW n \in Nat, NEW T, T \subseteq 1..n, T # {}
  PROVE  \E m \in T : \A k \in T : k <= m
<1> DEFINE S == {i \in 0..n : n - i \in T}
<1>1. PICK k \in T : TRUE
  OBVIOUS
<1>2. n - k \in S
  <2>1. k \in 1..n /\ n - (n - k) = k
    OBVIOUS
  <2> QED BY <2>1
<1>3. PICK m \in S : \A j \in S : m <= j
  <2>1. S \subseteq Nat
    <3>1. 0..n \subseteq Nat
      OBVIOUS
    <3> QED BY <3>1, Zenon
  <2> HIDE DEF S
  <2> QED BY <1>2, <2>1, LeastNumber
<1>4. n - m \in T
  BY <1>3
<1>5. ASSUME NEW j \in T PROVE j <= n - m
  BY <1>3, <1>5
<1> QED BY <1>4, <1>5

\* What holds at 0 and is passed on from each number to the next holds of all: the least
\* at which it fails would be a contradiction.
LEMMA Onwards ==
  ASSUME NEW n \in Nat, NEW T, T \subseteq 0..n, 0 \in T, \A k \in 1..n : k - 1 \in T => k \in T
  PROVE  T = 0..n
<1> DEFINE U == (0..n) \ T
<1>1. SUFFICES ASSUME U # {} PROVE FALSE
  OBVIOUS
<1>2. U \subseteq Nat
  OBVIOUS
<1> HIDE DEF U
<1>3. PICK k \in U : \A m \in U : k <= m
  BY <1>1, <1>2, LeastNumber
<1>4. k \in 1..n /\ k \notin T
  BY <1>3 DEF U
<1>5. k - 1 \in T
  BY <1>3, <1>4 DEF U
<1> QED BY <1>4, <1>5

\* A sequence without repetitions has as many elements on a set of its places as there are places.
LEMMA CountPlaces ==
  ASSUME NEW S, IsFiniteSet(S), NEW f, \A x, y \in S : f[x] = f[y] => x = y
  PROVE  Cardinality({f[x] : x \in S}) = Cardinality(S)
<1> DEFINE T == {f[x] : x \in S}
           g == [x \in S |-> f[x]]
<1>1. g \in Bijection(S, T)
  <2>1. g \in [S -> T] /\ \A x \in S : g[x] = f[x]
    OBVIOUS
  <2>2. \A y \in T : \E x \in S : g[x] = y
    OBVIOUS
  <2> HIDE DEF g, T
  <2>3. \A x, y \in S : g[x] = g[y] => x = y
    BY <2>1
  <2>4. g \in Injection(S, T)
    BY <2>1, <2>3 DEF Injection, IsInjective
  <2>5. g \in Surjection(S, T)
    BY <2>1, <2>2 DEF Surjection
  <2> QED BY <2>4, <2>5 DEF Bijection
<1>2. ExistsBijection(S, T)
  BY <1>1 DEF ExistsBijection
<1> QED BY <1>2, FS_Bijection

---------------------------------------------------------------------------
(* The order of the steps: the inductive invariant *)

Step == [id: Names, needs: Seq(Names)]

Types ==
  /\ plan \in Seq(Step)
  /\ root \in Nat \ {0}
  /\ at \in [Ids -> Nat \ {0}]
  /\ visited \subseteq Names
  /\ stack \in Seq(Ids)
  /\ ordered \in Seq(Ids)
  /\ pc \in {"idle", "visit", "returned", "raised"}

\* A step is visited once: it is being visited, or it is listed.
VisitedOnce ==
  /\ \A id \in visited : \/ \E i \in DOMAIN stack : stack[i] = id
                         \/ \E i \in DOMAIN ordered : ordered[i] = id
  /\ \A i \in DOMAIN stack : stack[i] \in visited
  /\ \A i \in DOMAIN ordered : ordered[i] \in visited
  /\ \A i, j \in DOMAIN stack : stack[i] = stack[j] => i = j
  /\ \A i, j \in DOMAIN ordered : ordered[i] = ordered[j] => i = j
  /\ \A i \in DOMAIN stack, j \in DOMAIN ordered : stack[i] # ordered[j]

\* What the loops have passed has been visited, and who is listed has passed all it needs.
LoopsVisit ==
  /\ \A i \in DOMAIN plan : i < root => plan[i].id \in visited
  /\ \A id \in visited : \A k \in DOMAIN Needs(id) : k < at[id] => Needs(id)[k] \in visited
  /\ \A id \in Ids \ visited : at[id] = 1
  /\ \A i \in DOMAIN ordered : NeedsAreVisited(ordered[i])

\* The stack is a path: each visit is below those it was called from.
IsPath == \A i, j \in DOMAIN stack : i < j => stack[j] \in Below(stack[i])

\* What a listed step needs is listed before it, or was still being visited: a cycle.
Sorted ==
  \A i \in DOMAIN ordered : \A b \in NeededBy(ordered[i]) :
    \/ \E j \in DOMAIN ordered : j <= i /\ ordered[j] = b
    \/ ordered[i] \in Below(b)

\* A plan that is in order is listed as it is, one step at a time.
Straight ==
  InOrderAlready =>
    /\ Len(ordered) + Len(stack) = root - 1
    /\ Len(stack) <= 1
    /\ root <= Len(plan) + 1
    /\ \A i \in DOMAIN ordered : ordered[i] = plan[i].id
    /\ stack # <<>> => stack[1] = plan[root - 1].id

Search == VisitedOnce /\ LoopsVisit /\ IsPath /\ Sorted /\ Straight

\* The search as long as it goes on or has returned, and why it has ended.
OrderInv ==
  /\ Types
  /\ pc = "idle" => NotStarted
  /\ pc # "raised" => visited \subseteq Ids /\ Search
  /\ pc = "returned" => stack = <<>> /\ root > Len(plan)
  /\ pc = "raised" => \E id \in Ids : ~(NeededBy(id) \subseteq Ids)

---------------------------------------------------------------------------
(* Operators and sequences *)

\* by_id has a step for each id, whose needs are names.
LEMMA NeedsType ==
  ASSUME plan \in Seq(Step), NEW id \in Ids
  PROVE  Needs(id) \in Seq(Names)
<1> DEFINE T == {i \in DOMAIN plan : plan[i].id = id}
<1>1. T \subseteq 1..Len(plan) /\ T # {} /\ Len(plan) \in Nat
  BY DEF Ids
<1>2. PICK m \in T : \A k \in T : k <= m
  <2> HIDE DEF T
  <2> QED BY <1>1, LastNumber
<1>3. m \in DOMAIN plan /\ plan[m].id = id /\ IsLast(m)
  BY <1>2 DEF IsLast
<1> DEFINE c == CHOOSE i \in DOMAIN plan : plan[i].id = id /\ IsLast(i)
<1>4. c \in DOMAIN plan
  BY <1>3
<1>5. Needs(id) = plan[c].needs
  BY DEF Needs
<1> HIDE DEF c
<1>6. plan[c] \in Step
  BY <1>4, ElementOfSeq
<1> QED BY <1>5, <1>6 DEF Step

\* What only the plan decides: ids, needs, what is below a step, and the order it is in.
LEMMA SamePlan ==
  ASSUME plan' = plan
  PROVE  /\ Ids' = Ids /\ (InOrderAlready' <=> InOrderAlready)
         /\ \A id : /\ Needs(id)' = Needs(id) /\ NeededBy(id)' = NeededBy(id)
                    /\ Below(id)' = Below(id)
BY DEF Ids, InOrderAlready, Needs, NeededBy, Below, Closed, IsLast

\* What a step needs is below it, and so is what those below it need.
LEMMA BelowGrows ==
  ASSUME NEW a, NEW b \in Ids
  PROVE  /\ b \in NeededBy(a) => b \in Below(a)
         /\ \A c \in Ids : b \in Below(a) /\ c \in NeededBy(b) => c \in Below(a)
BY DEF Below, Closed

\* Before the call nothing is visited.
LEMMA OrderInit == NotStarted => OrderInv
<1> SUFFICES ASSUME NotStarted PROVE OrderInv
  OBVIOUS
<1>1. plan = <<>> /\ stack = <<>> /\ ordered = <<>> /\ at = <<>> /\ DOMAIN plan = {} /\ Len(plan) = 0
      /\ DOMAIN stack = {} /\ DOMAIN ordered = {} /\ Len(stack) = 0 /\ Len(ordered) = 0
  BY DEF NotStarted
<1>2. Ids = {}
  BY <1>1 DEF Ids
<1>3. at \in [Ids -> Nat \ {0}]
  BY <1>1, <1>2
<1>4. Types
  BY <1>1, <1>2, <1>3 DEF Types, NotStarted
<1>5. Search
  <2>1. VisitedOnce /\ LoopsVisit /\ IsPath /\ Sorted
    BY <1>1, <1>2 DEF NotStarted, VisitedOnce, LoopsVisit, IsPath, Sorted
  <2>2. Straight
    BY <1>1 DEF NotStarted, Straight
  <2> QED BY <2>1, <2>2 DEF Search
<1> QED BY <1>4, <1>5 DEF OrderInv, NotStarted

\* The members of the plan, the stack and the list are steps and ids.
LEMMA SeqFacts ==
  ASSUME Types
  PROVE  /\ DOMAIN plan = 1..Len(plan) /\ DOMAIN stack = 1..Len(stack) /\ DOMAIN ordered = 1..Len(ordered)
         /\ Len(plan) \in Nat /\ Len(stack) \in Nat /\ Len(ordered) \in Nat
         /\ \A i \in DOMAIN plan : plan[i] \in Step /\ plan[i].id \in Ids
         /\ \A i \in DOMAIN stack : stack[i] \in Ids
         /\ \A i \in DOMAIN ordered : ordered[i] \in Ids
         /\ Ids \subseteq Names
         /\ \A id \in Ids : Needs(id) \in Seq(Names)
<1>1. \A i \in DOMAIN plan : plan[i] \in Step
  BY ElementOfSeq DEF Types
<1>2. \A id \in Ids : Needs(id) \in Seq(Names)
  BY NeedsType DEF Types
<1> QED BY <1>1, <1>2, ElementOfSeq DEF Types, Ids, Step

---------------------------------------------------------------------------
(* The steps of the search *)

\* A step that has not been visited, and is below all visits in progress, is entered.
LEMMA EnterKeeps ==
  ASSUME Types, VisitedOnce, IsPath, Sorted, plan' = plan, ordered' = ordered,
         NEW id \in Ids \ visited, visited' = visited \cup {id}, stack' = Append(stack, id),
         \A i \in DOMAIN stack : id \in Below(stack[i])
  PROVE  VisitedOnce' /\ IsPath' /\ Sorted' /\ stack' \in Seq(Ids) /\ Len(stack') = Len(stack) + 1
         /\ stack'[Len(stack) + 1] = id
<1>1. /\ stack \in Seq(Ids) /\ DOMAIN stack = 1..Len(stack) /\ Len(stack) \in Nat
  BY SeqFacts DEF Types
<1>2. /\ stack' \in Seq(Ids) /\ Len(stack') = Len(stack) + 1 /\ DOMAIN stack' = 1..(Len(stack) + 1)
      /\ \A i \in 1..Len(stack) : stack'[i] = stack[i]
      /\ stack'[Len(stack) + 1] = id
  BY <1>1
<1>3. VisitedOnce'
  BY <1>1, <1>2 DEF VisitedOnce
<1>4. IsPath'
  <2> SUFFICES ASSUME NEW i \in DOMAIN stack', NEW j \in DOMAIN stack', i < j
               PROVE  stack'[j] \in Below(stack'[i])
    BY SamePlan DEF IsPath
  <2>1. CASE j \in DOMAIN stack
    BY <1>1, <1>2, <2>1 DEF IsPath
  <2>2. CASE j = Len(stack) + 1
    BY <1>1, <1>2, <2>2
  <2> QED BY <1>1, <1>2, <2>1, <2>2
<1>5. Sorted'
  BY SamePlan DEF Sorted
<1> QED BY <1>2, <1>3, <1>4, <1>5

\* The loop over the plan visits its next step: in a plan that is in order it is a new one.
LEMMA RootKeeps ==
  ASSUME OrderInv, VisitsRoot PROVE OrderInv'
<1> DEFINE id == plan[root].id
<1>1. /\ Types /\ Search /\ visited \subseteq Ids /\ stack = <<>> /\ Len(stack) = 0 /\ DOMAIN stack = {}
      /\ pc = "visit" /\ plan' = plan /\ at' = at /\ ordered' = ordered /\ root' = root + 1
      /\ root \in 1..Len(plan) /\ root \in Nat /\ Visit(id)
  BY SeqFacts DEF OrderInv, VisitsRoot, Types
<1>2. id \in Ids /\ Ids' = Ids /\ (InOrderAlready' <=> InOrderAlready) /\ id \in Names
  BY <1>1, SeqFacts, SamePlan
<1>3. InOrderAlready => id \notin visited
  <2> SUFFICES ASSUME InOrderAlready, id \in visited PROVE FALSE
    OBVIOUS
  <2>1. PICK j \in DOMAIN ordered : ordered[j] = id
    BY <1>1 DEF Search, VisitedOnce
  <2>2. j \in 1..(root - 1) /\ plan[j].id = id
    BY <1>1, <2>1, SeqFacts DEF Search, Straight
  <2>3. j \in DOMAIN plan /\ root \in DOMAIN plan /\ j # root
    BY <1>1, <2>2, SeqFacts
  <2> QED BY <2>2, <2>3 DEF InOrderAlready
<1>4. CASE id \in visited /\ UNCHANGED <<visited, stack, pc>>
  <2>1. Types'
    BY <1>1, <1>2, <1>4 DEF Types
  <2>2. VisitedOnce' /\ IsPath' /\ Sorted'
    BY <1>1, <1>4, SamePlan DEF Search, VisitedOnce, IsPath, Sorted
  <2>3. LoopsVisit'
    BY <1>1, <1>4, SamePlan, SeqFacts DEF Search, LoopsVisit, NeedsAreVisited
  <2>4. Straight'
    BY <1>2, <1>3, <1>4 DEF Straight
  <2> QED BY <1>1, <1>2, <1>4, <2>1, <2>2, <2>3, <2>4 DEF OrderInv, Search
<1>5. CASE id \notin visited /\ visited' = visited \cup {id} /\ stack' = Append(stack, id) /\ pc' = pc
  <2>1. /\ VisitedOnce' /\ IsPath' /\ Sorted' /\ stack' \in Seq(Ids)
        /\ Len(stack') = 1 /\ stack'[1] = id
    BY <1>1, <1>2, <1>5, EnterKeeps DEF Search
  <2>2. Types'
    BY <1>1, <1>2, <1>5, <2>1 DEF Types
  <2>3. LoopsVisit'
    <3>1. \A i \in DOMAIN plan : i < root' => plan[i].id \in visited'
      BY <1>1, <1>5, SeqFacts DEF Search, LoopsVisit
    <3>2. \A k \in DOMAIN Needs(id) : ~(k < at[id])
      <4>1. at[id] = 1
        BY <1>1, <1>2, <1>5 DEF Search, LoopsVisit
      <4>2. DOMAIN Needs(id) = 1..Len(Needs(id)) /\ Len(Needs(id)) \in Nat
        BY <1>1, <1>2, SeqFacts
      <4> QED BY <4>1, <4>2
    <3> QED BY <1>1, <1>5, <3>1, <3>2, SamePlan DEF Search, LoopsVisit, NeedsAreVisited
  <2>4. Straight'
    BY <1>1, <1>2, <2>1, SeqFacts DEF Search, Straight
  <2> QED BY <1>1, <1>2, <1>5, <2>1, <2>2, <2>3, <2>4 DEF OrderInv, Search
<1> QED BY <1>1, <1>2, <1>4, <1>5 DEF Visit

\* The visit that goes on is of a step of the plan.
LEMMA TopFacts ==
  ASSUME Types, stack # <<>>
  PROVE  /\ Len(stack) \in DOMAIN stack /\ Top \in Ids /\ Needs(Top) \in Seq(Names)
         /\ DOMAIN Needs(Top) = 1..Len(Needs(Top)) /\ Len(Needs(Top)) \in Nat
         /\ at[Top] \in Nat \ {0}
<1>1. Len(stack) \in DOMAIN stack
  BY EmptySeq, SeqFacts DEF Types
<1>2. Top \in Ids
  BY <1>1, SeqFacts DEF Top
<1> QED BY <1>1, <1>2, SeqFacts DEF Types

\* The visit of a need returns at once, enters it, or raises; in a plan that is in
\* order it returns, as the need is listed.
LEMMA NeedKeeps ==
  ASSUME OrderInv, VisitsNeed PROVE OrderInv'
<1> DEFINE id == Needs(Top)[at[Top]]
<1>1. /\ Types /\ Search /\ visited \subseteq Ids /\ stack # <<>>
      /\ pc = "visit" /\ plan' = plan /\ ordered' = ordered /\ root' = root
      /\ at' = [at EXCEPT ![Top] = @ + 1] /\ ~NeedsAreVisited(Top) /\ Visit(id)
  BY DEF OrderInv, VisitsNeed
<1>2. /\ at[Top] \in DOMAIN Needs(Top) /\ id \in Names /\ id \in NeededBy(Top)
  BY <1>1, TopFacts, ElementOfSeq DEF NeedsAreVisited, NeededBy
<1>3. /\ at' \in [Ids -> Nat \ {0}] /\ at'[Top] = at[Top] + 1
      /\ \A j \in Ids \ {Top} : at'[j] = at[j]
  BY <1>1, TopFacts DEF Types
<1>4. Top \in visited /\ \A i \in DOMAIN ordered : ordered[i] # Top
  BY <1>1, TopFacts DEF Search, VisitedOnce, Top
<1>5. InOrderAlready => id \in visited
  <2> SUFFICES ASSUME InOrderAlready PROVE id \in visited
    OBVIOUS
  <2>1. /\ Len(ordered) + Len(stack) = root - 1 /\ Len(stack) <= 1 /\ root <= Len(plan) + 1
        /\ stack[1] = plan[root - 1].id
    BY <1>1 DEF Search, Straight
  <2>2. /\ Len(stack) \in 1..Len(stack) /\ Len(stack) \in Nat /\ Len(ordered) \in Nat
        /\ Len(plan) \in Nat /\ root \in Nat
    BY <1>1, TopFacts, SeqFacts DEF Types
  <2>3. Len(stack) = 1
    <3>1. \A m \in Nat : m \in 1..m /\ m <= 1 => m = 1
      OBVIOUS
    <3> QED BY <2>1, <2>2, <3>1, Zenon
  <2>4. Len(stack) = 1 /\ Top = plan[root - 1].id /\ Len(ordered) = root - 2 /\ root - 1 \in DOMAIN plan
    <3>1. root - 1 \in 1..Len(plan) /\ Len(ordered) = root - 2
      BY <2>1, <2>2, <2>3
    <3> QED BY <1>1, <2>1, <2>3, <3>1, SeqFacts DEF Top
  <2>5. PICK j \in 1..(root - 2) : id = plan[j].id
    <3>1. NeededBy(plan[root - 1].id) \subseteq {plan[j].id : j \in 1..((root - 1) - 1)}
      BY <2>4 DEF InOrderAlready
    <3>2. (root - 1) - 1 = root - 2
      BY <2>2
    <3> QED BY <1>2, <2>4, <3>1, <3>2
  <2>6. j \in DOMAIN ordered /\ ordered[j] = id
    BY <1>1, <2>4, <2>5, SeqFacts DEF Search, Straight
  <2> QED BY <1>1, <2>6 DEF Search, VisitedOnce
<1>6. ASSUME id \in Ids, id \in visited', visited \subseteq visited', visited' \subseteq visited \cup {id} PROVE LoopsVisit'
  <2>1. \A i \in DOMAIN plan : i < root' => plan[i].id \in visited'
    BY <1>1, <1>6 DEF Search, LoopsVisit
  <2>2. ASSUME NEW j \in visited', j \in Ids, NEW k \in DOMAIN Needs(j), k < at'[j] PROVE Needs(j)[k] \in visited'
    <3>1. CASE j = Top
      <4>1. k \in Nat
        BY <2>2, <3>1, <1>1, TopFacts
      <4>2. CASE k = at[Top]
        BY <1>6, <3>1, <4>2
      <4>3. CASE k < at[Top]
        BY <1>1, <1>4, <1>6, <2>2, <3>1, <4>3 DEF Search, LoopsVisit
      <4> QED BY <1>1, <1>3, <2>2, <3>1, <4>1, <4>2, <4>3, TopFacts
    <3>2. CASE j # Top /\ j \in visited
      BY <1>1, <1>3, <1>6, <2>2, <3>2 DEF Search, LoopsVisit
    <3>3. CASE j # Top /\ j \notin visited
      <4>1. at'[j] = 1
        BY <1>1, <1>3, <2>2, <3>3 DEF Search, LoopsVisit
      <4>2. k \in Nat \ {0}
        BY <1>1, <2>2, SeqFacts
      <4> QED BY <2>2, <4>1, <4>2
    <3> QED BY <3>1, <3>2, <3>3
  <2>3. \A j \in Ids \ visited' : at'[j] = 1
    BY <1>1, <1>3, <1>4, <1>6 DEF Search, LoopsVisit
  <2>4. \A i \in DOMAIN ordered : at'[ordered[i]] = at[ordered[i]]
    BY <1>1, <1>3, <1>4, SeqFacts
  <2>5. \A i \in DOMAIN ordered : NeedsAreVisited(ordered[i])'
    BY <1>1, <2>4, SamePlan DEF Search, LoopsVisit, NeedsAreVisited
  <2>6. \A j \in visited' : j \in Ids
    BY <1>1, <1>6
  <2> QED BY <1>1, <2>1, <2>2, <2>3, <2>5, <2>6, SamePlan DEF LoopsVisit
<1>7. CASE id \in visited /\ UNCHANGED <<visited, stack, pc>>
  <2>1. Types'
    BY <1>1, <1>3, <1>7, SamePlan DEF Types
  <2>2. VisitedOnce' /\ IsPath' /\ Sorted'
    BY <1>1, <1>7, SamePlan DEF Search, VisitedOnce, IsPath, Sorted
  <2>3. LoopsVisit'
    BY <1>1, <1>6, <1>7
  <2>4. Straight'
    BY <1>1, <1>7, SamePlan DEF Search, Straight
  <2> QED BY <1>1, <1>7, <2>1, <2>2, <2>3, <2>4, SamePlan DEF OrderInv, Search
<1>8. CASE id \in Ids \ visited /\ visited' = visited \cup {id} /\ stack' = Append(stack, id) /\ pc' = pc
  <2>1. \A i \in DOMAIN stack : id \in Below(stack[i])
    <3>1. ASSUME NEW i \in DOMAIN stack PROVE stack[i] = Top \/ Top \in Below(stack[i])
      BY <1>1, SeqFacts, TopFacts DEF Search, IsPath, Top
    <3> QED BY <1>2, <1>8, <3>1, BelowGrows, TopFacts, <1>1
  <2>2. VisitedOnce' /\ IsPath' /\ Sorted' /\ stack' \in Seq(Ids)
    BY <1>1, <1>8, <2>1, EnterKeeps DEF Search
  <2>3. Types'
    BY <1>1, <1>2, <1>3, <1>8, <2>2, SamePlan DEF Types
  <2>4. LoopsVisit'
    BY <1>6, <1>8
  <2>5. Straight'
    BY <1>1, <1>5, <1>8, SamePlan DEF Straight
  <2> QED BY <1>1, <1>8, <2>2, <2>3, <2>4, <2>5, SamePlan DEF OrderInv, Search
<1>9. CASE id \notin Ids /\ visited' = visited \cup {id} /\ pc' = "raised" /\ stack' = stack
  <2>1. Types'
    BY <1>1, <1>2, <1>3, <1>9, SamePlan DEF Types
  <2>2. \E j \in Ids : ~(NeededBy(j) \subseteq Ids)
    BY <1>1, <1>2, <1>9, TopFacts
  <2> QED BY <1>1, <1>9, <2>1, <2>2, SamePlan DEF OrderInv
<1> QED BY <1>1, <1>7, <1>8, <1>9 DEF Visit

\* A step whose needs are visited is listed: each of them is listed, or is on the
\* stack, and the step below it.
LEMMA LeaveKeeps ==
  ASSUME OrderInv, Leaves PROVE OrderInv'
<1> DEFINE n == Len(stack)
           o == Len(ordered)
<1>1. /\ Types /\ Search /\ visited \subseteq Ids /\ stack # <<>>
      /\ pc = "visit" /\ plan' = plan /\ root' = root /\ at' = at /\ visited' = visited /\ pc' = pc
      /\ ordered' = Append(ordered, Top) /\ NeedsAreVisited(Top) /\ stack' = SubSeq(stack, 1, n - 1)
  BY DEF OrderInv, Leaves
<1>2. n \in Nat \ {0} /\ o \in Nat /\ Top \in Ids
  BY <1>1, SeqFacts, TopFacts
<1>3. /\ ordered' \in Seq(Ids) /\ Len(ordered') = o + 1 /\ DOMAIN ordered' = 1..(o + 1)
      /\ \A i \in 1..o : ordered'[i] = ordered[i]
      /\ ordered'[o + 1] = Top
  BY <1>1, <1>2 DEF Types
<1>4. /\ stack' \in Seq(Ids) /\ Len(stack') = n - 1 /\ DOMAIN stack' = 1..(n - 1)
      /\ \A i \in 1..(n - 1) : stack'[i] = stack[i]
  <2>1. stack \in Seq(Ids) /\ n - 1 \in Nat /\ n - 1 <= Len(stack) /\ DOMAIN stack = 1..Len(stack)
        /\ Len(stack) \in Nat
    BY <1>1, <1>2, SeqFacts DEF Types
  <2>2. \A i \in 1..(n - 1) : i \in 1..Len(stack) /\ stack[i] \in Ids
    BY <2>1, <1>1, SeqFacts
  <2> HIDE DEF n
  <2>3. SubSeq(stack, 1, n - 1) = [i \in 1..(n - 1) |-> stack[i]]
    <3>1. SubSeq(stack, 1, n - 1) = [i \in 1..((n - 1) - 1 + 1) |-> stack[i + 1 - 1]]
      BY <2>1, SMT
    <3> QED BY <2>1, <3>1
  <2>4. [i \in 1..(n - 1) |-> stack[i]] \in Seq(Ids)
    BY <2>1, <2>2, SeqDef
  <2> QED BY <1>1, <2>1, <2>3, <2>4
<1>5. DOMAIN stack = 1..n /\ DOMAIN ordered = 1..o /\ Top = stack[n]
  BY <1>1, SeqFacts DEF Top
<1> HIDE DEF n, o
<1>6. Types'
  BY <1>1, <1>3, <1>4, SamePlan DEF Types
<1>7. VisitedOnce'
  <2>1. VisitedOnce
    BY <1>1 DEF Search
  <2>2. \A id \in visited : \/ \E i \in 1..(n - 1) : stack[i] = id
                            \/ \E i \in 1..(o + 1) : ordered'[i] = id
    <3> SUFFICES ASSUME NEW id \in visited PROVE \/ \E i \in 1..(n - 1) : stack[i] = id
                                                 \/ \E i \in 1..(o + 1) : ordered'[i] = id
      OBVIOUS
    <3>1. CASE \E i \in 1..n : stack[i] = id
      <4>1. PICK i \in 1..n : stack[i] = id
        BY <3>1
      <4>2. CASE i = n
        BY <1>2, <1>3, <1>5, <4>1, <4>2
      <4> QED BY <1>2, <4>1, <4>2
    <3>2. CASE \E i \in 1..o : ordered[i] = id
      BY <1>2, <1>3, <3>2
    <3> QED BY <1>5, <2>1, <3>1, <3>2 DEF VisitedOnce
  <2>3. Top \in visited /\ (\A i \in 1..o : ordered[i] # Top) /\ (\A i \in 1..(n - 1) : stack[i] # Top)
    BY <1>2, <1>5, <2>1 DEF VisitedOnce
  <2>4. /\ \A i \in 1..(n - 1) : stack'[i] \in visited
        /\ \A i, j \in 1..(n - 1) : stack'[i] = stack'[j] => i = j
    BY <1>2, <1>4, <1>5, <2>1 DEF VisitedOnce
  <2>5. \A i \in 1..(o + 1) : i \in 1..o \/ i = o + 1
    BY <1>2
  <2>6. /\ \A i \in 1..(o + 1) : ordered'[i] \in visited
        /\ \A i, j \in 1..(o + 1) : ordered'[i] = ordered'[j] => i = j
    BY <1>3, <1>5, <2>1, <2>3, <2>5 DEF VisitedOnce
  <2>7. \A i \in 1..(n - 1), j \in 1..(o + 1) : stack'[i] # ordered'[j]
    BY <1>2, <1>3, <1>4, <1>5, <2>1, <2>3, <2>5 DEF VisitedOnce
  <2>8. DOMAIN stack' = 1..(n - 1) /\ DOMAIN ordered' = 1..(o + 1) /\ visited' = visited
    BY <1>1, <1>3, <1>4
  <2>9. \A id \in visited' : \/ \E i \in DOMAIN stack' : stack'[i] = id
                             \/ \E i \in DOMAIN ordered' : ordered'[i] = id
    <3> SUFFICES ASSUME NEW id \in visited PROVE \/ \E i \in DOMAIN stack' : stack'[i] = id
                                                 \/ \E i \in DOMAIN ordered' : ordered'[i] = id
      BY <2>8
    <3>1. CASE \E i \in 1..(n - 1) : stack[i] = id
      BY <1>4, <2>8, <3>1
    <3> QED BY <2>2, <2>8, <3>1
  <2>10. /\ \A i \in DOMAIN stack' : stack'[i] \in visited'
         /\ \A i \in DOMAIN ordered' : ordered'[i] \in visited'
         /\ \A i, j \in DOMAIN stack' : stack'[i] = stack'[j] => i = j
         /\ \A i, j \in DOMAIN ordered' : ordered'[i] = ordered'[j] => i = j
         /\ \A i \in DOMAIN stack', j \in DOMAIN ordered' : stack'[i] # ordered'[j]
    BY <2>4, <2>6, <2>7, <2>8
  <2> QED BY <2>9, <2>10 DEF VisitedOnce
<1>8. LoopsVisit'
  <2>1. \A i \in 1..(o + 1) : i \in 1..o \/ i = o + 1
    BY <1>2
  <2>2. \A i \in 1..(o + 1) : NeedsAreVisited(ordered'[i])
    BY <1>1, <1>3, <1>5, <2>1 DEF Search, LoopsVisit
  <2>3. \A i \in DOMAIN ordered' : NeedsAreVisited(ordered[i])'
    BY <1>1, <1>3, <2>2, SamePlan DEF NeedsAreVisited
  <2> QED BY <1>1, <2>3, SamePlan DEF Search, LoopsVisit
<1>9. IsPath'
  BY <1>1, <1>2, <1>4, <1>5, SamePlan DEF Search, IsPath
<1>10. Sorted'
  <2> SUFFICES ASSUME NEW i \in 1..(o + 1), NEW b \in NeededBy(ordered'[i])
               PROVE  \/ \E j \in 1..(o + 1) : j <= i /\ ordered'[j] = b
                      \/ ordered'[i] \in Below(b)
    BY <1>1, <1>3, SamePlan DEF Sorted
  <2>1. CASE i \in 1..o
    <3>1. \/ \E j \in 1..o : j <= i /\ ordered[j] = b
          \/ ordered[i] \in Below(b)
      BY <1>1, <1>3, <1>5, <2>1 DEF Search, Sorted
    <3> QED BY <1>2, <1>3, <2>1, <3>1
  <2>2. CASE i = o + 1
    <3>1. b \in visited
      <4>1. PICK k \in DOMAIN Needs(Top) : b = Needs(Top)[k]
        BY <1>3, <2>2 DEF NeededBy
      <4>2. k < at[Top]
        BY <1>1, <4>1, TopFacts DEF NeedsAreVisited
      <4>3. Top \in visited
        BY <1>1, <1>2, <1>5 DEF Search, VisitedOnce
      <4> QED BY <1>1, <4>1, <4>2, <4>3 DEF Search, LoopsVisit
    <3>2. CASE \E j \in 1..n : stack[j] = b
      <4>1. PICK j \in 1..n : stack[j] = b
        BY <3>2
      <4>2. CASE j = n
        BY <1>2, <1>3, <1>5, <2>2, <4>1, <4>2
      <4>3. CASE j < n
        <5>1. Top \in Below(b)
          BY <1>1, <1>2, <1>5, <4>1, <4>3 DEF Search, IsPath
        <5> QED BY <1>3, <2>2, <5>1
      <4> QED BY <1>2, <4>1, <4>2, <4>3
    <3>3. CASE \E j \in 1..o : ordered[j] = b
      BY <1>2, <1>3, <2>2, <3>3
    <3> QED BY <1>1, <1>5, <3>1, <3>2, <3>3 DEF Search, VisitedOnce
  <2> QED BY <1>2, <2>1, <2>2
<1>11. Straight'
  <2> SUFFICES ASSUME InOrderAlready PROVE /\ Len(ordered') + Len(stack') = root - 1
                                           /\ Len(stack') <= 1
                                           /\ root <= Len(plan) + 1
                                           /\ \A i \in DOMAIN ordered' : ordered'[i] = plan[i].id
                                           /\ stack' = <<>>
    BY <1>1, SamePlan DEF Straight
  <2>1. /\ o + n = root - 1 /\ n = 1 /\ root <= Len(plan) + 1 /\ Top = plan[root - 1].id
        /\ \A i \in 1..o : ordered[i] = plan[i].id
    BY <1>1, <1>2, <1>5 DEF Search, Straight, n, o
  <2>2. stack' = <<>>
    BY <1>4, <2>1, EmptySeq
  <2>3. o + 1 = root - 1
    BY <1>2, <2>1, <1>1 DEF Types
  <2>4. \A i \in 1..(o + 1) : i \in 1..o \/ i = o + 1
    BY <1>2
  <2> QED BY <1>2, <1>3, <1>4, <2>1, <2>2, <2>3, <2>4
<1> QED BY <1>1, <1>6, <1>7, <1>8, <1>9, <1>10, <1>11, SamePlan DEF OrderInv, Search

\* A call begins.
LEMMA BeginsKeeps ==
  ASSUME OrderInv, Begins PROVE OrderInv'
<1>1. /\ root' = 1 /\ visited' = {} /\ stack' = <<>> /\ ordered' = <<>> /\ pc' = "visit"
      /\ DOMAIN stack' = {} /\ DOMAIN ordered' = {} /\ Len(stack') = 0 /\ Len(ordered') = 0
  BY DEF OrderInv, NotStarted, Begins
<1>2. plan' \in Seq(Step) /\ Len(plan') \in Nat /\ DOMAIN plan' = 1..Len(plan')
  <2>1. plan' \in Plans
    BY DEF Begins
  <2>2. plan' \in Seq(Step)
    BY <2>1, PlansAssumption DEF Step
  <2> QED BY <2>2
<1>3. Ids' = {plan'[i].id : i \in DOMAIN plan'}
  BY DEF Ids
<1>4. at' = [id \in Ids' |-> 1]
  BY <1>3 DEF Begins
<1>5. Types'
  BY <1>1, <1>2, <1>4 DEF Types
<1>6. VisitedOnce' /\ IsPath' /\ Sorted'
  BY <1>1 DEF VisitedOnce, IsPath, Sorted
<1>7. LoopsVisit'
  BY <1>1, <1>2, <1>4 DEF LoopsVisit
<1>8. Straight'
  BY <1>1, <1>2 DEF Straight
<1> QED BY <1>1, <1>5, <1>6, <1>7, <1>8 DEF OrderInv, Search

\* The call returns.
LEMMA ReturnsKeeps ==
  ASSUME OrderInv, Returns PROVE OrderInv'
<1>1. /\ Types /\ visited \subseteq Ids /\ Search /\ stack = <<>> /\ root > Len(plan) /\ plan' = plan
      /\ UNCHANGED <<root, at, visited, stack, ordered>> /\ pc' = "returned"
  BY DEF OrderInv, Returns
<1>2. Types'
  BY <1>1, SamePlan DEF Types
<1>3. Search'
  BY <1>1, SamePlan DEF Search, VisitedOnce, LoopsVisit, NeedsAreVisited, IsPath, Sorted, Straight
<1> QED BY <1>1, <1>2, <1>3, SamePlan DEF OrderInv

\* The next call starts afresh.
LEMMA ForgetsKeeps ==
  ASSUME Forgets PROVE OrderInv'
<1>1. NotStarted'
  BY DEF Forgets, NotStarted
<1>2. NotStarted' => OrderInv'
  BY OrderInit, PTL
<1> QED BY <1>1, <1>2

\* Every step of the search keeps the invariant.
LEMMA OrderStep == OrderInv /\ [OrderNext]_orderVars => OrderInv'
<1> SUFFICES ASSUME OrderInv, [OrderNext]_orderVars PROVE OrderInv'
  OBVIOUS
<1>1. CASE UNCHANGED orderVars
  <2>1. plan' = plan
    BY <1>1 DEF orderVars
  <2>2. Types'
    BY <1>1, <2>1, SamePlan DEF orderVars, OrderInv, Types
  <2>3. /\ VisitedOnce => VisitedOnce'
        /\ LoopsVisit => LoopsVisit'
        /\ IsPath => IsPath'
        /\ Sorted => Sorted'
        /\ Straight => Straight'
    BY <1>1, <2>1, SamePlan DEF orderVars, VisitedOnce, LoopsVisit, NeedsAreVisited, IsPath, Sorted, Straight
  <2> QED BY <1>1, <2>1, <2>2, <2>3, SamePlan DEF orderVars, OrderInv, NotStarted, Search
<1>2. CASE Begins
  BY <1>2, BeginsKeeps
<1>3. CASE VisitsRoot
  BY <1>3, RootKeeps
<1>4. CASE VisitsNeed
  BY <1>4, NeedKeeps
<1>5. CASE Leaves
  BY <1>5, LeaveKeeps
<1>6. CASE Returns
  BY <1>6, ReturnsKeeps
<1>7. CASE Forgets
  BY <1>7, ForgetsKeeps
<1> QED BY <1>1, <1>2, <1>3, <1>4, <1>5, <1>6, <1>7 DEF OrderNext

---------------------------------------------------------------------------
(* The result *)

\* When the loop has passed the whole plan all its steps are visited, and none is on
\* the stack: all are listed, what they need is visited and so in the plan.
LEMMA InvGivesOrder == OrderInv => OrderIsRight
<1> SUFFICES ASSUME OrderInv PROVE OrderIsRight
  OBVIOUS
<1>1. Types
  BY DEF OrderInv
<1>2. ASSUME pc = "returned"
      PROVE  /\ \A i, j \in DOMAIN ordered : ordered[i] = ordered[j] => i = j
             /\ {ordered[i] : i \in DOMAIN ordered} = Ids
             /\ \A i, j \in DOMAIN ordered :
                  ordered[i] \in NeededBy(ordered[j]) /\ ordered[j] \notin Below(ordered[i]) => i <= j
             /\ InOrderAlready => ordered = [i \in DOMAIN plan |-> plan[i].id]
             /\ \A id \in Ids : NeededBy(id) \subseteq Ids
  <2>1. /\ Search /\ visited \subseteq Ids /\ stack = <<>> /\ root > Len(plan)
        /\ DOMAIN stack = {} /\ Len(stack) = 0
    BY <1>2 DEF OrderInv
  <2>2. /\ DOMAIN plan = 1..Len(plan) /\ DOMAIN ordered = 1..Len(ordered)
        /\ Len(plan) \in Nat /\ Len(ordered) \in Nat /\ root \in Nat
    BY <1>1, SeqFacts DEF Types
  <2>3. Ids \subseteq visited
    BY <2>1, <2>2 DEF Search, LoopsVisit, Ids
  <2>4. {ordered[i] : i \in DOMAIN ordered} = Ids
    <3>1. \A i \in DOMAIN ordered : ordered[i] \in Ids
      BY <1>1, SeqFacts
    <3>2. \A id \in Ids : \E i \in DOMAIN ordered : ordered[i] = id
      BY <2>1, <2>3 DEF Search, VisitedOnce
    <3> QED BY <3>1, <3>2
  <2>5. \A i, j \in DOMAIN ordered : ordered[i] = ordered[j] => i = j
    BY <2>1 DEF Search, VisitedOnce
  <2>6. ASSUME NEW i \in DOMAIN ordered, NEW j \in DOMAIN ordered,
               ordered[i] \in NeededBy(ordered[j]), ordered[j] \notin Below(ordered[i])
        PROVE  i <= j
    BY <2>1, <2>5, <2>6 DEF Search, Sorted
  <2>7. ASSUME InOrderAlready PROVE ordered = [i \in DOMAIN plan |-> plan[i].id]
    <3>1. Len(ordered) = Len(plan) /\ \A i \in DOMAIN ordered : ordered[i] = plan[i].id
      <4>1. /\ Len(ordered) + Len(stack) = root - 1 /\ root <= Len(plan) + 1
            /\ \A i \in DOMAIN ordered : ordered[i] = plan[i].id
        BY <2>1, <2>7 DEF Search, Straight
      <4>2. root > Len(plan) /\ Len(stack) = 0
        BY <2>1
      <4> HIDE DEF Types
      <4>3. \A o, n, k \in Nat : o + 0 = k - 1 /\ k <= n + 1 /\ k > n => o = n
        OBVIOUS
      <4> QED BY <2>2, <4>1, <4>2, <4>3
    <3>2. ordered \in Seq(Ids)
      BY <1>1 DEF Types
    <3>3. ordered = [i \in DOMAIN ordered |-> ordered[i]]
      BY <3>2
    <3> QED BY <2>2, <3>1, <3>3
  <2>8. ASSUME NEW id \in Ids PROVE NeededBy(id) \subseteq Ids
    <3>1. PICK i \in DOMAIN ordered : ordered[i] = id
      BY <2>4
    <3>2. NeedsAreVisited(id) /\ id \in visited
      BY <2>1, <2>3, <3>1 DEF Search, LoopsVisit
    <3>3. /\ Needs(id) \in Seq(Names) /\ DOMAIN Needs(id) = 1..Len(Needs(id)) /\ Len(Needs(id)) \in Nat
          /\ at[id] \in Nat
      BY <1>1, SeqFacts DEF Types
    <3>4. \A k \in DOMAIN Needs(id) : k < at[id]
      BY <3>2, <3>3 DEF NeedsAreVisited
    <3>5. \A k \in DOMAIN Needs(id) : Needs(id)[k] \in visited
      BY <2>1, <3>2, <3>4 DEF Search, LoopsVisit
    <3> QED BY <2>1, <3>5 DEF NeededBy
  <2> QED BY <2>4, <2>5, <2>6, <2>7, <2>8
<1>3. pc = "raised" => \E id \in Ids : ~(NeededBy(id) \subseteq Ids)
  BY DEF OrderInv
<1> QED BY <1>2, <1>3 DEF OrderIsRight

\* The order of a plan's steps has each once, each need before the step that has it
\* unless they are in a cycle, is the plan's own order where that is right, and there
\* is none when a need is unknown (graph.py: _topo_order).
THEOREM OrderIsCorrect == OrderSpec => []OrderIsRight
<1>1. OrderSpec => []OrderInv
  BY OrderInit, OrderStep, PTL DEF OrderSpec
<1> QED BY <1>1, InvGivesOrder, PTL

---------------------------------------------------------------------------
(* What a model is shown: the length of a talk *)

Message == [role: Roles, size: Nat]
Weight(t, C, n, i) == IF i \in C THEN n ELSE t[i].size

LEMMA WeightType ==
  ASSUME NEW t \in Seq(Message), NEW C, NEW n \in Nat, NEW i \in 1..Len(t)
  PROVE  Weight(t, C, n, i) \in Nat
<1>1. t[i] \in Message
  OBVIOUS
<1> QED BY <1>1 DEF Weight, Message

\* The sum of the messages up to each one exists, and is what its definition says.
LEMMA CharsUpTo ==
  ASSUME NEW t \in Seq(Message), NEW C, NEW n \in Nat
  PROVE  /\ Chars(t, C, n)[0] = 0
         /\ \A i \in 1..Len(t) : Chars(t, C, n)[i] = Chars(t, C, n)[i - 1] + Weight(t, C, n, i)
<1> DEFINE Sums(k, g) == g = [i \in 0..k |-> IF i = 0 THEN 0 ELSE g[i - 1] + Weight(t, C, n, i)]
           T == {k \in 0..Len(t) : ~\E g : Sums(k, g)}
<1>1. Len(t) \in Nat /\ Len(t) \in 0..Len(t)
  OBVIOUS
<1>2. T = {}
  <2>1. SUFFICES ASSUME T # {} PROVE FALSE
    OBVIOUS
  <2>2. T \subseteq Nat
    OBVIOUS
  <2> HIDE DEF T
  <2>3. PICK k \in T : \A m \in T : k <= m
    BY <2>1, <2>2, LeastNumber
  <2>4. k \in 0..Len(t) /\ ~\E g : Sums(k, g)
    BY <2>3 DEF T
  <2>5. CASE k = 0
    <3>1. Sums(k, [i \in 0..k |-> 0])
      BY <2>5
    <3> QED BY <2>4, <3>1
  <2>6. CASE k # 0
    <3>1. k - 1 \in 0..Len(t) /\ k - 1 \notin T
      BY <1>1, <2>3, <2>4, <2>6
    <3>2. PICK h : Sums(k - 1, h)
      BY <3>1 DEF T
    <3> DEFINE g == [i \in 0..k |-> IF i < k THEN h[i] ELSE h[k - 1] + Weight(t, C, n, k)]
    <3>3. ASSUME NEW i \in 0..k
          PROVE  g[i] = IF i = 0 THEN 0 ELSE g[i - 1] + Weight(t, C, n, i)
      <4>1. CASE i < k
        <5>1. i \in 0..(k - 1) /\ (i # 0 => i - 1 \in 0..k /\ i - 1 < k)
          BY <2>4, <4>1
        <5>2. h[i] = IF i = 0 THEN 0 ELSE h[i - 1] + Weight(t, C, n, i)
          BY <3>2, <5>1
        <5> QED BY <4>1, <5>1, <5>2
      <4>2. CASE i = k
        <5>1. k - 1 \in 0..k /\ k - 1 < k /\ ~(i < k)
          BY <2>4, <2>6, <4>2
        <5> QED BY <2>6, <4>2, <5>1
      <4> QED BY <2>4, <4>1, <4>2
    <3>4. Sums(k, g)
      <4>1. g = [i \in 0..k |-> g[i]]
        OBVIOUS
      <4> HIDE DEF g
      <4> QED BY <3>3, <4>1
    <3> QED BY <2>4, <3>4
  <2> QED BY <2>5, <2>6
<1>3. \E g : Sums(Len(t), g)
  BY <1>1, <1>2
<1>4. Chars(t, C, n) = CHOOSE g : Sums(Len(t), g)
  BY DEF Chars, Weight
<1>5. Sums(Len(t), Chars(t, C, n))
  BY <1>3, <1>4
<1>6. ASSUME NEW i \in 0..Len(t)
      PROVE  Chars(t, C, n)[i] = IF i = 0 THEN 0 ELSE Chars(t, C, n)[i - 1] + Weight(t, C, n, i)
  BY <1>5
<1> HIDE DEF Sums
<1>7. 0 \in 0..Len(t) /\ \A i \in 1..Len(t) : i \in 0..Len(t) /\ i # 0
  BY <1>1
<1> QED BY <1>6, <1>7

LEMMA CharsType ==
  ASSUME NEW t \in Seq(Message), NEW C, NEW n \in Nat
  PROVE  \A k \in 0..Len(t) : Chars(t, C, n)[k] \in Nat
<1> DEFINE T == {k \in 0..Len(t) : Chars(t, C, n)[k] \in Nat}
<1>1. 0 \in T
  BY CharsUpTo
<1>2. ASSUME NEW k \in 1..Len(t), k - 1 \in T PROVE k \in T
  <2>1. Chars(t, C, n)[k] = Chars(t, C, n)[k - 1] + Weight(t, C, n, k)
    BY CharsUpTo
  <2>2. Chars(t, C, n)[k - 1] \in Nat /\ Weight(t, C, n, k) \in Nat
    BY <1>2, WeightType
  <2> QED BY <2>1, <2>2
<1> HIDE DEF T
<1>3. T = 0..Len(t)
  <2>1. Len(t) \in Nat /\ T \subseteq 0..Len(t)
    BY DEF T
  <2> QED BY <1>1, <1>2, <2>1, Onwards
<1> QED BY <1>3 DEF T

\* Shortening one message more changes the length by what it loses.
LEMMA OneShorter ==
  ASSUME NEW t \in Seq(Message), NEW C, NEW n \in Nat, NEW i \in 1..Len(t), i \notin C
  PROVE  Chars(t, C \cup {i}, n)[Len(t)] = Chars(t, C, n)[Len(t)] - (t[i].size - n)
<1> DEFINE D == C \cup {i}
           Less(k) == IF k >= i THEN t[i].size - n ELSE 0
           T == {k \in 0..Len(t) : Chars(t, D, n)[k] = Chars(t, C, n)[k] - Less(k)}
<1>1. t[i].size \in Nat /\ Len(t) \in Nat
  <2>1. t[i] \in Message
    OBVIOUS
  <2> QED BY <2>1 DEF Message
<1>2. 0 \in T
  <2>1. Less(0) = 0
    OBVIOUS
  <2>2. Chars(t, D, n)[0] = 0 /\ Chars(t, C, n)[0] = 0
    BY CharsUpTo
  <2> QED BY <2>1, <2>2
<1>3. ASSUME NEW k \in 1..Len(t), k - 1 \in T PROVE k \in T
  <2>1. Chars(t, D, n)[k] = Chars(t, D, n)[k - 1] + Weight(t, D, n, k)
    BY CharsUpTo
  <2>2. Chars(t, C, n)[k] = Chars(t, C, n)[k - 1] + Weight(t, C, n, k)
    BY CharsUpTo
  <2>3. /\ Chars(t, D, n)[k - 1] = Chars(t, C, n)[k - 1] - Less(k - 1)
        /\ k - 1 \in 0..Len(t) /\ k \in 0..Len(t)
    BY <1>3
  <2>4. Chars(t, C, n)[k - 1] \in Nat /\ Weight(t, C, n, k) \in Nat /\ Weight(t, D, n, k) \in Nat
    BY <2>3, CharsType, WeightType
  <2>5. Weight(t, D, n, k) = Weight(t, C, n, k) - (IF k = i THEN t[i].size - n ELSE 0)
    BY <1>1, <2>4 DEF Weight
  <2>6. Less(k) = Less(k - 1) + (IF k = i THEN t[i].size - n ELSE 0)
    BY <1>1
  <2>7. Less(k - 1) \in Int /\ Less(k) \in Int
    BY <1>1
  <2> HIDE DEF Less, D
  <2>8. Chars(t, D, n)[k] = Chars(t, C, n)[k] - Less(k)
    <3>2. (IF k = i THEN t[i].size - n ELSE 0) \in Int
      BY <1>1
    <3> DEFINE e == IF k = i THEN t[i].size - n ELSE 0
    <3> HIDE DEF e
    <3>3. e \in Int /\ Weight(t, D, n, k) = Weight(t, C, n, k) - e /\ Less(k) = Less(k - 1) + e
      BY <2>5, <2>6, <3>2 DEF e
    <3> QED BY <2>1, <2>2, <2>3, <2>4, <2>7, <3>3
  <2> QED BY <2>3, <2>8
<1>4. T = 0..Len(t)
  <2>1. T \subseteq 0..Len(t)
    OBVIOUS
  <2> HIDE DEF T
  <2> QED BY <1>1, <1>2, <1>3, <2>1, Onwards
<1>5. Len(t) \in T
  <2>1. Len(t) \in 0..Len(t)
    BY <1>1
  <2> HIDE DEF T
  <2> QED BY <1>4, <2>1
<1>6. Less(Len(t)) = t[i].size - n
  BY <1>1
<1> QED BY <1>5, <1>6

\* Each mark adds its length.
LEMMA MarksAdd ==
  ASSUME NEW t \in Seq(Message), NEW C, C \subseteq 1..Len(t), NEW n \in Nat, NEW m \in Nat
  PROVE  Chars(t, C, n + m)[Len(t)] = Chars(t, C, n)[Len(t)] + m * Cardinality(C)
<1> DEFINE First(k) == C \cap (1..k)
           Marks(k) == m * Cardinality(First(k))
           T == {k \in 0..Len(t) : Chars(t, C, n + m)[k] = Chars(t, C, n)[k] + Marks(k)}
<1>1. Len(t) \in Nat /\ n + m \in Nat
  OBVIOUS
<1>2. \A k \in 0..Len(t) : IsFiniteSet(First(k)) /\ Cardinality(First(k)) \in Nat
  <2>1. \A k \in 0..Len(t) : IsFiniteSet(1..k)
    BY FS_Interval
  <2>2. \A k \in 0..Len(t) : First(k) \subseteq 1..k
    OBVIOUS
  <2> HIDE DEF First
  <2> QED BY <2>1, <2>2, FS_Subset, FS_CardinalityType
<1>3. 0 \in T
  <2>1. First(0) = {}
    OBVIOUS
  <2>2. Marks(0) = 0
    BY <2>1, FS_EmptySet
  <2>3. Chars(t, C, n + m)[0] = 0 /\ Chars(t, C, n)[0] = 0
    BY <1>1, CharsUpTo
  <2> HIDE DEF Marks
  <2> QED BY <1>1, <2>2, <2>3
<1>4. ASSUME NEW k \in 1..Len(t), k - 1 \in T PROVE k \in T
  <2>1. Chars(t, C, n + m)[k] = Chars(t, C, n + m)[k - 1] + Weight(t, C, n + m, k)
    BY <1>1, CharsUpTo
  <2>2. Chars(t, C, n)[k] = Chars(t, C, n)[k - 1] + Weight(t, C, n, k)
    BY CharsUpTo
  <2>3. k - 1 \in 0..Len(t) /\ k \in 0..Len(t) /\ k - 1 \in Nat
    OBVIOUS
  <2>4. Chars(t, C, n + m)[k - 1] = Chars(t, C, n)[k - 1] + Marks(k - 1)
    BY <1>4
  <2>5. Chars(t, C, n)[k - 1] \in Nat /\ Weight(t, C, n, k) \in Nat
    BY <2>3, CharsType, WeightType
  <2>6. Weight(t, C, n + m, k) = Weight(t, C, n, k) + (IF k \in C THEN m ELSE 0)
    BY <2>5 DEF Weight
  <2>7. Marks(k) = Marks(k - 1) + (IF k \in C THEN m ELSE 0) /\ Marks(k - 1) \in Nat
    <3>1. CASE k \in C
      <4>1. First(k) = First(k - 1) \cup {k} /\ k \notin First(k - 1)
        BY <2>3, <3>1
      <4> HIDE DEF First
      <4>2. Cardinality(First(k)) = Cardinality(First(k - 1)) + 1
        BY <1>2, <2>3, <4>1, FS_AddElement
      <4>3. \A c \in Nat : m * (c + 1) = m * c + m /\ m * c \in Nat
        OBVIOUS
      <4> QED BY <1>2, <2>3, <3>1, <4>2, <4>3
    <3>2. CASE k \notin C
      <4>1. First(k) = First(k - 1)
        BY <2>3, <3>2
      <4> HIDE DEF First
      <4>2. m * Cardinality(First(k - 1)) \in Nat
        BY <1>2, <2>3
      <4> QED BY <3>2, <4>1, <4>2
    <3> QED BY <3>1, <3>2
  <2> HIDE DEF Marks
  <2>8. Chars(t, C, n + m)[k] = Chars(t, C, n)[k] + Marks(k)
    BY <2>1, <2>2, <2>4, <2>5, <2>6, <2>7
  <2> QED BY <2>3, <2>8
<1>5. T = 0..Len(t)
  <2>1. T \subseteq 0..Len(t)
    OBVIOUS
  <2> HIDE DEF T
  <2> QED BY <1>1, <1>3, <1>4, <2>1, Onwards
<1>6. Len(t) \in T
  <2>1. Len(t) \in 0..Len(t)
    BY <1>1
  <2> HIDE DEF T
  <2> QED BY <1>5, <2>1
<1>7. First(Len(t)) = C
  OBVIOUS
<1> QED BY <1>6, <1>7

---------------------------------------------------------------------------
(* The inductive invariant *)

RecallTypes ==
  /\ cursor \in Nat \ {0}
  /\ turns \in Seq(Nat) /\ runOrder \in Seq(Nat) /\ shown \in Seq(Nat)
  /\ talk \in Seq(Message) /\ total \in Int

\* ord has the runs of the first n turns of ts, each once, in the order in which they began.
Ordered(ts, ord, n) ==
  /\ \A a, b \in DOMAIN ord : ord[a] = ord[b] => a = b
  /\ \A a \in DOMAIN ord : \E i \in 1..n : ts[i] = ord[a]
  /\ \A i \in 1..n : \E a \in DOMAIN ord : ord[a] = ts[i]
  /\ \A a, b \in DOMAIN ord : \A i \in 1..n :
       a < b /\ ts[i] = ord[b] => \E j \in 1..(i - 1) : ts[j] = ord[a]

CutOff == cutoff = IF IsLong THEN Oldest ELSE {}
SummedUp == summed \in {{}, {i \in DOMAIN turns : turns[i] \in cutoff}}

\* sh has those of the first n turns of ts whose run is not in off, in order.
Replayed(ts, sh, off, n) ==
  /\ \A k, l \in DOMAIN sh : k < l => sh[k] < sh[l]
  /\ \A k \in DOMAIN sh : sh[k] \in 1..n /\ ts[sh[k]] \notin off
  /\ \A i \in 1..n : ts[i] \notin off => \E k \in DOMAIN sh : sh[k] = i

ThreadInv ==
  /\ doing = "order" => /\ cursor <= Len(turns) + 1 /\ Ordered(turns, runOrder, cursor - 1)
                        /\ summed = {} /\ shown = <<>>
  /\ doing \in {"summarise", "replay", "recalled"} => Ordered(turns, runOrder, Len(turns)) /\ CutOff
  /\ doing = "summarise" => cursor = 1 /\ summed = {} /\ shown = <<>>
  /\ doing \in {"replay", "recalled"} => SummedUp
  /\ doing = "replay" => cursor <= Len(turns) + 1 /\ Replayed(turns, shown, cutoff, cursor - 1)
  /\ doing = "recalled" => Replayed(turns, shown, cutoff, Len(turns))

\* The outputs that may be shortened, and those before a message.
Could == {i \in DOMAIN talk : IsLongOutput(i) /\ \E j \in Calls : j > i}
CutBefore(i) == {j \in cut : j < i}

\* The length is known, and every message that was shortened had to be.
Needed ==
  /\ cut \subseteq Could
  /\ total = Length(cut, Kept)
  /\ \A i \in cut : Length(CutBefore(i), Kept) > MaxChars

TalkInv ==
  /\ doing = "count" => /\ talk \in Talks /\ cut = {} /\ cursor <= Len(talk) + 1
                        /\ total = Chars(talk, {}, Kept)[cursor - 1]
  /\ doing = "shorten" => /\ talk \in Talks /\ Needed
                          /\ cut = {j \in Could : j < cursor}
  /\ doing = "trimmed" => /\ Needed /\ \A i \in cut, j \in Could : j < i => j \in cut
                          /\ total <= MaxChars \/ cut = Could

MemoryInv ==
  /\ RecallTypes
  /\ doing = "nothing" => NothingToRecall
  /\ ThreadInv
  /\ TalkInv

LEMMA Sizes == MaxChars \in Nat /\ Kept \in Nat /\ Suffix \in Nat
BY SizesAssumption

LEMMA TalkType == ASSUME NEW t \in Talks PROVE t \in Seq(Message)
BY TalksAssumption DEF Message

---------------------------------------------------------------------------
(* A new run of a thread *)

LEMMA ContinuesStep == MemoryInv /\ ContinuesThread => MemoryInv'
<1> SUFFICES ASSUME MemoryInv, ContinuesThread PROVE MemoryInv'
  OBVIOUS
<1> USE DEF ContinuesThread, threadVars, talkVars
<1>1. doing = "nothing" /\ doing' = "order" /\ turns' \in Threads /\ NothingToRecall
  BY DEF MemoryInv
<1>2. RecallTypes'
  BY <1>1, ThreadsAssumption DEF MemoryInv, RecallTypes
<1>3. cursor' = 1 /\ summed' = {} /\ shown' = <<>> /\ runOrder' = <<>>
  BY <1>1 DEF NothingToRecall
<1>4. Ordered(turns', runOrder', 0)
  <2>1. DOMAIN runOrder' = {} /\ 1..0 = {}
    BY <1>3
  <2> QED BY <2>1 DEF Ordered
<1>5. cursor' - 1 = 0 /\ cursor' <= Len(turns') + 1
  BY <1>2, <1>3 DEF RecallTypes
<1>6. ThreadInv'
  BY <1>1, <1>3, <1>4, <1>5 DEF ThreadInv
<1>7. TalkInv'
  BY <1>1 DEF TalkInv
<1> QED BY <1>1, <1>2, <1>6, <1>7 DEF MemoryInv

LEMMA SeesStep == MemoryInv /\ SeesRun => MemoryInv'
<1> SUFFICES ASSUME MemoryInv, SeesRun PROVE MemoryInv'
  OBVIOUS
<1> DEFINE r == turns[cursor]
<1>1. /\ doing = "order" /\ doing' = "order" /\ cursor \in 1..Len(turns) /\ r \in Nat
      /\ cursor' = cursor + 1 /\ turns' = turns /\ summed' = {} /\ shown' = <<>>
  BY DEF SeesRun, MemoryInv, RecallTypes, ThreadInv, threadVars, talkVars
<1>2. runOrder \in Seq(Nat) /\ turns \in Seq(Nat) /\ Ordered(turns, runOrder, cursor - 1)
  BY <1>1 DEF MemoryInv, RecallTypes, ThreadInv
<1>3. RecallTypes'
  BY <1>1, <1>2 DEF SeesRun, MemoryInv, RecallTypes, talkVars
<1>4. 1..cursor = (1..(cursor - 1)) \cup {cursor} /\ cursor' - 1 = cursor
  BY <1>1
<1>5. Ordered(turns, runOrder', cursor)
  <2>1. CASE \E a \in DOMAIN runOrder : runOrder[a] = r
    <3>1. runOrder' = runOrder
      BY <2>1 DEF SeesRun
    <3>2. /\ \A a \in DOMAIN runOrder : \E i \in 1..cursor : turns[i] = runOrder[a]
          /\ \A i \in 1..cursor : \E a \in DOMAIN runOrder : runOrder[a] = turns[i]
      BY <1>2, <1>4, <2>1 DEF Ordered
    <3>3. ASSUME NEW a \in DOMAIN runOrder, NEW b \in DOMAIN runOrder, NEW i \in 1..cursor,
                 a < b, turns[i] = runOrder[b]
          PROVE  \E j \in 1..(i - 1) : turns[j] = runOrder[a]
      <4>1. CASE i \in 1..(cursor - 1)
        BY <1>2, <3>3, <4>1 DEF Ordered
      <4>2. CASE i = cursor
        <5>1. PICK k \in 1..(cursor - 1) : turns[k] = runOrder[b]
          BY <1>2 DEF Ordered
        <5>2. PICK j \in 1..(k - 1) : turns[j] = runOrder[a]
          BY <1>2, <3>3, <5>1 DEF Ordered
        <5> QED BY <1>1, <4>2, <5>2
      <4> QED BY <1>4, <4>1, <4>2
    <3> QED BY <1>1, <1>2, <3>1, <3>2, <3>3 DEF Ordered
  <2>2. CASE ~\E a \in DOMAIN runOrder : runOrder[a] = r
    <3> DEFINE n == Len(runOrder)
    <3>1. runOrder' = Append(runOrder, r)
      BY <2>2 DEF SeesRun
    <3>2. /\ n \in Nat /\ DOMAIN runOrder = 1..n /\ DOMAIN runOrder' = 1..(n + 1)
          /\ runOrder'[n + 1] = r /\ \A a \in 1..n : runOrder'[a] = runOrder[a]
      BY <1>1, <1>2, <3>1
    <3>3. 1..(n + 1) = (1..n) \cup {n + 1}
      BY <3>2
    <3> HIDE DEF n
    <3>4. \A a, b \in DOMAIN runOrder' : runOrder'[a] = runOrder'[b] => a = b
      BY <1>2, <2>2, <3>2, <3>3 DEF Ordered
    <3>5. /\ \A a \in DOMAIN runOrder' : \E i \in 1..cursor : turns[i] = runOrder'[a]
          /\ \A i \in 1..cursor : \E a \in DOMAIN runOrder' : runOrder'[a] = turns[i]
      <4>1. ASSUME NEW a \in 1..n PROVE \E i \in 1..cursor : turns[i] = runOrder'[a]
        <5>1. PICK i \in 1..(cursor - 1) : turns[i] = runOrder[a]
          BY <1>2, <3>2 DEF Ordered
        <5> QED BY <1>4, <3>2, <5>1
      <4>2. ASSUME NEW i \in 1..(cursor - 1) PROVE \E a \in DOMAIN runOrder' : runOrder'[a] = turns[i]
        <5>1. PICK a \in 1..n : runOrder[a] = turns[i]
          BY <1>2, <3>2 DEF Ordered
        <5>2. a \in DOMAIN runOrder' /\ runOrder'[a] = turns[i]
          BY <3>2, <3>3, <5>1
        <5> QED BY <5>2
      <4>3. cursor \in 1..cursor /\ n + 1 \in DOMAIN runOrder'
        BY <1>1, <3>2
      <4> QED BY <1>4, <3>2, <3>3, <4>1, <4>2, <4>3
    <3>6. ASSUME NEW a \in DOMAIN runOrder', NEW b \in DOMAIN runOrder', NEW i \in 1..cursor,
                 a < b, turns[i] = runOrder'[b]
          PROVE  \E j \in 1..(i - 1) : turns[j] = runOrder'[a]
      <4>1. a \in 1..n /\ runOrder'[a] = runOrder[a]
        BY <3>2, <3>3, <3>6
      <4>2. CASE b = n + 1
        <5>1. turns[i] = r
          BY <3>2, <3>6, <4>2
        <5>2. i = cursor
          <6>1. \A k \in 1..(cursor - 1) : turns[k] # r
            BY <1>2, <2>2 DEF Ordered
          <6> QED BY <1>4, <5>1, <6>1
        <5>3. \E j \in 1..(cursor - 1) : turns[j] = runOrder[a]
          BY <1>2, <3>2, <4>1 DEF Ordered
        <5> QED BY <4>1, <5>2, <5>3
      <4>3. CASE b \in 1..n
        <5>1. turns[i] = runOrder[b]
          BY <3>2, <3>6, <4>3
        <5>2. i \in 1..(cursor - 1)
          <6>1. r # runOrder[b]
            BY <2>2, <3>2, <4>3
          <6> QED BY <1>4, <5>1, <6>1
        <5>3. \E j \in 1..(i - 1) : turns[j] = runOrder[a]
          BY <1>2, <3>2, <3>6, <4>1, <4>3, <5>1, <5>2 DEF Ordered
        <5> QED BY <4>1, <5>3
      <4> QED BY <3>2, <3>3, <4>2, <4>3
    <3> QED BY <1>1, <3>4, <3>5, <3>6 DEF Ordered
  <2> QED BY <2>1, <2>2
<1>6. ThreadInv'
  <2>1. cursor' <= Len(turns') + 1
    BY <1>1, <1>2
  <2>2. Ordered(turns', runOrder', cursor' - 1)
    BY <1>1, <1>4, <1>5
  <2> QED BY <1>1, <2>1, <2>2 DEF ThreadInv
<1>7. TalkInv'
  BY <1>1 DEF TalkInv
<1> QED BY <1>1, <1>3, <1>6, <1>7 DEF MemoryInv

LEMMA CutsStep == MemoryInv /\ Cuts => MemoryInv'
<1> SUFFICES ASSUME MemoryInv, Cuts PROVE MemoryInv'
  OBVIOUS
<1>1. /\ doing = "order" /\ doing' = IF IsLong THEN "summarise" ELSE "replay"
      /\ turns' = turns /\ runOrder' = runOrder /\ summed' = {} /\ shown' = <<>> /\ cursor' = 1
      /\ cutoff' = IF IsLong THEN Oldest ELSE {}
  BY DEF Cuts, MemoryInv, ThreadInv, talkVars
<1>2. Ordered(turns, runOrder, Len(turns))
  <2>1. cursor - 1 = Len(turns) /\ Ordered(turns, runOrder, cursor - 1)
    BY <1>1 DEF Cuts, MemoryInv, RecallTypes, ThreadInv
  <2> QED BY <2>1
<1>3. RecallTypes'
  BY <1>1 DEF Cuts, MemoryInv, RecallTypes, talkVars
<1>4. Ordered(turns, runOrder, Len(turns))' /\ CutOff'
  <2>1. Ordered(turns, runOrder, Len(turns))'
    BY <1>1, <1>2 DEF Ordered
  <2>2. IsLong' <=> IsLong
    BY <1>1 DEF IsLong
  <2>3. Oldest' = Oldest
    BY <1>1 DEF Oldest
  <2> QED BY <1>1, <2>1, <2>2, <2>3 DEF CutOff
<1>5. SummedUp' /\ Replayed(turns', shown', cutoff', 0)
  <2>1. DOMAIN shown' = {} /\ 1..0 = {}
    BY <1>1
  <2> QED BY <1>1, <2>1 DEF SummedUp, Replayed
<1>6. ThreadInv'
  <2>1. cursor' - 1 = 0 /\ cursor' <= Len(turns') + 1
    BY <1>1, <1>3 DEF RecallTypes
  <2> QED BY <1>1, <1>4, <1>5, <2>1 DEF ThreadInv
<1>7. TalkInv'
  BY <1>1 DEF TalkInv
<1> QED BY <1>1, <1>3, <1>6, <1>7 DEF MemoryInv

LEMMA SummarisesStep == MemoryInv /\ Summarises => MemoryInv'
<1> SUFFICES ASSUME MemoryInv, Summarises PROVE MemoryInv'
  OBVIOUS
<1>1. /\ doing = "summarise" /\ doing' = "replay"
      /\ turns' = turns /\ runOrder' = runOrder /\ cutoff' = cutoff /\ shown' = <<>> /\ cursor' = 1
      /\ summed' \in {{}, {i \in DOMAIN turns : turns[i] \in cutoff}}
  BY DEF Summarises, MemoryInv, ThreadInv, talkVars
<1>2. RecallTypes'
  BY <1>1 DEF Summarises, MemoryInv, RecallTypes, talkVars
<1>3. Ordered(turns, runOrder, Len(turns))' /\ CutOff'
  BY <1>1 DEF MemoryInv, ThreadInv, Ordered, CutOff, IsLong, Oldest
<1>4. SummedUp' /\ Replayed(turns', shown', cutoff', 0)
  <2>1. DOMAIN shown' = {} /\ 1..0 = {}
    BY <1>1
  <2> QED BY <1>1, <2>1 DEF SummedUp, Replayed
<1>5. ThreadInv'
  <2>1. cursor' - 1 = 0 /\ cursor' <= Len(turns') + 1
    BY <1>1, <1>2 DEF RecallTypes
  <2> QED BY <1>1, <1>3, <1>4, <2>1 DEF ThreadInv
<1>6. TalkInv'
  BY <1>1 DEF TalkInv
<1> QED BY <1>1, <1>2, <1>5, <1>6 DEF MemoryInv

LEMMA ReplaysStep == MemoryInv /\ Replays => MemoryInv'
<1> SUFFICES ASSUME MemoryInv, Replays PROVE MemoryInv'
  OBVIOUS
<1>1. /\ doing = "replay" /\ doing' = "replay" /\ cursor \in 1..Len(turns) /\ cursor' = cursor + 1
      /\ turns' = turns /\ runOrder' = runOrder /\ cutoff' = cutoff /\ summed' = summed
  BY DEF Replays, MemoryInv, RecallTypes, talkVars
<1>2. shown \in Seq(Nat) /\ turns \in Seq(Nat) /\ Replayed(turns, shown, cutoff, cursor - 1)
  BY <1>1 DEF MemoryInv, RecallTypes, ThreadInv
<1>3. RecallTypes'
  BY <1>1, <1>2 DEF Replays, MemoryInv, RecallTypes, talkVars
<1>4. Ordered(turns, runOrder, Len(turns))' /\ CutOff' /\ SummedUp'
  BY <1>1 DEF MemoryInv, ThreadInv, Ordered, CutOff, IsLong, Oldest, SummedUp
<1>5. 1..cursor = (1..(cursor - 1)) \cup {cursor} /\ cursor' - 1 = cursor
  BY <1>1
<1>6. Replayed(turns, shown', cutoff, cursor)
  <2>1. CASE turns[cursor] \in cutoff
    <3>1. shown' = shown
      BY <2>1 DEF Replays
    <3> QED BY <1>2, <1>5, <2>1, <3>1 DEF Replayed
  <2>2. CASE turns[cursor] \notin cutoff
    <3> DEFINE n == Len(shown)
    <3>1. shown' = Append(shown, cursor)
      BY <2>2 DEF Replays
    <3>2. /\ n \in Nat /\ DOMAIN shown = 1..n /\ DOMAIN shown' = 1..(n + 1)
          /\ shown'[n + 1] = cursor /\ \A k \in 1..n : shown'[k] = shown[k]
      BY <1>1, <1>2, <3>1
    <3>3. 1..(n + 1) = (1..n) \cup {n + 1}
      BY <3>2
    <3> HIDE DEF n
    <3>4. \A k \in DOMAIN shown' : shown'[k] \in 1..cursor /\ turns[shown'[k]] \notin cutoff
      BY <1>2, <1>5, <2>2, <3>2, <3>3 DEF Replayed
    <3>5. \A i \in 1..cursor : turns[i] \notin cutoff => \E k \in DOMAIN shown' : shown'[k] = i
      BY <1>2, <1>5, <3>2, <3>3 DEF Replayed
    <3>6. \A k \in 1..n : shown[k] \in 1..(cursor - 1)
      BY <1>2, <3>2 DEF Replayed
    <3>7. ASSUME NEW k \in DOMAIN shown', NEW l \in DOMAIN shown', k < l PROVE shown'[k] < shown'[l]
      <4>1. k \in 1..n
        BY <3>2, <3>3, <3>7
      <4>2. CASE l = n + 1
        BY <1>1, <3>2, <3>6, <4>1, <4>2
      <4>3. CASE l \in 1..n
        BY <1>2, <3>2, <3>7, <4>1, <4>3 DEF Replayed
      <4> QED BY <3>2, <3>3, <4>2, <4>3
    <3> QED BY <3>4, <3>5, <3>7 DEF Replayed
  <2> QED BY <2>1, <2>2
<1>7. ThreadInv'
  <2>1. cursor' <= Len(turns') + 1 /\ Replayed(turns', shown', cutoff', cursor' - 1)
    BY <1>1, <1>2, <1>5, <1>6
  <2> QED BY <1>1, <1>4, <2>1 DEF ThreadInv
<1>8. TalkInv'
  BY <1>1 DEF TalkInv
<1> QED BY <1>1, <1>3, <1>7, <1>8 DEF MemoryInv

LEMMA RecallsStep == MemoryInv /\ Recalls => MemoryInv'
<1> SUFFICES ASSUME MemoryInv, Recalls PROVE MemoryInv'
  OBVIOUS
<1>1. doing = "replay" /\ doing' = "recalled" /\ UNCHANGED <<cursor, threadVars, talkVars>>
  BY DEF Recalls
<1>2. Replayed(turns, shown, cutoff, Len(turns))
  <2>1. cursor - 1 = Len(turns) /\ Replayed(turns, shown, cutoff, cursor - 1)
    BY <1>1 DEF Recalls, MemoryInv, RecallTypes, ThreadInv
  <2> QED BY <2>1
<1>3. RecallTypes'
  BY <1>1 DEF MemoryInv, RecallTypes, threadVars, talkVars
<1>4. Ordered(turns, runOrder, Len(turns))' /\ CutOff' /\ SummedUp' /\ Replayed(turns, shown, cutoff, Len(turns))'
  BY <1>1, <1>2 DEF MemoryInv, ThreadInv, Ordered, CutOff, IsLong, Oldest, SummedUp, Replayed,
                    threadVars
<1> QED BY <1>1, <1>3, <1>4 DEF MemoryInv, ThreadInv, TalkInv

---------------------------------------------------------------------------
(* A long talk *)

LEMMA TrimsTalkStep == MemoryInv /\ TrimsTalk => MemoryInv'
<1> SUFFICES ASSUME MemoryInv, TrimsTalk PROVE MemoryInv'
  OBVIOUS
<1> USE DEF TrimsTalk, threadVars
<1>1. doing = "nothing" /\ doing' = "count" /\ talk' \in Talks /\ NothingToRecall
  BY DEF MemoryInv
<1>2. RecallTypes'
  BY <1>1, TalkType DEF MemoryInv, RecallTypes
<1>3. cursor' = 1 /\ total' = 0 /\ cut' = {}
  BY <1>1 DEF NothingToRecall
<1>4. total' = Chars(talk', {}, Kept)[cursor' - 1] /\ cursor' <= Len(talk') + 1
  <2>1. Chars(talk', {}, Kept)[0] = 0
    BY <1>1, Sizes, TalkType, CharsUpTo
  <2> QED BY <1>2, <1>3, <2>1 DEF RecallTypes
<1>5. ThreadInv'
  BY <1>1 DEF ThreadInv
<1>6. TalkInv'
  BY <1>1, <1>3, <1>4 DEF TalkInv
<1> QED BY <1>1, <1>2, <1>5, <1>6 DEF MemoryInv

LEMMA CountsStep == MemoryInv /\ Counts => MemoryInv'
<1> SUFFICES ASSUME MemoryInv, Counts PROVE MemoryInv'
  OBVIOUS
<1>1. /\ doing = "count" /\ doing' = "count" /\ cursor \in 1..Len(talk) /\ cursor' = cursor + 1
      /\ talk' = talk /\ cut' = {} /\ total' = total + talk[cursor].size
      /\ total = Chars(talk, {}, Kept)[cursor - 1] /\ talk \in Talks /\ talk \in Seq(Message)
  BY DEF Counts, MemoryInv, RecallTypes, TalkInv, threadVars
<1>2. total' = Chars(talk, {}, Kept)[cursor]
  <2>1. Chars(talk, {}, Kept)[cursor] = Chars(talk, {}, Kept)[cursor - 1] + Weight(talk, {}, Kept, cursor)
    BY <1>1, Sizes, CharsUpTo
  <2> QED BY <1>1, <2>1 DEF Weight
<1>3. total' \in Int
  BY <1>1, <1>2, Sizes, CharsType
<1>4. RecallTypes'
  BY <1>1, <1>3 DEF Counts, MemoryInv, RecallTypes, threadVars
<1>5. ThreadInv'
  BY <1>1 DEF ThreadInv
<1>6. cursor' - 1 = cursor /\ cursor' <= Len(talk') + 1
  BY <1>1
<1>7. TalkInv'
  BY <1>1, <1>2, <1>6 DEF TalkInv
<1> QED BY <1>1, <1>4, <1>5, <1>7 DEF MemoryInv

LEMMA CountsAllStep == MemoryInv /\ CountsAll => MemoryInv'
<1> SUFFICES ASSUME MemoryInv, CountsAll PROVE MemoryInv'
  OBVIOUS
<1>1. /\ doing = "count" /\ doing' = "shorten" /\ cursor' = 1 /\ cursor = Len(talk) + 1
      /\ talk' = talk /\ cut' = {} /\ cut = {} /\ total' = total
      /\ total = Chars(talk, {}, Kept)[cursor - 1] /\ talk \in Talks /\ talk \in Seq(Message)
  BY DEF CountsAll, MemoryInv, RecallTypes, TalkInv, talkVars
<1>2. total' = Length(cut, Kept)'
  BY <1>1 DEF Length
<1>3. RecallTypes'
  BY <1>1 DEF CountsAll, MemoryInv, RecallTypes, threadVars
<1>4. Needed'
  BY <1>1, <1>2 DEF Needed
<1>5. cut' = {j \in Could' : j < cursor'}
  <2>1. \A j \in Could' : ~(j < 1)
    BY <1>1 DEF Could
  <2> QED BY <1>1, <2>1
<1>6. ThreadInv' /\ TalkInv'
  BY <1>1, <1>4, <1>5 DEF ThreadInv, TalkInv
<1> QED BY <1>1, <1>3, <1>6 DEF MemoryInv

\* A long output before the latest round follows a call, so the latest round is a call's.
LEMMA OlderCould ==
  ASSUME NEW i \in Older, talk \in Talks, IsLongOutput(i)
  PROVE  i \in Could /\ i \in 1..Len(talk)
<1>1. talk \in Seq(Message)
  BY TalkType
<1>2. i \in DOMAIN talk /\ talk[i].role = "tool"
  BY <1>1 DEF Older, IsLongOutput
<1>3. PICK j \in 1..(i - 1) : talk[j].role = "assistant"
  BY <1>2, TalksAssumption
<1>4. j \in Calls
  BY <1>1, <1>2, <1>3 DEF Calls
<1> QED BY <1>1, <1>2, <1>4 DEF Older, Could

\* The loop ends behind all that could be shortened.
LEMMA PastOlder ==
  ASSUME talk \in Seq(Message), NEW c \in Nat \ {0}, c \notin Older
  PROVE  \A j \in Could : j < c
<1> SUFFICES ASSUME NEW j \in Could, j >= c PROVE c \in Older
  BY DEF Could
<1>1. PICK k \in Calls : k > j
  BY DEF Could
<1>2. j \in 1..Len(talk) /\ k \in 1..Len(talk)
  BY <1>1 DEF Could, Calls
<1>3. c \in DOMAIN talk /\ k > c
  BY <1>1, <1>2
<1> QED BY <1>1, <1>3 DEF Older

LEMMA ShortensStep == MemoryInv /\ Shortens => MemoryInv'
<1> SUFFICES ASSUME MemoryInv, Shortens PROVE MemoryInv'
  OBVIOUS
<1>1. /\ doing = "shorten" /\ doing' = "shorten" /\ cursor \in Older /\ total > MaxChars
      /\ cursor' = cursor + 1 /\ talk' = talk /\ talk \in Talks /\ talk \in Seq(Message)
      /\ Needed /\ cut = {j \in Could : j < cursor} /\ cursor \in Nat \ {0} /\ total \in Int
  BY DEF Shortens, MemoryInv, RecallTypes, TalkInv, threadVars
<1>2. Could' = Could
  BY <1>1 DEF Could, IsLongOutput, Calls
<1>3. \A j \in Could : j \in 1..Len(talk) /\ IsLongOutput(j)
  BY <1>1 DEF Could
<1>4. Needed' /\ cut' = {j \in Could : j < cursor + 1} /\ total' \in Int
  <2>1. CASE ~IsLongOutput(cursor)
    <3>1. cut' = cut /\ total' = total
      BY <2>1 DEF Shortens
    <3>2. Needed'
      BY <1>1, <1>2, <3>1 DEF Needed, Length, CutBefore
    <3>3. \A j \in Could : j < cursor <=> j < cursor + 1
      BY <1>1, <1>3, <2>1
    <3> QED BY <1>1, <3>1, <3>2, <3>3
  <2>2. CASE IsLongOutput(cursor)
    <3>1. cut' = cut \cup {cursor} /\ total' = total - (talk[cursor].size - Kept)
      BY <2>2 DEF Shortens
    <3>2. cursor \in Could /\ cursor \in 1..Len(talk)
      BY <1>1, <2>2, OlderCould
    <3>3. cut' = {j \in Could : j < cursor + 1}
      <4>1. \A j \in Could : j < cursor + 1 <=> j < cursor \/ j = cursor
        BY <1>1, <1>3
      <4>2. ASSUME NEW j PROVE j \in cut' <=> j \in Could /\ j < cursor + 1
        BY <1>1, <3>1, <3>2, <4>1, <4>2
      <4> QED BY <4>2
    <3>4. total' = Chars(talk, cut', Kept)[Len(talk)]
      <4>1. cursor \notin cut
        BY <1>1
      <4>2. Chars(talk, cut \cup {cursor}, Kept)[Len(talk)]
              = Chars(talk, cut, Kept)[Len(talk)] - (talk[cursor].size - Kept)
        BY <1>1, <3>2, <4>1, Sizes, OneShorter
      <4> QED BY <1>1, <3>1, <4>2 DEF Needed, Length
    <3>5. total' \in Int
      <4>1. Len(talk) \in 0..Len(talk)
        BY <1>1
      <4> QED BY <1>1, <3>4, <4>1, Sizes, CharsType
    <3>6. ASSUME NEW i \in cut' PROVE Length(CutBefore(i), Kept)' > MaxChars
      <4>1. CASE i = cursor
        <5>1. CutBefore(i)' = cut
          BY <1>1, <3>1, <4>1 DEF CutBefore
        <5> QED BY <1>1, <5>1 DEF Length, Needed
      <4>2. CASE i \in cut
        <5>1. i < cursor /\ i \in Nat
          BY <1>1, <1>3, <4>2
        <5>2. CutBefore(i)' = CutBefore(i)
          BY <1>1, <3>1, <5>1 DEF CutBefore
        <5> QED BY <1>1, <4>2, <5>2 DEF Length, Needed
      <4> QED BY <3>1, <4>1, <4>2
    <3>7. cut' \subseteq Could' /\ total' = Length(cut, Kept)'
      BY <1>1, <1>2, <3>3, <3>4 DEF Length
    <3> QED BY <3>3, <3>5, <3>6, <3>7 DEF Needed
  <2> QED BY <2>1, <2>2
<1>5. RecallTypes'
  BY <1>1, <1>4 DEF Shortens, MemoryInv, RecallTypes, threadVars
<1>6. ThreadInv' /\ TalkInv'
  BY <1>1, <1>2, <1>4 DEF ThreadInv, TalkInv
<1> QED BY <1>1, <1>5, <1>6 DEF MemoryInv

LEMMA TrimsStep == MemoryInv /\ Trims => MemoryInv'
<1> SUFFICES ASSUME MemoryInv, Trims PROVE MemoryInv'
  OBVIOUS
<1>1. /\ doing = "shorten" /\ doing' = "trimmed" /\ UNCHANGED <<cursor, talkVars, threadVars>>
      /\ cursor \notin Older \/ total <= MaxChars
      /\ Needed /\ cut = {j \in Could : j < cursor} /\ cursor \in Nat \ {0} /\ talk \in Seq(Message)
  BY DEF Trims, MemoryInv, RecallTypes, TalkInv
<1>2. RecallTypes'
  BY <1>1 DEF MemoryInv, RecallTypes, threadVars, talkVars
<1>3. Could' = Could /\ cut' = cut /\ total' = total
  BY <1>1 DEF Could, IsLongOutput, Calls, talkVars
<1>4. Needed'
  BY <1>1, <1>3 DEF Needed, Length, CutBefore, talkVars
<1>5. \A i \in cut, j \in Could : j < i => j \in cut
  <2>1. \A j \in Could : j \in Nat
    BY <1>1 DEF Could
  <2> QED BY <1>1, <2>1
<1>6. total <= MaxChars \/ cut = Could
  <2>1. CASE cursor \notin Older
    <3>1. \A j \in Could : j < cursor
      BY <1>1, <2>1, PastOlder
    <3> QED BY <1>1, <3>1
  <2> QED BY <1>1, <2>1
<1>7. ThreadInv' /\ TalkInv'
  BY <1>1, <1>3, <1>4, <1>5, <1>6 DEF ThreadInv, TalkInv
<1> QED BY <1>1, <1>2, <1>7 DEF MemoryInv

---------------------------------------------------------------------------
(* What is shown is right *)

LEMMA MemoryInit == NothingToRecall => MemoryInv
<1> SUFFICES ASSUME NothingToRecall PROVE MemoryInv
  OBVIOUS
<1>1. doing = "nothing" /\ RecallTypes
  BY DEF NothingToRecall, RecallTypes
<1> QED BY <1>1 DEF MemoryInv, ThreadInv, TalkInv

LEMMA MemoryStep == MemoryInv /\ [MemoryNext]_memoryVars => MemoryInv'
<1> SUFFICES ASSUME MemoryInv, [MemoryNext]_memoryVars PROVE MemoryInv'
  OBVIOUS
<1>1. CASE UNCHANGED memoryVars
  <2>1. UNCHANGED <<doing, cursor, turns, runOrder, cutoff, summed, shown, talk, total, cut>>
    BY <1>1 DEF memoryVars, threadVars, talkVars
  <2>2. RecallTypes' /\ (doing' = "nothing" => NothingToRecall')
    BY <2>1 DEF MemoryInv, RecallTypes, NothingToRecall
  <2>3. /\ CutOff' <=> CutOff
        /\ SummedUp' <=> SummedUp
    BY <2>1 DEF CutOff, IsLong, Oldest, SummedUp
  <2>4. ThreadInv'
    BY <2>1, <2>3 DEF MemoryInv, ThreadInv
  <2>5. Could' = Could /\ (Needed' <=> Needed)
    BY <2>1 DEF Needed, Could, CutBefore, Length, IsLongOutput, Calls
  <2>6. TalkInv'
    BY <2>1, <2>5 DEF MemoryInv, TalkInv
  <2> QED BY <2>2, <2>4, <2>6 DEF MemoryInv
<1>2. CASE Sends
  <2>1. NothingToRecall'
    BY <1>2 DEF Sends, NothingToRecall
  <2> QED BY <2>1, MemoryInit, PTL
<1> QED BY <1>1, <1>2, ContinuesStep, SeesStep, CutsStep, SummarisesStep, ReplaysStep, RecallsStep,
           TrimsTalkStep, CountsStep, CountsAllStep, ShortensStep, TrimsStep DEF MemoryNext

LEMMA ThreadKept == MemoryInv => ThreadIsKept
<1> SUFFICES ASSUME MemoryInv, doing = "recalled" PROVE ThreadIsKept
  BY DEF ThreadIsKept
<1> DEFINE fresh == RunsOf(ShownTurns)
           all == RunsOf(DOMAIN turns)
           n == Len(runOrder)
<1>1. /\ Ordered(turns, runOrder, Len(turns)) /\ CutOff /\ SummedUp
      /\ Replayed(turns, shown, cutoff, Len(turns))
  BY DEF MemoryInv, ThreadInv
<1>2. /\ DOMAIN turns = 1..Len(turns) /\ DOMAIN runOrder = 1..n /\ n \in Nat
      /\ Keep \in Nat \ {0} /\ Threshold \in Nat /\ Threshold >= Keep
  BY KeepAssumption DEF MemoryInv, RecallTypes
<1>3. ShownTurns = {i \in DOMAIN turns : turns[i] \notin cutoff}
  BY <1>1, <1>2 DEF Replayed, ShownTurns
<1>4. ShownTurns = {i \in DOMAIN turns : turns[i] \in fresh}
  BY <1>3 DEF RunsOf
<1>5. all = {runOrder[a] : a \in 1..n}
  <2>1. all = {turns[i] : i \in 1..Len(turns)}
    BY <1>2 DEF RunsOf
  <2>2. \A a \in 1..n : \E i \in 1..Len(turns) : turns[i] = runOrder[a]
    BY <1>1, <1>2 DEF Ordered
  <2>3. \A i \in 1..Len(turns) : \E a \in 1..n : runOrder[a] = turns[i]
    BY <1>1, <1>2 DEF Ordered
  <2> HIDE DEF all, n
  <2>4. \A r : r \in all <=> r \in {runOrder[a] : a \in 1..n}
    BY <2>1, <2>2, <2>3
  <2> QED BY <2>4
<1>6. Cardinality(all) = n
  <2>1. IsFiniteSet(1..n) /\ Cardinality(1..n) = n
    <3> HIDE DEF n
    <3>1. n \in Int /\ 1 \in Int /\ (IF 1 > n THEN 0 ELSE n - 1 + 1) = n
      BY <1>2
    <3> QED BY <3>1, FS_Interval
  <2>2. \A a, b \in 1..n : runOrder[a] = runOrder[b] => a = b
    BY <1>1, <1>2 DEF Ordered
  <2> QED BY <1>5, <2>1, <2>2, CountPlaces
<1>7. ASSUME NEW i \in DOMAIN turns \ ShownTurns, NEW k \in ShownTurns
      PROVE  \E j \in 1..(k - 1) : turns[j] = turns[i]
  <2>1. turns[i] \in cutoff /\ turns[k] \notin cutoff /\ k \in 1..Len(turns)
    BY <1>2, <1>3
  <2>2. cutoff = Oldest
    BY <1>1, <2>1 DEF CutOff
  <2>3. PICK a \in 1..(n - Keep) : turns[i] = runOrder[a]
    BY <2>1, <2>2 DEF Oldest
  <2>4. PICK b \in 1..n : runOrder[b] = turns[k]
    BY <1>1, <1>2, <2>1 DEF Ordered
  <2>5. b \notin 1..(n - Keep)
    BY <2>1, <2>2, <2>4 DEF Oldest
  <2>6. a < b /\ a \in 1..n
    BY <1>2, <2>3, <2>4, <2>5
  <2>7. \E j \in 1..(k - 1) : turns[j] = runOrder[a]
    BY <1>1, <1>2, <2>1, <2>4, <2>6 DEF Ordered
  <2> QED BY <2>3, <2>7
<1>8. CASE n > Threshold
  <2> DEFINE late == (n - Keep + 1)..n
  <2>1. cutoff = Oldest
    BY <1>1, <1>8 DEF CutOff, IsLong
  <2>2. fresh = {runOrder[a] : a \in late}
    <3>1. ASSUME NEW a \in late PROVE runOrder[a] \in fresh
      <4>1. a \in 1..n /\ a \notin 1..(n - Keep)
        BY <1>2, <1>8
      <4>2. runOrder[a] \notin cutoff
        <5>1. ASSUME NEW b \in 1..(n - Keep), runOrder[b] = runOrder[a] PROVE FALSE
          <6>1. b \in 1..n
            BY <1>2
          <6> QED BY <1>1, <1>2, <4>1, <5>1, <6>1 DEF Ordered
        <5> QED BY <2>1, <5>1 DEF Oldest
      <4>3. PICK i \in 1..Len(turns) : turns[i] = runOrder[a]
        BY <1>1, <1>2, <4>1 DEF Ordered
      <4> QED BY <1>2, <1>3, <4>2, <4>3 DEF RunsOf
    <3>2. ASSUME NEW i \in ShownTurns PROVE turns[i] \in {runOrder[a] : a \in late}
      <4>1. i \in 1..Len(turns) /\ turns[i] \notin cutoff
        BY <1>2, <1>3
      <4>2. PICK a \in 1..n : runOrder[a] = turns[i]
        BY <1>1, <1>2, <4>1 DEF Ordered
      <4>3. a \notin 1..(n - Keep)
        BY <2>1, <4>1, <4>2 DEF Oldest
      <4>4. a \in late
        BY <1>2, <4>2, <4>3
      <4> QED BY <4>2, <4>4
    <3> HIDE DEF late
    <3> QED BY <3>1, <3>2 DEF RunsOf
  <2>3. IsFiniteSet(late) /\ Cardinality(late) = Keep
    <3>1. n - Keep + 1 \in Int /\ n - (n - Keep + 1) + 1 = Keep /\ ~(n - Keep + 1 > n)
      BY <1>2
    <3> QED BY <1>2, <3>1, FS_Interval
  <2>4. \A a, b \in late : runOrder[a] = runOrder[b] => a = b
    <3>1. late \subseteq 1..n
      BY <1>2, <1>8
    <3> HIDE DEF late
    <3> QED BY <1>1, <1>2, <3>1 DEF Ordered
  <2>5. Cardinality(fresh) = Keep
    <3> HIDE DEF late
    <3> QED BY <2>2, <2>3, <2>4, CountPlaces
  <2> QED BY <1>1, <1>3, <1>4, <1>6, <1>7, <1>8, <2>5 DEF ThreadIsKept, SummedUp, Replayed
<1>9. CASE ~(n > Threshold)
  <2>1. cutoff = {}
    BY <1>1, <1>9 DEF CutOff, IsLong
  <2>2. fresh = all
    BY <1>3, <2>1
  <2> QED BY <1>1, <1>3, <1>4, <1>6, <1>7, <1>9, <2>2 DEF ThreadIsKept, SummedUp, Replayed
<1> QED BY <1>8, <1>9

LEMMA TalkKept == MemoryInv => TalkIsKept
<1> SUFFICES ASSUME MemoryInv, doing = "trimmed" PROVE TalkIsKept
  BY DEF TalkIsKept
<1>1. /\ Needed /\ \A i \in cut, j \in Could : j < i => j \in cut
      /\ total <= MaxChars \/ cut = Could
      /\ talk \in Seq(Message)
  BY DEF MemoryInv, RecallTypes, TalkInv
<1>2. ASSUME total <= MaxChars PROVE Length(cut, Kept + Suffix) <= MaxChars + Suffix * Cardinality(cut)
  <2>1. cut \subseteq 1..Len(talk)
    BY <1>1 DEF Needed, Could
  <2>2. Chars(talk, cut, Kept + Suffix)[Len(talk)]
          = Chars(talk, cut, Kept)[Len(talk)] + Suffix * Cardinality(cut)
    BY <1>1, <2>1, Sizes, MarksAdd
  <2>3. Cardinality(cut) \in Nat
    <3>1. IsFiniteSet(1..Len(talk))
      BY <1>1, FS_Interval
    <3> QED BY <2>1, <3>1, FS_Subset, FS_CardinalityType
  <2>4. Suffix * Cardinality(cut) \in Nat /\ total \in Int
    BY <2>3, Sizes DEF MemoryInv, RecallTypes
  <2> QED BY <1>1, <1>2, <2>2, <2>4, Sizes DEF Needed, Length
<1> QED BY <1>1, <1>2 DEF TalkIsKept, Needed, Could, CutBefore

\* A model is shown what it should be of the past, for every thread and every talk: of a
\* thread the runs that began last, whole, and a summary of the others or none; of a talk
\* all but the oldest long outputs, of which no more is shortened than necessary.
THEOREM HistoryIsRight == MemorySpec => []HistoryIsKept
<1>1. MemoryInv => HistoryIsKept
  BY ThreadKept, TalkKept DEF HistoryIsKept
<1> QED BY <1>1, MemoryInit, MemoryStep, PTL DEF MemorySpec
=============================================================================
