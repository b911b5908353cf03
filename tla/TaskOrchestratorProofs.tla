------------------------ MODULE TaskOrchestratorProofs ------------------------
(***************************************************************************)
(* Proofs about TaskOrchestrator, for any number of subtasks and threads,    *)
(* any plans and any budget.                                                *)
(***************************************************************************)
EXTENDS TaskOrchestrator, FiniteSetTheorems, WellFoundedInduction, TLAPS

-------------------------------------------------------------------------------
(* Total is a sum: MapThenSumSet folds over a set in the order of CHOOSE;    *)
(* what it computes does not depend on that order.                          *)

Pick(s) == CHOOSE x \in s : TRUE
Next1(f, g, s) == IF s = {} THEN 0 ELSE f[Pick(s)] + g[s \ {Pick(s)}]
IsSum(f, g, S) == g = [s \in SUBSET S |-> Next1(f, g, s)]
Sum(f, S) == CHOOSE g : IsSum(f, g, S)

LEMMA TotalIsSum == ASSUME NEW f, NEW S PROVE Total(f, S) = Sum(f, S)[S]
  BY Zenon DEF Total, MapThenSumSet, MapThenFoldSet, Sum, IsSum, Next1, Pick

LEMMA PickIsIn == ASSUME NEW s, s # {} PROVE Pick(s) \in s
  BY DEF Pick

\* A set of finite sets has one that is minimal.
LEMMA MinimalSet ==
  ASSUME NEW S, IsFiniteSet(S), NEW T \in SUBSET SUBSET S, T # {}
  PROVE  \E s \in T : \A t \in T : ~ (t \subseteq s /\ t # s)
<1>1. IsWellFoundedOn(StrictSubsetOrdering(S), FiniteSubsetsOf(S))
  BY FS_StrictSubsetOrderingWellFounded
<1>2. T \subseteq FiniteSubsetsOf(S)
  BY FS_Subset DEF FiniteSubsetsOf
<1>3. PICK s \in T : \A t \in T : ~ (<<t, s>> \in StrictSubsetOrdering(S))
  BY <1>1, <1>2, WFMin
<1>4. ASSUME NEW t \in T, t \subseteq s, t # s PROVE FALSE
  <2>1. t \in SUBSET S /\ s \in SUBSET S
    OBVIOUS
  <2>2. <<t, s>> \in StrictSubsetOrdering(S)
    BY <1>4, <2>1 DEF StrictSubsetOrdering
  <2>3. QED
    BY <1>3, <2>2
<1>5. QED
  BY <1>4

LEMMA SumIsUnique ==
  ASSUME NEW S, IsFiniteSet(S), NEW f, NEW g, NEW h, IsSum(f, g, S), IsSum(f, h, S)
  PROVE  g = h
<1> DEFINE T == {s \in SUBSET S : g[s] # h[s]}
<1>1. T = {}
  <2> SUFFICES ASSUME T # {} PROVE FALSE
    OBVIOUS
  <2>1. PICK s \in T : \A t \in T : ~ (t \subseteq s /\ t # s)
    <3>1. T \in SUBSET SUBSET S
      OBVIOUS
    <3> HIDE DEF T
    <3>2. QED
      BY <3>1, MinimalSet
  <2>2. g[s] = Next1(f, g, s) /\ h[s] = Next1(f, h, s)
    BY DEF IsSum
  <2>3. CASE s = {}
    BY <2>1, <2>2, <2>3 DEF Next1
  <2>4. CASE s # {}
    <3>1. s \ {Pick(s)} \in SUBSET S /\ s \ {Pick(s)} \subseteq s /\ s \ {Pick(s)} # s
      BY <2>4, PickIsIn
    <3>2. g[s \ {Pick(s)}] = h[s \ {Pick(s)}]
      BY <2>1, <3>1
    <3>3. QED
      BY <2>1, <2>2, <3>2 DEF Next1
  <2>5. QED
    BY <2>3, <2>4
<1>2. QED
  BY <1>1 DEF IsSum

\* What is summed over a set tells what is summed over a part of it.
LEMMA SumRestricts ==
  ASSUME NEW S, NEW f, NEW g, IsSum(f, g, S), NEW V \in SUBSET S,
         NEW h, h = [s \in SUBSET V |-> h[s]], \A s \in SUBSET V : h[s] = g[s]
  PROVE  IsSum(f, h, V)
<1>1. ASSUME NEW s \in SUBSET V PROVE h[s] = Next1(f, h, s)
  <2>1. g[s] = Next1(f, g, s)
    BY DEF IsSum
  <2>2. g[s] = h[s] /\ g[s \ {Pick(s)}] = h[s \ {Pick(s)}]
    OBVIOUS
  <2>3. QED
    BY <2>1, <2>2 DEF Next1
<1>2. QED
  BY <1>1 DEF IsSum

LEMMA SumExists == ASSUME NEW S, IsFiniteSet(S), NEW f PROVE IsSum(f, Sum(f, S), S)
<1> DEFINE T == {s \in SUBSET S : ~ IsSum(f, Sum(f, s), s)}
<1>1. T = {}
  <2> SUFFICES ASSUME T # {} PROVE FALSE
    OBVIOUS
  <2>1. PICK s \in T : \A t \in T : ~ (t \subseteq s /\ t # s)
    <3>1. T \in SUBSET SUBSET S
      OBVIOUS
    <3> HIDE DEF T
    <3>2. QED
      BY <3>1, MinimalSet
  <2>2. \A t \in SUBSET s : t # s => IsSum(f, Sum(f, t), t)
    BY <2>1
  <2> DEFINE V(t) == Sum(f, t)[t]
             g == [t \in SUBSET s |-> IF t = {} THEN 0 ELSE f[Pick(t)] + V(t \ {Pick(t)})]
  <2>3. ASSUME NEW t \in SUBSET s, t # s PROVE g[t] = V(t)
    <3>1. IsSum(f, Sum(f, t), t)
      BY <2>2, <2>3
    <3>2. Sum(f, t)[t] = Next1(f, Sum(f, t), t)
      BY <3>1 DEF IsSum
    <3>3. CASE t = {}
      BY <3>2, <3>3 DEF Next1
    <3>4. CASE t # {}
      <4> DEFINE u == t \ {Pick(t)}
                 r == [x \in SUBSET u |-> Sum(f, t)[x]]
      <4>1. u \in SUBSET t /\ u \in SUBSET s /\ u # s
        BY <2>3
      <4>2. r[u] = Sum(f, t)[u]
        OBVIOUS
      <4>3. IsFiniteSet(u)
        BY <4>1, FS_Subset
      <4>4. IsSum(f, r, u) /\ IsSum(f, Sum(f, u), u)
        <5>1. IsSum(f, Sum(f, u), u)
          BY <2>2, <4>1
        <5>2. IsSum(f, r, u)
          <6>1. r = [x \in SUBSET u |-> r[x]] /\ \A x \in SUBSET u : r[x] = Sum(f, t)[x]
            OBVIOUS
          <6> HIDE DEF r, u, g, V, T
          <6>2. PICK h : h = Sum(f, t)
            OBVIOUS
          <6>3. u \in SUBSET t /\ IsSum(f, h, t) /\ \A x \in SUBSET u : r[x] = h[x]
            BY <3>1, <4>1, <6>1, <6>2
          <6>4. QED
            BY <6>1, <6>3, SumRestricts
        <5>3. QED
          BY <5>1, <5>2
      <4>5. Sum(f, t)[u] = V(u)
        <5> HIDE DEF r, u
        <5>1. r = Sum(f, u)
          BY <4>3, <4>4, SumIsUnique
        <5>2. QED
          BY <4>2, <5>1
      <4>6. QED
        BY <3>2, <3>4, <4>5 DEF Next1
    <3>5. QED
      BY <3>3, <3>4
  <2>4. IsSum(f, g, s)
    <3>1. ASSUME NEW t \in SUBSET s PROVE g[t] = Next1(f, g, t)
      <4>1. CASE t = {}
        BY <4>1 DEF Next1
      <4>2. CASE t # {}
        <5>1. t \ {Pick(t)} \in SUBSET s /\ t \ {Pick(t)} # s
          BY <4>2, PickIsIn
        <5>2. g[t \ {Pick(t)}] = V(t \ {Pick(t)})
          BY <2>3, <5>1
        <5>3. g[t] = f[Pick(t)] + V(t \ {Pick(t)})
          BY <4>2
        <5>4. QED
          BY <4>2, <5>2, <5>3 DEF Next1
      <4>3. QED
        BY <4>1, <4>2
    <3> HIDE DEF g
    <3>2. g = [t \in SUBSET s |-> g[t]]
      BY DEF g
    <3>3. QED
      BY <3>1, <3>2 DEF IsSum
  <2>5. IsSum(f, Sum(f, s), s)
    <3> HIDE DEF g
    <3>1. QED
      BY <2>4 DEF Sum
  <2>6. QED
    BY <2>1, <2>5
<1>2. QED
  BY <1>1

\* What Total is, one element at a time.
LEMMA TotalUnfolds ==
  ASSUME NEW S, IsFiniteSet(S), NEW f
  PROVE  Total(f, S) = IF S = {} THEN 0 ELSE f[Pick(S)] + Total(f, S \ {Pick(S)})
<1> DEFINE u == S \ {Pick(S)}
           r == [x \in SUBSET u |-> Sum(f, S)[x]]
<1>1. IsSum(f, Sum(f, S), S)
  BY SumExists
<1>2. Sum(f, S)[S] = Next1(f, Sum(f, S), S)
  BY <1>1 DEF IsSum
<1>3. r[u] = Sum(f, S)[u]
  OBVIOUS
<1>4. u \in SUBSET S /\ IsFiniteSet(u)
  BY FS_Subset
<1>5. IsSum(f, Sum(f, u), u)
  BY <1>4, SumExists
<1>6. Sum(f, S)[u] = Total(f, u)
  <2>1. IsSum(f, r, u)
    <3>1. r = [x \in SUBSET u |-> r[x]] /\ \A x \in SUBSET u : r[x] = Sum(f, S)[x]
      OBVIOUS
    <3> HIDE DEF r, u
    <3>2. PICK g : g = Sum(f, S)
      OBVIOUS
    <3>3. u \in SUBSET S /\ IsSum(f, g, S) /\ \A x \in SUBSET u : r[x] = g[x]
      BY <1>1, <1>4, <3>1, <3>2
    <3>4. QED
      BY <3>1, <3>3, SumRestricts
  <2> HIDE DEF r, u
  <2>2. IsFiniteSet(u) /\ IsSum(f, r, u) /\ IsSum(f, Sum(f, u), u)
    BY <1>4, <1>5, <2>1
  <2>3. \A g, h : IsSum(f, g, u) /\ IsSum(f, h, u) => g = h
    BY <2>2, SumIsUnique
  <2>4. r = Sum(f, u)
    BY <2>2, <2>3
  <2>5. QED
    BY <1>3, <2>4, TotalIsSum
<1>7. Total(f, S) = Sum(f, S)[S]
  BY TotalIsSum
<1>8. QED
  BY <1>2, <1>6, <1>7 DEF Next1

LEMMA TotalOfNone == ASSUME NEW f PROVE Total(f, {}) = 0
<1>1. IsFiniteSet({})
  BY FS_EmptySet
<1>2. QED
  BY <1>1, TotalUnfolds

LEMMA TotalType ==
  ASSUME NEW S, IsFiniteSet(S), NEW f, \A n \in S : f[n] \in Nat
  PROVE  Total(f, S) \in Nat
<1> DEFINE T == {s \in SUBSET S : Total(f, s) \notin Nat}
<1>1. T = {}
  <2> SUFFICES ASSUME T # {} PROVE FALSE
    OBVIOUS
  <2>1. PICK s \in T : \A t \in T : ~ (t \subseteq s /\ t # s)
    <3>1. T \in SUBSET SUBSET S
      OBVIOUS
    <3> HIDE DEF T
    <3>2. QED
      BY <3>1, MinimalSet
  <2>2. IsFiniteSet(s) /\ s \in SUBSET S
    BY FS_Subset
  <2>3. CASE s = {}
    BY <2>1, <2>3, TotalOfNone
  <2>4. CASE s # {}
    <3>1. Pick(s) \in s
      BY <2>4, PickIsIn
    <3>2. s \ {Pick(s)} \in SUBSET S /\ s \ {Pick(s)} \subseteq s /\ s \ {Pick(s)} # s
      BY <2>2, <3>1
    <3>3. Total(f, s \ {Pick(s)}) \in Nat
      BY <2>1, <3>2
    <3>4. f[Pick(s)] \in Nat
      BY <2>2, <3>1
    <3>5. Total(f, s) = f[Pick(s)] + Total(f, s \ {Pick(s)})
      BY <2>2, <2>4, TotalUnfolds
    <3>6. QED
      BY <2>1, <3>3, <3>4, <3>5
  <2>5. QED
    BY <2>3, <2>4
<1>2. QED
  BY <1>1

\* Any element may be the first one.
LEMMA TotalOfMore ==
  ASSUME NEW S, IsFiniteSet(S), NEW f, \A n \in S : f[n] \in Nat, NEW x \in S
  PROVE  Total(f, S) = f[x] + Total(f, S \ {x})
<1> DEFINE T == {s \in SUBSET S : \E y \in s : Total(f, s) # f[y] + Total(f, s \ {y})}
<1>1. T = {}
  <2> SUFFICES ASSUME T # {} PROVE FALSE
    OBVIOUS
  <2>1. PICK s \in T : \A t \in T : ~ (t \subseteq s /\ t # s)
    <3>1. T \in SUBSET SUBSET S
      OBVIOUS
    <3> HIDE DEF T
    <3>2. QED
      BY <3>1, MinimalSet
  <2>2. IsFiniteSet(s) /\ s \in SUBSET S
    BY FS_Subset
  <2>3. PICK y \in s : Total(f, s) # f[y] + Total(f, s \ {y})
    BY <2>1
  <2> DEFINE p == Pick(s)
  <2>4. p \in s
    BY <2>3, PickIsIn
  <2>5. Total(f, s) = f[p] + Total(f, s \ {p})
    BY <2>2, <2>3, TotalUnfolds
  <2>6. p # y
    BY <2>3, <2>5
  <2> HIDE DEF p
  <2>7. /\ s \ {p} \in SUBSET S /\ s \ {p} \subseteq s /\ s \ {p} # s /\ y \in s \ {p}
        /\ s \ {y} \in SUBSET S /\ s \ {y} \subseteq s /\ s \ {y} # s /\ p \in s \ {y}
    BY <2>2, <2>3, <2>4, <2>6
  <2>8. /\ Total(f, s \ {p}) = f[y] + Total(f, (s \ {p}) \ {y})
        /\ Total(f, s \ {y}) = f[p] + Total(f, (s \ {y}) \ {p})
    BY <2>1, <2>7
  <2>9. (s \ {p}) \ {y} = (s \ {y}) \ {p} /\ (s \ {p}) \ {y} \in SUBSET S
    BY <2>2
  <2>10. Total(f, (s \ {p}) \ {y}) \in Nat
    BY <2>9, FS_Subset, TotalType
  <2>11. f[p] \in Nat /\ f[y] \in Nat
    BY <2>2, <2>3, <2>4
  <2>12. \A a, b, t \in Nat : a + (b + t) = b + (a + t)
    OBVIOUS
  <2>13. f[p] + (f[y] + Total(f, (s \ {p}) \ {y})) = f[y] + (f[p] + Total(f, (s \ {p}) \ {y}))
    BY <2>10, <2>11, <2>12
  <2>14. QED
    BY <2>3, <2>5, <2>8, <2>9, <2>13
<1>2. QED
  BY <1>1

LEMMA TotalOfSame ==
  ASSUME NEW S, IsFiniteSet(S), NEW f, NEW g, \A n \in S : f[n] \in Nat /\ f[n] = g[n]
  PROVE  Total(f, S) = Total(g, S)
<1> DEFINE T == {s \in SUBSET S : Total(f, s) # Total(g, s)}
<1>1. T = {}
  <2> SUFFICES ASSUME T # {} PROVE FALSE
    OBVIOUS
  <2>1. PICK s \in T : \A t \in T : ~ (t \subseteq s /\ t # s)
    <3>1. T \in SUBSET SUBSET S
      OBVIOUS
    <3> HIDE DEF T
    <3>2. QED
      BY <3>1, MinimalSet
  <2>2. IsFiniteSet(s) /\ s \in SUBSET S
    BY FS_Subset
  <2>3. CASE s = {}
    BY <2>1, <2>3, TotalOfNone
  <2>4. CASE s # {}
    <3>1. Pick(s) \in s
      BY <2>4, PickIsIn
    <3>2. s \ {Pick(s)} \in SUBSET S /\ s \ {Pick(s)} \subseteq s /\ s \ {Pick(s)} # s
      BY <2>2, <3>1
    <3>3. Total(f, s \ {Pick(s)}) = Total(g, s \ {Pick(s)}) /\ f[Pick(s)] = g[Pick(s)]
      BY <2>1, <2>2, <3>1, <3>2
    <3>4. /\ Total(f, s) = f[Pick(s)] + Total(f, s \ {Pick(s)})
          /\ Total(g, s) = g[Pick(s)] + Total(g, s \ {Pick(s)})
      BY <2>2, <2>4, TotalUnfolds
    <3>5. QED
      BY <2>1, <3>3, <3>4
  <2>5. QED
    BY <2>3, <2>4
<1>2. QED
  BY <1>1

\* Equal summands.
LEMMA TotalOfEqual ==
  ASSUME NEW S, IsFiniteSet(S), NEW f, NEW c \in Nat, \A n \in S : f[n] = c
  PROVE  Total(f, S) = c * Cardinality(S)
<1> DEFINE T == {s \in SUBSET S : Total(f, s) # c * Cardinality(s)}
<1>1. T = {}
  <2> SUFFICES ASSUME T # {} PROVE FALSE
    OBVIOUS
  <2>1. PICK s \in T : \A t \in T : ~ (t \subseteq s /\ t # s)
    <3>1. T \in SUBSET SUBSET S
      OBVIOUS
    <3> HIDE DEF T
    <3>2. QED
      BY <3>1, MinimalSet
  <2>2. IsFiniteSet(s) /\ s \in SUBSET S
    BY FS_Subset
  <2>3. CASE s = {}
    BY <2>1, <2>3, TotalOfNone, FS_EmptySet
  <2>4. CASE s # {}
    <3>1. Pick(s) \in s
      BY <2>4, PickIsIn
    <3>2. s \ {Pick(s)} \in SUBSET S /\ s \ {Pick(s)} \subseteq s /\ s \ {Pick(s)} # s
      BY <2>2, <3>1
    <3>3. Total(f, s \ {Pick(s)}) = c * Cardinality(s \ {Pick(s)})
      BY <2>1, <3>2
    <3>4. Total(f, s) = c + Total(f, s \ {Pick(s)})
      BY <2>2, <2>4, <3>1, TotalUnfolds
    <3>5. Cardinality(s \ {Pick(s)}) = Cardinality(s) - 1 /\ Cardinality(s) \in Nat
      BY <2>2, <3>1, FS_RemoveElement, FS_CardinalityType
    <3>6. \A k \in Nat : c + c * (k - 1) = c * k
      OBVIOUS
    <3>7. QED
      BY <2>1, <3>3, <3>4, <3>5, <3>6
  <2>5. QED
    BY <2>3, <2>4
<1>2. QED
  BY <1>1

\* One summand changes.
LEMMA TotalOfChanged ==
  ASSUME NEW S, IsFiniteSet(S), NEW f, NEW g, NEW x \in S,
         \A n \in S : f[n] \in Nat /\ g[n] \in Nat, \A n \in S \ {x} : f[n] = g[n]
  PROVE  Total(g, S) - g[x] = Total(f, S) - f[x]
<1>1. S \ {x} \in SUBSET S /\ IsFiniteSet(S \ {x})
  BY FS_Subset
<1>2. Total(g, S \ {x}) = Total(f, S \ {x})
  BY <1>1, TotalOfSame
<1>3. Total(f, S \ {x}) \in Nat
  BY <1>1, TotalType
<1>4. /\ Total(f, S) = f[x] + Total(f, S \ {x})
      /\ Total(g, S) = g[x] + Total(g, S \ {x})
  BY TotalOfMore
<1>5. QED
  BY <1>2, <1>3, <1>4
-------------------------------------------------------------------------------
(* The inductive invariant: how the graph, the workers and the verdicts go    *)
(* together.                                                                *)

Sound == Is("failed") \cup Is("skipped") = {}
Given == {"running", "done", "failed"}

\* Nothing has begun before the loop; the loop is only entered with a sound plan,
\* and what runs is what it waits for.
Begun ==
  /\ pc \in {"plan", "planned"} => \A n \in Nodes : status[n] = "pending"
  /\ pc \in {"loop", "wait", "report", "deliver"} =>
       plan.nodes # {} /\ \A n \in plan.nodes : n \notin Needs(n)
  /\ batch = Is("running") /\ (pc # "wait" => batch = {})

\* A subtask has a worker if it was given to one, and then all it needs is done.
Matched ==
  /\ \A n \in Nodes : worker[n].pc # "none" <=> n \in plan.nodes /\ status[n] \in Given
  /\ \A n \in plan.nodes : status[n] \in Given => plan.deps[n] \subseteq Is("done")
  /\ \A n \in Is("done") : worker[n].pc = "done"

\* While the loop goes on, nothing waits for what has failed or was skipped.
Hopeful ==
  pc \in {"loop", "wait"} =>
    \A n \in Is("pending") : plan.deps[n] \cap (Is("failed") \cup Is("skipped")) = {}

Told ==
  /\ pc \in {"report", "deliver"} => AllEnded
  /\ pc \notin {"deliver", "end"} => parent = "running"
  /\ parent = "succeeded" => AllDone
  /\ pc = "deliver" /\ AllDone => parent = "succeeded"
  /\ saved = "succeeded" => pc = "end" /\ parent = "succeeded"

Parts == Begun /\ Matched /\ Hopeful /\ Told

\* What a worker may still charge, the call under way included.
Owed == [n \in Nodes |-> worker[n].share.steps - worker[n].spent.steps
                          + (IF worker[n].pc = "call" THEN 1 ELSE 0)]

\* What is charged twice is never held against the limits; and as long as nothing
\* has failed the shares that were dealt out leave the step of the report.
Frugal ==
  /\ real.steps <= used.steps /\ real.tokens <= used.tokens
  /\ \A n \in Nodes : /\ worker[n].spent.steps <= worker[n].share.steps
                      /\ worker[n].pc = "call" => n \notin plan.direct
  /\ real.steps + Held.steps <= MaxSteps /\ real.tokens + Held.tokens <= MaxTokens
  /\ Sound /\ pc = "wait" => used.steps + Total(Owed, batch \ plan.direct) < MaxSteps
  /\ Sound /\ pc \in {"loop", "report"} /\ Is("done") # {} => used.steps < MaxSteps
-------------------------------------------------------------------------------
(* What a search finds, and what a subtask needs.                             *)

LEMMA ReachedFacts ==
  ASSUME NEW start \in SUBSET Names, NEW next, \A n \in Names : next[n] \subseteq Names
  PROVE  /\ start \subseteq Reached(start, next) /\ Reached(start, next) \subseteq Names
         /\ Closed(Reached(start, next), next)
         /\ \A X \in SUBSET Names : start \subseteq X /\ Closed(X, next) => Reached(start, next) \subseteq X
<1>1. start \subseteq Reached(start, next) /\ Reached(start, next) \subseteq Names
  BY DEF Reached
<1>2. \A X \in SUBSET Names : start \subseteq X /\ Closed(X, next) => Reached(start, next) \subseteq X
  BY DEF Reached
<1>3. ASSUME NEW n \in Reached(start, next), NEW m \in next[n] PROVE m \in Reached(start, next)
  <2>1. n \in Names /\ m \in Names
    BY <1>1
  <2>2. ASSUME NEW X \in SUBSET Names, start \subseteq X, Closed(X, next) PROVE m \in X
    <3>1. n \in X
      BY <1>2, <2>2
    <3>2. QED
      BY <2>2, <3>1 DEF Closed
  <2>3. QED
    BY <2>1, <2>2 DEF Reached
<1>4. QED
  BY <1>1, <1>2, <1>3 DEF Closed

Arrows == [m \in Names |-> IF m \in plan.nodes THEN plan.deps[m] ELSE {}]

LEMMA PlanFacts ==
  ASSUME plan \in PlanSet
  PROVE  /\ plan.nodes \subseteq Nodes /\ plan.direct \subseteq Nodes /\ Nodes \subseteq Names
         /\ plan.approved \in BOOLEAN
         /\ \A n \in Nodes : plan.deps[n] \subseteq Names
         /\ \A n \in Names : Arrows[n] \subseteq Names
         /\ \A n \in Nodes : Needs(n) = Reached(plan.deps[n], Arrows)
<1>1. /\ plan.nodes \subseteq Nodes /\ plan.direct \subseteq Nodes /\ Nodes \subseteq Names
      /\ plan.approved \in BOOLEAN /\ plan.deps \in [Nodes -> SUBSET Names]
  BY DEF PlanSet, Names
<1>2. \A n \in Nodes : Needs(n) = Reached(plan.deps[n], Arrows)
  BY DEF Needs, Arrows
<1>3. \A n \in Names : Arrows[n] \subseteq Names
  BY <1>1 DEF Arrows
<1>4. QED
  BY <1>1, <1>2, <1>3

\* What a subtask needs holds its dependencies, and what they need.
LEMMA NeedsFacts ==
  ASSUME plan \in PlanSet, NEW n \in plan.nodes
  PROVE  /\ plan.deps[n] \subseteq Needs(n) /\ Needs(n) \subseteq Names
         /\ \A d \in Needs(n) \cap plan.nodes : Needs(d) \subseteq Needs(n)
         /\ \A X \in SUBSET Names :
              plan.deps[n] \subseteq X /\ (\A m \in X \cap plan.nodes : plan.deps[m] \subseteq X)
                => Needs(n) \subseteq X
<1>1. /\ n \in Nodes /\ plan.deps[n] \in SUBSET Names /\ plan.nodes \subseteq Nodes /\ plan.nodes \subseteq Names
      /\ \A m \in Names : Arrows[m] \subseteq Names
      /\ \A m \in plan.nodes : /\ plan.deps[m] \in SUBSET Names /\ Arrows[m] = plan.deps[m]
                               /\ Needs(m) = Reached(plan.deps[m], Arrows)
  BY PlanFacts DEF Arrows
<1>2. /\ plan.deps[n] \subseteq Needs(n) /\ Needs(n) \subseteq Names /\ Closed(Needs(n), Arrows)
      /\ \A X \in SUBSET Names : plan.deps[n] \subseteq X /\ Closed(X, Arrows) => Needs(n) \subseteq X
  BY <1>1, ReachedFacts
<1>3. ASSUME NEW d \in Needs(n) \cap plan.nodes PROVE Needs(d) \subseteq Needs(n)
  <2>1. \A X \in SUBSET Names : plan.deps[d] \subseteq X /\ Closed(X, Arrows) => Needs(d) \subseteq X
    BY <1>1, ReachedFacts
  <2>2. plan.deps[d] \subseteq Needs(n)
    BY <1>1, <1>2 DEF Closed
  <2>3. QED
    BY <1>2, <2>1, <2>2
<1>4. ASSUME NEW X \in SUBSET Names, plan.deps[n] \subseteq X,
             \A m \in X \cap plan.nodes : plan.deps[m] \subseteq X
      PROVE  Needs(n) \subseteq X
  <2>1. Closed(X, Arrows)
    BY <1>4 DEF Closed, Arrows
  <2>2. QED
    BY <1>2, <1>4, <2>1
<1>5. QED
  BY <1>2, <1>3, <1>4

\* In a plan without circles some subtask of every group needs none of the group.
LEMMA Acyclic ==
  ASSUME OrchestratorAssumption, plan \in PlanSet, \A n \in plan.nodes : n \notin Needs(n),
         NEW G \in SUBSET plan.nodes, G # {}
  PROVE  \E n \in G : plan.deps[n] \cap G = {}
<1> DEFINE T == {Needs(n) : n \in G}
<1>1. IsFiniteSet(Names)
  <2>1. IsFiniteSet(Nodes) /\ IsFiniteSet({Unknown})
    BY FS_Singleton DEF OrchestratorAssumption
  <2>2. QED
    BY <2>1, FS_Union DEF Names
<1>2. T \in SUBSET SUBSET Names /\ T # {}
  BY NeedsFacts
<1>3. PICK s \in T : \A t \in T : ~ (t \subseteq s /\ t # s)
  <2> HIDE DEF T
  <2>1. QED
    BY <1>1, <1>2, MinimalSet
<1>4. PICK n \in G : s = Needs(n)
  BY <1>3
<1>5. ASSUME NEW d \in plan.deps[n] \cap G PROVE FALSE
  <2>1. d \in Needs(n) /\ Needs(d) \subseteq Needs(n) /\ d \notin Needs(d)
    BY NeedsFacts
  <2>2. Needs(d) \in T /\ Needs(d) # Needs(n)
    BY <2>1
  <2> HIDE DEF T
  <2>3. QED
    BY <1>3, <1>4, <2>1, <2>2
<1>6. QED
  BY <1>5

-------------------------------------------------------------------------------
(* The variables keep their shape.                                            *)

LEMMA FiniteNodes ==
  ASSUME OrchestratorAssumption, NEW S \in SUBSET Nodes
  PROVE  IsFiniteSet(S) /\ Cardinality(S) \in Nat
<1>1. IsFiniteSet(S)
  BY FS_Subset DEF OrchestratorAssumption
<1>2. QED
  BY <1>1, FS_CardinalityType

LEMMA HeldType == ASSUME OrchestratorAssumption, TypeOK PROVE Held \in Costs
<1> DEFINE asked == [n \in Nodes |-> worker[n].asked]
<1>1. Calling \in SUBSET Nodes
  BY DEF Calling
<1>2. IsFiniteSet(Calling) /\ Cardinality(Calling) \in Nat
  BY <1>1, FiniteNodes
<1>3. \A n \in Nodes : worker[n].asked \in 0 .. CallTokens
  BY DEF TypeOK, Workers
<1>4. \A n \in Calling : asked[n] \in Nat
  BY <1>1, <1>3 DEF OrchestratorAssumption
<1>5. Total(asked, Calling) \in Nat
  <2> HIDE DEF asked
  <2>1. QED
    BY <1>2, <1>4, TotalType
<1>6. QED
  BY <1>2, <1>5 DEF Held, Cost, Costs

LEMMA LeftType == ASSUME OrchestratorAssumption, TypeOK PROVE Left \in Costs
<1>1. Held \in Costs /\ used \in Costs
  BY HeldType DEF TypeOK
<1>2. /\ Held.steps \in Nat /\ Held.tokens \in Nat /\ used.steps \in Nat /\ used.tokens \in Nat
      /\ MaxSteps \in Nat /\ MaxTokens \in Nat
  BY <1>1 DEF Costs, OrchestratorAssumption
<1>3. /\ Larger(0, MaxSteps - used.steps - Held.steps) \in Nat
      /\ Larger(0, MaxTokens - used.tokens - Held.tokens) \in Nat
  <2>1. \A a, b, c \in Nat : Larger(0, a - b - c) \in Nat
    BY DEF Larger
  <2>2. QED
    BY <1>2, <2>1
<1>4. QED
  BY <1>3 DEF Left, Cost, Costs

LEMMA PlusType == ASSUME NEW a \in Costs, NEW b \in Costs PROVE Plus(a, b) \in Costs
  BY DEF Plus, Cost, Costs

\* A subtask that is ready can be taken.
LEMMA FirstOfReady ==
  ASSUME OrchestratorAssumption, NEW R \in SUBSET Nodes, R # {}
  PROVE  First(R) \subseteq R /\ First(R) # {}
<1> DEFINE Before(n) == {m \in R : m < n}
<1> DEFINE T == {Before(n) : n \in R}
<1>1. IsFiniteSet(R) /\ Nodes \subseteq Nat
  BY FiniteNodes, FS_CardinalityType, SMTT(40) DEF OrchestratorAssumption
<1>2. PICK s \in T : \A t \in T : ~ (t \subseteq s /\ t # s)
  <2>1. T \in SUBSET SUBSET R
    OBVIOUS
  <2>2. PICK x \in R : TRUE
    OBVIOUS
  <2>3. T # {}
    BY <2>2
  <2>4. IsFiniteSet(R)
    BY <1>1
  <2> HIDE DEF T
  <2>5. QED
    BY <2>1, <2>3, <2>4, MinimalSet
<1>3. PICK n \in R : s = Before(n)
  BY <1>2
<1>4. ASSUME NEW m \in Before(n) PROVE FALSE
  <2>1. m \in R /\ m \in Nat /\ n \in Nat /\ m < n
    BY <1>1
  <2>2. \A k \in Before(m) : k \in Before(n)
    BY <1>1, <2>1
  <2>3. m \in Before(n) /\ m \notin Before(m)
    BY <2>1
  <2>4. Before(m) \in T
    BY <2>1
  <2> HIDE DEF T, Before
  <2>5. QED
    BY <1>2, <1>3, <2>2, <2>3, <2>4
<1>5. Cardinality({m \in R : m < n}) = 0
  BY <1>4, FS_EmptySet
<1>6. n \in First(R)
  BY <1>5 DEF First, OrchestratorAssumption
<1>7. QED
  BY <1>6 DEF First

LEMMA ShareType ==
  ASSUME OrchestratorAssumption, TypeOK, Ready # {}
  PROVE  /\ ShareNow \in Costs
         /\ ShareNow = Share(IF Pending > 0 THEN Pending ELSE Cardinality(First(Ready)))
         /\ Pending \in Nat /\ Cardinality(First(Ready)) \in Nat \ {0}
<1>1. plan.nodes \subseteq Nodes
  BY PlanFacts DEF TypeOK
<1>2. Is("pending") \ plan.direct \in SUBSET Nodes /\ Ready \in SUBSET Nodes
  BY <1>1 DEF Is, Ready
<1>3. Pending \in Nat
  BY <1>2, FiniteNodes DEF Pending
<1>4. First(Ready) \in SUBSET Nodes /\ First(Ready) # {}
  BY <1>2, FirstOfReady
<1>5. IsFiniteSet(First(Ready)) /\ Cardinality(First(Ready)) \in Nat
  BY <1>4, FiniteNodes
<1>6. Cardinality(First(Ready)) # 0
  BY <1>4, <1>5, FS_EmptySet
<1>7. PICK count \in Nat \ {0} : ShareNow = Share(count)
  <2>1. CASE Pending > 0
    BY <1>3, <2>1 DEF ShareNow
  <2>2. CASE ~ (Pending > 0)
    BY <1>5, <1>6, <2>2 DEF ShareNow
  <2>3. QED
    BY <2>1, <2>2
<1>8. Left.steps \in Nat /\ Left.tokens \in Nat /\ FinalReserve \in Nat
  BY LeftType DEF Costs, OrchestratorAssumption
<1>9. Larger(0, Left.steps - 1) \in Nat /\ Larger(0, Left.tokens - FinalReserve) \in Nat
  <2>1. \A a, b \in Nat : Larger(0, a - b) \in Nat
    BY DEF Larger
  <2>2. QED
    BY <1>8, <2>1
<1>10. \A x \in Nat, k \in Nat \ {0} : x \div k \in Nat
  OBVIOUS
<1>11. Share(count) \in Costs
  BY <1>9, <1>10 DEF Share, Cost, Costs
<1>12. QED
  BY <1>3, <1>5, <1>6, <1>7, <1>11 DEF ShareNow

(* What a step makes of a worker, and of the budget. *)
Becomes(n, w) ==
  /\ w \in Workers /\ worker' = [worker EXCEPT ![n] = w] /\ Alone
  /\ worker[n].pc \in {"queued", "run", "call"} /\ w.pc \notin {"none", "queued"}
  /\ worker[n].pc = "queued" => Cardinality(Busy) < Threads
  /\ w.share = worker[n].share
Quietly(n, w) ==
  /\ worker[n].pc # "call" /\ w.pc # "call" /\ UNCHANGED <<used, real>>
  /\ w.spent.steps >= worker[n].spent.steps
  /\ worker[n].spent.steps <= w.share.steps => w.spent.steps <= w.share.steps
Asks(n, w) ==
  /\ worker[n].pc = "run" /\ w.pc = "call" /\ UNCHANGED <<used, real>>
  /\ n \notin plan.direct /\ w.spent.steps = worker[n].spent.steps + 1
  /\ w.spent.steps <= w.share.steps /\ Admitted(w.asked)
Answered(n, w) ==
  /\ worker[n].pc = "call" /\ w.pc # "call" /\ w.spent.steps = worker[n].spent.steps
  /\ \E tokens \in 0 .. worker[n].asked : Charge(Cost(1, tokens))

LEMMA WorkerFields ==
  ASSUME NEW v \in Workers
  PROVE  /\ v.pc \in WorkerPcs /\ v.share \in Costs /\ v.spent \in Costs
         /\ v.asked \in 0 .. CallTokens /\ v.backups \in 0 .. Fallbacks
         /\ v.spent.steps \in Nat /\ v.spent.tokens \in Nat
         /\ v.share.steps \in Nat /\ v.share.tokens \in Nat
  BY DEF Workers, Costs

LEMMA WorkerSteps ==
  ASSUME NEW v \in Workers
  PROVE  [v EXCEPT !.spent.steps = @ + 1] =
           [v EXCEPT !.spent = [steps |-> v.spent.steps + 1, tokens |-> v.spent.tokens]]
<1>1. [v.spent EXCEPT !.steps = v.spent.steps + 1]
        = [steps |-> v.spent.steps + 1, tokens |-> v.spent.tokens]
  BY DEF Workers, Costs
<1>2. QED
  BY <1>1, Zenon

LEMMA WorkerTokens ==
  ASSUME NEW v \in Workers, NEW tokens \in Nat
  PROVE  [v EXCEPT !.asked = 0, !.spent.tokens = @ + tokens] =
           [v EXCEPT !.asked = 0, !.spent = [steps |-> v.spent.steps, tokens |-> v.spent.tokens + tokens]]
<1>1. [v.spent EXCEPT !.tokens = v.spent.tokens + tokens]
        = [steps |-> v.spent.steps, tokens |-> v.spent.tokens + tokens]
  BY DEF Workers, Costs
<1>2. QED
  BY <1>1, Zenon

LEMMA WorkIs ==
  ASSUME OrchestratorAssumption, TypeOK, NEW n \in Nodes, Work(n), ~ Log(n)
  PROVE  \E w : Becomes(n, w) /\ (Quietly(n, w) \/ Asks(n, w) \/ Answered(n, w))
<1> DEFINE v == worker[n]
           Fine(w) == Becomes(n, w) /\ (Quietly(n, w) \/ Asks(n, w) \/ Answered(n, w))
<1> USE DEF Set, Alone
<1>1. v \in Workers
  BY DEF TypeOK
<1>2. /\ v.pc \in WorkerPcs /\ v.share \in Costs /\ v.spent \in Costs
      /\ v.asked \in 0 .. CallTokens /\ v.backups \in 0 .. Fallbacks
      /\ v.spent.steps \in Nat /\ v.spent.tokens \in Nat
      /\ v.share.steps \in Nat /\ v.share.tokens \in Nat
  BY <1>1, WorkerFields
<1>3. \A pc1 \in WorkerPcs : LET w == [v EXCEPT !.pc = pc1]
                             IN  w \in Workers /\ w.pc = pc1 /\ w.share = v.share /\ w.spent = v.spent
  BY <1>1 DEF Workers
<1>4. v.spent.steps >= v.spent.steps
  <2>1. \A a \in Nat : a >= a
    OBVIOUS
  <2>2. QED
    BY <1>2, <2>1
<1>5. CASE Start(n)
  <2> DEFINE w == [v EXCEPT !.pc = "run"]
  <2>1. w \in Workers /\ w.pc = "run" /\ w.share = v.share /\ w.spent = v.spent
    BY <1>3 DEF WorkerPcs
  <2>2. /\ v.pc = "queued" /\ Cardinality(Busy) < Threads
        /\ worker' = [worker EXCEPT ![n] = w] /\ Alone /\ UNCHANGED <<used, real>>
    BY <1>5 DEF Start
  <2> HIDE DEF w
  <2>3. Becomes(n, w) /\ Quietly(n, w)
    BY <1>4, <2>1, <2>2 DEF Becomes, Quietly
  <2>4. QED
    BY <2>3
<1>6. CASE RunTool(n)
  <2>1. PICK result \in {"done", "failed"} :
          worker' = [worker EXCEPT ![n] = [v EXCEPT !.pc = result]]
    BY <1>6 DEF RunTool
  <2> DEFINE w == [v EXCEPT !.pc = result]
  <2>2. /\ w \in Workers /\ w.pc \in {"done", "failed"} /\ w.share = v.share /\ w.spent = v.spent
    BY <1>3, <2>1 DEF WorkerPcs
  <2>3. v.pc = "run" /\ worker' = [worker EXCEPT ![n] = w] /\ Alone /\ UNCHANGED <<used, real>>
    BY <1>6, <2>1 DEF RunTool
  <2> HIDE DEF w
  <2>4. Becomes(n, w) /\ Quietly(n, w)
    BY <1>4, <2>2, <2>3 DEF Becomes, Quietly
  <2>5. QED
    BY <2>4
<1>7. CASE Stopped(n)
  <2> DEFINE w == [v EXCEPT !.pc = "failed"]
  <2>1. w \in Workers /\ w.pc = "failed" /\ w.share = v.share /\ w.spent = v.spent
    BY <1>3 DEF WorkerPcs
  <2>2. v.pc = "run" /\ worker' = [worker EXCEPT ![n] = w] /\ Alone /\ UNCHANGED <<used, real>>
    BY <1>7 DEF Stopped
  <2> HIDE DEF w
  <2>3. Becomes(n, w) /\ Quietly(n, w)
    BY <1>4, <2>1, <2>2 DEF Becomes, Quietly
  <2>4. QED
    BY <2>3
<1>8. CASE Call(n)
  <2> DEFINE u == [v EXCEPT !.spent = [steps |-> v.spent.steps + 1, tokens |-> v.spent.tokens]]
  <2>1. [v EXCEPT !.spent.steps = @ + 1] = u
    BY <1>1, WorkerSteps
  <2>2. PICK tokens \in 1 .. CallTokens :
          worker' = [worker EXCEPT ![n] =
            IF Admitted(tokens) THEN [u EXCEPT !.pc = "call", !.asked = tokens]
            ELSE [u EXCEPT !.pc = "failed"]]
    BY <1>8, <2>1, Zenon DEF Call
  <2>3. /\ v.pc = "run" /\ n \notin plan.direct /\ v.spent.steps < v.share.steps
        /\ Alone /\ UNCHANGED <<used, real>>
    BY <1>8 DEF Call, HasLeft
  <2>4. /\ v.spent.steps + 1 \in Nat /\ v.spent.steps + 1 <= v.share.steps
        /\ v.spent.steps + 1 >= v.spent.steps /\ tokens \in 0 .. CallTokens
    <3>1. \A a, b \in Nat : a < b => a + 1 \in Nat /\ a + 1 <= b /\ a + 1 >= a
      OBVIOUS
    <3>2. tokens \in 0 .. CallTokens
      BY <2>2 DEF OrchestratorAssumption
    <3>3. QED
      BY <1>2, <2>3, <3>1, <3>2
  <2>5. /\ u \in Workers /\ u.spent.steps = v.spent.steps + 1 /\ u.share = v.share
    <3>1. [steps |-> v.spent.steps + 1, tokens |-> v.spent.tokens] \in Costs
      BY <1>2, <2>4 DEF Costs
    <3>2. QED
      BY <1>1, <3>1 DEF Workers
  <2> HIDE DEF u
  <2>6. CASE Admitted(tokens)
    <3> DEFINE w == [u EXCEPT !.pc = "call", !.asked = tokens]
    <3>1. w \in Workers /\ w.pc = "call" /\ w.asked = tokens /\ w.share = u.share /\ w.spent = u.spent
      BY <2>4, <2>5 DEF Workers, WorkerPcs
    <3>2. worker' = [worker EXCEPT ![n] = w]
      BY <2>2, <2>6
    <3> HIDE DEF w
    <3>3. Becomes(n, w) /\ Asks(n, w)
      BY <2>3, <2>4, <2>5, <2>6, <3>1, <3>2 DEF Becomes, Asks
    <3>4. QED
      BY <3>3
  <2>7. CASE ~ Admitted(tokens)
    <3> DEFINE w == [u EXCEPT !.pc = "failed"]
    <3>1. w \in Workers /\ w.pc = "failed" /\ w.share = u.share /\ w.spent = u.spent
      BY <2>5 DEF Workers, WorkerPcs
    <3>2. worker' = [worker EXCEPT ![n] = w]
      BY <2>2, <2>7
    <3> HIDE DEF w
    <3>3. w.spent.steps >= v.spent.steps /\ w.spent.steps <= w.share.steps
      BY <2>4, <2>5, <3>1
    <3>4. Becomes(n, w) /\ Quietly(n, w)
      BY <2>3, <2>5, <3>1, <3>2, <3>3 DEF Becomes, Quietly
    <3>5. QED
      BY <3>4
  <2>8. QED
    BY <2>6, <2>7
<1>9. CASE Return(n)
  <2>1. PICK tokens \in 1 .. v.asked :
          /\ Charge(Cost(1, tokens))
          /\ LET w == [v EXCEPT !.asked = 0, !.spent.tokens = @ + tokens]
             IN  \E next \in {"run", "done", "failed"} :
                   /\ next = "run" => w.spent.steps < w.share.steps
                   /\ Set(n, [w EXCEPT !.pc = IF w.spent.tokens < w.share.tokens THEN next
                                              ELSE "failed"])
    BY <1>9 DEF Return
  <2>2. tokens \in Nat /\ tokens \in 0 .. v.asked
    BY <1>2, <2>1, SMTT(40) DEF OrchestratorAssumption
  <2> DEFINE u == [v EXCEPT !.asked = 0, !.spent = [steps |-> v.spent.steps,
                                                   tokens |-> v.spent.tokens + tokens]]
  <2>3. [v EXCEPT !.asked = 0, !.spent.tokens = @ + tokens] = u
    BY <1>1, <2>2, WorkerTokens
  <2>4. PICK next \in {"run", "done", "failed"} : worker' = [worker EXCEPT ![n] = [u EXCEPT !.pc = next]]
    <3> HIDE DEF u
    <3>1. PICK next \in {"run", "done", "failed"} :
            Set(n, [u EXCEPT !.pc = IF u.spent.tokens < u.share.tokens THEN next ELSE "failed"])
      BY <2>1, <2>3, Zenon
    <3>2. (IF u.spent.tokens < u.share.tokens THEN next ELSE "failed") \in {"run", "done", "failed"}
      BY <3>1, Zenon
    <3>3. QED
      BY <3>1, <3>2, Zenon DEF Set
  <2>5. u \in Workers /\ u.spent.steps = v.spent.steps /\ u.share = v.share
    <3>1. [steps |-> v.spent.steps, tokens |-> v.spent.tokens + tokens] \in Costs
      <4>1. \A a, b \in Nat : a + b \in Nat
        OBVIOUS
      <4>2. v.spent.tokens + tokens \in Nat
        BY <1>2, <2>2, <4>1
      <4>3. QED
        BY <1>2, <4>2 DEF Costs
    <3>2. 0 \in 0 .. CallTokens
      BY DEF OrchestratorAssumption
    <3>3. QED
      BY <1>1, <3>1, <3>2 DEF Workers
  <2> HIDE DEF u
  <2> DEFINE w == [u EXCEPT !.pc = next]
  <2>6. w \in Workers /\ w.pc \in {"run", "done", "failed"} /\ w.share = u.share /\ w.spent = u.spent
    BY <2>4, <2>5 DEF Workers, WorkerPcs
  <2>7. v.pc = "call" /\ worker' = [worker EXCEPT ![n] = w] /\ Alone
    BY <1>9, <2>4 DEF Return
  <2> HIDE DEF w
  <2>8. Becomes(n, w)
    BY <2>5, <2>6, <2>7 DEF Becomes
  <2>9. Answered(n, w)
    BY <2>1, <2>2, <2>5, <2>6, <2>7 DEF Answered
  <2>10. QED
    BY <2>8, <2>9
<1>10. CASE ModelFails(n)
  <2> DEFINE u == [v EXCEPT !.asked = 0]
             w == IF u.backups > 0 /\ HasLeft(u) THEN [u EXCEPT !.pc = "run", !.backups = u.backups - 1]
                  ELSE [u EXCEPT !.pc = "failed"]
  <2>1. worker' = [worker EXCEPT ![n] = w] /\ Alone
    BY <1>10 DEF ModelFails
  <2>2. u \in Workers /\ u.share = v.share /\ u.spent = v.spent /\ u.backups \in 0 .. Fallbacks
    <3>1. 0 \in 0 .. CallTokens
      BY DEF OrchestratorAssumption
    <3>2. QED
      BY <1>1, <3>1 DEF Workers
  <2> HIDE DEF u
  <2>3. w \in Workers /\ w.pc \in {"run", "failed"} /\ w.share = u.share /\ w.spent = u.spent
    <3>1. CASE u.backups > 0 /\ HasLeft(u)
      <4>1. u.backups - 1 \in 0 .. Fallbacks
        BY <2>2, <3>1 DEF OrchestratorAssumption
      <4>2. w = [u EXCEPT !.pc = "run", !.backups = u.backups - 1]
        BY <3>1
      <4> HIDE DEF w
      <4>3. QED
        BY <2>2, <4>1, <4>2 DEF Workers, WorkerPcs
    <3>2. CASE ~ (u.backups > 0 /\ HasLeft(u))
      <4>1. w = [u EXCEPT !.pc = "failed"]
        BY <3>2
      <4> HIDE DEF w
      <4>2. QED
        BY <2>2, <4>1 DEF Workers, WorkerPcs
    <3>3. QED
      BY <3>1, <3>2
  <2> HIDE DEF w
  <2>4. CASE v.pc = "run" /\ UNCHANGED <<used, real>>
    <3>1. Becomes(n, w) /\ Quietly(n, w)
      BY <1>4, <2>1, <2>2, <2>3, <2>4 DEF Becomes, Quietly
    <3>2. QED
      BY <3>1
  <2>5. CASE v.pc = "call" /\ Charge(Cost(1, v.asked))
    <3>1. v.asked \in 0 .. v.asked
      BY <1>2, SMTT(40) DEF OrchestratorAssumption
    <3>2. Becomes(n, w)
      BY <2>1, <2>2, <2>3, <2>5 DEF Becomes
    <3>3. Answered(n, w)
      BY <2>2, <2>3, <2>5, <3>1 DEF Answered
    <3>4. QED
      BY <3>2, <3>3
  <2>6. QED
    BY <1>10, <2>4, <2>5 DEF ModelFails
<1>11. QED
  BY <1>5, <1>6, <1>7, <1>8, <1>9, <1>10 DEF Work

\* A thread is needed to run, and there are no more than Threads of them.
LEMMA BusyStep ==
  ASSUME OrchestratorAssumption, TypeOK, NEW n \in Nodes, NEW w, Becomes(n, w)
  PROVE  Cardinality(Busy') <= Threads
<1>1. worker \in [Nodes -> Workers] /\ Cardinality(Busy) <= Threads /\ Threads \in Nat
  BY DEF TypeOK, OrchestratorAssumption
<1>2. Busy \in SUBSET Nodes
  BY DEF Busy
<1>3. IsFiniteSet(Busy) /\ Cardinality(Busy) \in Nat
  BY <1>2, FiniteNodes
<1>4. worker'[n] = w /\ \A m \in Nodes \ {n} : worker'[m] = worker[m]
  BY <1>1 DEF Becomes
<1>5. Busy' \subseteq Busy \cup {n}
  BY <1>4 DEF Busy
<1>6. CASE worker[n].pc = "queued"
  <2>1. Cardinality(Busy) < Threads
    BY <1>6 DEF Becomes
  <2>2. IsFiniteSet(Busy \cup {n}) /\ Cardinality(Busy \cup {n}) <= Cardinality(Busy) + 1
    <3>1. /\ IsFiniteSet(Busy \cup {n})
          /\ Cardinality(Busy \cup {n}) = IF n \in Busy THEN Cardinality(Busy) ELSE Cardinality(Busy) + 1
      BY <1>3, FS_AddElement, Zenon
    <3>2. QED
      BY <1>3, <3>1
  <2> DEFINE more == Busy \cup {n}
  <2>3. Cardinality(Busy') <= Cardinality(Busy \cup {n})
    <3>1. Busy' \in SUBSET more /\ IsFiniteSet(more)
      BY <1>5, <2>2
    <3> HIDE DEF more
    <3>2. Cardinality(Busy') <= Cardinality(more)
      BY <3>1, FS_Subset
    <3>3. QED
      BY <3>2 DEF more
  <2>4. Busy' \in SUBSET Nodes
    BY DEF Busy
  <2>5. Cardinality(Busy') \in Nat /\ Cardinality(Busy \cup {n}) \in Nat
    BY <2>2, <2>4, FiniteNodes, FS_CardinalityType
  <2>6. QED
    BY <1>1, <1>3, <2>1, <2>2, <2>3, <2>5
<1>7. CASE worker[n].pc # "queued"
  <2>1. n \in Busy
    BY <1>7 DEF Becomes, Busy
  <2>2. Busy' \in SUBSET Busy
    BY <1>5, <2>1
  <2>3. Cardinality(Busy') <= Cardinality(Busy)
    BY <1>3, <2>2, FS_Subset
  <2>4. Cardinality(Busy') \in Nat
    BY <1>3, <2>2, FS_Subset, FS_CardinalityType
  <2>5. QED
    BY <1>1, <1>3, <2>3, <2>4
<1>8. QED
  BY <1>6, <1>7

LEMMA ChargeType ==
  ASSUME TypeOK, NEW c \in Costs, Charge(c) PROVE used' \in Costs /\ real' \in Costs
  BY PlusType DEF TypeOK, Charge

LEMMA WorkType ==
  ASSUME OrchestratorAssumption, TypeOK, NEW n \in Nodes, Work(n) PROVE TypeOK'
<1>1. CASE Log(n)
  <2>1. /\ UNCHANGED <<plan, pc, status, batch, worker, used, real, parent>>
        /\ saved' \in {"running", "summarizing", "delivering", "done"}
    BY <1>1 DEF Log
  <2>2. Busy' = Busy
    BY <2>1 DEF Busy
  <2>3. QED
    BY <2>1, <2>2 DEF TypeOK
<1>2. CASE ~ Log(n)
  <2>1. PICK w : Becomes(n, w) /\ (Quietly(n, w) \/ Asks(n, w) \/ Answered(n, w))
    BY <1>2, WorkIs
  <2>2. Cardinality(Busy') <= Threads
    BY <2>1, BusyStep
  <2>3. w \in Workers /\ worker' = [worker EXCEPT ![n] = w] /\ Alone
    BY <2>1 DEF Becomes
  <2>4. worker' \in [Nodes -> Workers]
    BY <2>3 DEF TypeOK
  <2>5. used' \in Costs /\ real' \in Costs
    <3>1. CASE Quietly(n, w) \/ Asks(n, w)
      BY <3>1 DEF Quietly, Asks, TypeOK
    <3>2. CASE Answered(n, w)
      <4>1. PICK tokens \in 0 .. worker[n].asked : Charge(Cost(1, tokens))
        BY <3>2 DEF Answered
      <4>2. worker[n].asked \in 0 .. CallTokens
        BY WorkerFields DEF TypeOK
      <4>3. tokens \in Nat
        BY <4>1, <4>2 DEF OrchestratorAssumption
      <4>4. Cost(1, tokens) \in Costs
        BY <4>3 DEF Cost, Costs
      <4>5. QED
        BY <4>1, <4>4, ChargeType
    <3>3. QED
      BY <2>1, <3>1, <3>2
  <2>6. QED
    BY <2>2, <2>3, <2>4, <2>5 DEF TypeOK, Alone
<1>3. QED
  BY <1>1, <1>2

LEMMA CallType ==
  ASSUME OrchestratorAssumption, NEW tokens \in 1 .. CallTokens PROVE Cost(1, tokens) \in Costs
  BY DEF Cost, Costs, OrchestratorAssumption

LEMMA MainType == ASSUME OrchestratorAssumption, TypeOK, Main PROVE TypeOK'
<1>1. /\ status \in [Nodes -> Statuses] /\ plan \in PlanSet /\ worker \in [Nodes -> Workers]
      /\ batch \subseteq Nodes /\ used \in Costs /\ real \in Costs /\ Cardinality(Busy) <= Threads
  BY DEF TypeOK
<1>2. worker' = worker => Cardinality(Busy') <= Threads
  <2>1. worker' = worker => Busy' = Busy
    BY DEF Busy
  <2>2. QED
    BY <1>1, <2>1
<1>3. CASE PlanFails \/ Reject \/ Accept \/ Raise \/ LeaveLoop \/ Deliver
  <2>1. /\ UNCHANGED <<plan, status, batch, worker, used, real>>
        /\ pc' \in {"loop", "report", "end"} /\ parent' \in {parent, "failed"}
        /\ saved' \in {saved, "running", "failed", "succeeded", "partial"}
    BY <1>3 DEF PlanFails, Reject, Accept, Raise, LeaveLoop, Deliver, Give, Verdict
  <2>2. QED
    BY <1>2, <2>1 DEF TypeOK
<1>4. CASE Plan
  <2>1. /\ pc' = "planned" /\ UNCHANGED <<status, batch, worker, parent, saved>>
        /\ plan' \in {plan, Simple}
    BY <1>4 DEF Plan
  <2>2. Simple \in PlanSet
    <3>1. 1 \in Nodes
      <4>1. Nodes = 1 .. Cardinality(Nodes) /\ Cardinality(Nodes) \in Nat /\ Nodes # {}
        BY FiniteNodes DEF OrchestratorAssumption
      <4>2. \A k \in Nat : 1 .. k # {} => 1 \in 1 .. k
        OBVIOUS
      <4>3. QED
        BY <4>1, <4>2
    <3>2. QED
      BY <1>1, <3>1 DEF Simple, PlanSet
  <2>3. used' \in Costs /\ real' \in Costs
    <3>1. CASE UNCHANGED <<used, real>>
      BY <1>1, <3>1
    <3>2. CASE \E tokens \in 1 .. CallTokens : Charge(Cost(1, tokens))
      BY <3>2, CallType, ChargeType
    <3>3. QED
      BY <1>4, <3>1, <3>2 DEF Plan
  <2>4. QED
    BY <1>1, <1>2, <2>1, <2>2, <2>3 DEF TypeOK
<1>5. CASE Deadline \/ Exhausted \/ TooLittle
  <2>1. PICK nodes : Skipping(nodes)
    BY <1>5 DEF Deadline, Exhausted, TooLittle
  <2>2. status' \in [Nodes -> Statuses]
    BY <1>1, <2>1 DEF Skipping, Statuses
  <2>3. pc' = "report" /\ UNCHANGED <<plan, batch, worker, used, real, parent, saved>>
    BY <1>5 DEF Deadline, Exhausted, TooLittle
  <2>4. QED
    BY <1>2, <2>2, <2>3 DEF TypeOK
<1>6. CASE Dispatch
  <2> DEFINE w == [NoWorker EXCEPT !.pc = "queued", !.share = ShareNow, !.backups = Fallbacks]
  <2>1. /\ batch' = First(Ready) /\ Ready # {}
        /\ status' = [n \in Nodes |-> IF n \in batch' THEN "running" ELSE status[n]]
        /\ worker' = [n \in Nodes |-> IF n \in batch' THEN w ELSE worker[n]]
        /\ pc' = "wait" /\ saved' = "running"
        /\ UNCHANGED <<plan, used, real, parent>>
    BY <1>6 DEF Dispatch, Scheduling
  <2>2. w \in Workers /\ w.pc = "queued"
    <3>1. ShareNow \in Costs
      BY <2>1, ShareType
    <3>2. NoWorker \in Workers
      BY DEF NoWorker, Workers, WorkerPcs, Cost, Costs, OrchestratorAssumption
    <3>3. Fallbacks \in 0 .. Fallbacks
      BY DEF OrchestratorAssumption
    <3> HIDE DEF NoWorker, ShareNow
    <3>4. QED
      BY <3>1, <3>2, <3>3 DEF Workers, WorkerPcs
  <2> HIDE DEF w
  <2>3. batch' \subseteq Nodes
    BY <2>1, PlanFacts, <1>1 DEF First, Ready, Is
  <2>4. status' \in [Nodes -> Statuses] /\ worker' \in [Nodes -> Workers]
    BY <1>1, <2>1, <2>2 DEF Statuses
  <2>5. Busy' \in SUBSET Busy
    BY <2>1, <2>2 DEF Busy
  <2>6. Cardinality(Busy') <= Threads
    <3>1. Busy \in SUBSET Nodes
      BY DEF Busy
    <3>2. /\ IsFiniteSet(Busy) /\ Cardinality(Busy) \in Nat /\ Cardinality(Busy') \in Nat
      BY <2>5, <3>1, FiniteNodes
    <3>3. Cardinality(Busy') <= Cardinality(Busy)
      BY <2>5, <3>2, FS_Subset
    <3>4. QED
      BY <1>1, <3>2, <3>3 DEF OrchestratorAssumption
  <2>7. QED
    BY <1>1, <2>1, <2>3, <2>4, <2>6 DEF TypeOK
<1>7. CASE Collect
  <2> DEFINE late == batch \ Finished
             steps == [n \in Nodes |-> worker[n].spent.steps]
             tokens == [n \in Nodes |-> worker[n].spent.tokens]
  <2>1. /\ used' = Plus(used, Cost(Total(steps, late), Total(tokens, late)))
        /\ batch' = {} /\ pc' = "loop" /\ saved' = "running"
        /\ UNCHANGED <<plan, worker, real, parent>>
    BY <1>7 DEF Collect
  <2>2. status' \in [Nodes -> Statuses]
    BY <1>1, <1>7 DEF Collect, Statuses
  <2>3. late \in SUBSET Nodes
    BY <1>1
  <2>4. \A n \in late : steps[n] \in Nat /\ tokens[n] \in Nat
    BY <1>1, <2>3, WorkerFields
  <2> HIDE DEF late, steps, tokens
  <2>5. Total(steps, late) \in Nat /\ Total(tokens, late) \in Nat
    BY <2>3, <2>4, FiniteNodes, TotalType
  <2>6. Cost(Total(steps, late), Total(tokens, late)) \in Costs
    BY <2>5 DEF Cost, Costs
  <2>7. used' \in Costs
    BY <1>1, <2>1, <2>6, PlusType
  <2>8. QED
    BY <1>1, <1>2, <2>1, <2>2, <2>7 DEF TypeOK
<1>8. CASE Report
  <2>1. /\ pc' = "deliver" /\ UNCHANGED <<plan, status, batch, worker>>
        /\ parent' \in {"succeeded", "failed"} /\ saved' \in {"running", "done", "delivering"}
    BY <1>8 DEF Report
  <2>2. used' \in Costs /\ real' \in Costs
    BY <1>1, <1>8, CallType, ChargeType DEF Report
  <2>3. QED
    BY <1>2, <2>1, <2>2 DEF TypeOK
<1>9. QED
  BY <1>3, <1>4, <1>5, <1>6, <1>7, <1>8 DEF Main

LEMMA InitType == ASSUME OrchestratorAssumption, Init PROVE TypeOK
<1>1. plan \in PlanSet /\ NoWorker \in Workers /\ Cost(0, 0) \in Costs
  BY DEF Init, OrchestratorAssumption, NoWorker, Workers, WorkerPcs, Cost, Costs
<1>2. Cardinality(Busy) <= Threads
  <2>1. Busy = {}
    BY DEF Init, Busy, NoWorker
  <2>2. QED
    BY <2>1, FS_EmptySet DEF OrchestratorAssumption
<1>3. QED
  BY <1>1, <1>2 DEF Init, TypeOK, Statuses

LEMMA StepType == ASSUME OrchestratorAssumption, TypeOK, [Next]_vars PROVE TypeOK'
<1>1. CASE UNCHANGED vars
  <2>1. Busy' = Busy
    BY <1>1 DEF vars, Busy
  <2>2. QED
    BY <1>1, <2>1 DEF vars, TypeOK
<1>2. QED
  BY <1>1, MainType, WorkType DEF Next

\* The variables keep their shape, and no more workers run at a time than the
\* executor has threads, for any number of subtasks, threads and models.
THEOREM TypeCorrect == ASSUME OrchestratorAssumption PROVE Spec => []TypeOK
<1>1. Init => TypeOK
  BY InitType
<1>2. TypeOK /\ [Next]_vars => TypeOK'
  BY StepType
<1>3. QED
  BY <1>1, <1>2, PTL DEF Spec

-------------------------------------------------------------------------------
(* The graph, the workers and the verdicts.                                   *)

LEMMA SameGraph ==
  ASSUME Parts, UNCHANGED <<plan, pc, status, batch, parent>>, saved' # "succeeded" \/ saved' = saved,
         \A n \in Nodes : /\ worker[n].pc = "none" <=> worker'[n].pc = "none"
                          /\ worker[n].pc = "done" => worker'[n].pc = "done",
         plan.nodes \subseteq Nodes
  PROVE  Parts'
<1>1. /\ \A s : Is(s)' = Is(s)
      /\ \A n : Needs(n)' = Needs(n)
      /\ AllDone' = AllDone /\ AllEnded' = AllEnded
  BY DEF Is, Needs, AllDone, AllEnded
<1>2. Begun' /\ Hopeful'
  BY <1>1 DEF Parts, Begun, Hopeful
<1>3. Matched'
  <2>1. Is("done") \subseteq Nodes
    BY DEF Is
  <2>2. QED
    BY <1>1, <2>1 DEF Parts, Matched
<1>4. Told'
  BY <1>1 DEF Parts, Told
<1>5. QED
  BY <1>2, <1>3, <1>4 DEF Parts

LEMMA WorkParts ==
  ASSUME OrchestratorAssumption, TypeOK, Parts, NEW n \in Nodes, Work(n) PROVE Parts'
<1>1. plan.nodes \subseteq Nodes
  BY PlanFacts DEF TypeOK
<1>2. CASE Log(n)
  <2>1. /\ UNCHANGED <<plan, pc, status, batch, worker, parent>>
        /\ saved' \in {"running", "summarizing", "delivering", "done"}
    BY <1>2 DEF Log
  <2>2. QED
    BY <1>1, <2>1, SameGraph
<1>3. CASE ~ Log(n)
  <2>1. PICK w : Becomes(n, w)
    BY <1>3, WorkIs
  <2>2. /\ worker' = [worker EXCEPT ![n] = w] /\ UNCHANGED <<plan, pc, status, batch, parent, saved>>
        /\ worker[n].pc \notin {"none", "done"} /\ w.pc # "none"
    BY <2>1 DEF Becomes, Alone
  <2>3. \A m \in Nodes : /\ worker[m].pc = "none" <=> worker'[m].pc = "none"
                         /\ worker[m].pc = "done" => worker'[m].pc = "done"
    BY <2>2 DEF TypeOK
  <2>4. QED
    BY <1>1, <2>2, <2>3, SameGraph
<1>4. QED
  BY <1>2, <1>3

\* Before the loop nothing has begun.
LEMMA PlanParts ==
  ASSUME TypeOK, TypeOK', Parts, Plan \/ PlanFails \/ Reject \/ Accept PROVE Parts'
<1>1. /\ pc \in {"plan", "planned"} /\ UNCHANGED <<status, batch, worker>>
      /\ \A n \in Nodes : status[n] = "pending"
  BY DEF Plan, PlanFails, Reject, Accept, Parts, Begun
<1>2. plan.nodes \subseteq Nodes /\ plan'.nodes \subseteq Nodes
  BY PlanFacts DEF TypeOK, PlanSet
<1>3. batch = {} /\ parent = "running" /\ saved # "succeeded"
  BY <1>1 DEF Parts, Begun, Told
<1>4. \A s : s # "pending" => Is(s) = {} /\ Is(s)' = {}
  BY <1>1, <1>2 DEF Is
<1>5. \A n \in Nodes : worker[n].pc = "none"
  BY <1>1 DEF Parts, Matched, Given
<1>6. Matched'
  BY <1>1, <1>2, <1>4, <1>5 DEF Matched, Given
<1>7. Hopeful'
  BY <1>4 DEF Hopeful
<1>8. CASE Plan
  <2>1. pc = "plan" /\ pc' = "planned" /\ UNCHANGED <<parent, saved>>
    BY <1>8 DEF Plan
  <2>2. Begun' /\ Told'
    BY <1>1, <1>3, <1>4, <2>1 DEF Begun, Told
  <2>3. QED
    BY <1>6, <1>7, <2>2 DEF Parts
<1>9. CASE Accept
  <2>1. /\ pc' = "loop" /\ saved' = "running" /\ UNCHANGED <<plan, parent>>
        /\ plan.nodes # {} /\ \A n \in plan.nodes : n \notin Needs(n)
    BY <1>9 DEF Accept, Rejected, Valid
  <2>2. Begun'
    BY <1>1, <1>3, <1>4, <2>1 DEF Begun, Needs
  <2>3. Told'
    BY <1>1, <1>3, <1>4, <2>1 DEF Told
  <2>4. QED
    BY <1>6, <1>7, <2>2, <2>3 DEF Parts
<1>10. CASE PlanFails \/ Reject
  <2>1. pc' = "end" /\ parent' = "failed" /\ saved' \in {saved, "failed"}
    BY <1>10 DEF PlanFails, Reject, Give
  <2>2. Begun' /\ Told'
    BY <1>1, <1>3, <1>4, <2>1 DEF Begun, Told
  <2>3. QED
    BY <1>6, <1>7, <2>2 DEF Parts
<1>11. QED
  BY <1>8, <1>9, <1>10

LEMMA RaiseParts == ASSUME TypeOK, Parts, Raise PROVE Parts'
<1>1. /\ pc = "loop" /\ pc' = "end" /\ parent' = "failed" /\ saved' \in {saved, "failed"}
      /\ UNCHANGED <<plan, status, batch, worker>>
  BY DEF Raise, Give
<1>2. saved # "succeeded" /\ batch = {}
  BY <1>1 DEF Parts, Begun, Told
<1>3. \A s : Is(s)' = Is(s)
  BY <1>1 DEF Is
<1>4. Begun' /\ Hopeful' /\ Told'
  BY <1>1, <1>2, <1>3 DEF Parts, Begun, Hopeful, Told
<1>5. Matched'
  BY <1>1, <1>3 DEF Parts, Matched
<1>6. QED
  BY <1>4, <1>5 DEF Parts

\* The loop is left early: whatever is pending is given up.
LEMMA SkipParts ==
  ASSUME TypeOK, Parts, Deadline \/ Exhausted \/ TooLittle PROVE Parts'
<1>1. /\ pc = "loop" /\ pc' = "report" /\ UNCHANGED <<plan, batch, worker, parent, saved>>
      /\ Skipping(Is("pending")) \/ Skipping(Is("pending") \cup Is("running"))
  BY DEF Deadline, Exhausted, TooLittle, Scheduling
<1>2. Is("running") = {} /\ batch = {} /\ plan.nodes # {} /\ \A n \in plan.nodes : n \notin Needs(n)
  BY <1>1 DEF Parts, Begun
<1>3. \A n \in Nodes : status'[n] = IF n \in Is("pending") THEN "skipped" ELSE status[n]
  BY <1>1, <1>2 DEF Skipping
<1>4. plan.nodes \subseteq Nodes
  BY PlanFacts DEF TypeOK
<1>5. /\ Is("pending")' = {} /\ Is("running")' = {} /\ Is("done")' = Is("done")
      /\ \A n \in Nodes : n \in plan.nodes => (status'[n] \in Given <=> status[n] \in Given)
      /\ plan' = plan
  BY <1>1, <1>2, <1>3, <1>4 DEF Is, Given
<1>6. Begun'
  BY <1>1, <1>2, <1>5 DEF Begun, Needs
<1>7. Matched'
  BY <1>1, <1>4, <1>5 DEF Parts, Matched
<1>8. Hopeful' /\ Told'
  BY <1>1, <1>5 DEF Parts, Hopeful, Told, AllEnded, AllDone
<1>9. QED
  BY <1>6, <1>7, <1>8 DEF Parts

\* The loop never ends on subtasks that wait for one another.
LEMMA LeaveParts == ASSUME OrchestratorAssumption, TypeOK, Parts, LeaveLoop PROVE Parts'
<1>1. /\ pc = "loop" /\ pc' = "report"
      /\ UNCHANGED <<plan, status, batch, worker, parent, saved>>
      /\ AllEnded \/ (~ LookupFails /\ Ready = {})
  BY DEF LeaveLoop
<1>2. Is("running") = {} /\ batch = {} /\ \A n \in plan.nodes : n \notin Needs(n)
  BY <1>1 DEF Parts, Begun
<1>3. plan \in PlanSet /\ plan.nodes \subseteq Nodes /\ status \in [Nodes -> Statuses]
  BY PlanFacts DEF TypeOK
<1>4. ASSUME ~ LookupFails, Ready = {}, Is("pending") # {} PROVE FALSE
  <2> DEFINE G == Is("pending")
  <2>1. G \in SUBSET plan.nodes /\ G # {}
    BY <1>4 DEF Is
  <2> HIDE DEF G
  <2>2. PICK n \in G : plan.deps[n] \cap G = {}
    BY <1>2, <1>3, <2>1, Acyclic
  <2> USE DEF G
  <2>3. ASSUME NEW d \in plan.deps[n] PROVE d \in Is("done")
    <3>1. d \in plan.nodes /\ d \notin Is("pending") /\ d \notin Is("running")
      BY <1>2, <1>4, <2>2 DEF LookupFails
    <3>2. d \notin Is("failed") /\ d \notin Is("skipped")
      BY <1>1, <2>2 DEF Parts, Hopeful
    <3>3. status[d] \in Statuses
      BY <1>3, <3>1
    <3>4. QED
      BY <3>1, <3>2, <3>3 DEF Is, Statuses
  <2>4. n \in Ready
    BY <2>2, <2>3 DEF Ready, Met
  <2>5. QED
    BY <1>4, <2>4
<1>5. AllEnded
  BY <1>1, <1>2, <1>4 DEF AllEnded
<1>6. \A s : Is(s)' = Is(s)
  BY <1>1 DEF Is
<1>7. Begun' /\ Hopeful' /\ Told'
  BY <1>1, <1>2, <1>5, <1>6 DEF Parts, Begun, Hopeful, Told, Needs, AllEnded, AllDone
<1>8. Matched'
  BY <1>1, <1>6 DEF Parts, Matched
<1>9. QED
  BY <1>7, <1>8 DEF Parts

\* What is ready needs nothing that failed or was skipped.
LEMMA DispatchParts == ASSUME OrchestratorAssumption, TypeOK, Parts, Dispatch PROVE Parts'
<1>1. /\ pc = "loop" /\ pc' = "wait" /\ saved' = "running" /\ UNCHANGED <<plan, parent>>
      /\ Ready # {} /\ batch' = First(Ready)
      /\ status' = [n \in Nodes |-> IF n \in batch' THEN "running" ELSE status[n]]
      /\ \E w : /\ w.pc = "queued"
                /\ worker' = [n \in Nodes |-> IF n \in batch' THEN w ELSE worker[n]]
  <2>1. [NoWorker EXCEPT !.pc = "queued", !.share = ShareNow, !.backups = Fallbacks].pc = "queued"
    BY DEF NoWorker
  <2>2. QED
    BY <2>1 DEF Dispatch, Scheduling
<1>2. PICK w : /\ w.pc = "queued"
               /\ worker' = [n \in Nodes |-> IF n \in batch' THEN w ELSE worker[n]]
  BY <1>1
<1>3. /\ Is("running") = {} /\ plan.nodes # {} /\ parent = "running"
      /\ \A n \in plan.nodes : n \notin Needs(n)
  BY <1>1 DEF Parts, Begun, Told
<1>4. plan.nodes \subseteq Nodes
  BY PlanFacts DEF TypeOK
<1>5. batch' \subseteq Ready /\ batch' \subseteq Is("pending")
  BY <1>1 DEF First, Ready
<1>6. /\ \A n \in Nodes : status'[n] = IF n \in batch' THEN "running" ELSE status[n]
      /\ \A n \in Nodes : worker'[n] = IF n \in batch' THEN w ELSE worker[n]
  BY <1>1, <1>2
<1>7. /\ Is("running")' = batch' /\ Is("done")' = Is("done") /\ Is("failed")' = Is("failed")
      /\ Is("skipped")' = Is("skipped") /\ Is("pending")' \subseteq Is("pending")
  BY <1>1, <1>3, <1>4, <1>5, <1>6 DEF Is
<1>8. \A n \in batch' : plan.deps[n] \subseteq Is("done")
  <2> SUFFICES ASSUME NEW n \in batch', NEW d \in plan.deps[n] PROVE d \in Is("done")
    OBVIOUS
  <2>1. d \in Is("done") \cup Is("skipped")
    BY <1>5 DEF Ready, Met
  <2>2. d \notin Is("skipped")
    BY <1>1, <1>5 DEF Parts, Hopeful
  <2>3. QED
    BY <2>1, <2>2
<1>9. Begun'
  BY <1>1, <1>3, <1>7 DEF Begun, Needs
<1>10. Matched'
  <2>1. \A n \in Nodes : worker'[n].pc # "none" <=> n \in plan.nodes /\ status'[n] \in Given
    <3>1. \A n \in batch' : n \in plan.nodes /\ n \in Nodes
      BY <1>4, <1>5 DEF Is
    <3>2. QED
      BY <1>2, <1>6, <3>1 DEF Parts, Matched, Given
  <2>2. \A n \in plan.nodes : status'[n] \in Given => plan.deps[n] \subseteq Is("done")
    BY <1>4, <1>6, <1>8 DEF Parts, Matched
  <2>3. \A n \in Is("done") : worker'[n].pc = "done"
    BY <1>4, <1>5, <1>6 DEF Parts, Matched, Is
  <2>4. QED
    BY <1>1, <1>7, <2>1, <2>2, <2>3, ZenonT(60) DEF Matched
<1>11. Hopeful'
  BY <1>1, <1>7 DEF Parts, Hopeful
<1>12. Told'
  BY <1>1, <1>3 DEF Told
<1>13. QED
  BY <1>9, <1>10, <1>11, <1>12 DEF Parts

\* What a failure takes with it: pending ones only, and all that need the failed.
LEMMA DownstreamFacts ==
  ASSUME TypeOK, NEW failed \in SUBSET Is("running")
  PROVE  /\ Downstream(failed) \subseteq Is("pending")
         /\ \A n \in Is("pending") :
              plan.deps[n] \cap (failed \cup Downstream(failed)) # {} => n \in Downstream(failed)
<1> DEFINE next == [m \in Names |-> {n \in Is("pending") : m \in plan.deps[n]}]
           R == Reached(failed, next)
<1>1. /\ plan.nodes \subseteq Names /\ \A n \in plan.nodes : plan.deps[n] \subseteq Names
  BY PlanFacts DEF TypeOK
<1>2. /\ failed \in SUBSET Names /\ Is("pending") \subseteq Names
      /\ failed \cap Is("pending") = {}
  BY <1>1 DEF Is
<1>3. \A n \in Names : next[n] \subseteq Names
  BY <1>2
<1>4. \A n \in Is("pending") : \A m \in plan.deps[n] : m \in Names /\ n \in next[m]
  BY <1>1 DEF Is
<1>5. \A m \in Names : next[m] \subseteq Is("pending")
  OBVIOUS
<1>6. Downstream(failed) = R \ failed
  BY DEF Downstream
<1> HIDE DEF next
<1>7. /\ failed \subseteq R /\ R \subseteq Names /\ Closed(R, next)
      /\ \A X \in SUBSET Names : failed \subseteq X /\ Closed(X, next) => R \subseteq X
  BY <1>2, <1>3, ReachedFacts
<1>8. Closed(failed \cup Is("pending"), next)
  BY <1>2, <1>5 DEF Closed
<1>9. R \subseteq failed \cup Is("pending")
  BY <1>2, <1>7, <1>8
<1>10. ASSUME NEW n \in Is("pending"), NEW m \in plan.deps[n], m \in R PROVE n \in R \ failed
  BY <1>2, <1>4, <1>7, <1>10 DEF Closed
<1> HIDE DEF R
<1>11. QED
  BY <1>6, <1>7, <1>9, <1>10

LEMMA CollectParts == ASSUME TypeOK, Parts, Collect PROVE Parts'
<1> DEFINE late == batch \ Finished
           failed == late \cup {n \in batch : worker[n].pc = "failed"}
<1>1. /\ pc = "wait" /\ pc' = "loop" /\ batch' = {} /\ saved' = "running"
      /\ UNCHANGED <<plan, worker, parent>>
      /\ status' = [n \in Nodes |->
               IF n \in failed THEN "failed" ELSE IF n \in batch THEN "done"
               ELSE IF n \in Downstream(failed) THEN "skipped" ELSE status[n]]
  BY DEF Collect
<1>2. /\ batch = Is("running") /\ plan.nodes # {} /\ parent = "running"
      /\ \A n \in plan.nodes : n \notin Needs(n)
  BY <1>1 DEF Parts, Begun, Told
<1>3. plan.nodes \subseteq Nodes /\ status \in [Nodes -> Statuses]
  BY PlanFacts DEF TypeOK
<1>4. failed \subseteq batch /\ failed \in SUBSET Is("running")
  BY <1>2
<1>5. \A n \in batch \ failed : worker[n].pc = "done"
  BY DEF Finished
<1> HIDE DEF failed
<1>6. /\ Downstream(failed) \subseteq Is("pending")
      /\ \A n \in Is("pending") :
           plan.deps[n] \cap (failed \cup Downstream(failed)) # {} => n \in Downstream(failed)
  BY <1>4, DownstreamFacts
<1> DEFINE D == Downstream(failed)
<1> HIDE DEF D
<1>7. \A n \in Nodes : status'[n] =
        IF n \in failed THEN "failed" ELSE IF n \in batch THEN "done"
        ELSE IF n \in D THEN "skipped" ELSE status[n]
  BY <1>1 DEF D
<1>8. /\ D \subseteq Is("pending")
      /\ \A n \in Is("pending") : plan.deps[n] \cap (failed \cup D) # {} => n \in D
  BY <1>6 DEF D
<1>9. /\ Is("done")' = Is("done") \cup (batch \ failed)
      /\ Is("failed")' = Is("failed") \cup failed /\ Is("skipped")' = Is("skipped") \cup D
      /\ Is("pending")' = Is("pending") \ D /\ Is("running")' = {}
  BY <1>1, <1>2, <1>3, <1>4, <1>7, <1>8 DEF Is
<1>10. \A n \in plan.nodes : status'[n] \in Given <=> status[n] \in Given
  BY <1>2, <1>3, <1>4, <1>7, <1>8 DEF Is, Given
<1>11. Begun'
  BY <1>1, <1>2, <1>9 DEF Begun, Needs
<1>12. Matched'
  <2>1. \A n \in Nodes : worker[n].pc # "none" <=> n \in plan.nodes /\ status'[n] \in Given
    BY <1>10 DEF Parts, Matched
  <2>2. \A n \in plan.nodes : status'[n] \in Given => plan.deps[n] \subseteq Is("done")'
    BY <1>9, <1>10 DEF Parts, Matched
  <2>3. \A n \in Is("done")' : worker[n].pc = "done"
    BY <1>5, <1>9 DEF Parts, Matched
  <2>4. QED
    BY <1>1, <2>1, <2>2, <2>3 DEF Matched
<1>13. Hopeful'
  <2>1. \A n \in Is("pending") : plan.deps[n] \cap (Is("failed") \cup Is("skipped")) = {}
    BY <1>1 DEF Parts, Hopeful
  <2>2. \A n \in Is("pending") \ D :
          plan.deps[n] \cap ((Is("failed") \cup failed) \cup (Is("skipped") \cup D)) = {}
    BY <1>8, <2>1
  <2>3. QED
    BY <1>1, <1>9, <2>2 DEF Hopeful
<1>14. Told'
  BY <1>1, <1>2 DEF Told
<1>15. QED
  BY <1>11, <1>12, <1>13, <1>14 DEF Parts

LEMMA EndParts == ASSUME TypeOK, Parts, Report \/ Deliver PROVE Parts'
<1>1. /\ UNCHANGED <<plan, status, batch, worker>>
      /\ pc \in {"report", "deliver"} /\ pc' \in {"deliver", "end"}
  BY DEF Report, Deliver
<1>2. /\ \A s : Is(s)' = Is(s)
      /\ AllDone' = AllDone /\ AllEnded' = AllEnded /\ Verdict' = Verdict
  BY <1>1 DEF Is, AllDone, AllEnded, Verdict
<1>3. Begun' /\ Hopeful'
  BY <1>1, <1>2 DEF Parts, Begun, Hopeful, Needs
<1>4. Matched'
  BY <1>1, <1>2 DEF Parts, Matched
<1>5. Told'
  <2>1. CASE Report
    <3>1. /\ pc' = "deliver" /\ parent' = IF AllDone THEN "succeeded" ELSE "failed"
          /\ saved' \in {"running", "done", "delivering"} /\ AllEnded
      BY <2>1 DEF Report, Parts, Told
    <3>2. QED
      BY <1>2, <3>1 DEF Told
  <2>2. CASE Deliver
    <3>1. /\ pc = "deliver" /\ pc' = "end" /\ parent' = parent /\ saved' \in {saved, Verdict}
      BY <2>2 DEF Deliver
    <3>2. saved # "succeeded" /\ (Verdict = "succeeded" => parent = "succeeded")
          /\ (parent = "succeeded" => AllDone)
      BY <3>1 DEF Parts, Told, Verdict
    <3>3. QED
      BY <1>2, <3>1, <3>2 DEF Told
  <2>3. QED
    BY <2>1, <2>2
<1>6. QED
  BY <1>3, <1>4, <1>5 DEF Parts

LEMMA InitParts == ASSUME Init, TypeOK PROVE Parts
<1>1. plan.nodes \subseteq Nodes
  BY PlanFacts DEF TypeOK
<1>2. /\ \A n \in Nodes : status[n] = "pending" /\ worker[n].pc = "none"
      /\ pc = "plan" /\ batch = {} /\ parent = "running" /\ saved = "planning"
  BY DEF Init, NoWorker
<1>3. \A s : s # "pending" => Is(s) = {}
  BY <1>1, <1>2 DEF Is
<1>4. Begun /\ Hopeful /\ Told
  BY <1>2, <1>3 DEF Begun, Hopeful, Told
<1>5. Matched
  BY <1>1, <1>2, <1>3 DEF Matched, Given
<1>6. QED
  BY <1>4, <1>5 DEF Parts

LEMMA StepParts ==
  ASSUME OrchestratorAssumption, TypeOK, Parts, [Next]_vars PROVE Parts'
<1>1. CASE UNCHANGED vars
  BY <1>1, SameGraph, PlanFacts DEF vars, TypeOK
<1>2. CASE Main
  <2>1. TypeOK'
    BY <1>2, MainType
  <2>2. QED
    BY <1>2, <2>1, PlanParts, RaiseParts, SkipParts, LeaveParts, DispatchParts, CollectParts,
       EndParts DEF Main
<1>3. QED
  BY <1>1, <1>2, WorkParts DEF Next

\* All that a subtask needs is done when the subtasks it depends on are, since what
\* they depend on was done before them.
LEMMA NeedsAreDone == ASSUME TypeOK, Parts PROVE NeedsDone
<1>1. plan \in PlanSet /\ plan.nodes \subseteq Names /\ plan.nodes \subseteq Nodes
  BY PlanFacts DEF TypeOK
<1>2. ASSUME NEW n \in plan.nodes, worker[n].pc # "none" PROVE Needs(n) \subseteq Is("done")
  <2>1. plan.deps[n] \subseteq Is("done")
    BY <1>1, <1>2 DEF Parts, Matched
  <2>2. \A m \in Is("done") \cap plan.nodes : plan.deps[m] \subseteq Is("done")
    BY DEF Parts, Matched, Is, Given
  <2>3. Is("done") \in SUBSET Names
    BY <1>1 DEF Is
  <2>4. QED
    BY <1>1, <2>1, <2>2, <2>3, NeedsFacts
<1>3. pc \in {"report", "deliver"} => AllEnded
  BY DEF Parts, Told
<1>4. QED
  BY <1>2, <1>3 DEF NeedsDone

\* Work starts only on top of what is done, the report comes when everything has
\* ended, and a task succeeds, for its owner as in the ledger, only when each of its
\* subtasks was finished by its own worker.
THEOREM OutcomesAreEarned == ASSUME OrchestratorAssumption PROVE Spec => []OutcomeEarned
<1>1. Init => TypeOK /\ Parts
  BY InitType, InitParts
<1>2. TypeOK /\ Parts /\ [Next]_vars => Parts'
  BY StepParts
<1>3. TypeOK /\ Parts => OutcomeEarned
  <2> SUFFICES ASSUME TypeOK, Parts PROVE OutcomeEarned
    OBVIOUS
  <2>1. SuccessEarned
    BY DEF Parts, Matched, Told, AllDone, SuccessEarned
  <2>2. QED
    BY <2>1, NeedsAreDone DEF OutcomeEarned
<1>4. QED
  BY <1>1, <1>2, <1>3, TypeCorrect, PTL DEF Spec

-------------------------------------------------------------------------------
(* The budget.                                                                *)

HeldBy(v, S) == Cost(Cardinality(S), Total([n \in Nodes |-> v[n].asked], S))

LEMMA HeldIsHeldBy == Held = HeldBy(worker, Calling) /\ Held' = HeldBy(worker', Calling')
  BY DEF Held, HeldBy

LEMMA AskedType ==
  ASSUME OrchestratorAssumption, NEW v \in [Nodes -> Workers]
  PROVE  \A n \in Nodes : v[n].asked \in Nat
<1>1. \A n \in Nodes : v[n].asked \in 0 .. CallTokens
  BY WorkerFields
<1>2. QED
  BY <1>1 DEF OrchestratorAssumption

LEMMA HeldByType ==
  ASSUME OrchestratorAssumption, NEW v \in [Nodes -> Workers], NEW S \in SUBSET Nodes
  PROVE  HeldBy(v, S) \in Costs
<1> DEFINE asked == [n \in Nodes |-> v[n].asked]
<1>1. IsFiniteSet(S) /\ Cardinality(S) \in Nat
  BY FiniteNodes
<1>2. \A n \in S : asked[n] \in Nat
  BY AskedType
<1>3. HeldBy(v, S) = Cost(Cardinality(S), Total(asked, S))
  BY DEF HeldBy
<1> HIDE DEF asked
<1>4. Total(asked, S) \in Nat
  BY <1>1, <1>2, TotalType
<1>5. QED
  BY <1>1, <1>3, <1>4 DEF Cost, Costs

LEMMA HeldBySame ==
  ASSUME OrchestratorAssumption, NEW v \in [Nodes -> Workers], NEW u \in [Nodes -> Workers],
         NEW S \in SUBSET Nodes, \A n \in S : v[n] = u[n]
  PROVE  HeldBy(v, S) = HeldBy(u, S)
<1> DEFINE f == [n \in Nodes |-> v[n].asked]
           g == [n \in Nodes |-> u[n].asked]
<1>1. IsFiniteSet(S)
  BY FiniteNodes
<1>2. \A n \in S : f[n] \in Nat /\ f[n] = g[n]
  BY AskedType
<1>3. HeldBy(v, S) = Cost(Cardinality(S), Total(f, S)) /\ HeldBy(u, S) = Cost(Cardinality(S), Total(g, S))
  BY DEF HeldBy
<1> HIDE DEF f, g
<1>4. Total(f, S) = Total(g, S)
  BY <1>1, <1>2, TotalOfSame
<1>5. QED
  BY <1>3, <1>4

\* One call more.
LEMMA HeldByMore ==
  ASSUME OrchestratorAssumption, NEW v \in [Nodes -> Workers], NEW S \in SUBSET Nodes, NEW n \in S
  PROVE  /\ HeldBy(v, S).steps = HeldBy(v, S \ {n}).steps + 1
         /\ HeldBy(v, S).tokens = HeldBy(v, S \ {n}).tokens + v[n].asked
<1> DEFINE f == [m \in Nodes |-> v[m].asked]
           R == S \ {n}
<1>1. IsFiniteSet(S) /\ Cardinality(S) \in Nat /\ R \in SUBSET Nodes
  BY FiniteNodes
<1>2. \A m \in S : f[m] \in Nat
  BY AskedType
<1>3. /\ HeldBy(v, S).steps = Cardinality(S) /\ HeldBy(v, S).tokens = Total(f, S)
      /\ HeldBy(v, R).steps = Cardinality(R) /\ HeldBy(v, R).tokens = Total(f, R)
      /\ f[n] = v[n].asked
  BY DEF HeldBy, Cost
<1>4. Cardinality(R) = Cardinality(S) - 1
  BY <1>1, FS_RemoveElement
<1>5. Total(f, S) = f[n] + Total(f, R)
  <2> HIDE DEF f
  <2>1. QED
    BY <1>1, <1>2, TotalOfMore
<1>6. Total(f, R) \in Nat /\ f[n] \in Nat
  <2>1. IsFiniteSet(R) /\ \A m \in R : f[m] \in Nat
    BY <1>1, <1>2, FiniteNodes
  <2> HIDE DEF f, R
  <2>2. QED
    BY <1>2, <2>1, TotalType
<1> HIDE DEF f, R
<1>7. Cardinality(S) = Cardinality(R) + 1 /\ Total(f, S) = Total(f, R) + f[n]
  <2>1. \A a, b \in Nat : a + b = b + a
    OBVIOUS
  <2>2. Total(f, S) = Total(f, R) + f[n]
    BY <1>5, <1>6, <2>1
  <2>3. Cardinality(S) = Cardinality(R) + 1
    BY <1>1, <1>4
  <2>4. QED
    BY <2>2, <2>3
<1>8. QED
  BY <1>3, <1>7 DEF R

\* What a step of a worker does to what calls under way hold.
LEMMA WorkHeld ==
  ASSUME OrchestratorAssumption, TypeOK, TypeOK', NEW n \in Nodes, NEW w, Becomes(n, w)
  PROVE  /\ Held \in Costs /\ Held' \in Costs /\ w.asked \in Nat /\ worker[n].asked \in Nat
         /\ Quietly(n, w) => Held' = Held
         /\ Asks(n, w) => Held'.steps = Held.steps + 1 /\ Held'.tokens = Held.tokens + w.asked
         /\ Answered(n, w) =>
              Held.steps = Held'.steps + 1 /\ Held.tokens = Held'.tokens + worker[n].asked
<1>1. /\ worker \in [Nodes -> Workers] /\ worker' \in [Nodes -> Workers]
      /\ Calling \in SUBSET Nodes /\ Calling' \in SUBSET Nodes
  BY DEF TypeOK, Calling
<1>2. worker'[n] = w /\ \A m \in Nodes \ {n} : worker'[m] = worker[m]
  BY <1>1 DEF Becomes
<1>3. Held \in Costs /\ Held' \in Costs
  BY <1>1, HeldIsHeldBy, HeldByType
<1>4. w.asked \in Nat /\ worker[n].asked \in Nat
  BY <1>1, <1>2, AskedType
<1> DEFINE S == Calling \ {n}
<1>5. S \in SUBSET Nodes /\ Calling' \ {n} = S /\ \A m \in S : worker[m] = worker'[m]
  BY <1>2 DEF Calling
<1> HIDE DEF S
<1>6. HeldBy(worker, S) = HeldBy(worker', S)
  BY <1>1, <1>5, HeldBySame
<1>7. CASE Quietly(n, w)
  <2>1. n \notin Calling /\ n \notin Calling'
    BY <1>2, <1>7 DEF Quietly, Calling
  <2>2. Calling = S /\ Calling' = S
    BY <1>5, <2>1 DEF S
  <2>3. Held' = Held
    BY <1>6, <2>2, HeldIsHeldBy
  <2>4. ~ Asks(n, w) /\ ~ Answered(n, w)
    BY <1>7 DEF Quietly, Asks, Answered
  <2>5. QED
    BY <1>3, <1>4, <2>3, <2>4
<1>8. CASE Asks(n, w)
  <2>1. n \notin Calling /\ n \in Calling'
    BY <1>2, <1>8 DEF Asks, Calling
  <2>2. Calling = S /\ Calling' \ {n} = S
    BY <1>5, <2>1 DEF S
  <2>3. /\ HeldBy(worker', Calling').steps = HeldBy(worker', S).steps + 1
        /\ HeldBy(worker', Calling').tokens = HeldBy(worker', S).tokens + w.asked
    BY <1>1, <1>2, <2>1, <2>2, HeldByMore
  <2>4. ~ Quietly(n, w) /\ ~ Answered(n, w)
    BY <1>8 DEF Quietly, Asks, Answered
  <2>5. QED
    BY <1>3, <1>4, <1>6, <2>2, <2>3, <2>4, HeldIsHeldBy
<1>9. CASE Answered(n, w)
  <2>1. n \in Calling /\ n \notin Calling'
    BY <1>2, <1>9 DEF Answered, Calling
  <2>2. Calling \ {n} = S /\ Calling' = S
    BY <1>5, <2>1 DEF S
  <2>3. /\ HeldBy(worker, Calling).steps = HeldBy(worker, S).steps + 1
        /\ HeldBy(worker, Calling).tokens = HeldBy(worker, S).tokens + worker[n].asked
    BY <1>1, <2>1, <2>2, HeldByMore
  <2>4. ~ Quietly(n, w) /\ ~ Asks(n, w)
    BY <1>9 DEF Quietly, Asks, Answered
  <2>5. QED
    BY <1>3, <1>4, <1>6, <2>2, <2>3, <2>4, HeldIsHeldBy
<1>10. QED
  BY <1>3, <1>4, <1>7, <1>8, <1>9

Tallies == /\ real.steps \in Nat /\ real.tokens \in Nat /\ used.steps \in Nat /\ used.tokens \in Nat
           /\ Held.steps \in Nat /\ Held.tokens \in Nat /\ MaxSteps \in Nat /\ MaxTokens \in Nat

LEMMA TalliesType == ASSUME OrchestratorAssumption, TypeOK PROVE Tallies
  BY HeldType DEF TypeOK, Costs, OrchestratorAssumption, Tallies

LEMMA ChargeIs ==
  ASSUME NEW steps, NEW tokens, Charge(Cost(steps, tokens))
  PROVE  /\ used'.steps = used.steps + steps /\ used'.tokens = used.tokens + tokens
         /\ real'.steps = real.steps + steps /\ real'.tokens = real.tokens + tokens
  BY DEF Charge, Plus, Cost

OwedBy(v, n) == v[n].share.steps - v[n].spent.steps + (IF v[n].pc = "call" THEN 1 ELSE 0)

LEMMA OwedType ==
  ASSUME TypeOK, Frugal
  PROVE  \A n \in Nodes : Owed[n] \in Nat /\ Owed[n] = OwedBy(worker, n)
<1> SUFFICES ASSUME NEW n \in Nodes PROVE Owed[n] \in Nat /\ Owed[n] = OwedBy(worker, n)
  OBVIOUS
<1>1. /\ worker[n].share.steps \in Nat /\ worker[n].spent.steps \in Nat
      /\ worker[n].spent.steps <= worker[n].share.steps
  BY WorkerFields DEF TypeOK, Frugal
<1>2. Owed[n] = OwedBy(worker, n)
  BY DEF Owed, OwedBy
<1>3. \A a, b \in Nat : b <= a => a - b + 1 \in Nat /\ a - b + 0 \in Nat
  OBVIOUS
<1>4. OwedBy(worker, n) \in Nat
  <2>1. CASE worker[n].pc = "call"
    BY <1>1, <1>3, <2>1 DEF OwedBy
  <2>2. CASE worker[n].pc # "call"
    BY <1>1, <1>3, <2>2 DEF OwedBy
  <2>3. QED
    BY <2>1, <2>2
<1>5. QED
  BY <1>2, <1>4

\* As long as nothing has failed, who works is waited for, and only then.
LEMMA SoundWork ==
  ASSUME TypeOK, Parts, Sound, pc \in {"loop", "wait", "report"}, NEW n \in Nodes,
         worker[n].pc \notin {"none", "done"}
  PROVE  n \in batch /\ pc = "wait"
<1>1. n \in plan.nodes /\ status[n] \in Given
  BY DEF Parts, Matched
<1>2. n \notin Is("done") /\ n \notin Is("failed")
  BY DEF Parts, Matched, Sound
<1>3. n \in Is("running")
  BY <1>1, <1>2 DEF Is, Given
<1>4. QED
  BY <1>3 DEF Parts, Begun

\* Facts of arithmetic the accounts rest on: what leaves one sum enters another.
LEMMA Traded ==
  \A a, b, t, x, c, d, m \in Nat : x - d = t - c /\ b + d <= a + c /\ a + t < m => b + x < m
  OBVIOUS

LEMMA Counting ==
  /\ \A u, s, p, q \in Nat : q >= p => u + (s - q + 0) <= u + (s - p + 0)
  /\ \A u, s, p, q \in Nat : q = p + 1 => u + (s - q + 1) <= u + (s - p + 0)
  /\ \A u, s, p, q \in Nat : q = p => (u + 1) + (s - q + 0) <= u + (s - p + 1)
  OBVIOUS

LEMMA WorkFrugal ==
  ASSUME OrchestratorAssumption, TypeOK, Parts, Frugal, NEW n \in Nodes, Work(n) PROVE Frugal'
<1>1. TypeOK'
  BY WorkType
<1>2. plan.nodes \subseteq Nodes /\ batch \subseteq Nodes
  BY PlanFacts DEF TypeOK
<1>3. CASE Log(n)
  <2>1. UNCHANGED <<plan, pc, status, batch, worker, used, real>>
    BY <1>3 DEF Log
  <2>2. /\ \A s : Is(s)' = Is(s)
        /\ Sound' = Sound /\ Held' = Held /\ Owed' = Owed
    BY <2>1 DEF Is, Sound, Held, Calling, Owed
  <2>3. QED
    BY <2>1, <2>2 DEF Frugal
<1>4. CASE ~ Log(n)
  <2>1. PICK w : Becomes(n, w) /\ (Quietly(n, w) \/ Asks(n, w) \/ Answered(n, w))
    BY <1>4, WorkIs
  <2>2. /\ w \in Workers /\ worker' = [worker EXCEPT ![n] = w] /\ w.share = worker[n].share
        /\ UNCHANGED <<plan, pc, status, batch>> /\ worker[n].pc \notin {"none", "done"}
    BY <2>1 DEF Becomes, Alone
  <2>3. worker'[n] = w /\ \A m \in Nodes \ {n} : worker'[m] = worker[m]
    BY <2>2 DEF TypeOK
  <2>4. /\ \A s : Is(s)' = Is(s)
        /\ Sound' = Sound
    BY <2>2 DEF Is, Sound
  <2>5. Tallies /\ Tallies'
    <3>1. Held' \in Costs /\ used' \in Costs /\ real' \in Costs
      BY <1>1, <2>1, WorkHeld DEF TypeOK
    <3>2. Tallies
      BY TalliesType
    <3>3. Tallies'
      BY <3>1 DEF Tallies, Costs, OrchestratorAssumption
    <3>4. QED
      BY <3>2, <3>3
  <2>6. /\ worker[n].spent.steps \in Nat /\ worker[n].share.steps \in Nat /\ w.spent.steps \in Nat
        /\ worker[n].spent.steps <= worker[n].share.steps
        /\ worker[n].pc = "call" => n \notin plan.direct
    BY <2>2, WorkerFields DEF TypeOK, Frugal
  <2>7. /\ w.spent.steps <= w.share.steps
        /\ w.pc = "call" => n \notin plan.direct
    <3>1. CASE Quietly(n, w)
      BY <2>2, <2>6, <3>1 DEF Quietly
    <3>2. CASE Asks(n, w)
      BY <3>2 DEF Asks
    <3>3. CASE Answered(n, w)
      BY <2>2, <2>6, <3>3 DEF Answered
    <3>4. QED
      BY <2>1, <3>1, <3>2, <3>3
  <2>8. \A m \in Nodes : /\ worker'[m].spent.steps <= worker'[m].share.steps
                         /\ worker'[m].pc = "call" => m \notin plan'.direct
    BY <2>2, <2>3, <2>7 DEF Frugal
  <2>9. PICK tokens \in Nat :
          /\ tokens <= worker[n].asked
          /\ Answered(n, w) => Charge(Cost(1, tokens))
    <3>1. worker[n].asked \in Nat
      BY AskedType DEF TypeOK
    <3>2. CASE Answered(n, w)
      BY <3>1, <3>2 DEF Answered
    <3>3. CASE ~ Answered(n, w)
      BY <3>1, <3>3
    <3>4. QED
      BY <3>2, <3>3
  <2>10. /\ w.asked \in Nat /\ worker[n].asked \in Nat
         /\ Quietly(n, w) => Held' = Held
         /\ Asks(n, w) => Held'.steps = Held.steps + 1 /\ Held'.tokens = Held.tokens + w.asked
         /\ Answered(n, w) =>
              Held.steps = Held'.steps + 1 /\ Held.tokens = Held'.tokens + worker[n].asked
    BY <1>1, <2>1, WorkHeld
  <2>11. Answered(n, w) => /\ used'.steps = used.steps + 1 /\ used'.tokens = used.tokens + tokens
                           /\ real'.steps = real.steps + 1 /\ real'.tokens = real.tokens + tokens
    BY <2>9, ChargeIs
  <2>12. Quietly(n, w) \/ Asks(n, w) => UNCHANGED <<used, real>>
    BY DEF Quietly, Asks
  <2>13. /\ real.steps <= used.steps /\ real.tokens <= used.tokens
         /\ real.steps + Held.steps <= MaxSteps /\ real.tokens + Held.tokens <= MaxTokens
    BY DEF Frugal
  <2>14. real'.steps <= used'.steps /\ real'.tokens <= used'.tokens
    <3>1. \A a, b, t \in Nat : a <= b => a + t <= b + t
      OBVIOUS
    <3>2. CASE Answered(n, w)
      <4>1. real.steps + 1 <= used.steps + 1 /\ real.tokens + tokens <= used.tokens + tokens
        BY <2>5, <2>13, <3>1 DEF Tallies
      <4>2. QED
        BY <2>11, <3>2, <4>1
    <3>3. CASE Quietly(n, w) \/ Asks(n, w)
      BY <2>12, <2>13, <3>3
    <3>4. QED
      BY <2>1, <3>2, <3>3
  <2>15. real'.steps + Held'.steps <= MaxSteps /\ real'.tokens + Held'.tokens <= MaxTokens
    <3>1. CASE Quietly(n, w)
      BY <2>10, <2>12, <2>13, <3>1
    <3>2. CASE Asks(n, w)
      <4>1. /\ used.steps + Held.steps + 1 <= MaxSteps
            /\ used.tokens + Held.tokens + w.asked <= MaxTokens
        BY <3>2 DEF Asks, Admitted
      <4>2. /\ real.steps + (Held.steps + 1) <= MaxSteps
            /\ real.tokens + (Held.tokens + w.asked) <= MaxTokens
        <5>1. \A r, u, h, k, m \in Nat : r <= u /\ u + h + k <= m => r + (h + k) <= m
          OBVIOUS
        <5>2. /\ real.steps <= used.steps /\ used.steps + Held.steps + 1 <= MaxSteps
              /\ real.steps \in Nat /\ used.steps \in Nat /\ Held.steps \in Nat /\ MaxSteps \in Nat
              /\ 1 \in Nat
          BY <2>5, <2>13, <4>1 DEF Tallies
        <5>3. real.steps + (Held.steps + 1) <= MaxSteps
          BY <5>1, <5>2, Zenon
        <5>4. /\ real.tokens <= used.tokens /\ used.tokens + Held.tokens + w.asked <= MaxTokens
              /\ real.tokens \in Nat /\ used.tokens \in Nat /\ Held.tokens \in Nat
              /\ MaxTokens \in Nat /\ w.asked \in Nat
          BY <2>5, <2>10, <2>13, <4>1 DEF Tallies
        <5>5. real.tokens + (Held.tokens + w.asked) <= MaxTokens
          BY <5>1, <5>4, Zenon
        <5>6. QED
          BY <5>3, <5>5
      <4>3. QED
        BY <2>10, <2>12, <3>2, <4>2
    <3>3. CASE Answered(n, w)
      <4>1. /\ real'.steps = real.steps + 1 /\ real'.tokens = real.tokens + tokens
            /\ Held.steps = Held'.steps + 1 /\ Held.tokens = Held'.tokens + worker[n].asked
        BY <2>10, <2>11, <3>3
      <4>2. QED
        <5>1. \A r, h, t, k, m \in Nat : t <= k /\ r + (h + k) <= m => (r + t) + h <= m
          OBVIOUS
        <5>2. /\ real.steps + (Held'.steps + 1) <= MaxSteps
              /\ real.tokens + (Held'.tokens + worker[n].asked) <= MaxTokens
          BY <2>13, <4>1
        <5>3. /\ (real.steps + 1) + Held'.steps <= MaxSteps
              /\ (real.tokens + tokens) + Held'.tokens <= MaxTokens
          <6>1. /\ real.steps \in Nat /\ Held'.steps \in Nat /\ MaxSteps \in Nat /\ 1 \in Nat /\ 1 <= 1
                /\ real.tokens \in Nat /\ Held'.tokens \in Nat /\ MaxTokens \in Nat
                /\ tokens \in Nat /\ worker[n].asked \in Nat /\ tokens <= worker[n].asked
            BY <2>5, <2>9, <2>10 DEF Tallies
          <6>2. QED
            BY <5>1, <5>2, <6>1, Zenon
        <5>4. QED
          BY <4>1, <5>3
    <3>4. QED
      BY <2>1, <3>1, <3>2, <3>3
  <2>16. Answered(n, w) /\ Sound => ~ (pc \in {"loop", "report"})
    BY <2>2, SoundWork
  <2>17. Sound' /\ pc' \in {"loop", "report"} /\ Is("done")' # {} => used'.steps < MaxSteps
    BY <2>1, <2>2, <2>4, <2>12, <2>16 DEF Frugal
  <2>18. ASSUME Sound', pc' = "wait" PROVE used'.steps + Total(Owed', batch' \ plan'.direct) < MaxSteps
    <3> DEFINE B == batch \ plan.direct
    <3>1. Sound /\ pc = "wait" /\ batch' \ plan'.direct = B
      BY <2>2, <2>4, <2>18
    <3>2. B \in SUBSET Nodes /\ IsFiniteSet(B)
      BY <1>2, FiniteNodes
    <3>3. used.steps + Total(Owed, B) < MaxSteps
      BY <3>1 DEF Frugal
    <3>4. \A m \in Nodes : Owed[m] \in Nat /\ Owed[m] = OwedBy(worker, m)
      BY OwedType
    <3>5. \A m \in Nodes : Owed'[m] = OwedBy(worker', m)
      BY DEF Owed, OwedBy
    <3>6. \A m \in Nodes \ {n} : Owed'[m] = Owed[m]
      BY <2>3, <3>4, <3>5 DEF OwedBy
    <3>7. \A m \in Nodes : Owed'[m] \in Nat
      <4>1. worker'[n].spent.steps \in Nat /\ worker'[n].share.steps \in Nat
            /\ worker'[n].spent.steps <= worker'[n].share.steps
        BY <2>2, <2>3, <2>6, <2>7
      <4>2. \A a, b \in Nat : b <= a => a - b + 1 \in Nat /\ a - b + 0 \in Nat
        OBVIOUS
      <4>3. OwedBy(worker', n) \in Nat
        <5>1. CASE worker'[n].pc = "call"
          BY <4>1, <4>2, <5>1 DEF OwedBy
        <5>2. CASE worker'[n].pc # "call"
          BY <4>1, <4>2, <5>2 DEF OwedBy
        <5>3. QED
          BY <5>1, <5>2
      <4>4. QED
        BY <3>4, <3>5, <3>6, <4>3
    <3>8. Total(Owed, B) \in Nat /\ Total(Owed', B) \in Nat
      BY <3>2, <3>4, <3>7, TotalType
    <3>9. CASE n \notin B
      <4>1. Total(Owed', B) = Total(Owed, B)
        BY <3>2, <3>4, <3>6, <3>9, TotalOfSame
      <4>2. ~ Answered(n, w)
        BY <2>2, <2>6, <3>1, <3>9, SoundWork DEF Answered
      <4>3. used' = used
        BY <2>1, <2>12, <4>2
      <4>4. QED
        BY <3>1, <3>3, <4>1, <4>3
    <3>10. CASE n \in B
      <4>1. Total(Owed', B) - Owed'[n] = Total(Owed, B) - Owed[n]
        <5>1. /\ \A m \in B : Owed[m] \in Nat /\ Owed'[m] \in Nat
              /\ \A m \in B \ {n} : Owed[m] = Owed'[m]
          BY <3>2, <3>4, <3>6, <3>7
        <5> HIDE DEF B
        <5>2. QED
          BY <3>2, <3>10, <5>1, TotalOfChanged
      <4>2. used'.steps + Owed'[n] <= used.steps + Owed[n]
        <5>1. /\ Owed[n] = worker[n].share.steps - worker[n].spent.steps
                            + (IF worker[n].pc = "call" THEN 1 ELSE 0)
              /\ Owed'[n] = worker[n].share.steps - w.spent.steps + (IF w.pc = "call" THEN 1 ELSE 0)
          BY <2>2, <2>3, <3>4, <3>5 DEF OwedBy
        <5>2. CASE Quietly(n, w)
          <6>1. /\ Owed[n] = worker[n].share.steps - worker[n].spent.steps + 0
                /\ Owed'[n] = worker[n].share.steps - w.spent.steps + 0
                /\ w.spent.steps >= worker[n].spent.steps /\ used' = used
            BY <5>1, <5>2, <2>12 DEF Quietly
          <6>2. used.steps + (worker[n].share.steps - w.spent.steps + 0)
                  <= used.steps + (worker[n].share.steps - worker[n].spent.steps + 0)
            BY <2>5, <2>6, <6>1, Counting DEF Tallies
          <6>3. QED
            BY <6>1, <6>2
        <5>3. CASE Asks(n, w)
          <6>1. /\ Owed[n] = worker[n].share.steps - worker[n].spent.steps + 0
                /\ Owed'[n] = worker[n].share.steps - w.spent.steps + 1
                /\ w.spent.steps = worker[n].spent.steps + 1 /\ used' = used
            BY <5>1, <5>3, <2>12 DEF Asks
          <6>2. used.steps + (worker[n].share.steps - w.spent.steps + 1)
                  <= used.steps + (worker[n].share.steps - worker[n].spent.steps + 0)
            BY <2>5, <2>6, <6>1, Counting DEF Tallies
          <6>3. QED
            BY <6>1, <6>2
        <5>4. CASE Answered(n, w)
          <6>1. /\ Owed[n] = worker[n].share.steps - worker[n].spent.steps + 1
                /\ Owed'[n] = worker[n].share.steps - w.spent.steps + 0
                /\ w.spent.steps = worker[n].spent.steps /\ used'.steps = used.steps + 1
            BY <5>1, <5>4, <2>11 DEF Answered
          <6>2. (used.steps + 1) + (worker[n].share.steps - w.spent.steps + 0)
                  <= used.steps + (worker[n].share.steps - worker[n].spent.steps + 1)
            BY <2>5, <2>6, <6>1, Counting DEF Tallies
          <6>3. QED
            BY <6>1, <6>2
        <5>5. QED
          BY <2>1, <5>2, <5>3, <5>4
      <4>3. Owed[n] \in Nat /\ Owed'[n] \in Nat
        BY <3>4, <3>7
      <4> HIDE DEF B
      <4>4. used'.steps + Total(Owed', B) < MaxSteps
        BY <2>5, <3>3, <3>8, <4>1, <4>2, <4>3, Traded DEF Tallies
      <4>5. QED
        BY <3>1, <4>4 DEF B
    <3>11. QED
      BY <3>9, <3>10
  <2>19. QED
    BY <2>8, <2>14, <2>15, <2>17, <2>18 DEF Frugal
<1>5. QED
  BY <1>3, <1>4

\* Steps of the thread of the task, without a new worker.
LEMMA SameWorkers ==
  ASSUME worker' = worker PROVE Held' = Held /\ Owed' = Owed
  BY DEF Held, Calling, Owed

LEMMA OneCall ==
  ASSUME OrchestratorAssumption, TypeOK, Frugal, NEW tokens \in 1 .. CallTokens,
         Admitted(tokens), Charge(Cost(1, tokens)), Held' = Held
  PROVE  /\ real'.steps <= used'.steps /\ real'.tokens <= used'.tokens
         /\ real'.steps + Held'.steps <= MaxSteps /\ real'.tokens + Held'.tokens <= MaxTokens
<1>1. Tallies /\ tokens \in Nat /\ 1 \in Nat
  BY TalliesType DEF OrchestratorAssumption
<1>2. /\ used'.steps = used.steps + 1 /\ used'.tokens = used.tokens + tokens
      /\ real'.steps = real.steps + 1 /\ real'.tokens = real.tokens + tokens
  BY ChargeIs
<1>3. /\ real.steps <= used.steps /\ real.tokens <= used.tokens
      /\ used.steps + Held.steps + 1 <= MaxSteps /\ used.tokens + Held.tokens + tokens <= MaxTokens
  BY DEF Frugal, Admitted
<1>4. \A r, u, h, k, m \in Nat : r <= u /\ u + h + k <= m => r + k <= u + k /\ (r + k) + h <= m
  OBVIOUS
<1>5. /\ real.steps + 1 <= used.steps + 1 /\ (real.steps + 1) + Held.steps <= MaxSteps
      /\ real.tokens + tokens <= used.tokens + tokens /\ (real.tokens + tokens) + Held.tokens <= MaxTokens
  <2>1. /\ real.steps \in Nat /\ real.tokens \in Nat /\ used.steps \in Nat /\ used.tokens \in Nat
        /\ Held.steps \in Nat /\ Held.tokens \in Nat /\ MaxSteps \in Nat /\ MaxTokens \in Nat
    BY <1>1 DEF Tallies
  <2>2. QED
    BY <1>1, <1>3, <1>4, <2>1, Zenon
<1>6. QED
  BY <1>2, <1>5

LEMMA PlanFrugal ==
  ASSUME OrchestratorAssumption, TypeOK, Parts, Frugal, Plan \/ Report PROVE Frugal'
<1>1. worker' = worker /\ UNCHANGED status /\ pc' \in {"planned", "deliver"}
  BY DEF Plan, Report
<1>2. Held' = Held
  BY <1>1, SameWorkers
<1>3. /\ real'.steps <= used'.steps /\ real'.tokens <= used'.tokens
      /\ real'.steps + Held'.steps <= MaxSteps /\ real'.tokens + Held'.tokens <= MaxTokens
  <2>1. CASE UNCHANGED <<used, real>>
    BY <1>2, <2>1 DEF Frugal
  <2>2. CASE \E tokens \in 1 .. CallTokens : Admitted(tokens) /\ Charge(Cost(1, tokens))
    BY <1>2, <2>2, OneCall
  <2>3. QED
    BY <2>1, <2>2 DEF Plan, Report
<1>4. \A n \in Nodes : worker[n].pc = "call" => n \notin plan'.direct
  <2>1. CASE Plan
    <3>1. \A n \in Nodes : worker[n].pc = "none"
      BY <2>1 DEF Plan, Parts, Begun, Matched, Given
    <3>2. QED
      BY <3>1
  <2>2. CASE Report
    BY <2>2 DEF Report, Frugal
  <2>3. QED
    BY <2>1, <2>2
<1>5. QED
  BY <1>1, <1>3, <1>4 DEF Frugal

\* A step that charges nothing and deals nothing out; the loop goes on or ends as it
\* was, or it was just entered.
LEMMA CalmFrugal ==
  ASSUME TypeOK, Parts, Frugal,
         PlanFails \/ Reject \/ Accept \/ Raise \/ LeaveLoop \/ Deliver
           \/ Deadline \/ Exhausted \/ TooLittle
  PROVE  Frugal'
<1>1. /\ UNCHANGED <<plan, batch, worker, used, real>> /\ pc' \in {"loop", "report", "end"}
  BY DEF PlanFails, Reject, Accept, Raise, LeaveLoop, Deliver, Deadline, Exhausted, TooLittle, Give
<1>2. Held' = Held
  BY <1>1, SameWorkers
<1>3. ASSUME Sound', pc' \in {"loop", "report"}, Is("done")' # {} PROVE used'.steps < MaxSteps
  <2>1. CASE Accept
    <3>1. \A n \in Nodes : status'[n] = "pending"
      BY <2>1 DEF Accept, Parts, Begun
    <3>2. plan'.nodes \subseteq Nodes
      BY <1>1, PlanFacts DEF TypeOK
    <3>3. QED
      BY <1>3, <3>1, <3>2 DEF Is
  <2>2. CASE LeaveLoop
    <3>1. UNCHANGED <<status, plan>> /\ pc = "loop" /\ used' = used
      BY <2>2 DEF LeaveLoop
    <3>2. \A s : Is(s)' = Is(s)
      BY <3>1 DEF Is
    <3>3. QED
      BY <1>3, <3>1, <3>2 DEF Frugal, Sound
  <2>3. CASE Deadline \/ Exhausted \/ TooLittle
    <3>1. pc = "loop" /\ \E nodes \in {Is("pending"), Is("pending") \cup Is("running")} : Skipping(nodes)
      BY <2>3 DEF Deadline, Exhausted, TooLittle, Scheduling
    <3>2. plan.nodes \subseteq Nodes
      BY PlanFacts DEF TypeOK
    <3>3. /\ Is("failed") \subseteq Is("failed")' /\ Is("skipped") \subseteq Is("skipped")'
          /\ Is("done")' = Is("done")
      BY <1>1, <3>1, <3>2 DEF Is, Skipping
    <3>4. QED
      BY <1>1, <1>3, <3>1, <3>3 DEF Frugal, Sound
  <2>4. CASE PlanFails \/ Reject \/ Raise \/ Deliver
    BY <1>3, <2>4 DEF PlanFails, Reject, Raise, Deliver, Give
  <2>5. QED
    BY <2>1, <2>2, <2>3, <2>4
<1>4. /\ real'.steps <= used'.steps /\ real'.tokens <= used'.tokens
      /\ real'.steps + Held'.steps <= MaxSteps /\ real'.tokens + Held'.tokens <= MaxTokens
  BY <1>1, <1>2 DEF Frugal
<1>5. \A n \in Nodes : /\ worker'[n].spent.steps <= worker'[n].share.steps
                       /\ worker'[n].pc = "call" => n \notin plan'.direct
  BY <1>1 DEF Frugal
<1>6. pc' # "wait"
  BY <1>1
<1>7. QED
  BY <1>3, <1>4, <1>5, <1>6 DEF Frugal

\* The results are collected: what was dealt out was not more than what was left.
LEMMA CollectFrugal ==
  ASSUME OrchestratorAssumption, TypeOK, Parts, Frugal, Collect PROVE Frugal'
<1> DEFINE late == batch \ Finished
           steps == [n \in Nodes |-> worker[n].spent.steps]
           tokens == [n \in Nodes |-> worker[n].spent.tokens]
           failed == late \cup {n \in batch : worker[n].pc = "failed"}
<1>1. /\ used' = Plus(used, Cost(Total(steps, late), Total(tokens, late)))
      /\ pc = "wait" /\ pc' = "loop" /\ UNCHANGED <<plan, worker, real>>
      /\ \A n \in Nodes : n \in failed => status'[n] = "failed"
      /\ \A n \in Nodes : status[n] \in {"failed", "skipped"} /\ n \notin batch
                            => status'[n] \in {"failed", "skipped"}
  BY DEF Collect
<1>2. batch \subseteq Nodes /\ batch = Is("running") /\ plan.nodes \subseteq Nodes
  BY <1>1, PlanFacts DEF TypeOK, Parts, Begun
<1>3. late \in SUBSET Nodes /\ IsFiniteSet(late)
  BY <1>2, FiniteNodes
<1>4. \A n \in late : steps[n] \in Nat /\ tokens[n] \in Nat
  BY <1>3, WorkerFields DEF TypeOK
<1>5. Sound' => Sound /\ late = {}
  <2>1. \A n \in batch : n \in plan.nodes /\ n \in Nodes
    BY <1>2 DEF Is
  <2>2. Sound' => late = {}
    BY <1>1, <2>1 DEF Sound, Is
  <2>3. Sound' => Sound
    BY <1>1, <1>2 DEF Sound, Is
  <2>4. QED
    BY <2>2, <2>3
<1> HIDE DEF late, steps, tokens, failed
<1>6. Total(steps, late) \in Nat /\ Total(tokens, late) \in Nat
  BY <1>3, <1>4, TotalType
<1>7. /\ used'.steps = used.steps + Total(steps, late)
      /\ used'.tokens = used.tokens + Total(tokens, late)
  BY <1>1 DEF Plus, Cost
<1>8. Held' = Held /\ Tallies
  BY <1>1, SameWorkers, TalliesType
<1>9. real'.steps <= used'.steps /\ real'.tokens <= used'.tokens
  <2>1. \A a, b, c \in Nat : a <= b => a <= b + c
    OBVIOUS
  <2>2. real.steps <= used.steps + Total(steps, late) /\ real.tokens <= used.tokens + Total(tokens, late)
    BY <1>6, <1>8, <2>1 DEF Frugal, Tallies
  <2>3. QED
    BY <1>1, <1>7, <2>2
<1>10. real'.steps + Held'.steps <= MaxSteps /\ real'.tokens + Held'.tokens <= MaxTokens
  BY <1>1, <1>8 DEF Frugal
<1>11. Sound' => used'.steps < MaxSteps
  <2> SUFFICES ASSUME Sound' PROVE used'.steps < MaxSteps
    OBVIOUS
  <2> DEFINE B == batch \ plan.direct
  <2>1. used.steps + Total(Owed, B) < MaxSteps
    BY <1>1, <1>5 DEF Frugal
  <2>2. B \in SUBSET Nodes /\ IsFiniteSet(B) /\ \A n \in Nodes : Owed[n] \in Nat
    BY <1>2, FiniteNodes, OwedType
  <2> HIDE DEF B
  <2>3. Total(Owed, B) \in Nat
    BY <2>2, TotalType
  <2>4. Total(steps, late) = 0
    BY <1>5, TotalOfNone
  <2>5. \A u, t, m \in Nat : u + t < m => u + 0 < m
    OBVIOUS
  <2>6. used.steps \in Nat /\ MaxSteps \in Nat
    BY <1>8 DEF Tallies
  <2>7. used.steps + 0 < MaxSteps
    BY <2>1, <2>3, <2>5, <2>6
  <2>8. QED
    BY <1>7, <2>4, <2>7
<1>12. QED
  BY <1>1, <1>9, <1>10, <1>11 DEF Frugal

\* What is dealt out to a batch leaves a step.
LEMMA ShareLeaves ==
  \A left \in Nat, k \in Nat \ {0}, j \in Nat, c \in Nat :
      j <= k /\ c = Larger(0, left - 1) \div k /\ c >= 1 => left >= 1 /\ c * j <= left - 1
<1> SUFFICES ASSUME NEW left \in Nat, NEW k \in Nat \ {0}, NEW j \in Nat, j <= k,
                    NEW c \in Nat, c = Larger(0, left - 1) \div k, c >= 1
             PROVE  left >= 1 /\ c * j <= left - 1
  OBVIOUS
<1> DEFINE x == Larger(0, left - 1)
<1>1. x \in Nat /\ (left >= 1 => x = left - 1) /\ (left = 0 => x = 0)
  BY DEF Larger
<1> HIDE DEF x
<1>2. c = x \div k
  BY DEF x
<1>3. \A a \in Nat, b \in Nat \ {0} : b * (a \div b) <= a
  OBVIOUS
<1>4. k * c <= x
  BY <1>1, <1>2, <1>3
<1>5. \A a, b, d \in Nat : b <= d => a * b <= a * d /\ a * d = d * a
  OBVIOUS
<1>6. c * j <= c * k /\ c * k = k * c
  BY <1>5
<1>7. c * j \in Nat /\ c * k \in Nat
  OBVIOUS
<1>8. c * j <= x
  BY <1>1, <1>4, <1>6, <1>7
<1>9. x # 0
  <2>1. \A a \in Nat : a >= 1 => k * a >= 1
    OBVIOUS
  <2>2. k * c >= 1
    BY <2>1
  <2>3. QED
    BY <1>1, <1>4, <2>2
<1>10. QED
  BY <1>1, <1>8, <1>9

LEMMA DispatchFrugal ==
  ASSUME OrchestratorAssumption, TypeOK, Parts, Frugal, Dispatch PROVE Frugal'
<1> DEFINE w == [NoWorker EXCEPT !.pc = "queued", !.share = ShareNow, !.backups = Fallbacks]
           c == ShareNow.steps
<1>1. /\ pc = "loop" /\ pc' = "wait" /\ UNCHANGED <<plan, used, real>> /\ Ready # {} /\ ~ Spent
      /\ batch' = First(Ready) /\ c >= 1
      /\ worker' = [n \in Nodes |-> IF n \in batch' THEN w ELSE worker[n]]
  BY DEF Dispatch, Scheduling
<1>2. w.pc = "queued" /\ w.spent.steps = 0 /\ w.share = ShareNow
  BY DEF NoWorker, Cost
<1>3. /\ ShareNow \in Costs /\ Pending \in Nat /\ Cardinality(First(Ready)) \in Nat \ {0}
      /\ ShareNow = Share(IF Pending > 0 THEN Pending ELSE Cardinality(First(Ready)))
  BY <1>1, ShareType
<1>4. c \in Nat
  BY <1>3 DEF Costs
<1>5. plan.nodes \subseteq Nodes /\ worker \in [Nodes -> Workers] /\ TypeOK'
  BY PlanFacts, MainType DEF TypeOK, Main
<1>6. batch' \subseteq Is("pending") /\ batch' \subseteq Nodes
  BY <1>1, <1>5 DEF First, Ready, Is
<1>7. \A n \in batch' : worker[n].pc = "none"
  BY <1>6 DEF Parts, Matched, Is, Given
<1> HIDE DEF w, c
<1>8. \A n \in Nodes : worker'[n] = IF n \in batch' THEN w ELSE worker[n]
  BY <1>1
<1>9. Calling' = Calling /\ \A n \in Calling : worker'[n] = worker[n]
  BY <1>2, <1>7, <1>8 DEF Calling
<1>10. Held' = Held
  <2>1. Calling \in SUBSET Nodes /\ worker' \in [Nodes -> Workers]
    BY <1>5 DEF Calling, TypeOK
  <2>2. HeldBy(worker', Calling) = HeldBy(worker, Calling)
    BY <1>5, <1>9, <2>1, HeldBySame
  <2>3. QED
    BY <1>9, <2>2, HeldIsHeldBy
<1>11. /\ real'.steps <= used'.steps /\ real'.tokens <= used'.tokens
       /\ real'.steps + Held'.steps <= MaxSteps /\ real'.tokens + Held'.tokens <= MaxTokens
  BY <1>1, <1>10 DEF Frugal
<1>12. \A n \in Nodes : /\ worker'[n].spent.steps <= worker'[n].share.steps
                        /\ worker'[n].pc = "call" => n \notin plan'.direct
  <2>1. w.spent.steps <= w.share.steps
    <3>1. 0 <= c /\ w.share.steps = c
      BY <1>2, <1>4 DEF c
    <3>2. QED
      BY <1>2, <3>1
  <2>2. QED
    BY <1>1, <1>2, <1>8, <2>1 DEF Frugal
<1> DEFINE B == batch' \ plan.direct
<1>13. IsFiniteSet(B) /\ Cardinality(B) \in Nat /\ Cardinality(B) <= Pending
  <2>1. B \in SUBSET Nodes
    BY <1>6
  <2> DEFINE P == Is("pending") \ plan.direct
  <2>2. B \in SUBSET P /\ P \in SUBSET Nodes
    BY <1>5, <1>6 DEF Is
  <2> HIDE DEF B, P
  <2>3. IsFiniteSet(P) /\ IsFiniteSet(B) /\ Cardinality(B) \in Nat
    BY <2>1, <2>2, FiniteNodes
  <2>4. Cardinality(B) <= Cardinality(P)
    BY <2>2, <2>3, FS_Subset
  <2>5. QED
    BY <2>3, <2>4 DEF Pending, P
<1>14. Total(Owed', B) = c * Cardinality(B)
  <2>1. \A n \in B : Owed'[n] = c
    <3>1. \A n \in Nodes : Owed'[n] = OwedBy(worker', n)
      BY DEF Owed, OwedBy
    <3>2. \A n \in B : worker'[n].share.steps = c /\ worker'[n].spent.steps = 0 /\ worker'[n].pc = "queued"
      BY <1>2, <1>6, <1>8 DEF c
    <3>3. c - 0 + 0 = c
      BY <1>4
    <3>4. QED
      BY <1>6, <3>1, <3>2, <3>3 DEF OwedBy
  <2> HIDE DEF B
  <2>2. QED
    BY <1>4, <1>13, <2>1, TotalOfEqual
<1> HIDE DEF B
<1>15. /\ used.steps \in Nat /\ Held.steps \in Nat /\ MaxSteps \in Nat /\ used.steps < MaxSteps
       /\ Left.steps = Larger(0, MaxSteps - used.steps - Held.steps)
  <2>1. Tallies
    BY TalliesType
  <2>2. ~ (used.steps >= MaxSteps)
    BY <1>1 DEF Spent
  <2>3. QED
    BY <2>1, <2>2 DEF Tallies, Left, Cost
<1>16. CASE Pending = 0
  <2>1. Cardinality(B) = 0
    BY <1>13, <1>16
  <2>2. used.steps + c * 0 < MaxSteps
    <3>1. \A a, b, m \in Nat : a < m => a + b * 0 < m
      OBVIOUS
    <3>2. QED
      BY <1>4, <1>15, <3>1
  <2>3. used'.steps + Total(Owed', B) < MaxSteps
    BY <1>1, <1>14, <2>1, <2>2
  <2>4. QED
    BY <1>1, <1>11, <1>12, <2>3 DEF Frugal, B
<1>17. CASE Pending # 0
  <2>1. Pending \in Nat \ {0} /\ ShareNow = Share(Pending)
    BY <1>3, <1>17
  <2>2. c = Larger(0, Left.steps - 1) \div Pending
    BY <2>1 DEF Share, Cost, c
  <2>3. Left.steps \in Nat
    BY LeftType DEF Costs
  <2>4. Left.steps >= 1 /\ c * Cardinality(B) <= Left.steps - 1
    <3>1. /\ Pending \in Nat \ {0} /\ Cardinality(B) \in Nat /\ Cardinality(B) <= Pending
          /\ c \in Nat /\ c >= 1
      BY <1>1, <1>4, <1>13, <2>1
    <3>2. QED
      BY <2>2, <2>3, <3>1, ShareLeaves, ZenonT(60)
  <2>5. c * Cardinality(B) \in Nat
    BY <1>4, <1>13
  <2>6. \A u, h, m, l, t \in Nat :
          l = Larger(0, m - u - h) /\ l >= 1 /\ t <= l - 1 => u + t < m
    BY DEF Larger
  <2>7. used.steps + c * Cardinality(B) < MaxSteps
    BY <1>15, <2>3, <2>4, <2>5, <2>6
  <2>8. used'.steps + Total(Owed', B) < MaxSteps
    BY <1>1, <1>14, <2>7
  <2>9. QED
    BY <1>1, <1>11, <1>12, <2>8 DEF Frugal, B
<1>18. QED
  BY <1>16, <1>17

LEMMA InitFrugal == ASSUME OrchestratorAssumption, Init, TypeOK PROVE Frugal
<1>1. /\ used = Cost(0, 0) /\ real = Cost(0, 0) /\ pc = "plan"
      /\ \A n \in Nodes : worker[n] = NoWorker
  BY DEF Init
<1>2. Calling = {}
  BY <1>1 DEF Calling, NoWorker
<1>3. Held.steps = 0 /\ Held.tokens = 0
  <2>1. Held = Cost(Cardinality({}), Total([n \in Nodes |-> worker[n].asked], {}))
    BY <1>2 DEF Held
  <2>2. Held = Cost(0, 0)
    BY <2>1, TotalOfNone, FS_EmptySet
  <2>3. QED
    BY <2>2 DEF Cost
<1>4. /\ used.steps = 0 /\ used.tokens = 0 /\ real.steps = 0 /\ real.tokens = 0
  BY <1>1 DEF Cost
<1>5. /\ real.steps <= used.steps /\ real.tokens <= used.tokens
      /\ real.steps + Held.steps <= MaxSteps /\ real.tokens + Held.tokens <= MaxTokens
  BY <1>3, <1>4 DEF OrchestratorAssumption
<1>6. \A n \in Nodes : /\ worker[n].spent.steps <= worker[n].share.steps
                       /\ worker[n].pc = "call" => n \notin plan.direct
  BY <1>1 DEF NoWorker, Cost
<1>7. QED
  BY <1>1, <1>5, <1>6 DEF Frugal

LEMMA StepFrugal ==
  ASSUME OrchestratorAssumption, TypeOK, Parts, Frugal, [Next]_vars PROVE Frugal'
<1>1. CASE UNCHANGED vars
  <2>1. /\ UNCHANGED <<plan, pc, status, batch, worker, used, real>>
        /\ Held' = Held /\ Owed' = Owed
    BY <1>1, SameWorkers DEF vars
  <2>2. \A s : Is(s)' = Is(s)
    BY <2>1 DEF Is
  <2>3. QED
    BY <2>1, <2>2 DEF Frugal, Sound
<1>2. QED
  BY <1>1, PlanFrugal, CalmFrugal, CollectFrugal, DispatchFrugal, WorkFrugal DEF Next, Main

\* Whatever the plan, the number of workers, the models that fail and the calls of
\* workers that nobody waits for any more: the budget of the task is never exceeded,
\* and a plan whose subtasks were all done leaves a step for the report.
THEOREM BudgetIsKept == ASSUME OrchestratorAssumption PROVE Spec => []BudgetHolds
<1>1. Init => TypeOK /\ Parts /\ Frugal
  BY InitType, InitParts, InitFrugal
<1>2. TypeOK /\ Parts /\ Frugal /\ [Next]_vars => Parts' /\ Frugal'
  BY StepParts, StepFrugal
<1>3. TypeOK /\ Parts /\ Frugal => BudgetHolds
  <2> SUFFICES ASSUME TypeOK, Parts, Frugal PROVE BudgetHolds
    OBVIOUS
  <2>1. ASSUME pc = "report", AllDone PROVE used.steps < MaxSteps
    <3>1. Sound /\ Is("done") # {}
      BY <2>1 DEF Parts, Begun, AllDone, Sound, Is
    <3>2. QED
      BY <2>1, <3>1 DEF Frugal
  <2>2. QED
    BY <2>1 DEF BudgetHolds, Frugal
<1>4. QED
  BY <1>1, <1>2, <1>3, TypeCorrect, PTL DEF Spec

===============================================================================
