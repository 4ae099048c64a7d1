------------------------ MODULE RunExecutionProofs ------------------------
(***************************************************************************)
(* What the graph algorithms compute for every plan, and what RunExecution   *)
(* guarantees for every sequence of plan versions.                           *)
(***************************************************************************)
EXTENDS RunExecution, PlanGraphProperties, Integers, FiniteSetTheorems, SequenceTheorems, TLAPS

(***************************************************************************)
(* Induction                                                               *)
(***************************************************************************)
(* Of the subsets of a finite set that have a property one contains no other.*)
LEMMA LeastFinite ==
    ASSUME NEW S, IsFiniteSet(S), NEW F \in SUBSET SUBSET S, F # {}
    PROVE  \E A \in F : \A B \in F : B \subseteq A => B = A
<1>1. IsWellFoundedOn(StrictSubsetOrdering(S), FiniteSubsetsOf(S)) /\ FiniteSubsetsOf(S) = SUBSET S
  BY FS_StrictSubsetOrderingWellFounded, FS_FiniteSubsetsOfFinite
<1>2. \E A \in F : \A B \in F : <<B, A>> \notin StrictSubsetOrdering(S)
  BY <1>1, WFMin
<1> QED
  BY <1>2 DEF StrictSubsetOrdering

(* Of the numbers that have a property one is the least.                     *)
LEMMA LeastNatural ==
    ASSUME NEW T \in SUBSET Nat, T # {}
    PROVE  \E x \in T : \A y \in T : x =< y
<1>1. PICK m \in T : TRUE
  OBVIOUS
<1> DEFINE S == 0..m
           F == {A \in SUBSET S : \E n \in T : n =< m /\ A = 0..n}
<1>2. IsFiniteSet(S)
  BY FS_Interval
<1>3. F \in SUBSET SUBSET S /\ 0..m \in F
  OBVIOUS
<1> HIDE DEF F, S
<1>4. PICK A \in F : \A B \in F : B \subseteq A => B = A
  BY <1>2, <1>3, LeastFinite
<1>5. PICK n \in T : n =< m /\ A = 0..n
  BY <1>4 DEF F
<1>6. \A y \in T : n =< y
  <2> SUFFICES ASSUME NEW y \in T, y < n PROVE FALSE
    OBVIOUS
  <2>1. 0..y \in F /\ 0..y \subseteq A
    BY <1>5 DEF F, S
  <2>2. 0..y = 0..n
    BY <1>4, <1>5, <2>1
  <2> QED
    BY <2>2
<1> QED
  BY <1>6

(***************************************************************************)
(* The loop of `topological_order`                                         *)
(***************************************************************************)
(* The rounds follow one another.                                            *)
LEMMA LoopUnfolds ==
    ASSUME NEW p, Cardinality(p.steps) \in Nat
    PROVE  /\ KahnLoop(p)[0] = KahnInit(p)
           /\ \A n \in 1..Cardinality(p.steps) :
                 KahnLoop(p)[n] = KahnNext(p, KahnLoop(p)[n - 1])
<1> DEFINE c == Cardinality(p.steps)
           Runs(f, n) == f = [i \in 0..n |-> IF i = 0 THEN KahnInit(p) ELSE KahnNext(p, f[i - 1])]
           Short == {n \in 0..c : ~ \E f : Runs(f, n)}
<1>1. Short = {}
  <2> SUFFICES ASSUME Short # {} PROVE FALSE
    OBVIOUS
  <2>1. PICK n \in Short : \A m \in Short : n =< m
    <3>1. Short \in SUBSET Nat
      OBVIOUS
    <3> HIDE DEF Short
    <3> QED
      BY <3>1, LeastNatural
  <2>2. CASE n = 0
    <3> DEFINE f == [i \in 0..0 |-> KahnInit(p)]
    <3>1. Runs(f, 0)
      OBVIOUS
    <3> QED
      BY <2>2, <3>1
  <2>3. CASE n # 0
    <3>1. n \in 1..c /\ n - 1 \in 0..c /\ n - 1 \notin Short
      BY <2>1, <2>3
    <3>2. PICK g : Runs(g, n - 1)
      BY <3>1
    <3> DEFINE f == [i \in 0..n |-> IF i = n THEN KahnNext(p, g[n - 1]) ELSE g[i]]
    <3>3. \A i \in 0..n : f[i] = IF i = 0 THEN KahnInit(p) ELSE KahnNext(p, f[i - 1])
      BY <3>1, <3>2
    <3>4. Runs(f, n)
      BY <3>3
    <3> QED
      BY <3>4
  <2> QED
    BY <2>2, <2>3
<1>2. \E f : Runs(f, c)
  BY <1>1
<1>3. Runs(KahnLoop(p), c)
  BY <1>2 DEF KahnLoop
<1> HIDE DEF c
<1>4. KahnLoop(p) = [i \in 0..c |-> IF i = 0 THEN KahnInit(p) ELSE KahnNext(p, KahnLoop(p)[i - 1])]
  BY <1>3
<1>5. c \in Nat
  BY DEF c
<1>6. KahnLoop(p)[0] = KahnInit(p)
  BY <1>4, <1>5
<1>7. \A n \in 1..c : KahnLoop(p)[n] = KahnNext(p, KahnLoop(p)[n - 1])
  BY <1>4, <1>5
<1> QED
  BY <1>6, <1>7 DEF c


(* A plan whose dependencies exist, each named once.                         *)
Orderable(p) ==
    /\ IsPlan(p)
    /\ \A s \in p.steps : Deps(p, s) \subseteq p.steps
    /\ NamesDependenciesOnce(p)

(* The steps that may run once those of `done` have.                         *)
Ready(p, done) == {s \in p.steps \ done : Deps(p, s) \subseteq done}

(* The first i - 1 steps of an order.                                        *)
Before(order, i) == {order[j] : j \in 1..(i - 1)}

(* Each step of an order is the first among those that may run then.         *)
LeastReadyFirst(p, order) ==
    \A i \in DOMAIN order :
        /\ order[i] \in Ready(p, Before(order, i))
        /\ \A s \in Ready(p, Before(order, i)) : order[i] =< s

(* What the loop keeps true: a degree counts the dependencies that have not  *)
(* been emitted, and the queue holds the steps that may run.                 *)
KahnInv(p, k) ==
    /\ k.out \in Seq(p.steps)
    /\ k.emitted = {k.out[i] : i \in DOMAIN k.out}
    /\ \A i, j \in DOMAIN k.out : k.out[i] = k.out[j] => i = j
    /\ k.degree \in [p.steps -> Nat]
    /\ \A s \in p.steps \ k.emitted : k.degree[s] = Cardinality(Deps(p, s) \ k.emitted)
    /\ k.queue = Ready(p, k.emitted)
    /\ LeastReadyFirst(p, k.out)

LEMMA IntervalSize ==
    ASSUME NEW n \in Nat
    PROVE  IsFiniteSet(1..n) /\ Cardinality(1..n) = n
BY FS_Interval

LEMMA AppendFacts ==
    ASSUME NEW S, NEW seq \in Seq(S), NEW x \in S, NEW longer, longer = Append(seq, x)
    PROVE  /\ longer \in Seq(S) /\ Len(longer) = Len(seq) + 1 /\ Len(seq) \in Nat
           /\ DOMAIN seq = 1..Len(seq) /\ DOMAIN longer = 1..Len(longer)
           /\ \A i \in 1..Len(seq) : longer[i] = seq[i]
           /\ longer[Len(seq) + 1] = x
OBVIOUS

LEMMA DepsFacts ==
    ASSUME NEW p, Orderable(p), NEW s \in p.steps
    PROVE  /\ IsFiniteSet(Deps(p, s))
           /\ Cardinality(Deps(p, s)) = Len(p.dep[s])
           /\ InDegree(p, s) = Len(p.dep[s])
<1> DEFINE f == p.dep[s]
           n == Len(f)
<1>1. f \in Seq(Nat)
  BY DEF Orderable, IsPlan
<1>2. n \in Nat /\ f \in [1..n -> Nat] /\ DOMAIN f = 1..n
  BY <1>1
<1>3. \A i, j \in 1..n : f[i] = f[j] => i = j
  BY <1>2 DEF Orderable, NamesDependenciesOnce
<1>4. f \in Bijection(1..n, Deps(p, s))
  BY <1>2, <1>3 DEF Deps, Bijection, Injection, Surjection, IsInjective
<1>5. ExistsBijection(1..n, Deps(p, s))
  BY <1>4 DEF ExistsBijection
<1>6. IsFiniteSet(Deps(p, s)) /\ Cardinality(Deps(p, s)) = n
  BY <1>2, <1>5, FS_NatBijection, FS_CountingElements
<1>7. {i \in DOMAIN f : f[i] \in p.steps} = 1..n
  BY <1>2 DEF Orderable, Deps
<1>8. InDegree(p, s) = Cardinality(1..n)
  BY <1>7 DEF InDegree
<1>9. Cardinality(1..n) = n
  BY <1>2, IntervalSize
<1> QED
  BY <1>6, <1>8, <1>9

LEMMA KahnStarts ==
    ASSUME NEW p, Orderable(p)
    PROVE  KahnInv(p, KahnInit(p))
<1> DEFINE degree == [s \in p.steps |-> InDegree(p, s)]
           queue == {s \in p.steps : degree[s] = 0}
           k == [out |-> <<>>, emitted |-> {}, degree |-> degree, queue |-> queue]
<1>1. KahnInit(p) = k
  BY DEF KahnInit
<1>2. \A s \in p.steps : degree[s] \in Nat /\ degree[s] = Cardinality(Deps(p, s) \ {})
  <2> SUFFICES ASSUME NEW s \in p.steps
               PROVE  degree[s] \in Nat /\ degree[s] = Cardinality(Deps(p, s) \ {})
    OBVIOUS
  <2>1. Deps(p, s) \ {} = Deps(p, s)
    OBVIOUS
  <2> QED
    BY <2>1, DepsFacts, FS_CardinalityType
<1>3. \A s \in p.steps : degree[s] = 0 <=> Deps(p, s) \subseteq {}
  BY DepsFacts, FS_EmptySet
<1>4. queue = Ready(p, {})
  BY <1>3 DEF Ready
<1> HIDE DEF degree, queue
<1>5. /\ k.out = <<>> /\ k.emitted = {} /\ k.degree = degree /\ k.queue = queue
  OBVIOUS
<1> HIDE DEF k
<1>6. degree \in [p.steps -> Nat]
  BY <1>2 DEF degree
<1> QED
  BY <1>1, <1>2, <1>4, <1>5, <1>6 DEF KahnInv, LeastReadyFirst

LEMMA FirstReadyFacts ==
    ASSUME NEW queue \in SUBSET Nat, queue # {}
    PROVE  FirstReady(queue) \in queue /\ \A s \in queue : FirstReady(queue) =< s
BY LeastNatural DEF FirstReady

(* A round emits the first step that may run, and keeps the degrees true.    *)
LEMMA KahnGoesOn ==
    ASSUME NEW p, Orderable(p), NEW k, KahnInv(p, k), k.queue # {}
    PROVE  /\ KahnInv(p, KahnEmit(p, k))
           /\ Len(KahnEmit(p, k).out) = Len(k.out) + 1
<1> DEFINE next     == FirstReady(k.queue)
           emitted  == k.emitted \cup {next}
           affected == {s \in p.steps \ emitted : next \in Deps(p, s)}
           degree   == [s \in p.steps |->
                           IF s \in affected /\ k.degree[s] > 0
                           THEN k.degree[s] - 1 ELSE k.degree[s]]
           out      == Append(k.out, next)
           queue    == (k.queue \ {next}) \cup Released(affected, degree)
           m        == [out |-> out, emitted |-> emitted, degree |-> degree, queue |-> queue]
<1>1. KahnEmit(p, k) = m
  BY DEF KahnEmit
<1>2. p.steps \subseteq Nat /\ k.queue = Ready(p, k.emitted)
  BY DEF Orderable, IsPlan, KahnInv
<1>3. next \in k.queue /\ \A s \in k.queue : next =< s
  BY <1>2, FirstReadyFacts DEF Ready
<1>4. next \in p.steps /\ next \notin k.emitted /\ Deps(p, next) \subseteq k.emitted
  BY <1>2, <1>3 DEF Ready
<1> HIDE DEF next
<1>5. /\ out \in Seq(p.steps) /\ Len(out) = Len(k.out) + 1 /\ Len(k.out) \in Nat
      /\ DOMAIN k.out = 1..Len(k.out) /\ DOMAIN out = 1..Len(out)
      /\ \A i \in 1..Len(k.out) : out[i] = k.out[i]
      /\ out[Len(k.out) + 1] = next
  <2>1. k.out \in Seq(p.steps)
    BY DEF KahnInv
  <2>2. PICK steps, made : steps = p.steps /\ made = k.out
    OBVIOUS
  <2>3. made \in Seq(steps) /\ next \in steps /\ out = Append(made, next)
    BY <1>4, <2>1, <2>2
  <2> HIDE DEF emitted, affected, degree, queue, m, out
  <2>4. /\ out \in Seq(steps) /\ Len(out) = Len(made) + 1 /\ Len(made) \in Nat
        /\ DOMAIN made = 1..Len(made) /\ DOMAIN out = 1..Len(out)
        /\ \A i \in 1..Len(made) : out[i] = made[i]
        /\ out[Len(made) + 1] = next
    BY <2>3, AppendFacts
  <2> QED
    BY <2>2, <2>4
<1>6. k.emitted = {k.out[i] : i \in DOMAIN k.out}
  BY DEF KahnInv
<1> HIDE DEF out
<1>7. emitted = {out[i] : i \in DOMAIN out}
  <2>1. \A i \in DOMAIN out : out[i] \in emitted
    BY <1>5, <1>6
  <2>2. \A s \in emitted : \E i \in DOMAIN out : out[i] = s
    BY <1>5, <1>6
  <2> QED
    BY <2>1, <2>2
<1>8. \A i, j \in DOMAIN out : out[i] = out[j] => i = j
  <2> SUFFICES ASSUME NEW i \in DOMAIN out, NEW j \in DOMAIN out, out[i] = out[j] PROVE i = j
    OBVIOUS
  <2>1. \A x, y \in DOMAIN k.out : k.out[x] = k.out[y] => x = y
    BY DEF KahnInv
  <2>2. \A x \in DOMAIN k.out : k.out[x] # next
    BY <1>4, <1>6
  <2> QED
    BY <1>5, <2>1, <2>2
<1>9. \A s \in p.steps \ emitted :
         degree[s] \in Nat /\ degree[s] = Cardinality(Deps(p, s) \ emitted)
  <2> SUFFICES ASSUME NEW s \in p.steps \ emitted
               PROVE  degree[s] \in Nat /\ degree[s] = Cardinality(Deps(p, s) \ emitted)
    OBVIOUS
  <2> DEFINE left == Deps(p, s) \ k.emitted
  <2>1. IsFiniteSet(left)
    BY DepsFacts, FS_Subset
  <2>2. k.degree[s] = Cardinality(left) /\ k.degree[s] \in Nat
    BY DEF KahnInv
  <2>3. Deps(p, s) \ emitted = left \ {next}
    OBVIOUS
  <2>4. Cardinality(left \ {next}) = IF next \in left THEN Cardinality(left) - 1 ELSE Cardinality(left)
    BY <2>1, FS_RemoveElement
  <2>5. next \in left <=> s \in affected
    BY <1>4
  <2>6. next \in left => Cardinality(left) # 0
    BY <2>1, FS_EmptySet
  <2> HIDE DEF left, affected
  <2>7. degree[s] = IF s \in affected /\ k.degree[s] > 0 THEN k.degree[s] - 1 ELSE k.degree[s]
    OBVIOUS
  <2> HIDE DEF degree, emitted
  <2> QED
    BY <2>2, <2>3, <2>4, <2>5, <2>6, <2>7
<1>10. degree \in [p.steps -> Nat]
  <2>1. k.degree \in [p.steps -> Nat]
    BY DEF KahnInv
  <2> HIDE DEF affected
  <2> QED
    BY <2>1
<1>11. queue = Ready(p, emitted)
  <2>1. ASSUME NEW s \in p.steps \ emitted
        PROVE  degree[s] = 0 <=> Deps(p, s) \subseteq emitted
    <3>1. IsFiniteSet(Deps(p, s) \ emitted)
      BY DepsFacts, FS_Subset
    <3>2. degree[s] = 0 <=> Deps(p, s) \ emitted = {}
      BY <1>9, <3>1, FS_EmptySet
    <3> QED
      BY <3>2
  <2>2. Released(affected, degree) = {s \in affected : Deps(p, s) \subseteq emitted}
    BY <2>1 DEF Released
  <2>3. k.queue = {s \in p.steps \ k.emitted : Deps(p, s) \subseteq k.emitted}
    BY <1>2 DEF Ready
  <2> HIDE DEF degree
  <2> QED
    BY <1>4, <2>2, <2>3 DEF Ready
<1>12. LeastReadyFirst(p, out)
  <2> SUFFICES ASSUME NEW i \in DOMAIN out
               PROVE  /\ out[i] \in Ready(p, Before(out, i))
                      /\ \A s \in Ready(p, Before(out, i)) : out[i] =< s
    BY DEF LeastReadyFirst
  <2>1. CASE i = Len(k.out) + 1
    <3>1. Before(out, i) = k.emitted
      BY <1>5, <1>6, <2>1 DEF Before
    <3> QED
      BY <1>2, <1>3, <1>5, <2>1, <3>1
  <2>2. CASE i # Len(k.out) + 1
    <3>1. i \in DOMAIN k.out /\ out[i] = k.out[i]
      BY <1>5, <2>2
    <3>2. Before(out, i) = Before(k.out, i)
      BY <1>5, <3>1 DEF Before
    <3> QED
      BY <3>1, <3>2 DEF KahnInv, LeastReadyFirst
  <2> QED
    BY <2>1, <2>2
<1> HIDE DEF affected, emitted, degree, queue
<1>13. m.out = out /\ m.emitted = emitted /\ m.degree = degree /\ m.queue = queue
  OBVIOUS
<1> HIDE DEF m
<1>14. KahnInv(p, m)
  <2>1. \A s \in p.steps \ emitted : degree[s] = Cardinality(Deps(p, s) \ emitted)
    BY <1>9
  <2>2. /\ m.out \in Seq(p.steps)
        /\ m.emitted = {m.out[i] : i \in DOMAIN m.out}
        /\ \A i, j \in DOMAIN m.out : m.out[i] = m.out[j] => i = j
    BY <1>5, <1>7, <1>8, <1>13
  <2>3. /\ m.degree \in [p.steps -> Nat]
        /\ \A s \in p.steps \ m.emitted : m.degree[s] = Cardinality(Deps(p, s) \ m.emitted)
    BY <1>10, <1>13, <2>1
  <2>4. m.queue = Ready(p, m.emitted) /\ LeastReadyFirst(p, m.out)
    BY <1>11, <1>12, <1>13
  <2> QED
    BY <2>2, <2>3, <2>4 DEF KahnInv
<1> QED
  BY <1>1, <1>5, <1>13, <1>14

(* The loop keeps its invariant, and emits a step a round while one may run. *)
LEMMA KahnKeepsGoing ==
    ASSUME NEW p, Orderable(p), NEW n \in 0..Cardinality(p.steps)
    PROVE  /\ KahnInv(p, KahnLoop(p)[n])
           /\ KahnLoop(p)[n].queue = {} \/ Len(KahnLoop(p)[n].out) = n
<1> DEFINE c == Cardinality(p.steps)
           k(i) == KahnLoop(p)[i]
           Good(i) == KahnInv(p, k(i)) /\ (k(i).queue = {} \/ Len(k(i).out) = i)
           Bad == {i \in 0..c : ~Good(i)}
<1>1. c \in Nat
  BY FS_CardinalityType DEF Orderable, IsPlan
<1>2. k(0) = KahnInit(p) /\ \A i \in 1..c : k(i) = KahnNext(p, k(i - 1))
  BY <1>1, LoopUnfolds
<1>3. Good(0)
  <2>1. KahnInv(p, k(0))
    BY <1>2, KahnStarts
  <2>2. k(0).out = <<>>
    BY <1>2 DEF KahnInit
  <2> QED
    BY <2>1, <2>2
<1>4. ASSUME NEW i \in 1..c, Good(i - 1)
      PROVE  Good(i)
  <2>1. CASE k(i - 1).queue = {}
    BY <1>2, <1>4, <2>1 DEF KahnNext
  <2>2. CASE k(i - 1).queue # {}
    <3>1. k(i) = KahnEmit(p, k(i - 1))
      BY <1>2, <2>2 DEF KahnNext
    <3>2. KahnInv(p, k(i - 1)) /\ Len(k(i - 1).out) = i - 1
      BY <1>4, <2>2
    <3> HIDE DEF k
    <3>3. KahnInv(p, k(i)) /\ Len(k(i).out) = (i - 1) + 1
      BY <2>2, <3>1, <3>2, KahnGoesOn
    <3> QED
      BY <3>3
  <2> QED
    BY <2>1, <2>2
<1>5. Bad = {}
  <2> SUFFICES ASSUME Bad # {} PROVE FALSE
    OBVIOUS
  <2>1. Bad \in SUBSET Nat
    OBVIOUS
  <2>2. PICK i \in Bad : \A j \in Bad : i =< j
    <3> HIDE DEF Bad
    <3> QED
      BY <2>1, LeastNatural
  <2> HIDE DEF Good
  <2>3. i # 0 /\ i \in 1..c
    BY <1>1, <1>3, <2>2
  <2>4. i - 1 \in 0..c /\ i - 1 \notin Bad
    BY <1>1, <2>2, <2>3
  <2> QED
    BY <1>4, <2>2, <2>3, <2>4
<1> QED
  BY <1>5

(* The steps emitted are as many as their places.                            *)
LEMMA EmittedIsCounted ==
    ASSUME NEW p, Orderable(p), NEW k, KahnInv(p, k)
    PROVE  k.emitted \subseteq p.steps /\ Cardinality(k.emitted) = Len(k.out)
<1>1. PICK out, steps, emitted : out = k.out /\ steps = p.steps /\ emitted = k.emitted
  OBVIOUS
<1>2. /\ out \in Seq(steps) /\ emitted = {out[i] : i \in DOMAIN out}
      /\ \A i, j \in DOMAIN out : out[i] = out[j] => i = j
  BY <1>1 DEF KahnInv
<1>3. Len(out) \in Nat /\ DOMAIN out = 1..Len(out) /\ emitted \subseteq steps
  BY <1>2
<1>4. out \in Bijection(1..Len(out), emitted)
  BY <1>2, <1>3 DEF Bijection, Injection, Surjection, IsInjective
<1>5. ExistsBijection(1..Len(out), emitted)
  BY <1>4 DEF ExistsBijection
<1>6. Cardinality(emitted) = Len(out)
  BY <1>3, <1>5, FS_NatBijection, FS_CountingElements
<1> QED
  BY <1>1, <1>3, <1>6

(* When the loop has ended no step may run any more.                         *)
LEMMA NothingMayRun ==
    ASSUME NEW p, Orderable(p)
    PROVE  /\ KahnInv(p, KahnLoop(p)[Cardinality(p.steps)])
           /\ KahnLoop(p)[Cardinality(p.steps)].queue = {}
<1> DEFINE c == Cardinality(p.steps)
           k == KahnLoop(p)[c]
<1>1. IsFiniteSet(p.steps) /\ c \in Nat
  BY FS_CardinalityType DEF Orderable, IsPlan
<1>2. KahnInv(p, k) /\ (k.queue = {} \/ Len(k.out) = c)
  BY <1>1, KahnKeepsGoing
<1>3. CASE Len(k.out) = c
  <2> HIDE DEF k
  <2>1. k.emitted \subseteq p.steps /\ Cardinality(k.emitted) = Cardinality(p.steps)
    BY <1>2, <1>3, EmittedIsCounted
  <2>2. k.emitted = p.steps
    BY <1>1, <2>1, FS_Subset
  <2>3. k.queue = {}
    BY <1>2, <2>2 DEF KahnInv, Ready
  <2> QED
    BY <1>2, <2>3 DEF k
<1> QED
  BY <1>2, <1>3

(***************************************************************************)
(* Acyclic plans                                                           *)
(***************************************************************************)
(* The downstream closure is the least set with its step that has what       *)
(* depends on a member.                                                      *)
LEMMA ClosureFacts ==
    ASSUME NEW p, NEW s \in p.steps
    PROVE  /\ s \in DownstreamClosure(p, s)
           /\ DownstreamClosure(p, s) \subseteq p.steps
           /\ \A t \in p.steps : Deps(p, t) \cap DownstreamClosure(p, s) # {}
                                    => t \in DownstreamClosure(p, s)
           /\ \A C \in SUBSET p.steps :
                 /\ s \in C
                 /\ \A t \in p.steps : Deps(p, t) \cap C # {} => t \in C
                 => DownstreamClosure(p, s) \subseteq C
BY DEF DownstreamClosure

(* Of the steps left in an acyclic plan one depends on none of the others.   *)
LEMMA SomeStepMayRun ==
    ASSUME NEW p, Orderable(p), ValidGraph(p), NEW done, p.steps \ done # {}
    PROVE  Ready(p, done) # {}
<1> DEFINE rest    == p.steps \ done
           Down(s) == DownstreamClosure(p, s)
           Up(s)   == p.steps \ Down(s)
           F       == {Up(s) : s \in rest}
<1> SUFFICES ASSUME Ready(p, done) = {} PROVE FALSE
  OBVIOUS
<1>1. \A s \in rest : \E d \in Deps(p, s) : d \in rest
  BY DEF Ready, Orderable
<1>2. PICK s \in rest : \A t \in rest : Up(t) \subseteq Up(s) => Up(t) = Up(s)
  <2>0. IsFiniteSet(p.steps)
    BY DEF Orderable, IsPlan
  <2>1. F \in SUBSET SUBSET p.steps /\ F # {}
    <3>1. \A t \in rest : Up(t) \in SUBSET p.steps
      OBVIOUS
    <3> HIDE DEF Up
    <3> QED
      BY <3>1
  <2>2. PICK A \in F : \A B \in F : B \subseteq A => B = A
    <3> HIDE DEF F
    <3> QED
      BY <2>0, <2>1, LeastFinite
  <2> HIDE DEF Up
  <2> QED
    BY <2>2
<1>3. PICK d \in Deps(p, s) : d \in rest
  BY <1>1
<1>4. s \in Down(d)
  BY <1>3, ClosureFacts
<1>5. Down(s) \subseteq Down(d)
  BY <1>3, <1>4, ClosureFacts
<1>6. Down(d) \subseteq Down(s)
  <2>1. Up(d) = Up(s)
    BY <1>2, <1>3, <1>5
  <2> QED
    BY <1>3, <2>1, ClosureFacts
<1>7. DependsTransitively(p, d, d)
  BY <1>3, <1>6, ClosureFacts DEF DependsTransitively
<1> QED
  BY <1>3, <1>7 DEF ValidGraph

(* Nothing is left to sort by name.                                          *)
LEMMA AlphabeticalOfNone == Alphabetical({}) = <<>>
<1>1. Cardinality({}) = 0
  BY FS_EmptySet
<1>2. [1..0 -> {}] = {<<>>}
  <2>1. 1..0 = {}
    OBVIOUS
  <2>2. \A seq \in [1..0 -> {}] : seq \in Seq({}) /\ Len(seq) = 0
    BY <2>1
  <2>3. \A seq \in [1..0 -> {}] : seq = <<>>
    BY <2>2, EmptySeq
  <2>4. <<>> \in [1..0 -> {}]
    BY <2>1
  <2> QED
    BY <2>3, <2>4
<1>3. \A i, j \in DOMAIN <<>> : i < j => <<>>[i] < <<>>[j]
  OBVIOUS
<1> QED
  BY <1>1, <1>2, <1>3 DEF Alphabetical

(* `topological_order` of an acyclic plan: every step once, each the         *)
(* alphabetically first of those whose dependencies have been dispatched.    *)
THEOREM OrderIsTopological ==
    ASSUME NEW p, Orderable(p), ValidGraph(p)
    PROVE  LET order == TopologicalOrder(p) IN
           /\ order \in Seq(p.steps)
           /\ {order[i] : i \in DOMAIN order} = p.steps
           /\ \A i, j \in DOMAIN order : order[i] = order[j] => i = j
           /\ LeastReadyFirst(p, order)
<1> DEFINE k == KahnLoop(p)[Cardinality(p.steps)]
<1>1. KahnInv(p, k) /\ k.queue = {}
  BY NothingMayRun
<1>2. p.steps \ k.emitted = {}
  <2> HIDE DEF k
  <2> SUFFICES ASSUME p.steps \ k.emitted # {} PROVE FALSE
    OBVIOUS
  <2>1. Ready(p, k.emitted) = {}
    BY <1>1 DEF KahnInv
  <2> QED
    BY <2>1, SomeStepMayRun
<1>3. TopologicalOrder(p) = k.out \o <<>>
  BY <1>2, AlphabeticalOfNone DEF TopologicalOrder
<1> HIDE DEF k
<1>4. k.out \in Seq(p.steps)
  BY <1>1 DEF KahnInv
<1>5. k.out \o <<>> = k.out
  <2>1. PICK steps, out : steps = p.steps /\ out = k.out
    OBVIOUS
  <2>2. out \in Seq(steps)
    BY <1>4, <2>1
  <2>3. out \o <<>> = out
    BY <2>2, ConcatEmptySeq
  <2> QED
    BY <2>1, <2>3
<1>6. k.emitted = p.steps
  BY <1>1, <1>2, EmittedIsCounted
<1> QED
  BY <1>1, <1>3, <1>5, <1>6 DEF KahnInv

(***************************************************************************)
(* Reachability                                                            *)
(***************************************************************************)
(* A path along `depends_on`, from a step to one it rests on.                *)
DependencyPath(p, path, s, r) ==
    /\ path \in Seq(p.steps) /\ Len(path) > 0
    /\ path[1] = s /\ path[Len(path)] = r
    /\ \A i \in 1..(Len(path) - 1) : path[i + 1] \in Deps(p, path[i])

LEMMA SingletonFacts ==
    ASSUME NEW S, NEW x \in S
    PROVE  \E path \in Seq(S) : Len(path) = 1 /\ path[1] = x
<1>1. <<x>> \in Seq(S) /\ Len(<<x>>) = 1 /\ <<x>>[1] = x
  OBVIOUS
<1> QED
  BY <1>1

LEMMA PrependFacts ==
    ASSUME NEW S, NEW x \in S, NEW path \in Seq(S)
    PROVE  \E longer \in Seq(S) :
              /\ Len(longer) = Len(path) + 1 /\ Len(path) \in Nat
              /\ longer[1] = x
              /\ \A i \in 1..Len(path) : longer[i + 1] = path[i]
<1> DEFINE longer == <<x>> \o path
<1>1. /\ longer \in Seq(S) /\ Len(longer) = Len(path) + 1 /\ Len(path) \in Nat
      /\ longer[1] = x
      /\ \A i \in 1..Len(path) : longer[i + 1] = path[i]
  OBVIOUS
<1> HIDE DEF longer
<1> QED
  BY <1>1

(* `downstream_closure` finds the steps from which a path of dependencies     *)
(* leads to the root, and no others, in a plan of any size.                   *)
THEOREM DownstreamIsReachability ==
    ASSUME NEW p, NEW r \in p.steps
    PROVE  DownstreamClosure(p, r) = {s \in p.steps : \E path : DependencyPath(p, path, s, r)}
<1> DEFINE D == DownstreamClosure(p, r)
           C == {s \in p.steps : \E path : DependencyPath(p, path, s, r)}
<1>1. r \in C
  <2>1. PICK path \in Seq(p.steps) : Len(path) = 1 /\ path[1] = r
    BY SingletonFacts
  <2>2. DependencyPath(p, path, r, r)
    BY <2>1 DEF DependencyPath
  <2> QED
    BY <2>2
<1>2. ASSUME NEW t \in p.steps, NEW d \in Deps(p, t), d \in C
      PROVE  t \in C
  <2>1. PICK path : DependencyPath(p, path, d, r)
    BY <1>2
  <2>2. path \in Seq(p.steps) /\ Len(path) > 0
    BY <2>1 DEF DependencyPath
  <2>3. PICK longer \in Seq(p.steps) :
           /\ Len(longer) = Len(path) + 1 /\ Len(path) \in Nat
           /\ longer[1] = t
           /\ \A i \in 1..Len(path) : longer[i + 1] = path[i]
    BY <2>2, PrependFacts
  <2>4. /\ Len(longer) = Len(path) + 1 /\ Len(path) \in Nat /\ Len(path) > 0
        /\ longer[1] = t
        /\ \A i \in 1..Len(path) : longer[i + 1] = path[i]
    BY <2>2, <2>3
  <2>5. longer[Len(longer)] = r
    BY <2>1, <2>4 DEF DependencyPath
  <2>6. ASSUME NEW i \in 1..(Len(longer) - 1)
        PROVE  longer[i + 1] \in Deps(p, longer[i])
    <3>1. CASE i = 1
      <4>1. longer[1 + 1] = path[1] /\ path[1] = d
        BY <2>1, <2>4 DEF DependencyPath
      <4> QED
        BY <2>4, <3>1, <4>1
    <3>2. CASE i # 1
      <4>1. i - 1 \in 1..(Len(path) - 1) /\ i - 1 \in 1..Len(path) /\ i \in 1..Len(path)
        BY <2>4, <3>2
      <4>2. longer[i + 1] = path[i] /\ longer[(i - 1) + 1] = path[i - 1]
        BY <2>4, <4>1
      <4>3. path[(i - 1) + 1] \in Deps(p, path[i - 1])
        BY <2>1, <4>1 DEF DependencyPath
      <4> QED
        BY <4>1, <4>2, <4>3
    <3> QED
      BY <3>1, <3>2
  <2>7. DependencyPath(p, longer, t, r)
    BY <2>3, <2>4, <2>5, <2>6 DEF DependencyPath
  <2> QED
    BY <2>7
<1>3. D \subseteq C
  <2>1. \A t \in p.steps : Deps(p, t) \cap C # {} => t \in C
    BY <1>2
  <2>2. C \in SUBSET p.steps
    OBVIOUS
  <2> HIDE DEF C
  <2> QED
    BY <1>1, <2>1, <2>2, ClosureFacts
<1>4. ASSUME NEW s \in C
      PROVE  s \in D
  <2>1. PICK path : DependencyPath(p, path, s, r)
    BY <1>4
  <2> DEFINE n == Len(path)
             Far == {i \in 0..(n - 1) : path[n - i] \notin D}
  <2>2. n \in Nat /\ n # 0 /\ \A i \in 1..n : path[i] \in p.steps
    <3>1. PICK steps : steps = p.steps
      OBVIOUS
    <3>2. path \in Seq(steps) /\ Len(path) > 0
      BY <2>1, <3>1 DEF DependencyPath
    <3> QED
      BY <3>1, <3>2
  <2>3. Far = {}
    <3> SUFFICES ASSUME Far # {} PROVE FALSE
      OBVIOUS
    <3>1. Far \in SUBSET Nat
      BY <2>2
    <3>2. PICK i \in Far : \A j \in Far : i =< j
      <4> HIDE DEF Far
      <4> QED
        BY <3>1, LeastNatural
    <3>3. i # 0
      BY <2>1, <2>2, <3>2, ClosureFacts DEF DependencyPath
    <3>4. path[n - (i - 1)] \in D
      <4>1. i \in 0..(n - 1) /\ i - 1 \in 0..(n - 1) /\ ~ i =< i - 1
        BY <2>2, <3>2, <3>3
      <4>2. i - 1 \notin Far
        <5> HIDE DEF Far, n
        <5> QED
          BY <3>2, <4>1
      <4> HIDE DEF D, n
      <4> QED
        BY <4>1, <4>2
    <3>5. n - i \in 1..(n - 1) /\ (n - i) + 1 = n - (i - 1)
      BY <2>2, <3>2, <3>3
    <3>6. path[n - (i - 1)] \in Deps(p, path[n - i])
      <4>1. path[(n - i) + 1] \in Deps(p, path[n - i])
        BY <2>1, <3>5 DEF DependencyPath
      <4> QED
        BY <3>5, <4>1
    <3>7. path[n - i] \in p.steps
      BY <2>2, <3>5
    <3> QED
      BY <3>2, <3>4, <3>6, <3>7, ClosureFacts
  <2>4. path[1] \in D
    <3>1. n - 1 \in 0..(n - 1) /\ n - (n - 1) = 1
      BY <2>2
    <3> HIDE DEF D
    <3> QED
      BY <2>3, <3>1
  <2> QED
    BY <2>1, <2>2, <2>4 DEF DependencyPath
<1> QED
  BY <1>3, <1>4

(* A chain of spawn lists, from one of the owner's to a body step.           *)
SpawnChain(p, chain, o, b) ==
    /\ chain \in Seq(FanOutOwned(p)) /\ Len(chain) > 0
    /\ chain[1] \in Spawned(p, o) /\ chain[Len(chain)] = b
    /\ \A i \in 1..(Len(chain) - 1) : chain[i + 1] \in Spawned(p, chain[i])

LEMMA ExtendFacts ==
    ASSUME NEW S, NEW x \in S, NEW chain \in Seq(S)
    PROVE  \E longer \in Seq(S) :
              /\ Len(longer) = Len(chain) + 1 /\ Len(chain) \in Nat
              /\ longer[Len(chain) + 1] = x
              /\ \A i \in 1..Len(chain) : longer[i] = chain[i]
<1> DEFINE longer == Append(chain, x)
<1>1. longer = Append(chain, x)
  OBVIOUS
<1> HIDE DEF longer
<1>2. /\ longer \in Seq(S) /\ Len(longer) = Len(chain) + 1 /\ Len(chain) \in Nat
      /\ \A i \in 1..Len(chain) : longer[i] = chain[i]
      /\ longer[Len(chain) + 1] = x
  BY <1>1, AppendFacts
<1> QED
  BY <1>2

(* `fan_out_body_closure` finds the steps a chain of spawn lists leads to,    *)
(* and no others, at any depth and even when bodies own each other.           *)
THEOREM BodyClosureIsReachability ==
    ASSUME NEW p, NEW o
    PROVE  FanOutBodyClosure(p, o) =
               {b \in FanOutOwned(p) : \E chain : SpawnChain(p, chain, o, b)}
<1> DEFINE D == FanOutBodyClosure(p, o)
           C == {b \in FanOutOwned(p) : \E chain : SpawnChain(p, chain, o, b)}
<1>1. \A t : Spawned(p, t) \subseteq FanOutOwned(p)
  BY DEF Spawned, FanOutOwned
<1>2. Spawned(p, o) \subseteq C
  <2> SUFFICES ASSUME NEW b \in Spawned(p, o) PROVE b \in C
    OBVIOUS
  <2>1. PICK chain \in Seq(FanOutOwned(p)) : Len(chain) = 1 /\ chain[1] = b
    BY <1>1, SingletonFacts
  <2>2. SpawnChain(p, chain, o, b)
    BY <2>1 DEF SpawnChain
  <2> QED
    BY <1>1, <2>2
<1>3. ASSUME NEW t \in C, NEW b \in Spawned(p, t)
      PROVE  b \in C
  <2>1. PICK chain : SpawnChain(p, chain, o, t)
    BY <1>3
  <2>2. chain \in Seq(FanOutOwned(p)) /\ b \in FanOutOwned(p)
    BY <1>1, <2>1 DEF SpawnChain
  <2>3. PICK longer \in Seq(FanOutOwned(p)) :
           /\ Len(longer) = Len(chain) + 1 /\ Len(chain) \in Nat
           /\ longer[Len(chain) + 1] = b
           /\ \A i \in 1..Len(chain) : longer[i] = chain[i]
    BY <2>2, ExtendFacts
  <2>4. Len(chain) > 0 /\ longer[1] \in Spawned(p, o) /\ longer[Len(chain)] = t
    BY <2>1, <2>3 DEF SpawnChain
  <2>5. ASSUME NEW i \in 1..(Len(longer) - 1)
        PROVE  longer[i + 1] \in Spawned(p, longer[i])
    <3>1. CASE i = Len(chain)
      BY <2>3, <2>4, <3>1
    <3>2. CASE i # Len(chain)
      <4>1. i \in 1..(Len(chain) - 1) /\ i \in 1..Len(chain) /\ i + 1 \in 1..Len(chain)
        BY <2>3, <3>2
      <4>2. chain[i + 1] \in Spawned(p, chain[i])
        BY <2>1, <4>1 DEF SpawnChain
      <4> QED
        BY <2>3, <4>1, <4>2
    <3> QED
      BY <3>1, <3>2
  <2>6. SpawnChain(p, longer, o, b)
    BY <2>3, <2>4, <2>5 DEF SpawnChain
  <2> QED
    BY <2>2, <2>6
<1>4. D \subseteq C
  <2>1. \A t \in C : Spawned(p, t) \subseteq C
    BY <1>3
  <2>2. C \in SUBSET FanOutOwned(p)
    OBVIOUS
  <2> HIDE DEF C
  <2> QED
    BY <1>2, <2>1, <2>2 DEF FanOutBodyClosure
<1>5. /\ Spawned(p, o) \subseteq D
      /\ \A t \in D : Spawned(p, t) \subseteq D
  BY <1>1 DEF FanOutBodyClosure
<1>6. ASSUME NEW b \in C
      PROVE  b \in D
  <2>1. PICK chain : SpawnChain(p, chain, o, b)
    BY <1>6
  <2> DEFINE n == Len(chain)
             Far == {i \in 1..n : chain[i] \notin D}
  <2>2. n \in Nat /\ n # 0
    BY <2>1 DEF SpawnChain
  <2>3. Far = {}
    <3> SUFFICES ASSUME Far # {} PROVE FALSE
      OBVIOUS
    <3>1. Far \in SUBSET Nat
      BY <2>2
    <3>2. PICK i \in Far : \A j \in Far : i =< j
      <4> HIDE DEF Far
      <4> QED
        BY <3>1, LeastNatural
    <3> HIDE DEF D
    <3>3. i # 1
      BY <1>5, <2>1, <3>2 DEF SpawnChain
    <3>4. i - 1 \in 1..(n - 1) /\ i - 1 \in 1..n /\ (i - 1) + 1 = i
      BY <2>2, <3>2, <3>3
    <3>5. chain[i - 1] \in D
      BY <2>2, <3>2, <3>4
    <3>6. chain[(i - 1) + 1] \in Spawned(p, chain[i - 1])
      BY <2>1, <3>4 DEF SpawnChain
    <3> QED
      BY <1>5, <3>2, <3>4, <3>5, <3>6
  <2>4. chain[n] \in D
    <3>1. n \in 1..n
      BY <2>2
    <3> HIDE DEF D
    <3> QED
      BY <2>3, <3>1
  <2> QED
    BY <2>1, <2>4 DEF SpawnChain
<1> QED
  BY <1>4, <1>6

(***************************************************************************)
(* Any plan: cycles, unknown and repeated dependencies                     *)
(***************************************************************************)
(* What the loop keeps true of every plan: it emits waiting steps, once.     *)
EmitsOnce(p, k) ==
    /\ k.out \in Seq(p.steps)
    /\ k.emitted = {k.out[i] : i \in DOMAIN k.out}
    /\ \A i, j \in DOMAIN k.out : k.out[i] = k.out[j] => i = j
    /\ k.queue \subseteq p.steps \ k.emitted

LEMMA EmitsOnceMore ==
    ASSUME NEW p, IsPlan(p), NEW k, EmitsOnce(p, k), k.queue # {}
    PROVE  EmitsOnce(p, KahnEmit(p, k))
<1> DEFINE m    == KahnEmit(p, k)
           next == FirstReady(k.queue)
<1>1. next \in k.queue /\ next \in p.steps /\ next \notin k.emitted
  <2>1. k.queue \in SUBSET Nat
    BY DEF IsPlan, EmitsOnce
  <2>2. next \in k.queue
    BY <2>1, FirstReadyFacts
  <2> QED
    BY <2>2 DEF EmitsOnce
<1>2. m.out = Append(k.out, next) /\ m.emitted = k.emitted \cup {next}
  BY DEF KahnEmit
<1>3. m.queue \subseteq p.steps \ m.emitted
  BY DEF KahnEmit, Released, EmitsOnce
<1> HIDE DEF m, next
<1>4. /\ m.out \in Seq(p.steps) /\ Len(m.out) = Len(k.out) + 1 /\ Len(k.out) \in Nat
      /\ DOMAIN k.out = 1..Len(k.out) /\ DOMAIN m.out = 1..Len(m.out)
      /\ \A i \in 1..Len(k.out) : m.out[i] = k.out[i]
      /\ m.out[Len(k.out) + 1] = next
  <2>1. PICK steps, made, more : steps = p.steps /\ made = k.out /\ more = m.out
    OBVIOUS
  <2>2. made \in Seq(steps) /\ next \in steps /\ more = Append(made, next)
    BY <1>1, <1>2, <2>1 DEF EmitsOnce
  <2>3. /\ more \in Seq(steps) /\ Len(more) = Len(made) + 1 /\ Len(made) \in Nat
        /\ DOMAIN made = 1..Len(made) /\ DOMAIN more = 1..Len(more)
        /\ \A i \in 1..Len(made) : more[i] = made[i]
        /\ more[Len(made) + 1] = next
    BY <2>2, AppendFacts
  <2> QED
    BY <2>1, <2>3
<1>5. k.emitted = {k.out[i] : i \in DOMAIN k.out}
  BY DEF EmitsOnce
<1>6. m.emitted = {m.out[i] : i \in DOMAIN m.out}
  <2>1. \A i \in DOMAIN m.out : m.out[i] \in m.emitted
    BY <1>2, <1>4, <1>5
  <2>2. \A s \in m.emitted : \E i \in DOMAIN m.out : m.out[i] = s
    BY <1>2, <1>4, <1>5
  <2> QED
    BY <2>1, <2>2
<1>7. \A i, j \in DOMAIN m.out : m.out[i] = m.out[j] => i = j
  <2> SUFFICES ASSUME NEW i \in DOMAIN m.out, NEW j \in DOMAIN m.out, m.out[i] = m.out[j]
               PROVE  i = j
    OBVIOUS
  <2>1. \A x, y \in DOMAIN k.out : k.out[x] = k.out[y] => x = y
    BY DEF EmitsOnce
  <2>2. \A x \in DOMAIN k.out : k.out[x] # next
    BY <1>1, <1>5
  <2> DEFINE last == Len(k.out) + 1
  <2>3. \A x \in DOMAIN m.out : x \in DOMAIN k.out \/ x = last
    BY <1>4
  <2>4. \A x \in DOMAIN k.out : m.out[x] = k.out[x]
    BY <1>4
  <2>5. m.out[last] = next
    BY <1>4
  <2> HIDE DEF last
  <2> QED
    BY <2>1, <2>2, <2>3, <2>4, <2>5
<1>8. EmitsOnce(p, m)
  BY <1>3, <1>4, <1>6, <1>7 DEF EmitsOnce
<1> QED
  BY <1>8 DEF m

LEMMA LoopEmitsOnce ==
    ASSUME NEW p, IsPlan(p), NEW n \in 0..Cardinality(p.steps)
    PROVE  EmitsOnce(p, KahnLoop(p)[n])
<1> DEFINE c == Cardinality(p.steps)
           k(i) == KahnLoop(p)[i]
           Bad == {i \in 0..c : ~EmitsOnce(p, k(i))}
<1>1. c \in Nat
  BY FS_CardinalityType DEF IsPlan
<1>2. k(0) = KahnInit(p) /\ \A i \in 1..c : k(i) = KahnNext(p, k(i - 1))
  BY <1>1, LoopUnfolds
<1>3. EmitsOnce(p, k(0))
  <2>1. k(0).out = <<>> /\ k(0).emitted = {} /\ k(0).queue \subseteq p.steps
    BY <1>2 DEF KahnInit
  <2> QED
    BY <2>1 DEF EmitsOnce
<1>4. ASSUME NEW i \in 1..c, EmitsOnce(p, k(i - 1))
      PROVE  EmitsOnce(p, k(i))
  <2>1. k(i) = KahnNext(p, k(i - 1))
    BY <1>2
  <2> HIDE DEF k
  <2> QED
    BY <1>4, <2>1, EmitsOnceMore DEF KahnNext
<1>5. Bad = {}
  <2> SUFFICES ASSUME Bad # {} PROVE FALSE
    OBVIOUS
  <2>1. Bad \in SUBSET Nat
    OBVIOUS
  <2>2. PICK i \in Bad : \A j \in Bad : i =< j
    <3> HIDE DEF Bad
    <3> QED
      BY <2>1, LeastNatural
  <2> HIDE DEF k
  <2>3. i # 0 /\ i \in 1..c
    BY <1>1, <1>3, <2>2
  <2>4. i - 1 \in 0..c /\ i - 1 \notin Bad
    BY <1>1, <2>2, <2>3
  <2> QED
    BY <1>4, <2>2, <2>3, <2>4
<1> QED
  BY <1>5

(* A finite set of numbers has a greatest one.                               *)
LEMMA GreatestNatural ==
    ASSUME NEW S, S \subseteq Nat, IsFiniteSet(S), S # {}
    PROVE  \E x \in S : \A y \in S : y =< x
<1> DEFINE Above(x) == {y \in S : y > x}
           F == {Above(x) : x \in S}
<1>1. F \in SUBSET SUBSET S /\ F # {}
  OBVIOUS
<1>2. PICK A \in F : \A B \in F : B \subseteq A => B = A
  <2>1. IsFiniteSet(S)
    OBVIOUS
  <2> HIDE DEF F
  <2> QED
    BY ONLY <1>1, <2>1, LeastFinite
<1>3. PICK x \in S : A = Above(x)
  BY <1>2
<1>4. \A y \in S : y =< x
  <2> SUFFICES ASSUME NEW y \in S, y > x PROVE FALSE
    OBVIOUS
  <2>1. Above(y) \subseteq A
    <3>1. \A z \in S : z > y => z > x
      OBVIOUS
    <3> QED
      BY <1>3, <3>1
  <2>2. y \in A /\ y \notin Above(y)
    BY <1>3
  <2>3. Above(y) \in F
    OBVIOUS
  <2> HIDE DEF F, Above
  <2> QED
    BY <1>2, <2>1, <2>2, <2>3
<1> QED
  BY <1>4

Ascends(seq) == \A i, j \in DOMAIN seq : i < j => seq[i] < seq[j]

(* A finite set of numbers can be listed in ascending order.                 *)
LEMMA CanBeSorted ==
    ASSUME NEW S, S \subseteq Nat, IsFiniteSet(S)
    PROVE  \E seq \in [1..Cardinality(S) -> S] : Ascends(seq)
<1> DEFINE Sortable(A) == \E seq \in [1..Cardinality(A) -> A] : Ascends(seq)
           F == {A \in SUBSET S : ~Sortable(A)}
<1> SUFFICES ASSUME F # {} PROVE FALSE
  OBVIOUS
<1>1. PICK A \in F : \A B \in F : B \subseteq A => B = A
  <2>1. F \in SUBSET SUBSET S
    OBVIOUS
  <2>2. F # {}
    OBVIOUS
  <2>3. IsFiniteSet(S)
    OBVIOUS
  <2> HIDE DEF F
  <2> QED
    BY ONLY <2>1, <2>2, <2>3, LeastFinite
<1>2. A \in SUBSET Nat /\ IsFiniteSet(A)
  BY FS_Subset
<1>3. A # {}
  <2> SUFFICES Sortable({})
    BY <1>1
  <2>1. <<>> \in [1..Cardinality({}) -> {}] /\ Ascends(<<>>)
    BY FS_EmptySet DEF Ascends
  <2> QED
    BY <2>1
<1>4. PICK x \in A : \A y \in A : y =< x
  BY <1>2, <1>3, GreatestNatural
<1> DEFINE rest == A \ {x}
           n == Cardinality(rest)
<1>5. rest \in SUBSET A /\ rest \in SUBSET S /\ rest # A
  BY <1>1
<1>6. n \in Nat /\ Cardinality(A) = n + 1
  <2>1. PICK B : B = A
    OBVIOUS
  <2>2. IsFiniteSet(B) /\ x \in B
    BY <1>2, <2>1
  <2>3. Cardinality(B) \in Nat /\ Cardinality(B \ {x}) = Cardinality(B) - 1
    BY <2>2, FS_CardinalityType, FS_RemoveElement
  <2>4. IsFiniteSet(B \ {x})
    BY <2>2, FS_Subset
  <2>5. Cardinality(B \ {x}) \in Nat
    BY <2>4, FS_CardinalityType
  <2> HIDE DEF F
  <2> QED
    BY <2>1, <2>3, <2>5
<1>7. PICK seq \in [1..n -> rest] : Ascends(seq)
  <2> HIDE DEF rest
  <2> QED
    BY <1>1, <1>5
<1> DEFINE longer == [i \in 1..(n + 1) |-> IF i = n + 1 THEN x ELSE seq[i]]
<1> HIDE DEF n
<1>8. longer \in [1..Cardinality(A) -> A]
  BY <1>6
<1>9. Ascends(longer)
  <2> SUFFICES ASSUME NEW i \in 1..(n + 1), NEW j \in 1..(n + 1), i < j
               PROVE  longer[i] < longer[j]
    BY <1>6 DEF Ascends
  <2>1. i \in 1..n /\ longer[i] = seq[i]
    BY <1>6
  <2>2. CASE j = n + 1
    <3>1. seq[i] \in A /\ seq[i] # x /\ longer[j] = x
      BY <2>1, <2>2
    <3>2. seq[i] \in Nat /\ x \in Nat /\ seq[i] =< x
      BY <1>2, <1>4, <3>1
    <3> HIDE DEF F, longer
    <3> QED
      BY <2>1, <3>1, <3>2
  <2>3. CASE j # n + 1
    <3>1. j \in 1..n /\ longer[j] = seq[j]
      BY <1>6, <2>3
    <3> QED
      BY <1>7, <2>1, <3>1 DEF Ascends
  <2> QED
    BY <2>2, <2>3
<1>10. Sortable(A)
  <2> HIDE DEF longer
  <2> QED
    BY <1>8, <1>9
<1> QED
  BY <1>1, <1>10

LEMMA AlphabeticalFacts ==
    ASSUME NEW S, S \subseteq Nat, IsFiniteSet(S)
    PROVE  /\ Alphabetical(S) \in Seq(S)
           /\ {Alphabetical(S)[i] : i \in DOMAIN Alphabetical(S)} = S
           /\ Ascends(Alphabetical(S))
<1> DEFINE c   == Cardinality(S)
           seq == Alphabetical(S)
           R   == {seq[i] : i \in DOMAIN seq}
<1>1. c \in Nat
  BY FS_CardinalityType
<1>2. \E a \in [1..c -> S] : Ascends(a)
  BY CanBeSorted
<1>3. seq \in [1..c -> S] /\ Ascends(seq)
  BY <1>2 DEF Alphabetical, Ascends
<1> HIDE DEF c, seq
<1>4. seq \in Seq(S) /\ DOMAIN seq = 1..c /\ R \subseteq S
  BY <1>1, <1>3
<1>5. \A i, j \in 1..c : seq[i] = seq[j] => i = j
  <2> SUFFICES ASSUME NEW i \in 1..c, NEW j \in 1..c, i < j, seq[i] = seq[j] PROVE FALSE
    BY <1>1
  <2>1. seq[i] < seq[j] /\ seq[i] \in Nat
    BY <1>3, <1>4 DEF Ascends
  <2> QED
    BY <2>1
<1>6. seq \in Bijection(1..c, R)
  BY <1>3, <1>4, <1>5 DEF Bijection, Injection, Surjection, IsInjective
<1>7. Cardinality(R) = c
  <2>1. ExistsBijection(1..c, R)
    BY <1>6 DEF ExistsBijection
  <2> HIDE DEF R
  <2> QED
    BY <1>1, <2>1, FS_NatBijection, FS_CountingElements
<1>8. R = S
  <2> HIDE DEF R
  <2> QED
    BY <1>4, <1>7, FS_Subset DEF c
<1> QED
  BY <1>3, <1>4, <1>8 DEF seq

LEMMA ConcatFacts ==
    ASSUME NEW S, NEW a \in Seq(S), NEW b \in Seq(S)
    PROVE  /\ a \o b \in Seq(S)
           /\ Len(a) \in Nat /\ Len(b) \in Nat
           /\ DOMAIN a = 1..Len(a) /\ DOMAIN b = 1..Len(b)
           /\ DOMAIN (a \o b) = 1..(Len(a) + Len(b))
           /\ \A i \in 1..Len(a) : (a \o b)[i] = a[i]
           /\ \A i \in 1..Len(b) : (a \o b)[Len(a) + i] = b[i]
OBVIOUS

Listed(seq) == {seq[i] : i \in DOMAIN seq}

Joined(a, b) == a \o b

ListsOnce(seq) == \A i, j \in DOMAIN seq : seq[i] = seq[j] => i = j

(* Lists of different things, one after the other.                           *)
LEMMA ConcatListsBoth ==
    ASSUME NEW S, NEW a \in Seq(S), NEW b \in Seq(S), Listed(a) \cap Listed(b) = {},
           ListsOnce(a), ListsOnce(b)
    PROVE  /\ Joined(a, b) \in Seq(S)
           /\ Listed(Joined(a, b)) = Listed(a) \cup Listed(b)
           /\ ListsOnce(Joined(a, b))
<1> DEFINE A == Listed(a)
           B == Listed(b)
           s == a \o b
           m == Len(a)
           n == Len(b)
<1>1. /\ s \in Seq(S) /\ m \in Nat /\ n \in Nat
      /\ DOMAIN a = 1..m /\ DOMAIN b = 1..n /\ DOMAIN s = 1..(m + n)
      /\ \A i \in 1..m : s[i] = a[i]
      /\ \A i \in 1..n : s[m + i] = b[i]
  BY ConcatFacts
<1>0. /\ A = {a[i] : i \in DOMAIN a} /\ B = {b[i] : i \in DOMAIN b} /\ A \cap B = {}
      /\ \A i, j \in DOMAIN a : a[i] = a[j] => i = j
      /\ \A i, j \in DOMAIN b : b[i] = b[j] => i = j
  BY DEF Listed, ListsOnce
<1> HIDE DEF s, m, n, A, B
<1>2. \A i \in 1..(m + n) : i \in 1..m \/ (i - m \in 1..n /\ i = m + (i - m))
  BY <1>1
<1>3. \A i \in 1..m : s[i] \in A
  BY <1>0, <1>1
<1>4. \A i \in 1..(m + n) : i \notin 1..m => s[i] = b[i - m] /\ s[i] \in B
  <2> SUFFICES ASSUME NEW i \in 1..(m + n), i \notin 1..m
               PROVE  s[i] = b[i - m] /\ s[i] \in B
    OBVIOUS
  <2>1. i - m \in 1..n /\ m + (i - m) = i
    BY <1>1, <1>2
  <2>2. s[m + (i - m)] = b[i - m]
    BY <1>1, <2>1
  <2> QED
    BY <1>0, <1>1, <2>1, <2>2
<1>5. {s[i] : i \in DOMAIN s} = A \cup B
  <2>1. \A i \in DOMAIN s : s[i] \in A \cup B
    BY <1>1, <1>3, <1>4
  <2>2. \A x \in A : \E i \in DOMAIN s : s[i] = x
    BY <1>0, <1>1
  <2>3. \A x \in B : \E i \in DOMAIN s : s[i] = x
    <3> SUFFICES ASSUME NEW i \in 1..n PROVE \E j \in DOMAIN s : s[j] = b[i]
      BY <1>0, <1>1
    <3>1. m + i \in DOMAIN s /\ s[m + i] = b[i]
      BY <1>1
    <3> QED
      BY <3>1
  <2> QED
    BY ONLY <2>1, <2>2, <2>3
<1>6. ASSUME NEW i \in 1..(m + n), NEW j \in 1..(m + n), s[i] = s[j]
      PROVE  i = j
  <2>1. CASE i \in 1..m /\ j \in 1..m
    BY <1>0, <1>1, <1>6, <2>1
  <2>2. CASE i \notin 1..m /\ j \notin 1..m
    <3>1. b[i - m] = b[j - m] /\ i - m \in 1..n /\ j - m \in 1..n
      BY <1>2, <1>4, <1>6, <2>2
    <3>2. i - m = j - m
      BY <1>0, <1>1, <3>1
    <3> QED
      BY <1>1, <3>2
  <2>3. CASE i \in 1..m <=> j \notin 1..m
    BY <1>0, <1>3, <1>4, <1>6, <2>3
  <2> QED
    BY <2>1, <2>2, <2>3
<1>7. Listed(s) = A \cup B /\ ListsOnce(s)
  BY <1>1, <1>5, <1>6 DEF Listed, ListsOnce
<1> QED
  BY <1>1, <1>7 DEF s, A, B, Joined

(* `topological_order` of any plan, cyclic or with unknown or repeated        *)
(* dependencies: no step is lost and none is dispatched twice.                *)
THEOREM OrderLosesNoStep ==
    ASSUME NEW p, IsPlan(p)
    PROVE  LET order == TopologicalOrder(p) IN
           /\ order \in Seq(p.steps)
           /\ {order[i] : i \in DOMAIN order} = p.steps
           /\ \A i, j \in DOMAIN order : order[i] = order[j] => i = j
<1> DEFINE k    == KahnLoop(p)[Cardinality(p.steps)]
           rest == p.steps \ k.emitted
<1>1. Cardinality(p.steps) \in Nat /\ p.steps \subseteq Nat /\ IsFiniteSet(p.steps)
  BY FS_CardinalityType DEF IsPlan
<1>2. EmitsOnce(p, k)
  BY <1>1, LoopEmitsOnce
<1>3. PICK steps, a, b : steps = p.steps /\ a = k.out /\ b = Alphabetical(rest)
  OBVIOUS
<1>4. TopologicalOrder(p) = Joined(a, b)
  BY <1>3 DEF TopologicalOrder, Joined
<1> HIDE DEF k
<1>5. /\ a \in Seq(steps) /\ k.emitted = {a[i] : i \in DOMAIN a}
      /\ \A i, j \in DOMAIN a : a[i] = a[j] => i = j
  BY <1>2, <1>3 DEF EmitsOnce
<1>6. k.emitted \subseteq p.steps
  BY <1>3, <1>5
<1>7. rest \subseteq Nat /\ IsFiniteSet(rest)
  <2>1. rest \subseteq p.steps
    OBVIOUS
  <2> HIDE DEF rest
  <2> QED
    BY <1>1, <2>1, FS_Subset
<1> HIDE DEF rest
<1>8. b \in Seq(rest) /\ rest = {b[i] : i \in DOMAIN b} /\ Ascends(b)
  <2>1. /\ Alphabetical(rest) \in Seq(rest)
        /\ {Alphabetical(rest)[i] : i \in DOMAIN Alphabetical(rest)} = rest
        /\ Ascends(Alphabetical(rest))
    BY <1>7, AlphabeticalFacts
  <2> QED
    BY <1>3, <2>1
<1>9. \A i, j \in DOMAIN b : b[i] = b[j] => i = j
  <2>1. \A i \in DOMAIN b : i \in Nat /\ b[i] \in Nat
    BY <1>7, <1>8
  <2> SUFFICES ASSUME NEW i \in DOMAIN b, NEW j \in DOMAIN b, b[i] = b[j], i < j PROVE FALSE
    BY <2>1
  <2>2. b[i] < b[j]
    BY <1>8 DEF Ascends
  <2> QED
    BY <2>1, <2>2
<1>10. rest \subseteq steps /\ rest \cap k.emitted = {} /\ k.emitted \cup rest = steps
  BY <1>3, <1>6 DEF rest
<1>11. b \in Seq(steps)
  BY <1>8, <1>10
<1>12. PICK done : done = k.emitted
  OBVIOUS
<1>13. /\ done = {a[i] : i \in DOMAIN a} /\ done \cap rest = {} /\ done \cup rest = steps
  BY <1>5, <1>10, <1>12
<1>14. Listed(a) = done /\ Listed(b) = rest /\ ListsOnce(a) /\ ListsOnce(b)
  BY <1>5, <1>8, <1>9, <1>13 DEF Listed, ListsOnce
<1>15. Joined(a, b) \in Seq(steps) /\ Listed(Joined(a, b)) = steps /\ ListsOnce(Joined(a, b))
  <2>1. a \in Seq(steps) /\ Listed(a) \cap Listed(b) = {} /\ Listed(a) \cup Listed(b) = steps
    BY <1>5, <1>13, <1>14
  <2>2. /\ Joined(a, b) \in Seq(steps)
        /\ Listed(Joined(a, b)) = Listed(a) \cup Listed(b)
        /\ ListsOnce(Joined(a, b))
    BY <1>11, <1>14, <2>1, ConcatListsBoth
  <2> QED
    BY <2>1, <2>2
<1> DEFINE order == TopologicalOrder(p)
<1>16. /\ order \in Seq(steps)
       /\ {order[i] : i \in DOMAIN order} = steps
       /\ \A i, j \in DOMAIN order : order[i] = order[j] => i = j
  BY <1>4, <1>15 DEF Listed, ListsOnce
<1> QED
  BY <1>3, <1>16

(***************************************************************************)
(* Paths by rounds                                                         *)
(***************************************************************************)
(* The first of the rounds that have a property is the first round of all, or *)
(* follows one that has not.                                                 *)
LEMMA FirstRound ==
    ASSUME NEW c \in Nat, NEW T, T \subseteq 1..c, T # {}
    PROVE  \E n \in T : n # 1 => n \in 2..c /\ n - 1 \in 1..c /\ n - 1 \notin T
<1>1. T \in SUBSET Nat
  OBVIOUS
<1>2. PICK n \in T : \A m \in T : n =< m
  BY <1>1, LeastNatural
<1>3. ASSUME n # 1
      PROVE  n \in 2..c /\ n - 1 \in 1..c /\ ~(n =< n - 1)
  BY <1>2, <1>3
<1> QED
  BY <1>2, <1>3

(* The rounds that find the paths follow one another.                        *)
LEMMA PathsUnfold ==
    ASSUME NEW N, NEW E, Cardinality(N) \in Nat \ {0}
    PROVE  \E f : /\ Paths(N, E) = f[Cardinality(N)]
                  /\ f[1] = E
                  /\ \A n \in 2..Cardinality(N) : f[n] = Extended(N, E, f[n - 1])
<1> DEFINE c == Cardinality(N)
           Runs(f, n) == f = [i \in 1..n |-> IF i = 1 THEN E ELSE Extended(N, E, f[i - 1])]
           Short == {n \in 1..c : ~ \E f : Runs(f, n)}
<1>1. Short = {}
  <2> SUFFICES ASSUME Short # {} PROVE FALSE
    OBVIOUS
  <2>0. c \in Nat /\ Short \subseteq 1..c
    OBVIOUS
  <2>1. PICK n \in Short : n # 1 => n \in 2..c /\ n - 1 \in 1..c /\ n - 1 \notin Short
    <3> HIDE DEF Short, c
    <3> QED
      BY <2>0, FirstRound
  <2>2. CASE n = 1
    <3> DEFINE f == [i \in 1..1 |-> E]
    <3>1. Runs(f, 1)
      OBVIOUS
    <3> QED
      BY <2>2, <3>1
  <2>3. CASE n # 1
    <3>1. n \in 2..c /\ n - 1 \in 1..c /\ n - 1 \notin Short
      BY <2>1, <2>3
    <3>2. PICK g : Runs(g, n - 1)
      BY <3>1
    <3> DEFINE f == [i \in 1..n |-> IF i = n THEN Extended(N, E, g[n - 1]) ELSE g[i]]
    <3>3. \A i \in 1..n : f[i] = IF i = 1 THEN E ELSE Extended(N, E, f[i - 1])
      BY <3>1, <3>2
    <3>4. Runs(f, n)
      BY <3>3
    <3> QED
      BY <3>4
  <2> QED
    BY <2>2, <2>3
<1>2. \E f : Runs(f, c)
  BY <1>1
<1> DEFINE path == CHOOSE f : Runs(f, c)
<1>3. Runs(path, c)
  BY <1>2
<1>4. Paths(N, E) = path[c]
  BY DEF Paths
<1> HIDE DEF c, path
<1>5. c \in Nat \ {0}
  BY DEF c
<1>6. path = [i \in 1..c |-> IF i = 1 THEN E ELSE Extended(N, E, path[i - 1])]
  BY <1>3
<1>7. path[1] = E
  BY <1>5, <1>6
<1>8. \A n \in 2..c : path[n] = Extended(N, E, path[n - 1])
  BY <1>5, <1>6
<1> QED
  BY <1>4, <1>7, <1>8 DEF c

(* A finite set with a part of its own size is that part.                    *)
LEMMA ProperPartIsSmaller ==
    ASSUME NEW S, IsFiniteSet(S), NEW T, T \subseteq S
    PROVE  /\ IsFiniteSet(T) /\ Cardinality(T) \in Nat /\ Cardinality(S) \in Nat
           /\ Cardinality(T) =< Cardinality(S)
           /\ T # S => Cardinality(T) < Cardinality(S)
BY FS_Subset, FS_CardinalityType

(* With as many rounds as there are nodes every path has been found: the      *)
(* pairs found are the least set with the edges that an edge in front of a    *)
(* pair does not leave.                                                      *)
LEMMA PathsFacts ==
    ASSUME NEW N, IsFiniteSet(N), N # {}, NEW E, E \subseteq N \X N
    PROVE  /\ E \subseteq Paths(N, E)
           /\ Paths(N, E) \subseteq N \X N
           /\ Extended(N, E, Paths(N, E)) \subseteq Paths(N, E)
           /\ \A Q : E \subseteq Q /\ Extended(N, E, Q) \subseteq Q => Paths(N, E) \subseteq Q
<1> DEFINE c == Cardinality(N)
<1>1. c \in Nat \ {0}
  BY FS_CardinalityType, FS_EmptySet
<1>2. PICK f : /\ Paths(N, E) = f[c]
               /\ f[1] = E
               /\ \A n \in 2..c : f[n] = Extended(N, E, f[n - 1])
  BY <1>1, PathsUnfold
<1> HIDE DEF c
<1>3. ASSUME NEW Q, E \subseteq Q, Extended(N, E, Q) \subseteq Q
      PROVE  f[c] \subseteq Q
  <2> DEFINE Bad == {n \in 1..c : ~(f[n] \subseteq Q)}
  <2> SUFFICES ASSUME Bad # {} PROVE FALSE
    BY <1>1
  <2>0. Bad \subseteq 1..c
    OBVIOUS
  <2>1. PICK n \in Bad : n # 1 => n \in 2..c /\ n - 1 \in 1..c /\ n - 1 \notin Bad
    <3> HIDE DEF Bad
    <3> QED
      BY <1>1, <2>0, FirstRound
  <2>2. n # 1
    BY <1>2, <1>3
  <2>3. n \in 2..c /\ f[n - 1] \subseteq Q
    BY <2>1, <2>2
  <2>4. Extended(N, E, f[n - 1]) \subseteq Extended(N, E, Q)
    BY <2>3 DEF Extended
  <2> QED
    BY <1>2, <1>3, <2>1, <2>2, <2>3, <2>4
<1>4. E \subseteq f[c]
  <2> DEFINE Bad == {n \in 1..c : ~(E \subseteq f[n])}
  <2> SUFFICES ASSUME Bad # {} PROVE FALSE
    BY <1>1
  <2>0. Bad \subseteq 1..c
    OBVIOUS
  <2>1. PICK n \in Bad : n # 1 => n \in 2..c /\ n - 1 \in 1..c /\ n - 1 \notin Bad
    <3> HIDE DEF Bad
    <3> QED
      BY <1>1, <2>0, FirstRound
  <2>2. n # 1
    BY <1>2
  <2>3. n \in 2..c /\ E \subseteq f[n - 1]
    BY <2>1, <2>2
  <2>4. f[n - 1] \subseteq Extended(N, E, f[n - 1])
    BY DEF Extended
  <2> QED
    BY <1>2, <2>3, <2>4
<1>5. f[c] \subseteq N \X N
  <2>1. Extended(N, E, N \X N) \subseteq N \X N
    BY DEF Extended
  <2> QED
    BY <1>3, <2>1
<1>6. ASSUME NEW s \in N, NEW d \in N, NEW r \in N, <<s, d>> \in E, <<d, r>> \in f[c]
      PROVE  <<s, r>> \in f[c]
  <2> DEFINE Into(n)   == {t \in N : <<t, r>> \in f[n]}
             Closed(n) == \A x, y \in N : <<x, y>> \in E /\ y \in Into(n) => x \in Into(n)
             Good(n)   == Closed(n) \/ Cardinality(Into(n)) >= n
             Bad       == {n \in 1..c : ~Good(n)}
  <2>1. \A n : Into(n) \subseteq N
    OBVIOUS
  <2>2. ASSUME NEW n \in 2..c
        PROVE  Into(n) = Into(n - 1) \cup {x \in N : \E y \in N : <<x, y>> \in E /\ y \in Into(n - 1)}
    BY <1>2 DEF Extended
  <2>3. Good(1)
    <3>1. CASE Into(1) = {}
      BY <3>1
    <3>2. CASE Into(1) # {}
      <4> HIDE DEF Into
      <4>1. Cardinality(Into(1)) \in Nat /\ Cardinality(Into(1)) # 0
        BY <2>1, <3>2, ProperPartIsSmaller, FS_EmptySet
      <4> QED
        BY <4>1
    <3> QED
      BY <3>1, <3>2
  <2>4. ASSUME NEW n \in 2..c, Good(n - 1)
        PROVE  Good(n)
    <3>1. CASE Closed(n - 1)
      <4>1. PICK before, added : before = Into(n - 1)
                                 /\ added = {x \in N : \E y \in N : <<x, y>> \in E /\ y \in Into(n - 1)}
        OBVIOUS
      <4>2. \A x, y \in N : <<x, y>> \in E /\ y \in before => x \in before
        BY <3>1, <4>1
      <4>3. Into(n) = before \cup added
        BY <2>2, <4>1
      <4>4. added = {x \in N : \E y \in N : <<x, y>> \in E /\ y \in before}
        BY <4>1
      <4>5. added \subseteq before
        BY ONLY <4>2, <4>4
      <4>6. Into(n) = Into(n - 1)
        BY ONLY <4>1, <4>3, <4>5
      <4> HIDE DEF Into
      <4> QED
        BY <3>1, <4>6
    <3>2. CASE ~Closed(n - 1)
      <4> HIDE DEF Into
      <4>1. Into(n - 1) \subseteq Into(n) /\ Into(n - 1) # Into(n)
        BY <2>2, <3>2
      <4>2. IsFiniteSet(Into(n)) /\ Cardinality(Into(n)) \in Nat /\ Cardinality(Into(n - 1)) \in Nat
        BY <2>1, ProperPartIsSmaller
      <4>3. Cardinality(Into(n - 1)) < Cardinality(Into(n))
        BY <4>1, <4>2, ProperPartIsSmaller
      <4>4. Cardinality(Into(n - 1)) >= n - 1
        BY <2>4, <3>2
      <4> QED
        BY <4>2, <4>3, <4>4
    <3> QED
      BY <3>1, <3>2
  <2>5. Good(c)
    <3> HIDE DEF Good
    <3> SUFFICES ASSUME Bad # {} PROVE FALSE
      BY <1>1
    <3>0. Bad \subseteq 1..c
      OBVIOUS
    <3>1. PICK n \in Bad : n # 1 => n \in 2..c /\ n - 1 \in 1..c /\ n - 1 \notin Bad
      <4> HIDE DEF Bad
      <4> QED
        BY <1>1, <3>0, FirstRound
    <3>2. n # 1
      BY <2>3
    <3>3. n \in 2..c /\ Good(n - 1)
      BY <3>1, <3>2
    <3> QED
      BY <2>4, <3>3
  <2>6. Closed(c)
    <3>1. CASE Cardinality(Into(c)) >= c
      <4>1. Into(c) = N
        <5> HIDE DEF Into
        <5>1. /\ Cardinality(Into(c)) \in Nat
              /\ Into(c) # N => Cardinality(Into(c)) < Cardinality(N)
          BY <2>1, ProperPartIsSmaller
        <5> QED
          BY <1>1, <3>1, <5>1 DEF c
      <4> HIDE DEF Into
      <4> QED
        BY <4>1
    <3> QED
      BY <2>5, <3>1
  <2> QED
    BY <1>6, <2>6
<1>7. Extended(N, E, f[c]) \subseteq f[c]
  <2> SUFFICES ASSUME NEW e \in Extended(N, E, f[c]) PROVE e \in f[c]
    OBVIOUS
  <2>1. CASE e \in f[c]
    BY <2>1
  <2>2. CASE e \notin f[c]
    <3>1. e \in N \X N /\ \E d \in N : <<e[1], d>> \in E /\ <<d, e[2]>> \in f[c]
      BY <2>2 DEF Extended
    <3>2. PICK s \in N, r \in N : e = <<s, r>>
      BY <3>1
    <3>3. e[1] = s /\ e[2] = r
      BY <3>2
    <3> QED
      BY <1>6, <3>1, <3>2, <3>3
  <2> QED
    BY <2>1, <2>2
<1> QED
  BY <1>2, <1>3, <1>4, <1>5, <1>7

(* As executed or as rounds: the downstream closure is what depends on the    *)
(* root along a path.                                                        *)
LEMMA DownstreamIsJoined ==
    ASSUME NEW p, IsPlan(p), NEW r \in p.steps
    PROVE  DownstreamClosure(p, r) = {r} \cup {s \in p.steps : <<s, r>> \in Paths(p.steps, DependsOn(p))}
<1> DEFINE N == p.steps
           E == DependsOn(p)
           P == Paths(N, E)
           C == {r} \cup {s \in N : <<s, r>> \in P}
           Q == {e \in N \X N : e[1] \in DownstreamClosure(p, e[2])}
<1>1. IsFiniteSet(N) /\ N # {} /\ E \subseteq N \X N
  BY DEF IsPlan, DependsOn
<1>2. \A s, d \in N : <<s, d>> \in E <=> d \in Deps(p, s)
  BY DEF DependsOn
<1> HIDE DEF E
<1>3. /\ E \subseteq P /\ P \subseteq N \X N /\ Extended(N, E, P) \subseteq P
      /\ E \subseteq Q /\ Extended(N, E, Q) \subseteq Q => P \subseteq Q
  <2> HIDE DEF N, Q
  <2> QED
    BY <1>1, PathsFacts
<1> HIDE DEF P
<1>4. \A s, d, t \in N : <<s, d>> \in E /\ <<d, t>> \in P => <<s, t>> \in P
  BY <1>3 DEF Extended
<1>5. DownstreamClosure(p, r) \subseteq C
  <2>1. r \in C /\ C \in SUBSET p.steps
    OBVIOUS
  <2>2. ASSUME NEW t \in p.steps, NEW d \in Deps(p, t), d \in C
        PROVE  t \in C
    <3>1. <<t, d>> \in E
      BY <1>2, <2>1, <2>2
    <3>2. CASE d = r
      BY <1>3, <3>1, <3>2
    <3>3. CASE d # r
      BY <1>4, <2>2, <3>1, <3>3
    <3> QED
      BY <3>2, <3>3
  <2>3. \A t \in p.steps : Deps(p, t) \cap C # {} => t \in C
    BY <2>2
  <2> HIDE DEF C
  <2> QED
    BY <2>1, <2>3, ClosureFacts
<1>6. \A s, d, t \in N : <<s, d>> \in E /\ d \in DownstreamClosure(p, t) => s \in DownstreamClosure(p, t)
  <2> SUFFICES ASSUME NEW s \in N, NEW d \in N, NEW t \in N, <<s, d>> \in E, d \in DownstreamClosure(p, t)
               PROVE  s \in DownstreamClosure(p, t)
    OBVIOUS
  <2>1. Deps(p, s) \cap DownstreamClosure(p, t) # {}
    BY <1>2
  <2> QED
    BY <2>1, ClosureFacts
<1>7. P \subseteq Q
  <2>1. ASSUME NEW s \in N, NEW d \in N, <<s, d>> \in E
        PROVE  s \in DownstreamClosure(p, d)
    BY <1>6, <2>1, ClosureFacts
  <2>2. E \subseteq Q
    <3> SUFFICES ASSUME NEW e \in E PROVE e \in Q
      OBVIOUS
    <3>1. PICK s \in N, d \in N : e = <<s, d>>
      BY <1>1
    <3> QED
      BY <2>1, <3>1
  <2>3. Extended(N, E, Q) \subseteq Q
    <3> SUFFICES ASSUME NEW e \in Extended(N, E, Q), e \notin Q PROVE FALSE
      OBVIOUS
    <3>1. e \in N \X N /\ \E d \in N : <<e[1], d>> \in E /\ <<d, e[2]>> \in Q
      BY DEF Extended
    <3>2. PICK d \in N : <<e[1], d>> \in E /\ d \in DownstreamClosure(p, e[2])
      BY <3>1
    <3>3. e[1] \in N /\ e[2] \in N
      BY <3>1
    <3>4. e[1] \in DownstreamClosure(p, e[2])
      BY <1>6, <3>2, <3>3
    <3> QED
      BY <3>1, <3>4
  <2> QED
    BY <1>3, <2>2, <2>3
<1>8. C \subseteq DownstreamClosure(p, r)
  BY <1>7, ClosureFacts
<1> QED
  BY <1>5, <1>8 DEF P, E

(* The body closure holds the body of its owner and those of its members, and *)
(* no more than it must.                                                     *)
LEMMA OwnedFacts ==
    ASSUME NEW p, NEW o
    PROVE  /\ Spawned(p, o) \subseteq FanOutBodyClosure(p, o)
           /\ FanOutBodyClosure(p, o) \subseteq FanOutOwned(p)
           /\ \A t \in FanOutBodyClosure(p, o) : Spawned(p, t) \subseteq FanOutBodyClosure(p, o)
           /\ \A C \in SUBSET FanOutOwned(p) :
                 /\ Spawned(p, o) \subseteq C
                 /\ \A t \in C : Spawned(p, t) \subseteq C
                 => FanOutBodyClosure(p, o) \subseteq C
<1>1. \A t : Spawned(p, t) \subseteq FanOutOwned(p)
  BY DEF Spawned, FanOutOwned
<1> QED
  BY <1>1 DEF FanOutBodyClosure

(* The body closure is what spawn lists lead to along a path.                *)
LEMMA BodyIsJoined ==
    ASSUME NEW p, IsPlan(p), FanOutOwned(p) \subseteq p.steps, NEW o \in p.steps
    PROVE  FanOutBodyClosure(p, o) = {b \in p.steps : <<o, b>> \in Paths(p.steps, Spawns(p))}
<1> DEFINE N == p.steps
           E == Spawns(p)
           P == Paths(N, E)
           Body(s) == FanOutBodyClosure(p, s)
           C == {b \in FanOutOwned(p) : <<o, b>> \in P}
           Q == {e \in N \X N : e[2] \in Body(e[1])}
           R == {e \in N \X N : e[2] \in FanOutOwned(p) /\ \A b \in N : <<e[2], b>> \in E => <<e[1], b>> \in P}
<1>1. IsFiniteSet(N) /\ N # {} /\ E \subseteq N \X N
  BY DEF IsPlan, Spawns
<1>2. \A s, b \in N : <<s, b>> \in E <=> b \in Spawned(p, s)
  BY DEF Spawns
<1>3. \A s : Spawned(p, s) \subseteq FanOutOwned(p) /\ Spawned(p, s) \subseteq N
  BY DEF Spawned, FanOutOwned
<1> HIDE DEF E
<1>4. /\ E \subseteq P /\ P \subseteq N \X N /\ Extended(N, E, P) \subseteq P
      /\ E \subseteq Q /\ Extended(N, E, Q) \subseteq Q => P \subseteq Q
      /\ E \subseteq R /\ Extended(N, E, R) \subseteq R => P \subseteq R
  <2> HIDE DEF N, Q, R
  <2> QED
    BY <1>1, PathsFacts
<1> HIDE DEF P
<1>5. \A s, d, t \in N : <<s, d>> \in E /\ <<d, t>> \in P => <<s, t>> \in P
  BY <1>4 DEF Extended
<1>6. P \subseteq R
  <2>1. E \subseteq R
    <3> SUFFICES ASSUME NEW e \in E PROVE e \in R
      OBVIOUS
    <3>1. PICK s \in N, d \in N : e = <<s, d>>
      BY <1>1
    <3>2. \A b \in N : <<d, b>> \in E => <<s, b>> \in P
      BY <1>4, <1>5, <3>1
    <3> QED
      BY <1>2, <1>3, <3>1, <3>2
  <2>2. Extended(N, E, R) \subseteq R
    <3> SUFFICES ASSUME NEW e \in Extended(N, E, R), e \notin R PROVE FALSE
      OBVIOUS
    <3>1. e \in N \X N /\ \E d \in N : <<e[1], d>> \in E /\ <<d, e[2]>> \in R
      BY DEF Extended
    <3>2. PICK s \in N, t \in N : e = <<s, t>>
      BY <3>1
    <3>3. PICK d \in N : <<s, d>> \in E /\ <<d, t>> \in R
      BY <3>1, <3>2
    <3>4. t \in FanOutOwned(p) /\ \A b \in N : <<t, b>> \in E => <<d, b>> \in P
      BY <3>3
    <3>5. \A b \in N : <<t, b>> \in E => <<s, b>> \in P
      BY <1>5, <3>3, <3>4
    <3> QED
      BY <3>2, <3>4, <3>5
  <2> QED
    BY <1>4, <2>1, <2>2
<1>7. Body(o) \subseteq C
  <2>1. C \in SUBSET FanOutOwned(p)
    OBVIOUS
  <2>2. Spawned(p, o) \subseteq C
    BY <1>2, <1>3, <1>4
  <2>3. ASSUME NEW t \in C, NEW b \in Spawned(p, t)
        PROVE  b \in C
    <3>1. t \in N /\ b \in N /\ <<t, b>> \in E /\ <<o, t>> \in R
      BY <1>2, <1>3, <1>6
    <3>2. <<o, b>> \in P
      BY <3>1
    <3> QED
      BY <1>3, <3>2
  <2> HIDE DEF C
  <2> QED
    BY <2>1, <2>2, <2>3, OwnedFacts
<1>8. \A s, d, t \in N : <<s, d>> \in E /\ t \in Body(d) => t \in Body(s)
  <2> SUFFICES ASSUME NEW s \in N, NEW d \in N, NEW t \in N, <<s, d>> \in E, t \in Body(d)
               PROVE  t \in Body(s)
    OBVIOUS
  <2>1. d \in Body(s)
    BY <1>2, OwnedFacts
  <2>2. /\ Body(s) \in SUBSET FanOutOwned(p) /\ Spawned(p, d) \subseteq Body(s)
        /\ \A x \in Body(s) : Spawned(p, x) \subseteq Body(s)
    BY <2>1, OwnedFacts
  <2>3. Body(d) \subseteq Body(s)
    <3> HIDE DEF Body
    <3>1. Body(d) = FanOutBodyClosure(p, d)
      BY DEF Body
    <3> QED
      BY <2>2, <3>1, OwnedFacts
  <2> QED
    BY <2>3
<1>9. P \subseteq Q
  <2>1. E \subseteq Q
    <3> SUFFICES ASSUME NEW e \in E PROVE e \in Q
      OBVIOUS
    <3>1. PICK s \in N, d \in N : e = <<s, d>>
      BY <1>1
    <3>2. d \in Body(s)
      BY <1>2, <3>1, OwnedFacts
    <3> QED
      BY <3>1, <3>2
  <2>2. Extended(N, E, Q) \subseteq Q
    <3> SUFFICES ASSUME NEW e \in Extended(N, E, Q), e \notin Q PROVE FALSE
      OBVIOUS
    <3>1. e \in N \X N /\ \E d \in N : <<e[1], d>> \in E /\ <<d, e[2]>> \in Q
      BY DEF Extended
    <3>2. PICK s \in N, t \in N : e = <<s, t>>
      BY <3>1
    <3>3. PICK d \in N : <<s, d>> \in E /\ <<d, t>> \in Q
      BY <3>1, <3>2
    <3>4. t \in Body(d)
      BY <3>3
    <3>5. t \in Body(s)
      BY <1>8, <3>3, <3>4
    <3> QED
      BY <3>2, <3>5
  <2> QED
    BY <1>4, <2>1, <2>2
<1>10. \A b \in N : <<o, b>> \in P => b \in Body(o)
  BY <1>9
<1> QED
  BY <1>7, <1>10 DEF P, E

(* The execution order of every plan, of any size, is the one PlanGraph's     *)
(* property asks for: no step lost or repeated even if dependencies are        *)
(* cyclic, and in a valid plan always the alphabetically first step that may   *)
(* run.  A depends_on list must not repeat a step: in-degrees count its        *)
(* entries (dag.rs:30), releases its steps.                                   *)
THEOREM OrdersAreLeastReadyFirst ==
    ASSUME IsPlan(plan), NamesDependenciesOnce(plan)
    PROVE  OrderIsLeastReadyFirst
<1> DEFINE order == TopologicalOrder(plan)
<1>1. PICK p : p = plan
  OBVIOUS
<1>2. /\ order \in Seq(p.steps)
      /\ {order[i] : i \in DOMAIN order} = p.steps
      /\ \A i, j \in DOMAIN order : order[i] = order[j] => i = j
  BY <1>1, OrderLosesNoStep
<1>3. Len(order) = Cardinality(p.steps)
  <2>1. PICK out, steps : out = order /\ steps = p.steps
    OBVIOUS
  <2> HIDE DEF order
  <2>2. /\ out \in Seq(steps) /\ {out[i] : i \in DOMAIN out} = steps
        /\ \A i, j \in DOMAIN out : out[i] = out[j] => i = j
    BY <1>2, <2>1
  <2>3. Len(out) \in Nat /\ DOMAIN out = 1..Len(out)
    BY <2>2
  <2>4. out \in Bijection(1..Len(out), steps)
    BY <2>2, <2>3 DEF Bijection, Injection, Surjection, IsInjective
  <2>5. ExistsBijection(1..Len(out), steps)
    BY <2>4 DEF ExistsBijection
  <2>6. Cardinality(steps) = Len(out)
    BY <2>3, <2>5, FS_NatBijection, FS_CountingElements
  <2> QED
    BY <2>1, <2>6
<1>4. ValidGraph(p) => LeastReadyFirst(p, order)
  <2> SUFFICES ASSUME ValidGraph(p) PROVE LeastReadyFirst(p, order)
    OBVIOUS
  <2>1. Orderable(p)
    BY <1>1 DEF Orderable, ValidGraph
  <2> QED
    BY <1>1, <2>1, OrderIsTopological
<1> HIDE DEF order
<1>5. ASSUME ValidGraph(plan), NEW i \in DOMAIN order
      PROVE  LET done  == {order[j] : j \in 1..(i - 1)}
                 ready == {s \in plan.steps \ done : Deps(plan, s) \subseteq done}
             IN  order[i] \in ready /\ \A s \in ready : order[i] =< s
  BY <1>1, <1>4, <1>5 DEF LeastReadyFirst, Ready, Before
<1> QED
  BY <1>1, <1>2, <1>3, <1>5 DEF OrderIsLeastReadyFirst, order

(* What a repair resets is what a path leads to, in every plan of any size    *)
(* whose FAN_OUTs own only steps of the plan (check_fan_out_spawn_steps).     *)
THEOREM ClosuresAreAlwaysReachability ==
    ASSUME IsPlan(plan), FanOutOwned(plan) \subseteq plan.steps
    PROVE  ClosuresAreReachability
<1>1. PICK p : p = plan
  OBVIOUS
<1>2. ASSUME NEW r \in p.steps
      PROVE  DownstreamClosure(p, r) = {r} \cup {s \in p.steps : <<s, r>> \in Paths(p.steps, DependsOn(p))}
  BY <1>1, DownstreamIsJoined
<1>3. ASSUME NEW o \in p.steps
      PROVE  FanOutBodyClosure(p, o) = {b \in p.steps : <<o, b>> \in Paths(p.steps, Spawns(p))}
  BY <1>1, BodyIsJoined
<1>4. 0 \notin p.steps => DownstreamClosure(p, 0) = {}
  BY DEF DownstreamClosure
<1> QED
  BY <1>1, <1>2, <1>3, <1>4 DEF ClosuresAreReachability

(***************************************************************************)
(* Plans and their orders                                                  *)
(***************************************************************************)
LEMMA PlansAreOrderable ==
    ASSUME NEW v \in 1..Versions
    PROVE  Orderable(Plans[v]) /\ ValidGraph(Plans[v])
BY PlansAssumption, DependenciesAssumption DEF Orderable, ValidPlan, ValidGraph

(* The order lists every step once, after what it depends on.               *)
LEMMA OrderIsRight ==
    \A v \in 1..Versions :
        /\ PlanOrder[v] \in Seq(Plans[v].steps)
        /\ \A s \in Plans[v].steps : \E i \in DOMAIN PlanOrder[v] : PlanOrder[v][i] = s
        /\ \A i, j \in DOMAIN PlanOrder[v] : PlanOrder[v][i] = PlanOrder[v][j] => i = j
        /\ \A i \in DOMAIN PlanOrder[v] : \A d \in Deps(Plans[v], PlanOrder[v][i]) :
              \E j \in DOMAIN PlanOrder[v] : j < i /\ PlanOrder[v][j] = d
<1> SUFFICES ASSUME NEW v \in 1..Versions
             PROVE  /\ PlanOrder[v] \in Seq(Plans[v].steps)
                    /\ \A s \in Plans[v].steps : \E i \in DOMAIN PlanOrder[v] : PlanOrder[v][i] = s
                    /\ \A i, j \in DOMAIN PlanOrder[v] : PlanOrder[v][i] = PlanOrder[v][j] => i = j
                    /\ \A i \in DOMAIN PlanOrder[v] : \A d \in Deps(Plans[v], PlanOrder[v][i]) :
                          \E j \in DOMAIN PlanOrder[v] : j < i /\ PlanOrder[v][j] = d
  OBVIOUS
<1> DEFINE p     == Plans[v]
           order == TopologicalOrder(p)
<1>1. PlanOrder[v] = order
  BY DEF PlanOrder
<1>2. Orderable(p) /\ ValidGraph(p)
  BY PlansAreOrderable
<1> HIDE DEF p
<1>3. /\ order \in Seq(p.steps)
      /\ {order[i] : i \in DOMAIN order} = p.steps
      /\ \A i, j \in DOMAIN order : order[i] = order[j] => i = j
      /\ LeastReadyFirst(p, order)
  BY <1>2, OrderIsTopological
<1> HIDE DEF order
<1>4. \A s \in p.steps : \E i \in DOMAIN order : order[i] = s
  BY <1>3
<1>5. ASSUME NEW i \in DOMAIN order, NEW d \in Deps(p, order[i])
      PROVE  \E j \in DOMAIN order : j < i /\ order[j] = d
  <2>1. d \in Before(order, i)
    BY <1>3 DEF LeastReadyFirst, Ready
  <2>2. PICK j \in 1..(i - 1) : order[j] = d
    BY <2>1 DEF Before
  <2>3. DOMAIN order = 1..Len(order) /\ Len(order) \in Nat
    BY <1>3, LenProperties
  <2> QED
    BY <2>2, <2>3
<1> QED
  BY <1>1, <1>3, <1>4, <1>5 DEF p

(* What the assumptions say of the plan being executed.                     *)
LEMMA PlanFacts ==
    ASSUME NEW v \in 1..Versions
    PROVE  /\ Plans[v].steps \subseteq StepIds
           /\ IsPlan(Plans[v])
           /\ ValidPlan(Plans[v])
           /\ PlanOrder[v] \in Seq(Plans[v].steps)
           /\ \A i \in DOMAIN PlanOrder[v] : PlanOrder[v][i] \in Plans[v].steps
<1>1. PlanOrder[v] \in Seq(Plans[v].steps)
  BY OrderIsRight
<1>2. \A i \in DOMAIN PlanOrder[v] : PlanOrder[v][i] \in Plans[v].steps
  BY <1>1
<1> QED
  BY <1>1, <1>2, PlansAssumption

(* A FAN_OUT owns steps of the plan, which the main loop leaves alone.      *)
LEMMA BodyIsOwned ==
    ASSUME NEW p, NEW o
    PROVE  FanOutBodyClosure(p, o) \subseteq FanOutOwned(p)
BY DEF FanOutBodyClosure

LEMMA OwnedAreSteps ==
    ASSUME NEW v \in 1..Versions
    PROVE  FanOutOwned(Plans[v]) \subseteq Plans[v].steps
BY PlansAssumption DEF FanOutOwned, Spawned, ValidPlan, ValidBodies

(* A step of the main flow depends on the main flow only.                   *)
LEMMA MainFlowIsClosed ==
    ASSUME NEW v \in 1..Versions, NEW s \in MainFlow(Plans[v]), NEW d \in Deps(Plans[v], s)
    PROVE  d \in MainFlow(Plans[v])
BY PlansAssumption DEF MainFlow, ValidPlan, ValidMainFlow, ValidGraph

(* Whatever a repair resets downstream of a root, other than the root, it    *)
(* resets for a dependency it resets too.                                    *)
LEMMA DownstreamHasReason ==
    ASSUME NEW p, NEW r, NEW s \in DownstreamClosure(p, r), s # r
    PROVE  /\ s \in p.steps
           /\ \E d \in Deps(p, s) : d \in DownstreamClosure(p, r)
<1> DEFINE D == DownstreamClosure(p, r)
           C == D \ {s}
<1>1. r \in p.steps /\ s \in p.steps /\ D \subseteq p.steps
  BY DEF DownstreamClosure
<1>2. r \in C
  BY <1>1 DEF DownstreamClosure
<1>3. ASSUME NEW t \in p.steps, Deps(p, t) \cap D # {}
      PROVE  t \in D
  BY <1>1, <1>3 DEF DownstreamClosure
<1>4. SUFFICES ASSUME Deps(p, s) \cap D = {}
               PROVE  FALSE
  BY <1>1
<1>5. \A t \in p.steps : Deps(p, t) \cap C # {} => t \in C
  BY <1>3, <1>4
<1>6. C \in SUBSET p.steps
  BY <1>1
<1>7. s \in C
  BY <1>1, <1>2, <1>5, <1>6 DEF DownstreamClosure
<1> QED
  BY <1>7

(* The step the executor is at.                                             *)
LEMMA CurrentFacts ==
    ASSUME TypeOK, pos \in DOMAIN Order
    PROVE  /\ Current \in Plan.steps
           /\ Current \in StepIds
           /\ Plan.attempts[Current] \in Nat \ {0}
<1>1. runVersion \in 1..Versions
  BY DEF TypeOK
<1>2. Current \in Plan.steps
  BY <1>1, PlanFacts DEF Current, Order, Plan
<1> QED
  BY <1>1, <1>2, PlanFacts DEF Plan, IsPlan

(* What the runner records concerns steps of the plan.                      *)
LEMMA OwnBodyFacts ==
    ASSUME TypeOK
    PROVE  OwnBody \subseteq FanOutOwned(Plan) /\ OwnBody \subseteq StepIds
<1>1. runVersion \in 1..Versions
  BY DEF TypeOK
<1>2. OwnBody \subseteq FanOutOwned(Plan)
  BY DEF OwnBody, Spawned, FanOutOwned
<1> QED
  BY <1>1, <1>2, OwnedAreSteps, PlanFacts DEF Plan

(* The branches of a CONDITION are steps of the plan.                       *)
LEMMA BranchFacts ==
    ASSUME TypeOK, NEW c \in Plan.steps
    PROVE  Plan.onTrue[c] \subseteq StepIds /\ Plan.onFalse[c] \subseteq StepIds
<1>1. runVersion \in 1..Versions
  BY DEF TypeOK
<1>2. CASE Plan.kind[c] = "condition"
  BY <1>1, <1>2, PlanFacts DEF Plan, ValidPlan, ValidConditions
<1>3. CASE Plan.kind[c] # "condition"
  BY <1>1, <1>3, PlanFacts DEF Plan, IsPlan
<1> QED
  BY <1>2, <1>3

(***************************************************************************)
(* Type correctness                                                        *)
(***************************************************************************)
LEMMA TypeInit == Init => TypeOK
<1>1. 1 \in 1..Versions /\ 0 \in 0..Versions
  BY PlansAssumption
<1> QED
  BY <1>1 DEF Init, TypeOK, RunStatuses, StepStatuses, Points, Outcomes, NoStep

(* Starting, resuming and repairing.                                        *)
LEMMA TypeStart ==
    ASSUME TypeOK, Execute \/ ResumeHuman \/ AcceptRepair
    PROVE  TypeOK'
<1> USE DEF TypeOK
<1>1. CASE Execute
  BY <1>1 DEF Execute, stores, runner, RunStatuses, StepStatuses, Points
<1>2. CASE ResumeHuman
  BY <1>2 DEF ResumeHuman, record, stores, runner, Points
<1>3. CASE AcceptRepair
  BY <1>3 DEF AcceptRepair, stores, runner, StepStatuses, Points, Outcomes
<1> QED
  BY <1>1, <1>2, <1>3

(* The scheduling loop.                                                     *)
LEMMA TypeProceed ==
    ASSUME TypeOK, Proceed
    PROVE  TypeOK'
<1> USE DEF TypeOK
<1>1. CASE BeginRun
  BY <1>1 DEF BeginRun, Checkpoints, stores, runner, RunStatuses, Points, NoStep
<1>2. CASE PassOver
  BY <1>2 DEF PassOver, Advance, FreshRunner, record, stores, Points
<1>3. CASE SkipDependent
  <2>1. Current \in StepIds
    BY <1>3, CurrentFacts DEF SkipDependent, AtStep
  <2> QED
    BY <1>3, <2>1 DEF SkipDependent, Advance, FreshRunner, stores, StepStatuses, Points
<1>4. CASE BeginStep
  <2>1. /\ Current \in StepIds /\ pos \in DOMAIN Order
        /\ Plan.attempts[Current] \in Nat \ {0}
    BY <1>4, CurrentFacts DEF BeginStep, AtStep
  <2>2. Current' = Current /\ Order' = Order /\ Plan' = Plan
    BY <1>4 DEF BeginStep, Current, Order, Plan
  <2> QED
    BY <1>4, <2>1, <2>2 DEF BeginStep, runner, stores, StepStatuses, Points
<1>5. CASE RouteCondition
  <2>1. step' \in [StepIds -> StepStatuses]
    BY <1>5 DEF RouteCondition, StepStatuses
  <2>2. unavailable' \subseteq StepIds
    <3>1. pos \in DOMAIN Order
      BY <1>5 DEF RouteCondition
    <3>2. Current \in Plan.steps
      BY <3>1, CurrentFacts
    <3> QED
      BY <1>5, <3>2, BranchFacts DEF RouteCondition, RoutedAway, Untaken
  <2> QED
    BY <1>5, <2>1, <2>2 DEF RouteCondition, Advance, FreshRunner, stores, Points
<1>6. CASE Finish
  BY <1>6 DEF Finish, Halt, FreshRunner, stores, RunStatuses, Points
<1>7. CASE MarkCancelled
  BY <1>7 DEF MarkCancelled, CancelRecord, Halt, FreshRunner, stores, RunStatuses,
             StepStatuses, Points, NoStep
<1> QED
  BY <1>1, <1>2, <1>3, <1>4, <1>5, <1>6, <1>7 DEF Proceed

(* The FAN_OUT runner.                                                      *)
LEMMA TypeBodies ==
    ASSUME TypeOK, RunBodies
    PROVE  TypeOK'
<1> USE DEF TypeOK
<1>1. CASE NextItem
  BY <1>1 DEF NextItem, record, stores, Order, Plan, Current
<1>2. ASSUME NEW status \in StepStatuses, NestedReturns(status)
      PROVE  TypeOK'
  <2>1. Owner \in StepIds /\ nested' \in Seq(StepIds)
    BY <1>2 DEF NestedReturns, Owner
  <2>2. step' \in [StepIds -> StepStatuses] /\ iterations' \in [StepIds -> SUBSET Outcomes]
    BY <1>2 DEF NestedReturns, RecordChildren, Outcomes
  <2> QED
    BY <1>2, <2>1, <2>2 DEF NestedReturns, RecordChildren, stores, Order, Plan, Current
<1>3. ASSUME NEW c \in StepIds, EnterNested(c)
      PROVE  TypeOK'
  BY <1>3 DEF EnterNested, record, stores, Order, Plan, Current
<1>4. ASSUME NEW c \in StepIds, ChildFails(c)
      PROVE  TypeOK'
  <2>1. step' \in [StepIds -> StepStatuses] /\ iterations' \in [StepIds -> SUBSET Outcomes]
    BY <1>4 DEF ChildFails, RecordChildren, Outcomes, StepStatuses
  <2>2. pc = "attempt"
    BY <1>4 DEF ChildFails, IsNext
  <2> QED
    BY <1>4, <2>1, <2>2 DEF ChildFails, RecordChildren, FreshRunner, stores, Points,
                            Order, Plan, Current
<1>5. ASSUME NEW c \in StepIds, NEW status \in StepStatuses, SkipChild(c, status)
      PROVE  TypeOK'
  <2>1. step' \in [StepIds -> StepStatuses] /\ iterations' \in [StepIds -> SUBSET Outcomes]
    BY <1>5 DEF SkipChild, RecordChildren, Outcomes
  <2> QED
    BY <1>5, <2>1 DEF SkipChild, RecordChildren, stores, Order, Plan, Current
<1>6. ASSUME NEW c \in StepIds, NEW status \in StepStatuses, ChildSucceeds(c, status)
      PROVE  TypeOK'
  <2>1. step' \in [StepIds -> StepStatuses] /\ iterations' \in [StepIds -> SUBSET Outcomes]
    BY <1>6 DEF ChildSucceeds, RecordChildren, Outcomes
  <2>2. c \in Plan.steps
    <3>1. runVersion \in 1..Versions /\ c \in FanOutOwned(Plan)
      BY <1>6, OwnBodyFacts DEF ChildSucceeds, IsNext
    <3> QED
      BY <3>1, OwnedAreSteps DEF Plan
  <2>3. bypassed' \subseteq StepIds
    BY <1>6, <2>2, BranchFacts DEF ChildSucceeds
  <2> QED
    BY <1>6, <2>1, <2>3 DEF ChildSucceeds, RecordChildren, stores, Order, Plan, Current
<1> QED
  BY <1>1, <1>2, <1>3, <1>4, <1>5, <1>6 DEF RunBodies

(* The ends of an attempt.                                                  *)
LEMMA TypeEnd ==
    ASSUME TypeOK, EndAttempt
    PROVE  TypeOK'
<1> USE DEF TypeOK
<1>1. /\ pos \in DOMAIN Order
      /\ Current \in StepIds
      /\ Plan.attempts[Current] \in Nat \ {0}
      /\ attempt \in 1..Plan.attempts[Current]
  BY CurrentFacts DEF EndAttempt, AttemptSucceeds, RetryAttempt, AttemptFails, HumanPends,
                      HumanRejects, InAttempt
<1>2. CASE AttemptSucceeds
  <2>1. step' \in [StepIds -> StepStatuses]
    BY <1>2 DEF AttemptSucceeds, FinalStatus, StepStatuses
  <2>2. completed' \subseteq StepIds
    BY <1>1, <1>2 DEF AttemptSucceeds
  <2>3. CASE Plan.kind[Current] = "condition"
    <3>1. verdict' \in [StepIds -> BOOLEAN] /\ pc' = "routing"
      BY <1>2, <2>3 DEF AttemptSucceeds
    <3> QED
      BY <1>1, <1>2, <2>1, <2>2, <2>3, <3>1
      DEF AttemptSucceeds, stores, runner, Points, Order, Plan, Current
  <2>4. CASE Plan.kind[Current] # "condition"
    BY <1>2, <2>1, <2>2, <2>4 DEF AttemptSucceeds, Advance, FreshRunner, stores, Points
  <2> QED
    BY <2>3, <2>4
<1>3. CASE RetryAttempt
  BY <1>1, <1>3 DEF RetryAttempt, MayRetry, InAttempt, FreshRunner, record, stores, Points,
                    Order, Plan, Current
<1>4. CASE AttemptFails
  BY <1>1, <1>4 DEF AttemptFails, Halt, FreshRunner, stores, RunStatuses, StepStatuses, Points
<1>5. CASE HumanPends
  BY <1>1, <1>5 DEF HumanPends, Halt, FreshRunner, stores, RunStatuses, StepStatuses, Points
<1>6. CASE HumanRejects
  BY <1>1, <1>6 DEF HumanRejects, Halt, FreshRunner, stores, RunStatuses, StepStatuses, Points
<1> QED
  BY <1>2, <1>3, <1>4, <1>5, <1>6 DEF EndAttempt

(* Interruptions, and what happens outside the executor.                    *)
LEMMA TypeElsewhere ==
    ASSUME TypeOK,
           \/ Stop \/ Abort \/ CleanStale
           \/ ChangePlan \/ Diagnose \/ RecordWorldFix \/ DropDiagnosis
           \/ UNCHANGED vars
    PROVE  TypeOK'
<1> USE DEF TypeOK, Order, Plan, Current
<1>1. CASE Stop
  BY <1>1 DEF Stop, Halt, FreshRunner, record, stores, Points
<1>2. CASE Abort
  BY <1>2 DEF Abort, FreshRunner, record, stores, Points
<1>3. CASE CleanStale
  BY <1>3 DEF CleanStale, CancelRecord, stores, memory, runner, RunStatuses, StepStatuses, NoStep
<1>4. CASE ChangePlan
  BY <1>4, PlansAssumption DEF ChangePlan, record, memory, runner
<1>5. CASE Diagnose
  BY <1>5 DEF Diagnose, record, memory, runner
<1>6. CASE RecordWorldFix
  BY <1>6, PlansAssumption DEF RecordWorldFix, record, memory, runner
<1>7. CASE DropDiagnosis
  BY <1>7, PlansAssumption DEF DropDiagnosis, record, memory, runner
<1>8. CASE UNCHANGED vars
  BY <1>8 DEF vars
<1> QED
  BY <1>1, <1>2, <1>3, <1>4, <1>5, <1>6, <1>7, <1>8

(* Every reachable state of a run, whatever happens to it, is well formed,   *)
(* and no attempt beyond the retry policy is ever made.                      *)
THEOREM TypeCorrect == Spec => []TypeOK
<1>1. Init => TypeOK
  BY TypeInit
<1>2. TypeOK /\ [Next]_vars => TypeOK'
  BY TypeStart, TypeProceed, TypeBodies, TypeEnd, TypeElsewhere DEF Next
<1> QED
  BY <1>1, <1>2, PTL DEF Spec

(***************************************************************************)
(* The scheduler's caches and its progress                                 *)
(***************************************************************************)
(* Inductive: the caches are only right because a step under way is recorded *)
(* as running and the runner never touches the main flow, and progress means *)
(* something only while the caches are right.                                *)
SchedulerInv == TypeOK /\ CachesAgree /\ ProgressIsRecorded

LEMMA SchedulerInit == Init => SchedulerInv
BY TypeInit DEF SchedulerInv, Init, CachesAgree, ProgressIsRecorded, Scheduling, InAttempt

LEMMA SchedulerStart ==
    ASSUME SchedulerInv, Execute \/ ResumeHuman \/ AcceptRepair
    PROVE  SchedulerInv'
<1>1. TypeOK'
  BY TypeStart DEF SchedulerInv
<1>2. CachesAgree'
  BY DEF CachesAgree, Scheduling, Execute, ResumeHuman, AcceptRepair
<1>3. pc = "idle" /\ pc' = "accepted" /\ nested' = nested /\ nested = <<>>
  BY DEF SchedulerInv, ProgressIsRecorded, Execute, ResumeHuman, AcceptRepair, runner
<1>4. runStatus' # "absent"
  BY DEF Execute, ResumeHuman, AcceptRepair, record
<1> QED
  BY <1>1, <1>2, <1>3, <1>4 DEF SchedulerInv, ProgressIsRecorded, Scheduling

(* What holds of the step the loop turns to.                                *)
LEMMA AtStepFacts ==
    ASSUME SchedulerInv, AtStep, ~Settled(Current)
    PROVE  /\ Current \in MainFlow(Plan)
           /\ Current \in StepIds
           /\ step[Current] \notin {"succeeded", "failed", "skipped", "cancelled"}
<1>1. TypeOK /\ pos \in DOMAIN Order
  BY DEF SchedulerInv, AtStep
<1>2. Current \in Plan.steps /\ Current \in StepIds
  BY <1>1, CurrentFacts
<1>3. Current \in MainFlow(Plan)
  BY <1>2 DEF Settled, MainFlow
<1> QED
  BY <1>2, <1>3 DEF SchedulerInv, CachesAgree, Scheduling, AtStep, Settled

(* The loop moves on from a step that is dealt with.                        *)
LEMMA AdvanceKeepsProgress ==
    ASSUME SchedulerInv, Advance,
           pc # "idle", Scheduling,
           runVersion' = runVersion, runStatus' = runStatus,
           completed \subseteq completed', unavailable \subseteq unavailable',
           Current \in completed' \cup unavailable' \cup FanOutOwned(Plan)
    PROVE  ProgressIsRecorded'
<1>1. Plan' = Plan /\ Order' = Order
  BY DEF Plan, Order
<1>2. pos \in Nat /\ pos' = pos + 1 /\ DOMAIN Order \subseteq Nat
  BY PlanFacts DEF SchedulerInv, TypeOK, Advance, Order
<1>3. pc' = "loop" /\ nested' = <<>>
  BY DEF Advance, FreshRunner
<1>4. ASSUME NEW i \in DOMAIN Order, i < pos'
      PROVE  Order[i] \in completed' \cup unavailable' \cup FanOutOwned(Plan)
  <2>1. CASE i = pos
    BY <2>1 DEF Current
  <2>2. CASE i # pos
    <3>1. i < pos
      BY <1>2, <1>4, <2>2
    <3> QED
      BY <3>1 DEF SchedulerInv, ProgressIsRecorded, Settled
  <2> QED
    BY <2>1, <2>2
<1>5. runStatus' # "absent"
  BY DEF SchedulerInv, ProgressIsRecorded
<1>6. Scheduling' => /\ pos' # 0
                     /\ \A i \in DOMAIN Order' : i < pos' => Settled(Order[i])'
  BY <1>1, <1>2, <1>4 DEF Settled
<1>7. (~InAttempt)'
  BY <1>3 DEF InAttempt
<1> QED
  BY <1>3, <1>5, <1>6, <1>7 DEF ProgressIsRecorded

(* Nothing is in the scheduler's hands once the executor stops.              *)
LEMMA OffLoopHolds ==
    ASSUME SchedulerInv, TypeOK', ~Scheduling', nested' = <<>>, runStatus' # "absent"
    PROVE  SchedulerInv'
BY DEF SchedulerInv, CachesAgree, ProgressIsRecorded

LEMMA SchedulerProceed ==
    ASSUME SchedulerInv, Proceed
    PROVE  SchedulerInv'
<1>1. TypeOK'
  BY TypeProceed DEF SchedulerInv
<1>2. runVersion' = runVersion /\ Plan' = Plan /\ Order' = Order
  BY DEF Proceed, BeginRun, PassOver, SkipDependent, BeginStep, RouteCondition, Finish,
         MarkCancelled, CancelRecord, record, Plan, Order
<1>3. Plan.steps \subseteq StepIds /\ MainFlow(Plan) \subseteq StepIds
  BY PlanFacts DEF SchedulerInv, TypeOK, Plan, MainFlow
<1>4. CASE BeginRun
  <2>1. CachesAgree'
    BY <1>2, <1>3, <1>4 DEF BeginRun, Checkpoints, CachesAgree
  <2>2. \A i \in DOMAIN Order : i \in Nat /\ ~(i < 1)
    BY PlanFacts DEF SchedulerInv, TypeOK, Order
  <2>3. pc = "accepted" /\ pc' = "loop" /\ pos' = 1 /\ nested' = nested /\ runStatus' # "absent"
    BY <1>4 DEF BeginRun, runner
  <2>4. nested' = <<>>
    BY <2>3 DEF SchedulerInv, ProgressIsRecorded
  <2> QED
    BY <1>1, <1>2, <2>1, <2>2, <2>3, <2>4 DEF SchedulerInv, ProgressIsRecorded, InAttempt
<1>5. CASE PassOver
  <2>1. CachesAgree'
    BY <1>2, <1>5 DEF SchedulerInv, PassOver, AtStep, Advance, record, CachesAgree, Scheduling
  <2>2. ProgressIsRecorded'
    BY <1>2, <1>5, AdvanceKeepsProgress DEF PassOver, AtStep, Scheduling, Settled, record
  <2> QED
    BY <1>1, <2>1, <2>2 DEF SchedulerInv
<1>6. CASE SkipDependent
  <2>1. Current \in StepIds /\ Current \in MainFlow(Plan) /\ Current \notin completed
    BY <1>6, AtStepFacts DEF SkipDependent, Settled
  <2>2. CachesAgree'
    BY <1>2, <1>3, <1>6, <2>1
    DEF SchedulerInv, TypeOK, SkipDependent, AtStep, CachesAgree, Scheduling
  <2>3. ProgressIsRecorded'
    BY <1>2, <1>6, AdvanceKeepsProgress DEF SkipDependent, AtStep, Scheduling
  <2> QED
    BY <1>1, <2>2, <2>3 DEF SchedulerInv
<1>7. CASE BeginStep
  <2>1. /\ Current \in StepIds /\ Current \in MainFlow(Plan)
        /\ Current \notin completed /\ Current \notin unavailable
    BY <1>7, AtStepFacts DEF BeginStep, Settled
  <2>2. CachesAgree'
    BY <1>2, <1>3, <1>7, <2>1
    DEF SchedulerInv, TypeOK, BeginStep, AtStep, CachesAgree, Scheduling
  <2>3. /\ pc = "loop" /\ pc' = "attempt" /\ pos' = pos /\ nested' = nested
        /\ runStatus' = runStatus /\ unavailable' = unavailable /\ completed' = completed
        /\ Current' = Current
    BY <1>2, <1>7 DEF BeginStep, AtStep, runner, Current
  <2>4. nested' = <<>> /\ pos # 0 /\ runStatus' # "absent"
    BY <2>3 DEF SchedulerInv, ProgressIsRecorded, Scheduling
  <2>5. \A i \in DOMAIN Order' : i < pos' => Settled(Order[i])'
    BY <1>2, <2>3 DEF SchedulerInv, ProgressIsRecorded, Scheduling, Settled
  <2>6. step'[Current] = "running" /\ ~DependencyUnavailable(Current)'
    BY <1>2, <1>7, <2>1, <2>3 DEF SchedulerInv, TypeOK, BeginStep, DependencyUnavailable
  <2> QED
    BY <1>1, <1>2, <2>1, <2>2, <2>3, <2>4, <2>5, <2>6
    DEF SchedulerInv, ProgressIsRecorded, InAttempt
<1>8. CASE RouteCondition
  <2>1. CachesAgree'
    BY <1>2, <1>3, <1>8
    DEF SchedulerInv, RouteCondition, RoutedAway, CachesAgree, Scheduling
  <2>2. Current \in completed
    BY <1>8 DEF SchedulerInv, ProgressIsRecorded, RouteCondition, Scheduling
  <2>3. ProgressIsRecorded'
    BY <1>2, <1>8, <2>2, AdvanceKeepsProgress DEF RouteCondition, Scheduling
  <2> QED
    BY <1>1, <2>1, <2>3 DEF SchedulerInv
<1>9. CASE Finish
  BY <1>1, <1>9, OffLoopHolds DEF Finish, Halt, FreshRunner, Scheduling
<1>10. CASE MarkCancelled
  BY <1>1, <1>10, OffLoopHolds DEF MarkCancelled, CancelRecord, Halt, FreshRunner, Scheduling
<1> QED
  BY <1>4, <1>5, <1>6, <1>7, <1>8, <1>9, <1>10 DEF Proceed

(* The step under way stays under way, and only what it owns is recorded.    *)
LEMMA AttemptGoesOn ==
    ASSUME SchedulerInv, TypeOK', InAttempt, InAttempt',
           NEW children \in SUBSET FanOutOwned(Plan),
           \A s \in StepIds \ children : step'[s] = step[s],
           UNCHANGED <<runStatus, runVersion, pos, completed, unavailable>>,
           \A i \in DOMAIN nested' : nested'[i] \in FanOutOwned(Plan),
           pc' # "attempt" => nested' = <<>>
    PROVE  SchedulerInv'
<1>1. Plan' = Plan /\ Order' = Order /\ Current' = Current
  BY DEF Plan, Order, Current
<1>2. Scheduling /\ InAttempt /\ Scheduling' /\ InAttempt'
  BY DEF Scheduling, InAttempt
<1>3. \A s \in MainFlow(Plan) : step'[s] = step[s]
  BY PlanFacts DEF SchedulerInv, TypeOK, Plan, MainFlow
<1>4. CachesAgree'
  BY <1>1, <1>2, <1>3 DEF SchedulerInv, CachesAgree
<1>5. /\ pos # 0
      /\ \A i \in DOMAIN Order : i < pos => Settled(Order[i])
      /\ Current \in MainFlow(Plan) /\ step[Current] = "running"
      /\ ~DependencyUnavailable(Current)
  BY <1>2 DEF SchedulerInv, ProgressIsRecorded
<1>6. \A i \in DOMAIN Order' : i < pos' => Settled(Order[i])'
  BY <1>1, <1>5 DEF Settled
<1>7. step'[Current] = "running" /\ ~DependencyUnavailable(Current)'
  BY <1>1, <1>3, <1>5 DEF DependencyUnavailable
<1>8. runStatus' # "absent" /\ pc' # "routing"
  BY DEF SchedulerInv, ProgressIsRecorded, InAttempt
<1> QED
  BY <1>1, <1>4, <1>5, <1>6, <1>7, <1>8 DEF SchedulerInv, ProgressIsRecorded

LEMMA SchedulerBodies ==
    ASSUME SchedulerInv, RunBodies
    PROVE  SchedulerInv'
<1>1. TypeOK' /\ TypeOK
  BY TypeBodies DEF SchedulerInv
<1>2. \A i \in DOMAIN nested : nested[i] \in FanOutOwned(Plan)
  BY DEF SchedulerInv, ProgressIsRecorded
<1>3. OwnBody \subseteq FanOutOwned(Plan)
  BY <1>1, OwnBodyFacts
<1>4. nested # <<>> => Owner \in FanOutOwned(Plan)
  BY <1>1, <1>2 DEF Owner, TypeOK
<1>5. CASE NextItem
  <2>1. /\ InAttempt /\ InAttempt' /\ pc' = "attempt" /\ UNCHANGED nested
        /\ UNCHANGED <<step, runStatus, runVersion, pos, completed, unavailable>>
    BY <1>5 DEF NextItem, record, InAttempt
  <2> QED
    BY <1>1, <1>2, <2>1, AttemptGoesOn
<1>6. ASSUME NEW status \in StepStatuses, NestedReturns(status)
      PROVE  SchedulerInv'
  <2>1. \A i \in DOMAIN nested' : nested'[i] \in FanOutOwned(Plan)
    <3>1. nested \in Seq(StepIds) /\ nested # <<>> /\ nested' = SubSeq(nested, 1, Len(nested) - 1)
      BY <1>1, <1>6 DEF NestedReturns, TypeOK
    <3>2. \A i \in DOMAIN nested' : i \in DOMAIN nested /\ nested'[i] = nested[i]
      BY <3>1
    <3> QED
      BY <1>2, <3>2
  <2>2. /\ pc = "attempt" /\ pc' = pc /\ Owner \in FanOutOwned(Plan)
        /\ \A s \in StepIds \ {Owner} : step'[s] = step[s]
        /\ UNCHANGED <<runStatus, runVersion, pos, completed, unavailable>>
    BY <1>4, <1>6 DEF NestedReturns, RecordChildren
  <2> QED
    BY <1>1, <2>1, <2>2, AttemptGoesOn DEF InAttempt
<1>7. ASSUME NEW c \in StepIds, EnterNested(c)
      PROVE  SchedulerInv'
  <2>1. c \in FanOutOwned(Plan) /\ pc = "attempt"
    BY <1>3, <1>7 DEF EnterNested, IsNext
  <2>2. \A i \in DOMAIN nested' : nested'[i] \in FanOutOwned(Plan)
    BY <1>1, <1>2, <1>7, <2>1 DEF EnterNested, TypeOK
  <2> QED
    BY <1>1, <1>7, <2>1, <2>2, AttemptGoesOn DEF EnterNested, record, InAttempt
<1>8. ASSUME NEW c \in StepIds, ChildFails(c)
      PROVE  SchedulerInv'
  <2> DEFINE failed == {c} \cup {nested[i] : i \in DOMAIN nested}
  <2>1. failed \subseteq FanOutOwned(Plan)
    BY <1>2, <1>3, <1>4, <1>8 DEF ChildFails, IsNext
  <2>2. /\ pc = "attempt" /\ pc' = "child_failed" /\ nested' = <<>>
        /\ \A s \in StepIds \ failed : step'[s] = step[s]
        /\ UNCHANGED <<runStatus, runVersion, pos, completed, unavailable>>
    BY <1>8 DEF ChildFails, RecordChildren, IsNext, FreshRunner
  <2> QED
    BY <1>1, <2>1, <2>2, AttemptGoesOn DEF InAttempt
<1>9. ASSUME NEW c \in StepIds, NEW status \in StepStatuses,
             SkipChild(c, status) \/ ChildSucceeds(c, status)
      PROVE  SchedulerInv'
  <2>1. /\ pc = "attempt" /\ pc' = pc /\ nested' = nested /\ c \in FanOutOwned(Plan)
        /\ \A s \in StepIds \ {c} : step'[s] = step[s]
        /\ UNCHANGED <<runStatus, runVersion, pos, completed, unavailable>>
    BY <1>3, <1>9 DEF SkipChild, ChildSucceeds, RecordChildren, IsNext
  <2> QED
    BY <1>1, <1>2, <2>1, AttemptGoesOn DEF InAttempt
<1> QED
  BY <1>5, <1>6, <1>7, <1>8, <1>9 DEF RunBodies

LEMMA SchedulerEnd ==
    ASSUME SchedulerInv, EndAttempt
    PROVE  SchedulerInv'
<1>1. TypeOK' /\ TypeOK
  BY TypeEnd DEF SchedulerInv
<1>2. pc \in {"attempt", "child_failed"} /\ Scheduling /\ InAttempt
  BY DEF EndAttempt, AttemptSucceeds, RetryAttempt, AttemptFails, HumanPends, HumanRejects,
         InAttempt, Scheduling
<1>3. /\ Current \in MainFlow(Plan) /\ Current \in StepIds /\ step[Current] = "running"
      /\ Current \notin unavailable
  <2>1. Current \in MainFlow(Plan) /\ step[Current] = "running"
    BY <1>2 DEF SchedulerInv, ProgressIsRecorded
  <2>2. Current \in StepIds
    BY <1>1, <2>1, PlanFacts DEF MainFlow, Plan, TypeOK
  <2> QED
    BY <1>2, <2>1, <2>2 DEF SchedulerInv, CachesAgree
<1>4. runStatus # "absent"
  BY <1>2 DEF SchedulerInv, ProgressIsRecorded
<1>5. CASE AttemptSucceeds
  <2>1. /\ Plan' = Plan /\ Order' = Order /\ runVersion' = runVersion /\ runStatus' = runStatus
        /\ unavailable' = unavailable /\ completed' = completed \cup {Current}
    BY <1>5 DEF AttemptSucceeds, Plan, Order
  <2>2. \A s \in MainFlow(Plan) : s # Current => step'[s] = step[s]
    <3>1. FanOutBodyClosure(Plan, Current) \subseteq FanOutOwned(Plan)
      BY BodyIsOwned
    <3>2. MainFlow(Plan) \subseteq StepIds
      BY <1>1, PlanFacts DEF MainFlow, Plan, TypeOK
    <3> QED
      BY <1>5, <3>1, <3>2 DEF AttemptSucceeds, MainFlow
  <2>3. step'[Current] = "succeeded"
    BY <1>3, <1>5 DEF AttemptSucceeds
  <2>4. CachesAgree'
    BY <1>2, <1>3, <2>1, <2>2, <2>3 DEF SchedulerInv, CachesAgree
  <2>5. CASE Plan.kind[Current] = "condition"
    <3>1. pc' = "routing" /\ nested' = <<>> /\ pos' = pos
      BY <1>5, <2>5 DEF AttemptSucceeds, runner
    <3>2. Current' = Current
      BY <2>1, <3>1 DEF Current
    <3>3. pos' # 0 /\ \A i \in DOMAIN Order' : i < pos' => Settled(Order[i])'
      BY <1>2, <2>1, <3>1 DEF SchedulerInv, ProgressIsRecorded, Settled
    <3> QED
      BY <1>1, <1>4, <2>1, <2>4, <3>1, <3>2, <3>3
      DEF SchedulerInv, ProgressIsRecorded, InAttempt
  <2>6. CASE Plan.kind[Current] # "condition"
    <3>1. ProgressIsRecorded'
      BY <1>2, <1>5, <2>1, <2>6, AdvanceKeepsProgress DEF AttemptSucceeds
    <3> QED
      BY <1>1, <2>4, <3>1 DEF SchedulerInv
  <2> QED
    BY <2>5, <2>6
<1>6. CASE RetryAttempt
  <2>1. pc' = "attempt" /\ nested' = <<>>
    BY <1>6 DEF RetryAttempt, FreshRunner
  <2> QED
    BY <1>1, <1>2, <1>6, <2>1, AttemptGoesOn DEF RetryAttempt, record, InAttempt
<1>7. CASE AttemptFails
  BY <1>1, <1>7, OffLoopHolds DEF AttemptFails, Halt, FreshRunner, Scheduling
<1>8. CASE HumanPends
  BY <1>1, <1>8, OffLoopHolds DEF HumanPends, Halt, FreshRunner, Scheduling
<1>9. CASE HumanRejects
  BY <1>1, <1>9, OffLoopHolds DEF HumanRejects, Halt, FreshRunner, Scheduling
<1> QED
  BY <1>5, <1>6, <1>7, <1>8, <1>9 DEF EndAttempt

LEMMA SchedulerElsewhere ==
    ASSUME SchedulerInv,
           \/ Stop \/ Abort \/ CleanStale
           \/ ChangePlan \/ Diagnose \/ RecordWorldFix \/ DropDiagnosis
           \/ UNCHANGED vars
    PROVE  SchedulerInv'
<1>1. TypeOK'
  BY TypeElsewhere DEF SchedulerInv
<1>2. pc # "idle" => runStatus # "absent"
  BY DEF SchedulerInv, ProgressIsRecorded
<1>3. CASE Stop
  BY <1>1, <1>2, <1>3, OffLoopHolds DEF Stop, Halt, FreshRunner, record, Scheduling
<1>4. CASE Abort
  BY <1>1, <1>2, <1>4, OffLoopHolds DEF Abort, FreshRunner, record, Scheduling
<1>5. CASE CleanStale
  <2>1. nested' = nested /\ pc' = pc /\ pc = "idle" /\ runStatus' = "cancelled"
    BY <1>5 DEF CleanStale, CancelRecord, memory, runner
  <2>2. nested = <<>>
    BY <2>1 DEF SchedulerInv, ProgressIsRecorded
  <2> QED
    BY <1>1, <2>1, <2>2, OffLoopHolds DEF Scheduling
<1>6. CASE UNCHANGED <<record, memory>>
  BY <1>1, <1>6
  DEF SchedulerInv, CachesAgree, ProgressIsRecorded, Scheduling, InAttempt, Settled,
      DependencyUnavailable, Current, Order, Plan, record, memory, runner
<1> QED
  BY <1>3, <1>4, <1>5, <1>6
  DEF ChangePlan, Diagnose, RecordWorldFix, DropDiagnosis, vars, record, memory, runner

LEMMA SchedulerStep == SchedulerInv /\ [Next]_vars => SchedulerInv'
BY SchedulerStart, SchedulerProceed, SchedulerBodies, SchedulerEnd, SchedulerElsewhere DEF Next

LEMMA SchedulerAlways == Spec => []SchedulerInv
BY SchedulerInit, SchedulerStep, PTL DEF Spec

(* The caches the scheduler decides by never drift from the checkpoints it   *)
(* persists, across every resumption, repair, routing and FAN_OUT.           *)
THEOREM CachesAlwaysAgree == Spec => []CachesAgree
<1>1. SchedulerInv => CachesAgree
  BY DEF SchedulerInv
<1> QED
  BY <1>1, SchedulerAlways, PTL

(* Every step before the current one is dealt with, and the step under way   *)
(* is recorded as such: the loop leaves nothing behind.                      *)
THEOREM ProgressIsAlwaysRecorded == Spec => []ProgressIsRecorded
<1>1. SchedulerInv => ProgressIsRecorded
  BY DEF SchedulerInv
<1> QED
  BY <1>1, SchedulerAlways, PTL

(***************************************************************************)
(* What a step may never do                                                *)
(***************************************************************************)
LEMMA MainFlowIsNoBody ==
    ASSUME SchedulerInv
    PROVE  /\ MainFlow(Plan) \subseteq StepIds
           /\ MainFlow(Plan) \cap OwnBody = {}
           /\ nested # <<>> => Owner \notin MainFlow(Plan)
           /\ \A i \in DOMAIN nested : nested[i] \notin MainFlow(Plan)
           /\ \A o : MainFlow(Plan) \cap FanOutBodyClosure(Plan, o) = {}
<1>1. TypeOK
  BY DEF SchedulerInv
<1>2. MainFlow(Plan) \subseteq StepIds
  BY <1>1, PlanFacts DEF MainFlow, Plan, TypeOK
<1>3. \A i \in DOMAIN nested : nested[i] \notin MainFlow(Plan)
  BY DEF SchedulerInv, ProgressIsRecorded, MainFlow
<1>4. nested # <<>> => Owner \notin MainFlow(Plan)
  BY <1>1, <1>3 DEF Owner, TypeOK
<1>5. MainFlow(Plan) \cap OwnBody = {}
  BY <1>1, OwnBodyFacts DEF MainFlow
<1>6. \A o : MainFlow(Plan) \cap FanOutBodyClosure(Plan, o) = {}
  BY BodyIsOwned DEF MainFlow
<1> QED
  BY <1>2, <1>3, <1>4, <1>5, <1>6

LEMMA BodiesLeaveMainFlow ==
    ASSUME SchedulerInv, RunBodies, NEW s \in MainFlow(Plan)
    PROVE  step'[s] = step[s]
<1>1. s \in StepIds
  BY MainFlowIsNoBody
<1>2. ASSUME NEW status \in StepStatuses, NestedReturns(status)
      PROVE  step'[s] = step[s]
  BY <1>1, <1>2, MainFlowIsNoBody DEF NestedReturns, RecordChildren
<1>3. ASSUME NEW c \in StepIds, ChildFails(c)
      PROVE  step'[s] = step[s]
  <2>1. s \notin {c} \cup {nested[i] : i \in DOMAIN nested}
    BY <1>3, MainFlowIsNoBody DEF ChildFails, IsNext
  <2> QED
    BY <1>1, <1>3, <2>1 DEF ChildFails, RecordChildren
<1>4. ASSUME NEW c \in StepIds, NEW status \in StepStatuses,
             SkipChild(c, status) \/ ChildSucceeds(c, status)
      PROVE  step'[s] = step[s]
  <2>1. s # c
    BY <1>4, MainFlowIsNoBody DEF SkipChild, ChildSucceeds, IsNext
  <2> QED
    BY <1>1, <1>4, <2>1 DEF SkipChild, ChildSucceeds, RecordChildren
<1>5. CASE NextItem \/ \E c \in StepIds : EnterNested(c)
  BY <1>5 DEF NextItem, EnterNested, record
<1> QED
  BY <1>2, <1>3, <1>4, <1>5 DEF RunBodies

(* The loop is the only place a step of the main flow starts in.             *)
LEMMA OnlyTheLoopStarts ==
    ASSUME SchedulerInv, [Next]_vars, NEW s \in StepIds, Starts(s)
    PROVE  BeginStep /\ s = Current
<1>1. s \in MainFlow(Plan) /\ step[s] # "running" /\ step'[s] = "running"
  BY DEF Starts
<1>2. ~RunBodies
  BY <1>1, BodiesLeaveMainFlow
<1>3. ~(Execute \/ ResumeHuman \/ AcceptRepair)
  BY <1>1 DEF Execute, ResumeHuman, AcceptRepair, record
<1>4. ~(BeginRun \/ PassOver \/ SkipDependent \/ RouteCondition \/ Finish \/ MarkCancelled)
  BY <1>1
  DEF SchedulerInv, TypeOK, BeginRun, PassOver, SkipDependent, RouteCondition, Finish,
      MarkCancelled, CancelRecord, record
<1>5. ~EndAttempt
  BY <1>1
  DEF SchedulerInv, TypeOK, EndAttempt, AttemptSucceeds, FinalStatus, RetryAttempt, AttemptFails,
      HumanPends, HumanRejects, record
<1>6. ~(Stop \/ Abort \/ CleanStale \/ ChangePlan \/ Diagnose \/ RecordWorldFix \/ DropDiagnosis)
  BY <1>1 DEF Stop, Abort, CleanStale, CancelRecord, ChangePlan, Diagnose, RecordWorldFix,
              DropDiagnosis, record
<1>7. step' # step
  BY <1>1
<1>8. BeginStep
  BY <1>2, <1>3, <1>4, <1>5, <1>6, <1>7 DEF Next, Proceed, vars
<1> QED
  BY <1>1, <1>8 DEF BeginStep, SchedulerInv, TypeOK

LEMMA DependenciesComeFirst ==
    ASSUME NEW v \in 1..Versions, NEW i \in DOMAIN PlanOrder[v],
           NEW d \in Deps(Plans[v], PlanOrder[v][i])
    PROVE  \E j \in DOMAIN PlanOrder[v] : j < i /\ PlanOrder[v][j] = d
<1>1. /\ PlanOrder[v] \in Seq(Plans[v].steps)
      /\ \A k \in DOMAIN PlanOrder[v] : \A e \in Deps(Plans[v], PlanOrder[v][k]) :
            \E j \in DOMAIN PlanOrder[v] : j < k /\ PlanOrder[v][j] = e
  BY OrderIsRight, ZenonT(30)
<1> QED
  BY <1>1, Zenon

(* A step of the main flow starts only once its dependencies succeeded, in    *)
(* plans whose steps name each dependency once (DependenciesAssumption, which *)
(* the validator does not ask for).                                          *)
THEOREM StartsInOrder == Spec => StartsAfterDependencies
<1>1. ASSUME SchedulerInv, [Next]_vars, NEW s \in StepIds, Starts(s), NEW d \in Deps(Plan, s)
      PROVE  step[d] = "succeeded"
  <2>1. BeginStep /\ s = Current /\ s \in MainFlow(Plan)
    BY <1>1, OnlyTheLoopStarts DEF Starts
  <2>2. runVersion \in 1..Versions /\ pos \in DOMAIN Order
    BY <1>1, <2>1 DEF SchedulerInv, TypeOK, BeginStep, AtStep
  <2>3. PICK j \in DOMAIN Order : j < pos /\ Order[j] = d
    BY <1>1, <2>1, <2>2, DependenciesComeFirst DEF Order, Plan, Current
  <2>4. Settled(d)
    BY <1>1, <2>1, <2>3 DEF SchedulerInv, ProgressIsRecorded, Scheduling, BeginStep, AtStep
  <2>5. d \in MainFlow(Plan)
    BY <1>1, <2>1, <2>2, MainFlowIsClosed DEF Plan
  <2>6. d \notin unavailable
    BY <1>1, <2>1 DEF BeginStep, DependencyUnavailable
  <2>7. d \in completed
    BY <2>4, <2>5, <2>6 DEF Settled, MainFlow
  <2> QED
    BY <1>1, <2>1, <2>5, <2>7 DEF SchedulerInv, CachesAgree, Scheduling, BeginStep, AtStep
<1>2. SchedulerInv /\ [Next]_vars =>
        [\A s \in StepIds : Starts(s) => \A d \in Deps(Plan, s) : step[d] = "succeeded"]_vars
  BY <1>1
<1> QED
  BY <1>2, SchedulerAlways, PTL DEF Spec, StartsAfterDependencies

(* A repair gives up a result only together with one it rests on.            *)
LEMMA RepairKeepsWork ==
    ASSUME SchedulerInv, AcceptRepair,
           NEW s \in MainFlow(Plan), step[s] = "succeeded",
           s \in MainFlow(Plan)', step'[s] # "succeeded"
    PROVE  \E d \in Deps(Plan', s) : step'[d] # "succeeded"
<1> DEFINE p     == Plans[version]
           roots == {blamed} \cup (p.steps \ Recorded)
           reset == RepairResetSteps(p)
<1>1. Plan' = p /\ p.steps \subseteq StepIds
  BY PlanFacts DEF SchedulerInv, TypeOK, AcceptRepair, Plan
<1>2. s \in MainFlow(p) /\ s \in p.steps /\ s \in StepIds /\ s \in Recorded
  BY <1>1 DEF MainFlow, Recorded
<1>3. \A t \in StepIds : step'[t] = IF t \in (p.steps \cap Recorded) \ reset THEN step[t]
                                    ELSE IF t \in p.steps THEN "pending" ELSE "absent"
  BY DEF AcceptRepair, Kept
<1>4. s \in reset
  BY <1>2, <1>3
<1>5. \A o : s \notin FanOutBodyClosure(p, o)
  BY <1>2, BodyIsOwned DEF MainFlow
<1>6. PICK r \in roots : s \in DownstreamClosure(p, r)
  BY <1>4, <1>5 DEF RepairResetSteps
<1>7. s # r
  BY <1>2, <1>6 DEF AcceptRepair
<1>8. PICK d \in Deps(p, s) : d \in DownstreamClosure(p, r)
  BY <1>6, <1>7, DownstreamHasReason
<1>9. d \in p.steps /\ d \in reset
  BY <1>6, <1>8 DEF DownstreamClosure, RepairResetSteps
<1>10. step'[d] = "pending"
  BY <1>1, <1>3, <1>9
<1> QED
  BY <1>1, <1>8, <1>10

(* Nothing else gives up a result of the main flow.                          *)
LEMMA OnlyARepairGivesUp ==
    ASSUME SchedulerInv, [Next]_vars,
           NEW s \in MainFlow(Plan), step[s] = "succeeded", step'[s] # "succeeded"
    PROVE  AcceptRepair
<1>1. s \in StepIds /\ TypeOK
  BY MainFlowIsNoBody DEF SchedulerInv
<1>2. ~RunBodies
  BY BodiesLeaveMainFlow
<1>3. ~Execute /\ ~ResumeHuman
  BY <1>1 DEF SchedulerInv, ProgressIsRecorded, Execute, ResumeHuman, record
<1>4. ~(BeginRun \/ PassOver \/ Finish \/ MarkCancelled)
  BY <1>1 DEF TypeOK, BeginRun, PassOver, Finish, MarkCancelled, CancelRecord, record
<1>5. ~(SkipDependent \/ BeginStep)
  BY <1>1, AtStepFacts DEF TypeOK, SkipDependent, BeginStep
<1>6. ~RouteCondition
  BY <1>1
  DEF SchedulerInv, CachesAgree, Scheduling, RouteCondition, RoutedAway
<1>7. ~EndAttempt
  <2>1. SUFFICES ASSUME EndAttempt PROVE FALSE
    OBVIOUS
  <2>2. pc \in {"attempt", "child_failed"}
    BY <2>1 DEF EndAttempt, AttemptSucceeds, RetryAttempt, AttemptFails, HumanPends,
                HumanRejects, InAttempt
  <2>3. s # Current
    BY <2>2 DEF SchedulerInv, ProgressIsRecorded, Scheduling, InAttempt
  <2>4. ~AttemptSucceeds
    BY <1>1, <2>3, MainFlowIsNoBody DEF AttemptSucceeds
  <2> QED
    BY <1>1, <2>1, <2>3, <2>4
    DEF TypeOK, EndAttempt, RetryAttempt, AttemptFails, TerminalizedChildren, HumanPends,
        HumanRejects, record
<1>8. ~(Stop \/ Abort \/ CleanStale \/ ChangePlan \/ Diagnose \/ RecordWorldFix \/ DropDiagnosis)
  BY <1>1 DEF Stop, Abort, CleanStale, CancelRecord, ChangePlan, Diagnose, RecordWorldFix,
              DropDiagnosis, record
<1>9. step' # step
  OBVIOUS
<1> QED
  BY <1>2, <1>3, <1>4, <1>5, <1>6, <1>7, <1>8, <1>9 DEF Next, Proceed, vars

(* Succeeded work of the main flow is repeated only with what it rests on.   *)
THEOREM WorkIsKept == Spec => SucceededWorkIsKept
<1>1. SchedulerInv /\ [Next]_vars =>
        [\A s \in MainFlow(Plan) :
            step[s] = "succeeded" /\ s \in MainFlow(Plan)' /\ step'[s] # "succeeded"
            => \E d \in Deps(Plan', s) : step'[d] # "succeeded"]_vars
  BY OnlyARepairGivesUp, RepairKeepsWork
<1> QED
  BY <1>1, SchedulerAlways, PTL DEF Spec, SucceededWorkIsKept

(***************************************************************************)
(* What a repair keeps                                                     *)
(***************************************************************************)
(* Whoever repairs a run, its record lists the steps of its plan; only a     *)
(* CONDITION routes; a run that has ended is left alone.                     *)
RecordedAreSteps == runStatus # "absent" => Recorded = Plan.steps

RoutingIsOfACondition ==
    pc = "routing" => Current \in MainFlow(Plan) /\ Plan.kind[Current] = "condition"

EndsAreIdle == runStatus \in {"succeeded", "cancelled"} => pc = "idle"

(* Nothing is recorded of a body before the run exists; an executor owns a   *)
(* run that says Running.                                                    *)
NothingRanBefore == runStatus = "absent" => \A s \in StepIds : iterations[s] = {}

OwnersAreRunning == Scheduling \/ pc = "cancelling" => runStatus = "running"

(* The runner is inside the body of the step under way, one owner in the     *)
(* other.                                                                    *)
NestedInBody ==
    pc = "attempt" =>
        \A i \in DOMAIN nested :
            /\ nested[i] \in FanOutBodyClosure(Plan, Current)
            /\ nested[i] \in Spawned(Plan, IF i = 1 THEN Current ELSE nested[i - 1])

(* Inductive for all plans and all patches: where an execution stands, which *)
(* the properties below need and nothing a repair does can disturb.          *)
FlowInv ==
    /\ SchedulerInv
    /\ RecordedAreSteps
    /\ RoutingIsOfACondition
    /\ EndsAreIdle
    /\ NothingRanBefore
    /\ OwnersAreRunning
    /\ NestedInBody

LEMMA DownstreamIsClosed ==
    ASSUME NEW p, NEW r, NEW d \in DownstreamClosure(p, r),
           NEW t \in p.steps, d \in Deps(p, t)
    PROVE  t \in DownstreamClosure(p, r)
BY DEF DownstreamClosure

LEMMA RootIsDownstream ==
    ASSUME NEW p, NEW r \in p.steps
    PROVE  r \in DownstreamClosure(p, r)
BY DEF DownstreamClosure

(* What holds backwards along the dependencies holds of all a step comes     *)
(* from.                                                                     *)
LEMMA BackwardsClosed ==
    ASSUME NEW p, NEW s, NEW c, DependsTransitively(p, s, c),
           NEW K, s \in K,
           \A x \in p.steps \cap K : Deps(p, x) \subseteq K
    PROVE  c \in K
<1> DEFINE C == p.steps \ K
<1>1. PICK t \in p.steps : c \in Deps(p, t) /\ s \in DownstreamClosure(p, t)
  BY DEF DependsTransitively
<1>2. \A x \in p.steps : Deps(p, x) \cap C # {} => x \in C
  OBVIOUS
<1>3. t \notin C
  <2>1. SUFFICES ASSUME t \in C PROVE FALSE
    OBVIOUS
  <2>2. C \in SUBSET p.steps
    OBVIOUS
  <2>3. s \in C
    BY <1>1, <1>2, <2>1, <2>2 DEF DownstreamClosure
  <2> QED
    BY <2>3
<1> QED
  BY <1>1, <1>3

(* A step of the main flow is on the branches of the main flow only.         *)
LEMMA BranchesOfMainFlow ==
    ASSUME NEW v \in 1..Versions, NEW c \in Plans[v].steps, Plans[v].kind[c] = "condition",
           NEW s \in MainFlow(Plans[v]), s \in Plans[v].onTrue[c] \cup Plans[v].onFalse[c]
    PROVE  c \in MainFlow(Plans[v]) /\ DependsTransitively(Plans[v], s, c)
<1>1. DependsTransitively(Plans[v], s, c)
  BY PlansAssumption DEF ValidPlan, ValidConditions
<1>2. \A x \in Plans[v].steps \cap MainFlow(Plans[v]) : Deps(Plans[v], x) \subseteq MainFlow(Plans[v])
  BY MainFlowIsClosed
<1> HIDE DEF MainFlow
<1> QED
  BY <1>1, <1>2, BackwardsClosed

LEMMA DownstreamIsTransitive ==
    ASSUME NEW p, NEW r, NEW t \in DownstreamClosure(p, r)
    PROVE  DownstreamClosure(p, t) \subseteq DownstreamClosure(p, r)
BY DEF DownstreamClosure

(* What a step comes from is closed under dependencies.                      *)
LEMMA UpstreamIsClosed ==
    ASSUME NEW p, NEW s \in p.steps, NEW x \in p.steps,
           x = s \/ DependsTransitively(p, s, x),
           NEW d \in Deps(p, x)
    PROVE  DependsTransitively(p, s, d)
<1>1. s \in DownstreamClosure(p, x)
  <2>1. CASE x = s
    BY <2>1, RootIsDownstream
  <2>2. CASE DependsTransitively(p, s, x)
    <3>1. PICK t \in p.steps : x \in Deps(p, t) /\ s \in DownstreamClosure(p, t)
      BY <2>2 DEF DependsTransitively
    <3>2. t \in DownstreamClosure(p, x)
      BY <3>1, RootIsDownstream, DownstreamIsClosed
    <3> QED
      BY <3>1, <3>2, DownstreamIsTransitive
  <2> QED
    BY <2>1, <2>2
<1> QED
  BY <1>1 DEF DependsTransitively

(* An accepted repair, and what it leaves alone.                             *)
LEMMA RepairFacts ==
    ASSUME SchedulerInv, RecordedAreSteps, AcceptRepair
    PROVE  /\ version \in 1..Versions /\ runVersion \in 1..Versions
           /\ Plan' = Plans[version]
           /\ Plans[version].steps \subseteq StepIds
           /\ Kept(Plans[version]) \subseteq Plan.steps \cap Plans[version].steps
           /\ \A s \in StepIds :
                 step'[s] = IF s \in Kept(Plans[version]) THEN step[s]
                            ELSE IF s \in Plans[version].steps THEN "pending" ELSE "absent"
           /\ \A s \in StepIds : verdict'[s] = (s \in Kept(Plans[version]) /\ verdict[s])
           /\ blamed \notin Kept(Plans[version])
           /\ pc = "idle" /\ pc' = "accepted" /\ runStatus = "failed" /\ runStatus' = "failed"
<1>1. version \in 1..Versions /\ runVersion \in 1..Versions
  BY DEF SchedulerInv, TypeOK
<1>2. Plans[version].steps \subseteq StepIds
  BY <1>1, PlanFacts
<1>3. Recorded = Plan.steps
  BY DEF RecordedAreSteps, AcceptRepair
<1>4. Kept(Plans[version]) \subseteq Plan.steps \cap Plans[version].steps
  BY <1>3 DEF Kept
<1>5. blamed \notin Kept(Plans[version])
  BY RootIsDownstream DEF Kept, RepairResetSteps
<1> QED
  BY <1>1, <1>2, <1>4, <1>5 DEF AcceptRepair, Plan

(* What a kept step of the main flow rests on is kept, unless it was rewired. *)
LEMMA KeptIsClosed ==
    ASSUME SchedulerInv, RecordedAreSteps, AcceptRepair,
           NEW s \in Kept(Plans[version]), s \notin Rewired, s \in MainFlow(Plans[version])
    PROVE  /\ s \in MainFlow(Plan)
           /\ Deps(Plans[version], s) = Deps(Plan, s)
           /\ Deps(Plan, s) \subseteq Kept(Plans[version]) \cap MainFlow(Plans[version])
<1> DEFINE q == Plans[version]
<1>1. version \in 1..Versions /\ runVersion \in 1..Versions /\ s \in Plan.steps \cap q.steps
  BY RepairFacts
<1>2. s \in MainFlow(Plan) /\ s \in MainFlow(q) /\ Deps(q, s) = Deps(Plan, s)
  BY <1>1 DEF Rewired, MainFlow
<1>3. ASSUME NEW d \in Deps(q, s) PROVE d \in Kept(q) /\ d \in MainFlow(q)
  <2>1. d \in MainFlow(q) /\ d \in MainFlow(Plan)
    BY <1>1, <1>2, MainFlowIsClosed DEF Plan
  <2>2. d \in q.steps /\ d \in Recorded
    BY <2>1 DEF MainFlow, RecordedAreSteps, AcceptRepair
  <2>3. d \notin RepairResetSteps(q)
    <3>1. SUFFICES ASSUME d \in RepairResetSteps(q) PROVE FALSE
      OBVIOUS
    <3>2. \A o : d \notin FanOutBodyClosure(q, o)
      BY <2>1, BodyIsOwned DEF MainFlow
    <3>3. PICK r \in {blamed} \cup (q.steps \ Recorded) : d \in DownstreamClosure(q, r)
      BY <3>1, <3>2 DEF RepairResetSteps
    <3>4. s \in DownstreamClosure(q, r)
      BY <1>1, <3>3, DownstreamIsClosed
    <3> QED
      BY <3>4 DEF Kept, RepairResetSteps
  <2> QED
    BY <2>1, <2>2, <2>3 DEF Kept
<1> QED
  BY <1>2, <1>3

(***************************************************************************)
(* How a checkpoint of the main flow changes                               *)
(***************************************************************************)
Unsettles == {"pending", "running", "waiting"}

LEMMA MainFlowChanges ==
    ASSUME SchedulerInv, RoutingIsOfACondition, [Next]_vars, ~AcceptRepair, ~Execute,
           NEW s \in MainFlow(Plan)
    PROVE  /\ Plan' = Plan
           /\ \/ step'[s] = step[s]
              \/ SkipDependent /\ s = Current /\ step'[s] = "skipped"
              \/ BeginStep /\ s = Current /\ step'[s] = "running"
              \/ RouteCondition /\ s \in RoutedAway(Current) /\ step'[s] = "skipped"
              \/ AttemptSucceeds /\ s = Current /\ step'[s] = "succeeded"
              \/ /\ AttemptFails /\ s = Current /\ step'[s] = "failed"
                 /\ runStatus' = "failed" /\ blamed' = Current /\ pc' = "idle"
              \/ HumanPends /\ s = Current /\ step'[s] = "waiting"
              \/ /\ HumanRejects /\ s = Current /\ step'[s] = "failed"
                 /\ runStatus' = "cancelled" /\ pc' = "idle"
              \/ /\ step[s] \in Unsettles /\ step'[s] = "cancelled"
                 /\ runStatus' = "cancelled" /\ pc' = "idle"
<1>1. s \in StepIds /\ TypeOK
  BY MainFlowIsNoBody DEF SchedulerInv
<1>2. CASE RunBodies
  <2>1. step'[s] = step[s]
    BY <1>2, BodiesLeaveMainFlow
  <2>2. runVersion' = runVersion
    BY <1>2 DEF RunBodies, NextItem, NestedReturns, EnterNested, ChildFails, SkipChild, ChildSucceeds,
                RecordChildren, record
  <2> QED
    BY <2>1, <2>2 DEF Plan
<1>3. CASE ResumeHuman
  BY <1>3 DEF ResumeHuman, record, Plan
<1>4. CASE BeginRun \/ PassOver \/ Finish
  BY <1>4 DEF BeginRun, PassOver, Finish, record, Plan
<1>5. CASE SkipDependent
  BY <1>1, <1>5 DEF SkipDependent, TypeOK, Plan
<1>6. CASE BeginStep
  BY <1>1, <1>6 DEF BeginStep, TypeOK, Plan
<1>7. CASE RouteCondition
  BY <1>1, <1>7 DEF RouteCondition, Plan
<1>8. CASE MarkCancelled
  BY <1>1, <1>8 DEF MarkCancelled, CancelRecord, Halt, Plan, Unsettles
<1>9. CASE CleanStale
  BY <1>1, <1>9 DEF CleanStale, CancelRecord, memory, Plan, Unsettles
<1>10. CASE AttemptSucceeds
  BY <1>1, <1>10, MainFlowIsNoBody DEF AttemptSucceeds, Plan
<1>11. CASE RetryAttempt
  BY <1>11 DEF RetryAttempt, record, Plan
<1>12. CASE AttemptFails
  BY <1>1, <1>12, MainFlowIsNoBody DEF AttemptFails, TerminalizedChildren, Halt, Plan
<1>13. CASE HumanPends
  BY <1>1, <1>13 DEF HumanPends, TypeOK, Plan
<1>14. CASE HumanRejects
  BY <1>1, <1>14 DEF HumanRejects, TypeOK, Halt, Plan
<1>15. CASE Stop \/ Abort \/ ChangePlan \/ Diagnose \/ RecordWorldFix \/ DropDiagnosis
  BY <1>15 DEF Stop, Abort, ChangePlan, Diagnose, RecordWorldFix, DropDiagnosis, record, Plan
<1>16. CASE UNCHANGED vars
  BY <1>16 DEF vars, Plan
<1> QED
  BY <1>2, <1>3, <1>4, <1>5, <1>6, <1>7, <1>8, <1>9, <1>10, <1>11, <1>12, <1>13, <1>14, <1>15, <1>16
  DEF Next, Proceed, EndAttempt

(* The step under way is recorded as running, so that it is no reason for    *)
(* anything and rests on successes.                                          *)
LEMMA UnderWay ==
    ASSUME SchedulerInv, EndAttempt
    PROVE  /\ Current \in MainFlow(Plan) /\ step[Current] = "running"
           /\ \A d \in Deps(Plan, Current) : d \in MainFlow(Plan) /\ step[d] = "succeeded"
<1>1. InAttempt /\ Scheduling
  BY DEF EndAttempt, AttemptSucceeds, RetryAttempt, AttemptFails, HumanPends, HumanRejects,
         InAttempt, Scheduling
<1>2. Current \in MainFlow(Plan) /\ step[Current] = "running" /\ ~DependencyUnavailable(Current)
  BY <1>1 DEF SchedulerInv, ProgressIsRecorded
<1>3. runVersion \in 1..Versions /\ pos \in DOMAIN Order
  BY <1>1 DEF SchedulerInv, TypeOK, InAttempt
<1>4. ASSUME NEW d \in Deps(Plan, Current)
      PROVE  d \in MainFlow(Plan) /\ step[d] = "succeeded"
  <2>1. PICK j \in DOMAIN Order : j < pos /\ Order[j] = d
    BY <1>3, DependenciesComeFirst DEF Order, Plan, Current
  <2>2. Settled(d)
    BY <1>1, <2>1 DEF SchedulerInv, ProgressIsRecorded
  <2>3. d \in MainFlow(Plan)
    BY <1>2, <1>3, MainFlowIsClosed DEF Plan
  <2>4. d \notin unavailable
    BY <1>2 DEF DependencyUnavailable
  <2>5. d \in completed
    BY <2>2, <2>3, <2>4 DEF Settled, MainFlow
  <2> QED
    BY <1>1, <2>3, <2>5 DEF SchedulerInv, CachesAgree
<1> QED
  BY <1>2, <1>4

(* Whatever was settled in the main flow stays as it is until a repair.      *)
LEMMA SettledStays ==
    ASSUME SchedulerInv, RoutingIsOfACondition, [Next]_vars, ~AcceptRepair, ~Execute,
           NEW s \in MainFlow(Plan), step[s] \in {"succeeded", "failed", "skipped", "cancelled"}
    PROVE  step'[s] = step[s]
<1>1. ~(SkipDependent /\ s = Current) /\ ~(BeginStep /\ s = Current)
  BY AtStepFacts DEF SkipDependent, BeginStep
<1>2. ~(RouteCondition /\ s \in RoutedAway(Current))
  BY DEF SchedulerInv, CachesAgree, Scheduling, RouteCondition, RoutedAway
<1>3. ~(EndAttempt /\ s = Current)
  BY UnderWay
<1>4. step[s] \notin Unsettles
  BY DEF Unsettles
<1> QED
  BY <1>1, <1>2, <1>3, <1>4, MainFlowChanges DEF EndAttempt

(* So does what a CONDITION that succeeded decided.                          *)
LEMMA VerdictStays ==
    ASSUME SchedulerInv, [Next]_vars, ~AcceptRepair,
           NEW c \in MainFlow(Plan), step[c] = "succeeded"
    PROVE  verdict'[c] = verdict[c]
<1>1. CASE AttemptSucceeds
  <2>1. c # Current
    BY <1>1, UnderWay DEF EndAttempt
  <2> QED
    BY <1>1, <2>1, MainFlowIsNoBody DEF AttemptSucceeds, SchedulerInv, TypeOK
<1>2. CASE ~AttemptSucceeds
  BY <1>2
  DEF Next, Proceed, EndAttempt, RunBodies, Execute, ResumeHuman, BeginRun, PassOver, SkipDependent,
      BeginStep, RouteCondition, Finish, MarkCancelled, CancelRecord, NextItem, NestedReturns,
      EnterNested, ChildFails, SkipChild, ChildSucceeds, RecordChildren, RetryAttempt, AttemptFails,
      HumanPends, HumanRejects, Stop, Abort, CleanStale, ChangePlan, Diagnose, RecordWorldFix,
      DropDiagnosis, record, vars
<1> QED
  BY <1>1, <1>2

(* A run nobody executes stays as it ended.                                  *)
LEMMA EndStays ==
    ASSUME [Next]_vars, ~AcceptRepair, pc = "idle", runStatus \in {"succeeded", "failed", "cancelled"}
    PROVE  UNCHANGED <<runStatus, runVersion, blamed, step, pc>>
BY DEF Next, Proceed, EndAttempt, RunBodies, Execute, ResumeHuman, BeginRun, PassOver, SkipDependent,
       BeginStep, AtStep, RouteCondition, Finish, MarkCancelled, NextItem, NestedReturns, IsNext,
       EnterNested, ChildFails, SkipChild, ChildSucceeds, AttemptSucceeds, RetryAttempt,
       InAttempt, AttemptFails, HumanPends, HumanRejects, Stop, Abort, CleanStale, ChangePlan,
       Diagnose, RecordWorldFix, DropDiagnosis, record, memory, vars

(* Only a new run or a repair changes the plan a run executes.               *)
LEMMA PlanStays ==
    ASSUME [Next]_vars, ~AcceptRepair, ~Execute
    PROVE  runVersion' = runVersion /\ Plan' = Plan
<1>1. runVersion' = runVersion
  BY DEF Next, Proceed, EndAttempt, RunBodies, ResumeHuman, BeginRun, PassOver, SkipDependent,
         BeginStep, RouteCondition, Finish, MarkCancelled, CancelRecord, NextItem, NestedReturns,
         EnterNested, ChildFails, SkipChild, ChildSucceeds, RecordChildren, AttemptSucceeds,
         RetryAttempt, AttemptFails, HumanPends, HumanRejects, Stop, Abort, CleanStale, ChangePlan,
         Diagnose, RecordWorldFix, DropDiagnosis, record, vars
<1> QED
  BY <1>1 DEF Plan

(***************************************************************************)
(* The bodies of FAN_OUTs                                                  *)
(***************************************************************************)
(* A body is closed under ownership, and the least such set.                 *)
LEMMA BodyIsClosed ==
    ASSUME NEW p, NEW o
    PROVE  /\ Spawned(p, o) \subseteq FanOutBodyClosure(p, o)
           /\ \A t \in FanOutBodyClosure(p, o) : Spawned(p, t) \subseteq FanOutBodyClosure(p, o)
<1>1. \A t : Spawned(p, t) \subseteq FanOutOwned(p)
  BY DEF FanOutOwned, Spawned
<1> QED
  BY <1>1 DEF FanOutBodyClosure

LEMMA BodyIsLeast ==
    ASSUME NEW p, NEW o, NEW K,
           Spawned(p, o) \subseteq K,
           \A t \in FanOutBodyClosure(p, o) \cap K : Spawned(p, t) \subseteq K
    PROVE  FanOutBodyClosure(p, o) \subseteq K
<1> DEFINE D == FanOutBodyClosure(p, o) \cap K
<1>1. D \in SUBSET FanOutOwned(p)
  BY BodyIsOwned
<1>2. Spawned(p, o) \subseteq D /\ \A t \in D : Spawned(p, t) \subseteq D
  BY BodyIsClosed
<1>3. FanOutBodyClosure(p, o) \subseteq D
  <2> HIDE DEF D
  <2> QED
    BY <1>1, <1>2 DEF FanOutBodyClosure
<1> QED
  BY <1>3

(* Only a FAN_OUT has a body.                                               *)
LEMMA NoBody ==
    ASSUME NEW p, NEW o, Spawned(p, o) = {}
    PROVE  FanOutBodyClosure(p, o) = {}
BY BodyIsLeast

(* A step of a body has an owner in it.                                     *)
LEMMA BodyHasOwner ==
    ASSUME NEW p, NEW o, NEW s \in FanOutBodyClosure(p, o)
    PROVE  s \in Spawned(p, o) \/ \E t \in FanOutBodyClosure(p, o) : s \in Spawned(p, t)
<1> DEFINE K == FanOutBodyClosure(p, o) \ {s}
<1>1. SUFFICES ASSUME s \notin Spawned(p, o),
                      \A t \in FanOutBodyClosure(p, o) : s \notin Spawned(p, t)
               PROVE  FALSE
  OBVIOUS
<1>2. Spawned(p, o) \subseteq K /\ \A t \in FanOutBodyClosure(p, o) : Spawned(p, t) \subseteq K
  BY <1>1, BodyIsClosed
<1>3. FanOutBodyClosure(p, o) \subseteq K
  <2> HIDE DEF K
  <2> QED
    BY <1>2, BodyIsLeast
<1> QED
  BY <1>3

(* It has no other.                                                          *)
LEMMA OwnerIsUnique ==
    ASSUME NEW v \in 1..Versions, NEW o, NEW t,
           NEW s \in Spawned(Plans[v], o), s \in Spawned(Plans[v], t)
    PROVE  o = t
<1>1. o \in Plans[v].steps /\ t \in Plans[v].steps
  BY DEF Spawned
<1> QED
  BY <1>1, PlansAssumption DEF ValidPlan, OneOwner

(* Different FAN_OUTs of the main flow have nothing in common.               *)
LEMMA BodiesAreDisjoint ==
    ASSUME NEW v \in 1..Versions,
           NEW o \in MainFlow(Plans[v]), NEW r \in MainFlow(Plans[v]), o # r
    PROVE  FanOutBodyClosure(Plans[v], o) \cap FanOutBodyClosure(Plans[v], r) = {}
<1> DEFINE p == Plans[v]
           K == FanOutOwned(p) \ FanOutBodyClosure(p, r)
<1>1. ASSUME NEW t, t \in {o} \cup K, NEW s \in Spawned(p, t)
      PROVE  s \in K
  <2>1. s \in FanOutOwned(p)
    BY DEF Spawned, FanOutOwned
  <2>2. SUFFICES ASSUME s \in FanOutBodyClosure(p, r) PROVE FALSE
    BY <2>1
  <2>3. PICK u \in {r} \cup FanOutBodyClosure(p, r) : s \in Spawned(p, u)
    BY <2>2, BodyHasOwner
  <2>4. u = t
    BY <1>1, <2>3, OwnerIsUnique
  <2>5. o \notin FanOutBodyClosure(p, r) /\ r \notin FanOutOwned(p)
    BY BodyIsOwned DEF MainFlow
  <2> QED
    BY <1>1, <2>3, <2>4, <2>5
<1>2. FanOutBodyClosure(p, o) \subseteq K
  <2>1. Spawned(p, o) \subseteq K /\ \A t \in K : Spawned(p, t) \subseteq K
    BY <1>1
  <2> HIDE DEF K
  <2> QED
    BY <2>1, BodyIsLeast
<1> QED
  BY <1>2

(***************************************************************************)
(* How a body changes                                                      *)
(***************************************************************************)
LEMMA RunnerFacts ==
    ASSUME SchedulerInv, NestedInBody, pc = "attempt"
    PROVE  /\ Current \in MainFlow(Plan)
           /\ Owner \in {Current} \cup FanOutBodyClosure(Plan, Current)
           /\ OwnBody \subseteq FanOutBodyClosure(Plan, Current)
           /\ FanOutBodyClosure(Plan, Current) \subseteq StepIds
           /\ \A i \in DOMAIN nested : nested[i] \in FanOutBodyClosure(Plan, Current)
<1>1. Current \in MainFlow(Plan)
  BY DEF SchedulerInv, ProgressIsRecorded, Scheduling, InAttempt
<1>2. \A i \in DOMAIN nested : nested[i] \in FanOutBodyClosure(Plan, Current)
  BY DEF NestedInBody
<1>3. Owner \in {Current} \cup FanOutBodyClosure(Plan, Current)
  BY <1>2 DEF Owner, SchedulerInv, TypeOK
<1>4. OwnBody \subseteq FanOutBodyClosure(Plan, Current)
  BY <1>3, BodyIsClosed DEF OwnBody
<1>5. FanOutBodyClosure(Plan, Current) \subseteq StepIds
  BY BodyIsOwned, OwnedAreSteps, PlanFacts DEF Plan, SchedulerInv, TypeOK
<1> QED
  BY <1>1, <1>2, <1>3, <1>4, <1>5

(* The runner works on the body of the step under way, and on nothing else.  *)
LEMMA RunnerStaysInside ==
    ASSUME SchedulerInv, NestedInBody, RunBodies
    PROVE  /\ pc = "attempt" /\ pc' \in {"attempt", "child_failed"}
           /\ Plan' = Plan /\ Current' = Current
           /\ UNCHANGED <<runStatus, runVersion, pos, attempt>>
           /\ \A s \in StepIds \ FanOutBodyClosure(Plan, Current) :
                 step'[s] = step[s] /\ iterations'[s] = iterations[s]
<1> DEFINE C == FanOutBodyClosure(Plan, Current)
<1>1. pc = "attempt"
  BY DEF RunBodies, NextItem, NestedReturns, EnterNested, ChildFails, SkipChild, ChildSucceeds, IsNext
<1>2. UNCHANGED <<runStatus, runVersion, pos, attempt>> /\ pc' \in {"attempt", "child_failed"}
  BY <1>1 DEF RunBodies, NextItem, NestedReturns, EnterNested, ChildFails, SkipChild, ChildSucceeds,
              RecordChildren, record
<1>3. Plan' = Plan /\ Current' = Current
  BY <1>2 DEF Plan, Current, Order
<1>4. OwnBody \subseteq C /\ (nested # <<>> => Owner \in C) /\ \A i \in DOMAIN nested : nested[i] \in C
  <2>1. nested # <<>> => Owner \in C
    BY <1>1 DEF NestedInBody, Owner, SchedulerInv, TypeOK
  <2> QED
    BY <1>1, <2>1, RunnerFacts
<1>5. ASSUME NEW children \in SUBSET C, NEW status, NEW outcome,
             RecordChildren(children, status, outcome)
      PROVE  \A s \in StepIds \ C : step'[s] = step[s] /\ iterations'[s] = iterations[s]
  <2> HIDE DEF C
  <2>1. ASSUME NEW s \in StepIds, s \notin children
        PROVE  step'[s] = step[s] /\ iterations'[s] = iterations[s]
    BY <1>5, <2>1 DEF RecordChildren, SchedulerInv, TypeOK
  <2> QED
    BY <2>1
<1>6. ASSUME NEW status \in StepStatuses, NestedReturns(status)
      PROVE  \A s \in StepIds \ C : step'[s] = step[s] /\ iterations'[s] = iterations[s]
  BY <1>4, <1>5, <1>6 DEF NestedReturns
<1>7. ASSUME NEW c \in StepIds, ChildFails(c)
      PROVE  \A s \in StepIds \ C : step'[s] = step[s] /\ iterations'[s] = iterations[s]
  <2>1. {c} \cup {nested[i] : i \in DOMAIN nested} \in SUBSET C
    BY <1>4, <1>7 DEF ChildFails, IsNext
  <2>2. RecordChildren({c} \cup {nested[i] : i \in DOMAIN nested}, "failed", "failed")
    BY <1>7 DEF ChildFails
  <2> QED
    BY <1>5, <2>1, <2>2
<1>8. ASSUME NEW c \in StepIds, NEW status \in StepStatuses,
             SkipChild(c, status) \/ ChildSucceeds(c, status)
      PROVE  \A s \in StepIds \ C : step'[s] = step[s] /\ iterations'[s] = iterations[s]
  <2>1. {c} \in SUBSET C
    BY <1>4, <1>8 DEF SkipChild, ChildSucceeds, IsNext
  <2>2. PICK outcome : RecordChildren({c}, status, outcome)
    BY <1>8 DEF SkipChild, ChildSucceeds
  <2> QED
    BY <1>5, <2>1, <2>2
<1>9. ASSUME NextItem \/ \E c \in StepIds : EnterNested(c)
      PROVE  \A s \in StepIds \ C : step'[s] = step[s] /\ iterations'[s] = iterations[s]
  BY <1>9 DEF NextItem, EnterNested, record
<1>10. \A s \in StepIds \ C : step'[s] = step[s] /\ iterations'[s] = iterations[s]
  <2> HIDE DEF C
  <2>1. CASE NextItem \/ \E c \in StepIds : EnterNested(c)
    BY <1>9, <2>1
  <2>2. CASE \E status \in StepStatuses : NestedReturns(status)
    BY <1>6, <2>2
  <2>3. CASE \E c \in StepIds : ChildFails(c)
    BY <1>7, <2>3
  <2>4. CASE \E c \in StepIds, status \in StepStatuses : SkipChild(c, status) \/ ChildSucceeds(c, status)
    BY <1>8, <2>4
  <2> QED
    BY <2>1, <2>2, <2>3, <2>4 DEF RunBodies
<1> QED
  BY <1>1, <1>2, <1>3, <1>10

(* How else the record of a body step changes.                               *)
LEMMA BodyChanges ==
    ASSUME SchedulerInv, RoutingIsOfACondition, NestedInBody,
           [Next]_vars, ~AcceptRepair, ~Execute,
           NEW s \in FanOutOwned(Plan)
    PROVE  /\ s \in StepIds
           /\ \/ step'[s] = step[s] /\ iterations'[s] = iterations[s]
              \/ RunBodies /\ s \in FanOutBodyClosure(Plan, Current)
              \/ /\ AttemptSucceeds /\ s \in FanOutBodyClosure(Plan, Current)
                 /\ step'[s] = FinalStatus(s) /\ iterations'[s] = iterations[s]
              \/ /\ AttemptFails /\ s \in FanOutBodyClosure(Plan, Current)
                 /\ step'[s] = "cancelled" /\ iterations'[s] = iterations[s]
              \/ /\ RouteCondition /\ s \in RoutedAway(Current)
                 /\ step'[s] = "skipped" /\ iterations'[s] = iterations[s]
              \/ /\ MarkCancelled \/ CleanStale
                 /\ step'[s] = "cancelled" /\ iterations'[s] = iterations[s]
<1>1. s \in StepIds /\ TypeOK /\ s \notin MainFlow(Plan)
  BY OwnedAreSteps, PlanFacts DEF Plan, SchedulerInv, TypeOK, MainFlow
<1>2. CASE RunBodies
  BY <1>1, <1>2, RunnerStaysInside
<1>3. CASE SkipDependent \/ BeginStep
  <2>1. Current # s
    BY <1>1, <1>3, AtStepFacts DEF SkipDependent, BeginStep
  <2> QED
    BY <1>1, <1>3, <2>1 DEF SkipDependent, BeginStep, TypeOK
<1>4. CASE RouteCondition
  BY <1>1, <1>4 DEF RouteCondition
<1>5. CASE AttemptSucceeds \/ AttemptFails \/ HumanPends \/ HumanRejects
  <2>1. Current # s
    BY <1>1, <1>5, UnderWay DEF EndAttempt
  <2>2. CASE AttemptSucceeds
    BY <1>1, <2>1, <2>2 DEF AttemptSucceeds
  <2>3. CASE AttemptFails
    BY <1>1, <2>1, <2>3 DEF AttemptFails, TerminalizedChildren
  <2>4. CASE HumanPends \/ HumanRejects
    BY <1>1, <2>1, <2>4 DEF HumanPends, HumanRejects, TypeOK
  <2> QED
    BY <1>5, <2>2, <2>3, <2>4
<1>6. CASE MarkCancelled \/ CleanStale
  BY <1>1, <1>6 DEF MarkCancelled, CleanStale, CancelRecord
<1>7. CASE ResumeHuman \/ BeginRun \/ PassOver \/ Finish \/ RetryAttempt
  BY <1>1, <1>7 DEF ResumeHuman, BeginRun, PassOver, Finish, RetryAttempt, record
<1>8. CASE Stop \/ Abort \/ ChangePlan \/ Diagnose \/ RecordWorldFix \/ DropDiagnosis \/ UNCHANGED vars
  BY <1>1, <1>8 DEF Stop, Abort, ChangePlan, Diagnose, RecordWorldFix, DropDiagnosis, record, vars
<1> QED
  BY <1>2, <1>3, <1>4, <1>5, <1>6, <1>7, <1>8 DEF Next, Proceed, EndAttempt

(***************************************************************************)
(* FlowInv is inductive                                                    *)
(***************************************************************************)
LEMMA FlowInit == Init => FlowInv
<1> SUFFICES ASSUME Init PROVE FlowInv
  OBVIOUS
<1>1. SchedulerInv
  BY SchedulerInit
<1>2. pc = "idle" /\ runStatus = "absent" /\ \A s \in StepIds : iterations[s] = {}
  BY DEF Init
<1> QED
  BY <1>1, <1>2
  DEF FlowInv, RecordedAreSteps, RoutingIsOfACondition, EndsAreIdle, NothingRanBefore,
      OwnersAreRunning, NestedInBody, Scheduling

(* The record lists the steps of the plan.                                   *)
LEMMA RecordedStep ==
    ASSUME FlowInv, [Next]_vars
    PROVE  RecordedAreSteps'
<1>0. SchedulerInv /\ TypeOK /\ ProgressIsRecorded /\ RecordedAreSteps /\ RoutingIsOfACondition
  BY DEF FlowInv, SchedulerInv
<1>1. TypeOK /\ runVersion \in 1..Versions /\ version \in 1..Versions
  BY <1>0 DEF TypeOK
<1>2. Plan.steps \subseteq StepIds /\ Plans[version].steps \subseteq StepIds
  BY <1>1, PlanFacts DEF Plan
<1>3. CASE AcceptRepair
  <2>1. \A s \in StepIds : step'[s] # "absent" <=> s \in Plans[version].steps
    BY <1>0, <1>3, RepairFacts DEF Kept, Recorded
  <2> QED
    BY <1>0, <1>2, <1>3, <2>1, RepairFacts DEF RecordedAreSteps, Recorded
<1>4. CASE Execute
  BY <1>2, <1>4 DEF Execute, RecordedAreSteps, Recorded, Plan
<1>5. CASE UNCHANGED <<step, runVersion>> /\ (runStatus' # "absent" => runStatus # "absent")
  BY <1>0, <1>5 DEF RecordedAreSteps, Recorded, Plan
<1>6. \A S \in SUBSET Plan.steps :
        /\ runVersion' = runVersion /\ runStatus # "absent"
        /\ \A s \in StepIds \ S : step'[s] = step[s]
        /\ \A s \in S : step'[s] # "absent"
        => RecordedAreSteps'
  BY <1>0, <1>2 DEF RecordedAreSteps, Recorded, Plan
<1>7. pc # "idle" => runStatus # "absent"
  BY <1>0 DEF ProgressIsRecorded
<1>8. FanOutOwned(Plan) \subseteq Plan.steps
  BY <1>1, OwnedAreSteps DEF Plan
<1>9. CASE RunBodies
  <2>1. OwnBody \subseteq Plan.steps /\ \A i \in DOMAIN nested : nested[i] \in Plan.steps
    BY <1>0, <1>1, <1>8, OwnBodyFacts DEF ProgressIsRecorded
  <2>2. nested # <<>> => Owner \in Plan.steps
    BY <1>1, <2>1 DEF Owner, TypeOK
  <2>3. CASE NextItem \/ \E c \in StepIds : EnterNested(c)
    BY <1>5, <2>3 DEF NextItem, EnterNested, record
  <2>4. ASSUME NEW status \in StepStatuses, NestedReturns(status) PROVE RecordedAreSteps'
    <3>1. /\ {Owner} \in SUBSET Plan.steps /\ runStatus # "absent" /\ runVersion' = runVersion
          /\ \A s \in StepIds \ {Owner} : step'[s] = step[s]
      BY <1>7, <2>2, <2>4 DEF NestedReturns, RecordChildren
    <3>2. step'[Owner] # "absent"
      BY <1>2, <2>4, <3>1 DEF NestedReturns, RecordChildren
    <3> QED
      BY <1>6, <3>1, <3>2
  <2>5. ASSUME NEW c \in StepIds, ChildFails(c) PROVE RecordedAreSteps'
    <3> DEFINE S == {c} \cup {nested[i] : i \in DOMAIN nested}
    <3>0. pc = "attempt" /\ c \in Plan.steps
      BY <2>1, <2>2, <2>5 DEF ChildFails, IsNext
    <3>1. /\ S \in SUBSET Plan.steps /\ runStatus # "absent" /\ runVersion' = runVersion
      BY <1>7, <2>1, <2>5, <3>0 DEF ChildFails, RecordChildren
    <3>2. /\ \A s \in StepIds \ S : step'[s] = step[s]
          /\ \A s \in S : step'[s] # "absent"
      BY <1>2, <2>5, <3>1 DEF ChildFails, RecordChildren
    <3> HIDE DEF S
    <3> QED
      BY <1>6, <3>1, <3>2
  <2>6. ASSUME NEW c \in StepIds, NEW status \in StepStatuses,
               SkipChild(c, status) \/ ChildSucceeds(c, status)
        PROVE  RecordedAreSteps'
    <3>1. /\ {c} \in SUBSET Plan.steps /\ runStatus # "absent" /\ runVersion' = runVersion
      BY <1>7, <2>1, <2>6 DEF SkipChild, ChildSucceeds, RecordChildren, IsNext
    <3>2. status # "absent" /\ step' = [s \in StepIds |-> IF s \in {c} THEN status ELSE step[s]]
      BY <2>6 DEF SkipChild, ChildSucceeds, RecordChildren
    <3>3. /\ \A s \in StepIds \ {c} : step'[s] = step[s]
          /\ \A s \in {c} : step'[s] # "absent"
      BY <3>2
    <3> QED
      BY <1>6, <3>1, <3>3
  <2> QED
    BY <1>9, <2>3, <2>4, <2>5, <2>6 DEF RunBodies
<1>10. CASE SkipDependent \/ BeginStep \/ HumanPends \/ HumanRejects
  <2>1. pos \in DOMAIN Order
    BY <1>1, <1>10 DEF SkipDependent, BeginStep, AtStep, HumanPends, HumanRejects, TypeOK
  <2>2. Current \in Plan.steps /\ Current \in StepIds
    BY <1>1, <2>1, CurrentFacts
  <2>3. runStatus # "absent"
    BY <1>7, <1>10 DEF SkipDependent, BeginStep, AtStep, HumanPends, HumanRejects
  <2>4. /\ \A s \in StepIds \ {Current} : step'[s] = step[s]
        /\ step'[Current] # "absent" /\ runVersion' = runVersion
    <3>1. PICK status \in {"skipped", "running", "waiting", "failed"} :
             step' = [step EXCEPT ![Current] = status]
      BY <1>10 DEF SkipDependent, BeginStep, HumanPends, HumanRejects
    <3>2. runVersion' = runVersion
      BY <1>10 DEF SkipDependent, BeginStep, HumanPends, HumanRejects
    <3> QED
      BY <1>1, <2>2, <3>1, <3>2 DEF TypeOK
  <2> QED
    <3>1. {Current} \in SUBSET Plan.steps /\ \A s \in {Current} : step'[s] # "absent"
      BY <2>2, <2>4
    <3> QED
      BY <1>6, <2>3, <2>4, <3>1
<1>11. CASE RouteCondition
  <2>1. Current \in MainFlow(Plan) /\ Plan.kind[Current] = "condition"
    BY <1>0, <1>11 DEF RouteCondition, RoutingIsOfACondition
  <2>2. RoutedAway(Current) \subseteq Plan.steps
    BY <1>1, <2>1, PlansAssumption
    DEF RoutedAway, Untaken, ValidPlan, ValidConditions, MainFlow, Plan
  <2>3. /\ \A s \in StepIds \ RoutedAway(Current) : step'[s] = step[s]
        /\ \A s \in RoutedAway(Current) : step'[s] # "absent"
        /\ runVersion' = runVersion /\ runStatus # "absent"
    BY <1>2, <1>7, <1>11, <2>2 DEF RouteCondition
  <2> QED
    BY <1>6, <2>2, <2>3
<1>12. CASE AttemptSucceeds \/ AttemptFails
  <2> DEFINE S == {Current} \cup FanOutBodyClosure(Plan, Current)
  <2>1. pos \in DOMAIN Order
    BY <1>1, <1>12 DEF AttemptSucceeds, AttemptFails, InAttempt, TypeOK
  <2>2. S \subseteq Plan.steps
    BY <1>1, <1>8, <2>1, CurrentFacts, BodyIsOwned
  <2>3. \A s \in S : step[s] # "absent"
    BY <1>0, <1>2, <1>7, <1>12, <2>2 DEF RecordedAreSteps, Recorded, AttemptSucceeds, AttemptFails, InAttempt
  <2>4. CASE AttemptSucceeds
    <3>1. /\ \A s \in StepIds \ S : step'[s] = step[s]
          /\ runVersion' = runVersion /\ runStatus # "absent"
      BY <1>7, <2>4 DEF AttemptSucceeds
    <3>2. \A s \in S : step'[s] # "absent"
      BY <1>2, <2>2, <2>3, <2>4 DEF AttemptSucceeds, FinalStatus
    <3> QED
      BY <1>6, <2>2, <3>1, <3>2
  <2>5. CASE AttemptFails
    <3>1. /\ \A s \in StepIds \ S : step'[s] = step[s]
          /\ runVersion' = runVersion /\ runStatus # "absent"
      BY <1>7, <2>5 DEF AttemptFails, InAttempt, TerminalizedChildren
    <3>2. \A s \in S : step'[s] # "absent"
      BY <1>2, <2>2, <2>3, <2>5 DEF AttemptFails
    <3> QED
      BY <1>6, <2>2, <3>1, <3>2
  <2> QED
    BY <1>12, <2>4, <2>5
<1>13. CASE MarkCancelled \/ CleanStale
  <2>1. \A s \in StepIds : step'[s] # "absent" <=> step[s] # "absent"
    BY <1>13 DEF MarkCancelled, CleanStale, CancelRecord
  <2>2. runVersion' = runVersion /\ runStatus # "absent"
    BY <1>7, <1>13 DEF MarkCancelled, CleanStale, CancelRecord
  <2> QED
    BY <1>0, <2>1, <2>2 DEF RecordedAreSteps, Recorded, Plan
<1>14. CASE BeginRun \/ Finish
  BY <1>5, <1>7, <1>14 DEF BeginRun, Finish
<1>15. CASE \/ ResumeHuman \/ PassOver \/ RetryAttempt \/ Stop \/ Abort
            \/ ChangePlan \/ Diagnose \/ RecordWorldFix \/ DropDiagnosis \/ UNCHANGED vars
  BY <1>5, <1>15 DEF ResumeHuman, PassOver, RetryAttempt, Stop, Abort, ChangePlan, Diagnose,
                     RecordWorldFix, DropDiagnosis, record, vars
<1> QED
  BY <1>3, <1>4, <1>9, <1>10, <1>11, <1>12, <1>13, <1>14, <1>15 DEF Next, Proceed, EndAttempt

(* Routing, and ends.                                                        *)
LEMMA RoutingStep ==
    ASSUME FlowInv, [Next]_vars
    PROVE  RoutingIsOfACondition' /\ EndsAreIdle'
<1>1. CASE AttemptSucceeds
  <2>1. Current \in MainFlow(Plan)
    BY <1>1, UnderWay DEF EndAttempt, FlowInv
  <2>2. /\ Plan' = Plan /\ runStatus' = runStatus /\ pc # "idle"
        /\ pc' = "routing" => Current' = Current /\ Plan.kind[Current] = "condition"
    BY <1>1 DEF AttemptSucceeds, Advance, Plan, Current, Order
  <2> QED
    BY <2>1, <2>2 DEF FlowInv, RoutingIsOfACondition, EndsAreIdle
<1>2. CASE \/ Stop \/ Abort \/ MarkCancelled \/ CleanStale \/ Finish \/ AttemptFails
           \/ HumanPends \/ HumanRejects
  BY <1>2 DEF FlowInv, EndsAreIdle, RoutingIsOfACondition, Stop, Abort, MarkCancelled, CleanStale,
              CancelRecord, Finish, AttemptFails, HumanPends, HumanRejects, Halt, record, memory
<1>3. CASE Execute \/ ResumeHuman \/ AcceptRepair \/ BeginRun \/ PassOver \/ SkipDependent \/ BeginStep
           \/ RouteCondition \/ RetryAttempt
  BY <1>3 DEF FlowInv, EndsAreIdle, RoutingIsOfACondition, Execute, ResumeHuman, AcceptRepair, BeginRun,
              PassOver, SkipDependent, BeginStep, RouteCondition, RetryAttempt, Advance, record,
              AtStep, InAttempt
<1>4. CASE RunBodies
  BY <1>4 DEF FlowInv, EndsAreIdle, RoutingIsOfACondition, RunBodies, NextItem, NestedReturns, EnterNested,
              ChildFails, SkipChild, ChildSucceeds, RecordChildren, IsNext, record
<1>5. CASE ChangePlan \/ Diagnose \/ RecordWorldFix \/ DropDiagnosis \/ UNCHANGED vars
  BY <1>5 DEF FlowInv, EndsAreIdle, RoutingIsOfACondition, ChangePlan, Diagnose, RecordWorldFix,
              DropDiagnosis, record, memory, vars, Plan, Current, Order
<1> QED
  BY <1>1, <1>2, <1>3, <1>4, <1>5 DEF Next, Proceed, EndAttempt

(* Who writes iterations, and to which run.                                 *)
LEMMA NothingRanStep ==
    ASSUME FlowInv, [Next]_vars
    PROVE  NothingRanBefore'
<1>1. SUFFICES ASSUME runStatus' = "absent"
               PROVE  runStatus = "absent" /\ iterations' = iterations
  BY DEF FlowInv, NothingRanBefore
<1>2. pc = "attempt" => runStatus # "absent"
  BY DEF FlowInv, SchedulerInv, ProgressIsRecorded
<1> QED
  BY <1>1, <1>2
  DEF Next, Proceed, EndAttempt, RunBodies, Execute, ResumeHuman, AcceptRepair, BeginRun, PassOver,
      SkipDependent, BeginStep, RouteCondition, Finish, MarkCancelled, CancelRecord, NextItem,
      NestedReturns, EnterNested, ChildFails, SkipChild, ChildSucceeds, IsNext, RecordChildren,
      AttemptSucceeds, RetryAttempt, AttemptFails, HumanPends, HumanRejects, Stop, Abort,
      CleanStale, ChangePlan, Diagnose, RecordWorldFix, DropDiagnosis, record, vars

(* Who says Running.                                                         *)
LEMMA OwnersStep ==
    ASSUME FlowInv, [Next]_vars
    PROVE  OwnersAreRunning'
<1>1. OwnersAreRunning
  BY DEF FlowInv
<1>2. CASE Execute \/ ResumeHuman \/ AcceptRepair
  BY <1>2 DEF OwnersAreRunning, Scheduling, Execute, ResumeHuman, AcceptRepair
<1>3. CASE Proceed
  BY <1>1, <1>3
  DEF OwnersAreRunning, Scheduling, Proceed, BeginRun, PassOver, SkipDependent, BeginStep,
      RouteCondition, Finish, MarkCancelled, Halt, Advance, AtStep, record
<1>4. CASE EndAttempt
  BY <1>1, <1>4
  DEF OwnersAreRunning, Scheduling, EndAttempt, AttemptSucceeds, RetryAttempt, AttemptFails,
      HumanPends, HumanRejects, InAttempt, Advance, Halt, record
<1>5. CASE RunBodies
  BY <1>1, <1>5
  DEF OwnersAreRunning, Scheduling, RunBodies, NextItem, NestedReturns, EnterNested, ChildFails,
      SkipChild, ChildSucceeds, IsNext, RecordChildren, record
<1>6. CASE Stop \/ Abort \/ CleanStale
  BY <1>1, <1>6 DEF OwnersAreRunning, Scheduling, Stop, Abort, CleanStale, Halt, memory, record
<1>7. CASE ChangePlan \/ Diagnose \/ RecordWorldFix \/ DropDiagnosis \/ UNCHANGED vars
  BY <1>1, <1>7 DEF OwnersAreRunning, Scheduling, ChangePlan, Diagnose, RecordWorldFix,
                    DropDiagnosis, record, memory, vars
<1> QED
  BY <1>2, <1>3, <1>4, <1>5, <1>6, <1>7 DEF Next

(* Where the runner is.                                                      *)
LEMMA NestedStep ==
    ASSUME FlowInv, [Next]_vars
    PROVE  NestedInBody'
<1>1. SchedulerInv /\ NestedInBody /\ TypeOK
  BY DEF FlowInv, SchedulerInv
<1>2. CASE RunBodies
  <2>1. SUFFICES ASSUME pc' = "attempt", NEW i \in DOMAIN nested'
                 PROVE  /\ nested'[i] \in FanOutBodyClosure(Plan, Current)
                        /\ nested'[i] \in Spawned(Plan, IF i = 1 THEN Current ELSE nested'[i - 1])
    BY <1>1, <1>2, RunnerStaysInside DEF NestedInBody
  <2>2. pc = "attempt"
    BY <1>1, <1>2, RunnerStaysInside
  <2>3. CASE nested' = nested
    BY <1>1, <2>1, <2>2, <2>3 DEF NestedInBody
  <2>4. ASSUME NEW c \in StepIds, EnterNested(c)
        PROVE  /\ nested'[i] \in FanOutBodyClosure(Plan, Current)
               /\ nested'[i] \in Spawned(Plan, IF i = 1 THEN Current ELSE nested'[i - 1])
    <3>1. nested' = Append(nested, c) /\ c \in OwnBody
      BY <2>4 DEF EnterNested, IsNext
    <3>2. c \in FanOutBodyClosure(Plan, Current)
      BY <1>1, <2>2, <3>1, RunnerFacts
    <3>3. c \in Spawned(Plan, IF nested = <<>> THEN Current ELSE nested[Len(nested)])
      BY <3>1 DEF OwnBody, Owner
    <3>4. nested \in Seq(StepIds)
      BY <1>1 DEF TypeOK
    <3>5. CASE i = Len(nested) + 1
      <4>1. nested'[i] = c /\ (i = 1 <=> nested = <<>>)
        BY <3>1, <3>4, <3>5
      <4>2. i # 1 => nested'[i - 1] = nested[Len(nested)]
        BY <3>1, <3>4, <3>5
      <4> QED
        BY <3>2, <3>3, <4>1, <4>2
    <3>6. CASE i # Len(nested) + 1
      <4>1. i \in DOMAIN nested /\ nested'[i] = nested[i] /\ (i # 1 => nested'[i - 1] = nested[i - 1])
        BY <2>1, <3>1, <3>4, <3>6
      <4> QED
        BY <1>1, <2>2, <4>1 DEF NestedInBody
    <3> QED
      BY <3>5, <3>6
  <2>5. ASSUME NEW status \in StepStatuses, NestedReturns(status)
        PROVE  /\ nested'[i] \in FanOutBodyClosure(Plan, Current)
               /\ nested'[i] \in Spawned(Plan, IF i = 1 THEN Current ELSE nested'[i - 1])
    <3>1. nested \in Seq(StepIds) /\ nested # <<>> /\ nested' = SubSeq(nested, 1, Len(nested) - 1)
      BY <1>1, <2>5 DEF NestedReturns, TypeOK
    <3>2. i \in DOMAIN nested /\ nested'[i] = nested[i] /\ (i # 1 => nested'[i - 1] = nested[i - 1])
      BY <2>1, <3>1
    <3> QED
      BY <1>1, <2>2, <3>2 DEF NestedInBody
  <2>6. CASE NextItem \/ \E c \in StepIds : ChildFails(c)
    BY <2>1, <2>3, <2>6 DEF NextItem, ChildFails
  <2>7. CASE \E c \in StepIds, status \in StepStatuses : SkipChild(c, status) \/ ChildSucceeds(c, status)
    BY <2>3, <2>7 DEF SkipChild, ChildSucceeds
  <2> QED
    BY <1>2, <2>4, <2>5, <2>6, <2>7 DEF RunBodies
<1>3. CASE BeginStep \/ RetryAttempt
  BY <1>1, <1>3
  DEF SchedulerInv, ProgressIsRecorded, NestedInBody, BeginStep, AtStep, RetryAttempt, FreshRunner,
      runner
<1>4. CASE pc' # "attempt"
  BY <1>4 DEF NestedInBody
<1>5. CASE UNCHANGED <<record, memory>>
  BY <1>1, <1>5 DEF NestedInBody, record, memory, runner, Plan, Current, Order
<1>6. pc' # "attempt" \/ RunBodies \/ BeginStep \/ RetryAttempt \/ UNCHANGED <<record, memory>>
  BY DEF Next, Proceed, EndAttempt, Execute, ResumeHuman, AcceptRepair, BeginRun, PassOver,
         SkipDependent, RouteCondition, Finish, MarkCancelled, AttemptSucceeds, AttemptFails,
         HumanPends, HumanRejects, Stop, Abort, CleanStale, ChangePlan, Diagnose, RecordWorldFix,
         DropDiagnosis, Halt, Advance, record, memory, runner, vars
<1> QED
  BY <1>2, <1>3, <1>4, <1>5, <1>6

LEMMA FlowStep == FlowInv /\ [Next]_vars => FlowInv'
<1> SUFFICES ASSUME FlowInv, [Next]_vars PROVE FlowInv'
  OBVIOUS
<1>1. SchedulerInv'
  BY SchedulerStep DEF FlowInv
<1> QED
  BY <1>1, RecordedStep, RoutingStep, NothingRanStep, OwnersStep, NestedStep DEF FlowInv

LEMMA FlowAlways == Spec => []FlowInv
BY FlowInit, FlowStep, PTL DEF Spec

(***************************************************************************)
(* What a patch may break                                                  *)
(***************************************************************************)
(* Results, and what they rest on.                                           *)
LEMMA ResultStep ==
    ASSUME FlowInv, [Next]_vars, NEW s \in MainFlow(Plan)',
           s \in MainFlow(Plan) => RestsOnSuccess(s),
           AcceptRepair => s \notin Rewired
    PROVE  RestsOnSuccess(s)'
<1>1. /\ SchedulerInv /\ RecordedAreSteps /\ RoutingIsOfACondition
      /\ version \in 1..Versions /\ runVersion \in 1..Versions
  BY DEF FlowInv, SchedulerInv, TypeOK
<1>2. CASE AcceptRepair
  <2>0. s \in MainFlow(Plans[version])
    BY <1>1, <1>2, RepairFacts DEF MainFlow
  <2>1. SUFFICES ASSUME step'[s] = "succeeded", NEW d \in Deps(Plans[version], s)
                 PROVE  step'[d] = "succeeded"
    BY <1>1, <1>2, RepairFacts DEF RestsOnSuccess
  <2>2. s \in StepIds
    BY <1>1, <1>2, <2>0, RepairFacts DEF MainFlow
  <2>3. s \in Kept(Plans[version]) /\ step[s] = "succeeded"
    BY <1>1, <1>2, <2>1, <2>2, RepairFacts
  <2>4. s \in MainFlow(Plan) /\ d \in Deps(Plan, s) /\ d \in Kept(Plans[version])
    BY <1>1, <1>2, <2>0, <2>1, <2>3, KeptIsClosed
  <2>5. step[d] = "succeeded"
    BY <2>3, <2>4 DEF RestsOnSuccess
  <2> QED
    BY <1>1, <1>2, <2>4, <2>5, RepairFacts
<1>3. CASE Execute
  <2>1. \A t \in StepIds : step'[t] \in {"pending", "absent"}
    BY <1>3 DEF Execute
  <2>2. Plan' = Plans[version]
    BY <1>3 DEF Execute, Plan
  <2> QED
    BY <1>1, <2>1, <2>2, PlanFacts DEF RestsOnSuccess, MainFlow
<1>4. CASE ~AcceptRepair /\ ~Execute
  <2>1. SUFFICES ASSUME step'[s] = "succeeded", NEW d \in Deps(Plan', s)
                 PROVE  step'[d] = "succeeded"
    BY DEF RestsOnSuccess
  <2>2. Plan' = Plan
    BY <1>1, <1>4, PlanStays
  <2>3. s \in MainFlow(Plan) /\ d \in Deps(Plan, s) /\ d \in MainFlow(Plan)
    BY <1>1, <2>1, <2>2, MainFlowIsClosed DEF Plan
  <2>4. step[d] = "succeeded"
    <3>1. CASE step[s] = "succeeded"
      BY <2>3, <3>1 DEF RestsOnSuccess
    <3>2. CASE step[s] # "succeeded"
      <4>1. AttemptSucceeds /\ s = Current
        BY <1>1, <1>4, <2>1, <2>3, <3>2, MainFlowChanges
      <4> QED
        BY <1>1, <2>3, <4>1, UnderWay DEF EndAttempt
    <3> QED
      BY <3>1, <3>2
  <2> QED
    BY <1>1, <1>4, <2>3, <2>4, SettledStays
<1> QED
  BY <1>2, <1>3, <1>4

(* Through failures, patches, crashes and resumptions, a succeeded step comes *)
(* to depend on one that did not succeed in one way only: a repair keeps it  *)
(* although the patch rewired it.                                            *)
THEOREM ResultsBreakOnlyByRewiring == Spec => OnlyRewiringBreaksResults
<1>1. FlowInv /\ [Next]_vars =>
        [\A s \in MainFlow(Plan)' :
            \/ RestsOnSuccess(s)'
            \/ s \in MainFlow(Plan) /\ ~RestsOnSuccess(s)
            \/ AcceptRepair /\ s \in Rewired]_vars
  BY ResultStep
<1> QED
  BY <1>1, FlowAlways, PTL DEF Spec, OnlyRewiringBreaksResults

(* Skips, and their reasons.                                                 *)
LEMMA SkipStep ==
    ASSUME FlowInv, [Next]_vars, NEW s \in MainFlow(Plan)',
           s \in MainFlow(Plan) => SkipIsJustified(s),
           AcceptRepair => \A c \in Rewired : c # s /\ ~DependsTransitively(Plan, s, c)
    PROVE  SkipIsJustified(s)'
<1> DEFINE Blocked(p)     == \E d \in Deps(p, s) : step[d] \in {"skipped", "failed", "cancelled"}
           RoutedBy(p, c) == /\ p.kind[c] = "condition" /\ step[c] = "succeeded"
                             /\ s \in IF verdict[c] THEN p.onFalse[c] ELSE p.onTrue[c]
<1>1. /\ SchedulerInv /\ RecordedAreSteps /\ RoutingIsOfACondition
      /\ version \in 1..Versions /\ runVersion \in 1..Versions
  BY DEF FlowInv, SchedulerInv, TypeOK
<1>2. s \in MainFlow(Plan) /\ step[s] = "skipped" =>
          Blocked(Plan) \/ \E c \in Plan.steps : RoutedBy(Plan, c)
  BY DEF SkipIsJustified, Untaken
<1>3. s \in MainFlow(Plan) => \A c \in Plan.steps : RoutedBy(Plan, c) =>
          c \in MainFlow(Plan) /\ DependsTransitively(Plan, s, c)
  BY <1>1, BranchesOfMainFlow DEF Plan
<1>4. CASE AcceptRepair
  <2> DEFINE q == Plans[version]
  <2>0. version' = version /\ Plan' = q /\ s \in MainFlow(q)
    BY <1>1, <1>4, RepairFacts DEF AcceptRepair, stores, MainFlow
  <2>1. SUFFICES ASSUME step'[s] = "skipped"
                 PROVE  Blocked(q)' \/ \E c \in q.steps : RoutedBy(q, c)'
    BY <1>1, <2>0 DEF SkipIsJustified, Untaken
  <2>2. s \in StepIds
    BY <1>1, <1>4, <2>0, RepairFacts DEF MainFlow
  <2>3. s \in Kept(q) /\ step[s] = "skipped" /\ s \notin Rewired
    BY <1>1, <1>4, <2>0, <2>1, <2>2, RepairFacts DEF MainFlow
  <2>4. s \in MainFlow(Plan) /\ Deps(q, s) = Deps(Plan, s) /\ Deps(Plan, s) \subseteq Kept(q)
    BY <1>1, <1>4, <2>0, <2>3, KeptIsClosed
  <2>5. ASSUME NEW x \in Kept(q)
        PROVE  x \in q.steps /\ step'[x] = step[x] /\ (verdict'[x] <=> verdict[x])
    <3>1. x \in StepIds /\ x \in q.steps
      BY <1>1, <1>4, RepairFacts
    <3>2. step'[x] = step[x]
      BY <1>1, <1>4, <3>1, RepairFacts
    <3>3. verdict' = [y \in StepIds |-> y \in Kept(q) /\ verdict[y]]
      BY <1>4 DEF AcceptRepair
    <3>4. verdict'[x] <=> verdict[x]
      BY <3>1, <3>3
    <3> QED
      BY <3>1, <3>2, <3>4
  <2>6. CASE Blocked(Plan)
    BY <2>0, <2>4, <2>5, <2>6
  <2>7. ASSUME NEW c \in Plan.steps, RoutedBy(Plan, c)
        PROVE  c \in q.steps /\ RoutedBy(q, c)'
    <3> DEFINE U == {x \in Plan.steps : x = s \/ DependsTransitively(Plan, s, x)}
               K == Kept(q) \cap MainFlow(q) \cap U
    <3>0. s \in Plan.steps /\ \A x \in U : Deps(Plan, x) \subseteq Plan.steps
      BY <1>1, <2>4, PlansAssumption DEF MainFlow, Plan, ValidPlan, ValidGraph
    <3>1. \A x \in Plan.steps \cap K : Deps(Plan, x) \subseteq K
      <4>1. SUFFICES ASSUME NEW x \in K, NEW d \in Deps(Plan, x) PROVE d \in K
        OBVIOUS
      <4>2. x \notin Rewired
        BY <1>4
      <4>3. d \in Kept(q) \cap MainFlow(q)
        BY <1>1, <1>4, <4>1, <4>2, KeptIsClosed
      <4>4. d \in U
        BY <3>0, <4>1, UpstreamIsClosed
      <4> QED
        BY <4>3, <4>4
    <3>2. s \in K /\ DependsTransitively(Plan, s, c)
      BY <1>3, <2>0, <2>3, <2>4, <2>7, <3>0
    <3>3. c \in Kept(q) /\ c \notin Rewired
      <4> HIDE DEF K
      <4>1. c \in K
        BY <3>1, <3>2, BackwardsClosed
      <4> QED
        BY <1>4, <3>2, <4>1 DEF K
    <3>4. /\ q.kind[c] = Plan.kind[c]
          /\ s \in q.onTrue[c] <=> s \in Plan.onTrue[c]
          /\ s \in q.onFalse[c] <=> s \in Plan.onFalse[c]
      <4>1. /\ q.kind[c] = Plan.kind[c]
            /\ q.onTrue[c] \cap Kept(q) = Plan.onTrue[c] \cap Kept(q)
            /\ q.onFalse[c] \cap Kept(q) = Plan.onFalse[c] \cap Kept(q)
        BY <3>3 DEF Rewired
      <4> QED
        BY <2>3, <4>1
    <3> QED
      BY <2>0, <2>5, <2>7, <3>3, <3>4
  <2> QED
    BY <1>2, <2>3, <2>4, <2>6, <2>7
<1>5. CASE Execute
  <2>1. \A t \in StepIds : step'[t] \in {"pending", "absent"}
    BY <1>5 DEF Execute
  <2>2. Plan' = Plans[version]
    BY <1>5 DEF Execute, Plan
  <2> QED
    BY <1>1, <2>1, <2>2, PlanFacts DEF SkipIsJustified, MainFlow
<1>6. CASE ~AcceptRepair /\ ~Execute
  <2>1. Plan' = Plan /\ s \in MainFlow(Plan)
    BY <1>6, PlanStays DEF MainFlow
  <2>2. SUFFICES ASSUME step'[s] = "skipped"
                 PROVE  Blocked(Plan)' \/ \E c \in Plan.steps : RoutedBy(Plan, c)'
    BY <2>1 DEF SkipIsJustified, Untaken
  <2>3. Deps(Plan, s) \subseteq MainFlow(Plan)
    BY <1>1, <2>1, MainFlowIsClosed DEF Plan
  <2>4. Blocked(Plan) => Blocked(Plan)'
    BY <1>1, <1>6, <2>1, <2>3, SettledStays
  <2>5. ASSUME NEW c \in Plan.steps, RoutedBy(Plan, c)
        PROVE  RoutedBy(Plan, c)'
    <3>1. c \in MainFlow(Plan) /\ step[c] = "succeeded"
      BY <1>3, <2>1, <2>5
    <3>2. step'[c] = step[c] /\ verdict'[c] = verdict[c]
      BY <1>1, <1>6, <3>1, SettledStays, VerdictStays
    <3> QED
      BY <2>1, <2>5, <3>2
  <2>6. CASE step[s] = "skipped"
    BY <1>2, <2>1, <2>4, <2>5, <2>6
  <2>7. CASE SkipDependent /\ s = Current
    <3>1. PICK d \in Deps(Plan, s) : d \in unavailable
      BY <2>7 DEF SkipDependent, DependencyUnavailable
    <3>2. step[d] \in {"skipped", "failed", "cancelled"}
      BY <1>1, <2>3, <2>7, <3>1 DEF SchedulerInv, CachesAgree, Scheduling, SkipDependent, AtStep
    <3> QED
      BY <2>4, <3>1, <3>2
  <2>8. CASE RouteCondition /\ s \in RoutedAway(Current)
    <3>1. Current \in MainFlow(Plan) /\ Plan.kind[Current] = "condition"
      BY <1>1, <2>8 DEF RoutingIsOfACondition, RouteCondition
    <3>2. step[Current] = "succeeded"
      BY <1>1, <2>8, <3>1 DEF SchedulerInv, ProgressIsRecorded, CachesAgree, Scheduling, RouteCondition
    <3>3. Current \in Plan.steps /\ RoutedBy(Plan, Current)
      BY <2>8, <3>1, <3>2 DEF RoutedAway, Untaken, MainFlow
    <3> QED
      BY <2>5, <3>3
  <2> QED
    BY <1>1, <1>6, <2>1, <2>2, <2>6, <2>7, <2>8, MainFlowChanges
<1> QED
  BY <1>4, <1>5, <1>6

(* A skip whose reason is gone comes from one thing only: a repair that keeps *)
(* it although the patch rewired that step or what it comes from.             *)
THEOREM SkipsBreakOnlyByRewiring == Spec => OnlyRewiringBreaksSkips
<1>1. FlowInv /\ [Next]_vars =>
        [\A s \in MainFlow(Plan)' :
            \/ SkipIsJustified(s)'
            \/ s \in MainFlow(Plan) /\ ~SkipIsJustified(s)
            \/ AcceptRepair /\ \E c \in Rewired : c = s \/ DependsTransitively(Plan, s, c)]_vars
  BY SkipStep
<1> QED
  BY <1>1, FlowAlways, PTL DEF Spec, OnlyRewiringBreaksSkips

(* The end of the loop: what it passed over was settled.                     *)
LEMMA LoopLeavesNothing ==
    ASSUME FlowInv, Finish, NEW s \in MainFlow(Plan)
    PROVE  step[s] \in {"succeeded", "failed", "skipped", "cancelled"}
<1>1. SchedulerInv /\ TypeOK /\ runVersion \in 1..Versions /\ pc = "loop" /\ pos \notin DOMAIN Order
  BY DEF FlowInv, SchedulerInv, TypeOK, Finish
<1>2. PICK i \in DOMAIN Order : Order[i] = s
  BY <1>1, OrderIsRight DEF Order, Plan, MainFlow
<1>3. i < pos
  <2>1. Order \in Seq(Plan.steps)
    BY <1>1, PlanFacts DEF Order, Plan
  <2>2. pos \in Nat /\ pos # 0
    BY <1>1 DEF SchedulerInv, TypeOK, ProgressIsRecorded, Scheduling
  <2> QED
    BY <1>1, <2>1, <2>2
<1>4. Settled(s)
  BY <1>1, <1>2, <1>3 DEF SchedulerInv, ProgressIsRecorded, Scheduling
<1> QED
  BY <1>1, <1>4 DEF SchedulerInv, CachesAgree, Scheduling, Settled, MainFlow

(* Only the loop's end makes a run a success.                                *)
LEMMA OnlyFinishSucceeds ==
    ASSUME [Next]_vars, runStatus # "succeeded", runStatus' = "succeeded"
    PROVE  Finish
BY DEF Next, Proceed, EndAttempt, RunBodies, Execute, ResumeHuman, AcceptRepair, BeginRun, PassOver,
       SkipDependent, BeginStep, RouteCondition, Finish, MarkCancelled, CancelRecord, NextItem,
       NestedReturns, EnterNested, ChildFails, SkipChild, ChildSucceeds, RecordChildren,
       AttemptSucceeds, RetryAttempt, AttemptFails, HumanPends, HumanRejects, Stop, Abort,
       CleanStale, ChangePlan, Diagnose, RecordWorldFix, DropDiagnosis, record, vars

(* Failures, and the runs that go on.                                        *)
LEMMA FailureStep ==
    ASSUME FlowInv, [Next]_vars, NEW s \in MainFlow(Plan)',
           s \in MainFlow(Plan) => ~Overlooked(s),
           AcceptRepair => s \notin Rewired
    PROVE  ~Overlooked(s)'
<1>1. /\ SchedulerInv /\ RecordedAreSteps /\ RoutingIsOfACondition /\ EndsAreIdle
      /\ version \in 1..Versions /\ runVersion \in 1..Versions
  BY DEF FlowInv, SchedulerInv, TypeOK
<1>2. CASE AcceptRepair
  <2>0. s \in MainFlow(Plans[version]) /\ s \in StepIds
    BY <1>1, <1>2, RepairFacts DEF MainFlow
  <2>1. SUFFICES ASSUME step'[s] \in {"failed", "cancelled"} PROVE FALSE
    BY <1>1, <1>2, RepairFacts DEF Overlooked
  <2>2. s \in Kept(Plans[version]) /\ step'[s] = step[s]
    BY <1>1, <1>2, <2>0, <2>1, RepairFacts
  <2>3. s \in MainFlow(Plan)
    BY <1>1, <1>2, <2>0, <2>2, KeptIsClosed
  <2>4. s = blamed
    BY <1>1, <1>2, <2>1, <2>2, <2>3, RepairFacts DEF Overlooked
  <2> QED
    BY <1>1, <1>2, <2>2, <2>4, RepairFacts
<1>3. CASE Execute
  <2>1. /\ \A t \in StepIds : step'[t] \in {"pending", "absent"}
        /\ Plan' = Plans[version] /\ runStatus' = "running"
    BY <1>3 DEF Execute, Plan
  <2> QED
    BY <1>1, <2>1, PlanFacts DEF Overlooked, MainFlow
<1>4. CASE ~AcceptRepair /\ ~Execute
  <2>1. Plan' = Plan /\ s \in MainFlow(Plan) /\ ~Overlooked(s)
    BY <1>4, PlanStays DEF MainFlow
  <2>2. CASE pc = "idle" /\ runStatus \in {"succeeded", "failed", "cancelled"}
    <3>1. UNCHANGED <<runStatus, runVersion, blamed, step, pc>>
      BY <1>4, <2>2, EndStays
    <3> QED
      BY <2>1, <3>1 DEF Overlooked
  <2>3. CASE ~(pc = "idle" /\ runStatus \in {"succeeded", "failed", "cancelled"})
    <3>1. step[s] \notin {"failed", "cancelled"} /\ runStatus # "succeeded"
      BY <1>1, <2>1, <2>3 DEF Overlooked, EndsAreIdle
    <3>2. CASE runStatus' = "succeeded"
      <4>1. Finish
        BY <3>1, <3>2, OnlyFinishSucceeds
      <4>2. step[s] \in {"succeeded", "skipped"} /\ step' = step
        BY <2>1, <3>1, <4>1, LoopLeavesNothing DEF Finish
      <4> QED
        BY <4>2 DEF Overlooked
    <3>3. CASE runStatus' # "succeeded"
      <4>1. SUFFICES ASSUME step'[s] \in {"failed", "cancelled"}
                     PROVE  /\ pc' = "idle"
                            /\ \/ runStatus' = "cancelled"
                               \/ runStatus' = "failed" /\ s = blamed' /\ step'[s] = "failed"
        BY <3>3 DEF Overlooked
      <4> QED
        BY <1>1, <1>4, <2>1, <3>1, <4>1, MainFlowChanges
    <3> QED
      BY <3>2, <3>3
  <2> QED
    BY <2>2, <2>3
<1> QED
  BY <1>2, <1>3, <1>4

(* A run goes on beside a failure of its main flow, or ends as Succeeded with *)
(* a step of it left out, only after a repair took that step out of a body    *)
(* and kept its failed or cancelled checkpoint.                              *)
THEOREM FailuresHideOnlyByRewiring == Spec => OnlyRewiringHidesFailures
<1>1. FlowInv /\ [Next]_vars =>
        [\A s \in MainFlow(Plan)' :
            \/ ~Overlooked(s)'
            \/ s \in MainFlow(Plan) /\ Overlooked(s)
            \/ AcceptRepair /\ s \in Rewired]_vars
  BY FailureStep
<1> QED
  BY <1>1, FlowAlways, PTL DEF Spec, OnlyRewiringHidesFailures

(***************************************************************************)
(* What may happen to a body                                               *)
(***************************************************************************)
(* What the runner records for one step of the body.                         *)
LEMMA OneIsRecorded ==
    ASSUME TypeOK, NEW x \in StepIds, NEW status, NEW outcome, RecordChildren({x}, status, outcome)
    PROVE  /\ step'[x] = status /\ iterations'[x] = iterations[x] \cup {outcome}
           /\ \A s \in StepIds \ {x} : step'[s] = step[s] /\ iterations'[s] = iterations[s]
BY DEF RecordChildren, TypeOK

(* A repair that resets an owner, or adds it, resets its body.               *)
LEMMA ResetOwnersResetBodies ==
    ASSUME NEW p, NEW t \in p.steps, t \notin Kept(p), p.steps \subseteq StepIds,
           NEW s \in Spawned(p, t)
    PROVE  s \notin Kept(p)
<1> DEFINE downstream == UNION {DownstreamClosure(p, r) : r \in {blamed} \cup (p.steps \ Recorded)}
<1>1. SUFFICES s \in RepairResetSteps(p)
  BY DEF Kept
<1>2. CASE t \in downstream
  <2>1. s \in FanOutBodyClosure(p, t)
    BY BodyIsClosed
  <2> QED
    BY <1>2, <2>1 DEF RepairResetSteps
<1>3. CASE t \notin Recorded
  <2>1. t \in DownstreamClosure(p, t)
    BY RootIsDownstream
  <2> QED
    BY <1>2, <1>3, <2>1
<1>4. CASE t \notin downstream /\ t \in Recorded
  <2>1. PICK o \in downstream : t \in FanOutBodyClosure(p, o)
    BY <1>4 DEF Kept, RepairResetSteps
  <2>2. s \in FanOutBodyClosure(p, o)
    BY <2>1, BodyIsClosed
  <2> QED
    BY <2>1, <2>2 DEF RepairResetSteps
<1> QED
  BY <1>2, <1>3, <1>4

(* An owner that stays pending keeps the same body, as far as it is kept.    *)
LEMMA RepairLeavesBodiesFresh ==
    ASSUME SchedulerInv, RecordedAreSteps, AcceptRepair,
           NEW o \in MainFlow(Plans[version]), step'[o] = "pending", o \notin Rewired,
           o \in MainFlow(Plan) => BodyIsFresh(o),
           NEW b \in FanOutBodyClosure(Plans[version], o),
           b \in Kept(Plans[version]) => b \in FanOutBodyClosure(Plan, o)
    PROVE  step'[b] = "pending" /\ iterations'[b] = {}
<1> DEFINE q == Plans[version]
<1>1. version \in 1..Versions /\ q.steps \subseteq StepIds
  BY RepairFacts
<1>2. b \in q.steps /\ b \in StepIds /\ o \in q.steps /\ o \in StepIds
  BY <1>1, BodyIsOwned, OwnedAreSteps DEF MainFlow
<1>3. ASSUME NEW t \in {o} \cup FanOutBodyClosure(q, o), t \notin Kept(q)
      PROVE  Spawned(q, t) \cap Kept(q) = {}
  <2>1. t \in q.steps
    BY <1>1, <1>2, BodyIsOwned, OwnedAreSteps
  <2> QED
    BY <1>1, <1>3, <2>1, ResetOwnersResetBodies
<1>4. CASE b \notin Kept(q)
  BY <1>1, <1>2, <1>4, RepairFacts DEF AcceptRepair
<1>5. CASE b \in Kept(q)
  <2>1. o \in Kept(q)
    <3> DEFINE K == FanOutOwned(q) \ Kept(q)
    <3>1. SUFFICES ASSUME o \notin Kept(q) PROVE FALSE
      OBVIOUS
    <3>2. \A t \in {o} \cup (FanOutBodyClosure(q, o) \cap K) : Spawned(q, t) \subseteq K
      BY <1>3, <3>1 DEF Spawned, FanOutOwned
    <3>3. FanOutBodyClosure(q, o) \subseteq K
      <4> HIDE DEF K
      <4> QED
        BY <3>2, BodyIsLeast
    <3> QED
      BY <1>5, <3>3
  <2>2. o \in MainFlow(Plan) /\ step[o] = "pending"
    BY <1>1, <1>2, <2>1, KeptIsClosed, RepairFacts
  <2>3. step[b] = "pending" /\ iterations[b] = {}
    BY <1>5, <2>2 DEF BodyIsFresh
  <2> QED
    BY <1>1, <1>2, <1>5, <2>3, RepairFacts DEF AcceptRepair
<1> QED
  BY <1>4, <1>5

(* Bodies of owners that have yet to start.                                  *)
LEMMA FreshStep ==
    ASSUME FlowInv, [Next]_vars, NEW o \in MainFlow(Plan)',
           o \in MainFlow(Plan) => BodyIsFresh(o),
           AcceptRepair => /\ o \notin Rewired
                           /\ Kept(Plans[version]) \cap FanOutBodyClosure(Plans[version], o)
                                \subseteq FanOutBodyClosure(Plan, o),
           RouteCondition => RoutedAway(Current) \cap FanOutBodyClosure(Plan, o) = {}
    PROVE  BodyIsFresh(o)'
<1>1. /\ SchedulerInv /\ TypeOK /\ RecordedAreSteps /\ RoutingIsOfACondition /\ NestedInBody
      /\ NothingRanBefore /\ version \in 1..Versions /\ runVersion \in 1..Versions
  BY DEF FlowInv, SchedulerInv, TypeOK
<1>2. CASE AcceptRepair
  <2>1. Plan' = Plans[version] /\ o \in MainFlow(Plans[version])
    BY <1>1, <1>2, RepairFacts DEF MainFlow
  <2>2. SUFFICES ASSUME step'[o] = "pending", NEW b \in FanOutBodyClosure(Plans[version], o)
                 PROVE  step'[b] = "pending" /\ iterations'[b] = {}
    BY <2>1 DEF BodyIsFresh
  <2> QED
    BY <1>1, <1>2, <2>1, <2>2, RepairLeavesBodiesFresh
<1>3. CASE Execute
  <2>1. Plan' = Plans[version] /\ iterations' = iterations /\ \A s \in StepIds : iterations[s] = {}
    BY <1>1, <1>3 DEF Execute, Plan, NothingRanBefore
  <2>2. \A s \in Plans[version].steps : s \in StepIds /\ step'[s] = "pending"
    BY <1>1, <1>3, PlanFacts DEF Execute
  <2>3. \A t : FanOutBodyClosure(Plans[version], t) \subseteq Plans[version].steps
    BY <1>1, BodyIsOwned, OwnedAreSteps
  <2> QED
    BY <2>1, <2>2, <2>3 DEF BodyIsFresh
<1>4. CASE ~AcceptRepair /\ ~Execute
  <2>0. Plan' = Plan /\ o \in MainFlow(Plan)
    BY <1>4, PlanStays DEF MainFlow
  <2>1. SUFFICES ASSUME step'[o] = "pending", NEW b \in FanOutBodyClosure(Plan, o)
                 PROVE  step'[b] = "pending" /\ iterations'[b] = {}
    BY <2>0 DEF BodyIsFresh
  <2>2. step[o] = "pending"
    BY <1>1, <1>4, <2>0, <2>1, MainFlowChanges
  <2>3. step[b] = "pending" /\ iterations[b] = {}
    BY <2>0, <2>1, <2>2 DEF BodyIsFresh
  <2>4. b \in FanOutOwned(Plan) /\ o \in StepIds
    BY <1>1, <2>0, <2>1, BodyIsOwned, MainFlowIsNoBody
  <2>5. ~MarkCancelled /\ ~CleanStale
    BY <2>1, <2>2, <2>4 DEF MarkCancelled, CleanStale, CancelRecord
  <2>6. ~(InAttempt /\ b \in FanOutBodyClosure(Plan, Current))
    <3>1. SUFFICES ASSUME InAttempt, b \in FanOutBodyClosure(Plan, Current) PROVE FALSE
      OBVIOUS
    <3>2. Current \in MainFlow(Plan) /\ step[Current] = "running"
      BY <1>1, <3>1 DEF SchedulerInv, ProgressIsRecorded, Scheduling, InAttempt
    <3>3. o # Current
      BY <2>2, <3>2
    <3> QED
      BY <1>1, <2>0, <2>1, <3>1, <3>2, <3>3, BodiesAreDisjoint DEF Plan
  <2>7. RunBodies \/ AttemptSucceeds \/ AttemptFails => InAttempt
    BY <1>1, RunnerStaysInside DEF AttemptSucceeds, AttemptFails, InAttempt
  <2>8. ~(RouteCondition /\ b \in RoutedAway(Current))
    BY <2>1
  <2> QED
    BY <1>1, <1>4, <2>3, <2>4, <2>5, <2>6, <2>7, <2>8, BodyChanges
<1> QED
  BY <1>2, <1>3, <1>4

(* A FAN_OUT about to start finds its body as if it had never run, whatever is *)
(* repaired, resumed or lost, unless a patch took kept steps into the body, or *)
(* rewired the owner, or a CONDITION of the main flow routed a step of it away.*)
THEOREM BodiesAreTouchedOnlyByPatchesAndRoutes == Spec => OnlyPatchesAndRoutesTouchBodies
<1>1. FlowInv /\ [Next]_vars =>
        [\A o \in MainFlow(Plan)' :
            \/ BodyIsFresh(o)'
            \/ o \in MainFlow(Plan) /\ ~BodyIsFresh(o)
            \/ AcceptRepair /\ LET q == Plans[version]
                               IN  \/ o \in Rewired
                                   \/ ~(Kept(q) \cap FanOutBodyClosure(q, o)
                                           \subseteq FanOutBodyClosure(Plan, o))
            \/ RouteCondition /\ RoutedAway(Current) \cap FanOutBodyClosure(Plan, o) # {}]_vars
  BY FreshStep
<1> QED
  BY <1>1, FlowAlways, PTL DEF Spec, OnlyPatchesAndRoutesTouchBodies

(* What is recorded of body steps.                                           *)
LEMMA OutcomeStep ==
    ASSUME FlowInv, [Next]_vars, NEW s \in FanOutOwned(Plan)',
           s \in FanOutOwned(Plan) => OutcomeIsRecorded(s),
           AcceptRepair => s \notin Kept(Plans[version]) \ FanOutOwned(Plan),
           AttemptSucceeds => s \notin FanOutBodyClosure(Plan, Current) \/ "failed" \notin iterations[s]
    PROVE  OutcomeIsRecorded(s)'
<1>1. /\ SchedulerInv /\ TypeOK /\ RecordedAreSteps /\ RoutingIsOfACondition /\ NestedInBody
      /\ version \in 1..Versions /\ runVersion \in 1..Versions
  BY DEF FlowInv, SchedulerInv, TypeOK
<1>0. SUFFICES ASSUME step'[s] = "succeeded" PROVE "succeeded" \in iterations'[s]
  BY DEF OutcomeIsRecorded
<1>2. CASE AcceptRepair
  <2>1. s \in FanOutOwned(Plans[version])
    BY <1>1, <1>2, RepairFacts DEF FanOutOwned
  <2>2. s \in StepIds
    BY <1>1, <1>2, <2>1, OwnedAreSteps, RepairFacts
  <2>3. s \in Kept(Plans[version]) /\ step[s] = "succeeded"
    BY <1>0, <1>1, <1>2, <2>2, RepairFacts
  <2>4. s \in FanOutOwned(Plan)
    BY <1>2, <2>3
  <2>5. iterations'[s] = iterations[s]
    BY <1>2, <2>2, <2>3 DEF AcceptRepair
  <2> QED
    BY <2>3, <2>4, <2>5 DEF OutcomeIsRecorded
<1>3. CASE Execute
  <2>1. \A t \in StepIds : step'[t] \in {"pending", "absent"}
    BY <1>3 DEF Execute
  <2>2. FanOutOwned(Plan)' \subseteq StepIds
    BY <1>1, <1>3, OwnedAreSteps, PlanFacts DEF Execute, Plan
  <2> QED
    BY <1>0, <2>1, <2>2
<1>4. CASE ~AcceptRepair /\ ~Execute
  <2>1. s \in FanOutOwned(Plan)
    BY <1>4, PlanStays DEF FanOutOwned
  <2>2. s \in StepIds
    BY <1>1, <2>1, OwnedAreSteps, PlanFacts DEF Plan
  <2>3. CASE step'[s] = step[s] /\ iterations'[s] = iterations[s]
    BY <1>0, <2>1, <2>3 DEF OutcomeIsRecorded
  <2>4. ASSUME NEW c \in StepIds, NEW status, NEW outcome, RecordChildren({c}, status, outcome),
               status = "succeeded" => outcome = "succeeded"
        PROVE  "succeeded" \in iterations'[s]
    <3>1. CASE s = c
      <4>1. step'[s] = status /\ iterations'[s] = iterations[s] \cup {outcome}
        BY <1>1, <2>4, <3>1, OneIsRecorded
      <4> QED
        BY <1>0, <2>4, <4>1
    <3>2. CASE s # c
      BY <1>1, <2>2, <2>3, <2>4, <3>2, OneIsRecorded
    <3> QED
      BY <3>1, <3>2
  <2>5. CASE RunBodies
    <3>1. CASE NextItem \/ \E c \in StepIds : EnterNested(c)
      BY <2>3, <3>1 DEF NextItem, EnterNested, record
    <3>2. ASSUME NEW c \in StepIds, ChildFails(c) PROVE "succeeded" \in iterations'[s]
      <4>1. s \notin {c} \cup {nested[i] : i \in DOMAIN nested}
        BY <1>0, <2>2, <3>2 DEF ChildFails, RecordChildren
      <4>2. step'[s] = step[s]
        BY <2>2, <3>2, <4>1 DEF ChildFails, RecordChildren
      <4>3. iterations'[s] = iterations[s] \cup {}
        BY <2>2, <3>2, <4>1 DEF ChildFails, RecordChildren
      <4> QED
        BY <2>3, <4>2, <4>3
    <3>3. ASSUME NEW status \in StepStatuses, NestedReturns(status) PROVE "succeeded" \in iterations'[s]
      <4>1. Owner \in StepIds
        BY <1>1, <3>3 DEF NestedReturns, Owner, TypeOK
      <4> QED
        BY <2>4, <3>3, <4>1 DEF NestedReturns
    <3>4. ASSUME NEW c \in StepIds, NEW status \in StepStatuses,
                 SkipChild(c, status) \/ ChildSucceeds(c, status)
          PROVE  "succeeded" \in iterations'[s]
      BY <2>4, <3>4 DEF SkipChild, ChildSucceeds
    <3> QED
      BY <2>5, <3>1, <3>2, <3>3, <3>4 DEF RunBodies
  <2>6. CASE AttemptSucceeds /\ s \in FanOutBodyClosure(Plan, Current)
             /\ step'[s] = FinalStatus(s) /\ iterations'[s] = iterations[s]
    <3>1. "failed" \notin iterations[s]
      BY <2>6
    <3>2. PICK outcome \in iterations[s] : outcome # "skipped"
      BY <1>0, <2>6 DEF FinalStatus
    <3> QED
      BY <1>1, <2>2, <2>6, <3>1, <3>2 DEF TypeOK, Outcomes
  <2> QED
    BY <1>0, <1>1, <1>4, <2>1, <2>3, <2>5, <2>6, BodyChanges
<1> QED
  BY <1>2, <1>3, <1>4

(* A body step recorded as succeeded did so for some item, also when the      *)
(* status is only computed at the end, unless a patch took it into the body   *)
(* with its checkpoint or its FAN_OUT succeeded after a failed item of it.    *)
THEOREM OutcomesAreLostOnlyByPatchesAndRetries == Spec => OnlyPatchesAndRetriesLoseOutcomes
<1>1. FlowInv /\ [Next]_vars =>
        [\A s \in FanOutOwned(Plan)' :
            \/ OutcomeIsRecorded(s)'
            \/ s \in FanOutOwned(Plan) /\ ~OutcomeIsRecorded(s)
            \/ AcceptRepair /\ s \in Kept(Plans[version]) \ FanOutOwned(Plan)
            \/ /\ AttemptSucceeds
               /\ s \in FanOutBodyClosure(Plan, Current) /\ "failed" \in iterations[s]]_vars
  BY OutcomeStep
<1> QED
  BY <1>1, FlowAlways, PTL DEF Spec, OnlyPatchesAndRetriesLoseOutcomes

(* What is in flight.                                                        *)
LEMMA AdriftStep ==
    ASSUME FlowInv, [Next]_vars, NEW s \in StepIds, ~Adrift(s),
           AttemptSucceeds => s \notin FanOutBodyClosure(Plan, Current)
    PROVE  ~Adrift(s)'
<1>1. /\ SchedulerInv /\ TypeOK /\ RoutingIsOfACondition /\ RecordedAreSteps
      /\ NestedInBody /\ OwnersAreRunning
  BY DEF FlowInv, SchedulerInv
<1>2. CASE AcceptRepair
  <2>1. step'[s] \in {step[s], "pending", "absent"}
    BY <1>1, <1>2, RepairFacts
  <2>2. step[s] # "running"
    BY <1>2 DEF Adrift, AcceptRepair, InAttempt
  <2> QED
    BY <2>1, <2>2 DEF Adrift
<1>3. CASE Execute
  BY <1>3 DEF Execute, Adrift
<1>4. CASE RunBodies
  <2>1. SUFFICES ASSUME step'[s] = "running"
                 PROVE  s \in {Current} \cup FanOutBodyClosure(Plan, Current)
    BY <1>1, <1>4, RunnerStaysInside DEF Adrift, InAttempt
  <2> QED
    BY <1>1, <1>4, <2>1, RunnerStaysInside DEF Adrift
<1>5. CASE BeginStep
  <2>1. step[s] # "running"
    BY <1>5 DEF Adrift, BeginStep, AtStep, InAttempt
  <2>2. step'[s] = "running" => s = Current
    BY <1>1, <1>5, <2>1 DEF BeginStep, TypeOK
  <2>3. pc' = "attempt" /\ Current' = Current
    BY <1>5 DEF BeginStep, Current, Order
  <2> QED
    BY <2>2, <2>3 DEF Adrift, InAttempt
<1>6. CASE AttemptSucceeds
  <2>1. step'[s] = IF s = Current THEN "succeeded" ELSE step[s]
    BY <1>6 DEF AttemptSucceeds
  <2>2. step[s] = "running" => s = Current
    BY <1>6 DEF Adrift, AttemptSucceeds
  <2> QED
    BY <2>1, <2>2 DEF Adrift
<1>7. CASE AttemptFails
  <2>1. step[s] = "running" => s \in {Current} \cup FanOutBodyClosure(Plan, Current)
    BY <1>7 DEF Adrift, AttemptFails, InAttempt
  <2> QED
    BY <1>7, <2>1 DEF Adrift, AttemptFails, TerminalizedChildren
<1>8. CASE HumanPends \/ HumanRejects
  <2>1. FanOutBodyClosure(Plan, Current) = {}
    BY <1>8, NoBody DEF HumanPends, HumanRejects, Spawned
  <2>2. step[s] = "running" => s = Current
    BY <1>8, <2>1 DEF Adrift, HumanPends, HumanRejects
  <2>3. step'[s] # "running"
    BY <1>1, <1>8, <2>2 DEF HumanPends, HumanRejects, TypeOK
  <2> QED
    BY <2>3 DEF Adrift
<1>9. CASE RetryAttempt
  <2>1. InAttempt /\ pc' = "attempt" /\ step' = step /\ Current' = Current /\ Plan' = Plan
    BY <1>9 DEF RetryAttempt, record, Current, Order, Plan
  <2> QED
    BY <2>1 DEF Adrift, InAttempt
<1>10. CASE MarkCancelled \/ CleanStale
  BY <1>10 DEF MarkCancelled, CleanStale, CancelRecord, Adrift
<1>11. CASE Stop \/ Abort
  <2>1. step' = step /\ runStatus' = runStatus /\ pc # "idle"
    BY <1>11 DEF Stop, Abort, record
  <2>2. step[s] = "running" => runStatus = "running"
    BY <1>1, <2>1 DEF Adrift, OwnersAreRunning, Scheduling, InAttempt
  <2>3. pc' = "idle" \/ pc' = "cancelling"
    BY <1>11 DEF Stop, Abort, Halt
  <2> QED
    BY <2>1, <2>2, <2>3 DEF Adrift
<1>12. CASE \/ ResumeHuman \/ BeginRun \/ PassOver \/ SkipDependent \/ RouteCondition \/ Finish
  <2>1. step'[s] \in {step[s], "skipped"}
    BY <1>1, <1>12
    DEF ResumeHuman, BeginRun, PassOver, SkipDependent, RouteCondition, Finish, record, TypeOK
  <2>2. step[s] # "running"
    BY <1>12
    DEF Adrift, ResumeHuman, BeginRun, PassOver, SkipDependent, RouteCondition, Finish,
        AtStep, InAttempt
  <2> QED
    BY <2>1, <2>2 DEF Adrift
<1>13. CASE UNCHANGED <<record, memory>>
  BY <1>13 DEF Adrift, record, memory, InAttempt, Plan, Current, Order
<1> QED
  BY <1>2, <1>3, <1>4, <1>5, <1>6, <1>7, <1>8, <1>9, <1>10, <1>11, <1>12, <1>13
  DEF Next, Proceed, EndAttempt, ChangePlan, Diagnose, RecordWorldFix, DropDiagnosis, vars, record,
      memory, runner

(* However an execution ends, nothing is left shown in flight: failure       *)
(* terminalizes the body, an abort and a stale run cancel what was under way; *)
(* only the success of a FAN_OUT, which settles just what it returns, may.    *)
THEOREM StepsDriftOnlyBySuccess == Spec => OnlySuccessLeavesStepsAdrift
<1>1. FlowInv /\ [Next]_vars =>
        [\A s \in StepIds :
            \/ ~Adrift(s)'
            \/ Adrift(s)
            \/ AttemptSucceeds /\ s \in FanOutBodyClosure(Plan, Current)]_vars
  BY AdriftStep
<1> QED
  BY <1>1, FlowAlways, PTL DEF Spec, OnlySuccessLeavesStepsAdrift

(***************************************************************************)
(* Repairs that are lost                                                   *)
(***************************************************************************)
(* A failed run waits for a repair of the step it blames, or has just        *)
(* accepted one.                                                             *)
FailedAwaitsRepair ==
    runStatus = "failed" =>
        /\ blamed \in StepIds
        /\ pc = "accepted" \/ (pc = "idle" /\ step[blamed] = "failed")

LEMMA ExecutionHasNotFailed ==
    ASSUME FailedAwaitsRepair, pc \notin {"idle", "accepted"}
    PROVE  runStatus # "failed"
BY DEF FailedAwaitsRepair

LEMMA FailedAwaitsStep ==
    ASSUME TypeOK, FailedAwaitsRepair, [Next]_vars,
           runStatus = "failed" /\ pc = "accepted" => pc' # "idle"
    PROVE  FailedAwaitsRepair'
<1>1. CASE Execute \/ ResumeHuman
  BY <1>1 DEF Execute, ResumeHuman, record, FailedAwaitsRepair
<1>2. CASE AcceptRepair
  BY <1>2 DEF AcceptRepair, FailedAwaitsRepair
<1>3. CASE BeginRun
  BY <1>3 DEF BeginRun, FailedAwaitsRepair
<1>4. CASE PassOver \/ SkipDependent \/ BeginStep \/ RouteCondition \/ Finish \/ MarkCancelled
  BY <1>4, ExecutionHasNotFailed
  DEF PassOver, SkipDependent, BeginStep, AtStep, RouteCondition, Finish, MarkCancelled,
      CancelRecord, record, FailedAwaitsRepair
<1>5. CASE AttemptFails
  <2>1. Current \in StepIds
    BY <1>5, CurrentFacts DEF AttemptFails, InAttempt, TypeOK
  <2> QED
    BY <1>5, <2>1 DEF AttemptFails, Halt, FailedAwaitsRepair
<1>6. CASE AttemptSucceeds \/ RetryAttempt \/ HumanPends \/ HumanRejects
  BY <1>6, ExecutionHasNotFailed
  DEF AttemptSucceeds, RetryAttempt, HumanPends, HumanRejects, InAttempt, record,
      FailedAwaitsRepair
<1>7. CASE RunBodies
  BY <1>7, ExecutionHasNotFailed
  DEF RunBodies, NextItem, NestedReturns, EnterNested, ChildFails, SkipChild, ChildSucceeds,
      IsNext, RecordChildren, record, FailedAwaitsRepair
<1>8. CASE Stop \/ Abort \/ CleanStale
  BY <1>8, ExecutionHasNotFailed
  DEF Stop, Abort, CleanStale, CancelRecord, Halt, record, memory, FailedAwaitsRepair
<1>9. CASE ChangePlan \/ Diagnose \/ RecordWorldFix \/ DropDiagnosis \/ UNCHANGED vars
  BY <1>9 DEF ChangePlan, Diagnose, RecordWorldFix, DropDiagnosis, record, memory, vars,
              FailedAwaitsRepair
<1> QED
  BY <1>1, <1>2, <1>3, <1>4, <1>5, <1>6, <1>7, <1>8, <1>9 DEF Next, Proceed, EndAttempt

(* Unless the process ends right after a repair was accepted, every failed    *)
(* run can be repaired, whatever else is interrupted and whatever is patched  *)
(* (`resume_from_repair`).                                                   *)
THEOREM FailedRunsAreRepairable ==
    Spec /\ RepairsAreResumed => []FailedRunIsRepairable
<1>1. Init => FailedAwaitsRepair
  BY DEF Init, FailedAwaitsRepair
<1>2. /\ TypeOK /\ FailedAwaitsRepair /\ [Next]_vars
      /\ [runStatus = "failed" /\ pc = "accepted" => pc' # "idle"]_vars
      => FailedAwaitsRepair'
  <2>1. ASSUME UNCHANGED vars, FailedAwaitsRepair
        PROVE  FailedAwaitsRepair'
    BY <2>1 DEF vars, record, memory, FailedAwaitsRepair
  <2> QED
    BY <2>1, FailedAwaitsStep
<1>3. FailedAwaitsRepair => FailedRunIsRepairable
  BY DEF FailedAwaitsRepair, FailedRunIsRepairable
<1> QED
  BY <1>1, <1>2, <1>3, TypeCorrect, PTL DEF Spec, RepairsAreResumed

(* A run whose repair was lost that way is never repaired, resumed, cancelled *)
(* or changed again: `resume_from_repair` asks for the failed checkpoint it   *)
(* has itself reset.                                                         *)
THEOREM LostRepairsStayLost == Spec => LostRepairIsFinal
<1>1. [Next]_vars => [LostRepair => LostRepair' /\ UNCHANGED record]_vars
  <2> SUFFICES ASSUME Next, LostRepair
               PROVE  LostRepair' /\ UNCHANGED record
    OBVIOUS
  <2>1. ~AcceptRepair
    BY DEF LostRepair, AcceptRepair
  <2>2. UNCHANGED <<runStatus, runVersion, blamed, step, pc>>
    BY <2>1, EndStays DEF LostRepair
  <2>3. UNCHANGED <<iterations, verdict>>
    BY <2>1
    DEF LostRepair, Next, Proceed, EndAttempt, RunBodies, Execute, ResumeHuman, BeginRun, PassOver,
        SkipDependent, BeginStep, AtStep, RouteCondition, Finish, MarkCancelled, CancelRecord,
        NextItem, NestedReturns, IsNext, EnterNested, ChildFails, SkipChild, ChildSucceeds,
        AttemptSucceeds, RetryAttempt, InAttempt, AttemptFails, HumanPends, HumanRejects, Stop,
        Abort, CleanStale, ChangePlan, Diagnose, RecordWorldFix, DropDiagnosis, record
  <2> QED
    BY <2>2, <2>3 DEF LostRepair, record
<1> QED
  BY <1>1, PTL DEF Spec, LostRepairIsFinal
=============================================================================
