---------------------------- MODULE RegistryProof ----------------------------
(***************************************************************************)
(* An application's instance does what Registry promises, step by step and *)
(* for every set of threads, pages, modules and updates: no change of a    *)
(* property is lost or made twice, no module is stored and not shown, each *)
(* list a page loads is what was stored at one moment (ImplementsRegistry).*)
(* And the order of the changes is the same in both copies where one       *)
(* writer makes them: the page comes to show what is stored                *)
(* (SingleWriterAgrees).                                                   *)
(***************************************************************************)
EXTENDS ApplicationProof, FiniteSetTheorems

-----------------------------------------------------------------------------
(* How many tasks of a kind wait in the queue.                             *)

\* A queue has finitely many places; a task that is posted or taken is one more or one
\* less of its kind.
LEMMA PlacesFinite ==
  ASSUME NEW S, NEW s \in Seq(S), NEW C
  PROVE  IsFiniteSet(Places(s, C)) /\ Cardinality(Places(s, C)) \in Nat
<1>1. Len(s) \in Nat
  BY LenProperties
<1>2. IsFiniteSet(1..Len(s)) /\ Places(s, C) \in SUBSET (1..Len(s))
  BY <1>1, FS_Interval DEF Places
<1> QED BY <1>2, FS_Subset, FS_CardinalityType

LEMMA CountAppend ==
  ASSUME NEW S, NEW s \in Seq(S), NEW x \in S, NEW C
  PROVE  Cardinality(Places(Append(s, x), C))
           = Cardinality(Places(s, C)) + IF x \in C THEN 1 ELSE 0
<1>1. IsFiniteSet(Places(s, C)) /\ Cardinality(Places(s, C)) \in Nat
  BY PlacesFinite
<1>2. CASE x \in C
  <2>1. Places(Append(s, x), C) = Places(s, C) \cup {Len(s) + 1}
    BY <1>2, PlacesAppend
  <2>2. Len(s) + 1 \notin Places(s, C)
    BY LenProperties DEF Places
  <2> QED BY <1>1, <1>2, <2>1, <2>2, FS_AddElement
<1>3. CASE x \notin C
  BY <1>1, <1>3, PlacesAppend
<1> QED BY <1>2, <1>3

LEMMA CountTail ==
  ASSUME NEW S, NEW s \in Seq(S), s # <<>>, NEW C
  PROVE  Cardinality(Places(s, C))
           = Cardinality(Places(Tail(s), C)) + IF Head(s) \in C THEN 1 ELSE 0
<1>1. /\ Tail(s) \in Seq(S) /\ Len(Tail(s)) = Len(s) - 1
      /\ \A i \in 1..Len(Tail(s)) : Tail(s)[i] = s[i + 1]
      /\ Len(s) \in Nat \ {0}
      /\ Head(s) = s[1]
  BY HeadTailProperties, EmptySeq
<1> DEFINE P == Places(Tail(s), C)
           R == Places(s, C) \ {1}
<1>2. /\ IsFiniteSet(P) /\ Cardinality(P) \in Nat
      /\ IsFiniteSet(Places(s, C)) /\ Cardinality(Places(s, C)) \in Nat
  BY <1>1, PlacesFinite
<1>3. ExistsBijection(P, R)
  <2> DEFINE f == [i \in P |-> i + 1]
  <2>1. \A i \in P : i \in Int /\ f[i] = i + 1 /\ f[i] \in R
    BY <1>1 DEF Places
  <2>2. \A j \in R : j - 1 \in P /\ f[j - 1] = j
    BY <1>1 DEF Places
  <2>3. f \in Injection(P, R)
    <3>1. f \in [P -> R] /\ DOMAIN f = P
      BY <2>1
    <3>2. \A i, j \in P : f[i] = f[j] => i = j
      BY <2>1
    <3> QED BY <3>1, <3>2, Zenon DEF Injection, IsInjective
  <2>4. f \in Surjection(P, R)
    BY <2>1, <2>2 DEF Surjection
  <2> QED BY <2>3, <2>4 DEF ExistsBijection, Bijection
<1>4. Cardinality(R) = Cardinality(P)
  BY <1>2, <1>3, FS_Bijection
<1>5. 1 \in Places(s, C) <=> Head(s) \in C
  BY <1>1 DEF Places
<1>6. Cardinality(R) = IF 1 \in Places(s, C) THEN Cardinality(Places(s, C)) - 1
                                            ELSE Cardinality(Places(s, C))
  BY <1>2, FS_RemoveElement
<1> QED BY <1>2, <1>4, <1>5, <1>6

-----------------------------------------------------------------------------
(* What is left to do, change by change.                                   *)

\* The tasks that will make a change, the threads that will post it, and how many of both
\* there are.
TasksFor(change) == {task \in Task : change \in Does(task)}
Halfway(threads, change) == {t \in Thread : change \in WillPost(threads[t])}
CountIn(queue, threads, change) ==
  Cardinality(Places(queue, TasksFor(change))) + Cardinality(Halfway(threads, change))
\* Only so many threads are between the two posts of UpdateProperties.
FewIn(threads) == \A change : IsFiniteSet(Halfway(threads, change))

\* Left counts the tasks and the threads of each change, and has no other change.
LEMMA LeftInIs ==
  ASSUME NEW queue \in Seq(Task), NEW threads, FewIn(threads)
  PROVE  /\ \A change : CountIn(queue, threads, change) \in Nat
         /\ \A change : change \in DOMAIN LeftIn(queue, threads)
                          <=> CountIn(queue, threads, change) # 0
         /\ \A change \in DOMAIN LeftIn(queue, threads) :
              LeftIn(queue, threads)[change] = CountIn(queue, threads, change)
         /\ LeftIn(queue, threads) = [change \in DOMAIN LeftIn(queue, threads) |->
                                        LeftIn(queue, threads)[change]]
<1>1. DOMAIN queue = 1..Len(queue) /\ \A i \in 1..Len(queue) : queue[i] \in Task
  BY LenProperties, ElementOfSeq
<1>2. ASSUME NEW change
      PROVE  {i \in DOMAIN queue : change \in Does(queue[i])} = Places(queue, TasksFor(change))
  BY <1>1 DEF Places, TasksFor
<1>3. ASSUME NEW change
      PROVE  /\ Cardinality(Places(queue, TasksFor(change))) \in Nat
             /\ Cardinality(Places(queue, TasksFor(change))) = 0
                  <=> Places(queue, TasksFor(change)) = {}
             /\ Cardinality(Halfway(threads, change)) \in Nat
             /\ Cardinality(Halfway(threads, change)) = 0 <=> Halfway(threads, change) = {}
  BY PlacesFinite, FS_EmptySet, FS_CardinalityType DEF FewIn
<1>4. ASSUME NEW change
      PROVE  change \in DOMAIN LeftIn(queue, threads)
               <=> Places(queue, TasksFor(change)) # {} \/ Halfway(threads, change) # {}
  <2>1. change \in DOMAIN LeftIn(queue, threads)
          <=> \/ \E i \in DOMAIN queue : change \in Does(queue[i])
              \/ \E t \in Thread : change \in WillPost(threads[t])
    BY DEF LeftIn
  <2>2. (\E t \in Thread : change \in WillPost(threads[t])) <=> Halfway(threads, change) # {}
    BY DEF Halfway
  <2>3. (\E i \in DOMAIN queue : change \in Does(queue[i]))
          <=> Places(queue, TasksFor(change)) # {}
    BY <1>2
  <2> QED BY <2>1, <2>2, <2>3
<1>5. ASSUME NEW change \in DOMAIN LeftIn(queue, threads)
      PROVE  LeftIn(queue, threads)[change] = CountIn(queue, threads, change)
  BY <1>2 DEF LeftIn, CountIn, Halfway
<1>6. LeftIn(queue, threads) = [change \in DOMAIN LeftIn(queue, threads) |->
                                  LeftIn(queue, threads)[change]]
  BY DEF LeftIn
<1>7. ASSUME NEW change
      PROVE  /\ CountIn(queue, threads, change) \in Nat
             /\ CountIn(queue, threads, change) = 0
                  <=> /\ Places(queue, TasksFor(change)) = {}
                      /\ Halfway(threads, change) = {}
  BY <1>3 DEF CountIn
<1> QED BY <1>4, <1>5, <1>6, <1>7

\* Compared with a queue and its threads, another has one more of each change of a set;
\* it has one less of one change; it has as many of each.
MoreOf(q, f, u, g, S) ==
  \A change : CountIn(u, g, change) = CountIn(q, f, change) + IF change \in S THEN 1 ELSE 0
LessOf(q, f, u, g, x) ==
  \A change : CountIn(q, f, change) = CountIn(u, g, change) + IF change = x THEN 1 ELSE 0
SameOf(q, f, u, g) == \A change : CountIn(u, g, change) = CountIn(q, f, change)

\* One more of each change of a set, one less of a change, and no difference.
LEMMA LeftGrows ==
  ASSUME NEW q \in Seq(Task), NEW u \in Seq(Task), NEW f, NEW g, FewIn(f), FewIn(g), NEW S,
         MoreOf(q, f, u, g, S)
  PROVE  LeftIn(u, g) = LeftIn(q, f) (+) SetToBag(S)
<1> DEFINE A == LeftIn(q, f)  B == LeftIn(u, g)  C == A (+) SetToBag(S)
<1>1. \A change : CountIn(q, f, change) \in Nat /\ CountIn(u, g, change) \in Nat
  BY LeftInIs
<1>2. /\ \A change : change \in DOMAIN A <=> CountIn(q, f, change) # 0
      /\ \A change : change \in DOMAIN A => A[change] = CountIn(q, f, change)
  BY LeftInIs
<1>3. /\ \A change : change \in DOMAIN B <=> CountIn(u, g, change) # 0
      /\ \A change : change \in DOMAIN B => B[change] = CountIn(u, g, change)
      /\ B = [change \in DOMAIN B |-> B[change]]
  BY LeftInIs
<1> HIDE DEF A, B
<1>4. /\ DOMAIN C = DOMAIN A \cup S
      /\ \A change \in DOMAIN C : C[change] = (IF change \in DOMAIN A THEN A[change] ELSE 0)
                                               + IF change \in S THEN 1 ELSE 0
      /\ C = [change \in DOMAIN C |-> C[change]]
  BY DEF (+), SetToBag
<1> HIDE DEF C
<1>5. ASSUME NEW change
      PROVE  /\ change \in DOMAIN B <=> change \in DOMAIN C
             /\ change \in DOMAIN B => B[change] = C[change]
  <2>1. PICK m \in Nat, n \in Nat : m = CountIn(q, f, change) /\ n = CountIn(u, g, change)
    BY <1>1
  <2>2. n = m + IF change \in S THEN 1 ELSE 0
    BY <2>1 DEF MoreOf
  <2>3. change \in DOMAIN A <=> m # 0
    BY ONLY <1>2, <2>1
  <2>4. change \in DOMAIN B <=> change \in DOMAIN C
    <3>1. change \in DOMAIN C <=> m # 0 \/ change \in S
      BY ONLY <1>4, <2>3
    <3>2. n # 0 <=> m # 0 \/ change \in S
      BY ONLY <2>2, m \in Nat, n \in Nat
    <3> QED BY ONLY <1>3, <2>1, <3>1, <3>2
  <2>5. change \in DOMAIN C => C[change] = m + IF change \in S THEN 1 ELSE 0
    <3>1. (IF change \in DOMAIN A THEN A[change] ELSE 0) = m
      BY ONLY <1>2, <2>1, <2>3, m \in Nat
    <3> QED BY <1>4, <3>1
  <2> QED BY ONLY <1>3, <2>1, <2>2, <2>4, <2>5
<1>6. DOMAIN B = DOMAIN C
  BY <1>5
<1>7. B = C
  BY ONLY <1>3, <1>4, <1>5, <1>6, Zenon
<1> QED BY <1>7 DEF B, C, A

LEMMA LeftShrinks ==
  ASSUME NEW q \in Seq(Task), NEW u \in Seq(Task), NEW f, NEW g, FewIn(f), FewIn(g), NEW x,
         LessOf(q, f, u, g, x), NEW S, S = {x}
  PROVE  BagIn(x, LeftIn(q, f)) /\ LeftIn(u, g) = LeftIn(q, f) (-) SetToBag(S)
<1> DEFINE A == LeftIn(q, f)  B == LeftIn(u, g)  C == A (-) SetToBag(S)
<1>1. \A change : CountIn(q, f, change) \in Nat /\ CountIn(u, g, change) \in Nat
  BY LeftInIs
<1>2. /\ \A change : change \in DOMAIN A <=> CountIn(q, f, change) # 0
      /\ \A change : change \in DOMAIN A => A[change] = CountIn(q, f, change)
  BY LeftInIs
<1>3. /\ \A change : change \in DOMAIN B <=> CountIn(u, g, change) # 0
      /\ \A change : change \in DOMAIN B => B[change] = CountIn(u, g, change)
      /\ B = [change \in DOMAIN B |-> B[change]]
  BY LeftInIs
<1> HIDE DEF A, B
<1>4. /\ \A change : change \in DOMAIN C <=>
           change \in DOMAIN A /\ A[change] - (IF change = x THEN 1 ELSE 0) > 0
      /\ \A change \in DOMAIN C : C[change] = A[change] - IF change = x THEN 1 ELSE 0
      /\ C = [change \in DOMAIN C |-> C[change]]
  <2>1. DOMAIN SetToBag(S) = {x} /\ SetToBag(S)[x] = 1
    BY DEF SetToBag
  <2>2. \A change \in DOMAIN A : A[change] \in Int
    BY <1>1, <1>2
  <2> DEFINE D == [e \in DOMAIN A |-> IF e \in DOMAIN SetToBag(S) THEN A[e] - SetToBag(S)[e] ELSE A[e]]
  <2>3. C = [e \in {d \in DOMAIN D : D[d] > 0} |-> D[e]]
    BY DEF (-)
  <2>4. DOMAIN D = DOMAIN A /\ \A e \in DOMAIN A : D[e] = A[e] - IF e = x THEN 1 ELSE 0
    BY <2>1, <2>2
  <2> HIDE DEF C, D
  <2> QED BY <2>3, <2>4
<1> HIDE DEF C
<1>5. ASSUME NEW change
      PROVE  /\ change \in DOMAIN B <=> change \in DOMAIN C
             /\ change \in DOMAIN B => B[change] = C[change]
  <2>1. PICK m \in Nat, n \in Nat : m = CountIn(q, f, change) /\ n = CountIn(u, g, change)
    BY <1>1
  <2>2. m = n + IF change = x THEN 1 ELSE 0
    BY <2>1 DEF LessOf
  <2>3. change \in DOMAIN C <=> m # 0 /\ m - (IF change = x THEN 1 ELSE 0) > 0
    BY <1>2, <1>4, <2>1
  <2>4. change \in DOMAIN B <=> change \in DOMAIN C
    BY ONLY <1>3, <2>1, <2>2, <2>3
  <2>5. change \in DOMAIN C => C[change] = m - IF change = x THEN 1 ELSE 0
    BY ONLY <1>2, <1>4, <2>1
  <2> QED BY ONLY <1>3, <2>1, <2>2, <2>4, <2>5
<1>6. DOMAIN B = DOMAIN C
  BY <1>5
<1>7. B = C
  BY ONLY <1>3, <1>4, <1>5, <1>6, Zenon
<1>8. BagIn(x, A)
  <2>1. PICK m \in Nat, n \in Nat : m = CountIn(q, f, x) /\ n = CountIn(u, g, x)
    BY <1>1
  <2>2. m = n + 1
    BY <2>1 DEF LessOf
  <2>3. m # 0
    BY <2>1, <2>2
  <2>4. x \in DOMAIN A
    BY <1>2, <2>1, <2>3
  <2> QED BY <2>4 DEF BagIn, BagToSet
<1> QED BY <1>7, <1>8 DEF B, C, A

LEMMA LeftEqual ==
  ASSUME NEW q \in Seq(Task), NEW u \in Seq(Task), NEW f, NEW g, FewIn(f), FewIn(g),
         SameOf(q, f, u, g)
  PROVE  LeftIn(u, g) = LeftIn(q, f)
<1> DEFINE A == LeftIn(q, f)  B == LeftIn(u, g)
<1>1. /\ \A change : change \in DOMAIN A <=> CountIn(q, f, change) # 0
      /\ \A change : change \in DOMAIN A => A[change] = CountIn(q, f, change)
      /\ A = [change \in DOMAIN A |-> A[change]]
  BY LeftInIs
<1>2. /\ \A change : change \in DOMAIN B <=> CountIn(u, g, change) # 0
      /\ \A change : change \in DOMAIN B => B[change] = CountIn(u, g, change)
      /\ B = [change \in DOMAIN B |-> B[change]]
  BY LeftInIs
<1> HIDE DEF A, B
<1>3. DOMAIN A = DOMAIN B
  BY <1>1, <1>2 DEF SameOf
<1>4. \A change \in DOMAIN A : A[change] = B[change]
  BY <1>1, <1>2, <1>3 DEF SameOf
<1>5. A = B
  BY ONLY <1>1, <1>2, <1>3, <1>4, Zenon
<1> QED BY <1>5 DEF A, B

-----------------------------------------------------------------------------
(* What each step of the instance leaves to do.                            *)

\* Where one thread moves, still only so many are between two posts.
LEMMA FewStep ==
  ASSUME NEW f, NEW g, FewIn(f), NEW t, \A u \in Thread \ {t} : g[u] = f[u]
  PROVE  FewIn(g)
<1> SUFFICES ASSUME NEW change PROVE IsFiniteSet(Halfway(g, change))
  BY DEF FewIn
<1>1. IsFiniteSet(Halfway(f, change))
  BY DEF FewIn
<1>2. IsFiniteSet(Halfway(f, change) \cup {t})
  BY <1>1, FS_AddElement
<1>3. Halfway(g, change) \in SUBSET (Halfway(f, change) \cup {t})
  BY DEF Halfway
<1> QED BY <1>2, <1>3, FS_Subset

\* The same of the queue of the instance and its threads, before and after a step.
LEMMA LeftSteps ==
  ASSUME loop \in Seq(Task), loop' \in Seq(Task), FewIn(app), FewIn(app')
  PROVE  /\ \A S : MoreOf(loop, app, loop', app', S) => Left' = Left (+) SetToBag(S)
         /\ \A x : LessOf(loop, app, loop', app', x) =>
                   BagIn(x, Left) /\ Left' = Left (-) SetToBag({x})
         /\ SameOf(loop, app, loop', app') => Left' = Left
<1>1. PICK q, u, f, g : /\ q \in Seq(Task) /\ u \in Seq(Task)
                        /\ q = loop /\ u = loop' /\ f = app /\ g = app'
  OBVIOUS
<1>2. q \in Seq(Task) /\ u \in Seq(Task) /\ FewIn(f) /\ FewIn(g) /\ Left = LeftIn(q, f) /\ Left' = LeftIn(u, g)
  BY <1>1 DEF Left
<1>3. \A S : MoreOf(q, f, u, g, S) => LeftIn(u, g) = LeftIn(q, f) (+) SetToBag(S)
  BY ONLY <1>2, LeftGrows
<1>4. \A x : LessOf(q, f, u, g, x) =>
             BagIn(x, LeftIn(q, f)) /\ LeftIn(u, g) = LeftIn(q, f) (-) SetToBag({x})
  <2> TAKE x
  <2> HAVE LessOf(q, f, u, g, x)
  <2>1. PICK S : S = {x}
    OBVIOUS
  <2>2. BagIn(x, LeftIn(q, f)) /\ LeftIn(u, g) = LeftIn(q, f) (-) SetToBag(S)
    BY <1>2, <2>1, LeftShrinks
  <2> QED BY <2>1, <2>2
<1>5. SameOf(q, f, u, g) => LeftIn(u, g) = LeftIn(q, f)
  BY ONLY <1>2, LeftEqual
<1>6. /\ \A S : MoreOf(q, f, u, g, S) <=> MoreOf(loop, app, loop', app', S)
      /\ \A x : LessOf(q, f, u, g, x) <=> LessOf(loop, app, loop', app', x)
      /\ SameOf(q, f, u, g) <=> SameOf(loop, app, loop', app')
  BY <1>1
<1> QED BY ONLY <1>2, <1>3, <1>4, <1>5, <1>6

\* A post adds what its task does.
LEMMA LeftPost ==
  ASSUME TypeOK, FewIn(app), FewIn(app'), NEW task \in Task, Post(task),
         \A t \in Thread : WillPost(app'[t]) = WillPost(app[t])
  PROVE  /\ Left' = Left (+) SetToBag(Does(task))
         /\ Does(task) = {} => Left' = Left
<1>1. loop \in Seq(Task) /\ loop' \in Seq(Task) /\ loop' = Append(loop, task)
  BY AppendProperties DEF TypeOK, Post
<1>2. \A change : Halfway(app', change) = Halfway(app, change)
  BY DEF Halfway
<1>3. ASSUME NEW change
      PROVE  CountIn(loop', app', change)
               = CountIn(loop, app, change) + IF change \in Does(task) THEN 1 ELSE 0
  <2>1. Cardinality(Places(loop', TasksFor(change)))
          = Cardinality(Places(loop, TasksFor(change))) + IF task \in TasksFor(change) THEN 1 ELSE 0
    BY <1>1, CountAppend
  <2>2. task \in TasksFor(change) <=> change \in Does(task)
    BY DEF TasksFor
  <2>3. /\ Cardinality(Places(loop, TasksFor(change))) \in Nat
        /\ Cardinality(Halfway(app, change)) \in Nat
    BY <1>1, PlacesFinite, FS_CardinalityType DEF FewIn
  <2>4. PICK m \in Nat, n \in Nat : /\ m = Cardinality(Places(loop, TasksFor(change)))
                                   /\ n = Cardinality(Halfway(app, change))
    BY <2>3
  <2>5. CountIn(loop, app, change) = m + n
    BY <2>4 DEF CountIn
  <2>6. CountIn(loop', app', change) = (m + IF change \in Does(task) THEN 1 ELSE 0) + n
    BY <1>2, <2>1, <2>2, <2>4 DEF CountIn
  <2> QED BY ONLY <2>5, <2>6, m \in Nat, n \in Nat
<1>4. Left' = Left (+) SetToBag(Does(task))
  <2>1. MoreOf(loop, app, loop', app', Does(task))
    BY <1>3 DEF MoreOf
  <2> QED BY <1>1, <2>1, LeftSteps
<1>5. ASSUME Does(task) = {}
      PROVE  Left' = Left
  <2>1. SameOf(loop, app, loop', app')
    <3>1. \A change : CountIn(loop, app, change) \in Nat
      BY <1>1, LeftInIs
    <3> QED BY <1>3, <1>5, <3>1 DEF SameOf
  <2> QED BY <1>1, <2>1, LeftSteps
<1> QED BY <1>4, <1>5

\* A task that is taken is one change less.
LEMMA LeftTake ==
  ASSUME TypeOK, FewIn(app), NEW op, Takes(op)
  PROVE  /\ \A x : Does(Head(loop)) = {x} => BagIn(x, Left) /\ Left' = Left (-) SetToBag({x})
         /\ Does(Head(loop)) = {} => Left' = Left
<1>1. /\ loop \in Seq(Task) /\ loop # <<>> /\ loop' \in Seq(Task) /\ loop' = Tail(loop)
      /\ Head(loop) \in Task /\ app' = app
  BY TakesType, HeadTailProperties DEF TypeOK, Takes, callers
<1>2. ASSUME NEW change
      PROVE  CountIn(loop, app, change)
               = CountIn(loop', app, change) + IF change \in Does(Head(loop)) THEN 1 ELSE 0
  <2>1. Cardinality(Places(loop, TasksFor(change)))
          = Cardinality(Places(loop', TasksFor(change)))
              + IF Head(loop) \in TasksFor(change) THEN 1 ELSE 0
    BY <1>1, CountTail
  <2>2. Head(loop) \in TasksFor(change) <=> change \in Does(Head(loop))
    BY <1>1 DEF TasksFor
  <2>3. /\ Cardinality(Places(loop', TasksFor(change))) \in Nat
        /\ Cardinality(Halfway(app, change)) \in Nat
    BY <1>1, PlacesFinite, FS_CardinalityType DEF FewIn
  <2>4. PICK m \in Nat, n \in Nat : /\ m = Cardinality(Places(loop', TasksFor(change)))
                                   /\ n = Cardinality(Halfway(app, change))
    BY <2>3
  <2>5. CountIn(loop', app, change) = m + n
    BY <2>4 DEF CountIn
  <2>6. CountIn(loop, app, change) = (m + IF change \in Does(Head(loop)) THEN 1 ELSE 0) + n
    BY <2>1, <2>2, <2>4 DEF CountIn
  <2> QED BY ONLY <2>5, <2>6, m \in Nat, n \in Nat
<1>3. ASSUME NEW x, Does(Head(loop)) = {x}
      PROVE  BagIn(x, Left) /\ Left' = Left (-) SetToBag({x})
  <2>1. LessOf(loop, app, loop', app, x)
    BY <1>2, <1>3 DEF LessOf
  <2>2. LessOf(loop, app, loop', app', x) /\ FewIn(app')
    BY <1>1, <2>1
  <2> QED BY <1>1, <2>2, LeftSteps
<1>4. ASSUME Does(Head(loop)) = {}
      PROVE  Left' = Left
  <2>1. SameOf(loop, app, loop', app)
    <3>1. \A change : CountIn(loop', app, change) \in Nat
      BY <1>1, LeftInIs
    <3> QED BY <1>2, <1>4, <3>1 DEF SameOf
  <2>2. SameOf(loop, app, loop', app') /\ FewIn(app')
    BY <1>1, <2>1
  <2> QED BY <1>1, <2>2, LeftSteps
<1> QED BY <1>3, <1>4

\* Nothing is posted or taken.
LEMMA LeftStays ==
  ASSUME TypeOK, FewIn(app), FewIn(app'), UNCHANGED loop,
         \A t \in Thread : WillPost(app'[t]) = WillPost(app[t])
  PROVE  Left' = Left
<1>1. loop \in Seq(Task) /\ loop' = loop
  BY DEF TypeOK
<1>2. SameOf(loop, app, loop', app')
  BY <1>1 DEF SameOf, CountIn, Halfway
<1> QED BY <1>1, <1>2, LeftSteps

\* The two posts of UpdateProperties: the first asks for both changes, the second hands
\* one of them over to the queue.
LEMMA LeftUpdate ==
  ASSUME TypeOK, FewIn(app), FewIn(app'), NEW t \in Thread, NEW id \in Int,
         NEW list \in PropertyList, UpdateProperties(t, id, list)
  PROVE  Left' = Left (+) SetToBag({<<"store", id, list>>, <<"show", id, list>>})
<1> DEFINE task == [op |-> "SavePropertiesList", id |-> id, properties |-> list]
           show == <<"show", id, list>>
<1>1. /\ loop \in Seq(Task) /\ task \in Task /\ loop' = Append(loop, task)
      /\ loop' \in Seq(Task)
  BY AppendProperties DEF TypeOK, UpdateProperties, Post, Task
<1>2. Does(task) = {<<"store", id, list>>}
  BY DEF Does
<1>3. /\ \A u \in Thread \ {t} : WillPost(app'[u]) = WillPost(app[u])
      /\ WillPost(app[t]) = {} /\ WillPost(app'[t]) = {show}
  <2>1. app \in [Thread -> Call] /\ app[t] = Idle
        /\ app' = [app EXCEPT ![t] = [at |-> "updating", id |-> id, properties |-> list]]
    BY DEF TypeOK, CallersTypeOK, UpdateProperties
  <2>2. /\ \A u \in Thread \ {t} : app'[u] = app[u]
        /\ app'[t] = [at |-> "updating", id |-> id, properties |-> list]
    BY <2>1
  <2> QED BY <2>1, <2>2 DEF WillPost, Idle
<1>4. ASSUME NEW change
      PROVE  CountIn(loop', app', change) = CountIn(loop, app, change)
               + IF change \in {<<"store", id, list>>, show} THEN 1 ELSE 0
  <2>1. Cardinality(Places(loop', TasksFor(change)))
          = Cardinality(Places(loop, TasksFor(change))) + IF task \in TasksFor(change) THEN 1 ELSE 0
    BY <1>1, CountAppend
  <2>2. task \in TasksFor(change) <=> change = <<"store", id, list>>
    BY <1>1, <1>2 DEF TasksFor
  <2>3. /\ Cardinality(Places(loop, TasksFor(change))) \in Nat
        /\ Cardinality(Halfway(app, change)) \in Nat /\ IsFiniteSet(Halfway(app, change))
    BY <1>1, PlacesFinite, FS_CardinalityType DEF FewIn
  <2>4. PICK m \in Nat, n \in Nat : /\ m = Cardinality(Places(loop, TasksFor(change)))
                                   /\ n = Cardinality(Halfway(app, change))
    BY <2>3
  <2>5. Cardinality(Halfway(app', change)) = n + IF change = show THEN 1 ELSE 0
    <3>1. t \notin Halfway(app, change)
      BY <1>3 DEF Halfway
    <3>2. Halfway(app', change) = IF change = show THEN Halfway(app, change) \cup {t}
                                                   ELSE Halfway(app, change)
      BY <1>3 DEF Halfway
    <3>3. Cardinality(Halfway(app, change) \cup {t}) = n + 1
      BY <2>3, <2>4, <3>1, FS_AddElement
    <3> HIDE DEF show
    <3> QED BY ONLY <2>4, <3>2, <3>3
  <2>6. <<"store", id, list>> # show
    OBVIOUS
  <2>7. CountIn(loop, app, change) = m + n
    BY <2>4 DEF CountIn
  <2>8. CountIn(loop', app', change) = (m + IF change = <<"store", id, list>> THEN 1 ELSE 0)
                                        + (n + IF change = show THEN 1 ELSE 0)
    BY <2>1, <2>2, <2>4, <2>5 DEF CountIn
  <2> HIDE DEF show
  <2> QED BY ONLY <2>6, <2>7, <2>8, m \in Nat, n \in Nat
<1>5. PICK S : S = {<<"store", id, list>>, show}
  OBVIOUS
<1>6. MoreOf(loop, app, loop', app', S)
  BY <1>4, <1>5 DEF MoreOf
<1> QED BY <1>1, <1>5, <1>6, LeftSteps

LEMMA LeftUpdated ==
  ASSUME TypeOK, FewIn(app), FewIn(app'), NEW t \in Thread, UpdatePropertiesReturns(t)
  PROVE  Left' = Left
<1> DEFINE task == [op |-> "HandleMessage",
                    msg |-> CreatePropertyUpdated(app[t].id, app[t].properties)]
           show == <<"show", app[t].id, app[t].properties>>
<1>0. /\ app \in [Thread -> Call] /\ app[t] \in Call /\ app[t].at = "updating"
      /\ app' = [app EXCEPT ![t] = Idle]
  BY DEF TypeOK, CallersTypeOK, UpdatePropertiesReturns
<1>1. /\ loop \in Seq(Task) /\ task \in Task /\ loop' = Append(loop, task)
      /\ loop' \in Seq(Task)
  <2>1. app[t].id \in Int /\ app[t].properties \in PropertyList
    BY <1>0 DEF Call, Idle
  <2>2. task \in Task
    BY <2>1 DEF Task, CreatePropertyUpdated, UpdateMsg
  <2> QED BY <2>2, AppendProperties DEF TypeOK, UpdatePropertiesReturns, Post
<1>2. Does(task) = {show}
  BY DEF Does, CreatePropertyUpdated
<1>3. /\ \A u \in Thread \ {t} : WillPost(app'[u]) = WillPost(app[u])
      /\ WillPost(app[t]) = {show} /\ WillPost(app'[t]) = {}
  BY <1>0 DEF WillPost, Idle
<1>4. ASSUME NEW change
      PROVE  CountIn(loop', app', change) = CountIn(loop, app, change)
  <2>1. Cardinality(Places(loop', TasksFor(change)))
          = Cardinality(Places(loop, TasksFor(change))) + IF task \in TasksFor(change) THEN 1 ELSE 0
    BY <1>1, CountAppend
  <2>2. task \in TasksFor(change) <=> change = show
    BY <1>1, <1>2 DEF TasksFor
  <2>3. /\ Cardinality(Places(loop, TasksFor(change))) \in Nat
        /\ Cardinality(Halfway(app', change)) \in Nat /\ IsFiniteSet(Halfway(app', change))
    BY <1>1, PlacesFinite, FS_CardinalityType DEF FewIn
  <2>4. PICK m \in Nat, n \in Nat : /\ m = Cardinality(Places(loop, TasksFor(change)))
                                   /\ n = Cardinality(Halfway(app', change))
    BY <2>3
  <2> HIDE DEF task, show
  <2>5. Cardinality(Halfway(app, change)) = n + IF change = show THEN 1 ELSE 0
    <3>1. t \notin Halfway(app', change)
      BY <1>3 DEF Halfway
    <3>2. Halfway(app, change) = IF change = show THEN Halfway(app', change) \cup {t}
                                                  ELSE Halfway(app', change)
      BY <1>3 DEF Halfway
    <3>3. Cardinality(Halfway(app', change) \cup {t}) = n + 1
      BY <2>3, <2>4, <3>1, FS_AddElement
    <3> QED BY <2>4, <3>2, <3>3
  <2>6. CountIn(loop, app, change) = m + (n + IF change = show THEN 1 ELSE 0)
    BY <2>4, <2>5 DEF CountIn
  <2>7. CountIn(loop', app', change) = (m + IF change = show THEN 1 ELSE 0) + n
    BY <2>1, <2>2, <2>4 DEF CountIn
  <2> QED BY ONLY <2>6, <2>7, m \in Nat, n \in Nat
<1>5. SameOf(loop, app, loop', app')
  BY <1>4 DEF SameOf
<1> QED BY <1>1, <1>5, LeftSteps

-----------------------------------------------------------------------------
(* What is asked for, and how many ids that takes.                         *)

\* The changes Registry speaks of.
Change == ({"store", "show"} \X ModuleId \X UpdateList) \cup ({"remove"} \X ModuleId)
Registrations == {task \in Task : task.op = "DoRegisterModule"}

\* Tasks and threads carry what calls and requests may; a registration has a thread that
\* waits for it, or the callback that waits for it is the last thing the process does.
ChangesInv ==
  /\ \A task \in Tasks : Does(task) \subseteq Change
  /\ \A task \in Tasks : task.op = "DoRegisterModule" /\ task.to = {} => running.at = "registering"
  /\ \A t \in Thread : WillPost(app[t]) \subseteq Change
  /\ FewIn(app)

\* An id for each call of RegisterModule.
CallsInv ==
  /\ calls \in 0..MaxCalls
  /\ idCounter + Cardinality(Places(loop, Registrations)) <= calls

\* What a step besides the module thread's tasks may post.
Brings(task) ==
  /\ Post(task) /\ Does(task) \subseteq Change
  /\ task.op = "DoRegisterModule" => Calls /\ (task.to = {} => running'.at = "registering")
Waits == running.at = "registering" => running'.at = "registering"

\* Such a step keeps both: first the ids, then the changes.
LEMMA CallsBeside ==
  ASSUME TypeOK, CallsInv, UNCHANGED idCounter, UNCHANGED calls \/ Calls,
         UNCHANGED loop \/ \E task \in Task : Brings(task)
  PROVE  CallsInv'
<1>1. loop \in Seq(Task) /\ idCounter \in Nat /\ MaxCalls \in Nat /\ calls \in Nat
  BY ApplicationAssumption DEF TypeOK, ModulesTypeOK, CallsInv
<1>2. PICK n \in Nat : n = Cardinality(Places(loop, Registrations))
  BY <1>1, PlacesFinite
<1>3. calls' \in 0..MaxCalls
  BY <1>1 DEF CallsInv, Calls
<1>4. CASE UNCHANGED loop
  <2>1. Cardinality(Places(loop', Registrations)) = n
    BY <1>2, <1>4
  <2> QED BY <1>1, <1>2, <1>3, <2>1 DEF CallsInv, Calls
<1>5. ASSUME NEW task \in Task, Brings(task)
      PROVE  CallsInv'
  <2>1. Cardinality(Places(loop', Registrations)) = n + IF task \in Registrations THEN 1 ELSE 0
    BY <1>1, <1>2, <1>5, CountAppend DEF Brings, Post
  <2>2. task \in Registrations => calls' = calls + 1
    BY <1>5 DEF Registrations, Brings, Calls
  <2>3. idCounter + n <= calls
    BY <1>2 DEF CallsInv
  <2> QED BY <1>1, <1>2, <1>3, <2>1, <2>2, <2>3 DEF CallsInv, Calls
<1> QED BY <1>4, <1>5

LEMMA ChangesBeside ==
  ASSUME TypeOK, ChangesInv, Waits, UNCHANGED loop \/ \E task \in Task : Brings(task),
         UNCHANGED app \/ \E t \in Thread : /\ \A u \in Thread \ {t} : app'[u] = app[u]
                                           /\ WillPost(app'[t]) \subseteq Change
  PROVE  ChangesInv'
<1>1. /\ \A task \in Tasks' : Does(task) \subseteq Change
      /\ \A task \in Tasks' : task.op = "DoRegisterModule" /\ task.to = {} =>
                                 running'.at = "registering"
  <2>1. CASE UNCHANGED loop
    <3>1. Tasks' = Tasks
      BY <2>1, TasksOf
    <3> QED BY <3>1 DEF ChangesInv, Waits
  <2>2. ASSUME NEW task \in Task, Brings(task)
        PROVE  /\ \A x \in Tasks' : Does(x) \subseteq Change
               /\ \A x \in Tasks' : x.op = "DoRegisterModule" /\ x.to = {} =>
                                       running'.at = "registering"
    <3>1. Tasks' = Tasks \cup {task}
      BY <2>2, TasksOf DEF Brings
    <3> QED BY <2>2, <3>1 DEF ChangesInv, Waits, Brings
  <2> QED BY <2>1, <2>2
<1>2. FewIn(app')
  <2>1. CASE UNCHANGED app
    BY <2>1 DEF ChangesInv
  <2>2. ASSUME NEW t \in Thread, \A u \in Thread \ {t} : app'[u] = app[u]
        PROVE  FewIn(app')
    <3>1. PICK f, g : f = app /\ g = app'
      OBVIOUS
    <3>2. FewIn(f) /\ \A u \in Thread \ {t} : g[u] = f[u]
      BY <2>2, <3>1 DEF ChangesInv
    <3>3. FewIn(g)
      BY ONLY <3>2, FewStep
    <3> QED BY <3>1, <3>3
  <2> QED BY <2>1, <2>2
<1>3. \A t \in Thread : WillPost(app'[t]) \subseteq Change
  BY DEF ChangesInv
<1> QED BY <1>1, <1>2, <1>3 DEF ChangesInv

\* The module thread takes a task; only DoRegisterModule takes an id.
LEMMA RunsChanges ==
  ASSUME TypeOK, ChangesInv, CallsInv, Runs
  PROVE  ChangesInv' /\ CallsInv'
<1>1. /\ loop \in Seq(Task) /\ loop # <<>> /\ loop' = Tail(loop) /\ running = Idle
      /\ Head(loop) \in Task /\ RunTask
  BY TaskCalls, TasksOf DEF TypeOK, Runs
<1>2. Tasks = {Head(loop)} \cup Tasks'
  BY <1>1, TasksOf
<1>3. app' = app /\ calls' = calls
  BY <1>1 DEF RunTask, OnProxyInitialized, DoRegisterModule, UnregisterModule, SaveUpdate,
     PushUpdate, DoProcessJSRequest, PassPeerUpdate, Takes, callers, Runs, Returns
<1>4. ChangesInv'
  <2>1. running.at # "registering"
    BY <1>1 DEF Idle
  <2> QED BY <1>2, <1>3, <2>1 DEF ChangesInv
<1>5. Cardinality(Places(loop, Registrations))
        = Cardinality(Places(loop', Registrations)) + IF Head(loop) \in Registrations THEN 1 ELSE 0
  BY <1>1, CountTail
<1>6. idCounter' = idCounter + IF Head(loop) \in Registrations THEN 1 ELSE 0
  <2>1. CASE DoRegisterModule
    BY <1>1, <2>1 DEF DoRegisterModule, Takes, Registrations
  <2>2. CASE ~DoRegisterModule
    <3>1. Head(loop).op # "DoRegisterModule" /\ idCounter' = idCounter
      BY <1>1, <2>2 DEF RunTask, OnProxyInitialized, UnregisterModule, SaveUpdate,
         PushUpdate, DoProcessJSRequest, PassPeerUpdate, Takes, started
    <3>2. idCounter \in Nat
      BY DEF TypeOK, ModulesTypeOK
    <3> QED BY <3>1, <3>2 DEF Registrations
  <2> QED BY <2>1, <2>2
<1>7. Cardinality(Places(loop', Registrations)) \in Nat /\ idCounter \in Nat
  <2>1. loop' \in Seq(Task)
    BY <1>1, HeadTailProperties
  <2> QED BY <2>1, PlacesFinite DEF TypeOK, ModulesTypeOK
<1>8. CallsInv'
  <2>1. PICK m \in Nat : m = Cardinality(Places(loop', Registrations))
    BY <1>7
  <2>2. idCounter + (m + IF Head(loop) \in Registrations THEN 1 ELSE 0) <= calls /\ calls \in 0..MaxCalls
    BY <1>5, <2>1 DEF CallsInv
  <2>3. idCounter' + m <= calls
    BY <1>6, <1>7, <2>2
  <2> QED BY <1>3, <2>1, <2>2, <2>3 DEF CallsInv
<1> QED BY <1>4, <1>8

-----------------------------------------------------------------------------
(* Who waits for what.                                                     *)

LoadTasks(r) == {task \in RequestTasks(r) : task.json = CreateLoadModules}

\* Wanted and Listing, of a queue.
ModulesIn(queue, t) ==
  {queue[i].module : i \in {i \in 1..Len(queue) : queue[i].op = "DoRegisterModule" /\ t \in queue[i].to}}
LoadsIn(queue, r) ==
  \E i \in {i \in 1..Len(queue) : queue[i].op = "DoProcessJSRequest" /\ queue[i].to = r} :
    queue[i].json = CreateLoadModules

\* They are what the tasks in the queue say, wherever these stand.
LEMMA WaitingIn ==
  ASSUME NEW q \in Seq(Task)
  PROVE  /\ \A t : ModulesIn(q, t) = {task.module : task \in Range(q) \cap RegisterTasks(t)}
         /\ \A r : LoadsIn(q, r) <=> Range(q) \cap LoadTasks(r) # {}
<1>1. Range(q) = {q[i] : i \in 1..Len(q)} /\ \A i \in 1..Len(q) : q[i] \in Task
  BY MembersOf, ElementOfSeq
<1>2. ASSUME NEW t
      PROVE  ModulesIn(q, t) = {task.module : task \in Range(q) \cap RegisterTasks(t)}
  <2>1. \A i \in 1..Len(q) : q[i].op = "DoRegisterModule" /\ t \in q[i].to <=> q[i] \in RegisterTasks(t)
    BY <1>1 DEF RegisterTasks
  <2> QED BY <1>1, <2>1 DEF ModulesIn
<1>3. ASSUME NEW r
      PROVE  LoadsIn(q, r) <=> Range(q) \cap LoadTasks(r) # {}
  BY <1>1 DEF LoadTasks, RequestTasks, LoadsIn
<1> QED BY <1>2, <1>3

LEMMA WaitingFor ==
  ASSUME loop \in Seq(Task), loop' \in Seq(Task)
  PROVE  /\ Wanted = [t \in Thread |-> {task.module : task \in Tasks \cap RegisterTasks(t)}]
         /\ Listing = {r \in Requester : Tasks \cap LoadTasks(r) # {}}
         /\ Wanted' = [t \in Thread |-> {task.module : task \in Tasks' \cap RegisterTasks(t)}]
         /\ Listing' = {r \in Requester : Tasks' \cap LoadTasks(r) # {}}
<1>1. PICK q, u : q \in Seq(Task) /\ u \in Seq(Task) /\ q = loop /\ u = loop'
  OBVIOUS
<1>2. /\ Wanted = [t \in Thread |-> ModulesIn(q, t)]
      /\ Listing = {r \in Requester : LoadsIn(q, r)}
      /\ Tasks = Range(q)
  BY <1>1 DEF Wanted, Listing, RegistrationsOf, RequestsOf, Tasks, ModulesIn, LoadsIn
<1>3. /\ Wanted' = [t \in Thread |-> ModulesIn(u, t)]
      /\ Listing' = {r \in Requester : LoadsIn(u, r)}
      /\ Tasks' = Range(u)
  BY <1>1 DEF Wanted, Listing, RegistrationsOf, RequestsOf, Tasks, ModulesIn, LoadsIn
<1>4. /\ \A t : ModulesIn(q, t) = {task.module : task \in Range(q) \cap RegisterTasks(t)}
      /\ \A r : LoadsIn(q, r) <=> Range(q) \cap LoadTasks(r) # {}
  BY ONLY <1>1, WaitingIn
<1>5. /\ \A t : ModulesIn(u, t) = {task.module : task \in Range(u) \cap RegisterTasks(t)}
      /\ \A r : LoadsIn(u, r) <=> Range(u) \cap LoadTasks(r) # {}
  BY ONLY <1>1, WaitingIn
<1> QED BY <1>2, <1>3, <1>4, <1>5

\* A task nobody waits for with a module, and no page for the modules.
Unwaited(task) ==
  /\ \A t \in Thread : task \notin RegisterTasks(t)
  /\ \A r \in Requester : task \notin LoadTasks(r)

\* Posting a task begins the wait for it.
LEMMA WaitingPost ==
  ASSUME loop \in Seq(Task), loop' \in Seq(Task), NEW task, Tasks' = Tasks \cup {task}
  PROVE  /\ Unwaited(task) => Wanted' = Wanted /\ Listing' = Listing
         /\ \A t \in Thread : task \in RegisterTasks(t) /\ task.to = {t} /\ Wanted[t] = {} =>
              Wanted' = [Wanted EXCEPT ![t] = {task.module}] /\ Listing' = Listing
         /\ \A r \in Requester : task \in LoadTasks(r) =>
              Listing' = Listing \cup {r} /\ Wanted' = Wanted
<1>1. /\ Wanted = [t \in Thread |-> {x.module : x \in Tasks \cap RegisterTasks(t)}]
      /\ Listing = {r \in Requester : Tasks \cap LoadTasks(r) # {}}
  BY WaitingFor
<1>2. /\ Wanted' = [t \in Thread |-> {x.module : x \in Tasks' \cap RegisterTasks(t)}]
      /\ Listing' = {r \in Requester : Tasks' \cap LoadTasks(r) # {}}
  BY WaitingFor
<1>3. ASSUME \A t \in Thread : task \notin RegisterTasks(t) PROVE Wanted' = Wanted
  BY <1>1, <1>2, <1>3
<1>4. ASSUME \A r \in Requester : task \notin LoadTasks(r) PROVE Listing' = Listing
  BY <1>1, <1>2, <1>4
<1>5. ASSUME NEW t \in Thread, task \in RegisterTasks(t), task.to = {t}, Wanted[t] = {}
      PROVE  Wanted' = [Wanted EXCEPT ![t] = {task.module}] /\ Listing' = Listing
  <2>1. \A r \in Requester : task \notin LoadTasks(r)
    BY <1>5 DEF RegisterTasks, LoadTasks, RequestTasks
  <2>2. \A u \in Thread \ {t} : task \notin RegisterTasks(u)
    BY <1>5 DEF RegisterTasks
  <2>3. \A u \in Thread \ {t} : Wanted'[u] = Wanted[u]
    BY <1>1, <1>2, <2>2
  <2>4. Tasks \cap RegisterTasks(t) = {}
    <3>1. \A x \in Tasks \cap RegisterTasks(t) : x.module \in Wanted[t]
      BY <1>1
    <3> QED BY <1>5, <3>1
  <2>5. Wanted'[t] = {task.module}
    <3>1. Tasks' \cap RegisterTasks(t) = {task}
      BY <1>5, <2>4
    <3> QED BY <1>2, <3>1
  <2>6. Wanted' = [Wanted EXCEPT ![t] = {task.module}]
    BY <1>1, <1>2, <2>3, <2>5
  <2> QED BY <1>4, <2>1, <2>6
<1>6. ASSUME NEW r \in Requester, task \in LoadTasks(r)
      PROVE  Listing' = Listing \cup {r} /\ Wanted' = Wanted
  <2>1. \A t \in Thread : task \notin RegisterTasks(t)
    BY <1>6 DEF RegisterTasks, LoadTasks, RequestTasks
  <2>2. \A q : task \in LoadTasks(q) <=> q = r
    BY <1>6 DEF LoadTasks, RequestTasks
  <2>3. \A q \in Requester : Tasks' \cap LoadTasks(q) # {} <=> Tasks \cap LoadTasks(q) # {} \/ q = r
    BY <2>2
  <2> QED BY <1>1, <1>2, <1>3, <2>1, <2>3
<1> QED BY <1>3, <1>4, <1>5, <1>6 DEF Unwaited

\* Taking a task ends the wait for it.
LEMMA WaitingTake ==
  ASSUME loop \in Seq(Task), loop # <<>>, loop' = Tail(loop),
         \A t \in Thread : AtMostOne(RegistrationsOf(t)),
         \A r \in Requester : AtMostOne(RequestsOf(r))
  PROVE  /\ Unwaited(Head(loop)) => Wanted' = Wanted /\ Listing' = Listing
         /\ \A t \in Thread : Head(loop) \in RegisterTasks(t) /\ Head(loop).to = {t} =>
              /\ Wanted[t] = {Head(loop).module}
              /\ Wanted' = [Wanted EXCEPT ![t] = {}] /\ Listing' = Listing
         /\ \A r \in Requester : Head(loop) \in LoadTasks(r) =>
              /\ r \in Listing /\ Listing' = Listing \ {r} /\ Wanted' = Wanted
<1>0. PICK task \in Task : task = Head(loop)
  BY MembersOf
<1>1. loop' \in Seq(Task) /\ Tasks = {task} \cup Tasks'
  BY <1>0, MembersOf DEF Tasks
<1>2. /\ Wanted = [t \in Thread |-> {x.module : x \in Tasks \cap RegisterTasks(t)}]
      /\ Listing = {r \in Requester : Tasks \cap LoadTasks(r) # {}}
  BY <1>1, WaitingFor
<1>3. /\ Wanted' = [t \in Thread |-> {x.module : x \in Tasks' \cap RegisterTasks(t)}]
      /\ Listing' = {r \in Requester : Tasks' \cap LoadTasks(r) # {}}
  BY <1>1, WaitingFor
<1>4. /\ \A t \in Thread : task \in RegisterTasks(t) => Tasks' \cap RegisterTasks(t) = {}
      /\ \A r \in Requester : task \in RequestTasks(r) => Tasks' \cap RequestTasks(r) = {}
  <2>1. ASSUME NEW C, AtMostOne(Places(loop, C)), task \in C
        PROVE  Tasks' \cap C = {}
    <3>1. Places(Tail(loop), C) = {}
      BY <1>0, <2>1, PlacesTail
    <3>2. Tasks' = {loop'[i] : i \in 1..Len(loop')}
      <4>1. PICK u : u \in Seq(Task) /\ u = loop' /\ Range(u) = Tasks'
        BY <1>1 DEF Tasks
      <4>2. Range(u) = {u[i] : i \in 1..Len(u)}
        BY ONLY <4>1, MembersOf
      <4> QED BY <4>1, <4>2
    <3> QED BY <3>1, <3>2 DEF Places
  <2>2. /\ \A t : RegistrationsOf(t) = Places(loop, RegisterTasks(t))
        /\ \A r : RequestsOf(r) = Places(loop, RequestTasks(r))
    BY PlacesOf DEF RegistrationsOf, RequestsOf
  <2> QED BY <2>1, <2>2
<1>5. ASSUME \A t \in Thread : task \notin RegisterTasks(t) PROVE Wanted' = Wanted
  BY <1>1, <1>2, <1>3, <1>5
<1>6. ASSUME \A r \in Requester : task \notin LoadTasks(r) PROVE Listing' = Listing
  BY <1>1, <1>2, <1>3, <1>6
<1>7. ASSUME NEW t \in Thread, task \in RegisterTasks(t), task.to = {t}
      PROVE  /\ Wanted[t] = {task.module}
             /\ Wanted' = [Wanted EXCEPT ![t] = {}] /\ Listing' = Listing
  <2>1. \A r \in Requester : task \notin LoadTasks(r)
    BY <1>7 DEF RegisterTasks, LoadTasks, RequestTasks
  <2>2. \A u \in Thread \ {t} : task \notin RegisterTasks(u)
    BY <1>7 DEF RegisterTasks
  <2>3. \A u \in Thread \ {t} : Wanted'[u] = Wanted[u]
    BY <1>1, <1>2, <1>3, <2>2
  <2>4. Tasks' \cap RegisterTasks(t) = {} /\ Tasks \cap RegisterTasks(t) = {task}
    BY <1>1, <1>4, <1>7
  <2>5. Wanted[t] = {task.module} /\ Wanted'[t] = {}
    BY <1>2, <1>3, <2>4
  <2>6. Wanted' = [Wanted EXCEPT ![t] = {}]
    BY <1>2, <1>3, <2>3, <2>5
  <2> QED BY <1>6, <2>1, <2>5, <2>6
<1>8. ASSUME NEW r \in Requester, task \in LoadTasks(r)
      PROVE  r \in Listing /\ Listing' = Listing \ {r} /\ Wanted' = Wanted
  <2>1. \A t \in Thread : task \notin RegisterTasks(t)
    BY <1>8 DEF RegisterTasks, LoadTasks, RequestTasks
  <2>2. \A q : task \in LoadTasks(q) <=> q = r
    BY <1>8 DEF LoadTasks, RequestTasks
  <2>3. Tasks' \cap LoadTasks(r) = {} /\ task \in Tasks
    BY <1>1, <1>4, <1>8 DEF LoadTasks
  <2>4. \A q \in Requester : Tasks' \cap LoadTasks(q) # {} <=> Tasks \cap LoadTasks(q) # {} /\ q # r
    BY <1>1, <2>2, <2>3
  <2>5. r \in Listing
    BY <1>2, <1>8, <2>3
  <2> QED BY <1>2, <1>3, <1>5, <2>1, <2>4, <2>5
<1> QED BY <1>0, <1>5, <1>6, <1>7, <1>8 DEF Unwaited

\* The ids the application, its callbacks and the counter have are ids of modules.
LEMMA IdsEnough ==
  ASSUME AppInv, CallsInv
  PROVE  /\ Ids \subseteq ModuleId /\ Handles \subseteq ModuleId
         /\ running.at = "callback" => CallbackIds \subseteq ModuleId
         /\ loop # <<>> /\ Head(loop).op = "DoRegisterModule" => idCounter \in ModuleId
<1>1. idCounter \in Nat /\ MaxCalls \in Nat /\ 0..(MaxCalls - 1) \subseteq ModuleId /\ loop \in Seq(Task)
  BY ApplicationAssumption DEF AppInv, TypeOK, ModulesTypeOK
<1>2. PICK n \in Nat : n = Cardinality(Places(loop, Registrations))
  BY <1>1, PlacesFinite
<1>3. idCounter + n <= MaxCalls
  BY <1>1, <1>2 DEF CallsInv
<1>4. Ids \subseteq ModuleId
  BY <1>1, <1>3 DEF Ids
<1>5. Handles \subseteq ModuleId /\ (running.at = "callback" => CallbackIds \subseteq ModuleId)
  BY <1>4 DEF AppInv, IdsInv, Handles, CallbackIds
<1>6. ASSUME loop # <<>>, Head(loop).op = "DoRegisterModule"
      PROVE  idCounter \in ModuleId
  <2>1. Head(loop) \in Registrations
    BY <1>1, <1>6, MembersOf DEF Registrations
  <2>2. n = Cardinality(Places(Tail(loop), Registrations)) + 1
    BY <1>1, <1>2, <1>6, <2>1, CountTail
  <2>3. Cardinality(Places(Tail(loop), Registrations)) \in Nat
    <3>1. Tail(loop) \in Seq(Task)
      BY <1>1, <1>6, MembersOf
    <3> QED BY <3>1, PlacesFinite
  <2> QED BY <1>1, <1>3, <2>2, <2>3
<1> QED BY <1>4, <1>5, <1>6

\* A change of the registry, as a task or a thread carries it.
LEMMA ChangesOf ==
  /\ \A id \in ModuleId, list \in UpdateList :
       <<"store", id, list>> \in Change /\ <<"show", id, list>> \in Change
  /\ \A id \in ModuleId : <<"remove", id>> \in Change
  /\ \A id, list : <<"store", id, list>> \in Change \/ <<"show", id, list>> \in Change
                     => id \in ModuleId /\ list \in UpdateList
  /\ \A id : <<"remove", id>> \in Change => id \in ModuleId
<1>1. /\ \A id, list : <<"store", id, list>> \notin {"remove"} \X ModuleId
      /\ \A id, list : <<"show", id, list>> \notin {"remove"} \X ModuleId
      /\ \A id : <<"remove", id>> \notin {"store", "show"} \X ModuleId \X UpdateList
  OBVIOUS
<1> QED BY <1>1 DEF Change

\* Steps that post nothing, in which nobody starts to update.
LEMMA NothingBrought ==
  ASSUME AppInv, ChangesInv, CallsInv, UNCHANGED <<loop, idCounter>>, UNCHANGED calls \/ Calls, Waits,
         UNCHANGED app \/ \E t \in Thread : app' = [app EXCEPT ![t] = Idle]
  PROVE  ChangesInv' /\ CallsInv'
<1>1. CallsInv'
  BY CallsBeside DEF AppInv
<1>2. UNCHANGED app \/ \E t \in Thread : /\ \A u \in Thread \ {t} : app'[u] = app[u]
                                        /\ WillPost(app'[t]) \subseteq Change
  BY DEF AppInv, TypeOK, CallersTypeOK, WillPost, Idle
<1>3. ChangesInv'
  BY <1>2, ChangesBeside DEF AppInv
<1> QED BY <1>1, <1>3

LEMMA TaskBrought ==
  ASSUME AppInv, ChangesInv, CallsInv, UNCHANGED idCounter, UNCHANGED calls \/ Calls, Waits,
         NEW task \in Task, Brings(task),
         UNCHANGED app \/ \E t \in Thread : /\ \A u \in Thread \ {t} : app'[u] = app[u]
                                           /\ WillPost(app'[t]) \subseteq Change
  PROVE  ChangesInv' /\ CallsInv'
<1>1. CallsInv'
  BY CallsBeside DEF AppInv
<1>2. ChangesInv'
  BY ChangesBeside DEF AppInv
<1> QED BY <1>1, <1>2

\* The calls of the threads, then every step.
LEMMA ThreadChanges ==
  ASSUME AppInv, ChangesInv, CallsInv, NEW t \in Thread,
         \/ \E module \in Definition : ThreadRegisters(t, module)
         \/ ThreadRegistered(t)
         \/ \E id \in Handles : ThreadUnregisters(t, id)
         \/ \E id \in Handles, list \in UpdateList : ThreadUpdates(t, id, list)
         \/ ThreadUpdated(t)
  PROVE  ChangesInv' /\ CallsInv'
<1>0. app \in [Thread -> Call] /\ Handles \subseteq ModuleId
  BY IdsEnough DEF AppInv, TypeOK, CallersTypeOK
<1> USE DEF Outside, instance, started
<1>1. ASSUME NEW module \in Definition, ThreadRegisters(t, module)
      PROVE  ChangesInv' /\ CallsInv'
  <2> DEFINE task == [op |-> "DoRegisterModule", module |-> module, to |-> {t}]
  <2>1. task \in Task /\ Does(task) = {}
    BY ConstantsAssumption DEF Task, Does
  <2>2. Post(task) /\ Calls /\ Waits /\ UNCHANGED idCounter
    BY <1>1 DEF ThreadRegisters, RegisterModule, Waits
  <2>3. Brings(task)
    BY <2>1, <2>2 DEF Brings
  <2>4. (\A u \in Thread \ {t} : app'[u] = app[u]) /\ WillPost(app'[t]) \subseteq Change
    BY <1>0, <1>1 DEF ThreadRegisters, RegisterModule, WillPost
  <2> HIDE DEF task
  <2> QED BY <2>1, <2>2, <2>3, <2>4, TaskBrought
<1>2. ASSUME ThreadRegistered(t)
      PROVE  ChangesInv' /\ CallsInv'
  BY <1>2, NothingBrought DEF ThreadRegistered, RegisterReturns, Returns, Waits
<1>3. ASSUME NEW id \in Handles, ThreadUnregisters(t, id)
      PROVE  ChangesInv' /\ CallsInv'
  <2> DEFINE task == [op |-> "UnregisterModule", id |-> id]
  <2>1. task \in Task /\ Does(task) = {<<"remove", id>>} /\ task.op # "DoRegisterModule"
    BY <1>0, ConstantsAssumption DEF Task, Does
  <2>2. Post(task) /\ Calls /\ Waits /\ UNCHANGED idCounter /\ UNCHANGED app
    BY <1>3 DEF ThreadUnregisters, CallUnregisterModule, Waits, callers
  <2>3. Brings(task)
    BY <1>0, <2>1, <2>2, ChangesOf DEF Brings
  <2> HIDE DEF task
  <2> QED BY <2>1, <2>2, <2>3, TaskBrought
<1>4. ASSUME NEW id \in Handles, NEW list \in UpdateList, ThreadUpdates(t, id, list)
      PROVE  ChangesInv' /\ CallsInv'
  <2> DEFINE task == [op |-> "SavePropertiesList", id |-> id, properties |-> list]
  <2>1. task \in Task /\ Does(task) = {<<"store", id, list>>} /\ task.op # "DoRegisterModule"
    BY <1>0, ConstantsAssumption DEF Task, Does
  <2>2. Post(task) /\ Calls /\ Waits /\ UNCHANGED idCounter
    BY <1>4 DEF ThreadUpdates, UpdateProperties, Waits
  <2>3. Brings(task)
    BY <1>0, <2>1, <2>2, ChangesOf DEF Brings
  <2>4. /\ \A u \in Thread \ {t} : app'[u] = app[u]
        /\ app'[t] = [at |-> "updating", id |-> id, properties |-> list]
    BY <1>0, <1>4 DEF ThreadUpdates, UpdateProperties
  <2>5. WillPost(app'[t]) \subseteq Change
    <3>1. WillPost(app'[t]) = {<<"show", id, list>>}
      BY <2>4 DEF WillPost
    <3>2. <<"show", id, list>> \in Change
      BY <1>0, ChangesOf
    <3> QED BY <3>1, <3>2
  <2> HIDE DEF task
  <2> QED BY <2>1, <2>2, <2>3, <2>4, <2>5, TaskBrought
<1>5. ASSUME ThreadUpdated(t)
      PROVE  ChangesInv' /\ CallsInv'
  <2> DEFINE task == [op |-> "HandleMessage", msg |-> CreatePropertyUpdated(app[t].id, app[t].properties)]
  <2>1. app[t].at = "updating" /\ app[t].id \in Int /\ app[t].properties \in PropertyList
    BY <1>0, <1>5 DEF ThreadUpdated, UpdatePropertiesReturns, Call, Idle
  <2>2. task \in Task /\ Does(task) = {<<"show", app[t].id, app[t].properties>>} /\ task.op # "DoRegisterModule"
    BY <2>1 DEF Task, Does, CreatePropertyUpdated, UpdateMsg
  <2>3. WillPost(app[t]) = {<<"show", app[t].id, app[t].properties>>}
    BY <2>1 DEF WillPost
  <2>4. Post(task) /\ UNCHANGED calls /\ Waits /\ UNCHANGED idCounter
    BY <1>5 DEF ThreadUpdated, UpdatePropertiesReturns, Waits, Returns
  <2>5. Brings(task)
    BY <2>2, <2>3, <2>4 DEF Brings, ChangesInv
  <2>6. /\ \A u \in Thread \ {t} : app'[u] = app[u]
        /\ WillPost(app'[t]) \subseteq Change
    BY <1>0, <1>5 DEF ThreadUpdated, UpdatePropertiesReturns, WillPost, Idle
  <2> HIDE DEF task
  <2> QED BY <2>2, <2>4, <2>5, <2>6, TaskBrought
<1> QED BY <1>1, <1>2, <1>3, <1>4, <1>5

LEMMA RegistryInvStep ==
  ASSUME AppInv, ChangesInv, CallsInv, [AppNext]_allVars
  PROVE  ChangesInv' /\ CallsInv'
<1> USE DEF Outside, instance, started
<1>1. CASE Runs
  BY <1>1, RunsChanges DEF AppInv
<1>2. ASSUME \/ \E id \in CallbackIds, list \in UpdateList : AppUpdates(id, list)
             \/ \E id \in CallbackIds : AppUnregisters(id)
             \/ AppReturns
      PROVE  ChangesInv' /\ CallsInv'
  <2>1. UNCHANGED <<loop, idCounter, app>> /\ (UNCHANGED calls \/ Calls) /\ Waits
    BY <1>2 DEF AppUpdates, CallbackUpdates, AppUnregisters, CallbackUnregisters, AppReturns,
       CallbackReturns, InCallback, callers, Returns, Waits
  <2> QED BY <2>1, NothingBrought
<1>3. ASSUME NEW module \in Definition, AppRegisters(module)
      PROVE  ChangesInv' /\ CallsInv'
  <2> DEFINE task == [op |-> "DoRegisterModule", module |-> module, to |-> {}]
  <2>1. task \in Task /\ Does(task) = {}
    BY ConstantsAssumption DEF Task, Does
  <2>2. Post(task) /\ Calls /\ UNCHANGED idCounter /\ UNCHANGED app
    BY <1>3 DEF AppRegisters, CallbackRegisters, InCallback, callers
  <2>3. running'.at = "registering"
    BY <1>3 DEF AppRegisters, CallbackRegisters, InCallback, AppInv, TypeOK, Running, Idle, Crashed
  <2>4. Brings(task) /\ Waits
    BY <2>1, <2>2, <2>3 DEF Brings, Waits
  <2> HIDE DEF task
  <2> QED BY <2>1, <2>2, <2>4, TaskBrought
<1>4. ASSUME NEW id \in ModuleId, NEW list \in UpdateList,
             HostApplies(id, list) \/ \E r \in Requester : PageApplies(r, id, list)
      PROVE  ChangesInv' /\ CallsInv'
  <2>1. PICK json : json = CreatePropertiesUpdated(id, list)
    OBVIOUS
  <2>2. json \in ApplyMsg /\ json \in Request /\ json.type = "apply" /\ json.id = id /\ json.properties = list
        /\ json # Malformed
    BY <2>1, ConstantsAssumption DEF CreatePropertiesUpdated, ApplyMsg, Request, Malformed
  <2>3. UNCHANGED idCounter /\ UNCHANGED calls /\ Waits /\ UNCHANGED app
    BY <1>4 DEF HostApplies, ProxyReads, PageApplies, ProcessJSRequest, Asks, Waits, callers
  <2>4. \E task \in Task : Brings(task)
    <3>1. CASE HostApplies(id, list)
      <4> DEFINE task == [op |-> "PassPropertyUpdateToModule", json |-> json]
      <4>1. task \in Task /\ Does(task) = {<<"store", id, list>>} /\ task.op # "DoRegisterModule"
        BY <2>2 DEF Task, Does
      <4>2. Post(task)
        BY <2>1, <3>1 DEF HostApplies, ProxyReads
      <4> QED BY <4>1, <4>2, ChangesOf DEF Brings
    <3>2. ASSUME NEW r \in Requester, PageApplies(r, id, list)
          PROVE  \E task \in Task : Brings(task)
      <4> DEFINE task == [op |-> "DoProcessJSRequest", json |-> json, to |-> r]
      <4>1. task \in Task /\ Does(task) = {<<"store", id, list>>} /\ task.op # "DoRegisterModule"
        BY <2>2 DEF Task, Does
      <4>2. Post(task)
        BY <2>1, <2>2, <3>2 DEF PageApplies, ProcessJSRequest
      <4> QED BY <4>1, <4>2, ChangesOf DEF Brings
    <3> QED BY <1>4, <3>1, <3>2
  <2> QED BY <2>3, <2>4, TaskBrought
<1>5. ASSUME NEW r \in Requester, NEW json \in {CreateLoadModules, Malformed, UnknownType}, PageAsks(r, json)
      PROVE  ChangesInv' /\ CallsInv'
  <2>1. UNCHANGED idCounter /\ UNCHANGED calls /\ Waits /\ UNCHANGED app
    BY <1>5 DEF PageAsks, ProcessJSRequest, Asks, Waits
  <2>2. CASE UNCHANGED loop
    BY <2>1, <2>2, NothingBrought
  <2>3. CASE ~UNCHANGED loop
    <3> DEFINE task == [op |-> "DoProcessJSRequest", json |-> json, to |-> r]
    <3>1. json \in Request /\ json.type # "apply"
      BY DEF Request, CreateLoadModules, LoadMsg, Malformed, UnknownType
    <3>2. task \in Task /\ Does(task) = {} /\ task.op # "DoRegisterModule"
      BY <3>1 DEF Task, Does
    <3>3. Post(task)
      BY <1>5, <2>3 DEF PageAsks, ProcessJSRequest
    <3>4. Brings(task)
      BY <3>2, <3>3 DEF Brings
    <3> QED BY <2>1, <3>2, <3>4, TaskBrought
  <2> QED BY <2>2, <2>3
<1>6. ASSUME NEW r \in Requester, PageAnswered(r)
      PROVE  ChangesInv' /\ CallsInv'
  BY <1>6, NothingBrought DEF PageAnswered, RequestReturns, Returns, Waits
<1>7. ASSUME NEW host \in Hosts, Starts(host)
      PROVE  ChangesInv' /\ CallsInv'
  <2> DEFINE task == [op |-> "OnProxyInitialized", host |-> host]
  <2>1. task \in Task /\ Does(task) = {} /\ task.op # "DoRegisterModule"
    BY ApplicationAssumption DEF Task, Does
  <2>2. Post(task) /\ UNCHANGED <<idCounter, calls, app>> /\ Waits
    BY <1>7 DEF Starts, ProxyInitialized, Returns, Waits, callers
  <2>3. Brings(task)
    BY <2>1, <2>2 DEF Brings
  <2> HIDE DEF task
  <2> QED BY <2>1, <2>2, <2>3, TaskBrought
<1>8. CASE UNCHANGED allVars
  BY <1>8, NothingBrought DEF allVars, appVars, vars, Waits
<1> QED BY <1>1, <1>2, <1>3, <1>4, <1>5, <1>6, <1>7, <1>8, ThreadChanges DEF AppNext

\* The operators Registry has from the library are the ones Application has.
LEMMA BagSame ==
  ASSUME NEW A, NEW B
  PROVE  /\ Promised!(+)(A, B) = A (+) B
         /\ Promised!(-)(A, B) = A (-) B
         /\ Promised!SetToBag(A) = SetToBag(A)
         /\ Promised!BagIn(A, B) = BagIn(A, B)
<1>1. Promised!SetToBag(A) = SetToBag(A)
  BY DEF SetToBag, Promised!SetToBag
<1>2. Promised!(+)(A, B) = A (+) B
  BY DEF (+), Promised!(+)
<1>3. Promised!(-)(A, B) = A (-) B
  BY DEF (-), Promised!(-)
<1>4. Promised!BagIn(A, B) = BagIn(A, B)
  BY DEF BagIn, Promised!BagIn, BagToSet, Promised!BagToSet
<1> QED BY <1>1, <1>2, <1>3, <1>4
LEMMA RestrictSame ==
  ASSUME NEW f, NEW S
  PROVE  Promised!Restrict(f, S) = Restrict(f, S)
BY DEF Restrict, Promised!Restrict

\* What the tasks do that ask for no module, and those that carry a request.
LEMMA NothingToDo ==
  ASSUME NEW task, task.op \in {"DoRegisterModule", "OnProxyInitialized"}
  PROVE  Does(task) = {}
BY DEF Does

LEMMA RequestToDo ==
  ASSUME NEW task, task.op \in {"DoProcessJSRequest", "PassPropertyUpdateToModule"}
  PROVE  Does(task) = IF task.json.type = "apply"
                      THEN {<<"store", task.json.id, task.json.properties>>} ELSE {}
BY DEF Does

-----------------------------------------------------------------------------
(* Each step is one of Registry, or none of its business.                  *)

RefInv == AppInv /\ PageInv /\ ChangesInv

\* What no step of Registry sees.
Same == UNCHANGED Promised!registryVars

\* The variables of Registry, one by one.
LEMMA SameIs ==
  Same <=> /\ modules' = modules /\ PageAfterQueue' = PageAfterQueue
           /\ (0..(idCounter - 1))' = 0..(idCounter - 1)
           /\ Wanted' = Wanted /\ idPromise' = idPromise
           /\ Left' = Left /\ Listing' = Listing /\ Lists' = Lists
BY DEF Same, Promised!registryVars, Promised!copies, Promised!callers, Promised!readers

\* An answer that is no list.
LEMMA ListsKept ==
  ASSUME TypeOK, NEW to, \A r \in to : r \in Requester => answer[r] = {}, Answer(to, Empty)
  PROVE  Lists' = Lists
<1>1. \A r \in Requester : answer'[r] = IF r \in to THEN {Empty} ELSE answer[r]
  BY DEF Answer
<1>2. Empty.type # "module_list"
  BY DEF Empty
<1>3. \A r \in Requester : {a \in answer'[r] : a.type = "module_list"} = {a \in answer[r] : a.type = "module_list"}
  BY <1>1, <1>2
<1> QED BY <1>3 DEF Lists

\* A post of a task nobody waits for with a module or for a list.
LEMMA PostedView ==
  ASSUME RefInv, TypeOK', FewIn(app'), NEW task \in Task, Post(task),
         \A t \in Thread : WillPost(app'[t]) = WillPost(app[t])
  PROVE  /\ Unwaited(task) => Wanted' = Wanted /\ Listing' = Listing
         /\ Left' = Left (+) SetToBag(Does(task))
         /\ Does(task) = {} => Left' = Left
<1>1. TypeOK /\ loop \in Seq(Task) /\ loop' \in Seq(Task) /\ FewIn(app)
  BY DEF RefInv, AppInv, TypeOK, ChangesInv
<1>2. Tasks' = Tasks \cup {task}
  BY <1>1, TasksOf
<1>3. Unwaited(task) => Wanted' = Wanted /\ Listing' = Listing
  BY <1>1, <1>2, WaitingPost
<1>4. /\ Left' = Left (+) SetToBag(Does(task))
      /\ Does(task) = {} => Left' = Left
  BY <1>1, LeftPost
<1> QED BY <1>3, <1>4

\* A step that posts and takes nothing.
LEMMA UnpostedView ==
  ASSUME RefInv, TypeOK', FewIn(app'), UNCHANGED loop,
         \A t \in Thread : WillPost(app'[t]) = WillPost(app[t])
  PROVE  Wanted' = Wanted /\ Listing' = Listing /\ Left' = Left
<1>1. Wanted' = Wanted /\ Listing' = Listing
  BY DEF Wanted, Listing, RegistrationsOf, RequestsOf
<1>2. TypeOK /\ FewIn(app)
  BY DEF RefInv, AppInv, ChangesInv
<1> QED BY <1>1, <1>2, LeftStays

\* The calls of the threads.
LEMMA ThreadRefines ==
  ASSUME RefInv, CallsInv, TypeOK', FewIn(app'), NEW t \in Thread
  PROVE  /\ \A module \in Definition : ThreadRegisters(t, module) => Promised!Registers(t, module)
         /\ ThreadRegistered(t) => Promised!Returns(t)
         /\ \A id \in Handles : ThreadUnregisters(t, id) => Promised!AsksToLeave(id)
         /\ \A id \in Handles, list \in UpdateList : ThreadUpdates(t, id, list) => Promised!Asks(id, list)
         /\ ThreadUpdated(t) => Same
<1>0. /\ TypeOK /\ app \in [Thread -> Call] /\ Handles \subseteq ModuleId /\ FewIn(app)
      /\ idPromise \in [Thread -> SUBSET Nat] /\ loop \in Seq(Task) /\ loop' \in Seq(Task)
  BY IdsEnough DEF RefInv, AppInv, TypeOK, CallersTypeOK, ChangesInv
<1> USE DEF Outside, instance, started, Keeps, history
<1>1. ASSUME NEW module \in Definition, ThreadRegisters(t, module)
      PROVE  Promised!Registers(t, module)
  <2> DEFINE task == [op |-> "DoRegisterModule", module |-> module, to |-> {t}]
  <2>1. /\ task \in Task /\ task \in RegisterTasks(t)
        /\ task.to = {t} /\ task.module = module
    BY ConstantsAssumption DEF Task, RegisterTasks
  <2>2. Post(task) /\ UNCHANGED <<modules, page, msgQueue, idCounter, idPromise, answer>>
        /\ app[t] = Idle
    BY <1>1 DEF ThreadRegisters, RegisterModule, promises
  <2>3. \A u \in Thread : WillPost(app'[u]) = WillPost(app[u])
    <3>1. app' = [app EXCEPT ![t] = [at |-> "registering"]] /\ app[t].at = "idle"
      BY <1>1 DEF ThreadRegisters, RegisterModule, Idle
    <3> QED BY <1>0, <3>1 DEF WillPost
  <2>4. Wanted[t] = {} /\ idPromise[t] = {}
    BY <2>2 DEF RefInv, AppInv, RegistrationsAccounted, Idle, Wanted
  <2>5. Does(task) = {}
    BY NothingToDo
  <2> HIDE DEF task
  <2>6. Left' = Left
    BY <2>1, <2>2, <2>3, <2>5, PostedView
  <2>7. Wanted' = [Wanted EXCEPT ![t] = {module}] /\ Listing' = Listing
    <3>1. Tasks' = Tasks \cup {task}
      BY <1>0, <2>1, <2>2, TasksOf
    <3> QED BY <1>0, <2>1, <2>4, <3>1, WaitingPost
  <2>8. PageAfterQueue' = PageAfterQueue /\ Lists' = Lists
    BY <2>2 DEF PageAfterQueue, Lists
  <2> QED BY <2>2, <2>4, <2>6, <2>7, <2>8
          DEF Promised!Registers, Promised!copies, Promised!readers
<1>2. ASSUME ThreadRegistered(t)
      PROVE  Promised!Returns(t)
  <2>1. /\ UNCHANGED <<loop, modules, page, msgQueue, idCounter, answer>>
        /\ app[t].at = "registering" /\ idPromise[t] # {}
        /\ idPromise' = [idPromise EXCEPT ![t] = {}]
    BY <1>2 DEF ThreadRegistered, RegisterReturns
  <2>2. \A u \in Thread : WillPost(app'[u]) = WillPost(app[u])
    BY <1>0, <1>2, <2>1 DEF ThreadRegistered, RegisterReturns, WillPost, Idle
  <2>3. Wanted' = Wanted /\ Listing' = Listing /\ Left' = Left
    BY <2>1, <2>2, UnpostedView
  <2>4. PageAfterQueue' = PageAfterQueue /\ Lists' = Lists
    BY <2>1 DEF PageAfterQueue, Lists
  <2> QED BY <2>1, <2>3, <2>4 DEF Promised!Returns, Promised!copies, Promised!readers
<1>3. ASSUME NEW id \in Handles, ThreadUnregisters(t, id)
      PROVE  Promised!AsksToLeave(id)
  <2> DEFINE task == [op |-> "UnregisterModule", id |-> id]
  <2>1. task \in Task /\ Does(task) = {<<"remove", id>>} /\ Unwaited(task)
    BY <1>0, ConstantsAssumption DEF Task, Does, Unwaited, RegisterTasks, LoadTasks, RequestTasks
  <2>2. Post(task) /\ UNCHANGED <<app, modules, page, msgQueue, idCounter, idPromise, answer>>
    BY <1>3 DEF ThreadUnregisters, CallUnregisterModule, callers, promises
  <2> HIDE DEF task
  <2>3. Wanted' = Wanted /\ Listing' = Listing /\ Left' = Left (+) SetToBag({<<"remove", id>>})
    BY <2>1, <2>2, PostedView
  <2>4. PageAfterQueue' = PageAfterQueue /\ Lists' = Lists
    BY <2>2 DEF PageAfterQueue, Lists
  <2> QED BY <2>2, <2>3, <2>4, BagSame DEF Promised!AsksToLeave, Promised!Asked, Promised!copies,
             Promised!callers, Promised!readers
<1>4. ASSUME NEW id \in Handles, NEW list \in UpdateList, ThreadUpdates(t, id, list)
      PROVE  Promised!Asks(id, list)
  <2> DEFINE task == [op |-> "SavePropertiesList", id |-> id, properties |-> list]
  <2>1. task \in Task /\ Unwaited(task) /\ id \in Int /\ list \in PropertyList
    BY <1>0, ConstantsAssumption DEF Task, Unwaited, RegisterTasks, LoadTasks, RequestTasks
  <2>2. Post(task) /\ UNCHANGED <<modules, page, msgQueue, idCounter, idPromise, answer>>
        /\ UpdateProperties(t, id, list)
    BY <1>4 DEF ThreadUpdates, UpdateProperties, promises
  <2> HIDE DEF task
  <2>3. Wanted' = Wanted /\ Listing' = Listing
    <3>1. Tasks' = Tasks \cup {task}
      BY <1>0, <2>1, <2>2, TasksOf
    <3> QED BY <1>0, <2>1, <3>1, WaitingPost
  <2>4. Left' = Left (+) SetToBag({<<"store", id, list>>, <<"show", id, list>>})
    BY <1>0, <2>1, <2>2, LeftUpdate
  <2>5. PageAfterQueue' = PageAfterQueue /\ Lists' = Lists
    BY <2>2 DEF PageAfterQueue, Lists
  <2> QED BY <2>2, <2>3, <2>4, <2>5, BagSame DEF Promised!Asks, Promised!Asked, Promised!copies,
             Promised!callers, Promised!readers
<1>5. ASSUME ThreadUpdated(t)
      PROVE  Same
  <2> DEFINE task == [op |-> "HandleMessage", msg |-> CreatePropertyUpdated(app[t].id, app[t].properties)]
  <2>1. app[t].id \in Int /\ app[t].properties \in PropertyList
    BY <1>0, <1>5 DEF ThreadUpdated, UpdatePropertiesReturns, Call, Idle
  <2>2. task \in Task /\ Unwaited(task)
    BY <2>1 DEF Task, CreatePropertyUpdated, UpdateMsg, Unwaited, RegisterTasks, LoadTasks, RequestTasks
  <2>3. Post(task) /\ UNCHANGED <<modules, page, msgQueue, idCounter, idPromise, answer>>
        /\ UpdatePropertiesReturns(t)
    BY <1>5 DEF ThreadUpdated, UpdatePropertiesReturns, promises
  <2> HIDE DEF task
  <2>4. Wanted' = Wanted /\ Listing' = Listing
    <3>1. Tasks' = Tasks \cup {task}
      BY <1>0, <2>2, <2>3, TasksOf
    <3> QED BY <1>0, <2>2, <3>1, WaitingPost
  <2>5. Left' = Left
    BY <1>0, <2>3, LeftUpdated
  <2>6. PageAfterQueue' = PageAfterQueue /\ Lists' = Lists
    BY <2>3 DEF PageAfterQueue, Lists
  <2> QED BY <2>3, <2>4, <2>5, <2>6, SameIs
<1> QED BY <1>1, <1>2, <1>3, <1>4, <1>5

\* The calls of the callbacks.
LEMMA CallbackRefines ==
  ASSUME RefInv, CallsInv, TypeOK', FewIn(app')
  PROVE  /\ running.at = "callback" => \A id \in CallbackIds :
              /\ \A list \in UpdateList : AppUpdates(id, list) => Promised!Changes(id, list)
              /\ AppUnregisters(id) => Promised!IsRemoved(id)
         /\ \A module \in Definition : AppRegisters(module) => Same
         /\ AppReturns => Same
<1>0. /\ TypeOK /\ PageInv /\ AppInv /\ ModuleId \subseteq Int /\ UpdateList \subseteq PropertyList
      /\ running.at = "callback" => CallbackIds \subseteq ModuleId
  BY IdsEnough, ConstantsAssumption DEF RefInv, AppInv
<1> USE DEF InCallback, started, callers, Keeps, history
<1>1. ASSUME running.at = "callback", NEW id \in CallbackIds, NEW list \in UpdateList,
             AppUpdates(id, list)
      PROVE  Promised!Changes(id, list)
  <2>1. UNCHANGED <<loop, app, idCounter, idPromise, answer>> /\ SavePropertiesList(id, list)
    BY <1>1 DEF AppUpdates, CallbackUpdates
  <2>2. PageAfterQueue' = SetModulePoperties(PageAfterQueue, id, list)
    BY <1>0, <1>1, CallShown
  <2>3. Wanted' = Wanted /\ Listing' = Listing /\ Left' = Left
    BY <2>1, UnpostedView
  <2>4. Promised!Stored(id, list)
    BY <2>1 DEF Promised!Stored, SavePropertiesList
  <2>5. Lists' = Lists
    BY <2>1 DEF Lists
  <2> QED BY <2>1, <2>2, <2>3, <2>4, <2>5
          DEF Promised!Changes, Promised!Shown, Promised!callers, Promised!readers
<1>2. ASSUME running.at = "callback", NEW id \in CallbackIds, AppUnregisters(id)
      PROVE  Promised!IsRemoved(id)
  <2>1. UNCHANGED <<loop, app, idCounter, idPromise, answer>> /\ Erase(id)
    BY <1>2 DEF AppUnregisters, CallbackUnregisters
  <2>2. PageAfterQueue' = Restrict(PageAfterQueue, DOMAIN PageAfterQueue \ {id})
    <3>1. PageAfterQueue' = DeleteModule(PageAfterQueue, id)
      <4>1. id \in Int
        BY <1>0, <1>2
      <4>2. <<>> \in PropertyList
        BY DEF PropertyList
      <4> QED BY <1>0, <1>2, <4>1, <4>2, CallShown
    <3> QED BY <3>1 DEF DeleteModule
  <2>3. Wanted' = Wanted /\ Listing' = Listing /\ Left' = Left
    BY <2>1, UnpostedView
  <2>4. Promised!Removed(id)
    BY <2>1, <2>2, RestrictSame DEF Promised!Removed, Erase
  <2>5. Lists' = Lists
    BY <2>1 DEF Lists
  <2> QED BY <2>1, <2>3, <2>4, <2>5 DEF Promised!IsRemoved, Promised!callers, Promised!readers
<1>3. ASSUME NEW module \in Definition, AppRegisters(module)
      PROVE  Same
  <2> DEFINE task == [op |-> "DoRegisterModule", module |-> module, to |-> {}]
  <2>1. task \in Task /\ Unwaited(task)
    BY ConstantsAssumption DEF Task, Unwaited, RegisterTasks, LoadTasks, RequestTasks
  <2>2. Does(task) = {}
    BY NothingToDo
  <2>3. Post(task) /\ UNCHANGED <<app, modules, page, msgQueue, idCounter, idPromise, answer>>
    BY <1>3 DEF AppRegisters, CallbackRegisters
  <2> HIDE DEF task
  <2>4. Wanted' = Wanted /\ Listing' = Listing /\ Left' = Left
    BY <2>1, <2>2, <2>3, PostedView
  <2>5. PageAfterQueue' = PageAfterQueue /\ Lists' = Lists
    BY <2>3 DEF PageAfterQueue, Lists
  <2> QED BY <2>3, <2>4, <2>5, SameIs
<1>4. ASSUME AppReturns
      PROVE  Same
  <2>1. UNCHANGED <<loop, app, modules, page, msgQueue, idCounter, idPromise>>
        /\ Answer(running.to, Empty) /\ running.at = "callback"
    BY <1>4 DEF AppReturns, CallbackReturns
  <2>2. \A r \in running.to : r \in Requester => answer[r] = {}
    BY <1>0, <2>1 DEF AppInv, RequestsAccounted, Answering, Crashed
  <2>3. Lists' = Lists
    BY <1>0, <2>1, <2>2, ListsKept
  <2>4. Wanted' = Wanted /\ Listing' = Listing /\ Left' = Left
    BY <2>1, UnpostedView
  <2>5. PageAfterQueue' = PageAfterQueue
    BY <2>1 DEF PageAfterQueue
  <2> QED BY <2>1, <2>3, <2>4, <2>5, SameIs
<1> QED BY <1>1, <1>2, <1>3, <1>4

\* What the page or the host instance sends is posted to be stored.
LEMMA AppliesPosts ==
  ASSUME RefInv, NEW id \in DOMAIN page \cap ModuleId, NEW list \in UpdateList,
         HostApplies(id, list) \/ \E r \in Requester : PageApplies(r, id, list)
  PROVE  /\ UNCHANGED <<app, modules, idCounter, idPromise, answer>> /\ Writes(id, "page")
         /\ PageAfterQueue' = SetModulePoperties(PageAfterQueue, id, list)
         /\ \E task \in Task : Post(task) /\ Does(task) = {<<"store", id, list>>} /\ Unwaited(task)
<1>0. TypeOK /\ PageInv /\ id \in Int /\ list \in PropertyList
  BY ConstantsAssumption DEF RefInv, AppInv
<1> USE DEF Outside, instance, started, callers, promises, Keeps, history
<1>1. PICK json : json = CreatePropertiesUpdated(id, list)
  OBVIOUS
<1>2. json \in ApplyMsg /\ json \in Request /\ json.type = "apply" /\ json.id = id /\ json.properties = list
      /\ json # Malformed /\ json # CreateLoadModules
  BY <1>0, <1>1 DEF CreatePropertiesUpdated, ApplyMsg, Request, Malformed, CreateLoadModules
<1>3. /\ UNCHANGED <<app, modules, idCounter, idPromise, answer>> /\ Writes(id, "page")
      /\ Outside /\ page' = SetModulePoperties(page, id, list)
  BY <1>1, <1>2 DEF HostApplies, ProxyReads, PageApplies, ProcessJSRequest
<1>4. ASSUME HostApplies(id, list)
      PROVE  \E task \in Task : Post(task) /\ Does(task) = {<<"store", id, list>>} /\ Unwaited(task)
  <2> DEFINE task == [op |-> "PassPropertyUpdateToModule", json |-> json]
  <2>1. task \in Task /\ Unwaited(task)
    BY <1>2 DEF Task, Unwaited, RegisterTasks, LoadTasks, RequestTasks
  <2>2. Does(task) = {<<"store", id, list>>}
    BY <1>2, RequestToDo
  <2>3. Post(task)
    BY <1>1, <1>4 DEF HostApplies, ProxyReads
  <2> QED BY <2>1, <2>2, <2>3
<1>5. ASSUME NEW r \in Requester, PageApplies(r, id, list)
      PROVE  \E task \in Task : Post(task) /\ Does(task) = {<<"store", id, list>>} /\ Unwaited(task)
  <2> DEFINE task == [op |-> "DoProcessJSRequest", json |-> json, to |-> r]
  <2>1. task \in Task /\ Unwaited(task)
    BY <1>2 DEF Task, Unwaited, RegisterTasks, LoadTasks, RequestTasks
  <2>2. Does(task) = {<<"store", id, list>>}
    BY <1>2, RequestToDo
  <2>3. Post(task)
    BY <1>1, <1>2, <1>5 DEF PageApplies, ProcessJSRequest
  <2> QED BY <2>1, <2>2, <2>3
<1>6. PageAfterQueue' = SetModulePoperties(PageAfterQueue, id, list)
  BY <1>0, <1>3, CallShown
<1> QED BY <1>3, <1>4, <1>5, <1>6

\* The page and the instances around.
LEMMA PageRefines ==
  ASSUME RefInv, CallsInv, TypeOK', FewIn(app')
  PROVE  /\ \A id \in DOMAIN page \cap ModuleId, list \in UpdateList :
              /\ \A r \in Requester : PageApplies(r, id, list) => Promised!Types(id, list)
              /\ HostApplies(id, list) => Promised!Types(id, list)
         /\ \A r \in Requester, json \in {CreateLoadModules, Malformed, UnknownType} :
              PageAsks(r, json) => Promised!AsksForList(r) \/ Same
         /\ \A r \in Requester : PageAnswered(r) => Promised!Reads(r)
         /\ \A host \in Hosts : Starts(host) => Same
<1>0. /\ TypeOK /\ PageInv /\ AppInv /\ ModuleId \subseteq Int /\ UpdateList \subseteq PropertyList
      /\ loop \in Seq(Task) /\ loop' \in Seq(Task)
  BY ConstantsAssumption DEF RefInv, AppInv, TypeOK
<1> USE DEF Outside, instance, started, callers, promises, Keeps, history
<1>1. ASSUME NEW id \in DOMAIN page \cap ModuleId, NEW list \in UpdateList,
             HostApplies(id, list) \/ \E r \in Requester : PageApplies(r, id, list)
      PROVE  Promised!Types(id, list)
  <2>1. /\ UNCHANGED <<app, modules, idCounter, idPromise, answer>>
        /\ PageAfterQueue' = SetModulePoperties(PageAfterQueue, id, list)
    BY <1>1, AppliesPosts
  <2>2. PICK task \in Task : Post(task) /\ Does(task) = {<<"store", id, list>>} /\ Unwaited(task)
    BY <1>1, AppliesPosts
  <2>3. Wanted' = Wanted /\ Listing' = Listing /\ Left' = Left (+) SetToBag({<<"store", id, list>>})
    <3>1. \A t \in Thread : WillPost(app'[t]) = WillPost(app[t])
      BY <2>1
    <3>2. Wanted' = Wanted /\ Listing' = Listing /\ Left' = Left (+) SetToBag(Does(task))
      BY <2>2, <3>1, PostedView
    <3> QED BY <2>2, <3>2
  <2>4. Lists' = Lists
    BY <2>1 DEF Lists
  <2> QED BY <2>1, <2>3, <2>4, BagSame
          DEF Promised!Types, Promised!Shown, Promised!Asked, Promised!callers, Promised!readers
<1>2. ASSUME NEW r \in Requester, NEW json \in {CreateLoadModules, Malformed, UnknownType},
             PageAsks(r, json)
      PROVE  Promised!AsksForList(r) \/ Same
  <2>1. UNCHANGED <<app, modules, page, msgQueue, idCounter, idPromise>> /\ PageAfterQueue' = PageAfterQueue
    BY <1>2 DEF PageAsks, ProcessJSRequest, PageAfterQueue
  <2>2. CASE UNCHANGED loop /\ Answer({r}, Empty)
    <3>1. Wanted' = Wanted /\ Listing' = Listing /\ Left' = Left
      BY <2>1, <2>2, UnpostedView
    <3>2. answer[r] = {}
      BY <1>0, <1>2 DEF PageAsks, ProcessJSRequest, AppInv, RequestsAccounted
    <3>3. Lists' = Lists
      BY <1>0, <2>2, <3>2, ListsKept
    <3> QED BY <2>1, <3>1, <3>3, SameIs
  <2>3. CASE ~(UNCHANGED loop /\ Answer({r}, Empty))
    <3> DEFINE task == [op |-> "DoProcessJSRequest", json |-> json, to |-> r]
    <3>1. json \in Request /\ json.type # "apply"
      BY DEF Request, CreateLoadModules, LoadMsg, Malformed, UnknownType
    <3>2. /\ task \in Task /\ \A t \in Thread : task \notin RegisterTasks(t)
          /\ \A q : task \in LoadTasks(q) => q = r /\ json = CreateLoadModules
          /\ json = CreateLoadModules => task \in LoadTasks(r)
      BY <3>1 DEF Task, RegisterTasks, LoadTasks, RequestTasks
    <3>3. Does(task) = {}
      BY <3>1, RequestToDo
    <3>4. Post(task) /\ UNCHANGED answer
      BY <1>2, <2>3 DEF PageAsks, ProcessJSRequest
    <3> HIDE DEF task
    <3>5. Lists' = Lists
      BY <3>4 DEF Lists
    <3>6. Left' = Left /\ Tasks' = Tasks \cup {task}
      <4>1. Left' = Left
        BY <2>1, <3>2, <3>3, <3>4, PostedView
      <4> QED BY <1>0, <3>2, <3>4, <4>1, TasksOf
    <3>7. CASE json = CreateLoadModules
      <4>1. Listing' = Listing \cup {r} /\ Wanted' = Wanted
        BY <1>0, <3>2, <3>6, <3>7, WaitingPost
      <4> QED BY <2>1, <3>5, <3>6, <4>1
              DEF Promised!AsksForList, Promised!copies, Promised!callers
    <3>8. CASE json # CreateLoadModules
      <4>1. Unwaited(task)
        BY <3>2, <3>8 DEF Unwaited
      <4>2. Listing' = Listing /\ Wanted' = Wanted
        BY <1>0, <3>6, <4>1, WaitingPost
      <4> QED BY <2>1, <3>5, <3>6, <4>2, SameIs
    <3> QED BY <3>7, <3>8
  <2> QED BY <2>2, <2>3
<1>3. ASSUME NEW r \in Requester, PageAnswered(r)
      PROVE  Promised!Reads(r)
  <2>1. /\ UNCHANGED <<loop, app, modules, page, msgQueue, idCounter, idPromise>>
        /\ answer' = [answer EXCEPT ![r] = {}]
    BY <1>3 DEF PageAnswered, RequestReturns
  <2>2. Wanted' = Wanted /\ Listing' = Listing /\ Left' = Left
    BY <2>1, UnpostedView
  <2>3. PageAfterQueue' = PageAfterQueue
    BY <2>1 DEF PageAfterQueue
  <2>4. Lists' = [Lists EXCEPT ![r] = {}]
    <3>1. answer \in [Requester -> SUBSET Response]
      BY <1>0 DEF TypeOK, CallersTypeOK
    <3>2. \A q \in Requester : {a \in answer'[q] : a.type = "module_list"}
                                 = IF q = r THEN {} ELSE {a \in answer[q] : a.type = "module_list"}
      BY <2>1, <3>1
    <3> QED BY <3>2 DEF Lists
  <2> QED BY <2>1, <2>2, <2>3, <2>4 DEF Promised!Reads, Promised!copies, Promised!callers
<1>4. ASSUME NEW host \in Hosts, Starts(host)
      PROVE  Same
  <2> DEFINE task == [op |-> "OnProxyInitialized", host |-> host]
  <2>1. task \in Task /\ Unwaited(task)
    BY ApplicationAssumption DEF Task, Unwaited, RegisterTasks, LoadTasks, RequestTasks
  <2>2. Does(task) = {}
    BY NothingToDo
  <2>3. Post(task) /\ UNCHANGED <<app, modules, page, msgQueue, idCounter, idPromise, answer>>
    BY <1>4 DEF Starts, ProxyInitialized
  <2> HIDE DEF task
  <2>4. Wanted' = Wanted /\ Listing' = Listing /\ Left' = Left
    BY <2>1, <2>2, <2>3, PostedView
  <2>5. PageAfterQueue' = PageAfterQueue /\ Lists' = Lists
    BY <2>3 DEF PageAfterQueue, Lists
  <2> QED BY <2>3, <2>4, <2>5, SameIs
<1> QED BY <1>1, <1>2, <1>3, <1>4

\* An empty list changes nothing.
LEMMA SavedNothing ==
  ASSUME NEW properties \in Seq(Property)
  PROVE  SavedProperties(properties, <<>>) = properties
<1>1. \A id : LastTo(<<>>, id) = {}
  BY DEF LastTo
<1> QED BY <1>1 DEF SavedProperties

\* What the module thread takes off the queue.
LEMMA TaskView ==
  ASSUME RefInv, CallsInv, Runs
  PROVE  /\ running = Idle /\ loop # <<>> /\ Head(loop) \in Task /\ Head(loop) \in Tasks
         /\ Unwaited(Head(loop)) => Wanted' = Wanted /\ Listing' = Listing
         /\ \A t \in Thread : Head(loop) \in RegisterTasks(t) /\ Head(loop).to = {t} =>
              /\ Wanted[t] = {Head(loop).module}
              /\ Wanted' = [Wanted EXCEPT ![t] = {}] /\ Listing' = Listing
         /\ \A r \in Requester : Head(loop) \in LoadTasks(r) =>
              /\ r \in Listing /\ Listing' = Listing \ {r} /\ Wanted' = Wanted
         /\ \A x : Does(Head(loop)) = {x} => BagIn(x, Left) /\ Left' = Left (-) SetToBag({x})
         /\ Does(Head(loop)) = {} => Left' = Left
<1>1. /\ TypeOK /\ FewIn(app) /\ running # Crashed
      /\ loop \in Seq(Task) /\ loop # <<>> /\ loop' = Tail(loop) /\ running = Idle
      /\ Head(loop) \in Task /\ Head(loop) \in Tasks
  BY TaskCalls, TasksOf DEF RefInv, AppInv, TypeOK, ChangesInv, Runs, Idle, Crashed
<1>2. PICK op : Takes(op)
  BY DEF Runs, RunTask, OnProxyInitialized, DoRegisterModule, UnregisterModule, SaveUpdate,
     PushUpdate, DoProcessJSRequest, PassPeerUpdate
<1>3. /\ \A x : Does(Head(loop)) = {x} => BagIn(x, Left) /\ Left' = Left (-) SetToBag({x})
      /\ Does(Head(loop)) = {} => Left' = Left
  BY <1>1, <1>2, LeftTake
<1>4. /\ \A t \in Thread : AtMostOne(RegistrationsOf(t))
      /\ \A r \in Requester : AtMostOne(RequestsOf(r))
  BY <1>1 DEF RefInv, AppInv, RegistrationsAccounted, RequestsAccounted, AtMostOne
<1> QED BY <1>1, <1>3, <1>4, WaitingTake

\* DoRegisterModule.
LEMMA RegisterRefines ==
  ASSUME RefInv, CallsInv, Runs, DoRegisterModule
  PROVE  \E t \in Thread : Promised!Enters(t, idCounter)
<1> DEFINE task == Head(loop)
<1>0. /\ TypeOK /\ PageInv /\ IdsInv /\ running = Idle /\ task \in Tasks
      /\ task \in Task /\ task.op = "DoRegisterModule" /\ idCounter \in Nat
  BY TaskView DEF RefInv, AppInv, TypeOK, ModulesTypeOK, DoRegisterModule, Takes
<1>1. task.to # {}
  BY <1>0 DEF RefInv, ChangesInv, Idle
<1>2. task.to \subseteq Thread
  BY <1>0 DEF Task
<1>3. PICK t \in Thread : task.to = {t}
  BY <1>0, <1>1, <1>2 DEF IdsInv, OwnPromise
<1>4. task \in RegisterTasks(t)
  BY <1>0, <1>3 DEF RegisterTasks
<1>5. Wanted[t] = {task.module} /\ Wanted' = [Wanted EXCEPT ![t] = {}] /\ Listing' = Listing
  BY <1>3, <1>4, TaskView
<1>6. Left' = Left
  <2>1. Does(task) = {}
    BY <1>0, NothingToDo
  <2> QED BY <2>1, TaskView
<1>7. idPromise' = [idPromise EXCEPT ![t] = {idCounter}]
  BY <1>0, <1>3 DEF DoRegisterModule, Promise, TypeOK, CallersTypeOK
<1>8. idCounter \notin 0..(idCounter - 1)
      /\ (0..(idCounter - 1))' = (0..(idCounter - 1)) \cup {idCounter}
  BY <1>0 DEF DoRegisterModule
<1>9. idCounter \notin DOMAIN modules
  BY <1>0 DEF TypeOK, ModulesTypeOK
<1>10. modules' = [i \in DOMAIN modules \cup {idCounter} |->
                     IF i = idCounter THEN task.module ELSE modules[i]]
  BY <1>9 DEF DoRegisterModule, Insert
<1>11. PageAfterQueue' = CrateModule(PageAfterQueue,
                           [id |-> idCounter, properties |-> task.module.properties])
  <2>1. /\ task.module \in ModuleType
        /\ PageAfterQueue' = OnMessage(PageAfterQueue, CreateModuleAdded(idCounter, task.module))
    BY <1>0, TaskShown
  <2>2. OnMessage(PageAfterQueue, CreateModuleAdded(idCounter, task.module))
          = CrateModule(PageAfterQueue, CreateModuleAdded(idCounter, task.module))
    BY DEF OnMessage, CreateModuleAdded
  <2>3. CreateModuleAdded(idCounter, task.module).id = idCounter
        /\ CreateModuleAdded(idCounter, task.module).properties = task.module.properties
    BY DEF CreateModuleAdded
  <2> QED BY <2>1, <2>2, <2>3 DEF CrateModule
<1>12. Lists' = Lists
  BY DEF DoRegisterModule, Lists
<1> HIDE DEF task
<1> QED BY <1>3, <1>5, <1>6, <1>7, <1>8, <1>10, <1>11, <1>12
        DEF Promised!Enters, Promised!readers

\* Whether or not the update is passed on, it is stored.
LEMMA PassSaves ==
  ASSUME TypeOK, NEW json, NEW to, PassPropertyUpdateToModule(json, to), json.type = "apply"
  PROVE  SavePropertiesList(json.id, json.properties)
<1>0. modules \in [DOMAIN modules -> ModuleType]
  BY DEF TypeOK, ModulesTypeOK
<1>1. FindId(json) = json.id /\ GetPropertiesList(json) = json.properties
  BY DEF FindId, GetPropertiesList
<1>2. CASE json.id \in DOMAIN modules /\ json.properties # <<>>
  BY <1>1, <1>2 DEF PassPropertyUpdateToModule
<1>3. CASE ~(json.id \in DOMAIN modules /\ json.properties # <<>>)
  <2>1. modules' = modules
    BY <1>1, <1>3 DEF PassPropertyUpdateToModule
  <2>2. ASSUME NEW i \in DOMAIN modules, i = json.id
        PROVE  [modules[i] EXCEPT !.properties = SavedProperties(@, json.properties)] = modules[i]
    <3>1. modules[i] \in ModuleType
      BY <1>0
    <3>2. SavedProperties(modules[i].properties, json.properties) = modules[i].properties
      BY <1>3, <2>2, <3>1, SavedNothing DEF ModuleType
    <3> QED BY <3>1, <3>2 DEF ModuleType
  <2> QED BY <1>0, <2>1, <2>2 DEF SavePropertiesList
<1> QED BY <1>2, <1>3

\* PassPropertyUpdateToModule: stored, passed on or not.
LEMMA PassRefines ==
  ASSUME RefInv, CallsInv, Runs, NEW json, NEW to, PassPropertyUpdateToModule(json, to),
         json.type = "apply", json.properties \in PropertyList,
         \A r \in to : r \in Requester => answer[r] = {},
         UNCHANGED <<started, idPromise>>,
         ~(DoRegisterModule \/ UnregisterModule \/ PushUpdate), Unwaited(Head(loop)),
         Does(Head(loop)) = {<<"store", json.id, json.properties>>}
  PROVE  Promised!Takes(json.id, json.properties)
<1>0. TypeOK /\ PageInv /\ modules \in [DOMAIN modules -> ModuleType]
  BY DEF RefInv, AppInv, TypeOK, ModulesTypeOK
<1>1. /\ Wanted' = Wanted /\ Listing' = Listing
      /\ BagIn(<<"store", json.id, json.properties>>, Left)
      /\ Left' = Left (-) SetToBag({<<"store", json.id, json.properties>>})
  BY TaskView
<1>2. PageAfterQueue' = PageAfterQueue
  BY <1>0, TaskShown
<1>3. Lists' = Lists
  <2>1. CASE UNCHANGED answer
    BY <2>1 DEF Lists
  <2>2. CASE Answer(to, Empty)
    BY <1>0, <2>2, ListsKept
  <2> QED BY <2>1, <2>2 DEF PassPropertyUpdateToModule
<1>4. SavePropertiesList(json.id, json.properties)
  BY <1>0, PassSaves
<1>5. Promised!Stored(json.id, json.properties)
  BY <1>4 DEF SavePropertiesList, Promised!Stored
<1>6. Promised!Made(<<"store", json.id, json.properties>>)
  BY <1>1, BagSame DEF Promised!Made
<1> QED BY <1>1, <1>2, <1>3, <1>5, <1>6 DEF Promised!Takes, Promised!callers, Promised!readers, started

\* UnregisterModule, SavePropertiesList and HandleMessage.
LEMMA UnregisterRefines ==
  ASSUME RefInv, CallsInv, Runs, UnregisterModule
  PROVE  \E id \in ModuleId : Promised!Leaves(id)
<1>1. PICK task, id : task = Head(loop) /\ id = Head(loop).id
  OBVIOUS
<1>2. TypeOK /\ PageInv /\ task \in Tasks /\ task \in Task /\ task.op = "UnregisterModule" /\ task.id = id
  BY <1>1, TaskView DEF RefInv, AppInv, UnregisterModule, Takes
<1>3. Does(task) = {<<"remove", id>>} /\ Unwaited(task)
  BY <1>2 DEF Does, Unwaited, RegisterTasks, LoadTasks, RequestTasks
<1>4. id \in ModuleId
  BY <1>2, <1>3, ChangesOf DEF RefInv, ChangesInv
<1>5. /\ Wanted' = Wanted /\ Listing' = Listing
      /\ BagIn(<<"remove", id>>, Left) /\ Left' = Left (-) SetToBag({<<"remove", id>>})
  BY <1>1, <1>3, TaskView
<1>6. Erase(id) /\ UNCHANGED <<idCounter, idPromise, answer>>
  BY <1>1 DEF UnregisterModule, started, promises
<1>7. PageAfterQueue' = Restrict(PageAfterQueue, DOMAIN PageAfterQueue \ {id})
  <2>1. id \in Int /\ PageAfterQueue' = OnMessage(PageAfterQueue, CreateModuleRemoved(id))
    BY <1>1, <1>2, TaskShown
  <2>2. CreateModuleRemoved(id).type = "module_removed" /\ CreateModuleRemoved(id).id = id
    BY DEF CreateModuleRemoved
  <2>3. \A json : json.type = "module_removed" =>
          OnMessage(PageAfterQueue, json) = DeleteModule(PageAfterQueue, json.id)
    BY DEF OnMessage
  <2> QED BY <2>1, <2>2, <2>3 DEF DeleteModule
<1>8. Promised!Removed(id)
  BY <1>6, <1>7, RestrictSame DEF Promised!Removed, Erase
<1>9. Promised!Made(<<"remove", id>>)
  BY <1>5, BagSame DEF Promised!Made
<1>10. Lists' = Lists
  BY <1>6 DEF Lists
<1>11. Promised!Leaves(id)
  BY <1>5, <1>6, <1>8, <1>9, <1>10 DEF Promised!Leaves, Promised!callers, Promised!readers
<1> QED BY <1>4, <1>11

LEMMA SaveRefines ==
  ASSUME RefInv, CallsInv, Runs, SaveUpdate
  PROVE  \E id \in ModuleId, list \in UpdateList : Promised!Takes(id, list)
<1>1. PICK task, id, list : task = Head(loop) /\ id = Head(loop).id /\ list = Head(loop).properties
  OBVIOUS
<1>2. /\ TypeOK /\ PageInv /\ task \in Tasks /\ task \in Task
      /\ task.op = "SavePropertiesList" /\ task.id = id /\ task.properties = list
  BY <1>1, TaskView DEF RefInv, AppInv, SaveUpdate, Takes
<1>3. Does(task) = {<<"store", id, list>>} /\ Unwaited(task)
  BY <1>2 DEF Does, Unwaited, RegisterTasks, LoadTasks, RequestTasks
<1>4. id \in ModuleId /\ list \in UpdateList
  BY <1>2, <1>3, ChangesOf DEF RefInv, ChangesInv
<1>5. /\ Wanted' = Wanted /\ Listing' = Listing
      /\ BagIn(<<"store", id, list>>, Left) /\ Left' = Left (-) SetToBag({<<"store", id, list>>})
  BY <1>1, <1>3, TaskView
<1>6. SavePropertiesList(id, list) /\ UNCHANGED <<idCounter, idPromise, answer>>
  BY <1>1 DEF SaveUpdate, started, promises
<1>7. PageAfterQueue' = PageAfterQueue
  <2>1. ~(DoRegisterModule \/ UnregisterModule \/ PushUpdate)
    BY <1>1, <1>2 DEF DoRegisterModule, UnregisterModule, PushUpdate, Takes
  <2> QED BY <1>2, <2>1, TaskShown
<1>8. Promised!Stored(id, list)
  BY <1>6 DEF SavePropertiesList, Promised!Stored
<1>9. Promised!Made(<<"store", id, list>>)
  BY <1>5, BagSame DEF Promised!Made
<1>10. Lists' = Lists
  BY <1>6 DEF Lists
<1>11. Promised!Takes(id, list)
  BY <1>5, <1>6, <1>7, <1>8, <1>9, <1>10 DEF Promised!Takes, Promised!callers, Promised!readers
<1> QED BY <1>4, <1>11

LEMMA PushRefines ==
  ASSUME RefInv, CallsInv, Runs, PushUpdate
  PROVE  \E id \in ModuleId, list \in UpdateList : Promised!Takes(id, list)
<1>1. PICK task, msg, id, list : task = Head(loop) /\ msg = Head(loop).msg
                                 /\ id = Head(loop).msg.id /\ list = Head(loop).msg.properties
  OBVIOUS
<1>2. /\ TypeOK /\ PageInv /\ task \in Tasks /\ task \in Task
      /\ task.op = "HandleMessage" /\ task.msg = msg /\ msg.id = id /\ msg.properties = list
  BY <1>1, TaskView DEF RefInv, AppInv, PushUpdate, Takes
<1>3. Does(task) = {<<"show", id, list>>} /\ Unwaited(task)
  BY <1>2 DEF Does, Unwaited, RegisterTasks, LoadTasks, RequestTasks
<1>4. id \in ModuleId /\ list \in UpdateList
  BY <1>2, <1>3, ChangesOf DEF RefInv, ChangesInv
<1>5. /\ Wanted' = Wanted /\ Listing' = Listing
      /\ BagIn(<<"show", id, list>>, Left) /\ Left' = Left (-) SetToBag({<<"show", id, list>>})
  BY <1>1, <1>3, TaskView
<1>6. UNCHANGED <<modules, idCounter, idPromise, answer>>
  BY DEF PushUpdate, started, promises
<1>7. PageAfterQueue' = SetModulePoperties(PageAfterQueue, id, list)
  <2>1. msg \in UpdateMsg /\ PageAfterQueue' = OnMessage(PageAfterQueue, msg)
    BY <1>1, <1>2, TaskShown
  <2>2. msg.type = "property_update"
    BY <2>1 DEF UpdateMsg
  <2>3. OnMessage(PageAfterQueue, msg) = SetModulePoperties(PageAfterQueue, msg.id, msg.properties)
    BY <2>2 DEF OnMessage
  <2> QED BY <1>2, <2>1, <2>3
<1>8. Promised!Shown(id, list)
  BY <1>7 DEF Promised!Shown
<1>9. Promised!Made(<<"show", id, list>>)
  BY <1>5, BagSame DEF Promised!Made
<1>10. Lists' = Lists
  BY <1>6 DEF Lists
<1>11. Promised!Takes(id, list)
  BY <1>5, <1>6, <1>8, <1>9, <1>10 DEF Promised!Takes, Promised!callers, Promised!readers
<1> QED BY <1>4, <1>11

\* A request of the page, or of the host instance.
LEMMA RequestRefines ==
  ASSUME RefInv, CallsInv, Runs, DoProcessJSRequest \/ PassPeerUpdate
  PROVE  \/ \E id \in ModuleId, list \in UpdateList : Promised!Takes(id, list)
         \/ \E r \in Requester : Promised!Lists(r)
         \/ Same
<1>1. PICK task, json : task = Head(loop) /\ json = Head(loop).json
  OBVIOUS
<1>2. /\ TypeOK /\ PageInv /\ task \in Tasks /\ task \in Task /\ running = Idle
      /\ task.op \in {"DoProcessJSRequest", "PassPropertyUpdateToModule"} /\ task.json = json
      /\ DoProcessJSRequest <=> task.op = "DoProcessJSRequest"
  BY <1>1, TaskView DEF RefInv, AppInv, DoProcessJSRequest, PassPeerUpdate, Takes
<1>3. /\ UNCHANGED <<msgQueue, idCounter, initialized, serverImpl, idPromise>>
      /\ ~(DoRegisterModule \/ UnregisterModule \/ PushUpdate)
  BY <1>1, <1>2 DEF DoProcessJSRequest, PassPeerUpdate, DoRegisterModule, UnregisterModule,
     PushUpdate, Takes, started
<1>4. PageAfterQueue' = PageAfterQueue
  BY <1>2, <1>3, TaskShown
<1>5. ASSUME NEW r, task.op = "DoProcessJSRequest", r = task.to
      PROVE  r \in Requester /\ task \in RequestTasks(r) /\ answer[r] = {} /\ json \in Request
  <2>1. r \in Requester /\ task \in RequestTasks(r) /\ json \in Request
    BY <1>2, <1>5 DEF Task, RequestTasks
  <2>2. RequestsOf(r) # {}
    <3>1. loop \in Seq(Task) /\ loop # <<>> /\ task \in RequestTasks(r) /\ 1 \in 1..Len(loop) /\ task = loop[1]
      BY <1>1, <1>2, <2>1, TaskView DEF TypeOK
    <3> QED BY <3>1 DEF RequestsOf, RequestTasks
  <2> QED BY <1>2, <2>1, <2>2 DEF RefInv, AppInv, RequestsAccounted, Idle, Crashed
<1>6. CASE json.type = "apply"
  <2>1. PICK to : /\ PassPropertyUpdateToModule(json, to)
                  /\ \A r \in to : r \in Requester => answer[r] = {}
    <3>1. CASE task.op = "DoProcessJSRequest"
      <4>1. PassPropertyUpdateToModule(json, {task.to})
        BY <1>1, <1>2, <1>6, <3>1 DEF DoProcessJSRequest
      <4> QED BY <1>5, <3>1, <4>1
    <3>2. CASE task.op = "PassPropertyUpdateToModule"
      <4>1. PassPropertyUpdateToModule(json, {})
        BY <1>1, <1>2, <3>2 DEF PassPeerUpdate
      <4> QED BY <4>1
    <3> QED BY <1>2, <3>1, <3>2
  <2>2. Does(task) = {<<"store", json.id, json.properties>>}
    BY <1>2, <1>6, RequestToDo
  <2>3. Unwaited(task)
    BY <1>2, <1>6 DEF Unwaited, RegisterTasks, LoadTasks, RequestTasks, CreateLoadModules
  <2>4. json.id \in ModuleId /\ json.properties \in UpdateList
    BY <1>2, <2>2, ChangesOf DEF RefInv, ChangesInv
  <2>5. Promised!Takes(json.id, json.properties)
    BY <1>1, <1>3, <1>6, <2>1, <2>2, <2>3, <2>4, ConstantsAssumption, PassRefines DEF started
  <2> QED BY <2>4, <2>5
<1>7. CASE json.type # "apply"
  <2>1. task.op = "DoProcessJSRequest"
    BY <1>2, <1>7 DEF Task, ApplyMsg
  <2>2. PICK r : r = task.to /\ r \in Requester /\ task \in RequestTasks(r) /\ answer[r] = {} /\ json \in Request
    BY <1>5, <2>1
  <2>3. /\ Answer({r}, IF json.type = "load" THEN CreateModuleList(modules) ELSE Empty)
        /\ UNCHANGED modules
    BY <1>1, <1>2, <1>7, <2>1, <2>2 DEF DoProcessJSRequest
  <2>4. Left' = Left
    <3>1. Does(task) = {}
      BY <1>2, <1>7, RequestToDo
    <3> QED BY <1>1, <3>1, TaskView
  <2>5. CASE json.type = "load"
    <3>1. json = CreateLoadModules
      BY <2>2, <2>5 DEF Request, ApplyMsg, LoadMsg, Malformed, UnknownType, CreateLoadModules
    <3>2. task \in LoadTasks(r)
      BY <1>2, <2>2, <3>1 DEF LoadTasks
    <3>3. r \in Listing /\ Listing' = Listing \ {r} /\ Wanted' = Wanted
      BY <1>1, <2>2, <3>2, TaskView
    <3>4. Lists' = [Lists EXCEPT ![r] = {CreateModuleList(modules)}]
      <4>1. CreateModuleList(modules).type = "module_list"
        BY DEF CreateModuleList
      <4>2. \A q \in Requester : answer'[q] = IF q = r THEN {CreateModuleList(modules)} ELSE answer[q]
        BY <2>3, <2>5 DEF Answer
      <4>3. \A q \in Requester : {a \in answer'[q] : a.type = "module_list"}
              = IF q = r THEN {CreateModuleList(modules)} ELSE {a \in answer[q] : a.type = "module_list"}
        BY <4>1, <4>2
      <4> QED BY <4>3 DEF Lists
    <3>5. Promised!Lists(r)
      BY <1>3, <1>4, <2>3, <2>4, <3>3, <3>4 DEF Promised!Lists, Promised!copies, Promised!callers
    <3> QED BY <2>2, <3>5
  <2>6. CASE json.type # "load"
    <3>1. Unwaited(task)
      BY <2>1, <1>2, <2>6 DEF Unwaited, RegisterTasks, LoadTasks, CreateLoadModules
    <3>2. Wanted' = Wanted /\ Listing' = Listing
      BY <1>1, <3>1, TaskView
    <3>3. Lists' = Lists
      <4>1. Answer({r}, Empty)
        BY <2>3, <2>6
      <4>2. \A q \in {r} : q \in Requester => answer[q] = {}
        BY <2>2
      <4> QED BY <1>2, <4>1, <4>2, ListsKept
    <3> QED BY <1>3, <1>4, <2>3, <2>4, <3>2, <3>3, SameIs
  <2> QED BY <2>5, <2>6
<1> QED BY <1>6, <1>7

\* OnProxyInitialized sends what PageAfterQueue has counted as shown already.
LEMMA InitializedRefines ==
  ASSUME RefInv, CallsInv, Runs, OnProxyInitialized
  PROVE  Same
<1>1. PICK task : task = Head(loop)
  OBVIOUS
<1>2. /\ TypeOK /\ PageInv /\ task \in Task /\ task.op = "OnProxyInitialized"
      /\ UNCHANGED <<modules, idCounter, idPromise, answer>>
  BY <1>1, TaskView DEF RefInv, AppInv, OnProxyInitialized, Takes, promises
<1>3. Does(task) = {}
  BY <1>2, NothingToDo
<1>4. Unwaited(task)
  BY <1>2 DEF Unwaited, RegisterTasks, LoadTasks, RequestTasks
<1>5. Wanted' = Wanted /\ Listing' = Listing /\ Left' = Left
  BY <1>1, <1>3, <1>4, TaskView
<1>6. PageAfterQueue' = PageAfterQueue
  <2>1. ~(DoRegisterModule \/ UnregisterModule \/ PushUpdate)
    BY <1>1, <1>2 DEF DoRegisterModule, UnregisterModule, PushUpdate, Takes
  <2> QED BY <1>2, <2>1, TaskShown
<1>7. Lists' = Lists
  BY <1>2 DEF Lists
<1> QED BY <1>2, <1>5, <1>6, <1>7, SameIs

\* All steps.
LEMMA StepRefines ==
  ASSUME RefInv, CallsInv, TypeOK', FewIn(app'), [AppNext]_allVars
  PROVE  [Promised!RegistryNext]_(Promised!registryVars)
<1>1. CASE Runs
  <2>1. DoRegisterModule => idCounter \in ModuleId
    BY IdsEnough DEF RefInv, DoRegisterModule, Takes
  <2> QED BY <1>1, <2>1, RegisterRefines, UnregisterRefines, SaveRefines, PushRefines,
             RequestRefines, InitializedRefines
          DEF Runs, RunTask, Same, Promised!RegistryNext
<1>2. ASSUME NEW t \in Thread,
             \/ \E module \in Definition : ThreadRegisters(t, module)
             \/ ThreadRegistered(t)
             \/ \E id \in Handles : ThreadUnregisters(t, id)
             \/ \E id \in Handles, list \in UpdateList : ThreadUpdates(t, id, list)
             \/ ThreadUpdated(t)
      PROVE  [Promised!RegistryNext]_(Promised!registryVars)
  <2>1. Handles \subseteq ModuleId
    BY IdsEnough DEF RefInv
  <2> QED BY <1>2, <2>1, ThreadRefines DEF Same, Promised!RegistryNext
<1>3. ASSUME \/ /\ running.at = "callback"
                /\ \E id \in CallbackIds, list \in UpdateList : AppUpdates(id, list)
             \/ running.at = "callback" /\ \E id \in CallbackIds : AppUnregisters(id)
             \/ \E module \in Definition : AppRegisters(module)
             \/ AppReturns
      PROVE  [Promised!RegistryNext]_(Promised!registryVars)
  <2>1. running.at = "callback" => CallbackIds \subseteq ModuleId
    BY IdsEnough DEF RefInv
  <2> QED BY <1>3, <2>1, CallbackRefines DEF Same, Promised!RegistryNext
<1>4. ASSUME \/ \E r \in Requester :
                  \/ \E id \in DOMAIN page \cap ModuleId, list \in UpdateList : PageApplies(r, id, list)
                  \/ \E json \in {CreateLoadModules, Malformed, UnknownType} : PageAsks(r, json)
                  \/ PageAnswered(r)
             \/ \E id \in DOMAIN page \cap ModuleId, list \in UpdateList : HostApplies(id, list)
             \/ \E host \in Hosts : Starts(host)
      PROVE  [Promised!RegistryNext]_(Promised!registryVars)
  BY <1>4, PageRefines DEF Same, Promised!RegistryNext
<1>5. CASE UNCHANGED allVars
  <2>1. UNCHANGED <<loop, app, modules, page, msgQueue, idCounter, idPromise, answer>>
    BY <1>5 DEF allVars, appVars, vars, callers, promises, instance, started
  <2>2. Wanted' = Wanted /\ Listing' = Listing /\ Left' = Left
    BY <2>1, UnpostedView
  <2>3. PageAfterQueue' = PageAfterQueue /\ Lists' = Lists
    BY <2>1 DEF PageAfterQueue, Lists
  <2>4. Same
    BY <2>1, <2>2, <2>3, SameIs
  <2> QED BY <2>4 DEF Same
<1> QED BY <1>1, <1>2, <1>3, <1>4, <1>5 DEF AppNext

\* Nothing is stored, shown, asked for or left to do.
LEMMA RegistryStarts ==
  AppInit => ChangesInv /\ CallsInv /\ Promised!RegistryInit
<1> SUFFICES ASSUME AppInit
             PROVE  ChangesInv /\ CallsInv /\ Promised!RegistryInit
  OBVIOUS
<1>1. /\ loop = <<>> /\ loop \in Seq(Task) /\ app = [t \in Thread |-> Idle] /\ running = Idle
      /\ idCounter = 0 /\ calls = 0 /\ MaxCalls \in Nat
  BY ApplicationAssumption DEF AppInit, Init
<1>2. \A t \in Thread : WillPost(app[t]) = {}
  BY <1>1 DEF WillPost, Idle
<1>3. FewIn(app)
  <2>1. \A change : Halfway(app, change) = {}
    BY <1>2 DEF Halfway
  <2> QED BY <2>1, FS_EmptySet DEF FewIn
<1>4. ChangesInv
  BY <1>1, <1>2, <1>3, NoTasks DEF ChangesInv
<1>5. CallsInv
  <2>1. Places(loop, Registrations) = {}
    BY <1>1 DEF Places
  <2> QED BY <1>1, <2>1, FS_EmptySet DEF CallsInv
<1>6. Left = EmptyBag
  <2>1. DOMAIN loop = {} /\ \A t \in Thread : WillPost(app[t]) = {}
    BY <1>1, <1>2
  <2>2. UNION ({Does(loop[i]) : i \in DOMAIN loop} \cup {WillPost(app[t]) : t \in Thread}) = {}
    BY <2>1
  <2> QED BY <2>2 DEF Left, LeftIn, EmptyBag, SetToBag
<1>7. PageAfterQueue = <<>>
  <2>1. page = <<>> /\ page \in Tabs /\ msgQueue = <<>>
    BY PageInvInit DEF AppInit, Init, PageInv
  <2>2. <<>> \in Seq(PushedMsg)
    OBVIOUS
  <2> QED BY <2>1, <2>2, OnMessagesType DEF PageAfterQueue
<1>8. /\ Wanted = [t \in Thread |-> {}]
      /\ Listing = {}
      /\ Lists = [r \in Requester |-> {}]
  BY <1>1 DEF Wanted, Listing, Lists, RegistrationsOf, RequestsOf, AppInit, Init
<1>9. 0..(idCounter - 1) = {}
  BY <1>1
<1>10. Promised!EmptyBag = EmptyBag
  BY DEF EmptyBag, SetToBag, Promised!EmptyBag, Promised!SetToBag
<1> QED BY <1>4, <1>5, <1>6, <1>7, <1>8, <1>9, <1>10 DEF Promised!RegistryInit, AppInit, Init

\* Whatever the threads, the callbacks and the page do, and in whatever order their calls
\* and the tasks of the module thread run: every update is stored once and pushed once, a
\* module enters and leaves the store and the page together, under a new id, and a list is
\* what was stored at one moment between the request and its answer
\* (ModuleManager.cpp:57-272).
THEOREM RegistryIsImplemented == AppSpec => ImplementsRegistry
<1>1. AppInit => ChangesInv /\ CallsInv /\ Promised!RegistryInit
  BY RegistryStarts
<1>2. AppInv /\ ChangesInv /\ CallsInv /\ [AppNext]_allVars => ChangesInv' /\ CallsInv'
  BY RegistryInvStep
<1>3. /\ AppInv /\ PageInv /\ ChangesInv /\ CallsInv
      /\ AppInv' /\ ChangesInv'
      /\ [AppNext]_allVars
      => [Promised!RegistryNext]_(Promised!registryVars)
  <2> SUFFICES ASSUME AppInv, PageInv, ChangesInv, CallsInv, AppInv', ChangesInv', [AppNext]_allVars
               PROVE  [Promised!RegistryNext]_(Promised!registryVars)
    OBVIOUS
  <2>1. RefInv /\ TypeOK' /\ FewIn(app')
    BY DEF RefInv, AppInv, ChangesInv
  <2> QED BY <2>1, StepRefines
<1> QED BY <1>1, <1>2, <1>3, AppInvariant, PageInvariant, PTL
        DEF AppSpec, ImplementsRegistry, Promised!RegistrySpec

-----------------------------------------------------------------------------
(* The last value a property is given.                                     *)

\* The values a set of changes gives property k of a module, where it is stored or shown.
GivenIn(changes, kind, id, k) ==
  {v \in Value : \E list \in UpdateList : <<kind, id, list>> \in changes /\ v \in GivenBy(list, k)}

\* What it comes to when the tasks of a queue are done: the value of the last one that
\* gives it any, or what it is.
ComesTo(queue, kind, id, k, base, v) ==
  \/ \E i \in 1..Len(queue) :
       /\ v \in GivenIn(Does(queue[i]), kind, id, k)
       /\ \A j \in (i + 1)..Len(queue) : GivenIn(Does(queue[j]), kind, id, k) = {}
  \/ v \in base /\ \A i \in 1..Len(queue) : GivenIn(Does(queue[i]), kind, id, k) = {}

LEMMA ComesToAppend ==
  ASSUME NEW S, NEW q \in Seq(S), NEW task \in S, NEW kind, NEW id, NEW k, NEW base, NEW v
  PROVE  /\ v \in GivenIn(Does(task), kind, id, k) => ComesTo(Append(q, task), kind, id, k, base, v)
         /\ GivenIn(Does(task), kind, id, k) = {} /\ ComesTo(q, kind, id, k, base, v)
              => ComesTo(Append(q, task), kind, id, k, base, v)
<1>1. PICK n \in Nat, u \in Seq(S) : n = Len(q) /\ u = Append(q, task)
  BY LenProperties, AppendProperties
<1>2. Len(u) = n + 1 /\ u[n + 1] = task /\ \A i \in 1..n : u[i] = q[i]
  BY <1>1, AppendProperties
<1>3. \A i \in 1..(n + 1) : i \in 1..n \/ i = n + 1
  OBVIOUS
<1>4. ASSUME v \in GivenIn(Does(task), kind, id, k)
      PROVE  ComesTo(u, kind, id, k, base, v)
  <2>1. n + 1 \in 1..Len(u) /\ ((n + 1) + 1)..Len(u) = {}
    BY <1>2
  <2> QED BY <1>2, <1>4, <2>1 DEF ComesTo
<1>5. ASSUME GivenIn(Does(task), kind, id, k) = {}, ComesTo(q, kind, id, k, base, v)
      PROVE  ComesTo(u, kind, id, k, base, v)
  <2>1. ASSUME NEW i \in 1..n, v \in GivenIn(Does(q[i]), kind, id, k),
               \A j \in (i + 1)..n : GivenIn(Does(q[j]), kind, id, k) = {}
        PROVE  ComesTo(u, kind, id, k, base, v)
    <3>1. i \in 1..Len(u) /\ v \in GivenIn(Does(u[i]), kind, id, k)
      BY <1>2, <2>1
    <3>2. \A j \in (i + 1)..(n + 1) : j \in (i + 1)..n \/ j = n + 1
      OBVIOUS
    <3>3. \A j \in (i + 1)..n : u[j] = q[j]
      BY <1>2
    <3>4. \A j \in (i + 1)..Len(u) : GivenIn(Does(u[j]), kind, id, k) = {}
      BY <1>2, <1>5, <2>1, <3>2, <3>3
    <3> QED BY <3>1, <3>4 DEF ComesTo
  <2>2. ASSUME v \in base, \A i \in 1..n : GivenIn(Does(q[i]), kind, id, k) = {}
        PROVE  ComesTo(u, kind, id, k, base, v)
    <3>1. \A i \in 1..Len(u) : GivenIn(Does(u[i]), kind, id, k) = {}
      BY <1>2, <1>3, <1>5, <2>2
    <3> QED BY <2>2, <3>1 DEF ComesTo
  <2> QED BY <1>1, <1>5, <2>1, <2>2 DEF ComesTo
<1> QED BY <1>1, <1>4, <1>5

LEMMA ComesToTail ==
  ASSUME NEW S, NEW q \in Seq(S), q # <<>>, NEW kind, NEW id, NEW k, NEW base, NEW after, NEW v,
         ComesTo(q, kind, id, k, base, v),
         IF GivenIn(Does(Head(q)), kind, id, k) = {} THEN base \subseteq after
         ELSE GivenIn(Does(Head(q)), kind, id, k) \subseteq after
  PROVE  ComesTo(Tail(q), kind, id, k, after, v)
<1>1. PICK n \in Nat, u \in Seq(S) : n + 1 = Len(q) /\ u = Tail(q)
  <2>1. Len(q) \in Nat \ {0} /\ Tail(q) \in Seq(S)
    BY HeadTailProperties, EmptySeq, LenProperties
  <2>2. Len(q) - 1 \in Nat /\ (Len(q) - 1) + 1 = Len(q)
    BY <2>1
  <2> QED BY <2>1, <2>2
<1>2. Len(u) = n /\ Head(q) = q[1] /\ \A i \in 1..n : u[i] = q[i + 1]
  BY <1>1, HeadTailProperties
<1>a. SUFFICES ComesTo(u, kind, id, k, after, v)
  BY <1>1
<1>3. CASE \E i \in 1..(n + 1) :
             /\ v \in GivenIn(Does(q[i]), kind, id, k)
             /\ \A j \in (i + 1)..(n + 1) : GivenIn(Does(q[j]), kind, id, k) = {}
  <2>1. PICK i \in 1..(n + 1) :
             /\ v \in GivenIn(Does(q[i]), kind, id, k)
             /\ \A j \in (i + 1)..(n + 1) : GivenIn(Does(q[j]), kind, id, k) = {}
    BY <1>3
  <2>2. CASE i = 1
    <3>1. v \in after
      BY <1>2, <2>1, <2>2
    <3>2. \A j \in 1..n : j + 1 \in 2..(n + 1) /\ u[j] = q[j + 1]
      BY <1>2
    <3>3. \A j \in 1..Len(u) : GivenIn(Does(u[j]), kind, id, k) = {}
      <4>1. \A j \in 2..(n + 1) : GivenIn(Does(q[j]), kind, id, k) = {}
        <5>1. i + 1 = 2
          BY ONLY <2>2
        <5>2. \A j \in (i + 1)..(n + 1) : GivenIn(Does(q[j]), kind, id, k) = {}
          BY <2>1
        <5> QED BY ONLY <5>1, <5>2
      <4> QED BY <1>2, <3>2, <4>1
    <3> QED BY <3>1, <3>3 DEF ComesTo
  <2>3. CASE i # 1
    <3>1. i - 1 \in 1..n /\ (i - 1) + 1 = i
      BY <2>3
    <3>2. v \in GivenIn(Does(u[i - 1]), kind, id, k)
      BY <1>2, <2>1, <3>1
    <3>3. \A j \in ((i - 1) + 1)..n : j + 1 \in (i + 1)..(n + 1) /\ u[j] = q[j + 1]
      BY <1>2, <3>1
    <3>4. \A j \in ((i - 1) + 1)..n : GivenIn(Does(u[j]), kind, id, k) = {}
      BY <2>1, <3>3
    <3>5. i - 1 \in 1..Len(u) /\ \A j \in ((i - 1) + 1)..Len(u) : GivenIn(Does(u[j]), kind, id, k) = {}
      BY <1>2, <3>1, <3>4
    <3> QED BY <3>2, <3>5 DEF ComesTo
  <2> QED BY <2>2, <2>3
<1>4. CASE v \in base /\ \A i \in 1..(n + 1) : GivenIn(Does(q[i]), kind, id, k) = {}
  <2>1. v \in after
    <3>1. 1 \in 1..(n + 1)
      OBVIOUS
    <3> QED BY <1>2, <1>4, <3>1
  <2>2. \A j \in 1..n : j + 1 \in 1..(n + 1) /\ u[j] = q[j + 1]
    BY <1>2
  <2>3. \A j \in 1..Len(u) : GivenIn(Does(u[j]), kind, id, k) = {}
    BY <1>2, <1>4, <2>2
  <2> QED BY <2>1, <2>3 DEF ComesTo
<1> QED BY <1>1, <1>3, <1>4 DEF ComesTo

\* One change gives what its list gives, to the property it is for.
Only(changes, kind, id, list) == changes = {<<kind, id, list>>} /\ list \in UpdateList

LEMMA GivesOne ==
  ASSUME NEW kind, NEW id, NEW list, NEW changes, Only(changes, kind, id, list)
  PROVE  \A other, i, k : GivenIn(changes, other, i, k) =
           IF other = kind /\ i = id THEN GivenBy(list, k) ELSE {}
<1>1. \A k : GivenBy(list, k) \subseteq Value
  <2>1. list \in Seq(Assignment)
    BY ConstantsAssumption DEF PropertyList, Only
  <2>2. \A i \in 1..Len(list) : list[i].value \in Value
    <3>1. \A i \in 1..Len(list) : list[i] \in Assignment
      BY <2>1, ElementOfSeq
    <3> QED BY <3>1 DEF Assignment
  <2> QED BY <2>2 DEF GivenBy, LastTo
<1> QED BY <1>1 DEF GivenIn, Only

-----------------------------------------------------------------------------
(* What is stored and what is shown come to the same value.                *)

\* The values a field may be showing.
Seen(field) == {v \in Value : Looks(field, v)}

\* What is shown comes to the value a thread between its two posts will push, or else to
\* that of the last update in the queue.
NonePosts(threads, id, k) == \A t \in Thread : GivenIn(WillPost(threads[t]), "show", id, k) = {}
ShownAs(queue, threads, field, id, k, v) ==
  \/ \E t \in Thread : v \in GivenIn(WillPost(threads[t]), "show", id, k)
  \/ NonePosts(threads, id, k) /\ ComesTo(queue, "show", id, k, Seen(field), v)

Meets(queue, threads, stored, field, id, k) ==
  \E v \in Value : /\ ComesTo(queue, "store", id, k, {stored}, v)
                   /\ ShownAs(queue, threads, field, id, k, v)

\* No update of a property waits.
NoneGives(queue, kind, id, k) ==
  \A i \in 1..Len(queue) : GivenIn(Does(queue[i]), kind, id, k) = {}

\* Nothing waits, and the page shows what is stored.
LEMMA MeetsFresh ==
  ASSUME NEW q, NEW th, NEW stored \in Value, NEW field, NEW id, NEW k, Looks(field, stored),
         NoneGives(q, "store", id, k), NoneGives(q, "show", id, k), NonePosts(th, id, k)
  PROVE  Meets(q, th, stored, field, id, k)
<1>1. ComesTo(q, "store", id, k, {stored}, stored)
  BY DEF ComesTo, NoneGives
<1>2. ComesTo(q, "show", id, k, Seen(field), stored)
  BY DEF ComesTo, NoneGives, Seen
<1> QED BY <1>1, <1>2 DEF Meets, ShownAs

\* Nothing waits and no thread is between two posts any more.
LEMMA MeetsEnd ==
  ASSUME NEW th, NEW stored, NEW field, NEW id, NEW k, Meets(<<>>, th, stored, field, id, k),
         NonePosts(th, id, k)
  PROVE  Looks(field, stored)
<1>1. PICK v \in Value : /\ ComesTo(<<>>, "store", id, k, {stored}, v)
                         /\ ShownAs(<<>>, th, field, id, k, v)
  BY DEF Meets
<1>2. 1..Len(<<>>) = {}
  OBVIOUS
<1>3. v = stored
  BY <1>1, <1>2 DEF ComesTo
<1>4. v \in Seen(field)
  BY <1>1, <1>2 DEF ShownAs, NonePosts, ComesTo
<1> QED BY <1>3, <1>4 DEF Seen

\* A task that gives neither is posted.
LEMMA MeetsBeside ==
  ASSUME NEW S, NEW q \in Seq(S), NEW task \in S, NEW th, NEW after, NEW stored, NEW field,
         NEW id, NEW k, Meets(q, th, stored, field, id, k),
         GivenIn(Does(task), "store", id, k) = {}, GivenIn(Does(task), "show", id, k) = {},
         \A t \in Thread : WillPost(after[t]) = WillPost(th[t])
  PROVE  Meets(Append(q, task), after, stored, field, id, k)
<1>1. PICK v \in Value : ComesTo(q, "store", id, k, {stored}, v) /\ ShownAs(q, th, field, id, k, v)
  BY DEF Meets
<1>2. ComesTo(Append(q, task), "store", id, k, {stored}, v)
  BY <1>1, ComesToAppend
<1>3. ComesTo(q, "show", id, k, Seen(field), v) =>
        ComesTo(Append(q, task), "show", id, k, Seen(field), v)
  BY ComesToAppend
<1>4. ShownAs(Append(q, task), after, field, id, k, v)
  BY <1>1, <1>3 DEF ShownAs, NonePosts
<1> QED BY <1>2, <1>4 DEF Meets

\* A thread posts the first half of an update, then the second.
LEMMA MeetsUpdate ==
  ASSUME NEW S, NEW q \in Seq(S), NEW task \in S, NEW th, NEW after, NEW stored, NEW field,
         NEW id, NEW k, Meets(q, th, stored, field, id, k),
         NEW list \in UpdateList, NEW t \in Thread, NEW to,
         Does(task) = {<<"store", to, list>>}, WillPost(after[t]) = {<<"show", to, list>>},
         WillPost(th[t]) = {}, \A u \in Thread \ {t} : WillPost(after[u]) = WillPost(th[u])
  PROVE  Meets(Append(q, task), after, stored, field, id, k)
<1>1. /\ GivenIn(Does(task), "store", id, k) = GivenIn(WillPost(after[t]), "show", id, k)
      /\ GivenIn(Does(task), "show", id, k) = {}
      /\ GivenIn(WillPost(th[t]), "show", id, k) = {}
  <2>1. /\ \A other, i : GivenIn(Does(task), other, i, k) =
             IF other = "store" /\ i = to THEN GivenBy(list, k) ELSE {}
        /\ \A other, i : GivenIn(WillPost(after[t]), other, i, k) =
             IF other = "show" /\ i = to THEN GivenBy(list, k) ELSE {}
    <3>1. Only(Does(task), "store", to, list) /\ Only(WillPost(after[t]), "show", to, list)
      BY DEF Only
    <3> QED BY <3>1, GivesOne
  <2>2. GivenIn({}, "show", id, k) = {}
    BY DEF GivenIn
  <2> QED BY <2>1, <2>2
<1>2. CASE GivenIn(WillPost(after[t]), "show", id, k) = {}
  <2>1. PICK v \in Value : ComesTo(q, "store", id, k, {stored}, v) /\ ShownAs(q, th, field, id, k, v)
    BY DEF Meets
  <2>2. ComesTo(Append(q, task), "store", id, k, {stored}, v)
    BY <1>1, <1>2, <2>1, ComesToAppend
  <2>3. ComesTo(q, "show", id, k, Seen(field), v) =>
          ComesTo(Append(q, task), "show", id, k, Seen(field), v)
    BY <1>1, ComesToAppend
  <2>4. \A u \in Thread : GivenIn(WillPost(after[u]), "show", id, k) = GivenIn(WillPost(th[u]), "show", id, k)
    BY <1>1, <1>2
  <2>5. ShownAs(Append(q, task), after, field, id, k, v)
    BY <2>1, <2>3, <2>4 DEF ShownAs, NonePosts
  <2> QED BY <2>2, <2>5 DEF Meets
<1>3. CASE GivenIn(WillPost(after[t]), "show", id, k) # {}
  <2>1. PICK v \in GivenIn(WillPost(after[t]), "show", id, k) : v \in Value
    BY <1>3 DEF GivenIn
  <2>2. ComesTo(Append(q, task), "store", id, k, {stored}, v)
    BY <1>1, <2>1, ComesToAppend
  <2>3. ShownAs(Append(q, task), after, field, id, k, v)
    BY <2>1 DEF ShownAs
  <2> QED BY <2>1, <2>2, <2>3 DEF Meets
<1> QED BY <1>2, <1>3

LEMMA MeetsUpdated ==
  ASSUME NEW S, NEW q \in Seq(S), NEW task \in S, NEW th, NEW after, NEW stored, NEW field,
         NEW id, NEW k, Meets(q, th, stored, field, id, k),
         NEW t \in Thread, Does(task) = WillPost(th[t]), WillPost(after[t]) = {},
         \A u \in Thread \ {t} : WillPost(after[u]) = WillPost(th[u]),
         GivenIn(Does(task), "store", id, k) = {},
         GivenIn(Does(task), "show", id, k) # {} =>
           \A u \in Thread \ {t} : GivenIn(WillPost(th[u]), "show", id, k) = {}
  PROVE  Meets(Append(q, task), after, stored, field, id, k)
<1>1. PICK v \in Value : ComesTo(q, "store", id, k, {stored}, v) /\ ShownAs(q, th, field, id, k, v)
  BY DEF Meets
<1>2. ComesTo(Append(q, task), "store", id, k, {stored}, v)
  BY <1>1, ComesToAppend
<1>3. GivenIn(WillPost(after[t]), "show", id, k) = {}
  BY DEF GivenIn
<1>4. CASE GivenIn(Does(task), "show", id, k) = {}
  <2>1. ComesTo(q, "show", id, k, Seen(field), v) =>
          ComesTo(Append(q, task), "show", id, k, Seen(field), v)
    BY <1>4, ComesToAppend
  <2>2. \A u \in Thread : GivenIn(WillPost(after[u]), "show", id, k) = GivenIn(WillPost(th[u]), "show", id, k)
    BY <1>3, <1>4
  <2>3. ShownAs(Append(q, task), after, field, id, k, v)
    BY <1>1, <2>1, <2>2 DEF ShownAs, NonePosts
  <2> QED BY <1>2, <2>3 DEF Meets
<1>5. CASE GivenIn(Does(task), "show", id, k) # {}
  <2>1. v \in GivenIn(Does(task), "show", id, k)
    BY <1>1, <1>5 DEF ShownAs, NonePosts
  <2>2. ComesTo(Append(q, task), "show", id, k, Seen(field), v)
    BY <2>1, ComesToAppend
  <2>3. NonePosts(after, id, k)
    BY <1>3, <1>5 DEF NonePosts
  <2> QED BY <1>2, <2>2, <2>3 DEF Meets, ShownAs
<1> QED BY <1>4, <1>5

\* The page sends an update, which it shows already.
LEMMA MeetsApplied ==
  ASSUME NEW S, NEW q \in Seq(S), NEW task \in S, NEW th, NEW stored, NEW field, NEW shows,
         NEW id, NEW k, Meets(q, th, stored, field, id, k),
         GivenIn(Does(task), "show", id, k) = {},
         IF GivenIn(Does(task), "store", id, k) = {} THEN shows = field
         ELSE /\ \A v \in GivenIn(Does(task), "store", id, k) : Looks(shows, v)
              /\ NoneGives(q, "show", id, k) /\ NonePosts(th, id, k)
  PROVE  Meets(Append(q, task), th, stored, shows, id, k)
<1>1. CASE GivenIn(Does(task), "store", id, k) = {}
  BY <1>1, MeetsBeside
<1>2. CASE GivenIn(Does(task), "store", id, k) # {}
  <2>1. PICK v \in GivenIn(Does(task), "store", id, k) : v \in Value /\ Looks(shows, v)
    BY <1>2 DEF GivenIn
  <2>2. ComesTo(Append(q, task), "store", id, k, {stored}, v)
    BY <2>1, ComesToAppend
  <2>3. ComesTo(q, "show", id, k, Seen(shows), v)
    BY <1>2, <2>1 DEF ComesTo, NoneGives, Seen
  <2>4. ComesTo(Append(q, task), "show", id, k, Seen(shows), v)
    BY <2>3, ComesToAppend
  <2> QED BY <1>2, <2>1, <2>2, <2>4 DEF Meets, ShownAs
<1> QED BY <1>1, <1>2

\* The first task is done.
LEMMA MeetsTail ==
  ASSUME NEW S, NEW q \in Seq(S), q # <<>>, NEW th, NEW stored, NEW holds, NEW field, NEW shows,
         NEW id, NEW k, Meets(q, th, stored, field, id, k),
         IF GivenIn(Does(Head(q)), "store", id, k) = {} THEN holds = stored
         ELSE \A v \in GivenIn(Does(Head(q)), "store", id, k) : holds = v,
         IF GivenIn(Does(Head(q)), "show", id, k) = {} THEN shows = field
         ELSE \A v \in GivenIn(Does(Head(q)), "show", id, k) : Looks(shows, v)
  PROVE  Meets(Tail(q), th, holds, shows, id, k)
<1>1. PICK v \in Value : ComesTo(q, "store", id, k, {stored}, v) /\ ShownAs(q, th, field, id, k, v)
  BY DEF Meets
<1>2. ComesTo(Tail(q), "store", id, k, {holds}, v)
  <2>1. IF GivenIn(Does(Head(q)), "store", id, k) = {} THEN {stored} \subseteq {holds}
        ELSE GivenIn(Does(Head(q)), "store", id, k) \subseteq {holds}
    OBVIOUS
  <2> QED BY <1>1, <2>1, ComesToTail
<1>3. ComesTo(q, "show", id, k, Seen(field), v) => ComesTo(Tail(q), "show", id, k, Seen(shows), v)
  <2>1. IF GivenIn(Does(Head(q)), "show", id, k) = {} THEN Seen(field) \subseteq Seen(shows)
        ELSE GivenIn(Does(Head(q)), "show", id, k) \subseteq Seen(shows)
    BY DEF Seen, GivenIn
  <2> QED BY <2>1, ComesToTail
<1>4. ShownAs(Tail(q), th, shows, id, k, v)
  BY <1>1, <1>3 DEF ShownAs
<1> QED BY <1>2, <1>4 DEF Meets

-----------------------------------------------------------------------------
(* One writer.                                                             *)

\* Who an update comes from: a change that waits was made by a thread, or it is the store
\* of what the page has sent; a thread pushes what it has itself saved.
TaskTraced(task) ==
  \A id \in ModuleId, list \in UpdateList :
    /\ <<"store", id, list>> \in Does(task) => ~(writers[id] \subseteq {"callback"})
    /\ <<"show", id, list>> \in Does(task) => writers[id] \cap Thread # {}
CallTraced(t) ==
  \A id \in ModuleId, list \in UpdateList :
    <<"show", id, list>> \in WillPost(app[t]) => t \in writers[id]
SourcesInv ==
  /\ \A task \in Tasks : TaskTraced(task)
  /\ \A t \in Thread : CallTraced(t)
  /\ \A id \in ModuleId : IsFiniteSet(writers[id]) /\ (writers[id] # {} => id \in Ids)

\* The page has a field for each property, and no update goes past the last.
Shape(id) ==
  /\ Len(PageAfterQueue[id]) = Len(modules[id].properties)
  /\ \A list \in UpdateList : AllWithin(list, Len(modules[id].properties))
ShapesInv ==
  /\ \A id \in DOMAIN modules : Shape(id)
  /\ \A task \in Tasks : task.op = "DoRegisterModule" => task.module \in Definition

\* The store and the page come to the same values for a module with one writer.
Single(names) == \A a, b \in names : a = b
MeetsAt(id, k) ==
  ~modules[id].properties[k].read_only =>
     Meets(loop, app, modules[id].properties[k].value, PageAfterQueue[id][k], id, k)
Settles(id) == \A k \in 1..Len(modules[id].properties) : MeetsAt(id, k)
MeetInv == \A id \in DOMAIN modules : Single(writers[id]) => Settles(id)

SettleInv == SourcesInv /\ ShapesInv /\ MeetInv

\* The two copies of a module.
LEMMA CopiesType ==
  ASSUME RefInv
  PROVE  /\ TypeOK /\ PageInv /\ loop \in Seq(Task) /\ Tasks \subseteq Task
         /\ UpdateList \subseteq PropertyList /\ ModuleId \subseteq Int
         /\ PageAfterQueue \in Tabs /\ DOMAIN PageAfterQueue = DOMAIN modules
         /\ modules \in [DOMAIN modules -> ModuleType]
         /\ \A i \in DOMAIN modules :
              /\ i \in Ids /\ modules[i] \in ModuleType /\ modules[i].properties \in Seq(Property)
              /\ Len(modules[i].properties) \in Nat /\ PageAfterQueue[i] \in Seq(Field)
<1>1. /\ TypeOK /\ PageInv /\ loop \in Seq(Task)
      /\ modules \in [DOMAIN modules -> ModuleType] /\ DOMAIN modules \subseteq Ids
      /\ page \in Tabs /\ msgQueue \in Seq(PushedMsg)
  BY DEF RefInv, AppInv, TypeOK, ModulesTypeOK, PageInv, Ids, OutTypeOK
<1>2. Tasks \subseteq Task
  BY <1>1, TasksOf
<1>3. PageAfterQueue \in Tabs
  BY <1>1, OnMessagesType DEF PageAfterQueue
<1>4. DOMAIN PageAfterQueue = DOMAIN modules
  BY <1>1 DEF PageInv, PageShowsRegistry
<1>5. PageAfterQueue \in [DOMAIN PageAfterQueue -> Seq(Field)]
  BY <1>3, TabsType
<1>6. ASSUME NEW i \in DOMAIN modules
      PROVE  /\ i \in Ids /\ modules[i] \in ModuleType /\ modules[i].properties \in Seq(Property)
             /\ Len(modules[i].properties) \in Nat /\ PageAfterQueue[i] \in Seq(Field)
  <2>1. modules[i] \in ModuleType /\ i \in Ids
    BY <1>1
  <2>2. modules[i].properties \in Seq(Property)
    BY <2>1 DEF ModuleType
  <2> QED BY <1>4, <1>5, <2>1, <2>2, LenProperties
<1> QED BY <1>1, <1>2, <1>3, <1>4, <1>6, ConstantsAssumption

-----------------------------------------------------------------------------
(* What a step does to the copies.                                         *)

CopiesKept(i) ==
  /\ i \in DOMAIN modules
  /\ modules'[i] = modules[i] /\ PageAfterQueue'[i] = PageAfterQueue[i]

\* A property after a set of changes of its kind.
StoredSo(changes, id, k) ==
  /\ modules'[id].properties[k].read_only = modules[id].properties[k].read_only
  /\ GivenIn(changes, "store", id, k) = {} =>
       modules'[id].properties[k].value = modules[id].properties[k].value
  /\ \A v \in GivenIn(changes, "store", id, k) :
       ~modules[id].properties[k].read_only => modules'[id].properties[k].value = v
ShownSo(changes, id, k) ==
  /\ GivenIn(changes, "show", id, k) = {} => PageAfterQueue'[id][k] = PageAfterQueue[id][k]
  /\ \A v \in GivenIn(changes, "show", id, k) : Looks(PageAfterQueue'[id][k], v)

\* The same properties, with other values.
Reshaped ==
  /\ DOMAIN modules' = DOMAIN modules
  /\ \A i \in DOMAIN modules :
       /\ Len(modules'[i].properties) = Len(modules[i].properties)
       /\ Len(PageAfterQueue'[i]) = Len(PageAfterQueue[i])

LEMMA StoreGives ==
  ASSUME RefInv, NEW changes, NEW id, NEW list, Only(changes, "store", id, list),
         SavePropertiesList(id, list)
  PROVE  /\ DOMAIN modules' = DOMAIN modules
         /\ \A i \in DOMAIN modules :
              /\ Len(modules'[i].properties) = Len(modules[i].properties)
              /\ \A k \in 1..Len(modules[i].properties) : StoredSo(changes, i, k)
<1>1. /\ list \in PropertyList
      /\ \A i \in DOMAIN modules : modules[i] \in ModuleType /\ modules[i].properties \in Seq(Property)
      /\ \A i \in DOMAIN modules : Len(modules[i].properties) \in Nat
  BY CopiesType DEF Only
<1>2. /\ DOMAIN modules' = DOMAIN modules
      /\ \A i \in DOMAIN modules : i # id => modules'[i] = modules[i]
      /\ id \in DOMAIN modules =>
           modules'[id].properties = SavedProperties(modules[id].properties, list)
  BY <1>1 DEF SavePropertiesList, ModuleType
<1>3. \A i, k : GivenIn(changes, "store", i, k) = IF i = id THEN GivenBy(list, k) ELSE {}
  BY GivesOne
<1>4. ASSUME NEW i \in DOMAIN modules
      PROVE  /\ Len(modules'[i].properties) = Len(modules[i].properties)
             /\ \A k \in 1..Len(modules[i].properties) : StoredSo(changes, i, k)
  <2>1. CASE i # id
    BY <1>2, <1>3, <2>1 DEF StoredSo
  <2>2. CASE i = id
    <3>1. PICK p \in Seq(Property) : p = modules[i].properties
      BY <1>1
    <3>2. modules'[i].properties = SavedProperties(p, list)
      BY <1>2, <2>2, <3>1
    <3>3. Len(SavedProperties(p, list)) = Len(p)
      BY <3>1, LenProperties DEF SavedProperties
    <3>4. ASSUME NEW k \in 1..Len(p) PROVE StoredSo(changes, i, k)
      <4>1. /\ GivenBy(list, k) = {} => SavedProperties(p, list)[k] = p[k]
            /\ SavedProperties(p, list)[k].read_only = p[k].read_only
            /\ \A value \in GivenBy(list, k) :
                 ~p[k].read_only => SavedProperties(p, list)[k].value = value
        BY <1>1, SavedPropertiesGiven
      <4>2. GivenIn(changes, "store", i, k) = GivenBy(list, k)
        BY <1>3, <2>2
      <4> QED BY ONLY <3>1, <3>2, <4>1, <4>2 DEF StoredSo
    <3> QED BY <3>1, <3>2, <3>3, <3>4
  <2> QED BY <2>1, <2>2
<1> QED BY <1>2, <1>4

LEMMA ShowGives ==
  ASSUME RefInv, ShapesInv, NEW changes, NEW id, NEW list, Only(changes, "show", id, list),
         PageAfterQueue' = SetModulePoperties(PageAfterQueue, id, list)
  PROVE  \A i \in DOMAIN modules :
           /\ Len(PageAfterQueue'[i]) = Len(PageAfterQueue[i])
           /\ \A k \in 1..Len(modules[i].properties) : ShownSo(changes, i, k)
<1>1. list \in UpdateList /\ list \in PropertyList
  BY CopiesType DEF Only
<1>2. PICK tabs \in Tabs : tabs = PageAfterQueue /\ DOMAIN tabs = DOMAIN modules
                           /\ \A i \in DOMAIN modules : tabs[i] \in Seq(Field)
  BY CopiesType
<1>3. \A i, k : GivenIn(changes, "show", i, k) = IF i = id THEN GivenBy(list, k) ELSE {}
  BY GivesOne
<1>4. SUFFICES ASSUME NEW i \in DOMAIN modules
               PROVE  /\ Len(PageAfterQueue'[i]) = Len(PageAfterQueue[i])
                      /\ \A k \in 1..Len(modules[i].properties) : ShownSo(changes, i, k)
  OBVIOUS
<1>5. Shape(i)
  BY DEF ShapesInv
<1>6. CASE i # id
  <2>1. PageAfterQueue'[i] = PageAfterQueue[i]
    BY <1>2, <1>6 DEF SetModulePoperties
  <2> QED BY <1>3, <1>6, <2>1 DEF ShownSo
<1>7. CASE i = id
  <2>1. PICK f \in Seq(Field) : f = tabs[i] /\ f = PageAfterQueue[i]
    BY <1>2
  <2>2. PageAfterQueue'[i] = SetPoropertyValues(f, list)
    BY <1>2, <1>7, <2>1 DEF SetModulePoperties
  <2>3. Len(SetPoropertyValues(f, list)) = Len(f)
    <3>1. SetPoropertyValues(f, list) \in Alike(f)
      BY <1>1, SetPoropertyValuesType
    <3>2. Len(f) \in Nat
      BY LenProperties
    <3>3. DOMAIN SetPoropertyValues(f, list) = 1..Len(f)
          /\ SetPoropertyValues(f, list) \in Seq(Field)
      BY <3>1, <3>2 DEF Alike
    <3> QED BY <3>2, <3>3, LenProperties
  <2>4. Len(f) = Len(modules[i].properties) /\ AllWithin(list, Len(f))
    BY <1>1, <1>5, <2>1 DEF Shape
  <2>5. ASSUME NEW k \in 1..Len(f) PROVE ShownSo(changes, i, k)
    <3>1. /\ GivenBy(list, k) = {} => SetPoropertyValues(f, list)[k] = f[k]
          /\ \A value \in GivenBy(list, k) : Looks(SetPoropertyValues(f, list)[k], value)
      BY <1>1, <2>4, SetPoropertyValuesLooks
    <3>2. GivenIn(changes, "show", i, k) = GivenBy(list, k)
      BY <1>3, <1>7
    <3> QED BY ONLY <2>1, <2>2, <3>1, <3>2 DEF ShownSo
  <2> QED BY <2>1, <2>2, <2>3, <2>4, <2>5
<1> QED BY <1>6, <1>7

-----------------------------------------------------------------------------
(* What a step does to the queue.                                          *)

\* A task that changes no property.
Mute(task) ==
  \A id, list : <<"store", id, list>> \notin Does(task) /\ <<"show", id, list>> \notin Does(task)

LEMMA MuteGives ==
  ASSUME NEW task, Mute(task)
  PROVE  \A id, k : /\ GivenIn(Does(task), "store", id, k) = {}
                    /\ GivenIn(Does(task), "show", id, k) = {}
BY DEF Mute, GivenIn

\* Writers are never forgotten.
Grows == \A id \in ModuleId : writers[id] \subseteq writers'[id]

\* Where what a task does is traced, it is traced later on.
LEMMA TracedOn ==
  ASSUME Grows
  PROVE  /\ \A task : TaskTraced(task) => TaskTraced(task)'
         /\ \A t : CallTraced(t) /\ WillPost(app'[t]) = WillPost(app[t]) => CallTraced(t)'
<1>1. ASSUME NEW task, TaskTraced(task)
      PROVE  TaskTraced(task)'
  <2>1. ASSUME NEW id \in ModuleId, NEW list \in UpdateList
        PROVE  /\ <<"store", id, list>> \in Does(task) => ~(writers'[id] \subseteq {"callback"})
               /\ <<"show", id, list>> \in Does(task) => writers'[id] \cap Thread # {}
    <3>1. /\ <<"store", id, list>> \in Does(task) => ~(writers[id] \subseteq {"callback"})
          /\ <<"show", id, list>> \in Does(task) => writers[id] \cap Thread # {}
      BY <1>1 DEF TaskTraced
    <3>2. writers[id] \subseteq writers'[id]
      BY DEF Grows
    <3> QED BY <3>1, <3>2
  <2> QED BY <2>1 DEF TaskTraced
<1>2. ASSUME NEW t, CallTraced(t), WillPost(app'[t]) = WillPost(app[t])
      PROVE  CallTraced(t)'
  BY <1>2 DEF CallTraced, Grows
<1> QED BY <1>1, <1>2

\* At most one writer is new, of a module the application has; and a task that is posted,
\* a thread that begins, are of a writer.
LEMMA SourcesKept ==
  ASSUME RefInv, SourcesInv, Ids \subseteq Ids', Grows,
         \A id \in ModuleId : \/ writers'[id] = writers[id]
                              \/ id \in Ids /\ \E who : writers'[id] = writers[id] \cup {who},
         \A task \in Tasks' : task \in Tasks \/ TaskTraced(task)',
         \A t \in Thread : WillPost(app'[t]) = WillPost(app[t]) \/ CallTraced(t)'
  PROVE  SourcesInv'
<1>1. \A task \in Tasks' : TaskTraced(task)'
  BY TracedOn DEF SourcesInv
<1>2. \A t \in Thread : CallTraced(t)'
  BY TracedOn DEF SourcesInv
<1>3. ASSUME NEW id \in ModuleId
      PROVE  IsFiniteSet(writers'[id]) /\ (writers'[id] # {} => id \in Ids')
  <2>1. IsFiniteSet(writers[id]) /\ (writers[id] # {} => id \in Ids)
    BY DEF SourcesInv
  <2>2. CASE writers'[id] = writers[id]
    BY <2>1, <2>2
  <2>3. ASSUME id \in Ids, NEW who, writers'[id] = writers[id] \cup {who}
        PROVE  IsFiniteSet(writers'[id]) /\ (writers'[id] # {} => id \in Ids')
    BY <2>1, <2>3, FS_AddElement
  <2> QED BY <2>2, <2>3
<1> QED BY <1>1, <1>2, <1>3 DEF SourcesInv

\* The shapes are kept where the copies keep theirs, or are of a module that enters.
LEMMA ShapesKept ==
  ASSUME ShapesInv,
         \A i \in DOMAIN modules' :
           \/ Shape(i)'
           \/ /\ i \in DOMAIN modules
              /\ Len(modules'[i].properties) = Len(modules[i].properties)
              /\ Len(PageAfterQueue'[i]) = Len(PageAfterQueue[i]),
         \A task \in Tasks' : task \in Tasks \/ (task.op = "DoRegisterModule" => task.module \in Definition)
  PROVE  ShapesInv'
<1>1. ASSUME NEW i \in DOMAIN modules'
      PROVE  Shape(i)'
  <2>1. CASE ~Shape(i)'
    <3>1. /\ i \in DOMAIN modules
          /\ Len(modules'[i].properties) = Len(modules[i].properties)
          /\ Len(PageAfterQueue'[i]) = Len(PageAfterQueue[i])
      BY <2>1
    <3>2. Shape(i)
      BY <3>1 DEF ShapesInv
    <3> QED BY <3>1, <3>2 DEF Shape
  <2> QED BY <2>1
<1> QED BY <1>1 DEF ShapesInv

-----------------------------------------------------------------------------
(* The steps that change no property.                                      *)

Rests ==
  /\ \A i \in DOMAIN modules' : CopiesKept(i)
  /\ UNCHANGED <<writers, idCounter>>
  /\ \A t \in Thread : WillPost(app'[t]) = WillPost(app[t])
  /\ \/ UNCHANGED loop
     \/ \E task \in Task : /\ Post(task) /\ Mute(task)
                           /\ task.op = "DoRegisterModule" => task.module \in Definition

LEMMA RestsSettle ==
  ASSUME RefInv, SettleInv, Rests
  PROVE  SettleInv'
<1>1. /\ TypeOK /\ loop \in Seq(Task) /\ SourcesInv /\ ShapesInv /\ MeetInv
      /\ \A i \in DOMAIN modules' : CopiesKept(i)
      /\ writers' = writers /\ Ids' = Ids
      /\ \A t \in Thread : WillPost(app'[t]) = WillPost(app[t])
  BY CopiesType DEF SettleInv, Rests, Ids
<1>2. \A task \in Tasks' :
        \/ task \in Tasks
        \/ Mute(task) /\ (task.op = "DoRegisterModule" => task.module \in Definition)
  BY <1>1, TasksOf DEF Rests
<1>3. SourcesInv'
  <2>1. \A task : Mute(task) => TaskTraced(task)'
    BY DEF Mute, TaskTraced
  <2>2. \A task \in Tasks' : task \in Tasks \/ TaskTraced(task)'
    BY <1>2, <2>1
  <2> QED BY <1>1, <2>2, SourcesKept DEF Grows
<1>4. ShapesInv'
  BY <1>1, <1>2, ShapesKept DEF CopiesKept
<1>5. ASSUME NEW id \in DOMAIN modules', Single(writers'[id]), NEW k \in 1..Len(modules'[id].properties)
      PROVE  MeetsAt(id, k)'
  <2>1. CopiesKept(id) /\ writers'[id] = writers[id]
    BY <1>1
  <2>2. MeetsAt(id, k)
    BY <1>1, <1>5, <2>1 DEF MeetInv, Settles, CopiesKept
  <2>3. PICK stored, field : stored = modules[id].properties[k].value /\ field = PageAfterQueue[id][k]
    OBVIOUS
  <2>4. SUFFICES ASSUME Meets(loop, app, stored, field, id, k)
                 PROVE  Meets(loop', app', stored, field, id, k)
    BY <2>1, <2>2, <2>3 DEF MeetsAt, CopiesKept
  <2>5. CASE UNCHANGED loop
    BY <1>1, <2>4, <2>5 DEF Meets, ShownAs, NonePosts
  <2>6. ASSUME NEW task \in Task, Post(task), Mute(task)
        PROVE  Meets(loop', app', stored, field, id, k)
    <3>1. /\ GivenIn(Does(task), "store", id, k) = {}
          /\ GivenIn(Does(task), "show", id, k) = {}
      BY <2>6, MuteGives
    <3>2. Meets(Append(loop, task), app', stored, field, id, k)
      BY <1>1, <2>4, <3>1, MeetsBeside
    <3> QED BY <2>6, <3>2 DEF Post
  <2> QED BY <2>5, <2>6 DEF Rests
<1> QED BY <1>3, <1>4, <1>5 DEF SettleInv, MeetInv, Settles

\* A post outside the module thread of a task that changes no property, or no post.
LEMMA PostsRest ==
  ASSUME UNCHANGED <<modules, page, msgQueue, writers, idCounter>>,
         \A t \in Thread : WillPost(app'[t]) = WillPost(app[t]),
         \/ UNCHANGED loop
         \/ \E task \in Task : /\ Post(task) /\ Mute(task)
                               /\ task.op = "DoRegisterModule" => task.module \in Definition
  PROVE  Rests
<1>1. PageAfterQueue' = PageAfterQueue
  BY DEF PageAfterQueue
<1> QED BY <1>1 DEF Rests, CopiesKept

LEMMA ThreadRests ==
  ASSUME RefInv, CallsInv, NEW t \in Thread,
         \/ \E module \in Definition : ThreadRegisters(t, module)
         \/ ThreadRegistered(t)
         \/ \E id \in Handles : ThreadUnregisters(t, id)
  PROVE  Rests
<1>0. app \in [Thread -> Call] /\ Handles \subseteq ModuleId
  BY IdsEnough DEF RefInv, AppInv, TypeOK, CallersTypeOK
<1> USE DEF Outside, instance, started, Keeps, history
<1>1. ASSUME NEW module \in Definition, ThreadRegisters(t, module)
      PROVE  Rests
  <2> DEFINE task == [op |-> "DoRegisterModule", module |-> module, to |-> {t}]
  <2>1. task \in Task /\ task.module \in Definition
    BY ConstantsAssumption DEF Task
  <2>2. Mute(task)
    <3>1. Does(task) = {}
      BY NothingToDo
    <3> QED BY ONLY <3>1 DEF Mute
  <2>3. Post(task) /\ UNCHANGED <<modules, page, msgQueue, writers, idCounter>>
    BY <1>1 DEF ThreadRegisters, RegisterModule
  <2>4. \A u \in Thread : WillPost(app'[u]) = WillPost(app[u])
    <3>1. app' = [app EXCEPT ![t] = [at |-> "registering"]] /\ app[t].at = "idle"
      BY <1>1 DEF ThreadRegisters, RegisterModule, Idle
    <3> QED BY <1>0, <3>1 DEF WillPost
  <2> HIDE DEF task
  <2> QED BY ONLY <2>1, <2>2, <2>3, <2>4, PostsRest
<1>2. ASSUME ThreadRegistered(t)
      PROVE  Rests
  <2>1. UNCHANGED <<loop, modules, page, msgQueue, writers, idCounter>> /\ app[t].at = "registering"
    BY <1>2 DEF ThreadRegistered, RegisterReturns
  <2>2. \A u \in Thread : WillPost(app'[u]) = WillPost(app[u])
    BY <1>0, <1>2, <2>1 DEF ThreadRegistered, RegisterReturns, WillPost, Idle
  <2> QED BY <2>1, <2>2, PostsRest
<1>3. ASSUME NEW id \in Handles, ThreadUnregisters(t, id)
      PROVE  Rests
  <2> DEFINE task == [op |-> "UnregisterModule", id |-> id]
  <2>1. task \in Task /\ Mute(task) /\ task.op # "DoRegisterModule"
    BY <1>0, ConstantsAssumption DEF Task, Does, Mute
  <2>2. Post(task) /\ UNCHANGED <<app, modules, page, msgQueue, writers, idCounter>>
    BY <1>3 DEF ThreadUnregisters, CallUnregisterModule, callers
  <2> HIDE DEF task
  <2> QED BY ONLY <2>1, <2>2, PostsRest
<1> QED BY <1>1, <1>2, <1>3

LEMMA OthersRest ==
  ASSUME RefInv, CallsInv,
         \/ running.at = "callback" /\ \E id \in CallbackIds : AppUnregisters(id)
         \/ \E module \in Definition : AppRegisters(module)
         \/ AppReturns
         \/ \E r \in Requester :
              \/ \E json \in {CreateLoadModules, Malformed, UnknownType} : PageAsks(r, json)
              \/ PageAnswered(r)
         \/ \E host \in Hosts : Starts(host)
         \/ UNCHANGED allVars
  PROVE  Rests
<1>0. /\ TypeOK /\ PageInv /\ ModuleId \subseteq Int
      /\ running.at = "callback" => CallbackIds \subseteq ModuleId
  BY IdsEnough, ConstantsAssumption DEF RefInv, AppInv
<1> USE DEF InCallback, Outside, instance, callers, started, Keeps, history
<1>1. ASSUME running.at = "callback", NEW id \in CallbackIds, AppUnregisters(id)
      PROVE  Rests
  <2>1. UNCHANGED <<loop, app, idCounter, writers>> /\ Erase(id)
    BY <1>1 DEF AppUnregisters, CallbackUnregisters
  <2>2. PageAfterQueue' = DeleteModule(PageAfterQueue, id)
    <3>1. id \in Int
      BY <1>0, <1>1
    <3>2. <<>> \in PropertyList
      BY DEF PropertyList
    <3> QED BY <1>0, <1>1, <3>1, <3>2, CallShown
  <2>3. DOMAIN PageAfterQueue = DOMAIN modules
    BY CopiesType
  <2>4. \A i \in DOMAIN modules' : CopiesKept(i)
    BY <2>1, <2>2, <2>3 DEF Erase, DeleteModule, Restrict, CopiesKept
  <2> QED BY <2>1, <2>4 DEF Rests
<1>2. ASSUME NEW module \in Definition, AppRegisters(module)
      PROVE  Rests
  <2> DEFINE task == [op |-> "DoRegisterModule", module |-> module, to |-> {}]
  <2>1. task \in Task /\ task.module \in Definition
    BY ConstantsAssumption DEF Task
  <2>2. Mute(task)
    <3>1. Does(task) = {}
      BY NothingToDo
    <3> QED BY ONLY <3>1 DEF Mute
  <2>3. Post(task) /\ UNCHANGED <<app, modules, page, msgQueue, writers, idCounter>>
    BY <1>2 DEF AppRegisters, CallbackRegisters
  <2> HIDE DEF task
  <2> QED BY ONLY <2>1, <2>2, <2>3, PostsRest
<1>3. ASSUME AppReturns
      PROVE  Rests
  <2>1. UNCHANGED <<loop, app, modules, page, msgQueue, writers, idCounter>>
    BY <1>3 DEF AppReturns, CallbackReturns
  <2> QED BY ONLY <2>1, PostsRest
<1>4. ASSUME NEW r \in Requester, NEW json \in {CreateLoadModules, Malformed, UnknownType},
             PageAsks(r, json)
      PROVE  Rests
  <2> DEFINE task == [op |-> "DoProcessJSRequest", json |-> json, to |-> r]
  <2>1. UNCHANGED <<app, modules, page, msgQueue, writers, idCounter>>
        /\ (UNCHANGED loop \/ Post(task))
    BY <1>4 DEF PageAsks, ProcessJSRequest
  <2>2. /\ task \in Task /\ task.op = "DoProcessJSRequest" /\ task.json = json
    BY DEF Task, Request, LoadMsg, CreateLoadModules
  <2>3. json.type # "apply"
    BY DEF CreateLoadModules, Malformed, UnknownType
  <2>4. Mute(task)
    <3>1. Does(task) = {}
      BY <2>2, <2>3, RequestToDo
    <3> QED BY ONLY <3>1 DEF Mute
  <2> HIDE DEF task
  <2>5. task.op # "DoRegisterModule"
    BY <2>2
  <2> QED BY ONLY <2>1, <2>2, <2>4, <2>5, PostsRest
<1>5. ASSUME NEW r \in Requester, PageAnswered(r)
      PROVE  Rests
  <2>1. UNCHANGED <<loop, app, modules, page, msgQueue, writers, idCounter>>
    BY <1>5 DEF PageAnswered, RequestReturns
  <2> QED BY ONLY <2>1, PostsRest
<1>6. ASSUME NEW host \in Hosts, Starts(host)
      PROVE  Rests
  <2> DEFINE task == [op |-> "OnProxyInitialized", host |-> host]
  <2>1. Post(task) /\ UNCHANGED <<app, modules, page, msgQueue, writers, idCounter>>
    BY <1>6 DEF Starts, ProxyInitialized
  <2>2. task \in Task /\ task.op # "DoRegisterModule"
    BY ApplicationAssumption DEF Task
  <2>3. Mute(task)
    <3>1. Does(task) = {}
      BY NothingToDo
    <3> QED BY ONLY <3>1 DEF Mute
  <2> HIDE DEF task
  <2> QED BY ONLY <2>1, <2>2, <2>3, PostsRest
<1>7. ASSUME UNCHANGED allVars
      PROVE  Rests
  <2>1. UNCHANGED <<loop, app, modules, page, msgQueue, writers, idCounter>>
    BY <1>7 DEF allVars, appVars, vars
  <2> QED BY ONLY <2>1, PostsRest
<1> QED BY <1>1, <1>2, <1>3, <1>4, <1>5, <1>6, <1>7

-----------------------------------------------------------------------------
(* The steps that change properties.                                       *)

\* What an application has the id of is a module the counter has passed.
LEMMA WriterAdded ==
  ASSUME WritersInv, NEW id \in ModuleId, NEW who, Writes(id, who)
  PROVE  /\ Grows /\ who \in writers'[id]
         /\ \A i \in ModuleId : writers'[i] = IF i = id THEN writers[i] \cup {who} ELSE writers[i]
BY DEF WritersInv, Writes, Grows

\* One writer now was one writer before.
LEMMA SingleBefore ==
  ASSUME NEW S, NEW T, S \subseteq T, Single(T)
  PROVE  Single(S)
BY DEF Single

LEMMA KnownIds ==
  ASSUME RefInv, CallsInv
  PROVE  /\ DOMAIN modules \subseteq ModuleId /\ Handles \subseteq Ids \cap ModuleId
         /\ running.at = "callback" => CallbackIds \subseteq Ids \cap ModuleId
         /\ DOMAIN page \subseteq Ids
<1>1. AppInv /\ IdsInv /\ TypeOK /\ PageInv
  BY DEF RefInv, AppInv
<1>2. /\ Ids \subseteq ModuleId /\ Handles \subseteq ModuleId
      /\ running.at = "callback" => CallbackIds \subseteq ModuleId
  BY <1>1, IdsEnough
<1>3. Handles \subseteq Ids
  BY <1>1 DEF IdsInv, Handles
<1>4. running.at = "callback" => CallbackIds \subseteq Ids
  BY <1>1, <1>3 DEF IdsInv, CallbackIds
<1>5. DOMAIN modules \subseteq Ids
  BY <1>1 DEF TypeOK, ModulesTypeOK, Ids
<1>6. DOMAIN page \subseteq DOMAIN modules
  <2>1. CASE initialized
    <3>1. msgQueue = <<>> /\ page \in Tabs
      BY <1>1, <2>1 DEF PageInv
    <3>2. PageAfterQueue = page
      BY <3>1, EmptySeq, OnMessagesType DEF PageAfterQueue
    <3> QED BY <1>1, <3>2 DEF PageInv, PageShowsRegistry
  <2>2. CASE ~initialized
    BY <1>1, <2>2 DEF PageInv
  <2> QED BY <2>1, <2>2
<1> QED BY <1>2, <1>3, <1>4, <1>5, <1>6

\* A thread makes the first post of an update.
LEMMA UpdateSettles ==
  ASSUME RefInv, CallsInv, WritersInv, SettleInv, NEW t \in Thread, NEW id \in Handles,
         NEW list \in UpdateList, ThreadUpdates(t, id, list)
  PROVE  SettleInv'
<1> DEFINE task == [op |-> "SavePropertiesList", id |-> id, properties |-> list]
<1>0. /\ TypeOK /\ loop \in Seq(Task) /\ SourcesInv /\ ShapesInv /\ MeetInv
      /\ id \in ModuleId /\ id \in Ids /\ id \in Int /\ list \in PropertyList
      /\ DOMAIN modules \subseteq ModuleId /\ app \in [Thread -> Call]
  BY CopiesType, KnownIds DEF SettleInv, TypeOK, CallersTypeOK
<1>1. task \in Task /\ Does(task) = {<<"store", id, list>>} /\ task.op # "DoRegisterModule"
  BY <1>0 DEF Task, Does
<1>2. /\ Post(task) /\ UNCHANGED <<modules, page, msgQueue, idCounter>> /\ Writes(id, t)
      /\ app[t] = Idle
      /\ app' = [app EXCEPT ![t] = [at |-> "updating", id |-> id, properties |-> list]]
  BY DEF ThreadUpdates, UpdateProperties, Outside, instance, started, Keeps
<1> HIDE DEF task
<1>3. /\ WillPost(app'[t]) = {<<"show", id, list>>} /\ WillPost(app[t]) = {}
      /\ \A u \in Thread \ {t} : WillPost(app'[u]) = WillPost(app[u])
  BY <1>0, <1>2 DEF WillPost, Idle
<1>4. PageAfterQueue' = PageAfterQueue /\ modules' = modules /\ Ids' = Ids
  BY <1>2 DEF PageAfterQueue, Ids
<1>5. Tasks' = Tasks \cup {task}
  BY <1>0, <1>1, <1>2, TasksOf
<1>6. /\ Grows /\ t \in writers'[id]
      /\ \A i \in ModuleId : writers'[i] = IF i = id THEN writers[i] \cup {t} ELSE writers[i]
  BY <1>0, <1>2, WriterAdded
<1>7. SourcesInv'
  <2>1. t # "callback"
    BY WritersAssumption
  <2>2. TaskTraced(task)'
    BY <1>1, <1>6, <2>1 DEF TaskTraced
  <2>3. CallTraced(t)'
    BY <1>3, <1>6 DEF CallTraced
  <2>4. \A i \in ModuleId : \/ writers'[i] = writers[i]
                            \/ i \in Ids /\ \E who : writers'[i] = writers[i] \cup {who}
    BY <1>0, <1>6
  <2>5. \A u \in Thread : WillPost(app'[u]) = WillPost(app[u]) \/ CallTraced(u)'
    BY <1>3, <2>3
  <2>6. \A other \in Tasks' : other \in Tasks \/ TaskTraced(other)'
    BY <1>5, <2>2
  <2> QED BY ONLY RefInv, <1>0, <1>4, <1>6, <2>4, <2>5, <2>6, SourcesKept
<1>8. ShapesInv'
  BY <1>0, <1>1, <1>4, <1>5, ShapesKept
<1>9. ASSUME NEW i \in DOMAIN modules', Single(writers'[i]), NEW k \in 1..Len(modules'[i].properties)
      PROVE  MeetsAt(i, k)'
  <2>1. i \in DOMAIN modules /\ Single(writers[i])
    BY <1>0, <1>4, <1>6, <1>9, SingleBefore DEF Grows
  <2>2. MeetsAt(i, k)
    BY <1>0, <1>4, <1>9, <2>1 DEF MeetInv, Settles
  <2>3. PICK stored, field : stored = modules[i].properties[k].value /\ field = PageAfterQueue[i][k]
    OBVIOUS
  <2>4. SUFFICES ASSUME Meets(loop, app, stored, field, i, k)
                 PROVE  Meets(loop', app', stored, field, i, k)
    BY <1>4, <2>2, <2>3 DEF MeetsAt
  <2>5. Meets(Append(loop, task), app', stored, field, i, k)
    BY <1>0, <1>1, <1>3, <2>4, MeetsUpdate
  <2> QED BY <1>2, <2>5 DEF Post
<1> QED BY <1>7, <1>8, <1>9 DEF SettleInv, MeetInv, Settles

\* Who gives a value that waits.
LEMMA GivenSource ==
  ASSUME SourcesInv, NEW id \in ModuleId, NEW k
  PROVE  /\ \A task \in Tasks :
              /\ GivenIn(Does(task), "store", id, k) # {} => ~(writers[id] \subseteq {"callback"})
              /\ GivenIn(Does(task), "show", id, k) # {} => writers[id] \cap Thread # {}
         /\ \A t \in Thread : GivenIn(WillPost(app[t]), "show", id, k) # {} => t \in writers[id]
<1>1. \A changes, kind : GivenIn(changes, kind, id, k) # {} =>
         \E list \in UpdateList : <<kind, id, list>> \in changes
  BY DEF GivenIn
<1>2. /\ \A task \in Tasks : TaskTraced(task)
      /\ \A t \in Thread : CallTraced(t)
  BY DEF SourcesInv
<1> QED BY <1>1, <1>2 DEF TaskTraced, CallTraced

\* Nothing gives a value to a module that its callbacks or the page alone have written.
LEMMA NobodyGives ==
  ASSUME RefInv, SourcesInv, NEW id \in ModuleId, NEW k
  PROVE  /\ writers[id] \cap Thread = {} => NoneGives(loop, "show", id, k) /\ NonePosts(app, id, k)
         /\ writers[id] \subseteq {"callback"} => NoneGives(loop, "store", id, k)
<1>1. \A i \in 1..Len(loop) : loop[i] \in Tasks
  BY CopiesType, MembersOf DEF Tasks
<1> QED BY <1>1, GivenSource DEF NoneGives, NonePosts

\* It makes the second.
LEMMA UpdatedSettles ==
  ASSUME RefInv, CallsInv, WritersInv, SettleInv, NEW t \in Thread, ThreadUpdated(t)
  PROVE  SettleInv'
<1>0. /\ TypeOK /\ loop \in Seq(Task) /\ SourcesInv /\ ShapesInv /\ MeetInv
      /\ DOMAIN modules \subseteq ModuleId /\ app \in [Thread -> Call] /\ WillPost(app[t]) \subseteq Change
  BY CopiesType, KnownIds DEF SettleInv, TypeOK, CallersTypeOK, RefInv, ChangesInv
<1>1. /\ app[t].at = "updating" /\ app' = [app EXCEPT ![t] = Idle]
      /\ Post([op |-> "HandleMessage", msg |-> CreatePropertyUpdated(app[t].id, app[t].properties)])
      /\ UNCHANGED <<modules, page, msgQueue, idCounter, writers>>
  BY DEF ThreadUpdated, UpdatePropertiesReturns, Outside, instance, started, Keeps, history
<1>2. PICK id, list : id = app[t].id /\ list = app[t].properties
  OBVIOUS
<1>3. WillPost(app[t]) = {<<"show", id, list>>} /\ id \in ModuleId /\ list \in UpdateList
  <2>1. WillPost(app[t]) = {<<"show", id, list>>}
    BY <1>1, <1>2 DEF WillPost
  <2> QED BY <1>0, <2>1, ChangesOf
<1> DEFINE task == [op |-> "HandleMessage", msg |-> CreatePropertyUpdated(id, list)]
<1>4. task \in Task /\ Does(task) = {<<"show", id, list>>} /\ task.op # "DoRegisterModule" /\ Post(task)
  BY <1>1, <1>2, <1>3, ConstantsAssumption DEF Task, Does, CreatePropertyUpdated, UpdateMsg
<1> HIDE DEF task
<1>5. WillPost(app'[t]) = {} /\ \A u \in Thread \ {t} : WillPost(app'[u]) = WillPost(app[u])
  BY <1>0, <1>1 DEF WillPost, Idle
<1>6. PageAfterQueue' = PageAfterQueue /\ modules' = modules /\ Ids' = Ids /\ writers' = writers
  BY <1>1 DEF PageAfterQueue, Ids
<1>7. Tasks' = Tasks \cup {task}
  BY <1>0, <1>4, TasksOf
<1>8. t \in writers[id]
  BY <1>0, <1>3 DEF SourcesInv, CallTraced
<1>9. SourcesInv'
  <2>1. TaskTraced(task)'
    BY <1>4, <1>6, <1>8 DEF TaskTraced
  <2>2. CallTraced(t)'
    BY <1>5 DEF CallTraced
  <2> QED BY <1>0, <1>5, <1>6, <1>7, <2>1, <2>2, SourcesKept DEF Grows
<1>10. ShapesInv'
  BY <1>0, <1>4, <1>6, <1>7, ShapesKept
<1>11. ASSUME NEW i \in DOMAIN modules', Single(writers'[i]), NEW k \in 1..Len(modules'[i].properties)
      PROVE  MeetsAt(i, k)'
  <2>1. i \in DOMAIN modules /\ i \in ModuleId /\ Single(writers[i])
    BY <1>0, <1>6, <1>11
  <2>2. MeetsAt(i, k)
    BY <1>0, <1>6, <1>11, <2>1 DEF MeetInv, Settles
  <2>3. PICK stored, field : stored = modules[i].properties[k].value /\ field = PageAfterQueue[i][k]
    OBVIOUS
  <2>4. SUFFICES ASSUME Meets(loop, app, stored, field, i, k)
                 PROVE  Meets(loop', app', stored, field, i, k)
    BY <1>6, <2>2, <2>3 DEF MeetsAt
  <2>5. GivenIn(Does(task), "store", i, k) = {}
        /\ (i # id => GivenIn(Does(task), "show", i, k) = {})
    <3>1. Only(Does(task), "show", id, list)
      BY <1>3, <1>4 DEF Only
    <3> QED BY <3>1, GivesOne
  <2>6. i = id => \A u \in Thread \ {t} : GivenIn(WillPost(app[u]), "show", i, k) = {}
    BY <1>0, <1>8, <2>1, GivenSource DEF Single
  <2>7. Does(task) = WillPost(app[t])
    BY <1>3, <1>4
  <2>8. GivenIn(Does(task), "show", i, k) # {} =>
          \A u \in Thread \ {t} : GivenIn(WillPost(app[u]), "show", i, k) = {}
    BY <2>5, <2>6
  <2>9. Meets(Append(loop, task), app', stored, field, i, k)
    BY ONLY <1>0, <1>4, <1>5, <2>4, <2>5, <2>7, <2>8, MeetsUpdated
  <2> QED BY <1>4, <2>9 DEF Post
<1> QED BY <1>9, <1>10, <1>11 DEF SettleInv, MeetInv, Settles

\* A callback stores an update and pushes it at once.
LEMMA CallbackSettles ==
  ASSUME RefInv, CallsInv, WritersInv, SettleInv, running.at = "callback", NEW id \in CallbackIds,
         NEW list \in UpdateList, AppUpdates(id, list)
  PROVE  SettleInv'
<1>0. /\ TypeOK /\ PageInv /\ loop \in Seq(Task) /\ SourcesInv /\ ShapesInv /\ MeetInv
      /\ id \in ModuleId /\ id \in Ids /\ id \in Int /\ list \in PropertyList
      /\ DOMAIN modules \subseteq ModuleId
  BY CopiesType, KnownIds DEF SettleInv
<1>1. /\ UNCHANGED <<loop, app, idCounter>> /\ SavePropertiesList(id, list) /\ Writes(id, "callback")
  BY DEF AppUpdates, CallbackUpdates, InCallback, callers, started
<1>2. PageAfterQueue' = SetModulePoperties(PageAfterQueue, id, list)
  BY <1>0, CallShown
<1>3. PICK stores, shows : /\ stores = {<<"store", id, list>>} /\ Only(stores, "store", id, list)
                           /\ shows = {<<"show", id, list>>} /\ Only(shows, "show", id, list)
  BY DEF Only
<1>4. /\ DOMAIN modules' = DOMAIN modules
      /\ \A i \in DOMAIN modules :
           /\ Len(modules'[i].properties) = Len(modules[i].properties)
           /\ \A k \in 1..Len(modules[i].properties) : StoredSo(stores, i, k)
  BY <1>1, <1>3, StoreGives
<1>5. \A i \in DOMAIN modules :
        /\ Len(PageAfterQueue'[i]) = Len(PageAfterQueue[i])
        /\ \A k \in 1..Len(modules[i].properties) : ShownSo(shows, i, k)
  BY <1>0, <1>2, <1>3, ShowGives
<1>6. /\ Grows /\ "callback" \in writers'[id]
      /\ \A i \in ModuleId : writers'[i] = IF i = id THEN writers[i] \cup {"callback"} ELSE writers[i]
  BY <1>0, <1>1, WriterAdded
<1>7. Tasks' = Tasks /\ Ids' = Ids
  BY <1>0, <1>1, TasksOf DEF Ids
<1>8. SourcesInv'
  <2>1. \A i \in ModuleId : \/ writers'[i] = writers[i]
                            \/ i \in Ids /\ \E who : writers'[i] = writers[i] \cup {who}
    BY <1>0, <1>6
  <2>2. \A u \in Thread : WillPost(app'[u]) = WillPost(app[u])
    BY <1>1
  <2> QED BY ONLY RefInv, <1>0, <1>6, <1>7, <2>1, <2>2, SourcesKept
<1>9. ShapesInv'
  BY <1>0, <1>4, <1>5, <1>7, ShapesKept
<1>10. ASSUME NEW i \in DOMAIN modules', Single(writers'[i]), NEW k \in 1..Len(modules'[i].properties),
              ~modules'[i].properties[k].read_only
       PROVE  Meets(loop', app', modules'[i].properties[k].value, PageAfterQueue'[i][k], i, k)
  <2>1. /\ i \in DOMAIN modules /\ i \in ModuleId /\ Single(writers[i])
        /\ k \in 1..Len(modules[i].properties)
    BY <1>0, <1>4, <1>6, <1>10, SingleBefore DEF Grows
  <2>2. PICK stored, holds, field, has :
          /\ stored = modules[i].properties[k].value /\ holds = modules'[i].properties[k].value
          /\ field = PageAfterQueue[i][k] /\ has = PageAfterQueue'[i][k]
    OBVIOUS
  <2>3. /\ StoredSo(stores, i, k) /\ ShownSo(shows, i, k)
    BY <1>4, <1>5, <2>1
  <2>4. ~modules[i].properties[k].read_only
    BY <1>10, <2>3 DEF StoredSo
  <2>5. Meets(loop, app, stored, field, i, k)
    BY <1>0, <2>1, <2>2, <2>4 DEF MeetInv, Settles, MeetsAt
  <2>6. GivenIn(stores, "store", i, k) = GivenIn(shows, "show", i, k)
        /\ (i # id => GivenIn(stores, "store", i, k) = {})
    <3>1. GivenIn(stores, "store", i, k) = IF i = id THEN GivenBy(list, k) ELSE {}
      BY <1>3, GivesOne
    <3>2. GivenIn(shows, "show", i, k) = IF i = id THEN GivenBy(list, k) ELSE {}
      BY <1>3, GivesOne
    <3> QED BY <3>1, <3>2
  <2>7. CASE GivenIn(stores, "store", i, k) = {}
    <3>1. holds = stored /\ has = field
      BY <2>2, <2>3, <2>6, <2>7 DEF StoredSo, ShownSo
    <3> QED BY <1>1, <2>2, <2>5, <3>1
  <2>8. CASE GivenIn(stores, "store", i, k) # {}
    <3>1. PICK v \in GivenIn(stores, "store", i, k) : v \in Value
      BY <2>8 DEF GivenIn
    <3>2. holds = v /\ Looks(has, v)
      BY <2>2, <2>3, <2>4, <2>6, <3>1 DEF StoredSo, ShownSo
    <3>3. writers[i] \subseteq {"callback"} /\ writers[i] \cap Thread = {}
      <4>1. i = id
        BY <2>6, <2>8
      <4>2. writers'[i] = {"callback"}
        BY <1>6, <1>10, <4>1 DEF Single
      <4>3. writers[i] \subseteq {"callback"}
        BY <1>6, <2>1, <4>1, <4>2
      <4> QED BY <4>3, WritersAssumption
    <3>4. NoneGives(loop, "store", i, k) /\ NoneGives(loop, "show", i, k) /\ NonePosts(app, i, k)
      BY <1>0, <2>1, <3>3, NobodyGives
    <3>5. Meets(loop, app, v, has, i, k)
      BY <3>1, <3>2, <3>4, MeetsFresh
    <3> QED BY <1>1, <2>2, <3>2, <3>5
  <2> QED BY <2>7, <2>8
<1>11. MeetInv'
  BY <1>10 DEF MeetInv, Settles, MeetsAt
<1> QED BY <1>8, <1>9, <1>11 DEF SettleInv

\* It shows already what will be stored.
LEMMA AppliesSettles ==
  ASSUME RefInv, CallsInv, WritersInv, SettleInv, NEW id \in DOMAIN page \cap ModuleId,
         NEW list \in UpdateList,
         HostApplies(id, list) \/ \E r \in Requester : PageApplies(r, id, list)
  PROVE  SettleInv'
<1>0. /\ TypeOK /\ loop \in Seq(Task) /\ SourcesInv /\ ShapesInv /\ MeetInv
      /\ id \in ModuleId /\ id \in Ids /\ DOMAIN modules \subseteq ModuleId
  BY CopiesType, KnownIds DEF SettleInv
<1>1. /\ UNCHANGED <<app, modules, idCounter>> /\ Writes(id, "page")
      /\ PageAfterQueue' = SetModulePoperties(PageAfterQueue, id, list)
  BY AppliesPosts
<1>2. PICK task \in Task : Post(task) /\ Does(task) = {<<"store", id, list>>} /\ Unwaited(task)
  BY AppliesPosts
<1>3. Only(Does(task), "store", id, list)
  BY <1>2 DEF Only
<1>4. PICK shows : Only(shows, "show", id, list)
  BY DEF Only
<1>5. \A i \in DOMAIN modules :
        /\ Len(PageAfterQueue'[i]) = Len(PageAfterQueue[i])
        /\ \A k \in 1..Len(modules[i].properties) : ShownSo(shows, i, k)
  BY <1>0, <1>1, <1>4, ShowGives
<1>6. /\ Grows /\ "page" \in writers'[id]
      /\ \A i \in ModuleId : writers'[i] = IF i = id THEN writers[i] \cup {"page"} ELSE writers[i]
  BY <1>0, <1>1, WriterAdded
<1>7. Tasks' = Tasks \cup {task} /\ Ids' = Ids
  BY <1>0, <1>1, <1>2, TasksOf DEF Ids
<1>8. task.op # "DoRegisterModule"
  <2>1. Does(task) # {}
    BY ONLY <1>2
  <2> QED BY <2>1, NothingToDo
<1>9. SourcesInv'
  <2>1. TaskTraced(task)'
    BY <1>2, <1>6 DEF TaskTraced
  <2>2. \A i \in ModuleId : \/ writers'[i] = writers[i]
                            \/ i \in Ids /\ \E who : writers'[i] = writers[i] \cup {who}
    BY <1>0, <1>6
  <2>3. \A u \in Thread : WillPost(app'[u]) = WillPost(app[u])
    BY <1>1
  <2>4. \A other \in Tasks' : other \in Tasks \/ TaskTraced(other)'
    BY <1>7, <2>1
  <2> QED BY ONLY RefInv, <1>0, <1>6, <1>7, <2>2, <2>3, <2>4, SourcesKept
<1>10. ShapesInv'
  BY <1>0, <1>1, <1>5, <1>7, <1>8, ShapesKept
<1>11. ASSUME NEW i \in DOMAIN modules', Single(writers'[i]), NEW k \in 1..Len(modules'[i].properties)
      PROVE  MeetsAt(i, k)'
  <2>1. i \in DOMAIN modules /\ i \in ModuleId /\ Single(writers[i])
    BY <1>0, <1>1, <1>6, <1>11, SingleBefore DEF Grows
  <2>2. MeetsAt(i, k)
    BY <1>0, <1>1, <1>11, <2>1 DEF MeetInv, Settles
  <2>3. PICK stored, field, has :
          /\ stored = modules[i].properties[k].value
          /\ field = PageAfterQueue[i][k] /\ has = PageAfterQueue'[i][k]
    OBVIOUS
  <2>4. SUFFICES ASSUME Meets(loop, app, stored, field, i, k)
                 PROVE  Meets(loop', app, stored, has, i, k)
    BY <1>1, <2>2, <2>3 DEF MeetsAt
  <2>5. ShownSo(shows, i, k)
    BY <1>1, <1>5, <1>11, <2>1
  <2>6. /\ GivenIn(Does(task), "store", i, k) = IF i = id THEN GivenBy(list, k) ELSE {}
        /\ GivenIn(Does(task), "show", i, k) = {}
    BY <1>3, GivesOne
  <2>7. GivenIn(shows, "show", i, k) = IF i = id THEN GivenBy(list, k) ELSE {}
    BY <1>4, GivesOne
  <2>8. CASE GivenIn(Does(task), "store", i, k) = {}
    <3>1. has = field
      BY <2>3, <2>5, <2>6, <2>7, <2>8 DEF ShownSo
    <3>2. Meets(Append(loop, task), app, stored, has, i, k)
      BY <1>0, <2>4, <2>6, <2>8, <3>1, MeetsBeside
    <3> QED BY <1>2, <3>2 DEF Post
  <2>9. CASE GivenIn(Does(task), "store", i, k) # {}
    <3>1. \A v \in GivenIn(Does(task), "store", i, k) : Looks(has, v)
      BY <2>3, <2>5, <2>6, <2>7 DEF ShownSo
    <3>2. writers[i] \cap Thread = {}
      <4>1. "page" \in writers'[i] /\ writers[i] \subseteq writers'[i]
        BY <1>6, <2>1, <2>6, <2>9
      <4>2. \A who \in writers[i] : who = "page"
        BY <1>11, <4>1 DEF Single
      <4> QED BY <4>2, WritersAssumption
    <3>3. NoneGives(loop, "show", i, k) /\ NonePosts(app, i, k)
      BY <1>0, <2>1, <3>2, NobodyGives
    <3>4. Meets(Append(loop, task), app, stored, has, i, k)
      BY ONLY <1>0, <1>2, <2>4, <2>6, <2>9, <3>1, <3>3, MeetsApplied
    <3> QED BY <1>2, <3>4 DEF Post
  <2> QED BY <2>8, <2>9
<1> QED BY <1>9, <1>10, <1>11 DEF SettleInv, MeetInv, Settles

-----------------------------------------------------------------------------
(* The tasks of the module thread.                                         *)

\* A module after a task that makes these changes, and one that no property of changes.
Renewed(changes, i) ==
  /\ i \in DOMAIN modules
  /\ Len(modules'[i].properties) = Len(modules[i].properties)
  /\ Len(PageAfterQueue'[i]) = Len(PageAfterQueue[i])
  /\ \A k \in 1..Len(modules[i].properties) : StoredSo(changes, i, k) /\ ShownSo(changes, i, k)

LEMMA KeptIsRenewed ==
  ASSUME NEW i, CopiesKept(i), NEW task, Mute(task)
  PROVE  Renewed(Does(task), i)
<1>1. \A k : GivenIn(Does(task), "store", i, k) = {} /\ GivenIn(Does(task), "show", i, k) = {}
  BY MuteGives
<1> QED BY <1>1 DEF Renewed, StoredSo, ShownSo, CopiesKept

\* A task makes the changes that waited.
LEMMA TaskSettles ==
  ASSUME RefInv, CallsInv, SettleInv, Runs, Ids \subseteq Ids',
         \A i \in DOMAIN modules' : \/ Renewed(Does(Head(loop)), i)
                                    \/ Shape(i)' /\ Settles(i)'
  PROVE  SettleInv'
<1>0. /\ TypeOK /\ loop \in Seq(Task) /\ loop # <<>> /\ SourcesInv /\ ShapesInv /\ MeetInv
  BY CopiesType, TaskView DEF SettleInv
<1>1. loop' = Tail(loop) /\ app' = app /\ writers' = writers
  BY <1>0 DEF Runs, RunTask, OnProxyInitialized, DoRegisterModule, UnregisterModule, SaveUpdate,
     PushUpdate, DoProcessJSRequest, PassPeerUpdate, Takes, callers, history
<1>2. Tasks' \subseteq Tasks
  BY <1>0, <1>1, TasksOf
<1>3. SourcesInv'
  BY <1>0, <1>1, <1>2, SourcesKept DEF Grows
<1>4. ShapesInv'
  BY <1>0, <1>2, ShapesKept DEF Renewed
<1>5. ASSUME NEW i \in DOMAIN modules', Single(writers'[i]), NEW k \in 1..Len(modules'[i].properties),
             Renewed(Does(Head(loop)), i), ~modules'[i].properties[k].read_only
       PROVE  Meets(loop', app', modules'[i].properties[k].value, PageAfterQueue'[i][k], i, k)
  <2>1. PICK changes : changes = Does(Head(loop))
    OBVIOUS
  <2>2. /\ i \in DOMAIN modules /\ Single(writers[i]) /\ k \in 1..Len(modules[i].properties)
        /\ StoredSo(changes, i, k) /\ ShownSo(changes, i, k)
    BY <1>1, <1>5, <2>1 DEF Renewed
  <2>3. PICK stored, holds, field, has :
          /\ stored = modules[i].properties[k].value /\ holds = modules'[i].properties[k].value
          /\ field = PageAfterQueue[i][k] /\ has = PageAfterQueue'[i][k]
    OBVIOUS
  <2>4. ~modules[i].properties[k].read_only
    BY <1>5, <2>2 DEF StoredSo
  <2>5. Meets(loop, app, stored, field, i, k)
    BY <1>0, <2>2, <2>3, <2>4 DEF MeetInv, Settles, MeetsAt
  <2>6. /\ GivenIn(changes, "store", i, k) = {} => holds = stored
        /\ \A v \in GivenIn(changes, "store", i, k) : holds = v
    BY <2>2, <2>3, <2>4 DEF StoredSo
  <2>7. /\ GivenIn(changes, "show", i, k) = {} => has = field
        /\ \A v \in GivenIn(changes, "show", i, k) : Looks(has, v)
    BY <2>2, <2>3 DEF ShownSo
  <2>8. Meets(Tail(loop), app, holds, has, i, k)
    BY ONLY <1>0, <2>1, <2>5, <2>6, <2>7, MeetsTail
  <2> QED BY <1>1, <2>3, <2>8
<1>6. MeetInv'
  BY <1>5 DEF MeetInv, Settles, MeetsAt
<1> QED BY <1>3, <1>4, <1>6 DEF SettleInv

\* A new module is shown as it is stored, and nobody has written it.
LEMMA RegisterSettles ==
  ASSUME UpdatesFit, RefInv, CallsInv, SettleInv, Runs, DoRegisterModule
  PROVE  SettleInv'
<1>1. PICK task, module, n : task = Head(loop) /\ module = Head(loop).module /\ n = idCounter
  OBVIOUS
<1>2. /\ TypeOK /\ PageInv /\ loop \in Seq(Task) /\ loop # <<>> /\ running = Idle /\ task \in Tasks
      /\ task.op = "DoRegisterModule" /\ task.module = module
      /\ n \in Nat /\ n \in ModuleId
      /\ SourcesInv /\ ShapesInv /\ loop' = Tail(loop) /\ app' = app /\ writers' = writers
      /\ idCounter' = idCounter + 1
  <2>1. DoRegisterModule => idCounter \in ModuleId
    BY IdsEnough DEF RefInv, DoRegisterModule, Takes
  <2> QED BY <1>1, <2>1, CopiesType, TaskView
          DEF SettleInv, DoRegisterModule, Takes, TypeOK, ModulesTypeOK, Runs, callers, history
<1>3. module \in Definition /\ module \in ModuleType /\ module.properties \in Seq(Property)
  BY <1>2, ConstantsAssumption DEF ShapesInv, ModuleType
<1>4. n \notin Ids /\ Ids \subseteq Ids' /\ n \notin DOMAIN modules
      /\ DOMAIN PageAfterQueue = DOMAIN modules
  BY <1>1, <1>2, CopiesType DEF Ids
<1>5. modules' = [i \in DOMAIN modules \cup {n} |->
                     IF i = n THEN module ELSE modules[i]]
  BY <1>1, <1>4 DEF DoRegisterModule, Insert
<1>6. PageAfterQueue' = [i \in DOMAIN modules \cup {n} |->
                           IF i = n THEN AddProperties(module.properties) ELSE PageAfterQueue[i]]
  <2>1. PageAfterQueue' = OnMessage(PageAfterQueue, CreateModuleAdded(n, module))
    BY <1>1, <1>2, TaskShown
  <2>2. OnMessage(PageAfterQueue, CreateModuleAdded(n, module))
          = CrateModule(PageAfterQueue, CreateModuleAdded(n, module))
    BY DEF OnMessage, CreateModuleAdded
  <2>3. CreateModuleAdded(n, module).id = n
        /\ CreateModuleAdded(n, module).properties = module.properties
    BY DEF CreateModuleAdded
  <2> QED BY <1>4, <2>1, <2>2, <2>3 DEF CrateModule
<1>7. ASSUME NEW i \in DOMAIN modules
      PROVE  Renewed(Does(Head(loop)), i)
  <2>1. Mute(Head(loop))
    <3>1. Does(Head(loop)) = {}
      BY <1>1, <1>2, NothingToDo
    <3> QED BY ONLY <3>1 DEF Mute
  <2>2. CopiesKept(i)
    BY <1>4, <1>5, <1>6 DEF CopiesKept
  <2> QED BY <2>1, <2>2, KeptIsRenewed
<1>8. Shape(n)'
  <2>1. Len(AddProperties(module.properties)) = Len(module.properties)
    BY <1>3, AddPropertiesType
  <2>2. \A list \in UpdateList : AllWithin(list, Len(module.properties))
    BY <1>3 DEF UpdatesFit, AllWithin
  <2>3. modules'[n].properties = module.properties /\ PageAfterQueue'[n] = AddProperties(module.properties)
    BY <1>5, <1>6
  <2> QED BY <2>1, <2>2, <2>3 DEF Shape
<1>9. ASSUME NEW k \in 1..Len(modules'[n].properties)
      PROVE  MeetsAt(n, k)'
  <2>1. k \in 1..Len(module.properties) /\ module.properties[k] \in Property
    BY <1>3, <1>5, <1>9, ElementOfSeq
  <2>2. PICK property \in Property : property = module.properties[k]
    BY <2>1
  <2>3. PICK field : field = [type |-> property.type, text |-> Face(property.type, property.value)]
    OBVIOUS
  <2>4. AddProperties(module.properties)[k] = field
    BY <1>3, <2>1, <2>2, <2>3, LenProperties DEF AddProperties
  <2>5. /\ modules'[n].properties[k] = property
        /\ PageAfterQueue'[n][k] = field
    BY <1>5, <1>6, <2>2, <2>4
  <2>6. property.value \in Value /\ Looks(field, property.value)
    BY <2>3, FieldLooks DEF Property
  <2>7. writers[n] = {}
    BY <1>2, <1>4 DEF SourcesInv
  <2>8. NoneGives(loop, "store", n, k) /\ NoneGives(loop, "show", n, k) /\ NonePosts(app, n, k)
    BY <1>2, <2>7, NobodyGives
  <2>9. Meets(loop, app, property.value, field, n, k)
    BY <2>6, <2>8, MeetsFresh
  <2>10. Meets(Tail(loop), app, property.value, field, n, k)
    <3>1. /\ GivenIn(Does(Head(loop)), "store", n, k) = {}
          /\ GivenIn(Does(Head(loop)), "show", n, k) = {}
      <4>1. Does(Head(loop)) = {}
        BY <1>1, <1>2, NothingToDo
      <4> QED BY ONLY <4>1 DEF GivenIn
    <3> QED BY ONLY <1>2, <2>9, <3>1, MeetsTail
  <2> QED BY <1>2, <2>5, <2>10 DEF MeetsAt
<1>10. \A i \in DOMAIN modules' :
         \/ Renewed(Does(Head(loop)), i)
         \/ Shape(i)' /\ Settles(i)'
  <2>1. Settles(n)'
    BY <1>9 DEF Settles
  <2> QED BY <1>5, <1>7, <1>8, <2>1
<1> QED BY <1>4, <1>10, TaskSettles

\* A task that stores an update, and one that shows it.
LEMMA StoreSettles ==
  ASSUME RefInv, CallsInv, SettleInv, Runs, UNCHANGED idCounter, NEW id, NEW list,
         Only(Does(Head(loop)), "store", id, list), SavePropertiesList(id, list),
         PageAfterQueue' = PageAfterQueue
  PROVE  SettleInv'
<1>1. PICK changes : changes = Does(Head(loop)) /\ Only(changes, "store", id, list)
  OBVIOUS
<1>2. /\ DOMAIN modules' = DOMAIN modules
      /\ \A i \in DOMAIN modules :
           /\ Len(modules'[i].properties) = Len(modules[i].properties)
           /\ \A k \in 1..Len(modules[i].properties) : StoredSo(changes, i, k)
  BY <1>1, StoreGives
<1>3. \A i, k : GivenIn(changes, "show", i, k) = {}
  BY <1>1, GivesOne
<1>4. \A i \in DOMAIN modules' : Renewed(changes, i)
  BY <1>2, <1>3 DEF Renewed, ShownSo
<1>5. Ids \subseteq Ids'
  BY DEF Ids
<1> QED BY <1>1, <1>4, <1>5, TaskSettles

LEMMA ShowSettles ==
  ASSUME RefInv, CallsInv, SettleInv, Runs, UNCHANGED <<idCounter, modules>>, NEW id, NEW list,
         Only(Does(Head(loop)), "show", id, list),
         PageAfterQueue' = SetModulePoperties(PageAfterQueue, id, list)
  PROVE  SettleInv'
<1>1. PICK changes : changes = Does(Head(loop)) /\ Only(changes, "show", id, list)
  OBVIOUS
<1>2. \A i \in DOMAIN modules :
        /\ Len(PageAfterQueue'[i]) = Len(PageAfterQueue[i])
        /\ \A k \in 1..Len(modules[i].properties) : ShownSo(changes, i, k)
  BY <1>1, ShowGives DEF SettleInv
<1>3. \A i, k : GivenIn(changes, "store", i, k) = {}
  BY <1>1, GivesOne
<1>4. \A i \in DOMAIN modules' : Renewed(changes, i)
  BY <1>2, <1>3 DEF Renewed, StoredSo
<1>5. Ids \subseteq Ids'
  BY DEF Ids
<1> QED BY <1>1, <1>4, <1>5, TaskSettles

\* A task that does neither.
LEMMA MuteSettles ==
  ASSUME RefInv, CallsInv, SettleInv, Runs, UNCHANGED idCounter, Mute(Head(loop)),
         \A i \in DOMAIN modules' : CopiesKept(i)
  PROVE  SettleInv'
<1>1. \A i \in DOMAIN modules' : Renewed(Does(Head(loop)), i)
  BY KeptIsRenewed
<1>2. Ids \subseteq Ids'
  BY DEF Ids
<1> QED BY <1>1, <1>2, TaskSettles

LEMMA UpdateTaskSettles ==
  ASSUME RefInv, CallsInv, SettleInv, Runs, SaveUpdate \/ PushUpdate
  PROVE  SettleInv'
<1>1. PICK task : task = Head(loop)
  OBVIOUS
<1>2. TypeOK /\ PageInv /\ task \in Task /\ Does(task) \subseteq Change /\ UNCHANGED idCounter
  BY <1>1, TaskView DEF RefInv, AppInv, ChangesInv, SaveUpdate, PushUpdate, started
<1>3. CASE SaveUpdate
  <2>1. PICK id, list : id = task.id /\ list = task.properties
    OBVIOUS
  <2>2. task.op = "SavePropertiesList" /\ SavePropertiesList(id, list)
    BY <1>1, <1>3, <2>1 DEF SaveUpdate, Takes
  <2>3. Only(Does(task), "store", id, list)
    <3>1. Does(task) = {<<"store", id, list>>}
      BY <2>1, <2>2 DEF Does
    <3> QED BY <1>2, <3>1, ChangesOf DEF Only
  <2>4. PageAfterQueue' = PageAfterQueue
    <3>1. ~(DoRegisterModule \/ UnregisterModule \/ PushUpdate)
      BY <1>1, <2>2 DEF DoRegisterModule, UnregisterModule, PushUpdate, Takes
    <3> QED BY <1>2, <3>1, TaskShown
  <2> QED BY <1>1, <1>2, <2>2, <2>3, <2>4, StoreSettles
<1>4. CASE PushUpdate
  <2>1. PICK msg, id, list : msg = task.msg /\ id = task.msg.id /\ list = task.msg.properties
    OBVIOUS
  <2>2. /\ task.op = "HandleMessage" /\ UNCHANGED modules /\ msg \in UpdateMsg
        /\ PageAfterQueue' = OnMessage(PageAfterQueue, msg)
    BY <1>1, <1>2, <1>4, <2>1, TaskShown DEF PushUpdate, Takes
  <2>3. PageAfterQueue' = SetModulePoperties(PageAfterQueue, id, list)
    <3>1. msg.type = "property_update"
      BY <2>2 DEF UpdateMsg
    <3>2. OnMessage(PageAfterQueue, msg) = SetModulePoperties(PageAfterQueue, msg.id, msg.properties)
      BY <3>1 DEF OnMessage
    <3> QED BY <2>1, <2>2, <3>2
  <2>4. Only(Does(task), "show", id, list)
    <3>1. Does(task) = {<<"show", id, list>>}
      BY <2>1, <2>2 DEF Does
    <3> QED BY <1>2, <3>1, ChangesOf DEF Only
  <2> QED BY <1>1, <1>2, <2>2, <2>3, <2>4, ShowSettles
<1> QED BY <1>3, <1>4

LEMMA RequestSettles ==
  ASSUME RefInv, CallsInv, SettleInv, Runs, DoProcessJSRequest \/ PassPeerUpdate
  PROVE  SettleInv'
<1>1. PICK task, json : task = Head(loop) /\ json = Head(loop).json
  OBVIOUS
<1>2. /\ TypeOK /\ PageInv /\ task \in Task /\ Does(task) \subseteq Change
      /\ task.op \in {"DoProcessJSRequest", "PassPropertyUpdateToModule"} /\ task.json = json
      /\ UNCHANGED idCounter
  BY <1>1, TaskView DEF RefInv, AppInv, ChangesInv, DoProcessJSRequest, PassPeerUpdate, Takes, started
<1>3. PageAfterQueue' = PageAfterQueue
  <2>1. ~(DoRegisterModule \/ UnregisterModule \/ PushUpdate)
    BY <1>1, <1>2 DEF DoRegisterModule, UnregisterModule, PushUpdate, Takes
  <2> QED BY <1>2, <2>1, TaskShown
<1>4. CASE json.type = "apply"
  <2>1. \E to : PassPropertyUpdateToModule(json, to)
    <3>1. CASE DoProcessJSRequest
      BY <1>1, <1>4, <3>1 DEF DoProcessJSRequest
    <3>2. CASE PassPeerUpdate
      BY <1>1, <3>2 DEF PassPeerUpdate
    <3> QED BY <3>1, <3>2
  <2>2. SavePropertiesList(json.id, json.properties)
    BY <1>2, <1>4, <2>1, PassSaves
  <2>3. Only(Does(task), "store", json.id, json.properties)
    <3>1. Does(task) = {<<"store", json.id, json.properties>>}
      BY <1>2, <1>4, RequestToDo
    <3> QED BY <1>2, <3>1, ChangesOf DEF Only
  <2> QED BY <1>1, <1>2, <1>3, <2>2, <2>3, StoreSettles
<1>5. CASE json.type # "apply"
  <2>1. Mute(task)
    <3>1. Does(task) = {}
      BY <1>2, <1>5, RequestToDo
    <3> QED BY ONLY <3>1 DEF Mute
  <2>2. task.op = "DoProcessJSRequest"
    BY <1>2, <1>5 DEF Task, ApplyMsg
  <2>3. modules' = modules
    BY <1>1, <1>2, <1>5, <2>2 DEF DoProcessJSRequest, PassPeerUpdate, Takes
  <2> QED BY <1>1, <1>2, <1>3, <2>1, <2>3, MuteSettles DEF CopiesKept
<1> QED BY <1>4, <1>5

LEMMA RunsSettle ==
  ASSUME UpdatesFit, RefInv, CallsInv, SettleInv, Runs
  PROVE  SettleInv'
<1>1. PICK task : task = Head(loop)
  OBVIOUS
<1>2. TypeOK /\ PageInv /\ task \in Task /\ DOMAIN PageAfterQueue = DOMAIN modules
  BY <1>1, CopiesType, TaskView
<1>3. CASE UnregisterModule
  <2>1. task.op = "UnregisterModule" /\ Erase(task.id) /\ UNCHANGED idCounter
    BY <1>1, <1>3 DEF UnregisterModule, Takes, started
  <2>2. Mute(task)
    BY <2>1 DEF Does, Mute
  <2>3. PageAfterQueue' = DeleteModule(PageAfterQueue, task.id)
    <3>1. task.id \in Int /\ PageAfterQueue' = OnMessage(PageAfterQueue, CreateModuleRemoved(task.id))
      BY <1>1, <1>2, <1>3, TaskShown
    <3>2. CreateModuleRemoved(task.id).type = "module_removed" /\ CreateModuleRemoved(task.id).id = task.id
      BY DEF CreateModuleRemoved
    <3>3. \A json : json.type = "module_removed" =>
            OnMessage(PageAfterQueue, json) = DeleteModule(PageAfterQueue, json.id)
      BY DEF OnMessage
    <3> QED BY <3>1, <3>2, <3>3
  <2>4. \A i \in DOMAIN modules' : CopiesKept(i)
    BY <1>2, <2>1, <2>3 DEF Erase, DeleteModule, Restrict, CopiesKept
  <2> QED BY <1>1, <2>1, <2>2, <2>4, MuteSettles
<1>4. CASE OnProxyInitialized
  <2>1. task.op = "OnProxyInitialized" /\ UNCHANGED <<modules, idCounter>>
    BY <1>1, <1>4 DEF OnProxyInitialized, Takes
  <2>2. Mute(task)
    <3>1. Does(task) = {}
      BY <2>1, NothingToDo
    <3> QED BY ONLY <3>1 DEF Mute
  <2>3. PageAfterQueue' = PageAfterQueue
    <3>1. ~(DoRegisterModule \/ UnregisterModule \/ PushUpdate)
      BY <1>1, <2>1 DEF DoRegisterModule, UnregisterModule, PushUpdate, Takes
    <3> QED BY <1>2, <3>1, TaskShown
  <2> QED BY <1>1, <2>1, <2>2, <2>3, MuteSettles DEF CopiesKept
<1> QED BY <1>3, <1>4, RegisterSettles, UpdateTaskSettles, RequestSettles DEF Runs, RunTask

LEMMA SettleInvStep ==
  ASSUME UpdatesFit, RefInv, CallsInv, WritersInv, SettleInv, [AppNext]_allVars
  PROVE  SettleInv'
<1>1. ASSUME NEW t \in Thread,
             \/ \E module \in Definition : ThreadRegisters(t, module)
             \/ ThreadRegistered(t)
             \/ \E id \in Handles : ThreadUnregisters(t, id)
             \/ \E id \in Handles, list \in UpdateList : ThreadUpdates(t, id, list)
             \/ ThreadUpdated(t)
      PROVE  SettleInv'
  <2>1. ASSUME \/ \E module \in Definition : ThreadRegisters(t, module)
               \/ ThreadRegistered(t)
               \/ \E id \in Handles : ThreadUnregisters(t, id)
        PROVE  SettleInv'
    BY <2>1, ThreadRests, RestsSettle
  <2> QED BY <1>1, <2>1, UpdateSettles, UpdatedSettles
<1>2. ASSUME running.at = "callback", NEW id \in CallbackIds, NEW list \in UpdateList, AppUpdates(id, list)
      PROVE  SettleInv'
  BY <1>2, CallbackSettles
<1>3. ASSUME NEW id \in DOMAIN page \cap ModuleId, NEW list \in UpdateList,
             HostApplies(id, list) \/ \E r \in Requester : PageApplies(r, id, list)
      PROVE  SettleInv'
  BY <1>3, AppliesSettles
<1>4. ASSUME \/ running.at = "callback" /\ \E id \in CallbackIds : AppUnregisters(id)
             \/ \E module \in Definition : AppRegisters(module)
             \/ AppReturns
             \/ \E r \in Requester :
                  \/ \E json \in {CreateLoadModules, Malformed, UnknownType} : PageAsks(r, json)
                  \/ PageAnswered(r)
             \/ \E host \in Hosts : Starts(host)
             \/ UNCHANGED allVars
      PROVE  SettleInv'
  BY <1>4, OthersRest, RestsSettle
<1>5. CASE Runs
  BY <1>5, RunsSettle
<1> QED BY <1>1, <1>2, <1>3, <1>4, <1>5 DEF AppNext

\* Nothing is registered, written or posted.
LEMMA SettleStarts ==
  ASSUME AppInit
  PROVE  SettleInv
<1>1. /\ loop = <<>> /\ modules = <<>> /\ app = [t \in Thread |-> Idle]
      /\ writers = [id \in ModuleId |-> {}]
  BY DEF AppInit, Init
<1>2. Tasks = {} /\ DOMAIN modules = {}
  <2>1. loop \in Seq(Task) /\ 1..Len(loop) = {}
    BY <1>1
  <2>2. Range(loop) = {loop[i] : i \in 1..Len(loop)}
    BY <2>1, MembersOf
  <2>3. DOMAIN modules = {}
    BY <1>1
  <2> QED BY <2>1, <2>2, <2>3 DEF Tasks
<1>3. \A t \in Thread : WillPost(app[t]) = {}
  BY <1>1 DEF WillPost, Idle
<1>4. \A id \in ModuleId : writers[id] = {} /\ IsFiniteSet(writers[id])
  BY <1>1, FS_EmptySet
<1> QED BY <1>2, <1>3, <1>4 DEF SettleInv, SourcesInv, CallTraced, ShapesInv, MeetInv

\* What is left when everything is quiet.
LEMMA QuietAgrees ==
  ASSUME RefInv, CallsInv, SettleInv
  PROVE  SingleWriterAgrees
<1>1. SUFFICES ASSUME Quiet, NEW id \in DOMAIN modules, Cardinality(writers[id]) <= 1,
                      NEW k \in 1..Len(modules[id].properties), ~modules[id].properties[k].read_only
               PROVE  ShowsValue(PageAfterQueue[id][k], modules[id].properties[k])
  BY DEF SingleWriterAgrees, Agrees
<1>2. id \in ModuleId /\ IsFiniteSet(writers[id]) /\ loop = <<>>
  BY <1>1, KnownIds DEF SettleInv, SourcesInv, Quiet
<1>3. Single(writers[id])
  <2>1. Cardinality(writers[id]) = 0 \/ Cardinality(writers[id]) = 1
    BY <1>1, <1>2, FS_CardinalityType
  <2> QED BY <1>2, <2>1, FS_EmptySet, FS_Singleton DEF Single
<1>4. Meets(<<>>, app, modules[id].properties[k].value, PageAfterQueue[id][k], id, k)
  BY <1>1, <1>2, <1>3 DEF SettleInv, MeetInv, Settles, MeetsAt
<1>5. NonePosts(app, id, k)
  <2>1. \A t \in Thread : WillPost(app[t]) = {}
    BY <1>1 DEF Quiet, WillPost
  <2> QED BY <2>1 DEF NonePosts, GivenIn
<1>6. Looks(PageAfterQueue[id][k], modules[id].properties[k].value)
  BY <1>4, <1>5, MeetsEnd
<1> QED BY <1>6, ShowsWhatItLooks

\* Where the updates fit the modules: once no task waits and no call is half made, the
\* page shows the stored value of every property of a module that one thread, the
\* callbacks or the page alone have written.  The first post of an update and the second
\* keep the order of their thread, the page shows its own before it sends them, and a
\* callback stores and pushes at once (ModuleManager.cpp:142-180,192-272).
THEOREM SingleWriterSettles == UpdatesFit => (AppSpec => []SingleWriterAgrees)
<1> SUFFICES ASSUME UpdatesFit PROVE AppSpec => []SingleWriterAgrees
  OBVIOUS
<1>1. AppInit => ChangesInv /\ CallsInv /\ SettleInv
  BY RegistryStarts, SettleStarts
<1>2. AppInv /\ ChangesInv /\ CallsInv /\ [AppNext]_allVars => ChangesInv' /\ CallsInv'
  BY RegistryInvStep
<1>3. AppInv /\ PageInv /\ WritersInv /\ ChangesInv /\ CallsInv /\ SettleInv /\ [AppNext]_allVars
        => SettleInv'
  BY SettleInvStep DEF RefInv
<1>4. AppInv /\ PageInv /\ ChangesInv /\ CallsInv /\ SettleInv => SingleWriterAgrees
  BY QuietAgrees DEF RefInv
<1> QED BY <1>1, <1>2, <1>3, <1>4, AppInvariant, PageInvariant, PTL DEF AppSpec
=============================================================================
