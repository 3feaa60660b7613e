------------------------------- MODULE Lemmas -------------------------------
(***************************************************************************)
(* Facts that need no variables: the largest element of a finite set of    *)
(* integers (MAX(id) + 1 is the way the server derives the ids of a table  *)
(* without a sequence), and what a walk through a graph finds.             *)
(***************************************************************************)
EXTENDS Walks, FiniteSets, FiniteSetTheorems, WellFoundedInduction, TLAPS

\* m is the largest element of S.
IsMax(m, S) == m \in S /\ \A i \in S : i <= m

(***************************************************************************)
(* A finite set of integers that is not empty has a largest element.  A    *)
(* counterexample that is minimal for inclusion loses one element and      *)
(* still has none.                                                         *)
(***************************************************************************)
LEMMA FiniteSetHasMax ==
  ASSUME NEW S, S \subseteq Int, IsFiniteSet(S), S # {}
  PROVE  \E m \in S : \A i \in S : i <= m
<1> DEFINE Bad == {T \in FiniteSubsetsOf(Int) : T # {} /\ ~\E m \in T : IsMax(m, T)}
<1>1. SUFFICES ASSUME S \in Bad PROVE FALSE
  BY DEF FiniteSubsetsOf, IsMax
<1>2. PICK T \in Bad : \A U \in Bad : <<U, T>> \notin StrictSubsetOrdering(Int)
  <2>1. IsWellFoundedOn(StrictSubsetOrdering(Int), FiniteSubsetsOf(Int))
    BY FS_StrictSubsetOrderingWellFounded, Zenon
  <2>2. Bad \subseteq FiniteSubsetsOf(Int) /\ Bad # {}
    BY <1>1
  <2> HIDE DEF Bad
  <2> QED BY <2>1, <2>2, WFMin, Zenon
<1>3. T \subseteq Int /\ IsFiniteSet(T) /\ T # {} /\ ~\E m \in T : IsMax(m, T)
  BY DEF FiniteSubsetsOf
<1>4. PICK x \in T : TRUE
  BY <1>3
<1> DEFINE U == T \ {x}
<1>5. IsFiniteSet(U) /\ U \subseteq Int
  BY <1>3, FS_RemoveElement
<1>6. CASE U = {}
  BY <1>3, <1>4, <1>6 DEF IsMax
<1>7. CASE U # {}
  <2>1. <<U, T>> \in StrictSubsetOrdering(Int)
    BY <1>3, <1>4, <1>5 DEF StrictSubsetOrdering
  <2>2. U \notin Bad
    BY <1>2, <2>1
  <2>3. PICK m \in U : IsMax(m, U)
    BY <1>5, <1>7, <2>2 DEF FiniteSubsetsOf
  <2>4. IsMax(m, T) \/ IsMax(x, T)
    BY <1>3, <1>4, <2>3 DEF IsMax
  <2> QED BY <1>3, <1>4, <2>4 DEF IsMax
<1> QED BY <1>6, <1>7

----------------------------------------------------------------------------
(***************************************************************************)
(* Walks.                                                                  *)
(***************************************************************************)

\* What a function gives for a finite set.
LEMMA ImageFinite ==
  ASSUME NEW S, IsFiniteSet(S), NEW f, DOMAIN f = S
  PROVE  IsFiniteSet({f[x] : x \in S})
<1> DEFINE g == [x \in S |-> f[x]]
<1>1. g \in Surjection(S, {f[x] : x \in S})
  BY DEF Surjection
<1> HIDE DEF g
<1> QED BY <1>1, FS_Surjection

LEMMA ObjectsFinite ==
  ASSUME NEW E, IsFiniteSet(E)
  PROVE  IsFiniteSet(Objects(E))
<1> DEFINE from == [e \in E |-> e.from]
           to == [e \in E |-> e.to]
<1>1. IsFiniteSet({from[e] : e \in E}) /\ IsFiniteSet({to[e] : e \in E})
  <2>1. DOMAIN from = E /\ DOMAIN to = E
    OBVIOUS
  <2> HIDE DEF from, to
  <2> QED BY <2>1, ImageFinite
<1>2. {from[e] : e \in E} = {e.from : e \in E} /\ {to[e] : e \in E} = {e.to : e \in E}
  OBVIOUS
<1> QED BY <1>1, <1>2, FS_Union DEF Objects

LEMMA AdjacentObjects ==
  ASSUME NEW E, NEW a, NEW b, Adjacent(E, a, b)
  PROVE  a \in Objects(E) /\ b \in Objects(E)
BY DEF Adjacent, Objects

\* What is there stays there in a larger graph, and within a longer reach.
LEMMA ReachGrows ==
  ASSUME NEW E, NEW F, E \subseteq F, NEW S, NEW d \in Int, NEW n
  PROVE  /\ \A a, k : Path(E, a, n, k) => Path(F, a, n, k)
         /\ WithinReach(E, S, n, d) => WithinReach(F, S, n, d)
<1>1. Objects(E) \subseteq Objects(F) /\ \A a, b : Adjacent(E, a, b) => Adjacent(F, a, b)
  BY DEF Objects, Adjacent
<1>2. ASSUME NEW a, NEW k, Path(E, a, n, k) PROVE Path(F, a, n, k)
  <2>1. PICK path \in [0..k -> Objects(E)] :
          path[0] = a /\ path[k] = n /\ \A i \in 0..k-1 : Adjacent(E, path[i], path[i+1])
    BY <1>2 DEF Path
  <2>2. path \in [0..k -> Objects(F)]
    BY <1>1
  <2> QED BY <1>1, <2>1, <2>2 DEF Path
<1> QED BY <1>2 DEF WithinReach

\* The first step of a path, and one step more.
LEMMA PathSteps ==
  ASSUME NEW E, NEW a, NEW c, NEW b, Adjacent(E, c, b)
  PROVE  /\ Path(E, c, b, 1)
         /\ \A k \in Nat : Path(E, a, c, k) => Path(E, a, b, k + 1)
<1>1. b \in Objects(E) /\ c \in Objects(E)
  BY AdjacentObjects
<1>2. Path(E, c, b, 1)
  <2> DEFINE path == [i \in 0..1 |-> IF i = 0 THEN c ELSE b]
  <2>1. path \in [0..1 -> Objects(E)] /\ path[0] = c /\ path[1] = b
    BY <1>1
  <2>2. \A i \in 0..1-1 : i = 0 /\ i + 1 = 1
    OBVIOUS
  <2> HIDE DEF path
  <2> QED BY <2>1, <2>2 DEF Path
<1>3. ASSUME NEW k \in Nat, Path(E, a, c, k) PROVE Path(E, a, b, k + 1)
  <2>1. PICK path \in [0..k -> Objects(E)] :
          path[0] = a /\ path[k] = c /\ \A i \in 0..k-1 : Adjacent(E, path[i], path[i+1])
    BY <1>3 DEF Path
  <2> DEFINE longer == [i \in 0..(k + 1) |-> IF i = k + 1 THEN b ELSE path[i]]
  <2>2. longer \in [0..(k + 1) -> Objects(E)]
    BY <1>1
  <2>3. longer[0] = a /\ longer[k + 1] = b
    BY <2>1
  <2>4. ASSUME NEW i \in 0..(k + 1)-1 PROVE Adjacent(E, longer[i], longer[i+1])
    <3>1. i \in 0..k /\ longer[i] = path[i]
      OBVIOUS
    <3>2. CASE i = k
      <4>1. longer[i + 1] = b
        BY <3>2
      <4> QED BY <2>1, <3>1, <3>2, <4>1
    <3>3. CASE i # k
      <4>1. i \in 0..k-1 /\ longer[i + 1] = path[i + 1]
        BY <3>1, <3>3
      <4> QED BY <2>1, <3>1, <4>1
    <3> QED BY <3>2, <3>3
  <2> HIDE DEF longer
  <2> QED BY <2>2, <2>3, <2>4 DEF Path
<1> QED BY <1>2, <1>3

\* The last step of a path.
LEMMA PathEnds ==
  ASSUME NEW E, NEW a, NEW b, NEW k \in Nat, k > 0, Path(E, a, b, k)
  PROVE  /\ b \in Objects(E)
         /\ \E c : /\ Adjacent(E, c, b)
                   /\ IF k = 1 THEN c = a ELSE Path(E, a, c, k - 1)
<1>1. PICK path \in [0..k -> Objects(E)] :
        path[0] = a /\ path[k] = b /\ \A i \in 0..k-1 : Adjacent(E, path[i], path[i+1])
  BY DEF Path
<1>2. k - 1 \in 0..k-1 /\ (k - 1) + 1 = k /\ k \in 0..k
  OBVIOUS
<1>3. Adjacent(E, path[k - 1], b) /\ b \in Objects(E)
  BY <1>1, <1>2
<1>4. CASE k = 1
  BY <1>1, <1>3, <1>4
<1>5. CASE k # 1
  <2> DEFINE part == [i \in 0..(k - 1) |-> path[i]]
  <2>1. part \in [0..(k - 1) -> Objects(E)] /\ part[0] = a /\ part[k - 1] = path[k - 1]
    BY <1>1
  <2>2. ASSUME NEW i \in 0..(k - 1)-1 PROVE Adjacent(E, part[i], part[i+1])
    <3>1. i \in 0..k-1 /\ part[i] = path[i] /\ part[i + 1] = path[i + 1]
      OBVIOUS
    <3> QED BY <1>1, <3>1
  <2> HIDE DEF part
  <2>3. Path(E, a, path[k - 1], k - 1)
    BY <2>1, <2>2 DEF Path
  <2> QED BY <1>3, <1>5, <2>3
<1> QED BY <1>4, <1>5

\* What is within k steps of a, with a itself.
Reach(E, a, k) == {a} \cup {n \in Objects(E) : \E j \in 1..k : Path(E, a, n, j)}

\* It is what one step more adds to what is within k - 1 steps.
LEMMA ReachStep ==
  ASSUME NEW E, NEW a, NEW k \in Nat, k > 0
  PROVE  LET R == Reach(E, a, k - 1) IN
         Reach(E, a, k) = R \cup {b \in Objects(E) : \E c \in R : Adjacent(E, c, b)}
<1> DEFINE R == Reach(E, a, k - 1)
           more == {b \in Objects(E) : \E c \in R : Adjacent(E, c, b)}
<1>1. ASSUME NEW b \in Reach(E, a, k) PROVE b \in R \cup more
  <2>1. CASE b = a
    BY <2>1 DEF Reach
  <2>2. CASE b # a
    <3>1. PICK j \in 1..k : Path(E, a, b, j)
      BY <1>1, <2>2 DEF Reach
    <3>2. b \in Objects(E) /\ \E c : Adjacent(E, c, b) /\ IF j = 1 THEN c = a ELSE Path(E, a, c, j - 1)
      BY <3>1, PathEnds
    <3>3. PICK c : Adjacent(E, c, b) /\ IF j = 1 THEN c = a ELSE Path(E, a, c, j - 1)
      BY <3>2
    <3>4. c \in R
      <4>1. CASE j = 1
        BY <3>3, <4>1 DEF Reach
      <4>2. CASE j # 1
        <5>1. j - 1 \in 1..(k - 1) /\ c \in Objects(E)
          BY <3>3, <4>2, AdjacentObjects
        <5> QED BY <3>3, <4>2, <5>1 DEF Reach
      <4> QED BY <4>1, <4>2
    <3> HIDE DEF R
    <3> QED BY <3>2, <3>3, <3>4
  <2> QED BY <2>1, <2>2
<1>2. ASSUME NEW b \in R PROVE b \in Reach(E, a, k)
  <2>1. \A j \in 1..(k - 1) : j \in 1..k
    OBVIOUS
  <2> QED BY <1>2, <2>1 DEF Reach
<1>3. ASSUME NEW b \in Objects(E), NEW c \in R, Adjacent(E, c, b) PROVE b \in Reach(E, a, k)
  <2>1. CASE c = a
    <3>1. Path(E, a, b, 1) /\ 1 \in 1..k
      BY <1>3, <2>1, PathSteps
    <3> QED BY <3>1 DEF Reach
  <2>2. CASE c # a
    <3>1. PICK j \in 1..(k - 1) : Path(E, a, c, j)
      BY <2>2 DEF Reach
    <3>2. j \in Nat /\ j + 1 \in 1..k
      OBVIOUS
    <3>3. Path(E, a, b, j + 1)
      BY <1>3, <3>1, <3>2, PathSteps
    <3> QED BY <3>2, <3>3 DEF Reach
  <2> QED BY <2>1, <2>2
<1> HIDE DEF R
<1> QED BY <1>1, <1>2, <1>3 DEF R

\* ball[k] is what a walk from a has found after k steps.
Balls(ball, E, a, d) ==
  ball = [k \in 0..d |->
            IF k = 0 THEN {a}
            ELSE ball[k-1] \cup {b \in Objects(E) : \E c \in ball[k-1] : Adjacent(E, c, b)}]

\* That is what is within reach.
LEMMA BallsReach ==
  ASSUME NEW E, NEW a, NEW d \in Nat, NEW ball, Balls(ball, E, a, d)
  PROVE  \A k \in 0..d : ball[k] = Reach(E, a, k)
<1> DEFINE grow(R) == R \cup {b \in Objects(E) : \E c \in R : Adjacent(E, c, b)}
<1>1. ball[0] = {a} /\ \A k \in 0..d : k # 0 => ball[k] = grow(ball[k-1])
  <2> DEFINE next(k) == IF k = 0 THEN {a}
                        ELSE ball[k-1] \cup {b \in Objects(E) : \E c \in ball[k-1] : Adjacent(E, c, b)}
  <2>1. ball = [k \in 0..d |-> next(k)]
    BY DEF Balls
  <2> HIDE DEF next
  <2>2. \A k \in 0..d : ball[k] = next(k)
    BY <2>1
  <2>3. 0 \in 0..d
    OBVIOUS
  <2> QED BY <2>2, <2>3 DEF next
<1>2. Reach(E, a, 0) = {a} /\ \A k \in 0..d : k # 0 => Reach(E, a, k) = grow(Reach(E, a, k-1))
  <2>1. Reach(E, a, 0) = {a}
    BY DEF Reach
  <2>2. ASSUME NEW k \in 0..d, k # 0 PROVE Reach(E, a, k) = grow(Reach(E, a, k-1))
    <3>1. k \in Nat /\ k > 0
      BY <2>2
    <3> QED BY <3>1, ReachStep
  <2> QED BY <2>1, <2>2
<1> HIDE DEF grow
<1> DEFINE D == {i \in 0..d : \A j \in 0..i : ball[j] = Reach(E, a, j)}
<1>3. 0 \in D
  <2>1. \A j \in 0..0 : j = 0
    OBVIOUS
  <2> QED BY <1>1, <1>2, <2>1
<1>4. ASSUME NEW i \in D, i # d PROVE i + 1 \in D
  <2>0. i \in 0..d /\ \A j \in 0..i : ball[j] = Reach(E, a, j)
    OBVIOUS
  <2> HIDE DEF D
  <2>1. i + 1 \in 0..d /\ i + 1 # 0 /\ (i + 1) - 1 = i /\ i \in 0..i
    BY <1>4, <2>0
  <2>2. ball[i + 1] = Reach(E, a, i + 1)
    BY <1>1, <1>2, <2>0, <2>1
  <2>3. \A j \in 0..(i + 1) : j \in 0..i \/ j = i + 1
    BY <2>0
  <2> QED BY <2>0, <2>1, <2>2, <2>3 DEF D
<1>5. D \subseteq 0..d /\ D \subseteq Int /\ D # {} /\ IsFiniteSet(D)
  <2>1. D \subseteq 0..d
    OBVIOUS
  <2> HIDE DEF D
  <2>2. IsFiniteSet(0..d) /\ 0..d \subseteq Int
    BY FS_Interval
  <2> QED BY <1>3, <2>1, <2>2, FS_Subset
<1>6. PICK m \in D : \A i \in D : i <= m
  <2> HIDE DEF D
  <2> QED BY <1>5, FiniteSetHasMax
<1>7. m = d
  <2> HIDE DEF D
  <2> QED BY <1>4, <1>5, <1>6
<1> QED BY <1>6, <1>7

\* What a walk finds, and how far it says it is.
LEMMA WalkFacts ==
  ASSUME NEW E, NEW a, NEW d \in Nat
  PROVE  LET W == Walk(E, a, d) IN
         /\ DOMAIN W \subseteq Objects(E)
         /\ \A n \in DOMAIN W : n # a /\ W[n] \in 1..d /\ Path(E, a, n, W[n])
         /\ \A k \in 1..d : \A n : n # a /\ Path(E, a, n, k) => n \in DOMAIN W /\ W[n] <= k
<1> DEFINE ball == CHOOSE f : Balls(f, E, a, d)
           W == Walk(E, a, d)
           at(n, k) == n \in ball[k] \ ball[k-1]
<1>1. Balls([k \in 0..d |-> Reach(E, a, k)], E, a, d)
  <2> DEFINE f == [k \in 0..d |-> Reach(E, a, k)]
  <2>1. f[0] = {a}
    BY DEF Reach
  <2>2. ASSUME NEW k \in 0..d, k # 0
        PROVE  f[k] = f[k-1] \cup {b \in Objects(E) : \E c \in f[k-1] : Adjacent(E, c, b)}
    <3>1. k - 1 \in 0..d /\ k \in Nat /\ k > 0
      BY <2>2
    <3>2. f[k] = Reach(E, a, k) /\ f[k-1] = Reach(E, a, k - 1)
      BY <3>1
    <3> HIDE DEF f
    <3> QED BY <3>1, <3>2, ReachStep
  <2>3. f = [k \in 0..d |-> f[k]]
    OBVIOUS
  <2> HIDE DEF f
  <2>4. Balls(f, E, a, d)
    BY <2>1, <2>2, <2>3 DEF Balls
  <2> QED BY <2>4 DEF f
<1>2. Balls(ball, E, a, d)
  BY <1>1
<1>3. W = [n \in ball[d] \ {a} |-> CHOOSE k \in 1..d : at(n, k)]
  BY DEF Walk, Balls
<1> HIDE DEF ball, W
<1>4. \A k \in 0..d : ball[k] = Reach(E, a, k)
  BY <1>2, BallsReach
<1>5. DOMAIN W = Reach(E, a, d) \ {a}
  BY <1>3, <1>4
<1>6. ASSUME NEW n \in DOMAIN W PROVE \E k \in 1..d : at(n, k)
  <2> DEFINE D == {k \in 0..d : n \notin Reach(E, a, k)}
  <2>1. 0 \in D /\ d \notin D /\ D \subseteq 0..d /\ n # a
    BY <1>5, <1>6 DEF Reach
  <2>2. D \subseteq Int /\ D # {} /\ IsFiniteSet(D)
    <3>1. IsFiniteSet(0..d) /\ 0..d \subseteq Int
      BY FS_Interval
    <3> HIDE DEF D
    <3> QED BY <2>1, <3>1, FS_Subset
  <2>3. PICK m \in D : \A i \in D : i <= m
    <3> HIDE DEF D
    <3> QED BY <2>2, FiniteSetHasMax
  <2>4. m \in 0..d /\ m # d /\ m + 1 \in 1..d /\ m + 1 \notin D
    <3> HIDE DEF D
    <3> QED BY <2>1, <2>3
  <2>5. n \in Reach(E, a, m + 1) /\ n \notin Reach(E, a, m) /\ (m + 1) - 1 = m /\ m + 1 \in 0..d
    BY <2>3, <2>4
  <2> QED BY <1>4, <2>4, <2>5
<1>7. ASSUME NEW n \in DOMAIN W PROVE W[n] \in 1..d /\ at(n, W[n])
  <2>1. W[n] = CHOOSE k \in 1..d : at(n, k)
    BY <1>3, <1>7
  <2> HIDE DEF at
  <2> QED BY <1>6, <2>1
<1>8. ASSUME NEW n \in DOMAIN W, NEW k \in 1..d, Path(E, a, n, k)
      PROVE  W[n] <= k
  <2>1. W[n] \in 1..d /\ n \notin Reach(E, a, W[n] - 1)
    BY <1>4, <1>7
  <2>2. n \in Objects(E)
    BY <1>5, <1>8 DEF Reach
  <2>3. k \notin 1..(W[n] - 1)
    BY <1>8, <2>1, <2>2 DEF Reach
  <2> QED BY <2>1, <2>3
<1>9. ASSUME NEW n \in DOMAIN W PROVE n # a /\ n \in Objects(E) /\ Path(E, a, n, W[n])
  <2>1. /\ W[n] \in 1..d /\ n \in Reach(E, a, W[n]) /\ n \notin Reach(E, a, W[n] - 1)
        /\ n # a
    BY <1>4, <1>5, <1>7
  <2>2. n \in Objects(E)
    BY <2>1 DEF Reach
  <2>3. PICK j \in 1..W[n] : Path(E, a, n, j)
    BY <2>1 DEF Reach
  <2>4. j \notin 1..(W[n] - 1)
    BY <2>1, <2>2, <2>3 DEF Reach
  <2>5. j = W[n]
    BY <2>1, <2>4
  <2> QED BY <2>1, <2>2, <2>3, <2>5
<1>10. ASSUME NEW k \in 1..d, NEW n, n # a, Path(E, a, n, k) PROVE n \in DOMAIN W
  <2>1. n \in Objects(E)
    BY <1>10, PathEnds
  <2> QED BY <1>5, <1>10, <2>1 DEF Reach
<1> HIDE DEF at
<1> QED BY <1>7, <1>8, <1>9, <1>10 DEF W
=============================================================================
