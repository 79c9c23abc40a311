-------------------------------- MODULE Loops --------------------------------
(***************************************************************************)
(* What the proofs about loops and sorted lists rest on: induction on the  *)
(* length of a loop, that a function defined from one number to the next   *)
(* exists, and that the elements of a finite ordered set have places.      *)
(* Induction is derived from the library's theorem that finite sets are    *)
(* well ordered by inclusion, whose statement needs no operator.           *)
(***************************************************************************)
EXTENDS Naturals, Sequences, FunctionTheorems, FiniteSetTheorems, WellFoundedInduction, TLAPS

\* A nonempty set of numbers has a least one.
LEMMA Least ==
  ASSUME NEW S, S \subseteq Nat, S # {}
  PROVE  \E m \in S : \A n \in S : m <= n
<1> DEFINE T == {1..n : n \in S}
<1>1. IsWellFoundedOn(StrictSubsetOrdering(Nat), FiniteSubsetsOf(Nat))
  BY FS_StrictSubsetOrderingWellFounded
<1>2. T \subseteq FiniteSubsetsOf(Nat)
  <2>1. \A n \in Nat : IsFiniteSet(1..n)
    BY FS_Interval
  <2>2. QED BY <2>1 DEF FiniteSubsetsOf
<1>3. T # {}
  OBVIOUS
<1> HIDE DEF T
<1>4. \E x \in T : \A y \in T : ~ (<<y, x>> \in StrictSubsetOrdering(Nat))
  BY <1>1, <1>2, <1>3, WFMin, Zenon
<1>5. PICK m \in S : \A n \in S : ~ (<<1..n, 1..m>> \in StrictSubsetOrdering(Nat))
  BY <1>4 DEF T
<1>6. ASSUME NEW n \in S, n < m PROVE FALSE
  <2>1. m \in 1..m /\ m \notin 1..n /\ 1..n \subseteq 1..m /\ 1..m \subseteq Nat
    BY <1>6
  <2>2. <<1..n, 1..m>> \in StrictSubsetOrdering(Nat)
    BY <2>1 DEF StrictSubsetOrdering
  <2>3. QED BY <2>2, <1>5
<1>7. QED BY <1>6

\* A set that holds 0, and with i what follows it up to n, holds 0..n.
LEMMA Induction ==
  ASSUME NEW n \in Nat, NEW S, 0 \in S,
         \A i \in 0..(n - 1) : i \in S => i + 1 \in S
  PROVE  \A i \in 0..n : i \in S
<1> DEFINE Missed == {i \in 0..n : i \notin S}
<1>1. SUFFICES ASSUME Missed # {} PROVE FALSE
  OBVIOUS
<1>2. PICK m \in Missed : \A i \in Missed : m <= i
  <2>1. Missed \subseteq Nat
    OBVIOUS
  <2> HIDE DEF Missed
  <2>2. QED BY <1>1, <2>1, Least
<1>3. m \in 0..n /\ m \notin S /\ m # 0
  BY <1>2
<1>4. m - 1 \in 0..(n - 1) /\ m - 1 \in 0..n /\ (m - 1) + 1 = m /\ ~ (m <= m - 1)
  BY <1>3
<1>5. m - 1 \in S
  BY <1>2, <1>4
<1>6. QED BY <1>3, <1>4, <1>5

-----------------------------------------------------------------------------
(* Loops                                                                   *)

History(f, n, State, z, step) ==
  f \in [0..n -> State] /\ f[0] = z /\ \A i \in 1..n : f[i] = step[i][f[i - 1]]

\* A loop of n rounds, round i of which is step[i], has a history.
LEMMA LoopExists ==
  ASSUME NEW n \in Nat, NEW State, NEW z \in State, NEW step \in [1..n -> [State -> State]]
  PROVE  \E f : History(f, n, State, z, step)
<1> DEFINE Upto(m) == \E f \in [0..m -> State] : f[0] = z /\ \A i \in 1..m : f[i] = step[i][f[i - 1]]
           S == {m \in 0..n : Upto(m)}
<1>1. 0 \in S
  <2> DEFINE f == [i \in 0..0 |-> z]
  <2>1. f \in [0..0 -> State] /\ f[0] = z /\ 1..0 = {}
    OBVIOUS
  <2> HIDE DEF f
  <2>2. Upto(0)
    BY <2>1
  <2>3. QED BY <2>2
<1>2. ASSUME NEW m \in 0..(n - 1), m \in S PROVE m + 1 \in S
  <2>1. PICK f \in [0..m -> State] : f[0] = z /\ \A i \in 1..m : f[i] = step[i][f[i - 1]]
    BY <1>2
  <2>2. m + 1 \in 1..n /\ m + 1 \in 0..n /\ m \in Nat
    OBVIOUS
  <2> DEFINE g == [i \in 0..(m + 1) |-> IF i = m + 1 THEN step[m + 1][f[m]] ELSE f[i]]
  <2>3. step[m + 1][f[m]] \in State
    BY <2>2
  <2>4. g \in [0..(m + 1) -> State]
    BY <2>3, <2>2
  <2>5. g[0] = z
    BY <2>1, <2>2
  <2>6. \A i \in 1..(m + 1) : g[i] = step[i][g[i - 1]]
    BY <2>1, <2>2
  <2>7. Upto(m + 1)
    BY <2>4, <2>5, <2>6
  <2>8. QED BY <2>7, <2>2
<1> HIDE DEF S
<1>3. \A m \in 0..(n - 1) : m \in S => m + 1 \in S
  BY <1>2
<1>4. \A m \in 0..n : m \in S
  BY <1>1, <1>3, Induction
<1>5. n \in S
  BY <1>4
<1>6. QED BY <1>5 DEF S, History

Follows(f, n, State, z, step) ==
  f[0] = z /\ \A i \in 1..n : f[i - 1] \in State => f[i] = step[i][f[i - 1]]

\* A function that follows the steps as long as it stays among the states
\* stays among them.
LEMMA LoopStays ==
  ASSUME NEW n \in Nat, NEW State, NEW z \in State, NEW step \in [1..n -> [State -> State]],
         NEW f, Follows(f, n, State, z, step)
  PROVE  /\ \A i \in 0..n : f[i] \in State
         /\ \A i \in 1..n : f[i] = step[i][f[i - 1]]
<1> USE DEF Follows
<1> DEFINE S == {i \in 0..n : f[i] \in State}
<1>1. 0 \in S
  OBVIOUS
<1>2. ASSUME NEW i \in 0..(n - 1), i \in S PROVE i + 1 \in S
  <2>1. i + 1 \in 1..n /\ (i + 1) - 1 = i /\ i + 1 \in 0..n
    OBVIOUS
  <2>2. f[i + 1] = step[i + 1][f[i]]
    BY <1>2, <2>1
  <2>3. QED BY <1>2, <2>1, <2>2
<1> HIDE DEF S
<1>3. \A i \in 0..(n - 1) : i \in S => i + 1 \in S
  BY <1>2
<1>4. \A i \in 0..n : i \in S
  BY <1>1, <1>3, Induction
<1>5. \A i \in 1..n : i - 1 \in 0..n
  OBVIOUS
<1>6. QED BY <1>4, <1>5 DEF S

-----------------------------------------------------------------------------
(* Orders                                                                  *)

\* below[x] is what stands before x in a strict total order of S.
StrictOrder(S, below) ==
  /\ below \in [S -> SUBSET S]
  /\ \A x \in S : x \notin below[x]
  /\ \A x, y, z \in S : x \in below[y] /\ y \in below[z] => x \in below[z]
  /\ \A x, y \in S : x # y => x \in below[y] \/ y \in below[x]

\* s lists the elements of S, each once.
Lists(s, S) ==
  /\ s \in Seq(S) /\ Len(s) = Cardinality(S) /\ DOMAIN s = 1..Len(s) /\ Len(s) \in Nat
  /\ \A x \in S : \E i \in 1..Len(s) : s[i] = x
  /\ \A i, j \in 1..Len(s) : s[i] = s[j] => i = j

\* In a finite set, what is smaller has fewer elements below it, and every
\* place is somebody's.
LEMMA Places ==
  ASSUME NEW S, IsFiniteSet(S), NEW below, StrictOrder(S, below)
  PROVE  /\ Cardinality(S) \in Nat
         /\ \A x \in S : Cardinality(below[x]) \in 0..(Cardinality(S) - 1)
         /\ \A i \in 1..Cardinality(S) : \E x \in S : Cardinality(below[x]) = i - 1
         /\ \A x, z \in S : x \in below[z] => Cardinality(below[x]) < Cardinality(below[z])
         /\ \A x, z \in S : Cardinality(below[x]) = Cardinality(below[z]) => x = z
<1> USE DEF StrictOrder
<1> DEFINE n == Cardinality(S)
           rank == [x \in S |-> Cardinality(below[x])]
<1>1. n \in Nat
  BY FS_CardinalityType
<1>2. \A x \in S : Cardinality(below[x]) \in 0..(n - 1) /\ IsFiniteSet(below[x])
  <2> TAKE x \in S
  <2>1. below[x] \in SUBSET S /\ below[x] # S
    OBVIOUS
  <2>2. IsFiniteSet(below[x]) /\ Cardinality(below[x]) <= n /\ n # Cardinality(below[x])
    BY <2>1, FS_Subset
  <2>3. Cardinality(below[x]) \in Nat
    BY <2>2, FS_CardinalityType
  <2>4. QED BY <2>2, <2>3, <1>1
<1>3. \A x, z \in S : x \in below[z] => Cardinality(below[x]) < Cardinality(below[z])
  <2> SUFFICES ASSUME NEW x \in S, NEW z \in S, x \in below[z]
               PROVE  Cardinality(below[x]) < Cardinality(below[z])
    OBVIOUS
  <2>1. below[x] \in SUBSET below[z] /\ x \in below[z] /\ x \notin below[x]
    OBVIOUS
  <2>2. /\ IsFiniteSet(below[z])
        /\ Cardinality(below[x]) \in Nat /\ Cardinality(below[z]) \in Nat
    BY <1>2
  <2>3. Cardinality(below[x]) <= Cardinality(below[z]) /\ Cardinality(below[x]) # Cardinality(below[z])
    BY <2>1, <2>2, FS_Subset
  <2>4. QED BY <2>2, <2>3
<1>4. rank \in [S -> 0..(n - 1)] /\ \A x, z \in S : rank[x] = rank[z] => x = z
  <2>1. rank \in [S -> 0..(n - 1)]
    BY <1>2
  <2>2. ASSUME NEW x \in S, NEW z \in S, x # z PROVE rank[x] # rank[z]
    <3>1. x \in below[z] \/ z \in below[x]
      BY <2>2
    <3>2. Cardinality(below[x]) < Cardinality(below[z]) \/ Cardinality(below[z]) < Cardinality(below[x])
      BY <3>1, <1>3
    <3>3. Cardinality(below[x]) \in Nat /\ Cardinality(below[z]) \in Nat
      BY <1>2
    <3>4. QED BY <3>2, <3>3
  <2>3. QED BY <2>1, <2>2
<1>5. \A x \in S : rank[x] = Cardinality(below[x])
  OBVIOUS
<1>6. IsFiniteSet(0..(n - 1)) /\ Cardinality(0..(n - 1)) = n
  <2> HIDE DEF n, rank
  <2>1. 0 \in Int /\ n - 1 \in Int /\ (0 > n - 1 <=> n = 0) /\ (n - 1) - 0 + 1 = n
    BY <1>1
  <2>2. QED BY <2>1, FS_Interval
<1> HIDE DEF rank
<1>7. rank \in Injection(S, 0..(n - 1))
  BY <1>4, Fun_IsInj
<1>8. rank \in Surjection(S, 0..(n - 1))
  BY <1>7, <1>6, FS_Injection
<1>9. \A i \in 0..(n - 1) : \E x \in S : rank[x] = i
  <2> DEFINE T == 0..(n - 1)
  <2> HIDE DEF T
  <2>1. rank \in Surjection(S, T)
    BY <1>8 DEF T
  <2>2. \A t \in T : \E x \in S : rank[x] = t
    BY <2>1, Fun_SurjectionProperties
  <2>3. QED BY <2>2 DEF T
<1>10. \A i \in 1..n : \E x \in S : Cardinality(below[x]) = i - 1
  <2> TAKE i \in 1..n
  <2>1. i - 1 \in 0..(n - 1)
    BY <1>1
  <2>2. QED BY <2>1, <1>9, <1>5
<1>11. \A x, z \in S : Cardinality(below[x]) = Cardinality(below[z]) => x = z
  BY <1>4, <1>5
<1>12. QED BY <1>1, <1>2, <1>3, <1>10, <1>11

\* A sequence that puts every element in its place lists the set once.
LEMMA Listed ==
  ASSUME NEW S, IsFiniteSet(S), NEW below, StrictOrder(S, below),
         NEW s \in [1..Cardinality(S) -> S],
         \A i \in 1..Cardinality(S) : Cardinality(below[s[i]]) = i - 1
  PROVE  /\ Lists(s, S)
         /\ \A i, j \in 1..Len(s) : i < j => s[i] \in below[s[j]]
<1> DEFINE n == Cardinality(S)
<1>1. /\ n \in Nat
      /\ \A x \in S : Cardinality(below[x]) \in 0..(n - 1)
      /\ \A x, z \in S : x \in below[z] => Cardinality(below[x]) < Cardinality(below[z])
      /\ \A x, z \in S : Cardinality(below[x]) = Cardinality(below[z]) => x = z
  BY Places, Zenon
<1>0. below \in [S -> SUBSET S] /\ \A x, y \in S : x # y => x \in below[y] \/ y \in below[x]
  BY DEF StrictOrder
<1>2. \A i \in 1..n : s[i] \in S /\ Cardinality(below[s[i]]) = i - 1
  OBVIOUS
<1>3. s \in Seq(S) /\ Len(s) = n /\ DOMAIN s = 1..Len(s)
  <2>0. s \in [1..n -> S]
    OBVIOUS
  <2> HIDE DEF n
  <2>1. QED BY <1>1, <2>0
<1> HIDE DEF n
<1>4. ASSUME NEW x \in S PROVE \E i \in 1..n : s[i] = x
  <2> DEFINE p == Cardinality(below[x]) + 1
  <2>1. p \in 1..n /\ p - 1 = Cardinality(below[x])
    BY <1>1
  <2>2. s[p] = x
    BY <2>1, <1>1, <1>2
  <2>3. QED BY <2>1, <2>2
<1>5. ASSUME NEW i \in 1..n, NEW j \in 1..n, s[i] = s[j] PROVE i = j
  BY <1>2, <1>5, <1>1
<1>6. ASSUME NEW i \in 1..n, NEW j \in 1..n, i < j PROVE s[i] \in below[s[j]]
  <2>1. s[i] # s[j]
    BY <1>5, <1>6, <1>1
  <2>2. CASE s[j] \in below[s[i]]
    BY <2>2, <1>1, <1>2, <1>6
  <2>3. QED BY <2>1, <2>2, <1>2, <1>0
<1>7. QED BY <1>1, <1>3, <1>4, <1>5, <1>6 DEF n, Lists

\* A list without repeats that holds part of a finite set, and not all of it,
\* is shorter than the set is large.
LEMMA PartIsSmaller ==
  ASSUME NEW T, IsFiniteSet(T), NEW n \in Nat, NEW s \in [1..n -> T],
         \A i, j \in 1..n : s[i] = s[j] => i = j,
         NEW w \in T, \A i \in 1..n : s[i] # w
  PROVE  Cardinality(T) > n
<1> DEFINE U == {s[i] : i \in 1..n}
<1>1. U \in SUBSET T /\ U # T
  OBVIOUS
<1>2. s \in [1..n -> U] /\ \A t \in U : \E i \in 1..n : s[i] = t
  OBVIOUS
<1> HIDE DEF U
<1>3. s \in Bijection(1..n, U)
  BY <1>2, Fun_IsBij
<1>4. ExistsBijection(1..n, U)
  BY <1>3 DEF ExistsBijection
<1>5. IsFiniteSet(1..n) /\ Cardinality(1..n) = n
  BY FS_Interval
<1>6. IsFiniteSet(U) /\ Cardinality(U) = n
  BY <1>4, <1>5, FS_Bijection
<1>7. Cardinality(U) <= Cardinality(T) /\ (Cardinality(U) = Cardinality(T) => U = T)
  BY <1>1, FS_Subset
<1>8. Cardinality(T) \in Nat
  BY FS_CardinalityType
<1>9. QED BY <1>1, <1>6, <1>7, <1>8

\* A list without repeats of elements of a finite set is no longer than the
\* set is large.
LEMMA PartFits ==
  ASSUME NEW T, IsFiniteSet(T), NEW n \in Nat, NEW s \in [1..n -> T],
         \A i, j \in 1..n : s[i] = s[j] => i = j
  PROVE  n <= Cardinality(T)
<1> DEFINE U == {s[i] : i \in 1..n}
<1>1. U \in SUBSET T
  OBVIOUS
<1>2. s \in [1..n -> U] /\ \A t \in U : \E i \in 1..n : s[i] = t
  OBVIOUS
<1> HIDE DEF U
<1>3. s \in Bijection(1..n, U)
  BY <1>2, Fun_IsBij
<1>4. ExistsBijection(1..n, U)
  BY <1>3 DEF ExistsBijection
<1>5. IsFiniteSet(1..n) /\ Cardinality(1..n) = n
  BY FS_Interval
<1>6. IsFiniteSet(U) /\ Cardinality(U) = n
  BY <1>4, <1>5, FS_Bijection
<1>7. QED BY <1>1, <1>6, FS_Subset

\* What a sequence holds is finite.
LEMMA SeqRange ==
  ASSUME NEW T, NEW s \in Seq(T)
  PROVE  /\ IsFiniteSet({s[i] : i \in DOMAIN s}) /\ {s[i] : i \in DOMAIN s} \subseteq T
         /\ DOMAIN s = 1..Len(s) /\ Len(s) \in Nat /\ s \in [1..Len(s) -> T]
<1>1. DOMAIN s = 1..Len(s) /\ Len(s) \in Nat /\ s \in [1..Len(s) -> T]
  OBVIOUS
<1> DEFINE U == {s[i] : i \in DOMAIN s}
<1>2. s \in [1..Len(s) -> U] /\ \A u \in U : \E i \in 1..Len(s) : s[i] = u
  BY <1>1
<1> HIDE DEF U
<1>3. s \in Surjection(1..Len(s), U)
  BY <1>2, Fun_IsSurj
<1>4. IsFiniteSet(1..Len(s))
  BY <1>1, FS_Interval
<1>5. IsFiniteSet(U)
  BY <1>3, <1>4, FS_Surjection
<1>6. QED BY <1>1, <1>5 DEF U
=============================================================================
