----------------------------- MODULE SumLemmas -----------------------------
(***************************************************************************)
(* Sums over finite sets: what SumFunctionOnSet of the community modules   *)
(* returns for every function and every finite set.  The books of the      *)
(* money services are stated with such sums.                               *)
(*                                                                         *)
(* SumFunctionOnSet is a recursive function on the subsets of the set, so  *)
(* its equation has to be proved first: by induction, in the form that a   *)
(* set of subsets of a finite set has a smallest member.                   *)
(***************************************************************************)
EXTENDS Integers, FiniteSets, Functions, FiniteSetTheorems, TLAPS

(* A nonempty collection of subsets of a finite set has a smallest one.     *)
LEMMA SmallestSubset ==
    ASSUME NEW S, IsFiniteSet(S), NEW T, T \subseteq SUBSET S, T # {}
    PROVE  \E U \in T : \A V \in T : V \subseteq U => V = U
<1>1. IsWellFoundedOn(StrictSubsetOrdering(S), SUBSET S)
  BY FS_StrictSubsetOrderingWellFounded, FS_FiniteSubsetsOfFinite
<1>2. PICK U \in T : \A V \in T : <<V, U>> \notin StrictSubsetOrdering(S)
  BY <1>1, WFMin
<1> QED
  BY <1>2 DEF StrictSubsetOrdering

(* A nonempty set of numbers has a smallest one.                            *)
LEMMA SmallestNumber ==
    ASSUME NEW T, T \subseteq Nat, T # {}
    PROVE  \E n \in T : \A m \in T : n <= m
<1>1. PICK n \in T : \A m \in T : <<m, n>> \notin OpToRel(<, Nat)
  BY NatLessThanWellFounded, WFMin
<1>2. \A m \in T : ~(m < n)
  BY <1>1 DEF OpToRel
<1> QED
  BY <1>2

-----------------------------------------------------------------------------
(* The recursion inside SumFunctionOnSet. *)

Chosen(s) == CHOOSE x \in s : TRUE

PartialSums(f, S, g) ==
    g = [s \in SUBSET S |-> IF s = {} THEN 0
                            ELSE f[Chosen(s)] + g[s \ {Chosen(s)}]]

(* SumFunctionOnSet is the recursion's value at the whole set. *)
LEMMA SumIsPartialSum ==
    ASSUME NEW f, NEW S
    PROVE  SumFunctionOnSet(f, S) = (CHOOSE g : PartialSums(f, S, g))[S]
  BY DEF SumFunctionOnSet, FoldFunctionOnSet, MapThenFoldSet, PartialSums, Chosen

LEMMA ChosenIsMember ==
    ASSUME NEW s, s # {}
    PROVE  Chosen(s) \in s
  BY DEF Chosen

(* There is one solution at most ... *)
LEMMA PartialSumsUnique ==
    ASSUME NEW f, NEW S, IsFiniteSet(S), NEW g, NEW h,
           PartialSums(f, S, g), PartialSums(f, S, h)
    PROVE  g = h
<1> DEFINE T == {s \in SUBSET S : g[s] # h[s]}
<1>1. SUFFICES ASSUME T # {} PROVE FALSE
  BY DEF PartialSums
<1>2. PICK U \in T : \A V \in T : V \subseteq U => V = U
  <2>1. T \subseteq SUBSET S
    OBVIOUS
  <2> HIDE DEF T
  <2> QED
    BY <1>1, <2>1, SmallestSubset
<1>3. /\ g[U] = IF U = {} THEN 0 ELSE f[Chosen(U)] + g[U \ {Chosen(U)}]
      /\ h[U] = IF U = {} THEN 0 ELSE f[Chosen(U)] + h[U \ {Chosen(U)}]
  BY <1>2 DEF PartialSums
<1>4. U # {}
  BY <1>2, <1>3
<1>5. U \ {Chosen(U)} \notin T
  BY <1>2, <1>4, ChosenIsMember
<1> QED
  BY <1>2, <1>3, <1>4, <1>5

(* ... a solution on a set is one on its subsets ... *)
LEMMA PartialSumsRestrict ==
    ASSUME NEW f, NEW S, NEW g, PartialSums(f, S, g), NEW R \in SUBSET S
    PROVE  PartialSums(f, R, [s \in SUBSET R |-> g[s]])
<1> DEFINE h == [s \in SUBSET R |-> g[s]]
<1>1. \A s \in SUBSET R :
         h[s] = IF s = {} THEN 0 ELSE f[Chosen(s)] + h[s \ {Chosen(s)}]
  BY DEF PartialSums
<1>2. h = [s \in SUBSET R |-> h[s]]
  OBVIOUS
<1> HIDE DEF h
<1>3. PartialSums(f, R, h)
  BY <1>1, <1>2 DEF PartialSums
<1> QED
  BY <1>3 DEF h

(* ... and there is one on every finite set. *)
LEMMA PartialSumsExist ==
    ASSUME NEW f, NEW S, IsFiniteSet(S)
    PROVE  \E g : PartialSums(f, S, g)
<1> DEFINE T == {R \in SUBSET S : ~ \E g : PartialSums(f, R, g)}
           Sum(R) == (CHOOSE g : PartialSums(f, R, g))[R]
<1>1. SUFFICES ASSUME T # {} PROVE FALSE
  OBVIOUS
<1>2. PICK U \in T : \A V \in T : V \subseteq U => V = U
  <2>1. T \subseteq SUBSET S
    OBVIOUS
  <2> HIDE DEF T
  <2> QED
    BY <1>1, <2>1, SmallestSubset
<1>3. ASSUME NEW R \in SUBSET U, R # U
      PROVE  PartialSums(f, R, CHOOSE g : PartialSums(f, R, g))
  BY <1>2, <1>3
<1>4. ASSUME NEW R \in SUBSET U, R # U, R # {}
      PROVE  Sum(R) = f[Chosen(R)] + Sum(R \ {Chosen(R)})
  <2> DEFINE g == CHOOSE g : PartialSums(f, R, g)
             Q == R \ {Chosen(R)}
             h == CHOOSE h : PartialSums(f, Q, h)
  <2>1. PartialSums(f, R, g) /\ PartialSums(f, Q, h)
    BY <1>3, <1>4, ChosenIsMember
  <2>2. PartialSums(f, Q, [s \in SUBSET Q |-> g[s]])
    BY <2>1, PartialSumsRestrict, SMTT(30)
  <2>3. IsFiniteSet(Q)
    BY FS_Subset
  <2>4. h = [s \in SUBSET Q |-> g[s]]
    BY <2>1, <2>2, <2>3, PartialSumsUnique
  <2>5. h[Q] = g[Q]
    BY <2>4
  <2>6. g[R] = f[Chosen(R)] + g[Q]
    BY <1>4, <2>1 DEF PartialSums
  <2> QED
    BY <2>5, <2>6
<1> DEFINE G == [s \in SUBSET U |->
                   IF s = {} THEN 0
                   ELSE f[Chosen(s)] + Sum(s \ {Chosen(s)})]
<1> HIDE DEF Sum
<1>5. \A s \in SUBSET U : s # {} => G[s \ {Chosen(s)}] = Sum(s \ {Chosen(s)})
  <2>1. SUFFICES ASSUME NEW s \in SUBSET U, s # {}
                 PROVE  G[s \ {Chosen(s)}] = Sum(s \ {Chosen(s)})
    OBVIOUS
  <2> DEFINE Q == s \ {Chosen(s)}
  <2>2. Q \in SUBSET U /\ Q # U
    BY <2>1, ChosenIsMember
  <2>3. CASE Q = {}
    <3>1. PartialSums(f, {}, CHOOSE g : PartialSums(f, {}, g))
      BY <1>3, <2>2, <2>3
    <3>2. Sum({}) = 0
      BY <3>1 DEF PartialSums, Sum
    <3> QED
      BY <2>3, <3>2
  <2>4. CASE Q # {}
    BY <1>4, <2>2, <2>4
  <2> QED
    BY <2>3, <2>4
<1>6. PartialSums(f, U, G)
  <2>1. \A s \in SUBSET U :
           G[s] = IF s = {} THEN 0 ELSE f[Chosen(s)] + G[s \ {Chosen(s)}]
    BY <1>5
  <2>2. G = [s \in SUBSET U |-> G[s]]
    OBVIOUS
  <2> HIDE DEF G
  <2> QED
    BY <2>1, <2>2 DEF PartialSums
<1> QED
  BY <1>2, <1>6

(* The recursion equation of sums. *)
LEMMA SumUnfolds ==
    ASSUME NEW f, NEW S, IsFiniteSet(S)
    PROVE  SumFunctionOnSet(f, S) =
             IF S = {} THEN 0
             ELSE f[Chosen(S)] + SumFunctionOnSet(f, S \ {Chosen(S)})
<1> DEFINE g == CHOOSE g : PartialSums(f, S, g)
           Q == S \ {Chosen(S)}
           h == CHOOSE h : PartialSums(f, Q, h)
<1>1. IsFiniteSet(Q)
  BY FS_Subset
<1>2. PartialSums(f, S, g) /\ PartialSums(f, Q, h)
  BY <1>1, PartialSumsExist
<1>3. PartialSums(f, Q, [s \in SUBSET Q |-> g[s]])
  BY <1>2, PartialSumsRestrict
<1>4. h = [s \in SUBSET Q |-> g[s]]
  BY <1>1, <1>2, <1>3, PartialSumsUnique
<1>5. h[Q] = g[Q]
  BY <1>4
<1>6. g[S] = IF S = {} THEN 0 ELSE f[Chosen(S)] + g[Q]
  BY <1>2 DEF PartialSums
<1>7. SumFunctionOnSet(f, S) = g[S] /\ SumFunctionOnSet(f, Q) = h[Q]
  BY SumIsPartialSum
<1> HIDE DEF g, h, Q
<1> QED
  BY <1>5, <1>6, <1>7 DEF Q
-----------------------------------------------------------------------------
(* What sums are. *)

(* An empty sum is zero. *)
LEMMA SumEmpty ==
    ASSUME NEW f
    PROVE  SumFunctionOnSet(f, {}) = 0
  BY SumUnfolds, FS_EmptySet

(* Sums of integers are integers, and sums of naturals naturals.            *)
LEMMA SumType ==
    ASSUME NEW f, NEW S, IsFiniteSet(S), \A x \in S : f[x] \in Int
    PROVE  /\ SumFunctionOnSet(f, S) \in Int
           /\ (\A x \in S : f[x] >= 0) => SumFunctionOnSet(f, S) >= 0
           /\ (\A x \in S : f[x] <= 0) => SumFunctionOnSet(f, S) <= 0
<1> DEFINE Right(R) == /\ SumFunctionOnSet(f, R) \in Int
                       /\ (\A x \in R : f[x] >= 0) => SumFunctionOnSet(f, R) >= 0
                       /\ (\A x \in R : f[x] <= 0) => SumFunctionOnSet(f, R) <= 0
           T == {R \in SUBSET S : ~ Right(R)}
<1>1. SUFFICES ASSUME T # {} PROVE FALSE
  OBVIOUS
<1>2. PICK U \in T : \A V \in T : V \subseteq U => V = U
  <2>1. T \subseteq SUBSET S
    OBVIOUS
  <2> HIDE DEF T
  <2> QED
    BY <1>1, <2>1, SmallestSubset
<1> DEFINE Q == U \ {Chosen(U)}
<1>3. U # {}
  <2>1. Right({})
    BY SumEmpty
  <2> QED
    BY <1>2, <2>1
<1>4. Chosen(U) \in U /\ U \subseteq S /\ IsFiniteSet(U)
  BY <1>2, <1>3, ChosenIsMember, FS_Subset
<1>5. SumFunctionOnSet(f, U) = f[Chosen(U)] + SumFunctionOnSet(f, Q)
  BY <1>3, <1>4, SumUnfolds
<1>6. Right(Q)
  BY <1>2, <1>4
<1>7. Right(U)
  BY <1>4, <1>5, <1>6
<1> QED
  BY <1>2, <1>7

(* Nothing adds up to nothing. *)
LEMMA SumZero ==
    ASSUME NEW f, NEW S, IsFiniteSet(S), \A x \in S : f[x] = 0
    PROVE  SumFunctionOnSet(f, S) = 0
<1>1. /\ SumFunctionOnSet(f, S) \in Int
      /\ SumFunctionOnSet(f, S) >= 0 /\ SumFunctionOnSet(f, S) <= 0
  BY SumType
<1> QED
  BY <1>1

(* A sum depends on the summands only. *)
LEMMA SumEqual ==
    ASSUME NEW f, NEW g, NEW S, IsFiniteSet(S), \A x \in S : f[x] = g[x]
    PROVE  SumFunctionOnSet(f, S) = SumFunctionOnSet(g, S)
<1> DEFINE T == {R \in SUBSET S : SumFunctionOnSet(f, R) # SumFunctionOnSet(g, R)}
<1>1. SUFFICES ASSUME T # {} PROVE FALSE
  OBVIOUS
<1>2. PICK U \in T : \A V \in T : V \subseteq U => V = U
  <2>1. T \subseteq SUBSET S
    OBVIOUS
  <2> HIDE DEF T
  <2> QED
    BY <1>1, <2>1, SmallestSubset
<1> DEFINE Q == U \ {Chosen(U)}
<1>3. U # {}
  BY <1>2, SumEmpty
<1>4. Chosen(U) \in U /\ U \subseteq S /\ IsFiniteSet(U)
  BY <1>2, <1>3, ChosenIsMember, FS_Subset
<1>5. /\ SumFunctionOnSet(f, U) = f[Chosen(U)] + SumFunctionOnSet(f, Q)
      /\ SumFunctionOnSet(g, U) = g[Chosen(U)] + SumFunctionOnSet(g, Q)
  BY <1>3, <1>4, SumUnfolds
<1>6. SumFunctionOnSet(f, Q) = SumFunctionOnSet(g, Q)
  BY <1>2, <1>4
<1> QED
  BY <1>2, <1>4, <1>5, <1>6

(* Any summand may be taken out first. *)
LEMMA SumRemove ==
    ASSUME NEW f, NEW S, IsFiniteSet(S), \A x \in S : f[x] \in Int,
           NEW y \in S
    PROVE  SumFunctionOnSet(f, S) = f[y] + SumFunctionOnSet(f, S \ {y})
<1> DEFINE Right(R) ==
             \A z \in R : SumFunctionOnSet(f, R) = f[z] + SumFunctionOnSet(f, R \ {z})
           T == {R \in SUBSET S : ~ Right(R)}
<1>1. SUFFICES ASSUME T # {} PROVE FALSE
  OBVIOUS
<1>2. PICK U \in T : \A V \in T : V \subseteq U => V = U
  <2>1. T \subseteq SUBSET S
    OBVIOUS
  <2> HIDE DEF T
  <2> QED
    BY <1>1, <2>1, SmallestSubset
<1>3. PICK z \in U : SumFunctionOnSet(f, U) # f[z] + SumFunctionOnSet(f, U \ {z})
  BY <1>2
<1> DEFINE x == Chosen(U)
<1>4. x \in U /\ U \subseteq S /\ IsFiniteSet(U)
  BY <1>2, <1>3, ChosenIsMember, FS_Subset
<1>5. SumFunctionOnSet(f, U) = f[x] + SumFunctionOnSet(f, U \ {x})
  BY <1>3, <1>4, SumUnfolds
<1>6. z # x
  BY <1>3, <1>5
<1>7. Right(U \ {x}) /\ Right(U \ {z})
  BY <1>2, <1>4
<1> DEFINE W == U \ {x, z}
<1>8. (U \ {x}) \ {z} = W /\ (U \ {z}) \ {x} = W
  OBVIOUS
<1>9. /\ SumFunctionOnSet(f, U \ {x}) = f[z] + SumFunctionOnSet(f, W)
      /\ SumFunctionOnSet(f, U \ {z}) = f[x] + SumFunctionOnSet(f, W)
  BY <1>4, <1>6, <1>7, <1>8, Zenon
<1>10. SumFunctionOnSet(f, W) \in Int
  <2>1. IsFiniteSet(W) /\ W \subseteq S
    BY <1>4, FS_Subset
  <2> QED
    BY <2>1, SumType
<1>11. f[x] \in Int /\ f[z] \in Int
  BY <1>4
<1> HIDE DEF x, T, W
<1> QED
  BY <1>3, <1>5, <1>9, <1>10, <1>11

(* A new summand is added. *)
LEMMA SumAdd ==
    ASSUME NEW f, NEW S, IsFiniteSet(S), NEW y, y \notin S,
           \A x \in S \cup {y} : f[x] \in Int
    PROVE  SumFunctionOnSet(f, S \cup {y}) = SumFunctionOnSet(f, S) + f[y]
<1> DEFINE R == S \cup {y}
<1>1. IsFiniteSet(R) /\ R \ {y} = S /\ y \in R
  BY FS_AddElement
<1>2. SumFunctionOnSet(f, S) \in Int /\ f[y] \in Int
  BY SumType
<1>3. SumFunctionOnSet(f, R) = f[y] + SumFunctionOnSet(f, R \ {y})
  BY <1>1, SumRemove
<1>4. SumFunctionOnSet(f, R \ {y}) = SumFunctionOnSet(f, S)
  BY <1>1
<1> HIDE DEF R
<1>5. SumFunctionOnSet(f, R) = SumFunctionOnSet(f, S) + f[y]
  BY <1>2, <1>3, <1>4
<1> QED
  BY <1>5 DEF R

(* When one summand changes, the sum changes by the difference. *)
LEMMA SumChange ==
    ASSUME NEW f, NEW g, NEW S, IsFiniteSet(S), NEW y \in S,
           \A x \in S : f[x] \in Int /\ g[x] \in Int,
           \A x \in S \ {y} : f[x] = g[x]
    PROVE  SumFunctionOnSet(g, S) = SumFunctionOnSet(f, S) - f[y] + g[y]
<1> DEFINE Q == S \ {y}
<1>1. IsFiniteSet(Q)
  BY FS_Subset
<1>2. SumFunctionOnSet(f, Q) = SumFunctionOnSet(g, Q)
  BY <1>1, SumEqual
<1>3. SumFunctionOnSet(f, Q) \in Int
  BY <1>1, SumType
<1>4. /\ SumFunctionOnSet(f, S) = f[y] + SumFunctionOnSet(f, Q)
      /\ SumFunctionOnSet(g, S) = g[y] + SumFunctionOnSet(g, Q)
  BY SumRemove
<1> QED
  BY <1>2, <1>3, <1>4

(* A sum is what a part of it sums to and the rest. *)
LEMMA SumSplits ==
    ASSUME NEW f, NEW S, IsFiniteSet(S), \A x \in S : f[x] \in Int,
           NEW R, R \subseteq S
    PROVE  SumFunctionOnSet(f, S) =
             SumFunctionOnSet(f, R) + SumFunctionOnSet(f, S \ R)
<1> DEFINE Right(P) == SumFunctionOnSet(f, S) =
                         SumFunctionOnSet(f, P) + SumFunctionOnSet(f, S \ P)
           T == {P \in SUBSET S : ~ Right(P)}
<1>1. SUFFICES ASSUME T # {} PROVE FALSE
  OBVIOUS
<1>2. PICK U \in T : \A V \in T : V \subseteq U => V = U
  <2>1. T \subseteq SUBSET S
    OBVIOUS
  <2> HIDE DEF T
  <2> QED
    BY <1>1, <2>1, SmallestSubset
<1>3. U # {}
  <2>1. SumFunctionOnSet(f, S) \in Int
    BY SumType
  <2>2. Right({})
    BY <2>1, SumEmpty
  <2> QED
    BY <1>2, <2>2
<1>4. PICK y \in U : TRUE
  BY <1>3
<1> DEFINE Q == U \ {y}
           P == S \ U
<1>5. /\ U \subseteq S /\ IsFiniteSet(U) /\ IsFiniteSet(Q) /\ IsFiniteSet(P)
      /\ S \ Q = P \cup {y} /\ y \notin P /\ Q \subseteq S
  BY <1>2, FS_Subset
<1>6. Right(Q)
  BY <1>2, <1>4
<1>7. SumFunctionOnSet(f, U) = f[y] + SumFunctionOnSet(f, Q)
  BY <1>5, SumRemove
<1>8. SumFunctionOnSet(f, P \cup {y}) = SumFunctionOnSet(f, P) + f[y]
  BY <1>5, SumAdd
<1>9. /\ SumFunctionOnSet(f, Q) \in Int
      /\ SumFunctionOnSet(f, P) \in Int
      /\ f[y] \in Int
  BY <1>5, SumType
<1>10. SumFunctionOnSet(f, S \ Q) = SumFunctionOnSet(f, P) + f[y]
  BY <1>5, <1>8
<1>11. Right(U)
  <2> HIDE DEF Q, P
  <2>1. SumFunctionOnSet(f, S) =
          SumFunctionOnSet(f, Q) + (SumFunctionOnSet(f, P) + f[y])
    BY <1>6, <1>10
  <2>2. SumFunctionOnSet(f, S) =
          SumFunctionOnSet(f, U) + SumFunctionOnSet(f, P)
    BY <1>7, <1>9, <2>1
  <2> QED
    BY <2>2 DEF P
<1> QED
  BY <1>2, <1>11

(* Part of a sum of naturals is no more than the whole. *)
LEMMA SumOfPart ==
    ASSUME NEW f, NEW S, IsFiniteSet(S), \A x \in S : f[x] \in Int /\ f[x] >= 0,
           NEW R, R \subseteq S
    PROVE  /\ SumFunctionOnSet(f, R) \in Int /\ SumFunctionOnSet(f, R) >= 0
           /\ SumFunctionOnSet(f, R) <= SumFunctionOnSet(f, S)
<1>1. SumFunctionOnSet(f, S) = SumFunctionOnSet(f, R) + SumFunctionOnSet(f, S \ R)
  BY SumSplits
<1>2. SumFunctionOnSet(f, R) \in Int /\ SumFunctionOnSet(f, R) >= 0
  <2>1. IsFiniteSet(R) /\ \A x \in R : f[x] \in Int /\ f[x] >= 0
    BY FS_Subset
  <2> QED
    BY <2>1, SumType
<1> DEFINE Q == S \ R
<1>3. IsFiniteSet(Q) /\ \A x \in Q : f[x] \in Int /\ f[x] >= 0
  BY FS_Subset
<1> HIDE DEF Q
<1>4. SumFunctionOnSet(f, Q) \in Int /\ SumFunctionOnSet(f, Q) >= 0
  BY <1>3, SumType
<1> QED
  BY <1>1, <1>2, <1>4 DEF Q

(* Extending a function to one more argument adds that value to its sum.    *)
LEMMA SumExtends ==
    ASSUME NEW f, NEW g, NEW S, IsFiniteSet(S), NEW y, y \notin S,
           DOMAIN f = S, DOMAIN g = S \cup {y},
           \A x \in S : f[x] \in Int /\ g[x] = f[x], g[y] \in Int
    PROVE  SumFunction(g) = SumFunction(f) + g[y]
<1>1. SumFunctionOnSet(g, S \cup {y}) = SumFunctionOnSet(g, S) + g[y]
  BY SumAdd
<1>2. SumFunctionOnSet(g, S) = SumFunctionOnSet(f, S)
  BY SumEqual
<1> QED
  BY <1>1, <1>2 DEF SumFunction
=============================================================================
