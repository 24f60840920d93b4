----------------------------- MODULE DataProofs -----------------------------
(***************************************************************************)
(* What a sum over a finite set is, whatever the order in which the fold   *)
(* takes its elements: a summand can be taken out, put in or changed; and  *)
(* what is left of a list of which some elements are taken: those that are *)
(* kept, in the order they had, and each at one place.                     *)
(*                                                                         *)
(* The induction theorems of the library have an operator as a parameter.  *)
(* Here induction is over a set of numbers, by the element that is smallest *)
(* outside of it (WFMin, NatLessThanWellFounded); a statement about finite *)
(* sets becomes one about the set of the cardinalities for which it holds. *)
(***************************************************************************)
EXTENDS Sums, Lists, FiniteSetTheorems, FunctionTheorems, WellFoundedInduction, TLAPS

\* A set of natural numbers that has 0 and every successor has them all.
LEMMA NatSetInduction ==
  ASSUME NEW T \in SUBSET Nat, 0 \in T, \A n \in T : n + 1 \in T
  PROVE  T = Nat
<1> SUFFICES ASSUME Nat \ T # {} PROVE FALSE
  OBVIOUS
<1>1. PICK n \in Nat \ T : \A m \in Nat \ T : ~(<<m, n>> \in OpToRel(<, Nat))
  BY NatLessThanWellFounded, WFMin
<1>2. \A m \in Nat \ T : ~(m < n)
  BY <1>1 DEF OpToRel
<1>3. n # 0 /\ n - 1 \in Nat
  OBVIOUS
<1>4. n - 1 \in T
  BY <1>2, <1>3
<1> QED
  BY <1>4

-----------------------------------------------------------------------------
(* The function the fold is made of                                          *)

Taken(S) == CHOOSE x \in S : TRUE

\* it is that function for the subsets of S with at most n elements.
Small(S, n) == {s \in SUBSET S : IsFiniteSet(s) /\ Cardinality(s) <= n}
Sums(it, f, domain) ==
  it = [s \in domain |-> IF s = {} THEN 0 ELSE f[Taken(s)] + it[s \ {Taken(s)}]]

\* One element less.
LEMMA TakenLess ==
  ASSUME NEW S, IsFiniteSet(S), S # {}
  PROVE  /\ Taken(S) \in S
         /\ IsFiniteSet(S \ {Taken(S)})
         /\ Cardinality(S) \in Nat \ {0}
         /\ Cardinality(S \ {Taken(S)}) = Cardinality(S) - 1
<1>1. Taken(S) \in S
  BY DEF Taken
<1> QED
  BY <1>1, FS_RemoveElement, FS_CardinalityType, FS_EmptySet

\* It exists for the sets of any size.
LEMMA SumsExistSmall ==
  ASSUME NEW f, NEW S, NEW n \in Nat
  PROVE  \E it : Sums(it, f, Small(S, n))
<1> DEFINE T == {m \in Nat : \E it : Sums(it, f, Small(S, m))}
<1>1. 0 \in T
  <2>1. \A s \in Small(S, 0) : s = {}
    BY FS_EmptySet, FS_CardinalityType DEF Small
  <2>2. Sums([s \in Small(S, 0) |-> 0], f, Small(S, 0))
    BY <2>1 DEF Sums
  <2> QED
    BY <2>2
<1>2. ASSUME NEW m \in T PROVE m + 1 \in T
  <2>1. PICK it : Sums(it, f, Small(S, m))
    OBVIOUS
  <2> DEFINE more == [s \in Small(S, m + 1) |->
                        IF s = {} THEN 0 ELSE f[Taken(s)] + it[s \ {Taken(s)}]]
  <2>0. m \in Nat
    OBVIOUS
  <2>2. ASSUME NEW s \in Small(S, m + 1), s # {} PROVE s \ {Taken(s)} \in Small(S, m)
    <3> HIDE DEF T, more
    <3>1. s \in SUBSET S /\ IsFiniteSet(s) /\ Cardinality(s) <= m + 1
      BY DEF Small
    <3>2. /\ IsFiniteSet(s \ {Taken(s)}) /\ Cardinality(s) \in Nat
          /\ Cardinality(s \ {Taken(s)}) = Cardinality(s) - 1
      BY <2>2, <3>1, TakenLess
    <3>3. Cardinality(s \ {Taken(s)}) <= m
      BY <2>0, <3>1, <3>2
    <3> QED
      BY <3>1, <3>2, <3>3 DEF Small
  <2>3. ASSUME NEW s \in Small(S, m) PROVE s \in Small(S, m + 1)
    <3> HIDE DEF T, more
    <3>1. s \in SUBSET S /\ IsFiniteSet(s) /\ Cardinality(s) <= m
      BY DEF Small
    <3>2. Cardinality(s) <= m + 1
      BY <2>0, <3>1, FS_CardinalityType
    <3> QED
      BY <3>1, <3>2 DEF Small
  <2>4. \A s \in Small(S, m) : it[s] = IF s = {} THEN 0 ELSE f[Taken(s)] + it[s \ {Taken(s)}]
    BY <2>1 DEF Sums
  <2>5. \A s \in Small(S, m) : more[s] = it[s]
    BY <2>3, <2>4
  <2>7. more = [s \in Small(S, m + 1) |->
                  IF s = {} THEN 0 ELSE f[Taken(s)] + more[s \ {Taken(s)}]]
    BY <2>2, <2>5
  <2>8. Sums(more, f, Small(S, m + 1))
    <3> HIDE DEF more
    <3> QED
      BY <2>7 DEF Sums
  <2>9. m + 1 \in Nat /\ (\E i : Sums(i, f, Small(S, m + 1)))
    <3> HIDE DEF more
    <3> QED
      BY <2>8
  <2> QED
    BY <2>9
<1>3. T = Nat
  <2> HIDE DEF T
  <2> QED
    BY <1>1, <1>2, NatSetInduction DEF T
<1> QED
  BY <1>3

\* Two of them agree where both are defined.
LEMMA SumsAgree ==
  ASSUME NEW f, NEW g, NEW R, NEW S, NEW i, NEW j,
         Sums(i, f, SUBSET R), Sums(j, g, SUBSET S),
         NEW s \in SUBSET (R \cap S), IsFiniteSet(s), \A x \in s : f[x] = g[x]
  PROVE  i[s] = j[s]
<1> DEFINE T == {m \in Nat : \A u \in SUBSET s : IsFiniteSet(u) /\ Cardinality(u) = m => i[u] = j[u]}
<1>1. 0 \in T
  <2>1. i[{}] = 0 /\ j[{}] = 0
    BY DEF Sums
  <2> QED
    BY <2>1, FS_EmptySet
<1>2. ASSUME NEW m \in T PROVE m + 1 \in T
  <2> SUFFICES ASSUME NEW u \in SUBSET s, IsFiniteSet(u), Cardinality(u) = m + 1
               PROVE  i[u] = j[u]
    OBVIOUS
  <2>1. u # {}
    BY FS_EmptySet
  <2>2. i[u \ {Taken(u)}] = j[u \ {Taken(u)}] /\ Taken(u) \in u
    BY <2>1, TakenLess
  <2>3. i[u] = f[Taken(u)] + i[u \ {Taken(u)}] /\ j[u] = g[Taken(u)] + j[u \ {Taken(u)}]
    BY <2>1 DEF Sums
  <2> QED
    BY <2>2, <2>3
<1>3. T = Nat
  <2> HIDE DEF T
  <2> QED
    BY <1>1, <1>2, NatSetInduction DEF T
<1>4. Cardinality(s) \in Nat
  BY FS_CardinalityType
<1> QED
  BY <1>3, <1>4

\* What the fold computes is its value.
LEMMA SumOverSums ==
  ASSUME NEW f, NEW S, IsFiniteSet(S)
  PROVE  \E it : Sums(it, f, SUBSET S) /\ SumOver(f, S) = it[S]
<1>1. Small(S, Cardinality(S)) = SUBSET S
  BY FS_Subset, FS_CardinalityType DEF Small
<1>2. \E it : Sums(it, f, SUBSET S)
  <2>1. Cardinality(S) \in Nat
    BY FS_CardinalityType
  <2>2. \E it : Sums(it, f, Small(S, Cardinality(S)))
    BY <2>1, SumsExistSmall
  <2> QED
    BY <1>1, <2>2
<1> DEFINE it == CHOOSE i : Sums(i, f, SUBSET S)
<1>3. SumOver(f, S) = it[S]
  BY DEF SumOver, MapThenSumSet, MapThenFoldSet, Sums, Taken
<1>4. Sums(it, f, SUBSET S)
  BY <1>2
<1> HIDE DEF it
<1> QED
  BY <1>3, <1>4

-----------------------------------------------------------------------------
(* Sums                                                                      *)

\* A sum depends on the values of the summands only.
LEMMA SumSame ==
  ASSUME NEW f, NEW g, NEW S, IsFiniteSet(S), \A x \in S : f[x] = g[x]
  PROVE  SumOver(f, S) = SumOver(g, S)
<1>1. PICK i : Sums(i, f, SUBSET S) /\ SumOver(f, S) = i[S]
  BY SumOverSums
<1>2. PICK j : Sums(j, g, SUBSET S) /\ SumOver(g, S) = j[S]
  BY SumOverSums
<1> QED
  BY <1>1, <1>2, SumsAgree

LEMMA SumEmpty == ASSUME NEW f PROVE SumOver(f, {}) = 0
<1>1. PICK i : Sums(i, f, SUBSET {}) /\ SumOver(f, {}) = i[{}]
  BY SumOverSums, FS_EmptySet
<1> QED
  BY <1>1 DEF Sums

\* The element the fold takes first.
LEMMA SumTaken ==
  ASSUME NEW f, NEW S, IsFiniteSet(S), S # {}
  PROVE  SumOver(f, S) = f[Taken(S)] + SumOver(f, S \ {Taken(S)})
<1> DEFINE R == S \ {Taken(S)}
<1>1. PICK i : Sums(i, f, SUBSET S) /\ SumOver(f, S) = i[S]
  BY SumOverSums
<1>2. IsFiniteSet(R)
  BY TakenLess
<1>3. PICK j : Sums(j, f, SUBSET R) /\ SumOver(f, R) = j[R]
  BY <1>2, SumOverSums
<1>4. i[R] = j[R]
  <2>1. R \in SUBSET (S \cap R)
    OBVIOUS
  <2> HIDE DEF R
  <2> QED
    BY <1>1, <1>2, <1>3, <2>1, SumsAgree
<1>5. i[S] = f[Taken(S)] + i[R]
  BY <1>1 DEF Sums
<1> QED
  BY <1>1, <1>3, <1>4, <1>5

\* A sum of integers is one.
LEMMA SumInt ==
  ASSUME NEW f, NEW S, IsFiniteSet(S), \A x \in S : f[x] \in Int
  PROVE  SumOver(f, S) \in Int
<1> DEFINE T == {m \in Nat : \A s \in SUBSET S : IsFiniteSet(s) /\ Cardinality(s) = m
                                                  => SumOver(f, s) \in Int}
<1>1. 0 \in T
  BY SumEmpty, FS_EmptySet
<1>2. ASSUME NEW m \in T PROVE m + 1 \in T
  <2> SUFFICES ASSUME NEW s \in SUBSET S, IsFiniteSet(s), Cardinality(s) = m + 1
               PROVE  SumOver(f, s) \in Int
    OBVIOUS
  <2>1. s # {}
    BY FS_EmptySet
  <2>2. SumOver(f, s \ {Taken(s)}) \in Int /\ f[Taken(s)] \in Int
    BY <2>1, TakenLess
  <2> QED
    BY <2>1, <2>2, SumTaken
<1>3. T = Nat
  <2> HIDE DEF T
  <2> QED
    BY <1>1, <1>2, NatSetInduction DEF T
<1>4. Cardinality(S) \in Nat
  BY FS_CardinalityType
<1> QED
  BY <1>3, <1>4

\* Any summand can be taken out.
THEOREM SumRemove ==
  ASSUME NEW f, NEW S, IsFiniteSet(S), \A x \in S : f[x] \in Int, NEW e \in S
  PROVE  SumOver(f, S) = f[e] + SumOver(f, S \ {e})
<1> DEFINE T == {m \in Nat : \A s \in SUBSET S : \A x \in s :
                   IsFiniteSet(s) /\ Cardinality(s) = m
                     => SumOver(f, s) = f[x] + SumOver(f, s \ {x})}
<1>1. 0 \in T
  BY FS_EmptySet
<1>2. ASSUME NEW m \in T PROVE m + 1 \in T
  <2> SUFFICES ASSUME NEW s \in SUBSET S, NEW x \in s, IsFiniteSet(s), Cardinality(s) = m + 1
               PROVE  SumOver(f, s) = f[x] + SumOver(f, s \ {x})
    OBVIOUS
  <2>0. m \in Nat
    OBVIOUS
  <2> DEFINE y == Taken(s)
  <2>1. y \in s /\ SumOver(f, s) = f[y] + SumOver(f, s \ {y})
    BY TakenLess, SumTaken
  <2>2. CASE x = y
    BY <2>1, <2>2
  <2>3. CASE x # y
    <3> HIDE DEF y
    <3>1. /\ IsFiniteSet(s \ {y}) /\ Cardinality(s \ {y}) = m
          /\ IsFiniteSet(s \ {x}) /\ Cardinality(s \ {x}) = m
      <4> HIDE DEF T
      <4>1. ASSUME NEW z \in s PROVE IsFiniteSet(s \ {z}) /\ Cardinality(s \ {z}) = m
        <5>1. IsFiniteSet(s \ {z}) /\ Cardinality(s \ {z}) = Cardinality(s) - 1
          BY FS_RemoveElement
        <5>2. (m + 1) - 1 = m
          BY <2>0
        <5> QED
          BY <5>1, <5>2
      <4> QED
        BY <2>1, <4>1
    <3>2. SumOver(f, s \ {y}) = f[x] + SumOver(f, (s \ {y}) \ {x})
      BY <2>1, <2>3, <3>1
    <3>3. SumOver(f, s \ {x}) = f[y] + SumOver(f, (s \ {x}) \ {y})
      BY <2>1, <2>3, <3>1
    <3>4. (s \ {y}) \ {x} = (s \ {x}) \ {y}
      OBVIOUS
    <3>5. IsFiniteSet((s \ {x}) \ {y})
      BY <3>1, FS_Subset
    <3>6. SumOver(f, (s \ {x}) \ {y}) \in Int /\ f[x] \in Int /\ f[y] \in Int
      BY <2>1, <3>5, SumInt
    <3> QED
      BY <2>1, <3>2, <3>3, <3>4, <3>6
  <2> QED
    BY <2>2, <2>3
<1>3. T = Nat
  <2> HIDE DEF T
  <2> QED
    BY <1>1, <1>2, NatSetInduction DEF T
<1>4. Cardinality(S) \in Nat
  BY FS_CardinalityType
<1> QED
  BY <1>3, <1>4

\* A summand put in.
LEMMA SumAdd ==
  ASSUME NEW f, NEW S, IsFiniteSet(S), NEW e, e \notin S, \A x \in S \cup {e} : f[x] \in Int
  PROVE  SumOver(f, S \cup {e}) = SumOver(f, S) + f[e]
<1>1. IsFiniteSet(S \cup {e}) /\ (S \cup {e}) \ {e} = S
  BY FS_AddElement
<1>2. SumOver(f, S \cup {e}) = f[e] + SumOver(f, S)
  BY <1>1, SumRemove
<1> QED
  BY <1>2, SumInt

\* One summand changed.
LEMMA SumChange ==
  ASSUME NEW f, NEW g, NEW S, IsFiniteSet(S), NEW e \in S,
         \A x \in S : f[x] \in Int /\ g[x] \in Int, \A x \in S \ {e} : f[x] = g[x]
  PROVE  SumOver(g, S) = SumOver(f, S) + (g[e] - f[e])
<1>1. IsFiniteSet(S \ {e})
  BY FS_RemoveElement
<1>2. SumOver(f, S \ {e}) = SumOver(g, S \ {e}) /\ SumOver(f, S \ {e}) \in Int
  BY <1>1, SumSame, SumInt
<1>3. SumOver(f, S) = f[e] + SumOver(f, S \ {e}) /\ SumOver(g, S) = g[e] + SumOver(g, S \ {e})
  BY SumRemove
<1> QED
  BY <1>2, <1>3

\* A set of natural numbers that is not empty has a smallest.
LEMMA Least ==
  ASSUME NEW S \in SUBSET Nat, S # {}
  PROVE  \E n \in S : \A m \in S : n <= m
<1>1. PICK n \in S : \A m \in S : ~(<<m, n>> \in OpToRel(<, Nat))
  BY NatLessThanWellFounded, WFMin
<1>2. \A m \in S : ~(m < n)
  BY <1>1 DEF OpToRel
<1> QED
  BY <1>2

-----------------------------------------------------------------------------
(* Lists thinned out                                                         *)
\* The numbers of a set have different places, and every place is taken.
LEMMA PlacesTaken ==
  ASSUME NEW S \in SUBSET Nat, IsFiniteSet(S)
  PROVE  /\ Cardinality(S) \in Nat
         /\ \A i \in S : Place(S, i) \in 1..Cardinality(S)
         /\ \A i, j \in S : Place(S, i) = Place(S, j) => i = j
         /\ \A k \in 1..Cardinality(S) : Nth(S, k) \in S /\ Place(S, Nth(S, k)) = k
<1> DEFINE below(i) == {j \in S : j <= i}
           place == [i \in S |-> Place(S, i)]
           n == Cardinality(S)
<1>1. n \in Nat
  BY FS_CardinalityType
<1>2. ASSUME NEW i \in S
      PROVE  /\ IsFiniteSet(below(i)) /\ Place(S, i) = Cardinality(below(i))
             /\ Place(S, i) \in 1..n
  <2>1. IsFiniteSet(below(i)) /\ Cardinality(below(i)) <= n
    BY FS_Subset
  <2>2. i \in below(i)
    OBVIOUS
  <2>3. Cardinality(below(i)) \in Nat /\ Cardinality(below(i)) # 0
    BY <2>1, <2>2, FS_CardinalityType, FS_EmptySet
  <2> QED
    BY <1>1, <2>1, <2>3 DEF Place
<1>3. ASSUME NEW i \in S, NEW j \in S, i < j PROVE Place(S, i) # Place(S, j)
  <2>0. i \in Nat /\ j \in Nat /\ \A k \in S : k \in Nat
    OBVIOUS
  <2>1. below(i) \subseteq below(j) /\ j \in below(j) /\ j \notin below(i)
    <3>1. \A k \in S : k <= i => k <= j
      BY <1>3, <2>0
    <3>2. j \in below(j) /\ j \notin below(i)
      BY <1>3, <2>0
    <3> QED
      BY <3>1, <3>2
  <2> QED
    BY <1>2, <2>1, FS_Subset
<1>4. \A i, j \in S : Place(S, i) = Place(S, j) => i = j
  BY <1>3
<1>5. place \in [S -> 1..n]
  BY <1>2
<1>50. place \in Injection(S, 1..n)
  BY <1>4, <1>5 DEF Injection, IsInjective
<1>6. IsFiniteSet(1..n) /\ Cardinality(1..n) = n
  BY <1>1, FS_Interval
<1>7. place \in Surjection(S, 1..n)
  BY <1>50, <1>6, FS_Injection
<1>8. ASSUME NEW k \in 1..n PROVE \E i \in S : Place(S, i) = k
  BY <1>7 DEF Surjection
<1>9. ASSUME NEW k \in 1..n PROVE Nth(S, k) \in S /\ Place(S, Nth(S, k)) = k
  BY <1>8 DEF Nth
<1> QED
  BY <1>1, <1>2, <1>4, <1>9

\* Thinning out keeps what is at the indices and nothing else.
THEOREM ThinKeeps ==
  ASSUME NEW X, NEW seq \in Seq(X), NEW S \in SUBSET DOMAIN seq
  PROVE  /\ IsFiniteSet(S) /\ Cardinality(S) <= Len(seq)
         /\ Thin(seq, S) \in Seq(X) /\ Len(Thin(seq, S)) = Cardinality(S)
         /\ DOMAIN Thin(seq, S) = 1..Cardinality(S)
         /\ \A k \in DOMAIN Thin(seq, S) :
              \E i \in S : Place(S, i) = k /\ Thin(seq, S)[k] = seq[i]
         /\ \A i \in S : Place(S, i) \in DOMAIN Thin(seq, S) /\ Thin(seq, S)[Place(S, i)] = seq[i]
<1> DEFINE n == Cardinality(S)
<1>1. /\ Len(seq) \in Nat /\ DOMAIN seq = 1..Len(seq) /\ S \in SUBSET Nat
      /\ \A i \in DOMAIN seq : seq[i] \in X
  OBVIOUS
<1>2. IsFiniteSet(1..Len(seq)) /\ Cardinality(1..Len(seq)) = Len(seq)
  BY <1>1, FS_Interval
<1>3. IsFiniteSet(S) /\ n <= Len(seq)
  BY <1>1, <1>2, FS_Subset
<1>4. /\ n \in Nat
      /\ \A i \in S : Place(S, i) \in 1..n
      /\ \A i, j \in S : Place(S, i) = Place(S, j) => i = j
      /\ \A k \in 1..n : Nth(S, k) \in S /\ Place(S, Nth(S, k)) = k
  BY <1>1, <1>3, PlacesTaken
<1> HIDE DEF n
<1> DEFINE thin == [k \in 1..n |-> seq[Nth(S, k)]]
<1>5. Thin(seq, S) = thin
  BY DEF Thin, n
<1>6. \A k \in 1..n : Nth(S, k) \in S /\ thin[k] = seq[Nth(S, k)] /\ thin[k] \in X
  BY <1>1, <1>4
<1>7. thin \in Seq(X) /\ Len(thin) = n
  BY <1>4, <1>6
<1>8. \A i \in S : thin[Place(S, i)] = seq[i]
  BY <1>4
<1> QED
  BY <1>3, <1>4, <1>5, <1>6, <1>7, <1>8 DEF n
=============================================================================
