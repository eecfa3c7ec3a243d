----------------------------- MODULE WellOrder -----------------------------
(****************************************************************************)
(* That sets of natural numbers have a least, and finite ones a greatest    *)
(* element: what CHOOSE finds in the models, where they choose by a number. *)
(****************************************************************************)
EXTENDS FiniteSetTheorems, WellFoundedInduction, TLAPS

\* The natural numbers are well ordered.
LEMMA LeastExists ==
  ASSUME NEW T, T \subseteq Nat, T # {} PROVE \E x \in T : \A y \in T : x <= y
<1>. DEFINE Below == {p \in Nat \X Nat : p[1] < p[2]}
<1>1. IsWellFoundedOn(Below, Nat)
  BY NatLessThanWellFounded DEF OpToRel
<1>. HIDE DEF Below
<1>2. PICK x \in T : \A y \in T : ~ (<<y, x>> \in Below)
  BY <1>1, WFMin
<1>3. \A y \in T : ~(y < x)
  BY <1>2 DEF Below
<1>. QED  BY <1>3

\* A finite set of natural numbers has a greatest: take one without, of the
\* least cardinality.
LEMMA FiniteHasGreatest ==
  ASSUME NEW T, T \subseteq Nat, T # {}, IsFiniteSet(T) PROVE \E x \in T : \A y \in T : y <= x
<1>. DEFINE Bad(S) == S \subseteq Nat /\ S # {} /\ IsFiniteSet(S) /\ ~(\E x \in S : \A y \in S : y <= x)
            N == {n \in Nat : \E S \in SUBSET T : Bad(S) /\ Cardinality(S) = n}
<1>1. SUFFICES ASSUME Bad(T) PROVE FALSE
  OBVIOUS
<1>2. Cardinality(T) \in N
  <2>1. Cardinality(T) \in Nat /\ T \in SUBSET T
    BY FS_CardinalityType
  <2>. QED  BY <1>1, <2>1
<1>3. PICK n \in N : \A m \in N : n <= m
  <2>. HIDE DEF N
  <2>1. N \subseteq Nat
    BY DEF N
  <2>. QED  BY <1>2, <2>1, LeastExists
<1>4. PICK S \in SUBSET T : Bad(S) /\ Cardinality(S) = n
  BY <1>3
<1>5. PICK x \in S : TRUE
  BY <1>4
<1>6. /\ IsFiniteSet(S \ {x}) /\ Cardinality(S \ {x}) = n - 1 /\ n \in Nat /\ n - 1 \in Nat
  <2>1. IsFiniteSet(S \ {x}) /\ Cardinality(S \ {x}) = n - 1
    BY <1>4, <1>5, FS_RemoveElement
  <2>2. Cardinality(S \ {x}) \in Nat
    BY <2>1, FS_CardinalityType
  <2>. QED  BY <1>3, <2>1, <2>2
<1>7. ~Bad(S \ {x})
  <2>1. ~(n <= n - 1)
    BY <1>6
  <2>2. S \ {x} \in SUBSET T
    BY <1>4
  <2>. QED  BY <1>3, <1>6, <2>1, <2>2
<1>8. CASE S \ {x} = {}
  BY <1>4, <1>5, <1>8
<1>9. CASE S \ {x} # {}
  <2>1. PICK z \in S \ {x} : \A y \in S \ {x} : y <= z
    BY <1>4, <1>6, <1>7, <1>9
  <2>2. x \in Nat /\ z \in Nat /\ S \subseteq Nat
    BY <1>4, <1>5, <2>1
  <2>3. CASE x <= z
    BY <1>4, <2>1, <2>2, <2>3
  <2>4. CASE z <= x
    <3>1. \A y \in S : y <= x
      BY <2>1, <2>2, <2>4
    <3>. QED  BY <1>4, <3>1
  <2>. QED  BY <2>2, <2>3, <2>4
<1>. QED  BY <1>8, <1>9

\* So has one that has a bound.
LEMMA GreatestExists ==
  ASSUME NEW n \in Nat, NEW T, T \subseteq 0..n, T # {} PROVE \E x \in T : \A y \in T : y <= x
<1>1. IsFiniteSet(0..n) /\ 0..n \subseteq Nat
  BY FS_Interval
<1>2. IsFiniteSet(T) /\ T \subseteq Nat
  BY <1>1, FS_Subset
<1>. QED  BY <1>2, FiniteHasGreatest
=============================================================================
