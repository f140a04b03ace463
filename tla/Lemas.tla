-------------------------------- MODULE Lemas --------------------------------
(***************************************************************************)
(* What the proofs need of naturals, finite sets and sequences, and the    *)
(* library's theorems do not say or say with an operator parameter.        *)
(***************************************************************************)
EXTENDS Integers, SequencesExt, FiniteSetsExt, FiniteSetTheorems, SequenceTheorems,
        WellFoundedInduction, TLAPS

-----------------------------------------------------------------------------
(* Induction over the naturals, for a set: the operators of the library's theorems *)
(* cannot be instantiated here, but that < is well founded on Nat can be used.     *)

\* A non-empty set of naturals has a smallest member.
LEMMA Menor ==
  ASSUME NEW T \in SUBSET Nat, T # {}
  PROVE  \E n \in T : \A m \in T : n <= m
  <1> DEFINE R == {ss \in Nat \X Nat : ss[1] < ss[2]}
  <1>1. IsWellFoundedOn(R, Nat)
    BY NatLessThanWellFounded DEF OpToRel
  <1>2. PICK n \in T : \A m \in T : <<m, n>> \notin R
    <2> HIDE DEF R
    <2> QED BY <1>1, WFMin
  <1>3. \A m \in T : ~(m < n)
    BY <1>2
  <1> QED BY <1>3

LEMMA Induccion ==
  ASSUME NEW S \in SUBSET Nat, 0 \in S, \A n \in S : n + 1 \in S
  PROVE  S = Nat
  <1> SUFFICES ASSUME Nat \ S # {} PROVE FALSE
    OBVIOUS
  <1>1. PICK n \in Nat \ S : \A m \in Nat \ S : n <= m
    BY Menor
  <1>2. n - 1 \in S
    BY <1>1
  <1> QED BY <1>1, <1>2

-----------------------------------------------------------------------------
(* The operators on sequences *)

\* list_remove_element leaves a list of the same things.
LEMMA RemoveFirstTipo ==
  ASSUME NEW S, NEW s \in Seq(S), NEW e
  PROVE  RemoveFirst(s, e) \in Seq(S)
  <1> DEFINE I == {i \in 1 .. Len(s) : s[i] = e}
  <1>1. CASE I = {}
    BY <1>1 DEF RemoveFirst, SelectInSeq
  <1>2. CASE I # {}
    <2>1. PICK n \in I : \A m \in I : n <= m
      <3>1. I \in SUBSET Nat
        OBVIOUS
      <3> HIDE DEF I
      <3> QED BY <1>2, <3>1, Menor
    <2>2. Min(I) \in I
      BY <2>1 DEF Min
    <2>3. RemoveFirst(s, e) = RemoveAt(s, Min(I))
      BY <1>2 DEF RemoveFirst, SelectInSeq
    <2> DEFINE k == Min(I)
    <2>4. k \in 1 .. Len(s) /\ Len(s) \in Nat
      BY <2>2
    <2> HIDE DEF k
    <2>5. SubSeq(s, 1, k - 1) \in Seq(S) /\ SubSeq(s, k + 1, Len(s)) \in Seq(S)
      BY <2>4, SubSeqProperties
    <2>6. RemoveAt(s, k) \in Seq(S)
      BY <2>5, ConcatProperties DEF RemoveAt
    <2> QED BY <2>3, <2>6 DEF k
  <1> QED BY <1>1, <1>2

-----------------------------------------------------------------------------
(* Finite sets of naturals *)

\* A finite non-empty set of naturals has a largest member.
LEMMA Mayor ==
  ASSUME NEW T \in SUBSET Nat, IsFiniteSet(T), T # {}
  PROVE  \E n \in T : \A m \in T : m <= n
  <1> DEFINE Con(A) == A # {} => \E n \in A : \A m \in A : m <= n
             S == {k \in Nat : \A A \in SUBSET Nat :
                     IsFiniteSet(A) /\ Cardinality(A) = k => Con(A)}
  <1>1. 0 \in S
    BY FS_EmptySet
  <1>2. ASSUME NEW k \in S PROVE k + 1 \in S
    <2> SUFFICES ASSUME NEW A \in SUBSET Nat, IsFiniteSet(A), Cardinality(A) = k + 1
                 PROVE  Con(A)
      OBVIOUS
    <2> SUFFICES ASSUME NEW x \in A PROVE \E n \in A : \A m \in A : m <= n
      OBVIOUS
    <2> DEFINE B == A \ {x}
    <2>1. IsFiniteSet(B) /\ Cardinality(B) = k
      <3>1. k \in Nat /\ (k + 1) - 1 = k /\ x \in A
        OBVIOUS
      <3> HIDE DEF S, Con
      <3> QED BY <3>1, FS_RemoveElement
    <2>2. Con(B)
      BY <2>1, <1>2
    <2>3. CASE B = {}
      BY <2>3
    <2>4. CASE B # {}
      <3>1. PICK n \in B : \A m \in B : m <= n
        BY <2>2, <2>4
      <3>2. \A m \in A : m <= (IF n <= x THEN x ELSE n)
        BY <3>1
      <3> QED BY <3>1, <3>2
    <2> QED BY <2>3, <2>4
  <1>3. S = Nat
    <2>1. S \in SUBSET Nat
      OBVIOUS
    <2> HIDE DEF S
    <2> QED BY <1>1, <1>2, <2>1, Induccion
  <1>4. Cardinality(T) \in Nat
    BY FS_CardinalityType
  <1> QED BY <1>3, <1>4

\* Its maximum and its minimum.
LEMMA MaxMin ==
  ASSUME NEW T \in SUBSET Nat, T # {}
  PROVE  /\ Min(T) \in T /\ \A m \in T : Min(T) <= m
         /\ IsFiniteSet(T) => Max(T) \in T /\ \A m \in T : m <= Max(T)
  <1>1. Min(T) \in T /\ \A m \in T : Min(T) <= m
    <2>1. PICK n \in T : \A m \in T : n <= m
      BY Menor
    <2> QED BY <2>1 DEF Min
  <1>2. ASSUME IsFiniteSet(T) PROVE Max(T) \in T /\ \A m \in T : m <= Max(T)
    <2>1. PICK n \in T : \A m \in T : m <= n
      BY <1>2, Mayor
    <2>2. \A m \in T : n >= m
      BY <2>1
    <2>3. Max(T) \in T /\ \A m \in T : Max(T) >= m
      BY <2>2 DEF Max
    <2> QED BY <2>3
  <1> QED BY <1>1, <1>2

\* The members of a finite set of naturals can be numbered from 0 by how many are smaller.
LEMMA Numerados ==
  ASSUME NEW S \in SUBSET Nat, IsFiniteSet(S), NEW j \in Nat, j < Cardinality(S)
  PROVE  \E b \in S : Cardinality({c \in S : c < b}) = j
  <1> DEFINE Antes(b) == {c \in S : c < b}
             N == {i \in Nat : i < Cardinality(S) => \E b \in S : Cardinality(Antes(b)) = i}
  <1>0. Cardinality(S) \in Nat
    BY FS_CardinalityType
  <1>1. 0 \in N
    <2> SUFFICES ASSUME 0 < Cardinality(S) PROVE \E b \in S : Cardinality(Antes(b)) = 0
      OBVIOUS
    <2>1. S # {}
      BY FS_EmptySet
    <2>2. PICK n \in S : \A m \in S : n <= m
      BY <2>1, Menor
    <2>3. \A c \in S : ~(c < n)
      BY <2>2
    <2>4. Antes(n) = {}
      BY <2>3
    <2> QED BY <2>4, FS_EmptySet
  <1>2. ASSUME NEW i \in N PROVE i + 1 \in N
    <2> SUFFICES ASSUME i + 1 < Cardinality(S)
                 PROVE  \E b \in S : Cardinality(Antes(b)) = i + 1
      OBVIOUS
    <2>1. PICK b \in S : Cardinality(Antes(b)) = i
      BY <1>0
    <2> DEFINE D == Antes(b) \cup {b}
    <2>2. IsFiniteSet(D) /\ Cardinality(D) = i + 1
      <3>1. IsFiniteSet(Antes(b))
        BY FS_Subset
      <3>2. b \notin Antes(b)
        OBVIOUS
      <3> HIDE DEF Antes
      <3> QED BY <2>1, <3>1, <3>2, FS_AddElement
    <2>3. S \ D # {}
      <3>1. SUFFICES ASSUME S \ D = {} PROVE FALSE
        OBVIOUS
      <3>2. S = D
        BY <3>1
      <3> HIDE DEF D
      <3> QED BY <2>2, <3>2, <1>0
    <2>4. PICK e \in S \ D : \A m \in S \ D : e <= m
      <3>1. S \ D \in SUBSET Nat
        OBVIOUS
      <3> HIDE DEF D
      <3> QED BY <2>3, <3>1, Menor
    <2>5. \A c \in S : c < e <=> c < b \/ c = b
      <3>1. \A c \in S : ~(c < b) /\ c # b => e <= c
        BY <2>4
      <3>2. ~(e < b) /\ e # b
        BY <2>4
      <3> QED BY <3>1, <3>2
    <2>6. Antes(e) = D
      BY <2>5
    <2> HIDE DEF D
    <2> QED BY <2>2, <2>4, <2>6
  <1>3. N = Nat
    <2>1. N \in SUBSET Nat
      OBVIOUS
    <2> HIDE DEF N
    <2> QED BY <1>1, <1>2, <2>1, Induccion
  <1> QED BY <1>3

-----------------------------------------------------------------------------
(* Lists without repetitions *)

SinRepetir(s) == \A i, j \in DOMAIN s : s[i] = s[j] => i = j

\* The thing goes, the others stay.
LEMMA RemoveFirstUnica ==
  ASSUME NEW S, NEW s \in Seq(S), SinRepetir(s), NEW e
  PROVE  /\ SinRepetir(RemoveFirst(s, e))
         /\ ToSet(RemoveFirst(s, e)) = ToSet(s) \ {e}
  <1> DEFINE I == {i \in 1 .. Len(s) : s[i] = e}
  <1>1. CASE I = {}
    <2>1. RemoveFirst(s, e) = s
      BY <1>1 DEF RemoveFirst, SelectInSeq
    <2>2. \A i \in DOMAIN s : s[i] # e
      BY <1>1
    <2> QED BY <2>1, <2>2 DEF ToSet
  <1>2. CASE I # {}
    <2> DEFINE k == Min(I)
    <2>1. k \in I
      <3>1. I \in SUBSET Nat
        OBVIOUS
      <3> HIDE DEF I
      <3> QED BY <1>2, <3>1, MaxMin
    <2>2. RemoveFirst(s, e) = RemoveAt(s, k)
      BY <1>2 DEF RemoveFirst, SelectInSeq
    <2>3. k \in 1 .. Len(s) /\ s[k] = e /\ Len(s) \in Nat
      BY <2>1
    <2> HIDE DEF k
    <2> DEFINE a == SubSeq(s, 1, k - 1)
               b == SubSeq(s, k + 1, Len(s))
               r == a \o b
               n == Len(s)
    <2>4. /\ a \in Seq(S) /\ Len(a) = k - 1 /\ \A i \in 1 .. k - 1 : a[i] = s[i]
      BY <2>3, SubSeqProperties
    <2>5. b \in Seq(S) /\ Len(b) = n - k /\ \A i \in 1 .. n - k : b[i] = s[k + i]
      BY <2>3, SubSeqProperties
    <2>6. /\ r \in Seq(S) /\ Len(r) = n - 1
          /\ \A i \in 1 .. n - 1 : r[i] = IF i < k THEN s[i] ELSE s[i + 1]
      <3> HIDE DEF a, b, n
      <3>1. r \in Seq(S) /\ Len(r) = Len(a) + Len(b)
            /\ \A i \in 1 .. Len(a) + Len(b) : r[i] = IF i <= Len(a) THEN a[i] ELSE b[i - Len(a)]
        BY <2>4, <2>5, ConcatProperties
      <3>2. n \in Nat /\ k \in 1 .. n
        BY <2>3 DEF n
      <3>3. Len(r) = n - 1
        BY <2>4, <2>5, <3>1, <3>2
      <3>4. ASSUME NEW i \in 1 .. n - 1, i < k PROVE r[i] = s[i]
        BY <2>4, <3>1, <3>2, <3>3, <3>4
      <3>5. ASSUME NEW i \in 1 .. n - 1, ~(i < k) PROVE r[i] = s[i + 1]
        <4>1. r[i] = b[i - (k - 1)]
          BY <2>4, <3>1, <3>2, <3>3, <3>5
        <4>2. i - (k - 1) \in 1 .. n - k /\ k + (i - (k - 1)) = i + 1
          BY <3>2, <3>5
        <4> QED BY <2>5, <4>1, <4>2
      <3> QED BY <3>1, <3>3, <3>4, <3>5
    <2>7. RemoveFirst(s, e) = r
      BY <2>2 DEF RemoveAt
    <2> HIDE DEF r, a, b
    <2>8. n \in Nat /\ k \in 1 .. n /\ DOMAIN s = 1 .. n /\ DOMAIN r = 1 .. n - 1
      BY <2>3, <2>6
    <2> DEFINE f(i) == IF i < k THEN i ELSE i + 1
    <2>9. \A i \in 1 .. n - 1 : f(i) \in 1 .. n /\ f(i) # k /\ r[i] = s[f(i)]
      <3> HIDE DEF n
      <3> QED BY <2>6, <2>8
    <2>10. \A i, j \in 1 .. n - 1 : f(i) = f(j) => i = j
      BY <2>8
    <2>11. \A j \in 1 .. n : j # k => \E i \in 1 .. n - 1 : f(i) = j
      <3> HIDE DEF n
      <3> SUFFICES ASSUME NEW j \in 1 .. n, j # k PROVE \E i \in 1 .. n - 1 : f(i) = j
        OBVIOUS
      <3> DEFINE i == IF j < k THEN j ELSE j - 1
      <3>1. i \in 1 .. n - 1 /\ f(i) = j
        BY <2>8
      <3> QED BY <3>1
    <2> HIDE DEF n, f
    <2>12. SinRepetir(r)
      BY <2>8, <2>9, <2>10 DEF SinRepetir
    <2>13. ToSet(r) = ToSet(s) \ {e}
      <3>1. ASSUME NEW x \in ToSet(r) PROVE x \in ToSet(s) \ {e}
        <4>1. PICK i \in 1 .. n - 1 : x = r[i]
          BY <2>8 DEF ToSet
        <4>2. x = s[f(i)] /\ f(i) \in DOMAIN s /\ f(i) # k
          BY <4>1, <2>8, <2>9
        <4>3. x # s[k]
          BY <4>2, <2>8 DEF SinRepetir
        <4> QED BY <4>2, <4>3, <2>3 DEF ToSet
      <3>2. ASSUME NEW x \in ToSet(s) \ {e} PROVE x \in ToSet(r)
        <4>1. PICK j \in 1 .. n : x = s[j]
          BY <2>8 DEF ToSet
        <4>2. j # k
          BY <4>1, <2>3
        <4>3. PICK i \in 1 .. n - 1 : f(i) = j
          BY <4>2, <2>11
        <4>4. r[i] = x
          BY <4>1, <4>3, <2>9
        <4> QED BY <4>4, <2>8 DEF ToSet
      <3> QED BY <3>1, <3>2
    <2> QED BY <2>7, <2>12, <2>13
  <1> QED BY <1>1, <1>2
=============================================================================
