--------------------------- MODULE CountingLemmas ---------------------------
(***************************************************************************)
(* Facts about counting the members of a finite set that are at certain    *)
(* places, for models whose counters count threads or handles; and, from   *)
(* the number of subsets of a set, about powers of two.                    *)
(***************************************************************************)
EXTENDS FiniteSetTheorems, TLAPS

\* The members of S that f puts in P.
Who(S, f, P) == {s \in S : f[s] \in P}

\* If only t may have moved into or out of P, the number of members in P
\* changes by t's own move.
LEMMA OneMoves ==
  ASSUME NEW S, IsFiniteSet(S), NEW f, NEW g, NEW P, NEW t \in S,
         \A u \in S \ {t} : g[u] \in P <=> f[u] \in P
  PROVE  /\ Cardinality(Who(S, f, P)) \in Nat /\ Cardinality(Who(S, g, P)) \in Nat
         /\ Cardinality(Who(S, g, P)) =
              Cardinality(Who(S, f, P)) + (IF g[t] \in P THEN 1 ELSE 0)
                                        - (IF f[t] \in P THEN 1 ELSE 0)
<1>1. IsFiniteSet(Who(S, f, P)) /\ IsFiniteSet(Who(S, g, P))
  BY FS_Subset DEF Who
<1>2. Cardinality(Who(S, f, P)) \in Nat /\ Cardinality(Who(S, g, P)) \in Nat
  BY <1>1, FS_CardinalityType
<1>3. CASE f[t] \in P <=> g[t] \in P
  <2>1. Who(S, g, P) = Who(S, f, P)
    BY <1>3 DEF Who
  <2>2. QED
    BY <2>1, <1>2, <1>3
<1>4. CASE f[t] \notin P /\ g[t] \in P
  <2>1. Who(S, g, P) = Who(S, f, P) \cup {t} /\ t \notin Who(S, f, P)
    BY <1>4 DEF Who
  <2>2. QED
    BY <2>1, <1>1, <1>2, <1>4, FS_AddElement
<1>5. CASE f[t] \in P /\ g[t] \notin P
  <2>1. Who(S, g, P) = Who(S, f, P) \ {t} /\ t \in Who(S, f, P)
    BY <1>5 DEF Who
  <2>2. QED
    BY <2>1, <1>1, <1>2, <1>5, FS_RemoveElement
<1>6. QED
  BY <1>3, <1>4, <1>5

\* The count is positive exactly when somebody is in P, and one if nobody
\* but t is.
LEMMA SomeCounted ==
  ASSUME NEW S, IsFiniteSet(S), NEW f, NEW P
  PROVE  /\ Cardinality(Who(S, f, P)) \in Nat
         /\ Cardinality(Who(S, f, P)) > 0 <=> \E s \in S : f[s] \in P
         /\ Cardinality(Who(S, f, P)) = 1 =>
              \A s, t \in S : f[s] \in P /\ f[t] \in P => s = t
<1>1. IsFiniteSet(Who(S, f, P))
  BY FS_Subset DEF Who
<1>2. Cardinality(Who(S, f, P)) \in Nat
  BY <1>1, FS_CardinalityType
<1>3. Cardinality(Who(S, f, P)) = 0 <=> Who(S, f, P) = {}
  BY <1>1, FS_EmptySet
<1>4. Cardinality(Who(S, f, P)) = 1 => \E x : Who(S, f, P) = {x}
  BY <1>1, FS_Singleton
<1>5. QED
  BY <1>2, <1>3, <1>4 DEF Who

\* Two finite sets that differ in nothing but h.
LEMMA OneDiffers ==
  ASSUME NEW A, NEW B, IsFiniteSet(A), NEW h, A \ {h} = B \ {h}
  PROVE  /\ IsFiniteSet(B) /\ Cardinality(A) \in Nat /\ Cardinality(B) \in Nat
         /\ Cardinality(B) = Cardinality(A) + (IF h \in B THEN 1 ELSE 0)
                                            - (IF h \in A THEN 1 ELSE 0)
<1> DEFINE C == A \ {h}
<1>1. IsFiniteSet(C) /\ Cardinality(A) \in Nat
      /\ Cardinality(C) = Cardinality(A) - (IF h \in A THEN 1 ELSE 0)
  BY FS_RemoveElement, FS_CardinalityType
<1>2. Cardinality(C) \in Nat
  BY <1>1, FS_CardinalityType
<1>3. CASE h \in B
  <2>1. B = C \cup {h} /\ h \notin C
    BY <1>3
  <2>2. IsFiniteSet(B) /\ Cardinality(B) = Cardinality(C) + 1
    BY <1>1, <2>1, FS_AddElement
  <2>3. QED
    BY <1>1, <1>2, <1>3, <2>2
<1>4. CASE h \notin B
  <2>1. B = C
    BY <1>4
  <2>2. QED
    BY <1>1, <1>2, <1>4, <2>1
<1>5. QED
  BY <1>3, <1>4
-----------------------------------------------------------------------------
\* A power of two counts the subsets of a set, so that what is true of subsets
\* is true of powers.
LEMMA SubsetsCounted ==
  ASSUME NEW S, IsFiniteSet(S), NEW n \in Nat, Cardinality(S) = n
  PROVE  /\ IsFiniteSet(SUBSET S) /\ Cardinality(SUBSET S) = 2^n /\ 2^n \in Nat
<1>1. IsFiniteSet(SUBSET S) /\ Cardinality(SUBSET S) = 2^n
  BY FS_SUBSET
<1>2. QED
  BY <1>1, FS_CardinalityType

\* Subsets of two sets that have no member in common.
LEMMA PowersAdd ==
  ASSUME NEW a \in Nat, NEW b \in Nat
  PROVE  /\ 2^a \in Nat /\ 2^b \in Nat /\ 2^(a + b) \in Nat
         /\ 2^(a + b) = 2^a * 2^b
<1> DEFINE S == 1 .. a
           T == a + 1 .. a + b
           f == [U \in SUBSET (1 .. a + b) |-> <<U \cap S, U \cap T>>]
<1>1. IsFiniteSet(S) /\ Cardinality(S) = a
  BY FS_Interval
<1>2. IsFiniteSet(T) /\ Cardinality(T) = b
  BY FS_Interval
<1>3. IsFiniteSet(1 .. a + b) /\ Cardinality(1 .. a + b) = a + b /\ a + b \in Nat
  BY FS_Interval
<1>4. /\ IsFiniteSet(SUBSET S) /\ Cardinality(SUBSET S) = 2^a /\ 2^a \in Nat
      /\ IsFiniteSet(SUBSET T) /\ Cardinality(SUBSET T) = 2^b /\ 2^b \in Nat
  BY <1>1, <1>2, SubsetsCounted
<1>5. /\ IsFiniteSet(SUBSET (1 .. a + b)) /\ Cardinality(SUBSET (1 .. a + b)) = 2^(a + b)
      /\ 2^(a + b) \in Nat
  BY <1>3, SubsetsCounted
<1>6. S \cup T = 1 .. a + b /\ S \cap T = {}
  OBVIOUS
<1>7. f \in Bijection(SUBSET (1 .. a + b), (SUBSET S) \X (SUBSET T))
  <2> HIDE DEF S, T
  <2>1. \A U, V \in SUBSET (1 .. a + b) : f[U] = f[V] => U = V
    <3> TAKE U, V \in SUBSET (1 .. a + b)
    <3>1. f[U] = <<U \cap S, U \cap T>> /\ f[V] = <<V \cap S, V \cap T>>
      OBVIOUS
    <3>2. U = (U \cap S) \cup (U \cap T) /\ V = (V \cap S) \cup (V \cap T)
      BY <1>6
    <3> HIDE DEF f
    <3>3. QED
      BY <3>1, <3>2
  <2>2. \A U \in SUBSET (1 .. a + b) : f[U] \in (SUBSET S) \X (SUBSET T)
    OBVIOUS
  <2>3. ASSUME NEW X \in SUBSET S, NEW Y \in SUBSET T
        PROVE  \E U \in SUBSET (1 .. a + b) : f[U] = <<X, Y>>
    <3>1. /\ X \cup Y \in SUBSET (1 .. a + b)
          /\ (X \cup Y) \cap S = X /\ (X \cup Y) \cap T = Y
      BY <1>6
    <3>2. QED
      BY <3>1
  <2>4. f \in [SUBSET (1 .. a + b) -> (SUBSET S) \X (SUBSET T)]
    BY <2>2
  <2> HIDE DEF f
  <2>5. \A z \in (SUBSET S) \X (SUBSET T) : \E U \in SUBSET (1 .. a + b) : f[U] = z
    <3> TAKE z \in (SUBSET S) \X (SUBSET T)
    <3>1. PICK X \in SUBSET S, Y \in SUBSET T : z = <<X, Y>>
      OBVIOUS
    <3>2. QED
      BY <2>3, <3>1
  <2>6. QED
    BY <2>1, <2>4, <2>5, Zenon DEF Bijection, Injection, IsInjective, Surjection
<1>8. 2^(a + b) = Cardinality((SUBSET S) \X (SUBSET T))
  BY <1>5, <1>7, FS_Bijection DEF ExistsBijection
<1> HIDE DEF S, T
<1>9. Cardinality((SUBSET S) \X (SUBSET T)) = Cardinality(SUBSET S) * Cardinality(SUBSET T)
  BY <1>4, FS_Product
<1>10. QED
  BY <1>4, <1>5, <1>8, <1>9

LEMMA PowersGrow ==
  ASSUME NEW a \in Nat, NEW b \in Nat, a <= b
  PROVE  2^a \in Nat /\ 2^b \in Nat /\ 2^a <= 2^b
<1>1. IsFiniteSet(1 .. a) /\ Cardinality(1 .. a) = a
  BY FS_Interval
<1>2. IsFiniteSet(1 .. b) /\ Cardinality(1 .. b) = b
  BY FS_Interval
<1>3. /\ Cardinality(SUBSET (1 .. a)) = 2^a /\ 2^a \in Nat
      /\ IsFiniteSet(SUBSET (1 .. b)) /\ Cardinality(SUBSET (1 .. b)) = 2^b /\ 2^b \in Nat
  BY <1>1, <1>2, SubsetsCounted
<1>4. SUBSET (1 .. a) \subseteq SUBSET (1 .. b)
  OBVIOUS
<1>5. QED
  BY <1>3, <1>4, FS_Subset

LEMMA PowersDouble ==
  ASSUME NEW n \in Nat
  PROVE  2^n \in Nat \ {0} /\ 2^(n + 1) = 2 * 2^n /\ 2^(n + 3) = 8 * 2^n
<1>1. ASSUME NEW k \in Nat
      PROVE  2^k \in Nat /\ 2^(k + 1) = 2 * 2^k
  <2>1. PICK one \in Nat : one = 1
    OBVIOUS
  <2>2. 2^k \in Nat /\ 2^(k + one) = 2^k * 2^one
    BY PowersAdd
  <2>3. 2^one = 2
    BY <2>1
  <2>4. k + one = k + 1
    BY <2>1
  <2>5. 2^(k + 1) = 2^k * 2
    BY <2>2, <2>3, <2>4
  <2>6. QED
    BY <2>2, <2>5
<1>2. 2^n # 0
  <2>1. PICK none \in Nat : none = 0
    OBVIOUS
  <2>2. none <= n
    BY <2>1
  <2>3. 2^none <= 2^n
    BY <2>2, PowersGrow
  <2>4. 2^none = 1
    BY <2>1
  <2>5. QED
    BY <2>3, <2>4, <1>1
<1>3. 2^(n + 1) = 2 * 2^n /\ 2^(n + 1) \in Nat
  BY <1>1
<1>4. 2^((n + 1) + 1) = 2 * 2^(n + 1) /\ (n + 1) + 1 = n + 2
  BY <1>1
<1>5. 2^((n + 2) + 1) = 2 * 2^(n + 2) /\ (n + 2) + 1 = n + 3
  BY <1>1
<1>6. QED
  BY <1>1, <1>2, <1>3, <1>4, <1>5

LEMMA DivisionExact ==
  ASSUME NEW d \in Nat \ {0}, NEW z \in Int
  PROVE  (d * z) \div d = z
OBVIOUS
=============================================================================
