----------------------------- MODULE SumsProofs -----------------------------
(* What a total is worth, for every finite set and every function to the   *)
(* naturals: the facts the proofs about reservations and quotas rest on.   *)
EXTENDS Sums, FiniteSetTheorems, TLAPS

\* Every value contributes its own number of units.
LEMMA UnitsCount ==
  ASSUME NEW f, NEW x, f[x] \in Nat
  PROVE  IsFiniteSet(Units(f, x)) /\ Cardinality(Units(f, x)) = f[x]
<1>1. IsFiniteSet(1 .. f[x]) /\ Cardinality(1 .. f[x]) = f[x]
  BY FS_Interval
<1>2. IsFiniteSet({x}) /\ Cardinality({x}) = 1
  BY FS_Singleton
<1>3. IsFiniteSet({x} \X (1 .. f[x])) /\ Cardinality({x} \X (1 .. f[x])) = 1 * f[x]
  BY <1>1, <1>2, FS_Product
<1>4. QED
  BY <1>3 DEF Units

\* The units of a finite set are finitely many.
LEMMA UnitsFinite ==
  ASSUME NEW S, IsFiniteSet(S), NEW f, \A x \in S : f[x] \in Nat
  PROVE  IsFiniteSet(UNION {Units(f, x) : x \in S})
<1> DEFINE g == [x \in S |-> Units(f, x)]
           T == {Units(f, x) : x \in S}
<1>1. g \in Surjection(S, T)
  BY DEF Surjection
<1>2. IsFiniteSet(T)
  BY <1>1, FS_Surjection
<1>3. \A U \in T : IsFiniteSet(U)
  BY UnitsCount
<1>4. QED
  BY <1>2, <1>3, FS_UNION

\* A total is a natural number.
LEMMA TotalType ==
  ASSUME NEW S, IsFiniteSet(S), NEW f, \A x \in S : f[x] \in Nat
  PROVE  Total(f, S) \in Nat
BY UnitsFinite, FS_CardinalityType DEF Total

\* Nothing adds up to nothing.
LEMMA TotalEmpty ==
  ASSUME NEW f
  PROVE  Total(f, {}) = 0
<1>1. UNION {Units(f, x) : x \in {}} = {}
  OBVIOUS
<1>2. QED
  BY <1>1, FS_EmptySet DEF Total

\* Only the values on the set count.
LEMMA TotalSame ==
  ASSUME NEW S, NEW f, NEW g, \A x \in S : f[x] = g[x]
  PROVE  Total(f, S) = Total(g, S)
<1>1. \A x \in S : Units(f, x) = Units(g, x)
  BY DEF Units
<1>2. {Units(f, x) : x \in S} = {Units(g, x) : x \in S}
  BY <1>1
<1>3. QED
  BY <1>2 DEF Total

\* One more element adds its value.
LEMMA TotalAdd ==
  ASSUME NEW S, IsFiniteSet(S), NEW f, NEW e, e \notin S,
         \A x \in S \cup {e} : f[x] \in Nat
  PROVE  Total(f, S \cup {e}) = Total(f, S) + f[e]
<1> DEFINE U == UNION {Units(f, x) : x \in S}
<1>1. UNION {Units(f, x) : x \in S \cup {e}} = U \cup Units(f, e)
  <2>1. {Units(f, x) : x \in S \cup {e}} = {Units(f, x) : x \in S} \cup {Units(f, e)}
    OBVIOUS
  <2>2. QED
    BY <2>1
<1>2. U \cap Units(f, e) = {}
  BY DEF Units
<1>3. IsFiniteSet(U) /\ IsFiniteSet(Units(f, e)) /\ Cardinality(Units(f, e)) = f[e]
  BY UnitsFinite, UnitsCount
<1>4. Cardinality(U) \in Nat
  BY <1>3, FS_CardinalityType
<1>5. Cardinality(U \cup Units(f, e)) = Cardinality(U) + f[e] - Cardinality(U \cap Units(f, e))
  BY <1>3, FS_Union
<1>6. Cardinality(U \cap Units(f, e)) = 0
  BY <1>2, FS_EmptySet
<1>7. Total(f, S \cup {e}) = Cardinality(U \cup Units(f, e)) /\ Total(f, S) = Cardinality(U)
  BY <1>1, Zenon DEF Total
<1> HIDE DEF U
<1>8. QED
  BY <1>4, <1>5, <1>6, <1>7

\* One element less takes its value away.
LEMMA TotalRemove ==
  ASSUME NEW S, IsFiniteSet(S), NEW f, NEW e \in S, \A x \in S : f[x] \in Nat
  PROVE  Total(f, S) = Total(f, S \ {e}) + f[e]
<1>1. IsFiniteSet(S \ {e}) /\ (S \ {e}) \cup {e} = S
  BY FS_RemoveElement
<1>2. Total(f, (S \ {e}) \cup {e}) = Total(f, S \ {e}) + f[e]
  BY <1>1, TotalAdd
<1>3. QED
  BY <1>1, <1>2

\* A part is never worth more than the whole.
LEMMA TotalMonotone ==
  ASSUME NEW S, IsFiniteSet(S), NEW T \in SUBSET S, NEW f, \A x \in S : f[x] \in Nat
  PROVE  Total(f, T) <= Total(f, S)
<1>1. UNION {Units(f, x) : x \in T} \subseteq UNION {Units(f, x) : x \in S}
  OBVIOUS
<1>2. QED
  BY <1>1, UnitsFinite, FS_Subset DEF Total

=============================================================================
