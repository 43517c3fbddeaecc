--------------------------- MODULE JobQueueProofs ---------------------------
(***************************************************************************)
(* Proofs about JobQueue: the heap of queue.c stays a heap under pushes,   *)
(* pops and removals from the middle, whatever its size; the sleepers of   *)
(* queue_pop are not forgotten; and the whole implements PriorityQueue.    *)
(***************************************************************************)
EXTENDS JobQueue, FiniteSetTheorems, NaturalsInduction, WellFoundedInduction, TLAPS

-----------------------------------------------------------------------------
(* Naturals *)

\* A non-empty set of naturals has a smallest element.
LEMMA SmallestExists ==
  ASSUME NEW S \in SUBSET Nat, S # {}
  PROVE  \E x \in S : \A y \in S : x <= y
<1> DEFINE R == OpToRel(<, Nat)
<1>1. IsWellFoundedOn(R, Nat)
  BY NatLessThanWellFounded
<1> HIDE DEF R
<1>2. S \subseteq Nat
  OBVIOUS
<1>3. PICK x \in S : \A y \in S : ~(<<y, x>> \in R)
  BY <1>1, <1>2, WFMin, Zenon
<1>4. \A i, j \in Nat : j < i => <<j, i>> \in R
  BY DEF R, OpToRel
<1>5. \A y \in S : ~(y < x)
  BY <1>3, <1>4, Zenon
<1>6. \A y \in S : x <= y
  BY <1>5
<1>7. QED
  BY <1>6

\* What holds at 0 and passes from k to k + 1 holds everywhere.
LEMMA Induction ==
  ASSUME NEW S, 0 \in S, \A k \in Nat : k \in S => k + 1 \in S
  PROVE  \A k \in Nat : k \in S
<1> DEFINE T == {k \in Nat : k \notin S}
<1> SUFFICES ASSUME T # {} PROVE FALSE
  OBVIOUS
<1>1. PICK x \in T : \A y \in T : x <= y
  BY SmallestExists
<1>2. x # 0
  OBVIOUS
<1>3. x - 1 \in Nat /\ x - 1 \notin T
  BY <1>1, <1>2
<1>4. QED
  BY <1>3

\* Parents and children of a cell.
LEMMA Halves ==
  /\ \A i \in Nat : i >= 2 => i \div 2 \in 1..(i - 1)
  /\ \A i \in Nat : i \div 2 \in Nat
  /\ \A i, m \in Nat : i \div 2 = m <=> i = 2 * m \/ i = 2 * m + 1
OBVIOUS

-----------------------------------------------------------------------------
(* The order of the jobs *)

\* job_before is a strict weak order: jobs it does not tell apart are alike.
LEMMA Order ==
  /\ \A a, b \in Objects : job_before(a, b) => ~job_before(b, a)
  /\ \A a, b, c \in Objects : job_before(a, b) /\ job_before(b, c) => job_before(a, c)
  /\ \A a, b, c \in Objects : ~job_before(a, b) /\ ~job_before(b, c) => ~job_before(a, c)
<1>1. \A a \in Objects : Priority[a] \in Int /\ SubmittedAt[a] \in Int /\ Id[a] \in Int
  BY QueueParameters
<1>2. QED
  BY <1>1 DEF job_before

-----------------------------------------------------------------------------
(* Loops *)

\* The turns of heap_up.
LEMMA RisingTurns ==
  ASSUME NEW h, NEW n, Len(h) \in Nat
  PROVE  \E f : /\ f = [k \in 0..Len(h) |-> IF k = 0 THEN <<h, n>> ELSE Rise(f[k - 1])]
                /\ heap_up(h, n) = f[Len(h)][1]
<1> DEFINE Turns(f, L) == f = [k \in 0..L |-> IF k = 0 THEN <<h, n>> ELSE Rise(f[k - 1])]
           S == {L \in Nat : \E f : Turns(f, L)}
<1>1. 0 \in S
  <2> DEFINE f == [k \in 0..0 |-> <<h, n>>]
  <2>1. Turns(f, 0)
    OBVIOUS
  <2>2. QED
    BY <2>1
<1>2. ASSUME NEW L \in Nat, L \in S PROVE L + 1 \in S
  <2>1. PICK f : Turns(f, L)
    BY <1>2
  <2> DEFINE g == [k \in 0..(L + 1) |-> IF k <= L THEN f[k] ELSE Rise(f[L])]
  <2>2. \A k \in 0..(L + 1) : g[k] = IF k = 0 THEN <<h, n>> ELSE Rise(g[k - 1])
    <3>1. \A k \in 0..L : f[k] = IF k = 0 THEN <<h, n>> ELSE Rise(f[k - 1])
      BY <2>1
    <3>2. TAKE k \in 0..(L + 1)
    <3>3. CASE k = 0
      BY <3>1, <3>3
    <3>4. CASE k \in 1..L
      <4>1. g[k] = f[k] /\ g[k - 1] = f[k - 1]
        BY <3>4
      <4>2. QED
        BY <3>1, <3>4, <4>1
    <3>5. CASE k = L + 1
      <4>1. g[k] = Rise(f[L]) /\ g[L] = f[L] /\ k - 1 = L
        BY <3>5
      <4>2. QED
        BY <3>5, <4>1
    <3>6. QED
      BY <3>3, <3>4, <3>5
  <2>3. Turns(g, L + 1)
    BY <2>2
  <2> HIDE DEF g, Turns
  <2>4. \E x : Turns(x, L + 1)
    BY <2>3
  <2>5. QED
    BY <2>4
<1>3. Len(h) \in S
  <2> HIDE DEF S
  <2>1. QED BY <1>1, <1>2, Induction
<1>4. \E f : Turns(f, Len(h))
  BY <1>3
<1> DEFINE t == CHOOSE f : Turns(f, Len(h))
<1>5. Turns(t, Len(h))
  BY <1>4
<1>6. heap_up(h, n) = t[Len(h)][1]
  BY DEF heap_up
<1>7. QED
  BY <1>5, <1>6

\* The turns of heap_down.
LEMMA SinkingTurns ==
  ASSUME NEW h, NEW n, Len(h) \in Nat
  PROVE  \E f : /\ f = [k \in 0..Len(h) |-> IF k = 0 THEN <<h, n>> ELSE Sink(f[k - 1])]
                /\ heap_down(h, n) = f[Len(h)][1]
<1> DEFINE Turns(f, L) == f = [k \in 0..L |-> IF k = 0 THEN <<h, n>> ELSE Sink(f[k - 1])]
           S == {L \in Nat : \E f : Turns(f, L)}
<1>1. 0 \in S
  <2> DEFINE f == [k \in 0..0 |-> <<h, n>>]
  <2>1. Turns(f, 0)
    OBVIOUS
  <2>2. QED
    BY <2>1
<1>2. ASSUME NEW L \in Nat, L \in S PROVE L + 1 \in S
  <2>1. PICK f : Turns(f, L)
    BY <1>2
  <2> DEFINE g == [k \in 0..(L + 1) |-> IF k <= L THEN f[k] ELSE Sink(f[L])]
  <2>2. \A k \in 0..(L + 1) : g[k] = IF k = 0 THEN <<h, n>> ELSE Sink(g[k - 1])
    <3>1. \A k \in 0..L : f[k] = IF k = 0 THEN <<h, n>> ELSE Sink(f[k - 1])
      BY <2>1
    <3>2. TAKE k \in 0..(L + 1)
    <3>3. CASE k = 0
      BY <3>1, <3>3
    <3>4. CASE k \in 1..L
      <4>1. g[k] = f[k] /\ g[k - 1] = f[k - 1]
        BY <3>4
      <4>2. QED
        BY <3>1, <3>4, <4>1
    <3>5. CASE k = L + 1
      <4>1. g[k] = Sink(f[L]) /\ g[L] = f[L] /\ k - 1 = L
        BY <3>5
      <4>2. QED
        BY <3>5, <4>1
    <3>6. QED
      BY <3>3, <3>4, <3>5
  <2>3. Turns(g, L + 1)
    BY <2>2
  <2> HIDE DEF g, Turns
  <2>4. \E x : Turns(x, L + 1)
    BY <2>3
  <2>5. QED
    BY <2>4
<1>3. Len(h) \in S
  <2> HIDE DEF S
  <2>1. QED BY <1>1, <1>2, Induction
<1>4. \E f : Turns(f, Len(h))
  BY <1>3
<1> DEFINE t == CHOOSE f : Turns(f, Len(h))
<1>5. Turns(t, Len(h))
  BY <1>4
<1>6. heap_down(h, n) = t[Len(h)][1]
  BY DEF heap_down
<1>7. QED
  BY <1>5, <1>6

-----------------------------------------------------------------------------
(* Arrays *)

\* The objects in the cells of an array.
CellsOf(h) == {h[i] : i \in 1..Len(h)}

\* No object is in two cells.
Distinct(h) == \A i, j \in 1..Len(h) : h[i] = h[j] => i = j

\* Heap order of an array.
Ordered(h) == \A i \in 2..Len(h) : ~job_before(h[i], h[i \div 2])

Array(h) == h \in Seq(Objects) /\ Distinct(h)

\* The same objects in other cells.
Rearranged(h, g) == Array(g) /\ Len(g) = Len(h) /\ CellsOf(g) = CellsOf(h)

\* Two rearrangements are one.
LEMMA RearrangedTwice ==
  ASSUME NEW h, NEW g, NEW q, Rearranged(h, g), Rearranged(g, q)
  PROVE  Rearranged(h, q)
BY DEF Rearranged

\* What heap_swap does.
LEMMA Swapped ==
  ASSUME NEW h, Array(h), NEW a \in 1..Len(h), NEW b \in 1..Len(h)
  PROVE  /\ Rearranged(h, heap_swap(h, a, b))
         /\ heap_swap(h, a, b)[a] = h[b]
         /\ heap_swap(h, a, b)[b] = h[a]
         /\ \A i \in 1..Len(h) : i # a /\ i # b => heap_swap(h, a, b)[i] = h[i]
<1> DEFINE g == heap_swap(h, a, b)
<1>0. h \in Seq(Objects) /\ Len(h) \in Nat /\ DOMAIN h = 1..Len(h)
  BY DEF Array
<1>1. g \in Seq(Objects) /\ Len(g) = Len(h)
  BY <1>0 DEF heap_swap
<1>2. g[a] = h[b] /\ g[b] = h[a] /\ \A i \in 1..Len(h) : i # a /\ i # b => g[i] = h[i]
  BY <1>0 DEF heap_swap
<1> HIDE DEF g
<1>3. Distinct(g)
  BY <1>1, <1>2 DEF Array, Distinct
<1>4. CellsOf(g) = CellsOf(h)
  <2>1. ASSUME NEW i \in 1..Len(h) PROVE \E j \in 1..Len(h) : g[i] = h[j]
    BY <1>2
  <2>2. ASSUME NEW i \in 1..Len(h) PROVE \E j \in 1..Len(h) : h[i] = g[j]
    BY <1>2
  <2>3. \A x : x \in CellsOf(g) <=> \E i \in 1..Len(h) : x = g[i]
    BY <1>1 DEF CellsOf
  <2>4. \A x : x \in CellsOf(h) <=> \E i \in 1..Len(h) : x = h[i]
    BY DEF CellsOf
  <2>5. \A x : x \in CellsOf(g) <=> x \in CellsOf(h)
    <3>1. TAKE x
    <3>2. ASSUME NEW i \in 1..Len(h), x = g[i] PROVE \E j \in 1..Len(h) : x = h[j]
      BY <2>1, <3>2
    <3>3. ASSUME NEW i \in 1..Len(h), x = h[i] PROVE \E j \in 1..Len(h) : x = g[j]
      BY <2>2, <3>3
    <3>4. QED
      BY <2>3, <2>4, <3>2, <3>3
  <2>6. QED
    BY <2>5, Zenon
<1>5. QED
  BY <1>1, <1>2, <1>3, <1>4 DEF Rearranged, Array, g

\* The elements of an array are objects, the parent of a cell is a cell.
LEMMA Cells ==
  ASSUME NEW h, Array(h)
  PROVE  /\ Len(h) \in Nat
         /\ \A i \in 1..Len(h) : h[i] \in Objects
         /\ \A i \in 2..Len(h) : i \in 1..Len(h) /\ i \div 2 \in 1..Len(h) /\ i \div 2 < i
<1>1. Len(h) \in Nat /\ \A i \in 1..Len(h) : h[i] \in Objects
  BY DEF Array
<1>2. QED
  BY <1>1, Halves

-----------------------------------------------------------------------------
(* heap_up *)

\* The array is in order but for the cell m and its parent, and the children
\* of m do not precede that parent either.
RisingAt(h, m) ==
  /\ m \in 1..Len(h)
  /\ \A i \in 2..Len(h) : i # m => ~job_before(h[i], h[i \div 2])
  /\ m > 1 => \A i \in 2..Len(h) : i \div 2 = m => ~job_before(h[i], h[m \div 2])

\* One turn of the loop.
LEMMA RiseOnce ==
  ASSUME NEW h, Array(h), NEW m, RisingAt(h, m), m > 1, job_before(h[m], h[m \div 2])
  PROVE  LET g == heap_swap(h, m \div 2, m) IN Rearranged(h, g) /\ RisingAt(g, m \div 2)
<1> DEFINE p == m \div 2
           g == heap_swap(h, p, m)
<1>0. m \in 2..Len(h) /\ p \in 1..Len(h) /\ p < m /\ Len(h) \in Nat
  BY Cells DEF RisingAt
<1>1. Rearranged(h, g) /\ g[p] = h[m] /\ g[m] = h[p]
  BY <1>0, Swapped
<1>2. \A i \in 1..Len(h) : i # p /\ i # m => g[i] = h[i]
  BY <1>0, Swapped
<1>3. Len(g) = Len(h)
  BY <1>1 DEF Rearranged
<1>4. \A i \in 1..Len(h) : h[i] \in Objects
  BY Cells
<1>5. \A i \in 2..Len(h) : i \in 1..Len(h) /\ i \div 2 \in 1..Len(h) /\ i \div 2 < i
  BY Cells
<1>6. \A i \in 2..Len(h) : i # m => ~job_before(h[i], h[i \div 2])
  BY DEF RisingAt
<1>7. \A i \in 2..Len(h) : i \div 2 = m => ~job_before(h[i], h[p])
  BY DEF RisingAt
<1> HIDE DEF g
<1>8. ASSUME NEW i \in 2..Len(h), i # p PROVE ~job_before(g[i], g[i \div 2])
  <2>1. CASE i = m
    BY <1>0, <1>1, <1>4, <2>1, Order
  <2>2. CASE i # m /\ i \div 2 = m
    <3>1. g[i] = h[i] /\ g[i \div 2] = h[p]
      BY <1>1, <1>2, <1>5, <1>8, <2>2
    <3>2. QED
      BY <1>7, <2>2, <3>1
  <2>3. CASE i # m /\ i \div 2 = p
    <3>1. g[i] = h[i] /\ g[i \div 2] = h[m]
      BY <1>1, <1>2, <1>5, <1>8, <2>3
    <3>2. ~job_before(h[i], h[p])
      BY <1>6, <2>3
    <3>3. h[i] \in Objects /\ h[p] \in Objects /\ h[m] \in Objects
      BY <1>0, <1>4, <1>5
    <3>4. QED
      BY <3>1, <3>2, <3>3, Order
  <2>4. CASE i # m /\ i \div 2 # m /\ i \div 2 # p
    <3>1. g[i] = h[i] /\ g[i \div 2] = h[i \div 2]
      BY <1>2, <1>5, <1>8, <2>4
    <3>2. QED
      BY <1>6, <2>4, <3>1
  <2>5. QED
    BY <2>1, <2>2, <2>3, <2>4
<1>9. ASSUME p > 1, NEW i \in 2..Len(h), i \div 2 = p
      PROVE  ~job_before(g[i], g[p \div 2])
  <2>0. p \in 2..Len(h) /\ p \div 2 \in 1..Len(h) /\ p \div 2 < p
    <3> HIDE DEF p
    <3>1. p \in 2..Len(h)
      BY <1>0, <1>9
    <3>2. QED
      BY <1>5, <3>1
  <2>1. g[p \div 2] = h[p \div 2] /\ ~job_before(h[p], h[p \div 2])
    <3> HIDE DEF p
    <3>1. p # m /\ p \div 2 # p /\ p \div 2 # m
      BY <1>0, <2>0
    <3>2. QED
      BY <1>2, <1>6, <2>0, <3>1
  <2>2. CASE i = m
    BY <1>1, <2>1, <2>2
  <2>3. CASE i # m
    <3>1. g[i] = h[i] /\ ~job_before(h[i], h[p])
      BY <1>2, <1>5, <1>6, <1>9, <2>3
    <3>2. h[i] \in Objects /\ h[p] \in Objects /\ h[p \div 2] \in Objects
      BY <1>0, <1>4, <1>5, <2>0
    <3>3. QED
      BY <2>1, <3>1, <3>2, Order
  <2>4. QED
    BY <2>2, <2>3
<1>10. RisingAt(g, p)
  BY <1>0, <1>3, <1>8, <1>9 DEF RisingAt
<1>11. QED
  BY <1>1, <1>10 DEF g

\* After k turns the loop is over, or it is at least k cells nearer the root.
Risen(h, n, k, x) ==
  \E g, m : /\ x = <<g, m>>
            /\ Rearranged(h, g) /\ RisingAt(g, m)
            /\ (m > 1 => ~job_before(g[m], g[m \div 2])) \/ m <= n - k

\* One more turn.
LEMMA RisenMore ==
  ASSUME NEW h, NEW n \in Nat, NEW k \in Nat, NEW x, Risen(h, n, k, x)
  PROVE  Risen(h, n, k + 1, Rise(x))
<1>1. PICK g, m : /\ x = <<g, m>>
                  /\ Rearranged(h, g) /\ RisingAt(g, m)
                  /\ (m > 1 => ~job_before(g[m], g[m \div 2])) \/ m <= n - k
  BY DEF Risen
<1>2. x[1] = g /\ x[2] = m
  BY <1>1
<1>3. Array(g) /\ Len(g) \in Nat /\ m \in 1..Len(g)
  BY <1>1, Cells DEF Rearranged, RisingAt
<1>4. CASE m > 1 /\ job_before(g[m], g[m \div 2])
  <2> DEFINE q == heap_swap(g, m \div 2, m)
             p == m \div 2
  <2>1. Rearranged(g, q) /\ RisingAt(q, p)
    BY <1>1, <1>3, <1>4, RiseOnce
  <2>2. Rise(x) = <<q, p>>
    BY <1>2, <1>4 DEF Rise
  <2>3. p <= n - (k + 1)
    <3>1. m <= n - k
      BY <1>1, <1>4
    <3>2. p \in Nat /\ p < m
      BY <1>3, <1>4, Halves
    <3>3. QED
      BY <1>3, <3>1, <3>2
  <2> HIDE DEF p, q
  <2>4. Rearranged(h, q)
    BY <1>1, <2>1, RearrangedTwice
  <2>5. QED
    BY <2>1, <2>2, <2>3, <2>4 DEF Risen
<1>5. CASE ~(m > 1 /\ job_before(g[m], g[m \div 2]))
  <2>1. Rise(x) = x
    BY <1>2, <1>5 DEF Rise
  <2>2. QED
    BY <1>1, <1>5, <2>1 DEF Risen
<1>6. QED
  BY <1>4, <1>5

\* heap_up puts the array in order.
LEMMA HeapUp ==
  ASSUME NEW h, Array(h), NEW n, RisingAt(h, n)
  PROVE  Rearranged(h, heap_up(h, n)) /\ Ordered(heap_up(h, n))
<1>1. Len(h) \in Nat /\ n \in Nat /\ n <= Len(h)
  BY Cells DEF RisingAt
<1>2. PICK f : /\ f = [k \in 0..Len(h) |-> IF k = 0 THEN <<h, n>> ELSE Rise(f[k - 1])]
               /\ heap_up(h, n) = f[Len(h)][1]
  BY <1>1, RisingTurns
<1> DEFINE S == {k \in Nat : k <= Len(h) => Risen(h, n, k, f[k])}
<1>3. 0 \in S
  <2>1. f[0] = <<h, n>>
    BY <1>1, <1>2
  <2>2. Rearranged(h, h) /\ n <= n - 0
    BY <1>1 DEF Rearranged
  <2>3. QED
    BY <2>1, <2>2 DEF Risen
<1>4. ASSUME NEW k \in Nat, k \in S PROVE k + 1 \in S
  <2>1. SUFFICES ASSUME k + 1 <= Len(h) PROVE Risen(h, n, k + 1, f[k + 1])
    OBVIOUS
  <2>2. Risen(h, n, k, f[k])
    BY <1>1, <1>4, <2>1
  <2>3. f[k + 1] = Rise(f[k])
    <3>1. k + 1 \in 0..Len(h) /\ k + 1 # 0 /\ (k + 1) - 1 = k
      BY <1>1, <2>1
    <3>2. QED
      BY <1>2, <3>1
  <2>4. QED
    BY <1>1, <2>2, <2>3, RisenMore
<1>5. Risen(h, n, Len(h), f[Len(h)])
  <2> HIDE DEF S
  <2>1. Len(h) \in S
    BY <1>1, <1>3, <1>4, Induction
  <2>2. QED
    BY <1>1, <2>1 DEF S
<1>6. PICK g, m : /\ f[Len(h)] = <<g, m>>
                  /\ Rearranged(h, g) /\ RisingAt(g, m)
                  /\ (m > 1 => ~job_before(g[m], g[m \div 2])) \/ m <= n - Len(h)
  BY <1>5 DEF Risen
<1>7. heap_up(h, n) = g
  <2>1. f[Len(h)] = <<g, m>> /\ heap_up(h, n) = f[Len(h)][1]
    BY <1>2, <1>6
  <2>2. QED
    BY <2>1
<1>8. m > 1 => ~job_before(g[m], g[m \div 2])
  <2>1. m \in 1..Len(g) /\ Len(g) = Len(h)
    BY <1>6 DEF RisingAt, Rearranged
  <2>2. ~(m <= n - Len(h))
    BY <1>1, <2>1
  <2>3. QED
    BY <1>6, <2>2
<1>9. Ordered(g)
  BY <1>6, <1>8 DEF RisingAt, Ordered
<1>10. QED
  BY <1>6, <1>7, <1>9

-----------------------------------------------------------------------------
(* heap_down *)

\* The array is in order but for the cell m and its children, and these do
\* not precede the parent of m either.
SinkingAt(h, m) ==
  /\ m \in 1..Len(h)
  /\ \A i \in 2..Len(h) : i \div 2 # m => ~job_before(h[i], h[i \div 2])
  /\ m > 1 => \A i \in 2..Len(h) : i \div 2 = m => ~job_before(h[i], h[m \div 2])

\* What the two comparisons of a turn find.
LEMMA SmallestCell ==
  ASSUME NEW h, Array(h), NEW m \in 1..Len(h)
  PROVE  LET s == Smallest(h, m) IN
         /\ \/ s = m
            \/ s \in 2..Len(h) /\ s \div 2 = m /\ m < s /\ job_before(h[s], h[m])
         /\ \A i \in 2..Len(h) : i \div 2 = m => ~job_before(h[i], h[s])
<1> DEFINE s == Smallest(h, m)
           l == 2 * m
           r == 2 * m + 1
<1>1. Len(h) \in Nat /\ m \in Nat /\ m > 0
  BY Cells
<1>2. \A i \in 1..Len(h) : h[i] \in Objects
  BY Cells
<1>3. \A i \in Nat : i \div 2 = m <=> i = l \/ i = r
  BY <1>1, Halves
<1>4. l \in Nat /\ r \in Nat /\ m < l /\ m < r /\ l >= 2 /\ r >= 2
  BY <1>1
<1>5. \A a \in Objects : ~job_before(a, a)
  BY Order
<1>6. s = IF r <= Len(h) /\ job_before(h[r], h[IF l <= Len(h) /\ job_before(h[l], h[m])
                                               THEN l ELSE m])
          THEN r ELSE IF l <= Len(h) /\ job_before(h[l], h[m]) THEN l ELSE m
  BY DEF Smallest
<1> HIDE DEF s, l, r
<1>7. h[m] \in Objects /\ (l <= Len(h) => h[l] \in Objects) /\ (r <= Len(h) => h[r] \in Objects)
  BY <1>1, <1>2, <1>4
<1>8. CASE l <= Len(h) /\ job_before(h[l], h[m])
  <2>1. CASE r <= Len(h) /\ job_before(h[r], h[l])
    <3>1. s = r
      BY <1>6, <1>8, <2>1
    <3>2. job_before(h[r], h[m]) /\ ~job_before(h[l], h[r]) /\ ~job_before(h[r], h[r])
      BY <1>5, <1>7, <1>8, <2>1, Order
    <3>3. QED
      BY <1>1, <1>3, <1>4, <2>1, <3>1, <3>2 DEF s
  <2>2. CASE ~(r <= Len(h) /\ job_before(h[r], h[l]))
    <3>1. s = l
      BY <1>6, <1>8, <2>2
    <3>2. ~job_before(h[l], h[l])
      BY <1>5, <1>7, <1>8
    <3>3. QED
      BY <1>1, <1>3, <1>4, <1>8, <2>2, <3>1, <3>2 DEF s
  <2>3. QED
    BY <2>1, <2>2
<1>9. CASE ~(l <= Len(h) /\ job_before(h[l], h[m]))
  <2>1. CASE r <= Len(h) /\ job_before(h[r], h[m])
    <3>1. s = r
      BY <1>6, <1>9, <2>1
    <3>2. l <= Len(h) => ~job_before(h[l], h[r])
      BY <1>7, <1>9, <2>1, Order
    <3>3. ~job_before(h[r], h[r])
      BY <1>5, <1>7, <2>1
    <3>4. QED
      BY <1>1, <1>3, <1>4, <2>1, <3>1, <3>2, <3>3 DEF s
  <2>2. CASE ~(r <= Len(h) /\ job_before(h[r], h[m]))
    <3>1. s = m
      BY <1>6, <1>9, <2>2
    <3>2. QED
      BY <1>1, <1>3, <1>4, <1>9, <2>2, <3>1 DEF s
  <2>3. QED
    BY <2>1, <2>2
<1>10. QED
  BY <1>8, <1>9

\* One turn of the loop.
LEMMA SinkOnce ==
  ASSUME NEW h, Array(h), NEW m, SinkingAt(h, m), NEW s, s = Smallest(h, m), s # m
  PROVE  LET g == heap_swap(h, m, s) IN Rearranged(h, g) /\ SinkingAt(g, s)
<1> DEFINE g == heap_swap(h, m, s)
<1>0. m \in 1..Len(h) /\ Len(h) \in Nat
  BY Cells DEF SinkingAt
<1>1. s \in 2..Len(h) /\ s \div 2 = m /\ m < s /\ job_before(h[s], h[m])
  BY <1>0, SmallestCell
<1>2. \A i \in 2..Len(h) : i \div 2 = m => ~job_before(h[i], h[s])
  BY <1>0, SmallestCell
<1>3. s \in 1..Len(h)
  BY <1>0, <1>1
<1>4. Rearranged(h, g) /\ g[m] = h[s] /\ g[s] = h[m]
  BY <1>0, <1>3, Swapped
<1>5. \A i \in 1..Len(h) : i # m /\ i # s => g[i] = h[i]
  BY <1>0, <1>3, Swapped
<1>6. Len(g) = Len(h)
  BY <1>4 DEF Rearranged
<1>7. \A i \in 1..Len(h) : h[i] \in Objects
  BY Cells
<1>8. \A i \in 2..Len(h) : i \in 1..Len(h) /\ i \div 2 \in 1..Len(h) /\ i \div 2 < i
  BY Cells
<1>9. \A i \in 2..Len(h) : i \div 2 # m => ~job_before(h[i], h[i \div 2])
  BY DEF SinkingAt
<1>10. m > 1 => ~job_before(h[s], h[m \div 2])
  BY <1>1 DEF SinkingAt
<1> HIDE DEF g
<1>11. ASSUME NEW i \in 2..Len(h), i \div 2 # s PROVE ~job_before(g[i], g[i \div 2])
  <2>1. CASE i = m
    <3>1. g[i] = h[s] /\ g[i \div 2] = h[m \div 2] /\ m > 1
      BY <1>0, <1>4, <1>5, <1>8, <1>11, <2>1
    <3>2. QED
      BY <1>10, <3>1
  <2>2. CASE i = s
    <3>1. g[i] = h[m] /\ g[i \div 2] = h[s]
      BY <1>1, <1>4, <2>2
    <3>2. h[m] \in Objects /\ h[s] \in Objects
      BY <1>0, <1>3, <1>7
    <3>3. QED
      BY <1>1, <3>1, <3>2, Order
  <2>3. CASE i # m /\ i # s /\ i \div 2 = m
    <3>1. g[i] = h[i] /\ g[i \div 2] = h[s]
      BY <1>4, <1>5, <1>8, <2>3
    <3>2. QED
      BY <1>2, <2>3, <3>1
  <2>4. CASE i # m /\ i # s /\ i \div 2 # m
    <3>1. g[i] = h[i] /\ g[i \div 2] = h[i \div 2]
      BY <1>5, <1>8, <1>11, <2>4
    <3>2. QED
      BY <1>9, <2>4, <3>1
  <2>5. QED
    BY <2>1, <2>2, <2>3, <2>4
<1>12. ASSUME NEW i \in 2..Len(h), i \div 2 = s PROVE ~job_before(g[i], g[s \div 2])
  <2>1. i # m /\ i # s
    BY <1>1, <1>8, <1>12
  <2>2. g[i] = h[i] /\ g[s \div 2] = h[s]
    BY <1>1, <1>4, <1>5, <1>8, <2>1
  <2>3. QED
    BY <1>1, <1>9, <1>12, <2>2
<1>13. SinkingAt(g, s)
  BY <1>3, <1>6, <1>11, <1>12 DEF SinkingAt
<1>14. QED
  BY <1>4, <1>13 DEF g

\* After k turns the loop is over, or it is at least k cells farther on.
Sunk(h, n, k, x) ==
  \E g, m : /\ x = <<g, m>>
            /\ Rearranged(h, g) /\ SinkingAt(g, m)
            /\ Smallest(g, m) = m \/ m >= n + k

\* One more turn.
LEMMA SunkMore ==
  ASSUME NEW h, NEW n \in Nat, NEW k \in Nat, NEW x, Sunk(h, n, k, x)
  PROVE  Sunk(h, n, k + 1, Sink(x))
<1>1. PICK g, m : /\ x = <<g, m>>
                  /\ Rearranged(h, g) /\ SinkingAt(g, m)
                  /\ Smallest(g, m) = m \/ m >= n + k
  BY DEF Sunk
<1>2. x[1] = g /\ x[2] = m
  BY <1>1
<1>3. Array(g) /\ Len(g) \in Nat /\ m \in 1..Len(g)
  BY <1>1, Cells DEF Rearranged, SinkingAt
<1> DEFINE s == Smallest(g, m)
<1>4. CASE s # m
  <2> DEFINE q == heap_swap(g, m, s)
  <2>1. Rearranged(g, q) /\ SinkingAt(q, s)
    BY <1>1, <1>3, <1>4, SinkOnce
  <2>2. Sink(x) = <<q, s>>
    BY <1>2, <1>4 DEF Sink
  <2>3. s >= n + (k + 1)
    <3>1. m >= n + k
      BY <1>1, <1>4
    <3>2. s \in 2..Len(g) /\ m < s
      BY <1>3, <1>4, SmallestCell
    <3>3. QED
      BY <1>3, <3>1, <3>2
  <2> HIDE DEF s, q
  <2>4. Rearranged(h, q)
    BY <1>1, <2>1, RearrangedTwice
  <2>5. QED
    BY <2>1, <2>2, <2>3, <2>4 DEF Sunk
<1>5. CASE s = m
  <2>1. Sink(x) = x
    BY <1>2, <1>5 DEF Sink
  <2>2. QED
    BY <1>1, <1>5, <2>1 DEF Sunk
<1>6. QED
  BY <1>4, <1>5

\* heap_down puts the array in order.
LEMMA HeapDown ==
  ASSUME NEW h, Array(h), NEW n, SinkingAt(h, n)
  PROVE  Rearranged(h, heap_down(h, n)) /\ Ordered(heap_down(h, n))
<1>1. Len(h) \in Nat /\ n \in Nat /\ n >= 1
  BY Cells DEF SinkingAt
<1>2. PICK f : /\ f = [k \in 0..Len(h) |-> IF k = 0 THEN <<h, n>> ELSE Sink(f[k - 1])]
               /\ heap_down(h, n) = f[Len(h)][1]
  BY <1>1, SinkingTurns
<1> DEFINE S == {k \in Nat : k <= Len(h) => Sunk(h, n, k, f[k])}
<1>3. 0 \in S
  <2>1. f[0] = <<h, n>>
    BY <1>1, <1>2
  <2>2. Rearranged(h, h) /\ n >= n + 0
    BY <1>1 DEF Rearranged
  <2>3. QED
    BY <2>1, <2>2 DEF Sunk
<1>4. ASSUME NEW k \in Nat, k \in S PROVE k + 1 \in S
  <2>1. SUFFICES ASSUME k + 1 <= Len(h) PROVE Sunk(h, n, k + 1, f[k + 1])
    OBVIOUS
  <2>2. Sunk(h, n, k, f[k])
    BY <1>1, <1>4, <2>1
  <2>3. f[k + 1] = Sink(f[k])
    <3>1. k + 1 \in 0..Len(h) /\ k + 1 # 0 /\ (k + 1) - 1 = k
      BY <1>1, <2>1
    <3>2. QED
      BY <1>2, <3>1
  <2>4. QED
    BY <1>1, <2>2, <2>3, SunkMore
<1>5. Sunk(h, n, Len(h), f[Len(h)])
  <2> HIDE DEF S
  <2>1. Len(h) \in S
    BY <1>1, <1>3, <1>4, Induction
  <2>2. QED
    BY <1>1, <2>1 DEF S
<1>6. PICK g, m : /\ f[Len(h)] = <<g, m>>
                  /\ Rearranged(h, g) /\ SinkingAt(g, m)
                  /\ Smallest(g, m) = m \/ m >= n + Len(h)
  BY <1>5 DEF Sunk
<1>7. heap_down(h, n) = g
  <2>1. f[Len(h)] = <<g, m>> /\ heap_down(h, n) = f[Len(h)][1]
    BY <1>2, <1>6
  <2>2. QED
    BY <2>1
<1>8. Array(g) /\ m \in 1..Len(g) /\ Len(g) = Len(h)
  BY <1>6 DEF SinkingAt, Rearranged
<1>9. Smallest(g, m) = m
  <2>1. ~(m >= n + Len(h))
    BY <1>1, <1>8
  <2>2. QED
    BY <1>6, <2>1
<1>10. \A i \in 2..Len(g) : i \div 2 = m => ~job_before(g[i], g[m])
  BY <1>8, <1>9, SmallestCell
<1>11. Ordered(g)
  BY <1>6, <1>10 DEF SinkingAt, Ordered
<1>12. QED
  BY <1>6, <1>7, <1>11

-----------------------------------------------------------------------------
(* The operations on the array *)

\* Sets of cells.
LEMMA CellsIn ==
  ASSUME NEW h
  PROVE  \A x : x \in CellsOf(h) <=> \E i \in 1..Len(h) : x = h[i]
BY DEF CellsOf

\* A new last cell, which may precede its parent.
LEMMA Appended ==
  ASSUME NEW h, Array(h), Ordered(h), NEW o \in Objects, o \notin CellsOf(h)
  PROVE  LET g == Append(h, o) IN
         /\ Array(g) /\ Len(g) = Len(h) + 1
         /\ CellsOf(g) = CellsOf(h) \cup {o}
         /\ RisingAt(g, Len(h) + 1)
<1> DEFINE g == Append(h, o)
           L == Len(h)
<1>1. L \in Nat /\ h \in Seq(Objects)
  BY Cells DEF Array
<1>2. g \in Seq(Objects) /\ Len(g) = L + 1 /\ g[L + 1] = o /\ \A i \in 1..L : g[i] = h[i]
  BY <1>1
<1>3. \A i \in 1..L : h[i] # o
  BY CellsIn
<1>4. \A i, j \in 1..L : h[i] = h[j] => i = j
  BY DEF Array, Distinct
<1>5. \A i \in 2..L : i \in 1..L /\ i \div 2 \in 1..L /\ i \div 2 < i
  BY Cells
<1>6. \A i \in 2..L : ~job_before(h[i], h[i \div 2])
  BY DEF Ordered
<1> HIDE DEF g, L
<1>7. Distinct(g)
  <2>1. SUFFICES ASSUME NEW i \in 1..(L + 1), NEW j \in 1..(L + 1), g[i] = g[j] PROVE i = j
    BY <1>2 DEF Distinct
  <2>2. CASE i \in 1..L /\ j \in 1..L
    BY <1>2, <1>4, <2>1, <2>2
  <2>3. CASE i = L + 1 \/ j = L + 1
    BY <1>1, <1>2, <1>3, <2>1, <2>3
  <2>4. QED
    BY <1>1, <2>2, <2>3
<1>8. CellsOf(g) = CellsOf(h) \cup {o}
  <2>1. \A x : x \in CellsOf(g) <=> \E i \in 1..(L + 1) : x = g[i]
    BY <1>2, CellsIn
  <2>2. \A x : x \in CellsOf(h) <=> \E i \in 1..L : x = h[i]
    BY CellsIn DEF L
  <2>3. ASSUME NEW x PROVE x \in CellsOf(g) <=> x \in CellsOf(h) \cup {o}
    <3>1. ASSUME NEW i \in 1..(L + 1), x = g[i] PROVE x = o \/ \E j \in 1..L : x = h[j]
      BY <1>1, <1>2, <3>1
    <3>2. ASSUME NEW i \in 1..L, x = h[i] PROVE \E j \in 1..(L + 1) : x = g[j]
      BY <1>1, <1>2, <3>2
    <3>3. x = o => \E j \in 1..(L + 1) : x = g[j]
      BY <1>1, <1>2
    <3>4. QED
      BY <2>1, <2>2, <3>1, <3>2, <3>3
  <2>4. QED
    BY <2>3, Zenon
<1>9. RisingAt(g, L + 1)
  <2>1. ASSUME NEW i \in 2..(L + 1), i # L + 1 PROVE ~job_before(g[i], g[i \div 2])
    <3>1. i \in 2..L
      BY <1>1, <2>1
    <3>2. g[i] = h[i] /\ g[i \div 2] = h[i \div 2]
      BY <1>2, <1>5, <3>1
    <3>3. QED
      BY <1>6, <3>1, <3>2
  <2>2. \A i \in 2..(L + 1) : i \div 2 # L + 1
    BY <1>1, Halves
  <2>3. QED
    BY <1>1, <1>2, <2>1, <2>2 DEF RisingAt
<1>10. QED
  BY <1>2, <1>7, <1>8, <1>9 DEF Array, g, L

\* The array after a push.
LEMMA Pushed ==
  ASSUME NEW h, Array(h), Ordered(h), NEW o \in Objects, o \notin CellsOf(h)
  PROVE  LET g == heap_up(Append(h, o), Len(h) + 1) IN
         /\ Array(g) /\ Ordered(g) /\ Len(g) = Len(h) + 1
         /\ CellsOf(g) = CellsOf(h) \cup {o}
<1> DEFINE a == Append(h, o)
           g == heap_up(a, Len(h) + 1)
<1>1. Array(a) /\ Len(a) = Len(h) + 1 /\ CellsOf(a) = CellsOf(h) \cup {o}
      /\ RisingAt(a, Len(h) + 1)
  BY Appended
<1> HIDE DEF a
<1>2. Rearranged(a, g) /\ Ordered(g)
  BY <1>1, HeapUp
<1> HIDE DEF g
<1>3. QED
  BY <1>1, <1>2 DEF Rearranged, g, a

\* The last cell in the place of another one.
LEMMA MovedCells ==
  ASSUME NEW h, Array(h), NEW n \in 1..Len(h)
  PROVE  LET g == Moved(h, n) IN
         /\ Array(g) /\ Len(g) = Len(h) - 1
         /\ CellsOf(g) = CellsOf(h) \ {h[n]}
         /\ \A i \in 1..Len(g) : i # n => g[i] = h[i]
         /\ n \in 1..Len(g) => g[n] = h[Len(h)]
<1> DEFINE g == Moved(h, n)
           L == Len(h)
<1>1. L \in Nat /\ L >= 1 /\ h \in Seq(Objects) /\ \A i \in 1..L : h[i] \in Objects
  BY Cells DEF Array
<1>2. g = [i \in 1..(L - 1) |-> IF i = n THEN h[L] ELSE h[i]]
  BY DEF Moved
<1>3. \A i, j \in 1..L : h[i] = h[j] => i = j
  BY DEF Array, Distinct
<1> HIDE DEF g, L
<1>4. L - 1 \in Nat /\ \A i \in 1..(L - 1) : i \in 1..L /\ i # L
  BY <1>1
<1>5. \A i \in 1..(L - 1) : g[i] = IF i = n THEN h[L] ELSE h[i]
  BY <1>2
<1>6. g \in [1..(L - 1) -> Objects]
  BY <1>1, <1>2, <1>4
<1>7. g \in Seq(Objects) /\ Len(g) = L - 1
  BY <1>4, <1>6
<1>8. L \in 1..L /\ n \in 1..L
  BY <1>1 DEF L
<1>9. Distinct(g)
  <2>1. SUFFICES ASSUME NEW i \in 1..(L - 1), NEW j \in 1..(L - 1), g[i] = g[j] PROVE i = j
    BY <1>7 DEF Distinct
  <2>2. QED
    BY <1>3, <1>4, <1>5, <1>8, <2>1
<1>10. CellsOf(g) = CellsOf(h) \ {h[n]}
  <2>1. \A x : x \in CellsOf(g) <=> \E i \in 1..(L - 1) : x = g[i]
    BY <1>7, CellsIn
  <2>2. \A x : x \in CellsOf(h) <=> \E i \in 1..L : x = h[i]
    BY CellsIn DEF L
  <2>3. ASSUME NEW x PROVE x \in CellsOf(g) <=> x \in CellsOf(h) \ {h[n]}
    <3>1. ASSUME NEW i \in 1..(L - 1), x = g[i]
          PROVE  x # h[n] /\ \E j \in 1..L : x = h[j]
      <4>1. CASE i = n
        BY <1>3, <1>4, <1>5, <1>8, <3>1, <4>1
      <4>2. CASE i # n
        BY <1>3, <1>4, <1>5, <1>8, <3>1, <4>2
      <4>3. QED
        BY <4>1, <4>2
    <3>2. ASSUME NEW i \in 1..L, x = h[i], x # h[n] PROVE \E j \in 1..(L - 1) : x = g[j]
      <4>1. i # n
        BY <3>2
      <4>2. CASE i = L
        <5>1. n \in 1..(L - 1)
          BY <1>1, <1>8, <4>1, <4>2
        <5>2. QED
          BY <1>5, <3>2, <4>2, <5>1
      <4>3. CASE i # L
        <5>1. i \in 1..(L - 1)
          BY <1>1, <4>3
        <5>2. QED
          BY <1>5, <3>2, <4>1, <5>1
      <4>4. QED
        BY <4>2, <4>3
    <3>3. QED
      BY <2>1, <2>2, <3>1, <3>2
  <2>4. QED
    BY <2>3, Zenon
<1>11. QED
  BY <1>5, <1>7, <1>9, <1>10 DEF Array, g, L

\* The cell that fills the hole rises if it precedes its new parent, and may
\* have to sink otherwise.
LEMMA MovedNearlyOrdered ==
  ASSUME NEW h, Array(h), Ordered(h), NEW n \in 1..Len(h), NEW g, g = Moved(h, n),
         n \in 1..Len(g)
  PROVE  IF n > 1 /\ job_before(g[n], g[n \div 2]) THEN RisingAt(g, n) ELSE SinkingAt(g, n)
<1> DEFINE L == Len(h)
<1>1. Array(g) /\ Len(g) = L - 1 /\ g[n] = h[L] /\ \A i \in 1..Len(g) : i # n => g[i] = h[i]
  BY MovedCells
<1>2. L \in Nat /\ Len(g) \in Nat /\ \A i \in 2..Len(g) : i \in 2..L
  BY <1>1, Cells
<1>3. \A i \in 1..L : h[i] \in Objects
  BY Cells
<1>4. \A i \in 2..L : i \in 1..L /\ i \div 2 \in 1..L /\ i \div 2 < i
  BY Cells
<1>5. \A i \in 2..Len(g) : i \in 1..Len(g) /\ i \div 2 \in 1..Len(g) /\ i \div 2 < i
  BY <1>1, Cells
<1>6. \A i \in 2..L : ~job_before(h[i], h[i \div 2])
  BY DEF Ordered
<1> HIDE DEF L
<1>7. ASSUME NEW i \in 2..Len(g), i # n, i \div 2 # n PROVE ~job_before(g[i], g[i \div 2])
  <2>1. g[i] = h[i] /\ g[i \div 2] = h[i \div 2]
    BY <1>1, <1>5, <1>7
  <2>2. QED
    BY <1>2, <1>6, <2>1
<1>8. ASSUME n > 1, NEW i \in 2..Len(g), i \div 2 = n
      PROVE  /\ ~job_before(g[i], g[n \div 2])
             /\ g[i] \in Objects /\ g[n] \in Objects /\ g[n \div 2] \in Objects
  <2>1. n \in 2..Len(g) /\ n \in 2..L
    BY <1>1, <1>2, <1>8
  <2>2. g[i] = h[i] /\ g[n \div 2] = h[n \div 2]
    BY <1>1, <1>5, <1>8, <2>1
  <2>3. ~job_before(h[i], h[n]) /\ ~job_before(h[n], h[n \div 2])
    BY <1>2, <1>6, <1>8, <2>1
  <2>4. h[i] \in Objects /\ h[n] \in Objects /\ h[n \div 2] \in Objects
    BY <1>2, <1>3, <1>4, <2>1
  <2>5. g[n] \in Objects
    BY <1>1, Cells
  <2>6. QED
    BY <2>2, <2>3, <2>4, <2>5, Order
<1>9. CASE n > 1 /\ job_before(g[n], g[n \div 2])
  <2>1. ASSUME NEW i \in 2..Len(g), i # n PROVE ~job_before(g[i], g[i \div 2])
    <3>1. CASE i \div 2 # n
      BY <1>7, <2>1, <3>1
    <3>2. CASE i \div 2 = n
      <4>1. ~job_before(g[i], g[n \div 2])
        BY <1>8, <1>9, <3>2
      <4>2. g[i] \in Objects /\ g[n] \in Objects /\ g[n \div 2] \in Objects
        BY <1>8, <1>9, <3>2
      <4>3. ~job_before(g[i], g[n])
        BY <1>9, <4>1, <4>2, Order
      <4>4. QED
        BY <3>2, <4>3
    <3>3. QED
      BY <3>1, <3>2
  <2>2. RisingAt(g, n)
    BY <1>8, <1>9, <2>1 DEF RisingAt
  <2>3. QED
    BY <1>9, <2>2
<1>10. CASE ~(n > 1 /\ job_before(g[n], g[n \div 2]))
  <2>1. ASSUME NEW i \in 2..Len(g), i \div 2 # n PROVE ~job_before(g[i], g[i \div 2])
    <3>1. CASE i # n
      BY <1>7, <2>1, <3>1
    <3>2. CASE i = n
      BY <1>10, <2>1, <3>2
    <3>3. QED
      BY <3>1, <3>2
  <2>2. SinkingAt(g, n)
    BY <1>8, <2>1 DEF SinkingAt
  <2>3. QED
    BY <1>10, <2>2
<1>11. QED
  BY <1>9, <1>10

\* The array after a removal, from the root or from the middle.
LEMMA Removed ==
  ASSUME NEW h, Array(h), Ordered(h), NEW n \in 1..Len(h)
  PROVE  LET g == WithoutCell(h, n) IN
         /\ Array(g) /\ Ordered(g) /\ Len(g) = Len(h) - 1
         /\ CellsOf(g) = CellsOf(h) \ {h[n]}
<1> DEFINE m == Moved(h, n)
           g == WithoutCell(h, n)
<1>1. Array(m) /\ Len(m) = Len(h) - 1 /\ CellsOf(m) = CellsOf(h) \ {h[n]}
  BY MovedCells
<1>2. \A i \in 1..Len(m) : i # n => m[i] = h[i]
  BY MovedCells
<1>3. Len(h) \in Nat /\ Len(m) \in Nat /\ n \in Nat /\ n >= 1
  BY <1>1, Cells
<1>4. g = IF n > Len(m) THEN m
          ELSE IF n > 1 /\ job_before(m[n], m[n \div 2]) THEN heap_up(m, n) ELSE heap_down(m, n)
  BY DEF WithoutCell
<1>5. n \in 1..Len(m) =>
        IF n > 1 /\ job_before(m[n], m[n \div 2]) THEN RisingAt(m, n) ELSE SinkingAt(m, n)
  BY MovedNearlyOrdered
<1> HIDE DEF m, g
<1>6. CASE n > Len(m)
  <2>1. n = Len(h) /\ g = m
    BY <1>1, <1>3, <1>4, <1>6
  <2>2. \A i \in 2..Len(m) : i \in 2..Len(h) /\ i # n /\ i \div 2 # n
                               /\ i \in 1..Len(m) /\ i \div 2 \in 1..Len(m)
    BY <1>1, <1>3, <2>1, Cells
  <2>3. Ordered(m)
    BY <1>2, <2>2 DEF Ordered
  <2>4. QED
    BY <1>1, <2>1, <2>3 DEF g
<1>7. CASE n \in 1..Len(m) /\ n > 1 /\ job_before(m[n], m[n \div 2])
  <2>1. g = heap_up(m, n) /\ RisingAt(m, n)
    BY <1>3, <1>4, <1>5, <1>7
  <2>2. Rearranged(m, g) /\ Ordered(g)
    BY <1>1, <2>1, HeapUp
  <2>3. QED
    BY <1>1, <2>2 DEF Rearranged, g
<1>8. CASE n \in 1..Len(m) /\ ~(n > 1 /\ job_before(m[n], m[n \div 2]))
  <2>1. g = heap_down(m, n) /\ SinkingAt(m, n)
    BY <1>3, <1>4, <1>5, <1>8
  <2>2. Rearranged(m, g) /\ Ordered(g)
    BY <1>1, <2>1, HeapDown
  <2>3. QED
    BY <1>1, <2>2 DEF Rearranged, g
<1>9. QED
  BY <1>3, <1>6, <1>7, <1>8

\* Nothing precedes the root.
LEMMA RootFirst ==
  ASSUME NEW h, Array(h), Ordered(h)
  PROVE  \A i \in 1..Len(h) : ~job_before(h[i], h[1])
<1>1. Len(h) \in Nat /\ \A i \in 1..Len(h) : h[i] \in Objects
  BY Cells
<1>2. \A i \in 2..Len(h) : i \div 2 \in 1..Len(h) /\ i \div 2 < i
  BY Cells
<1> DEFINE Good(i) == ~job_before(h[i], h[1])
           S == {k \in Nat : \A i \in 1..Len(h) : i <= k => Good(i)}
<1> HIDE DEF Good
<1>3. 0 \in S
  BY <1>1
<1>4. ASSUME NEW k \in Nat, k \in S PROVE k + 1 \in S
  <2>1. SUFFICES ASSUME k + 1 \in 1..Len(h) PROVE Good(k + 1)
    BY <1>1, <1>4
  <2>2. CASE k + 1 = 1
    BY <1>1, <2>1, <2>2, Order DEF Good
  <2>3. CASE k + 1 # 1
    <3> DEFINE p == (k + 1) \div 2
    <3>1. k + 1 \in 2..Len(h)
      BY <1>1, <2>1, <2>3
    <3>2. p \in 1..Len(h) /\ p <= k
      BY <1>2, <3>1
    <3>3. ~job_before(h[k + 1], h[p])
      BY <3>1 DEF Ordered
    <3> HIDE DEF p
    <3>4. Good(p)
      BY <1>4, <3>2
    <3>5. h[1] \in Objects /\ h[p] \in Objects /\ h[k + 1] \in Objects
      BY <1>1, <2>1, <3>2
    <3>6. QED
      BY <3>3, <3>4, <3>5, Order DEF Good
  <2>4. QED
    BY <2>2, <2>3
<1>5. Len(h) \in S
  <2> HIDE DEF S
  <2>1. QED BY <1>1, <1>3, <1>4, Induction
<1>6. QED
  BY <1>1, <1>5 DEF Good

\* The scan of queue_try_pop_matching finds a job whenever one matches.
LEMMA BestFound ==
  ASSUME Array(heap), NEW S, \E i \in 1..Len(heap) : heap[i] \in S
  PROVE  /\ Best(S) \in 1..Len(heap) /\ heap[Best(S)] \in S
         /\ \A i \in 1..Len(heap) : heap[i] \in S => ~job_before(heap[i], heap[Best(S)])
<1> DEFINE L == Len(heap)
           Up(n, k) == /\ heap[n] \in S
                       /\ \A m \in 1..k : heap[m] \in S =>
                             /\ ~job_before(heap[m], heap[n])
                             /\ (m < n => job_before(heap[n], heap[m]))
           T == {k \in Nat : k <= L /\ (\E i \in 1..k : heap[i] \in S) => \E n \in 1..k : Up(n, k)}
<1>1. L \in Nat /\ \A i \in 1..L : heap[i] \in Objects
  BY Cells
<1>2. DOMAIN heap = 1..L
  BY DEF Array
<1> HIDE DEF L
<1>3. 0 \in T
  OBVIOUS
<1>4. ASSUME NEW k \in Nat, k \in T PROVE k + 1 \in T
  <2>1. SUFFICES ASSUME k + 1 <= L, NEW i \in 1..(k + 1), heap[i] \in S
                 PROVE  \E n \in 1..(k + 1) : Up(n, k + 1)
    OBVIOUS
  <2>2. \A m \in 1..(k + 1) : heap[m] \in Objects
    BY <1>1, <2>1
  <2>3. CASE \A m \in 1..k : heap[m] \notin S
    <3>1. i = k + 1
      BY <2>1, <2>3
    <3>2. Up(k + 1, k + 1)
      BY <2>1, <2>2, <2>3, <3>1, Order
    <3>3. QED
      BY <3>2
  <2>4. CASE \E m \in 1..k : heap[m] \in S
    <3>1. k <= L
      BY <1>1, <2>1
    <3>2. PICK n \in 1..k : Up(n, k)
      BY <1>4, <2>4, <3>1
    <3>3. n \in 1..(k + 1) /\ k + 1 \in 1..(k + 1) /\ n < k + 1
      OBVIOUS
    <3>4. CASE heap[k + 1] \in S /\ job_before(heap[k + 1], heap[n])
      <4>1. ASSUME NEW m \in 1..(k + 1), heap[m] \in S
            PROVE  /\ ~job_before(heap[m], heap[k + 1])
                   /\ (m < k + 1 => job_before(heap[k + 1], heap[m]))
        <5>0. heap[m] \in Objects /\ heap[n] \in Objects /\ heap[k + 1] \in Objects
          BY <2>2, <3>3
        <5>1. CASE m = k + 1
          BY <5>0, <5>1, Order
        <5>2. CASE m # k + 1
          <6>1. m \in 1..k
            BY <5>2
          <6>2. ~job_before(heap[m], heap[n])
            BY <3>2, <4>1, <6>1
          <6>3. QED
            BY <3>4, <5>0, <6>2, Order
        <5>3. QED
          BY <5>1, <5>2
      <4>2. Up(k + 1, k + 1)
        BY <3>4, <4>1
      <4>3. QED
        BY <3>3, <4>2
    <3>5. CASE ~(heap[k + 1] \in S /\ job_before(heap[k + 1], heap[n]))
      <4>1. ASSUME NEW m \in 1..(k + 1), heap[m] \in S
            PROVE  ~job_before(heap[m], heap[n]) /\ (m < n => job_before(heap[n], heap[m]))
        <5>1. CASE m = k + 1
          BY <3>3, <3>5, <4>1, <5>1
        <5>2. CASE m # k + 1
          <6>1. m \in 1..k
            BY <5>2
          <6>2. QED
            BY <3>2, <4>1, <6>1
        <5>3. QED
          BY <5>1, <5>2
      <4>2. Up(n, k + 1)
        BY <3>2, <4>1
      <4>3. QED
        BY <3>3, <4>2
    <3>6. QED
      BY <3>4, <3>5
  <2>5. QED
    BY <2>3, <2>4
<1>5. L \in T
  <2> HIDE DEF T
  <2>1. QED BY <1>1, <1>3, <1>4, Induction
<1>6. \E n \in 1..L : Up(n, L)
  BY <1>1, <1>5 DEF L
<1>7. Best(S) = CHOOSE n \in 1..L : Up(n, L)
  BY <1>2, Zenon DEF Best
<1>8. Best(S) \in 1..L /\ Up(Best(S), L)
  <2> HIDE DEF Up
  <2>1. QED BY <1>6, <1>7
<1>9. QED
  BY <1>8 DEF L

-----------------------------------------------------------------------------
(* The inductive invariant *)

IInv ==
  /\ Array(heap) /\ Ordered(heap)
  /\ capacity \in Nat \ {0} /\ Len(heap) <= capacity
  /\ shutdown \in BOOLEAN
  /\ waiting \subseteq Poppers /\ woken \subseteq Poppers /\ waiting \cap woken = {}
  /\ NoLostWakeup

\* The queue as the abstract specification sees it.
LEMMA HeldCells == Array(heap) => Held = CellsOf(heap) /\ DOMAIN heap = 1..Len(heap)
BY DEF Array, Held, CellsOf

\* The empty queue of queue_create.
LEMMA InitIInv == Init => IInv
<1>1. <<>> \in Seq(Objects) /\ Len(<<>>) = 0
  OBVIOUS
<1>2. Array(<<>>) /\ Ordered(<<>>)
  BY <1>1 DEF Array, Distinct, Ordered
<1> SUFFICES ASSUME Init PROVE IInv
  OBVIOUS
<1>3. heap = <<>> /\ capacity \in Nat \ {0} /\ shutdown = FALSE /\ waiting = {} /\ woken = {}
  BY QueueParameters DEF Init
<1>4. Array(heap) /\ Ordered(heap) /\ Len(heap) = 0
  BY <1>1, <1>2, <1>3
<1>5. Len(heap) <= capacity
  BY <1>3, <1>4
<1>6. /\ shutdown \in BOOLEAN
      /\ waiting \subseteq Poppers /\ woken \subseteq Poppers /\ waiting \cap woken = {}
  BY <1>3
<1>7. NoLostWakeup
  BY <1>3 DEF NoLostWakeup
<1>8. QED
  BY <1>3, <1>4, <1>5, <1>6, <1>7 DEF IInv

\* What a removal of the cell n leaves.
Taken(n) ==
  /\ n \in 1..Len(heap)
  /\ Array(heap') /\ Ordered(heap') /\ Len(heap') = Len(heap) - 1
  /\ CellsOf(heap') = CellsOf(heap) \ {heap[n]}

\* WithoutCell takes the cell it is given.
LEMMA TakenBy ==
  ASSUME IInv, NEW n \in 1..Len(heap), heap' = WithoutCell(heap, n)
  PROVE  Taken(n)
BY Removed DEF IInv, Taken

\* A pop takes the root.
LEMMA PopTakes ==
  ASSUME IInv, heap # <<>>, PopRoot
  PROVE  Taken(1) /\ ret' = <<"pop", heap[1]>>
<1>1. heap \in Seq(Objects)
  BY DEF IInv, Array
<1>2. 1 \in 1..Len(heap)
  BY <1>1
<1>3. QED
  BY <1>2, TakenBy DEF PopRoot

\* A selective pop takes the best match, or nothing when there is none.
LEMMA MatchTakes ==
  ASSUME IInv, NEW S, queue_try_pop_matching(S)
  PROVE  \/ CellsOf(heap) \cap S = {} /\ ret' = <<"match", S>> /\ heap' = heap
         \/ /\ Taken(Best(S)) /\ ret' = <<"match", S, heap[Best(S)]>>
            /\ heap[Best(S)] \in S
            /\ \A x \in CellsOf(heap) \cap S : ~job_before(x, heap[Best(S)])
<1>1. Held = CellsOf(heap)
  BY HeldCells DEF IInv
<1>2. CASE CellsOf(heap) \cap S = {}
  BY <1>1, <1>2 DEF queue_try_pop_matching
<1>3. CASE CellsOf(heap) \cap S # {}
  <2>1. \E i \in 1..Len(heap) : heap[i] \in S
    BY <1>3 DEF CellsOf
  <2>2. /\ Best(S) \in 1..Len(heap) /\ heap[Best(S)] \in S
        /\ \A i \in 1..Len(heap) : heap[i] \in S => ~job_before(heap[i], heap[Best(S)])
    BY <2>1, BestFound DEF IInv
  <2>3. ret' = <<"match", S, heap[Best(S)]>> /\ heap' = WithoutCell(heap, Best(S))
    BY <1>1, <1>3 DEF queue_try_pop_matching
  <2>4. Taken(Best(S))
    BY <2>2, <2>3, TakenBy
  <2>5. \A x \in CellsOf(heap) \cap S : ~job_before(x, heap[Best(S)])
    BY <2>2 DEF CellsOf
  <2>6. QED
    BY <2>2, <2>3, <2>4, <2>5
<1>4. QED
  BY <1>2, <1>3

\* A removal takes the first cell with the id, or nothing when there is none.
LEMMA RemoveTakes ==
  ASSUME IInv, NEW id, queue_remove(id)
  PROVE  \/ (\A x \in CellsOf(heap) : Id[x] # id) /\ ret' = <<"remove", id>> /\ heap' = heap
         \/ \E n \in 1..Len(heap) :
              Taken(n) /\ Id[heap[n]] = id /\ ret' = <<"remove", id, heap[n]>>
<1> DEFINE cells == {n \in DOMAIN heap : Id[heap[n]] = id}
           index == CHOOSE n \in cells : \A m \in cells : n <= m
<1>1. DOMAIN heap = 1..Len(heap) /\ Len(heap) \in Nat
  BY HeldCells, Cells DEF IInv
<1>2. CASE cells = {}
  <2>1. ret' = <<"remove", id>> /\ heap' = heap
    BY <1>2 DEF queue_remove
  <2>2. \A x \in CellsOf(heap) : Id[x] # id
    BY <1>1, <1>2 DEF CellsOf
  <2>3. QED
    BY <2>1, <2>2
<1>3. CASE cells # {}
  <2>1. ret' = <<"remove", id, heap[index]>> /\ heap' = WithoutCell(heap, index)
    BY <1>3 DEF queue_remove
  <2>2. cells \in SUBSET Nat
    BY <1>1
  <2> HIDE DEF cells
  <2>3. \E n \in cells : \A m \in cells : n <= m
    BY <1>3, <2>2, SmallestExists
  <2>4. index \in cells
    BY <2>3
  <2> HIDE DEF index
  <2>5. index \in 1..Len(heap) /\ Id[heap[index]] = id
    BY <1>1, <2>4 DEF cells
  <2>6. Taken(index)
    BY <2>1, <2>5, TakenBy
  <2>7. QED
    BY <2>1, <2>5, <2>6
<1>4. QED
  BY <1>2, <1>3

\* What a call leaves in the array and in its capacity.
Kept ==
  /\ Array(heap') /\ Ordered(heap')
  /\ capacity' \in Nat \ {0} /\ Len(heap') <= capacity'

\* Taking a cell keeps the array within its capacity.
LEMMA TakenKeeps ==
  ASSUME IInv, NEW n, Taken(n), capacity' = capacity
  PROVE  Kept /\ Len(heap') < Len(heap) /\ Len(heap') \in Nat
<1>1. Len(heap) \in Nat /\ Len(heap') = Len(heap) - 1 /\ n \in 1..Len(heap)
  BY Cells DEF IInv, Taken
<1>2. Array(heap') /\ Ordered(heap') /\ capacity \in Nat \ {0} /\ Len(heap) <= capacity
  BY DEF IInv, Taken
<1>3. QED
  BY <1>1, <1>2 DEF Kept

\* One turn of queue_pop, which takes the root or leaves the array alone.
LEMMA PopLoopTakes ==
  ASSUME IInv, NEW p, PopLoop(p)
  PROVE  \/ heap = <<>> /\ ~shutdown /\ heap' = heap /\ ret' = ret /\ waiting' = waiting \cup {p}
         \/ heap = <<>> /\ shutdown /\ heap' = heap /\ ret' = <<"pop">> /\ waiting' = waiting
         \/ heap # <<>> /\ Taken(1) /\ ret' = <<"pop", heap[1]>> /\ waiting' = waiting
<1>1. CASE heap # <<>>
  <2>1. PopRoot /\ waiting' = waiting
    BY <1>1 DEF PopLoop
  <2>2. QED
    BY <1>1, <2>1, PopTakes
<1>2. CASE heap = <<>>
  BY <1>2 DEF PopLoop
<1>3. QED
  BY <1>1, <1>2

\* Every step keeps the array in order and within its capacity.
LEMMA KeepsArray ==
  ASSUME IInv, [Next]_vars
  PROVE  Kept
<1>0. Kept \/ ~(heap' = heap /\ capacity' = capacity)
  BY DEF IInv, Kept
<1>1. ASSUME NEW o \in Objects, queue_push(o) PROVE Kept
  <2>1. Held = CellsOf(heap) /\ o \notin Held
    BY <1>1, HeldCells DEF IInv, queue_push
  <2>2. Array(heap) /\ Ordered(heap)
    BY DEF IInv
  <2>3. heap' = heap_up(Append(heap, o), Len(heap) + 1)
    BY <1>1 DEF queue_push
  <2>4. Array(heap') /\ Ordered(heap') /\ Len(heap') = Len(heap) + 1
    BY <2>1, <2>2, <2>3, Pushed
  <2>5. capacity' = IF Len(heap) = capacity THEN 2 * capacity ELSE capacity
    BY <1>1 DEF queue_push, Grown
  <2>6. Len(heap) \in Nat /\ capacity \in Nat \ {0} /\ Len(heap) <= capacity
    BY Cells DEF IInv
  <2>7. capacity' \in Nat \ {0} /\ Len(heap') <= capacity'
    BY <2>4, <2>5, <2>6
  <2>8. QED
    BY <2>4, <2>7 DEF Kept
<1>2. ASSUME NEW o \in Objects, queue_push_fails(o) PROVE Kept
  BY <1>0, <1>2 DEF queue_push_fails
<1>3. ASSUME queue_try_pop PROVE Kept
  <2>1. CASE heap = <<>>
    BY <1>0, <1>3, <2>1 DEF queue_try_pop
  <2>2. CASE heap # <<>>
    <3>1. PopRoot /\ capacity' = capacity
      BY <1>3, <2>2 DEF queue_try_pop
    <3>2. QED
      BY <2>2, <3>1, PopTakes, TakenKeeps
  <2>3. QED
    BY <2>1, <2>2
<1>4. ASSUME NEW S \in Predicates, queue_try_pop_matching(S) PROVE Kept
  <2>1. capacity' = capacity
    BY <1>4 DEF queue_try_pop_matching
  <2>2. heap' = heap \/ Taken(Best(S))
    BY <1>4, MatchTakes
  <2>3. QED
    BY <1>0, <2>1, <2>2, TakenKeeps
<1>5. ASSUME NEW o \in Objects, queue_remove(Id[o]) PROVE Kept
  <2>1. capacity' = capacity
    BY <1>5 DEF queue_remove
  <2>2. heap' = heap \/ \E n \in 1..Len(heap) : Taken(n)
    BY <1>5, RemoveTakes
  <2>3. QED
    BY <1>0, <2>1, <2>2, TakenKeeps
<1>6. ASSUME NEW p \in Poppers, queue_pop(p) \/ queue_pop_resumes(p) PROVE Kept
  <2>1. capacity' = capacity /\ PopLoop(p)
    BY <1>6 DEF queue_pop, queue_pop_resumes
  <2>2. heap' = heap \/ Taken(1)
    BY <2>1, PopLoopTakes
  <2>3. QED
    BY <1>0, <2>1, <2>2, TakenKeeps
<1>7. ASSUME NEW p \in Poppers, SpuriousWakeup(p) PROVE Kept
  BY <1>0, <1>7 DEF SpuriousWakeup
<1>8. ASSUME queue_shutdown PROVE Kept
  BY <1>0, <1>8 DEF queue_shutdown
<1>9. ASSUME UNCHANGED vars PROVE Kept
  BY <1>0, <1>9 DEF vars
<1>10. QED
  BY <1>1, <1>2, <1>3, <1>4, <1>5, <1>6, <1>7, <1>8, <1>9 DEF Next

\* The threads of queue_pop.
Sleepers ==
  /\ shutdown \in BOOLEAN
  /\ waiting \subseteq Poppers /\ woken \subseteq Poppers /\ waiting \cap woken = {}
  /\ NoLostWakeup

\* Sets of poppers are finite; waking one changes their number by one.
LEMMA Woken ==
  ASSUME IInv, NEW p
  PROVE  /\ Cardinality(woken) \in Nat
         /\ p \notin woken => Cardinality(woken \cup {p}) = Cardinality(woken) + 1
         /\ p \in woken => Cardinality(woken \ {p}) = Cardinality(woken) - 1
<1>1. IsFiniteSet(woken)
  BY QueueParameters, FS_Subset DEF IInv
<1>2. QED
  BY <1>1, FS_CardinalityType, FS_AddElement, FS_RemoveElement

\* A call that neither sleeps nor wakes and adds no job.
LEMMA SleepersLeft ==
  ASSUME IInv, UNCHANGED <<shutdown, waiting, woken>>, heap' = heap \/ \E n : Taken(n)
  PROVE  Sleepers'
<1>1. Len(heap) \in Nat /\ (heap' = heap \/ Len(heap') = Len(heap) - 1)
  BY Cells DEF IInv, Taken
<1>2. Cardinality(woken) \in Nat
  BY Woken
<1>3. waiting # {} => ~shutdown /\ Len(heap) <= Cardinality(woken)
  BY DEF IInv, NoLostWakeup
<1>4. waiting # {} => Len(heap') <= Cardinality(woken)
  BY <1>1, <1>2, <1>3
<1>5. QED
  BY <1>3, <1>4 DEF IInv, Sleepers, NoLostWakeup

\* No step leaves a sleeper behind.
LEMMA KeepsSleepers ==
  ASSUME IInv, [Next]_vars
  PROVE  Sleepers'
<1>0. /\ shutdown \in BOOLEAN
      /\ waiting \subseteq Poppers /\ woken \subseteq Poppers /\ waiting \cap woken = {}
      /\ Len(heap) \in Nat /\ Cardinality(woken) \in Nat
  BY Cells, Woken DEF IInv
<1>1. waiting # {} => ~shutdown /\ Len(heap) <= Cardinality(woken)
  BY DEF IInv, NoLostWakeup
<1>2. ASSUME NEW o \in Objects, queue_push(o) PROVE Sleepers'
  <2>1. o \notin CellsOf(heap) /\ ~shutdown /\ shutdown' = shutdown
    BY <1>2, HeldCells DEF IInv, queue_push
  <2>2. heap' = heap_up(Append(heap, o), Len(heap) + 1)
    BY <1>2 DEF queue_push
  <2>3. Len(heap') = Len(heap) + 1
    BY <2>1, <2>2, Pushed DEF IInv
  <2>4. CASE waiting = {} /\ UNCHANGED <<waiting, woken>>
    BY <1>0, <2>1, <2>4 DEF Sleepers, NoLostWakeup
  <2>5. ASSUME NEW p \in waiting, waiting' = waiting \ {p}, woken' = woken \cup {p}
        PROVE  Sleepers'
    <3>1. Cardinality(woken') = Cardinality(woken) + 1
      BY <1>0, <2>5, Woken
    <3>2. Len(heap') <= Cardinality(woken')
      BY <1>0, <1>1, <2>3, <2>5, <3>1
    <3>3. QED
      BY <1>0, <2>1, <2>5, <3>2 DEF Sleepers, NoLostWakeup
  <2>6. QED
    BY <1>2, <2>4, <2>5 DEF queue_push, Signal
<1>3. ASSUME NEW o \in Objects, queue_push_fails(o) PROVE Sleepers'
  BY <1>3, SleepersLeft DEF queue_push_fails
<1>4. ASSUME queue_try_pop PROVE Sleepers'
  <2>1. heap' = heap \/ Taken(1)
    BY <1>4, PopTakes DEF queue_try_pop
  <2>2. QED
    BY <1>4, <2>1, SleepersLeft DEF queue_try_pop
<1>5. ASSUME NEW S \in Predicates, queue_try_pop_matching(S) PROVE Sleepers'
  <2>1. heap' = heap \/ Taken(Best(S))
    BY <1>5, MatchTakes
  <2>2. QED
    BY <1>5, <2>1, SleepersLeft DEF queue_try_pop_matching
<1>6. ASSUME NEW o \in Objects, queue_remove(Id[o]) PROVE Sleepers'
  <2>1. heap' = heap \/ \E n : Taken(n)
    BY <1>6, RemoveTakes
  <2>2. UNCHANGED <<shutdown, waiting, woken>>
    BY <1>6 DEF queue_remove
  <2>3. QED
    BY <2>1, <2>2, SleepersLeft
<1>7. ASSUME NEW p \in Poppers, queue_pop(p) PROVE Sleepers'
  <2>1. p \notin waiting \cup woken /\ PopLoop(p) /\ UNCHANGED <<shutdown, woken>>
    BY <1>7 DEF queue_pop
  <2>2. CASE heap = <<>> /\ ~shutdown /\ heap' = heap /\ waiting' = waiting \cup {p}
    <3>1. Len(heap') = 0
      BY <2>2
    <3>2. QED
      BY <1>0, <2>1, <2>2, <3>1 DEF Sleepers, NoLostWakeup
  <2>3. CASE waiting' = waiting /\ (heap' = heap \/ Taken(1))
    BY <2>1, <2>3, SleepersLeft
  <2>4. QED
    BY <2>1, <2>2, <2>3, PopLoopTakes
<1>8. ASSUME NEW p \in Poppers, queue_pop_resumes(p) PROVE Sleepers'
  <2>1. p \in woken /\ PopLoop(p) /\ woken' = woken \ {p} /\ shutdown' = shutdown
    BY <1>8 DEF queue_pop_resumes
  <2>2. CASE heap = <<>> /\ ~shutdown /\ heap' = heap /\ waiting' = waiting \cup {p}
    <3>1. Len(heap') = 0
      BY <2>2
    <3>2. Cardinality(woken') \in Nat
      BY <1>0, <2>1, QueueParameters, FS_Subset, FS_CardinalityType
    <3>3. QED
      BY <1>0, <2>1, <2>2, <3>1, <3>2 DEF Sleepers, NoLostWakeup
  <2>3. CASE heap = <<>> /\ shutdown /\ heap' = heap /\ waiting' = waiting
    BY <1>0, <1>1, <2>1, <2>3 DEF Sleepers, NoLostWakeup
  <2>4. CASE Taken(1) /\ waiting' = waiting
    <3>1. Cardinality(woken') = Cardinality(woken) - 1 /\ Len(heap') = Len(heap) - 1
      BY <2>1, <2>4, Woken DEF Taken
    <3>2. waiting # {} => ~shutdown /\ Len(heap') <= Cardinality(woken')
      BY <1>0, <1>1, <3>1
    <3>3. QED
      BY <1>0, <2>1, <2>4, <3>2 DEF Sleepers, NoLostWakeup
  <2>5. QED
    BY <2>1, <2>2, <2>3, <2>4, PopLoopTakes
<1>9. ASSUME NEW p \in Poppers, SpuriousWakeup(p) PROVE Sleepers'
  <2>1. p \in waiting /\ waiting' = waiting \ {p} /\ woken' = woken \cup {p}
        /\ heap' = heap /\ shutdown' = shutdown
    BY <1>9 DEF SpuriousWakeup
  <2>2. Cardinality(woken') = Cardinality(woken) + 1
    BY <1>0, <2>1, Woken
  <2>3. Len(heap') <= Cardinality(woken') /\ ~shutdown
    BY <1>0, <1>1, <2>1, <2>2
  <2>4. QED
    BY <1>0, <2>1, <2>3 DEF Sleepers, NoLostWakeup
<1>10. ASSUME queue_shutdown PROVE Sleepers'
  BY <1>0, <1>10 DEF queue_shutdown, Sleepers, NoLostWakeup
<1>11. ASSUME UNCHANGED vars PROVE Sleepers'
  BY <1>11, SleepersLeft DEF vars
<1>12. QED
  BY <1>2, <1>3, <1>4, <1>5, <1>6, <1>7, <1>8, <1>9, <1>10, <1>11 DEF Next

\* Heap order, distinct cells within the capacity, and sleepers that are owed
\* nothing, for every number of objects, threads and doublings.
THEOREM Invariance == Spec => []IInv
<1>1. IInv /\ [Next]_vars => IInv'
  BY KeepsArray, KeepsSleepers DEF IInv, Kept, Sleepers
<1>2. QED
  BY <1>1, InitIInv, PTL DEF Spec

\* Whatever was pushed, popped and removed, no job object is in two cells and
\* no store of queue_push is beyond the array it allocated (queue.c:102-122).
THEOREM ArrayIsSafe == Spec => []CellsWithinArray
<1>1. ASSUME IInv PROVE CellsWithinArray
  <2>1. Held = CellsOf(heap) /\ DOMAIN heap = 1..Len(heap) /\ Len(heap) \in Nat
    BY <1>1, HeldCells, Cells DEF IInv
  <2>2. heap \in [1..Len(heap) -> Held]
    <3>1. heap = [i \in 1..Len(heap) |-> heap[i]]
      BY <1>1 DEF IInv, Array
    <3>2. \A i \in 1..Len(heap) : heap[i] \in Held
      BY <2>1 DEF CellsOf
    <3>3. QED
      BY <3>1, <3>2
  <2>3. heap \in Bijection(1..Len(heap), Held)
    <3>1. \A i, j \in 1..Len(heap) : heap[i] = heap[j] => i = j
      BY <1>1 DEF IInv, Array, Distinct
    <3>2. \A x \in Held : \E i \in 1..Len(heap) : heap[i] = x
      BY <2>1 DEF CellsOf
    <3>3. QED
      BY <2>2, <3>1, <3>2 DEF Bijection, Injection, Surjection, IsInjective
  <2>4. Cardinality(Held) = Len(heap)
    BY <2>1, <2>3, FS_CountingElements DEF ExistsBijection
  <2>5. QED
    BY <1>1, <2>4 DEF IInv, CellsWithinArray
<1>2. QED
  BY <1>1, Invariance, PTL

\* The array is a heap after every call, removals from the middle included:
\* the cell that fills the hole is moved towards the root or away from it,
\* whichever it needs (queue.c:175-195).
THEOREM HeapStaysOrdered == Spec => []HeapOrder
<1>1. IInv => HeapOrder
  BY DEF IInv, Ordered, HeapOrder
<1>2. QED
  BY <1>1, Invariance, PTL

\* As long as a thread sleeps in queue_pop every queued job is owed to a
\* thread that is awake, and after queue_shutdown nobody sleeps.
THEOREM WakeupsArrive == Spec => []NoLostWakeup
BY Invariance, PTL DEF IInv

-----------------------------------------------------------------------------
(* Refinement of PriorityQueue *)

\* job_before is the lexicographic order of the abstract specification.
LEMMA SameOrder ==
  ASSUME NEW a \in Objects, NEW b \in Objects
  PROVE  Abstract!Earlier(a, b) <=> job_before(a, b)
<1> DEFINE x == Abstract!Key(a)
           y == Abstract!Key(b)
<1>1. x[1] = Priority[a] /\ x[2] = SubmittedAt[a] /\ x[3] = Id[a]
  BY DEF Abstract!Key
<1>2. y[1] = Priority[b] /\ y[2] = SubmittedAt[b] /\ y[3] = Id[b]
  BY DEF Abstract!Key
<1>3. Abstract!Earlier(a, b) <=>
        \E n \in 1..3 : x[n] < y[n] /\ \A m \in 1..(n - 1) : x[m] = y[m]
  BY DEF Abstract!Earlier
<1> HIDE DEF x, y
<1>4. /\ Priority[a] \in Int /\ SubmittedAt[a] \in Int /\ Id[a] \in Int
      /\ Priority[b] \in Int /\ SubmittedAt[b] \in Int /\ Id[b] \in Int
  BY QueueParameters
<1>5. (\E n \in 1..3 : x[n] < y[n] /\ \A m \in 1..(n - 1) : x[m] = y[m]) <=>
        \/ x[1] < y[1]
        \/ x[2] < y[2] /\ x[1] = y[1]
        \/ x[3] < y[3] /\ x[1] = y[1] /\ x[2] = y[2]
  <2>1. \A n : n \in 1..3 <=> n = 1 \/ n = 2 \/ n = 3
    OBVIOUS
  <2>2. (\A m \in 1..(1 - 1) : x[m] = y[m])
    OBVIOUS
  <2>3. (\A m \in 1..(2 - 1) : x[m] = y[m]) <=> x[1] = y[1]
    OBVIOUS
  <2>4. (\A m \in 1..(3 - 1) : x[m] = y[m]) <=> x[1] = y[1] /\ x[2] = y[2]
    OBVIOUS
  <2>5. QED
    BY <2>1, <2>2, <2>3, <2>4
<1>6. QED
  BY <1>1, <1>2, <1>3, <1>4, <1>5 DEF job_before

\* What a call that takes the cell n does to the content.
LEMMA TakenContent ==
  ASSUME IInv, NEW n, Taken(n)
  PROVE  /\ Held' = Held \ {heap[n]} /\ heap[n] \in Held /\ Held = CellsOf(heap)
         /\ Held \subseteq Objects
<1>1. Held = CellsOf(heap) /\ Held' = CellsOf(heap')
  <2>1. heap \in Seq(Objects) /\ heap' \in Seq(Objects)
    BY DEF IInv, Taken, Array
  <2>2. QED
    BY <2>1 DEF Held, CellsOf
<1>2. heap[n] \in CellsOf(heap)
  BY DEF Taken, CellsOf
<1>3. CellsOf(heap) \subseteq Objects
  BY Cells DEF IInv, CellsOf
<1>4. QED
  BY <1>1, <1>2, <1>3 DEF Taken

\* A call that takes an object no other one in S precedes.
LEMMA TakeSimulated ==
  ASSUME IInv, NEW n, Taken(n), NEW S, heap[n] \in S, shutdown' = shutdown,
         \A x \in CellsOf(heap) \cap S : ~job_before(x, heap[n]),
         NEW call, ret' = Append(call, heap[n])
  PROVE  Abstract!Take(S, call)
<1>1. /\ Held' = Held \ {heap[n]} /\ heap[n] \in Held /\ Held = CellsOf(heap)
      /\ Held \subseteq Objects
  BY TakenContent
<1>2. \A p \in Held \cap S : ~Abstract!Earlier(p, heap[n])
  BY <1>1, SameOrder
<1>3. heap[n] \in Abstract!First(Held \cap S)
  BY <1>1, <1>2 DEF Abstract!First
<1>4. QED
  BY <1>1, <1>3 DEF Abstract!Take

\* A pop, blocking or not.
LEMMA PopSimulated ==
  ASSUME IInv, Taken(1), ret' = <<"pop", heap[1]>>, shutdown' = shutdown
  PROVE  Abstract!Take(Objects, <<"pop">>)
<1>1. \A x \in CellsOf(heap) \cap Objects : ~job_before(x, heap[1])
  BY RootFirst DEF IInv, CellsOf
<1>2. heap[1] \in Objects
  BY TakenContent
<1>3. ret' = Append(<<"pop">>, heap[1])
  BY <1>2
<1>4. QED
  BY <1>1, <1>2, <1>3, TakeSimulated

\* A pop that finds the queue empty.
LEMMA EmptySimulated ==
  ASSUME IInv, heap = <<>>, heap' = heap, ret' = <<"pop">>, shutdown' = shutdown
  PROVE  Abstract!Take(Objects, <<"pop">>)
<1>1. Held = {} /\ Held' = Held
  BY DEF Held
<1>2. QED
  BY <1>1 DEF Abstract!Take

\* Every call of the queue is a call of the abstract queue; waits, wake-ups
\* and sleepers do not show.
LEMMA Simulation ==
  ASSUME IInv, [Next]_vars
  PROVE  Abstract!Next \/ UNCHANGED Abstract!vars
<1>0. heap' = heap => Held' = Held
  BY DEF Held
<1>1. ASSUME NEW o \in Objects, queue_push(o) PROVE Abstract!Next
  <2>1. Held = CellsOf(heap) /\ o \notin Held /\ ~shutdown /\ shutdown' = shutdown
        /\ ret' = <<"push", "accepted">>
    BY <1>1, HeldCells DEF IInv, queue_push
  <2>2. heap' = heap_up(Append(heap, o), Len(heap) + 1)
    BY <1>1 DEF queue_push
  <2>3. Array(heap') /\ CellsOf(heap') = CellsOf(heap) \cup {o}
    BY <2>1, <2>2, Pushed DEF IInv
  <2>4. Held' = CellsOf(heap')
    BY <2>3 DEF Array, Held, CellsOf
  <2>5. Abstract!Accept(o)
    BY <2>1, <2>3, <2>4 DEF Abstract!Accept
  <2>6. QED
    BY <2>5 DEF Abstract!Next
<1>2. ASSUME NEW o \in Objects, queue_push_fails(o) PROVE Abstract!Next
  <2>1. Abstract!Refuse
    BY <1>0, <1>2 DEF queue_push_fails, Abstract!Refuse
  <2>2. QED
    BY <2>1 DEF Abstract!Next
<1>3. ASSUME queue_try_pop PROVE Abstract!Next
  <2>1. CASE heap = <<>>
    <3>1. heap' = heap /\ ret' = <<"pop">> /\ shutdown' = shutdown
      BY <1>3, <2>1 DEF queue_try_pop
    <3>2. QED
      BY <2>1, <3>1, EmptySimulated DEF Abstract!Next
  <2>2. CASE heap # <<>>
    <3>1. PopRoot /\ shutdown' = shutdown
      BY <1>3, <2>2 DEF queue_try_pop
    <3>2. QED
      BY <2>2, <3>1, PopTakes, PopSimulated DEF Abstract!Next
  <2>3. QED
    BY <2>1, <2>2
<1>4. ASSUME NEW S \in Predicates, queue_try_pop_matching(S) PROVE Abstract!Next
  <2>1. shutdown' = shutdown
    BY <1>4 DEF queue_try_pop_matching
  <2>2. Held = CellsOf(heap)
    BY HeldCells DEF IInv
  <2>3. CASE CellsOf(heap) \cap S = {} /\ ret' = <<"match", S>> /\ heap' = heap
    <3>1. Abstract!Take(S, <<"match", S>>)
      BY <1>0, <2>1, <2>2, <2>3 DEF Abstract!Take
    <3>2. QED
      BY <3>1 DEF Abstract!Next
  <2>4. CASE /\ Taken(Best(S)) /\ ret' = <<"match", S, heap[Best(S)]>>
             /\ heap[Best(S)] \in S
             /\ \A x \in CellsOf(heap) \cap S : ~job_before(x, heap[Best(S)])
    <3> DEFINE b == Best(S)
    <3>1. ret' = Append(<<"match", S>>, heap[b])
      BY <2>4
    <3>2. Abstract!Take(S, <<"match", S>>)
      BY <2>1, <2>4, <3>1, TakeSimulated
    <3>3. QED
      BY <3>2 DEF Abstract!Next
  <2>5. QED
    BY <1>4, <2>3, <2>4, MatchTakes
<1>5. ASSUME NEW o \in Objects, queue_remove(Id[o]) PROVE Abstract!Next
  <2>1. shutdown' = shutdown
    BY <1>5 DEF queue_remove
  <2>2. Held = CellsOf(heap)
    BY HeldCells DEF IInv
  <2>3. CASE (\A x \in CellsOf(heap) : Id[x] # Id[o]) /\ ret' = <<"remove", Id[o]>>
             /\ heap' = heap
    <3>1. Abstract!Withdraw(Id[o])
      BY <1>0, <2>1, <2>2, <2>3 DEF Abstract!Withdraw
    <3>2. QED
      BY <3>1 DEF Abstract!Next
  <2>4. ASSUME NEW n \in 1..Len(heap), Taken(n), Id[heap[n]] = Id[o],
               ret' = <<"remove", Id[o], heap[n]>>
        PROVE  Abstract!Next
    <3>1. Held' = Held \ {heap[n]} /\ heap[n] \in Held
      BY <2>4, TakenContent
    <3>2. Abstract!Withdraw(Id[o])
      BY <2>1, <2>4, <3>1 DEF Abstract!Withdraw
    <3>3. QED
      BY <3>2 DEF Abstract!Next
  <2>5. QED
    BY <1>5, <2>3, <2>4, RemoveTakes
<1>6. ASSUME NEW p \in Poppers, queue_pop(p) \/ queue_pop_resumes(p)
      PROVE  Abstract!Next \/ UNCHANGED Abstract!vars
  <2>1. shutdown' = shutdown /\ PopLoop(p)
    BY <1>6 DEF queue_pop, queue_pop_resumes
  <2>2. CASE heap' = heap /\ ret' = ret
    BY <1>0, <2>1, <2>2 DEF Abstract!vars
  <2>3. CASE heap = <<>> /\ heap' = heap /\ ret' = <<"pop">>
    BY <2>1, <2>3, EmptySimulated DEF Abstract!Next
  <2>4. CASE Taken(1) /\ ret' = <<"pop", heap[1]>>
    BY <2>1, <2>4, PopSimulated DEF Abstract!Next
  <2>5. QED
    BY <2>1, <2>2, <2>3, <2>4, PopLoopTakes
<1>7. ASSUME NEW p \in Poppers, SpuriousWakeup(p) PROVE UNCHANGED Abstract!vars
  BY <1>0, <1>7 DEF SpuriousWakeup, Abstract!vars
<1>8. ASSUME queue_shutdown PROVE Abstract!Next
  <2>1. Abstract!Close
    BY <1>0, <1>8 DEF queue_shutdown, Abstract!Close
  <2>2. QED
    BY <2>1 DEF Abstract!Next
<1>9. ASSUME UNCHANGED vars PROVE UNCHANGED Abstract!vars
  BY <1>0, <1>9 DEF vars, Abstract!vars
<1>10. QED
  BY <1>1, <1>2, <1>3, <1>4, <1>5, <1>6, <1>7, <1>8, <1>9 DEF Next

(***************************************************************************)
(* The queue is a priority queue, for any number of jobs of any keys: each *)
(* call returns an object no eligible one precedes, and loses or           *)
(* duplicates none, also when it takes the object from the middle of the   *)
(* heap (queue.c:148-200).                                                 *)
(***************************************************************************)
THEOREM QueueIsPriorityQueue == Spec => ImplementsPriorityQueue
<1>1. Init => Abstract!Init
  BY DEF Init, Abstract!Init, Held
<1>2. IInv /\ [Next]_vars => [Abstract!Next]_(Abstract!vars)
  BY Simulation
<1>3. QED
  BY <1>1, <1>2, Invariance, PTL DEF Spec, ImplementsPriorityQueue, Abstract!Spec
=============================================================================
