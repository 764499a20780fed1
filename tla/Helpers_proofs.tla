---------------------------- MODULE Helpers_proofs ----------------------------
(***************************************************************************)
(* Proofs about Helpers: the list of the tracker knows the heap for any    *)
(* blocks; the two recorders are right for buffers of any size, texts of   *)
(* any length and any number of records; the hash does not depend on how   *)
(* its message is cut; bytes print apart, and texts of any length are cut  *)
(* after their last complete character.                                    *)
(***************************************************************************)
EXTENDS Helpers, FiniteSetTheorems, SequenceTheorems, WellFoundedInduction, TLAPS

(* Induction over the natural numbers, with a set for the property, for no *)
(* prover instantiates an operator.                                        *)
LEMMA NatSetInduction ==
  ASSUME NEW S, 0 \in S, \A n \in Nat : n \in S => n + 1 \in S
  PROVE  \A n \in Nat : n \in S
<1> DEFINE T == {n \in Nat : n \notin S}
           R == OpToRel(<, Nat)
<1> SUFFICES ASSUME T # {} PROVE FALSE
  OBVIOUS
<1>1. PICK m \in T : \A k \in T : <<k, m>> \notin R
  <2>1. T \subseteq Nat
    OBVIOUS
  <2> HIDE DEF T, R
  <2> QED
    BY <2>1, WFMin, NatLessThanWellFounded DEF R
<1>2. m \in Nat /\ m # 0
  OBVIOUS
<1>3. m - 1 \in Nat /\ m - 1 < m /\ (m - 1) + 1 = m
  BY <1>2
<1>4. m - 1 \in T
  BY <1>3
<1>5. <<m - 1, m>> \in R
  BY <1>2, <1>3 DEF OpToRel
<1> QED
  BY <1>1, <1>4, <1>5

(***************************************************************************)
(* The list of the tracker.  It is in order if its records can be numbered *)
(* along next and against prev, if they describe exactly the blocks that   *)
(* were handed out, each one of them, and no other record is in use.  The  *)
(* tail is the last record, or lost.                                       *)
(***************************************************************************)
InOrder(n, order) ==
  /\ alloc_head = IF n = 0 THEN Null ELSE order[1]
  /\ alloc_tail = Null \/ (n > 0 /\ alloc_tail = order[n])
  /\ \A k \in 1 .. n : next[order[k]] = IF k = n THEN Null ELSE order[k + 1]
  /\ \A k \in 1 .. n : prev[order[k]] = IF k = 1 THEN Null ELSE order[k - 1]
  /\ \A k, l \in 1 .. n : allocation[order[k]] = allocation[order[l]] => k = l
  /\ \A e \in Entries : allocation[e] # Null <=> \E k \in 1 .. n : order[k] = e
  /\ heap = {allocation[order[k]] : k \in 1 .. n}

(* Walking along next, one visits the records in order.                    *)
LEMMA NthUnfolds ==
  ASSUME NEW n \in Nat, NEW order \in [1 .. n -> Entries], InOrder(n, order)
  PROVE  \A k \in Nat : Nth[k] = IF k < n THEN order[k + 1] ELSE Null
<1> DEFINE h == [k \in Nat |-> IF k < n THEN order[k + 1] ELSE Null]
           Rec(f) == [k \in Nat |-> IF k = 0 THEN alloc_head
                                    ELSE IF f[k - 1] = Null THEN Null ELSE next[f[k - 1]]]
<1>1. h = Rec(h)
  <2>1. ASSUME NEW k \in Nat
        PROVE  h[k] = IF k = 0 THEN alloc_head
                      ELSE IF h[k - 1] = Null THEN Null ELSE next[h[k - 1]]
    <3>1. CASE k = 0
      BY <3>1 DEF InOrder
    <3>2. CASE k # 0 /\ k - 1 < n
      <4>1. k - 1 \in Nat /\ k \in 1 .. n /\ h[k - 1] = order[k] /\ order[k] \in Entries
        BY <3>2
      <4>2. h[k - 1] # Null
        BY <4>1, AddressAssumption
      <4>3. next[order[k]] = IF k = n THEN Null ELSE order[k + 1]
        BY <4>1 DEF InOrder
      <4> QED
        BY <3>2, <4>1, <4>2, <4>3
    <3>3. CASE k # 0 /\ ~(k - 1 < n)
      BY <3>3
    <3> QED
      BY <3>1, <3>2, <3>3
  <2>2. h = [k \in Nat |-> h[k]]
    OBVIOUS
  <2> HIDE DEF h
  <2> QED
    BY <2>1, <2>2
<1>2. Nth = Rec(Nth)
  <2>1. \E f : f = Rec(f)
    BY <1>1
  <2>2. Nth = CHOOSE f : f = Rec(f)
    BY DEF Nth
  <2> HIDE DEF Rec
  <2> QED
    BY <2>1, <2>2, Zenon
<1> DEFINE S == {k \in Nat : Nth[k] = h[k]}
<1>3. ASSUME NEW k \in Nat
      PROVE  Nth[k] = IF k = 0 THEN alloc_head
                      ELSE IF Nth[k - 1] = Null THEN Null ELSE next[Nth[k - 1]]
  <2> DEFINE g == Nth
  <2>1. g = Rec(g)
    BY <1>2
  <2> HIDE DEF g
  <2>2. g[k] = IF k = 0 THEN alloc_head
                      ELSE IF g[k - 1] = Null THEN Null ELSE next[g[k - 1]]
    BY <2>1
  <2> QED
    BY <2>2 DEF g
<1>4. ASSUME NEW k \in Nat
      PROVE  h[k] = IF k = 0 THEN alloc_head
                    ELSE IF h[k - 1] = Null THEN Null ELSE next[h[k - 1]]
  <2> HIDE DEF h
  <2> QED BY <1>1
<1> HIDE DEF h
<1>5. 0 \in S
  BY <1>3, <1>4
<1>6. ASSUME NEW k \in Nat, k \in S PROVE k + 1 \in S
  BY <1>3, <1>4, <1>6, k + 1 \in Nat, k + 1 # 0, (k + 1) - 1 = k
<1>7. \A k \in Nat : k \in S
  <2> HIDE DEF S
  <2> QED
    BY <1>5, <1>6, NatSetInduction
<1> QED
  BY <1>7 DEF h

(* A numbering of the list has no more numbers than there are records.     *)
LEMMA OrderIsShort ==
  ASSUME NEW n \in Nat, NEW order \in [1 .. n -> Entries], InOrder(n, order)
  PROVE  n <= Cardinality(Entries) /\ Cardinality(Entries) \in Nat
<1>1. order \in Injection(1 .. n, Entries)
  BY DEF InOrder, Injection, IsInjective
<1>2. IsFiniteSet(Entries)
  BY AddressAssumption
<1>3. Cardinality(1 .. n) <= Cardinality(Entries)
  <2> HIDE DEF InOrder
  <2> QED
    BY <1>1, <1>2, FS_Injection, Zenon
<1>4. Cardinality(1 .. n) = n
  BY FS_Interval
<1> QED
  BY <1>2, <1>3, <1>4, FS_CardinalityType

(* find_allocation() and tracking_report() see all of them.                *)
LEMMA ListedIsOrder ==
  ASSUME NEW n \in Nat, NEW order \in [1 .. n -> Entries], InOrder(n, order)
  PROVE  Listed = {order[k] : k \in 1 .. n}
<1>1. \A k \in Nat : Nth[k] = IF k < n THEN order[k + 1] ELSE Null
  BY NthUnfolds
<1>2. n <= Cardinality(Entries) /\ Cardinality(Entries) \in Nat
  BY OrderIsShort
<1>3. \A k \in 1 .. n : order[k] # Null
  BY AddressAssumption
<1>4. ASSUME NEW k \in 1 .. n PROVE order[k] \in Listed
  <2>1. k - 1 \in 0 .. Cardinality(Entries) /\ k - 1 \in Nat /\ k - 1 < n /\ (k - 1) + 1 = k
    BY <1>2
  <2>2. Nth[k - 1] = order[k]
    BY <1>1, <2>1
  <2> QED
    BY <1>3, <2>1, <2>2 DEF Listed
<1>5. ASSUME NEW x \in Listed PROVE \E k \in 1 .. n : x = order[k]
  <2>1. PICK k \in 0 .. Cardinality(Entries) : x = Nth[k] /\ x # Null
    BY DEF Listed
  <2>2. k \in Nat /\ k < n
    BY <1>1, <1>2, <2>1
  <2>3. x = order[k + 1] /\ k + 1 \in 1 .. n
    BY <1>1, <2>1, <2>2
  <2> QED
    BY <2>3
<1> QED
  BY <1>4, <1>5

(* A list with such a numbering describes the blocks of the heap.          *)
LEMMA OrderTracksHeap ==
  ASSUME NEW n \in Nat, NEW order \in [1 .. n -> Entries], InOrder(n, order)
  PROVE  Tracked = heap
<1>1. Listed = {order[k] : k \in 1 .. n}
  BY ListedIsOrder
<1> QED
  BY <1>1 DEF Tracked, InOrder

(* A record that is added at the tail is the last one from then on.        *)
LEMMA AddKeepsOrder ==
  ASSUME TypeOK, NEW n \in Nat, NEW order \in [1 .. n -> Entries], InOrder(n, order),
         NEW e \in Entries, NEW b \in Blocks, b \notin heap,
         AddEntry(e, b), heap' = heap \union {b}, ~crashed, ~crashed',
         NEW longer, longer = [k \in 1 .. n + 1 |-> IF k = n + 1 THEN e ELSE order[k]]
  PROVE  InOrder(n + 1, longer)'
<1>1. /\ \A k \in 1 .. n : longer[k] = order[k] /\ order[k] \in Entries /\ order[k] # e
      /\ longer[n + 1] = e /\ allocation[e] = Null
      /\ \A k \in 1 .. n + 1 : k \in 1 .. n \/ k = n + 1
  BY DEF InOrder, AddEntry, Unused
<1>2. alloc_head = Null <=> n = 0
  BY AddressAssumption DEF InOrder
<1>3. n # 0 => alloc_tail = order[n]
  BY <1>2 DEF InOrder, AddEntry
<1>4. /\ allocation' = [allocation EXCEPT ![e] = b]
      /\ alloc_head' = IF n = 0 THEN e ELSE alloc_head
      /\ alloc_tail' = e
      /\ prev' = [prev EXCEPT ![e] = IF n = 0 THEN Null ELSE order[n]]
      /\ next' = IF n = 0 THEN [next EXCEPT ![e] = Null]
                 ELSE [next EXCEPT ![e] = Null, ![order[n]] = e]
  BY <1>2, <1>3 DEF AddEntry
<1>5. alloc_head' = longer[1] /\ alloc_tail' = longer[n + 1]
  BY <1>1, <1>4 DEF InOrder
<1>6. ASSUME NEW k \in 1 .. n + 1
      PROVE  next'[longer[k]] = IF k = n + 1 THEN Null ELSE longer[k + 1]
  <2>1. CASE k = n + 1
    BY <1>1, <1>4, <2>1 DEF TypeOK
  <2>2. CASE k = n
    <3>1. order[n] # e /\ order[n] \in Entries /\ n # 0 /\ longer[k] = order[n] /\ longer[k + 1] = e
      BY <1>1, <2>2
    <3> QED
      BY <1>4, <2>2, <3>1 DEF TypeOK
  <2>3. CASE k # n + 1 /\ k # n
    <3>1. k \in 1 .. n /\ k + 1 \in 1 .. n /\ n \in 1 .. n /\ n # 0
      BY <2>3
    <3>2. next[order[k]] = order[k + 1] /\ order[k] # order[n]
      BY <2>3, <3>1 DEF InOrder
    <3>3. next'[order[k]] = next[order[k]]
      BY <1>1, <1>4, <3>1, <3>2 DEF TypeOK
    <3> QED
      BY <1>1, <2>3, <3>1, <3>2, <3>3
  <2> QED
    BY <2>1, <2>2, <2>3
<1>7. ASSUME NEW k \in 1 .. n + 1
      PROVE  prev'[longer[k]] = IF k = 1 THEN Null ELSE longer[k - 1]
  <2>1. CASE k = n + 1
    <3>1. n # 0 => longer[k - 1] = order[n]
      BY <2>1
    <3> QED
      BY <1>1, <1>4, <2>1, <3>1 DEF TypeOK
  <2>2. CASE k \in 1 .. n
    <3>1. prev'[order[k]] = prev[order[k]]
      BY <1>1, <1>4, <2>2 DEF TypeOK
    <3>2. k # 1 => longer[k - 1] = order[k - 1]
      BY <2>2
    <3> QED
      BY <1>1, <2>2, <3>1, <3>2 DEF InOrder
  <2> QED
    BY <2>1, <2>2
<1>8. /\ \A k \in 1 .. n :
           allocation'[longer[k]] = allocation[order[k]] /\ allocation[order[k]] \in heap
      /\ allocation'[longer[n + 1]] = b
  BY <1>1, <1>4 DEF TypeOK, InOrder
<1>9. ASSUME NEW k \in 1 .. n + 1, NEW l \in 1 .. n + 1,
             allocation'[longer[k]] = allocation'[longer[l]]
      PROVE  k = l
  <2>1. \A x, y \in 1 .. n : allocation[order[x]] = allocation[order[y]] => x = y
    BY DEF InOrder
  <2>2. CASE k \in 1 .. n /\ l \in 1 .. n
    BY <1>8, <1>9, <2>1, <2>2
  <2>3. CASE k = n + 1 /\ l \in 1 .. n
    BY <1>8, <1>9, <2>3
  <2>4. CASE l = n + 1 /\ k \in 1 .. n
    BY <1>8, <1>9, <2>4
  <2> QED
    BY <2>2, <2>3, <2>4
<1>10. ASSUME NEW x \in Entries
       PROVE  allocation'[x] # Null <=> \E k \in 1 .. n + 1 : longer[k] = x
  <2>1. CASE x = e
    BY <1>1, <1>4, <2>1, AddressAssumption DEF TypeOK
  <2>2. CASE x # e
    <3>1. allocation'[x] = allocation[x]
      BY <1>4, <2>2 DEF TypeOK
    <3> QED
      BY <1>1, <2>2, <3>1 DEF InOrder
  <2> QED
    BY <2>1, <2>2
<1>11. heap' = {allocation'[longer[k]] : k \in 1 .. n + 1}
  <2>1. heap = {allocation[order[k]] : k \in 1 .. n}
    BY DEF InOrder
  <2>2. ASSUME NEW y \in heap' PROVE \E k \in 1 .. n + 1 : y = allocation'[longer[k]]
    <3>1. CASE y = b
      BY <1>8, <3>1, n + 1 \in 1 .. n + 1
    <3>2. CASE y # b
      <4>1. PICK k \in 1 .. n : y = allocation[order[k]]
        BY <2>1, <2>2, <3>2
      <4> QED
        BY <1>8, <4>1, k \in 1 .. n + 1
    <3> QED
      BY <3>1, <3>2
  <2>3. \A k \in 1 .. n + 1 : allocation'[longer[k]] \in heap'
    BY <1>1, <1>8
  <2> QED
    BY <2>2, <2>3
<1> QED
  BY <1>5, <1>6, <1>7, <1>9, <1>10, <1>11 DEF InOrder

(* A record that is taken out leaves the others in their order, and only   *)
(* the last one takes the tail along.                                      *)
LEMMA UnlinkKeepsOrder ==
  ASSUME TypeOK, NEW n \in Nat, NEW order \in [1 .. n -> Entries], InOrder(n, order),
         NEW j \in 1 .. n, Unlink(order[j]), heap' = heap \ {allocation[order[j]]},
         NEW shorter,
         shorter = [k \in 1 .. n - 1 |-> IF k < j THEN order[k] ELSE order[k + 1]]
  PROVE  InOrder(n - 1, shorter)'
<1> DEFINE e == order[j]
           at == [k \in 1 .. n - 1 |-> IF k < j THEN k ELSE k + 1]
<1>1. \A k \in 1 .. n - 1 : at[k] \in 1 .. n /\ at[k] # j /\ shorter[k] = order[at[k]]
  OBVIOUS
<1>2. \A k, l \in 1 .. n : order[k] = order[l] => k = l
  BY DEF InOrder
<1>3. /\ \A k \in 1 .. n : order[k] \in Entries /\ order[k] # Null
      /\ prev[e] = IF j = 1 THEN Null ELSE order[j - 1]
      /\ next[e] = IF j = n THEN Null ELSE order[j + 1]
  <2>1. \A k \in 1 .. n : order[k] \in Entries /\ order[k] # Null
    BY AddressAssumption
  <2> QED
    BY <2>1 DEF InOrder
<1>4. /\ next' = IF j = 1 THEN next ELSE [next EXCEPT ![order[j - 1]] = next[e]]
      /\ prev' = IF j = n THEN prev ELSE [prev EXCEPT ![order[j + 1]] = prev[e]]
      /\ alloc_head' = IF j = 1 THEN next[e] ELSE alloc_head
      /\ alloc_tail' = IF j = n THEN Null ELSE alloc_tail
      /\ allocation' = [allocation EXCEPT ![e] = Null]
  <2>1. (prev[e] = Null <=> j = 1) /\ (next[e] = Null <=> j = n)
    BY <1>3
  <2> QED
    BY <1>3, <2>1 DEF Unlink
<1>5. alloc_head' = IF n - 1 = 0 THEN Null ELSE shorter[1]
  BY <1>3, <1>4 DEF InOrder
<1>6. alloc_tail' = Null \/ (n - 1 > 0 /\ alloc_tail' = shorter[n - 1])
  BY <1>3, <1>4 DEF InOrder
<1>7. ASSUME NEW k \in 1 .. n - 1
      PROVE  next'[shorter[k]] = IF k = n - 1 THEN Null ELSE shorter[k + 1]
  <2>1. CASE k = j - 1
    <3>1. shorter[k] = order[j - 1] /\ j # 1 /\ j - 1 \in 1 .. n
      BY <2>1
    <3>2. next'[shorter[k]] = next[e]
      BY <1>3, <1>4, <3>1 DEF TypeOK
    <3>3. k = n - 1 <=> j = n
      BY <2>1
    <3>4. k # n - 1 => shorter[k + 1] = order[j + 1]
      BY <2>1
    <3> QED
      BY <1>3, <3>2, <3>3, <3>4
  <2>2. CASE k # j - 1
    <3>1. at[k] \in 1 .. n /\ shorter[k] = order[at[k]] /\ (j # 1 => order[at[k]] # order[j - 1])
      <4>1. at[k] # j - 1
        BY <2>2
      <4> QED
        BY <1>1, <1>2, <4>1
    <3>2. next'[shorter[k]] = next[order[at[k]]]
      <4>1. j # 1 => j - 1 \in 1 .. n
        OBVIOUS
      <4> HIDE DEF at
      <4> QED
        BY <1>3, <1>4, <3>1, <4>1 DEF TypeOK
    <3>3. next[order[at[k]]] = IF at[k] = n THEN Null ELSE order[at[k] + 1]
      BY <3>1 DEF InOrder
    <3>4. at[k] = n <=> k = n - 1
      BY <2>2
    <3>5. k # n - 1 => shorter[k + 1] = order[at[k] + 1]
      BY <2>2
    <3> QED
      BY <3>2, <3>3, <3>4, <3>5
  <2> QED
    BY <2>1, <2>2
<1>8. ASSUME NEW k \in 1 .. n - 1
      PROVE  prev'[shorter[k]] = IF k = 1 THEN Null ELSE shorter[k - 1]
  <2>1. CASE k = j
    <3>1. shorter[k] = order[j + 1] /\ j # n /\ j + 1 \in 1 .. n
      BY <2>1
    <3>2. prev'[shorter[k]] = prev[e]
      BY <1>3, <1>4, <3>1 DEF TypeOK
    <3>3. k # 1 => shorter[k - 1] = order[j - 1]
      BY <2>1
    <3> QED
      BY <1>3, <2>1, <3>2, <3>3
  <2>2. CASE k # j
    <3>1. at[k] \in 1 .. n /\ shorter[k] = order[at[k]] /\ (j # n => order[at[k]] # order[j + 1])
      <4>1. at[k] # j + 1
        BY <2>2
      <4>2. j # n => j + 1 \in 1 .. n
        OBVIOUS
      <4> QED
        BY <1>1, <1>2, <4>1, <4>2
    <3>2. prev'[shorter[k]] = prev[order[at[k]]]
      <4>1. j # n => j + 1 \in 1 .. n
        OBVIOUS
      <4> HIDE DEF at
      <4> QED
        BY <1>3, <1>4, <3>1, <4>1 DEF TypeOK
    <3>3. prev[order[at[k]]] = IF at[k] = 1 THEN Null ELSE order[at[k] - 1]
      BY <3>1 DEF InOrder
    <3>4. at[k] = 1 <=> k = 1
      BY <2>2
    <3>5. k # 1 => shorter[k - 1] = order[at[k] - 1]
      BY <2>2
    <3> QED
      BY <3>2, <3>3, <3>4, <3>5
  <2> QED
    BY <2>1, <2>2
<1>9. \A k \in 1 .. n - 1 : allocation'[shorter[k]] = allocation[order[at[k]]]
  <2> HIDE DEF at
  <2> QED
    BY <1>1, <1>2, <1>3, <1>4 DEF TypeOK
<1>10. ASSUME NEW k \in 1 .. n - 1, NEW l \in 1 .. n - 1,
              allocation'[shorter[k]] = allocation'[shorter[l]]
       PROVE  k = l
  <2>1. at[k] = at[l]
    <3>1. \A x, y \in 1 .. n : allocation[order[x]] = allocation[order[y]] => x = y
      BY DEF InOrder
    <3> HIDE DEF at
    <3>2. at[k] \in 1 .. n /\ at[l] \in 1 .. n
      BY <1>1
    <3>3. allocation[order[at[k]]] = allocation[order[at[l]]]
      BY <1>9, <1>10
    <3> QED
      BY <3>1, <3>2, <3>3
  <2> QED
    BY <2>1
<1>11. ASSUME NEW m \in 1 .. n, m # j
       PROVE  \E k \in 1 .. n - 1 : at[k] = m
  <2>1. CASE m < j
    <3>1. m \in 1 .. n - 1 /\ at[m] = m
      BY <2>1
    <3> QED
      BY <3>1
  <2>2. CASE m > j
    <3>1. m - 1 \in 1 .. n - 1 /\ at[m - 1] = m
      BY <2>2
    <3> QED
      BY <3>1
  <2> QED
    BY <1>11, <2>1, <2>2
<1>12. ASSUME NEW x \in Entries
       PROVE  allocation'[x] # Null <=> \E k \in 1 .. n - 1 : shorter[k] = x
  <2> HIDE DEF at
  <2>1. CASE x = e
    BY <1>1, <1>2, <1>4, <2>1 DEF TypeOK
  <2>2. CASE x # e
    <3>1. allocation'[x] = allocation[x]
      BY <1>4, <2>2 DEF TypeOK
    <3>2. allocation[x] # Null <=> \E m \in 1 .. n : order[m] = x
      BY DEF InOrder
    <3>3. ASSUME NEW k \in 1 .. n - 1, shorter[k] = x PROVE \E m \in 1 .. n : order[m] = x
      BY <1>1, <3>3
    <3>4. ASSUME NEW m \in 1 .. n, order[m] = x PROVE \E k \in 1 .. n - 1 : shorter[k] = x
      <4>1. m # j
        BY <2>2, <3>4
      <4>2. PICK k \in 1 .. n - 1 : at[k] = m
        BY <1>11, <4>1
      <4> QED
        BY <1>1, <3>4, <4>2
    <3> QED
      BY <3>1, <3>2, <3>3, <3>4
  <2> QED
    BY <2>1, <2>2
<1>13. heap' = {allocation'[shorter[k]] : k \in 1 .. n - 1}
  <2>1. heap = {allocation[order[k]] : k \in 1 .. n}
    BY DEF InOrder
  <2>2. \A m \in 1 .. n : allocation[order[m]] = allocation[e] <=> m = j
    BY DEF InOrder
  <2> HIDE DEF at
  <2>3. ASSUME NEW y \in heap' PROVE \E k \in 1 .. n - 1 : y = allocation'[shorter[k]]
    <3>1. PICK m \in 1 .. n : y = allocation[order[m]] /\ m # j
      BY <2>1, <2>3
    <3>2. PICK k \in 1 .. n - 1 : at[k] = m
      BY <1>11, <3>1
    <3> QED
      BY <1>9, <3>1, <3>2
  <2>4. ASSUME NEW k \in 1 .. n - 1 PROVE allocation'[shorter[k]] \in heap'
    <3>1. at[k] \in 1 .. n /\ at[k] # j
      BY <1>1
    <3> QED
      BY <1>9, <2>1, <2>2, <3>1
  <2>5. heap' \subseteq {allocation'[shorter[k]] : k \in 1 .. n - 1}
    BY <2>3
  <2>6. {allocation'[shorter[k]] : k \in 1 .. n - 1} \subseteq heap'
    BY <2>4
  <2> QED
    BY <2>5, <2>6, Zenon
<1> HIDE DEF at
<1> QED
  BY <1>5, <1>6, <1>7, <1>8, <1>10, <1>12, <1>13 DEF InOrder

(* A block that moves keeps its record.                                    *)
LEMMA MoveKeepsOrder ==
  ASSUME TypeOK, NEW n \in Nat, NEW order \in [1 .. n -> Entries], InOrder(n, order),
         NEW j \in 1 .. n, NEW c \in Blocks, c \notin heap \ {allocation[order[j]]},
         allocation' = [allocation EXCEPT ![order[j]] = c],
         heap' = (heap \ {allocation[order[j]]}) \union {c},
         UNCHANGED <<alloc_head, alloc_tail, next, prev>>
  PROVE  InOrder(n, order)'
<1>1. /\ \A k \in 1 .. n : order[k] \in Entries /\ (order[k] = order[j] => k = j)
      /\ heap = {allocation[order[k]] : k \in 1 .. n}
      /\ \A k, l \in 1 .. n : allocation[order[k]] = allocation[order[l]] => k = l
  BY DEF InOrder
<1>2. \A k \in 1 .. n : allocation'[order[k]] = IF k = j THEN c ELSE allocation[order[k]]
  BY <1>1 DEF TypeOK
<1>3. \A k \in 1 .. n : k # j => allocation[order[k]] \in heap \ {allocation[order[j]]}
  BY <1>1
<1>4. \A k, l \in 1 .. n : allocation'[order[k]] = allocation'[order[l]] => k = l
  BY <1>1, <1>2, <1>3
<1>5. heap' = {allocation'[order[k]] : k \in 1 .. n}
  BY <1>1, <1>2, <1>3
<1>6. \A x \in Entries : allocation'[x] # Null <=> \E k \in 1 .. n : order[k] = x
  <2>1. c # Null
    BY AddressAssumption
  <2> QED
    BY <2>1 DEF InOrder, TypeOK
<1> QED
  BY <1>4, <1>5, <1>6 DEF InOrder

(* The inductive invariant: after a crash the list may be anything.        *)
Ordered == \E n \in Nat : \E order \in [1 .. n -> Entries] : InOrder(n, order)

ListInv ==
  /\ TypeOK
  /\ heap \intersect foreign = {}
  /\ ~crashed => Ordered

(* An added record leaves the types as they are.                           *)
LEMMA AddKeepsType ==
  ASSUME TypeOK, NEW e \in Entries, NEW b \in Blocks, AddEntry(e, b)
  PROVE  /\ alloc_head' \in MaybeEntry /\ alloc_tail' \in MaybeEntry
         /\ next' \in [Entries -> MaybeEntry] /\ prev' \in [Entries -> MaybeEntry]
         /\ allocation' \in [Entries -> Blocks \union {Null}]
         /\ crashed' \in BOOLEAN
<1>1. CASE alloc_head # Null /\ alloc_tail = Null
  BY <1>1 DEF TypeOK, AddEntry, list
<1>2. CASE ~(alloc_head # Null /\ alloc_tail = Null)
  BY <1>2 DEF TypeOK, AddEntry, MaybeEntry
<1> QED
  BY <1>1, <1>2

(* Adding a record for a new block keeps the list in order.                *)
LEMMA AddKeepsList ==
  ASSUME ListInv, NEW e \in Entries, NEW b \in Blocks, b \notin heap, ~crashed,
         AddEntry(e, b), heap' = heap \union {b}, foreign' \subseteq foreign \ {b}
  PROVE  ListInv'
<1>1. TypeOK'
  BY AddKeepsType DEF ListInv, TypeOK
<1>2. heap' \intersect foreign' = {}
  BY DEF ListInv
<1>3. ASSUME ~crashed' PROVE Ordered'
  <2>1. PICK n \in Nat : \E order \in [1 .. n -> Entries] : InOrder(n, order)
    BY DEF ListInv, Ordered
  <2>2. PICK order \in [1 .. n -> Entries] : InOrder(n, order)
    BY <2>1
  <2>3. \E longer : longer = [k \in 1 .. n + 1 |-> IF k = n + 1 THEN e ELSE order[k]]
    OBVIOUS
  <2>4. PICK longer : longer = [k \in 1 .. n + 1 |-> IF k = n + 1 THEN e ELSE order[k]]
    BY <2>3
  <2>5. longer \in [1 .. n + 1 -> Entries] /\ n + 1 \in Nat
    BY <2>4
  <2>6. InOrder(n + 1, longer)'
    BY <1>3, <2>2, <2>4, AddKeepsOrder DEF ListInv
  <2> QED
    BY <2>5, <2>6 DEF Ordered
<1> QED
  BY <1>1, <1>2, <1>3 DEF ListInv

(* So does tracking_malloc(), with or without memory.                      *)
LEMMA MallocKeepsList ==
  ASSUME ListInv, NEW e \in Entries, NEW b \in Blocks, Malloc(e, b)
  PROVE  ListInv'
BY AddKeepsList DEF Malloc

(* So does tracking_realloc() of a block that is not on the list.          *)
LEMMA ReallocForeignKeepsList ==
  ASSUME ListInv, NEW e \in Entries, NEW b \in Blocks, NEW c \in Blocks,
         ReallocForeign(e, b, c)
  PROVE  ListInv'
<1>1. c \notin heap /\ foreign' \subseteq foreign \ {c}
  BY DEF ReallocForeign, ListInv
<1> QED
  BY <1>1, AddKeepsList DEF ReallocForeign

(* The record that describes a block.                                      *)
LEMMA FindsOne ==
  ASSUME NEW n \in Nat, NEW order \in [1 .. n -> Entries], InOrder(n, order),
         NEW b, NEW e \in Find(b)
  PROVE  \E j \in 1 .. n : e = order[j] /\ allocation[order[j]] = b
<1>1. Listed = {order[k] : k \in 1 .. n}
  BY ListedIsOrder
<1> QED
  BY <1>1 DEF Find

(* So does tracking_free(), wherever the record is.                        *)
LEMMA FreeKeepsList ==
  ASSUME ListInv, NEW b \in Blocks, Free(b)
  PROVE  ListInv'
<1>1. PICK e \in Find(b) : Unlink(e)
  BY DEF Free
<1>2. PICK n \in Nat : \E order \in [1 .. n -> Entries] : InOrder(n, order)
  BY DEF ListInv, Ordered, Free
<1>3. PICK order \in [1 .. n -> Entries] : InOrder(n, order)
  BY <1>2
<1>4. PICK j \in 1 .. n : e = order[j] /\ allocation[order[j]] = b
  BY <1>3, FindsOne
<1>5. PICK shorter : shorter = [k \in 1 .. n - 1 |-> IF k < j THEN order[k] ELSE order[k + 1]]
  <2>1. \E shorter : shorter = [k \in 1 .. n - 1 |-> IF k < j THEN order[k] ELSE order[k + 1]]
    OBVIOUS
  <2> QED
    BY <2>1
<1>6. shorter \in [1 .. n - 1 -> Entries] /\ n - 1 \in Nat
  BY <1>5
<1>7. InOrder(n - 1, shorter)'
  BY <1>1, <1>3, <1>4, <1>5, UnlinkKeepsOrder DEF Free, ListInv
<1>8. Ordered'
  BY <1>6, <1>7 DEF Ordered
<1>9. TypeOK'
  <2>1. e \in Entries
    BY <1>4
  <2> QED
    BY <1>1, <2>1 DEF Unlink, Free, TypeOK, ListInv, MaybeEntry
<1> QED
  BY <1>8, <1>9 DEF ListInv, Free

(* So does tracking_realloc() of a block on the list, moved or not.        *)
LEMMA ReallocKeepsList ==
  ASSUME ListInv, NEW b \in Blocks, NEW c \in Blocks, Realloc(b, c)
  PROVE  ListInv'
<1>1. PICK e \in Find(b) : allocation' = [allocation EXCEPT ![e] = c]
  BY DEF Realloc
<1>2. PICK n \in Nat : \E order \in [1 .. n -> Entries] : InOrder(n, order)
  BY DEF ListInv, Ordered, Realloc
<1>3. PICK order \in [1 .. n -> Entries] : InOrder(n, order)
  BY <1>2
<1>4. PICK j \in 1 .. n : e = order[j] /\ allocation[order[j]] = b
  BY <1>3, FindsOne
<1>5. InOrder(n, order)'
  <2>1. c \notin heap \ {b}
    BY DEF Realloc
  <2> QED
    BY <1>1, <1>3, <1>4, <2>1, MoveKeepsOrder DEF Realloc, ListInv
<1>6. Ordered'
  BY <1>5 DEF Ordered
<1>7. TypeOK'
  BY <1>1, <1>4 DEF Realloc, TypeOK, ListInv
<1>8. heap' \intersect foreign' = {}
  BY DEF Realloc, ListInv
<1> QED
  BY <1>6, <1>7, <1>8 DEF ListInv

(* The order of the list depends on these variables only.                  *)
LEMMA OrderUnchanged ==
  ASSUME Ordered, UNCHANGED <<alloc_head, alloc_tail, next, prev, allocation, heap>>
  PROVE  Ordered'
<1>1. PICK n \in Nat : \E order \in [1 .. n -> Entries] : InOrder(n, order)
  BY DEF Ordered
<1>2. PICK order \in [1 .. n -> Entries] : InOrder(n, order)
  BY <1>1
<1>3. InOrder(n, order)'
  BY <1>2 DEF InOrder
<1> QED
  BY <1>3 DEF Ordered

(* A step that leaves the tracker alone keeps the list in order.           *)
LEMMA ListUnchanged == ListInv /\ UNCHANGED vars => ListInv'
<1> SUFFICES ASSUME ListInv, UNCHANGED vars PROVE ListInv'
  OBVIOUS
<1>1. TypeOK' /\ (heap \intersect foreign = {})' /\ crashed' = crashed
  BY DEF ListInv, vars, TypeOK
<1>2. Ordered => Ordered'
  BY OrderUnchanged DEF vars
<1> QED
  BY <1>1, <1>2 DEF ListInv

(* The empty list is in order.                                             *)
LEMMA InitList == Init => ListInv
<1> SUFFICES ASSUME Init PROVE ListInv
  OBVIOUS
<1>1. InOrder(0, [k \in 1 .. 0 |-> Null])
  <2>1. 1 .. 0 = {}
    OBVIOUS
  <2> QED
    BY <2>1 DEF InOrder, Init
<1>2. [k \in 1 .. 0 |-> Null] \in [1 .. 0 -> Entries]
  OBVIOUS
<1>3. Ordered
  BY <1>1, <1>2 DEF Ordered
<1>4. TypeOK
  BY AddressAssumption DEF Init, TypeOK, MaybeEntry
<1> QED
  BY <1>3, <1>4 DEF ListInv, Init

(* Every operation of the tracker keeps the list in order.                 *)
LEMMA NextKeepsList == ListInv /\ [Next]_vars => ListInv'
<1> SUFFICES ASSUME ListInv, [Next]_vars PROVE ListInv'
  OBVIOUS
<1>1. ASSUME NEW e \in Entries, NEW b \in Blocks, Malloc(e, b) PROVE ListInv'
  BY <1>1, MallocKeepsList
<1>2. ASSUME NEW b \in Blocks, Free(b) PROVE ListInv'
  BY <1>2, FreeKeepsList
<1>3. ASSUME NEW b \in Blocks, FreeForeign(b) PROVE ListInv'
  <2>1. TypeOK' /\ heap' \intersect foreign' = {}
    BY <1>3 DEF FreeForeign, ListInv, TypeOK, list
  <2>2. UNCHANGED <<alloc_head, alloc_tail, next, prev, allocation, heap, crashed>>
    BY <1>3 DEF FreeForeign, list
  <2>3. Ordered => Ordered'
    BY <2>2, OrderUnchanged
  <2> QED
    BY <2>1, <2>2, <2>3 DEF ListInv
<1>4. ASSUME NEW b \in Blocks, NEW c \in Blocks, Realloc(b, c) PROVE ListInv'
  BY <1>4, ReallocKeepsList
<1>5. ASSUME NEW e \in Entries, NEW b \in Blocks, NEW c \in Blocks, ReallocForeign(e, b, c)
      PROVE  ListInv'
  BY <1>5, ReallocForeignKeepsList
<1>6. CASE UNCHANGED vars
  BY <1>6, ListUnchanged
<1> QED
  BY <1>1, <1>2, <1>3, <1>4, <1>5, <1>6 DEF Next

(* A list in order describes the heap.                                     *)
LEMMA ListTracksHeap == ListInv => TracksHeap
BY OrderTracksHeap DEF ListInv, Ordered, TracksHeap

(* The tracker knows the blocks in use, for any memory and any number of   *)
(* foreign blocks (tracking_malloc(), tracking_free(), tracking_realloc()) *)
THEOREM TrackerKnowsHeap == Spec => []TracksHeap
<1>1. Init => ListInv
  BY InitList
<1>2. ListInv /\ [Next]_vars => ListInv'
  BY NextKeepsList
<1>3. ListInv => TracksHeap
  BY ListTracksHeap
<1> QED
  BY <1>1, <1>2, <1>3, PTL DEF Spec

(* The same of the tracker as one of the helpers.                          *)
THEOREM HelpersTrackHeap == HelpersSpec => []TracksHeap
<1>1. HelpersInit => ListInv
  BY InitList DEF HelpersInit
<1>2. [HelpersNext]_helperVars => [Next]_vars
  BY DEF HelpersNext, helperVars, TrackerStep, CharData_AppendXMLChars, CharData_Init,
         StructData_AddItem, StructData_Init, StructData_Dispose, StructData_CheckItems,
         Update, NextByte
<1>3. ListInv /\ [HelpersNext]_helperVars => ListInv'
  BY <1>2, NextKeepsList
<1>4. ListInv => TracksHeap
  BY ListTracksHeap
<1> QED
  BY <1>1, <1>3, <1>4, PTL DEF HelpersSpec

-------------------------------------------------------------------------------
recorderVars == <<unit, charVars, structVars>>

(* What a step may do to the recorders.                                    *)
RecorderNext ==
  \/ CharData_AppendXMLChars \/ CharData_Init
  \/ StructData_AddItem \/ StructData_Init \/ StructData_Dispose
  \/ UNCHANGED recorderVars

(* Each step of the helpers is one of the recorders or leaves them alone.  *)
LEMMA NextIsRecorders == [HelpersNext]_helperVars => RecorderNext
BY DEF HelpersNext, helperVars, RecorderNext, recorderVars, TrackerStep, StructData_CheckItems,
       Update, NextByte

-------------------------------------------------------------------------------
(* The buffer holds the whole text, as long as that is shorter than it; it *)
(* is never filled.                                                        *)

CharInv ==
  /\ text \in Seq(Nat) /\ chars \in Seq(Nat)
  /\ Len(chars) < MaxChars
  /\ Len(text) < MaxChars => chars = text

(* A text and a piece are as long as both.                                 *)
LEMMA ConcatIsLonger ==
  ASSUME NEW s \in Seq(Nat), NEW p \in Seq(Nat)
  PROVE  s \o p \in Seq(Nat) /\ Len(s \o p) = Len(s) + Len(p)
OBVIOUS

(* AppendChars() keeps what the buffer holds a beginning of the text.      *)
LEMMA AppendKeepsPrefix ==
  ASSUME CharInv, NEW len \in Nat, AppendPiece(len), text' = text \o Piece(len)
  PROVE  CharInv'
<1> DEFINE n == IF len + Len(chars) > MaxChars THEN MaxChars - Len(chars) ELSE len
<1>1. MaxChars \in Nat /\ n \in Nat /\ n <= len
  BY HelperAssumption DEF CharInv
<1>2. /\ Piece(len) \in Seq(Nat) /\ Len(Piece(len)) = len
      /\ SubSeq(Piece(len), 1, n) \in Seq(Nat) /\ Len(SubSeq(Piece(len), 1, n)) = n
  BY <1>1 DEF Piece, CharInv
<1>3. text' \in Seq(Nat) /\ Len(text') = Len(text) + len
  <2>1. text \in Seq(Nat)
    BY DEF CharInv
  <2> QED
    BY <1>2, <2>1, ConcatIsLonger
<1>4. CASE n + Len(chars) < MaxChars
  <2>1. chars' = chars \o SubSeq(Piece(len), 1, n)
    BY <1>4 DEF AppendPiece
  <2>2. chars' \in Seq(Nat) /\ Len(chars') = Len(chars) + n
    BY <1>2, <2>1 DEF CharInv
  <2>3. n = len /\ SubSeq(Piece(len), 1, n) = Piece(len)
    BY <1>1, <1>2, <1>4 DEF CharInv
  <2>4. Len(text') < MaxChars => chars' = text'
    <3>1. Len(text) \in Nat /\ (Len(text) < MaxChars => chars = text)
      BY DEF CharInv
    <3>2. Len(text') < MaxChars => Len(text) < MaxChars
      BY <1>1, <1>3, <3>1
    <3> QED
      BY <2>1, <2>3, <3>1, <3>2
  <2> QED
    BY <1>1, <1>3, <1>4, <2>2, <2>4 DEF CharInv
<1>5. CASE ~(n + Len(chars) < MaxChars)
  <2>1. chars' = chars
    BY <1>5 DEF AppendPiece
  <2>2. ~(Len(text') < MaxChars)
    BY <1>1, <1>3, <1>5 DEF CharInv
  <2> QED
    BY <1>3, <2>1, <2>2 DEF CharInv
<1> QED
  BY <1>4, <1>5

(* Each step keeps the buffer a beginning of the text.                     *)
LEMMA CharStep == CharInv /\ RecorderNext => CharInv'
<1> SUFFICES ASSUME CharInv, RecorderNext PROVE CharInv'
  OBVIOUS
<1>1. CASE CharData_AppendXMLChars
  <2>1. PICK len \in 0 .. MaxText - Len(text) : AppendPiece(len) /\ text' = text \o Piece(len)
    BY <1>1 DEF CharData_AppendXMLChars
  <2>2. len \in Nat
    OBVIOUS
  <2> QED
    BY <2>1, <2>2, AppendKeepsPrefix
<1>2. CASE CharData_Init
  BY <1>2, HelperAssumption DEF CharData_Init, CharInv
<1>3. CASE UNCHANGED charVars
  BY <1>3 DEF CharInv, charVars
<1> QED
  BY <1>1, <1>2, <1>3 DEF RecorderNext, StructData_AddItem, StructData_Init, StructData_Dispose,
                          recorderVars

(* A comparison with all that was collected succeeds exactly if it fits,   *)
(* for a buffer of any size (CharData_AppendXMLChars()).                   *)
THEOREM TextsAreWhole == HelpersSpec => []ChecksWholeText
<1>1. HelpersInit => CharInv
  BY HelperAssumption DEF HelpersInit, CharInv
<1>2. CharInv /\ [HelpersNext]_helperVars => CharInv'
  BY NextIsRecorders, CharStep
<1>3. CharInv => ChecksWholeText
  BY HelperAssumption DEF CharInv, ChecksWholeText, CharData_CheckXMLChars
<1> QED
  BY <1>1, <1>2, <1>3, PTL DEF HelpersSpec

-------------------------------------------------------------------------------
(* The memory is as large as max_count says, until it is given back.       *)

StructInv ==
  /\ items \in Seq(Nat) /\ max_count \in Nat /\ room \in Nat
  /\ Len(items) <= max_count
  /\ ~disposed => room = max_count
  /\ OverrunOnlyAfterDisposal

(* Each step keeps the count within the memory, until a disposal.          *)
LEMMA StructStep == StructInv /\ RecorderNext => StructInv'
<1> SUFFICES ASSUME StructInv, RecorderNext PROVE StructInv'
  OBVIOUS
<1> USE HelperAssumption DEF StructInv, OverrunOnlyAfterDisposal
<1>1. CASE StructData_AddItem
  <2>1. /\ max_count' \in Nat /\ room' \in Nat /\ Len(items) < max_count'
        /\ ~disposed => room' = max_count'
    BY <1>1 DEF StructData_AddItem, Grow
  <2>2. items' \in Seq(Nat) /\ Len(items') = Len(items) + 1 /\ disposed' = disposed
    BY <1>1 DEF StructData_AddItem
  <2>3. ~disposed => ~overrun'
    <3>1. overrun' = (Len(items) >= room')
      BY <1>1 DEF StructData_AddItem
    <3>2. ~disposed => ~(Len(items) >= room')
      BY <2>1
    <3> QED
      BY <3>1, <3>2, Zenon
  <2>4. Len(items') <= max_count'
    <3>1. Len(items) \in Nat
      OBVIOUS
    <3> QED
      BY <2>1, <2>2, <3>1
  <2> QED
    BY <2>1, <2>2, <2>3, <2>4
<1>2. CASE StructData_Init
  BY <1>2 DEF StructData_Init
<1>3. CASE StructData_Dispose
  BY <1>3 DEF StructData_Dispose
<1>4. CASE UNCHANGED structVars
  BY <1>4 DEF structVars
<1> QED
  BY <1>1, <1>2, <1>3, <1>4 DEF RecorderNext, CharData_AppendXMLChars, CharData_Init, recorderVars

(* No record is written beyond the memory, for any extension count, unless *)
(* it is added after a disposal (StructData_AddItem()).                    *)
THEOREM RecordsHaveRoom == HelpersSpec => []OverrunOnlyAfterDisposal
<1>1. HelpersInit => StructInv
  BY DEF HelpersInit, StructInv, OverrunOnlyAfterDisposal
<1>2. StructInv /\ [HelpersNext]_helperVars => StructInv'
  BY NextIsRecorders, StructStep
<1>3. StructInv => OverrunOnlyAfterDisposal
  BY DEF StructInv
<1> QED
  BY <1>1, <1>2, <1>3, PTL DEF HelpersSpec

-------------------------------------------------------------------------------
(* A byte is taken into the buffer, which is mixed in when it is full.     *)
TakeByte(h, byte) ==
  LET buf == Append(h.buf, byte)
  IN  IF Len(buf) < 8 THEN [h EXCEPT !.buf = buf]
      ELSE [v |-> Mix(h.v, SIP_U8TO64_LE(buf)), buf |-> <<>>, c |-> h.c + 8]

(* The states between the bytes of a piece.                                *)
Feeds(h, src, f) ==
  /\ f[0] = h
  /\ \A k \in 1 .. Len(src) : f[k] = TakeByte(f[k - 1], src[k])
  /\ f[Len(src)] = sip24_update(h, src)

(* The largest element is the one that no other exceeds.                   *)
LEMMA MaxOfInterval ==
  ASSUME NEW S, NEW m \in S, S \subseteq Nat, \A x \in S : x <= m
  PROVE  Max(S) = m
<1>1. m \in S /\ \A y \in S : m >= y
  OBVIOUS
<1>2. \A x \in S : (\A y \in S : x >= y) => x = m
  OBVIOUS
<1> QED
  BY <1>1, <1>2 DEF Max

(* There is a function with the equations of the loop of sip24_update():   *)
(* it is extended by one byte at a time.                                   *)
LEMMA FeedsExist ==
  ASSUME NEW h, NEW src, Len(src) \in Nat, DOMAIN src = 1 .. Len(src)
  PROVE  \E f : Feeds(h, src, f)
<1> DEFINE n == Len(src)
           Rec(m, f) == [S \in SUBSET (1 .. m) |->
                           IF S = {} THEN h ELSE TakeByte(f[S \ {Max(S)}], src[Max(S)])]
           E == {m \in Nat : \E f : f = Rec(m, f)}
<1>1. 0 \in E
  <2>1. SUBSET (1 .. 0) = {{}}
    <3>1. 1 .. 0 = {}
      OBVIOUS
    <3> QED
      BY <3>1
  <2> DEFINE z == [S \in SUBSET (1 .. 0) |-> IF S = {} THEN h ELSE 1]
  <2>2. z = [S \in SUBSET (1 .. 0) |->
               IF S = {} THEN h ELSE TakeByte(z[S \ {Max(S)}], src[Max(S)])]
    BY <2>1
  <2> HIDE DEF z
  <2>3. z = Rec(0, z)
    BY <2>2, Zenon
  <2>4. \E f : f = Rec(0, f)
    <3> HIDE DEF Rec
    <3> QED
      BY <2>3, Zenon
  <2> HIDE DEF Rec
  <2> SUFFICES \E f : f = Rec(0, f)
    OBVIOUS
  <2> QED
    BY <2>4
<1>2. ASSUME NEW m \in Nat, m \in E PROVE m + 1 \in E
  <2> HIDE DEF Rec
  <2> SUFFICES \E f : f = Rec(m + 1, f)
    OBVIOUS
  <2>1. PICK g : g = Rec(m, g)
    BY <1>2
  <2> USE DEF Rec
  <2> DEFINE q == [S \in SUBSET (1 .. m + 1) |->
                     IF m + 1 \in S THEN TakeByte(g[S \ {m + 1}], src[m + 1]) ELSE g[S]]
  <2>2. ASSUME NEW S \in SUBSET (1 .. m + 1)
        PROVE  q[S] = IF S = {} THEN h ELSE TakeByte(q[S \ {Max(S)}], src[Max(S)])
    <3>1. CASE m + 1 \in S
      <4>1. Max(S) = m + 1
        <5>1. S \subseteq Nat /\ \A x \in S : x <= m + 1
          OBVIOUS
        <5> QED
          BY <3>1, <5>1, MaxOfInterval
      <4>2. S \ {m + 1} \in SUBSET (1 .. m + 1) /\ m + 1 \notin S \ {m + 1}
        OBVIOUS
      <4>3. q[S \ {m + 1}] = g[S \ {m + 1}]
        BY <4>2
      <4>4. q[S] = TakeByte(g[S \ {m + 1}], src[m + 1])
        BY <3>1
      <4> HIDE DEF q
      <4> QED
        BY <3>1, <4>1, <4>3, <4>4
    <3>2. CASE m + 1 \notin S /\ S # {}
      <4>1. S \in SUBSET (1 .. m) /\ S \ {Max(S)} \in SUBSET (1 .. m + 1)
            /\ m + 1 \notin S \ {Max(S)}
        <5>1. \A x \in S : x \in 1 .. m
          BY <3>2
        <5> QED
          BY <3>2, <5>1
      <4>2. q[S] = g[S] /\ q[S \ {Max(S)}] = g[S \ {Max(S)}]
        BY <3>2, <4>1
      <4>3. g[S] = TakeByte(g[S \ {Max(S)}], src[Max(S)])
        BY <2>1, <3>2, <4>1
      <4> HIDE DEF q
      <4> QED
        BY <3>2, <4>2, <4>3
    <3>3. CASE S = {}
      <4>1. q[S] = g[{}]
        BY <3>3
      <4>2. g[{}] = h
        BY <2>1
      <4> HIDE DEF q
      <4> QED
        BY <3>3, <4>1, <4>2
    <3> QED
      BY <3>1, <3>2, <3>3
  <2>3. q = [S \in SUBSET (1 .. m + 1) |-> q[S]]
    OBVIOUS
  <2>4. q = Rec(m + 1, q)
    <3> HIDE DEF q
    <3> QED
      BY <2>2, <2>3
  <2> HIDE DEF q, Rec
  <2> QED
    BY <2>4
<1>3. n \in E
  <2> HIDE DEF E
  <2> QED
    BY <1>1, <1>2, NatSetInduction
<1>4. PICK f : f = (CHOOSE g : g = Rec(n, g)) /\ f = Rec(n, f)
  <2>1. \E g : g = Rec(n, g)
    <3> HIDE DEF Rec
    <3> QED
      BY <1>3
  <2> HIDE DEF Rec
  <2> QED
    BY <2>1, Zenon
<1>5. \A S \in SUBSET (1 .. n) :
        f[S] = IF S = {} THEN h ELSE TakeByte(f[S \ {Max(S)}], src[Max(S)])
  BY <1>4, Zenon
<1>6. sip24_update(h, src) = f[1 .. n]
  BY <1>4 DEF sip24_update, FoldLeft, MapThenFoldSet, TakeByte
<1> DEFINE s == [k \in 0 .. n |-> f[1 .. k]]
<1>7. s[0] = h
  <2>1. 1 .. 0 = {} /\ {} \in SUBSET (1 .. n) /\ s[0] = f[1 .. 0]
    OBVIOUS
  <2>2. f[{}] = h
    BY <1>5, <2>1
  <2> QED
    BY <2>1, <2>2, Zenon
<1>8. ASSUME NEW k \in 1 .. n PROVE s[k] = TakeByte(s[k - 1], src[k])
  <2>1. Max(1 .. k) = k
    <3>1. k \in 1 .. k /\ 1 .. k \subseteq Nat /\ \A x \in 1 .. k : x <= k
      OBVIOUS
    <3> QED
      BY <3>1, MaxOfInterval
  <2>2. /\ (1 .. k) \ {k} = 1 .. k - 1
        /\ 1 .. k \in SUBSET (1 .. n)
        /\ 1 .. k # {}
    <3>1. k \in 1 .. k /\ \A x \in 1 .. k : x \in 1 .. n
      OBVIOUS
    <3>2. \A x : x \in (1 .. k) \ {k} <=> x \in 1 .. k - 1
      OBVIOUS
    <3> QED
      BY <3>1, <3>2
  <2>3. f[1 .. k] = TakeByte(f[(1 .. k) \ {k}], src[k])
    BY <1>5, <2>1, <2>2
  <2>4. s[k] = f[1 .. k] /\ s[k - 1] = f[1 .. k - 1]
    OBVIOUS
  <2> HIDE DEF s
  <2> QED
    BY <2>2, <2>3, <2>4, Zenon
<1>9. s[n] = sip24_update(h, src)
  BY <1>6
<1>10. \E z : z = s /\ Feeds(h, src, z)
  <2> HIDE DEF s
  <2> QED
    BY <1>7, <1>8, <1>9 DEF Feeds
<1> QED
  BY <1>10

(* Two pieces, one after the other, are fed like one.                      *)
LEMMA PiecesJoin ==
  ASSUME NEW T, NEW p \in Seq(T), NEW q \in Seq(T), NEW h
  PROVE  sip24_update(sip24_update(h, p), q) = sip24_update(h, p \o q)
<1> DEFINE r == p \o q
<1>1. /\ Len(p) \in Nat /\ DOMAIN p = 1 .. Len(p)
      /\ Len(q) \in Nat /\ DOMAIN q = 1 .. Len(q)
      /\ Len(r) = Len(p) + Len(q) /\ DOMAIN r = 1 .. Len(r)
  OBVIOUS
<1>2. /\ \A k \in 1 .. Len(p) : r[k] = p[k]
      /\ \A k \in 1 .. Len(q) : r[Len(p) + k] = q[k]
  OBVIOUS
<1> HIDE DEF r
<1>3. PICK a : Feeds(h, p, a)
  BY <1>1, FeedsExist
<1>4. PICK b : Feeds(sip24_update(h, p), q, b)
  BY <1>1, FeedsExist
<1>5. PICK c : Feeds(h, r, c)
  <2>1. Len(r) \in Nat
    BY <1>1
  <2> QED
    BY <1>1, <2>1, FeedsExist
<1> DEFINE A == {k \in Nat : k <= Len(p) => c[k] = a[k]}
           B == {k \in Nat : k <= Len(q) => c[Len(p) + k] = b[k]}
<1>6. \A k \in Nat : k \in A
  <2>1. 0 \in A
    BY <1>3, <1>5 DEF Feeds
  <2>2. ASSUME NEW k \in Nat, k \in A PROVE k + 1 \in A
    <3> SUFFICES ASSUME k + 1 <= Len(p) PROVE c[k + 1] = a[k + 1]
      OBVIOUS
    <3>1. k + 1 \in 1 .. Len(p) /\ k + 1 \in 1 .. Len(r) /\ (k + 1) - 1 = k /\ c[k] = a[k]
      BY <1>1, <2>2
    <3>2. a[k + 1] = TakeByte(a[(k + 1) - 1], p[k + 1])
      BY <1>3, <3>1 DEF Feeds
    <3>3. c[k + 1] = TakeByte(c[(k + 1) - 1], r[k + 1])
      BY <1>5, <3>1 DEF Feeds
    <3> QED
      BY <1>2, <3>1, <3>2, <3>3
  <2> HIDE DEF A
  <2> QED
    BY <2>1, <2>2, NatSetInduction
<1>7. \A k \in Nat : k \in B
  <2>1. 0 \in B
    <3>1. Len(p) \in A /\ Len(p) + 0 = Len(p)
      BY <1>1, <1>6
    <3> QED
      BY <1>1, <1>3, <1>4, <3>1 DEF Feeds
  <2>2. ASSUME NEW k \in Nat, k \in B PROVE k + 1 \in B
    <3> SUFFICES ASSUME k + 1 <= Len(q) PROVE c[Len(p) + (k + 1)] = b[k + 1]
      OBVIOUS
    <3>1. /\ k + 1 \in 1 .. Len(q) /\ Len(p) + (k + 1) \in 1 .. Len(r)
          /\ (k + 1) - 1 = k /\ (Len(p) + (k + 1)) - 1 = Len(p) + k
          /\ c[Len(p) + k] = b[k]
      BY <1>1, <2>2
    <3>2. b[k + 1] = TakeByte(b[(k + 1) - 1], q[k + 1])
      BY <1>4, <3>1 DEF Feeds
    <3>3. c[Len(p) + (k + 1)] = TakeByte(c[(Len(p) + (k + 1)) - 1], r[Len(p) + (k + 1)])
      BY <1>5, <3>1 DEF Feeds
    <3> QED
      BY <1>2, <3>1, <3>2, <3>3
  <2> HIDE DEF B
  <2> QED
    BY <2>1, <2>2, NatSetInduction
<1>8. Len(q) \in B
  BY <1>1, <1>7
<1> QED
  BY <1>1, <1>4, <1>5, <1>8 DEF Feeds, r

(* The hash is in the state of one that was fed at once.                   *)
HashInv ==
  /\ Len(hashed) \in 0 .. Len(SpecMessage)
  /\ hashed = SubSeq(SpecMessage, 1, Len(hashed))
  /\ H = sip24_update(sip24_init(sip_tokey(SpecKey)), hashed)

(* The message of the test vectors has 15 bytes.                           *)
LEMMA SpecMessageType == SpecMessage \in Seq(Nat) /\ Len(SpecMessage) = 15
<1>1. \A k \in 1 .. 15 : k - 1 \in Nat
  OBVIOUS
<1> QED
  BY <1>1 DEF SpecMessage

(* A piece of it has its length, and the bytes in their places.            *)
LEMMA PiecesOfMessage ==
  ASSUME NEW l \in Nat, NEW len \in Nat, l + len <= 15
  PROVE  LET piece == SubSeq(SpecMessage, l + 1, l + len)
         IN  /\ piece \in Seq(Nat)
             /\ Len(piece) = len
             /\ \A i \in 1 .. len : piece[i] = l + i - 1
<1> DEFINE piece == SubSeq(SpecMessage, l + 1, l + len)
<1>1. \A i \in 1 .. 15 : SpecMessage[i] = i - 1
  BY DEF SpecMessage
<1>2. \A i \in l + 1 .. l + len : SpecMessage[i] \in Nat
  <2>1. \A i \in l + 1 .. l + len : i \in 1 .. 15 /\ i - 1 \in Nat
    OBVIOUS
  <2> QED
    BY <1>1, <2>1
<1>3. l + 1 \in Int /\ l + len \in Int
  OBVIOUS
<1>4. /\ piece \in Seq(Nat)
      /\ Len(piece) = IF l + 1 <= l + len THEN (l + len) - (l + 1) + 1 ELSE 0
      /\ \A i \in 1 .. (l + len) - (l + 1) + 1 : piece[i] = SpecMessage[(l + 1) + i - 1]
  <2> HIDE DEF piece
  <2> QED
    BY <1>2, <1>3, SubSeqProperties DEF piece
<1>5. (l + len) - (l + 1) + 1 = len /\ (~(l + 1 <= l + len) => len = 0)
  OBVIOUS
<1>6. ASSUME NEW i \in 1 .. len PROVE piece[i] = l + i - 1
  <2>1. (l + 1) + i - 1 = l + i /\ l + i \in 1 .. 15
    OBVIOUS
  <2> HIDE DEF piece
  <2>2. piece[i] = SpecMessage[(l + 1) + i - 1]
    BY <1>4, <1>5
  <2>3. SpecMessage[l + i] = l + i - 1
    BY <1>1, <2>1
  <2> QED
    BY <2>1, <2>2, <2>3
<1> HIDE DEF piece
<1>7. Len(piece) = len
  BY <1>4, <1>5
<1> QED
  BY <1>4, <1>6, <1>7 DEF piece

(* A beginning of the message and the piece after it.                      *)
LEMMA BeginningsGrow ==
  ASSUME NEW l \in Nat, NEW len \in Nat, l + len <= 15
  PROVE  SubSeq(SpecMessage, 1, l) \o SubSeq(SpecMessage, l + 1, l + len)
           = SubSeq(SpecMessage, 1, l + len)
<1> DEFINE head  == SubSeq(SpecMessage, 0 + 1, 0 + l)
           piece == SubSeq(SpecMessage, l + 1, l + len)
           whole == SubSeq(SpecMessage, 0 + 1, 0 + (l + len))
<1>1. /\ head \in Seq(Nat) /\ Len(head) = l
      /\ \A i \in 1 .. l : head[i] = 0 + i - 1
  <2>1. 0 \in Nat /\ l \in Nat /\ 0 + l <= 15
    OBVIOUS
  <2> QED
    BY <2>1, PiecesOfMessage, Zenon
<1>2. /\ piece \in Seq(Nat) /\ Len(piece) = len
      /\ \A i \in 1 .. len : piece[i] = l + i - 1
  BY PiecesOfMessage, Zenon
<1>3. /\ whole \in Seq(Nat) /\ Len(whole) = l + len
      /\ \A i \in 1 .. l + len : whole[i] = 0 + i - 1
  <2>1. 0 \in Nat /\ l + len \in Nat /\ 0 + (l + len) <= 15
    OBVIOUS
  <2> QED
    BY <2>1, PiecesOfMessage, Zenon
<1>4. 0 + 1 = 1 /\ 0 + l = l /\ 0 + (l + len) = l + len
  OBVIOUS
<1> HIDE DEF head, piece, whole
<1>5. head \o piece = whole
  <2>1. /\ head \o piece \in Seq(Nat) /\ Len(head \o piece) = l + len
        /\ \A i \in 1 .. l + len :
             (head \o piece)[i] = IF i <= l THEN head[i] ELSE piece[i - l]
    BY <1>1, <1>2, ConcatProperties
  <2>2. ASSUME NEW i \in 1 .. l + len PROVE (head \o piece)[i] = whole[i]
    <3>1. CASE i <= l
      <4>1. i \in 1 .. l
        BY <3>1
      <4> QED
        BY <1>1, <1>3, <2>1, <3>1, <4>1
    <3>2. CASE ~(i <= l)
      <4>1. i - l \in 1 .. len /\ l + (i - l) - 1 = 0 + i - 1
        BY <3>2
      <4> QED
        BY <1>2, <1>3, <2>1, <3>2, <4>1
    <3> QED
      BY <3>1, <3>2
  <2> QED
    BY <1>3, <2>1, <2>2, SeqEqual
<1> QED
  BY <1>4, <1>5 DEF head, piece, whole

(* An update with nothing changes nothing.                                 *)
LEMMA NothingFed == \A h : sip24_update(h, <<>>) = h
<1> SUFFICES ASSUME NEW h PROVE sip24_update(h, <<>>) = h
  OBVIOUS
<1>1. Len(<<>>) = 0 /\ DOMAIN <<>> = 1 .. 0
  OBVIOUS
<1>2. PICK f : Feeds(h, <<>>, f)
  BY <1>1, FeedsExist
<1> QED
  BY <1>1, <1>2 DEF Feeds

(* However the message is cut into pieces, sip24_update() leaves the hash  *)
(* in the state of a message that came at once.  What sip24_valid() finds  *)
(* true of the whole messages is then true of all ways to cut them.        *)
THEOREM PiecesDoNotMatter ==
  ASSUME sip24_valid
  PROVE  HelpersSpec => []PiecesHashAlike
<1>1. HelpersInit => HashInv
  BY NothingFed, SpecMessageType DEF HelpersInit, HashInv
<1>2. HashInv /\ [HelpersNext]_helperVars => HashInv'
  <2> SUFFICES ASSUME HashInv, [HelpersNext]_helperVars PROVE HashInv'
    OBVIOUS
  <2>1. CASE Update
    <3> DEFINE l == Len(hashed)
    <3>1. PICK len \in 0 .. Len(SpecMessage) - l :
            LET piece == SubSeq(SpecMessage, l + 1, l + len)
            IN  H' = sip24_update(H, piece) /\ hashed' = hashed \o piece
      BY <2>1 DEF Update
    <3> DEFINE piece == SubSeq(SpecMessage, l + 1, l + len)
               whole == SubSeq(SpecMessage, 1, l + len)
    <3>2. H' = sip24_update(H, piece) /\ hashed' = hashed \o piece
      BY <3>1
    <3>3. l \in 0 .. 15 /\ l + len \in 0 .. 15 /\ len \in Nat
      <4>1. l \in 0 .. 15
        BY SpecMessageType DEF HashInv
      <4>2. len \in 0 .. 15 - l
        BY <3>1, SpecMessageType
      <4> HIDE DEF l
      <4> QED
        BY <4>1, <4>2
    <3>4. hashed = SubSeq(SpecMessage, 1, l) /\ hashed \in Seq(Nat)
      <4>1. hashed = SubSeq(SpecMessage, 1, l)
        BY DEF HashInv
      <4>2. SubSeq(SpecMessage, 0 + 1, 0 + l) \in Seq(Nat)
        <5>1. 0 \in Nat /\ l \in Nat /\ 0 + l <= 15
          BY <3>3
        <5> HIDE DEF l
        <5> QED
          BY <5>1, PiecesOfMessage, Zenon
      <4>3. 0 + 1 = 1 /\ 0 + l = l
        BY <3>3
      <4> HIDE DEF l
      <4> QED
        BY <4>1, <4>2, <4>3
    <3>5. piece \in Seq(Nat) /\ Len(piece) = len /\ hashed \o piece = whole
      <4>1. l \in Nat /\ len \in Nat /\ l + len <= 15
        BY <3>3
      <4> HIDE DEF l
      <4> QED
        BY <3>4, <4>1, PiecesOfMessage, BeginningsGrow, Zenon
    <3> HIDE DEF piece
    <3>6. Len(hashed') = l + len
      BY <3>2, <3>3, <3>4, <3>5
    <3>7. hashed' = whole
      BY <3>2, <3>5
    <3>8. /\ Len(hashed') \in 0 .. Len(SpecMessage)
          /\ hashed' = SubSeq(SpecMessage, 1, Len(hashed'))
      BY <3>3, <3>6, <3>7, SpecMessageType
    <3>9. H' = sip24_update(sip24_init(sip_tokey(SpecKey)), hashed')
      <4>1. H = sip24_update(sip24_init(sip_tokey(SpecKey)), hashed)
        BY DEF HashInv
      <4> QED
        BY <3>2, <3>4, <3>5, <4>1, PiecesJoin
    <3> QED
      BY <3>8, <3>9 DEF HashInv
  <2>2. CASE UNCHANGED hashVars
    BY <2>2 DEF hashVars, HashInv
  <2> QED
    BY <2>1, <2>2 DEF HelpersNext, TrackerStep, CharData_AppendXMLChars, CharData_Init,
       StructData_AddItem, StructData_Init, StructData_Dispose, StructData_CheckItems,
       NextByte, helperVars
<1>3. HashInv => PiecesHashAlike
  <2> SUFFICES ASSUME HashInv
               PROVE  sip24_final(H) = SIP_U8TO64_LE(vectors[Len(hashed) + 1])
    BY DEF PiecesHashAlike
  <2>1. sip24_final(H) = siphash24(hashed, sip_tokey(SpecKey))
    BY DEF HashInv, siphash24
  <2> QED
    BY <2>1 DEF HashInv, sip24_valid
<1> QED
  BY <1>1, <1>2, <1>3, PTL DEF HelpersSpec

-------------------------------------------------------------------------------
(* The images are those of one graphic character, of an escape and of a    *)
(* code in one or two digits.                                              *)
HexValue(x) == IF x < 58 THEN x - 48 ELSE x - 55

(* What prints like that.                                                  *)
Printed(image) ==
  CASE Len(image) = 1 -> image[1]
    [] Len(image) = 2 -> (CASE image[2] = 48  -> 0
                            [] image[2] = 116 -> 9
                            [] image[2] = 110 -> 10
                            [] image[2] = 114 -> 13
                            [] OTHER          -> image[2])
    [] Len(image) = 3 -> HexValue(image[3])
    [] Len(image) = 4 -> HexValue(image[3]) * 16 + HexValue(image[4])

(* What makes an image good.                                               *)
PrintsWell(c, image) ==
  /\ Printed(image) = c
  /\ \A k \in DOMAIN image : image[k] \in 32 .. 126
  /\ image[1] = Backslash <=> Len(image) > 1

(* A hexadecimal digit is read as what it was written for.                 *)
LEMMA HexDigitValue ==
  ASSUME NEW n \in 0 .. 15
  PROVE  HexDigit(n) \in 48 .. 70 /\ HexValue(HexDigit(n)) = n
BY DEF HexDigit, HexValue

(* A graphic character that stands for itself is read as that.             *)
LEMMA OnePrintsWell ==
  ASSUME NEW c \in 32 .. 126, c # Backslash
  PROVE  PrintsWell(c, <<c>>)
BY DEF PrintsWell, Printed, Backslash

(* So is one behind a backslash.                                           *)
LEMMA EscapePrintsWell ==
  ASSUME NEW c, NEW e \in 32 .. 126, c = Printed(<<Backslash, e>>)
  PROVE  PrintsWell(c, <<Backslash, e>>)
<1>1. \A k \in DOMAIN <<Backslash, e>> : <<Backslash, e>>[k] \in 32 .. 126
  BY DEF Backslash
<1> QED
  BY <1>1 DEF PrintsWell

(* A sequence that is longer by one.                                       *)
LEMMA OneMore ==
  ASSUME NEW s \in Seq(Nat), NEW e \in Nat
  PROVE  /\ s \o <<e>> \in Seq(Nat)
         /\ Len(s \o <<e>>) = Len(s) + 1
         /\ \A k \in 1 .. Len(s) : (s \o <<e>>)[k] = s[k]
         /\ (s \o <<e>>)[Len(s) + 1] = e
<1> DEFINE t == <<e>>
<1>1. t \in Seq(Nat) /\ Len(t) = 1 /\ t[1] = e
  OBVIOUS
<1> HIDE DEF t
<1>2. /\ s \o t \in Seq(Nat)
      /\ Len(s \o t) = Len(s) + Len(t)
      /\ \A k \in 1 .. Len(s) + Len(t) :
           (s \o t)[k] = IF k <= Len(s) THEN s[k] ELSE t[k - Len(s)]
  BY <1>1, ConcatProperties
<1>3. Len(s) \in Nat
  OBVIOUS
<1>4. (s \o t)[Len(s) + 1] = e
  <2>1. Len(s) + 1 \in 1 .. Len(s) + Len(t) /\ ~(Len(s) + 1 <= Len(s))
        /\ (Len(s) + 1) - Len(s) = 1
    BY <1>1, <1>3
  <2> QED
    BY <1>1, <1>2, <2>1
<1>5. \A k \in 1 .. Len(s) : (s \o t)[k] = s[k]
  BY <1>1, <1>2, <1>3
<1> QED
  BY <1>1, <1>2, <1>4, <1>5 DEF t

(* So is a byte in hexadecimal.                                            *)
LEMMA HexPrintsWell ==
  ASSUME NEW c \in 0 .. 255
  PROVE  PrintsWell(c, Hex(c))
<1> DEFINE d == HexDigit(c % 16)
           e == HexDigit(c \div 16)
<1>1. c % 16 \in 0 .. 15 /\ c \div 16 \in 0 .. 15
  OBVIOUS
<1>2. c = 16 * (c \div 16) + (c % 16)
  OBVIOUS
<1>3. /\ d \in 48 .. 70 /\ HexValue(d) = c % 16
      /\ e \in 48 .. 70 /\ HexValue(e) = c \div 16
  BY <1>1, HexDigitValue
<1> DEFINE s == <<Backslash, 120>> \o (IF c < 16 THEN <<>> ELSE <<e>>)
<1>4. Hex(c) = s \o <<d>>
  BY DEF Hex
<1> HIDE DEF d, e
<1>5. s \in Seq(Nat) /\ s[1] = 92 /\ s[2] = 120
      /\ IF c < 16 THEN Len(s) = 2 ELSE Len(s) = 3 /\ s[3] = e
  <2> DEFINE t == <<Backslash, 120>>
  <2>1. t \in Seq(Nat) /\ Len(t) = 2 /\ t[1] = 92 /\ t[2] = 120
    BY DEF Backslash
  <2>2. t \o <<>> = t
    OBVIOUS
  <2> HIDE DEF t
  <2>3. /\ t \o <<e>> \in Seq(Nat) /\ Len(t \o <<e>>) = 3 /\ (t \o <<e>>)[3] = e
        /\ (t \o <<e>>)[1] = 92 /\ (t \o <<e>>)[2] = 120
    <3>1. e \in Nat /\ t \in Seq(Nat)
      BY <1>3, <2>1
    <3> DEFINE u == t \o <<e>>
    <3>2. /\ u \in Seq(Nat) /\ Len(u) = Len(t) + 1 /\ u[Len(t) + 1] = e
          /\ \A k \in 1 .. Len(t) : u[k] = t[k]
      BY <3>1, OneMore
    <3> HIDE DEF u
    <3>3. Len(u) = 3 /\ u[3] = e /\ u[1] = 92 /\ u[2] = 120
      BY <2>1, <3>2
    <3> QED
      BY <3>2, <3>3 DEF u
  <2>4. s = IF c < 16 THEN t ELSE t \o <<e>>
    BY <2>2 DEF t
  <2> HIDE DEF s
  <2> QED
    BY <2>1, <2>3, <2>4
<1> HIDE DEF s
<1> DEFINE image == s \o <<d>>
<1>6. /\ image \in Seq(Nat) /\ image[1] = 92 /\ image[2] = 120
      /\ IF c < 16 THEN Len(image) = 3 /\ image[3] = d
         ELSE Len(image) = 4 /\ image[3] = e /\ image[4] = d
  <2>1. d \in Nat
    BY <1>3
  <2>2. /\ image \in Seq(Nat) /\ Len(image) = Len(s) + 1 /\ image[Len(s) + 1] = d
        /\ \A k \in 1 .. Len(s) : image[k] = s[k]
    BY <1>5, <2>1, OneMore
  <2> HIDE DEF image
  <2>3. CASE c < 16
    <3>1. Len(s) = 2
      BY <1>5, <2>3
    <3> QED
      BY <1>5, <2>2, <2>3, <3>1
  <2>4. CASE ~(c < 16)
    <3>1. Len(s) = 3 /\ s[3] = e
      BY <1>5, <2>4
    <3> QED
      BY <1>5, <2>2, <2>4, <3>1
  <2> QED
    BY <2>3, <2>4
<1> HIDE DEF image
<1>7. Printed(image) = c
  <2>1. c < 16 => HexValue(d) = c
    BY <1>1, <1>2, <1>3
  <2>2. HexValue(e) * 16 + HexValue(d) = c
    BY <1>1, <1>2, <1>3
  <2>3. CASE c < 16
    BY <1>6, <2>1, <2>3 DEF Printed
  <2>4. CASE ~(c < 16)
    BY <1>6, <2>2, <2>4 DEF Printed
  <2> QED
    BY <2>3, <2>4
<1>8. \A k \in DOMAIN image : image[k] \in 32 .. 126
  <2>1. CASE c < 16
    <3>1. DOMAIN image = 1 .. 3 /\ image[1] = 92 /\ image[2] = 120 /\ image[3] = d
      BY <1>6, <2>1
    <3> QED
      BY <1>3, <3>1
  <2>2. CASE ~(c < 16)
    <3>1. DOMAIN image = 1 .. 4 /\ image[1] = 92 /\ image[2] = 120
          /\ image[3] = e /\ image[4] = d
      BY <1>6, <2>2
    <3> QED
      BY <1>3, <3>1
  <2> QED
    BY <2>1, <2>2
<1>9. image[1] = Backslash <=> Len(image) > 1
  BY <1>6 DEF Backslash
<1> QED
  BY <1>4, <1>7, <1>8, <1>9 DEF PrintsWell, image

(* Each of the 256 cases prints a byte so that it is read as that.         *)
LEMMA BytesPrintWell ==
  ASSUME NEW c \in 0 .. 255
  PROVE  PrintsWell(c, unsignedCharToPrintable(c))
<1>1. CASE c \in 0 .. 31
  <2>1. unsignedCharToPrintable(c) = ControlToPrintable(c)
    BY <1>1 DEF unsignedCharToPrintable
  <2>2. CASE c \in {0, 9, 10, 13}
    <3>1. PICK e \in 32 .. 126 :
            ControlToPrintable(c) = <<Backslash, e>> /\ Printed(<<Backslash, e>>) = c
      <4>1. CASE c = 0
        <5>1. ControlToPrintable(c) = <<Backslash, 48>> /\ Printed(<<Backslash, 48>>) = c
          BY <4>1 DEF ControlToPrintable, Printed
        <5> QED
          BY <5>1
      <4>2. CASE c = 9
        <5>1. ControlToPrintable(c) = <<Backslash, 116>> /\ Printed(<<Backslash, 116>>) = c
          BY <4>2 DEF ControlToPrintable, Printed
        <5> QED
          BY <5>1
      <4>3. CASE c = 10
        <5>1. ControlToPrintable(c) = <<Backslash, 110>> /\ Printed(<<Backslash, 110>>) = c
          BY <4>3 DEF ControlToPrintable, Printed
        <5> QED
          BY <5>1
      <4>4. CASE c = 13
        <5>1. ControlToPrintable(c) = <<Backslash, 114>> /\ Printed(<<Backslash, 114>>) = c
          BY <4>4 DEF ControlToPrintable, Printed
        <5> QED
          BY <5>1
      <4> QED
        BY <2>2, <4>1, <4>2, <4>3, <4>4
    <3>2. PrintsWell(c, <<Backslash, e>>)
      BY <3>1, EscapePrintsWell
    <3> QED
      BY <2>1, <3>1, <3>2
  <2>3. CASE c \notin {0, 9, 10, 13}
    <3>1. ControlToPrintable(c) = Hex(c)
      BY <2>3 DEF ControlToPrintable
    <3> QED
      BY <2>1, <3>1, HexPrintsWell
  <2> QED
    BY <2>2, <2>3
<1>2. CASE c \in 32 .. 94
  <2>1. unsignedCharToPrintable(c) = UpperToPrintable(c)
    BY <1>2 DEF unsignedCharToPrintable
  <2>2. CASE c \in {34, Backslash}
    <3>1. UpperToPrintable(c) = <<Backslash, c>> /\ Printed(<<Backslash, c>>) = c
      BY <2>2 DEF UpperToPrintable, Printed, Backslash
    <3>2. c \in 32 .. 126
      BY <1>2
    <3>3. PrintsWell(c, <<Backslash, c>>)
      BY <3>1, <3>2, EscapePrintsWell
    <3> QED
      BY <2>1, <3>1, <3>3
  <2>3. CASE c \notin {34, Backslash}
    <3>1. c \in 32 .. 126 /\ c # Backslash
      BY <1>2, <2>3
    <3>2. UpperToPrintable(c) = <<c>>
      BY <2>3 DEF UpperToPrintable
    <3> QED
      BY <2>1, <3>1, <3>2, OnePrintsWell
  <2> QED
    BY <2>2, <2>3
<1>3. CASE c \in 95 .. 126
  <2>1. unsignedCharToPrintable(c) = <<c>>
    BY <1>3 DEF unsignedCharToPrintable, LowerToPrintable
  <2>2. c \in 32 .. 126 /\ c # Backslash
    BY <1>3 DEF Backslash
  <2> QED
    BY <2>1, <2>2, OnePrintsWell
<1>4. CASE c \in 127 .. 255
  <2>1. unsignedCharToPrintable(c) = Hex(c)
    BY <1>4 DEF unsignedCharToPrintable, HighToPrintable, HighestToPrintable
  <2> QED
    BY <2>1, HexPrintsWell
<1> QED
  BY <1>1, <1>2, <1>3, <1>4

(* The text is one of bytes.                                               *)
BytesInv == bytes \in Seq(SomeBytes)

(* The text is empty at first.                                             *)
LEMMA BytesInitially == HelpersInit => BytesInv
BY DEF HelpersInit, BytesInv

(* It stays made of the bytes that are tried.                              *)
LEMMA BytesRemain == BytesInv /\ [HelpersNext]_helperVars => BytesInv'
<1> SUFFICES ASSUME BytesInv, [HelpersNext]_helperVars
             PROVE  BytesInv'
  OBVIOUS
<1>1. CASE NextByte
  BY <1>1 DEF NextByte, BytesInv
<1>2. CASE UNCHANGED bytes
  BY <1>2 DEF BytesInv
<1> QED
  BY <1>1, <1>2 DEF HelpersNext, TrackerStep, CharData_AppendXMLChars, CharData_Init,
     StructData_AddItem, StructData_Init, StructData_Dispose, StructData_CheckItems,
     Update, helperVars

(* unsignedCharToPrintable() gives each byte a text of its own, in graphic *)
(* characters, of which the first tells whether it is an escape: a message *)
(* of the test can be read back.                                           *)
THEOREM BytesPrintApart == HelpersSpec => []PrintsApart
<1>1. BytesInv => PrintsApart
  <2> SUFFICES ASSUME bytes \in Seq(SomeBytes) PROVE PrintsApart
    BY DEF BytesInv
  <2> DEFINE image == [c \in 0 .. 255 |-> unsignedCharToPrintable(c)]
  <2>1. \A c \in 0 .. 255 : PrintsWell(c, image[c])
    BY BytesPrintWell
  <2>2. {bytes[k] : k \in DOMAIN bytes} \union {0, 34, Backslash} \subseteq 0 .. 255
    <3>1. {bytes[k] : k \in DOMAIN bytes} \subseteq SomeBytes
      OBVIOUS
    <3>2. SomeBytes \union {0, 34, Backslash} \subseteq 0 .. 255
      BY DEF SomeBytes, Backslash
    <3> QED
      BY <3>1, <3>2
  <2> HIDE DEF image
  <2>3. ASSUME NEW c \in {bytes[k] : k \in DOMAIN bytes} \union {0, 34, Backslash}
        PROVE  /\ \A d \in 0 .. 255 : image[d] = image[c] => d = c
               /\ \A k \in DOMAIN image[c] : image[c][k] \in 32 .. 126
               /\ image[c][1] = Backslash <=> Len(image[c]) > 1
    <3>1. c \in 0 .. 255
      BY <2>2
    <3>2. PrintsWell(c, image[c])
      BY <2>1, <3>1
    <3>3. ASSUME NEW d \in 0 .. 255, image[d] = image[c] PROVE d = c
      <4>1. PrintsWell(d, image[d])
        BY <2>1
      <4> QED
        BY <3>2, <3>3, <4>1 DEF PrintsWell
    <3> QED
      BY <3>2, <3>3 DEF PrintsWell
  <2> QED
    BY <2>3 DEF PrintsApart, image
<1> QED
  BY <1>1, BytesInitially, BytesRemain, PTL DEF HelpersSpec

-------------------------------------------------------------------------------
(* One step back of the trimming, with f for the steps after it.           *)
Walk(s, lim, walked, f) ==
  IF lim = 0 THEN 0
  ELSE LET n == LeadOf(s[lim]) IN
       IF n = 1 THEN lim
       ELSE IF n > 1 /\ walked + 1 >= n THEN lim + n - 1
       ELSE f[lim - 1][IF n > 1 THEN 1 ELSE walked + 1]

(* All steps back.                                                         *)
Walks(s, f) ==
  /\ \A lim \in 0 .. Len(s), walked \in Nat : f[lim][walked] = Walk(s, lim, walked, f)
  /\ f[Len(s)][0] = trim_to_complete_utf8_characters(s)

(* A lead byte announces 4 bytes at most.                                  *)
LEMMA LeadIsNat == ASSUME NEW b PROVE LeadOf(b) \in 0 .. 4
BY DEF LeadOf

(* There is a function with the equations of the walk back: it is extended *)
(* by one byte at a time.                                                  *)
LEMMA WalksExist ==
  ASSUME NEW s, Len(s) \in Nat
  PROVE  \E f : Walks(s, f)
<1> DEFINE n == Len(s)
           Rec(m, f) == [lim \in 0 .. m |-> [walked \in Nat |-> Walk(s, lim, walked, f)]]
           E == {m \in Nat : \E f : f = Rec(m, f)}
<1>1. 0 \in E
  <2> DEFINE z == [lim \in 0 .. 0 |-> [walked \in Nat |-> 0]]
  <2>1. ASSUME NEW lim \in 0 .. 0, NEW walked \in Nat
        PROVE  Walk(s, lim, walked, z) = 0
    BY DEF Walk
  <2>2. z = Rec(0, z)
    BY <2>1
  <2> HIDE DEF z, Rec
  <2> SUFFICES \E f : f = Rec(0, f)
    OBVIOUS
  <2> QED
    BY <2>2
<1>2. ASSUME NEW m \in Nat, m \in E PROVE m + 1 \in E
  <2> HIDE DEF Rec
  <2> SUFFICES \E f : f = Rec(m + 1, f)
    OBVIOUS
  <2>1. PICK g : g = Rec(m, g)
    BY <1>2
  <2> USE DEF Rec
  <2>2. \A lim \in 0 .. m, walked \in Nat : g[lim][walked] = Walk(s, lim, walked, g)
    <3>1. \A lim \in 0 .. m : g[lim] = [walked \in Nat |-> Walk(s, lim, walked, g)]
      BY <2>1, Zenon
    <3> QED
      BY <3>1
  <2> DEFINE q == [lim \in 0 .. m + 1 |->
                     IF lim = m + 1 THEN [walked \in Nat |-> Walk(s, lim, walked, g)]
                     ELSE g[lim]]
  <2>3. ASSUME NEW lim \in 0 .. m + 1, NEW walked \in Nat
        PROVE  q[lim][walked] = Walk(s, lim, walked, q)
    <3>1. \A l \in 0 .. m : q[l] = g[l]
      <4> SUFFICES ASSUME NEW l \in 0 .. m PROVE q[l] = g[l]
        OBVIOUS
      <4>1. l \in 0 .. m + 1 /\ l # m + 1
        OBVIOUS
      <4> QED
        BY <4>1
    <3>2. q[lim] = IF lim = m + 1 THEN [w \in Nat |-> Walk(s, lim, w, g)] ELSE g[lim]
      OBVIOUS
    <3> HIDE DEF q
    <3>3. q[lim][walked] = Walk(s, lim, walked, g)
      <4>1. lim # m + 1 => lim \in 0 .. m
        OBVIOUS
      <4> QED
        BY <2>2, <3>2, <4>1
    <3>4. Walk(s, lim, walked, g) = Walk(s, lim, walked, q)
      <4>1. CASE lim = 0
        BY <4>1 DEF Walk
      <4>2. CASE lim # 0
        <5> DEFINE w == IF LeadOf(s[lim]) > 1 THEN 1 ELSE walked + 1
        <5>1. lim - 1 \in 0 .. m /\ w \in Nat
          BY <4>2
        <5>2. q[lim - 1] = g[lim - 1]
          BY <3>1, <5>1
        <5> QED
          BY <5>2, Zenon DEF Walk
      <4> QED
        BY <4>1, <4>2
    <3> QED
      BY <3>3, <3>4
  <2>4. q = [lim \in 0 .. m + 1 |-> [walked \in Nat |-> q[lim][walked]]]
    <3>1. q = [lim \in 0 .. m + 1 |-> q[lim]]
      OBVIOUS
    <3>2. ASSUME NEW lim \in 0 .. m + 1
          PROVE  q[lim] = [walked \in Nat |-> q[lim][walked]]
      <4>1. CASE lim = m + 1
        BY <4>1
      <4>2. CASE lim # m + 1
        <5>1. lim \in 0 .. m
          BY <4>2
        <5>2. q[lim] = g[lim]
          BY <4>2
        <5>3. g[lim] = [walked \in Nat |-> Walk(s, lim, walked, g)]
          BY <2>1, <5>1, Zenon
        <5> HIDE DEF q
        <5> QED
          BY <5>2, <5>3
      <4> QED
        BY <4>1, <4>2
    <3> HIDE DEF q
    <3> QED
      BY <3>1, <3>2
  <2>5. q = Rec(m + 1, q)
    <3> HIDE DEF q
    <3> QED
      BY <2>3, <2>4
  <2> HIDE DEF q, Rec
  <2> QED
    BY <2>5
<1>3. n \in E
  <2> HIDE DEF E
  <2> QED
    BY <1>1, <1>2, NatSetInduction
<1>4. PICK f : f = (CHOOSE g : g = Rec(n, g)) /\ f = Rec(n, f)
  <2>1. \E g : g = Rec(n, g)
    <3> HIDE DEF Rec
    <3> QED
      BY <1>3
  <2> HIDE DEF Rec
  <2> QED
    BY <2>1, Zenon
<1>5. \A lim \in 0 .. n, walked \in Nat : f[lim][walked] = Walk(s, lim, walked, f)
  <2>1. \A lim \in 0 .. n : f[lim] = [walked \in Nat |-> Walk(s, lim, walked, f)]
    BY <1>4, Zenon
  <2> QED
    BY <2>1
<1>6. f[n][0] = trim_to_complete_utf8_characters(s)
  BY <1>4, Zenon DEF trim_to_complete_utf8_characters, Walk
<1> QED
  BY <1>5, <1>6 DEF Walks

(* A character between two ends.                                           *)
Between(s, m, n) ==
  /\ LeadOf(s[m + 1]) = n - m
  /\ \A k \in m + 2 .. n : LeadOf(s[k]) = 0

(* A piece of a text is a character if its bytes are one where they stand. *)
LEMMA CharacterBetween ==
  ASSUME NEW T, NEW s \in Seq(T), NEW n \in 1 .. Len(s), NEW m \in 0 .. n - 1
  PROVE  IsCharacter(SubSeq(s, m + 1, n)) <=> Between(s, m, n)
<1> DEFINE t == SubSeq(s, m + 1, n)
<1>1. /\ Len(t) = n - m /\ t # <<>>
      /\ \A k \in 1 .. n - m : t[k] = s[m + k]
  <2>1. \A k \in m + 1 .. n : s[k] \in T
    OBVIOUS
  <2>2. m + 1 \in Int /\ n \in Int /\ m + 1 <= n /\ n - (m + 1) + 1 = n - m /\ n - m > 0
    OBVIOUS
  <2>3. /\ t \in Seq(T)
        /\ Len(t) = IF m + 1 <= n THEN n - (m + 1) + 1 ELSE 0
        /\ \A k \in 1 .. n - (m + 1) + 1 : t[k] = s[(m + 1) + k - 1]
    BY <2>1, <2>2, SubSeqProperties
  <2> HIDE DEF t
  <2>4. ASSUME NEW k \in 1 .. n - m PROVE t[k] = s[m + k]
    <3>1. (m + 1) + k - 1 = m + k
      OBVIOUS
    <3> QED
      BY <2>2, <2>3, <3>1
  <2> QED
    BY <2>2, <2>3, <2>4
<1> HIDE DEF t
<1>2. t[1] = s[m + 1]
  <2>1. 1 \in 1 .. n - m
    OBVIOUS
  <2> QED
    BY <1>1, <2>1
<1>3. (\A k \in 2 .. Len(t) : LeadOf(t[k]) = 0) <=> \A k \in m + 2 .. n : LeadOf(s[k]) = 0
  <2>1. ASSUME \A k \in 2 .. Len(t) : LeadOf(t[k]) = 0, NEW k \in m + 2 .. n
        PROVE  LeadOf(s[k]) = 0
    <3>1. k - m \in 2 .. Len(t) /\ k - m \in 1 .. n - m /\ m + (k - m) = k
      BY <1>1
    <3> QED
      BY <1>1, <2>1, <3>1
  <2>2. ASSUME \A k \in m + 2 .. n : LeadOf(s[k]) = 0, NEW k \in 2 .. Len(t)
        PROVE  LeadOf(t[k]) = 0
    <3>1. m + k \in m + 2 .. n /\ k \in 1 .. n - m
      BY <1>1
    <3> QED
      BY <1>1, <2>2, <3>1
  <2> QED
    BY <2>1, <2>2
<1>4. IsCharacter(t) <=> Len(t) = LeadOf(t[1]) /\ \A k \in 2 .. Len(t) : LeadOf(t[k]) = 0
  BY <1>1 DEF IsCharacter
<1> QED
  BY <1>1, <1>2, <1>3, <1>4 DEF Between, t

(* The ends of a text are 0 and those of the characters that follow one.   *)
LEMMA EndsUnfold ==
  ASSUME NEW T, NEW s \in Seq(T)
  PROVE  /\ 0 \in Ends(s)
         /\ Ends(s) \subseteq 0 .. Len(s)
         /\ \A n \in 1 .. Len(s) :
              n \in Ends(s) <=> \E m \in 0 .. n - 1 : m \in Ends(s) /\ Between(s, m, n)
<1> DEFINE len == Len(s)
           IsEnd(n, f) == n = 0 \/ \E m \in 0 .. n - 1 : f[m] /\ IsCharacter(SubSeq(s, m + 1, n))
           Rec(k, f) == [n \in 0 .. k |-> IsEnd(n, f)]
           E == {k \in Nat : \E f : f = Rec(k, f)}
<1>1. 0 \in E
  <2> DEFINE z == [n \in 0 .. 0 |-> TRUE]
  <2>1. \A n \in 0 .. 0 : IsEnd(n, z) = TRUE
    OBVIOUS
  <2>2. z = Rec(0, z)
    <3> HIDE DEF IsEnd
    <3> QED
      BY <2>1
  <2> HIDE DEF z, Rec
  <2> SUFFICES \E f : f = Rec(0, f)
    OBVIOUS
  <2> QED
    BY <2>2
<1>2. ASSUME NEW k \in Nat, k \in E PROVE k + 1 \in E
  <2> HIDE DEF Rec, IsEnd
  <2> SUFFICES \E f : f = Rec(k + 1, f)
    OBVIOUS
  <2>1. PICK g : g = Rec(k, g)
    BY <1>2
  <2>2. \A n \in 0 .. k : g[n] = IsEnd(n, g)
    BY <2>1, Zenon DEF Rec
  <2> DEFINE q == [n \in 0 .. k + 1 |-> IF n = k + 1 THEN IsEnd(k + 1, g) ELSE g[n]]
  <2>3. \A n \in 0 .. k : q[n] = g[n]
    <3> SUFFICES ASSUME NEW n \in 0 .. k PROVE q[n] = g[n]
      OBVIOUS
    <3>1. n \in 0 .. k + 1 /\ n # k + 1
      OBVIOUS
    <3> QED
      BY <3>1
  <2>4. \A n \in 0 .. k + 1 : q[n] = IF n = k + 1 THEN IsEnd(k + 1, g) ELSE g[n]
    OBVIOUS
  <2>5. q = [n \in 0 .. k + 1 |-> q[n]]
    OBVIOUS
  <2> HIDE DEF q
  <2>6. ASSUME NEW n \in 0 .. k + 1 PROVE q[n] = IsEnd(n, q)
    <3>1. q[n] = IsEnd(n, g)
      <4>1. n # k + 1 => n \in 0 .. k
        OBVIOUS
      <4> QED
        BY <2>2, <2>4, <4>1
    <3>2. IsEnd(n, g) = IsEnd(n, q)
      <4>1. \A m \in 0 .. n - 1 : m \in 0 .. k /\ q[m] = g[m]
        BY <2>3
      <4> QED
        BY <4>1, Zenon DEF IsEnd
    <3> QED
      BY <3>1, <3>2
  <2>7. q = Rec(k + 1, q)
    BY <2>5, <2>6 DEF Rec
  <2> QED
    BY <2>7
<1>3. len \in E
  <2>1. len \in Nat
    OBVIOUS
  <2> HIDE DEF E, len
  <2> QED
    BY <1>1, <1>2, <2>1, NatSetInduction
<1>4. PICK f : f = (CHOOSE g : g = Rec(len, g)) /\ f = Rec(len, f)
  <2>1. \E g : g = Rec(len, g)
    <3> HIDE DEF Rec
    <3> QED
      BY <1>3
  <2> HIDE DEF Rec
  <2> QED
    BY <2>1, Zenon
<1>5. \A n \in 0 .. len : f[n] = IsEnd(n, f)
  <2> HIDE DEF IsEnd
  <2> QED
    BY <1>4, Zenon
<1>6. Ends(s) = {n \in 0 .. len : f[n]}
  BY <1>4, Zenon DEF Ends
<1> HIDE DEF Rec, E
<1>7. 0 \in Ends(s)
  <2>1. 0 \in 0 .. len
    OBVIOUS
  <2>2. f[0] = IsEnd(0, f)
    BY <1>5, <2>1
  <2>3. IsEnd(0, f)
    OBVIOUS
  <2> HIDE DEF IsEnd
  <2> QED
    BY <1>6, <2>1, <2>2, <2>3
<1>8. ASSUME NEW n \in 1 .. Len(s)
      PROVE  n \in Ends(s) <=> \E m \in 0 .. n - 1 : m \in Ends(s) /\ Between(s, m, n)
  <2>1. n \in 0 .. len /\ n # 0 /\ \A m \in 0 .. n - 1 : m \in 0 .. len
    OBVIOUS
  <2>2. n \in Ends(s) <=> IsEnd(n, f)
    <3> HIDE DEF IsEnd
    <3> QED
      BY <1>5, <1>6, <2>1
  <2>3. \A m \in 0 .. n - 1 : IsCharacter(SubSeq(s, m + 1, n)) <=> Between(s, m, n)
    BY CharacterBetween
  <2>4. \A m \in 0 .. n - 1 : f[m] <=> m \in Ends(s)
    <3> HIDE DEF IsEnd
    <3> QED
      BY <1>5, <1>6, <2>1
  <2> QED
    BY <2>1, <2>2, <2>3, <2>4, Zenon
<1> QED
  BY <1>6, <1>7, <1>8

-------------------------------------------------------------------------------
(* Continuation bytes are walked over.                                     *)
Continued(s, low, lim) == \A k \in low + 1 .. lim : LeadOf(s[k]) = 0

(* Over bytes that continue a character the walk counts, and does nothing  *)
(* else.                                                                   *)
LEMMA WalksOver ==
  ASSUME NEW s, Len(s) \in Nat, NEW f, Walks(s, f),
         NEW lim \in 0 .. Len(s), NEW walked \in Nat, NEW low \in 0 .. lim,
         Continued(s, low, lim)
  PROVE  f[lim][walked] = f[low][walked + (lim - low)]
<1> DEFINE P == {i \in Nat : i <= lim - low => f[lim][walked] = f[lim - i][walked + i]}
<1>1. 0 \in P
  OBVIOUS
<1>2. ASSUME NEW i \in Nat, i \in P PROVE i + 1 \in P
  <2> SUFFICES ASSUME i + 1 <= lim - low
               PROVE  f[lim][walked] = f[lim - (i + 1)][walked + (i + 1)]
    OBVIOUS
  <2>1. f[lim][walked] = f[lim - i][walked + i]
    BY <1>2
  <2>2. /\ lim - i \in 1 .. Len(s) /\ lim - i \in 0 .. Len(s) /\ lim - i # 0 /\ walked + i \in Nat
        /\ lim - i \in low + 1 .. lim
        /\ (lim - i) - 1 = lim - (i + 1) /\ (walked + i) + 1 = walked + (i + 1)
    OBVIOUS
  <2>3. f[lim - i][walked + i] = Walk(s, lim - i, walked + i, f)
    BY <2>2 DEF Walks
  <2>4. LeadOf(s[lim - i]) = 0
    BY <2>2 DEF Continued
  <2>5. Walk(s, lim - i, walked + i, f) = f[(lim - i) - 1][(walked + i) + 1]
    BY <2>2, <2>4 DEF Walk
  <2> QED
    BY <2>1, <2>2, <2>3, <2>5
<1>3. lim - low \in P
  <2>1. lim - low \in Nat
    OBVIOUS
  <2> HIDE DEF P
  <2> QED
    BY <1>1, <1>2, <2>1, NatSetInduction
<1>4. lim - (lim - low) = low /\ lim - low \in Nat
  OBVIOUS
<1> QED
  BY <1>3, <1>4

(* From the end of a character, the walk ends there.                       *)
LEMMA WalksToEnd ==
  ASSUME NEW T, NEW s \in Seq(T), NEW f, Walks(s, f),
         NEW n \in Ends(s), NEW walked \in {0, 1}
  PROVE  f[n][walked] = n
<1>1. n \in 0 .. Len(s) /\ walked \in Nat
  BY EndsUnfold
<1>2. CASE n = 0
  BY <1>1, <1>2 DEF Walks, Walk
<1>3. CASE n # 0
  <2>1. n \in 1 .. Len(s)
    BY <1>1, <1>3
  <2>2. PICK m \in 0 .. n - 1 : Between(s, m, n)
    BY <2>1, EndsUnfold
  <2> DEFINE j == n - (m + 1)
  <2>3. /\ m + 1 \in 0 .. n /\ m + 1 \in 0 .. Len(s) /\ walked + j \in Nat
        /\ m + 1 # 0 /\ (m + 1) + 1 = m + 2
    BY <1>1, <2>1
  <2>4. f[n][walked] = f[m + 1][walked + j]
    <3>1. Continued(s, m + 1, n)
      BY <2>2, <2>3 DEF Between, Continued
    <3>2. Len(s) \in Nat /\ n \in 0 .. Len(s) /\ walked \in Nat /\ m + 1 \in 0 .. n
      BY <1>1, <2>3
    <3> DEFINE low == m + 1
    <3> HIDE DEF low
    <3>3. low \in 0 .. n /\ Continued(s, low, n)
      BY <3>1, <3>2 DEF low
    <3>4. f[n][walked] = f[low][walked + (n - low)]
      BY <3>2, <3>3, WalksOver
    <3> QED
      BY <3>4 DEF low
  <2>5. f[m + 1][walked + j] = Walk(s, m + 1, walked + j, f)
    BY <2>3 DEF Walks
  <2>6. Walk(s, m + 1, walked + j, f) = n
    <3>1. LeadOf(s[m + 1]) = n - m
      BY <2>2 DEF Between
    <3>2. CASE n - m = 1
      BY <2>1, <2>3, <3>1, <3>2 DEF Walk
    <3>3. CASE n - m # 1
      <4>1. n - m > 1 /\ (walked + j) + 1 >= n - m /\ (m + 1) + (n - m) - 1 = n
        BY <2>1, <3>3
      <4> QED
        BY <2>3, <3>1, <4>1 DEF Walk
    <3> QED
      BY <3>2, <3>3
  <2> QED
    BY <2>3, <2>4, <2>5, <2>6
<1> QED
  BY <1>2, <1>3

(* trim_to_complete_utf8_characters() cuts a text that is well-formed so   *)
(* far exactly after its last complete character.                          *)
LEMMA TrimsBeginnings ==
  ASSUME NEW T, NEW s \in Seq(T), Beginning(s)
  PROVE  /\ trim_to_complete_utf8_characters(s) \in Ends(s)
         /\ \A m \in Ends(s) : m <= trim_to_complete_utf8_characters(s)
<1> DEFINE len == Len(s)
<1>0. len \in Nat
  OBVIOUS
<1>1. PICK n \in Ends(s) :
        \/ n = len
        \/ LeadOf(s[n + 1]) > len - n /\ \A k \in n + 2 .. len : LeadOf(s[k]) = 0
  BY DEF Beginning
<1>2. n \in 0 .. len
  BY EndsUnfold
<1>3. PICK f : Walks(s, f)
  BY <1>0, WalksExist
<1>4. f[len][0] = n
  <2>1. CASE n = len
    BY <1>3, <2>1, WalksToEnd
  <2>2. CASE n # len
    <3> DEFINE j == len - (n + 1)
    <3>1. /\ n + 1 \in 0 .. len /\ n + 1 # 0 /\ (n + 1) + 1 = n + 2
          /\ len \in 0 .. len /\ 0 + j = j /\ j \in Nat /\ (n + 1) - 1 = n
      BY <1>0, <1>2, <2>2
    <3>2. f[len][0] = f[n + 1][j]
      <4>1. Continued(s, n + 1, len)
        BY <1>1, <2>2, <3>1 DEF Continued
      <4> DEFINE low == n + 1
      <4> HIDE DEF low
      <4>2. low \in 0 .. Len(s) /\ Continued(s, low, Len(s))
        BY <3>1, <4>1 DEF low
      <4>3. Len(s) \in Nat /\ Len(s) \in 0 .. Len(s) /\ 0 \in Nat
        BY <1>0
      <4>4. f[Len(s)][0] = f[low][0 + (Len(s) - low)]
        BY <1>3, <4>2, <4>3, WalksOver
      <4>5. 0 + (Len(s) - low) = j
        BY <1>0, <1>2 DEF low
      <4> QED
        BY <4>4, <4>5 DEF low
    <3>3. f[n + 1][j] = Walk(s, n + 1, j, f)
      BY <1>3, <3>1 DEF Walks
    <3>4. Walk(s, n + 1, j, f) = f[n][1]
      <4> DEFINE lead == LeadOf(s[n + 1])
      <4>1. lead \in Nat /\ lead > len - n
        BY <1>1, <2>2, LeadIsNat
      <4>2. lead > 1 /\ ~(j + 1 >= lead) /\ lead # 1
        <5> HIDE DEF lead
        <5> QED
          BY <1>0, <1>2, <2>2, <4>1
      <4> QED
        BY <3>1, <4>2 DEF Walk
    <3>5. f[n][1] = n
      BY <1>3, WalksToEnd
    <3> QED
      BY <3>1, <3>2, <3>3, <3>4, <3>5
  <2> QED
    BY <2>1, <2>2
<1>5. ASSUME NEW m \in Ends(s) PROVE m <= n
  <2>1. m \in 0 .. len
    BY EndsUnfold
  <2>2. SUFFICES ASSUME m > n PROVE FALSE
    BY <1>2, <2>1
  <2>3. m \in 1 .. len /\ n # len
    BY <1>2, <2>1, <2>2
  <2>4. PICK p \in 0 .. m - 1 : Between(s, p, m)
    BY <2>3, EndsUnfold
  <2>5. LeadOf(s[n + 1]) > len - n /\ \A k \in n + 2 .. len : LeadOf(s[k]) = 0
    BY <1>1, <2>3
  <2>6. LeadOf(s[p + 1]) = m - p /\ m - p > 0
    BY <2>3, <2>4 DEF Between
  <2>7. ~(p + 1 \in n + 2 .. len)
    BY <2>3, <2>5, <2>6
  <2>8. p <= n
    BY <1>2, <2>3, <2>7
  <2>9. CASE p = n
    BY <1>2, <2>1, <2>5, <2>6, <2>9
  <2>10. CASE p < n
    <3>1. n + 1 \in p + 2 .. m
      BY <1>2, <2>2, <2>3, <2>10
    <3>2. LeadOf(s[n + 1]) = 0
      BY <2>4, <3>1 DEF Between
    <3> QED
      BY <1>2, <2>3, <2>5, <3>2
  <2> QED
    BY <1>2, <2>3, <2>8, <2>9, <2>10
<1>6. trim_to_complete_utf8_characters(s) = n
  BY <1>3, <1>4 DEF Walks
<1> QED
  BY <1>5, <1>6

(* trim_to_complete_utf8_characters() takes away the incomplete character  *)
(* at the end of a text and nothing else, for texts of any length.         *)
THEOREM TextsTrimToComplete == HelpersSpec => []TrimsToComplete
<1>1. BytesInv => TrimsToComplete
  BY TrimsBeginnings DEF BytesInv, TrimsToComplete
<1> QED
  BY <1>1, BytesInitially, BytesRemain, PTL DEF HelpersSpec

===============================================================================
