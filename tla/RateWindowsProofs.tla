-------------------------- MODULE RateWindowsProofs --------------------------
(***************************************************************************)
(* Lemmas about counter tables: what a lookup returns after an upsert and  *)
(* after a pruning, what a table counts in a set of rows, and where the    *)
(* window of a moment begins.                                              *)
(***************************************************************************)
EXTENDS RateWindows, FiniteSetTheorems, TLAPS

IsTable(t) == t \in [DOMAIN t -> Nat]

LEMMA CountIsNat ==
    ASSUME NEW t, IsTable(t), NEW row
    PROVE  Count(t, row) \in Nat
BY DEF IsTable, Count

LEMMA AddToIsTable ==
    ASSUME NEW t, IsTable(t), NEW rows, NEW cost \in Nat
    PROVE  /\ IsTable(AddTo(t, rows, cost))
           /\ DOMAIN AddTo(t, rows, cost) = DOMAIN t \cup rows
BY DEF IsTable, AddTo, Count

\* An upsert adds its cost to the rows it names and to no other.
LEMMA CountAddTo ==
    ASSUME NEW t, IsTable(t), NEW rows, NEW cost \in Nat, NEW row
    PROVE  Count(AddTo(t, rows, cost), row) = Count(t, row) + (IF row \in rows THEN cost ELSE 0)
BY DEF IsTable, AddTo, Count

LEMMA WithoutIsTable ==
    ASSUME NEW t, IsTable(t), NEW rows
    PROVE  /\ IsTable(Without(t, rows))
           /\ DOMAIN Without(t, rows) = DOMAIN t \ rows
BY DEF IsTable, Without

LEMMA CountWithout ==
    ASSUME NEW t, IsTable(t), NEW rows, NEW row
    PROVE  Count(Without(t, rows), row) = IF row \in rows THEN 0 ELSE Count(t, row)
BY DEF IsTable, Without, Count

\* A pruning deletes expired rows only.
LEMMA BatchIsExpired ==
    ASSUME NEW expired, NEW start, NEW limit, NEW batch \in Batches(expired, start, limit)
    PROVE  batch \subseteq expired
BY DEF Batches

---------------------------------------------------------------------------
(* What a table counts in a set of rows. *)

LEMMA SameUnits ==
    ASSUME NEW t, NEW s, NEW rows, \A row \in rows : Count(s, row) = Count(t, row)
    PROVE  Units(s, rows) = Units(t, rows) /\ Total(s, rows) = Total(t, rows)
<1>1. Units(s, rows) = Units(t, rows)
  BY DEF Units
<1> QED BY <1>1 DEF Total

LEMMA NoUnits ==
    ASSUME NEW t, NEW rows, \A row \in rows : Count(t, row) = 0
    PROVE  IsFiniteSet(Units(t, rows)) /\ Total(t, rows) = 0
<1>1. Units(t, rows) = {}
  BY DEF Units
<1> QED BY <1>1, FS_EmptySet DEF Total

LEMMA TotalIsNat ==
    ASSUME NEW t, NEW rows, IsFiniteSet(Units(t, rows))
    PROVE  Total(t, rows) \in Nat
BY FS_CardinalityType DEF Total

\* One row counts more, the others what they counted before.
LEMMA MoreUnits ==
    ASSUME NEW t, NEW s, NEW rows, NEW row \in rows, NEW cost \in Nat, Count(t, row) \in Nat,
           IsFiniteSet(Units(t, rows)), Count(s, row) = Count(t, row) + cost,
           \A other \in rows \ {row} : Count(s, other) = Count(t, other)
    PROVE  IsFiniteSet(Units(s, rows)) /\ Total(s, rows) = Total(t, rows) + cost
<1> DEFINE n == Count(t, row)
           New == {row} \X (n + 1..n + cost)
           Old == Units(t, rows)
<1>1. Units(s, rows) = Old \cup New
  <2>1. ASSUME NEW r \in rows, NEW m \in 1..Count(s, r) PROVE <<r, m>> \in Old \cup New
    <3>1. CASE r = row
      BY <2>1, <3>1 DEF Units
    <3>2. CASE r # row
      BY <2>1, <3>2 DEF Units
    <3> QED BY <3>1, <3>2
  <2>2. ASSUME NEW r \in rows, NEW m \in 1..Count(t, r) PROVE <<r, m>> \in Units(s, rows)
    <3>1. m \in 1..Count(s, r)
      BY <2>2
    <3> QED BY <3>1 DEF Units
  <2>3. ASSUME NEW m \in n + 1..n + cost PROVE <<row, m>> \in Units(s, rows)
    <3>1. m \in 1..Count(s, row)
      OBVIOUS
    <3> QED BY <3>1 DEF Units
  <2>4. Units(s, rows) \subseteq Old \cup New
    BY <2>1 DEF Units
  <2>5. Old \subseteq Units(s, rows)
    BY <2>2 DEF Units
  <2>6. New \subseteq Units(s, rows)
    BY <2>3
  <2> QED BY <2>4, <2>5, <2>6
<1>2. Old \cap New = {}
  BY DEF Units
<1>3. IsFiniteSet(New) /\ Cardinality(New) = cost
  <2>1. PICK first \in Int, last \in Int : first = n + 1 /\ last = n + cost
    OBVIOUS
  <2> DEFINE Numbers == first..last
             f == [m \in Numbers |-> <<row, m>>]
  <2>2. IsFiniteSet(Numbers) /\ Cardinality(Numbers) = IF first > last THEN 0 ELSE last - first + 1
    BY FS_Interval
  <2>3. Cardinality(Numbers) = cost
    <3> HIDE DEF Numbers
    <3> QED BY <2>1, <2>2
  <2>4. New = {row} \X Numbers
    BY <2>1
  <2> HIDE DEF New, Numbers
  <2>5. f \in Bijection(Numbers, New)
    <3>1. f \in [Numbers -> New]
      BY <2>4
    <3>2. \A x \in New : \E m \in Numbers : f[m] = x
      BY <2>4
    <3>3. \A l, m \in Numbers : f[l] = f[m] => l = m
      OBVIOUS
    <3> QED BY <3>1, <3>2, <3>3 DEF Bijection, Injection, Surjection, IsInjective
  <2> QED BY <2>2, <2>3, <2>5, FS_Bijection DEF ExistsBijection
<1> HIDE DEF New, Old
<1>4. IsFiniteSet(Old \cup New) /\ Cardinality(Old \cup New) = Cardinality(Old) + cost
  <2>1. Cardinality(Old \cap New) = 0
    BY <1>2, FS_EmptySet
  <2>2. IsFiniteSet(Old) /\ Cardinality(Old) \in Nat
    BY FS_CardinalityType DEF Old
  <2>3. /\ IsFiniteSet(Old \cup New)
        /\ Cardinality(Old \cup New) = Cardinality(Old) + Cardinality(New) - Cardinality(Old \cap New)
    BY <1>3, <2>2, FS_Union
  <2> QED BY <1>3, <2>1, <2>2, <2>3
<1> QED BY <1>1, <1>4 DEF Old, Total

LEMMA OneMoreUnit ==
    ASSUME NEW t, NEW s, NEW rows, NEW row \in rows, Count(t, row) \in Nat,
           IsFiniteSet(Units(t, rows)), Count(s, row) = Count(t, row) + 1,
           \A other \in rows \ {row} : Count(s, other) = Count(t, other)
    PROVE  IsFiniteSet(Units(s, rows)) /\ Total(s, rows) = Total(t, rows) + 1
BY MoreUnits

\* A row counts no more than the rows it is one of.
LEMMA PartOfTotal ==
    ASSUME NEW t, NEW rows, NEW row \in rows, Count(t, row) \in Nat, IsFiniteSet(Units(t, rows))
    PROVE  Total(t, rows) \in Nat /\ Count(t, row) <= Total(t, rows)
<1>1. IsFiniteSet(Units(EmptyTable, {row})) /\ Total(EmptyTable, {row}) = 0
  <2>1. \A r \in {row} : Count(EmptyTable, r) = 0
    BY DEF EmptyTable, Count
  <2> QED BY <2>1, NoUnits
<1>2. IsFiniteSet(Units(t, {row})) /\ Total(t, {row}) = Count(t, row)
  <2>1. Count(EmptyTable, row) = 0
    BY DEF EmptyTable, Count
  <2>2. Count(EmptyTable, row) \in Nat /\ Count(t, row) = Count(EmptyTable, row) + Count(t, row)
    BY <2>1
  <2>3. Total(t, {row}) = 0 + Count(t, row) /\ IsFiniteSet(Units(t, {row}))
    BY <1>1, <2>2, MoreUnits
  <2> QED BY <2>3
<1>3. Units(t, {row}) \subseteq Units(t, rows)
  BY DEF Units
<1> QED BY <1>2, <1>3, FS_Subset, TotalIsNat DEF Total

---------------------------------------------------------------------------
(* The window of a moment. *)

LEMMA WindowStartIsNat ==
    ASSUME NEW t \in Nat, NEW length \in Nat \ {0}
    PROVE  WindowStart(t, length) \in Nat
BY DEF WindowStart

\* A window begins no later than the moment, and less than its length before it.
LEMMA WindowHasMoment ==
    ASSUME NEW t \in Nat, NEW length \in Nat \ {0}
    PROVE  WindowStart(t, length) <= t /\ t < WindowStart(t, length) + length
BY DEF WindowStart

\* The window that begins with the next moment is another one than the window of this.
LEMMA WindowAfter ==
    ASSUME NEW t \in Nat, NEW length \in Nat \ {0},
           WindowStart(t + 1, length) # WindowStart(t, length)
    PROVE  WindowStart(t + 1, length) > t
<1> DEFINE p == t \div length
           q == (t + 1) \div length
<1>1. p \in Nat /\ q \in Nat /\ p * length <= t /\ q * length <= t + 1
  BY WindowHasMoment DEF WindowStart
<1>2. t < p * length + length /\ t + 1 < q * length + length
  BY WindowHasMoment DEF WindowStart
<1>3. q # p
  BY DEF WindowStart
<1>4. q > p
  <2> SUFFICES ASSUME q + 1 <= p PROVE FALSE
    BY <1>1, <1>3
  <2> HIDE DEF p, q
  <2>1. (q + 1) * length <= p * length
    BY <1>1
  <2>2. (q + 1) * length = q * length + length
    BY <1>1
  <2> QED BY <1>1, <1>2, <2>1, <2>2
<1>5. q * length >= p * length + length
  <2> HIDE DEF p, q
  <2>1. p + 1 <= q
    BY <1>1, <1>4
  <2>2. (p + 1) * length <= q * length
    BY <1>1, <2>1
  <2>3. (p + 1) * length = p * length + length
    BY <1>1
  <2> QED BY <1>1, <2>2, <2>3
<1> QED BY <1>1, <1>2, <1>5 DEF WindowStart

\* Where windows of one length are so many of another's, a new one begins with a new one.
LEMMA NestedWindows ==
    ASSUME NEW t \in Nat, NEW length \in Nat \ {0}, NEW n \in Nat \ {0}, NEW whole, whole = n * length,
           WindowStart(t + 1, length) = WindowStart(t, length)
    PROVE  WindowStart(t + 1, whole) = WindowStart(t, whole)
<1> SUFFICES ASSUME WindowStart(t + 1, whole) # WindowStart(t, whole) PROVE FALSE
  OBVIOUS
<1>1. whole \in Nat \ {0}
  OBVIOUS
<1>2. WindowStart(t + 1, whole) = t + 1
  <2>1. WindowStart(t + 1, whole) \in Nat /\ WindowStart(t + 1, whole) <= t + 1
    BY <1>1, WindowStartIsNat, WindowHasMoment
  <2>2. WindowStart(t + 1, whole) > t
    BY <1>1, WindowAfter
  <2> QED BY <2>1, <2>2
<1> DEFINE q == (t + 1) \div whole
           p == t \div length
<1>3. t + 1 = q * whole /\ q \in Nat
  BY <1>1, <1>2 DEF WindowStart
<1>4. p \in Nat /\ p * length <= t /\ t + 1 < p * length + length
  <2>1. WindowStart(t, length) <= t /\ t + 1 < WindowStart(t + 1, length) + length
    BY WindowHasMoment
  <2> QED BY <2>1 DEF WindowStart
<1> HIDE DEF p, q
<1>5. PICK m \in Nat : m = q * n
  BY <1>3
<1>6. t + 1 = m * length
  BY <1>3, <1>5
<1>7. CASE m <= p
  <2>1. m * length <= p * length
    BY <1>4, <1>7
  <2> QED BY <1>4, <1>6, <2>1
<1>8. CASE p + 1 <= m
  <2>1. (p + 1) * length <= m * length
    BY <1>4, <1>8
  <2>2. (p + 1) * length = p * length + length
    BY <1>4
  <2>3. p * length \in Nat /\ m * length \in Nat
    BY <1>4
  <2> QED BY <1>4, <1>6, <2>1, <2>2, <2>3
<1> QED BY <1>4, <1>5, <1>7, <1>8
=============================================================================
