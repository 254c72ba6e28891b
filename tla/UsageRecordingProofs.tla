------------------------ MODULE UsageRecordingProofs ------------------------
(***************************************************************************)
(* What UsageRecording promises, for every number of processes, size of    *)
(* batch and buffer, and history of failures: no record is forgotten, the  *)
(* records of a process stay in order, the daily totals count the raw rows *)
(* and lastUsedAt is the latest of them.                                   *)
(*                                                                         *)
(* The inductive invariant IInv has four parts: the tables are of their    *)
(* types (Tables); each worker holds its own records, in order, a batch    *)
(* exactly while it awaits Convex, and one whose commit it does not know   *)
(* of is settled (WorkerKeeps); nobody has forgotten a record; and the     *)
(* ledger adds up.  A step either commits a batch (RecordUsageStep) or     *)
(* leaves the ledger alone (LedgerStays), and moves records between the    *)
(* batch and the buffer of one worker.                                     *)
(***************************************************************************)
EXTENDS UsageRecording, FiniteSetTheorems, SequenceTheorems, TLAPS

\* In the order of the requests.

Increasing(s) == \A i, j \in DOMAIN s : i < j => s[i] < s[j]

---------------------------------------------------------------------------
(* Sequences of records. *)

LEMMA ConcatElements ==
  ASSUME NEW s \in Seq(Nat), NEW t \in Seq(Nat)
  PROVE  s \o t \in Seq(Nat) /\ Elements(s \o t) = Elements(s) \cup Elements(t)
<1>1. /\ s \o t \in Seq(Nat) /\ Len(s \o t) = Len(s) + Len(t)
      /\ \A i \in 1..(Len(s) + Len(t)) : (s \o t)[i] = IF i <= Len(s) THEN s[i] ELSE t[i - Len(s)]
  BY ConcatProperties
<1>2. ASSUME NEW i \in DOMAIN s
      PROVE  i \in DOMAIN (s \o t) /\ (s \o t)[i] = s[i]
  BY <1>1
<1>3. ASSUME NEW i \in DOMAIN t
      PROVE  Len(s) + i \in DOMAIN (s \o t) /\ (s \o t)[Len(s) + i] = t[i]
  BY <1>1
<1>4. ASSUME NEW i \in DOMAIN (s \o t)
      PROVE  \/ i \in DOMAIN s /\ (s \o t)[i] = s[i]
             \/ i - Len(s) \in DOMAIN t /\ (s \o t)[i] = t[i - Len(s)]
  BY <1>1
<1>5. Elements(s) \cup Elements(t) \subseteq Elements(s \o t)
  BY <1>2, <1>3 DEF Elements
<1>6. Elements(s \o t) \subseteq Elements(s) \cup Elements(t)
  BY <1>4 DEF Elements
<1> QED
  BY <1>1, <1>5, <1>6

LEMMA IncreasingParts ==
  ASSUME NEW s \in Seq(Nat), NEW t \in Seq(Nat)
  PROVE  Increasing(s \o t) <=> /\ Increasing(s) /\ Increasing(t)
                                /\ \A x \in Elements(s), y \in Elements(t) : x < y
<1> DEFINE u == s \o t
<1>1. /\ u \in Seq(Nat) /\ Len(u) = Len(s) + Len(t)
      /\ \A i \in 1..(Len(s) + Len(t)) : u[i] = IF i <= Len(s) THEN s[i] ELSE t[i - Len(s)]
  BY ConcatProperties
<1> DEFINE m == Len(s)
           n == Len(t)
<1>6. /\ m \in Nat /\ n \in Nat /\ DOMAIN s = 1..m /\ DOMAIN t = 1..n /\ DOMAIN u = 1..(m + n)
      /\ \A i \in 1..(m + n) : u[i] = IF i <= m THEN s[i] ELSE t[i - m]
  BY <1>1
<1> HIDE DEF u, m, n
<1>2. \A i \in DOMAIN s : i \in DOMAIN u /\ u[i] = s[i]
  BY <1>6
<1>3. \A i \in DOMAIN t : m + i \in DOMAIN u /\ u[m + i] = t[i]
  <2> SUFFICES ASSUME NEW i \in DOMAIN t PROVE m + i \in DOMAIN u /\ u[m + i] = t[i]
    OBVIOUS
  <2>1. m + i \in 1..(m + n) /\ ~(m + i <= m) /\ m + i - m = i
    BY <1>6
  <2> QED
    BY <1>6, <2>1
<1>4. ASSUME Increasing(u)
      PROVE  /\ Increasing(s) /\ Increasing(t)
             /\ \A x \in Elements(s), y \in Elements(t) : x < y
  <2>1. \A i, j \in DOMAIN u : i < j => u[i] < u[j]
    BY <1>4 DEF Increasing
  <2>2. Increasing(s)
    BY <1>2, <2>1 DEF Increasing
  <2>3. ASSUME NEW i \in DOMAIN t, NEW j \in DOMAIN t, i < j
        PROVE  t[i] < t[j]
    <3>1. m + i < m + j
      BY <1>6, <2>3
    <3> QED
      BY <1>3, <2>1, <3>1
  <2>4. ASSUME NEW i \in DOMAIN s, NEW j \in DOMAIN t
        PROVE  s[i] < t[j]
    <3>1. i < m + j
      BY <1>6
    <3> QED
      BY <1>2, <1>3, <2>1, <3>1
  <2>5. Increasing(t)
    BY <2>3 DEF Increasing
  <2> QED
    BY <2>2, <2>4, <2>5 DEF Elements
<1>5. ASSUME Increasing(s), Increasing(t), \A x \in Elements(s), y \in Elements(t) : x < y
      PROVE  Increasing(u)
  <2>1. \A i \in DOMAIN s, j \in DOMAIN t : s[i] < t[j]
    BY <1>5 DEF Elements
  <2>2. ASSUME NEW i \in DOMAIN u, NEW j \in DOMAIN u, i < j
        PROVE  u[i] < u[j]
    <3>1. CASE j <= m
      <4>1. i \in DOMAIN s /\ j \in DOMAIN s /\ u[i] = s[i] /\ u[j] = s[j]
        BY <1>6, <2>2, <3>1
      <4> QED
        BY <1>5, <2>2, <4>1 DEF Increasing
    <3>2. CASE ~(j <= m) /\ i <= m
      <4>1. i \in DOMAIN s /\ j - m \in DOMAIN t /\ u[i] = s[i] /\ u[j] = t[j - m]
        BY <1>6, <3>2
      <4> QED
        BY <2>1, <4>1
    <3>3. CASE ~(i <= m)
      <4>1. /\ i - m \in DOMAIN t /\ j - m \in DOMAIN t /\ i - m < j - m
            /\ u[i] = t[i - m] /\ u[j] = t[j - m]
        BY <1>6, <2>2, <3>3
      <4> QED
        BY <1>5, <4>1 DEF Increasing
    <3> QED
      BY <1>6, <3>1, <3>2, <3>3
  <2> QED
    BY <2>2 DEF Increasing
<1> QED
  BY <1>4, <1>5 DEF u

LEMMA FirstAndRest ==
  ASSUME NEW s \in Seq(Nat), NEW n \in Nat
  PROVE  /\ First(s, n) \in Seq(Nat) /\ Rest(s, n) \in Seq(Nat)
         /\ First(s, n) \o Rest(s, n) = s
         /\ Len(First(s, n)) <= n
         /\ Len(Rest(s, n)) <= Len(s)
         /\ n > 0 /\ s # <<>> => First(s, n) # <<>>
<1> DEFINE k == IF n <= Len(s) THEN n ELSE Len(s)
<1>1. First(s, n) = SubSeq(s, 1, k) /\ k \in 0..Len(s) /\ k <= n
  BY DEF First
<1>2. Rest(s, n) = SubSeq(s, k + 1, Len(s))
  <2>1. CASE n <= Len(s)
    BY <2>1 DEF Rest
  <2>2. CASE ~(n <= Len(s))
    <3>1. n + 1 \in Int /\ Len(s) \in Int /\ Len(s) < n + 1
      BY <2>2
    <3>2. SubSeq(s, n + 1, Len(s)) = <<>>
      BY <3>1, SubSeqEmpty
    <3>3. k + 1 \in Int /\ Len(s) < k + 1
      BY <2>2
    <3>4. SubSeq(s, k + 1, Len(s)) = <<>>
      BY <3>1, <3>3, SubSeqEmpty
    <3> QED
      BY <3>2, <3>4 DEF Rest
  <2> QED
    BY <2>1, <2>2
<1>3. \A i \in 1..Len(s) : s[i] \in Nat
  OBVIOUS
<1>4. SubSeq(s, 1, k) \in Seq(Nat) /\ Len(SubSeq(s, 1, k)) = k
  BY <1>1, <1>3, SubSeqProperties
<1>5. SubSeq(s, k + 1, Len(s)) \in Seq(Nat) /\ Len(SubSeq(s, k + 1, Len(s))) <= Len(s)
  BY <1>1, <1>3, SubSeqProperties
<1>6. SubSeq(s, 1, k) \o SubSeq(s, k + 1, Len(s)) = s
  <2>1. 1 \in 1..(Len(s) + 1) /\ k \in (1 - 1)..Len(s) /\ Len(s) \in k..Len(s)
    BY <1>1
  <2> HIDE DEF k
  <2>2. SubSeq(s, 1, k) \o SubSeq(s, k + 1, Len(s)) = SubSeq(s, 1, Len(s))
    BY <2>1, ConcatAdjacentSubSeq
  <2> QED
    BY <2>2, SubSeqFull
<1>7. n > 0 /\ s # <<>> => SubSeq(s, 1, k) # <<>>
  BY <1>1, <1>4
<1> QED
  BY <1>1, <1>2, <1>4, <1>5, <1>6, <1>7

LEMMA AppendNext ==
  ASSUME NEW s \in Seq(Nat), NEW t \in Seq(Nat), NEW r \in Nat,
         Increasing(s \o t), \A x \in Elements(s \o t) : x < r
  PROVE  /\ Append(t, r) \in Seq(Nat) /\ Len(Append(t, r)) = Len(t) + 1
         /\ Elements(Append(t, r)) = Elements(t) \cup {r}
         /\ Increasing(s \o Append(t, r))
<1>1. Append(t, r) = t \o <<r>> /\ <<r>> \in Seq(Nat) /\ Append(s \o t, r) = (s \o t) \o <<r>>
  <2>1. s \o t \in Seq(Nat)
    BY ConcatProperties
  <2>2. Append(t, r) = t \o <<r>>
    BY AppendIsConcat
  <2>3. Append(s \o t, r) = (s \o t) \o <<r>>
    BY <2>1, AppendIsConcat
  <2>4. <<r>> \in Seq(Nat)
    OBVIOUS
  <2> QED
    BY <2>2, <2>3, <2>4
<1>2. s \o Append(t, r) = Append(s \o t, r)
  BY <1>1, ConcatAssociative
<1>3. Elements(Append(t, r)) = Elements(t) \cup {r}
  <2>1. Elements(<<r>>) = {r}
    BY DEF Elements
  <2> QED
    BY <1>1, <2>1, ConcatElements
<1>4. Increasing(Append(s \o t, r))
  <2> DEFINE q == s \o t
  <2>1. q \in Seq(Nat)
    BY ConcatProperties
  <2>2. \A x \in Elements(q) : x < r
    OBVIOUS
  <2>3. Increasing(q)
    OBVIOUS
  <2> HIDE DEF q
  <2>4. \A i \in DOMAIN q : q[i] < r
    BY <2>2 DEF Elements
  <2>5. Increasing(Append(q, r))
    BY <2>1, <2>3, <2>4 DEF Increasing
  <2> QED
    BY <2>5 DEF q
<1> QED
  BY <1>2, <1>3, <1>4

LEMMA DropOldest ==
  ASSUME NEW s \in Seq(Nat), NEW t \in Seq(Nat), t # <<>>, Increasing(s \o t)
  PROVE  /\ Tail(t) \in Seq(Nat) /\ Len(Tail(t)) = Len(t) - 1
         /\ Elements(t) = {Head(t)} \cup Elements(Tail(t))
         /\ Increasing(s \o Tail(t))
<1>1. /\ Tail(t) \in Seq(Nat) /\ Len(Tail(t)) = Len(t) - 1 /\ Head(t) = t[1]
      /\ \A i \in 1..Len(Tail(t)) : Tail(t)[i] = t[i + 1]
  BY HeadTailProperties
<1>2. Elements(t) = {Head(t)} \cup Elements(Tail(t))
  <2>1. ASSUME NEW i \in DOMAIN t
        PROVE  t[i] = Head(t) \/ (i - 1 \in DOMAIN Tail(t) /\ t[i] = Tail(t)[i - 1])
    BY <1>1
  <2>2. 1 \in DOMAIN t /\ \A i \in DOMAIN Tail(t) : i + 1 \in DOMAIN t
    BY <1>1
  <2>3. Elements(t) \subseteq {Head(t)} \cup Elements(Tail(t))
    BY <2>1 DEF Elements
  <2>4. {Head(t)} \cup Elements(Tail(t)) \subseteq Elements(t)
    BY <1>1, <2>2 DEF Elements
  <2> QED
    BY <2>3, <2>4
<1>3. Increasing(t) /\ Increasing(s) /\ \A x \in Elements(s), y \in Elements(t) : x < y
  BY IncreasingParts
<1>4. Increasing(Tail(t))
  <2>1. ASSUME NEW i \in DOMAIN Tail(t), NEW j \in DOMAIN Tail(t), i < j
        PROVE  Tail(t)[i] < Tail(t)[j]
    <3>1. i + 1 \in DOMAIN t /\ j + 1 \in DOMAIN t /\ i + 1 < j + 1
      BY <1>1, <2>1
    <3>2. t[i + 1] < t[j + 1]
      BY <1>3, <3>1 DEF Increasing
    <3> QED
      BY <1>1, <3>2
  <2> QED
    BY <2>1 DEF Increasing
<1>5. Increasing(s \o Tail(t))
  BY <1>1, <1>2, <1>3, <1>4, IncreasingParts
<1> QED
  BY <1>1, <1>2, <1>5

---------------------------------------------------------------------------
(* Bags of rows. *)

\* How many copies of elements of C there are in a bag.
CopiesOf(B, C) == Cardinality(UNION {{row} \X (1..B[row]) : row \in DOMAIN B \cap C})

\* The part of a bag that lies in C grows by as many copies as it is given new rows.
LEMMA AddedCopies ==
  ASSUME NEW old, old \in [DOMAIN old -> Nat \ {0}], IsFiniteSet(DOMAIN old),
         NEW P, IsFiniteSet(P), NEW C
  PROVE  /\ DOMAIN (old (+) SetToBag(P)) = DOMAIN old \cup P
         /\ old (+) SetToBag(P) \in [DOMAIN old \cup P -> Nat \ {0}]
         /\ CopiesOf(old (+) SetToBag(P), C) = CopiesOf(old, C) + Cardinality(P \cap C)
         /\ CopiesOf(old, C) \in Nat
<1> DEFINE new == old (+) SetToBag(P)
           N(row) == (IF row \in DOMAIN old THEN old[row] ELSE 0) + 1
           Old == UNION {{row} \X (1..old[row]) : row \in DOMAIN old \cap C}
           New == UNION {{row} \X (1..new[row]) : row \in DOMAIN new \cap C}
           Added == {<<row, N(row)>> : row \in P \cap C}
<1>1. /\ DOMAIN new = DOMAIN old \cup P
      /\ \A row \in P : new[row] = N(row)
      /\ \A row \in DOMAIN old \ P : new[row] = old[row]
  BY DEF (+), SetToBag
<1> HIDE DEF new
<1>2. new \in [DOMAIN new -> Nat \ {0}]
  <2>1. new = [row \in DOMAIN new |-> new[row]]
    BY DEF (+), SetToBag, new
  <2>2. \A row \in DOMAIN new : new[row] \in Nat \ {0}
    BY <1>1
  <2> QED
    BY <2>1, <2>2
<1>3. New = Old \cup Added
  <2>1. ASSUME NEW row \in DOMAIN new \cap C, NEW n \in 1..new[row]
        PROVE  <<row, n>> \in Old \cup Added
    <3>1. CASE row \in P /\ n = N(row)
      BY <3>1
    <3>2. CASE row \in P /\ n # N(row)
      <4>1. row \in DOMAIN old /\ n \in 1..old[row]
        BY <1>1, <3>2
      <4> QED
        BY <4>1
    <3>3. CASE row \notin P
      BY <1>1, <3>3
    <3> QED
      BY <3>1, <3>2, <3>3
  <2>2. ASSUME NEW row \in DOMAIN old \cap C, NEW n \in 1..old[row]
        PROVE  <<row, n>> \in New
    <3>1. row \in DOMAIN new /\ n \in 1..new[row]
      BY <1>1
    <3> QED
      BY <3>1
  <2>3. ASSUME NEW row \in P \cap C
        PROVE  <<row, N(row)>> \in New
    <3>1. row \in DOMAIN new /\ N(row) \in 1..new[row]
      BY <1>1
    <3> QED
      BY <3>1
  <2>4. New \subseteq Old \cup Added
    BY <2>1
  <2>5. Old \subseteq New
    BY <2>2
  <2>6. Added \subseteq New
    BY <2>3
  <2> QED
    BY <2>4, <2>5, <2>6
<1>4. Old \cap Added = {}
  OBVIOUS
<1>5. IsFiniteSet(Old)
  <2> DEFINE Parts == {{row} \X (1..old[row]) : row \in DOMAIN old \cap C}
  <2>1. IsFiniteSet(DOMAIN old \cap C)
    BY FS_Intersection
  <2>2. IsFiniteSet(Parts)
    <3> DEFINE f == [row \in DOMAIN old \cap C |-> {row} \X (1..old[row])]
    <3>1. f \in Surjection(DOMAIN old \cap C, Parts)
      BY DEF Surjection
    <3> QED
      BY <2>1, <3>1, FS_Surjection
  <2>3. ASSUME NEW row \in DOMAIN old \cap C
        PROVE  IsFiniteSet({row} \X (1..old[row]))
    <3>1. IsFiniteSet({row})
      BY FS_Singleton
    <3>2. IsFiniteSet(1..old[row])
      <4>1. old[row] \in Int
        OBVIOUS
      <4> QED
        BY <4>1, FS_Interval
    <3> QED
      BY <3>1, <3>2, FS_Product
  <2>4. \A T \in Parts : IsFiniteSet(T)
    BY <2>3
  <2> QED
    BY <2>2, <2>4, FS_UNION
<1>6. IsFiniteSet(Added) /\ Cardinality(Added) = Cardinality(P \cap C)
  <2> DEFINE f == [row \in P \cap C |-> <<row, N(row)>>]
  <2>1. IsFiniteSet(P \cap C)
    BY FS_Intersection
  <2>2. f \in Bijection(P \cap C, Added)
    BY DEF Bijection, Injection, Surjection, IsInjective
  <2> QED
    BY <2>1, <2>2, FS_Bijection DEF ExistsBijection
<1>7. Cardinality(New) = Cardinality(Old) + Cardinality(Added)
  <2>1. Cardinality(Old \cap Added) = 0
    BY <1>4, FS_EmptySet
  <2>2. Cardinality(Old) \in Nat /\ Cardinality(Added) \in Nat
    BY <1>5, <1>6, FS_CardinalityType
  <2> QED
    <3> HIDE DEF Old, New, Added
    <3>1. Cardinality(Old \cup Added) = Cardinality(Old) + Cardinality(Added) - 0
      BY <1>5, <1>6, <2>1, FS_Union
    <3> QED
      BY <1>3, <2>2, <3>1
<1> QED
  BY <1>1, <1>2, <1>5, <1>6, <1>7, FS_CardinalityType DEF CopiesOf, new

---------------------------------------------------------------------------
(* Finite sets of times. *)

SetsOfTimes(n) == SUBSET (0..n)

LEMMA Latest ==
  ASSUME NEW n \in Nat, NEW S \in SetsOfTimes(n), S # {}
  PROVE  Max(S) \in S /\ \A t \in S : t <= Max(S)
<1> USE DEF SetsOfTimes
<1> DEFINE After(m) == {t \in S : m <= t}
           T == {After(m) : m \in S}
<1>1. T \subseteq FiniteSubsetsOf(S) /\ T # {}
  <2>1. IsFiniteSet(0..n)
    BY FS_Interval
  <2>2. \A R \in SUBSET S : IsFiniteSet(R)
    BY <2>1, FS_Subset
  <2> QED
    BY <2>2 DEF FiniteSubsetsOf
<1>2. PICK X \in T : \A Y \in T : <<Y, X>> \notin StrictSubsetOrdering(S)
  BY <1>1, FS_StrictSubsetOrderingWellFounded, WFMin
<1>3. PICK m \in S : X = After(m)
  OBVIOUS
<1>4. ASSUME NEW t \in S, m < t
      PROVE  FALSE
  <2>1. After(t) \in T
    OBVIOUS
  <2>2. ASSUME NEW k \in After(t)
        PROVE  k \in After(m)
    BY <1>4, <2>2
  <2>3. m \in After(m) /\ m \notin After(t)
    BY <1>4
  <2> QED
    BY <1>1, <1>2, <1>3, <2>1, <2>2, <2>3 DEF StrictSubsetOrdering, FiniteSubsetsOf
<1>5. \A t \in S : m >= t
  BY <1>4
<1>6. Max(S) \in S /\ \A t \in S : Max(S) >= t
  BY <1>5 DEF Max
<1> QED
  BY <1>6

\* The latest of a set of times, to which others come.
LEMMA LatestOfBoth ==
  ASSUME NEW n \in Nat, NEW S \in SetsOfTimes(n), NEW T \in SetsOfTimes(n)
  PROVE  Max({Max({0} \cup S)} \cup T) = Max({0} \cup S \cup T)
<1> DEFINE A == {0} \cup S
           C == {0} \cup S \cup T
<1> HIDE DEF A, C
<1>1. A \in SetsOfTimes(n) /\ A # {}
  BY DEF SetsOfTimes, A
<1>2. PICK a : a = Max(A)
  OBVIOUS
<1>3. a \in A /\ \A t \in A : t <= a
  BY <1>1, <1>2, Latest
<1>4. a \in 0..n /\ {a} \cup T \in SetsOfTimes(n) /\ {a} \cup T # {}
  BY <1>1, <1>3 DEF SetsOfTimes
<1>5. PICK b : b = Max({a} \cup T)
  OBVIOUS
<1>6. b \in {a} \cup T /\ \A t \in {a} \cup T : t <= b
  BY <1>4, <1>5, Latest
<1>7. C \in SetsOfTimes(n) /\ C # {}
  BY DEF SetsOfTimes, C
<1>8. PICK c : c = Max(C)
  OBVIOUS
<1>9. c \in C /\ \A t \in C : t <= c
  BY <1>7, <1>8, Latest
<1>10. b <= c /\ c <= b /\ b \in Nat /\ c \in Nat
  BY <1>3, <1>4, <1>6, <1>7, <1>9 DEF SetsOfTimes, A, C
<1> QED
  BY <1>2, <1>5, <1>8, <1>10 DEF A, C

---------------------------------------------------------------------------
(* The invariant. *)

Settled(r) == Stored(r) \/ r \in refused
HeldBy(w) == Elements(pending[w]) \cup Elements(batch[w])

\* What a worker holds is its own, in the order of the requests, and a batch that is
\* committed is stored or refused record by record.
WorkerKeeps(w) ==
    /\ pending[w] \in Seq(Nat) /\ batch[w] \in Seq(Nat)
    /\ HeldBy(w) \subseteq Records /\ Len(pending[w]) <= MaxPending
    /\ Sending(w) <=> batch[w] # <<>>
    /\ committed[w] => Sending(w) /\ \A r \in Elements(batch[w]) : Settled(r)
    /\ phase[w] \in {Stopping, Stopped} => w \in Stoppable
    /\ \A r \in HeldBy(w) : log[r].worker = w
    /\ Increasing(batch[w] \o pending[w])

\* The tables, and the batches that nobody awaits.
Tables ==
    /\ now \in Nat /\ failures \in Nat
    /\ log \in Seq([key : Keys, time : Nat, failed : BOOLEAN, worker : Workers])
    /\ phase \in [Workers -> Phases] /\ committed \in [Workers -> BOOLEAN]
    /\ DOMAIN pending = Workers /\ DOMAIN batch = Workers
    /\ \A sent \in BagToSet(late) : sent \in Seq(Nat) /\ Elements(sent) \subseteq Records
    /\ rows \in [DOMAIN rows -> Nat \ {0}] /\ DOMAIN rows \subseteq Records \X (0..now)
    /\ daily \in [DOMAIN daily -> [total : Nat, failed : Nat]]
    /\ lastUsed \in [Keys -> Nat]
    /\ overflowed \cup refused \subseteq Records

IInv ==
    /\ Tables /\ \A w \in Workers : WorkerKeeps(w)
    /\ NoneForgotten /\ RollupsAgree /\ LastUsedIsLatest

LEMMA IInvImplies == IInv => TypeOK /\ KeptInOrder
<1> SUFFICES ASSUME IInv PROVE TypeOK /\ KeptInOrder
  OBVIOUS
<1>1. TypeOK
  BY DEF IInv, Tables, WorkerKeeps, TypeOK, HeldBy, BagToSet
<1>2. SentInOrder
  BY DEF IInv, WorkerKeeps, SentInOrder, Increasing
<1> QED
  BY <1>1, <1>2 DEF IInv, KeptInOrder

\* The tables only grow, and what is logged stays as it is.
Grows ==
    /\ Len(log) <= Len(log') /\ \A r \in Records : log'[r] = log[r]
    /\ \A r \in Records : Stored(r) => Stored(r)'
    /\ refused \subseteq refused' /\ overflowed \subseteq overflowed'

LEMMA GrownRecords ==
  ASSUME Tables, Tables', Grows
  PROVE  Records \subseteq Records' /\ \A r \in Records : Settled(r) => Settled(r)'
BY DEF Tables, Grows, Settled, Records

LEMMA OtherWorker ==
  ASSUME Tables, Tables', Grows, NEW w \in Workers, WorkerKeeps(w),
         pending'[w] = pending[w], batch'[w] = batch[w],
         phase'[w] = phase[w], committed'[w] = committed[w]
  PROVE  WorkerKeeps(w)'
<1>1. Records \subseteq Records' /\ \A r \in Records : Settled(r) => Settled(r)'
  BY GrownRecords
<1>2. HeldBy(w)' = HeldBy(w) /\ Elements(batch[w])' = Elements(batch[w])
  BY DEF HeldBy, Elements
<1>3. \A r \in HeldBy(w) : log'[r] = log[r]
  BY DEF Grows, WorkerKeeps
<1> QED
  BY <1>1, <1>2, <1>3 DEF WorkerKeeps, Sending, HeldBy, Increasing

\* Nobody forgets a record: a worker that may not be stopped keeps what it held, or the
\* tables account for it, and holds what is new.
LEMMA NothingForgotten ==
  ASSUME IInv, Tables', Grows,
         \A w \in Workers \ Stoppable : \A r \in HeldBy(w) :
             r \in HeldBy(w)' \/ Settled(r)' \/ r \in overflowed',
         \A r \in Records' \ Records : \E w \in Workers : r \in HeldBy(w)'
  PROVE  NoneForgotten'
<1> SUFFICES ASSUME NEW r \in Records', log'[r].worker \notin Stoppable
             PROVE  AccountedFor(r)'
  BY DEF NoneForgotten
<1>2. CASE r \notin Records
  BY <1>2 DEF AccountedFor, Held, HeldBy
<1>3. CASE r \in Records
  <2>1. AccountedFor(r) /\ log'[r] = log[r]
    BY <1>3 DEF IInv, NoneForgotten, Grows
  <2>2. CASE Stored(r) \/ r \in overflowed \cup refused
    BY <1>3, <2>2 DEF Grows, AccountedFor
  <2>3. CASE Held(r)
    <3>1. PICK w \in Workers : r \in HeldBy(w)
      BY <2>3 DEF Held, HeldBy
    <3>2. w \notin Stoppable
      BY <2>1, <3>1 DEF IInv, WorkerKeeps
    <3> QED
      BY <3>1, <3>2 DEF AccountedFor, Held, HeldBy, Settled
  <2> QED
    BY <2>1, <2>2, <2>3 DEF AccountedFor
<1> QED
  BY <1>2, <1>3

---------------------------------------------------------------------------
(* recordUsage. *)

\* A batch, each of whose records is stored or refused, with the totals and the latest
\* use of its keys.
LEMMA RecordUsageStep ==
  ASSUME IInv, NEW sent \in Seq(Nat), Elements(sent) \subseteq Records,
         recordUsage(sent), UNCHANGED <<now, log, overflowed>>
  PROVE  /\ rows' \in [DOMAIN rows' -> Nat \ {0}] /\ DOMAIN rows' \subseteq Records \X (0..now)
         /\ daily' \in [DOMAIN daily' -> [total : Nat, failed : Nat]]
         /\ lastUsed' \in [Keys -> Nat] /\ refused' \subseteq Records
         /\ Grows /\ \A r \in Elements(sent) : Settled(r)'
         /\ RollupsAgree' /\ LastUsedIsLatest'
<1> DEFINE written == {r \in Elements(sent) : Plausible(r)}
           new == {<<r, Timestamp(r)>> : r \in written}
           of(d) == {r \in written : Day(r) = d}
           total(d) == IF d \in DOMAIN daily THEN daily[d] ELSE [total |-> 0, failed |-> 0]
<1> USE UsageAssumption
<1>1. /\ rows' = rows (+) SetToBag(new)
      /\ daily' = [d \in DOMAIN daily \cup {Day(r) : r \in written} |->
                      [total |-> total(d).total + Cardinality(of(d)),
                       failed |-> total(d).failed + Cardinality({r \in of(d) : log[r].failed})]]
      /\ lastUsed' = [k \in Keys |-> LastUsed(k, written)]
      /\ refused' = refused \cup (Elements(sent) \ written)
  BY DEF recordUsage
<1>2. \A r \in Records : log[r].key \in Keys /\ log[r].time \in Nat /\ log[r].failed \in BOOLEAN
  <2> SUFFICES ASSUME NEW r \in Records
               PROVE  log[r].key \in Keys /\ log[r].time \in Nat /\ log[r].failed \in BOOLEAN
    OBVIOUS
  <2>1. log \in Seq([key : Keys, time : Nat, failed : BOOLEAN, worker : Workers]) /\ r \in 1..Len(log)
    BY DEF IInv, Tables, Records
  <2>2. log[r] \in [key : Keys, time : Nat, failed : BOOLEAN, worker : Workers]
    BY <2>1, ElementOfSeq
  <2> QED
    BY <2>2
<1>3. now \in Nat /\ written \subseteq Records /\ \A r \in Records : Timestamp(r) \in 0..now
  <2>1. now \in Nat
    BY DEF IInv, Tables
  <2> QED
    BY <1>2, <2>1 DEF Timestamp
<1>4. new \subseteq Records \X (0..now)
  BY <1>3
<1>5. IsFiniteSet(Records \X (0..now))
  <2>1. IsFiniteSet(Records) /\ IsFiniteSet(0..now)
    <3>1. Len(log) \in Int
      BY DEF IInv, Tables
    <3> QED
      BY <1>3, <3>1, FS_Interval DEF Records
  <2> QED
    BY <2>1, FS_Product
<1>6. IsFiniteSet(new) /\ IsFiniteSet(DOMAIN rows)
  BY <1>4, <1>5, FS_Subset DEF IInv, Tables
<1>7. DOMAIN rows' = DOMAIN rows \cup new /\ rows' \in [DOMAIN rows' -> Nat \ {0}]
  <2> HIDE DEF new
  <2> QED
    BY <1>1, <1>6, AddedCopies DEF IInv, Tables
<1>8. DOMAIN rows' \subseteq Records \X (0..now)
  BY <1>4, <1>7 DEF IInv, Tables
<1>9. \A r \in Elements(sent) : Settled(r)'
  <2>1. \A r \in written : <<r, Timestamp(r)>> \in DOMAIN rows'
    BY <1>7
  <2>2. \A r \in written : Stored(r)'
    BY <2>1 DEF Stored, BagToSet
  <2> QED
    BY <1>1, <2>2 DEF Settled
<1>10. Grows
  <2>1. \A r \in Records : Stored(r) => Stored(r)'
    BY <1>7 DEF Stored, BagToSet
  <2>2. refused \subseteq refused' /\ Len(log) <= Len(log')
    BY <1>1 DEF IInv, Tables
  <2> QED
    BY <2>1, <2>2 DEF Grows
<1>11. refused' \subseteq Records
  BY <1>1 DEF IInv, Tables
<1>12. IsFiniteSet(written)
  <2>1. Len(log) \in Int
    BY DEF IInv, Tables
  <2>2. IsFiniteSet(Records)
    BY <2>1, FS_Interval DEF Records
  <2> QED
    BY <1>3, <2>2, FS_Subset
<1>13. daily' \in [DOMAIN daily' -> [total : Nat, failed : Nat]]
  <2>1. \A d : Cardinality(of(d)) \in Nat /\ Cardinality({r \in of(d) : log[r].failed}) \in Nat
    BY <1>12, FS_Subset, FS_CardinalityType
  <2>2. \A d : total(d) \in [total : Nat, failed : Nat]
    BY DEF IInv, Tables
  <2>4. \A d : total(d).total \in Nat /\ total(d).failed \in Nat
    BY <2>2
  <2> HIDE DEF of, total
  <2>3. \A d : [total |-> total(d).total + Cardinality(of(d)),
                failed |-> total(d).failed + Cardinality({r \in of(d) : log[r].failed})]
               \in [total : Nat, failed : Nat]
    <3> SUFFICES ASSUME NEW d
                 PROVE  /\ total(d).total + Cardinality(of(d)) \in Nat
                        /\ total(d).failed + Cardinality({r \in of(d) : log[r].failed}) \in Nat
      OBVIOUS
    <3>1. total(d).total \in Nat /\ Cardinality(of(d)) \in Nat
      BY <2>1, <2>4
    <3>2. total(d).failed \in Nat /\ Cardinality({r \in of(d) : log[r].failed}) \in Nat
      BY <2>1, <2>4
    <3> QED
      BY <3>1, <3>2
  <2> QED
    BY <1>1, <2>3
<1>14. ASSUME NEW k \in Keys
       PROVE  /\ lastUsed'[k] \in Nat
              /\ lastUsed'[k] = Max({0} \cup {row[2] : row \in {s \in BagToSet(rows') : log'[s[1]].key = k}})
  <2> DEFINE Was == {row[2] : row \in {s \in BagToSet(rows) : log[s[1]].key = k}}
             New == {Timestamp(r) : r \in {s \in written : log[s].key = k}}
             All == {row[2] : row \in {s \in BagToSet(rows') : log[s[1]].key = k}}
  <2>1. Was \subseteq 0..now /\ New \subseteq 0..now
    BY <1>3 DEF IInv, Tables, BagToSet
  <2>2. All = Was \cup New
    <3>1. \A row \in new : row[1] \in written /\ row[2] = Timestamp(row[1]) /\ row = <<row[1], Timestamp(row[1])>>
      OBVIOUS
    <3>2. ASSUME NEW row \in DOMAIN rows', log[row[1]].key = k
          PROVE  row[2] \in Was \cup New
      <4>1. CASE row \in DOMAIN rows
        BY <3>2, <4>1 DEF BagToSet
      <4>2. CASE row \in new
        BY <3>1, <3>2, <4>2
      <4> QED
        BY <1>7, <4>1, <4>2
    <3>3. ASSUME NEW row \in DOMAIN rows, log[row[1]].key = k
          PROVE  row[2] \in All
      BY <1>7, <3>3 DEF BagToSet
    <3>4. ASSUME NEW r \in written, log[r].key = k
          PROVE  Timestamp(r) \in All
      <4>1. <<r, Timestamp(r)>> \in DOMAIN rows'
        BY <1>7
      <4> QED
        BY <3>4, <4>1 DEF BagToSet
    <3>5. All \subseteq Was \cup New
      BY <3>2 DEF BagToSet
    <3>6. Was \cup New \subseteq All
      BY <3>3, <3>4 DEF BagToSet
    <3> QED
      BY <3>5, <3>6
  <2>3. lastUsed[k] = Max({0} \cup Was)
    BY DEF IInv, LastUsedIsLatest
  <2>4. lastUsed'[k] = Max({lastUsed[k]} \cup New)
    BY <1>1 DEF LastUsed
  <2> HIDE DEF Was, New
  <2>7. {0} \cup All = {0} \cup Was \cup New
    BY <2>2
  <2> HIDE DEF All
  <2>5. lastUsed'[k] = Max({0} \cup All)
    <3>0. now \in Nat /\ Was \in SetsOfTimes(now) /\ New \in SetsOfTimes(now)
      BY <1>3, <2>1 DEF SetsOfTimes
    <3>1. Max({Max({0} \cup Was)} \cup New) = Max({0} \cup Was \cup New)
      BY <3>0, LatestOfBoth
    <3> QED
      BY <2>3, <2>4, <2>7, <3>1
  <2>6. Max({0} \cup All) \in Nat
    <3>1. now \in Nat /\ {0} \cup All \in SetsOfTimes(now) /\ {0} \cup All # {}
      BY <1>3, <2>1, <2>2 DEF SetsOfTimes
    <3>2. Max({0} \cup All) \in {0} \cup All
      BY <3>1, Latest
    <3> QED
      BY <3>1, <3>2 DEF SetsOfTimes
  <2>8. {row[2] : row \in {s \in BagToSet(rows') : log'[s[1]].key = k}} = All
    BY DEF All
  <2> QED
    BY <2>5, <2>6, <2>8
<1>15. LastUsedIsLatest'
  BY <1>14 DEF LastUsedIsLatest
<1>16. lastUsed' \in [Keys -> Nat]
  BY <1>1, <1>14
<1>17. RollupsAgree'
  <2> SUFFICES ASSUME NEW d \in Keys \X (0..(MaxTime \div DayLength))
               PROVE  IF d \in DOMAIN daily'
                      THEN /\ daily'[d].total = NumberOf(DayRows(d))'
                           /\ daily'[d].failed = NumberOf({row \in DayRows(d) : log[row[1]].failed})'
                      ELSE DayRows(d)' = {}
    BY DEF RollupsAgree
  <2> DEFINE C == {row \in DOMAIN rows' : log[row[1]].key = d[1] /\ row[2] \div DayLength = d[2]}
             F == {row \in C : log[row[1]].failed}
             failed == {r \in of(d) : log[r].failed}
  <2>1. /\ DayRows(d) = DOMAIN rows \cap C /\ DayRows(d)' = DOMAIN rows' \cap C
        /\ {row \in DayRows(d) : log[row[1]].failed} = DOMAIN rows \cap F
        /\ {row \in DayRows(d) : log[row[1]].failed}' = DOMAIN rows' \cap F
    BY <1>7 DEF DayRows, BagToSet
  <2>2. /\ new \cap C = {<<r, Timestamp(r)>> : r \in of(d)}
        /\ new \cap F = {<<r, Timestamp(r)>> : r \in failed}
    <3>1. \A r \in written : /\ <<r, Timestamp(r)>> \in C <=> r \in of(d)
                             /\ <<r, Timestamp(r)>> \in F <=> r \in failed
      BY <1>7 DEF Day
    <3> QED
      BY <3>1
  <2>3. Cardinality(new \cap C) = Cardinality(of(d)) /\ Cardinality(new \cap F) = Cardinality(failed)
    <3>1. ASSUME NEW S \in SUBSET written
          PROVE  Cardinality({<<r, Timestamp(r)>> : r \in S}) = Cardinality(S)
      <4> DEFINE f == [r \in S |-> <<r, Timestamp(r)>>]
                 T == {<<r, Timestamp(r)>> : r \in S}
      <4>1. IsFiniteSet(S)
        BY <1>12, FS_Subset
      <4>2. f \in Bijection(S, T)
        BY DEF Bijection, Injection, Surjection, IsInjective
      <4> QED
        BY <4>1, <4>2, FS_Bijection DEF ExistsBijection
    <3> QED
      BY <2>2, <3>1
  <2>4. /\ NumberOf(DayRows(d))' = NumberOf(DayRows(d)) + Cardinality(of(d))
        /\ NumberOf({row \in DayRows(d) : log[row[1]].failed})'
             = NumberOf({row \in DayRows(d) : log[row[1]].failed}) + Cardinality(failed)
        /\ NumberOf(DayRows(d)) \in Nat
    <3> HIDE DEF new, C, F, of, failed
    <3>1. /\ rows \in [DOMAIN rows -> Nat \ {0}] /\ rows' = rows (+) SetToBag(new)
          /\ IsFiniteSet(DOMAIN rows) /\ IsFiniteSet(new)
      BY <1>1, <1>6 DEF IInv, Tables
    <3>2. ASSUME NEW X
          PROVE  /\ CopiesOf(rows', X) = CopiesOf(rows, X) + Cardinality(new \cap X)
                 /\ CopiesOf(rows, X) \in Nat
      BY <3>1, AddedCopies
    <3>3. /\ NumberOf(DayRows(d))' = CopiesOf(rows', C)
          /\ NumberOf(DayRows(d)) = CopiesOf(rows, C)
      BY <2>1 DEF NumberOf, CopiesOf
    <3>4. /\ NumberOf({row \in DayRows(d) : log[row[1]].failed})' = CopiesOf(rows', F)
          /\ NumberOf({row \in DayRows(d) : log[row[1]].failed}) = CopiesOf(rows, F)
      BY <2>1 DEF NumberOf, CopiesOf
    <3> QED
      BY <2>3, <3>2, <3>3, <3>4
  <2>5. d \in DOMAIN daily' <=> d \in DOMAIN daily \/ of(d) # {}
    BY <1>1
  <2>6. CASE d \in DOMAIN daily'
    <3>1. /\ daily'[d].total = total(d).total + Cardinality(of(d))
          /\ daily'[d].failed = total(d).failed + Cardinality(failed)
      BY <1>1, <2>6
    <3>2. CASE d \in DOMAIN daily
      <4>1. /\ total(d).total = NumberOf(DayRows(d))
            /\ total(d).failed = NumberOf({row \in DayRows(d) : log[row[1]].failed})
        BY <3>2 DEF IInv, RollupsAgree
      <4> HIDE DEF total, of, failed
      <4> QED
        BY <2>4, <2>6, <3>1, <4>1
    <3>3. CASE d \notin DOMAIN daily
      <4>1. DayRows(d) = {} /\ total(d).total = 0 /\ total(d).failed = 0
        BY <3>3 DEF IInv, RollupsAgree
      <4>2. NumberOf({}) = 0
        <5>1. UNION {{row} \X (1..rows[row]) : row \in {}} = {}
          OBVIOUS
        <5> QED
          BY <5>1, FS_EmptySet DEF NumberOf
      <4>3. {row \in DayRows(d) : log[row[1]].failed} = {}
        BY <4>1
      <4> HIDE DEF total, of, failed
      <4> QED
        BY <2>4, <2>6, <3>1, <4>1, <4>2, <4>3
    <3> QED
      BY <3>2, <3>3
  <2>7. CASE d \notin DOMAIN daily'
    <3>1. d \notin DOMAIN daily /\ of(d) = {}
      BY <2>5, <2>7
    <3>2. DayRows(d) = {} /\ new \cap C = {}
      BY <2>2, <3>1 DEF IInv, RollupsAgree
    <3>3. DayRows(d)' = {}
      BY <1>7, <2>1, <3>2
    <3> QED
      BY <2>7, <3>3
  <2> QED
    BY <2>6, <2>7
<1> QED
  BY <1>7, <1>8, <1>9, <1>10, <1>11, <1>13, <1>15, <1>16, <1>17

---------------------------------------------------------------------------
(* The steps of a worker. *)

LEMMA InitIInv == Init => IInv
<1> SUFFICES ASSUME Init PROVE IInv
  OBVIOUS
<1> USE UsageAssumption DEF Init
<1>1. Tables
  BY DEF Tables, Phases, EmptyBag, SetToBag, BagToSet
<1>2. ASSUME NEW w \in Workers
      PROVE  WorkerKeeps(w)
  <2>1. <<>> \o <<>> = <<>>
    OBVIOUS
  <2> QED
    BY <2>1 DEF WorkerKeeps, HeldBy, Elements, Sending, Increasing, Sleeping, Flushing, Stopping, Stopped
<1>3. NoneForgotten
  BY DEF NoneForgotten, Records
<1>4. DOMAIN rows = {} /\ DOMAIN daily = {}
  BY DEF EmptyBag, SetToBag
<1>5. RollupsAgree
  BY <1>4 DEF RollupsAgree, DayRows, BagToSet
<1>6. LastUsedIsLatest
  <2>1. Max({0}) = 0
    BY DEF Max
  <2>2. \A k : {0} \cup {row[2] : row \in {s \in BagToSet(rows) : log[s[1]].key = k}} = {0}
    BY <1>4 DEF BagToSet
  <2> QED
    BY <2>1, <2>2 DEF LastUsedIsLatest
<1> QED
  BY <1>1, <1>2, <1>3, <1>5, <1>6 DEF IInv

\* A step that leaves the ledger alone, and the log of what is stored.
LEMMA LedgerStays ==
  ASSUME IInv, Grows, UNCHANGED <<rows, daily, lastUsed>>
  PROVE  RollupsAgree' /\ LastUsedIsLatest'
<1>1. \A row \in DOMAIN rows : log'[row[1]] = log[row[1]]
  BY DEF IInv, Tables, Grows
<1>2. \A d : DayRows(d)' = DayRows(d)
            /\ {row \in DayRows(d) : log[row[1]].failed}' = {row \in DayRows(d) : log[row[1]].failed}
  BY <1>1 DEF DayRows, BagToSet
<1>3. \A k : {s \in BagToSet(rows) : log[s[1]].key = k}' = {s \in BagToSet(rows) : log[s[1]].key = k}
  BY <1>1 DEF BagToSet
<1>4. \A S : NumberOf(S)' = NumberOf(S)
  BY DEF NumberOf
<1>5. RollupsAgree'
  BY <1>2, <1>4 DEF IInv, RollupsAgree
<1>6. LastUsedIsLatest'
  BY <1>3 DEF IInv, LastUsedIsLatest
<1> QED
  BY <1>5, <1>6

LEMMA RecordStep ==
  ASSUME IInv, NEW w \in Workers, NEW k \in Keys, NEW time \in Nat, NEW failed \in BOOLEAN,
         record(w, k, time, failed)
  PROVE  IInv'
<1> DEFINE r == Len(log) + 1
           entry == [key |-> k, time |-> time, failed |-> failed, worker |-> w]
<1> USE UsageAssumption
<1>1. /\ log' = Append(log, entry) /\ log' \in Seq([key : Keys, time : Nat, failed : BOOLEAN, worker : Workers])
      /\ Len(log') = r /\ log'[r] = entry /\ \A s \in Records : log'[s] = log[s]
      /\ Records' = Records \cup {r} /\ r \notin Records /\ r \in Nat
  <2>1. log \in Seq([key : Keys, time : Nat, failed : BOOLEAN, worker : Workers])
        /\ log' = Append(log, entry) /\ entry \in [key : Keys, time : Nat, failed : BOOLEAN, worker : Workers]
    BY DEF record, IInv, Tables
  <2> HIDE DEF entry
  <2> QED
    BY <2>1 DEF Records
<1>2. WorkerKeeps(w)
  BY DEF IInv
<1> HIDE DEF r, entry
<1>3. /\ UNCHANGED <<now, phase, batch, committed, late, failures, rows, daily, lastUsed, refused>>
      /\ phase[w] \in {Sleeping, Flushing}
  BY DEF record, convex
<1>4. \A x \in Elements(batch[w] \o pending[w]) : x < r
  <2>1. Elements(batch[w] \o pending[w]) = HeldBy(w)
    BY <1>2, ConcatElements DEF WorkerKeeps, HeldBy
  <2>2. \A x \in Records : x < r
    BY DEF Records, r, IInv, Tables
  <2> QED
    BY <1>2, <2>1, <2>2 DEF WorkerKeeps
<1> DEFINE Leaves(kept) ==
             /\ pending' = [pending EXCEPT ![w] = Append(kept, r)]
             /\ Len(kept) < MaxPending /\ Increasing(batch[w] \o kept)
             /\ Elements(kept) \subseteq Elements(pending[w])
             /\ Elements(pending[w]) \subseteq Elements(kept) \cup overflowed'
             /\ overflowed \subseteq overflowed' /\ overflowed' \subseteq Records
<1>5. PICK kept \in Seq(Nat) : Leaves(kept)
  <2>1. CASE Len(pending[w]) = MaxPending
    <3>1. pending[w] # <<>> /\ pending[w] \in Seq(Nat) /\ batch[w] \in Seq(Nat)
          /\ Increasing(batch[w] \o pending[w])
      BY <1>2, <2>1 DEF WorkerKeeps
    <3>2. /\ Tail(pending[w]) \in Seq(Nat) /\ Len(Tail(pending[w])) = Len(pending[w]) - 1
          /\ Elements(pending[w]) = {Head(pending[w])} \cup Elements(Tail(pending[w]))
          /\ Increasing(batch[w] \o Tail(pending[w]))
      BY <3>1, DropOldest
    <3>3. /\ pending' = [pending EXCEPT ![w] = Append(Tail(pending[w]), r)]
          /\ overflowed' = overflowed \cup {Head(pending[w])}
      BY <2>1 DEF record, r, IInv, Tables
    <3>4. Head(pending[w]) \in Records /\ overflowed \subseteq Records
      BY <1>2, <3>2 DEF WorkerKeeps, HeldBy, IInv, Tables
    <3>5. Len(Tail(pending[w])) < MaxPending
      <4>1. MaxPending \in Nat
        OBVIOUS
      <4> QED
        BY <2>1, <3>2, <4>1
    <3>6. /\ Elements(Tail(pending[w])) \subseteq Elements(pending[w])
          /\ Elements(pending[w]) \subseteq Elements(Tail(pending[w])) \cup overflowed'
          /\ overflowed \subseteq overflowed' /\ overflowed' \subseteq Records
      BY <3>2, <3>3, <3>4
    <3>7. Leaves(Tail(pending[w]))
      BY <3>2, <3>3, <3>5, <3>6
    <3> HIDE DEF Leaves
    <3> QED
      BY <3>2, <3>7
  <2>2. CASE Len(pending[w]) # MaxPending
    <3>1. /\ pending' = [pending EXCEPT ![w] = Append(pending[w], r)]
          /\ overflowed' = overflowed
      BY <2>2 DEF record, r, IInv, Tables
    <3>2. Len(pending[w]) < MaxPending
      BY <1>2, <2>2 DEF WorkerKeeps
    <3> QED
      BY <1>2, <3>1, <3>2 DEF WorkerKeeps, IInv, Tables
  <2> QED
    BY <2>1, <2>2
<1>6. pending'[w] = Append(kept, r) /\ \A v \in Workers \ {w} : pending'[v] = pending[v]
  BY <1>5 DEF IInv, Tables
<1>7. /\ pending'[w] \in Seq(Nat) /\ Len(pending'[w]) <= MaxPending
      /\ Elements(pending'[w]) = Elements(kept) \cup {r} /\ Increasing(batch[w] \o pending'[w])
  <2>1. \A x \in Elements(batch[w] \o kept) : x < r
    BY <1>2, <1>4, <1>5, ConcatElements DEF WorkerKeeps
  <2>2. /\ Append(kept, r) \in Seq(Nat) /\ Len(Append(kept, r)) = Len(kept) + 1
        /\ Elements(Append(kept, r)) = Elements(kept) \cup {r}
        /\ Increasing(batch[w] \o Append(kept, r))
    BY <1>1, <1>2, <1>5, <2>1, AppendNext DEF WorkerKeeps
  <2>3. Len(kept) + 1 <= MaxPending
    <3>1. Len(kept) \in Nat /\ MaxPending \in Nat /\ Len(kept) < MaxPending
      BY <1>5
    <3> QED
      BY <3>1
  <2> QED
    BY <1>6, <2>2, <2>3
<1>8. Grows
  <2>1. Len(log) <= Len(log')
    BY <1>1 DEF IInv, Tables, r
  <2>2. \A s \in Records : Stored(s) => Stored(s)'
    BY <1>3 DEF Stored
  <2> QED
    BY <1>1, <1>3, <1>5, <2>1, <2>2 DEF Grows
<1>9. Tables'
  <2>1. DOMAIN pending' = Workers
    BY <1>5 DEF IInv, Tables
  <2>2. Records \subseteq Records'
    BY <1>1
  <2> QED
    BY <1>1, <1>3, <1>5, <2>1, <2>2 DEF IInv, Tables
<1>10. WorkerKeeps(w)'
  <2>1. HeldBy(w)' = Elements(kept) \cup {r} \cup Elements(batch[w])
    BY <1>3, <1>7 DEF HeldBy
  <2>2. HeldBy(w)' \subseteq Records'
    BY <1>1, <1>2, <1>5, <2>1 DEF WorkerKeeps, HeldBy
  <2>3. \A s \in HeldBy(w)' : log'[s].worker = w
    <3>1. \A s \in HeldBy(w) : s \in Records /\ log'[s] = log[s] /\ log[s].worker = w
      BY <1>1, <1>2 DEF WorkerKeeps
    <3>2. log'[r].worker = w
      BY <1>1 DEF entry
    <3>3. HeldBy(w)' \subseteq HeldBy(w) \cup {r}
      BY <1>5, <2>1 DEF HeldBy
    <3> QED
      BY <3>1, <3>2, <3>3
  <2>4. \A s \in Elements(batch[w]) : Settled(s) => Settled(s)'
    BY <1>3 DEF Settled, Stored
  <2>5. Elements(batch[w])' = Elements(batch[w])
    BY <1>3
  <2> QED
    BY <1>2, <1>3, <1>7, <2>2, <2>3, <2>4, <2>5 DEF WorkerKeeps, Sending
<1>11. \A v \in Workers : WorkerKeeps(v)'
  BY <1>3, <1>6, <1>8, <1>9, <1>10, OtherWorker DEF IInv
<1>12. NoneForgotten'
  <2>1. \A v \in Workers : \A s \in HeldBy(v) : s \in HeldBy(v)' \/ s \in overflowed'
    BY <1>3, <1>5, <1>6, <1>7 DEF HeldBy
  <2>2. r \in HeldBy(w)'
    BY <1>7 DEF HeldBy
  <2> QED
    BY <1>1, <1>8, <1>9, <2>1, <2>2, NothingForgotten
<1> QED
  BY <1>3, <1>8, <1>9, <1>11, <1>12, LedgerStays DEF IInv

\* A call given up: what may still arrive is the batch.
LEMMA AbandonStep ==
  ASSUME IInv, NEW w \in Workers, NEW arrives \in BOOLEAN, Abandon(w, arrives)
  PROVE  \A sent \in BagToSet(late') : sent \in Seq(Nat) /\ Elements(sent) \subseteq Records
<1>1. batch[w] \in Seq(Nat) /\ Elements(batch[w]) \subseteq Records
  BY DEF IInv, WorkerKeeps, HeldBy
<1>2. \A sent \in BagToSet(late) : sent \in Seq(Nat) /\ Elements(sent) \subseteq Records
  BY DEF IInv, Tables
<1>3. DOMAIN (late (+) SetToBag({batch[w]})) = DOMAIN late \cup {batch[w]}
  BY DEF (+), SetToBag
<1>4. DOMAIN late' \subseteq DOMAIN late \cup {batch[w]}
  BY <1>3 DEF Abandon
<1> QED
  BY <1>1, <1>2, <1>4 DEF BagToSet

\* The next batch is taken from the front; the one before it is settled, or belongs to a
\* process that is being stopped.
LEMMA NextBatchStep ==
  ASSUME IInv, NEW w \in Workers, NEW sending \in {Flushing, Stopping}, NEW done \in {Sleeping, Stopped},
         sending = Stopping <=> done = Stopped, sending = Stopping => w \in Stoppable,
         NextBatch(w, sending, done), UNCHANGED <<now, failures, convex>>,
         \A sent \in BagToSet(late') : sent \in Seq(Nat) /\ Elements(sent) \subseteq Records,
         w \in Stoppable \/ \A r \in Elements(batch[w]) : Settled(r)
  PROVE  IInv'
<1> USE UsageAssumption
<1>1. WorkerKeeps(w)
  BY DEF IInv
<1>2. /\ UNCHANGED <<now, failures, log, overflowed, rows, daily, lastUsed, refused>>
      /\ batch' = [batch EXCEPT ![w] = First(pending[w], BatchSize)]
      /\ pending' = [pending EXCEPT ![w] = Rest(pending[w], BatchSize)]
      /\ phase' = [phase EXCEPT ![w] = IF pending[w] = <<>> THEN done ELSE sending]
      /\ committed' = [committed EXCEPT ![w] = FALSE]
  BY DEF NextBatch, convex
<1>3. /\ \A v \in Workers \ {w} : /\ batch'[v] = batch[v] /\ pending'[v] = pending[v]
                                  /\ phase'[v] = phase[v] /\ committed'[v] = committed[v]
      /\ batch'[w] = First(pending[w], BatchSize) /\ pending'[w] = Rest(pending[w], BatchSize)
      /\ phase'[w] = (IF pending[w] = <<>> THEN done ELSE sending) /\ committed'[w] = FALSE
  BY <1>2 DEF IInv, Tables
<1>4. /\ batch'[w] \in Seq(Nat) /\ pending'[w] \in Seq(Nat) /\ batch'[w] \o pending'[w] = pending[w]
      /\ Len(pending'[w]) <= Len(pending[w]) /\ (pending[w] # <<>> => batch'[w] # <<>>)
  <2>1. pending[w] \in Seq(Nat) /\ BatchSize \in Nat /\ BatchSize > 0
    BY <1>1 DEF WorkerKeeps
  <2> QED
    BY <1>3, <2>1, FirstAndRest
<1>5. Elements(pending[w]) = Elements(batch'[w]) \cup Elements(pending'[w])
  BY <1>4, ConcatElements
<1>6. Grows
  <2>1. Len(log) \in Nat
    BY DEF IInv, Tables
  <2> QED
    BY <1>2, <2>1 DEF Grows, Stored
<1>7. Tables'
  BY <1>2 DEF IInv, Tables, Phases, Records
<1>8. WorkerKeeps(w)'
  <2>1. HeldBy(w)' = Elements(pending[w])
    BY <1>5 DEF HeldBy
  <2>2. pending[w] = <<>> => batch'[w] = <<>>
    <3>1. SUFFICES ASSUME pending[w] = <<>> PROVE batch'[w] = <<>>
      OBVIOUS
    <3>2. Elements(batch'[w]) = {}
      BY <1>5, <3>1 DEF Elements
    <3>3. \A s \in Seq(Nat) : s # <<>> => 1 \in DOMAIN s
      OBVIOUS
    <3> QED
      BY <1>4, <3>2, <3>3 DEF Elements
  <2>3. Sending(w)' <=> batch'[w] # <<>>
    BY <1>3, <1>4, <2>2 DEF Sending, Sleeping, Flushing, Stopping, Stopped
  <2>4. Len(pending'[w]) <= MaxPending
    <3>1. Len(pending'[w]) \in Nat /\ Len(pending[w]) \in Nat /\ Len(pending[w]) <= MaxPending
      BY <1>1, <1>4 DEF WorkerKeeps
    <3> QED
      BY <1>4, <3>1
  <2>5. Increasing(batch'[w] \o pending'[w])
    <3>1. Increasing(pending[w])
      BY <1>1, IncreasingParts DEF WorkerKeeps
    <3> QED
      BY <1>4, <3>1
  <2>6. /\ HeldBy(w)' \subseteq Records' /\ \A r \in HeldBy(w)' : log'[r].worker = w
    BY <1>1, <1>2, <2>1 DEF WorkerKeeps, HeldBy, Records
  <2>7. phase'[w] \in {Stopping, Stopped} => w \in Stoppable
    BY <1>3 DEF Sleeping, Flushing, Stopping, Stopped
  <2> QED
    BY <1>3, <1>4, <2>3, <2>4, <2>5, <2>6, <2>7 DEF WorkerKeeps
<1>9. \A v \in Workers : WorkerKeeps(v)'
  BY <1>3, <1>6, <1>7, <1>8, OtherWorker DEF IInv
<1>10. NoneForgotten'
  <2>1. ASSUME NEW v \in Workers \ Stoppable, NEW r \in HeldBy(v)
        PROVE  r \in HeldBy(v)' \/ Settled(r)'
    <3>1. CASE v # w
      BY <1>3, <2>1, <3>1 DEF HeldBy
    <3>2. CASE v = w
      <4>1. CASE r \in Elements(pending[w])
        BY <1>5, <3>2, <4>1 DEF HeldBy
      <4>2. CASE r \in Elements(batch[w])
        BY <1>2, <2>1, <3>2, <4>2 DEF Settled, Stored
      <4> QED
        BY <2>1, <3>2, <4>1, <4>2 DEF HeldBy
    <3> QED
      BY <3>1, <3>2
  <2>2. Records' = Records
    BY <1>2 DEF Records
  <2> QED
    BY <1>6, <1>7, <2>1, <2>2, NothingForgotten
<1> QED
  BY <1>2, <1>6, <1>7, <1>9, <1>10, LedgerStays DEF IInv

LEMMA WakeStep ==
  ASSUME IInv, NEW w \in Workers, Wake(w)
  PROVE  IInv'
<1>1. /\ phase[w] = Sleeping /\ NextBatch(w, Flushing, Sleeping)
      /\ UNCHANGED <<now, late, failures, convex>>
  BY DEF Wake
<1>2. Elements(batch[w]) = {}
  BY <1>1 DEF IInv, WorkerKeeps, Sending, Sleeping, Flushing, Stopping, Elements
<1>3. \A sent \in BagToSet(late') : sent \in Seq(Nat) /\ Elements(sent) \subseteq Records
  BY <1>1 DEF IInv, Tables
<1> QED
  BY <1>1, <1>2, <1>3, NextBatchStep DEF Sleeping, Flushing, Stopping, Stopped

LEMMA AnsweredStep ==
  ASSUME IInv, NEW w \in Workers, Answered(w)
  PROVE  IInv'
<1>1. /\ committed[w] /\ Sending(w) /\ UNCHANGED <<now, late, failures, convex>>
      /\ phase[w] = Flushing => NextBatch(w, Flushing, Sleeping)
      /\ phase[w] = Stopping => NextBatch(w, Stopping, Stopped)
  BY DEF Answered, Sending, Flushing, Stopping
<1>2. /\ \A r \in Elements(batch[w]) : Settled(r)
      /\ phase[w] = Stopping => w \in Stoppable
  BY <1>1 DEF IInv, WorkerKeeps
<1>3. \A sent \in BagToSet(late') : sent \in Seq(Nat) /\ Elements(sent) \subseteq Records
  BY <1>1 DEF IInv, Tables
<1>4. CASE phase[w] = Flushing
  BY <1>1, <1>2, <1>3, <1>4, NextBatchStep DEF Sleeping, Flushing, Stopping, Stopped
<1>5. CASE phase[w] = Stopping
  BY <1>1, <1>2, <1>3, <1>5, NextBatchStep DEF Sleeping, Flushing, Stopping, Stopped
<1> QED
  BY <1>1, <1>4, <1>5 DEF Sending

LEMMA StopStep ==
  ASSUME IInv, NEW w \in Workers, NEW arrives \in BOOLEAN, stop(w, arrives)
  PROVE  IInv'
<1>1. /\ w \in Stoppable /\ NextBatch(w, Stopping, Stopped) /\ UNCHANGED <<now, failures, convex>>
      /\ Abandon(w, arrives) \/ late' = late
  BY DEF stop
<1>2. \A sent \in BagToSet(late') : sent \in Seq(Nat) /\ Elements(sent) \subseteq Records
  BY <1>1, AbandonStep DEF IInv, Tables
<1> QED
  BY <1>1, <1>2, NextBatchStep DEF Sleeping, Flushing, Stopping, Stopped

LEMMA CommitStep ==
  ASSUME IInv, NEW w \in Workers, Commit(w)
  PROVE  IInv'
<1>1. /\ Sending(w) /\ recordUsage(batch[w]) /\ committed' = [committed EXCEPT ![w] = TRUE]
      /\ UNCHANGED <<now, log, phase, pending, batch, overflowed, late, failures>>
  BY DEF Commit
<1>2. WorkerKeeps(w) /\ batch[w] \in Seq(Nat) /\ Elements(batch[w]) \subseteq Records
  BY DEF IInv, WorkerKeeps, HeldBy
<1>3. /\ rows' \in [DOMAIN rows' -> Nat \ {0}] /\ DOMAIN rows' \subseteq Records \X (0..now)
      /\ daily' \in [DOMAIN daily' -> [total : Nat, failed : Nat]]
      /\ lastUsed' \in [Keys -> Nat] /\ refused' \subseteq Records
      /\ Grows /\ \A r \in Elements(batch[w]) : Settled(r)'
      /\ RollupsAgree' /\ LastUsedIsLatest'
  BY <1>1, <1>2, RecordUsageStep
<1>4. Records' = Records
  BY <1>1 DEF Records
<1>5. Tables'
  BY <1>1, <1>3, <1>4 DEF IInv, Tables
<1>6. \A r \in Records : Settled(r) => Settled(r)'
  BY <1>3, <1>5, GrownRecords DEF IInv
<1>7. WorkerKeeps(w)'
  <2>1. HeldBy(w)' = HeldBy(w) /\ Elements(batch'[w]) = Elements(batch[w])
    BY <1>1 DEF HeldBy
  <2> QED
    BY <1>1, <1>2, <1>3, <1>4, <2>1 DEF WorkerKeeps, Sending
<1>8. \A v \in Workers \ {w} : committed'[v] = committed[v]
  BY <1>1 DEF IInv, Tables
<1>9. \A v \in Workers : WorkerKeeps(v)'
  BY <1>1, <1>3, <1>5, <1>7, <1>8, OtherWorker DEF IInv
<1>10. NoneForgotten'
  <2>1. \A v \in Workers : HeldBy(v)' = HeldBy(v)
    BY <1>1 DEF HeldBy
  <2> QED
    BY <1>3, <1>4, <1>5, <2>1, NothingForgotten
<1> QED
  BY <1>3, <1>5, <1>9, <1>10 DEF IInv

LEMMA LateCommitStep ==
  ASSUME IInv, LateCommit
  PROVE  IInv'
<1>1. PICK sent \in BagToSet(late) : recordUsage(sent) /\ late' = late (-) SetToBag({sent})
  BY DEF LateCommit
<1>2. UNCHANGED <<now, log, phase, pending, batch, committed, overflowed, failures>>
  BY DEF LateCommit, gateway
<1>3. sent \in Seq(Nat) /\ Elements(sent) \subseteq Records
  BY DEF IInv, Tables
<1>4. /\ rows' \in [DOMAIN rows' -> Nat \ {0}] /\ DOMAIN rows' \subseteq Records \X (0..now)
      /\ daily' \in [DOMAIN daily' -> [total : Nat, failed : Nat]]
      /\ lastUsed' \in [Keys -> Nat] /\ refused' \subseteq Records
      /\ Grows /\ RollupsAgree' /\ LastUsedIsLatest'
  BY <1>1, <1>2, <1>3, RecordUsageStep
<1>5. Records' = Records
  BY <1>2 DEF Records
<1>6. \A s \in BagToSet(late') : s \in Seq(Nat) /\ Elements(s) \subseteq Records
  <2>1. DOMAIN late' \subseteq DOMAIN late
    BY <1>1 DEF (-), SetToBag
  <2> QED
    BY <2>1 DEF IInv, Tables, BagToSet
<1>7. Tables'
  BY <1>2, <1>4, <1>5, <1>6 DEF IInv, Tables
<1>8. \A v \in Workers : WorkerKeeps(v)'
  BY <1>2, <1>4, <1>7, OtherWorker DEF IInv
<1>9. NoneForgotten'
  <2>1. \A v \in Workers : HeldBy(v)' = HeldBy(v)
    BY <1>2 DEF HeldBy
  <2> QED
    BY <1>4, <1>5, <1>7, <2>1, NothingForgotten
<1> QED
  BY <1>4, <1>7, <1>8, <1>9 DEF IInv

\* A failed batch goes back to the front of the queue it was taken from.
LEMMA CallFailsStep ==
  ASSUME IInv, NEW w \in Workers, NEW arrives \in BOOLEAN, CallFails(w, arrives)
  PROVE  IInv'
<1> DEFINE queue == batch[w] \o pending[w]
<1> USE UsageAssumption
<1>1. WorkerKeeps(w)
  BY DEF IInv
<1>2. queue \in Seq(Nat) /\ Elements(queue) = HeldBy(w) /\ Increasing(queue)
  BY <1>1, ConcatElements DEF WorkerKeeps, HeldBy
<1>3. /\ Sending(w) /\ failures' = failures + 1 /\ Abandon(w, arrives)
      /\ pending' = [pending EXCEPT ![w] = First(queue, MaxPending)]
      /\ overflowed' = overflowed \cup Elements(Rest(queue, MaxPending))
      /\ batch' = [batch EXCEPT ![w] = <<>>] /\ committed' = [committed EXCEPT ![w] = FALSE]
      /\ phase' = [phase EXCEPT ![w] = IF phase[w] = Flushing THEN Sleeping ELSE Stopped]
      /\ UNCHANGED <<now, log, rows, daily, lastUsed, refused>>
  BY DEF CallFails, convex
<1> HIDE DEF queue
<1>4. /\ First(queue, MaxPending) \in Seq(Nat) /\ Rest(queue, MaxPending) \in Seq(Nat)
      /\ First(queue, MaxPending) \o Rest(queue, MaxPending) = queue
      /\ Len(First(queue, MaxPending)) <= MaxPending
  BY <1>2, FirstAndRest
<1>5. /\ \A v \in Workers \ {w} : /\ batch'[v] = batch[v] /\ pending'[v] = pending[v]
                                  /\ phase'[v] = phase[v] /\ committed'[v] = committed[v]
      /\ batch'[w] = <<>> /\ pending'[w] = First(queue, MaxPending)
      /\ phase'[w] = (IF phase[w] = Flushing THEN Sleeping ELSE Stopped) /\ committed'[w] = FALSE
  BY <1>3 DEF IInv, Tables
<1>6. Elements(pending'[w]) \cup Elements(Rest(queue, MaxPending)) = HeldBy(w)
  <2>1. Elements(First(queue, MaxPending) \o Rest(queue, MaxPending))
          = Elements(First(queue, MaxPending)) \cup Elements(Rest(queue, MaxPending))
    BY <1>4, ConcatElements
  <2> QED
    BY <1>2, <1>4, <1>5, <2>1
<1>7. Records' = Records /\ overflowed' \subseteq Records /\ overflowed \subseteq overflowed'
  BY <1>1, <1>3, <1>6 DEF Records, WorkerKeeps, IInv, Tables
<1>8. Grows
  <2>1. Len(log) \in Nat
    BY DEF IInv, Tables
  <2> QED
    BY <1>3, <1>7, <2>1 DEF Grows, Stored
<1>9. Tables'
  <2>1. \A sent \in BagToSet(late') : sent \in Seq(Nat) /\ Elements(sent) \subseteq Records
    BY <1>3, AbandonStep
  <2>2. phase' \in [Workers -> Phases] /\ committed' \in [Workers -> BOOLEAN]
    BY <1>3 DEF IInv, Tables, Phases
  <2>3. DOMAIN pending' = Workers /\ DOMAIN batch' = Workers /\ failures' \in Nat
    BY <1>3 DEF IInv, Tables
  <2> QED
    BY <1>3, <1>7, <2>1, <2>2, <2>3 DEF IInv, Tables
<1>10. WorkerKeeps(w)'
  <2>1. HeldBy(w)' \subseteq HeldBy(w)
    <3>1. Elements(<<>>) = {}
      BY DEF Elements
    <3> QED
      BY <1>5, <1>6, <3>1 DEF HeldBy
  <2>2. HeldBy(w)' \subseteq Records' /\ \A r \in HeldBy(w)' : log'[r].worker = w
    BY <1>1, <1>3, <1>7, <2>1 DEF WorkerKeeps
  <2>3. ~Sending(w)'
    BY <1>5 DEF Sending, Sleeping, Flushing, Stopping, Stopped
  <2>4. phase'[w] \in {Stopping, Stopped} => w \in Stoppable
    BY <1>1, <1>3, <1>5 DEF WorkerKeeps, Sending, Sleeping, Flushing, Stopping, Stopped
  <2>5. Increasing(batch'[w] \o pending'[w])
    <3>1. <<>> \o pending'[w] = pending'[w]
      BY <1>4, <1>5, ConcatEmptySeq
    <3>2. Increasing(pending'[w])
      <4>1. Increasing(First(queue, MaxPending) \o Rest(queue, MaxPending))
        BY <1>2, <1>4
      <4> QED
        BY <1>4, <1>5, <4>1, IncreasingParts
    <3> QED
      BY <1>5, <3>1, <3>2
  <2> QED
    BY <1>4, <1>5, <2>2, <2>3, <2>4, <2>5 DEF WorkerKeeps
<1>11. \A v \in Workers : WorkerKeeps(v)'
  BY <1>5, <1>8, <1>9, <1>10, OtherWorker DEF IInv
<1>12. NoneForgotten'
  <2>1. ASSUME NEW v \in Workers, NEW r \in HeldBy(v)
        PROVE  r \in HeldBy(v)' \/ r \in overflowed'
    <3>1. CASE v = w
      BY <1>3, <1>6, <2>1, <3>1 DEF HeldBy
    <3>2. CASE v # w
      BY <1>5, <2>1, <3>2 DEF HeldBy
    <3> QED
      BY <3>1, <3>2
  <2> QED
    BY <1>7, <1>8, <1>9, <2>1, NothingForgotten
<1> QED
  BY <1>3, <1>8, <1>9, <1>11, <1>12, LedgerStays DEF IInv

LEMMA RestartStep ==
  ASSUME IInv, NEW w \in Workers, Restart(w)
  PROVE  IInv'
<1>1. /\ phase[w] = Stopped /\ phase' = [phase EXCEPT ![w] = Sleeping]
      /\ pending' = [pending EXCEPT ![w] = <<>>]
      /\ UNCHANGED <<now, log, batch, committed, overflowed, late, failures, rows, daily, lastUsed, refused>>
  BY DEF Restart, convex
<1>2. WorkerKeeps(w) /\ w \in Stoppable /\ batch[w] = <<>> /\ ~committed[w]
  BY <1>1 DEF IInv, WorkerKeeps, Sending, Flushing, Stopping, Stopped
<1>3. /\ \A v \in Workers \ {w} : pending'[v] = pending[v] /\ phase'[v] = phase[v]
      /\ pending'[w] = <<>> /\ phase'[w] = Sleeping
  BY <1>1 DEF IInv, Tables
<1>4. Grows
  <2>1. Len(log) \in Nat
    BY DEF IInv, Tables
  <2> QED
    BY <1>1, <2>1 DEF Grows, Stored
<1>5. Tables'
  BY <1>1 DEF IInv, Tables, Phases, Records
<1>6. WorkerKeeps(w)'
  <2>1. <<>> \o <<>> = <<>>
    OBVIOUS
  <2>2. HeldBy(w)' = {}
    BY <1>1, <1>2, <1>3 DEF HeldBy, Elements
  <2> QED
    BY <1>1, <1>2, <1>3, <2>1, <2>2, UsageAssumption
       DEF WorkerKeeps, Increasing, Sending, Sleeping, Flushing, Stopping, Stopped
<1>7. \A v \in Workers : WorkerKeeps(v)'
  BY <1>1, <1>3, <1>4, <1>5, <1>6, OtherWorker DEF IInv
<1>8. NoneForgotten'
  <2>1. \A v \in Workers \ Stoppable : HeldBy(v)' = HeldBy(v)
    BY <1>1, <1>2, <1>3 DEF HeldBy
  <2>2. Records' = Records
    BY <1>1 DEF Records
  <2> QED
    BY <1>4, <1>5, <2>1, <2>2, NothingForgotten
<1> QED
  BY <1>1, <1>4, <1>5, <1>7, <1>8, LedgerStays DEF IInv

\* Time passes, or nothing happens.
LEMMA IdleStep ==
  ASSUME IInv, now' = now \/ now' = now + 1, UNCHANGED <<gateway, late, failures, convex>>
  PROVE  IInv'
<1>1. UNCHANGED <<log, phase, pending, batch, committed, overflowed, late, failures, rows, daily, lastUsed, refused>>
  BY DEF gateway, convex
<1>2. Grows
  <2>1. Len(log) \in Nat
    BY DEF IInv, Tables
  <2> QED
    BY <1>1, <2>1 DEF Grows, Stored
<1>3. Tables'
  <2>1. now' \in Nat /\ 0..now \subseteq 0..now'
    BY DEF IInv, Tables
  <2>2. DOMAIN rows \subseteq Records \X (0..now')
    BY <2>1 DEF IInv, Tables
  <2> QED
    BY <1>1, <2>1, <2>2 DEF IInv, Tables, Records
<1>4. \A w \in Workers : WorkerKeeps(w)'
  BY <1>1, <1>2, <1>3, OtherWorker DEF IInv
<1>5. NoneForgotten'
  <2>1. \A w \in Workers : HeldBy(w)' = HeldBy(w)
    BY <1>1 DEF HeldBy
  <2>2. Records' = Records
    BY <1>1 DEF Records
  <2> QED
    BY <1>2, <1>3, <2>1, <2>2, NothingForgotten
<1> QED
  BY <1>1, <1>2, <1>3, <1>4, <1>5, LedgerStays DEF IInv

LEMMA StepIInv == IInv /\ [Next]_vars => IInv'
<1> SUFFICES ASSUME IInv, [Next]_vars PROVE IInv'
  OBVIOUS
<1>1. ASSUME NEW w \in Workers, NEW k \in Keys, NEW time \in now..(now + ClockAhead),
             NEW failed \in BOOLEAN, record(w, k, time, failed)
      PROVE  IInv'
  <2>1. time \in Nat
    BY UsageAssumption DEF IInv, Tables
  <2> QED
    BY <1>1, <2>1, RecordStep
<1>2. ASSUME NEW w \in Workers, Flush(w) PROVE IInv'
  BY <1>2, WakeStep, CommitStep, AnsweredStep DEF Flush
<1>3. ASSUME NEW w \in Workers, Restart(w) PROVE IInv'
  BY <1>3, RestartStep
<1>4. ASSUME NEW w \in Workers, NEW arrives \in BOOLEAN, CallFails(w, arrives) PROVE IInv'
  BY <1>4, CallFailsStep
<1>5. ASSUME NEW w \in Workers, NEW arrives \in BOOLEAN, stop(w, arrives) PROVE IInv'
  BY <1>5, StopStep
<1>6. CASE LateCommit
  BY <1>6, LateCommitStep
<1>7. CASE Tick
  BY <1>7, IdleStep DEF Tick
<1>8. CASE UNCHANGED vars
  BY <1>8, IdleStep DEF vars
<1> QED
  BY <1>1, <1>2, <1>3, <1>4, <1>5, <1>6, <1>7, <1>8 DEF Next

---------------------------------------------------------------------------
(* The theorems. *)

LEMMA InvariantHolds == Spec => []IInv
BY InitIInv, StepIInv, PTL DEF Spec

\* What a worker holds is what the middleware metered, within the bound of the buffer,
\* and it has a batch exactly while it awaits Convex.
THEOREM TypeCorrect == Spec => []TypeOK
BY InvariantHolds, IInvImplies, PTL

\* A request metered by a process that is not stopped has its row, is held for the next
\* flush, or was dropped by the bound or the checks of recordUsage, and each process
\* sends its records in the order of its requests: for any number of processes, batch
\* and buffer size, and whatever calls fail, arrive late or are answered to nobody.
THEOREM BatchesComeBack == Spec => []KeptInOrder
BY InvariantHolds, IInvImplies, PTL

\* The daily totals are the raw rows counted, for any order and repetition of batches.
THEOREM TotalsCountTheRows == Spec => []RollupsAgree
<1>1. IInv => RollupsAgree
  BY DEF IInv
<1> QED
  BY <1>1, InvariantHolds, PTL

\* lastUsedAt is the time of the key's latest row, in whatever order batches arrive.
THEOREM LastUseIsTheLatestRow == Spec => []LastUsedIsLatest
<1>1. IInv => LastUsedIsLatest
  BY DEF IInv
<1> QED
  BY <1>1, InvariantHolds, PTL
=============================================================================
