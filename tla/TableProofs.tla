---------------------------- MODULE TableProofs ----------------------------
(***************************************************************************)
(* Lemmas about PointTable that the proofs about its readers share.        *)
(***************************************************************************)
EXTENDS PointTable, FiniteSetTheorems, TLAPS

(* A non-empty set of numbers that is bounded has a largest one.           *)
LEMMA LargestExists ==
  ASSUME NEW n \in Nat, NEW S \in SUBSET (1..n), S # {}
  PROVE  \E x \in S : \A y \in S : x >= y
<1> DEFINE N == 1..n
           From(i) == i..n
           T == {From(i) : i \in S}
<1>1. IsFiniteSet(N) /\ FiniteSubsetsOf(N) = SUBSET N
  BY FS_Interval, FS_FiniteSubsetsOfFinite
<1>2. T \subseteq SUBSET N /\ T # {}
  <2>1. \A i \in S : From(i) \subseteq N
    OBVIOUS
  <2>2. \E i \in S : TRUE
    OBVIOUS
  <2> HIDE DEF From, N
  <2> QED
    BY <2>1, <2>2
<1>3. IsWellFoundedOn(StrictSubsetOrdering(N), SUBSET N)
  BY <1>1, FS_StrictSubsetOrderingWellFounded
<1>4. PICK t \in T : \A u \in T : <<u, t>> \notin StrictSubsetOrdering(N)
  <2> HIDE DEF T
  <2> QED
    BY <1>2, <1>3, WFMin
<1>5. PICK x \in S : t = From(x)
  BY <1>4
<1>6. ASSUME NEW y \in S, y > x PROVE FALSE
  <2>1. From(y) \in T /\ From(y) \subseteq From(x) /\ From(y) # From(x)
    <3>1. x \in From(x) /\ x \notin From(y)
      BY <1>6
    <3> QED
      BY <1>6, <3>1
  <2>2. <<From(y), From(x)>> \in StrictSubsetOrdering(N)
    BY <2>1 DEF StrictSubsetOrdering
  <2> QED
    BY <1>4, <1>5, <2>1, <2>2
<1>7. \A y \in S : x >= y
  BY <1>6
<1> QED
  BY <1>7

(* Every key of a batch ends up with one of its points.                    *)
LEMMA LastOfKey ==
  ASSUME NEW b \in Batches, NEW k \in Touched(b)
  PROVE  \E i \in DOMAIN b : IsLast(b, i) /\ b[i].key = k
<1> DEFINE S == {i \in 1..Len(b) : b[i].key = k}
<1>1. b \in Seq(Point) /\ DOMAIN b = 1..Len(b) /\ Len(b) \in Nat
  BY TableAssumption
<1>2. S \in SUBSET (1..Len(b)) /\ S # {}
  BY <1>1 DEF Touched
<1>3. PICK i \in S : \A j \in S : i >= j
  <2> HIDE DEF S
  <2> QED
    BY <1>1, <1>2, LargestExists
<1>4. \A j \in DOMAIN b : j > i => b[j].key # b[i].key
  BY <1>1, <1>3
<1> QED
  BY <1>1, <1>3, <1>4 DEF IsLast

LEMMA LastAttrTyped ==
  ASSUME NEW b \in Batches, NEW k \in Touched(b)
  PROVE  LastAttr(b, k) \in Attrs
<1> DEFINE i == CHOOSE i \in DOMAIN b : IsLast(b, i) /\ b[i].key = k
<1>1. i \in DOMAIN b
  BY LastOfKey
<1>2. b[i] \in Point
  BY <1>1, TableAssumption
<1> QED
  BY <1>2 DEF LastAttr, Point

(* What an upload writes is an entry, so no point disappears.              *)
LEMMA TableGrows ==
  ASSUME rows \in [Keys -> Entry \cup {NoRow}], clock \in Nat \ {0}, TableNext
  PROVE  /\ rows' \in [Keys -> Entry \cup {NoRow}] /\ clock' \in Nat \ {0} /\ clock <= clock'
         /\ \A k \in Keys : rows[k] # NoRow => rows'[k] # NoRow
<1>1. CASE Tick
  BY <1>1 DEF Tick
<1>2. ASSUME NEW b \in Batches, Upsert(b)
      PROVE  /\ rows' \in [Keys -> Entry \cup {NoRow}] /\ UNCHANGED clock
             /\ \A k \in Keys : rows[k] # NoRow => rows'[k] # NoRow
  <2>1. PICK stamp \in [Touched(b) -> Stamps] :
          rows' = [k \in Keys |-> IF k \in Touched(b)
                                  THEN [attr |-> LastAttr(b, k), updated |-> stamp[k]]
                                  ELSE rows[k]]
    BY <1>2 DEF Upsert
  <2>2. ASSUME NEW k \in Touched(b)
        PROVE  [attr |-> LastAttr(b, k), updated |-> stamp[k]] \in Entry
    <3>1. stamp[k] \in Nat \ {0}
      BY <2>1, <2>2 DEF Stamps
    <3> QED
      BY <3>1, LastAttrTyped DEF Entry
  <2> QED
    BY <1>2, <2>1, <2>2, TableAssumption DEF Upsert
<1> QED
  BY <1>1, <1>2 DEF TableNext

-----------------------------------------------------------------------------
(* Division rounds down.                                                   *)
LEMMA Quotient ==
  ASSUME NEW a \in Int, NEW n \in Nat \ {0}
  PROVE  a \div n \in Int /\ (a \div n) * n <= a /\ a < (a \div n) * n + n
BY SMT

LEMMA Multiples ==
  ASSUME NEW p \in Int, NEW q \in Int, NEW n \in Nat \ {0}, p < q
  PROVE  p * n + n <= q * n
BY SMT

LEMMA QuotientAtLeast ==
  ASSUME NEW a \in Int, NEW q \in Int, NEW n \in Nat \ {0}
  PROVE  a \div n >= q <=> a >= q * n
<1>1. /\ a \div n \in Int /\ (a \div n) * n <= a /\ a < (a \div n) * n + n
      /\ q * n \in Int /\ (a \div n) * n \in Int
  BY Quotient
<1>2. CASE a \div n = q
  BY <1>1, <1>2
<1>3. CASE a \div n > q
  <2>1. q * n + n <= (a \div n) * n
    BY <1>1, <1>3, Multiples
  <2> QED
    BY <1>1, <1>3, <2>1
<1>4. CASE a \div n < q
  <2>1. (a \div n) * n + n <= q * n
    BY <1>1, <1>4, Multiples
  <2> QED
    BY <1>1, <1>4, <2>1
<1> QED
  BY <1>1, <1>2, <1>3, <1>4
=============================================================================
