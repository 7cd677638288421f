---------------------------- MODULE IngestProofs ----------------------------
(***************************************************************************)
(* What is stored of any upload is in bounds, one fix is one row in every  *)
(* form its time can have, its battery level is off by one percent at      *)
(* most, and every answer 200 has a body unless an altitude is infinite:   *)
(* proofs about Ingest, for any values, any precision of time and of       *)
(* floats, and any width of the integers that holds MsAbove.               *)
(***************************************************************************)
EXTENDS Ingest, FiniteSetTheorems, TLAPS

(* A non-empty set of numbers that is bounded has a largest one.           *)
LEMMA LargestExists ==
  ASSUME NEW n \in Nat, NEW S \in SUBSET (1..n), S # {}
  PROVE  \E x \in S : \A y \in S : x >= y
<1> DEFINE N == 1..n
           From(i) == i..n
           T == {From(i) : i \in S}
<1>1. IsFiniteSet(N) /\ FiniteSubsetsOf(N) = SUBSET N
  BY FS_Interval, FS_FiniteSubsetsOfFinite
<1>2. T \subseteq SUBSET N /\ T # {}
  <2>1. \A i \in S : From(i) \subseteq N
    OBVIOUS
  <2>2. \E i \in S : TRUE
    OBVIOUS
  <2> HIDE DEF From, N
  <2> QED
    BY <2>1, <2>2
<1>3. IsWellFoundedOn(StrictSubsetOrdering(N), SUBSET N)
  BY <1>1, FS_StrictSubsetOrderingWellFounded
<1>4. PICK t \in T : \A u \in T : <<u, t>> \notin StrictSubsetOrdering(N)
  <2> HIDE DEF T
  <2> QED
    BY <1>2, <1>3, WFMin
<1>5. PICK x \in S : t = From(x)
  BY <1>4
<1>6. ASSUME NEW y \in S, y > x PROVE FALSE
  <2>1. From(y) \in T /\ From(y) \subseteq From(x) /\ From(y) # From(x)
    <3>1. x \in From(x) /\ x \notin From(y)
      BY <1>6
    <3> QED
      BY <1>6, <3>1
  <2>2. <<From(y), From(x)>> \in StrictSubsetOrdering(N)
    BY <2>1 DEF StrictSubsetOrdering
  <2> QED
    BY <1>4, <1>5, <2>1, <2>2
<1>7. \A y \in S : x >= y
  BY <1>6
<1> QED
  BY <1>7

(* Division rounds down.                                                   *)
LEMMA Quotient ==
  ASSUME NEW a \in Int, NEW n \in Nat \ {0}
  PROVE  a \div n \in Int /\ (a \div n) * n <= a /\ a < (a \div n) * n + n
BY SMT

LEMMA Multiples ==
  ASSUME NEW p \in Int, NEW q \in Int, NEW n \in Nat \ {0}, p < q
  PROVE  p * n + n <= q * n
BY SMT

LEMMA QuotientAtLeast ==
  ASSUME NEW a \in Int, NEW q \in Int, NEW n \in Nat \ {0}
  PROVE  a \div n >= q <=> a >= q * n
<1>1. /\ a \div n \in Int /\ (a \div n) * n <= a /\ a < (a \div n) * n + n
      /\ q * n \in Int /\ (a \div n) * n \in Int
  BY Quotient
<1>2. CASE a \div n = q
  BY <1>1, <1>2
<1>3. CASE a \div n > q
  <2>1. q * n + n <= (a \div n) * n
    BY <1>1, <1>3, Multiples
  <2> QED
    BY <1>1, <1>3, <2>1
<1>4. CASE a \div n < q
  <2>1. (a \div n) * n + n <= q * n
    BY <1>1, <1>4, Multiples
  <2> QED
    BY <1>1, <1>4, <2>1
<1> QED
  BY <1>1, <1>2, <1>3, <1>4

(* ... so between two multiples there is one quotient.                     *)
LEMMA QuotientIs ==
  ASSUME NEW a \in Int, NEW q \in Int, NEW n \in Nat \ {0}, q * n <= a, a < q * n + n
  PROVE  a \div n = q
<1>1. a \div n \in Int /\ a \div n >= q
  BY Quotient, QuotientAtLeast
<1>2. q + 1 \in Int /\ (q + 1) * n = q * n + n
  BY SMT
<1>3. ~(a \div n >= q + 1)
  <2>1. q * n + n \in Int /\ ~(a >= q * n + n)
    BY SMT
  <2> QED
    BY <1>2, <2>1, QuotientAtLeast
<1> QED
  BY <1>1, <1>3

(* Cutting twice is cutting once.                                          *)
LEMMA QuotientTwice ==
  ASSUME NEW a \in Int, NEW m \in Nat \ {0}, NEW n \in Nat \ {0}
  PROVE  m * n \in Nat \ {0} /\ a \div (m * n) = (a \div m) \div n
<1> DEFINE p == a \div m
           q == p \div n
<1>1. p \in Int /\ p * m <= a /\ a < p * m + m
  BY Quotient
<1>2. q \in Int /\ q * n <= p /\ p < q * n + n
  BY <1>1, Quotient
<1>3. m * n \in Nat \ {0} /\ m * n \in Int
  BY SMT
<1> HIDE DEF p, q
<1>4. (q * n) * m <= p * m
  <2>1. CASE q * n = p
    BY <1>1, <2>1
  <2>2. CASE q * n < p
    <3>1. q * n \in Int /\ (q * n) * m + m <= p * m
      BY <1>1, <1>2, <2>2, Multiples
    <3>2. (q * n) * m \in Int /\ p * m \in Int
      BY <1>1, <3>1
    <3> QED
      BY <3>1, <3>2
  <2>3. q * n \in Int
    BY <1>2
  <2> QED
    BY <1>1, <1>2, <2>1, <2>2, <2>3
<1>5. p * m + m <= (q * n + n) * m
  <2>1. q * n + n \in Int
    BY <1>2
  <2> QED
    BY <1>1, <1>2, <2>1, Multiples
<1>6. (q * n) * m = q * (m * n) /\ (q * n + n) * m = q * (m * n) + m * n
  BY <1>2, SMT
<1>7. q * (m * n) \in Int /\ p * m \in Int
  BY <1>1, <1>2, <1>3
<1>8. q * (m * n) <= a /\ a < q * (m * n) + m * n
  <2> DEFINE x == q * (m * n)
             y == p * m
             z == m * n
  <2>1. x \in Int /\ y \in Int /\ z \in Int /\ x <= y /\ y + m <= x + z /\ y <= a /\ a < y + m
    BY <1>1, <1>3, <1>4, <1>5, <1>6, <1>7
  <2> HIDE DEF x, y, z
  <2>2. x <= a /\ a < x + z
    BY <2>1
  <2> QED
    BY <2>2 DEF x, z
<1>9. a \div (m * n) = q
  <2> DEFINE z == m * n
  <2>1. z \in Nat \ {0} /\ q * z <= a /\ a < q * z + z
    BY <1>3, <1>8
  <2> HIDE DEF z
  <2>2. a \div z = q
    BY <1>2, <2>1, QuotientIs
  <2> QED
    BY <2>2 DEF z
<1> QED
  BY <1>3, <1>9 DEF p, q

-----------------------------------------------------------------------------
(* Floats that are numbers compare as numbers.                             *)
LEMMA LessOfNumbers ==
  ASSUME NEW f \in Float
  PROVE  /\ \A g \in Int : f \in Int => /\ Less(f, g) <=> f < g
                                        /\ Less(g, f) <=> g < f
         /\ Finite(f) <=> f \in Int
         /\ \A g \in Int : f \in {PosInf, NegInf} => Less(f, g) \/ Less(g, f)
         /\ \A g \in Int : /\ Less(f, g) => f # NaN /\ f # PosInf
                           /\ Less(g, f) => f # NaN /\ f # NegInf
  BY IngestAssumption DEF Float, Less, Finite

LEMMA AsFloatTyped ==
  ASSUME NEW v \in Value
  PROVE  /\ AsFloat(v) \subseteq Float
         /\ \A f \in AsFloat(v) : AsFloat(v) = {f}
         /\ OptFloat(v) \in AsFloat(v) \/ (OptFloat(v) = Null /\ AsFloat(v) = {})
         /\ v.type = "string" /\ v.reads = "float" => AsFloat(v) = {v.value}
         /\ AsFloat(v) = {} /\ v.type = "string" /\ v.reads = "time" =>
              v.value \in (MinInt * Sub)..(MaxInt * Sub - 1)
<1>1. AsFloat(v) \subseteq Float
  BY DEF Value, AsFloat, Float
<1>2. \A f \in AsFloat(v) : AsFloat(v) = {f}
  BY DEF AsFloat
<1>3. OptFloat(v) \in AsFloat(v) \/ (OptFloat(v) = Null /\ AsFloat(v) = {})
  BY DEF OptFloat
<1>4. v.type = "string" /\ v.reads = "float" => AsFloat(v) = {v.value}
  BY DEF AsFloat
<1>5. AsFloat(v) = {} /\ v.type = "string" /\ v.reads = "time" =>
        v.value \in (MinInt * Sub)..(MaxInt * Sub - 1)
  BY DEF Value
<1> QED
  BY <1>1, <1>2, <1>3, <1>4, <1>5

-----------------------------------------------------------------------------
(* Conversions to integers.                                                *)
LEMMA TruncatedBounds ==
  ASSUME NEW f \in Int, NEW n \in Nat \ {0}, NEW lo \in Int, NEW hi \in Int, lo <= 0, 0 <= hi,
         lo * n <= f, f <= hi * n
  PROVE  /\ Truncated(f, n) \in lo..hi
         /\ f >= 0 => Truncated(f, n) = f \div n
         /\ f < 0 /\ f % n = 0 => Truncated(f, n) = f \div n
<1>1. CASE f >= 0
  <2>1. Truncated(f, n) = f \div n /\ f \div n \in Int
    BY <1>1, Quotient DEF Truncated
  <2>2. f \div n >= 0
    BY <1>1, QuotientAtLeast
  <2>3. f \div n <= hi
    <3>1. (f \div n >= hi + 1) <=> f >= (hi + 1) * n
      BY QuotientAtLeast
    <3>2. (hi + 1) * n = hi * n + n /\ hi * n \in Int
      BY SMT
    <3> DEFINE m == hi * n
               q == f \div n
    <3>3. m \in Int /\ f <= m /\ q \in Int /\ (q >= hi + 1 <=> f >= m + n)
      BY <2>1, <3>1, <3>2
    <3> HIDE DEF m, q
    <3>4. q <= hi
      BY <3>3
    <3> QED
      BY <3>4 DEF q
  <2> QED
    BY <1>1, <2>1, <2>2, <2>3
<1>2. CASE f < 0
  <2> DEFINE g == -f
             q == g \div n
  <2>1. g \in Nat /\ q \in Int /\ q * n <= g /\ g < q * n + n /\ q >= 0
    <3>1. g \in Int /\ g >= 0 /\ 0 * n = 0
      BY <1>2
    <3> QED
      BY <3>1, Quotient, QuotientAtLeast
  <2>2. Truncated(f, n) = -q
    BY <1>2 DEF Truncated
  <2>3. -q >= lo
    <3>1. (q >= -lo + 1) <=> g >= (-lo + 1) * n
      <4> HIDE DEF g
      <4> QED
        BY <2>1, QuotientAtLeast DEF q
    <3>2. (-lo + 1) * n = -(lo * n) + n /\ lo * n \in Int
      BY SMT
    <3> DEFINE m == lo * n
    <3>3. m \in Int /\ m <= f /\ (q >= -lo + 1 <=> g >= -m + n)
      BY <3>1, <3>2
    <3> HIDE DEF m, q
    <3> QED
      BY <2>1, <3>3
  <2>4. ASSUME f % n = 0 PROVE -q = f \div n
    <3> DEFINE p == f \div n
    <3>1. p \in Int /\ f = p * n
      BY <2>4, SMT
    <3>2. -p \in Int /\ (-p) * n = -(p * n) /\ p * n \in Int
      <4> HIDE DEF p
      <4> QED
        BY <3>1
    <3>3. g = (-p) * n /\ g \in Int
      BY <3>1, <3>2
    <3>4. (-p) * n <= g /\ g < (-p) * n + n
      <4> DEFINE m == (-p) * n
      <4>1. g = m /\ m \in Int
        BY <3>3
      <4> HIDE DEF m, g
      <4>2. m <= g /\ g < m + n
        BY <4>1
      <4> QED
        BY <4>2 DEF m
    <3>5. q = -p
      <4> HIDE DEF p, g
      <4> QED
        BY <3>2, <3>3, <3>4, QuotientIs DEF q
    <3> HIDE DEF p, q
    <3>6. -q = p
      BY <3>1, <3>5
    <3> QED
      BY <3>6 DEF p
  <2> HIDE DEF q
  <2> QED
    BY <1>2, <2>1, <2>2, <2>3, <2>4
<1> QED
  BY <1>1, <1>2

LEMMA ToIntBounds ==
  ASSUME NEW f \in Float, NEW by \in Nat \ {0}
  PROVE  /\ ToInt(f, by) \subseteq MinInt..MaxInt
         /\ f \notin (MinInt * Sub * by)..(MaxInt * Sub * by) => ToInt(f, by) \subseteq {MinInt, 0, MaxInt}
         /\ f \in (MinInt * Sub * by)..(MaxInt * Sub * by) =>
              /\ f >= 0 => ToInt(f, by) = {f \div (Sub * by)}
              /\ f < 0 /\ f % (Sub * by) = 0 => ToInt(f, by) = {f \div (Sub * by)}
<1> DEFINE lo == MinInt * Sub * by
           hi == MaxInt * Sub * by
           n == Sub * by
<1>1. /\ MinInt \in Int /\ MaxInt \in Int /\ MinInt <= 0 /\ 0 <= MaxInt
      /\ Sub \in Nat \ {0}
  BY IngestAssumption DEF MinInt
<1>2. /\ n \in Nat \ {0} /\ lo = MinInt * n /\ hi = MaxInt * n /\ lo \in Int /\ hi \in Int
  BY <1>1, SMT
<1>3. /\ f \in Int => (Less(hi, f) <=> hi < f) /\ (Less(f, lo) <=> f < lo)
      /\ f \in {PosInf, NegInf} => Less(hi, f) \/ Less(f, lo)
  <2>1. f \in Int => (Less(hi, f) <=> hi < f) /\ (Less(f, lo) <=> f < lo)
    BY <1>2, LessOfNumbers
  <2>2. ASSUME f \in {PosInf, NegInf} PROVE Less(hi, f) \/ Less(f, lo)
    BY <1>2, <2>2, IngestAssumption DEF Less
  <2> QED
    BY <2>1, <2>2
<1>4. {MinInt, 0, MaxInt} \subseteq MinInt..MaxInt
  BY <1>1
<1>5. CASE f \in lo..hi
  <2>1. f \in Int /\ ~Less(hi, f) /\ ~Less(f, lo) /\ f # NaN
    BY <1>2, <1>3, <1>5, IngestAssumption
  <2>2. ToInt(f, by) = {Truncated(f, n)}
    BY <2>1 DEF ToInt
  <2>3. MinInt * n <= f /\ f <= MaxInt * n
    BY <1>2, <1>5
  <2> HIDE DEF n, lo, hi
  <2>4. /\ Truncated(f, n) \in MinInt..MaxInt
        /\ f >= 0 => Truncated(f, n) = f \div n
        /\ f < 0 /\ f % n = 0 => Truncated(f, n) = f \div n
    BY <1>1, <1>2, <2>1, <2>3, TruncatedBounds
  <2>5. ToInt(f, by) \subseteq MinInt..MaxInt
    BY <2>2, <2>4
  <2> QED
    BY <1>5, <2>2, <2>4, <2>5 DEF n, lo, hi
<1>6. CASE f \notin lo..hi
  <2>1. f = NaN \/ Less(hi, f) \/ Less(f, lo)
    <3> HIDE DEF lo, hi
    <3> QED
      BY <1>2, <1>3, <1>6 DEF Float
  <2>2. ToInt(f, by) \subseteq {MinInt, 0, MaxInt}
    BY <2>1 DEF ToInt
  <2> QED
    BY <1>4, <1>6, <2>2
<1> QED
  BY <1>5, <1>6

(* What the timestamp of a fix becomes: the second of its instant, in      *)
(* every form; and other numbers become an end of int64, or 0.             *)
LEMMA UnixBounds ==
  ASSUME NEW f \in Float
  PROVE  /\ UnixFromFloat(f) \subseteq MinInt..MaxInt
         /\ f \notin (MinInt * Sub)..(MaxInt * Sub * Sub) =>
              UnixFromFloat(f) \subseteq {MinInt, 0, MaxInt}
         /\ \A t \in (MinInt * Sub)..(MaxInt * Sub - 1) :
              f = t /\ t <= MsAbove * Sub /\ (t < 0 => t % Sub = 0) => UnixFromFloat(f) = {t \div Sub}
         /\ \A t \in (MinInt * Sub)..(MaxInt * Sub - 1) :
              f \in Int /\ f > MsAbove * Sub /\ f \div Sub = t => UnixFromFloat(f) = {t \div Sub}
<1> DEFINE ms == MsAbove * Sub
           lo == MinInt * Sub
           hi == MaxInt * Sub
           top == MaxInt * Sub * Sub
<1>1. /\ Sub \in Nat \ {0} /\ MsAbove \in Nat /\ MaxInt \in Nat /\ MsAbove <= MaxInt
      /\ MinInt \in Int /\ MinInt <= 0
  BY IngestAssumption DEF MinInt
<1>2. /\ ms \in Nat /\ lo \in Int /\ hi \in Int /\ top \in Int
      /\ lo <= 0 /\ 0 <= hi /\ ms <= hi /\ hi <= top /\ MinInt * Sub * Sub <= 0
  <2>1. ms \in Nat /\ lo \in Int /\ hi \in Int /\ top \in Int /\ lo <= 0 /\ 0 <= hi
    BY <1>1, SMT
  <2>2. ms <= hi
    <3>1. CASE MsAbove = MaxInt
      BY <2>1, <3>1
    <3>2. CASE MsAbove < MaxInt
      <4>1. MsAbove * Sub + Sub <= MaxInt * Sub
        BY <1>1, <3>2, Multiples
      <4> QED
        BY <1>1, <2>1, <4>1
    <3> QED
      BY <1>1, <3>1, <3>2
  <2>3. hi <= top
    <3>1. top = hi * Sub
      OBVIOUS
    <3> HIDE DEF hi, top
    <3> QED
      BY <1>1, <2>1, <3>1, SMT
  <2>4. MinInt * Sub * Sub <= 0
    <3>1. MinInt * Sub * Sub = lo * Sub
      OBVIOUS
    <3> HIDE DEF lo
    <3>2. lo * Sub <= 0
      BY <1>1, <2>1, SMT
    <3> QED
      BY <3>1, <3>2
  <2> QED
    BY <2>1, <2>2, <2>3, <2>4
<1>3. /\ f \in Int => (Less(ms, f) <=> ms < f)
      /\ f = PosInf => Less(ms, f)
      /\ f \in {NaN, NegInf} => ~Less(ms, f)
  <2>1. f \in Int => (Less(ms, f) <=> ms < f)
    BY <1>2, LessOfNumbers
  <2>2. ms # NaN /\ ms # PosInf /\ ms # NegInf
    BY <1>2, IngestAssumption
  <2> HIDE DEF ms
  <2>3. (f = PosInf => Less(ms, f)) /\ (f \in {NaN, NegInf} => ~Less(ms, f))
    BY <2>2, IngestAssumption DEF Less
  <2> QED
    BY <2>1, <2>3
<1>4. /\ MinInt * Sub * 1 = lo /\ MaxInt * Sub * 1 = hi /\ Sub * 1 = Sub
      /\ MaxInt * Sub * Sub = top
  BY <1>1
<1>5. /\ UnixFromFloat(f) = ToInt(f, IF Less(ms, f) THEN Sub ELSE 1)
      /\ 1 \in Nat \ {0}
  BY DEF UnixFromFloat
<1>6. UnixFromFloat(f) \subseteq MinInt..MaxInt
  BY <1>1, <1>5, ToIntBounds
<1>7. ASSUME f \notin lo..top PROVE UnixFromFloat(f) \subseteq {MinInt, 0, MaxInt}
  <2>1. CASE Less(ms, f)
    <3>1. f \notin (MinInt * Sub * Sub)..(MaxInt * Sub * Sub)
      <4>1. f \in Int => ms < f
        BY <1>3, <2>1
      <4>2. f \in Int => f > top
        <5> HIDE DEF ms, lo, hi, top
        <5> QED
          BY <1>2, <1>7, <4>1
      <4> QED
        BY <1>2, <4>2
    <3> QED
      BY <1>1, <1>5, <2>1, <3>1, ToIntBounds
  <2>2. CASE ~Less(ms, f)
    <3>1. f \notin (MinInt * Sub * 1)..(MaxInt * Sub * 1)
      <4> HIDE DEF ms, lo, hi, top
      <4> QED
        BY <1>2, <1>4, <1>7
    <3> QED
      BY <1>5, <2>2, <3>1, ToIntBounds
  <2> QED
    BY <2>1, <2>2
<1>8. ASSUME NEW t \in lo..(hi - 1), f = t, t <= ms, t < 0 => t % Sub = 0
      PROVE  UnixFromFloat(f) = {t \div Sub}
  <2>1. t \in Int /\ t \in lo..hi
    <3> HIDE DEF lo, hi, ms
    <3> QED
      BY <1>2
  <2>2. ~Less(ms, f)
    <3> HIDE DEF lo, hi, ms
    <3> QED
      BY <1>2, <1>3, <1>8, <2>1
  <2>3. UnixFromFloat(f) = ToInt(f, 1) /\ f \in (MinInt * Sub * 1)..(MaxInt * Sub * 1)
    BY <1>4, <1>5, <1>8, <2>1, <2>2
  <2>4. ToInt(f, 1) = {f \div (Sub * 1)}
    <3>1. f \in Int /\ (f >= 0 \/ f < 0) /\ (f < 0 => f % (Sub * 1) = 0)
      BY <1>4, <1>8, <2>1
    <3> QED
      BY <1>5, <2>3, <3>1, ToIntBounds
  <2> QED
    BY <1>4, <1>8, <2>3, <2>4
<1>9. ASSUME NEW t \in lo..(hi - 1), f \in Int, f > ms, f \div Sub = t
      PROVE  UnixFromFloat(f) = {t \div Sub}
  <2>1. UnixFromFloat(f) = ToInt(f, Sub)
    BY <1>3, <1>5, <1>9
  <2>2. f >= 0 /\ 0 <= top /\ MinInt * Sub * Sub <= 0
    <3> HIDE DEF ms, lo, hi, top
    <3> QED
      BY <1>2, <1>9
  <2>3. f <= top
    <3>1. f \div Sub >= hi <=> f >= hi * Sub
      BY <1>1, <1>2, <1>9, QuotientAtLeast
    <3>2. t \in Int /\ ~(t >= hi)
      <4> HIDE DEF lo, hi
      <4> QED
        BY <1>2
    <3>3. top = hi * Sub
      OBVIOUS
    <3> HIDE DEF ms, lo, hi, top
    <3> QED
      BY <1>2, <1>9, <3>1, <3>2, <3>3
  <2>4. f \in (MinInt * Sub * Sub)..(MaxInt * Sub * Sub)
    <3>1. MinInt * Sub * Sub \in Int /\ MaxInt * Sub * Sub \in Int
      BY <1>1
    <3> QED
      BY <1>9, <2>2, <2>3, <3>1
  <2>5. ToInt(f, Sub) = {f \div (Sub * Sub)}
    BY <1>1, <2>2, <2>4, ToIntBounds
  <2>6. f \div (Sub * Sub) = (f \div Sub) \div Sub
    BY <1>1, <1>9, QuotientTwice
  <2> QED
    BY <1>9, <2>1, <2>5, <2>6
<1> QED
  BY <1>6, <1>7, <1>8, <1>9

LEMMA TimestampBounds ==
  ASSUME NEW v \in Value
  PROVE  /\ ParseTimestamp(v) \subseteq MinInt..MaxInt
         /\ AsFloat(v) = {} /\ ~(v.type = "string" /\ v.reads = "time") => ParseTimestamp(v) = {}
         /\ \A f \in AsFloat(v) : f \notin (MinInt * Sub)..(MaxInt * Sub * Sub) =>
              ParseTimestamp(v) \subseteq {MinInt, 0, MaxInt}
         /\ \A t \in (MinInt * Sub)..(MaxInt * Sub - 1) :
              Reports(v, t) => ParseTimestamp(v) = {t \div Sub}
<1>1. CASE AsFloat(v) # {}
  <2>1. PICK f \in AsFloat(v) : AsFloat(v) = {f} /\ f \in Float
    BY <1>1, AsFloatTyped
  <2>2. ParseTimestamp(v) = UnixFromFloat(f)
    <3>1. ParseTimestamp(v) = UNION {UnixFromFloat(g) : g \in {f}}
      BY <1>1, <2>1 DEF ParseTimestamp
    <3> QED
      BY <3>1
  <2>3. \A t : Reports(v, t) <=>
          \/ f = t /\ t <= MsAbove * Sub /\ (t < 0 => t % Sub = 0)
          \/ f \in Int /\ f > MsAbove * Sub /\ f \div Sub = t
    BY <2>1 DEF Reports
  <2> QED
    BY <1>1, <2>1, <2>2, <2>3, UnixBounds
<1>2. CASE AsFloat(v) = {} /\ v.type = "string" /\ v.reads = "time"
  <2>1. ParseTimestamp(v) = {v.value \div Sub} /\ v.value \in (MinInt * Sub)..(MaxInt * Sub - 1)
    BY <1>2, AsFloatTyped DEF ParseTimestamp
  <2>2. \A t : Reports(v, t) => t = v.value
    BY <1>2 DEF Reports
  <2>3. v.value \div Sub \in MinInt..MaxInt
    <3> DEFINE t == v.value
               lo == MinInt * Sub
               hi == MaxInt * Sub
    <3>1. Sub \in Nat \ {0} /\ MinInt \in Int /\ MaxInt \in Int /\ lo \in Int /\ hi \in Int
      BY IngestAssumption DEF MinInt
    <3>2. t \in Int /\ lo <= t /\ t < hi
      <4> HIDE DEF lo, hi, t
      <4> QED
        BY <2>1, <3>1 DEF lo, hi, t
    <3>3. /\ t \div Sub \in Int
          /\ t \div Sub >= MinInt <=> t >= lo
          /\ t \div Sub >= MaxInt <=> t >= hi
      <4> HIDE DEF t
      <4> QED
        BY <3>1, <3>2, Quotient, QuotientAtLeast DEF lo, hi
    <3> HIDE DEF t, lo, hi
    <3>4. t \div Sub \in MinInt..MaxInt
      BY <3>1, <3>2, <3>3
    <3> QED
      BY <3>4 DEF t
  <2> QED
    BY <1>2, <2>1, <2>2, <2>3
<1>3. CASE AsFloat(v) = {} /\ ~(v.type = "string" /\ v.reads = "time")
  <2>1. ParseTimestamp(v) = {} /\ \A t : ~Reports(v, t)
    BY <1>3 DEF ParseTimestamp, Reports
  <2> QED
    BY <1>3, <2>1
<1> QED
  BY <1>1, <1>2, <1>3

-----------------------------------------------------------------------------
(* What a feature may become.                                              *)
LEMMA Globe ==
  ASSUME NEW lat \in Float, NEW lon \in Float
  PROVE  ValidCoord(lat, lon) <=> lat \in Latitudes /\ lon \in Longitudes
<1> DEFINE n == MaxLat * Sub
           w == MaxLon * Sub
<1>1. n \in Int /\ w \in Int /\ -n \in Int /\ -w \in Int
  BY IngestAssumption
<1>2. /\ Latitudes = (-n)..n /\ Longitudes = (-w)..w
      /\ ValidCoord(lat, lon) <=> /\ Finite(lat) /\ Finite(lon)
                                  /\ ~Less(lat, -n) /\ ~Less(n, lat)
                                  /\ ~Less(lon, -w) /\ ~Less(w, lon)
  BY DEF Latitudes, Longitudes, ValidCoord
<1> HIDE DEF n, w
<1>3. /\ Finite(lat) <=> lat \in Int
      /\ Finite(lon) <=> lon \in Int
      /\ lat \in Int => (Less(lat, -n) <=> lat < -n) /\ (Less(n, lat) <=> n < lat)
      /\ lon \in Int => (Less(lon, -w) <=> lon < -w) /\ (Less(w, lon) <=> w < lon)
  BY <1>1, LessOfNumbers
<1> QED
  BY <1>1, <1>2, <1>3

LEMMA CourseFits ==
  ASSUME NEW v \in Value
  PROVE  \/ ColumnSafeDecimal(v) = Null
         \/ ColumnSafeDecimal(v) \in (-CourseLimit * Sub + 1)..(CourseLimit * Sub - 1)
<1> DEFINE f == OptFloat(v)
           n == CourseLimit * Sub
<1> SUFFICES ASSUME f # Null, Finite(f), InColumn(f)
             PROVE  f \in (-n + 1)..(n - 1)
  BY DEF ColumnSafeDecimal
<1>1. f \in Float
  BY AsFloatTyped
<1>2. n \in Int /\ -n \in Int
  BY IngestAssumption
<1>3. Less(f, n) /\ Less(-n, f)
  BY DEF InColumn
<1> HIDE DEF f, n
<1>4. f \in Int /\ f < n /\ -n < f
  BY <1>1, <1>2, <1>3, LessOfNumbers
<1> QED
  BY <1>2, <1>4

LEMMA BatteryPositive ==
  ASSUME NEW n, NEW b \in BatteryPercent(n)
  PROVE  b = Null \/ ~(b <= 0)
<1>1. PercentOf(n) = Null \/ ~(PercentOf(n) <= 0)
  BY Zenon DEF PercentOf
<1>2. b = PercentOf(n) \/ \E percent \in ToInt(n, 1) : b = IF percent <= 0 THEN Null ELSE percent
  BY DEF BatteryPercent
<1> QED
  BY <1>1, <1>2, Zenon

(* A level comes out as some percentage, or none.                          *)
LEMMA BatteryExists ==
  ASSUME NEW n \in Level
  PROVE  BatteryPercent(n) # {}
<1> DEFINE Made(i) == IF i <= 0 THEN Null ELSE i
<1>1. ToInt(n, 1) # {}
  BY DEF ToInt
<1>2. PICK i \in ToInt(n, 1) : TRUE
  BY <1>1
<1>3. \/ BatteryPercent(n) = {PercentOf(n)}
      \/ BatteryPercent(n) = {Made(percent) : percent \in ToInt(n, 1)}
  BY DEF BatteryPercent
<1> HIDE DEF Made
<1> QED
  BY <1>2, <1>3

(* A row that may be stored under key k.                                   *)
RowOK(k, row) ==
  /\ k.ts \in MinInt..MaxInt /\ k.lat \in Latitudes /\ k.lon \in Longitudes
  /\ row.altitude \in (Float \ {NaN}) \cup {Null}
  /\ row.course = Null \/ row.course \in (-CourseLimit * Sub + 1)..(CourseLimit * Sub - 1)
  /\ row.battery = Null \/ ~(row.battery <= 0)

LEMMA PointsFit ==
  ASSUME NEW m \in Feature, NEW p \in GeoJSONPoint(m)
  PROVE  /\ RowOK(p.key, Stored(p))
         /\ p.key.ts \in ParseTimestamp(m.timestamp)
         /\ Len(m.coordinates) >= 2
         /\ p.key.lon \in AsFloat(m.coordinates[1]) /\ p.key.lat \in AsFloat(m.coordinates[2])
         /\ ~NullIsland(p.key.lat, p.key.lon)
         /\ Stored(p).battery \in BatteryPercent(m.battery)
<1> DEFINE c == m.coordinates
<1>1. c \in Seq(Value) /\ m.timestamp \in Value /\ m.altitude \in Value /\ m.course \in Value
  BY DEF Feature
<1>2. Len(c) >= 2
  <2>1. Len(c) \in Nat /\ ~(Len(c) < 2)
    BY <1>1 DEF GeoJSONPoint
  <2> QED
    BY <2>1
<1>3. c[1] \in Value /\ c[2] \in Value
  BY <1>1, <1>2
<1>4. PICK lon \in AsFloat(c[1]), lat \in AsFloat(c[2]), ts \in ParseTimestamp(m.timestamp),
           battery \in BatteryPercent(m.battery) :
        /\ \A g \in AsFloat(c[1]) : ValidCoord(lat, g) /\ ~NullIsland(lat, g)
        /\ p = [key |-> [ts |-> ts, lat |-> lat, lon |-> lon],
                altitude |-> OptFloat(m.altitude),
                course |-> ColumnSafeDecimal(m.course),
                battery |-> battery]
  BY <1>2 DEF GeoJSONPoint
<1>5. lon \in Float /\ lat \in Float
  BY <1>3, <1>4, AsFloatTyped
<1>6. lat \in Latitudes /\ lon \in Longitudes /\ ~NullIsland(lat, lon)
  BY <1>4, <1>5, Globe
<1>7. ts \in MinInt..MaxInt
  BY <1>1, <1>4, TimestampBounds
<1>8. /\ p.key.ts = ts /\ p.key.lat = lat /\ p.key.lon = lon
      /\ Stored(p).altitude = Column(OptFloat(m.altitude))
      /\ Stored(p).course = Column(ColumnSafeDecimal(m.course))
      /\ Stored(p).battery \in BatteryPercent(m.battery)
  BY <1>4 DEF Stored
<1>9. Stored(p).altitude \in (Float \ {NaN}) \cup {Null}
  BY <1>1, <1>8, AsFloatTyped, IngestAssumption DEF Column
<1>10. Stored(p).course = ColumnSafeDecimal(m.course)
  <2>1. ColumnSafeDecimal(m.course) # NaN
    BY <1>1, CourseFits, IngestAssumption
  <2> QED
    BY <1>8, <2>1 DEF Column
<1> QED
  BY <1>1, <1>2, <1>4, <1>6, <1>7, <1>8, <1>9, <1>10, CourseFits, BatteryPositive DEF RowOK

(* A fix is one point with its key; what is none has a timestamp that no   *)
(* instant has.                                                            *)
LEMMA FixesBecomeKeys ==
  ASSUME NEW l \in [feature : Feature, fix : Fix \cup {Null}], IsFix(l)
  PROVE  /\ GeoJSONPoint(l.feature) # {}
         /\ \A p \in GeoJSONPoint(l.feature) : p.key = KeyOf(l.fix)
<1> DEFINE m == l.feature
           c == m.coordinates
           fix == l.fix
<1>1. /\ m \in Feature /\ fix \in Fix /\ c \in Seq(Value) /\ m.timestamp \in Value
      /\ ~NullIsland(fix.lat, fix.lon) /\ Len(c) >= 2
      /\ AsFloat(c[1]) = {fix.lon} /\ AsFloat(c[2]) = {fix.lat}
      /\ Reports(m.timestamp, fix.at)
  BY DEF IsFix, Feature
<1>2. ParseTimestamp(m.timestamp) = {fix.at \div Sub}
  BY <1>1, TimestampBounds DEF Fix
<1>3. ~(Len(c) < 2) /\ c[1] \in Value /\ c[2] \in Value
  BY <1>1
<1>4. fix.lat \in Float /\ fix.lon \in Float /\ fix.lat \in Latitudes /\ fix.lon \in Longitudes
  BY <1>1, <1>3, AsFloatTyped DEF Fix
<1>5. ValidCoord(fix.lat, fix.lon)
  BY <1>4, Globe
<1>6. GeoJSONPoint(m) # {}
  <2>1. fix.lat \in {f \in AsFloat(c[2]) : \A g \in AsFloat(c[1]) : ValidCoord(f, g) /\ ~NullIsland(f, g)}
    BY <1>1, <1>5
  <2> DEFINE G(lon, lat, ts, battery) ==
               [key |-> [ts |-> ts, lat |-> lat, lon |-> lon],
                altitude |-> OptFloat(m.altitude),
                course |-> ColumnSafeDecimal(m.course),
                battery |-> battery]
             lats == {f \in AsFloat(c[2]) : \A g \in AsFloat(c[1]) : ValidCoord(f, g) /\ ~NullIsland(f, g)}
  <2>2. GeoJSONPoint(m) = {G(lon, lat, ts, battery) : battery \in BatteryPercent(m.battery),
                             lon \in AsFloat(c[1]), lat \in lats, ts \in ParseTimestamp(m.timestamp)}
    BY <1>3 DEF GeoJSONPoint
  <2>3. fix.lon \in AsFloat(c[1]) /\ fix.lat \in lats /\ fix.at \div Sub \in ParseTimestamp(m.timestamp)
    BY <1>1, <1>2, <2>1
  <2>4. PICK battery \in BatteryPercent(m.battery) : TRUE
    BY <1>1, BatteryExists DEF Feature
  <2> HIDE DEF G, lats
  <2>5. G(fix.lon, fix.lat, fix.at \div Sub, battery) \in GeoJSONPoint(m)
    BY <2>2, <2>3, <2>4
  <2> QED
    BY <2>5
<1>7. ASSUME NEW p \in GeoJSONPoint(m) PROVE p.key = KeyOf(fix)
  <2>1. PICK lon \in AsFloat(c[1]), lat \in AsFloat(c[2]), ts \in ParseTimestamp(m.timestamp) :
          p.key = [ts |-> ts, lat |-> lat, lon |-> lon]
    BY <1>3, <1>7 DEF GeoJSONPoint
  <2> QED
    BY <1>1, <1>2, <2>1 DEF KeyOf
<1> QED
  BY <1>6, <1>7

LEMMA OthersAreTimeless ==
  ASSUME NEW l \in [feature : Feature, fix : Fix \cup {Null}], IsNone(l),
         NEW p \in GeoJSONPoint(l.feature)
  PROVE  p.key.ts \in NoInstant
<1> DEFINE m == l.feature
           c == m.coordinates
           v == m.timestamp
<1>1. m \in Feature /\ v \in Value /\ c \in Seq(Value)
  BY DEF Feature
<1>2. /\ RowOK(p.key, Stored(p)) /\ p.key.ts \in ParseTimestamp(v) /\ Len(c) >= 2 /\ Len(c) \in Nat
      /\ p.key.lon \in AsFloat(c[1]) /\ p.key.lat \in AsFloat(c[2])
      /\ ~NullIsland(p.key.lat, p.key.lon)
  BY <1>1, PointsFit
<1>3. ~(Len(c) < 2) /\ c[1] \in Value /\ c[2] \in Value
  BY <1>1, <1>2
<1>4. \A lon \in AsFloat(c[1]), lat \in AsFloat(c[2]) : lon = p.key.lon /\ lat = p.key.lat
  BY <1>2, <1>3, AsFloatTyped
<1>5. \/ AsFloat(v) = {} /\ ~(v.type = "string" /\ v.reads = "time")
      \/ \E f \in AsFloat(v) : f \notin (MinInt * Sub)..(MaxInt * Sub * Sub)
  BY <1>2, <1>3, <1>4 DEF IsNone, RowOK
<1> QED
  BY <1>1, <1>2, <1>5, TimestampBounds DEF NoInstant

-----------------------------------------------------------------------------
(* Powers of two, as the numbers of subsets.                               *)
LEMMA PowerIsSubsets ==
  ASSUME NEW n \in Nat
  PROVE  IsFiniteSet(SUBSET (1..n)) /\ Cardinality(SUBSET (1..n)) = 2^n
<1>1. IsFiniteSet(1..n) /\ Cardinality(1..n) = n
  BY FS_Interval
<1> QED
  BY <1>1, FS_SUBSET

LEMMA PowerStep ==
  ASSUME NEW n \in Nat
  PROVE  2^(n + 1) = 2 * 2^n
<1> DEFINE S == SUBSET (1..n)
           T == {A \cup {n + 1} : A \in S}
           f == [A \in S |-> A \cup {n + 1}]
<1>1. IsFiniteSet(S) /\ Cardinality(S) = 2^n
  BY PowerIsSubsets
<1>2. Cardinality(SUBSET (1..(n + 1))) = 2^(n + 1)
  BY PowerIsSubsets
<1>3. n + 1 \notin 1..n /\ 1..(n + 1) = 1..n \cup {n + 1}
  OBVIOUS
<1>4. SUBSET (1..(n + 1)) = S \cup T
  <2> DEFINE U == 1..n
             x == n + 1
  <2>1. SUBSET (U \cup {x}) = (SUBSET U) \cup {A \cup {x} : A \in SUBSET U}
    <3>1. ASSUME NEW B \in SUBSET (U \cup {x}), x \in B
          PROVE  B \in {A \cup {x} : A \in SUBSET U}
      <4>1. B \ {x} \in SUBSET U /\ B = (B \ {x}) \cup {x}
        BY <3>1
      <4> QED
        BY <4>1
    <3> HIDE DEF U, x
    <3>2. \A A \in SUBSET U : A \cup {x} \in SUBSET (U \cup {x}) /\ A \in SUBSET (U \cup {x})
      OBVIOUS
    <3>3. \A B \in SUBSET (U \cup {x}) : x \notin B => B \in SUBSET U
      OBVIOUS
    <3> QED
      BY <3>1, <3>2, <3>3
  <2> QED
    BY <1>3, <2>1
<1>5. S \cap T = {}
  BY <1>3
<1>6. f \in Bijection(S, T)
  <2>1. f \in [S -> T] /\ \A B \in T : \E A \in S : f[A] = B
    OBVIOUS
  <2>2. ASSUME NEW A \in S, NEW B \in S, f[A] = f[B] PROVE A = B
    <3>1. A = f[A] \ {n + 1} /\ B = f[B] \ {n + 1}
      BY <1>3
    <3> QED
      BY <2>2, <3>1
  <2> HIDE DEF f, S, T
  <2> QED
    BY <2>1, <2>2 DEF Bijection, Injection, Surjection, IsInjective
<1>7. IsFiniteSet(T) /\ Cardinality(T) = Cardinality(S)
  <2> HIDE DEF f, S, T
  <2>1. ExistsBijection(S, T)
    BY <1>6 DEF ExistsBijection
  <2> QED
    BY <1>1, <2>1, FS_Bijection
<1>8. Cardinality(S \cup T) = Cardinality(S) + Cardinality(T) - Cardinality({})
  <2> HIDE DEF S, T
  <2> QED
    BY <1>1, <1>5, <1>7, FS_Union
<1>9. Cardinality({}) = 0 /\ Cardinality(S) \in Nat
  BY <1>1, FS_EmptySet, FS_CardinalityType
<1> HIDE DEF S, T
<1> DEFINE p == 2^n
           q == 2^(n + 1)
           c == Cardinality(S)
<1>10. q = c + c - 0 /\ c \in Nat /\ c = p
  BY <1>1, <1>2, <1>4, <1>7, <1>8, <1>9
<1> HIDE DEF p, q, c
<1>11. q = 2 * p
  BY <1>10
<1> QED
  BY <1>11 DEF p, q

LEMMA PowerPositive ==
  ASSUME NEW n \in Nat
  PROVE  2^n \in Nat \ {0}
<1>1. IsFiniteSet(SUBSET (1..n)) /\ Cardinality(SUBSET (1..n)) = 2^n
  BY PowerIsSubsets
<1>2. Cardinality(SUBSET (1..n)) \in Nat
  BY <1>1, FS_CardinalityType
<1>3. Cardinality(SUBSET (1..n)) # 0
  <2>1. {} \in SUBSET (1..n)
    OBVIOUS
  <2> QED
    BY <1>1, <2>1, FS_EmptySet
<1> QED
  BY <1>1, <1>2, <1>3

LEMMA PowerOfZero == 2^0 = 1
<1>1. Cardinality(SUBSET (1..0)) = 2^0
  BY PowerIsSubsets
<1>2. SUBSET (1..0) = {{}}
  OBVIOUS
<1>3. Cardinality({{}}) = 1
  BY FS_Singleton
<1> QED
  BY <1>1, <1>2, <1>3

-----------------------------------------------------------------------------
(* Products.                                                               *)
LEMMA Distributes ==
  ASSUME NEW a \in Int, NEW b \in Int, NEW k \in Int
  PROVE  (a + b) * k = a * k + b * k /\ (a - b) * k = a * k - b * k /\ a * k \in Int /\ b * k \in Int
BY SMT

LEMMA ProductsOrdered ==
  ASSUME NEW a \in Int, NEW b \in Int, NEW k \in Nat, a <= b
  PROVE  a * k <= b * k /\ a * k \in Int /\ b * k \in Int
BY SMT

LEMMA ProductsCommute ==
  ASSUME NEW a \in Int, NEW b \in Int, NEW c \in Int
  PROVE  a * b = b * a /\ (a * b) * c = a * (b * c) /\ a * b \in Int /\ (a * b) * c \in Int
BY SMT

LEMMA Remainder ==
  ASSUME NEW a \in Nat, NEW n \in Nat \ {0}
  PROVE  /\ a = (a \div n) * n + (a % n) /\ a \div n \in Nat /\ a % n \in 0..(n - 1)
         /\ (a \div n) * n \in Nat
<1>1. a \div n \in Nat
  <2>1. a \in Int /\ a >= 0 * n
    BY SMT
  <2> QED
    BY <2>1, Quotient, QuotientAtLeast
<1> DEFINE q == a \div n
           m == q * n
<1>2. a = m + (a % n) /\ a % n \in 0..(n - 1)
  BY SMT
<1>3. m \in Nat
  <2> HIDE DEF q
  <2> QED
    BY <1>1, SMT DEF q
<1> QED
  BY <1>1, <1>2, <1>3 DEF m, q

(* The least exponent by which a / b has enough digits gives no more.      *)
LEMMA ExponentExists ==
  ASSUME NEW a \in Nat, NEW b \in Nat \ {0}, NEW N \in Nat, NEW h \in Nat,
         h * b <= a * 2^N, a < 2 * (h * b)
  PROVE  \E e \in 0..N : h * b <= a * 2^e /\ a * 2^e < 2 * (h * b)
<1> DEFINE low == h * b
           at(e) == a * 2^e
           S == {e \in 1..N : at(e - 1) < low}
<1>0. low \in Nat
  BY SMT
<1>1. \A e \in Nat : at(e) \in Nat /\ at(e + 1) = 2 * at(e)
  <2> SUFFICES ASSUME NEW e \in Nat PROVE at(e) \in Nat /\ at(e + 1) = 2 * at(e)
    OBVIOUS
  <2> DEFINE p == 2^e
             q == 2^(e + 1)
  <2>1. p \in Nat /\ q = 2 * p
    BY PowerPositive, PowerStep
  <2> HIDE DEF p, q
  <2>2. a * q = 2 * (a * p) /\ a * p \in Nat
    BY <2>1, SMT
  <2> QED
    BY <2>2 DEF p, q
<1>2. at(0) = a
  BY PowerOfZero
<1>3. low <= at(N) /\ a < 2 * low
  OBVIOUS
<1> HIDE DEF low, at
<1>4. CASE S = {}
  <2>1. ~(a < low)
    <3>1. CASE N = 0
      BY <1>0, <1>1, <1>2, <1>3, <3>1
    <3>2. CASE N # 0
      <4>1. 1 \in 1..N /\ 1 - 1 = 0
        BY <3>2
      <4>2. ~(at(1 - 1) < low)
        BY <1>4, <4>1
      <4> QED
        BY <1>2, <4>1, <4>2
    <3> QED
      BY <3>1, <3>2
  <2>2. 0 \in 0..N /\ low <= at(0) /\ at(0) < 2 * low
    BY <1>0, <1>2, <1>3, <2>1
  <2> QED
    BY <2>2 DEF low, at
<1>5. CASE S # {}
  <2>1. S \in SUBSET (1..N)
    OBVIOUS
  <2>2. PICK e \in S : \A y \in S : e >= y
    <3> HIDE DEF S
    <3> QED
      BY <1>5, <2>1, LargestExists
  <2>3. e \in 1..N /\ at(e - 1) < low
    OBVIOUS
  <2>4. at(e) = 2 * at(e - 1) /\ at(e) \in Nat /\ at(e - 1) \in Nat
    <3>1. e - 1 \in Nat /\ (e - 1) + 1 = e
      BY <2>3
    <3> QED
      BY <1>1, <3>1
  <2>5. at(e) < 2 * low
    BY <1>0, <2>3, <2>4
  <2>6. low <= at(e)
    <3>1. CASE e = N
      BY <1>3, <3>1
    <3>2. CASE e # N
      <4>1. e + 1 \in 1..N /\ ~(e >= e + 1) /\ (e + 1) - 1 = e
        BY <2>3, <3>2
      <4>2. e + 1 \notin S
        <5> HIDE DEF S
        <5> QED
          BY <2>2, <4>1
      <4>3. ~(at(e) < low)
        BY <4>1, <4>2
      <4> QED
        BY <1>0, <2>4, <4>3
    <3> QED
      BY <3>1, <3>2
  <2>7. e \in 0..N /\ low <= at(e) /\ at(e) < 2 * low
    BY <2>3, <2>5, <2>6
  <2> QED
    BY <2>7 DEF low, at
<1> QED
  BY <1>4, <1>5

(* The float nearest to a / b is off by half of its last digit at most.    *)
LEMMA NearestIs ==
  ASSUME NEW a \in Nat, NEW b \in Nat \ {0}, NEW h \in Nat, h = 2^(Bits - 1),
         h * b <= a * 2^(Bits + 7), a < 2 * (h * b)
  PROVE  LET f == Nearest(a, b)
         IN  /\ f.e \in Nat /\ f.m \in Nat /\ h * b <= a * 2^f.e
             /\ 2 * (f.m * b - a * 2^f.e) <= b /\ 2 * (a * 2^f.e - f.m * b) <= b
<1> DEFINE N == Bits + 7
           low == h * b
           Is(e) == 2^(Bits - 1) * b <= a * 2^e /\ a * 2^e < 2^Bits * b
           e0 == CHOOSE e \in 0..N : Is(e)
           f == Nearest(a, b)
           x == a * 2^e0
           q == x \div b
           r == x % b
           up == 2 * r > b \/ (2 * r = b /\ q % 2 = 1)
<1>1. Bits \in Nat \ {0} /\ N \in Nat
  BY IngestAssumption
<1>2. 2^Bits = 2 * h
  <2>1. Bits - 1 \in Nat /\ (Bits - 1) + 1 = Bits
    BY <1>1
  <2> QED
    BY <2>1, PowerStep
<1>3. 2^Bits * b = 2 * low
  BY <1>2, SMT
<1>4. \E e \in 0..N : low <= a * 2^e /\ a * 2^e < 2 * low
  <2> HIDE DEF N
  <2>1. h * b <= a * 2^N
    BY DEF N
  <2> QED
    BY <1>1, <2>1, ExponentExists
<1>5. e0 \in 0..N /\ Is(e0)
  <2>1. \E e \in 0..N : Is(e)
    BY <1>3, <1>4
  <2> HIDE DEF Is, N
  <2> QED
    BY <2>1
<1>6. f.e = e0 /\ f.m = IF up THEN q + 1 ELSE q
  BY DEF Nearest
<1>7. e0 \in Nat /\ low <= x
  BY <1>1, <1>5
<1> HIDE DEF e0, f, N
<1>8. x \in Nat
  <2>1. 2^e0 \in Nat
    BY <1>7, PowerPositive
  <2> DEFINE p == 2^e0
  <2> HIDE DEF p
  <2>2. p \in Nat
    BY <2>1 DEF p
  <2>3. a * p \in Nat
    BY <2>2, SMT
  <2> QED
    BY <2>3 DEF p
<1> HIDE DEF x
<1>9. q \in Nat /\ r \in 0..(b - 1) /\ x = q * b + r /\ q * b \in Nat
  BY <1>8, Remainder
<1>10. (q + 1) * b = q * b + b
  <2> HIDE DEF q
  <2>1. (q + 1) * b = q * b + 1 * b
    BY <1>9, Distributes
  <2> QED
    BY <2>1
<1> DEFINE m == f.m
           mb == m * b
           qb == q * b
<1>11. m \in Nat /\ (up => mb = qb + b) /\ (~up => mb = qb)
  BY <1>6, <1>9, <1>10
<1>12. (up => 2 * r >= b) /\ (~up => 2 * r <= b)
  <2> HIDE DEF q, r
  <2> QED
    BY <1>9
<1>13. x = qb + r /\ qb \in Nat /\ r \in 0..(b - 1)
  BY <1>9
<1> HIDE DEF up, q, r, m, mb, qb
<1>14. 2 * (mb - x) <= b /\ 2 * (x - mb) <= b
  BY <1>8, <1>11, <1>12, <1>13
<1> QED
  BY <1>6, <1>7, <1>11, <1>14 DEF x, m, mb, f

(* The arithmetic of two roundings, of n / 100 to a / E and of a * 100 / E *)
(* to m / F, with the products that occur as numbers of their own.         *)
LEMMA SecondRounding ==
  ASSUME NEW n \in Nat \ {0}, NEW E \in Nat \ {0}, NEW F \in Nat \ {0}, NEW A \in Nat, NEW m \in Nat,
         E > 100,
         2 * (A - n * E) <= 100, 2 * (n * E - A) <= 100,
         2 * (m * E - A * F) <= E, 2 * (A * F - m * E) <= E
  PROVE  m >= (n - 1) * F /\ ~(m >= (n + 1) * F)
<1> DEFINE nE == n * E
           U == E * F
           V == nE * F
           AF == A * F
           mE == m * E
           lower == (n - 1) * F
           upper == (n + 1) * F
<1>1. nE \in Nat /\ U \in Nat /\ AF \in Nat /\ mE \in Nat /\ lower \in Int /\ upper \in Int
  BY SMT
<1>2. V \in Nat
  <2> HIDE DEF nE
  <2> QED
    BY <1>1, SMT
<1>3. 2 * U > 100 * F + E
  <2>1. 101 * F <= E * F
    BY ProductsOrdered
  <2>2. 1 * E <= F * E /\ F * E = E * F
    BY ProductsOrdered, ProductsCommute
  <2> HIDE DEF U
  <2>3. 101 * F <= U /\ E <= U
    BY <2>1, <2>2 DEF U
  <2> QED
    BY <1>1, <2>3
<1>4. 2 * AF <= 2 * V + 100 * F /\ 2 * V <= 2 * AF + 100 * F
  <2> HIDE DEF nE
  <2> DEFINE d == A - nE
  <2>1. d \in Int /\ 2 * d <= 100 /\ -100 <= 2 * d /\ 2 * d \in Int
    BY <1>1 DEF nE
  <2>2. d * F = AF - V
    BY <1>1, Distributes
  <2>3. (2 * d) * F <= 100 * F /\ (-100) * F <= (2 * d) * F
    <3> HIDE DEF d
    <3> QED
      BY <2>1, ProductsOrdered
  <2> DEFINE D == d * F
  <2>4. (2 * d) * F = 2 * D /\ D \in Int
    <3> HIDE DEF d
    <3> QED
      BY <2>1, ProductsCommute
  <2>5. D = AF - V
    BY <2>2
  <2>6. 2 * D <= 100 * F /\ -(100 * F) <= 2 * D
    BY <2>3, <2>4
  <2> HIDE DEF D, AF, V
  <2> QED
    BY <1>1, <1>2, <2>4, <2>5, <2>6
<1>5. 2 * (mE - AF) <= E /\ 2 * (AF - mE) <= E
  OBVIOUS
<1>6. upper * E = V + U /\ lower * E = V - U
  <2>1. upper = n * F + F /\ lower = n * F - F /\ n * F \in Int
    BY SMT
  <2> DEFINE nF == n * F
  <2>2. nF * E = V /\ F * E = U
    <3>1. (n * F) * E = n * (F * E) /\ (n * E) * F = n * (E * F) /\ F * E = E * F
      BY ProductsCommute
    <3> QED
      BY <3>1
  <2>3. (nF + F) * E = nF * E + F * E /\ (nF - F) * E = nF * E - F * E
    <3> HIDE DEF nF
    <3> QED
      BY <2>1, Distributes DEF nF
  <2> QED
    BY <2>1, <2>2, <2>3
<1>7. m >= lower
  <2> SUFFICES ASSUME ~(m >= lower) PROVE FALSE
    OBVIOUS
  <2>1. mE <= V - U
    <3>1. m <= lower
      BY <1>1
    <3> HIDE DEF lower, V, U
    <3> QED
      BY <1>1, <1>6, <3>1, ProductsOrdered
  <2> HIDE DEF V, U, mE, AF, lower, upper, nE
  <2> QED
    BY <1>1, <1>2, <1>3, <1>4, <1>5, <2>1
<1>8. ~(m >= upper)
  <2> SUFFICES ASSUME m >= upper PROVE FALSE
    OBVIOUS
  <2>1. V + U <= mE
    <3>1. upper <= m
      BY <1>1
    <3> HIDE DEF upper, V, U
    <3> QED
      BY <1>1, <1>6, <3>1, ProductsOrdered
  <2> HIDE DEF V, U, mE, AF, lower, upper, nE
  <2> QED
    BY <1>1, <1>2, <1>3, <1>4, <1>5, <2>1
<1> QED
  BY <1>7, <1>8

(* A level of n hundredths is read back as n percent, or n - 1.            *)
LEMMA BatteryIs ==
  ASSUME NEW n \in Nat \ {0}, n < 2^(Bits - 1)
  PROVE  \/ PercentOf(n) = Null /\ n <= 1
         \/ PercentOf(n) \in {n - 1, n} /\ PercentOf(n) \in Nat \ {0}
<1> DEFINE h == 2^(Bits - 1)
           top == 2^(Bits + 7)
           level == Nearest(n, 100)
           E == 2^level.e
           A == level.m * 100
           product == Nearest(A, E)
           F == 2^product.e
           percent == product.m \div F
<1>1. h \in Nat \ {0} /\ top = 256 * h /\ n < h
  <2> DEFINE k == Bits - 1
  <2>2. k \in Nat /\ k + 8 = Bits + 7
    <3>1. Bits \in Nat \ {0}
      BY IngestAssumption
    <3> HIDE DEF h, top
    <3> QED
      BY <3>1, SMT
  <2> HIDE DEF k
  <2>3. /\ 2^k \in Nat \ {0} /\ 2^(k + 1) = 2 * 2^k
        /\ 2^((k + 1) + 1) = 2 * 2^(k + 1) /\ 2^((k + 2) + 1) = 2 * 2^(k + 2)
        /\ 2^((k + 3) + 1) = 2 * 2^(k + 3) /\ 2^((k + 4) + 1) = 2 * 2^(k + 4)
        /\ 2^((k + 5) + 1) = 2 * 2^(k + 5) /\ 2^((k + 6) + 1) = 2 * 2^(k + 6)
        /\ 2^((k + 7) + 1) = 2 * 2^(k + 7)
    BY <2>2, PowerPositive, PowerStep
  <2>4. /\ (k + 1) + 1 = k + 2 /\ (k + 2) + 1 = k + 3 /\ (k + 3) + 1 = k + 4 /\ (k + 4) + 1 = k + 5
        /\ (k + 5) + 1 = k + 6 /\ (k + 6) + 1 = k + 7 /\ (k + 7) + 1 = k + 8
    BY <2>2
  <2> DEFINE p(i) == 2^(k + i)
             p0 == 2^k
  <2>5. p(1) = 2 * p0 /\ p(2) = 2 * p(1) /\ p(3) = 2 * p(2) /\ p(4) = 2 * p(3) /\ p(5) = 2 * p(4)
        /\ p(6) = 2 * p(5) /\ p(7) = 2 * p(6) /\ p(8) = 2 * p(7) /\ p0 \in Nat \ {0}
    BY <2>3, <2>4
  <2> HIDE DEF p, p0
  <2>6. p(8) = 256 * p0
    BY <2>5
  <2> QED
    BY <2>2, <2>5, <2>6 DEF p, p0, k
<1>2. /\ level.e \in Nat /\ level.m \in Nat /\ h * 100 <= n * E
      /\ 2 * (level.m * 100 - n * E) <= 100 /\ 2 * (n * E - level.m * 100) <= 100
  <2> HIDE DEF top
  <2>1. h * 100 <= n * top
    <3>1. top <= n * top /\ n * top \in Int
      <4>1. top \in Nat /\ 1 <= n
        BY <1>1
      <4> HIDE DEF top
      <4>2. 1 * top <= n * top /\ 1 * top = top
        BY <4>1, ProductsOrdered
      <4> QED
        BY <4>1, <4>2
    <3> DEFINE z == n * top
    <3> HIDE DEF z, h
    <3>2. h * 100 <= z
      BY <1>1, <3>1 DEF z
    <3> QED
      BY <3>2 DEF z
  <2>2. n < 2 * (h * 100)
    <3> HIDE DEF h
    <3> QED
      BY <1>1
  <2> QED
    BY <1>1, <2>1, <2>2, NearestIs DEF top
<1> HIDE DEF level
<1>3. E \in Nat \ {0} /\ A \in Nat
  BY <1>2, PowerPositive
<1> DEFINE nE == n * E
<1> HIDE DEF E
<1>4. nE \in Int /\ h * 100 <= nE /\ 2 * (A - nE) <= 100 /\ 2 * (nE - A) <= 100
  BY <1>2, <1>3 DEF E
<1>5. E > 100
  <2> SUFFICES ASSUME E <= 100 PROVE FALSE
    BY <1>3
  <2>1. E * n <= 100 * n /\ E * n = n * E
    BY <1>3, ProductsOrdered, ProductsCommute
  <2>2. nE <= 100 * n
    BY <2>1
  <2> HIDE DEF nE, h
  <2> QED
    BY <1>1, <1>4, <2>2
<1>6. E <= nE /\ nE + E <= h * E
  <2>1. 1 * E <= n * E /\ (n + 1) * E <= h * E /\ (n + 1) * E = n * E + 1 * E
    <3> HIDE DEF h
    <3> QED
      BY <1>1, <1>3, ProductsOrdered, Distributes
  <2> QED
    BY <1>3, <2>1
<1> HIDE DEF A
<1>7. h * E <= A * top /\ A < 2 * (h * E) /\ h * E \in Int
  <2> DEFINE hE == h * E
             hA == h * A
             At == A * top
  <2>1. hE \in Nat /\ hA \in Int
    <3> HIDE DEF h
    <3> QED
      BY <1>1, <1>3, SMT
  <2>2. At = 256 * hA
    <3>1. At = A * (256 * h)
      BY <1>1
    <3> HIDE DEF h
    <3>2. A * (256 * h) = 256 * (h * A)
      BY <1>1, <1>3, SMT
    <3> QED
      BY <3>1, <3>2
  <2>3. E <= 2 * A /\ A < nE + E
    <3> HIDE DEF nE, h
    <3> QED
      BY <1>3, <1>4, <1>5, <1>6
  <2>4. hE <= 2 * hA
    <3> HIDE DEF h
    <3>1. E * h <= (2 * A) * h /\ E * h = h * E /\ (2 * A) * h = 2 * (A * h) /\ A * h = h * A
      BY <1>1, <1>3, <2>3, ProductsOrdered, ProductsCommute
    <3> QED
      BY <3>1
  <2>5. nE + E <= hE
    BY <1>6
  <2> HIDE DEF hE, hA, At, nE
  <2>6. hE <= At /\ A < 2 * hE
    BY <1>3, <1>4, <2>1, <2>2, <2>3, <2>4, <2>5
  <2> QED
    BY <2>1, <2>6 DEF hE, At
<1>8. /\ product.e \in Nat /\ product.m \in Nat
      /\ 2 * (product.m * E - A * F) <= E /\ 2 * (A * F - product.m * E) <= E
  <2> HIDE DEF nE
  <2> QED
    BY <1>1, <1>3, <1>7, NearestIs
<1>9. F \in Nat \ {0}
  BY <1>8, PowerPositive
<1> DEFINE m == product.m
<1> HIDE DEF product, F, h, top
<1>10. m >= (n - 1) * F /\ ~(m >= (n + 1) * F)
  BY <1>3, <1>4, <1>5, <1>8, <1>9, SecondRounding
<1>11. percent \in Int /\ percent >= n - 1 /\ ~(percent >= n + 1)
  <2>1. m \in Int /\ n - 1 \in Int /\ n + 1 \in Int
    BY <1>8
  <2> HIDE DEF m, nE
  <2>2. (m \div F >= n - 1 <=> m >= (n - 1) * F) /\ (m \div F >= n + 1 <=> m >= (n + 1) * F)
    BY <1>9, <2>1, QuotientAtLeast
  <2> QED
    BY <1>9, <1>10, <2>1, <2>2, Quotient DEF m
<1> HIDE DEF m
<1>12. PercentOf(n) = IF percent <= 0 THEN Null ELSE percent
  <2>1. ~(n <= 0) /\ n # Null
    BY IngestAssumption
  <2> QED
    BY <2>1 DEF PercentOf, product, F, E, A, level
<1> HIDE DEF percent
<1> QED
  BY <1>11, <1>12

-----------------------------------------------------------------------------
(* What an upload leaves in the table, and in the history.                 *)
Typed == \A k \in DOMAIN rows : RowOK(k, rows[k])

IInv == Typed /\ OneRowPerFix /\ BatteryNear /\ ReplyUsable

(* What may be stored of a level.                                          *)
Near(stored, level) ==
  IF level \notin Int THEN stored = Null \/ (level = PosInf /\ stored = MaxInt)
  ELSE IF stored = Null THEN level <= 1
  ELSE stored \in {level - 1, level}

LEMMA BatteryNearOf ==
  ASSUME NEW n \in Level, LevelFits(n), NEW b \in BatteryPercent(n)
  PROVE  Near(b, n)
<1>1. CASE n = Null
  <2>1. b = PercentOf(n) /\ n \notin Int
    BY <1>1, IngestAssumption DEF BatteryPercent
  <2>2. PercentOf(n) = Null
    BY <1>1 DEF PercentOf
  <2> QED
    BY <2>1, <2>2 DEF Near
<1>2. CASE n \in {NaN, PosInf, NegInf}
  <2>1. n \notin Int /\ \E percent \in ToInt(n, 1) : b = IF percent <= 0 THEN Null ELSE percent
    BY <1>2, IngestAssumption DEF BatteryPercent
  <2>2. PICK percent \in ToInt(n, 1) : b = IF percent <= 0 THEN Null ELSE percent
    BY <2>1
  <2> DEFINE hi == MaxInt * Sub * 1
             lo == MinInt * Sub * 1
  <2>3. percent \in {MinInt, 0} \/ (n = PosInf /\ percent = MaxInt)
    <3>1. hi \in Int /\ lo \in Int
      BY IngestAssumption DEF MinInt
    <3>2. /\ n = NaN => ToInt(n, 1) = {MinInt, 0}
          /\ n # NaN /\ Less(hi, n) => ToInt(n, 1) = {MinInt, MaxInt}
          /\ n # NaN /\ ~Less(hi, n) /\ Less(n, lo) => ToInt(n, 1) = {MinInt}
      BY Zenon DEF ToInt
    <3> HIDE DEF hi, lo
    <3>3. /\ NegInf # NaN /\ PosInf # NaN /\ ~Less(hi, NegInf) /\ Less(NegInf, lo) /\ Less(hi, PosInf)
      <4>1. NegInf \in Float /\ PosInf \in Float /\ NegInf # NaN /\ PosInf # NaN
        BY IngestAssumption DEF Float
      <4> QED
        BY <3>1, <4>1, LessOfNumbers
    <3> QED
      BY <1>2, <2>2, <3>2, <3>3, Zenon
  <2>4. MinInt <= 0 /\ 0 <= 0
    BY IngestAssumption DEF MinInt
  <2>5. b = Null \/ (n = PosInf /\ b = MaxInt)
    BY <2>2, <2>3, <2>4, Zenon
  <2> QED
    BY <2>1, <2>5 DEF Near
<1>3. CASE n \in Int /\ n <= 0
  <2>1. b = PercentOf(n)
    BY <1>3, IngestAssumption DEF BatteryPercent
  <2>2. PercentOf(n) = Null
    BY <1>3, IngestAssumption DEF PercentOf
  <2> QED
    BY <1>3, <2>1, <2>2 DEF Near
<1>4. CASE n \in Nat \ {0}
  <2>1. n < 2^(Bits - 1) /\ n # Null
    BY <1>4, IngestAssumption DEF LevelFits
  <2>2. \/ PercentOf(n) = Null /\ n <= 1
        \/ PercentOf(n) \in {n - 1, n} /\ PercentOf(n) \in Nat \ {0}
    BY <1>4, <2>1, BatteryIs
  <2>3. PercentOf(n) \in Nat \ {0} => PercentOf(n) # Null
    BY IngestAssumption
  <2>4. b = PercentOf(n)
    BY <1>4, IngestAssumption DEF BatteryPercent
  <2> HIDE DEF PercentOf
  <2> QED
    BY <1>4, <2>1, <2>2, <2>3, <2>4 DEF Near
<1> QED
  BY <1>1, <1>2, <1>3, <1>4 DEF Level, Float

LEMMA LastOfMine ==
  ASSUME NEW locations \in Bodies, NEW S \in SUBSET DOMAIN locations, S # {}
  PROVE  Max(S) \in S
<1>1. Len(locations) \in Nat /\ DOMAIN locations = 1..Len(locations)
  BY IngestAssumption
<1>2. \E x \in S : \A y \in S : x >= y
  BY <1>1, LargestExists
<1> QED
  BY <1>2 DEF Max

LEMMA UpsertStores ==
  ASSUME NEW locations \in Bodies, NEW points \in FromGeoJSONLocations(locations)
  PROVE  /\ DOMAIN points = Kept(locations)
         /\ \A i \in Kept(locations) : points[i] \in GeoJSONPoint(locations[i].feature)
         /\ DOMAIN Upsert(points) = DOMAIN rows \cup {points[i].key : i \in Kept(locations)}
         /\ \A k \in DOMAIN Upsert(points) :
              \/ k \in DOMAIN rows /\ Upsert(points)[k] = rows[k]
              \/ \E i \in Kept(locations) : k = points[i].key /\ Upsert(points)[k] = Stored(points[i])
         /\ \A k \in DOMAIN Upsert(points) :
              LET mine == {i \in Kept(locations) : points[i].key = k}
              IN  /\ mine = {} => k \in DOMAIN rows /\ Upsert(points)[k] = rows[k]
                  /\ mine # {} => Upsert(points)[k] = Stored(points[Max(mine)])
<1>1. /\ DOMAIN points = Kept(locations)
      /\ \A i \in Kept(locations) : points[i] \in GeoJSONPoint(locations[i].feature)
  BY DEF FromGeoJSONLocations
<1>2. DOMAIN Upsert(points) = DOMAIN rows \cup {points[i].key : i \in Kept(locations)}
  BY <1>1 DEF Upsert
<1>3. ASSUME NEW k \in DOMAIN Upsert(points)
      PROVE  \/ k \in DOMAIN rows /\ Upsert(points)[k] = rows[k]
             \/ \E i \in Kept(locations) : k = points[i].key /\ Upsert(points)[k] = Stored(points[i])
  <2> DEFINE mine == {i \in DOMAIN points : points[i].key = k}
  <2>1. Upsert(points)[k] = IF mine = {} THEN rows[k] ELSE Stored(points[Max(mine)])
    BY <1>1, <1>2, <1>3 DEF Upsert
  <2>2. CASE mine = {}
    <3>1. k \in DOMAIN rows
      BY <1>1, <1>2, <1>3, <2>2
    <3> QED
      BY <2>1, <2>2, <3>1
  <2>3. CASE mine # {}
    <3>1. mine \in SUBSET DOMAIN locations
      BY <1>1 DEF Kept
    <3>2. Max(mine) \in mine
      <4> HIDE DEF mine
      <4> QED
        BY <2>3, <3>1, LastOfMine
    <3>3. Max(mine) \in Kept(locations) /\ points[Max(mine)].key = k
      BY <1>1, <3>2
    <3> HIDE DEF mine
    <3> QED
      BY <2>1, <2>3, <3>3
  <2> QED
    BY <2>2, <2>3
<1>4. \A k \in DOMAIN Upsert(points) :
        LET mine == {i \in Kept(locations) : points[i].key = k}
        IN  /\ mine = {} => k \in DOMAIN rows /\ Upsert(points)[k] = rows[k]
            /\ mine # {} => Upsert(points)[k] = Stored(points[Max(mine)])
  <2> SUFFICES ASSUME NEW k \in DOMAIN Upsert(points)
               PROVE  LET mine == {i \in Kept(locations) : points[i].key = k}
                      IN  /\ mine = {} => k \in DOMAIN rows /\ Upsert(points)[k] = rows[k]
                          /\ mine # {} => Upsert(points)[k] = Stored(points[Max(mine)])
    OBVIOUS
  <2> DEFINE mine == {i \in Kept(locations) : points[i].key = k}
  <2>1. Upsert(points)[k] = IF mine = {} THEN rows[k] ELSE Stored(points[Max(mine)])
    BY <1>1, <1>2 DEF Upsert
  <2>2. mine = {} => k \in DOMAIN rows
    BY <1>2
  <2> QED
    BY <2>1, <2>2
<1> QED
  BY <1>1, <1>2, <1>3, <1>4

LEMMA CreateIInv == IInv /\ CreatePoints => IInv'
<1> SUFFICES ASSUME IInv, CreatePoints PROVE IInv'
  OBVIOUS
<1>1. PICK locations \in Bodies :
        LET fixes == {j \in DOMAIN locations : locations[j].fix # Null}
            of(k) == {i \in fixes : KeyOf(locations[i].fix) = k}
        IN  /\ \E points \in FromGeoJSONLocations(locations) : rows' = Upsert(points)
            /\ sent' = [k \in DOMAIN sent \cup {KeyOf(locations[i].fix) : i \in fixes} |->
                          IF of(k) = {} THEN sent[k] ELSE locations[Max(of(k))].fix.battery]
            /\ reply' = NoReply
  BY DEF CreatePoints
<1> DEFINE fixes == {j \in DOMAIN locations : locations[j].fix # Null}
           of(k) == {i \in fixes : KeyOf(locations[i].fix) = k}
<1>2. PICK points \in FromGeoJSONLocations(locations) :
        /\ rows' = Upsert(points)
        /\ DOMAIN sent' = DOMAIN sent \cup
             {KeyOf(locations[i].fix) : i \in {j \in DOMAIN locations : locations[j].fix # Null}}
        /\ \A k \in DOMAIN sent' :
             sent'[k] = IF of(k) = {} THEN sent[k] ELSE locations[Max(of(k))].fix.battery
        /\ reply' = NoReply
  <2>1. /\ sent' = [k \in DOMAIN sent \cup {KeyOf(locations[i].fix) : i \in fixes} |->
                      IF of(k) = {} THEN sent[k] ELSE locations[Max(of(k))].fix.battery]
        /\ reply' = NoReply
    BY <1>1
  <2>2. /\ DOMAIN sent' = DOMAIN sent \cup {KeyOf(locations[i].fix) : i \in fixes}
        /\ \A k \in DOMAIN sent' :
             sent'[k] = IF of(k) = {} THEN sent[k] ELSE locations[Max(of(k))].fix.battery
    BY <2>1
  <2> QED
    BY <1>1, <2>1, <2>2
<1>3. \A i \in DOMAIN locations :
        /\ locations[i] \in [feature : Feature, fix : Fix \cup {Null}]
        /\ locations[i].feature \in Feature
        /\ IsFix(locations[i]) \/ IsNone(locations[i])
        /\ (IsFix(locations[i]) /\ LevelFits(locations[i].fix.battery)) \/ IsNone(locations[i])
  <2>1. /\ locations \in Seq([feature : Feature, fix : Fix \cup {Null}])
        /\ \A i \in DOMAIN locations :
             (IsFix(locations[i]) /\ LevelFits(locations[i].fix.battery)) \/ IsNone(locations[i])
    BY IngestAssumption
  <2> DEFINE L == [feature : Feature, fix : Fix \cup {Null}]
  <2>2. \A l \in L : l.feature \in Feature
    OBVIOUS
  <2> HIDE DEF L
  <2>3. \A i \in DOMAIN locations : locations[i] \in L
    <3>1. locations \in Seq(L)
      BY <2>1 DEF L
    <3> QED
      BY <3>1
  <2> QED
    BY <2>1, <2>2, <2>3 DEF L
<1>4. Kept(locations) = {i \in DOMAIN locations : GeoJSONPoint(locations[i].feature) # {}}
  BY DEF Kept
<1>5. /\ \A i \in Kept(locations) : points[i] \in GeoJSONPoint(locations[i].feature)
      /\ DOMAIN rows' = DOMAIN rows \cup {points[i].key : i \in Kept(locations)}
      /\ \A k \in DOMAIN rows' :
           \/ k \in DOMAIN rows /\ rows'[k] = rows[k]
           \/ \E i \in Kept(locations) : k = points[i].key /\ rows'[k] = Stored(points[i])
      /\ \A k \in DOMAIN rows' :
           LET mine == {i \in Kept(locations) : points[i].key = k}
           IN  /\ mine = {} => k \in DOMAIN rows /\ rows'[k] = rows[k]
               /\ mine # {} => rows'[k] = Stored(points[Max(mine)])
  <2> DEFINE new == Upsert(points)
  <2>1. /\ \A i \in Kept(locations) : points[i] \in GeoJSONPoint(locations[i].feature)
        /\ DOMAIN new = DOMAIN rows \cup {points[i].key : i \in Kept(locations)}
        /\ \A k \in DOMAIN new :
             \/ k \in DOMAIN rows /\ new[k] = rows[k]
             \/ \E i \in Kept(locations) : k = points[i].key /\ new[k] = Stored(points[i])
        /\ \A k \in DOMAIN new :
             LET mine == {i \in Kept(locations) : points[i].key = k}
             IN  /\ mine = {} => k \in DOMAIN rows /\ new[k] = rows[k]
                 /\ mine # {} => new[k] = Stored(points[Max(mine)])
    BY UpsertStores
  <2>2. rows' = new
    BY <1>2
  <2> HIDE DEF new
  <2> QED
    BY <2>1, <2>2, Zenon
<1>6. Typed'
  <2> SUFFICES ASSUME NEW k \in DOMAIN rows' PROVE RowOK(k, rows'[k])
    BY DEF Typed
  <2>1. CASE k \in DOMAIN rows /\ rows'[k] = rows[k]
    BY <2>1 DEF IInv, Typed
  <2>2. ASSUME NEW i \in Kept(locations), k = points[i].key, rows'[k] = Stored(points[i])
        PROVE  RowOK(k, rows'[k])
    <3>1. points[i] \in GeoJSONPoint(locations[i].feature) /\ locations[i].feature \in Feature
      BY <1>3, <1>4, <1>5
    <3> QED
      BY <2>2, <3>1, PointsFit
  <2> QED
    BY <1>5, <2>1, <2>2
<1>7. DOMAIN sent' \subseteq DOMAIN rows'
  <2>1. ASSUME NEW i \in DOMAIN locations, locations[i].fix # Null
        PROVE  KeyOf(locations[i].fix) \in DOMAIN rows'
    <3>1. IsFix(locations[i])
      BY <1>3, <2>1 DEF IsNone
    <3>2. /\ GeoJSONPoint(locations[i].feature) # {}
          /\ \A p \in GeoJSONPoint(locations[i].feature) : p.key = KeyOf(locations[i].fix)
      BY <1>3, <3>1, FixesBecomeKeys
    <3>3. i \in Kept(locations) /\ points[i].key = KeyOf(locations[i].fix)
      BY <1>4, <1>5, <3>2
    <3> QED
      BY <1>5, <3>3
  <2>2. DOMAIN sent \subseteq DOMAIN rows'
    BY <1>5 DEF IInv, OneRowPerFix
  <2> QED
    BY <1>2, <2>1, <2>2
<1>8. ASSUME NEW k \in DOMAIN rows' \ DOMAIN sent' PROVE k.ts \in NoInstant
  <2>1. CASE k \in DOMAIN rows
    BY <1>2, <1>8, <2>1 DEF IInv, OneRowPerFix
  <2>2. CASE k \notin DOMAIN rows
    <3>1. PICK i \in Kept(locations) : k = points[i].key
      BY <1>5, <1>8, <2>2
    <3>2. i \in DOMAIN locations /\ points[i] \in GeoJSONPoint(locations[i].feature)
      BY <1>4, <1>5
    <3>3. CASE IsFix(locations[i])
      <4>1. k = KeyOf(locations[i].fix) /\ locations[i].fix # Null
        BY <1>3, <3>1, <3>2, <3>3, FixesBecomeKeys DEF IsFix
      <4> QED
        BY <1>2, <1>8, <3>2, <4>1
    <3>4. CASE IsNone(locations[i])
      BY <1>3, <3>1, <3>2, <3>4, OthersAreTimeless
    <3> QED
      BY <1>3, <3>2, <3>3, <3>4
  <2> QED
    BY <2>1, <2>2
<1>9. OneRowPerFix'
  BY <1>7, <1>8 DEF OneRowPerFix
<1>10. BatteryNear'
  <2> SUFFICES ASSUME NEW k \in DOMAIN rows' \cap DOMAIN sent', k.ts \notin NoInstant
               PROVE  Near(rows'[k].battery, sent'[k])
    BY DEF BatteryNear, Near
  <2> DEFINE mine == {i \in Kept(locations) : points[i].key = k}
  <2>1. \A i \in Kept(locations) : i \in DOMAIN locations /\ points[i] \in GeoJSONPoint(locations[i].feature)
    BY <1>4, <1>5
  <2>2. ASSUME NEW i \in mine PROVE i \in of(k)
    <3>1. ~IsNone(locations[i])
      BY <1>3, <2>1, OthersAreTimeless
    <3>2. IsFix(locations[i])
      BY <1>3, <2>1, <3>1
    <3> QED
      BY <1>3, <2>1, <3>2, FixesBecomeKeys DEF IsFix
  <2>3. ASSUME NEW i \in of(k) PROVE i \in mine
    <3>1. IsFix(locations[i])
      BY <1>3 DEF IsNone
    <3>2. /\ GeoJSONPoint(locations[i].feature) # {}
          /\ \A p \in GeoJSONPoint(locations[i].feature) : p.key = KeyOf(locations[i].fix)
      BY <1>3, <3>1, FixesBecomeKeys
    <3> QED
      BY <1>4, <2>1, <3>2
  <2>4. mine = of(k)
    BY <2>2, <2>3
  <2>5. CASE mine = {}
    <3>1. k \in DOMAIN rows /\ rows'[k] = rows[k]
      BY <1>5, <2>5
    <3>2. sent'[k] = sent[k] /\ k \in DOMAIN sent
      <4>1. k \notin {KeyOf(locations[i].fix) : i \in {j \in DOMAIN locations : locations[j].fix # Null}}
        BY <2>4, <2>5
      <4> QED
        BY <1>2, <2>4, <2>5, <4>1
    <3>3. \A j \in DOMAIN rows \cap DOMAIN sent :
            j.ts \notin NoInstant => Near(rows[j].battery, sent[j])
      BY DEF IInv, BatteryNear, Near
    <3> QED
      BY <3>1, <3>2, <3>3
  <2>6. CASE mine # {}
    <3> DEFINE last == Max(mine)
    <3>1. last \in mine
      <4>1. mine \in SUBSET DOMAIN locations
        BY <1>4
      <4> HIDE DEF mine
      <4> QED
        BY <2>6, <4>1, LastOfMine
    <3>2. rows'[k] = Stored(points[last])
      BY <1>5, <2>6
    <3>3. sent'[k] = locations[last].fix.battery
      BY <1>2, <2>4, <2>6
    <3> HIDE DEF last
    <3>4. /\ IsFix(locations[last]) /\ LevelFits(locations[last].fix.battery)
          /\ locations[last].feature.battery = locations[last].fix.battery
          /\ last \in DOMAIN locations
      <4>1. last \in DOMAIN locations /\ locations[last].fix # Null
        BY <2>4, <3>1
      <4> QED
        BY <1>3, <4>1 DEF IsFix, IsNone
    <3>5. locations[last].fix.battery \in Level
      <4>1. locations[last].feature \in Feature
        BY <1>3, <3>4
      <4> QED
        BY <3>4, <4>1 DEF Feature
    <3>6. rows'[k].battery \in BatteryPercent(locations[last].fix.battery)
      <4>1. points[last] \in GeoJSONPoint(locations[last].feature) /\ locations[last].feature \in Feature
        BY <1>3, <2>1, <3>1, <3>4
      <4> QED
        BY <3>2, <3>4, <4>1, PointsFit
    <3> QED
      BY <3>3, <3>4, <3>5, <3>6, BatteryNearOf
  <2> QED
    BY <2>5, <2>6
<1>11. ReplyUsable'
  BY <1>2 DEF ReplyUsable, NoReply
<1> QED
  BY <1>6, <1>9, <1>10, <1>11 DEF IInv

(* A box that is answered for is one of the globe.                         *)
LEMMA BoxesOfTheGlobe ==
  ASSUME NEW b \in Boxes, NEW box \in ParseBBox(b)
  PROVE  /\ box.minLat \in Latitudes /\ box.maxLat \in Latitudes
         /\ box.minLon \in Longitudes /\ box.maxLon \in Longitudes
         /\ box.minLat <= box.maxLat /\ box.minLon <= box.maxLon
<1> DEFINE v == [i \in 1..4 |-> b[i].value]
           n == MaxLat * Sub
           w == MaxLon * Sub
<1>1. /\ \A i \in 1..4 : b[i].reads = "float" /\ Finite(v[i])
      /\ ~(Less(v[2], v[1]) \/ Less(v[4], v[3]))
      /\ ~(\/ Less(v[1], -n) \/ Less(n, v[2]) \/ Less(v[3], -w) \/ Less(w, v[4]))
      /\ box = [minLat |-> v[1], maxLat |-> v[2], minLon |-> v[3], maxLon |-> v[4]]
  BY DEF ParseBBox
<1>2. \A i \in 1..4 : v[i] \in Int
  <2> SUFFICES ASSUME NEW i \in 1..4 PROVE v[i] \in Int
    OBVIOUS
  <2>1. b[i] \in Value /\ b[i].type = "string"
    BY IngestAssumption
  <2>2. b[i].value \in Float
    BY <1>1, <2>1, AsFloatTyped
  <2>3. v[i] \in Float /\ Finite(v[i])
    BY <1>1, <2>2
  <2> HIDE DEF v
  <2> QED
    BY <2>3, LessOfNumbers
<1>3. n \in Int /\ w \in Int /\ -n \in Int /\ -w \in Int
  BY IngestAssumption
<1>4. Latitudes = (-n)..n /\ Longitudes = (-w)..w
  BY DEF Latitudes, Longitudes
<1> HIDE DEF n, w, v
<1>5. /\ v[1] \in Int /\ v[2] \in Int /\ v[3] \in Int /\ v[4] \in Int
      /\ v[1] \in Float /\ v[2] \in Float /\ v[3] \in Float /\ v[4] \in Float
  BY <1>2 DEF Float
<1>6. ~(v[2] < v[1]) /\ ~(v[4] < v[3]) /\ ~(v[1] < -n) /\ ~(n < v[2]) /\ ~(v[3] < -w) /\ ~(w < v[4])
  BY <1>1, <1>3, <1>5, LessOfNumbers
<1> QED
  BY <1>1, <1>3, <1>4, <1>5, <1>6

(* What fails to encode is an altitude.                                    *)
LEMMA OnlyAltitudes ==
  ASSUME Typed, NEW keys \in SUBSET DOMAIN rows, ~Encodes(keys)
  PROVE  \E k \in keys : rows[k].altitude \in {PosInf, NegInf}
<1>0. PICK k \in keys : \E f \in {rows[k].altitude, rows[k].course} : f # Null /\ ~Finite(f)
  BY DEF Encodes
<1>1. PICK f \in {rows[k].altitude, rows[k].course} : f # Null /\ ~Finite(f)
  BY <1>0
<1>2. RowOK(k, rows[k])
  BY <1>1 DEF Typed
<1>3. f # rows[k].course
  <2>1. CourseLimit * Sub \in Int /\ -CourseLimit * Sub \in Int
    BY IngestAssumption
  <2>2. rows[k].course = Null \/ rows[k].course \in Int
    BY <1>2, <2>1 DEF RowOK
  <2> QED
    BY <1>1, <2>2, IngestAssumption DEF Finite
<1>4. f = rows[k].altitude /\ f \in Float \ {NaN}
  BY <1>1, <1>2, <1>3 DEF RowOK
<1>5. f \in {PosInf, NegInf}
  BY <1>1, <1>4, IngestAssumption DEF Finite, Float
<1> QED
  BY <1>4, <1>5

LEMMA ListIInv == IInv /\ ListPoints => IInv'
<1> SUFFICES ASSUME IInv, ListPoints PROVE IInv'
  OBVIOUS
<1>1. UNCHANGED <<rows, sent>>
  BY DEF ListPoints
<1>2. Typed' /\ OneRowPerFix' /\ BatteryNear'
  BY <1>1 DEF IInv, Typed, OneRowPerFix, BatteryNear
<1>3. PICK b \in Boxes :
        \/ reply' = [status |-> 200, box |-> Null, keys |-> DOMAIN rows, body |-> Encodes(DOMAIN rows)]
        \/ reply' = [status |-> 400]
        \/ \E box \in ParseBBox(b) : \E keys \in SUBSET DOMAIN rows :
             reply' = [status |-> 200, box |-> box, keys |-> keys, body |-> Encodes(keys)]
  BY DEF ListPoints
<1>4. CASE reply' = [status |-> 200, box |-> Null, keys |-> DOMAIN rows, body |-> Encodes(DOMAIN rows)]
  <2>1. reply'.box = Null /\ reply'.keys = DOMAIN rows /\ (reply'.body <=> Encodes(DOMAIN rows))
    BY <1>4
  <2>2. ~Encodes(DOMAIN rows) => \E k \in DOMAIN rows : rows[k].altitude \in {PosInf, NegInf}
    BY OnlyAltitudes DEF IInv
  <2> QED
    BY <1>1, <1>2, <2>1, <2>2 DEF IInv, ReplyUsable
<1>5. CASE reply' = [status |-> 400]
  BY <1>2, <1>5 DEF IInv, ReplyUsable
<1>6. ASSUME NEW box \in ParseBBox(b), NEW keys \in SUBSET DOMAIN rows,
             reply' = [status |-> 200, box |-> box, keys |-> keys, body |-> Encodes(keys)]
      PROVE  IInv'
  <2>1. reply'.box = box /\ reply'.keys = keys /\ (reply'.body <=> Encodes(keys))
    BY <1>6
  <2>2. ~Encodes(keys) => \E k \in keys : rows[k].altitude \in {PosInf, NegInf}
    BY OnlyAltitudes DEF IInv
  <2>3. /\ {box.minLat, box.maxLat} \subseteq Latitudes /\ {box.minLon, box.maxLon} \subseteq Longitudes
        /\ box.minLat <= box.maxLat /\ box.minLon <= box.maxLon
    BY BoxesOfTheGlobe
  <2> QED
    BY <1>1, <1>2, <2>1, <2>2, <2>3 DEF IInv, ReplyUsable
<1> QED
  BY <1>3, <1>4, <1>5, <1>6

LEMMA InitIInv == Init => IInv
BY DEF Init, IInv, Typed, OneRowPerFix, BatteryNear, ReplyUsable, NoReply

(* Nothing out of bounds is stored, a fix has its row, and an answer 200   *)
(* is for a box of the globe (FromGeoJSONLocations, Upsert, parseBBox,     *)
(* writeJSON, for all values of Value).                                    *)
THEOREM Invariance == Spec => []IInv
<1>1. IInv /\ UNCHANGED vars => IInv'
  BY DEF IInv, Typed, OneRowPerFix, BatteryNear, ReplyUsable, vars
<1>2. IInv /\ [Next]_vars => IInv'
  BY <1>1, CreateIInv, ListIInv DEF Next
<1> QED
  BY InitIInv, <1>2, PTL DEF Spec

(* What is stored is within the bounds its column and the app expect,      *)
(* whatever was sent (geoJSONPoint, columnSafeDecimal, batteryPercent).    *)
THEOREM StoredInBounds == Spec => []TypeOK
<1>1. ASSUME Typed PROVE TypeOK
  <2>1. ASSUME NEW k \in DOMAIN rows PROVE rows[k].altitude # NaN /\ RowOK(k, rows[k])
    <3>1. RowOK(k, rows[k])
      BY <1>1 DEF Typed
    <3> QED
      BY <3>1, IngestAssumption DEF RowOK
  <2> QED
    BY <2>1 DEF TypeOK, RowOK
<1>2. IInv => TypeOK
  BY <1>1 DEF IInv
<1> QED
  BY Invariance, <1>2, PTL

(* A fix is one row in every form of its time (ParseTimestamp, Upsert).    *)
THEOREM OneFixOneRow == Spec => []OneRowPerFix
<1>1. IInv => OneRowPerFix
  BY DEF IInv
<1> QED
  BY Invariance, <1>1, PTL

(* The battery level of a fix is stored as it was sent, or one percent     *)
(* less, and only a level that would be zero is lost (batteryPercent: two  *)
(* roundings and a truncation, in floats of any precision that holds it).  *)
THEOREM BatteryKept == Spec => []BatteryNear
<1>1. IInv => BatteryNear
  BY DEF IInv
<1> QED
  BY Invariance, <1>1, PTL

(* An answer 200 is for a box of the globe and has its body, unless an     *)
(* altitude is infinite (parseBBox, writeJSON).                            *)
THEOREM RepliesAreUsable == Spec => []ReplyUsable
<1>1. IInv => ReplyUsable
  BY DEF IInv
<1> QED
  BY Invariance, <1>1, PTL
=============================================================================
