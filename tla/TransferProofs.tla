--------------------------- MODULE TransferProofs ---------------------------
(***************************************************************************)
(* The ring of a connection is a FIFO for every size below the range of    *)
(* its index type, and the wait queues that its transfers block on lose    *)
(* nothing, whatever the program that uses them and whatever its limits.   *)
(***************************************************************************)
EXTENDS RingBuffer, TimedWait, SequenceTheorems, FiniteSetTheorems,
        WellFoundedInduction, TLAPS
-----------------------------------------------------------------------------
(* Lists: what Without() computes, by induction over a set of numbers.     *)

\* A set of numbers has a least one.
LEMMA LeastNumber ==
  ASSUME NEW T \in SUBSET Nat, T # {}
  PROVE  \E x \in T : \A y \in T : x <= y
<1> DEFINE R == OpToRel(<, Nat)
<1>1. IsWellFoundedOn(R, Nat)
  BY NatLessThanWellFounded
<1>2. \E x \in T : \A y \in T : <<y, x>> \notin R
  <2> HIDE DEF R
  <2>1. QED
    BY <1>1, WFMin
<1>3. PICK x \in T : \A y \in T : <<y, x>> \notin R
  BY <1>2
<1>4. ASSUME NEW y \in T
      PROVE  x <= y
  <2>1. x \in Nat /\ y \in Nat
    OBVIOUS
  <2>2. ~(y < x)
    BY <2>1, <1>3 DEF OpToRel
  <2>3. QED
    BY <2>1, <2>2
<1>5. QED
  BY <1>4

\* Induction up to a number, over a set in place of a predicate.
LEMMA UpTo ==
  ASSUME NEW n \in Nat, NEW P, 0 \in P,
         \A i \in 0..n - 1 : i \in P => i + 1 \in P
  PROVE  \A i \in 0..n : i \in P
<1> DEFINE Bad == (0..n) \ P
<1>1. SUFFICES ASSUME Bad # {}
               PROVE  FALSE
  OBVIOUS
<1>2. Bad \in SUBSET Nat
  OBVIOUS
<1>3. PICK x \in Bad : \A y \in Bad : x <= y
  <2> HIDE DEF Bad
  <2>1. QED
    BY <1>1, <1>2, LeastNumber
<1>4. x # 0 /\ x \in 0..n /\ x \notin P
  OBVIOUS
<1>5. x - 1 \in 0..n - 1 /\ x - 1 \in 0..n /\ ~(x <= x - 1)
  BY <1>4
<1>6. x - 1 \notin Bad
  BY <1>3, <1>5
<1>7. x - 1 \in P
  BY <1>5, <1>6
<1>8. (x - 1) + 1 \in P
  BY <1>5, <1>7
<1>9. (x - 1) + 1 = x
  BY <1>4
<1>10. QED
  BY <1>4, <1>8, <1>9

\* The function that Without evaluates.
Kept(g, seq, gone) ==
  g = [i \in 0..Len(seq) |->
         IF i = 0 THEN <<>>
         ELSE IF seq[i] \in gone THEN g[i - 1] ELSE Append(g[i - 1], seq[i])]

LEMMA KeptExists ==
  ASSUME NEW S, NEW seq \in Seq(S), NEW gone
  PROVE  \E g : Kept(g, seq, gone)
<1> DEFINE n == Len(seq)
           Grown(r, i) == IF seq[i] \in gone THEN r ELSE Append(r, seq[i])
           Good(g, m) == /\ g \in [0..m -> Seq(S)]
                         /\ g[0] = <<>>
                         /\ \A i \in 1..m : g[i] = Grown(g[i - 1], i)
           P == {m \in 0..n : \E g : Good(g, m)}
<1>1. n \in Nat /\ \A i \in 1..n : seq[i] \in S
  BY LenProperties, ElementOfSeq
<1>2. 0 \in P
  <2>1. [i \in 0..0 |-> <<>>] \in [0..0 -> Seq(S)]
    BY EmptySeq
  <2>2. Good([i \in 0..0 |-> <<>>], 0)
    BY <2>1
  <2>3. \E g : Good(g, 0)
    <3> HIDE DEF Good
    <3>1. QED
      BY <2>2
  <2>4. QED
    <3> HIDE DEF Good
    <3>1. QED
      BY <1>1, <2>3
<1>3. ASSUME NEW m \in 0..n - 1, m \in P
      PROVE  m + 1 \in P
  <2>1. PICK g : Good(g, m)
    BY <1>3
  <2> DEFINE h == [i \in 0..m + 1 |-> IF i = m + 1 THEN Grown(g[m], m + 1) ELSE g[i]]
  <2>2. m \in Nat /\ m + 1 \in 1..n /\ m \in 0..m
    BY <1>1
  <2>3. Grown(g[m], m + 1) \in Seq(S)
    BY <1>1, <2>1, <2>2, AppendProperties
  <2>4. h \in [0..m + 1 -> Seq(S)]
    BY <2>1, <2>2, <2>3
  <2>5. h[0] = <<>>
    BY <2>1, <2>2
  <2>6. ASSUME NEW i \in 1..m + 1
        PROVE  h[i] = Grown(h[i - 1], i)
    <3>1. CASE i = m + 1
      <4>1. h[i] = Grown(g[m], m + 1)
        BY <3>1, <2>2
      <4>2. h[i - 1] = g[m]
        BY <3>1, <2>2
      <4>3. QED
        BY <3>1, <4>1, <4>2
    <3>2. CASE i # m + 1
      <4>1. i \in 1..m /\ i \in 0..m + 1 /\ i - 1 \in 0..m + 1 /\ i - 1 # m + 1
        BY <3>2, <2>2
      <4>2. h[i] = g[i] /\ h[i - 1] = g[i - 1]
        BY <3>2, <4>1
      <4>3. QED
        BY <4>1, <4>2, <2>1
    <3>3. QED
      BY <3>1, <3>2
  <2>7. Good(h, m + 1)
    BY <2>4, <2>5, <2>6
  <2>8. \E r : Good(r, m + 1)
    <3> HIDE DEF Good, h
    <3>1. QED
      BY <2>7
  <2>9. QED
    <3> HIDE DEF Good
    <3>1. QED
      BY <2>2, <2>8
<1>4. n \in P
  <2> HIDE DEF P
  <2>1. n \in 0..n
    BY <1>1
  <2>2. QED
    BY <1>1, <1>2, <1>3, <2>1, UpTo
<1>5. PICK g : Good(g, n)
  BY <1>4
<1>6. \A i \in 0..n : g[i] = IF i = 0 THEN <<>> ELSE Grown(g[i - 1], i)
  <2>1. ASSUME NEW i \in 0..n, i # 0
        PROVE  i \in 1..n
    BY <1>1, <2>1
  <2>2. QED
    BY <2>1, <1>5
<1>7. Kept(g, seq, gone)
  BY <1>5, <1>6 DEF Kept
<1>8. QED
  BY <1>7

LEMMA WithoutIsKept ==
  ASSUME NEW S, NEW seq \in Seq(S), NEW gone
  PROVE  \E g : Kept(g, seq, gone) /\ Without(seq, gone) = g[Len(seq)]
<1> DEFINE g == CHOOSE g : Kept(g, seq, gone)
<1>1. Kept(g, seq, gone)
  BY KeptExists
<1>2. Without(seq, gone) = g[Len(seq)]
  BY DEF Without, Kept
<1>3. QED
  BY <1>1, <1>2

\* Pairs of entries of a list, in the order they have there, are related by R.
Ordered(seq, R) == \A i, j \in DOMAIN seq : i < j => <<seq[i], seq[j]>> \in R

\* Without() erases the entries of `gone' and keeps the order of the others.
LEMMA WithoutIs ==
  ASSUME NEW S, NEW seq \in Seq(S), NEW gone, NEW R
  PROVE  /\ Without(seq, gone) \in Seq(S)
         /\ ToSet(Without(seq, gone)) = ToSet(seq) \ gone
         /\ Ordered(seq, R) => Ordered(Without(seq, gone), R)
<1> DEFINE n == Len(seq)
           Of(r, m) == /\ r \in Seq(S)
                       /\ \A k \in 1..Len(r) : \E j \in 1..m : r[k] = seq[j] /\ seq[j] \notin gone
                       /\ \A j \in 1..m : seq[j] \notin gone => \E k \in 1..Len(r) : r[k] = seq[j]
                       /\ Ordered(seq, R) => Ordered(r, R)
<1>1. n \in Nat /\ DOMAIN seq = 1..n /\ \A i \in 1..n : seq[i] \in S
  BY LenProperties, ElementOfSeq
<1>2. PICK g : Kept(g, seq, gone) /\ Without(seq, gone) = g[n]
  BY WithoutIsKept
<1> DEFINE P == {m \in 0..n : Of(g[m], m)}
<1>3. \A i \in 0..n : g[i] = IF i = 0 THEN <<>>
                             ELSE IF seq[i] \in gone THEN g[i - 1] ELSE Append(g[i - 1], seq[i])
  BY <1>2 DEF Kept
<1>4. 0 \in P
  <2>1. g[0] = <<>>
    BY <1>1, <1>3
  <2>2. Of(<<>>, 0)
    BY EmptySeq DEF Ordered
  <2>3. QED
    <3> HIDE DEF Of
    <3>1. QED
      BY <1>1, <2>1, <2>2
<1>5. ASSUME NEW m \in 0..n - 1, m \in P
      PROVE  m + 1 \in P
  <2>1. m \in Nat /\ m + 1 \in 1..n /\ m + 1 \in 0..n /\ m + 1 # 0 /\ m + 1 - 1 = m
    BY <1>1
  <2> DEFINE r == g[m]
             e == seq[m + 1]
  <2>2. Of(r, m)
    BY <1>5
  <2>3. g[m + 1] = IF e \in gone THEN r ELSE Append(r, e)
    BY <1>3, <2>1
  <2> HIDE DEF r
  <2>4. \A j \in 1..m + 1 : j \in 1..m \/ j = m + 1
    BY <2>1
  <2>5. \A j \in 1..m : j \in 1..m + 1 /\ j \in 1..n /\ j < m + 1
    BY <1>1, <2>1
  <2>6. CASE e \in gone
    <3>1. Of(r, m + 1)
      BY <2>2, <2>4, <2>5, <2>6
    <3>2. QED
      <4> HIDE DEF Of
      <4>1. QED
        BY <2>1, <2>3, <2>6, <3>1
  <2>7. CASE e \notin gone
    <3> DEFINE t == Append(r, e)
    <3>1. /\ t \in Seq(S) /\ Len(t) = Len(r) + 1 /\ Len(r) \in Nat
          /\ \A k \in 1..Len(r) : t[k] = r[k]
          /\ t[Len(r) + 1] = e
      BY <1>1, <2>1, <2>2, AppendProperties, LenProperties
    <3>2. DOMAIN t = 1..Len(t) /\ DOMAIN r = 1..Len(r)
      BY <2>2, <3>1, LenProperties
    <3> HIDE DEF t
    <3>3. \A k \in 1..Len(t) : k \in 1..Len(r) \/ k = Len(r) + 1
      BY <3>1
    <3>4. \A k \in 1..Len(r) : k \in 1..Len(t) /\ k < Len(r) + 1
      BY <3>1
    <3>5. Len(r) + 1 \in 1..Len(t) /\ m + 1 \in 1..m + 1
      BY <2>1, <3>1
    <3>6. ASSUME NEW k \in 1..Len(t)
          PROVE  \E j \in 1..m + 1 : t[k] = seq[j] /\ seq[j] \notin gone
      <4>1. CASE k = Len(r) + 1
        BY <2>7, <3>1, <3>5, <4>1
      <4>2. CASE k \in 1..Len(r)
        <5>1. PICK j \in 1..m : r[k] = seq[j] /\ seq[j] \notin gone
          BY <2>2, <4>2
        <5>2. QED
          BY <2>5, <3>1, <4>2, <5>1
      <4>3. QED
        BY <3>3, <4>1, <4>2
    <3>7. ASSUME NEW j \in 1..m + 1, seq[j] \notin gone
          PROVE  \E k \in 1..Len(t) : t[k] = seq[j]
      BY <2>2, <2>4, <3>1, <3>4, <3>5, <3>7
    <3>8. ASSUME Ordered(seq, R)
          PROVE  Ordered(t, R)
      <4>1. Ordered(r, R)
        BY <2>2, <3>8
      <4>2. SUFFICES ASSUME NEW i \in 1..Len(t), NEW k \in 1..Len(t), i < k
                     PROVE  <<t[i], t[k]>> \in R
        BY <3>2 DEF Ordered
      <4>3. i \in 1..Len(r) /\ t[i] = r[i]
        BY <3>1, <4>2
      <4>4. CASE k = Len(r) + 1
        <5>1. PICK j \in 1..m : r[i] = seq[j]
          BY <2>2, <4>3
        <5>2. <<seq[j], seq[m + 1]>> \in R
          BY <1>1, <2>1, <2>5, <3>8 DEF Ordered
        <5>3. QED
          BY <3>1, <4>3, <4>4, <5>1, <5>2
      <4>5. CASE k \in 1..Len(r)
        BY <3>1, <3>2, <4>1, <4>2, <4>3, <4>5 DEF Ordered
      <4>6. QED
        BY <3>3, <4>4, <4>5
    <3>9. Of(t, m + 1)
      BY <3>1, <3>6, <3>7, <3>8
    <3>10. QED
      <4> HIDE DEF Of
      <4>1. QED
        BY <2>1, <2>3, <2>7, <3>9 DEF t
  <2>8. QED
    BY <2>6, <2>7
<1>6. Of(g[n], n)
  <2>1. n \in P
    <3> HIDE DEF P
    <3>1. n \in 0..n
      BY <1>1
    <3>2. QED
      BY <1>1, <1>4, <1>5, <3>1, UpTo
  <2>2. QED
    <3> HIDE DEF Of
    <3>1. QED
      BY <2>1
<1> DEFINE w == Without(seq, gone)
<1>7. Of(w, n)
  <2> HIDE DEF Of
  <2>1. QED
    BY <1>2, <1>6
<1> HIDE DEF w
<1>8. DOMAIN w = 1..Len(w)
  BY <1>7, LenProperties
<1>9. ToSet(w) = ToSet(seq) \ gone
  BY <1>1, <1>7, <1>8 DEF ToSet
<1>10. QED
  BY <1>7, <1>9 DEF w

LEMMA LeastIsMin ==
  ASSUME NEW T \in SUBSET Nat, T # {}
  PROVE  Min(T) \in T /\ \A y \in T : Min(T) <= y
BY LeastNumber DEF Min

\* What is in a list.
LEMMA EntriesAre ==
  ASSUME NEW S, NEW seq \in Seq(S)
  PROVE  /\ DOMAIN seq = 1..Len(seq) /\ Len(seq) \in Nat
         /\ ToSet(seq) \subseteq S
         /\ \A i \in 1..Len(seq) : seq[i] \in ToSet(seq) /\ seq[i] \in S
         /\ \A x \in ToSet(seq) : \E i \in 1..Len(seq) : x = seq[i]
         /\ seq = <<>> <=> ToSet(seq) = {}
<1>1. DOMAIN seq = 1..Len(seq) /\ Len(seq) \in Nat /\ \A i \in 1..Len(seq) : seq[i] \in S
  BY LenProperties, ElementOfSeq
<1>2. seq # <<>> => Len(seq) > 0
  BY EmptySeq
<1>3. seq # <<>> => seq[1] \in ToSet(seq)
  BY <1>1, <1>2 DEF ToSet
<1>4. seq = <<>> => ToSet(seq) = {}
  BY DEF ToSet
<1>5. QED
  BY <1>1, <1>3, <1>4 DEF ToSet

LEMMA AppendIs ==
  ASSUME NEW S, NEW seq \in Seq(S), NEW e \in S, NEW R
  PROVE  /\ Append(seq, e) \in Seq(S)
         /\ ToSet(Append(seq, e)) = ToSet(seq) \cup {e}
         /\ Ordered(seq, R) /\ (\A x \in ToSet(seq) : <<x, e>> \in R) => Ordered(Append(seq, e), R)
<1> DEFINE t == Append(seq, e)
<1>1. /\ t \in Seq(S) /\ Len(t) = Len(seq) + 1
      /\ \A i \in 1..Len(seq) : t[i] = seq[i]
      /\ t[Len(seq) + 1] = e
  BY AppendProperties
<1> HIDE DEF t
<1>2. DOMAIN t = 1..Len(t) /\ DOMAIN seq = 1..Len(seq) /\ Len(seq) \in Nat
  BY <1>1, EntriesAre
<1>3. ToSet(t) = ToSet(seq) \cup {e}
  BY <1>1, <1>2 DEF ToSet
<1>4. ASSUME Ordered(seq, R), \A x \in ToSet(seq) : <<x, e>> \in R
      PROVE  Ordered(t, R)
  <2>1. SUFFICES ASSUME NEW i \in 1..Len(t), NEW j \in 1..Len(t), i < j
                 PROVE  <<t[i], t[j]>> \in R
    BY <1>2 DEF Ordered
  <2>2. i \in 1..Len(seq) /\ t[i] = seq[i] /\ seq[i] \in ToSet(seq)
    BY <1>1, <1>2, <2>1, EntriesAre
  <2>3. CASE j = Len(seq) + 1
    BY <1>1, <1>4, <2>2, <2>3
  <2>4. CASE j # Len(seq) + 1
    <3>1. j \in 1..Len(seq) /\ t[j] = seq[j]
      BY <1>1, <1>2, <2>4
    <3>2. QED
      BY <1>2, <1>4, <2>1, <2>2, <3>1 DEF Ordered
  <2>5. QED
    BY <2>3, <2>4
<1>5. QED
  BY <1>1, <1>3, <1>4 DEF t

LEMMA TailIs ==
  ASSUME NEW S, NEW seq \in Seq(S), seq # <<>>, NEW R
  PROVE  /\ Tail(seq) \in Seq(S)
         /\ Head(seq) = seq[1] /\ Head(seq) \in ToSet(seq) /\ Head(seq) \in S
         /\ ToSet(seq) = ToSet(Tail(seq)) \cup {Head(seq)}
         /\ Ordered(seq, R) => /\ Ordered(Tail(seq), R)
                               /\ \A x \in ToSet(Tail(seq)) : <<Head(seq), x>> \in R
<1> DEFINE t == Tail(seq)
<1>1. /\ t \in Seq(S) /\ Len(t) = Len(seq) - 1 /\ Head(seq) = seq[1]
      /\ \A i \in 1..Len(t) : t[i] = seq[i + 1]
  BY HeadTailProperties
<1> HIDE DEF t
<1>2. /\ DOMAIN t = 1..Len(t) /\ DOMAIN seq = 1..Len(seq) /\ Len(seq) \in Nat /\ Len(seq) > 0
      /\ 1 \in 1..Len(seq)
  BY <1>1, EntriesAre, EmptySeq
<1>3. \A i \in 1..Len(t) : i + 1 \in 1..Len(seq) /\ 1 < i + 1
  BY <1>1, <1>2
<1>4. \A i \in 1..Len(seq) : i = 1 \/ (i - 1 \in 1..Len(t) /\ (i - 1) + 1 = i)
  BY <1>1, <1>2
<1>5. \A i \in 1..Len(seq) : i = 1 \/ (i - 1 \in 1..Len(t) /\ seq[i] = t[i - 1])
  BY <1>1, <1>4
<1>6. ToSet(seq) = ToSet(t) \cup {seq[1]}
  <2>1. ASSUME NEW x \in ToSet(seq)
        PROVE  x \in ToSet(t) \cup {seq[1]}
    BY <1>2, <1>5, <2>1 DEF ToSet
  <2>2. ASSUME NEW x \in ToSet(t)
        PROVE  x \in ToSet(seq)
    <3>1. PICK i \in 1..Len(t) : x = t[i]
      BY <1>2, <2>2 DEF ToSet
    <3>2. x = seq[i + 1] /\ i + 1 \in 1..Len(seq)
      BY <1>1, <1>3, <3>1
    <3>3. QED
      BY <1>2, <3>2 DEF ToSet
  <2>3. QED
    BY <1>2, <2>1, <2>2 DEF ToSet
<1>7. ASSUME Ordered(seq, R)
      PROVE  Ordered(t, R) /\ \A x \in ToSet(t) : <<seq[1], x>> \in R
  <2>1. ASSUME NEW i \in 1..Len(t), NEW j \in 1..Len(t), i < j
        PROVE  <<t[i], t[j]>> \in R
    <3>1. i + 1 \in 1..Len(seq) /\ j + 1 \in 1..Len(seq) /\ i + 1 < j + 1
      BY <1>3, <2>1
    <3>2. <<seq[i + 1], seq[j + 1]>> \in R
      BY <1>2, <1>7, <3>1 DEF Ordered
    <3>3. QED
      BY <1>1, <3>2
  <2>2. ASSUME NEW x \in ToSet(t)
        PROVE  <<seq[1], x>> \in R
    <3>1. PICK i \in 1..Len(t) : x = t[i]
      BY <1>2 DEF ToSet
    <3>2. <<seq[1], seq[i + 1]>> \in R
      BY <1>2, <1>3, <1>7 DEF Ordered
    <3>3. QED
      BY <1>1, <3>1, <3>2
  <2>3. QED
    BY <1>2, <2>1, <2>2 DEF Ordered
<1>8. Head(seq) \in ToSet(seq) /\ Head(seq) \in S
  BY <1>1, <1>2, EntriesAre
<1>9. QED
  BY <1>1, <1>6, <1>7, <1>8 DEF t

LEMMA InsertIs ==
  ASSUME NEW S, NEW seq \in Seq(S), NEW e \in S, NEW R, NEW k \in 1..Len(seq) + 1
  PROVE  /\ InsertAt(seq, k, e) \in Seq(S)
         /\ ToSet(InsertAt(seq, k, e)) = ToSet(seq) \cup {e}
         /\ /\ Ordered(seq, R)
            /\ \A i \in 1..Len(seq) : IF i < k THEN <<seq[i], e>> \in R ELSE <<e, seq[i]>> \in R
            => Ordered(InsertAt(seq, k, e), R)
<1> DEFINE n == Len(seq)
           t == InsertAt(seq, k, e)
           a == SubSeq(seq, 1, k - 1)
           b == SubSeq(seq, k, n)
<1>1. n \in Nat /\ DOMAIN seq = 1..n /\ \A i \in 1..n : seq[i] \in S
  BY EntriesAre
<1>2. /\ a \in Seq(S) /\ Len(a) = k - 1
      /\ \A i \in 1..k - 1 : a[i] = seq[i]
  <2>1. \A i \in 1..k - 1 : seq[i] \in S
    BY <1>1
  <2>2. k - 1 \in Int /\ 1 \in Int /\ (k - 1) - 1 + 1 = k - 1 /\ (1 <= k - 1 \/ k - 1 = 0)
    BY <1>1
  <2>3. QED
    BY <2>1, <2>2, SubSeqProperties
<1>3. /\ b \in Seq(S) /\ Len(b) = n - k + 1
      /\ \A i \in 1..n - k + 1 : b[i] = seq[k + i - 1]
  <2>1. \A i \in k..n : seq[i] \in S
    BY <1>1
  <2>2. k \in Int /\ n \in Int /\ (k <= n \/ n - k + 1 = 0)
    BY <1>1
  <2>3. QED
    BY <2>1, <2>2, SubSeqProperties
<1>4. t = a \o <<e>> \o b
  BY DEF InsertAt
<1> HIDE DEF a, b, t
<1>5. <<e>> \in Seq(S) /\ Len(<<e>>) = 1 /\ <<e>>[1] = e
  OBVIOUS
<1>6. /\ a \o <<e>> \in Seq(S) /\ Len(a \o <<e>>) = k
      /\ \A i \in 1..k : (a \o <<e>>)[i] = IF i < k THEN seq[i] ELSE e
  <2>1. /\ a \o <<e>> \in Seq(S) /\ Len(a \o <<e>>) = k - 1 + 1
        /\ \A i \in 1..k - 1 + 1 : (a \o <<e>>)[i] = IF i <= k - 1 THEN a[i] ELSE <<e>>[i - (k - 1)]
    BY <1>2, <1>5, ConcatProperties
  <2>2. k - 1 + 1 = k /\ k \in Nat
    BY <1>1
  <2>3. ASSUME NEW i \in 1..k
        PROVE  (a \o <<e>>)[i] = IF i < k THEN seq[i] ELSE e
    <3>1. CASE i < k
      BY <1>2, <2>1, <2>2, <3>1
    <3>2. CASE i = k
      <4>1. i - (k - 1) = 1 /\ ~(i <= k - 1) /\ i \in 1..k - 1 + 1 /\ ~(i < k)
        BY <2>2, <3>2
      <4>2. (a \o <<e>>)[i] = <<e>>[1]
        BY <2>1, <4>1
      <4>3. QED
        BY <1>5, <4>1, <4>2
    <3>3. i < k \/ i = k
      BY <2>2
    <3>4. QED
      BY <3>1, <3>2, <3>3
  <2>4. QED
    BY <2>1, <2>2, <2>3
<1>7. /\ t \in Seq(S) /\ Len(t) = n + 1
      /\ \A i \in 1..n + 1 : t[i] = IF i < k THEN seq[i] ELSE IF i = k THEN e ELSE seq[i - 1]
  <2>1. /\ t \in Seq(S) /\ Len(t) = k + (n - k + 1)
        /\ \A i \in 1..k + (n - k + 1) : t[i] = IF i <= k THEN (a \o <<e>>)[i] ELSE b[i - k]
    BY <1>3, <1>4, <1>6, ConcatProperties
  <2>2. k + (n - k + 1) = n + 1 /\ k \in Nat
    BY <1>1
  <2>3. ASSUME NEW i \in 1..n + 1
        PROVE  t[i] = IF i < k THEN seq[i] ELSE IF i = k THEN e ELSE seq[i - 1]
    <3>1. CASE i <= k
      BY <1>6, <2>1, <2>2, <3>1
    <3>2. CASE i > k
      <4>1. i - k \in 1..n - k + 1 /\ k + (i - k) - 1 = i - 1
        BY <1>1, <2>2, <3>2
      <4>2. b[i - k] = seq[i - 1]
        BY <1>3, <4>1
      <4>3. QED
        BY <2>1, <2>2, <3>2, <4>2
    <3>3. QED
      BY <2>2, <3>1, <3>2
  <2>4. QED
    BY <2>1, <2>2, <2>3
<1>8. DOMAIN t = 1..n + 1
  BY <1>7, EntriesAre
<1>9. \A i \in 1..n + 1 : (i < k => i \in 1..n) /\ (i > k => i - 1 \in 1..n /\ ~(i - 1 < k))
  BY <1>1
<1>10. \A i \in 1..n : /\ i < k => i \in 1..n + 1
                       /\ ~(i < k) => i + 1 \in 1..n + 1 /\ i + 1 > k /\ (i + 1) - 1 = i
  BY <1>1
<1>11. k \in 1..n + 1 /\ k \in Nat
  BY <1>1
<1>12. ToSet(t) = ToSet(seq) \cup {e}
  <2>1. ASSUME NEW i \in 1..n + 1
        PROVE  t[i] \in ToSet(seq) \cup {e}
    <3>1. CASE i < k
      BY <1>1, <1>7, <1>9, <3>1 DEF ToSet
    <3>2. CASE i = k
      BY <1>7, <1>11, <3>2
    <3>3. CASE i > k
      <4>1. t[i] = seq[i - 1]
        BY <1>7, <1>11, <3>3
      <4>2. QED
        BY <1>1, <1>9, <3>3, <4>1 DEF ToSet
    <3>4. QED
      BY <1>11, <3>1, <3>2, <3>3
  <2>2. e \in ToSet(t)
    BY <1>7, <1>8, <1>11 DEF ToSet
  <2>3. ASSUME NEW i \in 1..n
        PROVE  seq[i] \in ToSet(t)
    <3>1. CASE i < k
      BY <1>7, <1>8, <1>10, <3>1 DEF ToSet
    <3>2. CASE ~(i < k)
      <4>1. t[i + 1] = seq[i]
        BY <1>7, <1>10, <1>11, <3>2
      <4>2. QED
        BY <1>8, <1>10, <3>2, <4>1 DEF ToSet
    <3>3. QED
      BY <3>1, <3>2
  <2>4. QED
    BY <1>1, <1>8, <2>1, <2>2, <2>3 DEF ToSet
<1>13. ASSUME Ordered(seq, R),
              \A i \in 1..n : IF i < k THEN <<seq[i], e>> \in R ELSE <<e, seq[i]>> \in R
       PROVE  Ordered(t, R)
  <2>1. SUFFICES ASSUME NEW i \in 1..n + 1, NEW j \in 1..n + 1, i < j
                 PROVE  <<t[i], t[j]>> \in R
    BY <1>8 DEF Ordered
  <2>2. \A x, y \in 1..n : x < y => <<seq[x], seq[y]>> \in R
    BY <1>1, <1>13 DEF Ordered
  <2>3. CASE i < k /\ j < k
    BY <1>7, <1>9, <2>1, <2>2, <2>3
  <2>4. CASE i < k /\ j = k
    <3>1. t[i] = seq[i] /\ t[j] = e /\ i \in 1..n
      BY <1>7, <1>9, <1>11, <2>4
    <3>2. QED
      BY <1>13, <2>4, <3>1
  <2>5. CASE i < k /\ j > k
    <3>1. t[i] = seq[i] /\ t[j] = seq[j - 1] /\ i \in 1..n /\ j - 1 \in 1..n /\ i < j - 1
      BY <1>7, <1>9, <1>11, <2>5
    <3>2. QED
      BY <2>2, <3>1
  <2>6. CASE i = k
    <3>1. t[i] = e /\ t[j] = seq[j - 1] /\ j - 1 \in 1..n /\ ~(j - 1 < k)
      BY <1>7, <1>9, <1>11, <2>1, <2>6
    <3>2. QED
      BY <1>13, <3>1
  <2>7. CASE i > k
    <3>1. /\ t[i] = seq[i - 1] /\ t[j] = seq[j - 1] /\ i - 1 \in 1..n /\ j - 1 \in 1..n
          /\ i - 1 < j - 1
      BY <1>7, <1>9, <1>11, <2>1, <2>7
    <3>2. QED
      BY <2>2, <3>1
  <2>8. i \in Nat /\ j \in Nat /\ k \in Nat
    BY <1>11
  <2>9. QED
    BY <2>1, <2>3, <2>4, <2>5, <2>6, <2>7, <2>8
<1>14. QED
  BY <1>7, <1>12, <1>13 DEF t
-----------------------------------------------------------------------------
(* The ring of bytes (module RingBuffer).                                  *)

\* The place n bytes behind s, and the number of used bytes, without division.
Plus(s, n) == IF s + n < Size THEN s + n ELSE s + n - Size
Distance(s, e) == IF s <= e THEN e - s ELSE Size - s + e
used == Distance(start, end)

\* A list as data() makes them.
IsIov(iov) == /\ iov \in Seq(Seq(Index)) /\ Len(iov) <= 2
              /\ \A j \in 1..Len(iov) : Len(iov[j]) > 0

\* The free places that a recv() was given are next at the end of the ring, and
\* hold what has come.
RecvInv ==
  filling # "no" =>
    /\ Flat(freeIov) \in Seq(Index) /\ Len(Flat(freeIov)) <= Size - 1 - used
    /\ \A k \in 1..Len(Flat(freeIov)) : Flat(freeIov)[k] = Plus(end, k - 1)
    /\ Len(came) <= Len(Flat(freeIov))
    /\ \A k \in 1..Len(came) : buf[Plus(end, k - 1)] = came[k]

\* The used places that a send() was given are next at the start of the ring;
\* tcnt and offset say how many of them have been sent.
SendInv ==
  emptying =>
    /\ IsIov(usedIov)
    /\ Flat(usedIov) \in Seq(Index) /\ Len(Flat(usedIov)) <= used
    /\ \A k \in 1..Len(Flat(usedIov)) : Flat(usedIov)[k] = Plus(start, k - 1)
    /\ tcnt \in 0..Len(usedIov) /\ offset \in Nat
    /\ tcnt < Len(usedIov) => offset < Before(usedIov, tcnt + 1) - Before(usedIov, tcnt)
    /\ tcnt = Len(usedIov) => offset = 0
    /\ Len(sentOut) = Before(usedIov, tcnt) + offset
    /\ \A k \in 1..Len(sentOut) : sentOut[k] = buf[Plus(start, k - 1)]

BufferInv == BufferTypeOK /\ RecvInv /\ SendInv
-----------------------------------------------------------------------------
(* Arithmetic of the indices.                                              *)

LEMMA SizeFacts ==
  /\ Size \in Nat /\ Size > 0 /\ Width \in Nat /\ Size < Width
  /\ Index = {i \in Nat : i < Size}
  /\ \A x \in Nat : x <= Size => U16(x) = x
<1>1. Size \in Nat /\ Size > 0 /\ Width \in Nat /\ Size < Width
  BY SizeAssumption
<1>2. Index = {i \in Nat : i < Size}
  BY <1>1 DEF Index
<1>3. \A x \in Nat : x <= Size => U16(x) = x
  BY <1>1 DEF U16
<1>4. QED
  BY <1>1, <1>2, <1>3

LEMMA PlusIs ==
  ASSUME NEW s \in Index, NEW n \in Nat, n <= Size
  PROVE  /\ (s + n) % Size = Plus(s, n) /\ Plus(s, n) \in Index
         /\ U16((s + n) % Size) = Plus(s, n)
<1>1. s \in Nat /\ s < Size /\ Size \in Nat /\ Size > 0
  BY SizeFacts
<1>2. CASE s + n < Size
  <2>1. (s + n) % Size = s + n
    BY <1>1, <1>2
  <2>2. QED
    BY <1>1, <1>2, <2>1, SizeFacts DEF Plus
<1>3. CASE s + n >= Size
  <2>1. (s + n) % Size = s + n - Size
    BY <1>1, <1>3
  <2>2. s + n - Size \in Nat /\ s + n - Size < Size
    BY <1>1, <1>3
  <2>3. QED
    BY <1>1, <1>3, <2>1, <2>2, SizeFacts DEF Plus
<1>4. QED
  BY <1>1, <1>2, <1>3

\* Walking round: what a step forwards does to places and distances.
LEMMA Walk ==
  ASSUME NEW s \in Index, NEW e \in Index
  PROVE  /\ Distance(s, e) \in Nat /\ Distance(s, e) < Size
         /\ Plus(s, Distance(s, e)) = e
         /\ \A n \in Nat : n <= Distance(s, e) =>
              /\ Distance(Plus(s, n), e) = Distance(s, e) - n
              /\ \A k \in Nat : n + k <= Distance(s, e) => Plus(Plus(s, n), k) = Plus(s, n + k)
         /\ \A n \in Nat : Distance(s, e) + n < Size =>
              /\ Distance(s, Plus(e, n)) = Distance(s, e) + n
              /\ Plus(s, Distance(s, e) + n) = Plus(e, n)
         /\ \A j, k \in Nat : j < Size /\ k < Size /\ Plus(s, j) = Plus(s, k) => j = k
BY SizeFacts DEF Plus, Distance

LEMMA CapacityIs ==
  ASSUME NEW s \in Index, NEW e \in Index
  PROVE  U16(IF s <= e THEN e - s ELSE Size - s + e) = Distance(s, e)
BY Walk, SizeFacts DEF Distance

LEMMA Capacities ==
  ASSUME RingTypeOK
  PROVE  /\ start \in Index /\ end \in Index
         /\ used \in Nat /\ used < Size
         /\ readableCap = used /\ writeableCap = Size - 1 - used
         /\ writeable <=> used < Size - 1
         /\ FreeTail \in Index /\ FreeTail = Plus(start, Size - 1)
         /\ Distance(end, FreeTail) = Size - 1 - used
<1>1. start \in Index /\ end \in Index
  BY DEF RingTypeOK
<1>2. used \in Nat /\ used < Size
  BY <1>1, Walk DEF used
<1>3. readableCap = used
  BY <1>1, CapacityIs DEF readableCap, used
<1>4. writeableCap = Size - 1 - used
  <2>1. (IF start > end THEN start - end - 1 ELSE Size + start - end - 1) = Size - 1 - used
    BY <1>1, SizeFacts DEF used, Distance
  <2>2. Size - 1 - used \in Nat /\ Size - 1 - used <= Size
    BY <1>2, SizeFacts
  <2>3. QED
    BY <2>1, <2>2, SizeFacts DEF writeableCap
<1>5. writeable <=> used < Size - 1
  <2>1. (end + 1) % Size = Plus(end, 1)
    BY <1>1, PlusIs, SizeFacts
  <2>2. QED
    BY <1>1, <2>1, SizeFacts DEF writeable, Plus, used, Distance
<1>6. FreeTail = Plus(start, Size - 1) /\ FreeTail \in Index
  <2>1. Size - 1 \in Nat /\ start + Size - 1 = start + (Size - 1)
    BY <1>1, SizeFacts
  <2>2. QED
    BY <1>1, <2>1, PlusIs, SizeFacts DEF FreeTail
<1>7. Distance(end, FreeTail) = Size - 1 - used
  BY <1>1, <1>6, SizeFacts DEF used, Distance, Plus
<1>8. QED
  BY <1>1, <1>2, <1>3, <1>4, <1>5, <1>6, <1>7
-----------------------------------------------------------------------------
(* The scatter lists.                                                      *)

LEMMA RunIs ==
  ASSUME NEW from \in Nat, NEW to \in Nat, from <= to, to <= Size
  PROVE  /\ Run(from, to) \in Seq(Index) /\ Len(Run(from, to)) = to - from
         /\ \A k \in 1..to - from : Run(from, to)[k] = from + k - 1
<1>1. to - from \in Nat
  OBVIOUS
<1>2. \A k \in 1..to - from : from + k - 1 \in Index
  BY SizeFacts
<1>3. QED
  BY <1>1, <1>2 DEF Run

LEMMA SegmentsAre ==
  ASSUME NEW h \in Index, NEW t \in Index
  PROVE  /\ Flat(Segments(h, t)) \in Seq(Index) /\ Len(Flat(Segments(h, t))) = Distance(h, t)
         /\ \A k \in 1..Distance(h, t) : Flat(Segments(h, t))[k] = Plus(h, k - 1)
         /\ IsIov(Segments(h, t))
<1>1. h \in Nat /\ t \in Nat /\ h < Size /\ t < Size /\ Size \in Nat
  BY SizeFacts
<1>2. CASE h < t
  <2>1. Segments(h, t) = <<Run(h, t)>> /\ Distance(h, t) = t - h
    BY <1>1, <1>2 DEF Segments, Distance
  <2>a. Flat(<<Run(h, t)>>) = Run(h, t)
    BY DEF Flat
  <2>2. \A k \in 1..t - h : Plus(h, k - 1) = h + k - 1
    BY <1>1, <1>2 DEF Plus
  <2>3. QED
    <3>1. Run(h, t) \in Seq(Index) /\ Len(Run(h, t)) = t - h /\ t - h > 0
          /\ \A k \in 1..t - h : Run(h, t)[k] = h + k - 1
      BY <1>1, <1>2, RunIs
    <3> DEFINE r == Run(h, t)
    <3> HIDE DEF r
    <3>2. IsIov(<<r>>)
      BY <3>1 DEF IsIov, r
    <3>3. QED
      BY <1>1, <1>2, <2>1, <2>a, <2>2, <3>1, <3>2 DEF r
<1>3. CASE h > t
  <2> DEFINE a == Run(h, Size)
             b == Run(0, t)
  <2>1. /\ Distance(h, t) = Size - h + t
        /\ Segments(h, t) = IF t > 0 THEN <<a, b>> ELSE <<a>>
    BY <1>1, <1>3 DEF Segments, Distance
  <2>2. /\ a \in Seq(Index) /\ Len(a) = Size - h
        /\ \A k \in 1..Size - h : a[k] = h + k - 1
    <3>1. h <= Size /\ Size <= Size
      BY <1>1
    <3>2. QED
      BY <1>1, <3>1, RunIs
  <2>3. /\ b \in Seq(Index) /\ Len(b) = t
        /\ \A k \in 1..t : b[k] = k - 1
    <3>1. 0 \in Nat /\ 0 <= t /\ t <= Size /\ t - 0 = t /\ \A k \in 1..t : 0 + k - 1 = k - 1
      BY <1>1
    <3>2. /\ b \in Seq(Index) /\ Len(b) = t - 0
          /\ \A k \in 1..t - 0 : b[k] = 0 + k - 1
      BY <1>1, <3>1, RunIs
    <3>3. QED
      BY <3>1, <3>2
  <2>a. Size - h \in Nat /\ Len(a) \in Nat /\ Len(b) \in Nat
    BY <1>1, <2>2, <2>3
  <2> HIDE DEF a, b
  <2>4. /\ a \o b \in Seq(Index) /\ Len(a \o b) = Size - h + t
        /\ \A k \in 1..Size - h + t : (a \o b)[k] = IF k <= Size - h THEN a[k] ELSE b[k - (Size - h)]
    <3>1. /\ a \o b \in Seq(Index) /\ Len(a \o b) = Len(a) + Len(b)
          /\ \A k \in 1..Len(a) + Len(b) :
               (a \o b)[k] = IF k <= Len(a) THEN a[k] ELSE b[k - Len(a)]
      BY <2>2, <2>3, ConcatProperties
    <3>2. QED
      BY <2>2, <2>3, <3>1
  <2>5. \A k \in 1..Size - h + t : (a \o b)[k] = Plus(h, k - 1)
    <3> TAKE k \in 1..Size - h + t
    <3>1. CASE k <= Size - h
      BY <1>1, <2>2, <2>4, <3>1 DEF Plus
    <3>2. CASE k > Size - h
      <4>1. k - (Size - h) \in 1..t
        BY <1>1, <3>2
      <4>2. (a \o b)[k] = k - (Size - h) - 1
        BY <1>1, <2>3, <2>4, <3>2, <4>1
      <4>3. QED
        BY <1>1, <3>2, <4>2 DEF Plus
    <3>3. k <= Size - h \/ k > Size - h
      BY <2>a, <1>1
    <3>4. QED
      BY <3>1, <3>2, <3>3
  <2>6. CASE t > 0
    <3>1. Flat(<<a, b>>) = a \o b
      BY DEF Flat
    <3>2. IsIov(<<a, b>>)
      BY <1>1, <2>2, <2>3, <2>6 DEF IsIov
    <3>3. QED
      BY <2>1, <2>4, <2>5, <2>6, <3>1, <3>2
  <2>7. CASE t = 0
    <3>1. Flat(<<a>>) = a
      BY DEF Flat
    <3>2. IsIov(<<a>>)
      BY <1>1, <2>2, <2>7 DEF IsIov
    <3>3. Size - h + t = Size - h /\ \A k \in 1..Size - h : a[k] = Plus(h, k - 1)
      BY <1>1, <2>2, <2>7 DEF Plus
    <3>4. Segments(h, t) = <<a>>
      BY <2>1, <2>7
    <3>5. QED
      BY <2>1, <2>2, <3>1, <3>2, <3>3, <3>4
  <2>8. QED
    BY <1>1, <2>6, <2>7
<1>4. CASE h = t
  <2>1. Segments(h, t) = <<>> /\ Flat(<<>>) = <<>> /\ Distance(h, t) = 0
    BY <1>1, <1>4 DEF Segments, Distance, Flat
  <2>2. IsIov(<<>>)
    BY DEF IsIov
  <2>3. <<>> \in Seq(Index) /\ Len(<<>>) = 0 /\ \A k \in 1..0 : FALSE
    OBVIOUS
  <2>4. QED
    BY <2>1, <2>2, <2>3
<1>5. QED
  BY <1>1, <1>2, <1>3, <1>4

LEMMA DataAre ==
  ASSUME RingTypeOK
  PROVE  /\ Flat(data(TRUE)) \in Seq(Index) /\ Len(Flat(data(TRUE))) = used
         /\ \A k \in 1..used : Flat(data(TRUE))[k] = Plus(start, k - 1)
         /\ Flat(data(FALSE)) \in Seq(Index) /\ Len(Flat(data(FALSE))) = Size - 1 - used
         /\ \A k \in 1..Size - 1 - used : Flat(data(FALSE))[k] = Plus(end, k - 1)
         /\ IsIov(data(TRUE)) /\ IsIov(data(FALSE))
<1>1. start \in Index /\ end \in Index /\ FreeTail \in Index
      /\ Distance(end, FreeTail) = Size - 1 - used
  BY Capacities
<1>2. data(TRUE) = Segments(start, end) /\ data(FALSE) = Segments(end, FreeTail)
  BY DEF data
<1>3. QED
  BY <1>1, <1>2, SegmentsAre DEF used

\* The used places, the free ones and the one that stays free are a walk round
\* the ring that begins at start.
LEMMA PlacesAreApart ==
  ASSUME RingTypeOK
  PROVE  /\ Places(TRUE) \cap Places(FALSE) = {}
         /\ Places(TRUE) \cup Places(FALSE) = Index \ {FreeTail}
         /\ Len(Flat(data(TRUE))) = readableCap /\ Len(Flat(data(FALSE))) = writeableCap
         /\ writeable <=> writeableCap > 0
<1>1. /\ start \in Index /\ end \in Index /\ used \in Nat /\ used < Size /\ Size \in Nat
      /\ readableCap = used /\ writeableCap = Size - 1 - used
      /\ writeable <=> used < Size - 1
      /\ FreeTail = Plus(start, Size - 1)
  BY Capacities, SizeFacts
<1>2. \A k \in 1..Size - 1 - used : used + (k - 1) < Size /\ k - 1 \in Nat
                                      /\ Plus(end, k - 1) = Plus(start, used + (k - 1))
  <2> TAKE k \in 1..Size - 1 - used
  <2>1. used + (k - 1) < Size /\ k - 1 \in Nat
    BY <1>1
  <2>2. QED
    BY <1>1, <2>1, Walk DEF used
<1>3. \A i \in Index : /\ Distance(start, i) \in Nat /\ Distance(start, i) < Size
                       /\ Plus(start, Distance(start, i)) = i
  BY <1>1, Walk
<1>4. \A j, k \in Nat : j < Size /\ k < Size /\ Plus(start, j) = Plus(start, k) => j = k
  BY <1>1, Walk
<1>5. Places(TRUE) = {Plus(start, k - 1) : k \in 1..used}
  <2>1. /\ Flat(data(TRUE)) \in Seq(Index) /\ Len(Flat(data(TRUE))) = used
        /\ \A k \in 1..used : Flat(data(TRUE))[k] = Plus(start, k - 1)
    BY DataAre
  <2>2. DOMAIN Flat(data(TRUE)) = 1..used
    BY <2>1, LenProperties
  <2>3. QED
    BY <2>1, <2>2 DEF Places
<1>6. Places(FALSE) = {Plus(end, k - 1) : k \in 1..Size - 1 - used}
  <2>1. /\ Flat(data(FALSE)) \in Seq(Index) /\ Len(Flat(data(FALSE))) = Size - 1 - used
        /\ \A k \in 1..Size - 1 - used : Flat(data(FALSE))[k] = Plus(end, k - 1)
    BY DataAre
  <2>2. DOMAIN Flat(data(FALSE)) = 1..Size - 1 - used
    BY <2>1, LenProperties
  <2>3. QED
    BY <2>1, <2>2 DEF Places
<1>7. \A k \in 1..used : k - 1 \in Nat /\ k - 1 < used
  BY <1>1
<1>8. Places(TRUE) \cap Places(FALSE) = {}
  <2> SUFFICES ASSUME NEW j \in 1..used, NEW k \in 1..Size - 1 - used,
                      Plus(start, j - 1) = Plus(end, k - 1)
               PROVE  FALSE
    BY <1>5, <1>6
  <2>1. j - 1 = used + (k - 1)
    BY <1>1, <1>2, <1>4, <1>7
  <2>2. QED
    BY <1>1, <2>1
<1>9. Places(TRUE) \cup Places(FALSE) \subseteq Index \ {FreeTail}
  <2>1. \A k \in 1..used : Plus(start, k - 1) \in Index /\ Plus(start, k - 1) # FreeTail
    <3> TAKE k \in 1..used
    <3>1. k - 1 \in Nat /\ k - 1 < Size - 1 /\ k - 1 <= Size /\ Size - 1 \in Nat
      BY <1>1
    <3>2. QED
      BY <1>1, <1>4, <3>1, PlusIs
  <2>2. \A k \in 1..Size - 1 - used : Plus(end, k - 1) \in Index /\ Plus(end, k - 1) # FreeTail
    <3> TAKE k \in 1..Size - 1 - used
    <3>1. /\ used + (k - 1) \in Nat /\ used + (k - 1) < Size - 1 /\ used + (k - 1) <= Size
          /\ Size - 1 \in Nat
      BY <1>1
    <3>2. QED
      BY <1>1, <1>2, <1>4, <3>1, PlusIs
  <2>3. QED
    BY <1>5, <1>6, <2>1, <2>2
<1>10. Index \ {FreeTail} \subseteq Places(TRUE) \cup Places(FALSE)
  <2> SUFFICES ASSUME NEW i \in Index, i # FreeTail
               PROVE  i \in Places(TRUE) \/ i \in Places(FALSE)
    OBVIOUS
  <2> DEFINE j == Distance(start, i)
  <2>1. j \in Nat /\ j < Size /\ Plus(start, j) = i
    BY <1>3
  <2>2. j # Size - 1
    BY <1>1, <2>1
  <2> HIDE DEF j
  <2>3. CASE j < used
    <3>1. j + 1 \in 1..used /\ (j + 1) - 1 = j
      BY <1>1, <2>1, <2>3
    <3>2. QED
      BY <1>5, <2>1, <3>1
  <2>4. CASE j >= used
    <3>1. j - used + 1 \in 1..Size - 1 - used /\ used + ((j - used + 1) - 1) = j
      BY <1>1, <2>1, <2>2, <2>4
    <3>2. Plus(end, (j - used + 1) - 1) = i
      BY <1>2, <2>1, <3>1
    <3>3. QED
      BY <1>6, <3>1, <3>2
  <2>5. j < used \/ j >= used
    BY <1>1, <2>1
  <2>6. QED
    BY <2>3, <2>4, <2>5
<1>11. Len(Flat(data(TRUE))) = readableCap /\ Len(Flat(data(FALSE))) = writeableCap
  BY <1>1, DataAre
<1>12. writeable <=> writeableCap > 0
  BY <1>1
<1>13. QED
  BY <1>8, <1>9, <1>10, <1>11, <1>12

LEMMA SegmentsAreApart == BufferInv => SegmentsApart
<1> SUFFICES ASSUME BufferInv PROVE SegmentsApart
  OBVIOUS
<1>1. RingTypeOK
  BY DEF BufferInv, BufferTypeOK
<1>2. /\ Flat(data(TRUE)) \in Seq(Index) /\ Len(Flat(data(TRUE))) = used
      /\ \A k \in 1..used : Flat(data(TRUE))[k] = Plus(start, k - 1)
      /\ Flat(data(FALSE)) \in Seq(Index) /\ Len(Flat(data(FALSE))) = Size - 1 - used
      /\ \A k \in 1..Size - 1 - used : Flat(data(FALSE))[k] = Plus(end, k - 1)
      /\ used \in Nat /\ used < Size /\ Size \in Nat
  BY <1>1, DataAre, Capacities, SizeFacts
<1>3. DOMAIN Flat(data(TRUE)) = 1..used /\ DOMAIN Flat(data(FALSE)) = 1..Size - 1 - used
  BY <1>2, LenProperties
<1>4. ASSUME filling # "no" PROVE IsNext(freeIov, FALSE)
  <2> DEFINE l == Flat(freeIov)
  <2>1. /\ l \in Seq(Index) /\ Len(l) <= Size - 1 - used
        /\ \A k \in 1..Len(l) : l[k] = Plus(end, k - 1)
    BY <1>4 DEF BufferInv, RecvInv
  <2> HIDE DEF l
  <2>2. DOMAIN l = 1..Len(l) /\ Len(l) \in Nat
    BY <2>1, LenProperties
  <2>3. \A k \in 1..Len(l) : k \in 1..Size - 1 - used
    BY <1>2, <2>1, <2>2
  <2>4. QED
    BY <1>2, <1>3, <2>1, <2>2, <2>3 DEF IsNext, l
<1>5. ASSUME emptying PROVE IsNext(usedIov, TRUE)
  <2> DEFINE l == Flat(usedIov)
  <2>1. /\ l \in Seq(Index) /\ Len(l) <= used
        /\ \A k \in 1..Len(l) : l[k] = Plus(start, k - 1)
    BY <1>5 DEF BufferInv, SendInv
  <2> HIDE DEF l
  <2>2. DOMAIN l = 1..Len(l) /\ Len(l) \in Nat
    BY <2>1, LenProperties
  <2>3. \A k \in 1..Len(l) : k \in 1..used
    BY <1>2, <2>1, <2>2
  <2>4. QED
    BY <1>2, <1>3, <2>1, <2>2, <2>3 DEF IsNext, l
<1>6. QED
  BY <1>1, <1>4, <1>5, PlacesAreApart DEF BufferInv, SegmentsApart
-----------------------------------------------------------------------------
(* What is in the ring, when the front is taken or something is added.     *)

ContentOf(b, s, e) ==
  [k \in 1..U16(IF s <= e THEN e - s ELSE Size - s + e) |-> b[(s + k - 1) % Size]]

LEMMA ContentIs ==
  ASSUME NEW b \in [Index -> Bytes], NEW s \in Index, NEW e \in Index
  PROVE  /\ ContentOf(b, s, e) \in Seq(Bytes) /\ Len(ContentOf(b, s, e)) = Distance(s, e)
         /\ \A k \in 1..Distance(s, e) : ContentOf(b, s, e)[k] = b[Plus(s, k - 1)]
<1>1. Distance(s, e) \in Nat /\ Distance(s, e) < Size
  BY Walk
<1>2. \A k \in 1..Distance(s, e) : (s + k - 1) % Size = Plus(s, k - 1) /\ Plus(s, k - 1) \in Index
  <2> TAKE k \in 1..Distance(s, e)
  <2>1. k - 1 \in Nat /\ k - 1 <= Size /\ s + k - 1 = s + (k - 1)
    BY <1>1, SizeFacts
  <2>2. QED
    BY <2>1, PlusIs
<1>3. ContentOf(b, s, e) = [k \in 1..Distance(s, e) |-> b[Plus(s, k - 1)]]
  BY <1>2, CapacityIs DEF ContentOf
<1>4. QED
  BY <1>1, <1>2, <1>3

LEMMA TakeFront ==
  ASSUME NEW b \in [Index -> Bytes], NEW s \in Index, NEW e \in Index,
         NEW n \in Nat, n <= Distance(s, e)
  PROVE  ContentOf(b, Plus(s, n), e) = SubSeq(ContentOf(b, s, e), n + 1, Len(ContentOf(b, s, e)))
<1> DEFINE old == ContentOf(b, s, e)
           new == ContentOf(b, Plus(s, n), e)
           d == Distance(s, e)
           sub == SubSeq(old, n + 1, d)
<1>1. /\ d \in Nat /\ d < Size /\ Plus(s, n) \in Index /\ Distance(Plus(s, n), e) = d - n
      /\ \A k \in Nat : n + k <= d => Plus(Plus(s, n), k) = Plus(s, n + k)
  <2>1. /\ d \in Nat /\ d < Size /\ Distance(Plus(s, n), e) = d - n
        /\ \A k \in Nat : n + k <= d => Plus(Plus(s, n), k) = Plus(s, n + k)
    BY Walk
  <2>2. n <= Size
    BY <2>1, SizeFacts
  <2>3. QED
    BY <2>1, <2>2, PlusIs
<1>2. old \in Seq(Bytes) /\ Len(old) = d /\ \A k \in 1..d : old[k] = b[Plus(s, k - 1)]
  BY ContentIs
<1>3. /\ new \in Seq(Bytes) /\ Len(new) = d - n
      /\ \A k \in 1..d - n : new[k] = b[Plus(Plus(s, n), k - 1)]
  <2> HIDE DEF d
  <2>1. /\ new \in Seq(Bytes) /\ Len(new) = Distance(Plus(s, n), e)
        /\ \A k \in 1..Distance(Plus(s, n), e) : new[k] = b[Plus(Plus(s, n), k - 1)]
    BY <1>1, ContentIs
  <2>2. QED
    BY <1>1, <2>1
<1> HIDE DEF old, new, d
<1>4. /\ sub \in Seq(Bytes) /\ Len(sub) = d - n
      /\ \A k \in 1..d - n : sub[k] = old[n + k]
  <2>1. /\ n + 1 \in Int /\ d \in Int /\ \A i \in n + 1..d : old[i] \in Bytes
        /\ d - (n + 1) + 1 = d - n /\ (n + 1 <= d \/ d - n = 0) /\ n <= d
    BY <1>1, <1>2 DEF d
  <2>2. /\ sub \in Seq(Bytes) /\ Len(sub) = IF n + 1 <= d THEN d - (n + 1) + 1 ELSE 0
        /\ \A k \in 1..d - (n + 1) + 1 : sub[k] = old[(n + 1) + k - 1]
    BY <2>1, SubSeqProperties
  <2>3. \A k \in 1..d - n : (n + 1) + k - 1 = n + k
    BY <1>1
  <2>4. QED
    BY <2>1, <2>2, <2>3
<1>5. \A k \in 1..d - n : new[k] = sub[k]
  <2> TAKE k \in 1..d - n
  <2>1. k - 1 \in Nat /\ n + (k - 1) <= d /\ n + k \in 1..d /\ (n + k) - 1 = n + (k - 1)
    BY <1>1
  <2>2. QED
    <3>1. new[k] = b[Plus(Plus(s, n), k - 1)] /\ sub[k] = old[n + k]
      BY <1>3, <1>4
    <3>2. Plus(Plus(s, n), k - 1) = Plus(s, n + (k - 1))
      BY <1>1, <2>1
    <3>3. old[n + k] = b[Plus(s, (n + k) - 1)]
      BY <1>2, <2>1
    <3>4. QED
      BY <2>1, <3>1, <3>2, <3>3
<1>6. new = sub
  BY <1>3, <1>4, <1>5, SeqEqual
<1>7. QED
  BY <1>2, <1>6 DEF old, new

LEMMA FrontIs ==
  ASSUME NEW b \in [Index -> Bytes], NEW s \in Index, NEW e \in Index,
         NEW n \in Nat, n <= Distance(s, e)
  PROVE  LET front == [k \in 1..n |-> b[Plus(s, k - 1)]]
         IN  front \in Seq(Bytes) /\ front = SubSeq(ContentOf(b, s, e), 1, n)
<1> DEFINE g == [k \in 1..n |-> b[Plus(s, k - 1)]]
           old == ContentOf(b, s, e)
           sub == SubSeq(old, 1, n)
<1>1. Distance(s, e) \in Nat /\ Distance(s, e) < Size
  BY Walk
<1>2. /\ old \in Seq(Bytes) /\ Len(old) = Distance(s, e)
      /\ \A k \in 1..Distance(s, e) : old[k] = b[Plus(s, k - 1)] /\ old[k] \in Bytes
  BY ContentIs
<1> HIDE DEF old
<1>3. g \in Seq(Bytes) /\ Len(g) = n /\ \A k \in 1..n : g[k] = old[k]
  <2>1. \A k \in 1..n : k \in 1..Distance(s, e)
    BY <1>1
  <2>2. g = [k \in 1..n |-> old[k]] /\ \A k \in 1..n : old[k] \in Bytes
    BY <1>2, <2>1
  <2>3. g \in [1..n -> Bytes]
    BY <2>2
  <2>4. QED
    BY <2>2, <2>3
<1>4. sub \in Seq(Bytes) /\ Len(sub) = n /\ \A k \in 1..n : sub[k] = old[k]
  <2>1. 1 \in Int /\ n \in Int /\ \A i \in 1..n : old[i] \in Bytes
    BY <1>1, <1>2
  <2>2. /\ sub \in Seq(Bytes) /\ Len(sub) = IF 1 <= n THEN n - 1 + 1 ELSE 0
        /\ \A k \in 1..n - 1 + 1 : sub[k] = old[1 + k - 1]
    BY <2>1, SubSeqProperties
  <2>3. n - 1 + 1 = n /\ \A k \in 1..n : 1 + k - 1 = k
    OBVIOUS
  <2>4. QED
    BY <2>2, <2>3
<1>5. g = sub
  <2> HIDE DEF g
  <2>1. QED
    BY <1>3, <1>4, SeqEqual
<1>6. QED
  BY <1>3, <1>5 DEF old

LEMMA PutBack ==
  ASSUME NEW b \in [Index -> Bytes], NEW b2 \in [Index -> Bytes],
         NEW s \in Index, NEW e \in Index, NEW bytes \in Seq(Bytes),
         Distance(s, e) + Len(bytes) < Size,
         \A j \in 1..Len(bytes) : b2[Plus(e, j - 1)] = bytes[j],
         \A i \in Index : (\A j \in 1..Len(bytes) : i # Plus(e, j - 1)) => b2[i] = b[i]
  PROVE  ContentOf(b2, s, Plus(e, Len(bytes))) = ContentOf(b, s, e) \o bytes
<1> DEFINE old == ContentOf(b, s, e)
           new == ContentOf(b2, s, Plus(e, Len(bytes)))
           d == Distance(s, e)
           n == Len(bytes)
<1>1. /\ d \in Nat /\ d < Size /\ n \in Nat /\ d + n < Size /\ n <= Size /\ Size \in Nat
      /\ Plus(e, n) \in Index /\ Distance(s, Plus(e, n)) = d + n
  <2>1. d \in Nat /\ d < Size /\ n \in Nat /\ d + n < Size /\ Size \in Nat
    BY Walk, SizeFacts
  <2> HIDE DEF n
  <2>2. n <= Size
    BY <2>1
  <2>3. Plus(e, n) \in Index
    BY <2>1, <2>2, PlusIs
  <2>4. Distance(s, Plus(e, n)) = d + n
    BY <2>1, Walk
  <2>5. QED
    BY <2>1, <2>2, <2>3, <2>4
<1>2. old \in Seq(Bytes) /\ Len(old) = d /\ \A k \in 1..d : old[k] = b[Plus(s, k - 1)]
  BY ContentIs
<1>3. /\ new \in Seq(Bytes) /\ Len(new) = d + n
      /\ \A k \in 1..d + n : new[k] = b2[Plus(s, k - 1)]
  <2> HIDE DEF n, d
  <2>1. /\ new \in Seq(Bytes) /\ Len(new) = Distance(s, Plus(e, n))
        /\ \A k \in 1..Distance(s, Plus(e, n)) : new[k] = b2[Plus(s, k - 1)]
    BY <1>1, ContentIs DEF n
  <2>2. QED
    BY <1>1, <2>1
<1>4. \A j \in 1..n : /\ j - 1 \in Nat /\ d + (j - 1) < Size
                      /\ Plus(e, j - 1) = Plus(s, d + (j - 1))
  <2> HIDE DEF n
  <2> TAKE j \in 1..n
  <2>1. j - 1 \in Nat /\ d + (j - 1) < Size
    <3> HIDE DEF d
    <3>1. QED
      BY <1>1
  <2>2. QED
    BY <2>1, Walk
<1>5. \A j, k \in Nat : j < Size /\ k < Size /\ Plus(s, j) = Plus(s, k) => j = k
  BY Walk
<1>6. \A k \in Nat : k < Size => Plus(s, k) \in Index
  <2> TAKE k \in Nat
  <2> HAVE k < Size
  <2>1. k <= Size
    BY <1>1
  <2>2. QED
    BY <2>1, PlusIs
<1> HIDE DEF old, new, d, n
<1>7. /\ old \o bytes \in Seq(Bytes) /\ Len(old \o bytes) = d + n
      /\ \A k \in 1..d + n : (old \o bytes)[k] = IF k <= d THEN old[k] ELSE bytes[k - d]
  <2>1. /\ old \o bytes \in Seq(Bytes) /\ Len(old \o bytes) = Len(old) + Len(bytes)
        /\ \A k \in 1..Len(old) + Len(bytes) :
             (old \o bytes)[k] = IF k <= Len(old) THEN old[k] ELSE bytes[k - Len(old)]
    BY <1>2, ConcatProperties
  <2>2. QED
    BY <1>2, <2>1 DEF n
<1>8. \A k \in 1..d + n : new[k] = (old \o bytes)[k]
  <2> TAKE k \in 1..d + n
  <2>1. k \in Nat /\ k - 1 \in Nat /\ k - 1 < Size /\ (k <= d \/ k > d)
    BY <1>1
  <2>2. CASE k <= d
    <3>1. \A j \in 1..n : Plus(s, k - 1) # Plus(e, j - 1)
      <4> TAKE j \in 1..n
      <4>1. k - 1 # d + (j - 1) /\ d + (j - 1) \in Nat
        BY <1>1, <2>2
      <4>2. QED
        BY <1>4, <1>5, <2>1, <4>1
    <3>2. b2[Plus(s, k - 1)] = b[Plus(s, k - 1)]
      BY <1>6, <2>1, <3>1 DEF n
    <3>3. QED
      BY <1>1, <1>2, <1>3, <1>7, <2>2, <3>2
  <2>3. CASE k > d
    <3>1. k - d \in 1..n /\ d + ((k - d) - 1) = k - 1
      BY <1>1, <2>3
    <3>2. b2[Plus(s, k - 1)] = bytes[k - d]
      BY <1>4, <3>1 DEF n
    <3>3. QED
      <4>1. ~(k <= d)
        BY <1>1, <2>1, <2>3
      <4>2. QED
        BY <1>3, <1>7, <3>2, <4>1
  <2>4. QED
    BY <2>1, <2>2, <2>3
<1>9. new = old \o bytes
  BY <1>3, <1>7, <1>8, SeqEqual
<1>10. QED
  BY <1>9 DEF old, new, n

-----------------------------------------------------------------------------
(* The operations.                                                         *)

LEMMA AfterIs ==
  ASSUME RingTypeOK
  PROVE  /\ \A n \in Nat : n <= used => StartAfter(n) = Plus(start, n)
         /\ \A n \in Nat : n <= Size - 1 - used => EndAfter(n) = Plus(end, n)
<1>1. /\ start \in Index /\ end \in Index /\ used \in Nat /\ used < Size /\ Size \in Nat
      /\ readableCap = used /\ writeableCap = Size - 1 - used
  BY Capacities, SizeFacts
<1>2. ASSUME NEW n \in Nat, n <= used PROVE StartAfter(n) = Plus(start, n)
  <2>1. LowerOf(n, readableCap) = n
    BY <1>1, <1>2 DEF LowerOf
  <2>2. n <= Size
    BY <1>1, <1>2
  <2>3. QED
    BY <1>1, <2>1, <2>2, PlusIs DEF StartAfter
<1>3. ASSUME NEW n \in Nat, n <= Size - 1 - used PROVE EndAfter(n) = Plus(end, n)
  <2>1. LowerOf(n, writeableCap) = n
    BY <1>1, <1>3 DEF LowerOf
  <2>2. n <= Size
    BY <1>1, <1>3
  <2>3. QED
    BY <1>1, <2>1, <2>2, PlusIs DEF EndAfter
<1>4. QED
  BY <1>2, <1>3

LEMMA ContentNow ==
  ASSUME RingTypeOK
  PROVE  /\ content = ContentOf(buf, start, end) /\ content \in Seq(Bytes) /\ Len(content) = used
         /\ \A k \in 1..used : content[k] = buf[Plus(start, k - 1)]
<1>1. content = ContentOf(buf, start, end)
  BY DEF content, ContentOf, readableCap
<1>2. QED
  BY <1>1, ContentIs DEF RingTypeOK, used

\* n bytes leave at the front, and g is what the operation hands out.
LEMMA Taken ==
  ASSUME RingTypeOK, NEW n \in Nat, n <= used, start' = StartAfter(n), UNCHANGED <<buf, end>>,
         put' = <<>>, got' \in {<<>>, [k \in 1..n |-> buf[Plus(start, k - 1)]]}
  PROVE  RingTypeOK' /\ (Fifo!Take \/ Fifo!Drop) /\ used' = used - n
<1>1. /\ buf \in [Index -> Bytes] /\ start \in Index /\ end \in Index
      /\ n <= Distance(start, end) /\ n <= Size
      /\ content = ContentOf(buf, start, end) /\ Len(content) = used
  <2>1. used \in Nat /\ used < Size /\ Size \in Nat
    BY Capacities, SizeFacts
  <2>2. QED
    BY <2>1, ContentNow DEF RingTypeOK, used
<1>2. start' = Plus(start, n) /\ start' \in Index
  BY <1>1, AfterIs, PlusIs
<1>3. content' = ContentOf(buf, Plus(start, n), end)
  BY <1>2 DEF content, ContentOf, readableCap
<1>4. content' = SubSeq(content, n + 1, Len(content))
  BY <1>1, <1>3, TakeFront
<1>5. n \in 0..Len(content)
  <2>1. used \in Nat
    BY Capacities
  <2>2. QED
    BY <1>1, <2>1
<1>6. used' = used - n
  BY <1>1, <1>2, Walk DEF used
<1>7. CASE got' = <<>>
  <2>1. got' \in Seq(Bytes) /\ put' \in Seq(Bytes)
    BY <1>7
  <2>2. Fifo!Drop
    BY <1>4, <1>5, <1>7 DEF Fifo!Drop
  <2>3. QED
    BY <1>1, <1>2, <1>6, <2>1, <2>2 DEF RingTypeOK
<1>8. CASE got' = [k \in 1..n |-> buf[Plus(start, k - 1)]]
  <2>1. got' \in Seq(Bytes) /\ got' = SubSeq(content, 1, n)
    BY <1>1, <1>8, FrontIs
  <2>2. put' \in Seq(Bytes)
    OBVIOUS
  <2>3. Fifo!Take
    BY <1>4, <1>5, <2>1 DEF Fifo!Take
  <2>4. QED
    BY <1>1, <1>2, <1>6, <2>1, <2>2, <2>3 DEF RingTypeOK
<1>9. QED
  BY <1>7, <1>8

\* Some bytes are written behind the used ones.
LEMMA Added ==
  ASSUME RingTypeOK, NEW n \in Nat, NEW bytes \in [1..n -> Bytes], n <= Size - 1 - used,
         buf' \in [Index -> Bytes],
         \A j \in 1..n : buf'[Plus(end, j - 1)] = bytes[j],
         \A i \in Index : (\A j \in 1..n : i # Plus(end, j - 1)) => buf'[i] = buf[i],
         end' = Plus(end, n), UNCHANGED start, put' = bytes, got' = <<>>
  PROVE  RingTypeOK' /\ Fifo!Put /\ used' = used + n
<1>1. bytes \in Seq(Bytes) /\ Len(bytes) = n
  OBVIOUS
<1>2. /\ used \in Nat /\ used < Size /\ Size \in Nat /\ n <= Size
      /\ buf \in [Index -> Bytes] /\ start \in Index /\ end \in Index
      /\ Distance(start, end) + n < Size
  <2>1. used \in Nat /\ used < Size /\ Size \in Nat
    BY Capacities, SizeFacts
  <2>2. n <= Size /\ used + n < Size
    BY <2>1
  <2>3. QED
    BY <2>1, <2>2 DEF RingTypeOK, used
<1>3. end' \in Index
  BY <1>2, PlusIs
<1>4. RingTypeOK'
  <2>1. put' \in Seq(Bytes) /\ got' \in Seq(Bytes)
    BY <1>1
  <2>2. QED
    BY <1>2, <1>3, <2>1 DEF RingTypeOK
<1>5. content' = content \o bytes /\ Len(content) = used
  <2>1. content' = ContentOf(buf', start, Plus(end, n))
    BY DEF content, ContentOf, readableCap
  <2>2. ContentOf(buf', start, Plus(end, n)) = ContentOf(buf, start, end) \o bytes
    BY <1>1, <1>2, PutBack
  <2>3. QED
    BY <2>1, <2>2, ContentNow
<1>6. n \in 0..(Size - 1) - Len(content)
  BY <1>2, <1>5
<1>7. used' = used + n
  BY <1>2, Walk DEF used
<1>8. QED
  BY <1>4, <1>5, <1>6, <1>7 DEF Fifo!Put

\* A list has no segment, one or two, and none of them is empty.
LEMMA IovIs ==
  ASSUME NEW iov, IsIov(iov)
  PROVE  /\ Len(iov) \in {0, 1, 2}
         /\ \A j \in 1..Len(iov) :
              iov[j] \in Seq(Index) /\ Len(iov[j]) \in Nat /\ Len(iov[j]) > 0
<1>1. iov \in Seq(Seq(Index)) /\ Len(iov) <= 2 /\ \A j \in 1..Len(iov) : Len(iov[j]) > 0
  BY DEF IsIov
<1>2. Len(iov) \in Nat
  BY <1>1, LenProperties
<1>3. \A j \in 1..Len(iov) : iov[j] \in Seq(Index)
  BY <1>1
<1>4. \A j \in 1..Len(iov) : Len(iov[j]) \in Nat
  BY <1>3, LenProperties
<1>5. Len(iov) \in {0, 1, 2}
  <2> DEFINE n == Len(iov)
  <2>1. n \in Nat /\ n <= 2
    BY <1>1, <1>2
  <2> HIDE DEF n
  <2>2. n \in {0, 1, 2}
    BY <2>1
  <2>3. QED
    BY <2>2 DEF n
<1>6. QED
  BY <1>1, <1>3, <1>4, <1>5, Zenon

\* How the places of a list are counted by segments.
LEMMA BeforeIs ==
  ASSUME NEW iov, IsIov(iov)
  PROVE  /\ Len(iov) \in Nat /\ Before(iov, 0) = 0 /\ Flat(iov) \in Seq(Index)
         /\ \A j \in 0..Len(iov) : Before(iov, j) \in Nat
         /\ \A j \in 0..Len(iov) : j < Len(iov) => Before(iov, j) < Before(iov, j + 1)
         /\ \A j \in 0..Len(iov) : Before(iov, j) <= Len(Flat(iov))
<1>1. /\ Len(iov) \in {0, 1, 2}
      /\ \A j \in 1..Len(iov) :
           iov[j] \in Seq(Index) /\ Len(iov[j]) \in Nat /\ Len(iov[j]) > 0
  BY IovIs
<1>2. CASE Len(iov) = 0
  <2>1. Before(iov, 0) = 0 /\ Flat(iov) = <<>> /\ 0..Len(iov) = {0}
    BY <1>2 DEF Before, Flat
  <2>2. <<>> \in Seq(Index) /\ Len(<<>>) = 0
    OBVIOUS
  <2>3. QED
    BY <1>2, <2>1, <2>2
<1>3. CASE Len(iov) = 1
  <2>1. Len(iov[1]) \in Nat /\ Len(iov[1]) > 0 /\ iov[1] \in Seq(Index)
    BY <1>1, <1>3
  <2>2. Before(iov, 0) = 0 /\ Before(iov, 1) = Len(iov[1]) /\ Flat(iov) = iov[1]
    BY <1>3 DEF Before, Flat
  <2>3. 0..Len(iov) = {0, 1}
    BY <1>3
  <2>4. QED
    BY <1>3, <2>1, <2>2, <2>3
<1>4. CASE Len(iov) = 2
  <2>1. /\ Len(iov[1]) \in Nat /\ Len(iov[1]) > 0 /\ Len(iov[2]) \in Nat /\ Len(iov[2]) > 0
        /\ iov[1] \in Seq(Index) /\ iov[2] \in Seq(Index)
    BY <1>1, <1>4
  <2>2. /\ Before(iov, 0) = 0 /\ Before(iov, 1) = Len(iov[1])
        /\ Before(iov, 2) = Len(iov[1]) + Len(iov[2]) /\ Flat(iov) = iov[1] \o iov[2]
    BY <1>4 DEF Before, Flat
  <2>3. /\ Len(iov[1] \o iov[2]) = Len(iov[1]) + Len(iov[2])
        /\ iov[1] \o iov[2] \in Seq(Index)
    BY <2>1, ConcatProperties
  <2>4. 0..Len(iov) = {0, 1, 2}
    BY <1>4
  <2>5. QED
    BY <1>4, <2>1, <2>2, <2>3, <2>4
<1>5. QED
  BY <1>1, <1>2, <1>3, <1>4

\* A place within the list, given by segment and offset.
LEMMA CursorIn ==
  ASSUME NEW iov, IsIov(iov), NEW j \in 0..Len(iov), NEW o \in Nat,
         j < Len(iov) => o < Before(iov, j + 1) - Before(iov, j),
         j = Len(iov) => o = 0
  PROVE  Before(iov, j) + o <= Len(Flat(iov))
<1>1. Before(iov, j) \in Nat /\ Before(iov, j) <= Len(Flat(iov)) /\ Len(iov) \in Nat
  BY BeforeIs
<1>2. CASE j = Len(iov)
  BY <1>1, <1>2
<1>3. CASE j < Len(iov)
  <2>1. j + 1 \in 0..Len(iov)
    BY <1>1, <1>3
  <2>2. Before(iov, j + 1) \in Nat /\ Before(iov, j + 1) <= Len(Flat(iov))
    BY <2>1, BeforeIs
  <2>3. Flat(iov) \in Seq(Index)
    BY BeforeIs
  <2>4. Len(Flat(iov)) \in Nat
    BY <2>3, LenProperties
  <2>5. QED
    BY <1>1, <1>3, <2>2, <2>4
<1>4. QED
  BY <1>1, <1>2, <1>3

(* What is left alone of transfers that wait, and steps that move no byte   *)
(* of the ring.                                                            *)

LEMMA TypesKept ==
  ASSUME BufferTypeOK, RingTypeOK', UNCHANGED <<incoming, outgoing>>
  PROVE  BufferTypeOK'
BY DEF BufferTypeOK, incoming, outgoing

LEMMA RecvKept ==
  ASSUME BufferInv, UNCHANGED <<end, incoming>>, used' \in Nat, used' <= used,
         \A k \in 1..Size - 1 - used : buf'[Plus(end, k - 1)] = buf[Plus(end, k - 1)]
  PROVE  RecvInv'
<1>1. UNCHANGED <<filling, freeIov, came, end>>
  BY DEF incoming
<1>2. RingTypeOK /\ came \in Seq(Bytes)
  BY DEF BufferInv, BufferTypeOK
<1>3. used \in Nat /\ used < Size /\ Size \in Nat
  BY <1>2, Capacities, SizeFacts
<1>4. CASE filling = "no"
  BY <1>1, <1>4 DEF RecvInv
<1>5. CASE filling # "no"
  <2> DEFINE l == Flat(freeIov)
  <2>1. /\ l \in Seq(Index) /\ Len(l) <= Size - 1 - used
        /\ \A k \in 1..Len(l) : l[k] = Plus(end, k - 1)
        /\ Len(came) <= Len(l)
        /\ \A k \in 1..Len(came) : buf[Plus(end, k - 1)] = came[k]
    BY <1>5 DEF BufferInv, RecvInv
  <2>2. l' = l
    BY <1>1
  <2> HIDE DEF l
  <2>3. Len(l) \in Nat /\ Len(came) \in Nat
    BY <1>2, <2>1, LenProperties
  <2>4. Len(l) <= Size - 1 - used' /\ \A k \in 1..Len(came) : k \in 1..Size - 1 - used
    BY <1>3, <2>1, <2>3
  <2>5. \A k \in 1..Len(came) : buf'[Plus(end, k - 1)] = came[k]
    BY <2>1, <2>4
  <2>6. QED
    BY <1>1, <1>5, <2>1, <2>2, <2>4, <2>5 DEF RecvInv, l
<1>6. QED
  BY <1>4, <1>5

LEMMA SendKept ==
  ASSUME BufferInv, UNCHANGED <<start, outgoing>>, used' \in Nat, used <= used',
         \A k \in 1..used : buf'[Plus(start, k - 1)] = buf[Plus(start, k - 1)]
  PROVE  SendInv'
<1>1. UNCHANGED <<emptying, usedIov, tcnt, offset, sentOut, start>>
  BY DEF outgoing
<1>2. RingTypeOK
  BY DEF BufferInv, BufferTypeOK
<1>3. used \in Nat /\ used < Size /\ Size \in Nat
  BY <1>2, Capacities, SizeFacts
<1>4. CASE ~emptying
  BY <1>1, <1>4 DEF SendInv
<1>5. CASE emptying
  <2> DEFINE l == Flat(usedIov)
  <2>1. /\ l \in Seq(Index) /\ Len(l) <= used
        /\ \A k \in 1..Len(l) : l[k] = Plus(start, k - 1)
        /\ \A k \in 1..Len(sentOut) : sentOut[k] = buf[Plus(start, k - 1)]
        /\ IsIov(usedIov)
        /\ tcnt \in 0..Len(usedIov) /\ offset \in Nat
        /\ tcnt < Len(usedIov) => offset < Before(usedIov, tcnt + 1) - Before(usedIov, tcnt)
        /\ tcnt = Len(usedIov) => offset = 0
        /\ Len(sentOut) = Before(usedIov, tcnt) + offset
    BY <1>5 DEF BufferInv, SendInv
  <2>2. l' = l
    BY <1>1
  <2>3. Len(sentOut) <= Len(l)
    BY <2>1, CursorIn
  <2> HIDE DEF l
  <2>4. Len(l) \in Nat /\ Len(l) <= used'
    BY <1>3, <2>1, LenProperties
  <2>5. \A k \in 1..Len(sentOut) : k \in 1..used
    BY <1>3, <2>1, <2>3, <2>4
  <2>6. \A k \in 1..Len(sentOut) : sentOut[k] = buf'[Plus(start, k - 1)]
    BY <2>1, <2>5
  <2>7. QED
    BY <1>1, <1>5, <2>1, <2>2, <2>4, <2>6 DEF SendInv, l
<1>6. QED
  BY <1>4, <1>5

\* A step that leaves the content alone and hands out nothing.
LEMMA QuietRingStep ==
  ASSUME RingTypeOK, Nothing, content' = content
  PROVE  Fifo!Next
<1>1. content \in Seq(Bytes) /\ Len(content) \in Nat
  BY ContentNow, Capacities
<1>2. SubSeq(content, 1, Len(content)) = content
  BY <1>1, SubSeqFull
<1>3. 0 \in 0..Len(content) /\ 0 + 1 = 1
  BY <1>1
<1>4. Fifo!Drop
  BY <1>2, <1>3 DEF Fifo!Drop, Nothing
<1>5. QED
  BY <1>4 DEF Fifo!Next

LEMMA RingKept ==
  ASSUME RingTypeOK, Nothing, UNCHANGED ring
  PROVE  RingTypeOK' /\ used' = used /\ Fifo!Next
<1>1. UNCHANGED <<buf, start, end>> /\ put' = <<>> /\ got' = <<>>
  BY DEF ring, Nothing
<1>2. content' = content
  BY <1>1 DEF content, readableCap
<1>3. RingTypeOK'
  <2>1. put' \in Seq(Bytes) /\ got' \in Seq(Bytes)
    BY <1>1
  <2>2. QED
    BY <1>1, <2>1 DEF RingTypeOK
<1>4. used' = used
  BY <1>1 DEF used
<1>5. QED
  BY <1>2, <1>3, <1>4, QuietRingStep
-----------------------------------------------------------------------------
(* recv.                                                                   *)

LEMMA RecvCallStep ==
  ASSUME BufferInv, RecvCall
  PROVE  BufferInv' /\ Fifo!Next
<1>1. /\ filling' = "waiting" /\ freeIov' = data(FALSE) /\ came' = <<>>
      /\ Nothing /\ UNCHANGED ring /\ UNCHANGED outgoing
  BY DEF RecvCall
<1>2. RingTypeOK
  BY DEF BufferInv, BufferTypeOK
<1>3. RingTypeOK' /\ used' = used /\ Fifo!Next
  BY <1>1, <1>2, RingKept
<1>4. used \in Nat /\ UNCHANGED <<buf, start, end>>
  BY <1>1, <1>2, Capacities DEF ring
<1>5. SendInv'
  BY <1>1, <1>3, <1>4, SendKept
<1>6. RecvInv'
  <2> DEFINE l == Flat(freeIov')
  <2>1. /\ l \in Seq(Index) /\ Len(l) = Size - 1 - used
        /\ \A k \in 1..Size - 1 - used : l[k] = Plus(end, k - 1)
    BY <1>1, <1>2, DataAre
  <2>2. Len(came') = 0
    BY <1>1
  <2> HIDE DEF l
  <2>3. 0 <= Len(l) /\ Len(l) <= Size - 1 - used' /\ \A k \in 1..0 : FALSE
    BY <1>2, <1>3, <2>1, Capacities, SizeFacts
  <2>4. QED
    BY <1>4, <2>1, <2>2, <2>3 DEF RecvInv, l
<1>7. BufferTypeOK'
  <2>1. IsIov(data(FALSE))
    BY <1>2, DataAre
  <2>2. freeIov' \in Seq(Seq(Index)) /\ came' \in Seq(Bytes)
    <3>1. data(FALSE) \in Seq(Seq(Index))
      BY <2>1 DEF IsIov
    <3>2. came' \in Seq(Bytes)
      BY <1>1
    <3>3. QED
      BY <1>1, <3>1, <3>2, Zenon
  <2>3. QED
    BY <1>1, <1>3, <2>2 DEF BufferInv, BufferTypeOK, outgoing
<1>8. QED
  BY <1>3, <1>5, <1>6, <1>7 DEF BufferInv

\* The bytes that come are out of the way of what is in the ring.
LEMMA RecvFillsStep ==
  ASSUME BufferInv, NEW n \in Nat, NEW bytes \in [1..n -> Bytes], RecvFills(bytes)
  PROVE  BufferInv' /\ Fifo!Next
<1> DEFINE places == Flat(freeIov)
<1>0. bytes \in Seq(Bytes) /\ Len(bytes) = n
  OBVIOUS
<1>1. /\ n <= Len(places) /\ filling # "no" /\ filling' = "arrived" /\ came' = bytes
      /\ Nothing /\ UNCHANGED <<start, end, freeIov>> /\ UNCHANGED outgoing
  BY <1>0 DEF RecvFills
<1>a. buf' = [i \in Index |->
                   IF \E k \in 1..n : places[k] = i
                   THEN bytes[CHOOSE k \in 1..n : places[k] = i] ELSE buf[i]]
  BY <1>0 DEF RecvFills
<1>2. /\ places \in Seq(Index) /\ Len(places) <= Size - 1 - used
      /\ \A k \in 1..Len(places) : places[k] = Plus(end, k - 1)
  BY <1>1 DEF BufferInv, RecvInv
<1>r. RingTypeOK
  BY DEF BufferInv, BufferTypeOK
<1>3. /\ used \in Nat /\ used < Size /\ Size \in Nat /\ start \in Index /\ end \in Index
      /\ buf \in [Index -> Bytes] /\ Len(places) \in Nat
  BY <1>r, <1>2, Capacities, SizeFacts, LenProperties DEF RingTypeOK
<1>p. places' = places
  BY <1>1
<1> HIDE DEF places
<1>4. \A k \in 1..n : /\ places[k] = Plus(end, k - 1) /\ k - 1 \in Nat /\ k - 1 < Size
                      /\ Plus(end, k - 1) \in Index
                      /\ used + (k - 1) < Size /\ Plus(start, used + (k - 1)) = Plus(end, k - 1)
  <2> TAKE k \in 1..n
  <2>1. /\ k \in 1..Len(places) /\ k - 1 \in Nat /\ k - 1 < Size /\ k - 1 <= Size
        /\ used + (k - 1) < Size
    BY <1>1, <1>2, <1>3
  <2>2. Plus(start, used + (k - 1)) = Plus(end, k - 1)
    BY <1>3, <2>1, Walk DEF used
  <2>3. QED
    BY <1>2, <1>3, <2>1, <2>2, PlusIs
<1>5. \A j, k \in 1..n : places[j] = places[k] => j = k
  <2> TAKE j, k \in 1..n
  <2> HAVE places[j] = places[k]
  <2>1. j - 1 = k - 1
    BY <1>3, <1>4, Walk
  <2>2. QED
    BY <2>1
<1>6. \A j \in 1..n : buf'[Plus(end, j - 1)] = bytes[j]
  <2> TAKE j \in 1..n
  <2>1. places[j] \in Index /\ places[j] = Plus(end, j - 1)
    BY <1>4
  <2>2. (CHOOSE k \in 1..n : places[k] = places[j]) = j
    BY <1>5
  <2>3. QED
    BY <1>a, <2>1, <2>2
<1>7. \A i \in Index : (\A j \in 1..n : i # Plus(end, j - 1)) => buf'[i] = buf[i]
  BY <1>a, <1>4
<1>8. buf' \in [Index -> Bytes]
  <2> SUFFICES ASSUME NEW i \in Index PROVE buf'[i] \in Bytes
    BY <1>a
  <2>1. CASE \E k \in 1..n : places[k] = i
    <3>1. PICK k \in 1..n : places[k] = i
      BY <2>1
    <3>2. buf'[i] = bytes[k]
      BY <1>4, <1>6, <3>1
    <3>3. QED
      BY <3>2
  <2>2. CASE ~ \E k \in 1..n : places[k] = i
    BY <1>a, <1>3, <2>2
  <2>3. QED
    BY <2>1, <2>2
<1>9. \A k \in 1..used : buf'[Plus(start, k - 1)] = buf[Plus(start, k - 1)]
  <2> TAKE k \in 1..used
  <2>1. k - 1 \in Nat /\ k - 1 < used /\ k - 1 < Size /\ k - 1 <= Size
    BY <1>3
  <2>2. Plus(start, k - 1) \in Index
    BY <1>3, <2>1, PlusIs
  <2>3. \A j \in 1..n : Plus(start, k - 1) # Plus(end, j - 1)
    <3> TAKE j \in 1..n
    <3>1. /\ k - 1 # used + (j - 1) /\ used + (j - 1) \in Nat /\ used + (j - 1) < Size
          /\ j - 1 \in Nat
      BY <1>3, <1>4, <2>1
    <3>2. Plus(start, used + (j - 1)) = Plus(end, j - 1)
      BY <1>3, <3>1, Walk DEF used
    <3>3. QED
      BY <1>3, <2>1, <3>1, <3>2, Walk
  <2>4. QED
    BY <1>7, <2>2, <2>3
<1>10. content' = content
  <2>1. /\ content \in Seq(Bytes) /\ Len(content) = used
        /\ \A k \in 1..used : content[k] = buf[Plus(start, k - 1)]
    BY <1>r, ContentNow
  <2>2. content' = ContentOf(buf', start, end)
    BY <1>1 DEF content, ContentOf, readableCap
  <2>3. /\ content' \in Seq(Bytes) /\ Len(content') = used
        /\ \A k \in 1..used : content'[k] = buf'[Plus(start, k - 1)]
    BY <1>3, <1>8, <2>2, ContentIs DEF used
  <2>4. \A k \in 1..used : content'[k] = content[k]
    BY <1>9, <2>1, <2>3
  <2>5. QED
    BY <2>1, <2>3, <2>4, SeqEqual
<1>11. Fifo!Next
  BY <1>1, <1>r, <1>10, QuietRingStep
<1>12. RingTypeOK' /\ used' = used
  <2>1. put' \in Seq(Bytes) /\ got' \in Seq(Bytes)
    BY <1>1 DEF Nothing
  <2>2. used' = used
    BY <1>1 DEF used
  <2>3. QED
    BY <1>1, <1>3, <1>8, <2>1, <2>2 DEF RingTypeOK
<1>13. SendInv'
  BY <1>1, <1>3, <1>9, <1>12, SendKept
<1>14. RecvInv'
  <2>1. /\ places' \in Seq(Index) /\ Len(places') <= Size - 1 - used'
        /\ \A k \in 1..Len(places') : places'[k] = Plus(end', k - 1)
    BY <1>1, <1>2, <1>p, <1>12
  <2>2. Len(came') <= Len(places') /\ \A k \in 1..Len(came') : buf'[Plus(end', k - 1)] = came'[k]
    BY <1>0, <1>1, <1>6, <1>p
  <2>3. QED
    BY <2>1, <2>2 DEF RecvInv, places
<1>15. BufferTypeOK'
  BY <1>0, <1>1, <1>12 DEF BufferInv, BufferTypeOK, outgoing
<1>16. QED
  BY <1>11, <1>13, <1>14, <1>15 DEF BufferInv

LEMMA RecvReturnsStep ==
  ASSUME BufferInv, RecvReturns
  PROVE  BufferInv' /\ Fifo!Next
<1> DEFINE n == Len(came)
<1>1. /\ filling = "arrived" /\ end' = EndAfter(n) /\ put' = came /\ got' = <<>>
      /\ filling' = "no" /\ freeIov' = <<>> /\ came' = <<>>
      /\ UNCHANGED <<buf, start>> /\ UNCHANGED outgoing
  BY DEF RecvReturns, RecvOver
<1>2. RingTypeOK /\ came \in Seq(Bytes)
  BY DEF BufferInv, BufferTypeOK
<1>3. /\ n \in Nat /\ came \in [1..n -> Bytes] /\ n <= Size - 1 - used
      /\ \A k \in 1..n : buf[Plus(end, k - 1)] = came[k]
  <2>1. /\ Flat(freeIov) \in Seq(Index) /\ Len(Flat(freeIov)) <= Size - 1 - used
        /\ n <= Len(Flat(freeIov)) /\ \A k \in 1..n : buf[Plus(end, k - 1)] = came[k]
    BY <1>1 DEF BufferInv, RecvInv
  <2>2. n \in Nat /\ came \in [1..n -> Bytes] /\ Len(Flat(freeIov)) \in Nat
    BY <1>2, <2>1, LenProperties
  <2>3. used \in Nat /\ Size \in Nat
    BY <1>2, Capacities, SizeFacts
  <2> HIDE DEF n
  <2>4. QED
    BY <2>1, <2>2, <2>3
<1>4. end' = Plus(end, n)
  BY <1>1, <1>2, <1>3, AfterIs
<1> HIDE DEF n
<1>5. buf' \in [Index -> Bytes] /\ buf' = buf
  BY <1>1, <1>2 DEF RingTypeOK
<1>6. RingTypeOK' /\ Fifo!Put /\ used' = used + n
  BY <1>1, <1>2, <1>3, <1>4, <1>5, Added
<1>7. used \in Nat /\ used' \in Nat /\ used <= used'
  BY <1>2, <1>3, <1>6, Capacities
<1>8. SendInv'
  BY <1>1, <1>5, <1>7, SendKept
<1>9. RecvInv'
  BY <1>1 DEF RecvInv
<1>10. BufferTypeOK'
  <2>1. freeIov' \in Seq(Seq(Index)) /\ came' \in Seq(Bytes)
    BY <1>1
  <2>2. QED
    BY <1>1, <1>6, <2>1 DEF BufferInv, BufferTypeOK, outgoing
<1>11. QED
  BY <1>6, <1>8, <1>9, <1>10 DEF BufferInv, Fifo!Next

LEMMA RecvFailsStep ==
  ASSUME BufferInv, RecvFails
  PROVE  BufferInv' /\ Fifo!Next
<1>1. /\ filling' = "no" /\ freeIov' = <<>> /\ came' = <<>>
      /\ Nothing /\ UNCHANGED ring /\ UNCHANGED outgoing
  BY DEF RecvFails, RecvOver
<1>2. RingTypeOK
  BY DEF BufferInv, BufferTypeOK
<1>3. RingTypeOK' /\ used' = used /\ Fifo!Next /\ used \in Nat /\ UNCHANGED <<buf, start>>
  BY <1>1, <1>2, RingKept, Capacities DEF ring
<1>4. SendInv'
  BY <1>1, <1>3, SendKept
<1>5. RecvInv'
  BY <1>1 DEF RecvInv
<1>6. BufferTypeOK'
  <2>1. freeIov' \in Seq(Seq(Index)) /\ came' \in Seq(Bytes)
    BY <1>1
  <2>2. QED
    BY <1>1, <1>3, <2>1 DEF BufferInv, BufferTypeOK, outgoing
<1>7. QED
  BY <1>3, <1>4, <1>5, <1>6 DEF BufferInv
-----------------------------------------------------------------------------
(* send.                                                                   *)

LEMMA SendCallStep ==
  ASSUME BufferInv, SendCall
  PROVE  BufferInv' /\ Fifo!Next
<1>1. /\ emptying' = TRUE /\ usedIov' = data(TRUE) /\ tcnt' = 0 /\ offset' = 0 /\ sentOut' = <<>>
      /\ Nothing /\ UNCHANGED ring /\ UNCHANGED incoming
  BY DEF SendCall
<1>2. RingTypeOK
  BY DEF BufferInv, BufferTypeOK
<1>3. RingTypeOK' /\ used' = used /\ Fifo!Next /\ used \in Nat /\ UNCHANGED <<buf, start, end>>
  BY <1>1, <1>2, RingKept, Capacities DEF ring
<1>4. RecvInv'
  BY <1>1, <1>3, RecvKept
<1>5. SendInv'
  <2> DEFINE l == Flat(usedIov')
  <2>1. /\ l \in Seq(Index) /\ Len(l) = used
        /\ \A k \in 1..used : l[k] = Plus(start, k - 1)
        /\ IsIov(usedIov')
    BY <1>1, <1>2, DataAre
  <2>2. Len(usedIov') \in Nat /\ Before(usedIov', 0) = 0
    BY <2>1 DEF IsIov, Before
  <2>3. 0 < Len(usedIov') => 0 < Before(usedIov', 0 + 1) - Before(usedIov', 0)
    BY <2>1, BeforeIs
  <2>4. Len(sentOut') = 0 /\ \A k \in 1..0 : FALSE
    BY <1>1
  <2>5. tcnt' = 0 /\ offset' = 0
    BY <1>1
  <2>6. Len(sentOut') = Before(usedIov', tcnt') + offset'
    BY <2>2, <2>4, <2>5
  <2>7. tcnt' < Len(usedIov') => offset' < Before(usedIov', tcnt' + 1) - Before(usedIov', tcnt')
    BY <2>3, <2>5
  <2>8. tcnt' \in 0..Len(usedIov') /\ offset' \in Nat
    BY <2>2, <2>5
  <2>9. Len(l) <= used' /\ \A k \in 1..Len(l) : l[k] = Plus(start', k - 1)
    BY <1>3, <2>1
  <2>10. \A k \in 1..Len(sentOut') : sentOut'[k] = buf'[Plus(start', k - 1)]
    BY <2>4
  <2>11. QED
    BY <2>1, <2>5, <2>6, <2>7, <2>8, <2>9, <2>10 DEF SendInv
<1>6. BufferTypeOK'
  <2>1. usedIov' \in Seq(Seq(Index)) /\ sentOut' \in Seq(Bytes)
    <3>1. IsIov(data(TRUE))
      BY <1>2, DataAre
    <3>2. data(TRUE) \in Seq(Seq(Index))
      BY <3>1 DEF IsIov
    <3>3. sentOut' \in Seq(Bytes)
      BY <1>1
    <3>4. QED
      BY <1>1, <3>2, <3>3, Zenon
  <2>2. tcnt' \in 0..2 /\ offset' \in 0..Size
    BY <1>1, SizeFacts
  <2>3. QED
    BY <1>1, <1>3, <2>1, <2>2 DEF BufferInv, BufferTypeOK, incoming
<1>7. QED
  BY <1>3, <1>4, <1>5, <1>6 DEF BufferInv

\* The offset after a round that went from before y places to before x.
LEMMA CursorMoves ==
  ASSUME NEW x \in Nat, NEW y \in Nat, NEW o \in Nat, NEW n \in Nat, x - y - o <= n
  PROVE  /\ n - (x - y - o) \in Nat /\ x + (n - (x - y - o)) = y + o + n
         /\ \A z \in Nat : n < z - y - o => n - (x - y - o) < z - x
         /\ n <= x - y - o => n - (x - y - o) = 0
OBVIOUS

\* A round of writev() goes on where the last one stopped, in whichever segment.
LEMMA SendRoundStep ==
  ASSUME BufferInv, NEW n \in Nat, SendRound(n)
  PROVE  BufferInv' /\ Fifo!Next
<1> DEFINE l == Flat(usedIov)
           rest == Len(usedIov) - tcnt
           sent == Before(usedIov, tcnt) + offset
<1>1. /\ emptying /\ rest > 0 /\ n \in 1..Left(rest)
      /\ sentOut' = sentOut \o [i \in 1..n |-> buf[l[sent + i]]]
      /\ Nothing /\ UNCHANGED ring /\ UNCHANGED incoming /\ UNCHANGED <<emptying, usedIov>>
  BY DEF SendRound
<1>2. PICK k \in 0..rest : /\ Left(k) <= n /\ (k < rest => n < Left(k + 1))
                           /\ tcnt' = tcnt + k /\ offset' = NextOffset(k, n)
  BY DEF SendRound
<1>3. RingTypeOK /\ sentOut \in Seq(Bytes)
  BY DEF BufferInv, BufferTypeOK
<1>4. /\ l \in Seq(Index) /\ Len(l) <= used
      /\ \A j \in 1..Len(l) : l[j] = Plus(start, j - 1)
      /\ \A j \in 1..Len(sentOut) : sentOut[j] = buf[Plus(start, j - 1)]
      /\ IsIov(usedIov)
      /\ tcnt \in 0..Len(usedIov) /\ offset \in Nat
      /\ tcnt < Len(usedIov) => offset < Before(usedIov, tcnt + 1) - Before(usedIov, tcnt)
      /\ Len(sentOut) = sent
  BY <1>1 DEF BufferInv, SendInv
<1>5. RingTypeOK' /\ used' = used /\ Fifo!Next /\ used \in Nat /\ UNCHANGED <<buf, start, end>>
      /\ used < Size /\ Size \in Nat /\ buf \in [Index -> Bytes] /\ start \in Index
  BY <1>1, <1>3, RingKept, Capacities, SizeFacts DEF ring, RingTypeOK
<1>6. RecvInv'
  BY <1>1, <1>5, RecvKept
\* The place in the list that tcnt and offset mean moves by n.
<1>7. /\ tcnt' \in 0..Len(usedIov) /\ offset' \in Nat
      /\ tcnt' < Len(usedIov) => offset' < Before(usedIov, tcnt' + 1) - Before(usedIov, tcnt')
      /\ tcnt' = Len(usedIov) => offset' = 0
      /\ Before(usedIov, tcnt') + offset' = sent + n
  <2> DEFINE B(j) == Before(usedIov, j)
             m == Len(usedIov)
  <2>1. /\ m \in Nat /\ B(0) = 0
        /\ \A j \in 0..m : B(j) \in Nat
    BY <1>4, BeforeIs
  <2>2. tcnt \in Nat /\ tcnt <= m /\ k \in Nat /\ tcnt + k <= m /\ k <= m - tcnt /\ m - tcnt > 0
    BY <1>1, <1>2, <1>4, <2>1
  <2>3. /\ tcnt \in 0..m /\ tcnt + k \in 0..m /\ (k < m - tcnt => tcnt + (k + 1) \in 0..m /\ k + 1 # 0)
    BY <2>1, <2>2
  <2>4. /\ B(tcnt) \in Nat /\ B(tcnt + k) \in Nat /\ B(m) \in Nat
        /\ (k < m - tcnt => B(tcnt + (k + 1)) \in Nat)
    BY <2>1, <2>2, <2>3
  <2>5. n <= B(m) - B(tcnt) - offset
    <3>1. tcnt + (m - tcnt) = m
      BY <2>1, <2>2
    <3>2. Left(m - tcnt) = B(m) - B(tcnt) - offset
      <4>1. m - tcnt # 0
        BY <2>2
      <4>2. Left(m - tcnt) = B(tcnt + (m - tcnt)) - B(tcnt) - offset
        BY <4>1 DEF Left
      <4>3. QED
        BY <3>1, <4>2
    <3>3. n <= Left(m - tcnt)
      BY <1>1
    <3>4. QED
      BY <3>2, <3>3
  <2>6. k < m - tcnt => n < B(tcnt + (k + 1)) - B(tcnt) - offset
    BY <1>2, <2>3 DEF Left
  <2>7. CASE k = 0
    <3>1. tcnt' = tcnt /\ offset' = offset + n
      BY <1>2, <2>2, <2>7 DEF NextOffset
    <3>2. n < B(tcnt + 1) - B(tcnt) - offset /\ B(tcnt + 1) \in Nat
      BY <2>2, <2>4, <2>6, <2>7
    <3> HIDE DEF B, m
    <3>3. offset' < B(tcnt' + 1) - B(tcnt') /\ B(tcnt') + offset' = B(tcnt) + offset + n
      BY <1>4, <2>4, <3>1, <3>2
    <3>4. tcnt' \in 0..m /\ tcnt' # m /\ offset' \in Nat
      BY <1>4, <2>2, <2>3, <3>1
    <3>5. QED
      BY <3>3, <3>4 DEF B, m
  <2>8. CASE k # 0
    <3>1. tcnt' = tcnt + k /\ Left(k) = B(tcnt + k) - B(tcnt) - offset /\ offset' = n - Left(k)
      BY <1>2, <2>8 DEF NextOffset, Left
    <3>2. Left(k) <= n
      BY <1>2
    <3> HIDE DEF B, m
    <3>a. /\ offset \in Nat /\ B(tcnt) \in Nat /\ B(tcnt + k) \in Nat /\ B(m) \in Nat
          /\ B(tcnt') = B(tcnt + k) /\ offset' = n - (B(tcnt + k) - B(tcnt) - offset)
          /\ B(tcnt + k) - B(tcnt) - offset <= n
      BY <1>4, <2>4, <3>1, <3>2
    <3>3. offset' \in Nat /\ B(tcnt') + offset' = B(tcnt) + offset + n
      BY <3>a, CursorMoves
    <3>4. tcnt' < m => offset' < B(tcnt' + 1) - B(tcnt')
      <4> HAVE tcnt' < m
      <4>1. k < m - tcnt /\ tcnt' + 1 = tcnt + (k + 1)
        BY <2>1, <2>2, <3>1
      <4>2. B(tcnt' + 1) \in Nat /\ n < B(tcnt' + 1) - B(tcnt) - offset
        BY <2>4, <2>6, <4>1
      <4>3. QED
        BY <3>a, <4>2, CursorMoves
    <3>5. tcnt' = m => offset' = 0
      <4> HAVE tcnt' = m
      <4>1. B(tcnt + k) = B(m)
        BY <3>1
      <4>2. QED
        BY <2>5, <3>3, <3>a, <4>1, CursorMoves
    <3>6. tcnt' \in 0..m
      BY <2>3, <3>1
    <3>7. QED
      BY <3>3, <3>4, <3>5, <3>6 DEF B, m
  <2>9. QED
    BY <2>7, <2>8
<1>8. sent \in Nat /\ sent + n <= Len(l) /\ Len(l) \in Nat
  <2>1. Before(usedIov, tcnt) \in Nat /\ sent \in Nat
    BY <1>4, BeforeIs
  <2>2. Before(usedIov, tcnt') + offset' <= Len(l)
    BY <1>4, <1>7, CursorIn
  <2>3. QED
    BY <1>4, <1>7, <2>1, <2>2, LenProperties
<1> HIDE DEF l, sent, rest
<1>9. DEFINE new == [i \in 1..n |-> buf[l[sent + i]]]
<1>10. /\ new \in Seq(Bytes) /\ Len(new) = n
       /\ \A i \in 1..n : new[i] = buf[Plus(start, (sent + i) - 1)]
  <2>1. \A i \in 1..n : sent + i \in 1..Len(l)
    BY <1>8
  <2>2. \A i \in 1..n : l[sent + i] \in Index /\ l[sent + i] = Plus(start, (sent + i) - 1)
    BY <1>4, <2>1
  <2>3. new \in [1..n -> Bytes]
    BY <1>5, <2>2
  <2>4. QED
    BY <2>2, <2>3
<1>11. /\ sentOut' \in Seq(Bytes) /\ Len(sentOut') = sent + n
       /\ \A j \in 1..sent + n : sentOut'[j] = IF j <= sent THEN sentOut[j] ELSE new[j - sent]
  <2>1. sentOut' = sentOut \o new
    BY <1>1
  <2> HIDE DEF new
  <2>2. /\ sentOut \o new \in Seq(Bytes) /\ Len(sentOut \o new) = Len(sentOut) + Len(new)
        /\ \A j \in 1..Len(sentOut) + Len(new) :
             (sentOut \o new)[j] = IF j <= Len(sentOut) THEN sentOut[j] ELSE new[j - Len(sentOut)]
    BY <1>3, <1>10, ConcatProperties
  <2>3. QED
    BY <1>4, <1>10, <2>1, <2>2
<1>12. \A j \in 1..Len(sentOut') : sentOut'[j] = buf[Plus(start, j - 1)]
  <2> HIDE DEF new
  <2> SUFFICES ASSUME NEW j \in 1..sent + n PROVE sentOut'[j] = buf[Plus(start, j - 1)]
    BY <1>11
  <2>1. CASE j <= sent
    <3>1. j \in 1..Len(sentOut)
      BY <1>4, <1>8, <2>1
    <3>2. QED
      BY <1>4, <1>11, <2>1, <3>1
  <2>2. CASE ~(j <= sent)
    <3>1. j - sent \in 1..n /\ sent + (j - sent) = j
      BY <1>8, <2>2
    <3>2. QED
      BY <1>10, <1>11, <2>2, <3>1
  <2>3. QED
    BY <2>1, <2>2
<1>13. SendInv'
  <2>1. l' = l /\ usedIov' = usedIov
    BY <1>1 DEF l
  <2>2. Len(sentOut') = Before(usedIov, tcnt') + offset'
    BY <1>7, <1>11 DEF sent
  <2>3. QED
    BY <1>4, <1>5, <1>7, <1>12, <2>1, <2>2 DEF SendInv, l
<1>14. BufferTypeOK'
  <2>1. tcnt' \in 0..2
    BY <1>4, <1>7 DEF IsIov
  <2>2. offset' \in 0..Size
    <3>1. Before(usedIov, tcnt') \in Nat
      BY <1>4, <1>7, BeforeIs
    <3>2. offset' <= sent + n
      BY <1>7, <1>8, <3>1 DEF sent
    <3>3. QED
      BY <1>4, <1>5, <1>7, <1>8, <3>2
  <2>3. QED
    BY <1>1, <1>5, <1>11, <2>1, <2>2 DEF BufferInv, BufferTypeOK, incoming
<1>15. QED
  BY <1>5, <1>6, <1>13, <1>14 DEF BufferInv

LEMMA SendReturnsStep ==
  ASSUME BufferInv, SendReturns
  PROVE  BufferInv' /\ Fifo!Next
<1> DEFINE n == Len(sentOut)
<1>1. /\ emptying /\ put' = <<>> /\ got' = sentOut /\ start' = StartAfter(n)
      /\ emptying' = FALSE /\ usedIov' = <<>> /\ tcnt' = 0 /\ offset' = 0 /\ sentOut' = <<>>
      /\ UNCHANGED <<buf, end>> /\ UNCHANGED incoming
  BY DEF SendReturns, SendOver
<1>2. RingTypeOK /\ sentOut \in Seq(Bytes)
  BY DEF BufferInv, BufferTypeOK
<1>3. n \in Nat /\ n <= used /\ \A k \in 1..n : sentOut[k] = buf[Plus(start, k - 1)]
  <2>1. /\ IsIov(usedIov) /\ tcnt \in 0..Len(usedIov) /\ offset \in Nat
        /\ tcnt < Len(usedIov) => offset < Before(usedIov, tcnt + 1) - Before(usedIov, tcnt)
        /\ tcnt = Len(usedIov) => offset = 0
        /\ n = Before(usedIov, tcnt) + offset
        /\ Flat(usedIov) \in Seq(Index) /\ Len(Flat(usedIov)) <= used
        /\ \A k \in 1..n : sentOut[k] = buf[Plus(start, k - 1)]
    BY <1>1 DEF BufferInv, SendInv
  <2>2. n <= Len(Flat(usedIov))
    BY <2>1, CursorIn
  <2>3. n \in Nat /\ Len(Flat(usedIov)) \in Nat /\ used \in Nat
    BY <1>2, <2>1, LenProperties, Capacities
  <2> HIDE DEF n
  <2>4. QED
    BY <2>1, <2>2, <2>3
<1>4. got' = [k \in 1..n |-> buf[Plus(start, k - 1)]]
  BY <1>1, <1>2, <1>3
<1> HIDE DEF n
<1>5. RingTypeOK' /\ (Fifo!Take \/ Fifo!Drop) /\ used' = used - n
  BY <1>1, <1>2, <1>3, <1>4, Taken
<1>6. used \in Nat /\ used' \in Nat /\ used' <= used
  BY <1>2, <1>3, <1>5, Capacities
<1>7. RecvInv'
  BY <1>1, <1>6, RecvKept
<1>8. SendInv'
  BY <1>1 DEF SendInv
<1>9. BufferTypeOK'
  <2>1. usedIov' \in Seq(Seq(Index)) /\ sentOut' \in Seq(Bytes) /\ tcnt' \in 0..2 /\ offset' \in 0..Size
    BY <1>1, SizeFacts
  <2>2. QED
    BY <1>1, <1>5, <2>1 DEF BufferInv, BufferTypeOK, incoming
<1>10. QED
  BY <1>5, <1>7, <1>8, <1>9 DEF BufferInv, Fifo!Next

LEMMA SendFailsStep ==
  ASSUME BufferInv, SendFails
  PROVE  BufferInv' /\ Fifo!Next
<1>1. /\ emptying' = FALSE /\ usedIov' = <<>> /\ tcnt' = 0 /\ offset' = 0 /\ sentOut' = <<>>
      /\ Nothing /\ UNCHANGED ring /\ UNCHANGED incoming
  BY DEF SendFails, SendOver
<1>2. RingTypeOK
  BY DEF BufferInv, BufferTypeOK
<1>3. RingTypeOK' /\ used' = used /\ Fifo!Next /\ used \in Nat /\ UNCHANGED <<buf, end>>
  BY <1>1, <1>2, RingKept, Capacities DEF ring
<1>4. RecvInv'
  BY <1>1, <1>3, RecvKept
<1>5. SendInv'
  BY <1>1 DEF SendInv
<1>6. BufferTypeOK'
  <2>1. usedIov' \in Seq(Seq(Index)) /\ sentOut' \in Seq(Bytes) /\ tcnt' \in 0..2 /\ offset' \in 0..Size
    BY <1>1, SizeFacts
  <2>2. QED
    BY <1>1, <1>3, <2>1 DEF BufferInv, BufferTypeOK, incoming
<1>7. QED
  BY <1>3, <1>4, <1>5, <1>6 DEF BufferInv
-----------------------------------------------------------------------------
(* The operations that do not wait.                                        *)

LEMMA InsertChStep ==
  ASSUME BufferInv, NEW ch \in Bytes, insertCh(ch)
  PROVE  BufferInv' /\ Fifo!Next
<1>r. RingTypeOK
  BY DEF BufferInv, BufferTypeOK
<1>1. /\ buf' = [buf EXCEPT ![end] = ch] /\ end' = U16((end + 1) % Size)
      /\ put' = <<ch>> /\ got' = <<>> /\ UNCHANGED start /\ writeable
      /\ filling = "no" /\ UNCHANGED incoming /\ UNCHANGED outgoing
  BY DEF insertCh
<1>2. /\ end \in Index /\ used \in Nat /\ used < Size - 1 /\ Size \in Nat
      /\ buf \in [Index -> Bytes]
  BY <1>1, <1>r, Capacities, SizeFacts DEF RingTypeOK
<1>3. end' = Plus(end, 1) /\ Plus(end, 0) = end
  <2>1. 1 <= Size /\ 0 <= Size /\ end + 0 = end /\ end < Size /\ end \in Nat
    BY <1>2, SizeFacts
  <2>2. QED
    BY <1>1, <1>2, <2>1, PlusIs DEF Plus
<1>4. <<ch>> \in [1..1 -> Bytes] /\ <<ch>>[1] = ch
  OBVIOUS
<1>5. \A j \in 1..1 : j = 1 /\ j - 1 = 0
  OBVIOUS
<1>6. /\ buf' \in [Index -> Bytes] /\ \A j \in 1..1 : buf'[Plus(end, j - 1)] = <<ch>>[j]
      /\ \A i \in Index : (\A j \in 1..1 : i # Plus(end, j - 1)) => buf'[i] = buf[i]
  BY <1>1, <1>2, <1>3, <1>4, <1>5
<1>7. 1 <= Size - 1 - used
  BY <1>2
<1>8. RingTypeOK' /\ Fifo!Put /\ used' = used + 1
  BY <1>1, <1>r, <1>3, <1>4, <1>6, <1>7, Added
<1>9. \A k \in 1..used : buf'[Plus(start, k - 1)] = buf[Plus(start, k - 1)]
  <2> TAKE k \in 1..used
  <2>1. /\ k - 1 \in Nat /\ k - 1 < Size /\ k - 1 # used /\ used < Size /\ start \in Index
        /\ k - 1 <= Size
    BY <1>2, <1>r DEF RingTypeOK
  <2>2. Plus(start, used) = end /\ Plus(start, k - 1) \in Index
    BY <1>2, <2>1, Walk, PlusIs DEF used
  <2>3. Plus(start, k - 1) # end
    BY <1>2, <2>1, <2>2, Walk
  <2>4. QED
    BY <1>1, <1>2, <2>2, <2>3
<1>10. used' \in Nat /\ used <= used'
  BY <1>2, <1>8
<1>11. SendInv'
  BY <1>1, <1>9, <1>10, SendKept
<1>12. RecvInv'
  BY <1>1 DEF RecvInv, incoming
<1>13. BufferTypeOK'
  BY <1>1, <1>8, TypesKept DEF BufferInv
<1>14. QED
  BY <1>8, <1>11, <1>12, <1>13 DEF BufferInv, Fifo!Next

\* Whoever takes bytes while nobody sends leaves a recv() under way alone.
LEMMA EmptierKeeps ==
  ASSUME BufferInv, ~emptying, UNCHANGED <<buf, end, incoming, outgoing>>,
         NEW n \in Nat, n <= used, start' = StartAfter(n),
         put' = <<>>, got' \in {<<>>, [k \in 1..n |-> buf[Plus(start, k - 1)]]}
  PROVE  BufferInv' /\ Fifo!Next
<1>1. RingTypeOK /\ UNCHANGED <<buf, end>> /\ UNCHANGED incoming /\ UNCHANGED outgoing
  BY DEF BufferInv, BufferTypeOK
<1>2. RingTypeOK' /\ (Fifo!Take \/ Fifo!Drop) /\ used' = used - n
  BY <1>1, Taken
<1>3. used \in Nat /\ used' \in Nat /\ used' <= used
  BY <1>1, <1>2, Capacities
<1>4. RecvInv'
  BY <1>1, <1>3, RecvKept
<1>5. SendInv'
  BY <1>1 DEF SendInv, outgoing
<1>6. BufferTypeOK'
  BY <1>1, <1>2, TypesKept DEF BufferInv
<1>7. QED
  BY <1>2, <1>4, <1>5, <1>6 DEF BufferInv, Fifo!Next

LEMMA RetriveStrStep ==
  ASSUME BufferInv, NEW n \in Nat, retriveStr(n)
  PROVE  BufferInv' /\ Fifo!Next
<1>r. RingTypeOK
  BY DEF BufferInv, BufferTypeOK
<1> DEFINE len == LowerOf(n, Len(Flat(data(TRUE))))
<1>1. /\ put' = <<>> /\ start' = StartAfter(len) /\ UNCHANGED <<buf, end, incoming, outgoing>> /\ ~emptying
      /\ got' = [k \in 1..len |-> buf[Flat(data(TRUE))[k]]]
  BY DEF retriveStr
<1>2. used \in Nat /\ Len(Flat(data(TRUE))) = used
  BY <1>r, DataAre, Capacities
<1>a. \A k \in 1..used : Flat(data(TRUE))[k] = Plus(start, k - 1)
  BY <1>r, DataAre
<1>3. len \in Nat /\ len <= used
  <2>1. len = LowerOf(n, used)
    BY <1>2
  <2> HIDE DEF len
  <2>2. QED
    BY <1>2, <2>1 DEF LowerOf
<1> HIDE DEF len
<1>4. \A k \in 1..len : k \in 1..used
  BY <1>2, <1>3
<1>5. got' = [k \in 1..len |-> buf[Plus(start, k - 1)]]
  BY <1>1, <1>a, <1>4
<1>6. QED
  BY <1>1, <1>3, <1>5, EmptierKeeps

LEMMA RetriveRawStep ==
  ASSUME BufferInv, NEW n \in Nat, retriveRaw(n)
  PROVE  BufferInv' /\ Fifo!Next
<1>r. RingTypeOK
  BY DEF BufferInv, BufferTypeOK
<1>1. /\ n <= readableCap /\ put' = <<>> /\ start' = StartAfter(n) /\ UNCHANGED <<buf, end, incoming, outgoing>> /\ ~emptying
      /\ got' = [k \in 1..n |-> buf[(start + k - 1) % Size]]
  BY DEF retriveRaw
<1>2. /\ start \in Index /\ start \in Nat /\ used \in Nat /\ readableCap = used
      /\ used < Size /\ Size \in Nat
  BY <1>r, Capacities, SizeFacts
<1>3. \A k \in 1..n : (start + k - 1) % Size = Plus(start, k - 1)
  <2> TAKE k \in 1..n
  <2>1. k - 1 \in Nat /\ k - 1 <= Size /\ start + k - 1 = start + (k - 1)
    BY <1>1, <1>2
  <2>2. QED
    BY <1>2, <2>1, PlusIs
<1>4. n <= used /\ got' = [k \in 1..n |-> buf[Plus(start, k - 1)]]
  BY <1>1, <1>2, <1>3
<1>5. QED
  BY <1>1, <1>4, EmptierKeeps

LEMMA ClearNStep ==
  ASSUME BufferInv, NEW n \in Nat, clearN(n)
  PROVE  BufferInv' /\ Fifo!Next
<1>r. RingTypeOK
  BY DEF BufferInv, BufferTypeOK
<1> DEFINE len == LowerOf(n, readableCap)
<1>1. /\ put' = <<>> /\ got' = <<>> /\ start' = StartAfter(n) /\ UNCHANGED <<buf, end, incoming, outgoing>> /\ ~emptying
  BY DEF clearN, Nothing
<1>2. used \in Nat /\ readableCap = used
  BY <1>r, Capacities
<1>3. len \in Nat /\ len <= used /\ LowerOf(len, readableCap) = len
  BY <1>2 DEF LowerOf
<1>4. StartAfter(n) = StartAfter(len)
  BY <1>3 DEF StartAfter
<1>5. QED
  BY <1>1, <1>3, <1>4, EmptierKeeps

LEMMA ClearStep ==
  ASSUME BufferInv, clear
  PROVE  BufferInv' /\ Fifo!Next
<1>r. RingTypeOK
  BY DEF BufferInv, BufferTypeOK
<1>1. /\ start' = 0 /\ end' = 0 /\ put' = <<>> /\ got' = <<>> /\ UNCHANGED buf
      /\ filling = "no" /\ ~emptying /\ UNCHANGED incoming /\ UNCHANGED outgoing
  BY DEF clear, Nothing
<1>2. /\ 0 \in Index /\ used \in Nat /\ buf \in [Index -> Bytes] /\ Distance(0, 0) = 0
  BY <1>r, Capacities, SizeFacts DEF RingTypeOK, Distance
<1>3. RingTypeOK'
  <2>1. put' \in Seq(Bytes) /\ got' \in Seq(Bytes)
    BY <1>1
  <2>2. QED
    BY <1>1, <1>2, <2>1 DEF RingTypeOK
<1>4. content \in Seq(Bytes) /\ Len(content) = used
  BY <1>r, ContentNow
<1>5. content' = <<>>
  <2>1. content' = ContentOf(buf, 0, 0)
    BY <1>1 DEF content, ContentOf, readableCap
  <2>2. content' \in Seq(Bytes) /\ Len(content') = 0
    BY <1>2, <2>1, ContentIs
  <2>3. QED
    BY <2>2, EmptySeq
<1>6. SubSeq(content, Len(content) + 1, Len(content)) = <<>>
  <2>1. used + 1 \in Int /\ used \in Int /\ used < used + 1
    BY <1>2
  <2>2. QED
    BY <1>4, <2>1, SubSeqEmpty
<1>7. Fifo!Drop
  <2>1. Len(content) \in 0..Len(content)
    BY <1>2, <1>4
  <2>2. QED
    BY <1>1, <1>5, <1>6, <2>1 DEF Fifo!Drop
<1>8. RecvInv' /\ SendInv'
  BY <1>1 DEF RecvInv, SendInv, incoming, outgoing
<1>9. BufferTypeOK'
  BY <1>1, <1>3, TypesKept DEF BufferInv
<1>10. QED
  BY <1>3, <1>7, <1>8, <1>9 DEF BufferInv, Fifo!Next

LEMMA AtStep ==
  ASSUME BufferInv, NEW i \in Nat, At(i)
  PROVE  BufferInv' /\ Fifo!Next
<1>r. RingTypeOK
  BY DEF BufferInv, BufferTypeOK
<1>1. /\ i < readableCap /\ put' = <<>> /\ got' = <<buf[(start + i) % Size]>>
      /\ UNCHANGED <<buf, start, end>> /\ UNCHANGED incoming /\ UNCHANGED outgoing
  BY DEF At, ring
<1>2. /\ start \in Index /\ used \in Nat /\ readableCap = used /\ used < Size /\ Size \in Nat
      /\ buf \in [Index -> Bytes]
  BY <1>r, Capacities, SizeFacts DEF RingTypeOK
<1>3. (start + i) % Size = Plus(start, i) /\ Plus(start, i) \in Index
  <2>1. i <= Size
    BY <1>1, <1>2
  <2>2. QED
    BY <1>2, <2>1, PlusIs
<1>4. /\ content \in Seq(Bytes) /\ Len(content) = used
      /\ \A k \in 1..used : content[k] = buf[Plus(start, k - 1)]
  BY <1>r, ContentNow
<1>5. i + 1 \in 1..used /\ (i + 1) - 1 = i
  BY <1>1, <1>2
<1>6. got' = <<content[i + 1]>> /\ i + 1 \in DOMAIN content
  <2>1. DOMAIN content = 1..used
    BY <1>4, LenProperties
  <2>2. QED
    BY <1>1, <1>3, <1>4, <1>5, <2>1
<1>7. content' = content
  BY <1>1 DEF content, readableCap
<1>8. RingTypeOK'
  <2>1. got' \in Seq(Bytes) /\ put' \in Seq(Bytes)
    BY <1>1, <1>2, <1>3
  <2>2. QED
    BY <1>r, <1>1, <2>1 DEF RingTypeOK
<1>9. Fifo!Look
  BY <1>1, <1>6, <1>7 DEF Fifo!Look
<1>10. used' = used
  BY <1>1 DEF used
<1>11. RecvInv'
  BY <1>1, <1>2, <1>10, RecvKept
<1>12. SendInv'
  BY <1>1, <1>2, <1>10, SendKept
<1>13. BufferTypeOK'
  BY <1>1, <1>8, TypesKept DEF BufferInv
<1>14. QED
  BY <1>9, <1>11, <1>12, <1>13 DEF BufferInv, Fifo!Next
-----------------------------------------------------------------------------
LEMMA BufferNextStep == BufferInv /\ [BufferNext]_bufferVars => BufferInv' /\ [Fifo!Next]_(Fifo!vars)
<1> SUFFICES ASSUME BufferInv, [BufferNext]_bufferVars PROVE BufferInv' /\ [Fifo!Next]_(Fifo!vars)
  OBVIOUS
<1>1. CASE UNCHANGED bufferVars
  <2>1. /\ UNCHANGED <<buf, start, end, put, got, filling, freeIov, came>>
        /\ UNCHANGED <<emptying, usedIov, tcnt, offset, sentOut>>
    BY <1>1 DEF bufferVars, ring, incoming, outgoing
  <2>2. UNCHANGED Fifo!vars /\ used' = used
    BY <2>1 DEF Fifo!vars, content, readableCap, used
  <2>3. BufferTypeOK' /\ RecvInv' /\ SendInv'
    BY <2>1, <2>2 DEF BufferInv, BufferTypeOK, RingTypeOK, RecvInv, SendInv
  <2>4. QED
    BY <2>2, <2>3 DEF BufferInv
<1>2. CASE RecvCall \/ RecvReturns \/ RecvFails
  BY <1>2, RecvCallStep, RecvReturnsStep, RecvFailsStep
<1>3. CASE SendCall \/ SendReturns \/ SendFails
  BY <1>3, SendCallStep, SendReturnsStep, SendFailsStep
<1>4. ASSUME NEW n \in 0..Size, NEW bytes \in [1..n -> Bytes], RecvFills(bytes)
      PROVE  BufferInv' /\ Fifo!Next
  BY <1>4, RecvFillsStep, SizeFacts
<1>5. ASSUME NEW n \in 0..Size,
             SendRound(n) \/ At(n) \/ clearN(n) \/ retriveStr(n) \/ retriveRaw(n)
      PROVE  BufferInv' /\ Fifo!Next
  <2>1. n \in Nat
    BY SizeFacts
  <2>2. QED
    BY <1>5, <2>1, SendRoundStep, AtStep, ClearNStep, RetriveStrStep, RetriveRawStep
<1>6. ASSUME NEW ch \in Bytes, insertCh(ch) PROVE BufferInv' /\ Fifo!Next
  BY <1>6, InsertChStep
<1>7. CASE clear
  BY <1>7, ClearStep
<1>8. QED
  BY <1>1, <1>2, <1>3, <1>4, <1>5, <1>6, <1>7 DEF BufferNext

LEMMA BufferInitStep == BufferInit => BufferInv /\ Fifo!Init
<1> SUFFICES ASSUME BufferInit PROVE BufferInv /\ Fifo!Init
  OBVIOUS
<1>1. RingTypeOK /\ BufferInv
  <2>1. put \in Seq(Bytes) /\ got \in Seq(Bytes) /\ 0 \in Index
    BY SizeFacts DEF BufferInit
  <2>2. RingTypeOK
    BY <2>1 DEF BufferInit, RingTypeOK
  <2>3. /\ freeIov \in Seq(Seq(Index)) /\ usedIov \in Seq(Seq(Index))
        /\ came \in Seq(Bytes) /\ sentOut \in Seq(Bytes) /\ 0 \in 0..2 /\ 0 \in 0..Size
    BY SizeFacts DEF BufferInit
  <2>4. BufferTypeOK
    BY <2>2, <2>3 DEF BufferInit, BufferTypeOK
  <2>5. RecvInv /\ SendInv
    BY DEF BufferInit, RecvInv, SendInv
  <2>6. QED
    BY <2>2, <2>4, <2>5 DEF BufferInv
<1>2. content = <<>>
  <2>1. used = 0
    BY DEF BufferInit, used, Distance
  <2>2. QED
    BY <1>1, <2>1, ContentNow, EmptySeq
<1>3. QED
  BY <1>1, <1>2 DEF BufferInit, Fifo!Init

\* For any bytes and any size below the range of u_int16_t: the segments that
\* the kernel fills and those that it sends never overlap and are as long as
\* the capacities say, after any sequence of operations.
THEOREM SegmentsStayApart == BufferSpec => []SegmentsApart
<1>1. BufferInit => BufferInv
  BY BufferInitStep
<1>2. BufferInv /\ [BufferNext]_bufferVars => BufferInv'
  BY BufferNextStep
<1>3. BufferInv => SegmentsApart
  BY SegmentsAreApart
<1>4. QED
  BY <1>1, <1>2, <1>3, PTL DEF BufferSpec

\* For any bytes and any such size: the ring with its wrap-arounds is a FIFO of
\* Size - 1 bytes under every operation of Buffer.
THEOREM ImplementsByteFifo == BufferSpec => IsFifo
<1>1. BufferInit => BufferInv /\ Fifo!Init
  BY BufferInitStep
<1>2. BufferInv /\ [BufferNext]_bufferVars => BufferInv' /\ [Fifo!Next]_(Fifo!vars)
  BY BufferNextStep
<1>3. QED
  BY <1>1, <1>2, PTL DEF BufferSpec, IsFifo, Fifo!Spec

-----------------------------------------------------------------------------
(* The wait queues (module TimedWait): the inductive invariant.            *)

TransferOps == {"recv", "readv", "writev"}
NoTransferLimited == TimedOps \cap TransferOps = {}

Apart == {p \in Coros \X Coros : p[1] # p[2]}
Earlier == {p \in Coros \X Coros : call[p[1]].left <= call[p[2]].left}
Sleeps(c) == call[c].op = "sleep"

\* Where a coroutine is queued says what it is doing.
Waiters ==
  /\ Ordered(funcs_, Apart) /\ Ordered(items_, Apart) /\ Ordered(timers, Apart)
  /\ \A c \in Coros :
       /\ c \in ToSet(funcs_) <=> co[c] = "asked"
       /\ c \in ToSet(items_) <=> co[c] = "wait" /\ ~Sleeps(c)
       /\ c \in ToSet(timers) => co[c] = "wait" /\ (Sleeps(c) \/ call[c].limit > 0)
       /\ co[c] = "wait" /\ Sleeps(c) => c \in ToSet(timers)
       /\ co[c] # "run" => call[c].op # "none"
       /\ call[c].limit > 0 => call[c].op \in TimedOps \ {"sleep"}

\* What is different when a limited operation may block.
Paired ==
  NoTransferLimited =>
    /\ ~erasedTwice
    /\ \A c \in Coros : co[c] = "wait" /\ call[c].limit > 0 => c \in ToSet(timers)

Writers ==
  /\ WriteExact
  /\ \A c \in Coros : call[c].op = "writev" =>
       call[c].done = call[c].pushed /\ call[c].done <= call[c].n

\* The list of the timers is sorted, and the timerfd is armed for its front
\* unless an expiration is still to be handled.
Timers ==
  /\ Ordered(timers, Earlier)
  /\ \/ "timer" \in edge \cup ToSet(list_)
     \/ \A c \in ToSet(timers) : armed <= call[c].left

\* A FileWQ with events for one of its entries is to be scanned.
FileListed ==
  /\ pc = "poll" => list_ = <<>>
  /\ revents_ # {} /\ waked_ => "file" \in ToSet(list_)
  /\ \A c \in ToSet(items_) : Concerned(c) => "file" \in ToSet(list_)

\* What holds of the socket is in revents_, or an edge tells it.
Edges ==
  /\ link = "new" => \A c \in Coros : call[c].op \in {"none", "sleep"}
  /\ link \in {"new", "connecting"} => space = MaxData /\ avail = 0 /\ ~eof
  /\ link = "refused" => eof
  /\ link = "up" => \/ "OUT" \in revents_
                    \/ "file" \in edge /\ space > 0
                    \/ starved /\ space = 0
  /\ eof => "RDHUP" \in revents_ \/ "file" \in edge
  /\ avail > 0 => "IN" \in revents_ \/ "file" \in edge

WaitInv ==
  /\ program \in Programs
  /\ TypeOK
  /\ Waiters /\ Paired /\ Writers /\ Timers /\ FileListed /\ Edges
-----------------------------------------------------------------------------
LEMMA ProgramFacts ==
  ASSUME program \in Programs
  PROVE  /\ Users \subseteq Coros /\ TimedOps \subseteq Ops /\ Ops \subseteq AllOps
         /\ MaxData \in Nat /\ MaxData > 0 /\ MaxTicks \in Nat /\ MaxTicks > 0
         /\ Disarmed = MaxTicks + 1
<1>1. \A n : n \in Nat \ {0} => n \in Nat /\ n > 0
  OBVIOUS
<1>2. QED
  BY <1>1, ProgramsAssumption DEF Users, Ops, TimedOps, MaxData, MaxTicks, Disarmed

LEMMA SameProgram ==
  ASSUME program' = program
  PROVE  /\ Users' = Users /\ Ops' = Ops /\ TimedOps' = TimedOps
         /\ MaxData' = MaxData /\ MaxTicks' = MaxTicks /\ Disarmed' = Disarmed
         /\ Call' = Call /\ (NoTransferLimited' <=> NoTransferLimited)
BY DEF Users, Ops, TimedOps, MaxData, MaxTicks, Disarmed, Call, NoTransferLimited

LEMMA CallIs ==
  ASSUME program \in Programs, NEW r
  PROVE  r \in Call <=>
           /\ r = [op |-> r.op, n |-> r.n, limit |-> r.limit, left |-> r.left,
                   done |-> r.done, pushed |-> r.pushed, ret |-> r.ret]
           /\ r.op \in Ops \cup {"none"} /\ r.n \in 0..MaxData
           /\ r.limit \in 0..MaxTicks /\ r.left \in 0..MaxTicks
           /\ r.done \in 0..MaxData /\ r.pushed \in 0..MaxData
           /\ r.ret \in Failed..MaxData
BY DEF Call

LEMMA CallOf ==
  ASSUME program \in Programs, TypeOK, NEW c \in Coros
  PROVE  /\ call[c] \in Call
         /\ call[c].op \in AllOps \cup {"none"} /\ call[c].n \in 0..MaxData
         /\ call[c].limit \in 0..MaxTicks /\ call[c].left \in 0..MaxTicks
         /\ call[c].done \in 0..MaxData /\ call[c].pushed \in 0..MaxData
         /\ call[c].ret \in Failed..MaxData
         /\ co[c] \in {"run", "asked", "wait"}
<1>1. call[c] \in Call /\ co[c] \in {"run", "asked", "wait"}
  BY DEF TypeOK
<1>2. QED
  BY <1>1, CallIs, ProgramFacts

\* A list stays sorted when the deadlines keep their order.
LEMMA SortedKept ==
  \A seq \in Seq(Coros) :
    /\ Ordered(seq, Earlier)
    /\ \A a, b \in ToSet(seq) :
         call[a].left <= call[b].left => call'[a].left <= call'[b].left
    => Ordered(seq, Earlier')
BY EntriesAre DEF Ordered, Earlier

LEMMA MaskIs ==
  ASSUME link \in {"new", "connecting", "up", "refused"}
  PROVE  /\ Mask \subseteq {"IN", "OUT", "RDHUP"}
         /\ link = "new" => Mask = {"OUT"}
         /\ link = "connecting" => Mask = {}
         /\ link = "refused" => Mask = {"IN", "OUT", "RDHUP"}
         /\ link = "up" => /\ "IN" \in Mask <=> avail > 0 \/ eof
                           /\ "OUT" \in Mask <=> space > 0
                           /\ "RDHUP" \in Mask <=> eof
BY DEF Mask

\* A coroutine queues a request.
LEMMA QueueStep ==
  ASSUME WaitInv, NEW c \in Coros, NEW op \in Ops, NEW n \in 0..MaxData,
         NEW limit \in 0..MaxTicks, NEW ticks \in 0..MaxTicks,
         limit > 0 => op \in TimedOps \ {"sleep"},
         QueueInLoop(c, NewCall(op, n, limit, ticks)), program' = program,
         link' = link \/ (link = "new" /\ link' = "connecting"),
         link' = "new" => op = "sleep"
  PROVE  WaitInv'
<1>1. program' \in Programs /\ MaxData \in Nat /\ MaxTicks \in Nat /\ Ops \subseteq AllOps
  BY ProgramFacts DEF WaitInv
<1> DEFINE r == NewCall(op, n, limit, ticks)
<1>2. /\ co[c] = "run" /\ co' = [co EXCEPT ![c] = "asked"]
      /\ call' = [call EXCEPT ![c] = r]
      /\ funcs_' = Append(funcs_, c)
      /\ UNCHANGED <<avail, eof, space, starved, edge, pc, list_, revents_, waked_, items_,
                     armed, timers, erasedTwice>>
  BY DEF QueueInLoop, fileWQ, timeWQ
<1>3. /\ r \in Call /\ r.op = op /\ r.limit = limit /\ r.left = ticks /\ r.n = n
      /\ r.done = 0 /\ r.pushed = 0
  BY <1>1 DEF Call, NewCall, Failed
<1> HIDE DEF r
<1>4. TypeOK /\ call \in [Coros -> Call] /\ co \in [Coros -> {"run", "asked", "wait"}]
      /\ funcs_ \in Seq(Coros) /\ timers \in Seq(Coros) /\ items_ \in Seq(Coros)
  BY DEF WaitInv, TypeOK
<1>5. /\ call'[c] = r /\ co'[c] = "asked"
      /\ \A d \in Coros \ {c} : call'[d] = call[d] /\ co'[d] = co[d]
  BY <1>2, <1>4
<1>6. c \notin ToSet(funcs_) /\ c \notin ToSet(items_) /\ c \notin ToSet(timers)
  BY <1>2 DEF WaitInv, Waiters
<1>7. funcs_' \in Seq(Coros) /\ ToSet(funcs_)' = ToSet(funcs_) \cup {c}
      /\ Ordered(funcs_, Apart)'
  <2>1. \A x \in ToSet(funcs_) : <<x, c>> \in Apart
    BY <1>4, <1>6, EntriesAre DEF Apart
  <2>2. Ordered(funcs_, Apart)
    BY DEF WaitInv, Waiters
  <2>3. Apart' = Apart
    BY DEF Apart
  <2>4. Ordered(Append(funcs_, c), Apart) /\ Append(funcs_, c) \in Seq(Coros)
        /\ ToSet(Append(funcs_, c)) = ToSet(funcs_) \cup {c}
    BY <1>4, <2>1, <2>2, AppendIs
  <2>5. QED
    BY <1>2, <2>3, <2>4
<1>8. TypeOK'
  <2>1. call' \in [Coros -> Call'] /\ co' \in [Coros -> {"run", "asked", "wait"}]
    BY <1>2, <1>3, <1>4, SameProgram
  <2>2. MaxData' = MaxData /\ Disarmed' = Disarmed
    BY SameProgram
  <2>3. QED
    BY <1>2, <1>4, <1>7, <2>1, <2>2 DEF TypeOK
<1>9. Waiters'
  <2>1. Ordered(items_, Apart)' /\ Ordered(timers, Apart)'
    BY <1>2 DEF WaitInv, Waiters, Apart
  <2>2. ToSet(items_)' = ToSet(items_) /\ ToSet(timers)' = ToSet(timers) /\ TimedOps' = TimedOps
    BY <1>2, SameProgram
  <2>3. ASSUME NEW d \in Coros
        PROVE  /\ d \in ToSet(funcs_)' <=> co'[d] = "asked"
               /\ d \in ToSet(items_)' <=> co'[d] = "wait" /\ ~Sleeps(d)'
               /\ d \in ToSet(timers)' => co'[d] = "wait" /\ (Sleeps(d)' \/ call'[d].limit > 0)
               /\ co'[d] = "wait" /\ Sleeps(d)' => d \in ToSet(timers)'
               /\ co'[d] # "run" => call'[d].op # "none"
               /\ call'[d].limit > 0 => call'[d].op \in (TimedOps \ {"sleep"})'
    <3>1. CASE d = c
      BY <1>1, <1>3, <1>5, <1>6, <1>7, <2>2, <3>1 DEF AllOps
    <3>2. CASE d # c
      <4>1. Sleeps(d)' <=> Sleeps(d)
        BY <1>5, <3>2 DEF Sleeps
      <4>2. QED
        BY <1>5, <1>7, <2>2, <3>2, <4>1 DEF WaitInv, Waiters
    <3>3. QED
      BY <3>1, <3>2
  <2>4. QED
    BY <1>7, <2>1, <2>3 DEF Waiters
<1>10. Paired'
  <2>1. NoTransferLimited' <=> NoTransferLimited
    BY SameProgram
  <2>2. QED
    BY <1>2, <1>5, <2>1 DEF WaitInv, Paired
<1>11. Writers'
  BY <1>1, <1>3, <1>5 DEF WaitInv, Writers, WriteExact
<1>12. Timers'
  <2>1. \A d \in ToSet(timers) : call'[d] = call[d]
    BY <1>4, <1>5, <1>6, EntriesAre
  <2>2. Ordered(timers, Earlier')
    BY <1>4, <2>1, SortedKept DEF WaitInv, Timers
  <2>3. QED
    BY <1>2, <2>1, <2>2 DEF WaitInv, Timers
<1>13. FileListed'
  <2>1. \A d \in ToSet(items_) : Concerned(d)' <=> Concerned(d)
    BY <1>2, <1>4, <1>5, <1>6, EntriesAre DEF Concerned, EventsOf
  <2>2. QED
    BY <1>2, <2>1 DEF WaitInv, FileListed
<1>14. Edges'
  BY <1>2, <1>3, <1>5, SameProgram DEF WaitInv, Edges
<1>15. QED
  BY <1>1, <1>8, <1>9, <1>10, <1>11, <1>12, <1>13, <1>14 DEF WaitInv

LEMMA RequestStep ==
  ASSUME WaitInv, Request, program' = program
  PROVE  WaitInv'
<1>1. PICK c \in Users :
        \/ \E ticks \in 1..MaxTicks : SleepCall(c, ticks)
        \/ \E limit \in LimitsOf("connect") : ConnectCall(c, limit)
        \/ \E op \in Ops, n \in 1..MaxData : \E limit \in LimitsOf(op) :
             TransferCall(c, op, n, limit)
  BY DEF Request
<1>2. /\ c \in Coros /\ MaxData \in Nat /\ MaxTicks \in Nat
      /\ link \in {"new", "connecting", "up", "refused"}
  BY ProgramFacts DEF WaitInv, TypeOK
<1>3. \A op : \A limit \in LimitsOf(op) : limit \in 0..MaxTicks /\ (limit > 0 => op \in TimedOps)
  BY <1>2 DEF LimitsOf
<1>4. CASE \E ticks \in 1..MaxTicks : SleepCall(c, ticks)
  <2>1. PICK ticks \in 1..MaxTicks : SleepCall(c, ticks)
    BY <1>4
  <2>2. /\ "sleep" \in Ops /\ QueueInLoop(c, NewCall("sleep", 0, 0, ticks)) /\ link' = link
        /\ ticks \in 0..MaxTicks /\ 0 \in 0..MaxData /\ 0 \in 0..MaxTicks /\ ~(0 > 0)
    BY <1>2, <2>1 DEF SleepCall
  <2>3. QED
    BY <1>2, <2>2, QueueStep
<1>5. CASE \E limit \in LimitsOf("connect") : ConnectCall(c, limit)
  <2>1. PICK limit \in LimitsOf("connect") : ConnectCall(c, limit)
    BY <1>5
  <2>2. /\ "connect" \in Ops /\ QueueInLoop(c, NewCall("connect", 0, limit, 0))
        /\ link = "new" /\ link' = "connecting"
        /\ 0 \in 0..MaxTicks /\ 0 \in 0..MaxData
    BY <1>2, <2>1 DEF ConnectCall
  <2>3. limit \in 0..MaxTicks /\ (limit > 0 => "connect" \in TimedOps \ {"sleep"})
    BY <1>3
  <2>4. QED
    BY <1>2, <2>2, <2>3, QueueStep
<1>6. CASE \E op \in Ops, n \in 1..MaxData : \E limit \in LimitsOf(op) :
             TransferCall(c, op, n, limit)
  <2>1. PICK op \in Ops, n \in 1..MaxData : \E limit \in LimitsOf(op) :
               TransferCall(c, op, n, limit)
    BY <1>6
  <2>2. PICK limit \in LimitsOf(op) : TransferCall(c, op, n, limit)
    BY <2>1
  <2>3. /\ op # "sleep" /\ QueueInLoop(c, NewCall(op, n, limit, 0))
        /\ link # "new" /\ link' = link
        /\ 0 \in 0..MaxTicks /\ n \in 0..MaxData
    BY <1>2, <2>2 DEF TransferCall
  <2>4. limit \in 0..MaxTicks /\ (limit > 0 => op \in TimedOps \ {"sleep"})
    BY <1>3, <2>3
  <2>5. QED
    BY <1>2, <2>3, <2>4, QueueStep
<1>7. QED
  BY <1>1, <1>4, <1>5, <1>6

\* What depends on the lists and the calls only.
LEMMA SameWaiters ==
  ASSUME WaitInv, UNCHANGED <<program, funcs_, items_, timers, call, co, erasedTwice>>
  PROVE  /\ program' \in Programs /\ Waiters' /\ Paired' /\ Writers'
         /\ Ordered(timers, Earlier)'
         /\ {funcs_, items_, timers}' \subseteq Seq(Coros)
         /\ call' \in [Coros -> Call'] /\ co' \in [Coros -> {"run", "asked", "wait"}]
         /\ MaxData' = MaxData /\ Disarmed' = Disarmed
<1>1. /\ MaxData' = MaxData /\ Disarmed' = Disarmed /\ Call' = Call /\ TimedOps' = TimedOps
      /\ (NoTransferLimited' <=> NoTransferLimited)
  BY SameProgram
<1>2. Waiters'
  BY <1>1 DEF WaitInv, Waiters, Apart, Sleeps, Ordered
<1>3. Paired' /\ Writers'
  BY <1>1 DEF WaitInv, Paired, Writers, WriteExact
<1>4. Ordered(timers, Earlier)'
  BY DEF WaitInv, Timers, Ordered, Earlier
<1>5. QED
  BY <1>1, <1>2, <1>3, <1>4 DEF WaitInv, TypeOK

\* The list of things to scan is shortened or left alone, and the events stay.
LEMMA NetworkStep ==
  ASSUME WaitInv, Network, program' = program
  PROVE  WaitInv'
<1>1. /\ UNCHANGED <<armed, funcs_, pc, list_, revents_, waked_, items_, timers, call, co,
                     erasedTwice>>
      /\ edge' = edge \/ edge' = edge \cup {"file"}
  BY DEF Network, Established, Refused, Arrive, PeerShutsDown, PeerReads, SocketChanges,
         fileWQ, timeWQ, coros
<1>2. /\ program' \in Programs /\ Waiters' /\ Paired' /\ Writers'
      /\ Ordered(timers, Earlier)'
      /\ {funcs_, items_, timers}' \subseteq Seq(Coros)
      /\ call' \in [Coros -> Call'] /\ co' \in [Coros -> {"run", "asked", "wait"}]
      /\ MaxData' = MaxData /\ Disarmed' = Disarmed
  BY <1>1, SameWaiters
<1>3. /\ MaxData \in Nat /\ MaxData > 0
      /\ link \in {"new", "connecting", "up", "refused"} /\ avail \in 0..MaxData /\ space \in 0..MaxData
      /\ eof \in BOOLEAN /\ starved \in BOOLEAN
  BY ProgramFacts DEF WaitInv, TypeOK
<1>4. /\ link' \in {"new", "connecting", "up", "refused"}
      /\ avail' \in 0..MaxData /\ space' \in 0..MaxData
      /\ eof' \in BOOLEAN /\ starved' \in BOOLEAN
  <2>1. CASE Established \/ Refused \/ PeerShutsDown
    BY <1>3, <2>1 DEF Established, Refused, PeerShutsDown
  <2>2. CASE Arrive
    BY <1>3, <2>2 DEF Arrive
  <2>3. CASE PeerReads
    <3>1. space < MaxData /\ space' = space + 1 /\ starved' = FALSE /\ UNCHANGED <<link, avail, eof>>
      BY <2>3 DEF PeerReads
    <3>2. space + 1 \in 0..MaxData
      BY <1>3, <3>1
    <3>3. QED
      BY <1>3, <3>1, <3>2
  <2>4. QED
    BY <2>1, <2>2, <2>3 DEF Network
<1>5. TypeOK'
  BY <1>1, <1>2, <1>4 DEF WaitInv, TypeOK
<1>6. Timers'
  BY <1>1, <1>2 DEF WaitInv, Timers
<1>7. FileListed'
  BY <1>1 DEF WaitInv, FileListed, Concerned, EventsOf
<1>8. Edges'
  <2>1. Edges
    BY DEF WaitInv
  <2>2. CASE Established
    BY <1>1, <1>2, <1>3, <2>1, <2>2 DEF Established, SocketChanges, Edges
  <2>3. CASE Refused
    BY <1>1, <1>2, <1>3, <2>1, <2>3 DEF Refused, SocketChanges, Edges
  <2>4. CASE Arrive
    BY <1>1, <1>2, <1>3, <2>1, <2>4 DEF Arrive, SocketChanges, Edges
  <2>5. CASE PeerShutsDown
    BY <1>1, <1>2, <1>3, <2>1, <2>5 DEF PeerShutsDown, SocketChanges, Edges
  <2>6. CASE PeerReads
    <3>1. space' > 0
      BY <1>3, <2>6 DEF PeerReads
    <3>2. QED
      BY <1>1, <1>2, <1>3, <2>1, <2>6, <3>1 DEF PeerReads, Edges
  <2>7. QED
    BY <2>2, <2>3, <2>4, <2>5, <2>6 DEF Network
<1>9. QED
  BY <1>2, <1>5, <1>6, <1>7, <1>8 DEF WaitInv

LEMMA TickStep ==
  ASSUME WaitInv, Tick, program' = program
  PROVE  WaitInv'
<1>1. /\ call' = [c \in Coros |-> [call[c] EXCEPT !.left = Less(call[c].left)]]
      /\ armed' = IF armed = Disarmed THEN Disarmed ELSE Less(armed)
      /\ UNCHANGED <<link, avail, eof, space, starved, edge, funcs_, pc, list_, revents_,
                     waked_, items_, timers, co, erasedTwice>>
  BY DEF Tick, socket, fileWQ
<1>2. /\ program \in Programs /\ MaxData \in Nat /\ MaxTicks \in Nat /\ Disarmed = MaxTicks + 1
  BY ProgramFacts DEF WaitInv
<1>3. /\ MaxData' = MaxData /\ Disarmed' = Disarmed /\ Call' = Call /\ TimedOps' = TimedOps
      /\ (NoTransferLimited' <=> NoTransferLimited)
  BY SameProgram
<1>4. /\ TypeOK /\ call \in [Coros -> Call] /\ timers \in Seq(Coros) /\ items_ \in Seq(Coros)
      /\ armed \in 0..Disarmed
  BY DEF WaitInv, TypeOK
<1>5. ASSUME NEW c \in Coros
      PROVE  /\ call'[c] \in Call
             /\ call'[c].op = call[c].op /\ call'[c].n = call[c].n
             /\ call'[c].limit = call[c].limit /\ call'[c].done = call[c].done
             /\ call'[c].pushed = call[c].pushed /\ call'[c].ret = call[c].ret
             /\ call'[c].left = Less(call[c].left) /\ call[c].left \in 0..MaxTicks
  <2>1. call[c] \in Call /\ call[c].left \in 0..MaxTicks
    BY <1>2, <1>4, CallOf
  <2>2. Less(call[c].left) \in 0..MaxTicks
    BY <1>2, <2>1 DEF Less
  <2>3. call'[c] = [call[c] EXCEPT !.left = Less(call[c].left)]
    BY <1>1
  <2>4. QED
    BY <2>1, <2>2, <2>3 DEF Call
<1>6. TypeOK'
  <2>1. call' \in [Coros -> Call]
    BY <1>1, <1>5
  <2>2. armed' \in 0..Disarmed
    BY <1>1, <1>2, <1>4 DEF Less
  <2>3. QED
    BY <1>1, <1>3, <1>4, <2>1, <2>2 DEF TypeOK
<1>7. Waiters' /\ Paired'
  <2>1. Ordered(funcs_, Apart)' /\ Ordered(items_, Apart)' /\ Ordered(timers, Apart)'
    BY <1>1 DEF WaitInv, Waiters, Apart
  <2>2. ASSUME NEW c \in Coros
        PROVE  Sleeps(c)' <=> Sleeps(c)
    BY <1>5 DEF Sleeps
  <2>3. Waiters'
    BY <1>1, <1>3, <1>5, <2>1, <2>2 DEF WaitInv, Waiters
  <2>4. Paired'
    BY <1>1, <1>3, <1>5 DEF WaitInv, Paired
  <2>5. QED
    BY <2>3, <2>4
<1>8. Writers'
  BY <1>1, <1>5 DEF WaitInv, Writers, WriteExact
<1>9. Timers'
  <2>1. \A a, b \in 0..MaxTicks : a <= b => Less(a) <= Less(b)
    BY <1>2 DEF Less
  <2>2. ASSUME NEW a \in ToSet(timers), NEW b \in ToSet(timers), call[a].left <= call[b].left
        PROVE  call'[a].left <= call'[b].left
    BY <1>4, <1>5, <2>1, <2>2, EntriesAre
  <2>3. Ordered(timers, Earlier')
    BY <1>4, <2>2, SortedKept DEF WaitInv, Timers
  <2>4. ASSUME NEW c \in ToSet(timers), armed <= call[c].left
        PROVE  armed' <= call'[c].left
    <3>1. c \in Coros /\ call[c].left \in 0..MaxTicks /\ call'[c].left = Less(call[c].left)
      BY <1>4, <1>5, EntriesAre
    <3>2. armed # Disarmed /\ armed \in 0..MaxTicks
      BY <1>2, <1>4, <2>4, <3>1
    <3>3. QED
      BY <1>1, <2>1, <2>4, <3>1, <3>2
  <2>5. QED
    BY <1>1, <2>3, <2>4 DEF WaitInv, Timers
<1>10. FileListed'
  <2>1. \A c \in ToSet(items_) : Concerned(c)' <=> Concerned(c)
    BY <1>1, <1>4, <1>5, EntriesAre DEF Concerned, EventsOf
  <2>2. QED
    BY <1>1, <2>1 DEF WaitInv, FileListed
<1>11. Edges'
  BY <1>1, <1>3, <1>5 DEF WaitInv, Edges
<1>12. QED
  BY <1>2, <1>6, <1>7, <1>8, <1>9, <1>10, <1>11 DEF WaitInv

\* The steps that move neither a coroutine nor an entry: the timerfd expires,
\* the ICU thread goes on to the next part of its loop, and it polls.
LEMMA QuietStep ==
  ASSUME WaitInv, program' = program,
         TimerExpires \/ DrainDone \/ FileScanned \/ ScanDone \/ WaitIRQ
  PROVE  WaitInv'
<1>1. UNCHANGED <<link, avail, eof, space, starved, funcs_, items_, timers, call, co, erasedTwice>>
  BY DEF TimerExpires, DrainDone, FileScanned, ScanDone, WaitIRQ, socket, fileWQ, timeWQ, coros
<1>2. /\ program' \in Programs /\ Waiters' /\ Paired' /\ Writers'
      /\ Ordered(timers, Earlier)'
      /\ {funcs_, items_, timers}' \subseteq Seq(Coros)
      /\ call' \in [Coros -> Call'] /\ co' \in [Coros -> {"run", "asked", "wait"}]
      /\ MaxData' = MaxData /\ Disarmed' = Disarmed
  BY <1>1, SameWaiters
<1>3. /\ MaxTicks \in Nat /\ Disarmed = MaxTicks + 1 /\ Disarmed \in 0..Disarmed
  BY ProgramFacts DEF WaitInv
<1>4. /\ link \in {"new", "connecting", "up", "refused"}
      /\ list_ \in Seq({"file", "timer"}) /\ items_ \in Seq(Coros)
      /\ edge \subseteq {"file", "timer"} /\ armed \in 0..Disarmed
      /\ revents_ \subseteq {"IN", "OUT", "RDHUP"} /\ waked_ \in BOOLEAN
  BY DEF WaitInv, TypeOK
<1>5. SUFFICES /\ pc' \in {"drain", "scan", "poll"}
               /\ list_' \in Seq({"file", "timer"})
               /\ edge' \subseteq {"file", "timer"} /\ armed' \in 0..Disarmed
               /\ revents_' \subseteq {"IN", "OUT", "RDHUP"} /\ waked_' \in BOOLEAN
               /\ Timers' /\ FileListed' /\ Edges'
  <2>1. TypeOK <=>
          /\ link \in {"new", "connecting", "up", "refused"}
          /\ avail \in 0..MaxData /\ space \in 0..MaxData
          /\ {eof, starved, waked_, erasedTwice} \subseteq BOOLEAN
          /\ edge \subseteq {"file", "timer"}
          /\ armed \in 0..Disarmed
          /\ {funcs_, items_, timers} \subseteq Seq(Coros)
          /\ pc \in {"drain", "scan", "poll"}
          /\ list_ \in Seq({"file", "timer"})
          /\ revents_ \subseteq {"IN", "OUT", "RDHUP"}
          /\ call \in [Coros -> Call]
          /\ co \in [Coros -> {"run", "asked", "wait"}]
    BY DEF TypeOK
  <2>2. TypeOK'
    BY <1>1, <1>2, <1>5, <2>1 DEF WaitInv, TypeOK
  <2>3. QED
    BY <1>2, <1>5, <2>2 DEF WaitInv
<1>6. /\ Timers /\ FileListed /\ Edges /\ pc \in {"drain", "scan", "poll"}
      /\ \A c \in ToSet(items_) : EventsOf(c)' = EventsOf(c)
  BY <1>1 DEF WaitInv, TypeOK, EventsOf
<1>7. CASE TimerExpires
  <2>1. /\ armed = 0 /\ armed' = Disarmed /\ edge' = edge \cup {"timer"}
        /\ UNCHANGED <<pc, list_, revents_, waked_>>
    BY <1>7 DEF TimerExpires, fileWQ
  <2>2. Timers'
    BY <1>2, <2>1 DEF Timers
  <2>3. FileListed'
    BY <1>1, <1>6, <2>1 DEF FileListed, Concerned
  <2>4. Edges'
    BY <1>1, <1>2, <1>6, <2>1 DEF Edges
  <2>5. QED
    BY <1>3, <1>4, <1>6, <2>1, <2>2, <2>3, <2>4
<1>8. CASE DrainDone \/ ScanDone
  <2>1. /\ UNCHANGED <<edge, list_, revents_, waked_, armed>>
        /\ pc' \in {"scan", "poll"} /\ (pc' = "poll" => list_ = <<>>)
    BY <1>8 DEF DrainDone, ScanDone, fileWQ, timeWQ
  <2>2. Timers'
    BY <1>1, <1>2, <1>6, <2>1 DEF Timers
  <2>3. FileListed'
    BY <1>1, <1>6, <2>1 DEF FileListed, Concerned
  <2>4. Edges'
    BY <1>1, <1>2, <1>6, <2>1 DEF Edges
  <2>5. QED
    BY <1>4, <2>1, <2>2, <2>3, <2>4
<1>9. CASE FileScanned
  <2>1. /\ pc = "scan" /\ list_ # <<>> /\ Head(list_) = "file"
        /\ \A c \in ToSet(items_) : ~Concerned(c)
        /\ list_' = Tail(list_) /\ waked_' = FALSE
        /\ UNCHANGED <<edge, pc, revents_, armed>>
    BY <1>9 DEF FileScanned, Scanning, timeWQ
  <2>2. /\ list_' \in Seq({"file", "timer"})
        /\ ToSet(list_) = ToSet(list_)' \cup {"file"}
    BY <1>4, <2>1, TailIs
  <2>3. Timers'
    BY <1>1, <1>2, <1>6, <2>1, <2>2 DEF Timers
  <2>4. FileListed'
    BY <1>1, <1>6, <2>1 DEF FileListed, Concerned
  <2>5. Edges'
    BY <1>1, <1>2, <1>6, <2>1 DEF Edges
  <2>6. QED
    BY <1>4, <1>6, <2>1, <2>2, <2>3, <2>4, <2>5
<1>10. CASE WaitIRQ
  <2> DEFINE reported == {w \in edge : w = "file" => Mask # {}}
  <2>1. /\ pc = "poll" /\ pc' = "drain" /\ edge' = {}
        /\ list_' \in {order \in Reports : ToSet(order) = reported}
        /\ revents_' = IF "file" \in reported THEN revents_ \cup Mask ELSE revents_
        /\ waked_' = (waked_ \/ "file" \in reported)
        /\ armed' = armed
    BY <1>10 DEF WaitIRQ, timeWQ
  <2>2. list_' \in Seq({"file", "timer"}) /\ ToSet(list_)' = reported
    <3>1. Reports \subseteq Seq({"file", "timer"})
      BY DEF Reports
    <3>2. list_' \in Reports /\ ToSet(list_') = reported
      <4> HIDE DEF reported
      <4>1. QED
        BY <2>1
    <3>3. ToSet(list_)' = ToSet(list_')
      BY DEF ToSet
    <3>4. QED
      BY <3>1, <3>2, <3>3
  <2>3. /\ "timer" \in edge <=> "timer" \in reported
        /\ "file" \in reported <=> "file" \in edge /\ Mask # {}
        /\ reported \subseteq edge
    OBVIOUS
  <2> HIDE DEF reported
  <2>4. list_ = <<>> /\ ToSet(list_) = {}
    BY <1>6, <2>1 DEF FileListed, ToSet
  <2>5. revents_' \subseteq {"IN", "OUT", "RDHUP"}
    BY <1>4, <2>1, MaskIs
  <2>6. Timers'
    BY <1>1, <1>2, <1>6, <2>1, <2>2, <2>3, <2>4 DEF Timers
  <2>7. FileListed'
    <3>1. CASE "file" \in reported
      BY <2>1, <2>2, <3>1 DEF FileListed
    <3>2. CASE "file" \notin reported
      <4>1. revents_' = revents_ /\ waked_' = waked_
        BY <1>4, <2>1, <3>2
      <4>2. QED
        BY <1>1, <1>6, <2>1, <2>4, <4>1 DEF FileListed, Concerned
    <3>3. QED
      BY <3>1, <3>2
  <2>8. Edges'
    <3>1. avail \in Nat /\ space \in Nat
      BY ProgramFacts DEF WaitInv, TypeOK
    <3>2. CASE link \in {"new", "connecting"}
      BY <1>1, <1>2, <1>6, <3>1, <3>2, ProgramFacts DEF Edges, WaitInv
    <3>3. CASE link = "refused"
      BY <1>1, <1>2, <1>6, <2>1, <2>3, <3>3, MaskIs DEF Edges
    <3>4. CASE link = "up"
      BY <1>1, <1>2, <1>6, <2>1, <2>3, <3>1, <3>4, MaskIs DEF Edges
    <3>5. QED
      BY <1>4, <3>2, <3>3, <3>4
  <2>9. QED
    BY <1>3, <1>4, <2>1, <2>2, <2>5, <2>6, <2>7, <2>8
<1>11. QED
  BY <1>7, <1>8, <1>9, <1>10

\* A timer is put behind those that expire no later.
LEMMA AddTimerIs ==
  ASSUME WaitInv, program' = program, NEW c \in Coros, c \notin ToSet(timers),
         NEW ticks \in 0..MaxTicks, AddTimer(c, ticks)
  PROVE  /\ timers' \in Seq(Coros)
         /\ ToSet(timers)' = ToSet(timers) \cup {c}
         /\ Ordered(timers, Apart)' /\ Ordered(timers, Earlier)'
         /\ armed' \in 0..Disarmed
         /\ edge' \in {edge, edge \ {"timer"}}
         /\ call' = [call EXCEPT ![c].left = ticks]
         /\ \/ "timer" \in edge' \/ "timer" \in ToSet(list_)
            \/ \A d \in ToSet(timers)' : armed' <= call'[d].left
<1> DEFINE n == Len(timers)
           Later == {i \in 1..n : call[timers[i]].left > ticks}
           place == IF Later = {} THEN n + 1 ELSE Min(Later)
<1>1. /\ program \in Programs /\ MaxTicks \in Nat /\ Disarmed = MaxTicks + 1
      /\ TypeOK /\ timers \in Seq(Coros) /\ call \in [Coros -> Call] /\ armed \in 0..Disarmed
      /\ Ordered(timers, Earlier) /\ Ordered(timers, Apart) /\ Timers
  BY ProgramFacts DEF WaitInv, TypeOK, Timers, Waiters
<1>2. /\ n \in Nat /\ DOMAIN timers = 1..n
      /\ \A i \in 1..n : timers[i] \in Coros /\ timers[i] \in ToSet(timers) /\ timers[i] # c
  BY <1>1, EntriesAre
<1>3. \A i \in 1..n : call[timers[i]].left \in 0..MaxTicks
  BY <1>1, <1>2, CallOf
<1>4. \A i, j \in 1..n : i <= j => call[timers[i]].left <= call[timers[j]].left
  <2>1. SUFFICES ASSUME NEW i \in 1..n, NEW j \in 1..n, i < j
                 PROVE  call[timers[i]].left <= call[timers[j]].left
    BY <1>2, <1>3
  <2>2. <<timers[i], timers[j]>> \in Earlier
    BY <1>1, <1>2, <2>1 DEF Ordered
  <2>3. QED
    BY <2>2 DEF Earlier
<1>5. /\ Later = {} => \A i \in 1..n : call[timers[i]].left <= ticks
      /\ Later # {} => /\ Min(Later) \in Later
                       /\ \A i \in Later : Min(Later) <= i
  <2>1. Later = {} => \A i \in 1..n : call[timers[i]].left <= ticks
    BY <1>3
  <2>2. Later \in SUBSET Nat
    OBVIOUS
  <2> HIDE DEF Later
  <2>3. QED
    BY <2>1, <2>2, LeastIsMin
<1>6. /\ place \in 1..n + 1
      /\ \A i \in 1..n : IF i < place THEN call[timers[i]].left <= ticks
                                      ELSE ticks <= call[timers[i]].left
  <2>1. CASE Later = {}
    BY <1>2, <1>5, <2>1
  <2>2. CASE Later # {}
    <3>1. place = Min(Later)
      BY <2>2
    <3>2. place \in 1..n /\ call[timers[place]].left > ticks
      BY <1>5, <2>2, <3>1
    <3>3. \A i \in Later : place <= i
      BY <1>5, <2>2, <3>1
    <3>4. ASSUME NEW i \in 1..n
          PROVE  IF i < place THEN call[timers[i]].left <= ticks
                              ELSE ticks <= call[timers[i]].left
      <4>1. CASE i < place
        <5>1. i \notin Later
          BY <3>2, <3>3, <4>1
        <5>2. QED
          BY <1>3, <4>1, <5>1
      <4>2. CASE ~(i < place)
        <5>1. call[timers[place]].left <= call[timers[i]].left
          BY <1>4, <3>2, <4>2
        <5>2. /\ call[timers[place]].left \in 0..MaxTicks /\ call[timers[i]].left \in 0..MaxTicks
              /\ ticks < call[timers[place]].left
          BY <1>3, <3>2
        <5>3. \A a, b, t \in 0..MaxTicks : t < a /\ a <= b => t <= b
          BY <1>1
        <5>4. ticks <= call[timers[i]].left
          BY <5>1, <5>2, <5>3
        <5>5. QED
          BY <4>2, <5>4
      <4>3. QED
        BY <4>1, <4>2
    <3>5. QED
      BY <1>2, <3>2, <3>4
  <2>3. QED
    BY <2>1, <2>2
<1>7. /\ timers' = InsertAt(timers, place, c)
      /\ call' = [call EXCEPT ![c].left = ticks]
      /\ IF AtFront(ticks) THEN armed' = ticks /\ edge' = edge \ {"timer"}
                           ELSE UNCHANGED <<armed, edge>>
  <2> DEFINE later == SelectInSeq(timers, LAMBDA d : call[d].left > ticks)
  <2>1. later = IF Later # {} THEN Min(Later) ELSE 0
    BY DEF SelectInSeq
  <2>2. place = IF later = 0 THEN n + 1 ELSE later
    <3>1. Later # {} => Min(Later) # 0
      BY <1>5
    <3> HIDE DEF Later
    <3>2. QED
      BY <2>1, <3>1
  <2>3. /\ timers' = InsertAt(timers, IF later = 0 THEN n + 1 ELSE later, c)
        /\ call' = [call EXCEPT ![c].left = ticks]
        /\ IF AtFront(ticks) THEN armed' = ticks /\ edge' = edge \ {"timer"}
                             ELSE UNCHANGED <<armed, edge>>
    BY DEF AddTimer
  <2> HIDE DEF later, place
  <2>4. QED
    BY <2>2, <2>3
<1> HIDE DEF place, Later
<1>8. /\ call'[c].left = ticks
      /\ \A i \in 1..n : call'[timers[i]] = call[timers[i]]
      /\ \A d \in ToSet(timers) : call'[d] = call[d]
  <2>1. call[c] = [call[c] EXCEPT !.left = call[c].left] /\ call[c] \in Call
    BY <1>1 DEF Call
  <2>2. call'[c] = [call[c] EXCEPT !.left = ticks]
    BY <1>1, <1>7
  <2>3. call'[c].left = ticks
    BY <2>1, <2>2 DEF Call
  <2>4. \A d \in Coros \ {c} : call'[d] = call[d]
    BY <1>1, <1>7
  <2>5. QED
    BY <1>1, <1>2, <2>3, <2>4, EntriesAre
<1>9. /\ timers' \in Seq(Coros) /\ ToSet(timers') = ToSet(timers) \cup {c}
      /\ Ordered(timers', Apart)
  <2>1. \A i \in 1..n : <<timers[i], c>> \in Apart /\ <<c, timers[i]>> \in Apart
    BY <1>2 DEF Apart
  <2>2. QED
    BY <1>1, <1>6, <1>7, <2>1, InsertIs
<1>10. Ordered(timers', Earlier')
  <2>1. Ordered(timers, Earlier')
    BY <1>1, <1>8, SortedKept
  <2>2. \A i \in 1..n : IF i < place THEN <<timers[i], c>> \in Earlier'
                                     ELSE <<c, timers[i]>> \in Earlier'
    BY <1>2, <1>6, <1>8 DEF Earlier
  <2>3. QED
    BY <1>1, <1>6, <1>7, <2>1, <2>2, InsertIs
<1>11. armed' \in 0..Disarmed /\ edge' \in {edge, edge \ {"timer"}}
  BY <1>1, <1>7
<1>12. \/ "timer" \in edge' \/ "timer" \in ToSet(list_)
       \/ \A d \in ToSet(timers') : armed' <= call'[d].left
  <2>1. timers # <<>> => 1 \in 1..n /\ Head(timers) = timers[1]
    BY <1>1, <1>2, EmptySeq
  <2>2. CASE AtFront(ticks)
    <3>1. armed' = ticks
      BY <1>7, <2>2
    <3>2. \A i \in 1..n : ticks <= call[timers[i]].left
      <4>1. n > 0 => timers # <<>>
        BY <1>2
      <4>2. ASSUME NEW i \in 1..n
            PROVE  ticks <= call[timers[i]].left
        <5>1. 1 \in 1..n /\ call[timers[1]].left > ticks /\ 1 <= i
          BY <1>2, <2>1, <2>2, <4>1 DEF AtFront
        <5>2. QED
          BY <1>3, <1>4, <5>1
      <4>3. QED
        BY <4>2
    <3>3. \A d \in ToSet(timers) : ticks <= call'[d].left
      BY <1>1, <1>8, <3>2, EntriesAre
    <3>4. QED
      BY <1>8, <1>9, <3>1, <3>3
  <2>3. CASE ~AtFront(ticks)
    <3>1. armed' = armed /\ edge' = edge /\ timers # <<>> /\ ~(call[timers[1]].left > ticks)
      BY <1>7, <2>1, <2>3 DEF AtFront
    <3>2. SUFFICES ASSUME \A d \in ToSet(timers) : armed <= call[d].left
                   PROVE  \A d \in ToSet(timers') : armed' <= call'[d].left
      BY <1>1, <3>1 DEF Timers
    <3>3. armed <= call[timers[1]].left /\ call[timers[1]].left \in 0..MaxTicks
      BY <1>2, <1>3, <2>1, <3>1, <3>2
    <3>4. armed <= ticks
      BY <1>1, <3>1, <3>3
    <3>5. QED
      BY <1>8, <1>9, <3>1, <3>2, <3>4
  <2>4. QED
    BY <2>2, <2>3
<1>13. QED
  BY <1>7, <1>9, <1>10, <1>11, <1>12 DEF Ordered, ToSet, Apart

LEMMA RunFuncStep ==
  ASSUME WaitInv, RunFunc, program' = program
  PROVE  WaitInv'
<1> DEFINE c == Head(funcs_)
           timed == call[c].op = "sleep" \/ call[c].limit > 0
<1>1. /\ pc = "drain" /\ funcs_ # <<>> /\ funcs_' = Tail(funcs_)
      /\ co' = [co EXCEPT ![c] = "wait"]
      /\ RunSleep(c) \/ RunWait(c)
      /\ UNCHANGED <<link, avail, eof, space, starved, pc, erasedTwice>>
  BY DEF RunFunc, socket
<1>2. /\ program \in Programs /\ program' \in Programs /\ MaxTicks \in Nat
      /\ TypeOK /\ funcs_ \in Seq(Coros) /\ items_ \in Seq(Coros) /\ timers \in Seq(Coros)
      /\ call \in [Coros -> Call] /\ co \in [Coros -> {"run", "asked", "wait"}]
      /\ list_ \in Seq({"file", "timer"}) /\ edge \subseteq {"file", "timer"}
      /\ armed \in 0..Disarmed /\ waked_ \in BOOLEAN /\ revents_ \subseteq {"IN", "OUT", "RDHUP"}
      /\ Waiters /\ Paired /\ Writers /\ Timers /\ FileListed /\ Edges
  BY ProgramFacts DEF WaitInv, TypeOK
<1>3. /\ MaxData' = MaxData /\ Disarmed' = Disarmed /\ Call' = Call /\ TimedOps' = TimedOps
      /\ (NoTransferLimited' <=> NoTransferLimited) /\ Apart' = Apart
  BY SameProgram DEF Apart
<1>4. /\ funcs_' \in Seq(Coros) /\ c \in Coros /\ c \in ToSet(funcs_)
      /\ ToSet(funcs_) = ToSet(funcs_') \cup {c}
      /\ Ordered(funcs_', Apart) /\ c \notin ToSet(funcs_')
  <2>1. Ordered(funcs_, Apart)
    BY <1>2 DEF Waiters
  <2>2. /\ Tail(funcs_) \in Seq(Coros) /\ c \in Coros /\ c \in ToSet(funcs_)
        /\ ToSet(funcs_) = ToSet(Tail(funcs_)) \cup {c}
        /\ Ordered(Tail(funcs_), Apart)
        /\ \A x \in ToSet(Tail(funcs_)) : <<c, x>> \in Apart
    BY <1>1, <1>2, <2>1, TailIs
  <2>3. <<c, c>> \notin Apart
    BY DEF Apart
  <2>4. QED
    BY <1>1, <2>2, <2>3
<1> HIDE DEF c
<1>5. /\ co[c] = "asked" /\ c \notin ToSet(items_) /\ c \notin ToSet(timers)
      /\ call[c].op # "none" /\ call[c].left \in 0..MaxTicks /\ call[c].limit \in 0..MaxTicks
      /\ call[c] \in Call
  BY <1>2, <1>4, CallOf DEF Waiters
<1>6. /\ RunSleep(c) => call[c].op = "sleep" /\ AddTimer(c, call[c].left)
                        /\ UNCHANGED <<revents_, waked_, items_, list_>>
      /\ RunWait(c) =>
           /\ call[c].op # "sleep"
           /\ IF call[c].limit > 0 THEN AddTimer(c, call[c].limit)
                                   ELSE UNCHANGED <<armed, timers, edge, call>>
           /\ items_' = Append(items_, c)
           /\ list_' = IF waked_ THEN list_ ELSE Append(list_, "file")
           /\ waked_' = TRUE /\ revents_' = revents_
  BY DEF RunSleep, RunWait, fileWQ, timeWQ
<1>7. /\ timers' \in Seq(Coros)
      /\ ToSet(timers)' = IF timed THEN ToSet(timers) \cup {c} ELSE ToSet(timers)
      /\ Ordered(timers, Apart)' /\ Ordered(timers, Earlier)'
      /\ armed' \in 0..Disarmed
      /\ edge' \in {edge, edge \ {"timer"}}
      /\ \E l \in 0..MaxTicks : call' = [call EXCEPT ![c].left = l]
      /\ \/ "timer" \in edge' \/ "timer" \in ToSet(list_)
         \/ \A d \in ToSet(timers)' : armed' <= call'[d].left
  <2>1. CASE RunSleep(c)
    BY <1>2, <1>4, <1>5, <1>6, <2>1, AddTimerIs DEF WaitInv
  <2>2. CASE RunWait(c) /\ call[c].limit > 0
    BY <1>2, <1>4, <1>5, <1>6, <2>2, AddTimerIs DEF WaitInv
  <2>3. CASE RunWait(c) /\ ~(call[c].limit > 0)
    <3>1. UNCHANGED <<armed, timers, edge, call>> /\ ~timed
      BY <1>6, <2>3
    <3>2. call = [call EXCEPT ![c].left = call[c].left]
      BY <1>2 DEF Call
    <3>3. QED
      BY <1>2, <1>3, <1>5, <3>1, <3>2 DEF Timers, Waiters, Earlier, Ordered, ToSet
  <2>4. QED
    BY <1>1, <2>1, <2>2, <2>3
<1>8. /\ call' \in [Coros -> Call]
      /\ call'[c].op = call[c].op /\ call'[c].n = call[c].n /\ call'[c].limit = call[c].limit
      /\ call'[c].done = call[c].done /\ call'[c].pushed = call[c].pushed
      /\ call'[c].ret = call[c].ret
      /\ \A d \in Coros \ {c} : call'[d] = call[d]
  <2>1. PICK l \in 0..MaxTicks : call' = [call EXCEPT ![c].left = l]
    BY <1>7
  <2>2. call'[c] = [call[c] EXCEPT !.left = l] /\ \A d \in Coros \ {c} : call'[d] = call[d]
    BY <1>2, <1>4, <2>1
  <2>3. /\ call'[c] \in Call
        /\ call'[c].op = call[c].op /\ call'[c].n = call[c].n /\ call'[c].limit = call[c].limit
        /\ call'[c].done = call[c].done /\ call'[c].pushed = call[c].pushed
        /\ call'[c].ret = call[c].ret
    BY <1>5, <2>2 DEF Call
  <2>4. QED
    BY <1>2, <1>4, <2>1, <2>2, <2>3
<1>9. /\ items_' \in Seq(Coros) /\ Ordered(items_', Apart)
      /\ ToSet(items_)' = IF call[c].op = "sleep" THEN ToSet(items_) ELSE ToSet(items_) \cup {c}
      /\ revents_' = revents_ /\ waked_' \in BOOLEAN
  <2>1. Ordered(items_, Apart)
    BY <1>2 DEF Waiters
  <2>2. CASE RunSleep(c)
    BY <1>2, <1>6, <2>1, <2>2
  <2>3. CASE RunWait(c)
    <3>1. \A x \in ToSet(items_) : <<x, c>> \in Apart
      BY <1>2, <1>4, <1>5, EntriesAre DEF Apart
    <3>2. /\ Append(items_, c) \in Seq(Coros) /\ Ordered(Append(items_, c), Apart)
          /\ ToSet(Append(items_, c)) = ToSet(items_) \cup {c}
      BY <1>2, <1>4, <2>1, <3>1, AppendIs
    <3>3. QED
      BY <1>2, <1>6, <2>3, <3>2
  <2>4. QED
    BY <1>1, <2>2, <2>3
<1>10. /\ list_' \in Seq({"file", "timer"})
       /\ ToSet(list_) \subseteq ToSet(list_)'
       /\ RunWait(c) /\ ~waked_ => "file" \in ToSet(list_)'
  <2>1. CASE RunSleep(c) \/ (RunWait(c) /\ waked_)
    <3>1. list_' = list_ /\ ~(RunWait(c) /\ ~waked_)
      BY <1>6, <2>1
    <3>2. QED
      BY <1>2, <3>1
  <2>2. CASE RunWait(c) /\ ~waked_
    <3>1. list_' = Append(list_, "file")
      BY <1>6, <2>2
    <3>2. /\ Append(list_, "file") \in Seq({"file", "timer"})
          /\ ToSet(Append(list_, "file")) = ToSet(list_) \cup {"file"}
      BY <1>2, AppendIs
    <3>3. QED
      BY <3>1, <3>2
  <2>3. QED
    BY <1>1, <2>1, <2>2
<1>11. TypeOK'
  BY <1>1, <1>2, <1>3, <1>4, <1>7, <1>8, <1>9, <1>10 DEF TypeOK
<1>12. ASSUME NEW d \in Coros
       PROVE  /\ Sleeps(d)' <=> Sleeps(d)
              /\ co'[d] = IF d = c THEN "wait" ELSE co[d]
              /\ call'[d].op = call[d].op /\ call'[d].limit = call[d].limit
              /\ d \in ToSet(funcs_)' <=> d \in ToSet(funcs_) /\ d # c
  BY <1>1, <1>2, <1>4, <1>8 DEF Sleeps
<1>13. Waiters'
  <2>1. Ordered(funcs_, Apart)' /\ Ordered(items_, Apart)' /\ Ordered(timers, Apart)'
    BY <1>3, <1>4, <1>7, <1>9
  <2>2. ASSUME NEW d \in Coros
        PROVE  /\ d \in ToSet(funcs_)' <=> co'[d] = "asked"
               /\ d \in ToSet(items_)' <=> co'[d] = "wait" /\ ~Sleeps(d)'
               /\ d \in ToSet(timers)' => co'[d] = "wait" /\ (Sleeps(d)' \/ call'[d].limit > 0)
               /\ co'[d] = "wait" /\ Sleeps(d)' => d \in ToSet(timers)'
               /\ co'[d] # "run" => call'[d].op # "none"
               /\ call'[d].limit > 0 => call'[d].op \in (TimedOps \ {"sleep"})'
    <3>1. CASE d = c
      BY <1>2, <1>3, <1>5, <1>7, <1>9, <1>12, <3>1 DEF Waiters, Sleeps
    <3>2. CASE d # c
      BY <1>2, <1>3, <1>7, <1>9, <1>12, <3>2 DEF Waiters
    <3>3. QED
      BY <3>1, <3>2
  <2>3. QED
    BY <2>1, <2>2 DEF Waiters
<1>14. Paired'
  BY <1>1, <1>2, <1>3, <1>7, <1>12 DEF Paired
<1>15. Writers'
  <2>1. ASSUME NEW d \in Coros, call'[d].op = "writev"
        PROVE  /\ call'[d].done = call'[d].pushed /\ call'[d].done <= call'[d].n
               /\ co'[d] = "run" /\ call'[d].ret # Failed =>
                    call'[d].ret = call'[d].n /\ call'[d].pushed = call'[d].n
    <3>1. CASE d = c
      BY <1>2, <1>4, <1>8, <1>12, <2>1, <3>1 DEF Writers
    <3>2. CASE d # c
      BY <1>2, <1>8, <1>12, <2>1, <3>2 DEF Writers, WriteExact
    <3>3. QED
      BY <3>1, <3>2
  <2>2. QED
    BY <2>1 DEF Writers, WriteExact
<1>16. Timers'
  BY <1>7, <1>10 DEF Timers
<1>17. FileListed'
  <2>1. ASSUME NEW d \in Coros
        PROVE  Concerned(d)' => Concerned(d) /\ revents_ # {}
    BY <1>9, <1>12 DEF Concerned, EventsOf
  <2>2. ASSUME NEW d \in ToSet(items_)', Concerned(d)'
        PROVE  "file" \in ToSet(list_)'
    <3>1. CASE d \in ToSet(items_)
      <4>1. d \in Coros
        BY <1>2, <3>1, EntriesAre
      <4>2. QED
        BY <1>2, <1>10, <2>1, <2>2, <3>1, <4>1 DEF FileListed
    <3>2. CASE d = c /\ call[c].op # "sleep"
      <4>1. revents_ # {} /\ RunWait(c)
        BY <1>1, <1>4, <1>6, <2>1, <2>2, <3>2
      <4>2. QED
        BY <1>2, <1>10, <4>1 DEF FileListed
    <3>3. QED
      BY <1>9, <2>2, <3>1, <3>2
  <2>3. revents_' # {} /\ waked_' => "file" \in ToSet(list_)'
    <3>1. RunSleep(c) => waked_' = waked_
      BY <1>6
    <3>2. QED
      BY <1>1, <1>2, <1>9, <1>10, <3>1 DEF FileListed
  <2>4. QED
    BY <1>1, <2>2, <2>3 DEF FileListed
<1>18. Edges'
  <2>1. "file" \in edge' <=> "file" \in edge
    BY <1>7
  <2>2. QED
    BY <1>1, <1>2, <1>3, <1>9, <1>12, <2>1 DEF Edges
<1>19. QED
  BY <1>2, <1>11, <1>13, <1>14, <1>15, <1>16, <1>17, <1>18 DEF WaitInv

LEMMA MinIs == \A a, b \in Int : Min({a, b}) = IF a <= b THEN a ELSE b
<1>1. SUFFICES ASSUME NEW a \in Int, NEW b \in Int
               PROVE  Min({a, b}) = IF a <= b THEN a ELSE b
  OBVIOUS
<1> DEFINE m == IF a <= b THEN a ELSE b
           Least(x) == x \in {a, b} /\ \A y \in {a, b} : x <= y
<1>2. Least(m) /\ \A x : Least(x) => x = m
  OBVIOUS
<1>3. Min({a, b}) = CHOOSE x : Least(x)
  BY DEF Min
<1> HIDE DEF m, Least
<1>4. QED
  BY <1>2, <1>3 DEF m

LEMMA CurrentIs ==
  ASSUME WaitInv, NEW c \in Coros, Current(c)
  PROVE  /\ pc = "scan" /\ "file" \in ToSet(list_)
         /\ c \in ToSet(items_) /\ Concerned(c)
         /\ co[c] = "wait" /\ ~Sleeps(c)
         /\ call[c].limit > 0 \/ c \notin ToSet(timers)
<1>1. items_ \in Seq(Coros) /\ list_ \in Seq({"file", "timer"}) /\ Waiters
  BY DEF WaitInv, TypeOK
<1>2. pc = "scan" /\ list_ # <<>> /\ Head(list_) = "file"
  BY DEF Current, Scanning
<1>3. "file" \in ToSet(list_)
  BY <1>1, <1>2, TailIs
<1> DEFINE I == {i \in 1..Len(items_) : Concerned(items_[i])}
           first == SelectInSeq(items_, Concerned)
<1>4. first > 0 /\ items_[first] = c
  BY DEF Current
<1>5. first = IF I # {} THEN Min(I) ELSE 0
  BY DEF SelectInSeq
<1>6. I \in SUBSET Nat /\ (I = {} => ~(first > 0))
  BY <1>5
<1> HIDE DEF first
<1>7. I # {} /\ first = Min(I)
  BY <1>4, <1>5, <1>6
<1>8. first \in I
  <2> HIDE DEF I
  <2>1. QED
    BY <1>6, <1>7, LeastIsMin
<1>9. c \in ToSet(items_) /\ Concerned(c)
  BY <1>1, <1>4, <1>8, EntriesAre
<1>10. QED
  BY <1>1, <1>2, <1>3, <1>9 DEF Waiters

LEMMA TimerErasedIs ==
  ASSUME WaitInv, NEW c \in Coros, TimerErased(c)
  PROVE  /\ timers' \in Seq(Coros)
         /\ ToSet(timers)' = IF call[c].limit > 0 THEN ToSet(timers) \ {c} ELSE ToSet(timers)
         /\ Ordered(timers', Apart) /\ Ordered(timers', Earlier)
         /\ erasedTwice' \in BOOLEAN
         /\ (call[c].limit > 0 /\ c \notin ToSet(timers)) \/ erasedTwice' = erasedTwice
<1>1. /\ timers \in Seq(Coros) /\ Ordered(timers, Apart) /\ Ordered(timers, Earlier)
      /\ erasedTwice \in BOOLEAN
  BY DEF WaitInv, TypeOK, Waiters, Timers
<1>2. CASE call[c].limit > 0
  <2>1. timers' = Without(timers, {c}) /\ erasedTwice' = (erasedTwice \/ ~Contains(timers, c))
    BY <1>2 DEF TimerErased
  <2>2. Contains(timers, c) <=> c \in ToSet(timers)
    BY <1>1, EntriesAre DEF Contains
  <2>3. timers' \in Seq(Coros) /\ ToSet(timers') = ToSet(timers) \ {c}
        /\ Ordered(timers', Apart) /\ Ordered(timers', Earlier)
    BY <1>1, <2>1, WithoutIs
  <2>4. QED
    BY <1>1, <1>2, <2>1, <2>2, <2>3
<1>3. CASE ~(call[c].limit > 0)
  <2>1. UNCHANGED <<timers, erasedTwice>>
    BY <1>3 DEF TimerErased
  <2>2. QED
    BY <1>1, <1>3, <2>1
<1>4. QED
  BY <1>2, <1>3

\* A callback blocks: the entry stays where it is.
LEMMA BlockedStep ==
  ASSUME WaitInv, program' = program, NEW c \in Coros, Current(c), Blocked(c),
         call[c].op \in TransferOps,
         NEW r \in Call, call' = [call EXCEPT ![c] = r],
         r.op = call[c].op /\ r.limit = call[c].limit /\ r.left = call[c].left,
         r.op = "writev" => r.done = r.pushed /\ r.done <= r.n,
         avail' \in 0..MaxData, space' \in 0..MaxData, starved' \in BOOLEAN,
         Edges'
  PROVE  WaitInv'
<1>1. /\ revents_' = revents_ \ EventsOf(c) /\ TimerErased(c)
      /\ UNCHANGED <<link, eof, edge, funcs_, pc, list_, waked_, armed, items_, co>>
  BY DEF Blocked, Callback
<1>2. /\ program' \in Programs /\ TypeOK
      /\ call \in [Coros -> Call] /\ co \in [Coros -> {"run", "asked", "wait"}]
      /\ items_ \in Seq(Coros) /\ revents_ \subseteq {"IN", "OUT", "RDHUP"}
      /\ Waiters /\ Paired /\ Writers /\ Timers /\ FileListed
  BY DEF WaitInv, TypeOK
<1>3. /\ MaxData' = MaxData /\ Disarmed' = Disarmed /\ Call' = Call /\ TimedOps' = TimedOps
      /\ (NoTransferLimited' <=> NoTransferLimited) /\ Apart' = Apart
  BY SameProgram DEF Apart
<1>4. /\ timers' \in Seq(Coros)
      /\ ToSet(timers)' = IF call[c].limit > 0 THEN ToSet(timers) \ {c} ELSE ToSet(timers)
      /\ Ordered(timers', Apart) /\ Ordered(timers', Earlier)
      /\ erasedTwice' \in BOOLEAN
      /\ call[c].limit > 0 \/ erasedTwice' = erasedTwice
  BY <1>1, TimerErasedIs
<1>5. /\ co[c] = "wait" /\ ~Sleeps(c) /\ pc = "scan"
  BY CurrentIs
<1>6. /\ call' \in [Coros -> Call] /\ call'[c] = r
      /\ \A d \in Coros \ {c} : call'[d] = call[d]
      /\ \A d \in Coros : /\ call'[d].op = call[d].op /\ call'[d].limit = call[d].limit
                          /\ call'[d].left = call[d].left /\ (Sleeps(d)' <=> Sleeps(d))
  BY <1>2 DEF Sleeps
<1>7. TypeOK'
  BY <1>1, <1>2, <1>3, <1>4, <1>6 DEF TypeOK
<1>8. Waiters'
  <2>1. Ordered(funcs_, Apart)' /\ Ordered(items_, Apart)' /\ Ordered(timers, Apart)'
    BY <1>1, <1>2, <1>3, <1>4 DEF Waiters
  <2>2. ToSet(funcs_)' = ToSet(funcs_) /\ ToSet(items_)' = ToSet(items_)
    BY <1>1
  <2>3. QED
    BY <1>1, <1>2, <1>3, <1>4, <1>5, <1>6, <2>1, <2>2 DEF Waiters
<1>9. Paired'
  <2>1. SUFFICES ASSUME NoTransferLimited
                 PROVE  /\ ~erasedTwice'
                        /\ \A d \in Coros : co'[d] = "wait" /\ call'[d].limit > 0 => d \in ToSet(timers)'
    BY <1>3 DEF Paired
  <2>2. ~(call[c].limit > 0)
    BY <1>2, <2>1 DEF Waiters, NoTransferLimited
  <2>3. QED
    BY <1>1, <1>2, <1>4, <1>6, <2>1, <2>2 DEF Paired
<1>10. Writers'
  <2>1. ASSUME NEW d \in Coros, call'[d].op = "writev"
        PROVE  /\ call'[d].done = call'[d].pushed /\ call'[d].done <= call'[d].n
               /\ co'[d] = "run" /\ call'[d].ret # Failed =>
                    call'[d].ret = call'[d].n /\ call'[d].pushed = call'[d].n
    <3>1. CASE d = c
      BY <1>1, <1>5, <1>6, <2>1, <3>1
    <3>2. CASE d # c
      BY <1>1, <1>2, <1>6, <2>1, <3>2 DEF Writers, WriteExact
    <3>3. QED
      BY <3>1, <3>2
  <2>2. QED
    BY <2>1 DEF Writers, WriteExact
<1>11. Timers'
  <2>1. ToSet(timers') = ToSet(timers)' /\ ToSet(timers)' \subseteq ToSet(timers)
        /\ ToSet(timers)' \subseteq Coros /\ ToSet(list_)' = ToSet(list_)
    <3>1. ToSet(timers') = ToSet(timers)' /\ ToSet(list_)' = ToSet(list_)
      BY <1>1 DEF ToSet
    <3>2. ToSet(timers') \subseteq Coros
      BY <1>4, EntriesAre
    <3>3. QED
      BY <1>4, <3>1, <3>2
  <2>2. Ordered(timers', Earlier')
    <3>1. \A a, b \in ToSet(timers') : call[a].left <= call[b].left => call'[a].left <= call'[b].left
      BY <1>6, <2>1
    <3>2. QED
      BY <1>4, <3>1, SortedKept
  <2>3. \A d \in ToSet(timers)' : armed <= call[d].left => armed' <= call'[d].left
    BY <1>1, <1>6, <2>1
  <2>4. QED
    BY <1>1, <1>2, <2>1, <2>2, <2>3 DEF Timers
<1>12. FileListed'
  <2>1. ASSUME NEW d \in ToSet(items_), Concerned(d)'
        PROVE  Concerned(d)
    <3>1. d \in Coros /\ EventsOf(d)' = EventsOf(d)
      BY <1>2, <1>6, EntriesAre DEF EventsOf
    <3>2. QED
      BY <1>1, <2>1, <3>1 DEF Concerned
  <2>2. ToSet(items_)' = ToSet(items_) /\ ToSet(list_)' = ToSet(list_)
    BY <1>1
  <2>3. QED
    BY <1>1, <1>2, <1>5, <2>1, <2>2 DEF FileListed
<1>13. QED
  BY <1>2, <1>7, <1>8, <1>9, <1>10, <1>11, <1>12 DEF WaitInv

\* A callback is done: both entries go, and the coroutine goes on.
LEMMA FinishedStep ==
  ASSUME WaitInv, program' = program, NEW c \in Coros, Current(c),
         NEW r \in Call, NEW exhausted \in BOOLEAN, Finished(c, r, exhausted),
         r.op = call[c].op,
         r.op = "writev" => /\ r.done = r.pushed /\ r.done <= r.n
                            /\ r.ret # Failed => r.ret = r.n /\ r.pushed = r.n,
         avail' \in 0..MaxData, space' \in 0..MaxData, starved' \in BOOLEAN,
         Edges'
  PROVE  WaitInv'
<1>1. /\ revents_' \subseteq revents_ /\ TimerErased(c)
      /\ UNCHANGED <<link, eof, edge, funcs_, pc, list_, waked_, armed>>
      /\ items_' = Without(items_, {c})
      /\ call' = [call EXCEPT ![c] = Over(r)]
      /\ co' = [co EXCEPT ![c] = "run"]
  BY DEF Finished, Callback
<1>2. /\ program' \in Programs /\ program \in Programs /\ MaxTicks \in Nat /\ TypeOK
      /\ call \in [Coros -> Call] /\ co \in [Coros -> {"run", "asked", "wait"}]
      /\ items_ \in Seq(Coros) /\ revents_ \subseteq {"IN", "OUT", "RDHUP"}
      /\ Waiters /\ Paired /\ Writers /\ Timers /\ FileListed
  BY ProgramFacts DEF WaitInv, TypeOK
<1>3. /\ MaxData' = MaxData /\ Disarmed' = Disarmed /\ Call' = Call /\ TimedOps' = TimedOps
      /\ (NoTransferLimited' <=> NoTransferLimited) /\ Apart' = Apart
  BY SameProgram DEF Apart
<1>4. /\ timers' \in Seq(Coros)
      /\ ToSet(timers)' = IF call[c].limit > 0 THEN ToSet(timers) \ {c} ELSE ToSet(timers)
      /\ Ordered(timers', Apart) /\ Ordered(timers', Earlier)
      /\ erasedTwice' \in BOOLEAN
      /\ (call[c].limit > 0 /\ c \notin ToSet(timers)) \/ erasedTwice' = erasedTwice
  BY <1>1, TimerErasedIs
<1>5. /\ co[c] = "wait" /\ ~Sleeps(c) /\ pc = "scan"
      /\ call[c].limit > 0 \/ c \notin ToSet(timers)
  BY CurrentIs
<1>6. ToSet(timers)' = ToSet(timers) \ {c}
  BY <1>4, <1>5
<1>7. items_' \in Seq(Coros) /\ ToSet(items_') = ToSet(items_) \ {c} /\ Ordered(items_', Apart)
  <2>1. Ordered(items_, Apart)
    BY <1>2 DEF Waiters
  <2>2. QED
    BY <1>1, <1>2, <2>1, WithoutIs
<1>8. /\ Over(r) \in Call /\ Over(r).op = r.op /\ Over(r).limit = 0 /\ Over(r).n = r.n
      /\ Over(r).done = r.done /\ Over(r).pushed = r.pushed /\ Over(r).ret = r.ret
  <2> DEFINE s == [r EXCEPT !.limit = 0]
  <2>1. 0 \in 0..MaxTicks
    BY <1>2
  <2>2. /\ s \in Call /\ s.op = r.op /\ s.limit = 0 /\ s.n = r.n
        /\ s.done = r.done /\ s.pushed = r.pushed /\ s.ret = r.ret
    BY <2>1 DEF Call
  <2>3. Over(r) = [s EXCEPT !.left = 0]
    BY DEF Over
  <2> HIDE DEF s
  <2>4. QED
    BY <2>1, <2>2, <2>3 DEF Call
<1>9. /\ call' \in [Coros -> Call] /\ call'[c] = Over(r)
      /\ \A d \in Coros \ {c} : call'[d] = call[d] /\ co'[d] = co[d]
      /\ co'[c] = "run" /\ co' \in [Coros -> {"run", "asked", "wait"}]
      /\ \A d \in Coros : call'[d].op = call[d].op /\ (Sleeps(d)' <=> Sleeps(d))
  BY <1>1, <1>2, <1>8 DEF Sleeps
<1>10. TypeOK'
  BY <1>1, <1>2, <1>3, <1>4, <1>7, <1>9 DEF TypeOK
<1>11. Waiters'
  <2>1. Ordered(funcs_, Apart)' /\ Ordered(items_, Apart)' /\ Ordered(timers, Apart)'
    BY <1>1, <1>2, <1>3, <1>4, <1>7 DEF Waiters
  <2>2. ToSet(funcs_)' = ToSet(funcs_) /\ ToSet(items_)' = ToSet(items_) \ {c}
    BY <1>1, <1>7 DEF ToSet
  <2>3. QED
    BY <1>2, <1>3, <1>5, <1>6, <1>8, <1>9, <2>1, <2>2 DEF Waiters
<1>12. Paired'
  BY <1>2, <1>3, <1>4, <1>5, <1>6, <1>9 DEF Paired
<1>13. Writers'
  <2>1. ASSUME NEW d \in Coros, call'[d].op = "writev"
        PROVE  /\ call'[d].done = call'[d].pushed /\ call'[d].done <= call'[d].n
               /\ co'[d] = "run" /\ call'[d].ret # Failed =>
                    call'[d].ret = call'[d].n /\ call'[d].pushed = call'[d].n
    <3>1. CASE d = c
      BY <1>8, <1>9, <2>1, <3>1
    <3>2. CASE d # c
      BY <1>2, <1>9, <2>1, <3>2 DEF Writers, WriteExact
    <3>3. QED
      BY <3>1, <3>2
  <2>2. QED
    BY <2>1 DEF Writers, WriteExact
<1>14. Timers'
  <2>1. ToSet(timers') = ToSet(timers)' /\ ToSet(timers)' \subseteq ToSet(timers)
        /\ ToSet(timers)' \subseteq Coros /\ c \notin ToSet(timers)'
        /\ ToSet(list_)' = ToSet(list_)
    <3>1. ToSet(timers') = ToSet(timers)' /\ ToSet(list_)' = ToSet(list_)
      BY <1>1 DEF ToSet
    <3>2. ToSet(timers') \subseteq Coros
      BY <1>4, EntriesAre
    <3>3. QED
      BY <1>6, <3>1, <3>2
  <2>2. Ordered(timers', Earlier')
    <3>1. \A a, b \in ToSet(timers') : call[a].left <= call[b].left => call'[a].left <= call'[b].left
      BY <1>9, <2>1
    <3>2. QED
      BY <1>4, <3>1, SortedKept
  <2>3. \A d \in ToSet(timers)' : armed <= call[d].left => armed' <= call'[d].left
    BY <1>1, <1>9, <2>1
  <2>4. QED
    BY <1>1, <1>2, <2>1, <2>2, <2>3 DEF Timers
<1>15. FileListed'
  <2>1. ASSUME NEW d \in ToSet(items_), Concerned(d)'
        PROVE  Concerned(d)
    <3>1. d \in Coros /\ EventsOf(d)' = EventsOf(d)
      BY <1>2, <1>9, EntriesAre DEF EventsOf
    <3>2. QED
      BY <1>1, <2>1, <3>1 DEF Concerned
  <2>2. ToSet(items_)' \subseteq ToSet(items_) /\ ToSet(list_)' = ToSet(list_)
    BY <1>1, <1>7 DEF ToSet
  <2>3. QED
    BY <1>1, <1>2, <1>5, <2>1, <2>2 DEF FileListed
<1>16. QED
  BY <1>2, <1>10, <1>11, <1>12, <1>13, <1>14, <1>15 DEF WaitInv

LEMMA SocketIs ==
  ASSUME WaitInv
  PROVE  /\ program \in Programs /\ MaxData \in Nat /\ MaxData > 0 /\ MaxTicks \in Nat
         /\ TypeOK /\ Edges /\ Waiters /\ Writers
         /\ link \in {"new", "connecting", "up", "refused"}
         /\ avail \in 0..MaxData /\ space \in 0..MaxData
         /\ eof \in BOOLEAN /\ starved \in BOOLEAN
         /\ call \in [Coros -> Call]
BY ProgramFacts DEF WaitInv, TypeOK

\* A call after its result was set.
LEMMA ResultIs ==
  ASSUME NEW r \in Call, NEW ret \in Failed..MaxData
  PROVE  /\ [r EXCEPT !.ret = ret] \in Call
         /\ [r EXCEPT !.ret = ret].op = r.op /\ [r EXCEPT !.ret = ret].ret = ret
         /\ [r EXCEPT !.ret = ret].n = r.n
         /\ [r EXCEPT !.ret = ret].done = r.done /\ [r EXCEPT !.ret = ret].pushed = r.pushed
BY DEF Call

LEMMA TryConnectStep ==
  ASSUME WaitInv, program' = program, NEW c \in Coros, TryConnect(c)
  PROVE  WaitInv'
<1> DEFINE r == [call[c] EXCEPT !.ret = 0]
<1>1. /\ Current(c) /\ call[c].op = "connect" /\ Finished(c, r, FALSE)
      /\ UNCHANGED <<avail, space, starved>>
  BY DEF TryConnect
<1>2. /\ MaxData \in Nat /\ Edges /\ call \in [Coros -> Call] /\ call[c] \in Call
      /\ avail \in 0..MaxData /\ space \in 0..MaxData /\ starved \in BOOLEAN
  BY SocketIs
<1>3. 0 \in Failed..MaxData
  BY <1>2 DEF Failed
<1>4. r \in Call /\ r.op = call[c].op
  BY <1>2, <1>3, ResultIs
<1>5. Over(r).op = r.op
  BY <1>4 DEF Over, Call
<1> HIDE DEF r
<1>6. Edges'
  <2>1. UNCHANGED <<link, eof, edge, revents_>> /\ call' = [call EXCEPT ![c] = Over(r)]
    BY <1>1 DEF Finished, Callback
  <2>2. \A d \in Coros : call'[d].op = call[d].op
    BY <1>2, <1>4, <1>5, <2>1
  <2>3. MaxData' = MaxData
    BY SameProgram
  <2>4. QED
    BY <1>1, <1>2, <2>1, <2>2, <2>3 DEF Edges
<1>7. FALSE \in BOOLEAN /\ r.op # "writev"
  BY <1>1, <1>4
<1>8. avail' \in 0..MaxData /\ space' \in 0..MaxData /\ starved' \in BOOLEAN
  BY <1>1, <1>2
<1>9. QED
  BY <1>1, <1>4, <1>6, <1>7, <1>8, FinishedStep

LEMMA TryReadStep ==
  ASSUME WaitInv, program' = program, NEW c \in Coros, TryRead(c)
  PROVE  WaitInv'
<1> DEFINE size == Min({avail, call[c].n})
           r == [call[c] EXCEPT !.ret = size]
<1>1. /\ Current(c) /\ call[c].op \in {"recv", "readv"}
      /\ avail' = avail - size
      /\ IF avail = 0 /\ ~eof
         THEN Blocked(c) /\ UNCHANGED call
         ELSE Finished(c, r, ShortRead(c, size))
      /\ UNCHANGED <<space, starved>>
  BY DEF TryRead
<1>2. /\ program \in Programs /\ MaxData \in Nat /\ Edges /\ call \in [Coros -> Call]
      /\ call[c] \in Call /\ call[c].n \in 0..MaxData
      /\ avail \in 0..MaxData /\ space \in 0..MaxData /\ starved \in BOOLEAN
  BY SocketIs, CallOf
<1>3. size = IF avail <= call[c].n THEN avail ELSE call[c].n
  BY <1>2, MinIs
<1> HIDE DEF size
<1>4. /\ size \in 0..MaxData /\ avail - size \in 0..MaxData
      /\ avail - size > 0 => avail > 0 /\ ~(size < call[c].n)
      /\ avail = 0 => avail - size = 0
  BY <1>2, <1>3
<1>5. EventsOf(c) = {"IN"} /\ call[c].op \in TransferOps /\ call[c].op # "writev"
  BY <1>1 DEF EventsOf, TransferOps
<1>6. avail' \in 0..MaxData /\ space' \in 0..MaxData /\ starved' \in BOOLEAN
  BY <1>1, <1>2, <1>4
<1>7. MaxData' = MaxData
  BY SameProgram
<1>8. CASE avail = 0 /\ ~eof
  <2>1. /\ Blocked(c) /\ call' = call
        /\ UNCHANGED <<link, eof, edge>> /\ revents_' = revents_ \ {"IN"}
    BY <1>1, <1>5, <1>8 DEF Blocked, Callback
  <2>2. Edges'
    BY <1>1, <1>2, <1>4, <1>7, <1>8, <2>1 DEF Edges
  <2>3. call' = [call EXCEPT ![c] = call[c]]
    BY <1>2, <2>1
  <2>4. QED
    BY <1>1, <1>2, <1>5, <1>6, <2>1, <2>2, <2>3, BlockedStep
<1>9. CASE ~(avail = 0 /\ ~eof)
  <2>1. Finished(c, r, ShortRead(c, size))
    BY <1>1, <1>9
  <2>2. size \in Failed..MaxData
    BY <1>2, <1>4 DEF Failed
  <2>3. r \in Call /\ r.op = call[c].op
    BY <1>2, <2>2, ResultIs
  <2>4. Over(r).op = r.op
    BY <2>3 DEF Over, Call
  <2>5. ShortRead(c, size) \in BOOLEAN /\ (ShortRead(c, size) => size < call[c].n)
    BY DEF ShortRead
  <2> HIDE DEF r
  <2>6. /\ UNCHANGED <<link, eof, edge>>
        /\ revents_' = IF ShortRead(c, size) THEN revents_ \ {"IN"} ELSE revents_
        /\ call' = [call EXCEPT ![c] = Over(r)]
    BY <1>5, <2>1 DEF Finished, Callback
  <2>7. \A d \in Coros : call'[d].op = call[d].op
    BY <1>2, <2>3, <2>4, <2>6
  <2>8. avail' > 0 => avail > 0 /\ revents_' = revents_
    BY <1>1, <1>4, <2>5, <2>6
  <2>9. revents_' \subseteq revents_ /\ revents_ \ {"IN"} \subseteq revents_'
    BY <2>6
  <2>10. Edges'
    BY <1>1, <1>2, <1>4, <1>7, <2>6, <2>7, <2>8, <2>9 DEF Edges
  <2>11. QED
    BY <1>1, <1>5, <1>6, <2>1, <2>3, <2>5, <2>10, FinishedStep
<1>10. QED
  BY <1>8, <1>9

LEMMA WrittenIs ==
  ASSUME WaitInv, NEW c \in Coros, call[c].op = "writev",
         NEW size \in Nat, size <= call[c].n - call[c].done
  PROVE  /\ Written(c, size) \in Call
         /\ Written(c, size).op = "writev" /\ Written(c, size).n = call[c].n
         /\ Written(c, size).limit = call[c].limit /\ Written(c, size).left = call[c].left
         /\ Written(c, size).done = call[c].done + size
         /\ Written(c, size).pushed = call[c].done + size
         /\ Written(c, size).ret = call[c].done + size
<1>1. /\ program \in Programs /\ MaxData \in Nat /\ call[c] \in Call
      /\ call[c].n \in 0..MaxData /\ call[c].done \in 0..MaxData
      /\ call[c].pushed = call[c].done
  BY SocketIs, CallOf DEF Writers
<1> DEFINE total == call[c].done + size
<1>2. total \in 0..MaxData /\ total \in Failed..MaxData
  BY <1>1 DEF Failed
<1>3. Written(c, size) = [[[call[c] EXCEPT !.done = total] EXCEPT !.pushed = total] EXCEPT !.ret = total]
  BY <1>1 DEF Written, Call
<1> HIDE DEF total
<1> DEFINE a == [call[c] EXCEPT !.done = total]
           b == [a EXCEPT !.pushed = total]
<1>4. /\ a \in Call /\ a.op = "writev" /\ a.n = call[c].n /\ a.limit = call[c].limit
      /\ a.left = call[c].left /\ a.done = total
  BY <1>1, <1>2 DEF Call
<1>5. /\ b \in Call /\ b.op = "writev" /\ b.n = call[c].n /\ b.limit = call[c].limit
      /\ b.left = call[c].left /\ b.done = total /\ b.pushed = total
  <2> HIDE DEF a
  <2>1. QED
    BY <1>2, <1>4 DEF Call
<1>6. Written(c, size) = [b EXCEPT !.ret = total]
  BY <1>3
<1> HIDE DEF a, b
<1>7. QED
  BY <1>2, <1>5, <1>6 DEF Call, total

LEMMA TryWriteStep ==
  ASSUME WaitInv, program' = program, NEW c \in Coros, TryWrite(c)
  PROVE  WaitInv'
<1> DEFINE size == Min({space, call[c].n - call[c].done})
           w == Written(c, size)
<1>1. Current(c) /\ call[c].op = "writev" /\ avail' = avail
  BY DEF TryWrite
<1>2. /\ program \in Programs /\ MaxData \in Nat /\ Edges /\ call \in [Coros -> Call]
      /\ link \in {"new", "connecting", "up", "refused"}
      /\ call[c] \in Call /\ call[c].n \in 0..MaxData /\ call[c].done \in 0..MaxData
      /\ call[c].done = call[c].pushed /\ call[c].done <= call[c].n
      /\ avail \in 0..MaxData /\ space \in 0..MaxData /\ starved \in BOOLEAN
  BY <1>1, SocketIs, CallOf DEF Writers
<1>3. EventsOf(c) = {"OUT"} /\ call[c].op \in TransferOps /\ ~Sleeps(c)
  BY <1>1 DEF EventsOf, TransferOps, Sleeps
<1>4. MaxData' = MaxData
  BY SameProgram
<1>5. CASE PeerGone /\ Finished(c, [call[c] EXCEPT !.ret = Failed], FALSE) /\ UNCHANGED <<space, starved>>
  <2> DEFINE r == [call[c] EXCEPT !.ret = Failed]
  <2>1. Failed \in Failed..MaxData
    BY <1>2 DEF Failed
  <2>2. r \in Call /\ r.op = "writev" /\ r.ret = Failed /\ r.n = call[c].n
        /\ r.done = call[c].done /\ r.pushed = call[c].pushed
    BY <1>1, <1>2, <2>1, ResultIs
  <2>3. Over(r).op = "writev"
    BY <2>2 DEF Over, Call
  <2> HIDE DEF r
  <2>4. /\ Finished(c, r, FALSE) /\ UNCHANGED <<space, starved, link, eof, edge, revents_>>
        /\ call' = [call EXCEPT ![c] = Over(r)]
    BY <1>5 DEF Finished, Callback, r
  <2>5. \A d \in Coros : call'[d].op = call[d].op
    BY <1>1, <1>2, <2>3, <2>4
  <2>6. Edges'
    BY <1>1, <1>2, <1>4, <2>4, <2>5 DEF Edges
  <2>7. FALSE \in BOOLEAN /\ avail' \in 0..MaxData /\ space' \in 0..MaxData /\ starved' \in BOOLEAN
    BY <1>1, <1>2, <2>4
  <2>8. QED
    BY <1>1, <1>2, <2>2, <2>4, <2>6, <2>7, FinishedStep
<1>6. CASE /\ ~PeerGone /\ (link = "connecting" \/ space = 0)
           /\ Blocked(c) /\ starved' = TRUE /\ UNCHANGED <<call, space>>
  <2>1. UNCHANGED <<link, eof, edge>> /\ revents_' = revents_ \ {"OUT"}
    BY <1>3, <1>6 DEF Blocked, Callback
  <2>2. Edges'
    BY <1>1, <1>2, <1>4, <1>6, <2>1 DEF Edges
  <2>3. call' = [call EXCEPT ![c] = call[c]]
    BY <1>2, <1>6
  <2>4. avail' \in 0..MaxData /\ space' \in 0..MaxData /\ starved' \in BOOLEAN
    BY <1>1, <1>2, <1>6
  <2>5. QED
    BY <1>1, <1>2, <1>3, <1>6, <2>2, <2>3, <2>4, BlockedStep
<1>7. CASE /\ ~PeerGone /\ link = "up" /\ space > 0
           /\ space' = space - size
           /\ IF call[c].done + size = call[c].n
              THEN Finished(c, w, OutputDrained(c)) /\ UNCHANGED starved
              ELSE /\ Blocked(c)
                   /\ call' = [call EXCEPT ![c] = w]
                   /\ starved' = TRUE
  <2>1. call[c].n - call[c].done \in Nat /\ call[c].n - call[c].done \in Int /\ space \in Int
    BY <1>2
  <2>2. size = IF space <= call[c].n - call[c].done THEN space ELSE call[c].n - call[c].done
    BY <2>1, MinIs
  <2>3. /\ size \in Nat /\ size <= call[c].n - call[c].done
        /\ space - size \in 0..MaxData
        /\ call[c].done + size # call[c].n => space - size = 0
        /\ call[c].done + size <= call[c].n
    <3> HIDE DEF size
    <3>1. QED
      BY <1>2, <2>1, <2>2
  <2> HIDE DEF size
  <2>4. /\ w \in Call /\ w.op = "writev" /\ w.n = call[c].n
        /\ w.limit = call[c].limit /\ w.left = call[c].left
        /\ w.done = call[c].done + size /\ w.pushed = call[c].done + size
        /\ w.ret = call[c].done + size
    BY <1>1, <2>3, WrittenIs
  <2> HIDE DEF w
  <2>5. avail' \in 0..MaxData /\ space' \in 0..MaxData
    BY <1>1, <1>2, <1>7, <2>3
  <2>6. "RDHUP" \notin revents_ /\ "OUT" \in revents_
    <3>1. Concerned(c)
      BY <1>1, CurrentIs
    <3>2. QED
      BY <1>3, <1>7, <3>1 DEF Concerned, PeerGone
  <2>7. CASE call[c].done + size = call[c].n
    <3>1. /\ Finished(c, w, FALSE) /\ UNCHANGED <<starved, link, eof, edge, revents_>>
          /\ call' = [call EXCEPT ![c] = Over(w)]
      BY <1>7, <2>7 DEF Finished, Callback, OutputDrained
    <3>2. Over(w).op = w.op
      BY <2>4 DEF Over, Call
    <3>3. \A d \in Coros : call'[d].op = call[d].op
      BY <1>1, <1>2, <2>4, <3>1, <3>2
    <3>4. Edges'
      BY <1>1, <1>2, <1>4, <1>7, <2>6, <3>1, <3>3 DEF Edges
    <3>5. FALSE \in BOOLEAN /\ starved' \in BOOLEAN
      BY <1>2, <3>1
    <3>6. w.done = w.pushed /\ w.done <= w.n /\ w.ret = w.n /\ w.pushed = w.n
      BY <1>2, <2>4, <2>7
    <3>7. QED
      BY <1>1, <2>4, <2>5, <3>1, <3>4, <3>5, <3>6, FinishedStep
  <2>8. CASE call[c].done + size # call[c].n
    <3>1. /\ Blocked(c) /\ starved' = TRUE /\ UNCHANGED <<link, eof, edge>>
          /\ revents_' = revents_ \ {"OUT"} /\ call' = [call EXCEPT ![c] = w]
          /\ space' = 0
      BY <1>3, <1>7, <2>3, <2>8 DEF Blocked, Callback
    <3>2. \A d \in Coros : call'[d].op = call[d].op
      BY <1>1, <1>2, <2>4, <3>1
    <3>3. Edges'
      BY <1>1, <1>2, <1>4, <1>7, <3>1, <3>2 DEF Edges
    <3>4. w.done = w.pushed /\ w.done <= w.n
      BY <2>3, <2>4
    <3>5. starved' \in BOOLEAN
      BY <3>1
    <3>6. QED
      BY <1>1, <1>3, <2>4, <2>5, <3>1, <3>3, <3>4, <3>5, BlockedStep
  <2>9. QED
    BY <2>7, <2>8
<1>8. QED
  <2> HIDE DEF size, w
  <2>1. \/ PeerGone /\ Finished(c, [call[c] EXCEPT !.ret = Failed], FALSE) /\ UNCHANGED <<space, starved>>
        \/ /\ ~PeerGone /\ (link = "connecting" \/ space = 0)
           /\ Blocked(c) /\ starved' = TRUE /\ UNCHANGED <<call, space>>
        \/ /\ ~PeerGone /\ link = "up" /\ space > 0
           /\ space' = space - size
           /\ IF call[c].done + size = call[c].n
              THEN Finished(c, w, OutputDrained(c)) /\ UNCHANGED starved
              ELSE /\ Blocked(c)
                   /\ call' = [call EXCEPT ![c] = w]
                   /\ starved' = TRUE
    BY DEF TryWrite, size, w
  <2>2. QED
    BY <1>5, <1>6, <1>7, <2>1

\* The timers that are due are erased, and with them their entries of items_.
LEMMA TimersScannedStep ==
  ASSUME WaitInv, program' = program, TimersScanned
  PROVE  WaitInv'
<1> DEFINE due == {c \in ToSet(timers) : call[c].left = 0}
           rest == Without(timers, due)
           limited == {c \in due : call[c].limit > 0}
<1>1. /\ pc = "scan" /\ list_ # <<>> /\ Head(list_) = "timer"
      /\ timers' = rest /\ items_' = Without(items_, limited)
      /\ erasedTwice' = (erasedTwice \/ ~(limited \subseteq ToSet(items_)))
      /\ call' = [c \in Coros |->
                    CASE c \in limited -> Over([call[c] EXCEPT !.ret = Failed])
                      [] c \in due \ limited -> NoCall
                      [] OTHER -> call[c]]
      /\ co' = [c \in Coros |-> IF c \in due THEN "run" ELSE co[c]]
      /\ edge' = edge \ {"timer"} /\ armed' = Rearmed(rest) /\ list_' = Tail(list_)
      /\ UNCHANGED <<link, avail, eof, space, starved, funcs_, pc, revents_, waked_>>
  BY DEF TimersScanned, Scanning, socket
<1>2. /\ program' \in Programs /\ program \in Programs /\ MaxTicks \in Nat /\ MaxData \in Nat
      /\ TypeOK
      /\ call \in [Coros -> Call] /\ co \in [Coros -> {"run", "asked", "wait"}]
      /\ items_ \in Seq(Coros) /\ timers \in Seq(Coros) /\ list_ \in Seq({"file", "timer"})
      /\ Waiters /\ Paired /\ Writers /\ Timers /\ FileListed /\ Edges
  BY ProgramFacts DEF WaitInv, TypeOK
<1>3. /\ MaxData' = MaxData /\ Disarmed' = Disarmed /\ Call' = Call /\ TimedOps' = TimedOps
      /\ Ops' = Ops /\ (NoTransferLimited' <=> NoTransferLimited) /\ Apart' = Apart
  BY SameProgram DEF Apart
<1>4. /\ rest \in Seq(Coros) /\ ToSet(rest) = ToSet(timers) \ due
      /\ Ordered(rest, Apart) /\ Ordered(rest, Earlier)
  <2>1. Ordered(timers, Apart) /\ Ordered(timers, Earlier)
    BY <1>2 DEF Waiters, Timers
  <2> HIDE DEF due
  <2>2. QED
    BY <1>2, <2>1, WithoutIs
<1>5. /\ items_' \in Seq(Coros) /\ ToSet(items_') = ToSet(items_) \ limited
      /\ Ordered(items_', Apart)
  <2>1. Ordered(items_, Apart)
    BY <1>2 DEF Waiters
  <2> HIDE DEF limited
  <2>2. QED
    BY <1>1, <1>2, <2>1, WithoutIs
<1>6. ToSet(timers) \subseteq Coros /\ ToSet(items_) \subseteq Coros /\ ToSet(rest) \subseteq Coros
  BY <1>2, <1>4, EntriesAre
<1>7. \A c \in due : /\ c \in Coros /\ co[c] = "wait"
                     /\ c \notin limited => Sleeps(c) /\ c \notin ToSet(items_)
                     /\ c \in limited => c \in ToSet(items_) /\ ~Sleeps(c)
  <2>1. ASSUME NEW c \in due
        PROVE  /\ c \in Coros /\ co[c] = "wait"
               /\ c \notin limited => Sleeps(c) /\ c \notin ToSet(items_)
               /\ c \in limited => c \in ToSet(items_) /\ ~Sleeps(c)
    <3>1. c \in Coros /\ c \in ToSet(timers)
      BY <1>6
    <3>2. co[c] = "wait" /\ (Sleeps(c) \/ call[c].limit > 0)
      BY <1>2, <3>1 DEF Waiters
    <3>3. c \in ToSet(items_) <=> ~Sleeps(c)
      BY <1>2, <3>1, <3>2 DEF Waiters
    <3>4. call[c].limit > 0 => ~Sleeps(c)
      BY <1>2, <3>1 DEF Waiters, Sleeps
    <3>5. QED
      BY <3>1, <3>2, <3>3, <3>4
  <2>2. QED
    BY <2>1
<1>8. limited \subseteq due /\ due \subseteq ToSet(timers)
  OBVIOUS
<1>9. \A c \in limited :
        LET r == Over([call[c] EXCEPT !.ret = Failed])
        IN /\ r \in Call /\ r.op = call[c].op /\ r.limit = 0 /\ r.n = call[c].n
           /\ r.done = call[c].done /\ r.pushed = call[c].pushed /\ r.ret = Failed
  <2>1. SUFFICES ASSUME NEW c \in limited
                 PROVE  LET r == Over([call[c] EXCEPT !.ret = Failed])
                        IN /\ r \in Call /\ r.op = call[c].op /\ r.limit = 0 /\ r.n = call[c].n
                           /\ r.done = call[c].done /\ r.pushed = call[c].pushed /\ r.ret = Failed
    OBVIOUS
  <2> DEFINE q == [call[c] EXCEPT !.ret = Failed]
             s == [q EXCEPT !.limit = 0]
  <2>2. 0 \in 0..MaxTicks /\ Failed \in Failed..MaxData /\ call[c] \in Call
    BY <1>2, <1>6, <1>8 DEF Failed
  <2>3. /\ q \in Call /\ q.op = call[c].op /\ q.n = call[c].n
        /\ q.done = call[c].done /\ q.pushed = call[c].pushed /\ q.ret = Failed
    BY <2>2 DEF Call
  <2> HIDE DEF q
  <2>4. /\ s \in Call /\ s.op = q.op /\ s.limit = 0 /\ s.n = q.n
        /\ s.done = q.done /\ s.pushed = q.pushed /\ s.ret = q.ret
    BY <2>2, <2>3 DEF Call
  <2>5. Over(q) = [s EXCEPT !.left = 0]
    BY DEF Over
  <2> HIDE DEF s
  <2>6. /\ Over(q) \in Call /\ Over(q).op = q.op /\ Over(q).limit = 0 /\ Over(q).n = q.n
        /\ Over(q).done = q.done /\ Over(q).pushed = q.pushed /\ Over(q).ret = q.ret
    BY <2>2, <2>4, <2>5 DEF Call
  <2>7. QED
    BY <2>3, <2>6 DEF q
<1>10. NoCall \in Call /\ NoCall.op = "none" /\ NoCall.limit = 0
  BY <1>2 DEF NoCall, NewCall, Call, Failed
<1> HIDE DEF due, limited, rest
<1>11. \A c \in Coros : /\ c \in due => co'[c] = "run" /\ call'[c].limit = 0
                        /\ c \in limited => /\ call'[c].op = call[c].op /\ call'[c].ret = Failed
                                            /\ call'[c].n = call[c].n
                                            /\ call'[c].done = call[c].done
                                            /\ call'[c].pushed = call[c].pushed
                        /\ c \in due /\ c \notin limited => call'[c].op = "none"
                        /\ c \notin due => call'[c] = call[c] /\ co'[c] = co[c]
                        /\ call'[c] \in Call
  <2>1. SUFFICES ASSUME NEW c \in Coros
                 PROVE  /\ c \in due => co'[c] = "run" /\ call'[c].limit = 0
                        /\ c \in limited => /\ call'[c].op = call[c].op /\ call'[c].ret = Failed
                                            /\ call'[c].n = call[c].n
                                            /\ call'[c].done = call[c].done
                                            /\ call'[c].pushed = call[c].pushed
                        /\ c \in due /\ c \notin limited => call'[c].op = "none"
                        /\ c \notin due => call'[c] = call[c] /\ co'[c] = co[c]
                        /\ call'[c] \in Call
    OBVIOUS
  <2>2. co'[c] = IF c \in due THEN "run" ELSE co[c]
    BY <1>1
  <2>3. CASE c \in limited
    <3>1. call'[c] = Over([call[c] EXCEPT !.ret = Failed])
      BY <1>1, <2>3
    <3>2. QED
      BY <1>8, <1>9, <2>2, <2>3, <3>1
  <2>4. CASE c \in due \ limited
    <3>1. call'[c] = NoCall
      BY <1>1, <2>4
    <3>2. QED
      BY <1>10, <2>2, <2>4, <3>1
  <2>5. CASE c \notin due
    <3>1. call'[c] = call[c]
      BY <1>1, <1>8, <2>5
    <3>2. QED
      BY <1>2, <1>8, <2>2, <2>5, <3>1
  <2>6. QED
    BY <2>3, <2>4, <2>5
<1>12. call' \in [Coros -> Call] /\ co' \in [Coros -> {"run", "asked", "wait"}]
  <2>1. call' = [c \in Coros |-> call'[c]] /\ co' = [c \in Coros |-> co'[c]]
    BY <1>1
  <2>2. \A c \in Coros : co'[c] \in {"run", "asked", "wait"}
    BY <1>2, <1>11
  <2>3. QED
    BY <1>11, <2>1, <2>2
<1>13. /\ list_' \in Seq({"file", "timer"})
       /\ ToSet(list_) = ToSet(list_)' \cup {"timer"}
  BY <1>1, <1>2, TailIs
<1>14. /\ ToSet(timers)' = ToSet(timers) \ due /\ ToSet(items_)' = ToSet(items_) \ limited
       /\ ToSet(funcs_)' = ToSet(funcs_) /\ ToSet(timers') = ToSet(timers)'
  BY <1>1, <1>4, <1>5 DEF ToSet
<1>15. \A c \in Coros : c \notin due => (Sleeps(c)' <=> Sleeps(c))
  BY <1>11 DEF Sleeps
<1>16. rest # <<>> => /\ Head(rest) \in ToSet(rest) /\ armed' = call[Head(rest)].left
                      /\ call[Head(rest)].left \in 0..MaxTicks
                      /\ \A c \in ToSet(rest) : call[Head(rest)].left <= call[c].left
  <2>1. SUFFICES ASSUME rest # <<>>
                 PROVE  /\ Head(rest) \in ToSet(rest) /\ armed' = call[Head(rest)].left
                        /\ call[Head(rest)].left \in 0..MaxTicks
                        /\ \A c \in ToSet(rest) : call[Head(rest)].left <= call[c].left
    OBVIOUS
  <2>2. /\ Head(rest) \in ToSet(rest) /\ Head(rest) \in Coros
        /\ ToSet(rest) = ToSet(Tail(rest)) \cup {Head(rest)}
        /\ \A x \in ToSet(Tail(rest)) : <<Head(rest), x>> \in Earlier
    BY <1>4, <2>1, TailIs
  <2>3. call[Head(rest)].left \in 0..MaxTicks
    BY <1>2, <2>2, CallOf
  <2>4. armed' = call[Head(rest)].left
    BY <1>1, <2>1 DEF Rearmed
  <2>5. \A x \in ToSet(Tail(rest)) : call[Head(rest)].left <= call[x].left
    BY <2>2 DEF Earlier
  <2>6. call[Head(rest)].left <= call[Head(rest)].left
    BY <2>3
  <2>7. QED
    BY <2>2, <2>3, <2>4, <2>5, <2>6
<1>17. TypeOK'
  <2>1. armed' \in 0..Disarmed
    <3>1. \A k \in 0..MaxTicks : k \in 0..MaxTicks + 1
      BY <1>2
    <3>2. CASE rest = <<>>
      BY <1>1, <1>2, <3>2 DEF Rearmed, TypeOK
    <3>3. CASE rest # <<>>
      BY <1>16, <3>1, <3>3 DEF Disarmed
    <3>4. QED
      BY <3>2, <3>3
  <2>2. erasedTwice' \in BOOLEAN /\ edge' \subseteq {"file", "timer"}
    BY <1>1, <1>2 DEF TypeOK
  <2>3. timers' \in Seq(Coros)
    BY <1>1, <1>4
  <2>4. QED
    BY <1>1, <1>2, <1>3, <1>5, <1>12, <1>13, <2>1, <2>2, <2>3 DEF TypeOK
<1>18. Waiters'
  <2>1. Ordered(funcs_, Apart)' /\ Ordered(items_, Apart)' /\ Ordered(timers, Apart)'
    BY <1>1, <1>2, <1>3, <1>4, <1>5 DEF Waiters
  <2>2. ASSUME NEW d \in Coros
        PROVE  /\ d \in ToSet(funcs_)' <=> co'[d] = "asked"
               /\ d \in ToSet(items_)' <=> co'[d] = "wait" /\ ~Sleeps(d)'
               /\ d \in ToSet(timers)' => co'[d] = "wait" /\ (Sleeps(d)' \/ call'[d].limit > 0)
               /\ co'[d] = "wait" /\ Sleeps(d)' => d \in ToSet(timers)'
               /\ co'[d] # "run" => call'[d].op # "none"
               /\ call'[d].limit > 0 => call'[d].op \in (TimedOps' \ {"sleep"})
    <3>1. CASE d \in due
      <4>1. /\ co[d] = "wait" /\ co'[d] = "run" /\ call'[d].limit = 0
            /\ d \notin ToSet(items_)' /\ d \notin ToSet(timers)'
        BY <1>7, <1>11, <1>14, <3>1
      <4>2. d \notin ToSet(funcs_)'
        BY <1>2, <1>14, <4>1 DEF Waiters
      <4>3. QED
        BY <4>1, <4>2
    <3>2. CASE d \notin due
      <4>1. /\ call'[d] = call[d] /\ co'[d] = co[d] /\ (Sleeps(d)' <=> Sleeps(d))
            /\ d \notin limited
        BY <1>8, <1>11, <1>15, <3>2
      <4>2. QED
        BY <1>2, <1>3, <1>14, <3>2, <4>1 DEF Waiters
    <3>3. QED
      BY <3>1, <3>2
  <2>3. QED
    BY <2>1, <2>2 DEF Waiters
<1>19. Paired'
  <2>1. SUFFICES ASSUME NoTransferLimited
                 PROVE  /\ ~erasedTwice'
                        /\ \A d \in Coros : co'[d] = "wait" /\ call'[d].limit > 0 => d \in ToSet(timers)'
    BY <1>3 DEF Paired
  <2>2. ~erasedTwice'
    BY <1>1, <1>2, <1>7, <1>8, <2>1 DEF Paired
  <2>3. ASSUME NEW d \in Coros, co'[d] = "wait", call'[d].limit > 0
        PROVE  d \in ToSet(timers)'
    <3>1. d \notin due
      BY <1>11, <2>3
    <3>2. QED
      BY <1>2, <1>11, <1>14, <2>1, <2>3, <3>1 DEF Paired
  <2>4. QED
    BY <2>2, <2>3
<1>20. Writers'
  <2>1. ASSUME NEW d \in Coros, call'[d].op = "writev"
        PROVE  /\ call'[d].done = call'[d].pushed /\ call'[d].done <= call'[d].n
               /\ co'[d] = "run" /\ call'[d].ret # Failed =>
                    call'[d].ret = call'[d].n /\ call'[d].pushed = call'[d].n
    <3>1. CASE d \in limited
      BY <1>2, <1>8, <1>11, <2>1, <3>1 DEF Writers
    <3>2. CASE d \in due /\ d \notin limited
      BY <1>11, <2>1, <3>2
    <3>3. CASE d \notin due
      BY <1>2, <1>11, <2>1, <3>3 DEF Writers, WriteExact
    <3>4. QED
      BY <3>1, <3>2, <3>3
  <2>2. QED
    BY <2>1 DEF Writers, WriteExact
<1>21. Timers'
  <2>1. Ordered(timers', Earlier')
    <3>1. \A a \in ToSet(rest) : call'[a] = call[a]
      BY <1>4, <1>6, <1>11
    <3>2. QED
      BY <1>1, <1>4, <3>1, SortedKept
  <2>2. \A c \in ToSet(timers)' : armed' <= call'[c].left
    <3>1. SUFFICES ASSUME NEW c \in ToSet(timers)'
                   PROVE  armed' <= call'[c].left
      OBVIOUS
    <3>2. c \in ToSet(rest) /\ c \in Coros /\ call'[c] = call[c] /\ ToSet(rest) # {}
      BY <1>4, <1>6, <1>11, <1>14
    <3>3. rest # <<>>
      BY <1>4, <3>2, EntriesAre
    <3>4. QED
      BY <1>16, <3>2, <3>3
  <2>3. QED
    BY <2>1, <2>2 DEF Timers
<1>22. FileListed'
  <2>1. ASSUME NEW d \in ToSet(items_)'
        PROVE  Concerned(d)' <=> Concerned(d)
    <3>1. d \in Coros /\ d \notin due
      BY <1>6, <1>7, <1>14
    <3>2. QED
      BY <1>1, <1>11, <3>1 DEF Concerned, EventsOf
  <2>2. QED
    BY <1>1, <1>2, <1>13, <1>14, <2>1 DEF FileListed
<1>23. Edges'
  <2>1. \A c \in Coros : call'[c].op = call[c].op \/ call'[c].op = "none"
    BY <1>8, <1>11
  <2>2. QED
    BY <1>1, <1>2, <1>3, <2>1 DEF Edges
<1>24. QED
  BY <1>2, <1>17, <1>18, <1>19, <1>20, <1>21, <1>22, <1>23 DEF WaitInv

LEMMA WaitInit == Init => WaitInv
<1> SUFFICES ASSUME Init
             PROVE  WaitInv
  OBVIOUS
<1>1. /\ program \in Programs /\ MaxData \in Nat /\ MaxData > 0 /\ MaxTicks \in Nat
      /\ Disarmed = MaxTicks + 1
  BY ProgramFacts DEF Init
<1>2. NoCall \in Call /\ NoCall.op = "none" /\ NoCall.limit = 0
  BY <1>1 DEF NoCall, NewCall, Call, Failed
<1>3. /\ link \in {"new", "up"}
      /\ avail = 0 /\ eof = FALSE /\ space = MaxData /\ starved = FALSE
      /\ edge = {"file"} /\ armed = Disarmed
      /\ funcs_ = <<>> /\ pc = "drain" /\ list_ = <<>>
      /\ revents_ = {} /\ waked_ \in BOOLEAN /\ items_ = <<>> /\ timers = <<>>
      /\ erasedTwice = FALSE
      /\ \A c \in Coros : call[c] = NoCall /\ co[c] = "run"
  BY DEF Init
<1>4. call \in [Coros -> Call] /\ co \in [Coros -> {"run", "asked", "wait"}]
  BY <1>2 DEF Init
<1>5. ToSet(funcs_) = {} /\ ToSet(items_) = {} /\ ToSet(timers) = {} /\ ToSet(list_) = {}
  BY <1>3 DEF ToSet
<1>6. /\ \A R : Ordered(funcs_, R) /\ Ordered(items_, R) /\ Ordered(timers, R)
  BY <1>3 DEF Ordered
<1>7. TypeOK
  <2>1. armed \in 0..Disarmed /\ avail \in 0..MaxData /\ space \in 0..MaxData
    BY <1>1, <1>3
  <2>2. <<>> \in Seq(Coros) /\ <<>> \in Seq({"file", "timer"})
    BY EmptySeq
  <2>3. QED
    BY <1>3, <1>4, <2>1, <2>2 DEF TypeOK
<1>8. Waiters
  BY <1>2, <1>3, <1>5, <1>6 DEF Waiters
<1>9. Paired /\ Writers
  BY <1>2, <1>3 DEF Paired, Writers, WriteExact
<1>10. Timers /\ FileListed
  BY <1>3, <1>5, <1>6 DEF Timers, FileListed
<1>11. Edges
  BY <1>1, <1>2, <1>3 DEF Edges
<1>12. QED
  BY <1>1, <1>7, <1>8, <1>9, <1>10, <1>11 DEF WaitInv

LEMMA WaitNext == WaitInv /\ [Next]_<<program, vars>> => WaitInv'
<1> SUFFICES ASSUME WaitInv, [Next]_<<program, vars>>
             PROVE  WaitInv'
  OBVIOUS
<1>1. program' = program
  BY DEF Next
<1>2. CASE Request
  BY <1>1, <1>2, RequestStep
<1>3. CASE Network
  BY <1>1, <1>3, NetworkStep
<1>4. CASE Tick
  BY <1>1, <1>4, TickStep
<1>5. CASE TimerExpires \/ DrainDone \/ FileScanned \/ ScanDone \/ WaitIRQ
  BY <1>1, <1>5, QuietStep
<1>6. CASE RunFunc
  BY <1>1, <1>6, RunFuncStep
<1>7. CASE TimersScanned
  BY <1>1, <1>7, TimersScannedStep
<1>8. ASSUME NEW c \in Coros, TryConnect(c) \/ TryRead(c) \/ TryWrite(c)
      PROVE  WaitInv'
  BY <1>1, <1>8, TryConnectStep, TryReadStep, TryWriteStep
<1>9. CASE UNCHANGED <<program, vars>>
  <2>1. UNCHANGED <<link, avail, eof, space, starved, edge, funcs_, pc, list_, revents_, waked_,
                    items_, armed, timers, call, co, erasedTwice>>
    BY <1>9 DEF vars, socket, fileWQ, timeWQ, coros
  <2>2. /\ program' \in Programs /\ Waiters' /\ Paired' /\ Writers' /\ MaxData' = MaxData
        /\ Disarmed' = Disarmed /\ Call' = Call
    BY <1>1, <2>1, SameWaiters, SameProgram
  <2>3. TypeOK' /\ Timers' /\ Edges'
    BY <2>1, <2>2 DEF WaitInv, TypeOK, Timers, Earlier, Edges
  <2>4. FileListed'
    BY <2>1 DEF WaitInv, FileListed, Concerned, EventsOf
  <2>5. QED
    BY <2>2, <2>3, <2>4 DEF WaitInv
<1>10. QED
  BY <1>2, <1>3, <1>4, <1>5, <1>6, <1>7, <1>8, <1>9 DEF Next, Thread

\* A list whose entries are apart has one for each member.
LEMMA EntriesApart ==
  ASSUME NEW seq \in Seq(Coros), Ordered(seq, Apart), NEW c \in Coros
  PROVE  Entries(c, seq) = IF c \in ToSet(seq) THEN 1 ELSE 0
<1> DEFINE places == {i \in DOMAIN seq : seq[i] = c}
<1>1. DOMAIN seq = 1..Len(seq) /\ Len(seq) \in Nat
  BY EntriesAre
<1>2. CASE c \in ToSet(seq)
  <2>1. PICK k \in DOMAIN seq : seq[k] = c
    BY <1>2 DEF ToSet
  <2>2. ASSUME NEW i \in DOMAIN seq, NEW j \in DOMAIN seq, seq[i] = c, seq[j] = c, i < j
        PROVE  FALSE
    <3>1. <<seq[i], seq[j]>> \in Apart
      BY <2>2 DEF Ordered
    <3>2. QED
      BY <2>2, <3>1 DEF Apart
  <2>3. ASSUME NEW i \in places
        PROVE  i = k
    <3>1. ~(i < k) /\ ~(k < i)
      BY <2>1, <2>2
    <3>2. QED
      BY <1>1, <2>1, <3>1
  <2>4. places = {k}
    BY <2>1, <2>3
  <2> HIDE DEF places
  <2>5. Cardinality(places) = 1
    BY <2>4, FS_Singleton
  <2>6. QED
    BY <1>2, <2>5 DEF Entries, places
<1>3. CASE c \notin ToSet(seq)
  <2>1. places = {}
    BY <1>3 DEF ToSet
  <2> HIDE DEF places
  <2>2. Cardinality(places) = 0
    BY <2>1, FS_EmptySet
  <2>3. QED
    BY <1>3, <2>2 DEF Entries, places
<1>4. QED
  BY <1>2, <1>3

LEMMA WaitersHaveEntries == WaitInv => (NoTransferLimited => EntryPerWaiter)
<1> SUFFICES ASSUME WaitInv, NoTransferLimited
             PROVE  EntryPerWaiter
  OBVIOUS
<1>1. /\ TypeOK /\ Waiters /\ Paired /\ items_ \in Seq(Coros) /\ timers \in Seq(Coros)
  BY DEF WaitInv, TypeOK
<1>2. \A c \in Coros : /\ Entries(c, items_) = IF c \in ToSet(items_) THEN 1 ELSE 0
                       /\ Entries(c, timers) = IF c \in ToSet(timers) THEN 1 ELSE 0
  BY <1>1, EntriesApart DEF Waiters
<1>3. \A c \in Coros :
        /\ c \in ToSet(items_) <=> co[c] = "wait" /\ ~Sleeps(c)
        /\ c \in ToSet(timers) <=> co[c] = "wait" /\ (Sleeps(c) \/ call[c].limit > 0)
  BY <1>1 DEF Waiters, Paired
<1>4. ~erasedTwice
  BY <1>1 DEF Paired
<1>5. QED
  BY <1>1, <1>2, <1>3, <1>4 DEF EntryPerWaiter, Sleeps

LEMMA AsleepForgetsNothing == WaitInv => NothingForgotten
<1> SUFFICES ASSUME WaitInv, pc = "poll"
             PROVE  TimerArmed /\ EdgesKept
  BY DEF NothingForgotten
<1>1. list_ = <<>> /\ ToSet(list_) = {}
  BY DEF WaitInv, FileListed, ToSet
<1>2. TimerArmed
  BY <1>1 DEF WaitInv, Timers, TimerArmed
<1>3. ASSUME NEW c \in ToSet(items_)
      PROVE  /\ ~Concerned(c)
             /\ Mask \cap (EventsOf(c) \cup {"RDHUP"}) # {} => "file" \in edge
  <2>1. ~Concerned(c)
    BY <1>1 DEF WaitInv, FileListed
  <2>2. /\ c \in Coros /\ co[c] = "wait" /\ ~Sleeps(c) /\ call[c].op # "none"
        /\ link \in {"new", "connecting", "up", "refused"}
        /\ avail \in Nat /\ space \in Nat /\ EventsOf(c) \subseteq {"IN", "OUT"}
    <3>1. items_ \in Seq(Coros) /\ Waiters /\ MaxData \in Nat
      BY ProgramFacts DEF WaitInv, TypeOK
    <3>2. c \in Coros
      BY <3>1, EntriesAre
    <3>3. QED
      BY <3>1, <3>2 DEF WaitInv, TypeOK, Waiters, EventsOf
  <2>3. "RDHUP" \notin revents_ /\ EventsOf(c) \cap revents_ = {}
    BY <2>1 DEF Concerned
  <2>4. link # "new"
    BY <2>2 DEF WaitInv, Edges, Sleeps
  <2>5. ASSUME NEW e \in Mask \cap (EventsOf(c) \cup {"RDHUP"})
        PROVE  "file" \in edge
    <3>1. e \in {"IN", "OUT", "RDHUP"} /\ e \notin revents_
      BY <2>2, <2>3, <2>5
    <3>2. CASE link = "connecting"
      BY <2>5, <3>2, MaskIs
    <3>3. CASE link = "refused"
      BY <2>3, <3>3 DEF WaitInv, Edges
    <3>4. CASE link = "up"
      <4>1. eof => "file" \in edge
        BY <2>3 DEF WaitInv, Edges
      <4>2. CASE e = "RDHUP"
        BY <2>5, <3>4, <4>1, <4>2, MaskIs
      <4>3. CASE e = "IN"
        BY <2>5, <3>1, <3>4, <4>1, <4>3, MaskIs DEF WaitInv, Edges
      <4>4. CASE e = "OUT"
        <5>1. space > 0
          BY <2>5, <3>4, <4>4, MaskIs
        <5>2. QED
          BY <2>2, <3>1, <3>4, <4>4, <5>1 DEF WaitInv, Edges
      <4>5. QED
        BY <3>1, <4>2, <4>3, <4>4
    <3>5. QED
      BY <2>2, <2>4, <3>2, <3>3, <3>4
  <2>6. QED
    BY <2>1, <2>5
<1>4. QED
  BY <1>2, <1>3 DEF EdgesKept

LEMMA WaitInvAlways == Spec => []WaitInv
<1>1. Init => WaitInv
  BY WaitInit
<1>2. WaitInv /\ [Next]_<<program, vars>> => WaitInv'
  BY WaitNext
<1>3. QED
  BY <1>1, <1>2, PTL DEF Spec
-----------------------------------------------------------------------------
(* The results.                                                            *)

\* For any coroutines, programs and amounts: as long as no operation that may
\* block again has a time limit, a waiting coroutine has exactly its entries
\* of the two wait queues and no iterator is erased twice, whichever of event
\* and deadline is handled first (FileAwaiter's two closures).
THEOREM WaitersArePaired == Spec => [](NoTransferLimited => EntryPerWaiter)
<1>1. WaitInv => (NoTransferLimited => EntryPerWaiter)
  BY WaitersHaveEntries
<1>2. QED
  BY <1>1, WaitInvAlways, PTL

\* Whatever the limits are: when the ICU thread goes to sleep in epoll_wait
\* the timerfd covers the earliest deadline, no waiter's event is left in
\* revents_, and what holds of the socket now is an edge still to come.
THEOREM SleepForgetsNothing == Spec => []NothingForgotten
<1>1. WaitInv => NothingForgotten
  BY AsleepForgetsNothing
<1>2. QED
  BY <1>1, WaitInvAlways, PTL

\* writev() that returns a count has written all it was given, over any number
\* of partial writes (sendBytes of the write callback).
THEOREM WritesAreExact == Spec => []WriteExact
<1>1. WaitInv => WriteExact
  BY DEF WaitInv, Writers
<1>2. QED
  BY <1>1, WaitInvAlways, PTL
=============================================================================
