----------------------------- MODULE BatchProofs -----------------------------
(***************************************************************************)
(* Theorems of BatchProof, for batches of any length, any sub-circuits and *)
(* any limit: what the capacity check keeps fits and is the longest that   *)
(* does, and what the proof says of itself is true.                        *)
(***************************************************************************)
EXTENDS BatchProof, FiniteSetTheorems, SequenceTheorems, TLAPS

-----------------------------------------------------------------------------
(* Induction and sums.  A set is no operator: the induction over it is a   *)
(* fact the provers can use, from the well-foundedness of finite subsets.  *)

LEMMA NatSetInduction ==
  ASSUME NEW T, 0 \in T, \A n \in Nat : n \in T => n + 1 \in T
  PROVE  \A n \in Nat : n \in T
<1> SUFFICES ASSUME NEW n \in Nat, n \notin T
             PROVE  FALSE
  OBVIOUS
<1> DEFINE left == {0..m : m \in Nat \ T}
           R == StrictSubsetOrdering(Nat)
<1>1. left \subseteq FiniteSubsetsOf(Nat) /\ left # {}
  <2>1. \A m \in Nat : IsFiniteSet(0..m) /\ 0..m \subseteq Nat
    BY FS_Interval
  <2> QED
    BY <2>1 DEF FiniteSubsetsOf
<1>2. IsWellFoundedOn(R, FiniteSubsetsOf(Nat))
  BY FS_StrictSubsetOrderingWellFounded
<1> HIDE DEF left, R
<1>3. PICK s \in left : \A r \in left : <<r, s>> \notin R
  BY <1>1, <1>2, WFMin
<1>4. PICK m \in Nat \ T : s = 0..m
  BY DEF left
<1>5. m # 0 /\ m - 1 \in Nat \ T
  <2>1. m # 0
    BY <1>4
  <2>2. m - 1 \in Nat /\ (m - 1) + 1 = m
    BY <2>1
  <2> QED
    BY <2>1, <2>2, <1>4
<1>6. 0..(m - 1) \in left
  BY <1>5 DEF left
<1>7. 0..(m - 1) \subseteq 0..m /\ 0..(m - 1) # 0..m /\ 0..m \subseteq Nat
  BY <1>5
<1>8. <<0..(m - 1), s>> \in R
  BY <1>4, <1>7 DEF R, StrictSubsetOrdering
<1> QED
  BY <1>3, <1>6, <1>8

\* sum is the function of the partial sums of a, up to the n-th.
Sums(a, n, sum) ==
  sum = [k \in 0..n |-> IF k = 0 THEN 0 ELSE sum[k - 1] + a[k]]

LEMMA SumsExist ==
  ASSUME NEW a, NEW n \in Nat
  PROVE  \E sum : Sums(a, n, sum)
<1> DEFINE T == {m \in Nat : \E sum : Sums(a, m, sum)}
<1>1. 0 \in T
  <2>1. Sums(a, 0, [k \in 0..0 |-> 0])
    BY DEF Sums
  <2> QED
    BY <2>1
<1>2. ASSUME NEW m \in Nat, m \in T
      PROVE  m + 1 \in T
  <2>1. PICK sum : Sums(a, m, sum)
    BY <1>2
  <2> DEFINE next == [k \in 0..m + 1 |-> IF k = m + 1 THEN sum[m] + a[m + 1] ELSE sum[k]]
  <2>2. ASSUME NEW k \in 0..m+1
        PROVE  next[k] = IF k = 0 THEN 0 ELSE next[k - 1] + a[k]
    <3>1. CASE k = m + 1
      BY <3>1
    <3>2. CASE k \in 0..m
      <4>1. sum[k] = IF k = 0 THEN 0 ELSE sum[k - 1] + a[k]
        BY <2>1, <3>2 DEF Sums
      <4> QED
        BY <4>1, <3>2
    <3> QED
      BY <3>1, <3>2
  <2>3. Sums(a, m + 1, next)
    BY <2>2 DEF Sums
  <2> QED
    BY <2>3
<1> HIDE DEF T
<1>3. \A m \in Nat : m \in T
  BY <1>1, <1>2, NatSetInduction
<1> QED
  BY <1>3 DEF T

\* Partial sums of equal terms are equal, however far each is taken.
LEMMA SumsAgree ==
  ASSUME NEW a, NEW b, NEW m \in Nat, NEW n \in Nat, NEW l \in 0..m, l <= n,
         \A k \in 1..l : a[k] = b[k],
         NEW f, Sums(a, m, f), NEW g, Sums(b, n, g)
  PROVE  f[l] = g[l]
<1> DEFINE T == {k \in Nat : k <= l => f[k] = g[k]}
<1>1. 0 \in T
  BY DEF Sums
<1>2. ASSUME NEW k \in Nat, k \in T
      PROVE  k + 1 \in T
  <2> SUFFICES ASSUME k + 1 <= l
               PROVE  f[k + 1] = g[k + 1]
    OBVIOUS
  <2>1. /\ k + 1 \in 0..m /\ k + 1 \in 0..n /\ k + 1 # 0
        /\ (k + 1) - 1 = k /\ f[k] = g[k] /\ a[k + 1] = b[k + 1]
    BY <1>2
  <2>2. f[k + 1] = f[k] + a[k + 1]
    BY <2>1 DEF Sums
  <2>3. g[k + 1] = g[k] + b[k + 1]
    BY <2>1 DEF Sums
  <2> QED
    BY <2>1, <2>2, <2>3
<1> HIDE DEF T
<1>3. l \in T
  BY <1>1, <1>2, NatSetInduction
<1> QED
  BY <1>3 DEF T

\* So a sequence of terms has one function of partial sums.
LEMMA SumsUnique ==
  ASSUME NEW a, NEW m \in Nat, NEW n \in Nat, NEW l \in 0..m, l <= n,
         NEW f, Sums(a, m, f), NEW g, Sums(a, n, g)
  PROVE  f[l] = g[l]
<1> DEFINE b == a
<1>1. Sums(b, n, g) /\ \A k \in 1..l : a[k] = b[k]
  OBVIOUS
<1> HIDE DEF b
<1> QED
  BY <1>1, SumsAgree

\* Total(a, n): the sum of the first n terms of a.
Total(a, n) == LET sum == CHOOSE sum : Sums(a, n, sum) IN sum[n]

LEMMA TotalIs ==
  ASSUME NEW a, NEW n \in Nat, NEW sum, Sums(a, n, sum)
  PROVE  Total(a, n) = sum[n]
<1> DEFINE chosen == CHOOSE s : Sums(a, n, s)
<1>1. Sums(a, n, chosen)
  OBVIOUS
<1>2. Total(a, n) = chosen[n]
  BY DEF Total
<1>3. \A s : Sums(a, n, s) => s[n] = sum[n]
  <2> SUFFICES ASSUME NEW s, Sums(a, n, s)
               PROVE  s[n] = sum[n]
    OBVIOUS
  <2>1. n \in 0..n /\ n <= n
    OBVIOUS
  <2> QED
    BY <2>1, SumsUnique
<1> HIDE DEF chosen
<1> QED
  BY <1>1, <1>2, <1>3

LEMMA TotalStep ==
  ASSUME NEW a
  PROVE  /\ Total(a, 0) = 0
         /\ \A n \in Nat : Total(a, n + 1) = Total(a, n) + a[n + 1]
<1>1. Total(a, 0) = 0
  <2>1. PICK sum : Sums(a, 0, sum)
    BY SumsExist
  <2>2. sum[0] = 0
    BY <2>1 DEF Sums
  <2>3. Total(a, 0) = sum[0]
    BY <2>1, TotalIs, 0 \in Nat
  <2> QED
    BY <2>2, <2>3
<1>2. ASSUME NEW n \in Nat
      PROVE  Total(a, n + 1) = Total(a, n) + a[n + 1]
  <2>1. PICK f : Sums(a, n, f)
    BY SumsExist
  <2>2. PICK g : Sums(a, n + 1, g)
    BY SumsExist
  <2>3. f[n] = g[n]
    <3>1. n \in 0..n /\ n <= n + 1 /\ n + 1 \in Nat
      OBVIOUS
    <3> QED
      BY <2>1, <2>2, <3>1, SumsUnique
  <2>4. g[n + 1] = g[n] + a[n + 1]
    BY <2>2 DEF Sums
  <2>5. Total(a, n) = f[n] /\ Total(a, n + 1) = g[n + 1]
    BY <2>1, <2>2, TotalIs
  <2> QED
    BY <2>3, <2>4, <2>5
<1> QED
  BY <1>1, <1>2

LEMMA TotalSame ==
  ASSUME NEW a, NEW b, NEW n \in Nat, \A k \in 1..n : a[k] = b[k]
  PROVE  Total(a, n) = Total(b, n)
<1>1. PICK f : Sums(a, n, f)
  BY SumsExist
<1>2. PICK g : Sums(b, n, g)
  BY SumsExist
<1>3. f[n] = g[n]
  BY <1>1, <1>2, SumsAgree
<1> QED
  BY <1>1, <1>2, <1>3, TotalIs

LEMMA TotalNat ==
  ASSUME NEW a, NEW n \in Nat, \A k \in 1..n : a[k] \in Nat
  PROVE  Total(a, n) \in Nat
<1> DEFINE T == {k \in Nat : k <= n => Total(a, k) \in Nat}
<1>1. 0 \in T
  BY TotalStep
<1>2. ASSUME NEW k \in Nat, k \in T
      PROVE  k + 1 \in T
  <2>1. k + 1 <= n => Total(a, k) \in Nat /\ a[k + 1] \in Nat
    BY <1>2
  <2>2. Total(a, k + 1) = Total(a, k) + a[k + 1]
    BY TotalStep
  <2> QED
    BY <2>1, <2>2
<1> HIDE DEF T
<1>3. n \in T
  BY <1>1, <1>2, NatSetInduction
<1> QED
  BY <1>3 DEF T

\* Of n terms that are 0 or 1 the sum is at most n, and n if all are 1.
LEMMA TotalOfBits ==
  ASSUME NEW a, NEW n \in Nat, \A k \in 1..n : a[k] \in {0, 1}
  PROVE  /\ Total(a, n) \in 0..n
         /\ Total(a, n) = n <=> \A k \in 1..n : a[k] = 1
<1> DEFINE T == {m \in Nat : m <= n =>
                   /\ Total(a, m) \in 0..m
                   /\ Total(a, m) = m <=> \A k \in 1..m : a[k] = 1}
<1>1. 0 \in T
  BY TotalStep
<1>2. ASSUME NEW m \in Nat, m \in T
      PROVE  m + 1 \in T
  <2> SUFFICES ASSUME m + 1 <= n
               PROVE  /\ Total(a, m + 1) \in 0..m + 1
                      /\ Total(a, m + 1) = m + 1 <=> \A k \in 1..m + 1 : a[k] = 1
    OBVIOUS
  <2>1. /\ Total(a, m) \in 0..m
        /\ Total(a, m) = m <=> \A k \in 1..m : a[k] = 1
        /\ a[m + 1] \in {0, 1}
    BY <1>2
  <2>2. Total(a, m + 1) = Total(a, m) + a[m + 1]
    BY TotalStep
  <2>3. (\A k \in 1..m + 1 : a[k] = 1) <=> (a[m + 1] = 1 /\ \A k \in 1..m : a[k] = 1)
    OBVIOUS
  <2> QED
    BY <2>1, <2>2, <2>3
<1> HIDE DEF T
<1>3. n \in T
  BY <1>1, <1>2, NatSetInduction
<1> QED
  BY <1>3 DEF T

-----------------------------------------------------------------------------
(* The sums of the model.                                                  *)

LEMMA RowsAreSums ==
  ASSUME NEW bs, NEW n \in Nat, NEW s
  PROVE  RowsUpTo(bs, n, s) = Total([k \in 1..n |-> bs[k].rows[s]], n)
<1> DEFINE a == [k \in 1..n |-> bs[k].rows[s]]
           IsSum(sum) == sum = [k \in 0..n |-> IF k = 0 THEN 0 ELSE sum[k - 1] + bs[k].rows[s]]
           chosen == CHOOSE sum : IsSum(sum)
<1>1. RowsUpTo(bs, n, s) = chosen[n]
  BY DEF RowsUpTo
<1>2. \A sum : IsSum(sum) <=> Sums(a, n, sum)
  <2> SUFFICES ASSUME NEW sum
               PROVE  [k \in 0..n |-> IF k = 0 THEN 0 ELSE sum[k - 1] + bs[k].rows[s]]
                      = [k \in 0..n |-> IF k = 0 THEN 0 ELSE sum[k - 1] + a[k]]
    BY DEF Sums
  <2> QED
    OBVIOUS
<1>3. PICK sum : Sums(a, n, sum)
  BY SumsExist
<1>4. IsSum(chosen)
  <2>1. \E sum1 : IsSum(sum1)
    BY <1>2, <1>3
  <2> HIDE DEF IsSum
  <2> QED
    BY <2>1
<1>5. Sums(a, n, chosen)
  BY <1>2, <1>4
<1> HIDE DEF chosen, a
<1> QED
  BY <1>1, <1>5, TotalIs DEF a

LEMMA TxsAreSums ==
  ASSUME NEW bs, Len(bs) \in Nat
  PROVE  TxsOf(bs) = Total([k \in 1..Len(bs) |-> bs[k].txs], Len(bs))
<1> DEFINE n == Len(bs)
           a == [k \in 1..n |-> bs[k].txs]
           IsSum(sum) == sum = [k \in 0..n |-> IF k = 0 THEN 0 ELSE sum[k - 1] + bs[k].txs]
           chosen == CHOOSE sum : IsSum(sum)
<1>1. TxsOf(bs) = chosen[n]
  BY DEF TxsOf
<1>2. \A sum : IsSum(sum) <=> Sums(a, n, sum)
  <2> SUFFICES ASSUME NEW sum
               PROVE  [k \in 0..n |-> IF k = 0 THEN 0 ELSE sum[k - 1] + bs[k].txs]
                      = [k \in 0..n |-> IF k = 0 THEN 0 ELSE sum[k - 1] + a[k]]
    BY DEF Sums
  <2> HIDE DEF n
  <2> QED
    OBVIOUS
<1>3. PICK sum : Sums(a, n, sum)
  BY SumsExist
<1>4. IsSum(chosen)
  <2>1. \E sum1 : IsSum(sum1)
    BY <1>2, <1>3
  <2> HIDE DEF IsSum
  <2> QED
    BY <2>1
<1>5. Sums(a, n, chosen)
  BY <1>2, <1>4
<1>6. n \in Nat
  OBVIOUS
<1> HIDE DEF chosen, a, n
<1>7. Total(a, n) = chosen[n]
  BY <1>5, <1>6, TotalIs
<1> QED
  BY <1>1, <1>7 DEF a, n

\* The k-th block brings a header of its own: no earlier one has its number.
New(bs) ==
  [k \in 1..Len(bs) |->
     IF \E l \in 1..(k - 1) : bs[l].number = bs[k].number THEN 0 ELSE 1]

LEMMA HeadersAreSums ==
  ASSUME NEW bs, Len(bs) \in Nat
  PROVE  Distinct(bs) = Total(New(bs), Len(bs))
<1> DEFINE n == Len(bs)
           a == New(bs)
           Old(k) == \E l \in 1..(k - 1) : bs[l].number = bs[k].number
           IsSum(sum) == sum = [k \in 0..n |->
             IF k = 0 THEN 0 ELSE IF Old(k) THEN sum[k - 1] ELSE sum[k - 1] + 1]
           chosen == CHOOSE sum : IsSum(sum)
<1>1. Distinct(bs) = chosen[n]
  BY DEF Distinct
<1>2. \A k \in 1..n : a[k] = IF Old(k) THEN 0 ELSE 1
  BY DEF New
<1>3. n \in Nat
  OBVIOUS
<1> HIDE DEF a, n, Old
<1>4. \A k \in 0..n : Total(a, k) \in Nat
  BY <1>2, <1>3, TotalNat
<1>5. \A k \in 1..n : Total(a, k) = Total(a, k - 1) + a[k]
  <2> SUFFICES ASSUME NEW k \in 1..n
               PROVE  Total(a, k) = Total(a, k - 1) + a[k]
    OBVIOUS
  <2>1. k - 1 \in Nat /\ (k - 1) + 1 = k
    BY <1>3
  <2> QED
    BY <2>1, TotalStep
<1>6. IsSum(chosen)
  <2> DEFINE sum == [k \in 0..n |-> Total(a, k)]
  <2>1. ASSUME NEW k \in 0..n
        PROVE  sum[k] = IF k = 0 THEN 0 ELSE IF Old(k) THEN sum[k - 1] ELSE sum[k - 1] + 1
    <3>1. CASE k = 0
      BY <1>3, <3>1, TotalStep
    <3>2. CASE k # 0
      <4>1. k \in 1..n /\ k - 1 \in 0..n
        BY <1>3, <3>2
      <4>2. sum[k] = Total(a, k) /\ sum[k - 1] = Total(a, k - 1)
        BY <4>1
      <4> HIDE DEF sum
      <4>3. /\ Total(a, k) = Total(a, k - 1) + a[k]
            /\ Total(a, k - 1) \in Nat
            /\ a[k] = IF Old(k) THEN 0 ELSE 1
        BY <1>2, <1>4, <1>5, <4>1
      <4> QED
        BY <3>2, <4>2, <4>3
    <3> QED
      BY <3>1, <3>2
  <2>2. IsSum(sum)
    BY <2>1
  <2> HIDE DEF IsSum, sum
  <2> QED
    BY <2>2
<1> HIDE DEF chosen
<1>7. chosen[n] = Total(a, n)
  <2> DEFINE T == {k \in Nat : k <= n => chosen[k] = Total(a, k)}
  <2>1. 0 \in T
    BY <1>3, <1>6, TotalStep
  <2>2. ASSUME NEW k \in Nat, k \in T
        PROVE  k + 1 \in T
    <3> SUFFICES ASSUME k + 1 <= n
                 PROVE  chosen[k + 1] = Total(a, k + 1)
      OBVIOUS
    <3>1. k + 1 \in 1..n /\ k + 1 \in 0..n /\ k \in 0..n /\ (k + 1) - 1 = k /\ k + 1 # 0
      BY <1>3
    <3>2. chosen[k] = Total(a, k) /\ Total(a, k) \in Nat
      BY <1>4, <2>2, <3>1
    <3>3. chosen[k + 1] = IF Old(k + 1) THEN chosen[k] ELSE chosen[k] + 1
      BY <1>6, <3>1
    <3>4. Total(a, k + 1) = Total(a, k) + a[k + 1] /\ a[k + 1] = IF Old(k + 1) THEN 0 ELSE 1
      BY <1>2, <3>1, TotalStep
    <3> QED
      BY <3>2, <3>3, <3>4
  <2> HIDE DEF T
  <2>3. n \in T
    BY <1>3, <2>1, <2>2, NatSetInduction
  <2> QED
    BY <2>3 DEF T
<1> QED
  BY <1>1, <1>7 DEF a, n

LEMMA RowsStep ==
  ASSUME NEW bs, NEW n \in Nat, NEW s
  PROVE  /\ RowsUpTo(bs, 0, s) = 0
         /\ RowsUpTo(bs, n + 1, s) = RowsUpTo(bs, n, s) + bs[n + 1].rows[s]
<1> DEFINE a(m) == [k \in 1..m |-> bs[k].rows[s]]
<1>1. \A m \in Nat : RowsUpTo(bs, m, s) = Total(a(m), m)
  BY RowsAreSums
<1>2. \A k \in 1..n : a(n)[k] = a(n + 1)[k]
  OBVIOUS
<1>3. a(n + 1)[n + 1] = bs[n + 1].rows[s]
  OBVIOUS
<1> HIDE DEF a
<1>4. Total(a(n), n) = Total(a(n + 1), n)
  BY <1>2, TotalSame
<1>5. Total(a(n + 1), n + 1) = Total(a(n + 1), n) + a(n + 1)[n + 1]
  BY TotalStep
<1>6. Total(a(0), 0) = 0
  BY TotalStep
<1> QED
  BY <1>1, <1>3, <1>4, <1>5, <1>6, n + 1 \in Nat

LEMMA RowsSame ==
  ASSUME NEW bs, NEW cs, NEW n \in Nat, NEW s, \A k \in 1..n : bs[k] = cs[k]
  PROVE  RowsUpTo(bs, n, s) = RowsUpTo(cs, n, s)
<1> DEFINE a == [k \in 1..n |-> bs[k].rows[s]]
           b == [k \in 1..n |-> cs[k].rows[s]]
<1>1. \A k \in 1..n : a[k] = b[k]
  OBVIOUS
<1>2. RowsUpTo(bs, n, s) = Total(a, n) /\ RowsUpTo(cs, n, s) = Total(b, n)
  BY RowsAreSums
<1> HIDE DEF a, b
<1> QED
  BY <1>1, <1>2, TotalSame

LEMMA TxsNat ==
  ASSUME NEW bs \in Seq(BlockType)
  PROVE  TxsOf(bs) \in Nat /\ (bs = <<>> => TxsOf(bs) = 0)
<1> DEFINE a == [k \in 1..Len(bs) |-> bs[k].txs]
<1>1. TxsOf(bs) = Total(a, Len(bs))
  BY TxsAreSums
<1>2. \A k \in 1..Len(bs) : a[k] \in Nat
  <2>1. \A k \in 1..Len(bs) : bs[k] \in BlockType
    OBVIOUS
  <2> QED
    BY <2>1 DEF BlockType
<1> HIDE DEF a
<1>3. Len(bs) \in Nat /\ (bs = <<>> => Len(bs) = 0)
  OBVIOUS
<1> QED
  BY <1>1, <1>2, <1>3, TotalNat, TotalStep

\* The witness has at most a header for each block, and that many only when
\* the blocks have numbers of their own.
LEMMA DistinctCounts ==
  ASSUME NEW bs \in Seq(BlockType)
  PROVE  /\ Distinct(bs) \in 0..Len(bs)
         /\ Distinct(bs) = Len(bs) <=>
              \A k, l \in DOMAIN bs : bs[k].number = bs[l].number => k = l
<1>1. Len(bs) \in Nat /\ DOMAIN bs = 1..Len(bs)
  OBVIOUS
<1>2. Distinct(bs) = Total(New(bs), Len(bs))
  BY <1>1, HeadersAreSums
<1>3. \A k \in 1..Len(bs) : New(bs)[k] \in {0, 1}
  BY DEF New
<1>4. /\ Total(New(bs), Len(bs)) \in 0..Len(bs)
      /\ Total(New(bs), Len(bs)) = Len(bs) <=> \A k \in 1..Len(bs) : New(bs)[k] = 1
  BY <1>1, <1>3, TotalOfBits
<1>5. (\A k \in 1..Len(bs) : New(bs)[k] = 1) <=>
        \A k \in 1..Len(bs) : \A l \in 1..(k - 1) : bs[l].number # bs[k].number
  BY DEF New
<1>6. (\A k \in 1..Len(bs) : \A l \in 1..(k - 1) : bs[l].number # bs[k].number) <=>
        \A k, l \in 1..Len(bs) : bs[k].number = bs[l].number => k = l
  <2>1. ASSUME \A k \in 1..Len(bs) : \A l \in 1..(k - 1) : bs[l].number # bs[k].number,
               NEW k \in 1..Len(bs), NEW l \in 1..Len(bs), bs[k].number = bs[l].number
        PROVE  k = l
    <3>1. ~ l \in 1..(k - 1) /\ ~ k \in 1..(l - 1)
      BY <2>1
    <3> QED
      BY <1>1, <3>1
  <2>2. ASSUME \A k, l \in 1..Len(bs) : bs[k].number = bs[l].number => k = l,
               NEW k \in 1..Len(bs), NEW l \in 1..(k - 1)
        PROVE  bs[l].number # bs[k].number
    <3>1. l \in 1..Len(bs) /\ l # k
      BY <1>1
    <3> QED
      BY <2>2, <3>1
  <2> QED
    BY <2>1, <2>2
<1> QED
  BY <1>1, <1>2, <1>4, <1>5, <1>6

-----------------------------------------------------------------------------
(* The inductive invariant.                                                *)

\* While the loop counts, the batch is uncut and acc holds the rows of the
\* blocks before the one it looks at, which fit.
CountsSoFar ==
  /\ stage \in {"count", "rows"} => blocks = batch
  /\ stage = "count" => index = 1 /\ acc = Zero
  /\ stage = "rows" =>
       /\ autoTruncate
       /\ Fits(batch, index - 1)
       /\ \A s \in SubCircuits : acc[s] = RowsUpTo(batch, index - 1, s)

\* What the check has kept: a longest prefix that fits.
Kept ==
  /\ Len(blocks) <= Len(batch)
  /\ blocks = SubSeq(batch, 1, Len(blocks))
  /\ autoTruncate =>
       /\ Fits(blocks, Len(blocks))
       /\ Len(blocks) < Len(batch) => ~ Fits(batch, Len(blocks) + 1)
  /\ ~ autoTruncate => blocks = batch

KeptBlocks ==
  /\ stage \in {"kept", "log", "mock", "prove", "proof", "mocked", "panic"} => Kept
  /\ stage = "kept" => autoTruncate
  /\ stage \in {"log", "mock", "prove", "proof", "mocked", "panic"} => ~ LostAllTxs

Outcomes ==
  /\ stage = "panic" => ~ LogIsSafe
  /\ stage = "proof" => proved = Distinct(blocks)

BatchInv == TypeOK /\ CountsSoFar /\ KeptBlocks /\ Outcomes

LEMMA InitBatch == Init => BatchInv
<1> SUFFICES ASSUME Init
             PROVE  BatchInv
  OBVIOUS
<1>1. batch \in Seq(BlockType)
  BY BatchAssumption DEF Init
<1>2. TypeOK
  BY <1>1 DEF Init, TypeOK, Stages, Zero
<1> QED
  BY <1>2 DEF Init, BatchInv, CountsSoFar, KeptBlocks, Outcomes

\* Every step leaves what was given as it is.
LEMMA GivenStays ==
  ASSUME NEW from, NEW to, GoTo(from, to)
  PROVE  /\ stage = from /\ stage' = to
         /\ UNCHANGED <<call, batch, autoTruncate, infoLogged, mockProve>>
BY DEF GoTo, given

\* The steps that only move on.
LEMMA MovesOn ==
  ASSUME BatchInv, NEW to \in Stages,
         stage' = to, UNCHANGED <<given, blocks, acc, index, proved>>,
         to \in {"prove", "proof", "panic"} => call = "prove",
         CountsSoFar', KeptBlocks', Outcomes'
  PROVE  BatchInv'
BY DEF BatchInv, TypeOK, given

LEMMA StartsCounting ==
  ASSUME BatchInv, TooManyBlocks \/ KeepAsIs \/ CountRows
  PROVE  BatchInv'
<1>0. batch \in Seq(BlockType) /\ blocks \in Seq(BlockType) /\ Len(batch) \in Nat
  BY BatchAssumption DEF BatchInv, TypeOK
<1>1. CASE TooManyBlocks
  <2>1. stage' = "error" /\ UNCHANGED <<given, blocks, acc, index, proved>>
    BY <1>1 DEF TooManyBlocks, GoTo
  <2>2. CountsSoFar' /\ KeptBlocks' /\ Outcomes'
    BY <2>1 DEF CountsSoFar, KeptBlocks, Outcomes
  <2> QED
    BY <2>1, <2>2, MovesOn DEF Stages
<1>2. CASE KeepAsIs
  <2>1. /\ stage = "count" /\ stage' = "log" /\ ~ autoTruncate
        /\ UNCHANGED <<given, blocks, acc, index, proved>>
    BY <1>2 DEF KeepAsIs, GoTo
  <2>2. blocks = batch
    BY <2>1 DEF BatchInv, CountsSoFar
  <2>3. Kept /\ ~ LostAllTxs
    BY <1>0, <2>1, <2>2, SubSeqProperties DEF Kept, LostAllTxs
  <2>4. Kept' /\ ~ LostAllTxs'
    BY <2>1, <2>3 DEF Kept, LostAllTxs, given, Fits
  <2>5. CountsSoFar' /\ KeptBlocks' /\ Outcomes'
    BY <2>1, <2>4 DEF CountsSoFar, KeptBlocks, Outcomes
  <2> QED
    BY <2>1, <2>5, MovesOn DEF Stages
<1>3. CASE CountRows
  <2>1. /\ stage = "count" /\ stage' = "rows" /\ autoTruncate
        /\ UNCHANGED <<given, blocks, acc, index, proved>>
    BY <1>3 DEF CountRows, GoTo
  <2>2. blocks = batch /\ index = 1 /\ acc = Zero
    BY <2>1 DEF BatchInv, CountsSoFar
  <2>3. \A s \in SubCircuits : RowsUpTo(batch, 0, s) = 0 /\ acc[s] = 0
    BY <2>2, RowsStep DEF Zero
  <2>4. Fits(batch, 0)
    BY <2>3, BatchAssumption DEF Fits
  <2>5. CountsSoFar'
    BY <2>1, <2>2, <2>3, <2>4 DEF CountsSoFar, given, Fits
  <2>6. KeptBlocks' /\ Outcomes'
    BY <2>1 DEF KeptBlocks, Outcomes
  <2> QED
    BY <2>1, <2>5, <2>6, MovesOn DEF Stages
<1> QED
  BY <1>1, <1>2, <1>3

\* The rows after the block the loop looks at.
LEMMA NextRows ==
  ASSUME BatchInv, stage = "rows", index <= Len(blocks), NEW sum,
         sum = Plus(acc, blocks[index])
  PROVE  /\ sum \in [SubCircuits -> Nat]
         /\ \A s \in SubCircuits : sum[s] = RowsUpTo(batch, index, s)
         /\ Full(sum) <=> ~ Fits(batch, index)
<1>1. /\ blocks = batch /\ index \in 1..Len(batch) /\ batch \in Seq(BlockType)
      /\ acc \in [SubCircuits -> Nat]
      /\ \A s \in SubCircuits : acc[s] = RowsUpTo(batch, index - 1, s)
  BY BatchAssumption DEF BatchInv, TypeOK, CountsSoFar
<1>2. blocks[index] \in BlockType
  BY <1>1
<1>3. \A s \in SubCircuits : blocks[index].rows[s] \in Nat
  BY <1>2 DEF BlockType
<1>4. sum = [s \in SubCircuits |-> acc[s] + blocks[index].rows[s]]
  BY DEF Plus
<1>5. sum \in [SubCircuits -> Nat]
  BY <1>1, <1>3, <1>4
<1>6. ASSUME NEW s \in SubCircuits
      PROVE  sum[s] = RowsUpTo(batch, index, s)
  <2>1. index - 1 \in Nat /\ (index - 1) + 1 = index
    BY <1>1
  <2>2. RowsUpTo(batch, (index - 1) + 1, s) = RowsUpTo(batch, index - 1, s) + batch[(index - 1) + 1].rows[s]
    BY <2>1, RowsStep
  <2> QED
    BY <1>1, <1>4, <2>1, <2>2
<1>7. \A s \in SubCircuits : ~ (sum[s] < DegreeRows - Spared) <=> sum[s] >= DegreeRows - Spared
  BY <1>5, BatchAssumption
<1> QED
  BY <1>5, <1>6, <1>7 DEF Full, Fits

LEMMA CountsOn ==
  ASSUME BatchInv, RowsFail \/ AddRows
  PROVE  BatchInv'
<1>0. batch \in Seq(BlockType) /\ Len(batch) \in Nat /\ index \in Nat
  BY BatchAssumption DEF BatchInv, TypeOK
<1>1. CASE RowsFail
  <2>1. stage' = "error" /\ UNCHANGED <<given, blocks, acc, index, proved>>
    BY <1>1 DEF RowsFail, GoTo
  <2>2. CountsSoFar' /\ KeptBlocks' /\ Outcomes'
    BY <2>1 DEF CountsSoFar, KeptBlocks, Outcomes
  <2> QED
    BY <2>1, <2>2, MovesOn DEF Stages
<1>2. CASE AddRows
  <2>1. /\ stage = "rows" /\ stage' = "rows" /\ index <= Len(blocks)
        /\ acc' = Plus(acc, blocks[index]) /\ ~ Full(acc')
        /\ index' = index + 1
        /\ UNCHANGED <<given, blocks, proved>>
    BY <1>2 DEF AddRows, GoTo
  <2>2. /\ acc' \in [SubCircuits -> Nat]
        /\ \A s \in SubCircuits : acc'[s] = RowsUpTo(batch, index, s)
        /\ Fits(batch, index)
    BY <2>1, NextRows
  <2>3. blocks = batch /\ autoTruncate /\ index' \in 1..Len(batch) + 1 /\ index' - 1 = index
    BY <1>0, <2>1 DEF BatchInv, CountsSoFar, TypeOK
  <2>4. TypeOK'
    BY <2>1, <2>2, <2>3 DEF BatchInv, TypeOK, given
  <2>5. CountsSoFar'
    BY <2>1, <2>2, <2>3 DEF CountsSoFar, given, Fits
  <2>6. KeptBlocks' /\ Outcomes'
    BY <2>1 DEF KeptBlocks, Outcomes
  <2> QED
    BY <2>4, <2>5, <2>6 DEF BatchInv
<1> QED
  BY <1>1, <1>2

LEMMA CutsBatch ==
  ASSUME BatchInv, Truncate \/ AllFit
  PROVE  BatchInv'
<1>0. batch \in Seq(BlockType) /\ Len(batch) \in Nat /\ index \in 1..Len(batch) + 1
  BY BatchAssumption DEF BatchInv, TypeOK
<1>1. CASE Truncate
  <2>1. /\ stage = "rows" /\ stage' = "kept" /\ index <= Len(blocks)
        /\ acc' = Plus(acc, blocks[index]) /\ Full(acc')
        /\ blocks' = SubSeq(blocks, 1, index - 1)
        /\ UNCHANGED <<given, index, proved>>
    BY <1>1 DEF Truncate, GoTo
  <2>2. acc' \in [SubCircuits -> Nat] /\ ~ Fits(batch, index)
    BY <2>1, NextRows
  <2>3. blocks = batch /\ autoTruncate /\ Fits(batch, index - 1) /\ index \in 1..Len(batch)
    BY <1>0, <2>1 DEF BatchInv, CountsSoFar
  <2>4. /\ blocks' \in Seq(BlockType) /\ Len(blocks') = index - 1
        /\ \A k \in 1..(index - 1) : blocks'[k] = batch[k]
    BY <1>0, <2>1, <2>3, SubSeqProperties
  <2>5. index - 1 \in Nat /\ (index - 1) + 1 = index
    BY <2>3
  <2>6. \A s \in SubCircuits : RowsUpTo(blocks', index - 1, s) = RowsUpTo(batch, index - 1, s)
    BY <2>4, <2>5, RowsSame
  <2>7. Fits(blocks', index - 1)
    BY <2>3, <2>6 DEF Fits
  <2>8. Kept'
    <3>1. /\ Len(blocks') <= Len(batch)
          /\ blocks' = SubSeq(batch, 1, Len(blocks'))
          /\ Fits(blocks', Len(blocks'))
          /\ ~ Fits(batch, Len(blocks') + 1)
      BY <1>0, <2>1, <2>2, <2>3, <2>4, <2>5, <2>7
    <3> QED
      BY <2>1, <2>3, <3>1 DEF Kept, given, Fits
  <2>9. TypeOK'
    BY <2>1, <2>2, <2>4 DEF BatchInv, TypeOK, given, Stages
  <2>10. CountsSoFar' /\ KeptBlocks' /\ Outcomes'
    BY <2>1, <2>3, <2>8 DEF CountsSoFar, KeptBlocks, Outcomes, given
  <2> QED
    BY <2>9, <2>10 DEF BatchInv
<1>2. CASE AllFit
  <2>1. /\ stage = "rows" /\ stage' = "kept" /\ index > Len(blocks)
        /\ UNCHANGED <<given, blocks, acc, index, proved>>
    BY <1>2 DEF AllFit, GoTo
  <2>2. blocks = batch /\ autoTruncate /\ Fits(batch, index - 1)
    BY <2>1 DEF BatchInv, CountsSoFar
  <2>3. index - 1 = Len(batch)
    BY <1>0, <2>1, <2>2
  <2>4. Kept
    <3>1. batch = SubSeq(batch, 1, Len(batch))
      BY <1>0, SubSeqProperties
    <3> QED
      BY <1>0, <2>2, <2>3, <3>1 DEF Kept
  <2>5. Kept'
    BY <2>1, <2>4 DEF Kept, given, Fits
  <2>6. CountsSoFar' /\ KeptBlocks' /\ Outcomes'
    BY <2>1, <2>2, <2>5 DEF CountsSoFar, KeptBlocks, Outcomes, given
  <2> QED
    BY <2>1, <2>6, MovesOn DEF Stages
<1> QED
  BY <1>1, <1>2

\* The steps after the check, which cut no more.
LEMMA AfterCheck ==
  ASSUME BatchInv,
         \/ NotEnough \/ Enough \/ WitnessFails \/ LogPanics \/ LogsBatch \/ LogsMock
         \/ MockFails \/ MockHolds \/ ProveBatch
  PROVE  BatchInv'
<1>1. /\ UNCHANGED <<given, blocks, acc, index>>
      /\ stage \in {"kept", "log", "mock", "prove"}
  BY DEF NotEnough, Enough, WitnessFails, LogPanics, LogsBatch, LogsMock, MockFails, MockHolds,
         ProveBatch, GoTo
<1>2. Kept /\ (stage # "kept" => ~ LostAllTxs)
  BY <1>1 DEF BatchInv, KeptBlocks
<1>3. Kept' /\ LostAllTxs' = LostAllTxs /\ LogIsSafe' = LogIsSafe
  BY <1>1, <1>2 DEF Kept, LostAllTxs, LogIsSafe, given, Fits
<1>4. CASE ProveBatch
  <2>1. stage = "prove" /\ stage' = "proof" /\ proved' = Distinct(blocks)
    BY <1>4 DEF ProveBatch, GoTo
  <2>2. proved' \in Nat
    BY <2>1, DistinctCounts DEF BatchInv, TypeOK
  <2>3. TypeOK'
    BY <1>1, <2>1, <2>2 DEF BatchInv, TypeOK, given, Stages
  <2>4. CountsSoFar' /\ KeptBlocks' /\ Outcomes'
    BY <1>1, <1>2, <1>3, <2>1 DEF CountsSoFar, KeptBlocks, Outcomes
  <2> QED
    BY <2>3, <2>4 DEF BatchInv
<1>5. CASE NotEnough \/ WitnessFails \/ MockFails
  <2>1. stage' = "error" /\ UNCHANGED proved
    BY <1>5 DEF NotEnough, WitnessFails, MockFails, GoTo
  <2>2. CountsSoFar' /\ KeptBlocks' /\ Outcomes'
    BY <2>1 DEF CountsSoFar, KeptBlocks, Outcomes
  <2> QED
    BY <1>1, <2>1, <2>2, MovesOn DEF Stages
<1>6. CASE Enough \/ LogsBatch \/ LogsMock \/ MockHolds \/ LogPanics
  <2>1. /\ stage' \in {"log", "mock", "prove", "mocked", "panic"} /\ UNCHANGED proved
        /\ stage' \in {"prove", "panic"} => call = "prove"
        /\ stage' = "panic" => ~ LogIsSafe
    BY <1>6 DEF Enough, LogsBatch, LogsMock, MockHolds, LogPanics, GoTo, BatchInv, TypeOK, Calls
  <2>2. ~ LostAllTxs
    BY <1>2, <1>6 DEF Enough, LogsBatch, LogsMock, MockHolds, LogPanics, GoTo
  <2>3. CountsSoFar' /\ KeptBlocks' /\ Outcomes'
    BY <1>3, <2>1, <2>2 DEF CountsSoFar, KeptBlocks, Outcomes
  <2> QED
    BY <1>1, <2>1, <2>3, MovesOn DEF Stages
<1> QED
  BY <1>4, <1>5, <1>6

LEMMA NextBatch == BatchInv /\ [Next]_vars => BatchInv'
<1> SUFFICES ASSUME BatchInv, [Next]_vars
             PROVE  BatchInv'
  OBVIOUS
<1>1. CASE Ended \/ UNCHANGED vars
  <2>1. UNCHANGED <<given, stage, blocks, acc, index, proved>>
    BY <1>1 DEF Ended, vars
  <2>2. stage \in Stages /\ (stage \in {"prove", "proof", "panic"} => call = "prove")
    BY DEF BatchInv, TypeOK
  <2>3. CountsSoFar' /\ KeptBlocks' /\ Outcomes'
    BY <2>1 DEF BatchInv, CountsSoFar, KeptBlocks, Outcomes, Kept, LostAllTxs, LogIsSafe, Fits, given
  <2> QED
    BY <2>1, <2>2, <2>3, MovesOn
<1>2. CASE Next
  BY <1>1, <1>2, StartsCounting, CountsOn, CutsBatch, AfterCheck DEF Next
<1> QED
  BY <1>1, <1>2

LEMMA BatchInvariant == Spec => []BatchInv
BY InitBatch, NextBatch, PTL DEF Spec

-----------------------------------------------------------------------------
(* The theorems.                                                           *)

(***************************************************************************)
(* The variables of the check keep their types; in particular the loop     *)
(* never looks past the block after the last.                              *)
(***************************************************************************)
THEOREM BatchTypeCorrect == Spec => []TypeOK
<1>1. BatchInv => TypeOK
  BY DEF BatchInv
<1> QED
  BY <1>1, BatchInvariant, PTL

(***************************************************************************)
(* Whatever batch passes check_batch_capacity with AUTO_TRUNCATE, all its  *)
(* blocks together stay below the limit in every sub-circuit: the rows the *)
(* loop accumulates are those of the blocks it keeps.                      *)
(***************************************************************************)
THEOREM AcceptedFitsHolds == Spec => []AcceptedFits
<1>1. BatchInv => AcceptedFits
  BY DEF BatchInv, KeptBlocks, Kept, AcceptedFits, Checked
<1> QED
  BY <1>1, BatchInvariant, PTL

(***************************************************************************)
(* What is kept of a batch is its longest prefix that fits.                *)
(***************************************************************************)
THEOREM KeepsLongestFitHolds == Spec => []KeepsLongestFit
<1>1. BatchInv => KeepsLongestFit
  BY DEF BatchInv, KeptBlocks, Kept, KeepsLongestFit, Checked
<1> QED
  BY <1>1, BatchInvariant, PTL

(***************************************************************************)
(* A batch with transactions is proved by a prefix that has some: the two  *)
(* counts of transactions, before and after the cut, rule out the rest.    *)
(***************************************************************************)
THEOREM ProofKeepsTxsHolds == Spec => []ProofKeepsTxs
<1>1. BatchInv => ProofKeepsTxs
  <2> SUFFICES ASSUME BatchInv, stage \in {"proof", "mocked"}, TxsOf(batch) > 0
               PROVE  TxsOf(blocks) > 0
    BY DEF ProofKeepsTxs
  <2>1. TxsOf(batch) \in Nat /\ TxsOf(blocks) \in Nat
    BY TxsNat, BatchAssumption DEF BatchInv, TypeOK
  <2>2. ~ LostAllTxs
    BY DEF BatchInv, KeptBlocks
  <2> QED
    BY <2>1, <2>2 DEF LostAllTxs
<1> QED
  BY <1>1, BatchInvariant, PTL

(***************************************************************************)
(* proved_block_count is the number of blocks kept, less those that share  *)
(* the number of an earlier one, for a batch of any length.                *)
(***************************************************************************)
THEOREM ProvedCountIsHonest == Spec => []ProvedCountHonest
<1>1. BatchInv => ProvedCountHonest
  <2> SUFFICES ASSUME BatchInv, stage = "proof"
               PROVE  /\ proved <= Len(blocks) /\ Len(blocks) <= Len(batch)
                      /\ proved = Len(blocks) <=>
                           \A k, l \in DOMAIN blocks :
                             blocks[k].number = blocks[l].number => k = l
    BY DEF ProvedCountHonest
  <2>1. blocks \in Seq(BlockType) /\ proved = Distinct(blocks) /\ Len(blocks) <= Len(batch)
    BY DEF BatchInv, TypeOK, Outcomes, KeptBlocks, Kept
  <2> QED
    BY <2>1, DistinctCounts
<1> QED
  BY <1>1, BatchInvariant, PTL

(***************************************************************************)
(* The log line that indexes block_traces[0] panics on no batch that has   *)
(* transactions and the hashes of its blocks.                              *)
(***************************************************************************)
THEOREM PanicOnlyWithoutTxsHolds == Spec => []PanicOnlyWithoutTxs
<1>1. BatchInv => PanicOnlyWithoutTxs
  <2> SUFFICES ASSUME BatchInv, stage = "panic", \A k \in DOMAIN blocks : blocks[k].hashed
               PROVE  TxsOf(batch) = 0 /\ (batch = <<>> \/ autoTruncate)
    BY DEF PanicOnlyWithoutTxs
  <2>1. blocks \in Seq(BlockType) /\ ~ LogIsSafe /\ ~ LostAllTxs /\ Kept
    BY DEF BatchInv, TypeOK, Outcomes, KeptBlocks
  <2>2. blocks # <<>> => 1 \in DOMAIN blocks /\ Len(blocks) \in DOMAIN blocks
    BY <2>1
  <2>3. blocks = <<>>
    BY <2>1, <2>2 DEF LogIsSafe
  <2>4. TxsOf(blocks) = 0
    BY <2>1, <2>3, TxsNat
  <2>5. TxsOf(batch) = 0
    BY <2>1, <2>4 DEF LostAllTxs
  <2> QED
    BY <2>1, <2>3, <2>5 DEF Kept
<1> QED
  BY <1>1, BatchInvariant, PTL
=============================================================================
