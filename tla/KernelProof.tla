----------------------------- MODULE KernelProof -----------------------------
(***************************************************************************)
(* What a kernel call may do to memory, for descriptors of every shape:      *)
(* nothing if it reports an error, no store outside the buffer of an output,  *)
(* and none into an input the kernel keeps apart from its outputs.            *)
(***************************************************************************)
EXTENDS KernelReference, FiniteSetTheorems, SequenceTheorems, TLAPS

-----------------------------------------------------------------------------
(* Quotients and remainders. *)

\* Quotient and remainder, as the prover needs them.
LEMMA QuotientAndRemainder ==
  ASSUME NEW W \in Nat \ {0}, NEW x \in Int
  PROVE  \E q, y \in Int, s \in 0 .. W - 1 : y = W * q /\ x = y + s /\ s = x % W
<1>1. /\ x \div W \in Int /\ x % W \in 0 .. W - 1
      /\ x = W * (x \div W) + (x % W)
  OBVIOUS
<1>2. W * (x \div W) \in Int
  BY <1>1
<1> QED BY <1>1, <1>2

\* Products of less than a word and more than minus a word are zero.
LEMMA SmallMultiple ==
  ASSUME NEW W \in Nat \ {0}, NEW m \in Int, -W < W * m, W * m < W
  PROVE  m = 0
<1>1. CASE m <= -1
  <2>1. W * m <= -W
    BY <1>1
  <2> QED BY <2>1
<1>2. CASE m >= 1
  <2>1. W * m >= W
    BY <1>2
  <2> QED BY <2>1
<1> QED BY <1>1, <1>2

\* A factor distributes over a difference and a sum.
LEMMA Distribute ==
  ASSUME NEW W \in Int, NEW p \in Int, NEW q \in Int
  PROVE  /\ W * (p - q) = W * p - W * q
         /\ W * (p + q) = W * p + W * q
         /\ W * p \in Int
OBVIOUS

\* The remainder is the only one of its kind.
LEMMA RemainderUnique ==
  ASSUME NEW W \in Nat \ {0}, NEW x \in Int, NEW k \in Int, NEW r \in 0 .. W - 1,
         x = W * k + r
  PROVE  x % W = r
<1>1. PICK q, y \in Int, s \in 0 .. W - 1 : y = W * q /\ x = y + s /\ s = x % W
  BY QuotientAndRemainder
<1>2. PICK z \in Int : z = W * k /\ x = z + r
  BY Distribute
<1>3. W * (q - k) = y - z
  BY <1>1, <1>2, Distribute
<1>4. -W < y - z /\ y - z < W
  BY ONLY <1>1, <1>2, W \in Nat, r \in 0 .. W - 1
<1>5. q - k = 0
  <2>1. q - k \in Int
    BY <1>1
  <2> QED BY <2>1, <1>3, <1>4, SmallMultiple
<1>6. q = k
  BY <1>1, <1>5
<1>7. y = z
  BY <1>1, <1>2, <1>6
<1> QED BY ONLY <1>1, <1>2, <1>7, W \in Nat, r \in 0 .. W - 1

-----------------------------------------------------------------------------
(***************************************************************************)
(* Induction: the functions TensorMeta defines by recursion along the axes *)
(* of a tensor exist, and what holds before the first axis and is kept by  *)
(* each axis holds after the last.                                         *)
(***************************************************************************)

\* A set that holds 0 and, with each number below n, the next one, holds all of
\* 0 .. n.  Otherwise take the smallest of the intervals 0 .. i with i outside.
LEMMA IntervalInduction ==
  ASSUME NEW n \in Nat, NEW G, 0 \in G, \A i \in 1 .. n : i - 1 \in G => i \in G
  PROVE  0 .. n \subseteq G
<1>. DEFINE Bad == {s \in SUBSET (0 .. n) : \E i \in 0 .. n : s = 0 .. i /\ i \notin G}
<1>1. SUFFICES ASSUME NEW j \in 0 .. n, j \notin G PROVE FALSE
  OBVIOUS
<1>2. IsFiniteSet(0 .. n)
  BY FS_Interval
<1>3. IsWellFoundedOn(StrictSubsetOrdering(0 .. n), FiniteSubsetsOf(0 .. n))
  BY FS_StrictSubsetOrderingWellFounded
<1>4. Bad \subseteq FiniteSubsetsOf(0 .. n)
  BY <1>2, FS_Subset DEF FiniteSubsetsOf
<1>5. 0 .. j \in Bad
  BY <1>1
<1>6. PICK x \in Bad : \A y \in Bad : ~ (<<y, x>> \in StrictSubsetOrdering(0 .. n))
  <2>1. Bad # {}
    BY <1>5
  <2>. HIDE DEF Bad
  <2> QED BY <1>3, <1>4, <2>1, WFMin
<1>7. PICK m \in 0 .. n : x = 0 .. m /\ m \notin G
  OBVIOUS
<1>8. m \in 1 .. n /\ m - 1 \notin G
  BY <1>7
<1>9. 0 .. m - 1 \in Bad
  BY <1>8
<1>10. <<0 .. m - 1, x>> \in StrictSubsetOrdering(0 .. n)
  BY <1>7, <1>8 DEF StrictSubsetOrdering
<1> QED BY <1>6, <1>9, <1>10

\* The same from n down to 0.
LEMMA DownwardInduction ==
  ASSUME NEW n \in Nat, NEW G, n \in G, \A i \in 1 .. n : i \in G => i - 1 \in G
  PROVE  0 .. n \subseteq G
<1>. DEFINE H == {j \in 0 .. n : n - j \in G}
<1>1. 0 \in H
  OBVIOUS
<1>2. ASSUME NEW j \in 1 .. n, j - 1 \in H PROVE j \in H
  <2>1. n - (j - 1) \in G /\ n - (j - 1) \in 1 .. n /\ n - (j - 1) - 1 = n - j
    BY <1>2
  <2> QED BY <2>1
<1>3. 0 .. n \subseteq H
  <2>. HIDE DEF H
  <2> QED BY <1>1, <1>2, IntervalInduction
<1>4. ASSUME NEW i \in 0 .. n PROVE i \in G
  <2>1. n - i \in H /\ n - (n - i) = i
    BY <1>3
  <2> QED BY <2>1
<1> QED BY <1>4

\* A function that never falls from one number to the next lies between its ends.
LEMMA Ascending ==
  ASSUME NEW n \in Nat, NEW f \in [0 .. n -> Int], \A i \in 1 .. n : f[i-1] <= f[i]
  PROVE  \A i \in 0 .. n : f[0] <= f[i] /\ f[i] <= f[n]
<1>. DEFINE Low == {i \in 0 .. n : f[0] <= f[i]}
            High == {i \in 0 .. n : f[i] <= f[n]}
<1>1. 0 \in Low /\ n \in High
  OBVIOUS
<1>2. ASSUME NEW i \in 1 .. n PROVE (i - 1 \in Low => i \in Low) /\ (i \in High => i - 1 \in High)
  <2>1. PICK a \in Int, b \in Int, x \in Int, y \in Int :
          x = f[i-1] /\ y = f[i] /\ a = f[0] /\ b = f[n] /\ x <= y
    <3>1. f[i-1] \in Int /\ f[i] \in Int /\ f[0] \in Int /\ f[n] \in Int
      OBVIOUS
    <3> QED BY <3>1
  <2> QED BY <2>1
<1>3. 0 .. n \subseteq Low
  <2>. HIDE DEF Low, High
  <2> QED BY <1>1, <1>2, IntervalInduction
<1>4. 0 .. n \subseteq High
  <2>. HIDE DEF Low, High
  <2> QED BY <1>1, <1>2, DownwardInduction
<1> QED BY <1>3, <1>4

\* One that never rises, too.
LEMMA Descending ==
  ASSUME NEW n \in Nat, NEW f \in [0 .. n -> Int], \A i \in 1 .. n : f[i] <= f[i-1]
  PROVE  \A i \in 0 .. n : f[n] <= f[i] /\ f[i] <= f[0]
<1>. DEFINE g == [i \in 0 .. n |-> f[n - i]]
<1>1. g \in [0 .. n -> Int] /\ g[0] = f[n] /\ g[n] = f[0]
  OBVIOUS
<1>2. \A i \in 1 .. n : g[i-1] <= g[i]
  <2>1. ASSUME NEW i \in 1 .. n PROVE g[i-1] <= g[i]
    <3>1. n - i + 1 \in 1 .. n /\ (n - i + 1) - 1 = n - i /\ n - (i - 1) = n - i + 1
      OBVIOUS
    <3>2. f[n - i + 1] <= f[n - i]
      BY <3>1
    <3> QED BY <3>1, <3>2
  <2> QED BY <2>1
<1>3. ASSUME NEW i \in 0 .. n PROVE f[n] <= f[i] /\ f[i] <= f[0]
  <2>1. n - i \in 0 .. n /\ n - (n - i) = i
    OBVIOUS
  <2>2. g[n - i] = f[i]
    BY <2>1
  <2>. HIDE DEF g
  <2> QED BY <1>1, <1>2, <2>1, <2>2, Ascending
<1> QED BY <1>3

\* A recursion along n axes: Step[i] takes the value on one side of axis i to the
\* value on the other; it starts with c on the left, or with c on the right.
StepFunctions(n) == [1 .. n -> [Int -> Int]]

FromLeft(g, n, c, Step) ==
  g \in [0 .. n -> Int] /\ g[0] = c /\ \A i \in 1 .. n : g[i] = Step[i][g[i-1]]

FromRight(g, n, c, Step) ==
  g \in [0 .. n -> Int] /\ g[n] = c /\ \A i \in 1 .. n : g[i-1] = Step[i][g[i]]

\* A recursive function that counts up exists and obeys its definition.
LEMMA RecursionExists ==
  ASSUME NEW n \in Nat, NEW c \in Int, NEW Step \in StepFunctions(n)
  PROVE  \E g : FromLeft(g, n, c, Step)
<1>. USE DEF StepFunctions
<1>. DEFINE Solves(g, k) == g[0] = c /\ \A i \in 1 .. k : g[i] = Step[i][g[i-1]]
            G == {k \in 0 .. n : \E g \in [0 .. k -> Int] : Solves(g, k)}
<1>1. 0 \in G
  <2>. DEFINE h == [i \in 0 .. 0 |-> c]
  <2>1. h \in [0 .. 0 -> Int] /\ Solves(h, 0)
    OBVIOUS
  <2>. HIDE DEF h, Solves
  <2> QED BY <2>1
<1>2. ASSUME NEW k \in 1 .. n, k - 1 \in G PROVE k \in G
  <2>1. PICK g \in [0 .. k - 1 -> Int] : Solves(g, k - 1)
    BY <1>2
  <2>. DEFINE h == [i \in 0 .. k |-> IF i = k THEN Step[k][g[k-1]] ELSE g[i]]
  <2>2. g[k-1] \in Int /\ Step[k] \in [Int -> Int] /\ Step[k][g[k-1]] \in Int
    OBVIOUS
  <2>3. h \in [0 .. k -> Int] /\ h[0] = c
    <3>1. ASSUME NEW i \in 0 .. k PROVE (IF i = k THEN Step[k][g[k-1]] ELSE g[i]) \in Int
      <4>1. CASE i = k
        BY <4>1, <2>2
      <4>2. CASE i # k
        <5>1. i \in 0 .. k - 1
          BY <4>2
        <5> QED BY <4>2, <5>1
      <4> QED BY <4>1, <4>2
    <3>2. h \in [0 .. k -> Int]
      BY <3>1
    <3>3. 0 \in 0 .. k /\ 0 # k
      OBVIOUS
    <3>4. h[0] = g[0]
      BY <3>3
    <3> QED BY <3>2, <3>4, <2>1
  <2>4. ASSUME NEW i \in 1 .. k PROVE h[i] = Step[i][h[i-1]]
    <3>1. CASE i = k
      <4>1. h[k] = Step[k][g[k-1]] /\ h[k-1] = g[k-1]
        OBVIOUS
      <4> QED BY <4>1, <3>1
    <3>2. CASE i # k
      <4>1. i \in 1 .. k - 1 /\ h[i] = g[i] /\ h[i-1] = g[i-1]
        BY <3>2
      <4> QED BY <4>1, <2>1
    <3> QED BY <3>1, <3>2
  <2>5. Solves(h, k)
    BY <2>3, <2>4
  <2>. HIDE DEF h, Solves
  <2> QED BY <2>3, <2>5
<1>3. n \in G
  <2>. HIDE DEF G
  <2>1. 0 .. n \subseteq G
    BY <1>1, <1>2, IntervalInduction
  <2> QED BY <2>1
<1> QED BY <1>3 DEF FromLeft

\* So does one that counts down from n.
LEMMA DownwardRecursionExists ==
  ASSUME NEW n \in Nat, NEW c \in Int, NEW Step \in StepFunctions(n)
  PROVE  \E g : FromRight(g, n, c, Step)
<1>. USE DEF StepFunctions
<1>. DEFINE Turn == [i \in 1 .. n |-> Step[n - i + 1]]
<1>1. Turn \in StepFunctions(n)
  OBVIOUS
<1>2. PICK h \in [0 .. n -> Int] : h[0] = c /\ \A i \in 1 .. n : h[i] = Turn[i][h[i-1]]
  <2>. HIDE DEF Turn, StepFunctions
  <2> QED BY <1>1, RecursionExists DEF FromLeft
<1>. DEFINE g == [i \in 0 .. n |-> h[n - i]]
<1>3. g \in [0 .. n -> Int] /\ g[n] = c
  BY <1>2
<1>4. ASSUME NEW i \in 1 .. n PROVE g[i-1] = Step[i][g[i]]
  <2>1. n - i + 1 \in 1 .. n /\ n - (n - i + 1) + 1 = i /\ n - (i - 1) = n - i + 1 /\ n - i + 1 - 1 = n - i
    OBVIOUS
  <2>2. h[n - i + 1] = Turn[n - i + 1][h[n - i]]
    BY <1>2, <2>1
  <2>3. Turn[n - i + 1] = Step[i]
    BY <2>1
  <2> QED BY <2>1, <2>2, <2>3
<1>. HIDE DEF g
<1> QED BY <1>3, <1>4 DEF FromRight

-----------------------------------------------------------------------------
(* Rows: a number below A * B, and its quotient and remainder by B. *)

\* Division by a positive number.
LEMMA QuotientNat ==
  ASSUME NEW x \in Nat, NEW b \in Nat, b >= 1
  PROVE  x \div b \in Nat /\ x % b \in 0 .. b - 1
OBVIOUS

\* Counting in rows of B.
LEMMA RowBound ==
  ASSUME NEW A \in Nat, NEW B \in Nat, NEW a \in 0 .. A - 1, NEW b \in 0 .. B - 1
  PROVE  a * B + b \in 0 .. A * B - 1
<1>1. (a + 1) * B <= A * B
  <2>1. A * B = (a + 1) * B + (A - (a + 1)) * B /\ (A - (a + 1)) * B >= 0
    OBVIOUS
  <2>2. (a + 1) * B \in Int /\ A * B \in Int /\ (A - (a + 1)) * B \in Int
    OBVIOUS
  <2> QED BY <2>1, <2>2
<1>2. (a + 1) * B = a * B + B /\ a * B \in Nat /\ A * B \in Nat
  OBVIOUS
<1>3. PICK p \in Nat, q \in Nat : p = a * B /\ q = A * B
  BY <1>2
<1>4. p + B <= q
  BY <1>1, <1>2, <1>3
<1>5. p + b \in 0 .. q - 1
  BY ONLY <1>4, p \in Nat, q \in Nat, b \in 0 .. B - 1, B \in Nat
<1> QED BY <1>3, <1>5

\* A number below A rows of B: its row and its place there.
LEMMA RowSplit ==
  ASSUME NEW A \in Nat, NEW B \in Nat, NEW x \in 0 .. A * B - 1
  PROVE  /\ B >= 1 /\ x \div B \in 0 .. A - 1 /\ x % B \in 0 .. B - 1
         /\ x = (x \div B) * B + (x % B)
<1>0. x \in Nat /\ x < A * B
  <2>1. A * B \in Nat
    OBVIOUS
  <2> QED BY <2>1
<1>1. B >= 1
  <2>1. B = 0 => A * B = 0
    OBVIOUS
  <2> QED BY <1>0, <2>1
<1>2. x \div B \in Nat /\ x % B \in 0 .. B - 1
  BY <1>0, <1>1, QuotientNat
<1>3. x = B * (x \div B) + (x % B)
  BY <1>0, <1>1
<1>4. PICK q \in Nat, r \in Nat : q = x \div B /\ r = x % B /\ x = B * q + r
  BY <1>2, <1>3
<1>5. q < A
  <2>1. SUFFICES ASSUME q >= A PROVE FALSE
    OBVIOUS
  <2>2. PICK k \in Nat : q = A + k
    <3>1. q - A \in Nat /\ q = A + (q - A)
      BY <2>1
    <3> QED BY <3>1
  <2>3. B * q = A * B + B * k /\ B * k \in Nat /\ A * B \in Nat
    BY ONLY <2>2, A \in Nat, B \in Nat, k \in Nat
  <2> QED BY <1>0, <1>4, <2>3
<1>6. B * q = q * B
  OBVIOUS
<1> QED BY <1>1, <1>2, <1>4, <1>5, <1>6

\* A fraction that is not above the number m is not, rounded down, either.
LEMMA QuotientBelow ==
  ASSUME NEW m \in Nat, NEW d \in Nat, d >= 1, NEW x \in Nat, x <= m * d
  PROVE  x \div d \in 0 .. m
<1>1. m * d \in Nat /\ (m + 1) * d = m * d + d
  OBVIOUS
<1>2. PICK A \in Nat : A = m + 1
  OBVIOUS
<1>3. x \in 0 .. A * d - 1
  BY <1>1, <1>2
<1>4. x \div d \in 0 .. A - 1
  BY <1>3, RowSplit
<1> QED BY <1>2, <1>4

\* An element of a row: the row o in front of the axis, place j along it, r behind it.
LEMMA RowPlace ==
  ASSUME NEW P \in Nat, NEW n \in Nat, NEW i \in Nat,
         NEW o \in 0 .. P - 1, NEW j \in 0 .. n - 1, NEW r \in 0 .. i - 1
  PROVE  o * n * i + j * i + r \in 0 .. (P * n) * i - 1
<1>1. PICK A \in Nat, x \in Nat : A = P * n /\ x = o * n + j /\ x \in 0 .. A - 1
  <2>1. o * n + j \in 0 .. P * n - 1 /\ P * n \in Nat
    BY RowBound
  <2> QED BY <2>1
<1>2. x * i + r \in 0 .. A * i - 1
  BY <1>1, RowBound
<1>3. o * n * i + j * i = (o * n + j) * i
  <2>1. PICK y \in Nat, u \in Nat : y = o * n /\ u = j
    OBVIOUS
  <2>2. y * i + u * i = (y + u) * i
    BY ONLY y \in Nat, u \in Nat, i \in Nat
  <2> QED BY <2>1, <2>2
<1>4. o * n * i + j * i + r = x * i + r
  BY <1>1, <1>3
<1> QED BY <1>1, <1>2, <1>4

\* Place e of row x, of A rows of B, and the way back.
LEMMA RowCell ==
  ASSUME NEW A \in Nat, NEW B \in Nat, NEW x \in 0 .. A - 1, NEW e \in 0 .. B - 1
  PROVE  x * B + e \in 0 .. A * B - 1 /\ (x * B + e) % B = e /\ (x * B + e) \div B = x
<1>1. B >= 1
  OBVIOUS
<1>2. PICK v \in 0 .. A * B - 1 : v = x * B + e
  <2>1. x * B + e \in 0 .. A * B - 1
    BY RowBound
  <2> QED BY <2>1
<1>3. v \div B \in 0 .. A - 1 /\ v % B \in 0 .. B - 1 /\ v = (v \div B) * B + (v % B)
  BY RowSplit
<1>4. v % B = e
  <2>1. v = B * x + e
    BY <1>2
  <2> QED BY <1>1, <2>1, RemainderUnique
<1>5. PICK z \in Nat : z = v \div B /\ z * B = x * B
  <2>1. PICK z \in Nat : z = v \div B
    BY <1>3
  <2>2. z * B \in Nat /\ x * B \in Nat
    OBVIOUS
  <2> QED BY <1>2, <1>3, <1>4, <2>1, <2>2
<1>6. z = x
  <2>1. B * (z - x) = 0 /\ z - x \in Int
    BY <1>5
  <2>2. z - x = 0
    BY <1>1, <2>1, SmallMultiple
  <2> QED BY <2>2
<1> QED BY <1>2, <1>4, <1>5, <1>6

\* Three sequences of numbers in a row.
LEMMA ThreeParts ==
  ASSUME NEW u \in Seq(Nat), NEW t \in Seq(Nat), NEW w \in Seq(Nat)
  PROVE  /\ u \o t \o w \in Seq(Nat) /\ Len(u \o t \o w) = Len(u) + Len(t) + Len(w)
         /\ \A i \in 1 .. Len(u) : (u \o t \o w)[i] = u[i]
         /\ \A i \in 1 .. Len(t) : (u \o t \o w)[Len(u) + i] = t[i]
         /\ \A i \in 1 .. Len(w) : (u \o t \o w)[Len(u) + Len(t) + i] = w[i]
<1>0. PICK a \in Nat, b \in Nat, d \in Nat : a = Len(u) /\ b = Len(t) /\ d = Len(w)
  OBVIOUS
<1>1. PICK v : v = u \o t
  OBVIOUS
<1>2. /\ v \in Seq(Nat) /\ Len(v) = a + b
      /\ \A i \in 1 .. a + b : v[i] = IF i <= a THEN u[i] ELSE t[i - a]
  BY <1>0, <1>1, ConcatProperties
<1>9. PICK r : r = u \o t \o w
  OBVIOUS
<1>3. /\ r \in Seq(Nat) /\ Len(r) = (a + b) + d
      /\ \A i \in 1 .. (a + b) + d : r[i] = IF i <= a + b THEN v[i] ELSE w[i - (a + b)]
  <2>1. r = v \o w /\ v \in Seq(Nat)
    BY <1>1, <1>2, <1>9
  <2>2. /\ v \o w \in Seq(Nat)
        /\ Len(v \o w) = Len(v) + Len(w)
        /\ \A i \in 1 .. Len(v) + Len(w) : (v \o w)[i] =
                     IF i <= Len(v) THEN v[i] ELSE w[i - Len(v)]
    BY ONLY <2>1, w \in Seq(Nat), ConcatProperties, Zenon
  <2> QED BY ONLY <1>0, <1>2, <2>1, <2>2, Zenon
<1>4. ASSUME NEW i \in 1 .. a PROVE r[i] = u[i]
  <2>1. i \in 1 .. a + b /\ i \in 1 .. (a + b) + d /\ i <= a /\ i <= a + b
    OBVIOUS
  <2> QED BY ONLY <1>2, <1>3, <2>1
<1>5. ASSUME NEW i \in 1 .. b PROVE r[a + i] = t[i]
  <2>1. PICK j \in Nat : j = a + i
    OBVIOUS
  <2>2. j \in 1 .. a + b /\ j \in 1 .. (a + b) + d /\ ~(j <= a) /\ j <= a + b /\ j - a = i
    BY <2>1
  <2>3. r[j] = t[i]
    BY ONLY <1>2, <1>3, <2>2
  <2> QED BY <2>1, <2>3
<1>6. ASSUME NEW i \in 1 .. d PROVE r[a + b + i] = w[i]
  <2>1. PICK j \in Nat : j = a + b + i
    OBVIOUS
  <2>2. j \in 1 .. (a + b) + d /\ ~(j <= a + b) /\ j - (a + b) = i
    BY <2>1
  <2>3. r[j] = w[i]
    BY ONLY <1>3, <2>2
  <2> QED BY <2>1, <2>3
<1> QED BY ONLY <1>0, <1>3, <1>4, <1>5, <1>6, <1>9, Zenon

\* The members of a finite set in an order, Before[x] those in front of x, are
\* numbered by how many are in front of them.
TotalOrder(S, Before) ==
  /\ Before \in [S -> SUBSET S]
  /\ \A x \in S : x \notin Before[x]
  /\ \A x, y \in S : x = y \/ x \in Before[y] \/ y \in Before[x]
  /\ \A x, y \in S : x \in Before[y] => Before[x] \subseteq Before[y]

\* The elements of a total order are numbered by how many come before them.
LEMMA Ranks ==
  ASSUME NEW S, IsFiniteSet(S), NEW Before, TotalOrder(S, Before)
  PROVE  /\ Cardinality(S) \in Nat
         /\ \E f \in Bijection(S, 0 .. Cardinality(S) - 1) :
              \A x \in S : f[x] = Cardinality(Before[x])
<1>. DEFINE n == Cardinality(S)
            f == [x \in S |-> Cardinality(Before[x])]
<1>1. n \in Nat
  BY FS_CardinalityType
<1>0. /\ Before \in [S -> SUBSET S]
      /\ \A x \in S : x \notin Before[x]
      /\ \A x, y \in S : x = y \/ x \in Before[y] \/ y \in Before[x]
      /\ \A x, y \in S : x \in Before[y] => Before[x] \subseteq Before[y]
  BY DEF TotalOrder
<1>2. ASSUME NEW x \in S
      PROVE  /\ IsFiniteSet(Before[x]) /\ Cardinality(Before[x]) \in Nat
             /\ Cardinality(Before[x]) < n
  <2>1. Before[x] \in SUBSET S /\ Before[x] # S
    BY <1>0
  <2>2. /\ IsFiniteSet(Before[x]) /\ Cardinality(Before[x]) <= n
        /\ Cardinality(Before[x]) # n
    BY <2>1, FS_Subset
  <2>3. Cardinality(Before[x]) \in Nat
    BY <2>2, FS_CardinalityType
  <2> QED BY <1>1, <2>2, <2>3
<1>3. f \in [S -> 0 .. n - 1]
  <2>1. ASSUME NEW x \in S PROVE Cardinality(Before[x]) \in 0 .. n - 1
    BY <1>1, <1>2
  <2> QED BY <2>1
<1>4. ASSUME NEW x \in S, NEW y \in S, x \in Before[y] PROVE f[x] # f[y]
  <2>1. Before[x] \cup {x} \in SUBSET Before[y] /\ x \notin Before[x]
    BY <1>0, <1>4
  <2>2. Cardinality(Before[x] \cup {x}) <= Cardinality(Before[y])
    BY <1>2, <2>1, FS_Subset
  <2>3. Cardinality(Before[x] \cup {x}) = Cardinality(Before[x]) + 1
    BY <1>2, <2>1, FS_AddElement
  <2>4. Cardinality(Before[x]) # Cardinality(Before[y])
    BY <1>2, <2>2, <2>3
  <2> QED BY <2>4
<1>5. f \in Injection(S, 0 .. n - 1)
  <2>1. ASSUME NEW x \in S, NEW y \in S, f[x] = f[y] PROVE x = y
    <3>. HIDE DEF f
    <3> QED BY <1>0, <1>4, <2>1
  <2>. HIDE DEF f
  <2> QED BY <1>3, <2>1 DEF Injection, IsInjective
<1>6. IsFiniteSet(0 .. n - 1) /\ Cardinality(0 .. n - 1) = n
  <2>1. /\ IsFiniteSet(0 .. n - 1)
        /\ Cardinality(0 .. n - 1) = IF 0 > n - 1 THEN 0 ELSE n - 1 - 0 + 1
    BY <1>1, FS_Interval
  <2> QED BY <1>1, <2>1
<1>7. f \in Surjection(S, 0 .. n - 1)
  <2>. HIDE DEF f
  <2> QED BY <1>5, <1>6, FS_Injection
<1>8. f \in Bijection(S, 0 .. n - 1)
  <2>. HIDE DEF f
  <2> QED BY <1>5, <1>7 DEF Bijection
<1>9. \A x \in S : f[x] = Cardinality(Before[x])
  OBVIOUS
<1>. HIDE DEF f
<1> QED BY <1>1, <1>8, <1>9

-----------------------------------------------------------------------------
(***************************************************************************)
(* Why checked_meta is enough (call.rs:136): whatever rank, shape and      *)
(* strides a view has, an element addressed through its logical index lies *)
(* inside its buffer.  The functions TensorMeta defines by recursion along *)
(* the axes are first unrolled to their equations.                         *)
(***************************************************************************)

\* The products of the extents from the first axis on.
LEMMA PrefixFacts ==
  ASSUME NEW n \in Nat, NEW shape \in [1 .. n -> Nat], Len(shape) = n
  PROVE  /\ Prefix(shape) \in [0 .. n -> Int]
         /\ Prefix(shape)[0] = 1
         /\ \A i \in 1 .. n : Prefix(shape)[i] = Prefix(shape)[i-1] * shape[i]
<1>. DEFINE Step == [i \in 1 .. n |-> [x \in Int |-> x * shape[i]]]
            p == Prefix(shape)
<1>1. Step \in StepFunctions(n)
  BY DEF StepFunctions
<1>2. PICK g \in [0 .. n -> Int] : g[0] = 1 /\ \A i \in 1 .. n : g[i] = Step[i][g[i-1]]
  <2>. HIDE DEF Step
  <2>1. 1 \in Int
    OBVIOUS
  <2>2. PICK g : FromLeft(g, n, 1, Step)
    BY ONLY <1>1, <2>1, n \in Nat, RecursionExists
  <2> QED BY <2>2 DEF FromLeft
<1>3. ASSUME NEW i \in 1 .. n PROVE g[i] = g[i-1] * shape[i]
  <2>1. g[i-1] \in Int
    OBVIOUS
  <2>2. Step[i][g[i-1]] = g[i-1] * shape[i]
    BY <2>1
  <2> QED BY <2>2, <1>2
<1>4. g = [i \in 0 .. n |-> IF i = 0 THEN 1 ELSE g[i-1] * shape[i]]
  BY <1>2, <1>3
<1>5. p = [i \in 0 .. n |-> IF i = 0 THEN 1 ELSE p[i-1] * shape[i]]
  BY <1>4 DEF Prefix
<1>. HIDE DEF p
<1>6. p[0] = 1 /\ \A i \in 1 .. n : p[i] = p[i-1] * shape[i]
  BY <1>5
<1>. DEFINE G == {i \in 0 .. n : p[i] = g[i]}
<1>7. 0 \in G
  BY <1>2, <1>6
<1>8. \A i \in 1 .. n : i - 1 \in G => i \in G
  BY <1>3, <1>6
<1>9. 0 .. n \subseteq G
  <2>. HIDE DEF G
  <2> QED BY <1>7, <1>8, IntervalInduction
<1>10. p \in [0 .. n -> Int]
  <2>1. \A i \in 0 .. n : p[i] \in Int
    BY <1>9
  <2> QED BY <2>1, <1>5
<1> QED BY <1>6, <1>10 DEF p

\* The products of the extents from the last axis on.
LEMMA SuffixFacts ==
  ASSUME NEW n \in Nat, NEW shape \in [1 .. n -> Nat], Len(shape) = n
  PROVE  /\ Suffix(shape) \in [0 .. n -> Int]
         /\ Suffix(shape)[n] = 1
         /\ \A i \in 1 .. n : Suffix(shape)[i-1] = shape[i] * Suffix(shape)[i]
<1>. DEFINE Step == [i \in 1 .. n |-> [x \in Int |-> shape[i] * x]]
            p == Suffix(shape)
<1>1. Step \in StepFunctions(n)
  BY DEF StepFunctions
<1>2. PICK g \in [0 .. n -> Int] : g[n] = 1 /\ \A i \in 1 .. n : g[i-1] = Step[i][g[i]]
  <2>. HIDE DEF Step
  <2>1. 1 \in Int
    OBVIOUS
  <2>2. PICK g : FromRight(g, n, 1, Step)
    BY ONLY <1>1, <2>1, n \in Nat, DownwardRecursionExists
  <2> QED BY <2>2 DEF FromRight
<1>3. ASSUME NEW i \in 1 .. n PROVE g[i-1] = shape[i] * g[i]
  <2>1. g[i] \in Int
    OBVIOUS
  <2>2. Step[i][g[i]] = shape[i] * g[i]
    BY <2>1
  <2> QED BY <2>2, <1>2
<1>4. g = [i \in 0 .. n |-> IF i = n THEN 1 ELSE shape[i+1] * g[i+1]]
  <2>1. ASSUME NEW i \in 0 .. n PROVE g[i] = IF i = n THEN 1 ELSE shape[i+1] * g[i+1]
    <3>1. CASE i = n
      BY <3>1, <1>2
    <3>2. CASE i # n
      <4>1. i + 1 \in 1 .. n /\ (i + 1) - 1 = i
        BY <3>2
      <4> QED BY <4>1, <1>3, <3>2
    <3> QED BY <3>1, <3>2
  <2> QED BY <2>1
<1>5. p = [i \in 0 .. n |-> IF i = n THEN 1 ELSE shape[i+1] * p[i+1]]
  BY ONLY <1>4, Len(shape) = n DEF Suffix
<1>. HIDE DEF p
<1>6. p[n] = 1 /\ \A i \in 1 .. n : p[i-1] = shape[i] * p[i]
  <2>1. p[n] = 1
    BY <1>5
  <2>2. ASSUME NEW i \in 1 .. n PROVE p[i-1] = shape[i] * p[i]
    <3>1. i - 1 \in 0 .. n /\ i - 1 # n /\ (i - 1) + 1 = i
      OBVIOUS
    <3> QED BY <3>1, <1>5
  <2> QED BY <2>1, <2>2
<1>. DEFINE G == {i \in 0 .. n : p[i] = g[i]}
<1>7. n \in G
  BY <1>2, <1>6
<1>8. \A i \in 1 .. n : i \in G => i - 1 \in G
  <2>1. ASSUME NEW i \in 1 .. n, i \in G PROVE i - 1 \in G
    <3>1. p[i-1] = g[i-1]
      BY <1>3, <1>6, <2>1
    <3> QED BY <3>1
  <2> QED BY <2>1
<1>9. 0 .. n \subseteq G
  <2>. HIDE DEF G
  <2> QED BY <1>7, <1>8, DownwardInduction
<1>10. p \in [0 .. n -> Int]
  <2>1. \A i \in 0 .. n : p[i] \in Int
    BY <1>9
  <2> QED BY <2>1, <1>5
<1> QED BY <1>6, <1>10 DEF p

\* The sums that Reach and Offset are.
LEMMA SumsFacts ==
  ASSUME NEW n \in Nat, NEW d \in [1 .. n -> Int]
  PROVE  /\ Sums(n, d) \in [0 .. n -> Int]
         /\ Sums(n, d)[0] = 0
         /\ \A i \in 1 .. n : Sums(n, d)[i] = Sums(n, d)[i-1] + d[i]
<1>. DEFINE Step == [i \in 1 .. n |-> [x \in Int |-> x + d[i]]]
            p == Sums(n, d)
<1>1. Step \in StepFunctions(n)
  BY DEF StepFunctions
<1>2. PICK g \in [0 .. n -> Int] : g[0] = 0 /\ \A i \in 1 .. n : g[i] = Step[i][g[i-1]]
  <2>. HIDE DEF Step
  <2>1. 0 \in Int
    OBVIOUS
  <2>2. PICK g : FromLeft(g, n, 0, Step)
    BY ONLY <1>1, <2>1, n \in Nat, RecursionExists
  <2> QED BY <2>2 DEF FromLeft
<1>3. ASSUME NEW i \in 1 .. n PROVE g[i] = g[i-1] + d[i]
  <2>1. g[i-1] \in Int
    OBVIOUS
  <2>2. Step[i][g[i-1]] = g[i-1] + d[i]
    BY <2>1
  <2> QED BY <2>2, <1>2
<1>4. g = [i \in 0 .. n |-> IF i = 0 THEN 0 ELSE g[i-1] + d[i]]
  BY <1>2, <1>3
<1>5. p = [i \in 0 .. n |-> IF i = 0 THEN 0 ELSE p[i-1] + d[i]]
  BY <1>4 DEF Sums
<1>. HIDE DEF p
<1>6. p[0] = 0 /\ \A i \in 1 .. n : p[i] = p[i-1] + d[i]
  BY <1>5
<1>. DEFINE G == {i \in 0 .. n : p[i] = g[i]}
<1>7. 0 \in G
  BY <1>2, <1>6
<1>8. \A i \in 1 .. n : i - 1 \in G => i \in G
  BY <1>3, <1>6
<1>9. 0 .. n \subseteq G
  <2>. HIDE DEF G
  <2> QED BY <1>7, <1>8, IntervalInduction
<1>10. p \in [0 .. n -> Int]
  <2>1. \A i \in 0 .. n : p[i] \in Int
    BY <1>9
  <2> QED BY <2>1, <1>5
<1> QED BY <1>6, <1>10 DEF p

-----------------------------------------------------------------------------
\* The parts of a view.
LEMMA ViewFacts ==
  ASSUME NEW v \in Views
  PROVE  /\ Rank(v) \in Nat /\ Axes(v) = 1 .. Rank(v)
         /\ v.shape \in [1 .. Rank(v) -> Nat] /\ v.stride \in [1 .. Rank(v) -> Nat]
         /\ v.data \in Nat /\ v.bytes \in Nat
BY DEF Views, Rank, Axes

\* element_size_bytes
LEMMA SizeFacts ==
  ASSUME NEW v, v.dtype \in DOMAIN ElementSize
  PROVE  SizeOf(v) \in 1 .. 8
BY DEF SizeOf, ElementSize

\* The products from the last axis on are natural numbers.
LEMMA SuffixNat ==
  ASSUME NEW n \in Nat, NEW shape \in [1 .. n -> Nat], Len(shape) = n
  PROVE  \A i \in 0 .. n : Suffix(shape)[i] \in Nat
<1>. DEFINE p == Suffix(shape)
            G == {i \in 0 .. n : p[i] \in Nat}
<1>1. p[n] = 1 /\ \A i \in 1 .. n : p[i-1] = shape[i] * p[i]
  BY SuffixFacts
<1>. HIDE DEF p
<1>2. n \in G
  BY <1>1
<1>3. \A i \in 1 .. n : i \in G => i - 1 \in G
  <2>1. ASSUME NEW i \in 1 .. n, i \in G PROVE i - 1 \in G
    <3>1. p[i-1] = shape[i] * p[i] /\ shape[i] \in Nat /\ p[i] \in Nat
      BY <1>1, <2>1
    <3>2. p[i-1] \in Nat
      BY ONLY <3>1
    <3> QED BY <3>2
  <2> QED BY <2>1
<1>4. 0 .. n \subseteq G
  <2>. HIDE DEF G
  <2> QED BY <1>2, <1>3, DownwardInduction
<1> QED BY <1>4 DEF p

\* The two ways of multiplying give the same number of elements.
LEMMA CountIsSuffix ==
  ASSUME NEW n \in Nat, NEW shape \in [1 .. n -> Nat], Len(shape) = n
  PROVE  Product(shape) = Suffix(shape)[0] /\ Product(shape) \in Nat
<1>. DEFINE p == Prefix(shape)
            s == Suffix(shape)
            G == {i \in 0 .. n : p[i] * s[i] = s[0]}
<1>1. p \in [0 .. n -> Int] /\ p[0] = 1 /\ \A i \in 1 .. n : p[i] = p[i-1] * shape[i]
  BY PrefixFacts
<1>2. s \in [0 .. n -> Int] /\ s[n] = 1 /\ \A i \in 1 .. n : s[i-1] = shape[i] * s[i]
  BY SuffixFacts
<1>. HIDE DEF p, s
<1>3. 0 \in G
  BY <1>1, <1>2
<1>4. ASSUME NEW i \in 1 .. n, i - 1 \in G PROVE i \in G
  <2>1. PICK a \in Int, b \in Int, x \in Int :
          /\ a = p[i-1] /\ b = s[i] /\ x = shape[i]
          /\ p[i] = a * x /\ s[i-1] = x * b /\ a * (x * b) = s[0]
    <3>1. p[i-1] \in Int /\ s[i] \in Int /\ shape[i] \in Int
      BY <1>1, <1>2
    <3>2. p[i-1] * s[i-1] = s[0]
      BY <1>4
    <3> QED BY <3>1, <3>2, <1>1, <1>2
  <2>2. (a * x) * b = a * (x * b)
    BY ONLY a \in Int, b \in Int, x \in Int
  <2>3. p[i] * s[i] = s[0]
    BY <2>1, <2>2
  <2> QED BY <2>3
<1>5. 0 .. n \subseteq G
  <2>. HIDE DEF G
  <2> QED BY <1>3, <1>4, IntervalInduction
<1>6. p[n] * s[n] = s[0] /\ p[n] \in Int
  BY <1>1, <1>5
<1>7. p[n] = s[0]
  BY <1>2, <1>6
<1>8. s[0] \in Nat
  BY SuffixNat DEF s
<1> QED BY <1>7, <1>8 DEF p, s, Product

\* In a tensor with an element every extent is positive.
LEMMA PositiveExtents ==
  ASSUME NEW n \in Nat, NEW shape \in [1 .. n -> Nat], Len(shape) = n, Suffix(shape)[0] # 0
  PROVE  \A a \in 1 .. n : shape[a] >= 1
<1>. DEFINE s == Suffix(shape)
            G == {i \in 0 .. n : s[i] # 0}
<1>1. s \in [0 .. n -> Int] /\ \A i \in 1 .. n : s[i-1] = shape[i] * s[i]
  BY SuffixFacts
<1>2. s[0] # 0
  OBVIOUS
<1>. HIDE DEF s
<1>3. 0 \in G
  BY <1>2
<1>4. ASSUME NEW i \in 1 .. n, i - 1 \in G PROVE i \in G
  <2>1. s[i-1] = shape[i] * s[i] /\ s[i-1] # 0 /\ s[i] \in Int /\ shape[i] \in Int
    BY <1>1, <1>4
  <2>2. s[i] # 0
    BY ONLY <2>1
  <2> QED BY <2>2
<1>5. 0 .. n \subseteq G
  <2>. HIDE DEF G
  <2> QED BY <1>3, <1>4, IntervalInduction
<1>6. ASSUME NEW a \in 1 .. n PROVE shape[a] >= 1
  <2>1. s[a-1] = shape[a] * s[a] /\ s[a-1] # 0 /\ s[a] \in Int /\ shape[a] \in Nat
    BY <1>1, <1>5
  <2>2. shape[a] # 0
    BY ONLY <2>1
  <2> QED BY <2>1, <2>2
<1> QED BY <1>6

\* The quotients that coordinates_for_linear peels off: natural numbers.
Peeled(n, shape, l, p) ==
  /\ p \in [0 .. n -> Nat] /\ p[n] = l
  /\ \A i \in 1 .. n : p[i-1] = p[i] \div shape[i]
LEMMA RestFacts ==
  ASSUME NEW n \in Nat, NEW shape \in [1 .. n -> Nat], Len(shape) = n,
         \A a \in 1 .. n : shape[a] >= 1, NEW l \in Nat
  PROVE  Peeled(n, shape, l, Rest(shape, l))
<1>. DEFINE Step == [i \in 1 .. n |-> [x \in Int |-> x \div shape[i]]]
            p == Rest(shape, l)
<1>1. Step \in StepFunctions(n)
  <2>1. ASSUME NEW i \in 1 .. n, NEW x \in Int PROVE x \div shape[i] \in Int
    <3>1. shape[i] \in Nat /\ shape[i] >= 1
      OBVIOUS
    <3> QED BY ONLY <3>1, x \in Int
  <2> QED BY <2>1 DEF StepFunctions
<1>2. PICK g \in [0 .. n -> Int] : g[n] = l /\ \A i \in 1 .. n : g[i-1] = Step[i][g[i]]
  <2>. HIDE DEF Step
  <2>1. l \in Int
    OBVIOUS
  <2>2. PICK g : FromRight(g, n, l, Step)
    BY ONLY <1>1, <2>1, n \in Nat, DownwardRecursionExists
  <2> QED BY <2>2 DEF FromRight
<1>3. ASSUME NEW i \in 1 .. n PROVE g[i-1] = g[i] \div shape[i]
  <2>1. g[i] \in Int
    OBVIOUS
  <2>2. Step[i][g[i]] = g[i] \div shape[i]
    BY <2>1
  <2> QED BY <2>2, <1>2
<1>4. g = [i \in 0 .. n |-> IF i = n THEN l ELSE g[i+1] \div shape[i+1]]
  <2>1. ASSUME NEW i \in 0 .. n PROVE g[i] = IF i = n THEN l ELSE g[i+1] \div shape[i+1]
    <3>1. CASE i = n
      BY <3>1, <1>2
    <3>2. CASE i # n
      <4>1. i + 1 \in 1 .. n /\ (i + 1) - 1 = i
        BY <3>2
      <4> QED BY <4>1, <1>3, <3>2
    <3> QED BY <3>1, <3>2
  <2> QED BY <2>1
<1>5. p = [i \in 0 .. n |-> IF i = n THEN l ELSE p[i+1] \div shape[i+1]]
  BY <1>4 DEF Rest
<1>. HIDE DEF p
<1>. DEFINE G == {i \in 0 .. n : p[i] \in Nat}
<1>6. n \in G
  BY <1>5
<1>7. ASSUME NEW i \in 1 .. n, i \in G PROVE i - 1 \in G
  <2>1. i - 1 \in 0 .. n /\ i - 1 # n /\ (i - 1) + 1 = i
    OBVIOUS
  <2>2. p[i-1] = p[i] \div shape[i]
    BY <2>1, <1>5
  <2>3. p[i] \in Nat /\ shape[i] \in Nat /\ shape[i] >= 1
    BY <1>7
  <2>4. p[i] \div shape[i] \in Nat
    BY ONLY <2>3, QuotientNat
  <2> QED BY <2>1, <2>2, <2>4
<1>8. 0 .. n \subseteq G
  <2>. HIDE DEF G
  <2> QED BY <1>6, <1>7, DownwardInduction
<1>9. p \in [0 .. n -> Nat]
  <2>1. \A i \in 0 .. n : p[i] \in Nat
    BY <1>8
  <2> QED BY <1>5, <2>1
<1>10. p[n] = l
  BY <1>5
<1>11. ASSUME NEW i \in 1 .. n PROVE p[i-1] = p[i] \div shape[i]
  <2>1. i - 1 \in 0 .. n /\ i - 1 # n /\ (i - 1) + 1 = i
    OBVIOUS
  <2> QED BY <2>1, <1>5
<1> QED BY <1>9, <1>10, <1>11 DEF p, Peeled

\* The coordinates of a linear index lie inside the shape.
LEMMA CoordinatesInShape ==
  ASSUME NEW n \in Nat, NEW shape \in [1 .. n -> Nat], Len(shape) = n,
         \A a \in 1 .. n : shape[a] >= 1, NEW l \in Nat
  PROVE  /\ Coordinates(shape, l) \in [1 .. n -> Nat]
         /\ InShape(shape, Coordinates(shape, l))
<1>. DEFINE r == Rest(shape, l)
<1>1. \A i \in 0 .. n : r[i] \in Nat
  BY RestFacts DEF Peeled
<1>2. Coordinates(shape, l) = [a \in 1 .. n |-> r[a] % shape[a]]
  BY DEF Coordinates
<1>. HIDE DEF r
<1>3. ASSUME NEW a \in 1 .. n PROVE r[a] % shape[a] \in 0 .. shape[a] - 1
  <2>1. r[a] \in Nat /\ shape[a] \in Nat /\ shape[a] >= 1
    BY <1>1
  <2> QED BY ONLY <2>1
<1>4. \A a \in 1 .. n : r[a] % shape[a] \in Nat /\ shape[a] \in Nat
  BY <1>3
<1>5. Coordinates(shape, l) \in [1 .. n -> Nat]
  BY <1>2, <1>4
<1> QED BY <1>2, <1>3, <1>5 DEF InShape

\* A stride that is a multiple of the element size, counted in elements.
LEMMA StrideInElements ==
  ASSUME NEW s \in Nat, NEW z \in Nat \ {0}, s % z = 0
  PROVE  s \div z \in Nat /\ z * (s \div z) = s
<1>1. /\ s \div z \in Nat /\ s % z \in 0 .. z - 1
      /\ s = z * (s \div z) + (s % z)
  OBVIOUS
<1>2. z * (s \div z) \in Int
  BY <1>1
<1> QED BY <1>1, <1>2

\* Multiplication keeps the order.
LEMMA ProductMonotone ==
  ASSUME NEW z \in Nat, NEW i \in Nat, NEW j \in Nat, i <= j
  PROVE  z * i \in Nat /\ z * j \in Nat /\ z * i <= z * j
<1>1. z * j = z * i + z * (j - i) /\ z * (j - i) >= 0
  OBVIOUS
<1> QED BY <1>1

\* A coordinate inside the shape is at most a full step along its axis.
LEMMA StepBound ==
  ASSUME NEW x \in Nat, NEW e \in Nat, NEW z \in Nat, NEW q \in Nat, NEW s \in Nat,
         x <= e, s = z * q
  PROVE  /\ z * (x * q) <= e * s
         /\ z * (x * q) \in Nat /\ e * s \in Nat
<1>1. x * q <= e * q /\ x * q \in Nat /\ e * q \in Nat
  <2>1. e * q = x * q + (e - x) * q /\ (e - x) * q >= 0
    OBVIOUS
  <2> QED BY <2>1
<1>2. z * (x * q) <= z * (e * q) /\ z * (x * q) \in Nat /\ z * (e * q) \in Nat
  BY <1>1, ProductMonotone
<1>3. z * (e * q) = e * s
  OBVIOUS
<1> QED BY <1>2, <1>3

\* The element at coordinates inside the shape lies no further than the last one.
LEMMA OffsetInReach ==
  ASSUME NEW v \in Views, v.dtype \in DOMAIN ElementSize,
         \A a \in Axes(v) : v.stride[a] % SizeOf(v) = 0,
         NEW x \in [1 .. Rank(v) -> Nat], InShape(v.shape, x)
  PROVE  /\ Offset(v, x) \in Nat /\ Reach(v)[Rank(v)] \in Nat
         /\ SizeOf(v) * Offset(v, x) <= Reach(v)[Rank(v)]
<1>. DEFINE n == Rank(v)
            z == SizeOf(v)
            d == [a \in Axes(v) |-> x[a] * (v.stride[a] \div z)]
            e == [a \in Axes(v) |-> Steps(v, a) * v.stride[a]]
            o == Sums(n, d)
            r == Sums(n, e)
            G == {i \in 0 .. n : o[i] \in Nat /\ r[i] \in Nat /\ z * o[i] <= r[i]}
<1>1. n \in Nat /\ Axes(v) = 1 .. n /\ z \in Nat \ {0}
  BY ViewFacts, SizeFacts
<1>2. ASSUME NEW a \in 1 .. n
      PROVE  d[a] \in Nat /\ e[a] \in Nat /\ z * d[a] <= e[a]
  <2>1. PICK y \in Nat, s \in Nat, q \in Nat :
          y = x[a] /\ s = v.stride[a] /\ q = s \div z /\ s = z * q
    <3>1. v.stride[a] \in Nat /\ v.stride[a] % z = 0 /\ x[a] \in Nat
      BY <1>1, ViewFacts
    <3>2. v.stride[a] \div z \in Nat /\ z * (v.stride[a] \div z) = v.stride[a]
      BY ONLY <1>1, <3>1, StrideInElements
    <3> QED BY <3>1, <3>2
  <2>2. PICK t \in Nat : t = Steps(v, a) /\ y <= t
    <3>1. v.shape[a] \in Nat /\ x[a] \in 0 .. v.shape[a] - 1
      BY <1>1, ViewFacts DEF InShape, Rank
    <3> QED BY <2>1, <3>1 DEF Steps
  <2>3. z * (y * q) <= t * s /\ t * s \in Nat
    BY <1>1, <2>1, <2>2, StepBound
  <2>4. d[a] = y * q /\ e[a] = t * s
    BY <1>1, <2>1, <2>2
  <2>5. y * q \in Nat
    BY ONLY y \in Nat, q \in Nat
  <2> QED BY <2>3, <2>4, <2>5
<1>3. d \in [1 .. n -> Int] /\ e \in [1 .. n -> Int]
  <2>1. d = [a \in 1 .. n |-> d[a]] /\ e = [a \in 1 .. n |-> e[a]]
    BY <1>1
  <2>. HIDE DEF d, e
  <2> QED BY <1>2, <2>1
<1>. HIDE DEF d, e, n, z
<1>4. o[0] = 0 /\ \A i \in 1 .. n : o[i] = o[i-1] + d[i]
  BY <1>1, <1>3, SumsFacts
<1>5. r[0] = 0 /\ \A i \in 1 .. n : r[i] = r[i-1] + e[i]
  BY <1>1, <1>3, SumsFacts
<1>. HIDE DEF o, r
<1>6. 0 \in G
  BY ONLY <1>1, <1>4, <1>5
<1>7. ASSUME NEW i \in 1 .. n, i - 1 \in G PROVE i \in G
  <2>1. PICK p \in Nat, u \in Nat, a \in Nat, b \in Nat :
          /\ p = o[i-1] /\ u = r[i-1] /\ a = d[i] /\ b = e[i]
          /\ z * p <= u /\ z * a <= b /\ o[i] = p + a /\ r[i] = u + b
    BY <1>2, <1>4, <1>5, <1>7, SMTT(30)
  <2>2. z * (p + a) <= u + b
    <3>1. z * (p + a) = z * p + z * a /\ z * p \in Int /\ z * a \in Int
      BY ONLY <1>1, p \in Nat, a \in Nat, Distribute
    <3>2. PICK zp \in Int, za \in Int : zp = z * p /\ za = z * a
      BY ONLY <3>1
    <3>3. zp <= u /\ za <= b
      BY ONLY <2>1, <3>2
    <3>4. zp + za <= u + b
      BY ONLY <3>3, zp \in Int, za \in Int, u \in Nat, b \in Nat
    <3> QED BY ONLY <3>1, <3>2, <3>4
  <2>3. o[i] \in Nat /\ r[i] \in Nat
    <3>1. p + a \in Nat /\ u + b \in Nat
      OBVIOUS
    <3>2. o[i] = p + a /\ r[i] = u + b
      BY <2>1
    <3> QED BY ONLY <3>1, <3>2
  <2>4. z * o[i] <= r[i]
    BY ONLY <2>1, <2>2
  <2> QED BY <2>3, <2>4
<1>8. 0 .. n \subseteq G
  <2>. HIDE DEF G
  <2> QED BY <1>1, <1>6, <1>7, IntervalInduction
<1>9. o[n] \in Nat /\ r[n] \in Nat /\ z * o[n] <= r[n]
  BY <1>1, <1>8
<1> QED BY <1>9 DEF o, r, d, e, n, z, Offset, Reach

\* In a contiguous tensor the last element is the last of a dense buffer.
LEMMA DenseReach ==
  ASSUME NEW v \in Views, v.dtype \in DOMAIN ElementSize, IsContiguous(v), Count(v) # 0
  PROVE  Reach(v)[Rank(v)] = SizeOf(v) * (Count(v) - 1)
<1>. DEFINE n == Rank(v)
            z == SizeOf(v)
            e == [a \in Axes(v) |-> Steps(v, a) * v.stride[a]]
            r == Sums(n, e)
            s == Suffix(v.shape)
            G == {i \in 0 .. n : r[i] = z * (s[0] - s[i])}
<1>1. n \in Nat /\ Axes(v) = 1 .. n /\ z \in Nat \ {0} /\ n = Len(v.shape)
  BY ViewFacts, SizeFacts DEF Rank
<1>2. v.shape \in [1 .. n -> Nat] /\ v.stride \in [1 .. n -> Nat]
  BY ViewFacts
<1>3. /\ s \in [0 .. n -> Int] /\ s[n] = 1
      /\ \A i \in 1 .. n : s[i-1] = v.shape[i] * s[i]
  BY <1>1, <1>2, SuffixFacts
<1>4. Count(v) = s[0]
  BY <1>1, <1>2, CountIsSuffix DEF Count
<1>5. \A a \in 1 .. n : v.shape[a] >= 1
  BY <1>1, <1>2, <1>4, PositiveExtents
<1>6. ASSUME NEW a \in 1 .. n
      PROVE  /\ e[a] = Steps(v, a) * v.stride[a]
             /\ v.shape[a] > 1 => v.stride[a] = s[a] * z
  BY <1>1 DEF IsContiguous, Inner
<1>7. e = [a \in 1 .. n |-> e[a]]
  BY <1>1
<1>. HIDE DEF e, n, z, s
<1>8. ASSUME NEW a \in 1 .. n PROVE e[a] = z * (s[a-1] - s[a]) /\ e[a] \in Int
  <2>1. v.shape[a] \in Nat /\ v.shape[a] >= 1 /\ v.stride[a] \in Nat /\ s[a] \in Int
    BY <1>1, <1>2, <1>3, <1>5
  <2>2. PICK x \in Nat, y \in Int, t \in Nat : x = v.shape[a] /\ x >= 1 /\ y = s[a] /\ t = v.stride[a]
    BY <2>1
  <2>3. s[a-1] = x * y /\ e[a] = (x - 1) * t
    BY <1>3, <1>6, <2>2 DEF Steps
  <2>4. (x - 1) * t = z * (x * y - y) /\ (x - 1) * t \in Int
    <3>1. CASE x = 1
      BY ONLY <3>1, <1>1, y \in Int, t \in Nat
    <3>2. CASE x > 1
      <4>1. t = y * z
        BY <1>6, <2>2, <3>2
      <4> QED BY ONLY <4>1, <1>1, x \in Nat, y \in Int, t \in Nat
    <3> QED BY ONLY <3>1, <3>2, <2>2, x \in Nat
  <2> QED BY ONLY <2>2, <2>3, <2>4
<1>9. e \in [1 .. n -> Int]
  BY <1>7, <1>8
<1>10. r \in [0 .. n -> Int] /\ r[0] = 0 /\ \A i \in 1 .. n : r[i] = r[i-1] + e[i]
  BY <1>1, <1>9, SumsFacts
<1>. HIDE DEF r
<1>11. 0 \in G
  <2>1. s[0] - s[0] = 0
    BY <1>1, <1>3
  <2> QED BY <1>1, <1>10, <2>1
<1>12. ASSUME NEW i \in 1 .. n, i - 1 \in G PROVE i \in G
  <2>1. PICK t \in Int, p \in Int, q \in Int :
          /\ t = s[0] /\ p = s[i-1] /\ q = s[i]
          /\ r[i-1] = z * (t - p) /\ r[i] = r[i-1] + z * (p - q)
    <3>1. s[0] \in Int /\ s[i-1] \in Int /\ s[i] \in Int
      <4>1. n \in Nat /\ s \in [0 .. n -> Int]
        BY ONLY <1>1, <1>3
      <4>2. 0 \in 0 .. n /\ i - 1 \in 0 .. n /\ i \in 0 .. n
        BY ONLY <4>1, i \in 1 .. n
      <4> QED BY ONLY <4>1, <4>2
    <3>2. r[i-1] = z * (s[0] - s[i-1])
      BY <1>12
    <3>3. r[i] = r[i-1] + z * (s[i-1] - s[i])
      BY <1>10, <1>8
    <3> QED BY ONLY <3>1, <3>2, <3>3
  <2>2. z * (t - p) + z * (p - q) = z * (t - q)
    BY ONLY t \in Int, p \in Int, q \in Int, <1>1
  <2>3. r[i] = z * (s[0] - s[i])
    BY <2>1, <2>2
  <2> QED BY <2>3
<1>13. 0 .. n \subseteq G
  <2>. HIDE DEF G
  <2> QED BY <1>1, <1>11, <1>12, IntervalInduction
<1>14. r[n] = z * (s[0] - 1)
  BY <1>1, <1>3, <1>13
<1> QED BY <1>4, <1>14 DEF r, e, n, z, s, Reach

\* With positive extents the products grow from axis to axis.
LEMMA SuffixBounds ==
  ASSUME NEW n \in Nat, NEW shape \in [1 .. n -> Nat], Len(shape) = n,
         \A a \in 1 .. n : shape[a] >= 1
  PROVE  \A i \in 0 .. n : Suffix(shape)[i] >= 1 /\ Suffix(shape)[i] <= Suffix(shape)[0]
<1>. DEFINE s == Suffix(shape)
<1>1. s \in [0 .. n -> Int] /\ s[n] = 1 /\ \A i \in 1 .. n : s[i-1] = shape[i] * s[i]
  BY SuffixFacts
<1>2. \A i \in 0 .. n : s[i] \in Nat
  BY SuffixNat
<1>. HIDE DEF s
<1>3. ASSUME NEW i \in 1 .. n PROVE s[i] <= s[i-1]
  <2>1. PICK x \in Nat, y \in Nat : x = shape[i] /\ x >= 1 /\ y = s[i] /\ s[i-1] = x * y
    <3>1. shape[i] \in Nat /\ s[i] \in Nat /\ s[i-1] = shape[i] * s[i] /\ shape[i] >= 1
      BY <1>1, <1>2
    <3> QED BY <3>1
  <2>2. y <= x * y
    BY ONLY <2>1, x \in Nat, y \in Nat
  <2> QED BY <2>1, <2>2
<1>4. \A i \in 0 .. n : s[n] <= s[i] /\ s[i] <= s[0]
  BY <1>1, <1>3, Descending
<1> QED BY <1>1, <1>4 DEF s

\* The same for the products from the first axis on.
LEMMA PrefixBounds ==
  ASSUME NEW n \in Nat, NEW shape \in [1 .. n -> Nat], Len(shape) = n,
         \A a \in 1 .. n : shape[a] >= 1
  PROVE  \A i \in 0 .. n : Prefix(shape)[i] <= Product(shape)
<1>. DEFINE p == Prefix(shape)
            G == {i \in 0 .. n : p[i] \in Nat}
<1>1. p \in [0 .. n -> Int] /\ p[0] = 1 /\ \A i \in 1 .. n : p[i] = p[i-1] * shape[i]
  BY PrefixFacts
<1>. HIDE DEF p
<1>2. 0 \in G
  BY <1>1
<1>3. ASSUME NEW i \in 1 .. n, i - 1 \in G PROVE i \in G
  <2>1. PICK x \in Nat, y \in Nat : x = shape[i] /\ y = p[i-1] /\ p[i] = y * x
    <3>1. shape[i] \in Nat /\ p[i-1] \in Nat /\ p[i] = p[i-1] * shape[i]
      BY <1>1, <1>3
    <3> QED BY <3>1
  <2>2. y * x \in Nat
    OBVIOUS
  <2> QED BY <2>1, <2>2
<1>4. 0 .. n \subseteq G
  <2>. HIDE DEF G
  <2> QED BY <1>2, <1>3, IntervalInduction
<1>5. ASSUME NEW i \in 1 .. n PROVE p[i-1] <= p[i]
  <2>1. PICK x \in Nat, y \in Nat : x = shape[i] /\ x >= 1 /\ y = p[i-1] /\ p[i] = y * x
    <3>1. shape[i] \in Nat /\ shape[i] >= 1 /\ p[i-1] \in Nat /\ p[i] = p[i-1] * shape[i]
      BY <1>1, <1>4
    <3> QED BY <3>1
  <2>2. y <= y * x
    BY ONLY <2>1, x \in Nat, y \in Nat
  <2> QED BY <2>1, <2>2
<1>6. \A i \in 0 .. n : p[0] <= p[i] /\ p[i] <= p[n]
  BY <1>1, <1>5, Ascending
<1> QED BY <1>6 DEF p, Product

\* A multiple of z.
LEMMA Multiple ==
  ASSUME NEW z \in Nat \ {0}, NEW y \in Nat, y >= 1
  PROVE  (z * y) % z = 0 /\ z * y # 0
OBVIOUS

\* A row-major tensor with an element in every axis passes the metadata checks,
\* whatever its rank and extents, if its bytes can be counted in a usize.
LEMMA DenseMeta ==
  ASSUME NEW v \in Views, v.dtype \in DOMAIN ElementSize, v.data # 0, v.layout \in {"DENSE", "STRIDED"},
         Rank(v) <= MaxDim,
         \A a \in Axes(v) : v.shape[a] # 0 /\ v.stride[a] = SizeOf(v) * Inner(v.shape, a),
         SizeOf(v) * Count(v) <= UsizeMax, SizeOf(v) * Count(v) <= v.bytes
  PROVE  MetaOK(v) /\ IsContiguous(v)
<1>. DEFINE n == Rank(v)
            z == SizeOf(v)
            s == Suffix(v.shape)
<1>1. n \in Nat /\ Axes(v) = 1 .. n /\ n = Len(v.shape) /\ v.shape \in [1 .. n -> Nat]
      /\ v.stride \in [1 .. n -> Nat] /\ v.bytes \in Nat
  BY ViewFacts DEF Rank
<1>2. z \in Nat \ {0} /\ UsizeMax \in Nat
  BY SizeFacts, MetaAssumption
<1>3. \A a \in 1 .. n : v.shape[a] >= 1
  BY <1>1
<1>4. PICK c \in Nat : c = Count(v) /\ c = s[0] /\ z * c <= UsizeMax /\ z * c <= v.bytes
  BY <1>1, CountIsSuffix DEF Count
<1>5. z * c \in Nat /\ c <= z * c /\ z * c = z * (c - 1) + z
  BY ONLY <1>2, c \in Nat
<1>6. c <= UsizeMax
  BY ONLY <1>2, <1>4, <1>5, c \in Nat
<1>7. ASSUME NEW a \in 1 .. n
      PROVE  \E x, y \in Nat : /\ x = v.shape[a] /\ x >= 1 /\ y = s[a] /\ y >= 1
                               /\ v.stride[a] = z * y /\ x * y <= c
  <2>1. s[a] \in Nat /\ s[a] >= 1 /\ s[a-1] <= c
    <3>1. \A i \in 0 .. n : s[i] \in Nat /\ s[i] >= 1 /\ s[i] <= s[0]
      BY <1>1, <1>3, SuffixBounds, SuffixNat
    <3>2. a \in 0 .. n /\ a - 1 \in 0 .. n
      BY <1>1
    <3>. HIDE DEF s, n
    <3> QED BY <1>4, <3>1, <3>2
  <2>2. s[a-1] = v.shape[a] * s[a]
    BY <1>1, SuffixFacts
  <2>3. v.stride[a] = z * s[a]
    BY <1>1 DEF Inner
  <2>4. v.shape[a] \in Nat /\ v.shape[a] >= 1
    BY <1>1, <1>3
  <2>. HIDE DEF s, z
  <2> QED BY <2>1, <2>2, <2>3, <2>4
<1>8. IsContiguous(v)
  <2>1. ASSUME NEW a \in 1 .. n
        PROVE  v.stride[a] = Inner(v.shape, a) * z /\ Inner(v.shape, a) * v.shape[a] <= UsizeMax
    <3>1. PICK x, y \in Nat : /\ x = v.shape[a] /\ y = s[a]
                              /\ v.stride[a] = z * y /\ x * y <= c
      BY <1>7
    <3>2. z * y = y * z /\ y * x <= UsizeMax
      <4>1. z * y = y * z /\ y * x = x * y /\ x * y \in Nat
        BY ONLY <1>2, x \in Nat, y \in Nat
      <4> QED BY ONLY <1>2, <1>6, <3>1, <4>1, c \in Nat
    <3>3. Inner(v.shape, a) = y
      BY <3>1 DEF Inner
    <3> QED BY ONLY <3>1, <3>2, <3>3
  <2> QED BY <1>1, <2>1 DEF IsContiguous
<1>9. \A a \in 1 .. n : Prefix(v.shape)[a] <= UsizeMax
  <2>1. ASSUME NEW a \in 1 .. n PROVE Prefix(v.shape)[a] <= UsizeMax
    <3>1. Prefix(v.shape)[a] \in Int /\ Prefix(v.shape)[a] <= c
      <4>1. \A i \in 0 .. n : Prefix(v.shape)[i] \in Int /\ Prefix(v.shape)[i] <= Product(v.shape)
        BY <1>1, <1>3, PrefixFacts, PrefixBounds
      <4>2. a \in 0 .. n /\ c = Product(v.shape)
        BY <1>1, <1>4 DEF Count
      <4>. HIDE DEF n
      <4> QED BY <4>1, <4>2
    <3> QED BY ONLY <1>2, <1>6, <3>1, c \in Nat
  <2> QED BY <2>1
<1>10. \A a \in 1 .. n : v.stride[a] % z = 0 /\ v.stride[a] # 0
  <2>1. ASSUME NEW a \in 1 .. n PROVE v.stride[a] % z = 0 /\ v.stride[a] # 0
    <3>1. PICK y \in Nat : y >= 1 /\ v.stride[a] = z * y
      BY <1>7
    <3>2. (z * y) % z = 0 /\ z * y # 0
      BY ONLY <1>2, <3>1, y \in Nat, Multiple
    <3> QED BY ONLY <3>1, <3>2
  <2> QED BY <2>1
<1>11. /\ \A i \in 0 .. n : Reach(v)[i] \in Int /\ Reach(v)[i] <= Reach(v)[n]
       /\ Reach(v)[n] = z * (c - 1)
  <2>. DEFINE e == [a \in 1 .. n |-> Steps(v, a) * v.stride[a]]
  <2>1. ASSUME NEW a \in 1 .. n PROVE e[a] \in Nat
    <3>1. PICK x \in Nat, y \in Nat : x = Steps(v, a) /\ y = v.stride[a]
      BY <1>1 DEF Steps
    <3>2. x * y \in Nat
      OBVIOUS
    <3> QED BY <3>1, <3>2
  <2>2. Reach(v) = Sums(n, e)
    BY <1>1 DEF Reach
  <2>3. e = [a \in 1 .. n |-> e[a]]
    OBVIOUS
  <2>. HIDE DEF e, n
  <2>4. n \in Nat
    BY <1>1
  <2>5. e \in [1 .. n -> Int]
    BY <2>1, <2>3
  <2>6. Reach(v) \in [0 .. n -> Int] /\ \A i \in 1 .. n : Reach(v)[i] = Reach(v)[i-1] + e[i]
    <3>1. /\ Sums(n, e) \in [0 .. n -> Int]
          /\ \A i \in 1 .. n : Sums(n, e)[i] = Sums(n, e)[i-1] + e[i]
      BY ONLY <2>4, <2>5, SumsFacts
    <3> QED BY ONLY <2>2, <3>1
  <2>7. ASSUME NEW i \in 1 .. n PROVE Reach(v)[i-1] <= Reach(v)[i]
    <3>1. PICK x \in Int, y \in Int, t \in Nat :
            x = Reach(v)[i-1] /\ y = Reach(v)[i] /\ t = e[i] /\ y = x + t
      <4>1. Reach(v)[i-1] \in Int /\ Reach(v)[i] \in Int
        <5>1. i - 1 \in 0 .. n /\ i \in 0 .. n
          BY <1>1
        <5> QED BY ONLY <2>6, <5>1
      <4> QED BY <2>1, <2>6, <4>1
    <3> QED BY <3>1
  <2>8. \A i \in 0 .. n : Reach(v)[i] <= Reach(v)[n]
    BY <1>1, <2>6, <2>7, Ascending
  <2>9. Reach(v)[n] = z * (c - 1)
    <3>1. Count(v) # 0
      <4>1. Suffix(v.shape)[0] >= 1
        <5>1. 0 \in 0 .. Len(v.shape)
          BY ONLY <1>1
        <5>2. Len(v.shape) \in Nat /\ v.shape \in [1 .. Len(v.shape) -> Nat]
              /\ \A a \in 1 .. Len(v.shape) : v.shape[a] >= 1
          BY ONLY <1>1, <1>3
        <5> QED BY ONLY <5>1, <5>2, SuffixBounds
      <4> QED BY ONLY <4>1, <1>4, c \in Nat
    <3>2. Reach(v)[Rank(v)] = SizeOf(v) * (Count(v) - 1)
      BY ONLY v \in Views, v.dtype \in DOMAIN ElementSize, <1>8, <3>1, DenseReach
    <3> QED BY ONLY <3>2, <1>4 DEF n
  <2> QED BY <2>6, <2>8, <2>9
<1>12. Reach(v)[n] + z = z * c
  BY ONLY <1>5, <1>11
<1>13. \A a \in 1 .. n : Reach(v)[a] <= UsizeMax
  <2>1. ASSUME NEW a \in 1 .. n PROVE Reach(v)[a] <= UsizeMax
    <3>1. PICK x \in Int, t \in Int : x = Reach(v)[a] /\ t = Reach(v)[n] /\ x <= t /\ t + z = z * c
      BY <1>1, <1>11, <1>12
    <3>2. PICK m \in Nat : m = z * c
      BY <1>5
    <3> QED BY ONLY <1>2, <1>4, <3>1, <3>2
  <2> QED BY <2>1
<1>14. Reach(v)[Rank(v)] + SizeOf(v) <= v.bytes
  BY ONLY <1>4, <1>12
<1>15. \A a \in Axes(v) : /\ v.stride[a] % SizeOf(v) = 0
                          /\ v.shape[a] > 1 => v.stride[a] # 0
                          /\ Prefix(v.shape)[a] <= UsizeMax
                          /\ Reach(v)[a] <= UsizeMax
  BY <1>1, <1>9, <1>10, <1>13
<1> QED BY <1>8, <1>14, <1>15 DEF MetaOK

\* An element addressed by the coordinates of a linear index lies inside the
\* buffer of its view, whatever the rank, the shape and the strides: the offset
\* computation of the element-wise kernels (offset_for_coordinates, call.rs:268).
THEOREM CoordinatesInBounds ==
  ASSUME NEW v \in Views, MetaOK(v), NEW l \in Linears(v)
  PROVE  v.data + SizeOf(v) * Offset(v, Coordinates(v.shape, l))
           \in v.data .. v.data + v.bytes - SizeOf(v)
<1>1. /\ Rank(v) \in Nat /\ Axes(v) = 1 .. Rank(v) /\ Rank(v) = Len(v.shape)
      /\ v.shape \in [1 .. Rank(v) -> Nat] /\ v.data \in Nat /\ v.bytes \in Nat
  BY ViewFacts DEF Rank
<1>2. v.dtype \in DOMAIN ElementSize /\ SizeOf(v) \in Nat \ {0}
  <2>1. v.dtype \in DOMAIN ElementSize
    BY DEF MetaOK
  <2> QED BY <2>1, SizeFacts
<1>3. Count(v) = Suffix(v.shape)[0] /\ Count(v) \in Nat /\ l \in 0 .. Count(v) - 1
  BY <1>1, CountIsSuffix DEF Count, Linears
<1>4. l \in Nat /\ Count(v) # 0
  BY <1>3
<1>5. \A a \in 1 .. Rank(v) : v.shape[a] >= 1
  BY <1>1, <1>3, <1>4, PositiveExtents
<1>. DEFINE x == Coordinates(v.shape, l)
<1>6. x \in [1 .. Rank(v) -> Nat] /\ InShape(v.shape, x)
  BY <1>1, <1>4, <1>5, CoordinatesInShape
<1>. HIDE DEF x
<1>7. \A a \in Axes(v) : v.stride[a] % SizeOf(v) = 0
  BY DEF MetaOK
<1>8. Offset(v, x) \in Nat /\ Reach(v)[Rank(v)] \in Nat
      /\ SizeOf(v) * Offset(v, x) <= Reach(v)[Rank(v)]
  BY <1>2, <1>6, <1>7, OffsetInReach
<1>9. Reach(v)[Rank(v)] + SizeOf(v) <= v.bytes
  BY <1>4 DEF MetaOK
<1>10. SizeOf(v) * Offset(v, x) \in Nat
  BY ONLY <1>2, <1>8
<1>11. v.data + SizeOf(v) * Offset(v, x) \in v.data .. v.data + v.bytes - SizeOf(v)
  <2>1. PICK z \in Nat, t \in Nat, r \in Nat :
          z = SizeOf(v) /\ t = SizeOf(v) * Offset(v, x) /\ r = Reach(v)[Rank(v)]
    BY <1>2, <1>8, <1>10
  <2>2. t <= r /\ r + z <= v.bytes
    BY <1>8, <1>9, <2>1
  <2>3. v.data + t \in v.data .. v.data + v.bytes - z
    BY ONLY <1>1, <2>2, z \in Nat, t \in Nat, r \in Nat
  <2> QED BY <2>1, <2>3
<1> QED BY <1>11 DEF x

\* So does every element of the logical order, on both paths of read_logical_bytes
\* and write_logical_bytes: a dense prefix, or one offset per element.
THEOREM LogicalAddrInBounds ==
  ASSUME NEW v \in Views, MetaOK(v), NEW l \in Linears(v)
  PROVE  LogicalAddr(v)[l] \in v.data .. v.data + v.bytes - SizeOf(v)
<1>1. LogicalAddr(v)[l]
        = v.data + SizeOf(v) * (IF IsContiguous(v) THEN l ELSE Offset(v, Coordinates(v.shape, l)))
  BY DEF LogicalAddr
<1>2. CASE ~IsContiguous(v)
  BY <1>1, <1>2, CoordinatesInBounds
<1>3. CASE IsContiguous(v)
  <2>1. /\ Rank(v) \in Nat /\ Rank(v) = Len(v.shape)
        /\ v.shape \in [1 .. Rank(v) -> Nat] /\ v.data \in Nat /\ v.bytes \in Nat
    BY ViewFacts DEF Rank
  <2>2. v.dtype \in DOMAIN ElementSize /\ SizeOf(v) \in Nat \ {0}
    <3>1. v.dtype \in DOMAIN ElementSize
      BY DEF MetaOK
    <3> QED BY <3>1, SizeFacts
  <2>3. Count(v) \in Nat /\ l \in 0 .. Count(v) - 1
    BY <2>1, CountIsSuffix DEF Count, Linears
  <2>4. Reach(v)[Rank(v)] = SizeOf(v) * (Count(v) - 1)
    BY <1>3, <2>2, <2>3, DenseReach
  <2>5. Reach(v)[Rank(v)] + SizeOf(v) <= v.bytes
    BY <2>3 DEF MetaOK
  <2>6. PICK z \in Nat, c \in Nat : z = SizeOf(v) /\ c = Count(v) - 1
    BY <2>2, <2>3
  <2>7. z * l \in Nat /\ z * l <= z * c
    <3>1. l \in Nat /\ l <= c
      BY <2>3, <2>6
    <3> QED BY ONLY <3>1, z \in Nat, c \in Nat, ProductMonotone
  <2>8. z * c + z <= v.bytes
    BY <2>4, <2>5, <2>6
  <2>9. LogicalAddr(v)[l] = v.data + z * l
    BY <1>1, <1>3, <2>6
  <2> QED
    <3>1. v.data + z * l \in v.data .. v.data + v.bytes - z
      BY ONLY <2>1, <2>7, <2>8, z \in Nat, c \in Nat
    <3> QED BY <2>6, <2>9, <3>1
<1> QED BY <1>2, <1>3

-----------------------------------------------------------------------------
(***************************************************************************)
(* What a call stores.                                                     *)
(***************************************************************************)

(* --- types ----------------------------------------------------------------- *)
\* from_user_buffer gives a view of the buffer.
LEMMA FromUserBufferView ==
  ASSUME NEW data \in Nat, NEW bytes \in Nat, NEW dtype \in STRING,
         dtype \in DOMAIN ElementSize, NEW layout \in STRING, NEW shape \in Seq(Nat)
  PROVE  FromUserBuffer(data, bytes, dtype, layout, shape) \in Views
<1>. DEFINE n == Len(shape)
            stride == RowMajorStrides(shape, ElementSize[dtype])
<1>1. n \in Nat /\ shape \in [1 .. n -> Nat]
  OBVIOUS
<1>2. ElementSize[dtype] \in Nat
  BY DEF ElementSize
<1>3. \A a \in 1 .. n : ElementSize[dtype] * Inner(shape, a) \in Nat
  <2>1. \A a \in 1 .. n : Suffix(shape)[a] \in Nat
    BY <1>1, SuffixNat
  <2>2. ASSUME NEW a \in 1 .. n PROVE ElementSize[dtype] * Suffix(shape)[a] \in Nat
    <3>1. PICK x \in Nat, y \in Nat : x = ElementSize[dtype] /\ y = Suffix(shape)[a]
      BY <1>2, <2>1
    <3>2. x * y \in Nat
      OBVIOUS
    <3> QED BY <3>1, <3>2
  <2> QED BY <2>2 DEF Inner
<1>4. stride \in Seq(Nat) /\ Len(stride) = n
  <2>1. stride = [a \in 1 .. n |-> ElementSize[dtype] * Inner(shape, a)]
    BY DEF RowMajorStrides
  <2>. HIDE DEF stride, n
  <2>2. stride \in [1 .. n -> Nat]
    BY <1>3, <2>1
  <2> QED BY <1>1, <2>2
<1>. HIDE DEF stride
<1>5. FromUserBuffer(data, bytes, dtype, layout, shape)
        = [data |-> data, bytes |-> bytes, dtype |-> dtype, layout |-> layout, shape |-> shape,
           stride |-> stride]
  BY DEF FromUserBuffer, stride
<1> QED BY <1>2, <1>4, <1>5 DEF Views

\* The descriptor made of a valid request has the types of one.
LEMMA BuildDescTyped ==
  ASSUME NEW r \in Requests, ValidRequest(r)
  PROVE  TypedDesc(BuildDesc(r))
<1>. DEFINE d == BuildDesc(r)
<1>1. TypedRequest(r)
  BY CallAssumption
<1>2. d.input_count = r.input_count /\ d.output_count = r.output_count
      /\ d.op = r.op /\ d.attr = r.attr
      /\ d.tensors = [i \in 1 .. TotalOf(r) |-> BorrowTensor(r.tensors[i])]
  BY DEF BuildDesc
<1>3. TypedCall(d)
  BY <1>1, <1>2 DEF TypedRequest, TypedCall
<1>4. ValidCounts(r) /\ \A i \in 1 .. TotalOf(r) : ValidTensor(r.tensors[i])
  BY DEF ValidRequest
<1>5. TotalOf(r) \in Nat /\ TotalOf(r) <= Len(r.tensors)
  BY <1>1, <1>4, AttrAssumption DEF TypedRequest, TypedCall, TotalOf, U32
<1>6. ASSUME NEW i \in 1 .. TotalOf(r) PROVE BorrowTensor(r.tensors[i]) \in Views
  <2>1. r.tensors \in Seq(RawTensors)
    BY <1>1 DEF TypedRequest
  <2>2. i \in 1 .. Len(r.tensors)
    BY <1>5, <2>1
  <2>3. r.tensors[i] \in RawTensors
    BY <2>1, <2>2
  <2>4. r.tensors[i].dtype \in DOMAIN ElementSize
    BY <1>4 DEF ValidTensor, ElementSize
  <2> QED BY <2>3, <2>4, FromUserBufferView DEF RawTensors, BorrowTensor
<1>7. d.tensors \in Seq(Views) /\ Len(d.tensors) = TotalOf(r)
  BY <1>2, <1>5, <1>6
<1>8. TypedContents(d.op, d.tensors, d.ints, d.vals)
  <2>1. d.vals = r.vals /\ d.ints = r.ints
    BY DEF BuildDesc
  <2>2. TypedContents(d.op, r.tensors, d.ints, d.vals)
    BY <1>1, <1>2, <2>1 DEF TypedRequest
  <2>3. ASSUME NEW i \in 1 .. TotalOf(r)
        PROVE  d.tensors[i].bytes = r.tensors[i].bytes /\ d.tensors[i].dtype = r.tensors[i].dtype
    BY <1>2 DEF BorrowTensor, FromUserBuffer
  <2>. HIDE DEF d
  <2>4. Len(d.tensors) > 0 => Len(r.tensors) > 0 /\ d.tensors[1].bytes = r.tensors[1].bytes
    BY <1>5, <1>7, <2>3
  <2>5. Len(d.tensors) > 1 =>
          Len(r.tensors) > 1 /\ d.tensors[2].bytes = r.tensors[2].bytes
            /\ d.tensors[2].dtype = r.tensors[2].dtype
    BY <1>5, <1>7, <2>3
  <2> QED BY <2>2, <2>4, <2>5, SMTT(30) DEF TypedContents, SizeOf
<1>. HIDE DEF d
<1>9. d.input_count + d.output_count = TotalOf(r)
  BY <1>2 DEF TotalOf
<1>10. TypedDesc(d)
  BY <1>3, <1>5, <1>7, <1>8, <1>9 DEF TypedDesc
<1> QED BY <1>10 DEF d

\* The call sees as many views as its descriptor counts.
LEMMA CallViews ==
  ASSUME NEW d, TypedDesc(d), CountsOK(d)
  PROVE  /\ CallOf(d).op = d.op /\ CallOf(d).attr = d.attr
         /\ CallOf(d).in \in Seq(Views) /\ Len(CallOf(d).in) = d.input_count
         /\ CallOf(d).out \in Seq(Views) /\ Len(CallOf(d).out) = d.output_count
         /\ d.input_count \in Nat /\ d.output_count \in Nat
<1>. DEFINE t == d.tensors
            n == d.input_count
            m == d.output_count
<1>1. n \in Nat /\ m \in Nat /\ t \in Seq(Views) /\ n + m <= Len(t)
  BY AttrAssumption DEF TypedDesc, TypedCall, CountsOK, U32
<1>2. CallOf(d).op = d.op /\ CallOf(d).attr = d.attr
      /\ CallOf(d).in = SubSeq(t, 1, n) /\ CallOf(d).out = SubSeq(t, n + 1, n + m)
  BY DEF CallOf
<1>. HIDE DEF t, n, m
<1>3. \A i \in 1 .. n + m : t[i] \in Views
  BY <1>1
<1>4. SubSeq(t, 1, n) \in Seq(Views) /\ Len(SubSeq(t, 1, n)) = n
  <2>1. \A i \in 1 .. n : t[i] \in Views
    BY <1>1, <1>3
  <2>2. 1 \in Int /\ n \in Int
    BY <1>1
  <2>3. /\ SubSeq(t, 1, n) \in Seq(Views)
        /\ Len(SubSeq(t, 1, n)) = IF 1 <= n THEN n - 1 + 1 ELSE 0
    BY ONLY <2>1, <2>2, SubSeqProperties
  <2> QED BY <1>1, <2>3
<1>5. SubSeq(t, n + 1, n + m) \in Seq(Views) /\ Len(SubSeq(t, n + 1, n + m)) = m
  <2>1. PICK a \in Int, b \in Int : a = n + 1 /\ b = n + m
    BY <1>1
  <2>2. \A i \in a .. b : t[i] \in Views
    BY <1>1, <1>3, <2>1
  <2>3. SubSeq(t, a, b) \in Seq(Views) /\ Len(SubSeq(t, a, b)) = IF a <= b THEN b - a + 1 ELSE 0
    BY ONLY <2>2, a \in Int, b \in Int, SubSeqProperties
  <2>4. SubSeq(t, a, b) \in Seq(Views) /\ Len(SubSeq(t, a, b)) = m
    <3>1. (IF a <= b THEN b - a + 1 ELSE 0) = m
      BY <1>1, <2>1
    <3> QED BY <2>3, <3>1
  <2> QED BY ONLY <2>1, <2>4
<1> QED BY <1>1, <1>2, <1>4, <1>5 DEF t, n, m

\* The inputs and the outputs of a call, in a row, are the tensors of its descriptor.
LEMMA CallTensors ==
  ASSUME NEW d, TypedDesc(d), CountsOK(d), NEW i \in 1 .. d.input_count + d.output_count
  PROVE  (CallOf(d).in \o CallOf(d).out)[i] = d.tensors[i]
<1>. DEFINE t == d.tensors
            n == d.input_count
            m == d.output_count
            s == SubSeq(t, 1, n)
            u == SubSeq(t, n + 1, n + m)
<1>1. n \in Nat /\ m \in Nat /\ t \in Seq(Views) /\ n + m <= Len(t)
  BY AttrAssumption DEF TypedDesc, TypedCall, CountsOK, U32
<1>2. CallOf(d).in = s /\ CallOf(d).out = u
  BY DEF CallOf
<1>3. s \in Seq(Views) /\ u \in Seq(Views) /\ Len(s) = n /\ Len(u) = m
  BY <1>2, CallViews
<1>. HIDE DEF t, n, m
<1>4. \A j \in 1 .. n + m : t[j] \in Views
  BY <1>1
<1>5. \A j \in 1 .. n : s[j] = t[j]
  <2>1. \A j \in 1 .. n : t[j] \in Views
    BY <1>1, <1>4
  <2>2. 1 \in Int /\ n \in Int
    BY <1>1
  <2>3. \A j \in 1 .. n - 1 + 1 : SubSeq(t, 1, n)[j] = t[1 + j - 1]
    BY ONLY <2>1, <2>2, SubSeqProperties
  <2>4. ASSUME NEW j \in 1 .. n PROVE s[j] = t[j]
    <3>1. j \in 1 .. n - 1 + 1 /\ 1 + j - 1 = j
      BY <1>1
    <3> QED BY <2>3, <3>1
  <2> QED BY <2>4
<1>6. \A j \in 1 .. m : u[j] = t[n + j]
  <2>1. PICK a \in Int, b \in Int : a = n + 1 /\ b = n + m
    BY <1>1
  <2>2. \A j \in a .. b : t[j] \in Views
    BY <1>1, <1>4, <2>1
  <2>3. \A j \in 1 .. b - a + 1 : SubSeq(t, a, b)[j] = t[a + j - 1]
    BY ONLY <2>2, a \in Int, b \in Int, SubSeqProperties
  <2>4. ASSUME NEW j \in 1 .. m PROVE u[j] = t[n + j]
    <3>1. j \in 1 .. b - a + 1 /\ a + j - 1 = n + j
      BY <1>1, <2>1
    <3> QED BY <2>1, <2>3, <3>1
  <2> QED BY <2>4
<1>7. i \in 1 .. n + m
  BY DEF n, m
<1>. HIDE DEF s, u
<1>8. CASE i <= n
  <2>1. i \in 1 .. n
    BY <1>1, <1>7, <1>8
  <2>2. (s \o u)[i] = s[i]
    BY <1>1, <1>3, <2>1
  <2> QED BY <1>2, <1>5, <2>1, <2>2 DEF t
<1>9. CASE ~(i <= n)
  <2>1. i - n \in 1 .. m /\ n + (i - n) = i
    BY <1>1, <1>7, <1>9
  <2>2. (s \o u)[i] = u[i - n]
    BY <1>1, <1>3, <1>7, <1>9
  <2> QED BY <1>2, <1>6, <2>1, <2>2 DEF t
<1> QED BY <1>8, <1>9

(* --- arithmetic -------------------------------------------------------------- *)
\* Element i of a buffer of F16 numbers.
LEMMA HalfElement ==
  ASSUME NEW data \in Nat, NEW bytes \in Nat, NEW i \in Nat, i < bytes \div 2
  PROVE  data + 2 * i \in data .. data + bytes - 2
<1>1. 2 * (bytes \div 2) <= bytes
  OBVIOUS
<1> QED BY <1>1

(* --- the stores of each kernel lie inside its output -------------------------- *)
Inside(v, stores) == \A k \in DOMAIN stores : stores[k].at \in Extent(v, SizeOf(v))

\* write_logical_bytes stores inside the buffer of its view.
LEMMA LogicalStores ==
  ASSUME NEW v \in Views, MetaOK(v), NEW terms
  PROVE  Inside(v, WriteLogical(v, terms))
<1>1. DOMAIN WriteLogical(v, terms) = Linears(v)
  BY DEF WriteLogical
<1>2. ASSUME NEW l \in Linears(v) PROVE WriteLogical(v, terms)[l].at \in Extent(v, SizeOf(v))
  <2>1. WriteLogical(v, terms)[l].at = LogicalAddr(v)[l]
    BY DEF WriteLogical
  <2> QED BY <2>1, LogicalAddrInBounds DEF Extent
<1> QED BY <1>1, <1>2 DEF Inside

\* The first output of a kernel that takes F16 tensors only.
LEMMA F16Output ==
  ASSUME NEW c, c.out \in Seq(Views), Len(c.out) = 1, AllF16(c)
  PROVE  /\ c.out[1] \in Views /\ c.out[1] \in ViewsOf(c)
         /\ c.out[1].data \in Nat /\ c.out[1].bytes \in Nat
         /\ c.out[1].dtype = "F16" /\ SizeOf(c.out[1]) = 2
<1>1. 1 \in DOMAIN c.out /\ c.out[1] \in Views
  OBVIOUS
<1>2. c.out[1] \in ViewsOf(c)
  BY <1>1 DEF ViewsOf
<1>3. c.out[1].dtype = "F16"
  BY <1>2 DEF AllF16
<1> QED BY <1>1, <1>2, <1>3, ViewFacts DEF SizeOf, ElementSize

\* So do the element-wise kernels with broadcasting.
LEMMA BinaryStores ==
  ASSUME NEW c, c.out \in Seq(Views), BinaryOK(c)
  PROVE  Inside(c.out[1], BinaryWrites(c))
<1>1. Len(c.out) = 1 /\ AllF16(c) /\ AllMetaOK(c)
  BY DEF BinaryOK, ExpectIO
<1>. DEFINE v == c.out[1]
<1>2. v \in Views /\ MetaOK(v) /\ SizeOf(v) = 2
  BY <1>1, F16Output DEF AllMetaOK
<1>3. DOMAIN BinaryWrites(c) = Linears(v)
  BY DEF BinaryWrites
<1>4. ASSUME NEW l \in Linears(v) PROVE BinaryWrites(c)[l].at \in Extent(v, SizeOf(v))
  <2>1. BinaryWrites(c)[l].at = v.data + 2 * Offset(v, Coordinates(v.shape, l))
    BY DEF BinaryWrites
  <2>. HIDE DEF v
  <2> QED BY <1>2, <2>1, CoordinatesInBounds DEF Extent
<1> QED BY <1>3, <1>4 DEF Inside

\* So do the unary ones, which go over buffers of one length.
LEMMA UnaryStores ==
  ASSUME NEW c, c.out \in Seq(Views), UnaryOK(c)
  PROVE  Inside(c.out[1], UnaryWrites(c))
<1>1. Len(c.out) = 1 /\ AllF16(c) /\ c.in[1].bytes = c.out[1].bytes
  BY DEF UnaryOK, ExpectIO
<1>2. c.out[1].data \in Nat /\ c.out[1].bytes \in Nat /\ SizeOf(c.out[1]) = 2
  BY <1>1, F16Output
<1>3. DOMAIN UnaryWrites(c) = 0 .. c.out[1].bytes \div 2 - 1
  BY <1>1 DEF UnaryWrites
<1>4. ASSUME NEW i \in 0 .. c.out[1].bytes \div 2 - 1
      PROVE  UnaryWrites(c)[i].at \in Extent(c.out[1], 2)
  <2>1. UnaryWrites(c)[i].at = c.out[1].data + 2 * i
    BY <1>1 DEF UnaryWrites
  <2>2. i \in Nat /\ i < c.out[1].bytes \div 2
    BY <1>2
  <2> QED BY ONLY <1>2, <2>1, <2>2, HalfElement DEF Extent
<1> QED BY <1>2, <1>3, <1>4 DEF Inside

\* What region_fits accepts: every index of the region is inside.
LEMMA RegionFitsBounds ==
  ASSUME NEW len \in Nat, NEW batch \in Nat, NEW rows \in Nat, NEW cols \in Nat,
         NEW s \in [row : Nat, col : Nat, batch : Nat],
         RegionFits(len, batch, rows, cols, s),
         NEW b \in 0 .. batch - 1, NEW r \in 0 .. rows - 1, NEW k \in 0 .. cols - 1
  PROVE  /\ b * s.batch + r * s.row + k * s.col \in Nat
         /\ b * s.batch + r * s.row + k * s.col < len
<1>1. (batch - 1) * s.batch + (rows - 1) * s.row + (cols - 1) * s.col < len
  BY DEF RegionFits
<1>2. ASSUME NEW n \in Nat, NEW i \in 0 .. n - 1, NEW q \in Nat
      PROVE  i * q \in Nat /\ (n - 1) * q \in Nat /\ i * q <= (n - 1) * q
  <2>1. q * i <= q * (n - 1) /\ q * i \in Nat /\ q * (n - 1) \in Nat
    BY ProductMonotone
  <2> QED BY <2>1
<1>3. s.batch \in Nat /\ s.row \in Nat /\ s.col \in Nat
  OBVIOUS
<1>4. PICK x \in Nat, X \in Nat :
        x = b * s.batch /\ X = (batch - 1) * s.batch /\ x <= X
  BY <1>2, <1>3
<1>5. PICK y \in Nat, Y \in Nat : y = r * s.row /\ Y = (rows - 1) * s.row /\ y <= Y
  BY <1>2, <1>3
<1>6. PICK z \in Nat, Z \in Nat : z = k * s.col /\ Z = (cols - 1) * s.col /\ z <= Z
  BY <1>2, <1>3
<1>7. X + Y + Z < len
  BY <1>1, <1>4, <1>5, <1>6
<1>8. x + y + z \in Nat /\ x + y + z < len
  BY ONLY <1>4, <1>5, <1>6, <1>7, x \in Nat, X \in Nat, y \in Nat, Y \in Nat, z \in Nat, Z \in Nat,
          len \in Nat
<1> QED BY ONLY <1>4, <1>5, <1>6, <1>8

\* So does MAT_MUL, by what validate_bounds checks.
LEMMA MatMulStores ==
  ASSUME NEW c, c.out \in Seq(Views), c.attr \in MatMulAttrs, MatMulOK(c)
  PROVE  Inside(c.out[1], MatMulWrites(c))
<1>. DEFINE a == c.attr
            v == c.out[1]
<1>1. Len(c.out) = 1 /\ AllF16(c)
  BY DEF MatMulOK, ExpectIO
<1>2. v.data \in Nat /\ v.bytes \in Nat /\ SizeOf(v) = 2
  BY <1>1, F16Output
<1>3. /\ a.batch \in Nat /\ a.m \in Nat /\ a.n \in Nat
      /\ a.out \in [row : Nat, col : Nat, batch : Nat]
  <2>1. U32 \subseteq Nat
    BY ONLY AttrAssumption DEF U32
  <2>2. a \in MatMulAttrs
    OBVIOUS
  <2>3. a.batch \in U32 /\ a.m \in U32 /\ a.n \in U32 /\ a.out \in MatMulStrides
    BY ONLY <2>2 DEF MatMulAttrs
  <2>4. a.out \in [row : Nat, col : Nat, batch : Nat]
    BY ONLY <2>1, <2>3 DEF MatMulStrides
  <2> QED BY ONLY <2>1, <2>3, <2>4
<1>4. Batches(a) \in Nat
  BY <1>3 DEF Batches, AtLeastOne
<1>5. RegionFits(v.bytes \div 2, Batches(a), a.m, a.n, a.out)
  BY DEF MatMulOK, ValidateBounds, Elements
<1>6. DOMAIN MatMulWrites(c) = MatMulCells(a)
  BY DEF MatMulWrites
<1>7. ASSUME NEW x \in MatMulCells(a) PROVE MatMulWrites(c)[x].at \in Extent(v, SizeOf(v))
  <2>1. MatMulWrites(c)[x].at = v.data + 2 * OutIndex(a, x[1], x[2], x[3])
    BY DEF MatMulWrites
  <2>2. x[1] \in 0 .. Batches(a) - 1 /\ x[2] \in 0 .. a.m - 1 /\ x[3] \in 0 .. a.n - 1
    BY DEF MatMulCells
  <2>. HIDE DEF a, v
  <2>3. v.bytes \div 2 \in Nat
    BY <1>2
  <2>4. OutIndex(a, x[1], x[2], x[3]) \in Nat /\ OutIndex(a, x[1], x[2], x[3]) < v.bytes \div 2
    BY <1>3, <1>4, <1>5, <2>2, <2>3, RegionFitsBounds DEF OutIndex
  <2> QED BY ONLY <1>2, <2>1, <2>4, HalfElement DEF Extent
<1> QED BY <1>6, <1>7 DEF Inside

\* The extents of an accepted convolution, and the length of its output.
LEMMA ConvFacts ==
  ASSUME NEW a \in ConvAttrs, NEW i, NEW w, NEW len \in Nat, NEW b,
         GeomOK(Geom(a)), ValidateLengths(Geom(a), i, w, len, b)
  PROVE  LET g == Geom(a) IN
         /\ g.batch \in Nat /\ g.cout \in Nat /\ g.groups \in Nat \ {0}
         /\ g.out[1] \in Nat /\ g.out[2] \in Nat
         /\ Spatial(g) = g.out[1] * g.out[2] /\ Spatial(g) \in Nat
         /\ g.batch * g.cout * Spatial(g) <= len
         /\ CoutPerGroup(g) \in Nat \ {0}
<1>. DEFINE g == Geom(a)
<1>1. /\ a.batch \in Nat /\ a.cout \in Nat /\ a.groups \in Nat
      /\ a.out[1] \in U32 /\ a.out[2] \in U32
  BY AttrAssumption DEF ConvAttrs, U32Pairs, U32
<1>2. /\ g.batch \in Nat /\ g.cout = a.cout /\ g.groups \in Nat \ {0} /\ g.out = a.out
  BY <1>1 DEF Geom, AtLeastOne
<1>3. /\ g.cout # 0 /\ g.cout % g.groups = 0
      /\ OutputNeed(g) <= len
  BY DEF GeomOK, ValidateLengths
<1>. HIDE DEF g
<1>4. Spatial(g) = g.out[1] * g.out[2] /\ Spatial(g) \in Nat
  <2>1. PICK x \in Nat, y \in Nat, u \in Nat :
          /\ x = g.out[1] /\ y = g.out[2] /\ u = U32Max /\ x <= u /\ y <= u
    BY <1>1, <1>2, AttrAssumption DEF U32
  <2>2. x * y <= u * u /\ x * y \in Nat
    <3>1. x * y <= x * u /\ x * y \in Nat /\ x * u \in Nat
      BY <2>1, ProductMonotone
    <3>2. u * x <= u * u /\ u * x \in Nat /\ u * u \in Nat
      BY <2>1, ProductMonotone
    <3>3. x * u = u * x
      OBVIOUS
    <3> QED BY ONLY <3>1, <3>2, <3>3
  <2>3. u * u <= UsizeMax /\ u * u \in Nat /\ UsizeMax \in Nat
    BY <2>1, CallAssumption, MetaAssumption
  <2>4. PICK p \in Nat, q \in Nat : p = x * y /\ q = u * u
    BY <2>2, <2>3
  <2>5. p % (UsizeMax + 1) = p
    BY ONLY <2>2, <2>3, <2>4, p \in Nat, q \in Nat
  <2> QED BY <2>1, <2>4, <2>5 DEF Spatial
<1>5. CoutPerGroup(g) \in Nat \ {0}
  <2>1. PICK x \in Nat, y \in Nat \ {0} : x = g.cout /\ y = g.groups /\ x # 0 /\ x % y = 0
    BY <1>1, <1>2, <1>3
  <2>2. x = y * (x \div y) + (x % y) /\ x \div y \in Nat
    OBVIOUS
  <2>3. x \div y # 0
    BY ONLY <2>1, <2>2, x \in Nat, y \in Nat
  <2> QED BY <2>1, <2>2, <2>3 DEF CoutPerGroup
<1>6. g.batch * g.cout * Spatial(g) <= len
  BY <1>3 DEF OutputNeed
<1> QED BY <1>1, <1>2, <1>4, <1>5, <1>6, AttrAssumption DEF g, U32

\* The place of element (batch, oc, s) of a row-major output is inside it.
LEMMA ConvPlace ==
  ASSUME NEW A \in Nat, NEW B \in Nat, NEW S \in Nat,
         NEW b \in 0 .. A - 1, NEW oc \in 0 .. B - 1, NEW s \in 0 .. S - 1
  PROVE  (b * B + oc) * S + s \in 0 .. A * B * S - 1
<1>1. b * B + oc \in 0 .. A * B - 1 /\ A * B \in Nat
  BY RowBound
<1>2. PICK r \in Nat, n \in Nat : r = b * B + oc /\ n = A * B /\ r \in 0 .. n - 1
  BY <1>1
<1>3. r * S + s \in 0 .. n * S - 1
  BY <1>2, RowBound
<1> QED BY <1>2, <1>3

\* Row m of group d, of Q rows each.
LEMMA GroupRows ==
  ASSUME NEW b \in Nat, NEW B \in Nat, NEW S \in Nat, NEW Q \in Nat, NEW d \in Nat, NEW m \in Nat,
         NEW u \in Int
  PROVE  b * B * S + d * Q * S + (m * S + u) = (b * B + (Q * d + m)) * S + u
<1>1. (b * B + (Q * d + m)) * S = b * B * S + d * Q * S + m * S
  OBVIOUS
<1>2. b * B * S + d * Q * S + m * S \in Int
  OBVIOUS
<1> QED BY <1>1, <1>2

\* The element the A100 path computes for (batch, oc, s), and the one the CPU
\* path computes for (batch, oc, oy, ox), are one element of the output.
LEMMA ConvAddress ==
  ASSUME NEW c, c.out \in Seq(Views), Len(c.out) = 1, AllF16(c), c.attr \in ConvAttrs,
         GeomOK(Geom(c.attr)), NEW i, NEW w, NEW bias,
         ValidateLengths(Geom(c.attr), i, w, Elements(c.out[1]), bias),
         NEW x \in ConvCells(Geom(c.attr))
  PROVE  /\ ConvCpuAt(c, x[1], x[2], x[3], x[4]) \in Extent(c.out[1], 2)
         /\ ConvA100At(c, x[1], x[2], x[3] * Geom(c.attr).out[2] + x[4]) \in Extent(c.out[1], 2)
         /\ ConvCpuAt(c, x[1], x[2], x[3], x[4])
              = ConvA100At(c, x[1], x[2], x[3] * Geom(c.attr).out[2] + x[4])
<1>. DEFINE g == Geom(c.attr)
            v == c.out[1]
            P == CoutPerGroup(g)
            place == (x[1] * g.cout + x[2]) * Spatial(g) + (x[3] * g.out[2] + x[4])
<1>1. v.data \in Nat /\ v.bytes \in Nat
  BY F16Output
<1>2. Elements(v) = v.bytes \div 2 /\ Elements(v) \in Nat
  BY <1>1 DEF Elements
<1>3. /\ g.batch \in Nat /\ g.cout \in Nat /\ g.out[1] \in Nat /\ g.out[2] \in Nat
      /\ Spatial(g) = g.out[1] * g.out[2] /\ Spatial(g) \in Nat
      /\ g.batch * g.cout * Spatial(g) <= Elements(v)
      /\ P \in Nat \ {0}
  BY <1>2, ConvFacts
<1>4. /\ x[1] \in 0 .. g.batch - 1 /\ x[2] \in 0 .. g.cout - 1
      /\ x[3] \in 0 .. g.out[1] - 1 /\ x[4] \in 0 .. g.out[2] - 1
  BY DEF ConvCells
<1>5. /\ ConvCpuAt(c, x[1], x[2], x[3], x[4])
           = v.data + 2 * (((x[1] * g.cout + x[2]) * g.out[1] + x[3]) * g.out[2] + x[4])
      /\ ConvA100At(c, x[1], x[2], x[3] * g.out[2] + x[4])
           = v.data + 2 * (x[1] * g.cout * Spatial(g) + (x[2] \div P) * P * Spatial(g)
                             + ((x[2] % P) * Spatial(g) + (x[3] * g.out[2] + x[4])))
  BY DEF ConvCpuAt, OutputIndex, ConvA100At, GroupPlace
<1>. HIDE DEF g, v, P
<1>6. PICK A \in Nat, B \in Nat, H \in Nat, W \in Nat, S \in Nat, Q \in Nat \ {0} :
        /\ A = g.batch /\ B = g.cout /\ H = g.out[1] /\ W = g.out[2] /\ S = Spatial(g) /\ Q = P
        /\ S = H * W /\ A * B * S <= Elements(v)
  BY <1>3
<1>7. PICK b \in 0 .. A - 1, oc \in 0 .. B - 1, oy \in 0 .. H - 1, ox \in 0 .. W - 1 :
        b = x[1] /\ oc = x[2] /\ oy = x[3] /\ ox = x[4]
  BY <1>4, <1>6
<1>8. oy * W + ox \in 0 .. S - 1
  BY <1>6, RowBound
<1>9. (b * B + oc) * S + (oy * W + ox) \in 0 .. A * B * S - 1
  BY <1>8, ConvPlace
<1>10. ((b * B + oc) * H + oy) * W + ox = (b * B + oc) * S + (oy * W + ox)
  <2>1. PICK r \in Nat : r = b * B + oc
    OBVIOUS
  <2>2. (r * H + oy) * W + ox = r * (H * W) + (oy * W + ox)
    OBVIOUS
  <2> QED BY <1>6, <2>1, <2>2
<1>11. b * B * S + (oc \div Q) * Q * S + ((oc % Q) * S + (oy * W + ox))
         = (b * B + oc) * S + (oy * W + ox)
  <2>1. PICK d \in Nat, m \in Nat : d = oc \div Q /\ m = oc % Q /\ oc = Q * d + m
    <3>1. oc \div Q \in Nat /\ oc % Q \in Nat /\ oc = Q * (oc \div Q) + (oc % Q)
      OBVIOUS
    <3> QED BY <3>1
  <2>2. oy * W + ox \in Int
    OBVIOUS
  <2>3. b * B * S + d * Q * S + (m * S + (oy * W + ox)) = (b * B + (Q * d + m)) * S + (oy * W + ox)
    BY <2>2, GroupRows
  <2>4. b * B * S + (oc \div Q) * Q * S + ((oc % Q) * S + (oy * W + ox))
          = b * B * S + d * Q * S + (m * S + (oy * W + ox))
    BY ONLY <2>1
  <2>5. (b * B + oc) * S + (oy * W + ox) = (b * B + (Q * d + m)) * S + (oy * W + ox)
    BY ONLY <2>1
  <2> QED BY ONLY <2>3, <2>4, <2>5
<1>12. PICK j \in Nat : j = (b * B + oc) * S + (oy * W + ox) /\ j < v.bytes \div 2
  <2>1. A * B * S \in Nat
    OBVIOUS
  <2>2. PICK n \in Nat : n = A * B * S /\ n <= Elements(v)
    BY <1>6, <2>1
  <2>3. PICK j \in Int : j = (b * B + oc) * S + (oy * W + ox)
    BY <1>9
  <2>4. j \in Nat /\ j < v.bytes \div 2
    BY <1>2, <1>9, <2>2, <2>3
  <2> QED BY <2>3, <2>4
<1>13. v.data + 2 * j \in v.data .. v.data + v.bytes - 2
  BY <1>1, <1>12, HalfElement
<1> QED BY <1>5, <1>6, <1>7, <1>10, <1>11, <1>12, <1>13 DEF Extent, g, v, P

\* So does CONV2D, by what from_attr and validate_lengths check.
LEMMA ConvStores ==
  ASSUME NEW c, c.out \in Seq(Views), c.attr \in ConvAttrs, ConvOK(c)
  PROVE  Inside(c.out[1], ConvWrites(c))
<1>1. Len(c.out) = 1 /\ AllF16(c) /\ GeomOK(Geom(c.attr))
  BY DEF ConvOK, ExpectIO
<1>2. PICK i, w, bias : ValidateLengths(Geom(c.attr), i, w, Elements(c.out[1]), bias)
  BY DEF ConvOK
<1>3. SizeOf(c.out[1]) = 2
  BY <1>1, F16Output
<1>4. DOMAIN ConvWrites(c) \subseteq ConvCells(Geom(c.attr))
  BY DEF ConvWrites, ConvStoredCells
<1>5. ASSUME NEW x \in DOMAIN ConvWrites(c) PROVE ConvWrites(c)[x].at \in Extent(c.out[1], 2)
  <2>1. \/ ConvWrites(c)[x].at = ConvCpuAt(c, x[1], x[2], x[3], x[4])
        \/ ConvWrites(c)[x].at = ConvA100At(c, x[1], x[2], x[3] * Geom(c.attr).out[2] + x[4])
    BY DEF ConvWrites
  <2> QED BY <1>1, <1>2, <1>4, <2>1, ConvAddress
<1> QED BY <1>3, <1>5 DEF Inside

(* --- what the kernels read ------------------------------------------------------ *)
\* The number of elements, split at an axis: those in front of it, along it and behind it.
LEMMA SplitProduct ==
  ASSUME NEW n \in Nat, NEW shape \in [1 .. n -> Nat], Len(shape) = n, NEW a \in 1 .. n
  PROVE  /\ Prefix(shape)[a-1] \in Nat /\ Suffix(shape)[a] \in Nat /\ Prefix(shape)[a] \in Nat
         /\ Product(shape) = (Prefix(shape)[a-1] * shape[a]) * Suffix(shape)[a]
         /\ Suffix(shape)[0] = Prefix(shape)[a-1] * Suffix(shape)[a-1]
         /\ Suffix(shape)[a-1] = shape[a] * Suffix(shape)[a]
<1>. DEFINE p == Prefix(shape)
            s == Suffix(shape)
            G == {i \in 0 .. n : p[i] \in Nat /\ p[i] * s[i] = s[0]}
<1>1. p \in [0 .. n -> Int] /\ p[0] = 1 /\ \A i \in 1 .. n : p[i] = p[i-1] * shape[i]
  BY PrefixFacts
<1>2. s \in [0 .. n -> Int] /\ s[n] = 1 /\ \A i \in 1 .. n : s[i-1] = shape[i] * s[i]
  BY SuffixFacts
<1>3. \A i \in 0 .. n : s[i] \in Nat
  BY SuffixNat
<1>4. Product(shape) = s[0]
  BY CountIsSuffix
<1>. HIDE DEF p, s
<1>5. 0 \in G
  BY <1>1, <1>2, <1>3
<1>6. ASSUME NEW i \in 1 .. n, i - 1 \in G PROVE i \in G
  <2>1. PICK u \in Nat, b \in Nat, x \in Nat :
          /\ u = p[i-1] /\ b = s[i] /\ x = shape[i]
          /\ p[i] = u * x /\ s[i-1] = x * b /\ u * (x * b) = s[0]
    <3>1. p[i-1] \in Nat /\ s[i] \in Nat /\ shape[i] \in Nat
      BY <1>3, <1>6
    <3>2. p[i-1] * s[i-1] = s[0]
      BY <1>6
    <3> QED BY <3>1, <3>2, <1>1, <1>2
  <2>2. (u * x) * b = u * (x * b) /\ u * x \in Nat
    BY ONLY u \in Nat, b \in Nat, x \in Nat
  <2> QED BY <2>1, <2>2
<1>7. 0 .. n \subseteq G
  <2>. HIDE DEF G
  <2> QED BY <1>5, <1>6, IntervalInduction
<1>8. p[a-1] \in Nat /\ p[a-1] * s[a-1] = s[0] /\ p[a] \in Nat /\ p[a] * s[a] = s[0]
  BY <1>7
<1>9. p[a] = p[a-1] * shape[a] /\ s[a-1] = shape[a] * s[a] /\ s[a] \in Nat
  BY <1>1, <1>2, <1>3
<1> QED BY <1>4, <1>8, <1>9 DEF p, s

\* row_major_linear by its equations.
LEMMA RowMajorFacts ==
  ASSUME NEW n \in Nat, NEW shape \in [1 .. n -> Nat], Len(shape) = n, NEW x \in [1 .. n -> Nat]
  PROVE  \E r \in [0 .. n -> Int] :
           /\ RowMajor(shape, x) = r[n]
           /\ r[0] = 0 /\ \A i \in 1 .. n : r[i] = r[i-1] * shape[i] + x[i]
<1>. DEFINE Step == [i \in 1 .. n |-> [y \in Int |-> y * shape[i] + x[i]]]
            Eq(f) == f = [i \in 0 .. n |-> IF i = 0 THEN 0 ELSE f[i-1] * shape[i] + x[i]]
            r == CHOOSE f : Eq(f)
<1>1. Step \in StepFunctions(n)
  <2>1. ASSUME NEW i \in 1 .. n, NEW y \in Int PROVE y * shape[i] + x[i] \in Int
    <3>1. PICK a \in Nat, b \in Nat : a = shape[i] /\ b = x[i]
      OBVIOUS
    <3>2. y * a + b \in Int
      OBVIOUS
    <3> QED BY <3>1, <3>2
  <2> QED BY <2>1 DEF StepFunctions
<1>2. PICK g \in [0 .. n -> Int] : g[0] = 0 /\ \A i \in 1 .. n : g[i] = Step[i][g[i-1]]
  <2>. HIDE DEF Step
  <2>2. PICK g : FromLeft(g, n, 0, Step)
    BY ONLY <1>1, n \in Nat, RecursionExists
  <2> QED BY <2>2 DEF FromLeft
<1>3. ASSUME NEW i \in 1 .. n PROVE g[i] = g[i-1] * shape[i] + x[i]
  <2>1. g[i-1] \in Int
    OBVIOUS
  <2>2. Step[i][g[i-1]] = g[i-1] * shape[i] + x[i]
    BY <2>1
  <2> QED BY <2>2, <1>2
<1>4. Eq(g)
  BY <1>2, <1>3
<1>5. Eq(r)
  <2>. HIDE DEF Eq
  <2> QED BY <1>4
<1>6. RowMajor(shape, x) = r[n]
  BY DEF RowMajor
<1>. HIDE DEF r
<1>7. r[0] = 0 /\ \A i \in 1 .. n : r[i] = r[i-1] * shape[i] + x[i]
  BY <1>5
<1>. DEFINE G == {i \in 0 .. n : r[i] = g[i]}
<1>8. 0 \in G
  BY <1>2, <1>7
<1>9. \A i \in 1 .. n : i - 1 \in G => i \in G
  BY <1>3, <1>7
<1>10. 0 .. n \subseteq G
  <2>. HIDE DEF G
  <2> QED BY <1>8, <1>9, IntervalInduction
<1>11. r \in [0 .. n -> Int]
  <2>1. \A i \in 0 .. n : r[i] \in Int
    BY <1>10
  <2> QED BY <2>1, <1>5
<1> QED BY <1>6, <1>7, <1>11

\* Coordinates inside the shape have a linear index below the number of elements.
LEMMA RowMajorBound ==
  ASSUME NEW n \in Nat, NEW shape \in [1 .. n -> Nat], Len(shape) = n,
         NEW x \in [1 .. n -> Nat], InShape(shape, x)
  PROVE  RowMajor(shape, x) \in 0 .. Product(shape) - 1
<1>1. PICK r \in [0 .. n -> Int] :
        /\ RowMajor(shape, x) = r[n]
        /\ r[0] = 0 /\ \A i \in 1 .. n : r[i] = r[i-1] * shape[i] + x[i]
  BY RowMajorFacts
<1>. DEFINE p == Prefix(shape)
            G == {i \in 0 .. n : p[i] \in Nat /\ r[i] \in 0 .. p[i] - 1}
<1>2. p \in [0 .. n -> Int] /\ p[0] = 1 /\ \A i \in 1 .. n : p[i] = p[i-1] * shape[i]
  BY PrefixFacts
<1>. HIDE DEF p
<1>3. 0 \in G
  BY <1>1, <1>2
<1>4. ASSUME NEW i \in 1 .. n, i - 1 \in G PROVE i \in G
  <2>1. PICK A \in Nat, B \in Nat, a \in Int, b \in Int :
          A = p[i-1] /\ B = shape[i] /\ a = r[i-1] /\ b = x[i]
          /\ a \in 0 .. A - 1 /\ b \in 0 .. B - 1
    <3>1. p[i-1] \in Nat /\ shape[i] \in Nat /\ r[i-1] \in 0 .. p[i-1] - 1
      BY <1>4
    <3>2. x[i] \in 0 .. shape[i] - 1
      BY DEF InShape
    <3>3. r[i-1] \in Int /\ x[i] \in Int
      BY <3>1, <3>2
    <3> QED BY <3>1, <3>2, <3>3, SMTT(30)
  <2>2. a * B + b \in 0 .. A * B - 1 /\ A * B \in Nat
    <3>1. a \in 0 .. A - 1 /\ b \in 0 .. B - 1
      BY <2>1
    <3>2. a * B + b \in 0 .. A * B - 1
      BY ONLY <3>1, A \in Nat, B \in Nat, RowBound
    <3> QED BY <3>2
  <2>3. p[i] = A * B /\ r[i] = a * B + b
    BY <1>1, <1>2, <2>1
  <2> QED BY <2>2, <2>3
<1>5. 0 .. n \subseteq G
  <2>. HIDE DEF G
  <2> QED BY <1>3, <1>4, IntervalInduction
<1>6. r[n] \in 0 .. p[n] - 1
  BY <1>5
<1> QED BY <1>1, <1>6 DEF p, Product

\* The coordinates of an element of a view.
LEMMA ElementCoordinates ==
  ASSUME NEW v \in Views, NEW l \in Linears(v)
  PROVE  /\ \A a \in 1 .. Rank(v) : v.shape[a] \in Nat /\ v.shape[a] >= 1
         /\ Coordinates(v.shape, l) \in [1 .. Rank(v) -> Nat]
         /\ InShape(v.shape, Coordinates(v.shape, l))
         /\ \A a \in 1 .. Rank(v) : Coordinates(v.shape, l)[a] \in 0 .. v.shape[a] - 1
         /\ l \in Nat /\ Count(v) \in Nat
<1>1. Rank(v) \in Nat /\ v.shape \in [1 .. Rank(v) -> Nat] /\ Len(v.shape) = Rank(v)
  BY ViewFacts DEF Rank
<1>2. Count(v) = Suffix(v.shape)[0] /\ Count(v) \in Nat
  BY <1>1, CountIsSuffix DEF Count
<1>3. l \in Nat /\ Suffix(v.shape)[0] # 0
  BY <1>2 DEF Linears
<1>4. \A a \in 1 .. Rank(v) : v.shape[a] >= 1
  BY <1>1, <1>3, PositiveExtents
<1>5. /\ Coordinates(v.shape, l) \in [1 .. Rank(v) -> Nat]
      /\ InShape(v.shape, Coordinates(v.shape, l))
  BY <1>1, <1>3, <1>4, CoordinatesInShape
<1>6. \A a \in 1 .. Rank(v) : Coordinates(v.shape, l)[a] \in 0 .. v.shape[a] - 1
  BY <1>1, <1>5 DEF InShape
<1> QED BY <1>1, <1>2, <1>3, <1>4, <1>5, <1>6

\* And the way back.
LEMMA CellNumbered ==
  ASSUME NEW v \in Views, NEW x \in [1 .. Rank(v) -> Nat],
         \A a \in 1 .. Rank(v) : x[a] \in 0 .. v.shape[a] - 1
  PROVE  RowMajor(v.shape, x) \in Linears(v)
<1>1. Rank(v) \in Nat /\ v.shape \in [1 .. Rank(v) -> Nat] /\ Len(v.shape) = Rank(v)
  BY ViewFacts DEF Rank
<1>2. InShape(v.shape, x)
  BY <1>1 DEF InShape
<1> QED BY <1>1, <1>2, RowMajorBound DEF Linears, Count

\* The addresses of the elements of the inputs, and a term computed from them.
Readable(c) == UNION {Extent(c.in[i], SizeOf(c.in[i])) : i \in DOMAIN c.in}
Sound(c, t) == t.f \in Functions /\ t.from \in Seq(Readable(c))

\* A store of such a term; CONV2D may also compute it from what its cell held.
Reads(c, at) == IF c.op = "CONV2D" THEN Readable(c) \cup {at} ELSE Readable(c)
SoundStore(c, w) == w.val.f \in Functions /\ w.val.from \in Seq(Reads(c, w.at))

\* A sequence over a set is one over a larger set.
LEMMA SeqWider ==
  ASSUME NEW S, NEW T, S \subseteq T, NEW q \in Seq(S)
  PROVE  q \in Seq(T)
OBVIOUS

\* Every element of an input, in logical order, can be read.
LEMMA ElementInside ==
  ASSUME NEW c, c.in \in Seq(Views), AllMetaOK(c), NEW i \in DOMAIN c.in,
         NEW l \in Linears(c.in[i])
  PROVE  LogicalAddr(c.in[i])[l] \in Readable(c)
<1>1. c.in[i] \in Views /\ MetaOK(c.in[i])
  BY DEF AllMetaOK, ViewsOf
<1> QED BY <1>1, LogicalAddrInBounds DEF Readable, Extent

\* A value moved from an input is computed from the inputs.
LEMMA MovedSound ==
  ASSUME NEW c, NEW a \in Readable(c)
  PROVE  Sound(c, Moved(a))
<1>1. Moved(a).f = "moved" /\ Moved(a).from = <<a>>
  BY DEF Moved, Term
<1> QED BY <1>1 DEF Sound, Functions

\* A value of any function of the kernels is sound if its operands are.
LEMMA TermSound ==
  ASSUME NEW c, NEW f \in Functions, NEW w, NEW from \in Seq(Readable(c))
  PROVE  Sound(c, Term(f, w, from))
BY DEF Sound, Term

\* gather_logical: an element taken from the input at a linear index inside it.
LEMMA GatheredSound ==
  ASSUME NEW c, c.in \in Seq(Views), AllMetaOK(c), 1 \in DOMAIN c.in,
         NEW source, NEW l \in DOMAIN source, source[l] \in Linears(Src(c))
  PROVE  Sound(c, Gathered(Src(c), source)[l])
<1>1. Gathered(Src(c), source)[l] = Moved(LogicalAddr(Src(c))[source[l]])
  BY DEF Gathered
<1>2. LogicalAddr(Src(c))[source[l]] \in Readable(c)
  BY ElementInside DEF Src
<1> QED BY <1>1, <1>2, MovedSound

\* A call with an input and an output: the shapes of the first of each.
LEMMA SourceAndResult ==
  ASSUME NEW c, c.in \in Seq(Views), c.out \in Seq(Views), NEW ins, NEW outs, ExpectIO(c, ins, outs),
         ins \subseteq Nat \ {0}, outs \subseteq Nat \ {0}
  PROVE  /\ 1 \in DOMAIN c.in /\ 1 \in DOMAIN c.out
         /\ Src(c) \in Views /\ Src(c) = c.in[1] /\ Dst(c) \in Views /\ Dst(c) = c.out[1]
         /\ Rank(Src(c)) \in Nat /\ Axes(Src(c)) = 1 .. Rank(Src(c)) /\ Len(Src(c).shape) = Rank(Src(c))
         /\ Rank(Dst(c)) \in Nat /\ Axes(Dst(c)) = 1 .. Rank(Dst(c)) /\ Len(Dst(c).shape) = Rank(Dst(c))
         /\ Src(c).shape \in [1 .. Rank(Src(c)) -> Nat] /\ Dst(c).shape \in [1 .. Rank(Dst(c)) -> Nat]
<1>1. Len(c.in) \in Nat \ {0} /\ Len(c.out) \in Nat \ {0}
  BY DEF ExpectIO
<1>2. 1 \in DOMAIN c.in /\ 1 \in DOMAIN c.out
  BY <1>1
<1>3. Src(c) \in Views /\ Dst(c) \in Views
  BY <1>2 DEF Src, Dst
<1> QED BY <1>2, <1>3, ViewFacts DEF Rank, Src, Dst

\* A kernel that has checked all metadata has checked that of its input.
LEMMA SourceMeta ==
  ASSUME NEW c, AllMetaOK(c), 1 \in DOMAIN c.in
  PROVE  MetaOK(Src(c))
BY DEF AllMetaOK, ViewsOf, Src

\* Element l of a result is what cell x of the input holds.
Taken(c, result, l, x) ==
  /\ x \in [1 .. Rank(Src(c)) -> Nat]
  /\ \A a \in 1 .. Rank(Src(c)) : x[a] \in 0 .. Src(c).shape[a] - 1
  /\ result[l] = Moved(LogicalAddr(Src(c))[RowMajor(Src(c).shape, x)])

\* A result taken from a cell of input 1 is computed from the inputs.
LEMMA TakenSound ==
  ASSUME NEW c, c.in \in Seq(Views), AllMetaOK(c), 1 \in DOMAIN c.in,
         NEW result, NEW l, NEW x, Taken(c, result, l, x)
  PROVE  Sound(c, result[l])
<1>1. Src(c) \in Views /\ Src(c) = c.in[1]
  BY DEF Src
<1>2. RowMajor(Src(c).shape, x) \in Linears(Src(c))
  BY <1>1, CellNumbered DEF Taken
<1>3. LogicalAddr(Src(c))[RowMajor(Src(c).shape, x)] \in Readable(c)
  BY <1>1, <1>2, ElementInside
<1> QED BY <1>3, MovedSound DEF Taken

\* gather_logical takes it from the linear index of the cell.
LEMMA GatheredTaken ==
  ASSUME NEW c, NEW source, NEW l \in DOMAIN source, NEW x \in [1 .. Rank(Src(c)) -> Nat],
         \A a \in 1 .. Rank(Src(c)) : x[a] \in 0 .. Src(c).shape[a] - 1,
         source[l] = RowMajor(Src(c).shape, x)
  PROVE  Taken(c, Gathered(Src(c), source), l, x)
BY DEF Taken, Gathered

(* --- moving elements: copy, cast, expand, tile -------------------------- *)
\* COPY takes element l of an input of as many elements (transform.rs:360).
LEMMA CopyLoads ==
  ASSUME NEW c, c.in \in Seq(Views), c.out \in Seq(Views), CopyOK(c), NEW l \in Linears(Dst(c))
  PROVE  Sound(c, CopyResult(c)[l])
<1>1. 1 \in DOMAIN c.in /\ AllMetaOK(c) /\ Count(Src(c)) = Count(Dst(c))
  BY SourceAndResult DEF CopyOK
<1>2. l \in Linears(Src(c))
  BY <1>1 DEF Linears
<1>. DEFINE source == [m \in Linears(Dst(c)) |-> m]
<1>3. l \in DOMAIN source /\ source[l] \in Linears(Src(c)) /\ CopyResult(c) = Gathered(Src(c), source)
  BY <1>2 DEF CopyResult
<1>. HIDE DEF source
<1> QED BY <1>1, <1>3, GatheredSound

\* CAST converts element l of an input of the same shape (transform.rs:480).
LEMMA CastLoads ==
  ASSUME NEW c, c.in \in Seq(Views), c.out \in Seq(Views), CastOK(c), NEW l \in Linears(Dst(c))
  PROVE  Sound(c, CastResult(c)[l])
<1>1. 1 \in DOMAIN c.in /\ AllMetaOK(c) /\ Count(Src(c)) = Count(Dst(c))
  BY SourceAndResult DEF CastOK, Count
<1>2. l \in Linears(Src(c))
  BY <1>1 DEF Linears
<1>. DEFINE source == [m \in Linears(Dst(c)) |-> m]
            moved == Gathered(Src(c), source)
<1>3. l \in DOMAIN source /\ source[l] \in Linears(Src(c)) /\ DOMAIN source = Linears(Dst(c))
  BY <1>2
<1>4. CastResult(c) = IF Src(c).dtype = Dst(c).dtype THEN moved
                      ELSE [m \in DOMAIN moved |->
                              Term("cast", <<SizeOf(Src(c)), SizeOf(Dst(c))>>, moved[m].from)]
  BY DEF CastResult
<1>5. DOMAIN moved = Linears(Dst(c))
  BY DEF Gathered
<1>. HIDE DEF source
<1>6. Sound(c, moved[l])
  BY <1>1, <1>3, GatheredSound
<1>. HIDE DEF moved
<1>7. \/ CastResult(c)[l] = moved[l]
      \/ CastResult(c)[l] = Term("cast", <<SizeOf(Src(c)), SizeOf(Dst(c))>>, moved[l].from)
  BY <1>4, <1>5
<1> QED BY <1>6, <1>7 DEF Sound, Term, Functions

\* A broadcast operand is read at coordinates of its own.
LEMMA BroadcastInside ==
  ASSUME NEW v \in Views, NEW m \in Nat, Rank(v) <= m, NEW shape \in [1 .. m -> Nat],
         NEW oc \in [1 .. m -> Nat], Len(oc) = m,
         \A a \in 1 .. m : oc[a] \in 0 .. shape[a] - 1,
         \A a \in 1 .. Rank(v) : v.shape[a] \in {1, shape[m - Rank(v) + a]}
  PROVE  /\ Broadcast(v, oc) \in [1 .. Rank(v) -> Nat]
         /\ \A a \in 1 .. Rank(v) : Broadcast(v, oc)[a] \in 0 .. v.shape[a] - 1
<1>1. Rank(v) \in Nat /\ Axes(v) = 1 .. Rank(v) /\ v.shape \in [1 .. Rank(v) -> Nat]
  BY ViewFacts
<1>2. Broadcast(v, oc) = [a \in 1 .. Rank(v) |-> IF v.shape[a] = 1 THEN 0 ELSE oc[m - Rank(v) + a]]
  BY <1>1 DEF Broadcast
<1>3. ASSUME NEW a \in 1 .. Rank(v)
      PROVE  (IF v.shape[a] = 1 THEN 0 ELSE oc[m - Rank(v) + a]) \in 0 .. v.shape[a] - 1
  <2>1. PICK n \in Nat : n = Rank(v)
    BY <1>1
  <2>2. n <= m /\ a \in 1 .. n
    BY <2>1
  <2>3. m - n + a \in 1 .. m
    BY ONLY <2>2, m \in Nat, n \in Nat
  <2>4. PICK k \in 1 .. m : k = m - Rank(v) + a
    BY <2>1, <2>3
  <2>5. v.shape[a] \in {1, shape[k]} /\ oc[k] \in 0 .. shape[k] - 1
    BY <2>4
  <2> QED BY <2>4, <2>5
<1> QED BY <1>1, <1>2, <1>3

\* EXPAND: every extent of the input is one, and read at zero, or equal to that
\* of the output it is aligned with (transform.rs:391).
LEMMA ExpandTaken ==
  ASSUME NEW c, c.in \in Seq(Views), c.out \in Seq(Views), ExpandOK(c), NEW l \in Linears(Dst(c))
  PROVE  \E x : /\ Taken(c, ExpandResult(c), l, x)
                /\ x = Broadcast(Src(c), Coordinates(Dst(c).shape, l))
<1>. DEFINE m == Rank(Dst(c))
            n == Rank(Src(c))
            oc == Coordinates(Dst(c).shape, l)
            x == Broadcast(Src(c), oc)
            source == [i \in Linears(Dst(c)) |->
                         RowMajor(Src(c).shape, Broadcast(Src(c), Coordinates(Dst(c).shape, i)))]
<1>1. /\ 1 \in DOMAIN c.in /\ Src(c) \in Views /\ Dst(c) \in Views /\ AllMetaOK(c)
      /\ n \in Nat /\ m \in Nat /\ n <= m /\ Axes(Dst(c)) = 1 .. m
      /\ Dst(c).shape \in [1 .. m -> Nat] /\ Len(Dst(c).shape) = m
      /\ \A a \in Axes(Dst(c)) : AlignedShape(Src(c), m, a) \in {1, Dst(c).shape[a]}
  BY SourceAndResult DEF ExpandOK, OneToOne
<1>2. oc \in [1 .. m -> Nat] /\ \A a \in 1 .. m : oc[a] \in 0 .. Dst(c).shape[a] - 1
  BY <1>1, ElementCoordinates
<1>3. Len(oc) = m
  BY <1>1 DEF Coordinates
<1>4. ASSUME NEW a \in 1 .. n PROVE Src(c).shape[a] \in {1, Dst(c).shape[m - n + a]}
  <2>1. m - n + a \in 1 .. m /\ ~(m - n + a <= m - n) /\ m - n + a - (m - n) = a
    BY <1>1
  <2> QED BY <1>1, <2>1, SMTT(30) DEF AlignedShape
<1>. HIDE DEF oc
<1>5. x \in [1 .. n -> Nat] /\ \A a \in 1 .. n : x[a] \in 0 .. Src(c).shape[a] - 1
  BY <1>1, <1>2, <1>3, <1>4, BroadcastInside
<1>. HIDE DEF x
<1>6. source[l] = RowMajor(Src(c).shape, x) /\ l \in DOMAIN source
  BY DEF x, oc
<1>7. ExpandResult(c) = Gathered(Src(c), source)
  BY DEF ExpandResult
<1>. HIDE DEF source
<1>8. Taken(c, ExpandResult(c), l, x)
  BY <1>5, <1>6, <1>7, GatheredTaken
<1> QED BY <1>8 DEF x, oc

\* So EXPAND reads its input only.
LEMMA ExpandLoads ==
  ASSUME NEW c, c.in \in Seq(Views), c.out \in Seq(Views), ExpandOK(c), NEW l \in Linears(Dst(c))
  PROVE  Sound(c, ExpandResult(c)[l])
<1>1. 1 \in DOMAIN c.in /\ AllMetaOK(c)
  BY SourceAndResult DEF ExpandOK, OneToOne
<1>2. PICK x : Taken(c, ExpandResult(c), l, x)
  BY ExpandTaken
<1> QED BY <1>1, <1>2, TakenSound

\* TILE: the remainders of the coordinates by the extents of the input, none of
\* them zero when the output has an element (transform.rs:440).
LEMMA TileTaken ==
  ASSUME NEW c, c.in \in Seq(Views), c.out \in Seq(Views), TileOK(c), c.attr \in TileAttrs,
         c.attr.rank <= MaxDim => c.attr.rank <= Len(c.attr.repeats),
         NEW l \in Linears(Dst(c))
  PROVE  \E x : /\ Taken(c, TileResult(c), l, x)
                /\ x = [a \in Axes(Src(c)) |-> Coordinates(Dst(c).shape, l)[a] % Src(c).shape[a]]
<1>. DEFINE n == Rank(Src(c))
            oc == Coordinates(Dst(c).shape, l)
            At1(y) == [a \in Axes(Src(c)) |-> y[a] % Src(c).shape[a]]
            x == At1(oc)
            source == [i \in Linears(Dst(c)) |->
                         RowMajor(Src(c).shape, At1(Coordinates(Dst(c).shape, i)))]
<1>1. /\ 1 \in DOMAIN c.in /\ Src(c) \in Views /\ Dst(c) \in Views /\ AllMetaOK(c)
      /\ n \in Nat /\ Rank(Dst(c)) = n /\ Axes(Src(c)) = 1 .. n /\ Src(c).shape \in [1 .. n -> Nat]
      /\ \A a \in 1 .. n : Src(c).shape[a] * c.attr.repeats[a] = Dst(c).shape[a]
      /\ c.attr.rank = n
  BY SourceAndResult DEF TileOK, OneToOne
<1>0. \A a \in 1 .. n : c.attr.repeats[a] \in Int
  <2>1. n <= MaxDim
    BY <1>1, SourceMeta DEF MetaOK
  <2>2. c.attr.repeats \in Seq(U32) /\ n <= Len(c.attr.repeats)
    BY <1>1, <2>1 DEF TileAttrs
  <2>3. \A a \in 1 .. n : c.attr.repeats[a] \in U32
    BY <1>1, <2>2
  <2> QED BY <2>3, AttrAssumption DEF U32
<1>2. oc \in [1 .. n -> Nat] /\ \A a \in 1 .. n : Dst(c).shape[a] >= 1
  BY <1>1, ElementCoordinates
<1>. HIDE DEF oc
<1>3. ASSUME NEW a \in 1 .. n PROVE oc[a] % Src(c).shape[a] \in 0 .. Src(c).shape[a] - 1
  <2>1. Src(c).shape[a] \in Nat /\ Src(c).shape[a] # 0 /\ oc[a] \in Nat
    <3>1. Src(c).shape[a] \in Nat /\ oc[a] \in Nat
      BY <1>1, <1>2
    <3>2. c.attr.repeats[a] \in Int
      BY <1>0
    <3> QED BY <1>1, <1>2, <3>1, <3>2
  <2>2. PICK y \in Nat, e \in Nat \ {0} : y = oc[a] /\ e = Src(c).shape[a]
    BY <2>1
  <2>3. y % e \in 0 .. e - 1
    OBVIOUS
  <2> QED BY <2>2, <2>3
<1>4. x \in [1 .. n -> Nat] /\ \A a \in 1 .. n : x[a] \in 0 .. Src(c).shape[a] - 1
  BY <1>1, <1>3
<1>. HIDE DEF x
<1>6. source[l] = RowMajor(Src(c).shape, x) /\ l \in DOMAIN source
  BY DEF x, oc
<1>7. TileResult(c) = Gathered(Src(c), source)
  BY DEF TileResult
<1>. HIDE DEF source
<1>8. Taken(c, TileResult(c), l, x)
  BY <1>4, <1>6, <1>7, GatheredTaken
<1> QED BY <1>8 DEF x, oc

\* So TILE reads its input only.
LEMMA TileLoads ==
  ASSUME NEW c, c.in \in Seq(Views), c.out \in Seq(Views), TileOK(c), c.attr \in TileAttrs,
         c.attr.rank <= MaxDim => c.attr.rank <= Len(c.attr.repeats),
         NEW l \in Linears(Dst(c))
  PROVE  Sound(c, TileResult(c)[l])
<1>1. 1 \in DOMAIN c.in /\ AllMetaOK(c)
  BY SourceAndResult DEF TileOK, OneToOne
<1>2. PICK x : Taken(c, TileResult(c), l, x)
  BY TileTaken
<1> QED BY <1>1, <1>2, TakenSound

(* --- element by element ------------------------------------------------- *)
\* An operand of an element-wise kernel.
LEMMA OperandInside ==
  ASSUME NEW v \in Views, v.dtype = "F16", MetaOK(v), Count(v) > 0,
         NEW m \in Nat, Rank(v) <= m, NEW shape \in [1 .. m -> Nat],
         NEW oc \in [1 .. m -> Nat], Len(oc) = m,
         \A a \in 1 .. m : oc[a] \in 0 .. shape[a] - 1,
         \A a \in 1 .. Rank(v) : v.shape[a] \in {1, shape[m - Rank(v) + a]}
  PROVE  Operand(v, oc) \in Extent(v, 2)
<1>. DEFINE x == Broadcast(v, oc)
<1>1. x \in [1 .. Rank(v) -> Nat] /\ \A a \in 1 .. Rank(v) : x[a] \in 0 .. v.shape[a] - 1
  BY BroadcastInside
<1>2. v.dtype \in DOMAIN ElementSize /\ SizeOf(v) = 2 /\ Len(v.shape) = Rank(v)
      /\ \A a \in Axes(v) : v.stride[a] % SizeOf(v) = 0
  BY DEF MetaOK, SizeOf, ElementSize, Rank
<1>. HIDE DEF x
<1>3. InShape(v.shape, x)
  BY <1>1, <1>2 DEF InShape
<1>4. /\ Offset(v, x) \in Nat /\ Reach(v)[Rank(v)] \in Nat
      /\ 2 * Offset(v, x) <= Reach(v)[Rank(v)]
  BY <1>1, <1>2, <1>3, OffsetInReach
<1>5. Reach(v)[Rank(v)] + 2 <= v.bytes
  BY <1>2 DEF MetaOK
<1>6. v.data \in Nat /\ v.bytes \in Nat
  BY ViewFacts
<1>7. PICK d \in Nat, b \in Nat, o \in Nat, r \in Nat :
        d = v.data /\ b = v.bytes /\ o = Offset(v, x) /\ r = Reach(v)[Rank(v)]
  BY <1>4, <1>6
<1>8. 2 * o <= r /\ r + 2 <= b
  BY <1>4, <1>5, <1>7
<1>9. d + 2 * o \in d .. d + b - 2
  BY ONLY <1>8, d \in Nat, b \in Nat, o \in Nat, r \in Nat
<1>10. Operand(v, oc) = v.data + 2 * Offset(v, x)
  BY DEF Operand, x
<1> QED BY <1>7, <1>9, <1>10 DEF Extent

\* A tensor with an element has no empty axis.
LEMMA NoEmptyAxis ==
  ASSUME NEW v \in Views, Count(v) > 0
  PROVE  \A a \in 1 .. Rank(v) : v.shape[a] \in Nat /\ v.shape[a] >= 1
<1>1. Rank(v) \in Nat /\ v.shape \in [1 .. Rank(v) -> Nat] /\ Len(v.shape) = Rank(v)
  BY ViewFacts DEF Rank
<1>2. Suffix(v.shape)[0] # 0
  BY <1>1, CountIsSuffix DEF Count
<1> QED BY <1>1, <1>2, PositiveExtents

\* An element of the output faces one of each operand: no operand is empty, and every
\* extent of it is one or that of the output.
LEMMA BinaryBroadcasts ==
  ASSUME NEW c, c.in \in Seq(Views), c.out \in Seq(Views), BinaryOK(c),
         NEW l \in Linears(c.out[1]), NEW w \in {c.in[1], c.in[2]}
  PROVE  /\ w \in Views /\ w.dtype = "F16" /\ MetaOK(w) /\ Count(w) > 0
         /\ Rank(w) \in Nat /\ Rank(w) <= Rank(c.out[1])
         /\ \A a \in 1 .. Rank(w) :
              w.shape[a] \in {1, c.out[1].shape[Rank(c.out[1]) - Rank(w) + a]}
<1>. DEFINE u == c.in[1]
            v == c.in[2]
            o == c.out[1]
            m == Rank(o)
            oc == Coordinates(o.shape, l)
<1>1. Len(c.in) = 2 /\ Len(c.out) = 1 /\ AllF16(c) /\ AllMetaOK(c) /\ PlanOK(u, v, o) /\ ApplyOK(c)
  BY DEF BinaryOK, ExpectIO
<1>2. /\ 1 \in DOMAIN c.in /\ 2 \in DOMAIN c.in /\ 1 \in DOMAIN c.out
      /\ u \in Views /\ v \in Views /\ o \in Views
      /\ u.dtype = "F16" /\ v.dtype = "F16" /\ MetaOK(u) /\ MetaOK(v)
  <2>1. 1 \in DOMAIN c.in /\ 2 \in DOMAIN c.in /\ 1 \in DOMAIN c.out
    BY <1>1
  <2> QED BY <1>1, <2>1 DEF AllF16, AllMetaOK, ViewsOf
<1>3. /\ oc \in [1 .. m -> Nat] /\ \A a \in 1 .. m : oc[a] \in 0 .. o.shape[a] - 1
      /\ l \in Nat /\ Count(o) \in Nat
  BY <1>2, ElementCoordinates
<1>4. Len(oc) = m /\ m \in Nat /\ o.shape \in [1 .. m -> Nat]
  BY <1>2, ViewFacts DEF Coordinates, Rank
<1>5. Count(u) > 0 /\ Count(v) > 0
  BY <1>1, <1>2, <1>3 DEF ApplyOK, Linears
<1>6. /\ Rank(u) \in Nat /\ Rank(v) \in Nat /\ Rank(u) <= m /\ Rank(v) <= m
      /\ \A a \in 1 .. m :
           LET x == AlignedShape(u, m, a)  y == AlignedShape(v, m, a)
           IN (x = y \/ x = 1 \/ y = 1) /\ o.shape[a] = IF x > y THEN x ELSE y
  BY <1>1, <1>2, ViewFacts DEF PlanOK
<1>7. ASSUME NEW x \in {u, v}, NEW a \in 1 .. m
      PROVE  AlignedShape(x, m, a) \in Nat /\ AlignedShape(x, m, a) >= 1
  <2>1. x \in Views /\ Count(x) > 0 /\ Rank(x) \in Nat /\ Rank(x) <= m
    BY <1>2, <1>5, <1>6
  <2>2. CASE a <= m - Rank(x)
    BY <2>2 DEF AlignedShape
  <2>3. CASE ~(a <= m - Rank(x))
    <3>1. a - (m - Rank(x)) \in 1 .. Rank(x)
      BY <1>4, <2>1, <2>3
    <3> QED BY <2>1, <2>3, <3>1, NoEmptyAxis DEF AlignedShape
  <2> QED BY <2>2, <2>3
<1>8. ASSUME NEW a \in 1 .. Rank(w)
      PROVE  w.shape[a] \in {1, o.shape[m - Rank(w) + a]}
  <2>1. Rank(w) \in Nat /\ Rank(w) <= m
    BY <1>6
  <2>2. m - Rank(w) + a \in 1 .. m /\ ~(m - Rank(w) + a <= m - Rank(w))
        /\ m - Rank(w) + a - (m - Rank(w)) = a
    BY <1>4, <2>1
  <2>3. PICK b \in 1 .. m : b = m - Rank(w) + a
    BY <2>2
  <2>4. AlignedShape(w, m, b) = w.shape[a]
    <3>1. ~(b <= m - Rank(w)) /\ b - (m - Rank(w)) = a
      <4>1. PICK q \in Nat, r \in Nat : q = m /\ r = Rank(w)
        BY <1>4, <2>1
      <4>2. b = q - r + a /\ a \in 1 .. r
        BY <2>3, <4>1
      <4>3. ~(b <= q - r) /\ b - (q - r) = a
        BY ONLY <4>2, q \in Nat, r \in Nat
      <4> QED BY <4>1, <4>3
    <3>2. AlignedShape(w, m, b) = IF b <= m - Rank(w) THEN 1 ELSE w.shape[b - (m - Rank(w))]
      BY DEF AlignedShape
    <3> QED BY <3>1, <3>2
  <2>5. PICK x \in Nat, y \in Nat :
          /\ x = AlignedShape(u, m, b) /\ y = AlignedShape(v, m, b) /\ x >= 1 /\ y >= 1
    BY <1>7
  <2>6. (x = y \/ x = 1 \/ y = 1) /\ o.shape[b] = IF x > y THEN x ELSE y
    BY <1>6, <2>5
  <2>7. w.shape[a] \in {x, y}
    BY <2>4, <2>5
  <2>8. w.shape[a] \in {1, o.shape[b]}
    BY <2>5, <2>6, <2>7
  <2> QED BY <2>3, <2>8
<1> QED BY <1>2, <1>5, <1>6, <1>8

\* The binary kernels: BroadcastPlan keeps both operands inside their buffers.
LEMMA BinaryLoads ==
  ASSUME NEW c, c.in \in Seq(Views), c.out \in Seq(Views), BinaryOK(c), c.op \in BinaryOps,
         NEW l \in Linears(c.out[1])
  PROVE  Sound(c, BinaryWrites(c)[l].val)
<1>. DEFINE u == c.in[1]
            v == c.in[2]
            o == c.out[1]
            m == Rank(o)
            oc == Coordinates(o.shape, l)
<1>1. Len(c.in) = 2 /\ Len(c.out) = 1 /\ AllF16(c) /\ AllMetaOK(c) /\ PlanOK(u, v, o) /\ ApplyOK(c)
  BY DEF BinaryOK, ExpectIO
<1>2. /\ 1 \in DOMAIN c.in /\ 2 \in DOMAIN c.in /\ 1 \in DOMAIN c.out
      /\ u \in Views /\ v \in Views /\ o \in Views
      /\ u.dtype = "F16" /\ v.dtype = "F16" /\ MetaOK(u) /\ MetaOK(v)
  <2>1. 1 \in DOMAIN c.in /\ 2 \in DOMAIN c.in /\ 1 \in DOMAIN c.out
    BY <1>1
  <2> QED BY <1>1, <2>1 DEF AllF16, AllMetaOK, ViewsOf
<1>3. /\ oc \in [1 .. m -> Nat] /\ \A a \in 1 .. m : oc[a] \in 0 .. o.shape[a] - 1
      /\ l \in Nat /\ Count(o) \in Nat
  BY <1>2, ElementCoordinates
<1>4. Len(oc) = m /\ m \in Nat /\ o.shape \in [1 .. m -> Nat]
  BY <1>2, ViewFacts DEF Coordinates, Rank
<1>8. ASSUME NEW w \in {u, v}
      PROVE  /\ w \in Views /\ w.dtype = "F16" /\ MetaOK(w) /\ Count(w) > 0
             /\ Rank(w) \in Nat /\ Rank(w) <= m
             /\ \A a \in 1 .. Rank(w) : w.shape[a] \in {1, o.shape[m - Rank(w) + a]}
  BY BinaryBroadcasts
<1>. HIDE DEF oc
<1>9. Operand(u, oc) \in Extent(u, 2) /\ Operand(v, oc) \in Extent(v, 2)
  <2>1. ASSUME NEW w \in {u, v} PROVE Operand(w, oc) \in Extent(w, 2)
    <3>1. w \in Views /\ w.dtype = "F16" /\ MetaOK(w) /\ Count(w) > 0 /\ Rank(w) <= m
      BY <1>8
    <3>2. \A a \in 1 .. Rank(w) : w.shape[a] \in {1, o.shape[m - Rank(w) + a]}
      BY <1>8
    <3>6. PICK r \in Nat : r = m
      BY <1>4
    <3>3. PICK shape \in [1 .. r -> Nat], x \in [1 .. r -> Nat] : shape = o.shape /\ x = oc
      BY <1>3, <1>4, <3>6
    <3>4. /\ Rank(w) <= r /\ Len(x) = r /\ \A a \in 1 .. r : x[a] \in 0 .. shape[a] - 1
          /\ \A a \in 1 .. Rank(w) : w.shape[a] \in {1, shape[r - Rank(w) + a]}
      BY <1>3, <1>4, <3>1, <3>2, <3>3, <3>6
    <3>5. Operand(w, x) \in Extent(w, 2)
      BY ONLY <3>1, <3>4, r \in Nat, shape \in [1 .. r -> Nat], x \in [1 .. r -> Nat], OperandInside
    <3> QED BY <3>3, <3>5
  <2> QED BY <2>1
<1>10. Operand(u, oc) \in Readable(c) /\ Operand(v, oc) \in Readable(c)
  <2>1. SizeOf(u) = 2 /\ SizeOf(v) = 2
    BY <1>2 DEF SizeOf, ElementSize
  <2> QED BY <1>2, <1>9, <2>1 DEF Readable
<1>11. BinaryWrites(c)[l].val = Term(c.op, <<>>, <<Operand(u, oc), Operand(v, oc)>>)
  BY DEF BinaryWrites, oc
<1>12. c.op \in Functions /\ <<Operand(u, oc), Operand(v, oc)>> \in Seq(Readable(c))
  BY <1>10 DEF Functions
<1> QED BY <1>11, <1>12, TermSound

\* The unary kernels go over as many elements as the two buffers both hold.
LEMMA UnaryLoads ==
  ASSUME NEW c, c.in \in Seq(Views), c.out \in Seq(Views), UnaryOK(c), c.op \in UnaryOps,
         NEW i \in 0 .. c.in[1].bytes \div 2 - 1
  PROVE  Sound(c, UnaryWrites(c)[i].val)
<1>1. Len(c.in) = 1 /\ AllF16(c)
  BY DEF UnaryOK, ExpectIO
<1>2. 1 \in DOMAIN c.in /\ c.in[1] \in Views /\ c.in[1].dtype = "F16"
  <2>1. 1 \in DOMAIN c.in
    BY <1>1
  <2> QED BY <1>1, <2>1 DEF AllF16, ViewsOf
<1>3. c.in[1].data \in Nat /\ c.in[1].bytes \in Nat /\ SizeOf(c.in[1]) = 2
  BY <1>2, ViewFacts DEF SizeOf, ElementSize
<1>4. i \in Nat /\ i < c.in[1].bytes \div 2
  BY <1>3
<1>5. c.in[1].data + 2 * i \in Extent(c.in[1], 2)
  BY ONLY <1>3, <1>4, HalfElement DEF Extent
<1>6. c.in[1].data + 2 * i \in Readable(c)
  BY <1>2, <1>3, <1>5 DEF Readable
<1>7. UnaryWrites(c)[i].val = Term(c.op, <<>>, <<c.in[1].data + 2 * i>>)
  BY DEF UnaryWrites
<1>8. c.op \in Functions /\ <<c.in[1].data + 2 * i>> \in Seq(Readable(c))
  BY <1>6 DEF Functions
<1> QED BY <1>7, <1>8, TermSound

(* --- resize ------------------------------------------------------------- *)
\* The members of a set of numbers, in increasing order: every place has one,
\* and every member has a place.
LEMMA InOrderMembers ==
  ASSUME NEW S \in SUBSET Int, IsFiniteSet(S)
  PROVE  /\ Cardinality(S) \in Nat
         /\ InOrder(S) \in [1 .. Cardinality(S) -> S]
         /\ \A x \in S : \E i \in 1 .. Cardinality(S) : InOrder(S)[i] = x
         /\ \A i, j \in 1 .. Cardinality(S) : i < j => InOrder(S)[i] < InOrder(S)[j]
<1>. DEFINE Under(x) == {y \in S : y < x}
            n == Cardinality(S)
            UpTo(x) == {y \in S : y <= x}
<1>1. n \in Nat /\ \E f \in Bijection(S, 0 .. n - 1) : \A x \in S : f[x] = Cardinality(Under(x))
  <2>. DEFINE Before == [x \in S |-> Under(x)]
  <2>1. Before \in [S -> SUBSET S] /\ \A x, y \in S : x \in Before[y] <=> x < y
    OBVIOUS
  <2>2. \A x \in S : Before[x] = Under(x)
    OBVIOUS
  <2>. HIDE DEF Before, Under
  <2>3. \A x, y, z \in S : x \in Before[y] /\ z \in Before[x] => z \in Before[y]
    BY <2>1
  <2>4. \A x, y \in S : x = y \/ x < y \/ y < x
    OBVIOUS
  <2>5. \A x \in S : ~(x < x)
    OBVIOUS
  <2>6. TotalOrder(S, Before)
    BY <2>1, <2>3, <2>4, <2>5 DEF TotalOrder
  <2> QED BY <2>2, <2>6, Ranks
<1>2. PICK f \in Bijection(S, 0 .. n - 1) : \A x \in S : f[x] = Cardinality(Under(x))
  BY <1>1
<1>3. ASSUME NEW x \in S PROVE Cardinality(UpTo(x)) = f[x] + 1 /\ f[x] \in 0 .. n - 1
  <2>1. UpTo(x) = Under(x) \cup {x}
    <3>1. \A y \in S : y <= x <=> y < x \/ y = x
      OBVIOUS
    <3> QED BY <3>1
  <2>2. IsFiniteSet(Under(x)) /\ x \notin Under(x)
    BY FS_Subset
  <2>. HIDE DEF Under, UpTo
  <2>3. Cardinality(Under(x) \cup {x}) = Cardinality(Under(x)) + 1
    BY <2>2, FS_AddElement
  <2>4. f[x] \in 0 .. n - 1
    BY DEF Bijection, Injection
  <2> QED BY <1>2, <2>1, <2>3, <2>4
<1>. HIDE DEF UpTo
<1>4. ASSUME NEW i \in 1 .. n PROVE \E x \in S : Cardinality(UpTo(x)) = i
  <2>1. i - 1 \in 0 .. n - 1
    BY <1>1
  <2>2. PICK x \in S : f[x] = i - 1
    BY <2>1 DEF Bijection, Surjection
  <2> QED BY <1>3, <2>2
<1>5. \A x, y \in S : Cardinality(UpTo(x)) = Cardinality(UpTo(y)) => x = y
  BY <1>3 DEF Bijection, Injection, IsInjective
<1>6. InOrder(S) = [i \in 1 .. n |-> CHOOSE x \in S : Cardinality(UpTo(x)) = i]
  BY DEF InOrder, UpTo
<1>7. InOrder(S) \in [1 .. n -> S]
  BY <1>4, <1>6
<1>8. ASSUME NEW x \in S PROVE \E i \in 1 .. n : InOrder(S)[i] = x
  <2>1. Cardinality(UpTo(x)) \in 1 .. n
    BY <1>1, <1>3
  <2>2. PICK i \in 1 .. n : i = Cardinality(UpTo(x))
    BY <2>1
  <2>3. InOrder(S)[i] = CHOOSE y \in S : Cardinality(UpTo(y)) = i
    BY <1>6
  <2>4. InOrder(S)[i] \in S /\ Cardinality(UpTo(InOrder(S)[i])) = i
    BY <1>4, <2>3
  <2> QED BY <1>5, <2>2, <2>4
<1>9. ASSUME NEW i \in 1 .. n, NEW j \in 1 .. n, i < j PROVE InOrder(S)[i] < InOrder(S)[j]
  <2>1. PICK x \in S, y \in S : /\ x = InOrder(S)[i] /\ Cardinality(UpTo(x)) = i
                               /\ y = InOrder(S)[j] /\ Cardinality(UpTo(y)) = j
    <3>1. ASSUME NEW k \in 1 .. n PROVE InOrder(S)[k] \in S /\ Cardinality(UpTo(InOrder(S)[k])) = k
      <4>1. InOrder(S)[k] = CHOOSE y \in S : Cardinality(UpTo(y)) = k
        BY <1>6
      <4> QED BY <1>4, <4>1
    <3> QED BY <3>1
  <2>2. SUFFICES ASSUME y <= x PROVE FALSE
    BY <2>1
  <2>3. UpTo(y) \subseteq UpTo(x) /\ IsFiniteSet(UpTo(x))
    <3>1. UpTo(x) \subseteq S
      BY DEF UpTo
    <3>2. IsFiniteSet(UpTo(x))
      BY <3>1, FS_Subset
    <3>3. \A z \in S : z <= y => z <= x
      BY <2>2
    <3> QED BY <3>2, <3>3 DEF UpTo
  <2>4. Cardinality(UpTo(y)) <= Cardinality(UpTo(x))
    BY <2>3, FS_Subset
  <2> QED BY <1>9, <2>1, <2>4
<1> QED BY <1>1, <1>7, <1>8, <1>9

\* The linear index NCHW kernels compute for themselves.
LEMMA FourAxes ==
  ASSUME NEW v \in Views, Rank(v) = 4,
         NEW w \in 0 .. v.shape[1] - 1, NEW x \in 0 .. v.shape[2] - 1,
         NEW y \in 0 .. v.shape[3] - 1, NEW z \in 0 .. v.shape[4] - 1
  PROVE  ((w * v.shape[2] + x) * v.shape[3] + y) * v.shape[4] + z \in Linears(v)
<1>1. v.shape \in [1 .. 4 -> Nat] /\ Len(v.shape) = 4
  BY ViewFacts DEF Rank
<1>2. PICK a \in Nat, b \in Nat, d \in Nat, e \in Nat :
        a = v.shape[1] /\ b = v.shape[2] /\ d = v.shape[3] /\ e = v.shape[4]
  BY <1>1
<1>3. PICK p \in Nat : p = w * b + x /\ p \in 0 .. a * b - 1 /\ a * b \in Nat
  <2>1. w \in 0 .. a - 1 /\ x \in 0 .. b - 1
    BY <1>2
  <2>2. w * b + x \in 0 .. a * b - 1
    BY ONLY <2>1, a \in Nat, b \in Nat, RowBound
  <2>3. a * b \in Nat
    OBVIOUS
  <2> QED BY <2>2, <2>3
<1>4. PICK A \in Nat : A = a * b
  BY <1>3
<1>5. PICK q \in Nat : q = p * d + y /\ q \in 0 .. A * d - 1 /\ A * d \in Nat
  <2>1. p \in 0 .. A - 1 /\ y \in 0 .. d - 1
    BY <1>2, <1>3, <1>4
  <2>2. p * d + y \in 0 .. A * d - 1 /\ A * d \in Nat
    BY <2>1, RowBound
  <2> QED BY <2>2
<1>6. PICK B \in Nat : B = A * d
  BY <1>5
<1>7. q * e + z \in 0 .. B * e - 1
  <2>1. q \in 0 .. B - 1 /\ z \in 0 .. e - 1
    BY <1>2, <1>5, <1>6
  <2> QED BY <2>1, RowBound
<1>8. Count(v) = B * e
  <2>1. /\ Prefix(v.shape)[0] = 1
        /\ \A i \in 1 .. 4 : Prefix(v.shape)[i] = Prefix(v.shape)[i-1] * v.shape[i]
    BY <1>1, PrefixFacts
  <2>2. Prefix(v.shape)[1] = 1 * a /\ Prefix(v.shape)[2] = Prefix(v.shape)[1] * b
        /\ Prefix(v.shape)[3] = Prefix(v.shape)[2] * d /\ Prefix(v.shape)[4] = Prefix(v.shape)[3] * e
    <3>1. 1 - 1 = 0 /\ 2 - 1 = 1 /\ 3 - 1 = 2 /\ 4 - 1 = 3
      OBVIOUS
    <3>2. 1 \in 1 .. 4 /\ 2 \in 1 .. 4 /\ 3 \in 1 .. 4 /\ 4 \in 1 .. 4
      OBVIOUS
    <3> QED BY <1>2, <2>1, <3>1, <3>2
  <2>3. 1 * a = a
    OBVIOUS
  <2> QED BY <1>1, <1>4, <1>6, <2>2, <2>3 DEF Count, Product
<1>9. ((w * v.shape[2] + x) * v.shape[3] + y) * v.shape[4] + z = q * e + z
  BY <1>2, <1>3, <1>5
<1> QED BY <1>7, <1>8, <1>9 DEF Linears

\* The fraction a cell of the output lies at.
LEMMA SourceCoordinateTyped ==
  ASSUME NEW c, NEW i \in Nat, NEW input \in Nat, NEW output \in Nat, output >= 1
  PROVE  \E n \in Int, d \in Nat \ {0} : SourceCoordinate(c, i, input, output) = <<n, d>>
<1>1. (2 * i + 1) * input - output \in Int /\ 2 * output \in Nat \ {0}
  OBVIOUS
<1>2. i * input \in Int
  OBVIOUS
<1>3. output > 1 => i * (input - 1) \in Int /\ output - 1 \in Nat \ {0}
  OBVIOUS
<1> QED BY <1>1, <1>2, <1>3 DEF SourceCoordinate

\* The nearest cell and the two neighbours are cells of the input.
LEMMA NearestInside ==
  ASSUME NEW c, NEW n \in Int, NEW d \in Nat \ {0}, NEW input \in Nat, input >= 1
  PROVE  Nearest(c, <<n, d>>, input) \in 0 .. input - 1
<1>1. ASSUME NEW x \in Int PROVE Clamp(x, input - 1) \in 0 .. input - 1
  BY DEF Clamp
<1>2. Ceil(<<2 * n - d, 2 * d>>) \in Int
  <2>0. 2 * n - d \in Int /\ 2 * d \in Nat \ {0}
    OBVIOUS
  <2>1. PICK x \in Int, y \in Nat \ {0} : x = 2 * n - d /\ y = 2 * d
    BY <2>0
  <2>2. -((-x) \div y) \in Int
    OBVIOUS
  <2>3. <<2 * n - d, 2 * d>>[1] = x /\ <<2 * n - d, 2 * d>>[2] = y
    BY <2>1
  <2> QED BY <2>2, <2>3 DEF Ceil
<1>3. Floor(<<n, d>>) \in Int /\ Ceil(<<n, d>>) \in Int
  <2>1. n \div d \in Int /\ -((-n) \div d) \in Int
    OBVIOUS
  <2> QED BY <2>1 DEF Floor, Ceil
<1>4. <<n, d>>[1] = n /\ <<n, d>>[2] = d
  OBVIOUS
<1> QED BY <1>1, <1>2, <1>3, <1>4 DEF Nearest

\* RESIZE, linear: both neighbours of a position clamped to the axis are on it.
LEMMA NeighboursInside ==
  ASSUME NEW n \in Int, NEW d \in Nat \ {0}, NEW input \in Nat, input >= 1
  PROVE  /\ Neighbours(<<n, d>>, input).lo \in 0 .. input - 1
         /\ Neighbours(<<n, d>>, input).hi \in 0 .. input - 1
<1>. DEFINE p == IF n < 0 THEN <<0, d>>
                 ELSE IF n > (input - 1) * d THEN <<(input - 1) * d, d>> ELSE <<n, d>>
<1>1. PICK m \in Nat : m = input - 1
  OBVIOUS
<1>2. \E x \in Nat : p = <<x, d>> /\ x <= m * d
  <2>1. m * d \in Nat
    OBVIOUS
  <2>2. PICK y \in Nat : y = m * d
    BY <2>1
  <2>3. p = IF n < 0 THEN <<0, d>> ELSE IF n > y THEN <<y, d>> ELSE <<n, d>>
    BY <1>1, <2>2
  <2>. HIDE DEF p
  <2>4. CASE n < 0
    BY <2>2, <2>3, <2>4
  <2>5. CASE ~(n < 0) /\ n > y
    BY <2>2, <2>3, <2>5
  <2>6. CASE ~(n < 0) /\ ~(n > y)
    BY <2>2, <2>3, <2>6
  <2> QED BY <2>4, <2>5, <2>6
<1>3. Neighbours(<<n, d>>, input).lo = Floor(p)
      /\ Neighbours(<<n, d>>, input).hi = Clamp(Floor(p) + 1, input - 1)
  BY DEF Neighbours
<1>. HIDE DEF p
<1>4. Floor(p) \in 0 .. m
  <2>1. PICK x \in Nat : p = <<x, d>> /\ x <= m * d
    BY <1>2
  <2>2. x \div d \in 0 .. m
    BY <2>1, QuotientBelow
  <2> QED BY <2>1, <2>2 DEF Floor
<1>5. Clamp(Floor(p) + 1, input - 1) \in 0 .. input - 1
  BY <1>1, <1>4 DEF Clamp
<1> QED BY <1>1, <1>3, <1>4, <1>5

\* A position between pixels.
IsFraction(q) == \E n \in Int, d \in Nat \ {0} : q = <<n, d>>

\* RESIZE: the shapes, the coordinates of an element of the output and the fractions
\* of the input it lies at.
LEMMA ResizeFacts ==
  ASSUME NEW c, c.in \in Seq(Views), c.out \in Seq(Views), ResizeOK(c), ~ResizePanics(c),
         NEW l \in Linears(Dst(c)), NEW oc, oc = Coordinates(Dst(c).shape, l)
  PROVE  /\ 1 \in DOMAIN c.in /\ Src(c) \in Views /\ Dst(c) \in Views /\ AllMetaOK(c)
         /\ Rank(Src(c)) = 4 /\ Rank(Dst(c)) = 4 /\ Src(c) = c.in[1]
         /\ oc \in [1 .. 4 -> Nat] /\ \A a \in 1 .. 4 : oc[a] \in 0 .. Dst(c).shape[a] - 1
         /\ \A a \in 1 .. 4 : /\ Src(c).shape[a] \in Nat /\ Src(c).shape[a] >= 1
                            /\ Dst(c).shape[a] \in Nat /\ Dst(c).shape[a] >= 1
         /\ oc[1] \in 0 .. Src(c).shape[1] - 1 /\ oc[2] \in 0 .. Src(c).shape[2] - 1
         /\ IsFraction(SourceCoordinate(c, oc[3], Src(c).shape[3], Dst(c).shape[3]))
         /\ IsFraction(SourceCoordinate(c, oc[4], Src(c).shape[4], Dst(c).shape[4]))
<1>. DEFINE is == Src(c).shape
            os == Dst(c).shape
            qy == SourceCoordinate(c, oc[3], is[3], os[3])
            qx == SourceCoordinate(c, oc[4], is[4], os[4])
<1>1. /\ 1 \in DOMAIN c.in /\ Src(c) \in Views /\ Dst(c) \in Views /\ AllMetaOK(c)
      /\ Rank(Src(c)) = 4 /\ Rank(Dst(c)) = 4 /\ Src(c) = c.in[1]
      /\ is[1] = os[1] /\ is[2] = os[2]
  BY SourceAndResult, SMTT(30) DEF ResizeOK, OneToOne
<1>2. /\ oc \in [1 .. 4 -> Nat] /\ \A a \in 1 .. 4 : oc[a] \in 0 .. os[a] - 1
      /\ \A a \in 1 .. 4 : os[a] \in Nat /\ os[a] >= 1
      /\ Count(Dst(c)) > 0
  <2>1. /\ oc \in [1 .. Rank(Dst(c)) -> Nat]
        /\ \A a \in 1 .. Rank(Dst(c)) : os[a] \in Nat /\ os[a] >= 1
        /\ \A a \in 1 .. Rank(Dst(c)) : oc[a] \in 0 .. os[a] - 1
        /\ l \in Nat /\ Count(Dst(c)) \in Nat
    BY <1>1, ElementCoordinates
  <2>2. Count(Dst(c)) > 0
    BY <2>1 DEF Linears
  <2> QED BY <1>1, <2>1, <2>2
<1>3. \A a \in 1 .. 4 : is[a] \in Nat /\ is[a] >= 1
  <2>1. Count(Src(c)) \in Nat /\ Count(Src(c)) # 0
    <3>1. ~Starved(c)
      BY DEF ResizeOK, ResizePanics
    <3>2. Count(Src(c)) \in Nat
      BY <1>1, ViewFacts, CountIsSuffix DEF Count, Rank
    <3> QED BY <1>2, <3>1, <3>2 DEF Starved
  <2> QED BY <1>1, <2>1, NoEmptyAxis
<1>4. /\ oc[1] \in 0 .. is[1] - 1 /\ oc[2] \in 0 .. is[2] - 1
      /\ oc[3] \in Nat /\ oc[4] \in Nat
      /\ is[3] \in Nat /\ is[3] >= 1 /\ is[4] \in Nat /\ is[4] >= 1
      /\ os[3] \in Nat /\ os[3] >= 1 /\ os[4] \in Nat /\ os[4] >= 1
  BY <1>1, <1>2, <1>3, SMTT(30)
<1>5. IsFraction(qy)
  <2>1. PICK i \in Nat, a \in Nat, b \in Nat : i = oc[3] /\ a = is[3] /\ b = os[3] /\ b >= 1
    BY <1>4
  <2>2. \E n \in Int, d \in Nat \ {0} : SourceCoordinate(c, i, a, b) = <<n, d>>
    BY ONLY <2>1, i \in Nat, a \in Nat, b \in Nat, SourceCoordinateTyped
  <2> QED BY <2>1, <2>2 DEF IsFraction
<1>6. IsFraction(qx)
  <2>1. PICK i \in Nat, a \in Nat, b \in Nat : i = oc[4] /\ a = is[4] /\ b = os[4] /\ b >= 1
    BY <1>4
  <2>2. \E n \in Int, d \in Nat \ {0} : SourceCoordinate(c, i, a, b) = <<n, d>>
    BY ONLY <2>1, i \in Nat, a \in Nat, b \in Nat, SourceCoordinateTyped
  <2> QED BY <2>1, <2>2 DEF IsFraction
<1> QED BY <1>1, <1>2, <1>3, <1>4, <1>5, <1>6

\* RESIZE, nearest and linear: unless an empty input is asked for pixels, every
\* pixel the rounding or the interpolation names exists (transform.rs:520).
LEMMA ResizeLoads ==
  ASSUME NEW c, c.in \in Seq(Views), c.out \in Seq(Views), ResizeOK(c), ~ResizePanics(c),
         NEW l \in Linears(Dst(c))
  PROVE  Sound(c, ResizeResult(c)[l])
<1>. DEFINE is == Src(c).shape
            os == Dst(c).shape
            oc == Coordinates(os, l)
            qy == SourceCoordinate(c, oc[3], is[3], os[3])
            qx == SourceCoordinate(c, oc[4], is[4], os[4])
            ny == Neighbours(qy, is[3])
            nx == Neighbours(qx, is[4])
            At4(y, x) == LogicalAddr(Src(c))[((oc[1] * is[2] + oc[2]) * is[3] + y) * is[4] + x]
<1>1. /\ 1 \in DOMAIN c.in /\ Src(c) \in Views /\ Dst(c) \in Views /\ AllMetaOK(c)
      /\ Rank(Src(c)) = 4 /\ Rank(Dst(c)) = 4 /\ Src(c) = c.in[1]
      /\ \A a \in 1 .. 4 : /\ is[a] \in Nat /\ is[a] >= 1 /\ os[a] \in Nat /\ os[a] >= 1
      /\ oc[1] \in 0 .. is[1] - 1 /\ oc[2] \in 0 .. is[2] - 1
      /\ IsFraction(qy) /\ IsFraction(qx)
  BY ResizeFacts
<1>. HIDE DEF oc
<1>4. /\ is[3] \in Nat /\ is[3] >= 1 /\ is[4] \in Nat /\ is[4] >= 1
  BY <1>1
<1>5. ASSUME NEW y \in 0 .. is[3] - 1, NEW x \in 0 .. is[4] - 1
      PROVE  At4(y, x) \in Readable(c)
  <2>1. ((oc[1] * is[2] + oc[2]) * is[3] + y) * is[4] + x \in Linears(Src(c))
    BY <1>1, FourAxes
  <2> QED BY <1>1, <2>1, ElementInside
<1>6. PICK ny1 \in Int, dy \in Nat \ {0} : qy = <<ny1, dy>>
  BY <1>1 DEF IsFraction
<1>7. PICK nx1 \in Int, dx \in Nat \ {0} : qx = <<nx1, dx>>
  BY <1>1 DEF IsFraction
<1>. HIDE DEF qy, qx
<1>8. /\ Nearest(c, qy, is[3]) \in 0 .. is[3] - 1 /\ Nearest(c, qx, is[4]) \in 0 .. is[4] - 1
  BY <1>4, <1>6, <1>7, NearestInside
<1>9. /\ ny.lo \in 0 .. is[3] - 1 /\ ny.hi \in 0 .. is[3] - 1
      /\ nx.lo \in 0 .. is[4] - 1 /\ nx.hi \in 0 .. is[4] - 1
  BY <1>4, <1>6, <1>7, NeighboursInside
<1>10. ResizeResult(c)[l] =
         IF c.attr.mode = 0 THEN Moved(At4(Nearest(c, qy, is[3]), Nearest(c, qx, is[4])))
         ELSE Term("lerp", ny.w \o nx.w,
                   << At4(ny.lo, nx.lo), At4(ny.lo, nx.hi), At4(ny.hi, nx.lo), At4(ny.hi, nx.hi) >>)
  BY DEF ResizeResult, qy, qx, oc
<1>11. CASE c.attr.mode = 0
  <2>1. At4(Nearest(c, qy, is[3]), Nearest(c, qx, is[4])) \in Readable(c)
    BY <1>5, <1>8
  <2> QED BY <1>10, <1>11, <2>1, MovedSound
<1>12. CASE c.attr.mode # 0
  <2>1. << At4(ny.lo, nx.lo), At4(ny.lo, nx.hi), At4(ny.hi, nx.lo), At4(ny.hi, nx.hi) >>
          \in Seq(Readable(c))
    <3>1. /\ At4(ny.lo, nx.lo) \in Readable(c) /\ At4(ny.lo, nx.hi) \in Readable(c)
          /\ At4(ny.hi, nx.lo) \in Readable(c) /\ At4(ny.hi, nx.hi) \in Readable(c)
      BY <1>5, <1>9
    <3>. HIDE DEF At4
    <3> QED BY <3>1
  <2>2. "lerp" \in Functions
    BY DEF Functions
  <2> QED BY <1>10, <1>12, <2>1, <2>2, TermSound
<1> QED BY <1>11, <1>12

(* --- transpose and gather ----------------------------------------------- *)
\* An axis attribute that was checked names an axis.
LEMMA AxisInside ==
  ASSUME NEW axis, NEW n \in Nat, AxisOK(axis, n)
  PROVE  NormalizeAxis(axis, n) + 1 \in 1 .. n
BY DEF AxisOK

\* TRANSPOSE: the inverse permutation of the output coordinates fits the input.
LEMMA TransposeTaken ==
  ASSUME NEW c, c.in \in Seq(Views), c.out \in Seq(Views), TransposeOK(c), NEW l \in Linears(Dst(c))
  PROVE  \E x : /\ Taken(c, TransposeResult(c), l, x)
                /\ \A a \in 1 .. Rank(Src(c)) :
                     /\ PermAxis(c, a) \in 1 .. Rank(Src(c))
                     /\ x[PermAxis(c, a)] = Coordinates(Dst(c).shape, l)[a]
                /\ \A b \in 1 .. Rank(Src(c)) : \E a \in 1 .. Rank(Src(c)) : PermAxis(c, a) = b
<1>. DEFINE n == Rank(Src(c))
            P == [a \in 1 .. n |-> PermAxis(c, a)]
            oc == Coordinates(Dst(c).shape, l)
            At1(y) == [b \in Axes(Src(c)) |-> y[CHOOSE a \in Axes(Dst(c)) : PermAxis(c, a) = b]]
            x == At1(oc)
            source == [i \in Linears(Dst(c)) |->
                         RowMajor(Src(c).shape, At1(Coordinates(Dst(c).shape, i)))]
<1>1. /\ 1 \in DOMAIN c.in /\ Src(c) \in Views /\ Dst(c) \in Views /\ AllMetaOK(c)
      /\ n \in Nat /\ Rank(Dst(c)) = n /\ Axes(Src(c)) = 1 .. n /\ Axes(Dst(c)) = 1 .. n
  BY SourceAndResult DEF TransposeOK, OneToOne
<1>2. ASSUME NEW a \in 1 .. n
      PROVE  /\ PermAxis(c, a) \in 1 .. n /\ Dst(c).shape[a] = Src(c).shape[PermAxis(c, a)]
             /\ \A b \in 1 .. a - 1 : PermAxis(c, b) # PermAxis(c, a)
  BY <1>1, AxisInside DEF TransposeOK, PermAxis
<1>3. P \in Injection(1 .. n, 1 .. n)
  <2>1. P \in [1 .. n -> 1 .. n]
    BY <1>2
  <2>2. ASSUME NEW a \in 1 .. n, NEW b \in 1 .. n, PermAxis(c, a) = PermAxis(c, b) PROVE a = b
    <3>1. CASE a < b
      <4>1. a \in 1 .. b - 1
        BY <3>1
      <4> QED BY <1>2, <2>2, <4>1
    <3>2. CASE b < a
      <4>1. b \in 1 .. a - 1
        BY <3>2
      <4> QED BY <1>2, <2>2, <4>1
    <3> QED BY <3>1, <3>2
  <2> QED BY <2>1, <2>2 DEF Injection, IsInjective
<1>4. \A b \in 1 .. n : \E a \in 1 .. n : PermAxis(c, a) = b
  <2>1. IsFiniteSet(1 .. n)
    <3>1. PICK m \in Nat : m = n
      BY <1>1
    <3>2. IsFiniteSet(1 .. m)
      BY FS_Interval
    <3> QED BY <3>1, <3>2
  <2>. HIDE DEF P
  <2>2. P \in Surjection(1 .. n, 1 .. n)
    BY <1>3, <2>1, FS_Injection
  <2> QED BY <2>2 DEF Surjection, P
<1>5. oc \in [1 .. n -> Nat] /\ \A a \in 1 .. n : oc[a] \in 0 .. Dst(c).shape[a] - 1
  BY <1>1, ElementCoordinates
<1>. HIDE DEF oc
<1>6. ASSUME NEW b \in 1 .. n
      PROVE  oc[CHOOSE a \in 1 .. n : PermAxis(c, a) = b] \in 0 .. Src(c).shape[b] - 1
  <2>1. PICK a \in 1 .. n : a = CHOOSE h \in 1 .. n : PermAxis(c, h) = b
    BY <1>4
  <2>2. PermAxis(c, a) = b
    BY <1>4, <2>1
  <2> QED BY <1>2, <1>5, <2>1, <2>2
<1>7. x \in [1 .. n -> Nat] /\ \A a \in 1 .. n : x[a] \in 0 .. Src(c).shape[a] - 1
  <2>1. x = [b \in 1 .. n |-> oc[CHOOSE a \in 1 .. n : PermAxis(c, a) = b]]
    BY <1>1
  <2>2. ASSUME NEW b \in 1 .. n
        PROVE  oc[CHOOSE a \in 1 .. n : PermAxis(c, a) = b] \in Nat
    BY <1>6
  <2>. HIDE DEF x
  <2>3. x \in [1 .. n -> Nat]
    BY <2>1, <2>2
  <2>4. \A b \in 1 .. n : x[b] = oc[CHOOSE a \in 1 .. n : PermAxis(c, a) = b]
    BY <2>1
  <2> QED BY <1>6, <2>3, <2>4
<1>10. ASSUME NEW a \in 1 .. n PROVE x[PermAxis(c, a)] = oc[a]
  <2>1. PICK b \in 1 .. n : b = PermAxis(c, a)
    BY <1>2
  <2>2. PICK h \in 1 .. n : h = CHOOSE i \in 1 .. n : PermAxis(c, i) = b
    BY <1>4
  <2>3. PermAxis(c, h) = b
    BY <1>4, <2>2
  <2>4. h = a
    BY <1>3, <2>1, <2>3 DEF Injection, IsInjective
  <2> QED BY <1>1, <2>1, <2>2, <2>4
<1>. HIDE DEF x
<1>8. source[l] = RowMajor(Src(c).shape, x) /\ l \in DOMAIN source
  BY DEF x, oc
<1>9. TransposeResult(c) = Gathered(Src(c), source)
  BY DEF TransposeResult
<1>. HIDE DEF source
<1>11. Taken(c, TransposeResult(c), l, x)
  BY <1>7, <1>8, <1>9, GatheredTaken
<1> QED BY <1>2, <1>4, <1>10, <1>11 DEF oc

\* So TRANSPOSE reads its input only.
LEMMA TransposeLoads ==
  ASSUME NEW c, c.in \in Seq(Views), c.out \in Seq(Views), TransposeOK(c), NEW l \in Linears(Dst(c))
  PROVE  Sound(c, TransposeResult(c)[l])
<1>1. 1 \in DOMAIN c.in /\ AllMetaOK(c)
  BY SourceAndResult DEF TransposeOK, OneToOne
<1>2. PICK x : Taken(c, TransposeResult(c), l, x)
  BY TransposeTaken
<1> QED BY <1>1, <1>2, TakenSound

\* GATHER_ELEMENTS: an index in range replaces one coordinate of the output.
LEMMA GatherElementsTaken ==
  ASSUME NEW c, c.in \in Seq(Views), c.out \in Seq(Views), GatherElementsOK(c),
         NEW l \in Linears(Dst(c))
  PROVE  \E x : /\ Taken(c, GatherElementsResult(c), l, x)
                /\ x = [Coordinates(Dst(c).shape, l) EXCEPT
                       ![AxisOf(c, Src(c))] = NormalizeIndex(Indices(c, c.in[2])[l],
                                                             Src(c).shape[AxisOf(c, Src(c))])]
<1>. DEFINE n == Rank(Src(c))
            axis == AxisOf(c, Src(c))
            index == Indices(c, c.in[2])
            At1(i) == [Coordinates(Dst(c).shape, i) EXCEPT
                         ![axis] = NormalizeIndex(index[i], Src(c).shape[axis])]
            oc == Coordinates(Dst(c).shape, l)
            x == At1(l)
            source == [i \in Linears(Dst(c)) |-> RowMajor(Src(c).shape, At1(i))]
<1>1. /\ 1 \in DOMAIN c.in /\ Src(c) \in Views /\ Dst(c) \in Views /\ AllMetaOK(c)
      /\ n \in Nat /\ Rank(Dst(c)) = n /\ Axes(Src(c)) = 1 .. n
      /\ Dst(c).shape \in [1 .. n -> Nat] /\ Src(c).shape \in [1 .. n -> Nat]
  <2>1. ExpectIO(c, {2}, {1}) /\ AllMetaOK(c) /\ n = Rank(c.in[2]) /\ Dst(c).shape = c.in[2].shape
    BY DEF GatherElementsOK, GatherIO
  <2>2. {1} \subseteq Nat \ {0} /\ {2} \subseteq Nat \ {0}
    OBVIOUS
  <2>3. Rank(Dst(c)) = n
    BY <2>1 DEF Rank
  <2> QED BY <2>1, <2>2, <2>3, SourceAndResult
<1>2. axis \in 1 .. n
  BY <1>1, AxisInside DEF GatherElementsOK, AxisOf
<1>3. \A a \in 1 .. n \ {axis} : Dst(c).shape[a] <= Src(c).shape[a]
  BY <1>1 DEF GatherElementsOK
<1>4. NormalizeIndex(index[l], Src(c).shape[axis]) \in 0 .. Src(c).shape[axis] - 1
  BY DEF GatherElementsOK, IndexOK
<1>5. oc \in [1 .. n -> Nat] /\ \A a \in 1 .. n : oc[a] \in 0 .. Dst(c).shape[a] - 1
  BY <1>1, ElementCoordinates
<1>6. x = [oc EXCEPT ![axis] = NormalizeIndex(index[l], Src(c).shape[axis])]
  OBVIOUS
<1>. HIDE DEF oc, x, axis, index
<1>7. x \in [1 .. n -> Nat] /\ \A a \in 1 .. n : x[a] \in 0 .. Src(c).shape[a] - 1
  <2>1. x \in [1 .. n -> Nat]
    BY <1>2, <1>4, <1>5, <1>6
  <2>2. ASSUME NEW a \in 1 .. n PROVE x[a] \in 0 .. Src(c).shape[a] - 1
    <3>1. CASE a = axis
      BY <1>2, <1>4, <1>5, <1>6, <3>1
    <3>2. CASE a # axis
      <4>1. x[a] = oc[a] /\ oc[a] \in 0 .. Dst(c).shape[a] - 1 /\ Dst(c).shape[a] <= Src(c).shape[a]
            /\ Dst(c).shape[a] \in Nat /\ Src(c).shape[a] \in Nat
        BY <1>1, <1>3, <1>5, <1>6, <3>2
      <4> QED BY <4>1
    <3> QED BY <3>1, <3>2
  <2> QED BY <2>1, <2>2
<1>8. source[l] = RowMajor(Src(c).shape, x) /\ l \in DOMAIN source
  BY DEF x, axis, index
<1>9. GatherElementsResult(c) = Gathered(Src(c), source)
  BY DEF GatherElementsResult, axis, index
<1>. HIDE DEF source
<1>10. Taken(c, GatherElementsResult(c), l, x)
  BY <1>7, <1>8, <1>9, GatheredTaken
<1> QED BY <1>10 DEF x, oc, axis, index

\* So GATHER_ELEMENTS takes its elements from input 1 only.
LEMMA GatherElementsLoads ==
  ASSUME NEW c, c.in \in Seq(Views), c.out \in Seq(Views), GatherElementsOK(c),
         NEW l \in Linears(Dst(c))
  PROVE  Sound(c, GatherElementsResult(c)[l])
<1>1. 1 \in DOMAIN c.in /\ AllMetaOK(c)
  <2>1. ExpectIO(c, {2}, {1}) /\ AllMetaOK(c)
    BY DEF GatherElementsOK, GatherIO
  <2>2. {1} \subseteq Nat \ {0} /\ {2} \subseteq Nat \ {0}
    OBVIOUS
  <2> QED BY <2>1, <2>2, SourceAndResult
<1>2. PICK x : Taken(c, GatherElementsResult(c), l, x)
  BY GatherElementsTaken
<1> QED BY <1>1, <1>2, TakenSound

\* The shape of the output of GATHER: that of the indices in the place of the axis.
Spliced(s, axis, t) == SubSeq(s, 1, axis - 1) \o t \o SubSeq(s, axis + 1, Len(s))
\* The pieces of the shape of the output of GATHER are where they were put.
LEMMA GatherShape ==
  ASSUME NEW s \in Seq(Nat), NEW t \in Seq(Nat), NEW axis \in 1 .. Len(s)
  PROVE  /\ Len(Spliced(s, axis, t)) = Len(s) + Len(t) - 1
         /\ \A a \in 1 .. axis - 1 : Spliced(s, axis, t)[a] = s[a]
         /\ \A i \in 1 .. Len(t) : Spliced(s, axis, t)[axis + i - 1] = t[i]
         /\ \A a \in axis + 1 .. Len(s) : Spliced(s, axis, t)[a + Len(t) - 1] = s[a]
<1>. DEFINE r == Spliced(s, axis, t)
            u == SubSeq(s, 1, axis - 1)
            w == SubSeq(s, axis + 1, Len(s))
<1>1. PICK n \in Nat, q \in Nat, b \in Nat : n = Len(s) /\ q = Len(t) /\ b = axis /\ b >= 1 /\ b <= n
  OBVIOUS
<1>2. /\ u \in Seq(Nat) /\ Len(u) = b - 1 /\ \A i \in 1 .. b - 1 : u[i] = s[i]
  <2>1. \A i \in 1 .. b - 1 : s[i] \in Nat
    BY <1>1
  <2>2. /\ SubSeq(s, 1, b - 1) \in Seq(Nat)
        /\ Len(SubSeq(s, 1, b - 1)) = IF 1 <= b - 1 THEN b - 1 - 1 + 1 ELSE 0
        /\ \A i \in 1 .. b - 1 - 1 + 1 : SubSeq(s, 1, b - 1)[i] = s[1 + i - 1]
    <3>1. b - 1 \in Int
      OBVIOUS
    <3> QED BY <2>1, <3>1, SubSeqProperties, SMTT(30)
  <2> QED BY <1>1, <2>2
<1>3. /\ w \in Seq(Nat) /\ Len(w) = n - b /\ \A i \in 1 .. n - b : w[i] = s[b + i]
  <2>1. \A i \in b + 1 .. n : s[i] \in Nat
    BY <1>1
  <2>2. /\ SubSeq(s, b + 1, n) \in Seq(Nat)
        /\ Len(SubSeq(s, b + 1, n)) = IF b + 1 <= n THEN n - (b + 1) + 1 ELSE 0
        /\ \A i \in 1 .. n - (b + 1) + 1 : SubSeq(s, b + 1, n)[i] = s[b + 1 + i - 1]
    <3>1. b + 1 \in Int
      OBVIOUS
    <3> QED BY <2>1, <3>1, SubSeqProperties
  <2>3. n - (b + 1) + 1 = n - b /\ (b + 1 <= n \/ n - b = 0)
    BY <1>1
  <2>4. \A i \in 1 .. n - b : b + 1 + i - 1 = b + i
    OBVIOUS
  <2> QED BY <1>1, <2>2, <2>3, <2>4
<1>. HIDE DEF u, w
<1>4. r = u \o t \o w
  BY DEF u, w, Spliced
<1>. HIDE DEF r
<1>0. b - 1 \in Nat /\ n - b \in Nat
  BY ONLY <1>1, n \in Nat, b \in Nat
<1>5. PICK e \in Nat, d \in Nat : e = b - 1 /\ d = n - b
  BY ONLY <1>0
<1>6. /\ Len(r) = e + q + d
      /\ \A i \in 1 .. e : r[i] = u[i]
      /\ \A i \in 1 .. q : r[e + i] = t[i]
      /\ \A i \in 1 .. d : r[e + q + i] = w[i]
  <2>1. Len(u) = e /\ Len(w) = d /\ Len(t) = q
    BY <1>1, <1>2, <1>3, <1>5
  <2>2. r \in Seq(Nat) /\ Len(r) = e + q + d
        /\ (\A i \in 1 .. e : r[i] = u[i])
        /\ (\A i \in 1 .. q : r[e + i] = t[i])
        /\ \A i \in 1 .. d : r[e + q + i] = w[i]
    <3>1. /\ u \o t \o w \in Seq(Nat) /\ Len(u \o t \o w) = Len(u) + Len(t) + Len(w)
          /\ \A i \in 1 .. Len(u) : (u \o t \o w)[i] = u[i]
          /\ \A i \in 1 .. Len(t) : (u \o t \o w)[Len(u) + i] = t[i]
          /\ \A i \in 1 .. Len(w) : (u \o t \o w)[Len(u) + Len(t) + i] = w[i]
      <4>1. PICK f \in Seq(Nat), g \in Seq(Nat) : f = u /\ g = w
        BY <1>2, <1>3
      <4>2. /\ f \o t \o g \in Seq(Nat) /\ Len(f \o t \o g) = Len(f) + Len(t) + Len(g)
            /\ \A i \in 1 .. Len(f) : (f \o t \o g)[i] = f[i]
            /\ \A i \in 1 .. Len(t) : (f \o t \o g)[Len(f) + i] = t[i]
            /\ \A i \in 1 .. Len(g) : (f \o t \o g)[Len(f) + Len(t) + i] = g[i]
        BY ONLY f \in Seq(Nat), g \in Seq(Nat), t \in Seq(Nat), ThreeParts
      <4> QED BY <4>1, <4>2, Zenon
    <3> QED BY ONLY <3>1, <1>4, <2>1, Zenon
  <2> QED BY <2>2
<1>7. ASSUME NEW a \in b + 1 .. n PROVE r[a + q - 1] = s[a]
  <2>1. PICK i \in 1 .. d : i = a - b
    BY <1>5
  <2>2. e + q + i = a + q - 1 /\ b + i = a /\ i \in 1 .. n - b
    BY <1>5, <2>1
  <2> QED BY <1>3, <1>6, <2>2
<1>8. Len(r) = n + q - 1
  <2>1. e + q + d = n + q - 1
    BY ONLY <1>5, n \in Nat, b \in Nat, q \in Nat, e \in Nat, d \in Nat
  <2> QED BY ONLY <1>6, <2>1
<1>9. \A a \in 1 .. b - 1 : r[a] = s[a]
  BY <1>2, <1>5, <1>6
<1>10. ASSUME NEW i \in 1 .. q PROVE r[b + i - 1] = t[i]
  <2>1. e + i = b + i - 1
    BY <1>5
  <2> QED BY <1>6, <2>1
<1> QED BY <1>1, <1>7, <1>8, <1>9, <1>10 DEF r

\* Element l of the result of GATHER is element x of the input.
GatherPlace(c, l, x) ==
  LET axis == AxisOf(c, Src(c))
      q == Rank(c.in[2])
      y == Coordinates(Dst(c).shape, l)
  IN /\ Taken(c, GatherResult(c), l, x)
     /\ \A a \in 1 .. axis - 1 : x[a] = y[a]
     /\ x[axis] = NormalizeIndex(Selected(c, Indices(c, c.in[2]), y), Src(c).shape[axis])
     /\ \A a \in axis + 1 .. Rank(Src(c)) : x[a] = y[a + q - 1]

\* GATHER: the coordinates around the indices and the index they lead to, taken
\* for the axis, name an element of the input.
LEMMA GatherTaken ==
  ASSUME NEW c, c.in \in Seq(Views), c.out \in Seq(Views), GatherOK(c), NEW l \in Linears(Dst(c))
  PROVE  \E x : GatherPlace(c, l, x)
<1>. DEFINE axis == AxisOf(c, Src(c))
            index == Indices(c, c.in[2])
            At1(y) == SubSeq(y, 1, axis - 1)
                        \o << NormalizeIndex(Selected(c, index, y), Src(c).shape[axis]) >>
                        \o SubSeq(y, axis + Rank(c.in[2]), Len(y))
            oc == Coordinates(Dst(c).shape, l)
            x == At1(oc)
            ix == NormalizeIndex(Selected(c, index, oc), Src(c).shape[axis])
            source == [i \in Linears(Dst(c)) |->
                         RowMajor(Src(c).shape, At1(Coordinates(Dst(c).shape, i)))]
<1>1. /\ 1 \in DOMAIN c.in /\ Src(c) \in Views /\ Dst(c) \in Views /\ AllMetaOK(c)
      /\ Rank(Src(c)) \in Nat /\ c.in[2] \in Views
  <2>1. ExpectIO(c, {2}, {1}) /\ AllMetaOK(c)
    BY DEF GatherOK, GatherIO
  <2>2. {1} \subseteq Nat \ {0} /\ {2} \subseteq Nat \ {0}
    OBVIOUS
  <2>3. 2 \in DOMAIN c.in
    BY <2>1 DEF ExpectIO
  <2> QED BY <2>1, <2>2, <2>3, SourceAndResult
<1>2. axis \in 1 .. Rank(Src(c))
  BY <1>1, AxisInside DEF GatherOK, AxisOf
<1>3. ix \in 0 .. Src(c).shape[axis] - 1
  BY DEF GatherOK, IndexOK
<1>4. /\ Src(c).shape \in Seq(Nat) /\ c.in[2].shape \in Seq(Nat)
      /\ Dst(c).shape = SubSeq(Src(c).shape, 1, axis - 1) \o c.in[2].shape
                          \o SubSeq(Src(c).shape, axis + 1, Rank(Src(c)))
  BY <1>1 DEF Views, GatherOK
<1>5. PICK n \in Nat, q \in Nat, b \in Nat :
        n = Rank(Src(c)) /\ q = Rank(c.in[2]) /\ b = axis /\ b >= 1 /\ b <= n
  <2>1. Rank(c.in[2]) \in Nat
    BY <1>4 DEF Rank
  <2> QED BY <1>1, <1>2, <2>1
<1>. HIDE DEF axis
<1>6. /\ Rank(Dst(c)) = n + q - 1
      /\ \A a \in 1 .. b - 1 : Dst(c).shape[a] = Src(c).shape[a]
      /\ \A a \in b + 1 .. n : Dst(c).shape[a + q - 1] = Src(c).shape[a]
  <2>1. PICK s \in Seq(Nat), t \in Seq(Nat) : s = Src(c).shape /\ t = c.in[2].shape
    BY <1>4
  <2>2. Len(s) = n /\ Len(t) = q /\ Dst(c).shape = Spliced(s, axis, t) /\ axis \in 1 .. Len(s)
    BY <1>2, <1>4, <1>5, <2>1 DEF Spliced, Rank
  <2>3. /\ Len(Spliced(s, axis, t)) = Len(s) + Len(t) - 1
        /\ \A a \in 1 .. axis - 1 : Spliced(s, axis, t)[a] = s[a]
        /\ \A a \in axis + 1 .. Len(s) : Spliced(s, axis, t)[a + Len(t) - 1] = s[a]
    BY <2>2, GatherShape
  <2> QED BY <1>5, <2>1, <2>2, <2>3 DEF Rank
<1>7. /\ oc \in [1 .. n + q - 1 -> Nat] /\ Len(oc) = n + q - 1
      /\ \A a \in 1 .. n + q - 1 : oc[a] \in 0 .. Dst(c).shape[a] - 1
  <2>1. oc \in [1 .. Rank(Dst(c)) -> Nat] /\ \A a \in 1 .. Rank(Dst(c)) : oc[a] \in 0 .. Dst(c).shape[a] - 1
    BY <1>1, ElementCoordinates
  <2>. HIDE DEF oc
  <2>2. n + q - 1 \in Nat
    BY <1>5
  <2> QED BY <1>6, <2>1, <2>2
<1>8. x = SubSeq(oc, 1, b - 1) \o <<ix>> \o SubSeq(oc, b + q, n + q - 1)
  <2>1. x = SubSeq(oc, 1, axis - 1) \o <<ix>> \o SubSeq(oc, axis + Rank(c.in[2]), Len(oc))
    OBVIOUS
  <2>. HIDE DEF x, oc, ix
  <2> QED BY <1>5, <1>7, <2>1
<1>. DEFINE u == SubSeq(oc, 1, b - 1)
            w == SubSeq(oc, b + q, n + q - 1)
<1>. HIDE DEF x, oc, ix
<1>9. /\ u \in Seq(Nat) /\ Len(u) = b - 1 /\ \A i \in 1 .. b - 1 : u[i] = oc[i]
  <2>1. \A i \in 1 .. b - 1 : oc[i] \in Nat
    BY <1>5, <1>7
  <2>2. /\ SubSeq(oc, 1, b - 1) \in Seq(Nat)
        /\ Len(SubSeq(oc, 1, b - 1)) = IF 1 <= b - 1 THEN b - 1 - 1 + 1 ELSE 0
        /\ \A i \in 1 .. b - 1 - 1 + 1 : SubSeq(oc, 1, b - 1)[i] = oc[1 + i - 1]
    <3>1. b - 1 \in Int
      OBVIOUS
    <3> QED BY <2>1, <3>1, SubSeqProperties
  <2> QED BY <1>5, <2>2
<1>10. /\ w \in Seq(Nat) /\ Len(w) = n - b /\ \A i \in 1 .. n - b : w[i] = oc[b + q + i - 1]
  <2>1. \A i \in b + q .. n + q - 1 : oc[i] \in Nat
    BY <1>5, <1>7
  <2>2. /\ w \in Seq(Nat)
        /\ Len(w) = IF b + q <= n + q - 1 THEN n + q - 1 - (b + q) + 1 ELSE 0
        /\ \A i \in 1 .. n + q - 1 - (b + q) + 1 : w[i] = oc[b + q + i - 1]
    <3>1. b + q \in Int /\ n + q - 1 \in Int
      OBVIOUS
    <3> QED BY <2>1, <3>1, SubSeqProperties
  <2>3. n + q - 1 - (b + q) + 1 = n - b /\ (b + q <= n + q - 1 \/ n - b = 0)
    BY <1>5
  <2>. HIDE DEF w
  <2> QED BY <2>2, <2>3
<1>. HIDE DEF u, w
<1>11. /\ x \in Seq(Nat) /\ Len(x) = n
       /\ \A i \in 1 .. b - 1 : x[i] = u[i]
       /\ x[b] = ix
       /\ \A i \in 1 .. n - b : x[b + i] = w[i]
  <2>1. ix \in Nat /\ <<ix>> \in Seq(Nat) /\ Len(<<ix>>) = 1 /\ <<ix>>[1] = ix
    BY <1>3
  <2>2. x = u \o <<ix>> \o w
    BY <1>8 DEF u, w
  <2>6. b - 1 \in Nat /\ n - b \in Nat
    BY ONLY <1>5, n \in Nat, b \in Nat
  <2>3. PICK e \in Nat, d \in Nat, t \in Seq(Nat) : e = b - 1 /\ d = n - b /\ t = <<ix>>
    BY ONLY <2>1, <2>6
  <2>4. Len(u) = e /\ Len(w) = d /\ Len(t) = 1 /\ x = u \o t \o w
    BY <1>9, <1>10, <2>1, <2>2, <2>3
  <2>5. /\ x \in Seq(Nat) /\ Len(x) = e + 1 + d
        /\ \A i \in 1 .. e : x[i] = u[i]
        /\ \A i \in 1 .. 1 : x[e + i] = t[i]
        /\ \A i \in 1 .. d : x[e + 1 + i] = w[i]
    <3>1. /\ u \o t \o w \in Seq(Nat) /\ Len(u \o t \o w) = Len(u) + Len(t) + Len(w)
          /\ \A i \in 1 .. Len(u) : (u \o t \o w)[i] = u[i]
          /\ \A i \in 1 .. Len(t) : (u \o t \o w)[Len(u) + i] = t[i]
          /\ \A i \in 1 .. Len(w) : (u \o t \o w)[Len(u) + Len(t) + i] = w[i]
      <4>1. u \in Seq(Nat) /\ w \in Seq(Nat)
        BY <1>9, <1>10
      <4> QED BY ONLY <4>1, t \in Seq(Nat), ThreeParts
    <3> QED BY ONLY <3>1, <2>4, Zenon
  <2>7. e + 1 + d = n /\ e + 1 = b /\ 1 \in 1 .. 1
    BY ONLY <2>3, n \in Nat, b \in Nat
  <2> QED BY <2>1, <2>3, <2>5, <2>7
<1>12. ASSUME NEW a \in 1 .. n PROVE x[a] \in 0 .. Src(c).shape[a] - 1
  <2>1. CASE a < b
    <3>1. a \in 1 .. b - 1 /\ a \in 1 .. n + q - 1
      BY <1>5, <2>1
    <3>2. x[a] = oc[a] /\ oc[a] \in 0 .. Dst(c).shape[a] - 1 /\ Dst(c).shape[a] = Src(c).shape[a]
      BY <1>6, <1>7, <1>9, <1>11, <3>1
    <3> QED BY <3>2
  <2>2. CASE a = b
    BY <1>3, <1>5, <1>11, <2>2
  <2>3. CASE a > b
    <3>1. PICK i \in 1 .. n - b : i = a - b
      BY <1>5, <2>3
    <3>2. PICK j \in 1 .. n + q - 1 : j = a + q - 1
      BY <1>5, <2>3
    <3>3. b + i = a /\ b + q + i - 1 = j /\ a \in b + 1 .. n
      BY <1>5, <2>3, <3>1, <3>2
    <3>4. x[a] = w[i] /\ w[i] = oc[j]
      BY <1>10, <1>11, <3>3
    <3>5. oc[j] \in 0 .. Dst(c).shape[j] - 1 /\ Dst(c).shape[j] = Src(c).shape[a]
      BY <1>6, <1>7, <3>2, <3>3
    <3> QED BY <3>4, <3>5
  <2> QED BY <1>5, <2>1, <2>2, <2>3
<1>13. x \in [1 .. Rank(Src(c)) -> Nat] /\ \A a \in 1 .. Rank(Src(c)) : x[a] \in 0 .. Src(c).shape[a] - 1
  BY <1>5, <1>11, <1>12
<1>14. source[l] = RowMajor(Src(c).shape, x) /\ l \in DOMAIN source
  BY DEF x, oc, ix
<1>15. GatherResult(c) = Gathered(Src(c), source)
  BY DEF GatherResult, axis
<1>. HIDE DEF source
<1>16. Taken(c, GatherResult(c), l, x)
  BY <1>13, <1>14, <1>15, GatheredTaken
<1>17. \A a \in 1 .. b - 1 : x[a] = oc[a]
  BY <1>9, <1>11
<1>18. ASSUME NEW a \in b + 1 .. n PROVE x[a] = oc[a + q - 1]
  <2>1. PICK i \in 1 .. n - b : i = a - b
    BY <1>5
  <2>2. b + i = a /\ b + q + i - 1 = a + q - 1
    BY <1>5, <2>1
  <2> QED BY <1>10, <1>11, <2>2
<1>19. /\ Rank(Dst(c)) = Rank(Src(c)) + Rank(c.in[2]) - 1
       /\ \A a \in 1 .. axis - 1 : x[a] = oc[a]
       /\ x[axis] = ix
       /\ \A a \in axis + 1 .. Rank(Src(c)) : x[a] = oc[a + Rank(c.in[2]) - 1]
  BY <1>5, <1>6, <1>11, <1>17, <1>18
<1> QED BY <1>16, <1>19 DEF oc, ix, axis, GatherPlace

\* So GATHER takes its elements from input 1 only.
LEMMA GatherLoads ==
  ASSUME NEW c, c.in \in Seq(Views), c.out \in Seq(Views), GatherOK(c), NEW l \in Linears(Dst(c))
  PROVE  Sound(c, GatherResult(c)[l])
<1>1. 1 \in DOMAIN c.in /\ AllMetaOK(c)
  <2>1. ExpectIO(c, {2}, {1}) /\ AllMetaOK(c)
    BY DEF GatherOK, GatherIO
  <2>2. {1} \subseteq Nat \ {0} /\ {2} \subseteq Nat \ {0}
    OBVIOUS
  <2> QED BY <2>1, <2>2, SourceAndResult
<1>2. PICK x : Taken(c, GatherResult(c), l, x)
  BY GatherTaken DEF GatherPlace
<1> QED BY <1>1, <1>2, TakenSound

(* --- rows: normalisation, softmax, rotation, gating --------------------- *)
\* Every element of the row of element l along an axis is in the tensor.
LEMMA RowAtInside ==
  ASSUME NEW v \in Views, NEW a \in 1 .. Rank(v), NEW l \in Linears(v),
         NEW j \in 0 .. v.shape[a] - 1
  PROVE  RowAt(v.shape, a, l, j) \in Linears(v)
<1>1. Rank(v) \in Nat /\ v.shape \in [1 .. Rank(v) -> Nat] /\ Len(v.shape) = Rank(v)
  BY ViewFacts DEF Rank
<1>2. PICK P \in Nat, n \in Nat, i \in Nat :
        /\ P = Prefix(v.shape)[a-1] /\ n = v.shape[a] /\ i = Inner(v.shape, a)
        /\ Count(v) = (P * n) * i
  <2>1. /\ Prefix(v.shape)[a-1] \in Nat /\ Suffix(v.shape)[a] \in Nat /\ v.shape[a] \in Nat
        /\ Product(v.shape) = (Prefix(v.shape)[a-1] * v.shape[a]) * Suffix(v.shape)[a]
    BY <1>1, SplitProduct
  <2> QED BY <2>1 DEF Inner, Count
<1>3. PICK B \in Nat : B = n * i /\ (P * n) * i = P * B
  <2>1. n * i \in Nat /\ (P * n) * i = P * (n * i)
    BY ONLY P \in Nat, n \in Nat, i \in Nat
  <2> QED BY <2>1
<1>4. l \in 0 .. P * B - 1
  BY <1>2, <1>3 DEF Linears
<1>5. l \div B \in 0 .. P - 1 /\ B >= 1 /\ l \in Nat
  <2>1. P * B \in Nat
    OBVIOUS
  <2>2. l \in Nat
    BY <1>4, <2>1
  <2>3. l \div B \in 0 .. P - 1 /\ B >= 1
    BY ONLY <1>4, P \in Nat, B \in Nat, RowSplit
  <2> QED BY <2>2, <2>3
<1>6. l % i \in 0 .. i - 1
  <2>1. i # 0
    <3>1. i = 0 => n * i = 0
      OBVIOUS
    <3> QED BY <1>3, <1>5, <3>1
  <2> QED BY <1>5, <2>1, QuotientNat
<1>7. j \in 0 .. n - 1
  BY <1>2
<1>8. PICK o \in 0 .. P - 1, r \in 0 .. i - 1 : o = l \div B /\ r = l % i
  BY <1>5, <1>6
<1>9. o * n * i + j * i + r \in 0 .. (P * n) * i - 1
  BY <1>7, RowPlace
<1>10. RowAt(v.shape, a, l, j) = o * n * i + j * i + r
  BY <1>2, <1>3, <1>8 DEF RowAt
<1> QED BY <1>2, <1>9, <1>10 DEF Linears

\* The two views of a kernel that keeps the shape of its input have the same elements.
LEMMA SameShapeFacts ==
  ASSUME NEW c, c.in \in Seq(Views), c.out \in Seq(Views), SameShape(c)
  PROVE  /\ 1 \in DOMAIN c.in /\ Src(c) \in Views /\ Dst(c) \in Views /\ AllMetaOK(c)
         /\ Rank(Src(c)) \in Nat /\ Src(c) = c.in[1] /\ Linears(Dst(c)) = Linears(Src(c))
         /\ Src(c).shape \in [1 .. Rank(Src(c)) -> Nat] /\ Len(Src(c).shape) = Rank(Src(c))
         /\ HasSecond(c) => 2 \in DOMAIN c.in /\ c.in[2] \in Views
<1>1. ExpectIO(c, 1 .. 2, {1}) /\ AllMetaOK(c) /\ Src(c).shape = Dst(c).shape
  BY DEF SameShape
<1>2. 1 .. 2 \subseteq Nat \ {0} /\ {1} \subseteq Nat \ {0}
  OBVIOUS
<1>3. HasSecond(c) => 2 \in DOMAIN c.in /\ c.in[2] \in Views
  BY DEF HasSecond
<1>4. Linears(Dst(c)) = Linears(Src(c))
  BY <1>1 DEF Linears, Count
<1> QED BY <1>1, <1>2, <1>3, <1>4, SourceAndResult

\* The elements of a tensor, in rows along its last axis.
LEMMA LastAxis ==
  ASSUME NEW v \in Views, Rank(v) > 0
  PROVE  \E P \in Nat, B \in Nat : B = v.shape[Rank(v)] /\ Count(v) = P * B
<1>. DEFINE n == Rank(v)
<1>1. n \in Nat /\ n \in 1 .. n /\ v.shape \in [1 .. n -> Nat] /\ Len(v.shape) = n
  BY ViewFacts DEF Rank
<1>2. PICK shape \in [1 .. n -> Nat], b \in 1 .. n : shape = v.shape /\ b = n /\ Len(shape) = n
  BY <1>1
<1>3. /\ Prefix(shape)[b-1] \in Nat /\ Suffix(shape)[b] \in Nat
      /\ Product(shape) = (Prefix(shape)[b-1] * shape[b]) * Suffix(shape)[b]
  BY <1>1, <1>2, SplitProduct
<1>4. Suffix(shape)[n] = 1
  BY <1>1, <1>2, SuffixFacts
<1>5. \A x, y \in Nat : (x * y) * 1 = x * y
  OBVIOUS
<1> QED BY <1>1, <1>2, <1>3, <1>4, <1>5 DEF Count

\* RMS_NORM reads the row of an element and the weight of its place in the row.
LEMMA RmsNormLoads ==
  ASSUME NEW c, c.in \in Seq(Views), c.out \in Seq(Views), RmsNormOK(c), NEW l \in Linears(Dst(c))
  PROVE  Sound(c, RmsNormResult(c)[l])
<1>. DEFINE addr == LogicalAddr(Src(c))
            weight == LogicalAddr(c.in[2])
            n == Rank(Src(c))
            h == c.attr.hidden_size
<1>1. /\ 1 \in DOMAIN c.in /\ Src(c) \in Views /\ AllMetaOK(c)
      /\ n \in Nat /\ Src(c) = c.in[1] /\ l \in Linears(Src(c))
      /\ Src(c).shape \in [1 .. n -> Nat] /\ Len(Src(c).shape) = n
      /\ HasSecond(c) => 2 \in DOMAIN c.in /\ c.in[2] \in Views
      /\ n > 0 /\ Src(c).shape[n] = h
      /\ HasSecond(c) => Count(c.in[2]) = h
  BY SameShapeFacts DEF RmsNormOK
<1>2. PICK P \in Nat, B \in Nat : B = h /\ Count(Src(c)) = P * B
  BY <1>1, LastAxis
<1>3. l \in 0 .. P * B - 1
  BY <1>1, <1>2 DEF Linears
<1>4. l \div B \in 0 .. P - 1 /\ l % B \in 0 .. B - 1
  BY <1>3, RowSplit
<1>5. ASSUME NEW k \in 0 .. B - 1 PROVE addr[(l \div B) * B + k] \in Readable(c)
  <2>1. PICK q \in 0 .. P - 1 : q = l \div B
    BY <1>4
  <2>2. q * B + k \in 0 .. P * B - 1
    BY RowBound
  <2>3. (l \div B) * B + k \in Linears(Src(c))
    BY <1>2, <2>1, <2>2 DEF Linears
  <2> QED BY <1>1, <2>3, ElementInside
<1>6. addr[l] \in Readable(c)
  BY <1>1, ElementInside
<1>7. HasSecond(c) => weight[l % B] \in Readable(c)
  <2>1. HasSecond(c) => l % B \in Linears(c.in[2])
    BY <1>1, <1>2, <1>4 DEF Linears
  <2> QED BY <1>1, <2>1, ElementInside
<1>. DEFINE head == <<addr[l]>>
            middle == IF HasSecond(c) THEN <<weight[l % h]>> ELSE <<>>
            chunk == [j \in 1 .. h |-> addr[(l \div h) * h + j - 1]]
<1>8. RmsNormResult(c)[l] = Term("rms_norm", <<>>, head \o middle \o chunk)
  BY <1>1, SameShapeFacts DEF RmsNormResult, RmsNormOK
<1>. HIDE DEF addr, weight
<1>9. head \in Seq(Readable(c)) /\ middle \in Seq(Readable(c))
  BY <1>2, <1>6, <1>7
<1>10. chunk \in Seq(Readable(c))
  <2>1. ASSUME NEW j \in 1 .. B PROVE addr[(l \div B) * B + j - 1] \in Readable(c)
    <3>1. PICK k \in 0 .. B - 1 : k = j - 1
      OBVIOUS
    <3>2. PICK y \in Int : y = (l \div B) * B
      BY <1>4
    <3>3. y + j - 1 = y + k
      BY ONLY <3>1, y \in Int, j \in 1 .. B, k \in 0 .. B - 1, B \in Nat
    <3>4. addr[(l \div B) * B + k] \in Readable(c)
      BY <1>5
    <3> QED BY <3>2, <3>3, <3>4
  <2> QED BY <1>2, <2>1
<1>. HIDE DEF head, middle, chunk
<1>11. head \o middle \o chunk \in Seq(Readable(c))
  BY <1>9, <1>10
<1>12. "rms_norm" \in Functions
  BY DEF Functions
<1> QED BY <1>8, <1>11, <1>12, TermSound

\* SOFTMAX reads the row of an element and, broadcast to it, the mask.
LEMMA SoftmaxLoads ==
  ASSUME NEW c, c.in \in Seq(Views), c.out \in Seq(Views), SoftmaxOK(c), NEW l \in Linears(Dst(c))
  PROVE  Sound(c, SoftmaxResult(c)[l])
<1>. DEFINE n == Rank(Src(c))
            shape == Src(c).shape
            axis == AxisOf(c, Src(c))
            addr == LogicalAddr(Src(c))
            mask == LogicalAddr(c.in[2])
            At1(m) == RowMajor(c.in[2].shape, MaskCoordinates(c.in[2], Coordinates(shape, m)))
            Masked(ls) == IF HasSecond(c) THEN [j \in DOMAIN ls |-> mask[At1(ls[j])]] ELSE <<>>
            Read(ls) == [j \in DOMAIN ls |-> addr[ls[j]]] \o Masked(ls)
<1>1. /\ 1 \in DOMAIN c.in /\ Src(c) \in Views /\ AllMetaOK(c)
      /\ n \in Nat /\ Src(c) = c.in[1] /\ l \in Linears(Src(c)) /\ l \in Linears(Dst(c))
      /\ shape \in [1 .. n -> Nat]
      /\ HasSecond(c) => 2 \in DOMAIN c.in /\ c.in[2] \in Views
      /\ HasSecond(c) => Rank(c.in[2]) <= n
                         /\ \A a \in Axes(c.in[2]) : c.in[2].shape[a] \in {1, shape[a]}
  BY SameShapeFacts DEF SoftmaxOK
<1>2. axis \in 1 .. n
  BY <1>1, AxisInside DEF SoftmaxOK, AxisOf
<1>3. ASSUME NEW m \in Linears(Src(c)) PROVE addr[m] \in Readable(c)
  BY <1>1, ElementInside
<1>4. ASSUME NEW m \in Linears(Src(c)), HasSecond(c) PROVE mask[At1(m)] \in Readable(c)
  <2>. DEFINE ic == Coordinates(shape, m)
              x == MaskCoordinates(c.in[2], ic)
  <2>1. ic \in [1 .. n -> Nat] /\ \A a \in 1 .. n : ic[a] \in 0 .. shape[a] - 1
    BY <1>1, ElementCoordinates
  <2>2. /\ Rank(c.in[2]) \in Nat /\ Axes(c.in[2]) = 1 .. Rank(c.in[2]) /\ Rank(c.in[2]) <= n
        /\ c.in[2].shape \in [1 .. Rank(c.in[2]) -> Nat] /\ c.in[2] \in Views /\ 2 \in DOMAIN c.in
        /\ \A a \in 1 .. Rank(c.in[2]) : c.in[2].shape[a] \in {1, shape[a]}
    BY <1>1, <1>4, ViewFacts
  <2>3. x = [a \in 1 .. Rank(c.in[2]) |-> IF c.in[2].shape[a] = 1 THEN 0 ELSE ic[a]]
    BY <2>2 DEF MaskCoordinates
  <2>. HIDE DEF ic, x
  <2>4. ASSUME NEW a \in 1 .. Rank(c.in[2])
        PROVE  (IF c.in[2].shape[a] = 1 THEN 0 ELSE ic[a]) \in 0 .. c.in[2].shape[a] - 1
    <3>1. a \in 1 .. n
      BY <1>1, <2>2
    <3>2. ic[a] \in 0 .. shape[a] - 1 /\ c.in[2].shape[a] \in {1, shape[a]}
      BY <2>1, <2>2, <3>1
    <3> QED BY <3>2
  <2>5. \A a \in 1 .. Rank(c.in[2]) : x[a] \in 0 .. c.in[2].shape[a] - 1
    BY <2>3, <2>4
  <2>6. x \in [1 .. Rank(c.in[2]) -> Nat]
    <3>1. ASSUME NEW a \in 1 .. Rank(c.in[2])
          PROVE  (IF c.in[2].shape[a] = 1 THEN 0 ELSE ic[a]) \in Nat
      BY <2>4
    <3> QED BY <2>3, <3>1
  <2>7. RowMajor(c.in[2].shape, x) \in Linears(c.in[2])
    BY <2>2, <2>5, <2>6, CellNumbered
  <2>8. mask[RowMajor(c.in[2].shape, x)] \in Readable(c)
    BY <1>1, <2>2, <2>7, ElementInside
  <2> QED BY <2>8 DEF x, ic
<1>. HIDE DEF At1, addr, mask
<1>5. ASSUME NEW ls \in Seq(Linears(Src(c))) PROVE Read(ls) \in Seq(Readable(c))
  <2>1. \A j \in DOMAIN ls : ls[j] \in Linears(Src(c))
    OBVIOUS
  <2>2. [j \in DOMAIN ls |-> addr[ls[j]]] \in Seq(Readable(c))
    BY <1>3, <2>1
  <2>3. HasSecond(c) => [j \in DOMAIN ls |-> mask[At1(ls[j])]] \in Seq(Readable(c))
    BY <1>4, <2>1
  <2>4. Masked(ls) \in Seq(Readable(c))
    BY <2>3
  <2>. HIDE DEF Masked
  <2> QED BY <2>2, <2>4
<1>6. RowOf(shape, axis, l) \in Seq(Linears(Src(c)))
  <2>1. ASSUME NEW j \in 1 .. shape[axis] PROVE RowAt(shape, axis, l, j - 1) \in Linears(Src(c))
    <3>1. j - 1 \in 0 .. shape[axis] - 1
      BY <1>1, <1>2
    <3>2. \A k \in 0 .. shape[axis] - 1 : RowAt(shape, axis, l, k) \in Linears(Src(c))
      BY <1>1, <1>2, RowAtInside
    <3> QED BY <3>1, <3>2
  <2>2. shape[axis] \in Nat
    BY <1>1, <1>2
  <2> QED BY <2>1, <2>2 DEF RowOf
<1>7. <<l>> \in Seq(Linears(Src(c)))
  BY <1>1
<1>8. Read(<<l>>) \in Seq(Readable(c)) /\ Read(RowOf(shape, axis, l)) \in Seq(Readable(c))
  BY <1>5, <1>6, <1>7
<1>9. SoftmaxResult(c)[l] = Term("softmax", <<>>, Read(<<l>>) \o Read(RowOf(shape, axis, l)))
  BY <1>1 DEF SoftmaxResult, addr, mask, At1
<1>. HIDE DEF Read
<1>10. Read(<<l>>) \o Read(RowOf(shape, axis, l)) \in Seq(Readable(c)) /\ "softmax" \in Functions
  BY <1>8 DEF Functions
<1> QED BY <1>9, <1>10, TermSound

\* ROPE reads both elements of the pair it rotates: the rotated dimensions are an
\* even number inside the row.
LEMMA RopeLoads ==
  ASSUME NEW c, c.in \in Seq(Views), c.out \in Seq(Views), RopeOK(c), NEW l \in Linears(Dst(c))
  PROVE  Sound(c, RopeResult(c)[l])
<1>. DEFINE addr == LogicalAddr(Src(c))
            s == Src(c).shape
            Base(m) == (m \div s[4]) * s[4]
            Token(m) == m \div (s[3] * s[4])
            Position(m) == PositionOf(c, Token(m) \div s[2], Token(m) % s[2])
            Rotated(m, p, half) ==
              Term("rotate", <<half, p, Position(m)>>,
                   <<addr[Base(m) + PairOf(c, p)[1]], addr[Base(m) + PairOf(c, p)[2]]>>)
            pairs == 0 .. c.attr.n_dims \div 2 - 1
<1>1. /\ 1 \in DOMAIN c.in /\ Src(c) \in Views /\ AllMetaOK(c)
      /\ Src(c) = c.in[1] /\ l \in Linears(Src(c)) /\ l \in Linears(Dst(c))
      /\ s \in [1 .. 4 -> Nat] /\ Len(s) = 4 /\ Rank(Src(c)) = 4
      /\ c.attr.n_dims \in 1 .. s[4] /\ c.attr.mode \in {GptJ, Neox}
  BY SameShapeFacts DEF RopeOK
<1>2. PICK P \in Nat, B \in Nat : B = s[4] /\ Count(Src(c)) = P * B
  <2>1. Src(c) \in Views /\ Rank(Src(c)) > 0
    BY <1>1
  <2>2. \E P \in Nat, B \in Nat : B = Src(c).shape[Rank(Src(c))] /\ Count(Src(c)) = P * B
    BY ONLY <2>1, LastAxis
  <2> QED BY <1>1, <2>2, Zenon
<1>3. l \div B \in 0 .. P - 1
  <2>1. l \in 0 .. P * B - 1
    BY <1>1, <1>2 DEF Linears
  <2> QED BY <2>1, RowSplit
<1>4. ASSUME NEW k \in 0 .. B - 1 PROVE addr[Base(l) + k] \in Readable(c)
  <2>1. PICK q \in 0 .. P - 1 : q = l \div B
    BY <1>3
  <2>2. q * B + k \in 0 .. P * B - 1
    BY RowBound
  <2>3. Base(l) + k \in Linears(Src(c))
    BY <1>2, <2>1, <2>2 DEF Linears
  <2> QED BY <1>1, <2>3, ElementInside
<1>5. ASSUME NEW p \in pairs
      PROVE  PairOf(c, p)[1] \in 0 .. B - 1 /\ PairOf(c, p)[2] \in 0 .. B - 1
  <2>1. PICK d \in 1 .. B : d = c.attr.n_dims
    BY <1>1, <1>2
  <2>2. PICK h \in Nat : h = d \div 2 /\ 2 * h <= d /\ p \in 0 .. h - 1
    BY <2>1
  <2>5. /\ p \in 0 .. B - 1 /\ 2 * p \in 0 .. B - 1 /\ 2 * p + 1 \in 0 .. B - 1
        /\ p + h \in 0 .. B - 1
    <3>1. 2 * h <= d /\ p \in 0 .. h - 1
      BY <2>2
    <3> QED BY ONLY <3>1, h \in Nat, B \in Nat, d \in 1 .. B
  <2>3. p \in 0 .. B - 1 /\ 2 * p \in 0 .. B - 1 /\ 2 * p + 1 \in 0 .. B - 1
        /\ p + d \div 2 \in 0 .. B - 1
    BY <2>2, <2>5
  <2>4. PairOf(c, p) = IF c.attr.mode = GptJ THEN <<2 * p, 2 * p + 1>> ELSE <<p, p + d \div 2>>
    BY <2>1 DEF PairOf
  <2> QED BY <2>3, <2>4
<1>. HIDE DEF Base, addr, Position
<1>6. ASSUME NEW p \in pairs, NEW half PROVE Sound(c, Rotated(l, p, half))
  <2>1. <<addr[Base(l) + PairOf(c, p)[1]], addr[Base(l) + PairOf(c, p)[2]]>> \in Seq(Readable(c))
    BY <1>4, <1>5
  <2>2. "rotate" \in Functions
    BY DEF Functions
  <2> QED BY <2>1, <2>2, TermSound
<1>7. Sound(c, Moved(addr[l]))
  <2>1. /\ 1 \in DOMAIN c.in /\ AllMetaOK(c) /\ Src(c) = c.in[1]
        /\ l \in Linears(c.in[1]) /\ c.in \in Seq(Views)
    BY <1>1
  <2>2. LogicalAddr(c.in[1])[l] \in Readable(c)
    BY ONLY <2>1, ElementInside
  <2>3. addr[l] \in Readable(c)
    BY <2>1, <2>2, Zenon DEF addr
  <2> QED BY ONLY <2>3, MovedSound
<1>. DEFINE E == \E p \in pairs, half \in 1 .. 2 : l % s[4] = PairOf(c, p)[half]
            pp == CHOOSE p \in pairs : \E half \in 1 .. 2 : l % s[4] = PairOf(c, p)[half]
            hh == CHOOSE half \in 1 .. 2 : l % s[4] = PairOf(c, pp)[half]
<1>8. RopeResult(c)[l] = IF E THEN Rotated(l, pp, hh) ELSE Moved(addr[l])
  BY <1>1, ZenonT(30) DEF RopeResult, addr, Base, Position
<1>9. E => pp \in pairs
  OBVIOUS
<1>. HIDE DEF Rotated, pp, hh, E, pairs
<1> QED BY <1>6, <1>7, <1>8, <1>9

\* GLU reads the gate and the value, both halves of one input or two inputs.
LEMMA GluLoads ==
  ASSUME NEW c, c.in \in Seq(Views), c.out \in Seq(Views), GluOK(c), NEW l \in Linears(Dst(c))
  PROVE  Sound(c, GluResult(c)[l])
<1>. DEFINE n == Rank(Src(c))
            s == Src(c).shape
            t == Dst(c).shape
            lhs == LogicalAddr(Src(c))
            rhs == LogicalAddr(c.in[Len(c.in)])
            Shifted(oc, upper) == [oc EXCEPT ![1] = @ + (IF upper THEN t[1] ELSE 0)]
            Half(oc, upper) == RowMajor(s, Shifted(oc, upper))
            oc == Coordinates(t, l)
            swapped == c.attr.swapped # 0
<1>1. /\ 1 \in DOMAIN c.in /\ Src(c) \in Views /\ Dst(c) \in Views /\ AllMetaOK(c)
      /\ Src(c) = c.in[1] /\ Len(c.in) \in 1 .. 2 /\ n \in Nat /\ Rank(Dst(c)) = n
      /\ s \in [1 .. n -> Nat] /\ t \in [1 .. n -> Nat] /\ Len(s) = n /\ Len(t) = n
  <2>1. ExpectIO(c, 1 .. 2, {1}) /\ AllMetaOK(c) /\ Rank(Src(c)) = Rank(Dst(c))
    BY DEF GluOK
  <2>2. 1 .. 2 \subseteq Nat \ {0} /\ {1} \subseteq Nat \ {0}
    OBVIOUS
  <2> QED BY <2>1, <2>2, SourceAndResult DEF ExpectIO
<1>2. "swiglu" \in Functions
  BY DEF Functions
<1>3. GluResult(c)[l] = IF s = t THEN Term("swiglu", <<>>, <<lhs[l], rhs[l]>>)
                        ELSE Term("swiglu", <<>>, <<lhs[Half(oc, swapped)], rhs[Half(oc, ~swapped)]>>)
  BY DEF GluResult
<1>4. CASE s = t
  <2>1. l \in Linears(Src(c))
    BY <1>4 DEF Linears, Count
  <2>2. Len(c.in) \in DOMAIN c.in /\ l \in Linears(c.in[Len(c.in)])
    <3>1. CASE Len(c.in) = 1
      BY <1>1, <2>1, <3>1
    <3>2. CASE Len(c.in) = 2
      BY <1>4, <2>1, <3>2 DEF GluOK, HasSecond, Linears, Count
    <3> QED BY <1>1, <3>1, <3>2
  <2>3. lhs[l] \in Readable(c) /\ rhs[l] \in Readable(c)
    BY <1>1, <2>1, <2>2, ElementInside
  <2>. HIDE DEF lhs, rhs
  <2>4. <<lhs[l], rhs[l]>> \in Seq(Readable(c))
    BY <2>3
  <2> QED BY <1>2, <1>3, <1>4, <2>4, TermSound
<1>5. CASE s # t
  <2>1. Len(c.in) = 1 /\ n > 0 /\ s[1] = 2 * t[1] /\ Tail(s) = Tail(t)
    BY <1>1, <1>5 DEF GluOK, HasSecond
  <2>2. \A a \in 2 .. n : s[a] = t[a]
    <3>1. ASSUME NEW a \in 2 .. n PROVE s[a] = Tail(s)[a - 1] /\ t[a] = Tail(t)[a - 1]
      <4>1. PICK b \in 1 .. n - 1 : b = a - 1 /\ b + 1 = a
        BY <1>1
      <4>2. s \in Seq(Nat) /\ t \in Seq(Nat) /\ s # <<>> /\ t # <<>>
        <5>1. s \in Seq(Nat) /\ t \in Seq(Nat)
          BY <1>1 DEF Views
        <5>2. Len(s) # 0 /\ Len(t) # 0
          BY <1>1, <2>1
        <5> QED BY <5>1, <5>2
      <4>3. Tail(s)[b] = s[b + 1] /\ Tail(t)[b] = t[b + 1]
        <5>1. PICK f \in Seq(Nat), g \in Seq(Nat) :
                f = s /\ g = t /\ f # <<>> /\ g # <<>> /\ b \in 1 .. Len(f) - 1 /\ b \in 1 .. Len(g) - 1
          BY <1>1, <4>2
        <5>2. Tail(f)[b] = f[b + 1] /\ Tail(g)[b] = g[b + 1]
          BY ONLY <5>1, f \in Seq(Nat), g \in Seq(Nat), HeadTailProperties
        <5> QED BY <5>1, <5>2
      <4> QED BY <4>1, <4>3
    <3> QED BY <2>1, <3>1
  <2>3. oc \in [1 .. n -> Nat] /\ \A a \in 1 .. n : oc[a] \in 0 .. t[a] - 1
    BY <1>1, ElementCoordinates
  <2>. HIDE DEF oc
  <2>4. ASSUME NEW upper \in BOOLEAN PROVE Half(oc, upper) \in Linears(Src(c))
    <3>. DEFINE x == Shifted(oc, upper)
    <3>1. x = [oc EXCEPT ![1] = oc[1] + (IF upper THEN t[1] ELSE 0)]
      OBVIOUS
    <3>2. 1 \in 1 .. n /\ t[1] \in Nat
      BY <1>1, <2>1
    <3>3. oc[1] + (IF upper THEN t[1] ELSE 0) \in 0 .. s[1] - 1
      BY <2>1, <2>3, <3>2
    <3>. HIDE DEF x
    <3>4. x \in [1 .. n -> Nat]
      BY <2>3, <3>1, <3>2, <3>3
    <3>5. ASSUME NEW a \in 1 .. n PROVE x[a] \in 0 .. s[a] - 1
      <4>1. CASE a = 1
        BY <2>3, <3>1, <3>2, <3>3, <4>1
      <4>2. CASE a # 1
        <5>1. a \in 2 .. n /\ x[a] = oc[a]
          BY <2>3, <3>1, <4>2
        <5> QED BY <2>2, <2>3, <5>1
      <4> QED BY <4>1, <4>2
    <3>6. RowMajor(s, x) \in Linears(Src(c))
      BY <1>1, <3>4, <3>5, CellNumbered
    <3> QED BY <3>6 DEF x
  <2>5. Half(oc, swapped) \in Linears(Src(c)) /\ Half(oc, ~swapped) \in Linears(Src(c))
    <3>1. swapped \in BOOLEAN /\ (~swapped) \in BOOLEAN
      OBVIOUS
    <3>. HIDE DEF Half, swapped
    <3> QED BY <2>4, <3>1
  <2>. HIDE DEF Half
  <2>6. lhs[Half(oc, swapped)] \in Readable(c) /\ rhs[Half(oc, ~swapped)] \in Readable(c)
    BY <1>1, <2>1, <2>5, ElementInside
  <2>. HIDE DEF lhs, rhs
  <2>7. <<lhs[Half(oc, swapped)], rhs[Half(oc, ~swapped)]>> \in Seq(Readable(c))
    BY <2>6
  <2> QED BY <1>2, <1>3, <1>5, <2>7, TermSound DEF oc
<1> QED BY <1>4, <1>5

(* --- concat ------------------------------------------------------------- *)
\* Tensors with the same extents in front of an axis and behind it have the same
\* number of rows along it, and as many elements inside one step.
LEMMA PrefixAgrees ==
  ASSUME NEW n \in Nat, NEW s \in [1 .. n -> Nat], NEW t \in [1 .. n -> Nat], Len(s) = n, Len(t) = n,
         NEW k \in 0 .. n, \A i \in 1 .. k : s[i] = t[i]
  PROVE  Prefix(s)[k] = Prefix(t)[k]
<1>0. k \in Nat
  OBVIOUS
<1>. DEFINE p == Prefix(s)
            q == Prefix(t)
            G == {i \in 0 .. k : p[i] = q[i]}
<1>1. /\ p[0] = 1 /\ \A i \in 1 .. n : p[i] = p[i-1] * s[i]
      /\ q[0] = 1 /\ \A i \in 1 .. n : q[i] = q[i-1] * t[i]
  BY PrefixFacts
<1>. HIDE DEF p, q
<1>2. 0 \in G
  BY <1>1
<1>3. \A i \in 1 .. k : i - 1 \in G => i \in G
  BY <1>1
<1>4. 0 .. k \subseteq G
  <2>. HIDE DEF G
  <2> QED BY <1>0, <1>2, <1>3, IntervalInduction
<1> QED BY <1>0, <1>4 DEF p, q

\* Shapes that agree after axis k have as many elements inside a step along it.
LEMMA SuffixAgrees ==
  ASSUME NEW n \in Nat, NEW s \in [1 .. n -> Nat], NEW t \in [1 .. n -> Nat], Len(s) = n, Len(t) = n,
         NEW k \in 0 .. n, \A i \in k + 1 .. n : s[i] = t[i]
  PROVE  Suffix(s)[k] = Suffix(t)[k]
<1>. DEFINE p == Suffix(s)
            q == Suffix(t)
            G == {i \in 0 .. n : i >= k => p[i] = q[i]}
<1>1. /\ p[n] = 1 /\ \A i \in 1 .. n : p[i-1] = s[i] * p[i]
      /\ q[n] = 1 /\ \A i \in 1 .. n : q[i-1] = t[i] * q[i]
  BY SuffixFacts
<1>. HIDE DEF p, q
<1>2. n \in G
  BY <1>1
<1>3. ASSUME NEW i \in 1 .. n, i \in G PROVE i - 1 \in G
  <2>1. CASE i - 1 >= k
    <3>1. i \in k + 1 .. n /\ i >= k
      BY <2>1
    <3> QED BY <1>1, <1>3, <3>1
  <2>2. CASE ~(i - 1 >= k)
    BY <2>2
  <2> QED BY <2>1, <2>2
<1>4. 0 .. n \subseteq G
  <2>. HIDE DEF G
  <2> QED BY <1>2, <1>3, DownwardInduction
<1> QED BY <1>4 DEF p, q

\* The elements of a tensor along an axis, by the rows and steps of another one
\* that differs from it at most in the extent of that axis.
LEMMA CountAlong ==
  ASSUME NEW u \in Views, NEW v \in Views, Rank(u) = Rank(v), NEW a \in 1 .. Rank(v),
         \A i \in 1 .. Rank(v) \ {a} : u.shape[i] = v.shape[i]
  PROVE  \E P \in Nat, d \in Nat, I \in Nat :
           /\ P = Prefix(v.shape)[a-1] /\ d = u.shape[a] /\ I = Inner(v.shape, a)
           /\ Count(u) = (P * d) * I
<1>1. PICK n \in Nat : n = Rank(v)
  BY ViewFacts
<1>2. PICK s \in [1 .. n -> Nat], t \in [1 .. n -> Nat], b \in 1 .. n :
        s = u.shape /\ t = v.shape /\ b = a /\ Len(s) = n /\ Len(t) = n
  <2>1. u.shape \in [1 .. n -> Nat] /\ v.shape \in [1 .. n -> Nat]
        /\ Len(u.shape) = n /\ Len(v.shape) = n
    BY <1>1, ViewFacts DEF Rank
  <2> QED BY <1>1, <2>1
<1>3. /\ Prefix(s)[b-1] \in Nat /\ Suffix(s)[b] \in Nat
      /\ Product(s) = (Prefix(s)[b-1] * s[b]) * Suffix(s)[b]
  BY <1>2, SplitProduct
<1>4. PICK j \in 0 .. n, k \in 0 .. n : j = b - 1 /\ k = b
  OBVIOUS
<1>5. Prefix(s)[j] = Prefix(t)[j]
  <2>1. \A i \in 1 .. j : s[i] = t[i]
    BY <1>1, <1>2, <1>4
  <2> QED BY ONLY <1>2, <2>1, n \in Nat, s \in [1 .. n -> Nat], t \in [1 .. n -> Nat],
                  j \in 0 .. n, PrefixAgrees
<1>6. Suffix(s)[k] = Suffix(t)[k]
  <2>1. \A i \in k + 1 .. n : s[i] = t[i]
    BY <1>1, <1>2, <1>4
  <2> QED BY ONLY <1>2, <2>1, n \in Nat, s \in [1 .. n -> Nat], t \in [1 .. n -> Nat],
                  k \in 0 .. n, SuffixAgrees
<1> QED BY <1>2, <1>3, <1>4, <1>5, <1>6 DEF Inner, Count

\* A place of a row that is cut into m blocks lies in one of them.
LEMMA BlockOf ==
  ASSUME NEW m \in Nat, NEW start \in [0 .. m -> Int], start[0] = 0, NEW I \in Nat,
         NEW x \in Nat, x < start[m] * I
  PROVE  \E i \in 1 .. m : x \in start[i-1] * I .. start[i] * I - 1
<1>. DEFINE E(i) == \E j \in 1 .. i : x \in start[j-1] * I .. start[j] * I - 1
            G == {i \in 0 .. m : x < start[i] * I => E(i)}
<1>1. 0 \in G
  <2>1. 0 * I = 0
    OBVIOUS
  <2> QED BY <2>1
<1>2. ASSUME NEW i \in 1 .. m, i - 1 \in G, x < start[i] * I PROVE E(i)
  <2>1. PICK u \in Int, v \in Int : u = start[i-1] * I /\ v = start[i] * I
    <3>1. start[i-1] \in Int /\ start[i] \in Int
      OBVIOUS
    <3>2. \A y, z \in Int : y * z \in Int
      OBVIOUS
    <3> QED BY <3>1, <3>2
  <2>2. CASE x < u
    <3>1. E(i - 1)
      BY <1>2, <2>1, <2>2
    <3>2. 1 .. i - 1 \subseteq 1 .. i
      OBVIOUS
    <3> QED BY <3>1, <3>2
  <2>3. CASE ~(x < u)
    <3>1. x \in u .. v - 1
      BY <1>2, <2>1, <2>3
    <3> QED BY <2>1, <3>1
  <2> QED BY <2>2, <2>3
<1>3. 0 .. m \subseteq G
  <2>. HIDE DEF E
  <2>1. \A i \in 1 .. m : i - 1 \in G => i \in G
    BY <1>2
  <2>. HIDE DEF G
  <2> QED BY <1>1, <2>1, IntervalInduction
<1> QED BY <1>3

\* The element of a block that a place of the output shows.
LEMMA BlockPlace ==
  ASSUME NEW P \in Nat, NEW d \in Nat, NEW I \in Nat, NEW b \in Int, NEW x \in Nat,
         NEW q \in 0 .. P - 1, x \in b * I .. (b + d) * I - 1
  PROVE  q * (d * I) + x - b * I \in 0 .. (P * d) * I - 1
<1>1. PICK u \in Int, B \in Nat : u = b * I /\ B = d * I /\ (b + d) * I = u + B /\ (P * d) * I = P * B
  <2>1. b * I \in Int /\ d * I \in Nat /\ (b + d) * I = b * I + d * I /\ (P * d) * I = P * (d * I)
    BY ONLY b \in Int, d \in Nat, I \in Nat, P \in Nat
  <2> QED BY <2>1
<1>2. PICK y \in 0 .. B - 1 : y = x - u
  <2>1. x \in u .. u + B - 1
    BY <1>1
  <2>2. x - u \in 0 .. B - 1
    BY ONLY <2>1, u \in Int, B \in Nat, x \in Nat
  <2> QED BY <2>2
<1>3. q * B + y \in 0 .. P * B - 1
  BY RowBound
<1>4. PICK z \in Int : z = q * B
  OBVIOUS
<1>5. z + x - u = z + y
  BY ONLY <1>2, z \in Int, x \in Nat, u \in Int, y \in 0 .. B - 1, B \in Nat
<1> QED BY <1>1, <1>3, <1>4, <1>5

\* Element l of the result of CONCAT is element `place' of input i.
ConcatPlace(c, l, i, place) ==
  LET axis == AxisOf(c, Dst(c))
      inner == Inner(Dst(c).shape, axis)
      start == AxisStart(c, axis)
      row == Dst(c).shape[axis] * inner
  IN /\ i \in DOMAIN c.in /\ place \in Linears(c.in[i])
     /\ l % row \in start[i-1] * inner .. start[i] * inner - 1
     /\ place = (l \div row) * (c.in[i].shape[axis] * inner) + (l % row) - start[i-1] * inner
     /\ ConcatResult(c)[l] = Moved(LogicalAddr(c.in[i])[place])

\* CONCAT: the source of every output element is in one of the inputs, the blocks of
\* which fill the axis of the output exactly.
LEMMA ConcatTaken ==
  ASSUME NEW c, c.in \in Seq(Views), c.out \in Seq(Views), ConcatOK(c), NEW l \in Linears(Dst(c))
  PROVE  \E i, place : ConcatPlace(c, l, i, place)
<1>. DEFINE n == Rank(Dst(c))
            t == Dst(c).shape
            axis == AxisOf(c, Dst(c))
            m == Len(c.in)
            d == [i \in DOMAIN c.in |-> c.in[i].shape[axis]]
            start == AxisStart(c, axis)
            inner == Inner(t, axis)
            row == t[axis] * inner
            addr == [i \in DOMAIN c.in |-> LogicalAddr(c.in[i])]
            Block(x) == CHOOSE i \in DOMAIN c.in : x \in start[i-1] * inner .. start[i] * inner - 1
            b == Block(l % row)
            place == (l \div row) * (c.in[b].shape[axis] * inner) + (l % row) - start[b-1] * inner
<1>1. /\ Dst(c) \in Views /\ AllMetaOK(c) /\ m \in Nat /\ DOMAIN c.in = 1 .. m
      /\ n \in Nat /\ t \in [1 .. n -> Nat] /\ Len(t) = n /\ Axes(Dst(c)) = 1 .. n
  <2>1. ExpectIO(c, 1 .. 7, {1}) /\ AllMetaOK(c)
    BY DEF ConcatOK
  <2>2. 1 .. 7 \subseteq Nat \ {0} /\ {1} \subseteq Nat \ {0}
    OBVIOUS
  <2> QED BY <2>1, <2>2, SourceAndResult
<1>2. axis \in 1 .. n
  BY <1>1, AxisInside DEF ConcatOK, AxisOf
<1>3. ASSUME NEW i \in 1 .. m
      PROVE  /\ c.in[i] \in Views /\ Rank(c.in[i]) = n /\ c.in[i].shape \in [1 .. n -> Nat]
             /\ Len(c.in[i].shape) = n /\ \A a \in 1 .. n \ {axis} : c.in[i].shape[a] = t[a]
  <2>1. c.in[i] \in Views
    BY <1>1
  <2>2. Rank(c.in[i]) = n /\ \A a \in 1 .. n \ {axis} : c.in[i].shape[a] = t[a]
    BY <1>1 DEF ConcatOK
  <2> QED BY <2>1, <2>2, ViewFacts DEF Rank
<1>4. /\ d \in [1 .. m -> Nat] /\ start \in [0 .. m -> Int] /\ start[0] = 0
      /\ \A i \in 1 .. m : start[i] = start[i-1] + c.in[i].shape[axis]
      /\ start[m] = t[axis]
  <2>1. d \in [1 .. m -> Nat]
    BY <1>1, <1>2, <1>3
  <2>2. start = Sums(m, d)
    BY DEF AxisStart
  <2>3. d \in [1 .. m -> Int] /\ \A i \in 1 .. m : d[i] = c.in[i].shape[axis]
    BY <1>1, <2>1
  <2>. HIDE DEF d
  <2>4. /\ Sums(m, d) \in [0 .. m -> Int] /\ Sums(m, d)[0] = 0
        /\ \A i \in 1 .. m : Sums(m, d)[i] = Sums(m, d)[i-1] + d[i]
    BY <1>1, <2>3, SumsFacts
  <2>5. start[m] = t[axis]
    BY DEF ConcatOK
  <2> QED BY <2>1, <2>2, <2>3, <2>4, <2>5
<1>. HIDE DEF d, start
<1>5. PICK P \in Nat, N \in Nat, I \in Nat :
        /\ P = Prefix(t)[axis-1] /\ N = t[axis] /\ I = inner /\ Count(Dst(c)) = (P * N) * I
  BY <1>1, <1>2, CountAlong
<1>6. ASSUME NEW i \in 1 .. m
      PROVE  \E e \in Nat : e = c.in[i].shape[axis] /\ Count(c.in[i]) = (P * e) * I
  <2>1. \E Q \in Nat, e \in Nat, J \in Nat :
          /\ Q = Prefix(t)[axis-1] /\ e = c.in[i].shape[axis] /\ J = inner
          /\ Count(c.in[i]) = (Q * e) * J
    <3>1. PICK u \in Views, v \in Views : u = c.in[i] /\ v = Dst(c)
      BY <1>1, <1>3
    <3>2. PICK a \in 1 .. Rank(v) : a = axis
      BY <1>2, <3>1
    <3>3. Rank(u) = Rank(v) /\ \A k \in 1 .. Rank(v) \ {a} : u.shape[k] = v.shape[k]
      BY <1>3, <3>1, <3>2
    <3>4. \E Q \in Nat, e \in Nat, J \in Nat :
            /\ Q = Prefix(v.shape)[a-1] /\ e = u.shape[a] /\ J = Inner(v.shape, a)
            /\ Count(u) = (Q * e) * J
      BY ONLY u \in Views, v \in Views, a \in 1 .. Rank(v), <3>3, CountAlong
    <3> QED BY <3>1, <3>2, <3>4
  <2> QED BY <1>5, <2>1
<1>7. PICK B \in Nat : B = N * I /\ B = row /\ (P * N) * I = P * B
  <2>1. N * I \in Nat /\ (P * N) * I = P * (N * I)
    BY ONLY N \in Nat, I \in Nat, P \in Nat
  <2> QED BY <1>5, <2>1
<1>8. l \div B \in 0 .. P - 1 /\ l % B \in 0 .. B - 1
  <2>1. l \in 0 .. P * B - 1
    BY <1>5, <1>7 DEF Linears
  <2> QED BY ONLY <2>1, P \in Nat, B \in Nat, RowSplit
<1>9. PICK q \in 0 .. P - 1, x \in Nat : q = l \div row /\ x = l % row /\ x < N * I
  <2>1. l % B \in Nat /\ l % B < B
    BY <1>8
  <2> QED BY <1>7, <1>8, <2>1
<1>10. \E i \in 1 .. m : x \in start[i-1] * I .. start[i] * I - 1
  <2>1. x < start[m] * I
    BY <1>4, <1>5, <1>9, SMTT(30)
  <2> QED BY <1>1, <1>4, <2>1, BlockOf
<1>11. b \in 1 .. m /\ x \in start[b-1] * I .. start[b] * I - 1
  <2>. DEFINE Holds(i) == x \in start[i-1] * I .. start[i] * I - 1
  <2>1. b = CHOOSE i \in 1 .. m : Holds(i)
    BY <1>1, <1>5, <1>9
  <2>2. \E i \in 1 .. m : Holds(i)
    BY <1>10
  <2>3. b \in 1 .. m /\ Holds(b)
    <3>. HIDE DEF b, Holds
    <3> QED BY ONLY <2>1, <2>2, ZenonT(30)
  <2> QED BY <2>3
<1>12. ConcatResult(c)[l] = Moved(addr[b][place])
  BY ZenonT(30) DEF ConcatResult, start
<1>. HIDE DEF b
<1>13. place \in Linears(c.in[b])
  <2>1. PICK e \in Nat : e = c.in[b].shape[axis] /\ Count(c.in[b]) = (P * e) * I
    BY <1>6, <1>11
  <2>2. PICK f \in Int : f = start[b-1] /\ start[b] = f + e
    <3>1. start[b] = start[b-1] + c.in[b].shape[axis]
      BY <1>4, <1>11
    <3>2. start[b-1] \in Int
      <4>1. b - 1 \in 0 .. m
        BY <1>1, <1>11
      <4> QED BY <1>4, <4>1
    <3> QED BY <2>1, <3>1, <3>2
  <2>3. x \in f * I .. (f + e) * I - 1
    BY <1>11, <2>2
  <2>4. q * (e * I) + x - f * I \in 0 .. (P * e) * I - 1
    BY ONLY <2>3, P \in Nat, e \in Nat, I \in Nat, f \in Int, x \in Nat, q \in 0 .. P - 1, BlockPlace
  <2>5. place = q * (e * I) + x - f * I
    BY <1>5, <1>9, <2>1, <2>2
  <2> QED BY <2>1, <2>4, <2>5 DEF Linears
<1>14. b \in DOMAIN c.in /\ addr[b][place] = LogicalAddr(c.in[b])[place]
  BY <1>1, <1>11
<1>15. l % row \in start[b-1] * inner .. start[b] * inner - 1
  BY <1>5, <1>9, <1>11
<1>16. place = (l \div row) * (c.in[b].shape[axis] * inner) + (l % row) - start[b-1] * inner
  OBVIOUS
<1>. HIDE DEF place, addr
<1>17. ConcatPlace(c, l, b, place)
  BY <1>12, <1>13, <1>14, <1>15, <1>16 DEF ConcatPlace, start
<1> QED BY <1>17

\* So everything it reads is in its inputs.
LEMMA ConcatLoads ==
  ASSUME NEW c, c.in \in Seq(Views), c.out \in Seq(Views), ConcatOK(c), NEW l \in Linears(Dst(c))
  PROVE  Sound(c, ConcatResult(c)[l])
<1>1. PICK i, place : ConcatPlace(c, l, i, place)
  BY ConcatTaken
<1>2. LogicalAddr(c.in[i])[place] \in Readable(c)
  BY <1>1, ElementInside DEF ConcatOK, ConcatPlace
<1> QED BY <1>1, <1>2, MovedSound DEF ConcatPlace

(* --- reductions and selections ------------------------------------------ *)
\* REDUCE_MAX: an element of the output and a point of the reduced axes are an
\* element of the input.
LEMMA ReduceMaxLoads ==
  ASSUME NEW c, c.in \in Seq(Views), c.out \in Seq(Views), ReduceMaxOK(c), NEW l \in Linears(Dst(c))
  PROVE  Sound(c, ReduceMaxResult(c)[l])
<1>. DEFINE n == Rank(Src(c))
            s == Src(c).shape
            R == Reduced(c)
            K == {a \in Axes(Src(c)) : c.attr.keepdims \/ a \notin R}
            addr == LogicalAddr(Src(c))
            kept == KeptAxes(c)
            axes == InOrder(R)
            extents == [i \in DOMAIN axes |-> s[axes[i]]]
            Source(oc, r) ==
              [a \in Axes(Src(c)) |->
                 IF a \in R
                 THEN Coordinates(extents, r)[CHOOSE i \in DOMAIN axes : axes[i] = a]
                 ELSE oc[CHOOSE i \in DOMAIN kept : kept[i] = a]]
            oc == Coordinates(Dst(c).shape, l)
            Read(i) == addr[RowMajor(s, Source(oc, i - 1))]
<1>1. /\ 1 \in DOMAIN c.in /\ Src(c) \in Views /\ Dst(c) \in Views /\ AllMetaOK(c)
      /\ n \in Nat /\ s \in [1 .. n -> Nat] /\ Axes(Src(c)) = 1 .. n
      /\ Rank(Dst(c)) \in Nat /\ Src(c) = c.in[1]
  BY SourceAndResult DEF ReduceMaxOK, OneToOne
<1>2. CASE ReduceNoop(c)
  <2>1. Dst(c).shape = s
    BY <1>2 DEF ReduceMaxOK
  <2>2. l \in Linears(Src(c))
    BY <2>1 DEF Linears, Count
  <2>. DEFINE source == [m \in Linears(Dst(c)) |-> m]
  <2>3. l \in DOMAIN source /\ source[l] \in Linears(Src(c)) /\ ReduceMaxResult(c) = Gathered(Src(c), source)
    BY <1>2, <2>2 DEF ReduceMaxResult
  <2>. HIDE DEF source
  <2> QED BY <1>1, <2>3, GatheredSound
<1>3. CASE ~ReduceNoop(c)
  <2>1. R \in SUBSET (1 .. n)
    <3>1. \A i \in DOMAIN c.attr.axes : NormalizeAxis(c.attr.axes[i], n) + 1 \in 1 .. n
      BY <1>1, AxisInside DEF ReduceMaxOK
    <3> QED BY <1>1, <3>1 DEF Reduced
  <2>. HIDE DEF R
  <2>2. IsFiniteSet(R) /\ R \in SUBSET Int /\ IsFiniteSet(K) /\ K \in SUBSET Int /\ K \in SUBSET (1 .. n)
    <3>1. IsFiniteSet(1 .. n) /\ 1 .. n \subseteq Int
      <4>1. PICK m \in Nat : m = n
        BY <1>1
      <4>2. IsFiniteSet(1 .. m) /\ 1 .. m \subseteq Int
        BY FS_Interval
      <4> QED BY <4>1, <4>2
    <3>2. K \in SUBSET (1 .. n)
      BY <1>1
    <3>. HIDE DEF K
    <3> QED BY <2>1, <3>1, <3>2, FS_Subset
  <2>3. PICK r \in Nat : r = Cardinality(R) /\ axes \in [1 .. r -> R]
                         /\ \A x \in R : \E i \in 1 .. r : axes[i] = x
    BY <2>2, InOrderMembers
  <2>4. PICK k \in Nat : k = Cardinality(K) /\ kept \in [1 .. k -> K]
                         /\ \A x \in K : \E i \in 1 .. k : kept[i] = x
    <3>1. kept = InOrder(K)
      BY DEF KeptAxes, R
    <3>. HIDE DEF K, kept
    <3>2. /\ Cardinality(K) \in Nat
          /\ InOrder(K) \in [1 .. Cardinality(K) -> K]
          /\ \A x \in K : \E i \in 1 .. Cardinality(K) : InOrder(K)[i] = x
      BY ONLY <2>2, InOrderMembers
    <3> QED BY <3>1, <3>2
  <2>5. Dst(c).shape = [i \in 1 .. k |-> IF kept[i] \in R THEN 1 ELSE s[kept[i]]]
    BY <1>3, <2>4 DEF ReduceMaxOK, R
  <2>. HIDE DEF axes, kept, K
  <2>6. Rank(Dst(c)) = k
    BY <2>5 DEF Rank
  <2>7. oc \in [1 .. k -> Nat] /\ \A i \in 1 .. k : oc[i] \in 0 .. Dst(c).shape[i] - 1
    BY <1>1, <2>6, ElementCoordinates
  <2>8. extents \in [1 .. r -> Nat] /\ Len(extents) = r
    <3>1. \A i \in 1 .. r : axes[i] \in R /\ s[axes[i]] \in Nat
      BY <1>1, <2>1, <2>3
    <3> QED BY <2>3, <3>1
  <2>9. Product(extents) = Suffix(extents)[0] /\ Product(extents) \in Nat
    <3>. HIDE DEF extents
    <3> QED BY <2>8, CountIsSuffix
  <2>. HIDE DEF oc
  <2>10. ASSUME NEW i \in 1 .. Product(extents) PROVE Read(i) \in Readable(c)
    <3>. DEFINE y == Coordinates(extents, i - 1)
                x == Source(oc, i - 1)
    <3>0. \A j \in 1 .. r : extents[j] = s[axes[j]]
      BY <2>3
    <3>1. y \in [1 .. r -> Nat] /\ \A j \in 1 .. r : y[j] \in 0 .. extents[j] - 1
      <4>. HIDE DEF extents
      <4>1. Product(extents) # 0 /\ i - 1 \in Nat
        BY <2>9
      <4>2. \A j \in 1 .. r : extents[j] >= 1
        BY <2>8, <2>9, <4>1, PositiveExtents
      <4>3. y \in [1 .. r -> Nat] /\ InShape(extents, y)
        BY <2>8, <4>1, <4>2, CoordinatesInShape
      <4>. HIDE DEF y
      <4> QED BY <2>8, <4>3 DEF InShape
    <3>2. x = [a \in 1 .. n |-> IF a \in R THEN y[CHOOSE j \in 1 .. r : axes[j] = a]
                                ELSE oc[CHOOSE j \in 1 .. k : kept[j] = a]]
      BY <1>1, <2>3, <2>4
    <3>. HIDE DEF y, extents, x
    <3>3. ASSUME NEW a \in 1 .. n, a \in R
          PROVE  y[CHOOSE j \in 1 .. r : axes[j] = a] \in 0 .. s[a] - 1
      <4>1. PICK j \in 1 .. r : j = CHOOSE h \in 1 .. r : axes[h] = a
        BY <2>3, <3>3
      <4>2. axes[j] = a
        BY <2>3, <3>3, <4>1
      <4> QED BY <3>0, <3>1, <4>1, <4>2
    <3>4. ASSUME NEW a \in 1 .. n, a \notin R
          PROVE  oc[CHOOSE j \in 1 .. k : kept[j] = a] \in 0 .. s[a] - 1
      <4>0. a \in K
        BY <1>1, <3>4 DEF K
      <4>1. PICK j \in 1 .. k : j = CHOOSE h \in 1 .. k : kept[h] = a
        BY <2>4, <4>0
      <4>2. kept[j] = a
        BY <2>4, <4>0, <4>1
      <4>3. Dst(c).shape[j] = s[a]
        BY <2>5, <3>4, <4>2
      <4> QED BY <2>7, <4>1, <4>3
    <3>5. \A a \in 1 .. n : x[a] \in 0 .. s[a] - 1
      BY <3>2, <3>3, <3>4
    <3>6. x \in [1 .. n -> Nat]
      <4>1. \A a \in 1 .. n : x[a] \in Nat
        BY <1>1, <3>5
      <4> QED BY <3>2, <4>1
    <3>7. RowMajor(s, x) \in Linears(Src(c))
      BY <1>1, <3>5, <3>6, CellNumbered
    <3>8. addr[RowMajor(s, x)] \in Readable(c)
      BY <1>1, <3>7, ElementInside
    <3> QED BY <3>8 DEF x, y, extents
  <2>11. ReduceMaxResult(c)[l] = Term("max", <<>>, [i \in 1 .. Product(extents) |-> Read(i)])
    BY <1>3 DEF ReduceMaxResult, ReducedExtents, R, axes, kept, oc
  <2>. HIDE DEF Read
  <2>12. [i \in 1 .. Product(extents) |-> Read(i)] \in Seq(Readable(c)) /\ "max" \in Functions
    <3>. HIDE DEF extents
    <3>1. PICK m \in Nat : m = Product(extents)
      BY <2>9
    <3>2. [i \in 1 .. m |-> Read(i)] \in Seq(Readable(c))
      BY <2>10, <3>1
    <3> QED BY <3>1, <3>2 DEF Functions
  <2> QED BY <2>11, <2>12, TermSound
<1> QED BY <1>2, <1>3

\* The numbers MAX_POOL and TOP_K compare are those the buffer of the input holds.
LEMMA ValuesTyped ==
  ASSUME NEW c, c.in \in Seq(Views), AllMetaOK(c), 1 \in DOMAIN c.in, c.in[1].dtype = "F16",
         \A i \in 0 .. c.in[1].bytes \div 2 - 1 : c.vals[i] \in Int,
         NEW l \in Linears(Src(c))
  PROVE  Values(c)[l] \in Int
<1>. DEFINE v == c.in[1]
            a == LogicalAddr(v)[l]
<1>1. v \in Views /\ MetaOK(v) /\ l \in Linears(v) /\ SizeOf(v) = 2
  BY DEF AllMetaOK, ViewsOf, Src, SizeOf, ElementSize
<1>2. a \in Extent(v, 2)
  BY <1>1, LogicalAddrInBounds DEF Extent
<1>3. v.data \in Nat /\ v.bytes \in Nat
  BY <1>1, ViewFacts
<1>. HIDE DEF a
<1>4. PICK d \in Nat, b \in Nat, x \in Nat : d = v.data /\ b = v.bytes /\ x = a /\ x \in d .. d + b - 2
  BY <1>2, <1>3 DEF Extent
<1>5. (x - d) \div 2 \in 0 .. b \div 2 - 1
  <2>1. PICK y \in Nat : y = x - d /\ y + 2 <= b
    BY ONLY <1>4, d \in Nat, b \in Nat, x \in Nat
  <2>2. y \div 2 \in Nat /\ y \div 2 + 1 <= b \div 2 /\ b \div 2 \in Nat
    BY <2>1
  <2>3. y \div 2 \in 0 .. b \div 2 - 1
    BY <2>2
  <2> QED BY <2>1, <2>3
<1>6. Values(c)[l] = c.vals[(a - v.data) \div SizeOf(v)]
  BY <1>1 DEF Values, a
<1>7. Values(c)[l] = c.vals[(x - d) \div 2]
  BY <1>1, <1>4, <1>6
<1> QED BY <1>4, <1>5, <1>7

AheadOf(c, row, values, i) == {j \in DOMAIN row : Precedes(c, row, values, j, i)}

\* The comparison of the stable sort orders the places of a row, so that the
\* s-th place exists for every s.
LEMMA RankedInside ==
  ASSUME NEW c, NEW n \in Nat, NEW row, DOMAIN row = 1 .. n, NEW values,
         \A i \in 1 .. n : values[row[i]] \in Int, NEW s \in 0 .. n - 1
  PROVE  \E i \in 1 .. n : i = Ranked(c, row, values, s) /\ Cardinality(AheadOf(c, row, values, i)) = s
<1>. DEFINE Before == [i \in 1 .. n |-> {j \in 1 .. n : Precedes(c, row, values, j, i)}]
<1>1. \A i, j \in 1 .. n : i \in Before[j] <=> Precedes(c, row, values, i, j)
  OBVIOUS
<1>2. Before \in [1 .. n -> SUBSET (1 .. n)]
  OBVIOUS
<1>. HIDE DEF Before
<1>3. \A i \in 1 .. n : ~Precedes(c, row, values, i, i)
  BY DEF Precedes
<1>4. \A i, j \in 1 .. n : i = j \/ Precedes(c, row, values, i, j) \/ Precedes(c, row, values, j, i)
  BY DEF Precedes
<1>5. \A i, j, k \in 1 .. n :
        Precedes(c, row, values, i, j) /\ Precedes(c, row, values, k, i) => Precedes(c, row, values, k, j)
  BY DEF Precedes
<1>6. TotalOrder(1 .. n, Before)
  BY <1>1, <1>2, <1>3, <1>4, <1>5 DEF TotalOrder
<1>7. IsFiniteSet(1 .. n) /\ Cardinality(1 .. n) = n
  <2>1. IsFiniteSet(1 .. n) /\ Cardinality(1 .. n) = IF 1 > n THEN 0 ELSE n - 1 + 1
    BY FS_Interval
  <2> QED BY <2>1
<1>8. PICK f \in Bijection(1 .. n, 0 .. n - 1) : \A x \in 1 .. n : f[x] = Cardinality(Before[x])
  BY <1>6, <1>7, Ranks
<1>9. PICK i \in 1 .. n : f[i] = s
  BY DEF Bijection, Surjection
<1>10. Cardinality({j \in DOMAIN row : Precedes(c, row, values, j, i)}) = s
  BY <1>8, <1>9 DEF Before
<1> QED BY <1>10 DEF Ranked, AheadOf

\* TOP_K: the ranks below k name elements of the row, as k is at most its length.
LEMMA TopKLoads ==
  ASSUME NEW c, c.in \in Seq(Views), c.out \in Seq(Views), TopKOK(c),
         \A i \in 0 .. c.in[1].bytes \div 2 - 1 : c.vals[i] \in Int,
         NEW l \in Linears(Dst(c))
  PROVE  Sound(c, TopKResult(c)[1][l])
<1>. DEFINE axis == AxisOf(c, Src(c))
            shape == Src(c).shape
            addr == LogicalAddr(Src(c))
            values == Values(c)
            inner == Inner(shape, axis)
            k == c.attr.k
            base == (l \div (k * inner)) * shape[axis] * inner + (l % inner)
            row == RowOf(shape, axis, base)
            place == Ranked(c, row, values, (l \div inner) % k)
<1>1. /\ 1 \in DOMAIN c.in /\ Src(c) \in Views /\ Dst(c) \in Views /\ AllMetaOK(c)
      /\ Src(c) = c.in[1] /\ Rank(Src(c)) \in Nat /\ shape \in [1 .. Rank(Src(c)) -> Nat]
      /\ Src(c).dtype = "F16" /\ Dst(c).shape = [shape EXCEPT ![axis] = k] /\ k \in 1 .. shape[axis]
  <2>1. ExpectIO(c, {1}, {2}) /\ AllMetaOK(c)
    BY DEF TopKOK
  <2>2. {1} \subseteq Nat \ {0} /\ {2} \subseteq Nat \ {0}
    OBVIOUS
  <2> QED BY <2>1, <2>2, SourceAndResult DEF TopKOK
<1>2. axis \in 1 .. Rank(Src(c))
  BY <1>1, AxisInside DEF TopKOK, AxisOf
<1>. HIDE DEF axis
<1>3. /\ Rank(Dst(c)) = Rank(Src(c)) /\ Dst(c).shape[axis] = k
      /\ \A a \in 1 .. Rank(Src(c)) \ {axis} : Dst(c).shape[a] = shape[a]
  BY <1>1, <1>2 DEF Rank
<1>4. PICK P \in Nat, n \in Nat, I \in Nat :
        /\ P = Prefix(shape)[axis-1] /\ n = shape[axis] /\ I = inner
        /\ Count(Src(c)) = (P * n) * I
  <2>1. PICK v \in Views : v = Src(c) /\ Rank(v) \in Nat
    BY <1>1
  <2>2. PICK a \in 1 .. Rank(v) : a = axis
    BY <1>2, <2>1
  <2>3. PICK u \in Views : u = v /\ Rank(u) = Rank(v) /\ \A i \in 1 .. Rank(v) \ {a} : u.shape[i] = v.shape[i]
    BY <2>1
  <2>4. \E P \in Nat, d \in Nat, J \in Nat :
          /\ P = Prefix(v.shape)[a-1] /\ d = u.shape[a] /\ J = Inner(v.shape, a)
          /\ Count(u) = (P * d) * J
    BY ONLY CountAlong, u \in Views, v \in Views, a \in 1 .. Rank(v), <2>3
  <2> QED BY <2>1, <2>2, <2>3, <2>4
<1>5. PICK K \in Nat : K = k /\ Count(Dst(c)) = (P * K) * I /\ K \in 1 .. n
  <2>1. \E Q \in Nat, d \in Nat, J \in Nat :
          /\ Q = Prefix(shape)[axis-1] /\ d = Dst(c).shape[axis] /\ J = inner
          /\ Count(Dst(c)) = (Q * d) * J
    <3>1. PICK u \in Views, v \in Views : u = Dst(c) /\ v = Src(c)
      BY <1>1
    <3>2. PICK a \in 1 .. Rank(v) : a = axis
      BY <1>2, <3>1
    <3>3. Rank(u) = Rank(v) /\ \A i \in 1 .. Rank(v) \ {a} : u.shape[i] = v.shape[i]
      BY <1>3, <3>1, <3>2
    <3>4. \E Q \in Nat, d \in Nat, J \in Nat :
            /\ Q = Prefix(v.shape)[a-1] /\ d = u.shape[a] /\ J = Inner(v.shape, a)
            /\ Count(u) = (Q * d) * J
      BY ONLY CountAlong, u \in Views, v \in Views, a \in 1 .. Rank(v), <3>3
    <3> QED BY <3>1, <3>2, <3>4
  <2> QED BY <1>1, <1>3, <1>4, <2>1
<1>6. PICK B \in Nat : B = K * I /\ (P * K) * I = P * B
  <2>1. K * I \in Nat /\ (P * K) * I = P * (K * I)
    BY ONLY K \in Nat, I \in Nat, P \in Nat
  <2> QED BY <2>1
<1>7. l \in 0 .. P * B - 1 /\ l \in Nat
  <2>1. l \in 0 .. P * B - 1
    BY <1>5, <1>6 DEF Linears
  <2>2. P * B \in Nat
    OBVIOUS
  <2> QED BY <2>1, <2>2
<1>8. l \div B \in 0 .. P - 1 /\ B >= 1
  BY ONLY <1>7, P \in Nat, B \in Nat, RowSplit
<1>9. I >= 1
  <2>1. I = 0 => K * I = 0
    OBVIOUS
  <2> QED BY <1>6, <1>8, <2>1
<1>10. l % I \in 0 .. I - 1 /\ l \div I \in Nat
  BY <1>7, <1>9, QuotientNat
<1>11. base \in Linears(Src(c))
  <2>0. 0 \in 0 .. n - 1
    BY ONLY <1>5, n \in Nat, K \in Nat
  <2>1. PICK o \in 0 .. P - 1, j \in 0 .. n - 1, r \in 0 .. I - 1 : o = l \div B /\ j = 0 /\ r = l % I
    BY ONLY <2>0, <1>8, <1>10
  <2>2. o * n * I + j * I + r \in 0 .. (P * n) * I - 1
    BY RowPlace
  <2>3. o * n * I + j * I + r = o * n * I + r
    <3>1. PICK z \in Int : z = o * n * I
      <4>1. o * n * I \in Int
        OBVIOUS
      <4> QED BY <4>1
    <3>2. j * I = 0
      BY <2>1
    <3> QED BY <3>1, <3>2
  <2>4. base = o * n * I + r
    BY <1>4, <1>5, <1>6, <2>1
  <2> QED BY <1>4, <2>2, <2>3, <2>4 DEF Linears
<1>. HIDE DEF base
<1>12. DOMAIN row = 1 .. n /\ \A i \in 1 .. n : row[i] \in Linears(Src(c))
  <2>1. row = [j \in 1 .. n |-> RowAt(shape, axis, base, j - 1)]
    BY <1>4 DEF RowOf
  <2>2. ASSUME NEW i \in 1 .. n PROVE RowAt(shape, axis, base, i - 1) \in Linears(Src(c))
    <3>1. PICK j \in 0 .. shape[axis] - 1 : j = i - 1
      BY <1>4
    <3>2. RowAt(shape, axis, base, j) \in Linears(Src(c))
      BY <1>1, <1>2, <1>11, RowAtInside
    <3> QED BY <3>1, <3>2
  <2> QED BY <2>1, <2>2
<1>. HIDE DEF row
<1>13. \A i \in 1 .. n : values[row[i]] \in Int
  BY <1>1, <1>12, ValuesTyped
<1>14. (l \div inner) % k \in 0 .. n - 1
  <2>1. PICK y \in Nat : y = l \div I
    BY <1>10
  <2>2. y % K \in 0 .. K - 1
    <3>1. K >= 1
      BY ONLY <1>5, K \in Nat, n \in Nat
    <3> QED BY ONLY <3>1, K \in Nat, y \in Nat, QuotientNat
  <2> QED BY <1>4, <1>5, <2>1, <2>2
<1>. HIDE DEF values
<1>15. place \in 1 .. n
  BY <1>12, <1>13, <1>14, RankedInside
<1>. HIDE DEF place
<1>16. addr[row[place]] \in Readable(c)
  BY <1>1, <1>12, <1>15, ElementInside
<1>17. TopKResult(c)[1][l] = Moved(addr[row[place]])
  BY DEF TopKResult, row, base, place, values, axis
<1>. HIDE DEF addr
<1> QED BY <1>16, <1>17, MovedSound

\* A window with a cell has a first largest one.
LEMMA FirstMaxInside ==
  ASSUME NEW n \in Nat, n >= 1, NEW window, DOMAIN window = 1 .. n, NEW values,
         \A i \in 1 .. n : values[window[i]] \in Int
  PROVE  /\ FirstMax(window, values) \in 1 .. n
         /\ \A j \in 1 .. n : values[window[j]] <= values[window[FirstMax(window, values)]]
         /\ \A j \in 1 .. FirstMax(window, values) - 1 :
              values[window[j]] < values[window[FirstMax(window, values)]]
<1>. DEFINE falling == [attr |-> [largest |-> 1]]
            i == Ranked(falling, window, values, 0)
            Ahead == {j \in 1 .. n : Precedes(falling, window, values, j, i)}
<1>1. i \in 1 .. n /\ Cardinality(Ahead) = 0
  <2>1. PICK s \in 0 .. n - 1 : s = 0
    OBVIOUS
  <2>. HIDE DEF falling
  <2>2. \E k \in 1 .. n : /\ k = Ranked(falling, window, values, s)
                           /\ Cardinality(AheadOf(falling, window, values, k)) = s
    BY RankedInside
  <2> QED BY <2>1, <2>2 DEF AheadOf
<1>2. Ahead = {}
  <2>1. IsFiniteSet(1 .. n)
    BY FS_Interval
  <2>2. IsFiniteSet(Ahead)
    BY <2>1, FS_Subset
  <2> QED BY <1>1, <2>2, FS_EmptySet
<1>. HIDE DEF i
<1>3. \A j \in 1 .. n : ~(values[window[j]] > values[window[i]])
                        /\ ~(values[window[j]] = values[window[i]] /\ j < i)
  BY <1>2 DEF Precedes
<1>4. \A j \in 1 .. n : values[window[j]] <= values[window[i]]
  BY <1>1, <1>3
<1>5. \A j \in 1 .. i - 1 : values[window[j]] < values[window[i]]
  <2>1. ASSUME NEW j \in 1 .. i - 1 PROVE values[window[j]] < values[window[i]]
    <3>1. j \in 1 .. n /\ j < i
      BY <1>1
    <3> QED BY <1>1, <1>3, <3>1
  <2> QED BY <2>1
<1> QED BY <1>1, <1>4, <1>5 DEF FirstMax

\* The cells under a window lie in the input, and there is a number of them.
LEMMA WindowInside ==
  ASSUME NEW c, Src(c) \in Views, Rank(Src(c)) = 4, c.attr \in PoolAttrs,
         NEW oc, oc[1] \in 0 .. Src(c).shape[1] - 1, oc[2] \in 0 .. Src(c).shape[2] - 1,
         oc[3] \in Nat, oc[4] \in Nat
  PROVE  \E n \in Nat : /\ DOMAIN Window(c, oc) = 1 .. n
                        /\ \A i \in 1 .. n : Window(c, oc)[i] \in Linears(Src(c))
                        /\ n = 0 => Window(c, oc) = <<>>
<1>. DEFINE is == Src(c).shape
            raw(d, k) == oc[d + 2] * AtLeast1(c.attr.stride[d]) + k * AtLeast1(c.attr.dilation[d])
            inside(d, k) == raw(d, k) - c.attr.pad_before[d] \in 0 .. is[d + 2] - 1
            ky(t) == t \div c.attr.kernel[2]
            kx(t) == t % c.attr.kernel[2]
            taps == {t \in 0 .. c.attr.kernel[1] * c.attr.kernel[2] - 1 :
                       inside(1, ky(t)) /\ inside(2, kx(t))}
            kept == InOrder(taps)
            at(t) == ((oc[1] * is[2] + oc[2]) * is[3] + raw(1, ky(t)) - c.attr.pad_before[1]) * is[4]
                       + raw(2, kx(t)) - c.attr.pad_before[2]
<1>1. is \in [1 .. 4 -> Nat]
  BY ViewFacts DEF Rank
<1>2. c.attr.kernel[1] \in Nat /\ c.attr.kernel[2] \in Nat
  BY AttrAssumption DEF PoolAttrs, U32Pairs, U32
<1>3. taps \in SUBSET Int /\ IsFiniteSet(taps)
  <2>1. PICK K \in Nat : K = c.attr.kernel[1] * c.attr.kernel[2]
    BY <1>2
  <2>2. IsFiniteSet(0 .. K - 1)
    BY FS_Interval
  <2>3. taps \subseteq 0 .. K - 1
    BY <2>1
  <2>. HIDE DEF taps
  <2>4. IsFiniteSet(taps)
    BY <2>2, <2>3, FS_Subset
  <2> QED BY <2>3, <2>4
<1>4. Window(c, oc) = [i \in DOMAIN kept |-> at(kept[i])]
  BY DEF Window
<1>5. ASSUME NEW t \in taps PROVE at(t) \in Linears(Src(c))
  <2>1. inside(1, ky(t)) /\ inside(2, kx(t))
    OBVIOUS
  <2>. HIDE DEF ky, kx
  <2>2. PICK w \in 0 .. Src(c).shape[1] - 1, x \in 0 .. Src(c).shape[2] - 1,
             y \in 0 .. Src(c).shape[3] - 1, z \in 0 .. Src(c).shape[4] - 1 :
          /\ w = oc[1] /\ x = oc[2]
          /\ y = raw(1, ky(t)) - c.attr.pad_before[1] /\ z = raw(2, kx(t)) - c.attr.pad_before[2]
    <3>1. 1 + 2 = 3 /\ 2 + 2 = 4
      OBVIOUS
    <3> QED BY <2>1, <3>1
  <2>3. ((w * is[2] + x) * is[3] + y) * is[4] + z \in Linears(Src(c))
    BY FourAxes
  <2>4. raw(1, ky(t)) \in Int /\ raw(2, kx(t)) \in Int /\ c.attr.pad_before[1] \in Int /\ c.attr.pad_before[2] \in Int
    <3>1. ky(t) \in Int /\ kx(t) \in Int
      <4>1. PICK A \in Nat, B \in Nat : A = c.attr.kernel[1] /\ B = c.attr.kernel[2]
        BY <1>2
      <4>2. t \in 0 .. A * B - 1
        BY <4>1 DEF taps
      <4>3. t \div B \in 0 .. A - 1 /\ t % B \in 0 .. B - 1
        BY ONLY <4>2, A \in Nat, B \in Nat, RowSplit
      <4> QED BY <4>1, <4>3 DEF ky, kx
    <3>2. /\ c.attr.pad_before \in U32Pairs /\ c.attr.stride \in U32Pairs /\ c.attr.dilation \in U32Pairs
      BY DEF PoolAttrs
    <3>3. ASSUME NEW d \in {1, 2}
          PROVE  /\ c.attr.pad_before[d] \in Nat
                 /\ AtLeast1(c.attr.stride[d]) \in Nat /\ AtLeast1(c.attr.dilation[d]) \in Nat
      BY <3>2, AttrAssumption DEF U32Pairs, U32, AtLeast1
    <3>4. ASSUME NEW o \in Nat, NEW s \in Nat, NEW k \in Int, NEW e \in Nat PROVE o * s + k * e \in Int
      OBVIOUS
    <3>5. 1 + 2 = 3 /\ 2 + 2 = 4
      OBVIOUS
    <3> QED BY <3>1, <3>3, <3>4, <3>5
  <2> QED BY <2>2, <2>3, <2>4
<1>. HIDE DEF taps, at
<1>6. PICK n \in Nat : n = Cardinality(taps) /\ kept \in [1 .. n -> taps]
  BY <1>3, InOrderMembers
<1>. HIDE DEF kept
<1>7. DOMAIN Window(c, oc) = 1 .. n /\ \A i \in 1 .. n : Window(c, oc)[i] \in Linears(Src(c))
  <2>1. DOMAIN kept = 1 .. n
    BY <1>6
  <2>2. ASSUME NEW i \in 1 .. n PROVE Window(c, oc)[i] \in Linears(Src(c))
    <3>1. Window(c, oc)[i] = at(kept[i]) /\ kept[i] \in taps
      BY <1>4, <1>6, <2>1
    <3> QED BY <1>5, <3>1
  <2> QED BY <1>4, <2>1, <2>2
<1>8. n = 0 => Window(c, oc) = <<>>
  <2>1. ASSUME n = 0 PROVE Window(c, oc) = <<>>
    <3>1. 1 .. n = {}
      BY <2>1
    <3>2. DOMAIN kept = {}
      BY <1>6, <3>1
    <3> QED BY <1>4, <3>2
  <2> QED BY <2>1
<1> QED BY <1>7, <1>8

\* MAX_POOL: the greatest element of a window is one of those inside the image.
LEMMA MaxPoolLoads ==
  ASSUME NEW c, c.in \in Seq(Views), c.out \in Seq(Views), c.attr \in PoolAttrs, MaxPoolOK(c),
         \A i \in 0 .. c.in[1].bytes \div 2 - 1 : c.vals[i] \in Int,
         NEW l \in Linears(Dst(c))
  PROVE  Sound(c, MaxPoolResult(c)[1][l])
<1>. DEFINE addr == LogicalAddr(Src(c))
            values == Values(c)
            w == Window(c, Coordinates(Dst(c).shape, l))
            best == IF w = <<>> THEN -1 ELSE w[FirstMax(w, values)]
<1>1. /\ 1 \in DOMAIN c.in /\ Src(c) \in Views /\ Dst(c) \in Views /\ AllMetaOK(c)
      /\ Src(c) = c.in[1] /\ Rank(Src(c)) = 4 /\ Rank(Dst(c)) = 4
      /\ Src(c).dtype = "F16" /\ Src(c).shape[1] = Dst(c).shape[1] /\ Src(c).shape[2] = Dst(c).shape[2]
  <2>1. ExpectIO(c, {1}, 1 .. 2) /\ AllMetaOK(c)
    BY DEF MaxPoolOK
  <2>2. {1} \subseteq Nat \ {0} /\ 1 .. 2 \subseteq Nat \ {0}
    OBVIOUS
  <2> QED BY <2>1, <2>2, SourceAndResult DEF MaxPoolOK
<1>2. /\ Coordinates(Dst(c).shape, l)[1] \in 0 .. Src(c).shape[1] - 1
      /\ Coordinates(Dst(c).shape, l)[2] \in 0 .. Src(c).shape[2] - 1
      /\ Coordinates(Dst(c).shape, l)[3] \in Nat /\ Coordinates(Dst(c).shape, l)[4] \in Nat
  <2>1. 1 \in 1 .. 4 /\ 2 \in 1 .. 4 /\ 3 \in 1 .. 4 /\ 4 \in 1 .. 4
    OBVIOUS
  <2> QED BY <1>1, <2>1, ElementCoordinates
<1>3. PICK n \in Nat : /\ DOMAIN w = 1 .. n /\ \A i \in 1 .. n : w[i] \in Linears(Src(c))
                       /\ n = 0 => w = <<>>
  BY <1>1, <1>2, WindowInside
<1>4. MaxPoolResult(c)[1][l] = IF best = -1 THEN Term("minus_infinity", <<>>, <<>>) ELSE Moved(addr[best])
  BY DEF MaxPoolResult
<1>. HIDE DEF w, values, addr
<1>5. CASE best = -1
  <2>1. "minus_infinity" \in Functions
    BY DEF Functions
  <2>2. <<>> \in Seq(Readable(c))
    OBVIOUS
  <2> QED BY <1>4, <1>5, <2>1, <2>2, TermSound
<1>6. CASE best # -1
  <2>1. n >= 1 /\ best = w[FirstMax(w, values)]
    BY <1>3, <1>6
  <2>2. \A i \in 1 .. n : values[w[i]] \in Int
    BY <1>1, <1>3, ValuesTyped DEF values
  <2>3. FirstMax(w, values) \in 1 .. n
    BY <1>3, <2>1, <2>2, FirstMaxInside
  <2>4. best \in Linears(Src(c))
    BY <1>3, <2>1, <2>3
  <2>. HIDE DEF best
  <2>5. /\ 1 \in DOMAIN c.in /\ AllMetaOK(c) /\ Src(c) = c.in[1]
        /\ best \in Linears(c.in[1]) /\ c.in \in Seq(Views)
    BY <1>1, <2>4
  <2>6. LogicalAddr(c.in[1])[best] \in Readable(c)
    BY ONLY <2>5, ElementInside
  <2>7. addr[best] \in Readable(c)
    BY <2>5, <2>6, Zenon DEF addr
  <2> QED BY <1>4, <1>6, <2>7, MovedSound
<1> QED BY <1>5, <1>6

(* --- products ----------------------------------------------------------- *)
\* The pairs a product accumulates, without those that meet a padding cell.
LEMMA PairedMembers ==
  ASSUME NEW n \in Nat, NEW pairs, DOMAIN pairs = 1 .. n, NEW R,
         \A d \in 1 .. n : \A i \in {1, 2} : pairs[d][i] \in R \cup {0}
  PROVE  Paired(pairs) \in Seq(R)
<1>. DEFINE S == {d \in DOMAIN pairs : pairs[d][1] # 0 /\ pairs[d][2] # 0}
            real == InOrder(S)
<1>1. S \in SUBSET Int /\ IsFiniteSet(S) /\ S \subseteq 1 .. n
  <2>1. S \subseteq 1 .. n
    OBVIOUS
  <2>2. IsFiniteSet(1 .. n)
    BY FS_Interval
  <2>. HIDE DEF S
  <2>3. IsFiniteSet(S)
    BY <2>1, <2>2, FS_Subset
  <2> QED BY <2>1, <2>3
<1>2. \A d \in S : pairs[d][1] \in R /\ pairs[d][2] \in R
  OBVIOUS
<1>3. Paired(pairs) = [i \in 1 .. 2 * Len(real) |-> pairs[real[(i + 1) \div 2]][IF i % 2 = 1 THEN 1 ELSE 2]]
  BY DEF Paired
<1>. HIDE DEF S
<1>4. PICK m \in Nat : m = Cardinality(S) /\ real \in [1 .. m -> S]
  BY <1>1, InOrderMembers
<1>. HIDE DEF real
<1>5. Len(real) = m
  <2>1. real \in Seq(S)
    BY <1>4
  <2> QED BY <1>4, <2>1
<1>6. ASSUME NEW i \in 1 .. 2 * m
      PROVE  pairs[real[(i + 1) \div 2]][IF i % 2 = 1 THEN 1 ELSE 2] \in R
  <2>1. (i + 1) \div 2 \in 1 .. m
    OBVIOUS
  <2>2. real[(i + 1) \div 2] \in S
    BY <1>4, <2>1
  <2> QED BY <1>2, <2>2
<1>7. 2 * m \in Nat
  OBVIOUS
<1> QED BY <1>3, <1>5, <1>6, <1>7

\* A tile holds elements of its row of the operand, and padding.
LEMMA PackedMembers ==
  ASSUME NEW k \in Nat, NEW row \in Nat, NEW depth \in Nat, NEW operand, NEW R,
         \A e \in 0 .. k - 1 : operand[<<row, e>>] \in R \cup {0},
         NEW i \in 0 .. Tile * Tile - 1
  PROVE  Packed(k, row, depth, operand)[i] \in R \cup {0}
<1>. DEFINE first == (row \div Tile) * Tile
<1>1. Tile \in Nat /\ Tile >= 1 /\ i \in Nat
  <2>1. Tile \in Nat /\ Tile >= 1 /\ Tile * Tile \in Nat
    BY TileAssumption
  <2> QED BY <2>1
<1>2. i \div Tile \in Nat /\ i % Tile \in Nat /\ row \div Tile \in Nat
  BY <1>1, QuotientNat
<1>3. first \in Nat
  BY <1>1, <1>2
<1>4. Packed(k, row, depth, operand)[i] =
        IF depth + (i % Tile) < k /\ i \div Tile = row - first
        THEN operand[<<first + (i \div Tile), depth + (i % Tile)>>] ELSE 0
  BY DEF Packed
<1>. HIDE DEF first
<1>5. CASE depth + (i % Tile) < k /\ i \div Tile = row - first
  <2>1. PICK e \in 0 .. k - 1 : e = depth + (i % Tile)
    BY <1>2, <1>5
  <2>2. first + (i \div Tile) = row
    BY <1>2, <1>3, <1>5
  <2> QED BY <1>4, <1>5, <2>1, <2>2
<1>6. CASE ~(depth + (i % Tile) < k /\ i \div Tile = row - first)
  BY <1>4, <1>6
<1> QED BY <1>5, <1>6

\* The product of a row and a column reads their elements and nothing else.
LEMMA DotMembers ==
  ASSUME NEW k \in Nat, NEW row \in Nat, NEW col \in Nat, NEW lhs, NEW rhs, NEW R,
         \A e \in 0 .. k - 1 : lhs[<<row, e>>] \in R \cup {0} /\ rhs[<<col, e>>] \in R \cup {0},
         NEW vector
  PROVE  Dot(vector, k, row, col, lhs, rhs) \in Seq(R)
<1>1. ScalarDot(k, row, col, lhs, rhs) \in Seq(R)
  <2>. DEFINE pairs == [d \in 1 .. k |-> <<lhs[<<row, d - 1>>], rhs[<<col, d - 1>>]>>]
  <2>1. ASSUME NEW d \in 1 .. k PROVE pairs[d][1] \in R \cup {0} /\ pairs[d][2] \in R \cup {0}
    <3>1. d - 1 \in 0 .. k - 1
      OBVIOUS
    <3> QED BY <3>1
  <2>2. DOMAIN pairs = 1 .. k
    OBVIOUS
  <2>. HIDE DEF pairs
  <2>3. Paired(pairs) \in Seq(R)
    BY <2>1, <2>2, PairedMembers
  <2> QED BY <2>3 DEF ScalarDot, pairs
<1>2. TiledDot(k, row, col, lhs, rhs) \in Seq(R)
  <2>1. PICK D \in Nat : D = DepthTiles(k)
    <3>1. Tile \in Nat /\ Tile >= 1
      BY TileAssumption
    <3>2. (k + Tile - 1) \div Tile \in Nat
      BY <3>1, QuotientNat
    <3> QED BY <3>2 DEF DepthTiles
  <2>2. PICK T \in Nat : T = Tile /\ T >= 1
    BY TileAssumption
  <2>. DEFINE tiles == 0 .. D - 1
              l == [t \in tiles |-> Packed(k, row, t * Tile, lhs)]
              r == [t \in tiles |-> Packed(k, col, t * Tile, rhs)]
              cell(tile, line, d) == tile[d \div Tile][(line % Tile) * Tile + (d % Tile)]
              pairs == [d \in 1 .. D * Tile |-> <<cell(l, row, d - 1), cell(r, col, d - 1)>>]
  <2>3. ASSUME NEW line \in Nat, NEW d \in 0 .. D * T - 1
        PROVE  d \div T \in 0 .. D - 1 /\ (line % T) * T + (d % T) \in 0 .. T * T - 1
    <3>1. d \div T \in 0 .. D - 1 /\ d % T \in 0 .. T - 1
      BY RowSplit
    <3>2. line % T \in 0 .. T - 1
      BY <2>2, QuotientNat
    <3>3. PICK x \in 0 .. T - 1, y \in 0 .. T - 1 : x = line % T /\ y = d % T
      BY <3>1, <3>2
    <3>4. x * T + y \in 0 .. T * T - 1
      BY RowBound
    <3> QED BY <3>1, <3>3, <3>4
  <2>4. ASSUME NEW t \in 0 .. D - 1 PROVE t * Tile \in Nat
    BY <2>2
  <2>5. ASSUME NEW d \in 1 .. D * T
        PROVE  pairs[d][1] \in R \cup {0} /\ pairs[d][2] \in R \cup {0}
    <3>1. PICK e \in 0 .. D * T - 1 : e = d - 1
      <4>1. PICK N \in Nat : N = D * T
        OBVIOUS
      <4>2. d - 1 \in 0 .. N - 1
        BY <4>1
      <4> QED BY <4>1, <4>2
    <3>2. PICK t \in 0 .. D - 1 : t = e \div T
      BY <2>3
    <3>3. PICK i \in 0 .. Tile * Tile - 1, j \in 0 .. Tile * Tile - 1 :
            i = (row % T) * T + (e % T) /\ j = (col % T) * T + (e % T)
      BY <2>2, <2>3
    <3>4. pairs[d] = <<Packed(k, row, t * Tile, lhs)[i], Packed(k, col, t * Tile, rhs)[j]>>
      <4>1. d \in 1 .. D * Tile
        BY <2>2
      <4>2. pairs[d] = <<cell(l, row, d - 1), cell(r, col, d - 1)>>
        BY <4>1
      <4>3. l[t] = Packed(k, row, t * Tile, lhs) /\ r[t] = Packed(k, col, t * Tile, rhs)
        OBVIOUS
      <4>. HIDE DEF l, r, pairs
      <4> QED BY <2>2, <3>1, <3>2, <3>3, <4>2, <4>3
    <3>. HIDE DEF pairs
    <3>5. PICK u \in Nat : u = t * Tile
      BY <2>4
    <3>6. Packed(k, row, u, lhs)[i] \in R \cup {0} /\ Packed(k, col, u, rhs)[j] \in R \cup {0}
      BY PackedMembers
    <3> QED BY <3>4, <3>5, <3>6
  <2>6. DOMAIN pairs = 1 .. D * T
    BY <2>2
  <2>7. TiledDot(k, row, col, lhs, rhs) = Paired(pairs)
    BY <2>1 DEF TiledDot
  <2>. HIDE DEF pairs
  <2>8. PICK N \in Nat : N = D * T
    OBVIOUS
  <2>9. Paired(pairs) \in Seq(R)
    BY <2>5, <2>6, <2>8, PairedMembers
  <2> QED BY <2>7, <2>9
<1> QED BY <1>1, <1>2 DEF Dot

\* An F16 buffer of the inputs is read at its elements.
LEMMA HalfReadable ==
  ASSUME NEW c, c.in \in Seq(Views), AllF16(c), NEW j \in DOMAIN c.in,
         NEW i \in Nat, i < Elements(c.in[j])
  PROVE  c.in[j].data + 2 * i \in Readable(c)
<1>1. c.in[j] \in Views /\ c.in[j].dtype = "F16"
  BY DEF AllF16, ViewsOf
<1>2. c.in[j].data \in Nat /\ c.in[j].bytes \in Nat /\ SizeOf(c.in[j]) = 2
  BY <1>1, ViewFacts DEF SizeOf, ElementSize
<1>3. c.in[j].data + 2 * i \in Extent(c.in[j], 2)
  BY <1>2, HalfElement DEF Extent, Elements
<1> QED BY <1>2, <1>3 DEF Readable

\* MAT_MUL: neither the strides of the operands, checked by region_fits, nor the
\* padding of the packed tiles let a dot product read past its operands.
LEMMA MatMulLoads ==
  ASSUME NEW c, c.in \in Seq(Views), c.attr \in MatMulAttrs, MatMulOK(c),
         NEW x \in MatMulCells(c.attr)
  PROVE  Sound(c, MatMulWrites(c)[x].val)
<1>. DEFINE a == c.attr
            depths == 0 .. a.k - 1
            lhs == [y \in {x[2]} \X depths |-> c.in[1].data + 2 * LhsIndex(a, x[1], y[1], y[2])]
            rhs == [y \in {x[3]} \X depths |-> c.in[2].data + 2 * RhsIndex(a, x[1], y[2], y[1])]
<1>1. Len(c.in) = 2 /\ AllF16(c) /\ 1 \in DOMAIN c.in /\ 2 \in DOMAIN c.in
  BY DEF MatMulOK, ExpectIO
<1>2. /\ Elements(c.in[1]) \in Nat /\ Elements(c.in[2]) \in Nat
  <2>1. c.in[1].bytes \in Nat /\ c.in[2].bytes \in Nat
    BY <1>1, ViewFacts
  <2> QED BY <2>1 DEF Elements
<1>3. /\ a.batch \in Nat /\ a.m \in Nat /\ a.n \in Nat /\ a.k \in Nat
      /\ a.lhs \in [row : Nat, col : Nat, batch : Nat] /\ a.rhs \in [row : Nat, col : Nat, batch : Nat]
  <2>1. U32 \subseteq Nat
    BY ONLY AttrAssumption DEF U32
  <2>2. a \in MatMulAttrs
    OBVIOUS
  <2>3. /\ a.batch \in U32 /\ a.m \in U32 /\ a.n \in U32 /\ a.k \in U32
        /\ a.lhs \in MatMulStrides /\ a.rhs \in MatMulStrides
    BY ONLY <2>2 DEF MatMulAttrs
  <2>4. a.lhs \in [row : Nat, col : Nat, batch : Nat] /\ a.rhs \in [row : Nat, col : Nat, batch : Nat]
    BY ONLY <2>1, <2>3 DEF MatMulStrides
  <2> QED BY ONLY <2>1, <2>3, <2>4
<1>4. Batches(a) \in Nat
  BY <1>3 DEF Batches, AtLeastOne
<1>5. /\ RegionFits(Elements(c.in[1]), Batches(a), LhsRows(a), LhsCols(a), a.lhs)
      /\ RegionFits(Elements(c.in[2]), Batches(a), RhsRows(a), RhsCols(a), a.rhs)
  BY DEF MatMulOK, ValidateBounds
<1>6. x[1] \in 0 .. Batches(a) - 1 /\ x[2] \in 0 .. a.m - 1 /\ x[3] \in 0 .. a.n - 1
  BY DEF MatMulCells
<1>7. MatMulWrites(c)[x].val = Term("dot", <<>>, Dot(VectorTarget(c), a.k, x[2], x[3], lhs, rhs))
  BY DEF MatMulWrites, MatMulTerm
<1>8. /\ \A e \in depths : lhs[<<x[2], e>>] = c.in[1].data + 2 * LhsIndex(a, x[1], x[2], e)
      /\ \A e \in depths : rhs[<<x[3], e>>] = c.in[2].data + 2 * RhsIndex(a, x[1], e, x[3])
  OBVIOUS
<1>. HIDE DEF lhs, rhs, a
<1>9. LhsRows(a) \in Nat /\ LhsCols(a) \in Nat /\ RhsRows(a) \in Nat /\ RhsCols(a) \in Nat
  BY <1>3 DEF LhsRows, LhsCols, RhsRows, RhsCols
<1>10. ASSUME NEW e \in depths PROVE lhs[<<x[2], e>>] \in Readable(c)
  <2>1. PICK r \in 0 .. LhsRows(a) - 1, k \in 0 .. LhsCols(a) - 1 :
          r = (IF a.lhsT THEN e ELSE x[2]) /\ k = (IF a.lhsT THEN x[2] ELSE e)
    BY <1>6 DEF LhsRows, LhsCols
  <2>2. LhsIndex(a, x[1], x[2], e) = x[1] * a.lhs.batch + r * a.lhs.row + k * a.lhs.col
    BY <2>1 DEF LhsIndex
  <2>3. LhsIndex(a, x[1], x[2], e) \in Nat /\ LhsIndex(a, x[1], x[2], e) < Elements(c.in[1])
    <3>1. PICK n \in Nat, B \in Nat, R \in Nat, C \in Nat, s \in [row : Nat, col : Nat, batch : Nat] :
            /\ n = Elements(c.in[1]) /\ B = Batches(a) /\ R = LhsRows(a) /\ C = LhsCols(a) /\ s = a.lhs
            /\ RegionFits(n, B, R, C, s)
      BY <1>2, <1>3, <1>4, <1>5, <1>9
    <3>2. PICK b \in 0 .. B - 1, i \in 0 .. R - 1, d \in 0 .. C - 1 : b = x[1] /\ i = r /\ d = k
      BY <1>6, <2>1, <3>1
    <3>3. b * s.batch + i * s.row + d * s.col \in Nat /\ b * s.batch + i * s.row + d * s.col < n
      BY <3>1, RegionFitsBounds
    <3> QED BY <2>2, <3>1, <3>2, <3>3
  <2> QED BY <1>1, <1>8, <2>3, HalfReadable
<1>11. ASSUME NEW e \in depths PROVE rhs[<<x[3], e>>] \in Readable(c)
  <2>1. PICK r \in 0 .. RhsRows(a) - 1, k \in 0 .. RhsCols(a) - 1 :
          r = (IF a.rhsT THEN x[3] ELSE e) /\ k = (IF a.rhsT THEN e ELSE x[3])
    BY <1>6 DEF RhsRows, RhsCols
  <2>2. RhsIndex(a, x[1], e, x[3]) = x[1] * a.rhs.batch + r * a.rhs.row + k * a.rhs.col
    BY <2>1 DEF RhsIndex
  <2>3. RhsIndex(a, x[1], e, x[3]) \in Nat /\ RhsIndex(a, x[1], e, x[3]) < Elements(c.in[2])
    <3>1. PICK n \in Nat, B \in Nat, R \in Nat, C \in Nat, s \in [row : Nat, col : Nat, batch : Nat] :
            /\ n = Elements(c.in[2]) /\ B = Batches(a) /\ R = RhsRows(a) /\ C = RhsCols(a) /\ s = a.rhs
            /\ RegionFits(n, B, R, C, s)
      BY <1>2, <1>3, <1>4, <1>5, <1>9
    <3>2. PICK b \in 0 .. B - 1, i \in 0 .. R - 1, d \in 0 .. C - 1 : b = x[1] /\ i = r /\ d = k
      BY <1>6, <2>1, <3>1
    <3>3. b * s.batch + i * s.row + d * s.col \in Nat /\ b * s.batch + i * s.row + d * s.col < n
      BY <3>1, RegionFitsBounds
    <3> QED BY <2>2, <3>1, <3>2, <3>3
  <2> QED BY <1>1, <1>8, <2>3, HalfReadable
<1>12. PICK row \in Nat, col \in Nat : row = x[2] /\ col = x[3]
  BY <1>3, <1>6
<1>13. Dot(VectorTarget(c), a.k, row, col, lhs, rhs) \in Seq(Readable(c))
  BY <1>3, <1>10, <1>11, <1>12, DotMembers
<1>14. "dot" \in Functions
  BY DEF Functions
<1> QED BY <1>7, <1>12, <1>13, <1>14, TermSound

ConvSizes(g, len, wlen) ==
  \E G \in Nat, C \in Nat, Q \in Nat, H \in Nat, W \in Nat, K \in Nat, L \in Nat, P \in Nat :
    /\ G = g.groups /\ G >= 1 /\ C = CinPerGroup(g) /\ Q = CoutPerGroup(g) /\ Q >= 1
    /\ g.cin = G * C /\ g.cout = G * Q
    /\ H = g.in[1] /\ W = g.in[2] /\ K = g.kernel[1] /\ L = g.kernel[2] /\ K >= 1 /\ L >= 1
    /\ P = PatchSize(g) /\ P <= C * (K * L)
    /\ ((g.batch * g.cin) * H) * W <= len /\ g.cout * P <= wlen

\* What GeomOK says of the groups, and ValidateLengths of the two operands.
LEMMA ConvOperands ==
  ASSUME NEW a \in ConvAttrs, NEW len \in Nat, NEW wlen \in Nat, NEW o, NEW b,
         GeomOK(Geom(a)), ValidateLengths(Geom(a), len, wlen, o, b)
  PROVE  ConvSizes(Geom(a), len, wlen)
<1>. DEFINE g == Geom(a)
<1>1. /\ a.cin \in Nat /\ a.cout \in Nat /\ a.groups \in Nat
      /\ a.in[1] \in Nat /\ a.in[2] \in Nat /\ a.kernel[1] \in Nat /\ a.kernel[2] \in Nat
  BY AttrAssumption DEF ConvAttrs, U32Pairs, U32
<1>2. /\ g.cin = a.cin /\ g.cout = a.cout /\ g.groups \in Nat /\ g.groups >= 1
      /\ g.in = a.in /\ g.kernel = a.kernel
  BY <1>1 DEF Geom, AtLeastOne
<1>3. /\ g.cout # 0 /\ g.cin % g.groups = 0 /\ g.cout % g.groups = 0
      /\ g.kernel[1] # 0 /\ g.kernel[2] # 0
      /\ InputNeed(g) <= len /\ WeightNeed(g) <= wlen
  BY DEF GeomOK, ValidateLengths
<1>. HIDE DEF g
<1>4. ASSUME NEW x \in Nat, NEW y \in Nat, y >= 1, x % y = 0
      PROVE  x \div y \in Nat /\ x = y * (x \div y)
  BY <1>4
<1>5. PICK G \in Nat, C \in Nat, Q \in Nat, H \in Nat, W \in Nat, K \in Nat, L \in Nat :
        /\ G = g.groups /\ G >= 1 /\ C = CinPerGroup(g) /\ Q = CoutPerGroup(g)
        /\ g.cin = G * C /\ g.cout = G * Q
        /\ H = g.in[1] /\ W = g.in[2] /\ K = g.kernel[1] /\ L = g.kernel[2] /\ K >= 1 /\ L >= 1
  <2>1. PICK x \in Nat, z \in Nat, y \in Nat :
          /\ x = g.cin /\ z = g.cout /\ y = g.groups /\ y >= 1 /\ x % y = 0 /\ z % y = 0
    BY <1>1, <1>2, <1>3
  <2>2. PICK C \in Nat, Q \in Nat : C = x \div y /\ x = y * C /\ Q = z \div y /\ z = y * Q
    <3>1. x \div y \in Nat /\ x = y * (x \div y) /\ z \div y \in Nat /\ z = y * (z \div y)
      BY <1>4, <2>1
    <3> QED BY <3>1
  <2>3. C = CinPerGroup(g) /\ Q = CoutPerGroup(g)
    BY <2>1, <2>2 DEF CinPerGroup, CoutPerGroup
  <2>4. PICK H \in Nat, W \in Nat, K \in Nat, L \in Nat :
          H = g.in[1] /\ W = g.in[2] /\ K = g.kernel[1] /\ L = g.kernel[2] /\ K >= 1 /\ L >= 1
    <3>1. /\ g.in[1] \in Nat /\ g.in[2] \in Nat /\ g.kernel[1] \in Nat /\ g.kernel[2] \in Nat
          /\ g.kernel[1] >= 1 /\ g.kernel[2] >= 1
      BY <1>1, <1>2, <1>3
    <3> QED BY ONLY <3>1, ZenonT(30)
  <2> QED BY <2>1, <2>2, <2>3, <2>4
<1>6. Q >= 1
  <2>1. Q = 0 => G * Q = 0
    OBVIOUS
  <2> QED BY <1>3, <1>5, <2>1
<1>7. PICK P \in Nat : P = PatchSize(g) /\ P <= C * (K * L)
  <2>1. PICK T \in Nat : T = C * (K * L) /\ T = C * K * L
    <3>1. C * (K * L) \in Nat /\ C * (K * L) = C * K * L
      OBVIOUS
    <3> QED BY <3>1
  <2>2. PatchSize(g) = T % (UsizeMax + 1)
    BY <1>5, <2>1 DEF PatchSize, Taps
  <2>3. PICK M \in Nat : M = UsizeMax + 1 /\ M >= 1
    BY MetaAssumption
  <2>4. T % M \in Nat /\ T % M <= T
    BY <2>3
  <2> QED BY <2>1, <2>2, <2>3, <2>4
<1>8. ((g.batch * g.cin) * H) * W <= len /\ g.cout * P <= wlen
  BY <1>3, <1>5, <1>7 DEF InputNeed, WeightNeed
<1>9. ConvSizes(g, len, wlen)
  BY <1>5, <1>6, <1>7, <1>8 DEF ConvSizes
<1> QED BY <1>9 DEF g

\* An input position a patch reads, if it is not in the padding, is an element
\* of the input: also where the size of the patch has wrapped.
LEMMA PatchInside ==
  ASSUME NEW c, c.in \in Seq(Views), AllF16(c), 1 \in DOMAIN c.in, c.attr \in ConvAttrs,
         NEW w \in Nat, NEW o, NEW b, GeomOK(Geom(c.attr)),
         ValidateLengths(Geom(c.attr), Elements(c.in[1]), w, o, b),
         NEW batch \in 0 .. Geom(c.attr).batch - 1, NEW group \in 0 .. Geom(c.attr).groups - 1,
         NEW p \in 0 .. PatchSize(Geom(c.attr)) - 1, NEW s \in Nat
  PROVE  PatchAddr(c, batch, group, p, s) \in Readable(c) \cup {0}
<1>. DEFINE g == Geom(c.attr)
            channel == group * CinPerGroup(g) + p \div (g.kernel[1] * g.kernel[2])
            ky == (p \div g.kernel[2]) % g.kernel[1]
            kx == p % g.kernel[2]
            oy == s \div g.out[2]
            ox == s % g.out[2]
<1>1. Elements(c.in[1]) \in Nat
  <2>1. c.in[1].bytes \in Nat
    BY ViewFacts
  <2> QED BY <2>1 DEF Elements
<1>2. PICK G \in Nat, C \in Nat, Q \in Nat, H \in Nat, W \in Nat, K \in Nat, L \in Nat, P \in Nat :
        /\ G = g.groups /\ G >= 1 /\ C = CinPerGroup(g) /\ Q = CoutPerGroup(g) /\ Q >= 1
        /\ g.cin = G * C /\ g.cout = G * Q
        /\ H = g.in[1] /\ W = g.in[2] /\ K = g.kernel[1] /\ L = g.kernel[2] /\ K >= 1 /\ L >= 1
        /\ P = PatchSize(g) /\ P <= C * (K * L)
        /\ ((g.batch * g.cin) * H) * W <= Elements(c.in[1]) /\ g.cout * P <= w
  <2>1. PICK a \in ConvAttrs, l \in Nat : a = c.attr /\ l = Elements(c.in[1])
    BY <1>1
  <2>2. GeomOK(Geom(a)) /\ ValidateLengths(Geom(a), l, w, o, b)
    BY <2>1
  <2>3. ConvSizes(Geom(a), l, w)
    BY ONLY a \in ConvAttrs, l \in Nat, w \in Nat, <2>2, ConvOperands
  <2>4. ConvSizes(g, Elements(c.in[1]), w)
    BY <2>1, <2>3
  <2>. HIDE DEF g
  <2> QED BY <2>4 DEF ConvSizes
<1>3. PICK B \in Nat : B = g.batch
  BY AttrAssumption DEF ConvAttrs, U32, Geom, AtLeastOne
<1>4. PatchAddr(c, batch, group, p, s) =
        IF TapInside(g, 1, oy, ky) /\ TapInside(g, 2, ox, kx)
        THEN c.in[1].data + 2 * InputIndex(g, batch, channel, oy, ox, ky, kx) ELSE 0
  BY DEF PatchAddr
<1>. DEFINE down == Tap(g, 1, oy, ky)
            across == Tap(g, 2, ox, kx)
<1>. HIDE DEF oy, ox, ky, kx
<1>5. PICK n \in Nat, N \in Nat : n = channel /\ N = g.cin /\ n \in 0 .. N - 1
  <2>1. PICK T \in Nat : T = K * L
    OBVIOUS
  <2>2. PICK q \in 0 .. C * T - 1 : q = p
    <3>1. PICK U \in Nat : U = C * T
      OBVIOUS
    <3>2. p \in 0 .. U - 1
      BY <1>2, <2>1, <3>1
    <3> QED BY <3>1, <3>2
  <2>3. q \div T \in 0 .. C - 1
    BY ONLY C \in Nat, T \in Nat, q \in 0 .. C * T - 1, RowSplit
  <2>4. PICK d \in 0 .. C - 1, r \in 0 .. G - 1 : d = q \div T /\ r = group
    BY <1>2, <2>3
  <2>5. r * C + d \in 0 .. G * C - 1
    BY RowBound
  <2>6. G * C \in Nat
    OBVIOUS
  <2> QED BY <1>2, <2>1, <2>2, <2>4, <2>5, <2>6, SMTT(30)
<1>. HIDE DEF channel
<1>6. CASE TapInside(g, 1, oy, ky) /\ TapInside(g, 2, ox, kx)
  <2>1. PICK y \in 0 .. H - 1, x \in 0 .. W - 1 : y = down - g.pad[1] /\ x = across - g.pad[2]
    BY <1>2, <1>6 DEF TapInside
  <2>2. PICK e \in 0 .. B - 1 : e = batch
    BY <1>3
  <2>3. (e * N + n) * H + y \in 0 .. B * N * H - 1
    BY <1>5, ConvPlace
  <2>10. PICK R \in Nat : R = B * N * H
    <3>1. B * N * H \in Nat
      OBVIOUS
    <3> QED BY <3>1
  <2>4. PICK r \in 0 .. R - 1 : R = B * N * H /\ r = (e * N + n) * H + y
    BY <2>3, <2>10
  <2>5. PICK i \in Nat : i = r * W + x /\ i < R * W
    <3>1. r * W + x \in 0 .. R * W - 1
      BY RowBound
    <3>2. PICK V \in Nat : V = R * W
      OBVIOUS
    <3> QED BY <3>1, <3>2
  <2>6. i < Elements(c.in[1])
    <3>1. PICK V \in Nat : V = R * W /\ V <= Elements(c.in[1])
      <4>1. R * W \in Nat
        OBVIOUS
      <4> QED BY <1>2, <1>3, <1>5, <2>4, <4>1
    <3> QED BY <1>1, <2>5, <3>1
  <2>7. InputIndex(g, batch, channel, oy, ox, ky, kx) = i
    <3>1. InputIndex(g, batch, channel, oy, ox, ky, kx)
            = ((e * N + n) * H + down - g.pad[1]) * W + across - g.pad[2]
      BY <1>2, <1>5, <2>2 DEF InputIndex
    <3>2. down \in Int /\ across \in Int /\ g.pad[1] \in Int /\ g.pad[2] \in Int
      <4>1. /\ g.pad \in U32Pairs /\ g.out[2] \in Nat /\ g.out[2] >= 1
            /\ g.stride[1] \in Nat /\ g.stride[2] \in Nat
            /\ g.dilation[1] \in Nat /\ g.dilation[2] \in Nat
        <5>1. /\ c.attr.pad \in U32Pairs /\ c.attr.out \in U32Pairs
              /\ c.attr.stride \in U32Pairs /\ c.attr.dilation \in U32Pairs
          BY DEF ConvAttrs
        <5>2. g.out[2] # 0
          BY DEF GeomOK
        <5> QED BY <5>1, <5>2, AttrAssumption, SMTT(30) DEF Geom, AtLeastOne, U32Pairs, U32
      <4>2. g.pad[1] \in Int /\ g.pad[2] \in Int
        BY <4>1, AttrAssumption DEF U32Pairs, U32
      <4>3. oy \in Nat /\ ox \in Nat
        <5>1. PICK O \in Nat : O = g.out[2] /\ O >= 1
          BY <4>1
        <5>2. s \div O \in Nat /\ s % O \in Nat
          BY ONLY s \in Nat, O \in Nat, <5>1
        <5> QED BY <5>1, <5>2 DEF oy, ox
      <4>4. ky \in Nat /\ kx \in Nat
        <5>1. p \in Nat
          BY <1>2
        <5>2. p \div L \in Nat /\ p % L \in Nat
          <6>1. L >= 1
            BY <1>2
          <6> QED BY ONLY <5>1, <6>1, L \in Nat
        <5>3. PICK q \in Nat : q = p \div L
          BY <5>2
        <5>4. q % K \in Nat
          <6>1. K >= 1
            BY <1>2
          <6> QED BY ONLY q \in Nat, <6>1, K \in Nat
        <5> QED BY <1>2, <5>2, <5>3, <5>4 DEF ky, kx
      <4>5. ASSUME NEW x1 \in Nat, NEW x2 \in Nat, NEW x3 \in Nat, NEW x4 \in Nat
            PROVE  x1 * x2 + x3 * x4 \in Int
        OBVIOUS
      <4> QED BY <4>1, <4>2, <4>3, <4>4, <4>5 DEF Tap
    <3>3. PICK z \in Int : z = (e * N + n) * H
      OBVIOUS
    <3>. HIDE DEF down, across
    <3>4. (e * N + n) * H + down - g.pad[1] = r
      BY <2>1, <2>4, <3>2, <3>3
    <3>5. PICK v \in Int : v = r * W
      OBVIOUS
    <3> QED BY <2>1, <2>5, <3>1, <3>2, <3>4, <3>5
  <2>8. c.in[1].data + 2 * i \in Readable(c)
    BY <2>6, HalfReadable
  <2> QED BY <1>4, <1>6, <2>7, <2>8
<1>7. CASE ~(TapInside(g, 1, oy, ky) /\ TapInside(g, 2, ox, kx))
  BY <1>4, <1>7
<1> QED BY <1>6, <1>7

\* What the sizes of a convolution leave of themselves in 32 bits.
LEMMA CastSizes ==
  ASSUME NEW p \in Nat
  PROVE  /\ AsU32(p) \in Nat /\ AsU32(p) <= p
         /\ p <= U32Max => AsU32(p) = p
BY AttrAssumption DEF AsU32

\* CONV2D on the A100: wherever in the output of its group the product has come, the
\* weights and the patches it multiplies are inside the buffers validate_lengths has
\* measured, the padding reading nothing, also where its sizes were cut to 32 bits.
LEMMA ConvProductLoads ==
  ASSUME NEW c, c.in \in Seq(Views), c.out \in Seq(Views), c.attr \in ConvAttrs, ConvOK(c),
         NEW batch \in 0 .. Geom(c.attr).batch - 1, NEW group \in 0 .. Geom(c.attr).groups - 1,
         NEW place \in Nat, Reached(Geom(c.attr), place)
  PROVE  ConvProduct(c, batch, group, place) \in Seq(Readable(c))
<1>. DEFINE g == Geom(c.attr)
            row == place \div TileCols(g)
            col == place % TileCols(g)
            depths == 0 .. TileDepth(g) - 1
            im2col == [i \in 0 .. PatchSize(g) * Spatial(g) - 1 |->
                         PatchAddr(c, batch, group, i \div Spatial(g), i % Spatial(g))]
            weight == [y \in {row} \X depths |->
              c.in[2].data + 2 * (group * CoutPerGroup(g) * PatchSize(g) + y[1] * TileDepth(g) + y[2])]
            column == [y \in {col} \X depths |-> im2col[y[2] * TileCols(g) + y[1]]]
<1>1. /\ Len(c.in) \in 2 .. 3 /\ Len(c.out) = 1 /\ AllF16(c) /\ GeomOK(g)
      /\ 1 \in DOMAIN c.in /\ 2 \in DOMAIN c.in
  <2>1. Len(c.in) \in 2 .. 3 /\ Len(c.out) = 1 /\ AllF16(c) /\ GeomOK(g)
    BY DEF ConvOK, ExpectIO
  <2> QED BY <2>1
<1>2. ValidateLengths(g, Elements(c.in[1]), Elements(c.in[2]), Elements(c.out[1]),
                      IF Len(c.in) = 3 THEN Elements(c.in[3]) ELSE c.attr.cout)
  BY DEF ConvOK
<1>3. PICK n \in Nat, w \in Nat, o \in Nat :
        n = Elements(c.in[1]) /\ w = Elements(c.in[2]) /\ o = Elements(c.out[1])
  <2>1. c.in[1].bytes \in Nat /\ c.in[2].bytes \in Nat /\ c.out[1].bytes \in Nat
    BY <1>1, ViewFacts
  <2>2. ASSUME NEW v, v.bytes \in Nat PROVE Elements(v) \in Nat
    BY <2>2 DEF Elements
  <2> QED BY <2>1, <2>2
<1>4. PICK b : b = (IF Len(c.in) = 3 THEN Elements(c.in[3]) ELSE c.attr.cout)
  OBVIOUS
<1>5. ConvProduct(c, batch, group, place) = TiledDot(TileDepth(g), row, col, weight, column)
  BY DEF ConvProduct
<1>7. PICK a \in ConvAttrs : a = c.attr
  OBVIOUS
<1>8. GeomOK(Geom(a)) /\ ValidateLengths(Geom(a), n, w, o, b)
  BY <1>1, <1>2, <1>3, <1>4, <1>7
<1>9. PICK G \in Nat, Q \in Nat, P \in Nat :
        /\ G = g.groups /\ Q = CoutPerGroup(g) /\ P = PatchSize(g)
        /\ g.cout = G * Q /\ g.cout * P <= w
  <2>1. ConvSizes(Geom(a), n, w)
    BY ONLY a \in ConvAttrs, n \in Nat, w \in Nat, <1>8, ConvOperands
  <2>2. ConvSizes(g, n, w)
    BY <1>7, <2>1
  <2>. HIDE DEF g
  <2> QED BY <2>2 DEF ConvSizes
<1>10. PICK S \in Nat : S = Spatial(g)
  <2>1. LET f == Geom(a) IN
        /\ f.batch \in Nat /\ f.cout \in Nat /\ f.groups \in Nat \ {0}
        /\ f.out[1] \in Nat /\ f.out[2] \in Nat
        /\ Spatial(f) = f.out[1] * f.out[2] /\ Spatial(f) \in Nat
        /\ f.batch * f.cout * Spatial(f) <= o
        /\ CoutPerGroup(f) \in Nat \ {0}
    BY ONLY a \in ConvAttrs, o \in Nat, <1>8, ConvFacts
  <2> QED BY <1>7, <2>1
<1>11. PICK k \in Nat, m \in Nat : k = TileDepth(g) /\ k <= P /\ m = TileCols(g) /\ m <= S
  BY <1>9, <1>10, CastSizes DEF TileDepth, TileCols
<1>12. PICK r \in 0 .. Q - 1, t \in 0 .. m - 1 : r = row /\ t = col
  <2>1. place < Q * m
    BY <1>9, <1>11 DEF Reached
  <2>2. PICK z \in 0 .. Q * m - 1 : z = place
    BY <2>1
  <2>3. z \div m \in 0 .. Q - 1 /\ z % m \in 0 .. m - 1
    BY ONLY Q \in Nat, m \in Nat, z \in 0 .. Q * m - 1, RowSplit
  <2> QED BY <1>11, <2>2, <2>3
<1>14. /\ \A e \in 0 .. k - 1 :
            weight[<<row, e>>] = c.in[2].data + 2 * (group * Q * P + row * k + e)
       /\ \A e \in 0 .. k - 1 : column[<<col, e>>] = im2col[e * m + col]
  BY <1>9, <1>11
<1>15. \A i \in 0 .. P * S - 1 : im2col[i] = PatchAddr(c, batch, group, i \div S, i % S)
  BY <1>9, <1>10
<1>. HIDE DEF weight, column, im2col, row, col
<1>16. ASSUME NEW e \in 0 .. k - 1 PROVE weight[<<row, e>>] \in Readable(c)
  <2>1. PICK d \in 0 .. G - 1 : d = group
    BY <1>9
  <2>2. PICK u \in Nat : u = Q * P
    OBVIOUS
  <2>3. PICK j \in 0 .. u - 1 : j = r * k + e
    <3>1. r * k + e \in 0 .. Q * k - 1
      BY RowBound
    <3>2. Q * k <= Q * P /\ Q * k \in Nat
      BY <1>11, ProductMonotone
    <3> QED BY <2>2, <3>1, <3>2
  <2>4. d * u + j \in 0 .. G * u - 1
    BY RowBound
  <2>5. G * u <= w /\ G * u \in Nat
    <3>1. G * (Q * P) = (G * Q) * P
      OBVIOUS
    <3>2. G * u \in Nat
      OBVIOUS
    <3> QED BY <1>9, <2>2, <3>1, <3>2
  <2>6. PICK i \in Nat : i = d * u + j /\ i < w
    BY <2>4, <2>5
  <2>7. d * Q * P + r * k + e = i
    <3>1. d * Q * P = d * (Q * P)
      OBVIOUS
    <3>2. PICK z \in Int : z = d * u
      OBVIOUS
    <3>3. PICK y \in Int : y = r * k
      OBVIOUS
    <3> QED BY <2>2, <2>3, <2>6, <3>1, <3>2, <3>3
  <2>8. weight[<<row, e>>] = c.in[2].data + 2 * i
    BY <1>12, <1>14, <2>1, <2>7
  <2> QED BY <1>1, <1>3, <2>6, <2>8, HalfReadable
<1>17. ASSUME NEW e \in 0 .. k - 1 PROVE column[<<col, e>>] \in Readable(c) \cup {0}
  <2>1. PICK i \in 0 .. P * S - 1 : i = e * m + t
    <3>1. e * m + t \in 0 .. k * m - 1
      BY RowBound
    <3>2. k * m <= k * S /\ k * m \in Nat /\ k * S \in Nat
      BY <1>11, ProductMonotone
    <3>3. S * k <= S * P /\ S * k \in Nat /\ S * P \in Nat
      BY <1>11, ProductMonotone
    <3>4. k * S = S * k /\ P * S = S * P
      OBVIOUS
    <3> QED BY <3>1, <3>2, <3>3, <3>4
  <2>2. i \div S \in 0 .. P - 1 /\ i % S \in 0 .. S - 1
    BY ONLY P \in Nat, S \in Nat, i \in 0 .. P * S - 1, RowSplit
  <2>3. column[<<col, e>>] = PatchAddr(c, batch, group, i \div S, i % S)
    BY <1>12, <1>14, <1>15, <2>1
  <2>4. PICK p \in 0 .. PatchSize(Geom(c.attr)) - 1, u \in Nat : p = i \div S /\ u = i % S
    <3>1. PICK y \in 0 .. P - 1, u \in Nat : y = i \div S /\ u = i % S
      BY ONLY <2>2, S \in Nat
    <3> QED BY <1>9, <3>1
  <2>6. ValidateLengths(Geom(c.attr), Elements(c.in[1]), w, o, b)
    BY <1>3, <1>7, <1>8
  <2>7. PatchAddr(c, batch, group, p, u) \in Readable(c) \cup {0}
    BY <1>1, <2>6, PatchInside
  <2> QED BY <2>3, <2>4, <2>7
<1> QED
  <2>1. PICK y \in Nat, u \in Nat : y = row /\ u = col
    BY <1>12
  <2>2. \A e \in 0 .. k - 1 : weight[<<y, e>>] \in Readable(c) \cup {0}
                              /\ column[<<u, e>>] \in Readable(c) \cup {0}
    BY <1>16, <1>17, <2>1
  <2>3. Dot(TRUE, k, y, u, weight, column) \in Seq(Readable(c))
    BY <2>2, DotMembers
  <2>4. ConvProduct(c, batch, group, place) = Dot(TRUE, k, y, u, weight, column)
    BY <1>5, <1>11, <2>1 DEF Dot
  <2> QED BY <2>3, <2>4

\* The group of an output channel and its place in it.
LEMMA GroupOf ==
  ASSUME NEW a \in ConvAttrs, NEW n \in Nat, NEW w \in Nat, NEW o, NEW b,
         GeomOK(Geom(a)), ValidateLengths(Geom(a), n, w, o, b), NEW oc \in 0 .. Geom(a).cout - 1
  PROVE  LET Q == CoutPerGroup(Geom(a)) IN
         /\ oc \in Nat /\ oc \div Q \in 0 .. Geom(a).groups - 1 /\ oc % Q \in 0 .. Q - 1
         /\ Q \in Nat /\ (oc \div Q) * Q + (oc % Q) = oc
<1>. DEFINE g == Geom(a)
<1>1. ConvSizes(g, n, w)
  BY ConvOperands
<1>. HIDE DEF g
<1>2. PICK G \in Nat, Q \in Nat : G = g.groups /\ Q = CoutPerGroup(g) /\ g.cout = G * Q
  BY <1>1 DEF ConvSizes
<1>3. PICK z \in 0 .. G * Q - 1 : z = oc
  BY <1>2 DEF g
<1>4. z \div Q \in 0 .. G - 1 /\ z % Q \in 0 .. Q - 1 /\ z = (z \div Q) * Q + (z % Q)
  BY ONLY G \in Nat, Q \in Nat, z \in 0 .. G * Q - 1, RowSplit
<1>5. z \in Nat
  <2>1. G * Q \in Nat
    OBVIOUS
  <2> QED BY <2>1
<1> QED BY <1>2, <1>3, <1>4, <1>5 DEF g

\* What CONV2D stores is computed from its inputs and, where the bias is added to a
\* cell the product has not reached, from that cell.
LEMMA ConvLoads ==
  ASSUME NEW c, c.in \in Seq(Views), c.out \in Seq(Views), c.attr \in ConvAttrs, ConvOK(c),
         c.op = "CONV2D", c.target = "A100", NEW x \in DOMAIN ConvWrites(c)
  PROVE  SoundStore(c, ConvWrites(c)[x])
<1>. DEFINE g == Geom(c.attr)
            s == x[3] * g.out[2] + x[4]
            group == x[2] \div CoutPerGroup(g)
            row == x[2] % CoutPerGroup(g)
            place == GroupPlace(g, x[2], s)
            at == ConvA100At(c, x[1], x[2], s)
            held == IF Reached(g, place) THEN ConvProduct(c, x[1], group, place) ELSE <<at>>
            R == Readable(c) \cup {at}
<1>1. /\ Len(c.in) \in 2 .. 3 /\ Len(c.out) = 1 /\ AllF16(c) /\ GeomOK(g)
      /\ 1 \in DOMAIN c.in /\ 2 \in DOMAIN c.in
      /\ Len(c.in) = 3 => 3 \in DOMAIN c.in
  <2>1. Len(c.in) \in 2 .. 3 /\ Len(c.out) = 1 /\ AllF16(c) /\ GeomOK(g)
    BY DEF ConvOK, ExpectIO
  <2> QED BY <2>1
<1>2. ValidateLengths(g, Elements(c.in[1]), Elements(c.in[2]), Elements(c.out[1]),
                      IF Len(c.in) = 3 THEN Elements(c.in[3]) ELSE c.attr.cout)
  BY DEF ConvOK
<1>3. PICK a \in ConvAttrs, n \in Nat, w \in Nat, o \in Nat,
           b \in {IF Len(c.in) = 3 THEN Elements(c.in[3]) ELSE c.attr.cout} :
        a = c.attr /\ GeomOK(Geom(a)) /\ ValidateLengths(Geom(a), n, w, o, b)
  <2>1. c.in[1].bytes \in Nat /\ c.in[2].bytes \in Nat /\ c.out[1].bytes \in Nat
    BY <1>1, ViewFacts
  <2>2. ASSUME NEW v, v.bytes \in Nat PROVE Elements(v) \in Nat
    BY <2>2 DEF Elements
  <2> QED BY <1>1, <1>2, <2>1, <2>2
<1>4. /\ x[1] \in 0 .. g.batch - 1 /\ x[2] \in 0 .. g.cout - 1
      /\ x[3] \in 0 .. g.out[1] - 1 /\ x[4] \in 0 .. g.out[2] - 1
  BY DEF ConvWrites, ConvStoredCells, ConvCells
<1>5. /\ x[2] \in Nat /\ group \in 0 .. g.groups - 1 /\ row \in 0 .. CoutPerGroup(g) - 1
      /\ CoutPerGroup(g) \in Nat /\ group * CoutPerGroup(g) + row = x[2]
  BY <1>3, <1>4, GroupOf
<1>6. place \in Nat
  <2>1. LET f == Geom(a) IN
        /\ f.batch \in Nat /\ f.cout \in Nat /\ f.groups \in Nat \ {0}
        /\ f.out[1] \in Nat /\ f.out[2] \in Nat
        /\ Spatial(f) = f.out[1] * f.out[2] /\ Spatial(f) \in Nat
        /\ f.batch * f.cout * Spatial(f) <= o
        /\ CoutPerGroup(f) \in Nat \ {0}
    BY ONLY a \in ConvAttrs, o \in Nat, <1>3, ConvFacts
  <2>2. PICK Q \in Nat, H \in Nat, W \in Nat, S \in Nat :
          Q = CoutPerGroup(g) /\ H = g.out[1] /\ W = g.out[2] /\ S = Spatial(g)
    BY <1>3, <2>1
  <2>3. PICK r \in 0 .. Q - 1, oy \in 0 .. H - 1, ox \in 0 .. W - 1 :
          r = row /\ oy = x[3] /\ ox = x[4]
    BY <1>4, <1>5, <2>2
  <2>4. r \in Nat /\ oy \in Nat /\ ox \in Nat
    OBVIOUS
  <2>5. r * S + (oy * W + ox) \in Nat
    BY <2>4
  <2> QED BY <2>2, <2>3, <2>5 DEF GroupPlace
<1>7. /\ ConvWrites(c)[x].at = at
      /\ ConvWrites(c)[x].val =
           IF Biased(c)
           THEN Term("biased", <<>>, held \o <<c.in[3].data + 2 * (group * CoutPerGroup(g) + row)>>)
           ELSE Term("conv", <<>>, held)
  <2>1. VectorTarget(c)
    BY DEF VectorTarget, TargetOf
  <2>2. x \in ConvStoredCells(c)
    BY DEF ConvWrites
  <2> QED BY <2>1, <2>2 DEF ConvWrites, ConvA100Term
<1>. HIDE DEF s, place, at, group, row
<1>8. held \in Seq(R)
  <2>1. CASE Reached(g, place)
    <3>1. PICK batch \in 0 .. Geom(c.attr).batch - 1, d \in 0 .. Geom(c.attr).groups - 1 :
            batch = x[1] /\ d = group
      BY <1>4, <1>5
    <3>2. ConvProduct(c, batch, d, place) \in Seq(Readable(c))
      BY <1>6, <2>1, ConvProductLoads
    <3>3. held \in Seq(Readable(c))
      BY <2>1, <3>1, <3>2
    <3>. HIDE DEF held
    <3> QED BY <3>3, SeqWider
  <2>2. CASE ~Reached(g, place)
    BY <2>2
  <2> QED BY <2>1, <2>2
<1>. HIDE DEF held
<1>9. CASE Biased(c)
  <2>1. x[2] < Elements(c.in[3])
    <3>1. g.cout <= Elements(c.in[3])
      BY <1>2, <1>9 DEF ValidateLengths, Biased
    <3>2. Elements(c.in[3]) \in Nat
      <4>1. c.in[3].bytes \in Nat
        BY <1>1, <1>9, ViewFacts DEF Biased
      <4> QED BY <4>1 DEF Elements
    <3>3. g.cout \in Nat
      BY AttrAssumption DEF ConvAttrs, U32, Geom
    <3> QED BY <1>4, <1>5, <3>1, <3>2, <3>3
  <2>2. c.in[3].data + 2 * x[2] \in Readable(c)
    BY <1>1, <1>5, <1>9, <2>1, HalfReadable DEF Biased
  <2>3. PICK z \in R : z = c.in[3].data + 2 * (group * CoutPerGroup(g) + row)
    BY <1>5, <2>2
  <2>. HIDE DEF R
  <2>4. held \o <<z>> \in Seq(R)
    BY <1>8
  <2>5. ConvWrites(c)[x].val = Term("biased", <<>>, held \o <<z>>) /\ "biased" \in Functions
    BY <1>7, <1>9, <2>3 DEF Functions
  <2>6. /\ ConvWrites(c)[x].val.f \in Functions /\ ConvWrites(c)[x].val.from \in Seq(R)
    BY <2>4, <2>5 DEF Term
  <2> QED BY <1>7, <2>6 DEF SoundStore, Reads, R
<1>10. CASE ~Biased(c)
  <2>1. ConvWrites(c)[x].val = Term("conv", <<>>, held) /\ "conv" \in Functions
    BY <1>7, <1>10 DEF Functions
  <2>2. /\ ConvWrites(c)[x].val.f \in Functions /\ ConvWrites(c)[x].val.from \in Seq(R)
    BY <1>8, <2>1 DEF Term
  <2> QED BY <1>7, <2>2 DEF SoundStore, Reads
<1> QED BY <1>9, <1>10

(* --- the two targets --------------------------------------------------------- *)
\* Where two lists of pairs agree and the longer one goes on with padding, the
\* products they stand for are the same.
LEMMA PaddingIsLeftOut ==
  ASSUME NEW n \in Nat, NEW m \in Nat, n <= m, NEW p, NEW q, DOMAIN p = 1 .. n, DOMAIN q = 1 .. m,
         \A d \in 1 .. n : p[d] = q[d],
         \A d \in n + 1 .. m : q[d][1] = 0
  PROVE  Paired(p) = Paired(q)
<1>. DEFINE S == {d \in DOMAIN p : p[d][1] # 0 /\ p[d][2] # 0}
            T == {d \in DOMAIN q : q[d][1] # 0 /\ q[d][2] # 0}
            real == InOrder(S)
<1>1. S = T
  <2>1. \A d \in 1 .. m : d \in 1 .. n \/ d \in n + 1 .. m
    OBVIOUS
  <2>2. 1 .. n \subseteq 1 .. m
    OBVIOUS
  <2> QED BY <2>1, <2>2
<1>2. S \in SUBSET Int /\ IsFiniteSet(S) /\ S \subseteq 1 .. n
  <2>1. S \subseteq 1 .. n
    OBVIOUS
  <2>2. IsFiniteSet(1 .. n)
    BY FS_Interval
  <2>. HIDE DEF S
  <2>3. IsFiniteSet(S)
    BY <2>1, <2>2, FS_Subset
  <2> QED BY <2>1, <2>3
<1>3. /\ Paired(p) = [i \in 1 .. 2 * Len(real) |-> p[real[(i + 1) \div 2]][IF i % 2 = 1 THEN 1 ELSE 2]]
      /\ Paired(q) = [i \in 1 .. 2 * Len(real) |-> q[real[(i + 1) \div 2]][IF i % 2 = 1 THEN 1 ELSE 2]]
  BY <1>1 DEF Paired
<1>. HIDE DEF S
<1>4. PICK r \in Nat : r = Cardinality(S) /\ real \in [1 .. r -> S]
  BY <1>2, InOrderMembers
<1>. HIDE DEF real
<1>5. Len(real) = r
  <2>1. real \in Seq(S)
    BY <1>4
  <2> QED BY <1>4, <2>1
<1>6. ASSUME NEW i \in 1 .. 2 * r PROVE p[real[(i + 1) \div 2]] = q[real[(i + 1) \div 2]]
  <2>1. (i + 1) \div 2 \in 1 .. r
    OBVIOUS
  <2>2. real[(i + 1) \div 2] \in 1 .. n
    BY <1>2, <1>4, <2>1
  <2> QED BY <2>2
<1> QED BY <1>3, <1>5, <1>6

\* A row of k elements that goes on with zeros.
Padded(k, operand, row, d) == IF d < k THEN operand[<<row, d>>] ELSE 0

\* A cell of the tile packed for a row, in the line of that row.
LEMMA PackedCell ==
  ASSUME NEW k \in Nat, NEW row \in Nat, NEW depth \in Nat, NEW operand,
         NEW i \in 0 .. Tile * Tile - 1, i \div Tile = row % Tile
  PROVE  Packed(k, row, depth, operand)[i] = Padded(k, operand, row, depth + (i % Tile))
<1>1. PICK T \in Nat : T = Tile /\ T >= 1
  BY TileAssumption
<1>2. PICK x \in 0 .. T - 1, y \in Nat : x = row % T /\ y = row \div T /\ row = y * T + x
  <2>1. row % T \in 0 .. T - 1 /\ row \div T \in Nat /\ row = T * (row \div T) + (row % T)
    BY <1>1
  <2>2. T * (row \div T) = (row \div T) * T
    BY <1>1, <2>1
  <2> QED BY <2>1, <2>2
<1>3. PICK f \in Nat : f = y * T /\ row = f + x
  <2>1. y * T \in Nat
    BY ONLY y \in Nat, T \in Nat
  <2> QED BY <1>2, <2>1
<1>4. Packed(k, row, depth, operand)[i] =
        IF depth + (i % Tile) < k /\ i \div Tile = row - f
        THEN operand[<<f + (i \div Tile), depth + (i % Tile)>>] ELSE 0
  BY <1>1, <1>2, <1>3 DEF Packed
<1>5. i \div Tile = row - f /\ f + (i \div Tile) = row
  BY <1>1, <1>2, <1>3
<1> QED BY <1>4, <1>5 DEF Padded

\* The tiles of a row and a column add up to what the scalar loop adds up.
LEMMA DotAgrees ==
  ASSUME NEW k \in Nat, NEW row \in Nat, NEW col \in Nat, NEW lhs, NEW rhs
  PROVE  TiledDot(k, row, col, lhs, rhs) = ScalarDot(k, row, col, lhs, rhs)
<1>1. PICK T \in Nat : T = Tile /\ T >= 1
  BY TileAssumption
<1>2. PICK D \in Nat, N \in Nat : D = DepthTiles(k) /\ N = D * T /\ k <= N
  <2>1. PICK z \in Nat : z = k + T - 1
    BY <1>1
  <2>2. PICK D \in Nat, r \in 0 .. T - 1, N \in Nat : D = z \div T /\ r = z % T /\ N = D * T /\ z = N + r
    <3>1. z \div T \in Nat /\ z % T \in 0 .. T - 1 /\ z = T * (z \div T) + (z % T)
      BY <1>1
    <3>2. T * (z \div T) = (z \div T) * T /\ (z \div T) * T \in Nat
      BY <1>1, <3>1
    <3> QED BY <3>1, <3>2
  <2>3. k <= N
    BY ONLY <2>1, <2>2, k \in Nat, T \in Nat, N \in Nat
  <2> QED BY <1>1, <2>1, <2>2, <2>3 DEF DepthTiles
<1>. DEFINE tiles == 0 .. D - 1
            l == [t \in tiles |-> Packed(k, row, t * Tile, lhs)]
            r == [t \in tiles |-> Packed(k, col, t * Tile, rhs)]
            cell(tile, line, d) == tile[d \div Tile][(line % Tile) * Tile + (d % Tile)]
            p == [d \in 1 .. k |-> <<lhs[<<row, d - 1>>], rhs[<<col, d - 1>>]>>]
            q == [d \in 1 .. D * Tile |-> <<cell(l, row, d - 1), cell(r, col, d - 1)>>]
<1>3. ASSUME NEW d \in 1 .. N
      PROVE  q[d] = IF d - 1 < k THEN <<lhs[<<row, d - 1>>], rhs[<<col, d - 1>>]>> ELSE <<0, 0>>
  <2>1. PICK e \in 0 .. D * T - 1 : e = d - 1
    <3>1. d - 1 \in 0 .. N - 1
      OBVIOUS
    <3> QED BY <1>2, <3>1
  <2>2. PICK t \in 0 .. D - 1, u \in 0 .. T - 1 : t = e \div T /\ u = e % T /\ e = t * T + u
    <3>1. e \div T \in 0 .. D - 1 /\ e % T \in 0 .. T - 1 /\ e = (e \div T) * T + (e % T)
      BY RowSplit
    <3> QED BY <3>1
  <2>3. q[d] = <<Packed(k, row, t * Tile, lhs)[(row % Tile) * Tile + u],
                 Packed(k, col, t * Tile, rhs)[(col % Tile) * Tile + u]>>
    <3>1. q[d] = <<cell(l, row, d - 1), cell(r, col, d - 1)>>
      BY <1>1, <1>2
    <3>2. l[t] = Packed(k, row, t * Tile, lhs) /\ r[t] = Packed(k, col, t * Tile, rhs)
      OBVIOUS
    <3>. HIDE DEF l, r, q
    <3> QED BY <1>1, <2>1, <2>2, <3>1, <3>2
  <2>. HIDE DEF q
  <2>4. PICK f \in Nat : f = t * Tile /\ f + u = d - 1
    <3>1. t * T \in Nat
      OBVIOUS
    <3> QED BY <1>1, <2>1, <2>2, <3>1
  <2>5. PICK i \in 0 .. Tile * Tile - 1, j \in 0 .. Tile * Tile - 1 :
          /\ i = (row % Tile) * Tile + u /\ i % Tile = u /\ i \div Tile = row % Tile
          /\ j = (col % Tile) * Tile + u /\ j % Tile = u /\ j \div Tile = col % Tile
    <3>1. PICK x \in 0 .. T - 1, y \in 0 .. T - 1 : x = row % T /\ y = col % T
      BY <1>1, QuotientNat
    <3>2. /\ x * T + u \in 0 .. T * T - 1 /\ (x * T + u) % T = u /\ (x * T + u) \div T = x
          /\ y * T + u \in 0 .. T * T - 1 /\ (y * T + u) % T = u /\ (y * T + u) \div T = y
      BY RowCell
    <3> QED BY <1>1, <3>1, <3>2
  <2>6. /\ Packed(k, row, f, lhs)[i] = Padded(k, lhs, row, f + (i % Tile))
        /\ Packed(k, col, f, rhs)[j] = Padded(k, rhs, col, f + (j % Tile))
    BY <2>5, TileAssumption, PackedCell
  <2> QED BY <2>3, <2>4, <2>5, <2>6 DEF Padded
<1>4. DOMAIN q = 1 .. N /\ DOMAIN p = 1 .. k
  BY <1>1, <1>2
<1>5. TiledDot(k, row, col, lhs, rhs) = Paired(q)
  BY <1>2 DEF TiledDot
<1>6. ScalarDot(k, row, col, lhs, rhs) = Paired(p)
  BY DEF ScalarDot
<1>7. \A d \in 1 .. k : p[d] = <<lhs[<<row, d - 1>>], rhs[<<col, d - 1>>]>>
  OBVIOUS
<1>. HIDE DEF p, q
<1>8. \A d \in 1 .. k : p[d] = q[d]
  <2>1. \A d \in 1 .. k : d \in 1 .. N /\ d - 1 < k
    BY <1>2
  <2> QED BY <1>3, <1>7, <2>1
<1>9. \A d \in k + 1 .. N : q[d][1] = 0
  <2>1. ASSUME NEW d \in k + 1 .. N PROVE q[d] = <<0, 0>>
    <3>1. d \in 1 .. N /\ ~(d - 1 < k)
      BY <1>2
    <3> QED BY <1>3, <3>1
  <2> QED BY <2>1
<1>10. Paired(p) = Paired(q)
  BY <1>2, <1>4, <1>8, <1>9, PaddingIsLeftOut
<1> QED BY <1>5, <1>6, <1>10

\* MAT_MUL stores the same on both targets.
LEMMA MatMulAgrees ==
  ASSUME NEW c, c.attr \in MatMulAttrs, NEW cpu, NEW vec,
         cpu.target = "CPU", vec.target = "A100",
         cpu.attr = c.attr, vec.attr = c.attr, cpu.in = c.in, vec.in = c.in, cpu.out = c.out, vec.out = c.out
  PROVE  MatMulWrites(cpu) = MatMulWrites(vec)
<1>. DEFINE a == c.attr
            depths == 0 .. a.k - 1
            lhs(b, row) == [x \in {row} \X depths |-> c.in[1].data + 2 * LhsIndex(a, b, x[1], x[2])]
            rhs(b, col) == [x \in {col} \X depths |-> c.in[2].data + 2 * RhsIndex(a, b, x[2], x[1])]
<1>1. a.k \in Nat /\ a.m \in Nat /\ a.n \in Nat
  <2>1. U32 \subseteq Nat
    BY AttrAssumption DEF U32
  <2>2. a.k \in U32 /\ a.m \in U32 /\ a.n \in U32
    BY DEF MatMulAttrs
  <2> QED BY <2>1, <2>2
<1>2. ~VectorTarget(cpu) /\ VectorTarget(vec)
  BY DEF VectorTarget, TargetOf
<1>3. ASSUME NEW b, NEW row \in 0 .. a.m - 1, NEW col \in 0 .. a.n - 1
      PROVE  MatMulTerm(cpu, b, row, col) = MatMulTerm(vec, b, row, col)
  <2>1. MatMulTerm(cpu, b, row, col) = Term("dot", <<>>, ScalarDot(a.k, row, col, lhs(b, row), rhs(b, col)))
    BY <1>2 DEF MatMulTerm, Dot
  <2>2. MatMulTerm(vec, b, row, col) = Term("dot", <<>>, TiledDot(a.k, row, col, lhs(b, row), rhs(b, col)))
    BY <1>2 DEF MatMulTerm, Dot
  <2>. HIDE DEF lhs, rhs
  <2>3. row \in Nat /\ col \in Nat
    BY <1>1
  <2>4. TiledDot(a.k, row, col, lhs(b, row), rhs(b, col)) = ScalarDot(a.k, row, col, lhs(b, row), rhs(b, col))
    BY <1>1, <2>3, DotAgrees
  <2> QED BY <2>1, <2>2, <2>4
<1>4. ASSUME NEW x \in MatMulCells(a)
      PROVE  MatMulTerm(cpu, x[1], x[2], x[3]) = MatMulTerm(vec, x[1], x[2], x[3])
  <2>1. x[2] \in 0 .. a.m - 1 /\ x[3] \in 0 .. a.n - 1
    BY DEF MatMulCells
  <2> QED BY <1>3, <2>1
<1> QED BY <1>4 DEF MatMulWrites

\* Where the im2col matrix can be filled, the product of the taps has not wrapped.
LEMMA TapsFit ==
  ASSUME NEW a \in ConvAttrs, NEW n \in Nat, NEW w \in Nat, NEW o \in Nat, NEW b,
         GeomOK(Geom(a)), ValidateLengths(Geom(a), n, w, o, b), ~ConvPanics(Geom(a))
  PROVE  Taps(Geom(a)) \in Nat /\ Taps(Geom(a)) = PatchSize(Geom(a))
<1>. DEFINE g == Geom(a)
<1>1. PICK C \in Nat, K \in Nat, L \in Nat :
        C = CinPerGroup(g) /\ K = g.kernel[1] /\ L = g.kernel[2]
  <2>1. ConvSizes(g, n, w)
    BY ConvOperands
  <2>. HIDE DEF g
  <2>2. PICK G \in Nat, C \in Nat, Q \in Nat, H \in Nat, W \in Nat, K \in Nat, L \in Nat, P \in Nat :
          /\ G = g.groups /\ G >= 1 /\ C = CinPerGroup(g) /\ Q = CoutPerGroup(g) /\ Q >= 1
          /\ g.cin = G * C /\ g.cout = G * Q
          /\ H = g.in[1] /\ W = g.in[2] /\ K = g.kernel[1] /\ L = g.kernel[2] /\ K >= 1 /\ L >= 1
          /\ P = PatchSize(g) /\ P <= C * (K * L)
          /\ ((g.batch * g.cin) * H) * W <= n /\ g.cout * P <= w
    BY ONLY <2>1, Zenon DEF ConvSizes
  <2> QED BY ONLY <2>2, C \in Nat, K \in Nat, L \in Nat, Zenon
<1>2. PICK H \in Nat, W \in Nat : H = g.out[1] /\ W = g.out[2] /\ Spatial(g) = H * W /\ H >= 1 /\ W >= 1
  <2>1. LET f == Geom(a) IN
        /\ f.batch \in Nat /\ f.cout \in Nat /\ f.groups \in Nat \ {0}
        /\ f.out[1] \in Nat /\ f.out[2] \in Nat
        /\ Spatial(f) = f.out[1] * f.out[2] /\ Spatial(f) \in Nat
        /\ f.batch * f.cout * Spatial(f) <= o
        /\ CoutPerGroup(f) \in Nat \ {0}
    BY ONLY a \in ConvAttrs, o \in Nat, GeomOK(Geom(a)), ValidateLengths(Geom(a), n, w, o, b), ConvFacts
  <2>2. g.out[1] # 0 /\ g.out[2] # 0
    BY DEF GeomOK
  <2>. HIDE DEF g
  <2> QED BY <2>1, <2>2 DEF g
<1>. HIDE DEF g
<1>3. PICK T \in Nat : T = Taps(g)
  <2>1. C * K * L \in Nat
    OBVIOUS
  <2> QED BY <1>1, <2>1 DEF Taps
<1>4. PICK S \in Nat : S = Spatial(g) /\ S >= 1
  <2>1. H * 1 <= H * W /\ H * W \in Nat
    BY <1>2, ProductMonotone
  <2> QED BY <1>2, <2>1
<1>5. T * 1 <= T * S /\ T * S \in Nat
  BY <1>4, ProductMonotone
<1>6. 2 * (T * S) <= UsizeMax \div 2
  <2>1. PICK z \in Nat : z = T * S
    BY <1>5
  <2> QED BY <1>3, <1>4, <2>1, MetaAssumption DEF ConvPanics, g
<1>7. T <= UsizeMax
  <2>1. PICK z \in Nat : z = T * S /\ T <= z /\ 2 * z <= UsizeMax \div 2
    BY <1>5, <1>6
  <2> QED BY <2>1, MetaAssumption
<1>8. T % (UsizeMax + 1) = T
  BY <1>7, MetaAssumption
<1> QED BY <1>3, <1>8 DEF PatchSize, g

\* Where the sizes fit in 32 bits, the product of the A100 reaches every cell, and
\* its im2col matrix and tiles visit the taps the loops of the CPU visit.
LEMMA ConvProductAgrees ==
  ASSUME NEW c, c.in \in Seq(Views), c.out \in Seq(Views), c.attr \in ConvAttrs, ConvOK(c),
         CastsFit(Geom(c.attr)), ~ConvPanics(Geom(c.attr)), NEW x \in ConvCells(Geom(c.attr))
  PROVE  LET g == Geom(c.attr)
             s == x[3] * g.out[2] + x[4]
             group == x[2] \div CoutPerGroup(g)
             depths == 0 .. Taps(g) - 1
         IN /\ Reached(g, GroupPlace(g, x[2], s)) /\ GroupPlace(g, x[2], s) \in Nat
            /\ ConvProduct(c, x[1], group, GroupPlace(g, x[2], s))
                 = ScalarDot(Taps(g), 0, s,
                     [y \in {0} \X depths |-> c.in[2].data + 2 * (x[2] * PatchSize(g) + y[2])],
                     [y \in {s} \X depths |-> PatchAddr(c, x[1], group, y[2], y[1])])
<1>. DEFINE g == Geom(c.attr)
            s == x[3] * g.out[2] + x[4]
            group == x[2] \div CoutPerGroup(g)
            place == GroupPlace(g, x[2], s)
            row == place \div TileCols(g)
            col == place % TileCols(g)
            depths == 0 .. TileDepth(g) - 1
            im2col == [i \in 0 .. PatchSize(g) * Spatial(g) - 1 |->
                         PatchAddr(c, x[1], group, i \div Spatial(g), i % Spatial(g))]
            weight == [y \in {row} \X depths |->
              c.in[2].data + 2 * (group * CoutPerGroup(g) * PatchSize(g) + y[1] * TileDepth(g) + y[2])]
            column == [y \in {col} \X depths |-> im2col[y[2] * TileCols(g) + y[1]]]
            taps == Taps(g)
            cweight == [y \in {0} \X (0 .. taps - 1) |-> c.in[2].data + 2 * (x[2] * PatchSize(g) + y[2])]
            input == [y \in {s} \X (0 .. taps - 1) |-> PatchAddr(c, x[1], group, y[2], y[1])]
<1>1. /\ Len(c.in) \in 2 .. 3 /\ Len(c.out) = 1 /\ GeomOK(g)
      /\ 1 \in DOMAIN c.in /\ 2 \in DOMAIN c.in
  BY DEF ConvOK, ExpectIO
<1>0. PICK b : b = (IF Len(c.in) = 3 THEN Elements(c.in[3]) ELSE c.attr.cout)
  OBVIOUS
<1>2. PICK a \in ConvAttrs, n \in Nat, w \in Nat, o \in Nat :
        a = c.attr /\ GeomOK(Geom(a)) /\ ValidateLengths(Geom(a), n, w, o, b)
  <2>1. ValidateLengths(g, Elements(c.in[1]), Elements(c.in[2]), Elements(c.out[1]),
                        IF Len(c.in) = 3 THEN Elements(c.in[3]) ELSE c.attr.cout)
    BY DEF ConvOK
  <2>2. c.in[1].bytes \in Nat /\ c.in[2].bytes \in Nat /\ c.out[1].bytes \in Nat
    BY <1>1, ViewFacts
  <2>3. ASSUME NEW v, v.bytes \in Nat PROVE Elements(v) \in Nat
    BY <2>3 DEF Elements
  <2> QED BY <1>0, <1>1, <2>1, <2>2, <2>3
<1>3. PICK P \in Nat : P = taps /\ P = PatchSize(g)
  BY <1>2, TapsFit
<1>4. PICK H \in Nat, W \in Nat, S \in Nat : H = g.out[1] /\ W = g.out[2] /\ S = Spatial(g) /\ S = H * W
  <2>1. LET f == Geom(a) IN
        /\ f.batch \in Nat /\ f.cout \in Nat /\ f.groups \in Nat \ {0}
        /\ f.out[1] \in Nat /\ f.out[2] \in Nat
        /\ Spatial(f) = f.out[1] * f.out[2] /\ Spatial(f) \in Nat
        /\ f.batch * f.cout * Spatial(f) <= o
        /\ CoutPerGroup(f) \in Nat \ {0}
    BY ONLY a \in ConvAttrs, o \in Nat, <1>2, ConvFacts
  <2> QED BY <1>2, <2>1
<1>5. /\ x[1] \in 0 .. g.batch - 1 /\ x[2] \in 0 .. g.cout - 1
      /\ x[3] \in 0 .. g.out[1] - 1 /\ x[4] \in 0 .. g.out[2] - 1
  BY DEF ConvCells
<1>6. PICK Q \in Nat, oc \in Nat, d \in Nat, r \in Nat :
        /\ r \in 0 .. Q - 1
        /\ Q = CoutPerGroup(g) /\ oc = x[2] /\ d = group /\ r = oc % Q /\ d * Q + r = oc
  <2>1. /\ x[2] \in Nat /\ CoutPerGroup(g) \in Nat /\ group \in 0 .. g.groups - 1
        /\ x[2] % CoutPerGroup(g) \in 0 .. CoutPerGroup(g) - 1
        /\ group * CoutPerGroup(g) + (x[2] % CoutPerGroup(g)) = x[2]
    BY <1>2, <1>5, GroupOf
  <2>2. group \in Nat
    <3>1. g.groups \in Nat
      BY AttrAssumption DEF ConvAttrs, U32, Geom, AtLeastOne
    <3> QED BY <2>1, <3>1
  <2>3. PICK Q \in Nat : Q = CoutPerGroup(g)
    BY <2>1
  <2>4. PICK r \in 0 .. Q - 1 : r = x[2] % CoutPerGroup(g)
    BY <2>1, <2>3
  <2>5. r \in Nat
    OBVIOUS
  <2> QED BY <2>1, <2>2, <2>3, <2>4, <2>5
<1>8. PICK t \in 0 .. S - 1 : t = s
  <2>1. PICK oy \in 0 .. H - 1, ox \in 0 .. W - 1 : oy = x[3] /\ ox = x[4]
    BY <1>4, <1>5
  <2>2. oy * W + ox \in 0 .. H * W - 1
    BY ONLY H \in Nat, W \in Nat, oy \in 0 .. H - 1, ox \in 0 .. W - 1, RowBound
  <2> QED BY <1>4, <2>1, <2>2
<1>9. TileDepth(g) = P /\ TileCols(g) = S
  BY <1>3, <1>4, CastSizes DEF CastsFit, TileDepth, TileCols
<1>17. place = r * S + t /\ place \in Nat /\ Reached(g, place) /\ row = r /\ col = t
  <2>1. PICK z \in 0 .. Q * S - 1 : z = r * S + t /\ z % S = t /\ z \div S = r
    <3>1. PICK v \in 0 .. Q - 1 : v = r
      BY <1>6
    <3>2. v * S + t \in 0 .. Q * S - 1 /\ (v * S + t) % S = t /\ (v * S + t) \div S = v
      BY ONLY Q \in Nat, S \in Nat, v \in 0 .. Q - 1, t \in 0 .. S - 1, RowCell
    <3> QED BY <3>1, <3>2
  <2>2. place = z
    BY <1>4, <1>6, <1>8, <2>1 DEF GroupPlace
  <2>3. PICK u \in Nat : u = Q * S
    OBVIOUS
  <2>4. z \in Nat /\ z < u
    BY <2>3
  <2> QED BY <1>6, <1>9, <2>1, <2>2, <2>3, <2>4 DEF Reached
<1>10. \A e \in 0 .. P - 1 :
         /\ weight[<<row, e>>] = c.in[2].data + 2 * (d * Q * P + r * P + e)
         /\ cweight[<<0, e>>] = c.in[2].data + 2 * (oc * P + e)
         /\ column[<<col, e>>] = im2col[e * S + t]
         /\ input[<<s, e>>] = PatchAddr(c, x[1], group, e, t)
  <2>. HIDE DEF im2col, place, group
  <2>1. \A e \in 0 .. P - 1 : weight[<<row, e>>] = c.in[2].data + 2 * (d * Q * P + r * P + e)
    <3>. HIDE DEF row
    <3> QED BY <1>3, <1>6, <1>9, <1>17
  <2>2. \A e \in 0 .. P - 1 : column[<<col, e>>] = im2col[e * S + t]
    <3>. HIDE DEF col
    <3> QED BY <1>9, <1>17
  <2>3. \A e \in 0 .. P - 1 : cweight[<<0, e>>] = c.in[2].data + 2 * (oc * P + e)
    BY <1>3, <1>6
  <2>4. \A e \in 0 .. P - 1 : input[<<s, e>>] = PatchAddr(c, x[1], group, e, t)
    <3>. HIDE DEF s
    <3> QED BY <1>3, <1>8
  <2>. HIDE DEF weight, column, cweight, input, row, col, s
  <2> QED BY <2>1, <2>2, <2>3, <2>4
<1>11. \A i \in 0 .. P * S - 1 : im2col[i] = PatchAddr(c, x[1], group, i \div S, i % S)
  BY <1>3, <1>4
<1>12. ConvProduct(c, x[1], group, place) = TiledDot(TileDepth(g), row, col, weight, column)
  BY DEF ConvProduct
<1>18. ScalarDot(P, 0, t, cweight, input)
         = ScalarDot(Taps(g), 0, s,
             [y \in {0} \X (0 .. Taps(g) - 1) |-> c.in[2].data + 2 * (x[2] * PatchSize(g) + y[2])],
             [y \in {s} \X (0 .. Taps(g) - 1) |-> PatchAddr(c, x[1], group, y[2], y[1])])
  BY <1>3, <1>8
<1>. HIDE DEF weight, column, im2col, s, group, row, col, cweight, input, taps, place
<1>13. ASSUME NEW e \in 0 .. P - 1 PROVE weight[<<r, e>>] = cweight[<<0, e>>]
  <2>2. d * Q * P + r * P + e = oc * P + e
    <3>1. (d * Q + r) * P = d * Q * P + r * P
      OBVIOUS
    <3> QED BY <1>6, <3>1
  <2> QED BY <1>10, <1>17, <2>2
<1>14. ASSUME NEW e \in 0 .. P - 1 PROVE column[<<t, e>>] = input[<<t, e>>]
  <2>1. PICK i \in 0 .. P * S - 1 : i = e * S + t /\ i % S = t /\ i \div S = e
    <3>1. e * S + t \in 0 .. P * S - 1 /\ (e * S + t) % S = t /\ (e * S + t) \div S = e
      BY RowCell
    <3> QED BY <3>1
  <2>2. column[<<t, e>>] = im2col[i] /\ input[<<t, e>>] = PatchAddr(c, x[1], group, e, t)
    BY <1>8, <1>10, <1>17, <2>1
  <2>3. im2col[i] = PatchAddr(c, x[1], group, e, t)
    BY <1>11, <2>1
  <2> QED BY <2>2, <2>3
<1>15. TiledDot(P, r, t, weight, column) = ScalarDot(P, r, t, weight, column)
  BY DotAgrees
<1>16. ScalarDot(P, r, t, weight, column) = ScalarDot(P, 0, t, cweight, input)
  <2>1. [q \in 1 .. P |-> <<weight[<<r, q - 1>>], column[<<t, q - 1>>]>>]
          = [q \in 1 .. P |-> <<cweight[<<0, q - 1>>], input[<<t, q - 1>>]>>]
    <3>1. \A q \in 1 .. P : q - 1 \in 0 .. P - 1
      OBVIOUS
    <3> QED BY <1>13, <1>14, <3>1
  <2> QED BY <2>1 DEF ScalarDot
<1>19. ConvProduct(c, x[1], group, place) = ScalarDot(P, 0, t, cweight, input)
  BY <1>9, <1>12, <1>15, <1>16, <1>17
<1> QED BY <1>17, <1>18, <1>19 DEF place, group, s

\* The first element of a sequence and what comes after it.
LEMMA FirstAndRest ==
  ASSUME NEW R, NEW q \in Seq(R), NEW z \in R
  PROVE  Head(<<z>> \o q) = z /\ Tail(<<z>> \o q) = q
OBVIOUS

\* The value of the A100, from that of the CPU: the bias goes to the end.
BiasLast(c, value) ==
  IF Biased(c) THEN Term("biased", <<>>, Tail(value.from) \o <<Head(value.from)>>) ELSE value

\* The pairs of the taps of a cell in order, padding left out, and the bias last.
ConvDot(c, x) ==
  LET g == Geom(c.attr)
      s == x[3] * g.out[2] + x[4]
      depths == 0 .. Taps(g) - 1
      group == x[2] \div CoutPerGroup(g)
  IN ScalarDot(Taps(g), 0, s,
       [y \in {0} \X depths |-> c.in[2].data + 2 * (x[2] * PatchSize(g) + y[2])],
       [y \in {s} \X depths |-> PatchAddr(c, x[1], group, y[2], y[1])])
ConvSum(c, x) ==
  IF Biased(c) THEN Term("biased", <<>>, ConvDot(c, x) \o <<c.in[3].data + 2 * x[2]>>)
  ELSE Term("conv", <<>>, ConvDot(c, x))

\* That is what a cell of a convolution gets on the A100.
LEMMA ConvSumStored ==
  ASSUME NEW c, c.in \in Seq(Views), c.out \in Seq(Views), c.attr \in ConvAttrs, ConvOK(c),
         CastsFit(Geom(c.attr)), ~ConvPanics(Geom(c.attr)), NEW x \in ConvCells(Geom(c.attr))
  PROVE  /\ Reached(Geom(c.attr), GroupPlace(Geom(c.attr), x[2], x[3] * Geom(c.attr).out[2] + x[4]))
         /\ ConvDot(c, x) \in Seq(Readable(c))
         /\ ConvA100Term(c, x[1], x[2], x[3] * Geom(c.attr).out[2] + x[4]) = ConvSum(c, x)
<1>. DEFINE g == Geom(c.attr)
            s == x[3] * g.out[2] + x[4]
            group == x[2] \div CoutPerGroup(g)
            place == GroupPlace(g, x[2], s)
            product == ConvProduct(c, x[1], group, place)
<1>1. Reached(g, place) /\ place \in Nat /\ product = ConvDot(c, x)
  BY ConvProductAgrees DEF ConvDot
<1>2. /\ Len(c.in) \in 2 .. 3 /\ GeomOK(g)
      /\ ValidateLengths(g, Elements(c.in[1]), Elements(c.in[2]), Elements(c.out[1]),
                         IF Len(c.in) = 3 THEN Elements(c.in[3]) ELSE c.attr.cout)
      /\ 1 \in DOMAIN c.in /\ 2 \in DOMAIN c.in /\ 1 \in DOMAIN c.out
  BY DEF ConvOK, ExpectIO
<1>3. PICK a \in ConvAttrs, n \in Nat, w \in Nat, o \in Nat,
           b \in {IF Len(c.in) = 3 THEN Elements(c.in[3]) ELSE c.attr.cout} :
        a = c.attr /\ GeomOK(Geom(a)) /\ ValidateLengths(Geom(a), n, w, o, b)
  <2>1. c.in[1].bytes \in Nat /\ c.in[2].bytes \in Nat /\ c.out[1].bytes \in Nat
    BY <1>2, ViewFacts
  <2>2. ASSUME NEW v, v.bytes \in Nat PROVE Elements(v) \in Nat
    BY <2>2 DEF Elements
  <2> QED BY <1>2, <2>1, <2>2
<1>4. x[1] \in 0 .. g.batch - 1 /\ x[2] \in 0 .. g.cout - 1
  BY DEF ConvCells
<1>5. group \in 0 .. g.groups - 1 /\ group * CoutPerGroup(g) + (x[2] % CoutPerGroup(g)) = x[2]
  BY <1>3, <1>4, GroupOf
<1>6. product \in Seq(Readable(c))
  BY <1>1, <1>4, <1>5, ConvProductLoads
<1>7. ConvA100Term(c, x[1], x[2], s)
        = IF Biased(c)
          THEN Term("biased", <<>>,
                 product \o <<c.in[3].data + 2 * (group * CoutPerGroup(g) + (x[2] % CoutPerGroup(g)))>>)
          ELSE Term("conv", <<>>, product)
  BY <1>1 DEF ConvA100Term
<1>. HIDE DEF product, place, group, s
<1>8. ConvA100Term(c, x[1], x[2], s) = ConvSum(c, x)
  BY <1>1, <1>5, <1>7 DEF ConvSum
<1> QED BY <1>1, <1>6, <1>8 DEF s, place

\* And the value of the CPU, but for the place of the bias.
LEMMA ConvTermAgrees ==
  ASSUME NEW c, NEW x, ConvDot(c, x) \in Seq(Readable(c))
  PROVE  ConvSum(c, x) = BiasLast(c, ConvCpuTerm(c, x[1], x[2], x[3], x[4]))
<1>. DEFINE dot == ConvDot(c, x)
            bias == c.in[3].data + 2 * x[2]
<1>1. ConvCpuTerm(c, x[1], x[2], x[3], x[4])
        = Term("conv", <<>>, (IF Biased(c) THEN <<bias>> ELSE <<>>) \o dot)
  BY DEF ConvCpuTerm, ConvDot
<1>2. ConvSum(c, x) = IF Biased(c) THEN Term("biased", <<>>, dot \o <<bias>>) ELSE Term("conv", <<>>, dot)
  BY DEF ConvSum
<1>3. dot \in Seq(Readable(c))
  OBVIOUS
<1>. HIDE DEF dot, bias
<1>4. Head(<<bias>> \o dot) = bias /\ Tail(<<bias>> \o dot) = dot
  <2>1. PICK R : R = Readable(c) \cup {bias}
    OBVIOUS
  <2>2. dot \in Seq(R) /\ bias \in R
    BY <1>3, <2>1, SeqWider
  <2> QED BY <2>2, FirstAndRest
<1>5. <<>> \o dot = dot
  BY <1>3
<1>6. CASE Biased(c)
  <2>1. ConvCpuTerm(c, x[1], x[2], x[3], x[4]) = Term("conv", <<>>, <<bias>> \o dot)
    BY <1>1, <1>6
  <2>2. BiasLast(c, ConvCpuTerm(c, x[1], x[2], x[3], x[4]))
          = Term("biased", <<>>, Tail(<<bias>> \o dot) \o <<Head(<<bias>> \o dot)>>)
    BY <1>6, <2>1 DEF BiasLast, Term
  <2> QED BY <1>2, <1>4, <1>6, <2>2
<1>7. CASE ~Biased(c)
  <2>1. ConvCpuTerm(c, x[1], x[2], x[3], x[4]) = Term("conv", <<>>, dot)
    BY <1>1, <1>5, <1>7
  <2> QED BY <1>2, <1>7, <2>1 DEF BiasLast
<1> QED BY <1>6, <1>7

\* CONV2D stores to the same addresses on both targets, and those values.
LEMMA ConvAgrees ==
  ASSUME NEW c, c.in \in Seq(Views), c.out \in Seq(Views), c.attr \in ConvAttrs, ConvOK(c),
         CastsFit(Geom(c.attr)), ~ConvPanics(Geom(c.attr)), NEW cpu, NEW vec,
         cpu.target = "CPU", vec.target = "A100",
         cpu.attr = c.attr, vec.attr = c.attr, cpu.in = c.in, vec.in = c.in, cpu.out = c.out, vec.out = c.out
  PROVE  /\ DOMAIN ConvWrites(cpu) = ConvCells(Geom(c.attr))
         /\ DOMAIN ConvWrites(vec) = ConvCells(Geom(c.attr))
         /\ \A x \in ConvCells(Geom(c.attr)) :
              ConvWrites(vec)[x] = [at |-> ConvWrites(cpu)[x].at, val |-> BiasLast(c, ConvWrites(cpu)[x].val)]
<1>1. ~VectorTarget(cpu) /\ VectorTarget(vec)
  BY DEF VectorTarget, TargetOf
<1>2. ASSUME NEW b, NEW oc, NEW oy, NEW ox, NEW s
      PROVE  /\ ConvA100Term(vec, b, oc, s) = ConvA100Term(c, b, oc, s)
             /\ ConvA100At(vec, b, oc, s) = ConvA100At(c, b, oc, s)
             /\ ConvCpuTerm(cpu, b, oc, oy, ox) = ConvCpuTerm(c, b, oc, oy, ox)
             /\ ConvCpuAt(cpu, b, oc, oy, ox) = ConvCpuAt(c, b, oc, oy, ox)
  BY DEF ConvA100Term, ConvProduct, Biased, ConvA100At, ConvCpuTerm, ConvCpuAt, PatchAddr
<1>3. /\ Len(c.out) = 1 /\ AllF16(c) /\ GeomOK(Geom(c.attr))
      /\ ValidateLengths(Geom(c.attr), Elements(c.in[1]), Elements(c.in[2]), Elements(c.out[1]),
                        IF Len(c.in) = 3 THEN Elements(c.in[3]) ELSE c.attr.cout)
  BY DEF ConvOK, ExpectIO
<1>4. ASSUME NEW x \in ConvCells(Geom(c.attr))
      PROVE  /\ ConvCpuAt(c, x[1], x[2], x[3], x[4])
                  = ConvA100At(c, x[1], x[2], x[3] * Geom(c.attr).out[2] + x[4])
             /\ BiasLast(c, ConvCpuTerm(c, x[1], x[2], x[3], x[4]))
                  = ConvA100Term(c, x[1], x[2], x[3] * Geom(c.attr).out[2] + x[4])
             /\ Reached(Geom(c.attr), GroupPlace(Geom(c.attr), x[2], x[3] * Geom(c.attr).out[2] + x[4]))
  BY <1>3, ConvAddress, ConvSumStored, ConvTermAgrees
<1>5. ConvStoredCells(cpu) = ConvCells(Geom(c.attr)) /\ ConvStoredCells(vec) = ConvCells(Geom(c.attr))
  BY <1>1, <1>4 DEF ConvStoredCells
<1>6. ASSUME NEW x \in ConvCells(Geom(c.attr))
      PROVE  /\ ConvWrites(cpu)[x] = [at |-> ConvCpuAt(c, x[1], x[2], x[3], x[4]),
                                      val |-> ConvCpuTerm(c, x[1], x[2], x[3], x[4])]
             /\ ConvWrites(vec)[x]
                  = [at |-> ConvA100At(c, x[1], x[2], x[3] * Geom(c.attr).out[2] + x[4]),
                     val |-> ConvA100Term(c, x[1], x[2], x[3] * Geom(c.attr).out[2] + x[4])]
  BY <1>1, <1>2, <1>5 DEF ConvWrites
<1> QED BY <1>4, <1>5, <1>6 DEF ConvWrites

(* --- accepted calls ------------------------------------------------------------ *)
\* What the call of a well-typed descriptor looks like.
TypedOperands(c) ==
  /\ c.in \in Seq(Views) /\ c.out \in Seq(Views) /\ c.target = "A100"
  /\ c.op = "MAT_MUL" => c.attr \in MatMulAttrs
  /\ c.op = "CONV2D" => c.attr \in ConvAttrs
  /\ c.op = "MAX_POOL" => c.attr \in PoolAttrs
  /\ c.op = "TILE" => /\ c.attr \in TileAttrs
                      /\ c.attr.rank <= MaxDim => c.attr.rank <= Len(c.attr.repeats)
  /\ TypedAttr(c.op, c.attr)
  /\ c.op = "TRANSPOSE" /\ c.attr.rank <= MaxDim => c.attr.rank <= Len(c.attr.perm)
  /\ TypedContents(c.op, c.in, c.ints, c.vals)

\* The call k3_run_kernel makes of a typed descriptor is typed.
LEMMA CallTyped ==
  ASSUME NEW d, TypedDesc(d), CountsOK(d)
  PROVE  /\ TypedOperands(CallOf(d))
         /\ DOMAIN CallOf(d).out = 1 .. d.output_count /\ d.output_count \in Nat
<1>1. /\ CallOf(d).op = "MAT_MUL" => CallOf(d).attr \in MatMulAttrs
      /\ CallOf(d).op = "CONV2D" => CallOf(d).attr \in ConvAttrs
      /\ CallOf(d).op = "MAX_POOL" => CallOf(d).attr \in PoolAttrs
  BY CallViews DEF TypedDesc, TypedCall, TypedAttr
<1>2. CallOf(d).op = "TILE" =>
        /\ CallOf(d).attr \in TileAttrs
        /\ CallOf(d).attr.rank <= MaxDim => CallOf(d).attr.rank <= Len(CallOf(d).attr.repeats)
  BY CallViews DEF TypedDesc, TypedCall, TypedAttr
<1>3. TypedContents(CallOf(d).op, CallOf(d).in, CallOf(d).ints, CallOf(d).vals)
  <2>1. PICK n \in Nat, m \in Nat : n = d.input_count /\ m = d.output_count
    BY CallViews
  <2>2. PICK s \in Seq(Views), u \in Seq(Views) : s = CallOf(d).in /\ u = CallOf(d).out
    BY CallViews
  <2>3. Len(s) = n /\ Len(u) = m
    BY <2>1, <2>2, CallViews
  <2>4. ASSUME NEW i \in 1 .. n PROVE s[i] = d.tensors[i]
    <3>1. i \in 1 .. d.input_count + d.output_count
      BY <2>1
    <3>2. (s \o u)[i] = d.tensors[i]
      BY <2>2, <3>1, CallTensors
    <3> QED BY <2>3, <3>2
  <2>5. d.tensors \in Seq(Views) /\ n <= Len(d.tensors) /\ Len(d.tensors) \in Nat
    <3>1. n + m <= Len(d.tensors) /\ d.tensors \in Seq(Views)
      BY <2>1 DEF TypedDesc, CountsOK
    <3> QED BY <3>1
  <2>6. TypedContents(d.op, d.tensors, d.ints, d.vals)
    BY DEF TypedDesc
  <2>7. TypedContents(d.op, s, d.ints, d.vals)
    <3>1. n > 0 => Len(d.tensors) > 0 /\ s[1] = d.tensors[1]
      BY <2>4, <2>5
    <3>2. n > 1 => Len(d.tensors) > 1 /\ s[2] = d.tensors[2]
      BY <2>4, <2>5
    <3> QED BY <2>3, <2>6, <3>1, <3>2 DEF TypedContents
  <2>8. CallOf(d).vals = d.vals /\ CallOf(d).ints = d.ints /\ CallOf(d).op = d.op
    BY DEF CallOf
  <2> QED BY <2>2, <2>7, <2>8
<1>4. CallOf(d).target = "A100"
  BY DEF CallOf
<1>5. TypedOperands(CallOf(d))
  <2>1. TypedAttr(CallOf(d).op, CallOf(d).attr)
    BY CallViews DEF TypedDesc, TypedCall
  <2>2. CallOf(d).op = "TRANSPOSE" /\ CallOf(d).attr.rank <= MaxDim =>
          CallOf(d).attr.rank <= Len(CallOf(d).attr.perm)
    BY CallViews DEF TypedDesc, TypedCall
  <2> QED BY <1>1, <1>2, <1>3, <1>4, <2>1, <2>2, CallViews DEF TypedOperands
<1>6. DOMAIN CallOf(d).out = 1 .. Len(CallOf(d).out)
  BY CallViews
<1> QED BY <1>5, <1>6, CallViews

\* The kernels that index by their attributes or go element by element write
\* one output; the others have checked the metadata of all their views.
LEMMA DirectOutputs ==
  ASSUME NEW c, Accepts(c), c.op \in DirectOps
  PROVE  Len(c.out) = 1
BY DEF Accepts, DirectOps, BinaryOps, UnaryOps, MatMulOK, ConvOK, BinaryOK, UnaryOK, ExpectIO

\* Every output written through write_logical_bytes has passed checked_meta.
LEMMA LogicalMeta ==
  ASSUME NEW c, Accepts(c), c.op \notin DirectOps
  PROVE  AllMetaOK(c)
<1>1. CASE c.op \in {"SOFTMAX", "RMS_NORM", "ROPE"}
  BY <1>1 DEF Accepts, BinaryOps, UnaryOps, SoftmaxOK, RmsNormOK, RopeOK, SameShape
<1>2. CASE c.op \in {"GLU", "MAX_POOL", "REDUCE_MAX", "TOP_K"}
  BY <1>2, SMTT(30)
     DEF Accepts, BinaryOps, UnaryOps, GluOK, MaxPoolOK, ReduceMaxOK, TopKOK, OneToOne
<1>3. CASE c.op \in {"CONCAT", "TRANSPOSE", "GATHER", "GATHER_ELEMENTS"}
  BY <1>3 DEF Accepts, BinaryOps, UnaryOps, ConcatOK, TransposeOK, GatherOK, GatherElementsOK,
              GatherIO, OneToOne
<1>4. CASE c.op \in {"COPY", "CAST", "RESIZE", "EXPAND", "TILE"}
  BY <1>4 DEF Accepts, BinaryOps, UnaryOps, CopyOK, CastOK, ResizeOK, ExpandOK, TileOK, OneToOne
<1> QED BY <1>1, <1>2, <1>3, <1>4 DEF Accepts, DirectOps

\* Every store of an accepted call lies inside the output it is for.
LEMMA AcceptedStores ==
  ASSUME NEW c, TypedOperands(c), Accepts(c), NEW o \in DOMAIN c.out
  PROVE  Inside(c.out[o], Stores(c, o))
<1>1. c.out \in Seq(Views) /\ c.out[o] \in Views /\ o \in 1 .. Len(c.out)
  BY DEF TypedOperands
<1>2. CASE Skips(c)
  <2>1. Stores(c, o) = <<>>
    BY <1>2 DEF Stores
  <2> QED BY <2>1 DEF Inside
<1>3. CASE ~Skips(c) /\ c.op \in DirectOps
  <2>1. o = 1
    BY <1>1, <1>3, DirectOutputs
  <2>2. CASE c.op = "MAT_MUL"
    <3>1. MatMulOK(c) /\ c.attr \in MatMulAttrs
      BY <2>2 DEF Accepts, TypedOperands, BinaryOps, UnaryOps
    <3> QED BY <1>1, <1>3, <2>1, <2>2, <3>1, MatMulStores DEF Stores
  <2>3. CASE c.op = "CONV2D"
    <3>1. ConvOK(c) /\ c.attr \in ConvAttrs
      BY <2>3 DEF Accepts, TypedOperands, BinaryOps, UnaryOps
    <3> QED BY <1>1, <1>3, <2>1, <2>3, <3>1, ConvStores DEF Stores
  <2>4. CASE c.op \in BinaryOps
    <3>1. BinaryOK(c)
      BY <2>4 DEF Accepts, BinaryOps, UnaryOps
    <3>2. c.op # "MAT_MUL" /\ c.op # "CONV2D"
      BY <2>4 DEF BinaryOps
    <3> QED BY <1>1, <1>3, <2>1, <2>4, <3>1, <3>2, BinaryStores DEF Stores
  <2>5. CASE c.op \in UnaryOps
    <3>1. UnaryOK(c)
      BY <2>5 DEF Accepts, BinaryOps, UnaryOps
    <3>2. c.op # "MAT_MUL" /\ c.op # "CONV2D" /\ c.op \notin BinaryOps
      BY <2>5 DEF BinaryOps, UnaryOps
    <3> QED BY <1>1, <1>3, <2>1, <2>5, <3>1, <3>2, UnaryStores DEF Stores
  <2> QED BY <1>3, <2>2, <2>3, <2>4, <2>5 DEF DirectOps
<1>4. CASE ~Skips(c) /\ c.op \notin DirectOps
  <2>1. Stores(c, o) = WriteLogical(c.out[o], LogicalOutputs(c)[o])
    BY <1>4 DEF Stores, DirectOps
  <2>2. MetaOK(c.out[o])
    BY <1>4, LogicalMeta DEF AllMetaOK, ViewsOf
  <2> QED BY <1>1, <2>1, <2>2, LogicalStores
<1> QED BY <1>2, <1>3, <1>4

\* Only MAX_POOL and TOP_K have more than one output.
LEMMA SingleOutput ==
  ASSUME NEW c, Accepts(c), c.op \notin {"MAX_POOL", "TOP_K"}
  PROVE  Len(c.out) = 1
<1>1. CASE c.op \in {"SOFTMAX", "RMS_NORM", "ROPE", "GLU", "REDUCE_MAX", "COPY", "CAST"}
  BY <1>1 DEF Accepts, BinaryOps, UnaryOps, SoftmaxOK, RmsNormOK, RopeOK, SameShape, GluOK,
              ReduceMaxOK, CopyOK, CastOK, OneToOne, ExpectIO
<1>2. CASE c.op \in {"CONCAT", "RESIZE", "EXPAND", "TILE"}
  BY <1>2, SMTT(30)
     DEF Accepts, BinaryOps, UnaryOps, ConcatOK, ResizeOK, ExpandOK, TileOK, OneToOne, ExpectIO
<1>3. CASE c.op \in {"TRANSPOSE", "GATHER", "GATHER_ELEMENTS"}
  BY <1>3 DEF Accepts, BinaryOps, UnaryOps, TransposeOK, GatherOK, GatherElementsOK, GatherIO,
              OneToOne, ExpectIO
<1> QED BY <1>1, <1>2, <1>3, DirectOutputs DEF Accepts, DirectOps

\* A kernel with two outputs finds the second one as long as the first.
LEMMA SecondOutput ==
  ASSUME NEW c, c.out \in Seq(Views), Accepts(c), LengthOK(c, 1), NEW o \in DOMAIN c.out
  PROVE  LengthOK(c, o)
<1>1. CASE o = 1
  BY <1>1
<1>2. CASE c.op = "MAX_POOL" /\ o # 1
  <2>1. Len(c.out) = 2 /\ o = 2 /\ c.out[2].shape = Dst(c).shape
    BY <1>2 DEF Accepts, MaxPoolOK, ExpectIO, BinaryOps, UnaryOps
  <2>2. DOMAIN MaxPoolResult(c)[1] = Linears(Dst(c)) /\ DOMAIN MaxPoolResult(c)[2] = Linears(Dst(c))
    BY DEF MaxPoolResult
  <2>3. LogicalOutputs(c) = MaxPoolResult(c)
    BY <1>2 DEF LogicalOutputs
  <2>4. c.op \notin DirectOps /\ ~Skips(c)
    BY <1>2 DEF DirectOps, BinaryOps, UnaryOps, Skips
  <2>5. Count(c.out[2]) = Count(c.out[1])
    BY <2>1 DEF Count, Dst
  <2> QED BY <2>1, <2>2, <2>3, <2>4, <2>5 DEF LengthOK
<1>3. CASE c.op = "TOP_K" /\ o # 1
  <2>1. Len(c.out) = 2 /\ o = 2 /\ c.out[2].shape = Dst(c).shape
    BY <1>3 DEF Accepts, TopKOK, ExpectIO, BinaryOps, UnaryOps
  <2>2. DOMAIN TopKResult(c)[1] = Linears(Dst(c)) /\ DOMAIN TopKResult(c)[2] = Linears(Dst(c))
    BY DEF TopKResult
  <2>3. LogicalOutputs(c) = TopKResult(c)
    BY <1>3 DEF LogicalOutputs
  <2>4. c.op \notin DirectOps /\ ~Skips(c)
    BY <1>3 DEF DirectOps, BinaryOps, UnaryOps, Skips
  <2>5. Count(c.out[2]) = Count(c.out[1])
    BY <2>1 DEF Count, Dst
  <2> QED BY <2>1, <2>2, <2>3, <2>4, <2>5 DEF LengthOK
<1>4. CASE c.op \notin {"MAX_POOL", "TOP_K"}
  BY <1>4, SingleOutput
<1> QED BY <1>1, <1>2, <1>3, <1>4

\* The logical outputs of an accepted call are computed from its inputs.
LEMMA LogicalLoads ==
  ASSUME NEW c, TypedOperands(c), Accepts(c), ~Panics(c), c.op \notin DirectOps,
         NEW o \in DOMAIN c.out, NEW l \in Linears(c.out[o])
  PROVE  Sound(c, LogicalOutputs(c)[o][l])
<1>1. c.in \in Seq(Views) /\ c.out \in Seq(Views) /\ o \in 1 .. Len(c.out)
  BY DEF TypedOperands
<1>2. CASE c.op = "MAX_POOL" /\ o = 1
  <2>1. MaxPoolOK(c) /\ c.attr \in PoolAttrs /\ LogicalOutputs(c) = MaxPoolResult(c)
    BY <1>2 DEF Accepts, TypedOperands, BinaryOps, UnaryOps, LogicalOutputs
  <2>2. \A i \in 0 .. c.in[1].bytes \div 2 - 1 : c.vals[i] \in Int
    BY <1>2, <2>1 DEF TypedOperands, TypedContents, MaxPoolOK, ExpectIO
  <2> QED BY <1>1, <1>2, <2>1, <2>2, MaxPoolLoads DEF Dst
<1>3. CASE c.op = "TOP_K" /\ o = 1
  <2>1. TopKOK(c) /\ LogicalOutputs(c) = TopKResult(c)
    BY <1>3 DEF Accepts, BinaryOps, UnaryOps, LogicalOutputs
  <2>2. \A i \in 0 .. c.in[1].bytes \div 2 - 1 : c.vals[i] \in Int
    BY <1>3, <2>1 DEF TypedOperands, TypedContents, TopKOK, ExpectIO
  <2> QED BY <1>1, <1>3, <2>1, <2>2, TopKLoads DEF Dst
<1>4. CASE c.op \in {"MAX_POOL", "TOP_K"} /\ o # 1
  <2>1. o = 2 /\ c.out[2].shape = Dst(c).shape
    BY <1>1, <1>4 DEF Accepts, BinaryOps, UnaryOps, MaxPoolOK, TopKOK, ExpectIO
  <2>2. l \in Linears(Dst(c))
    BY <2>1 DEF Linears, Count
  <2>3. \E w : LogicalOutputs(c)[o][l] = Term("index", w, <<>>)
    <3>1. CASE c.op = "MAX_POOL"
      BY <2>1, <2>2, <3>1 DEF LogicalOutputs, MaxPoolResult
    <3>2. CASE c.op = "TOP_K"
      BY <2>1, <2>2, <3>2 DEF LogicalOutputs, TopKResult
    <3> QED BY <1>4, <3>1, <3>2
  <2>4. <<>> \in Seq(Readable(c)) /\ "index" \in Functions
    BY DEF Functions
  <2> QED BY <2>3, <2>4, TermSound
<1>5. CASE c.op \notin {"MAX_POOL", "TOP_K"}
  <2>1. o = 1 /\ l \in Linears(Dst(c))
    BY <1>1, <1>5, SingleOutput DEF Dst
  <2>2. LogicalOutputs(c)[o] = LogicalOutput(c)
    BY <1>5, <2>1 DEF LogicalOutputs
  <2>3. CASE c.op = "SOFTMAX"
    BY <1>1, <2>1, <2>2, <2>3, SoftmaxLoads DEF Accepts, BinaryOps, UnaryOps, LogicalOutput
  <2>4. CASE c.op = "RMS_NORM"
    BY <1>1, <2>1, <2>2, <2>4, RmsNormLoads DEF Accepts, BinaryOps, UnaryOps, LogicalOutput
  <2>5. CASE c.op = "ROPE"
    BY <1>1, <2>1, <2>2, <2>5, RopeLoads DEF Accepts, BinaryOps, UnaryOps, LogicalOutput
  <2>6. CASE c.op = "GLU"
    BY <1>1, <2>1, <2>2, <2>6, GluLoads DEF Accepts, BinaryOps, UnaryOps, LogicalOutput
  <2>7. CASE c.op = "REDUCE_MAX"
    BY <1>1, <2>1, <2>2, <2>7, ReduceMaxLoads DEF Accepts, BinaryOps, UnaryOps, LogicalOutput
  <2>8. CASE c.op = "CONCAT"
    BY <1>1, <2>1, <2>2, <2>8, ConcatLoads DEF Accepts, BinaryOps, UnaryOps, LogicalOutput
  <2>9. CASE c.op = "TRANSPOSE"
    BY <1>1, <2>1, <2>2, <2>9, TransposeLoads DEF Accepts, BinaryOps, UnaryOps, LogicalOutput
  <2>10. CASE c.op = "GATHER"
    BY <1>1, <2>1, <2>2, <2>10, GatherLoads DEF Accepts, BinaryOps, UnaryOps, LogicalOutput
  <2>11. CASE c.op = "GATHER_ELEMENTS"
    BY <1>1, <2>1, <2>2, <2>11, GatherElementsLoads
       DEF Accepts, BinaryOps, UnaryOps, LogicalOutput
  <2>12. CASE c.op = "COPY"
    BY <1>1, <2>1, <2>2, <2>12, CopyLoads DEF Accepts, BinaryOps, UnaryOps, LogicalOutput
  <2>13. CASE c.op = "CAST"
    BY <1>1, <2>1, <2>2, <2>13, CastLoads DEF Accepts, BinaryOps, UnaryOps, LogicalOutput
  <2>14. CASE c.op = "RESIZE"
    <3>1. ~ResizePanics(c)
      BY <2>14 DEF Panics
    <3> QED BY <1>1, <2>1, <2>2, <2>14, <3>1, ResizeLoads
            DEF Accepts, BinaryOps, UnaryOps, LogicalOutput
  <2>15. CASE c.op = "EXPAND"
    BY <1>1, <2>1, <2>2, <2>15, ExpandLoads DEF Accepts, BinaryOps, UnaryOps, LogicalOutput
  <2>16. CASE c.op = "TILE"
    BY <1>1, <2>1, <2>2, <2>16, TileLoads
       DEF Accepts, TypedOperands, BinaryOps, UnaryOps, LogicalOutput
  <2> QED BY <1>5, <2>3, <2>4, <2>5, <2>6, <2>7, <2>8, <2>9, <2>10, <2>11, <2>12, <2>13, <2>14,
             <2>15, <2>16 DEF Accepts, DirectOps
<1> QED BY <1>2, <1>3, <1>4, <1>5

\* Every value an accepted call stores is computed from its inputs, one of CONV2D
\* perhaps from its cell too.
LEMMA AcceptedLoads ==
  ASSUME NEW c, TypedOperands(c), Accepts(c), ~Panics(c), NEW o \in DOMAIN c.out,
         NEW k \in DOMAIN Stores(c, o)
  PROVE  SoundStore(c, Stores(c, o)[k])
<1>0. ASSUME Sound(c, Stores(c, o)[k].val) PROVE SoundStore(c, Stores(c, o)[k])
  <2>1. Readable(c) \subseteq Reads(c, Stores(c, o)[k].at)
    BY DEF Reads
  <2> QED BY <1>0, <2>1, SeqWider DEF Sound, SoundStore
<1>1. c.in \in Seq(Views) /\ c.out \in Seq(Views) /\ o \in 1 .. Len(c.out)
  BY DEF TypedOperands
<1>2. CASE Skips(c)
  BY <1>2 DEF Stores
<1>3. CASE ~Skips(c) /\ c.op \in DirectOps
  <2>1. CASE c.op = "MAT_MUL"
    <3>1. MatMulOK(c) /\ c.attr \in MatMulAttrs /\ Stores(c, o) = MatMulWrites(c)
      BY <1>3, <2>1 DEF Accepts, TypedOperands, BinaryOps, UnaryOps, Stores
    <3>2. k \in MatMulCells(c.attr)
      BY <3>1 DEF MatMulWrites
    <3> QED BY <1>0, <1>1, <3>1, <3>2, MatMulLoads
  <2>2. CASE c.op = "CONV2D"
    <3>1. ConvOK(c) /\ c.attr \in ConvAttrs /\ c.target = "A100" /\ Stores(c, o) = ConvWrites(c)
      BY <1>3, <2>2 DEF Accepts, TypedOperands, BinaryOps, UnaryOps, Stores
    <3>2. k \in DOMAIN ConvWrites(c)
      BY <3>1
    <3> QED BY <1>1, <2>2, <3>1, <3>2, ConvLoads
  <2>3. CASE c.op \in BinaryOps
    <3>1. BinaryOK(c) /\ Stores(c, o) = BinaryWrites(c)
      BY <1>3, <2>3 DEF Accepts, BinaryOps, UnaryOps, Stores
    <3>2. k \in Linears(c.out[1])
      BY <3>1 DEF BinaryWrites
    <3> QED BY <1>0, <1>1, <2>3, <3>1, <3>2, BinaryLoads
  <2>4. CASE c.op \in UnaryOps
    <3>1. UnaryOK(c) /\ Stores(c, o) = UnaryWrites(c)
      BY <1>3, <2>4 DEF Accepts, BinaryOps, UnaryOps, Stores
    <3>2. k \in 0 .. c.in[1].bytes \div 2 - 1
      BY <3>1 DEF UnaryWrites
    <3> QED BY <1>0, <1>1, <2>4, <3>1, <3>2, UnaryLoads
  <2> QED BY <1>3, <2>1, <2>2, <2>3, <2>4 DEF DirectOps
<1>4. CASE ~Skips(c) /\ c.op \notin DirectOps
  <2>1. Stores(c, o) = WriteLogical(c.out[o], LogicalOutputs(c)[o])
    BY <1>4 DEF Stores, DirectOps
  <2>2. k \in Linears(c.out[o]) /\ Stores(c, o)[k].val = LogicalOutputs(c)[o][k]
    BY <2>1 DEF WriteLogical
  <2> QED BY <1>0, <1>4, <2>2, LogicalLoads
<1> QED BY <1>2, <1>3, <1>4

\* The outputs of an accepted call have elements of a known size.
LEMMA OutputSizes ==
  ASSUME NEW c, Accepts(c), NEW o \in DOMAIN c.out
  PROVE  SizeOf(c.out[o]) \in 1 .. 8
<1>1. c.out[o] \in ViewsOf(c)
  BY DEF ViewsOf
<1>2. CASE c.op \in DirectOps
  <2>1. AllF16(c)
    BY <1>2 DEF Accepts, DirectOps, BinaryOps, UnaryOps, BinaryOK, UnaryOK, ConvOK, MatMulOK
  <2>2. c.out[o].dtype = "F16"
    BY <1>1, <2>1 DEF AllF16
  <2> QED BY <2>2 DEF SizeOf, ElementSize
<1>3. CASE c.op \notin DirectOps
  <2>1. MetaOK(c.out[o])
    BY <1>1, <1>3, LogicalMeta DEF AllMetaOK
  <2>2. c.out[o].dtype \in DOMAIN ElementSize
    BY <2>1 DEF MetaOK
  <2> QED BY <2>2, SizeFacts
<1> QED BY <1>2, <1>3

\* The kernels that refuse overlapping buffers.
Guarded(c) == c.op \notin {"COPY", "MAT_MUL"} \cup UnaryOps

\* The kernels that call reject_input_output_alias do so before anything else.
LEMMA GuardedApart ==
  ASSUME NEW c, Accepts(c), Guarded(c)
  PROVE  NoAlias(c)
<1>1. CASE c.op \in {"SOFTMAX", "RMS_NORM", "ROPE"}
  BY <1>1, SMTT(30) DEF Accepts, BinaryOps, UnaryOps, SoftmaxOK, RmsNormOK, RopeOK, SameShape
<1>4. CASE c.op \in {"GLU", "MAX_POOL", "REDUCE_MAX", "TOP_K"}
  BY <1>4, SMTT(30)
     DEF Accepts, BinaryOps, UnaryOps, GluOK, MaxPoolOK, ReduceMaxOK, TopKOK, OneToOne
<1>2. CASE c.op \in {"CONCAT", "TRANSPOSE", "GATHER", "GATHER_ELEMENTS", "CAST", "RESIZE",
                     "EXPAND", "TILE"}
  BY <1>2 DEF Accepts, BinaryOps, UnaryOps, ConcatOK, TransposeOK, GatherOK, GatherElementsOK,
              GatherIO, CastOK, ResizeOK, ExpandOK, TileOK, OneToOne
<1>3. CASE c.op \in BinaryOps \cup {"CONV2D"}
  BY <1>3 DEF Accepts, BinaryOps, UnaryOps, BinaryOK, ConvOK
<1> QED BY <1>1, <1>2, <1>3, <1>4 DEF Accepts, Guarded

(* --- the invariant -------------------------------------------------------------- *)
Started == TypedDesc(desc) /\ CountsOK(desc) /\ Accepts(CallOf(desc)) /\ ~Panics(CallOf(desc))

\* Memory holds values of the functions the kernels compute, at addresses of the outputs.
Stored(a, value) ==
  /\ \E o \in DOMAIN Call.out : a \in Extent(Call.out[o], SizeOf(Call.out[o]))
  /\ value.f \in Functions
StoredInside == \A a \in DOMAIN mem : Stored(a, mem[a])

\* Memory is touched only between the first output and the end of a call that
\* was accepted; by then the length of the first output is known to be right,
\* and with it that of the second.
Idle == mem = UntouchedMem /\ node = FreshNode
Writing ==
  /\ Started /\ next \in 1 .. desc.output_count + 1 /\ node = FreshNode
  /\ next = 1 => mem = UntouchedMem
  /\ next > 1 => LengthOK(Call, 1)
  /\ StoredInside
RefusedNode == [complete |-> TRUE, error_flag |-> TRUE, ret |-> "error"]
DoneNode == [complete |-> TRUE, error_flag |-> FALSE, ret |-> "ok"]
Finished ==
  \/ node = RefusedNode /\ mem = UntouchedMem
  \/ node = DoneNode /\ Started /\ StoredInside
IInv ==
  /\ pc \in {"idle", "refused", "submitted", "writing", "done", "panicked"}
  /\ next \in 0 .. MaxSubmit + 1
  /\ pc \in {"idle", "refused", "panicked"} => Idle
  /\ pc = "submitted" => Idle /\ TypedDesc(desc)
  /\ pc = "writing" => Writing
  /\ pc = "done" => Finished

\* IInv holds when no call has begun.
LEMMA Initially == Init => IInv
BY RequestAssumption DEF Init, IInv, Idle

\* Handing over a request or a descriptor keeps it.
LEMMA EntryKeeps ==
  ASSUME IInv, Entry
  PROVE  IInv'
<1>1. CASE \E r \in Requests : RefuseRequest(r)
  BY <1>1 DEF IInv, RefuseRequest, Idle
<1>2. CASE \E r \in Requests : RunRequest(r)
  <2>1. PICK r \in Requests : RunRequest(r)
    BY <1>2
  <2>2. TypedDesc(desc')
    BY <2>1, BuildDescTyped DEF RunRequest
  <2> QED BY <2>1, <2>2 DEF IInv, RunRequest, Idle
<1>3. CASE \E d \in Descs : SubmitDesc(d)
  <2>1. PICK d \in Descs : SubmitDesc(d)
    BY <1>3
  <2>2. TypedDesc(desc')
    BY <2>1, CallAssumption DEF SubmitDesc
  <2> QED BY <2>1, <2>2 DEF IInv, SubmitDesc, Idle
<1> QED BY <1>1, <1>2, <1>3 DEF Entry

\* What memory holds after a step of write_logical_bytes.
LEMMA AfterHolds ==
  ASSUME NEW m, NEW stores, NEW a \in DOMAIN After(m, stores)
  PROVE  \/ \E k \in DOMAIN stores : a = stores[k].at /\ After(m, stores)[a] = stores[k].val
         \/ a \in DOMAIN m /\ After(m, stores)[a] = m[a]
<1>1. CASE \E k \in DOMAIN stores : stores[k].at = a
  <2>1. PICK k \in DOMAIN stores : k = CHOOSE h \in DOMAIN stores : stores[h].at = a
    BY <1>1
  <2>2. stores[k].at = a
    BY <1>1, <2>1
  <2>3. After(m, stores)[a] = stores[k].val
    BY <2>1, <2>2 DEF After
  <2> QED BY <2>2, <2>3
<1>2. CASE ~\E k \in DOMAIN stores : stores[k].at = a
  BY <1>2 DEF After
<1> QED BY <1>1, <1>2

\* So does every step of k3_run_kernel.
LEMMA KernelKeeps ==
  ASSUME IInv, Kernel
  PROVE  IInv'
<1>1. CASE RejectCounts
  BY <1>1 DEF IInv, RejectCounts, Fail, Idle, Finished, RefusedNode
<1>2. CASE RejectCall
  BY <1>2 DEF IInv, RejectCall, Fail, Idle, Finished, RefusedNode
<1>3. CASE StartCall
  <2>1. Idle /\ TypedDesc(desc) /\ CountsOK(desc) /\ Accepts(CallOf(desc))
        /\ ~Panics(CallOf(desc))
        /\ pc' = "writing" /\ next' = 1 /\ desc' = desc /\ mem' = mem /\ node' = node
    BY <1>3 DEF IInv, StartCall
  <2>2. StoredInside'
    BY <2>1 DEF Idle, UntouchedMem, StoredInside
  <2>3. 1 \in 0 .. MaxSubmit + 1 /\ 1 \in 1 .. desc.output_count + 1
    BY <2>1, CallTyped, RequestAssumption
  <2> QED BY <2>1, <2>2, <2>3 DEF IInv, Writing, Started, Idle
<1>4. CASE WriteOutput
  <2>1. Writing /\ pc = "writing" /\ next <= desc.output_count
    BY <1>4 DEF IInv, WriteOutput
  <2>2. /\ TypedOperands(Call) /\ Accepts(Call) /\ ~Panics(Call)
        /\ next \in DOMAIN Call.out /\ desc.output_count \in Nat
    BY <2>1, CallTyped DEF Writing, Started, Call
  <2>3. CASE LengthOK(Call, next)
    <3>1. /\ mem' = After(mem, Stores(Call, next)) /\ next' = next + 1
          /\ pc' = pc /\ desc' = desc /\ node' = node
      BY <1>4, <2>3 DEF WriteOutput, Call
    <3>2. ASSUME NEW k \in DOMAIN Stores(Call, next)
          PROVE  Stored(Stores(Call, next)[k].at, Stores(Call, next)[k].val)
      BY <2>2, AcceptedStores, AcceptedLoads DEF Inside, Stored, SoundStore
    <3>3. StoredInside'
      <4>1. ASSUME NEW a \in DOMAIN mem' PROVE Stored(a, mem'[a])
        BY <2>1, <3>1, <3>2, AfterHolds DEF Writing, StoredInside
      <4>2. Call' = Call
        BY <3>1 DEF Call
      <4> QED BY <4>1, <4>2 DEF StoredInside, Stored
    <3>4. LengthOK(Call, 1)
      BY <2>1, <2>3 DEF Writing
    <3>5. next + 1 \in 1 .. desc.output_count + 1 /\ next + 1 # 1 /\ next + 1 \in 0 .. MaxSubmit + 1
      <4>1. next \in 1 .. desc.output_count /\ desc.output_count <= MaxSubmit
        <5>1. desc.input_count \in Nat
          BY <2>1, CallViews DEF Writing, Started
        <5> QED BY <2>1, <2>2, <5>1, RequestAssumption DEF Writing, Started, CountsOK
      <4> QED BY <2>2, <4>1, RequestAssumption
    <3>6. Writing'
      <4>1. Call' = Call
        BY <3>1 DEF Call
      <4> QED BY <2>1, <3>1, <3>3, <3>4, <3>5, <4>1 DEF Writing, Started
    <3> QED BY <2>1, <3>1, <3>5, <3>6 DEF IInv
  <2>4. CASE ~LengthOK(Call, next)
    <3>1. next = 1
      <4>1. Call.out \in Seq(Views)
        BY <2>2 DEF TypedOperands
      <4> QED BY <2>1, <2>2, <2>4, <4>1, SecondOutput DEF Writing
    <3>2. Fail
      BY <1>4, <2>4 DEF WriteOutput, Call
    <3> QED BY <2>1, <3>1, <3>2 DEF IInv, Writing, Fail, Finished, RefusedNode
  <2> QED BY <2>3, <2>4
<1>5. CASE Succeed
  <2>1. Writing
    BY <1>5 DEF IInv, Succeed
  <2>2. /\ node' = DoneNode /\ pc' = "done"
        /\ desc' = desc /\ mem' = mem /\ next' = next
    BY <1>5, <2>1 DEF Succeed, Writing, FreshNode, DoneNode
  <2> QED BY <2>1, <2>2 DEF IInv, Writing, Finished, Started, StoredInside, Stored, Call
<1>6. CASE Panic
  BY <1>6 DEF IInv, Panic, Idle
<1> QED BY <1>1, <1>2, <1>3, <1>4, <1>5, <1>6 DEF Kernel

\* So it always holds.
LEMMA Invariance == Spec => []IInv
<1>1. IInv /\ [Next]_vars => IInv'
  <2>1. CASE Next
    BY <2>1, EntryKeeps, KernelKeeps DEF Next
  <2>2. CASE UNCHANGED vars
    BY <2>2 DEF vars, IInv, Idle, Writing, Finished, Started, StoredInside, Stored, Call
  <2> QED BY <2>1, <2>2
<1> QED BY Initially, <1>1, PTL DEF Spec

\* A call that reports an error has stored nothing: neither a refused descriptor
\* nor a kernel with two outputs whose second one turns out to have the wrong
\* length (nn.rs:305, nn.rs:392) leaves a tensor half written.
THEOREM FailsWithoutWriting == Spec => []FailedCallWritesNothing
<1>1. IInv => FailedCallWritesNothing
  BY DEF IInv, Idle, Writing, Finished, FreshNode, DoneNode, FailedCallWritesNothing
<1> QED BY <1>1, Invariance, PTL

\* No kernel stores an element outside the buffer of the output it writes,
\* whatever the rank, shapes, strides, transpositions, groups and padding of
\* the call: checked_meta, region_fits and validate_lengths are enough.
THEOREM StoresStayInside == Spec => []StoresInBounds
<1>1. IInv => StoresInBounds
  <2>1. SUFFICES ASSUME Writing, next <= desc.output_count, NEW w \in Written(Call, next)
                 PROVE  w.at \in Extent(Call.out[next], SizeOf(Call.out[next]))
    BY DEF IInv, StoresInBounds, Running
  <2>2. TypedOperands(Call) /\ Accepts(Call) /\ next \in DOMAIN Call.out
    BY <2>1, CallTyped DEF Writing, Started, Call
  <2>3. Inside(Call.out[next], Stores(Call, next))
    BY <2>2, AcceptedStores
  <2> QED BY <2>1, <2>3 DEF Written, Inside
<1> QED BY <1>1, Invariance, PTL

\* No kernel loads an element from outside the buffers of its inputs, not even
\* where an index tensor, a broadcast, a repeated axis, a ranking, a padded
\* window or the layout of a packed tile names the element: what its checks
\* have let through keeps every computed index inside the view it is for, the
\* sizes compact_matmul_attr has cut to 32 bits included.  Besides, add_bias
\* (conv2d.rs:332) reads the very cell it stores to.
THEOREM LoadsStayInside == Spec => []LoadsInBounds
<1>1. IInv => LoadsInBounds
  <2>1. SUFFICES ASSUME Writing, next <= desc.output_count,
                        NEW w \in Written(Call, next), NEW k \in DOMAIN w.val.from
                 PROVE  \/ \E i \in DOMAIN Call.in :
                             w.val.from[k] \in Extent(Call.in[i], SizeOf(Call.in[i]))
                        \/ desc.op = "CONV2D" /\ w.val.from[k] = w.at
    BY DEF IInv, LoadsInBounds, Running
  <2>2. TypedOperands(Call) /\ Accepts(Call) /\ ~Panics(Call) /\ next \in DOMAIN Call.out
    BY <2>1, CallTyped DEF Writing, Started, Call
  <2>3. PICK j \in DOMAIN Stores(Call, next) : w = Stores(Call, next)[j]
    BY DEF Written
  <2>4. w.val.from \in Seq(Reads(Call, w.at))
    BY <2>2, <2>3, AcceptedLoads DEF SoundStore
  <2>5. w.val.from[k] \in Reads(Call, w.at)
    BY <2>4
  <2> QED BY <2>5 DEF Reads, Readable, Call, CallOf
<1> QED BY <1>1, Invariance, PTL

\* Whichever target a product or a convolution runs on, it stores to the same
\* addresses and goes through the same pairs of elements in the same order, for every
\* geometry whose sizes fit in 32 bits: the tiles, im2col and its compact layout
\* (matmul.rs:109, conv2d.rs:265) drop, repeat and misplace nothing.  What the A100
\* does otherwise is in OnA100: it adds the bias last, to the rounded product.
THEOREM BothTargetsAgree == Spec => []TargetsAgree
<1>1. IInv => TargetsAgree
  <2>1. SUFFICES ASSUME Writing, next = 1, desc.op \in {"MAT_MUL", "CONV2D"},
                        desc.op = "CONV2D" => CastsFit(Geom(desc.attr))
                 PROVE  StoresOn("A100") = {OnA100(w) : w \in StoresOn("CPU")}
    BY DEF IInv, TargetsAgree, Running
  <2>2. TypedOperands(Call) /\ Accepts(Call) /\ ~Panics(Call)
    BY <2>1, CallTyped DEF Writing, Started, Call
  <2>3. PICK cpu, vec : /\ cpu = [Call EXCEPT !.target = "CPU"] /\ vec = [Call EXCEPT !.target = "A100"]
    OBVIOUS
  <2>4. /\ cpu.target = "CPU" /\ vec.target = "A100"
        /\ cpu.attr = Call.attr /\ vec.attr = Call.attr
        /\ cpu.in = Call.in /\ vec.in = Call.in /\ cpu.out = Call.out /\ vec.out = Call.out
        /\ cpu.op = Call.op /\ vec.op = Call.op
    BY <2>3 DEF Call, CallOf
  <2>5. Call.op = desc.op /\ Call.attr = desc.attr
    BY DEF Call, CallOf
  <2>8. /\ StoresOn("CPU") = {Stores(cpu, 1)[k] : k \in DOMAIN Stores(cpu, 1)}
        /\ StoresOn("A100") = {Stores(vec, 1)[k] : k \in DOMAIN Stores(vec, 1)}
    BY <2>3 DEF StoresOn, Written
  <2>6. CASE desc.op = "MAT_MUL"
    <3>1. MatMulWrites(cpu) = MatMulWrites(vec)
      BY <2>2, <2>4, <2>5, <2>6, MatMulAgrees DEF TypedOperands
    <3>2. Stores(cpu, 1) = MatMulWrites(cpu) /\ Stores(vec, 1) = MatMulWrites(vec)
      BY <2>4, <2>5, <2>6 DEF Stores, Skips
    <3>3. \A w : OnA100(w) = w
      BY <2>6 DEF OnA100
    <3> QED BY <2>8, <3>1, <3>2, <3>3
  <2>7. CASE desc.op = "CONV2D"
    <3>1. ConvOK(Call) /\ ~ConvPanics(Geom(Call.attr)) /\ CastsFit(Geom(Call.attr))
      BY <2>1, <2>2, <2>5, <2>7 DEF Accepts, Panics, BinaryOps, UnaryOps
    <3>2. PICK cells : cells = ConvCells(Geom(Call.attr))
      OBVIOUS
    <3>3. /\ DOMAIN ConvWrites(cpu) = cells /\ DOMAIN ConvWrites(vec) = cells
          /\ \A x \in cells : ConvWrites(vec)[x]
               = [at |-> ConvWrites(cpu)[x].at, val |-> BiasLast(Call, ConvWrites(cpu)[x].val)]
      BY <2>2, <2>4, <2>5, <2>7, <3>1, <3>2, ConvAgrees DEF TypedOperands
    <3>4. Stores(cpu, 1) = ConvWrites(cpu) /\ Stores(vec, 1) = ConvWrites(vec)
      BY <2>4, <2>5, <2>7 DEF Stores, Skips
    <3>5. ASSUME NEW x \in cells PROVE ConvWrites(vec)[x] = OnA100(ConvWrites(cpu)[x])
      <4>1. PICK w : w = ConvWrites(cpu)[x]
        OBVIOUS
      <4>2. w = [at |-> w.at, val |-> w.val]
        BY <2>4, <3>3, <4>1 DEF ConvWrites, VectorTarget, TargetOf
      <4> QED BY <2>7, <3>3, <4>1, <4>2 DEF OnA100, BiasLast
    <3> QED BY <2>8, <3>3, <3>4, <3>5
  <2> QED BY <2>1, <2>6, <2>7
<1> QED BY <1>1, Invariance, PTL

\* The types, for every step of a call: in particular what memory holds are
\* values of the functions the kernels compute, at addresses of the outputs,
\* and the flags of the node agree with the code that is returned.
THEOREM TypeCorrect == Spec => []TypeOK
<1>. DEFINE DescTyped == \/ desc = NoDesc \/ desc \in Descs
                         \/ desc \in {BuildDesc(r) : r \in {r \in Requests : ValidRequest(r)}}
<1>1. IInv => \A a \in DOMAIN mem : a \in Nat /\ mem[a].f \in Functions
  <2>1. SUFFICES ASSUME Started, NEW a \in DOMAIN mem, Stored(a, mem[a])
                 PROVE  a \in Nat /\ mem[a].f \in Functions
    BY DEF IInv, Idle, Writing, Finished, StoredInside, UntouchedMem
  <2>2. TypedOperands(Call) /\ Accepts(Call)
    BY <2>1, CallTyped DEF Started, Call
  <2>3. PICK o \in DOMAIN Call.out : a \in Extent(Call.out[o], SizeOf(Call.out[o]))
    BY <2>1 DEF Stored
  <2>4. Call.out[o] \in Views /\ SizeOf(Call.out[o]) \in 1 .. 8
    BY <2>2, OutputSizes DEF TypedOperands
  <2>5. PICK v \in Views, z \in 1 .. 8 : v = Call.out[o] /\ z = SizeOf(v)
    BY <2>4
  <2>6. v.data \in Nat /\ v.bytes \in Nat /\ a \in v.data .. v.data + v.bytes - z
    BY <2>3, <2>5, ViewFacts DEF Extent
  <2> QED BY <2>1, <2>6 DEF Stored
<1>2. IInv => /\ node.complete = (pc = "done")
              /\ node.error_flag = (node.ret = "error")
              /\ node.ret = IF node.complete THEN (IF node.error_flag THEN "error" ELSE "ok")
                            ELSE "none"
  <2>1. CASE node = FreshNode /\ pc # "done"
    <3>1. node.complete = FALSE /\ node.error_flag = FALSE /\ node.ret = "none"
      BY <2>1 DEF FreshNode
    <3> QED BY <2>1, <3>1
  <2>2. CASE node = RefusedNode /\ pc = "done"
    <3>1. node.complete = TRUE /\ node.error_flag = TRUE /\ node.ret = "error"
      BY <2>2 DEF RefusedNode
    <3> QED BY <2>2, <3>1
  <2>3. CASE node = DoneNode /\ pc = "done"
    <3>1. node.complete = TRUE /\ node.error_flag = FALSE /\ node.ret = "ok"
      BY <2>3 DEF DoneNode
    <3> QED BY <2>3, <3>1
  <2> QED BY <2>1, <2>2, <2>3 DEF IInv, Idle, Writing, Finished
<1>3. Init => DescTyped
  BY DEF Init
<1>4. DescTyped /\ [Next]_vars => DescTyped'
  <2>1. CASE Entry
    BY <2>1 DEF Entry, RefuseRequest, RunRequest, SubmitDesc
  <2>2. CASE Kernel
    BY <2>2 DEF Kernel, RejectCounts, RejectCall, StartCall, Panic, WriteOutput, Succeed, Fail
  <2> QED BY <2>1, <2>2 DEF Next, vars
<1>5. IInv /\ DescTyped => TypeOK
  BY <1>1, <1>2 DEF IInv, TypeOK
<1>. HIDE DEF DescTyped
<1> QED BY <1>3, <1>4, <1>5, Invariance, PTL DEF Spec

\* A completed call has left every byte of its inputs as it was, for all
\* kernels but COPY, MAT_MUL and the unary ones, which accept an output that
\* overlaps an input (reject_input_output_alias, call.rs:455).
THEOREM InputsAreKept == Spec => []InputsSurvive
<1>1. IInv => InputsSurvive
  <2>1. SUFFICES ASSUME IInv, node.complete, ~node.error_flag, Guarded(desc),
                        NEW i \in DOMAIN Call.in, NEW a \in Extent(Call.in[i], 1)
                 PROVE  Now(a) = Moved(a)
    BY DEF InputsSurvive, Guarded
  <2>2. Started /\ StoredInside
    BY <2>1 DEF IInv, Idle, Writing, Finished, FreshNode, RefusedNode
  <2>3. TypedOperands(Call) /\ Accepts(Call) /\ Call.op = desc.op
    BY <2>2, CallTyped, CallViews DEF Started, Call
  <2>4. Guarded(Call)
    BY <2>1, <2>3 DEF Guarded
  <2>5. ASSUME a \in DOMAIN mem PROVE FALSE
    <3>1. PICK o \in DOMAIN Call.out : a \in Extent(Call.out[o], SizeOf(Call.out[o]))
      BY <2>2, <2>5 DEF StoredInside, Stored
    <3>2. SizeOf(Call.out[o]) \in 1 .. 8 /\ ~Overlap(Call.in[i], Call.out[o])
      BY <2>3, <2>4, GuardedApart, OutputSizes DEF NoAlias
    <3>3. PICK u \in Views, v \in Views : u = Call.in[i] /\ v = Call.out[o]
      BY <2>3 DEF TypedOperands
    <3>4. u.data \in Nat /\ u.bytes \in Nat /\ v.data \in Nat /\ v.bytes \in Nat
      BY ViewFacts
    <3>5. PICK z \in 1 .. 8 : z = SizeOf(v)
      BY <3>2, <3>3
    <3>6. a \in u.data .. u.data + u.bytes - 1 /\ a \in v.data .. v.data + v.bytes - z
      BY <2>1, <3>1, <3>3, <3>5 DEF Extent
    <3>7. ~(u.data < v.data + v.bytes /\ v.data < u.data + u.bytes)
      BY <3>2, <3>3 DEF Overlap
    <3> QED BY ONLY <3>4, <3>6, <3>7, z \in 1 .. 8
  <2> QED BY <2>5 DEF Now, Held
<1> QED BY <1>1, Invariance, PTL

(* --- the ONNX Runtime entry ------------------------------------------------------ *)
\* Where no extent is zero, the strides fit if the size does.
LEMMA StridesOfTheShape ==
  ASSUME NEW n \in Nat, NEW shape \in [1 .. n -> Nat], Len(shape) = n, NEW z \in Nat,
         \A a \in 1 .. n : shape[a] >= 1, Product(shape) * z <= UsizeMax
  PROVE  StridesFit(shape, z)
<1>1. SUFFICES ASSUME NEW a \in 0 .. n PROVE z * Suffix(shape)[a] <= UsizeMax
  BY DEF StridesFit, Inner
<1>2. Suffix(shape)[a] <= Suffix(shape)[0] /\ Suffix(shape)[0] = Product(shape)
  BY SuffixBounds, CountIsSuffix
<1>3. PICK x \in Nat, y \in Nat : x = Suffix(shape)[a] /\ y = Suffix(shape)[0] /\ x <= y
  BY <1>2, SuffixNat
<1>4. z * x <= z * y /\ z * x \in Nat /\ z * y \in Nat
  BY <1>3, ProductMonotone
<1>5. z * y <= UsizeMax
  <2>1. z * y = y * z
    OBVIOUS
  <2> QED BY <1>2, <1>3, <2>1
<1> QED BY <1>3, <1>4, <1>5, MetaAssumption

\* A tensor that validate_tensor lets through, once borrowed.
LEMMA BorrowedTensor ==
  ASSUME NEW t \in RawTensors, Len(t.stride) = Len(t.shape), ValidTensor(t)
  PROVE  /\ DescAsserts(t.bytes, t.dtype, t.layout, t.shape)
         /\ MetaOK(BorrowTensor(t)) /\ IsContiguous(BorrowTensor(t))
         /\ BorrowTensor(t).stride = t.stride /\ BorrowTensor(t).shape = t.shape
         /\ BorrowTensor(t).data = t.data
<1>. DEFINE v == BorrowTensor(t)
            n == Len(t.shape)
            z == ElementSize[t.dtype]
<1>1. /\ t.data \in Nat /\ t.bytes \in Nat /\ t.dtype \in STRING /\ t.layout \in STRING
      /\ t.shape \in Seq(Nat) /\ t.stride \in Seq(Nat)
  BY DEF RawTensors
<1>2. /\ t.dtype \in DOMAIN ElementSize /\ n <= MaxDim /\ t.data # 0 /\ t.layout = "DENSE"
      /\ \A a \in 1 .. n : t.shape[a] # 0 /\ t.stride[a] = z * Inner(t.shape, a)
      /\ Product(t.shape) * z <= UsizeMax /\ t.bytes = Product(t.shape) * z
  BY DEF ValidTensor, Rank, Axes, SizeOf, TensorSizeBytes, ElementSize
<1>3. v = [data |-> t.data, bytes |-> t.bytes, dtype |-> t.dtype, layout |-> t.layout,
           shape |-> t.shape, stride |-> RowMajorStrides(t.shape, z)]
  BY DEF BorrowTensor, FromUserBuffer
<1>4. RowMajorStrides(t.shape, z) = t.stride
  <2>1. t.stride = [a \in 1 .. n |-> t.stride[a]]
    BY <1>1
  <2> QED BY <1>2, <2>1 DEF RowMajorStrides
<1>5. v \in Views
  BY <1>1, <1>2, FromUserBufferView DEF BorrowTensor
<1>6. /\ v.data = t.data /\ v.bytes = t.bytes /\ v.dtype = t.dtype /\ v.layout = t.layout
      /\ v.shape = t.shape /\ v.stride = t.stride
  BY <1>3, <1>4
<1>. HIDE DEF v
<1>8. SizeOf(v) * Count(v) = Product(t.shape) * z
  <2>1. Product(t.shape) \in Nat /\ z \in Nat
    <3>1. Product(t.shape) \in Nat
      <4>1. n \in Nat /\ t.shape \in [1 .. n -> Nat]
        BY <1>1
      <4> QED BY <4>1, CountIsSuffix
    <3> QED BY <1>2, <3>1 DEF ElementSize
  <2>2. SizeOf(v) * Count(v) = z * Product(t.shape)
    BY <1>6 DEF SizeOf, Count
  <2> QED BY <2>1, <2>2
<1>9. MetaOK(v) /\ IsContiguous(v)
  <2>1. SizeOf(v) * Count(v) <= UsizeMax /\ SizeOf(v) * Count(v) <= v.bytes
    BY <1>1, <1>2, <1>6, <1>8
  <2>2. \A a \in Axes(v) : v.shape[a] # 0 /\ v.stride[a] = SizeOf(v) * Inner(v.shape, a)
    BY <1>2, <1>6 DEF Axes, Rank, SizeOf
  <2>3. Rank(v) <= MaxDim /\ v.dtype \in DOMAIN ElementSize /\ v.data # 0 /\ v.layout = "DENSE"
    BY <1>2, <1>6 DEF Rank
  <2> QED BY <1>5, <2>1, <2>2, <2>3, DenseMeta
<1>7. DescAsserts(t.bytes, t.dtype, t.layout, t.shape)
  <2>1. Product(t.shape) * z <= t.bytes
    BY <1>1, <1>2
  <2>2. t.layout # "GGML_QUANT"
    BY <1>2
  <2>3. \A a \in 1 .. n : Prefix(t.shape)[a] <= UsizeMax
    BY <1>6, <1>9 DEF MetaOK, Axes, Rank
  <2>4. SizeFits(t.shape, z)
    BY <1>2, <2>3 DEF SizeFits, ProductFits, TensorSizeBytes
  <2>5. StridesFit(t.shape, z)
    <3>1. t.shape \in [1 .. n -> Nat] /\ n \in Nat /\ z \in Nat
      BY <1>1, <1>2 DEF ElementSize
    <3>2. \A a \in 1 .. n : t.shape[a] >= 1
      BY <1>2, <3>1
    <3> QED BY <1>2, <3>1, <3>2, StridesOfTheShape
  <2> QED BY <1>2, <2>1, <2>2, <2>4, <2>5 DEF DescAsserts, TensorSizeBytes
<1> QED BY <1>6, <1>7, <1>9 DEF v

\* A request of the plugin that validate_request accepts fits the kernels: no
\* assertion of the descriptor constructors can fail on it, and the backend
\* finds nothing to refuse in its tensors (ort_ffi.rs:239-295, call.rs:136).
THEOREM RequestsFit == Spec => []RequestsFitTheKernel
<1>1. RequestsFitTheKernel
  <2>1. SUFFICES ASSUME NEW r \in Requests, ValidRequest(r), NEW i \in 1 .. TotalOf(r)
                 PROVE  LET t == r.tensors[i]  v == (Call.in \o Call.out)[i]
                        IN /\ DescAsserts(t.bytes, t.dtype, t.layout, t.shape)
                           /\ desc = BuildDesc(r) =>
                                /\ CountsOK(desc)
                                /\ MetaOK(v) /\ IsContiguous(v)
                                /\ v.stride = t.stride /\ v.shape = t.shape /\ v.data = t.data
    <3>1. ASSUME NEW r \in Requests, ValidRequest(r) PROVE 1 \in 1 .. TotalOf(r)
      <4>1. TypedRequest(r) /\ ValidCounts(r)
        BY <3>1, CallAssumption DEF ValidRequest
      <4> QED BY <4>1, AttrAssumption DEF TypedRequest, TypedCall, ValidCounts, TotalOf, U32
    <3> QED BY <3>1 DEF RequestsFitTheKernel
  <2>2. TypedRequest(r)
    BY <2>1, CallAssumption
  <2>5. ASSUME desc = BuildDesc(r)
        PROVE  CountsOK(desc) /\ (Call.in \o Call.out)[i] = BorrowTensor(r.tensors[i])
    <3>1. TypedDesc(desc)
      BY <2>1, <2>2, <2>5, BuildDescTyped
    <3>2. /\ desc.input_count + desc.output_count = TotalOf(r)
          /\ desc.tensors[i] = BorrowTensor(r.tensors[i])
      BY <2>5 DEF BuildDesc, TotalOf
    <3>3. CountsOK(desc)
      BY <2>1, <2>5 DEF ValidRequest, ValidCounts, CountsOK, BuildDesc
    <3> QED BY <3>1, <3>2, <3>3, CallTensors DEF Call
  <2>6. r.tensors[i] \in RawTensors /\ Len(r.tensors[i].stride) = Len(r.tensors[i].shape)
    <3>1. TotalOf(r) \in Nat /\ TotalOf(r) <= Len(r.tensors)
      BY <2>1, <2>2, AttrAssumption DEF ValidRequest, TypedRequest, TypedCall, TotalOf, U32
    <3>2. r.tensors \in Seq({t \in RawTensors : Len(t.stride) = Len(t.shape)})
      BY <2>2 DEF TypedRequest
    <3>3. i \in 1 .. Len(r.tensors)
      BY <3>1, <3>2
    <3> QED BY <3>2, <3>3
  <2>7. ValidTensor(r.tensors[i])
    BY <2>1 DEF ValidRequest
  <2> QED BY <2>5, <2>6, <2>7, BorrowedTensor
<1> QED BY <1>1, PTL

\* alloc_tensor_with_layout takes any layout (tensormanager.rs:207): of the
\* assertions of the constructor only the one on GGML_QUANT can fail, and of the
\* other layouts checked_meta refuses BLOCKED, whatever the type and the shape
\* (call.rs:136), so that every allocated DENSE or STRIDED tensor, and no other,
\* is fit for a kernel.
THEOREM AllocatedTensorsFit ==
  ASSUME NEW data \in Nat \ {0}, NEW dtype \in STRING, NEW layout \in STRING,
         NEW shape \in Seq(Nat), AllocOK(dtype, shape)
  PROVE  /\ AllocTensor(data, dtype, layout, shape) \in Views
         /\ DescAsserts(TensorSizeBytes(shape, ElementSize[dtype]), dtype, layout, shape)
              <=> layout # "GGML_QUANT"
         /\ MetaOK(AllocTensor(data, dtype, layout, shape)) <=> layout \in {"DENSE", "STRIDED"}
<1>. DEFINE v == AllocTensor(data, dtype, layout, shape)
            z == ElementSize[dtype]
            n == Len(shape)
<1>1. n \in Nat /\ shape \in [1 .. n -> Nat] /\ n <= MaxDim /\ dtype \in DOMAIN ElementSize
  <2>1. n \in Nat /\ shape \in [1 .. n -> Nat]
    BY ONLY shape \in Seq(Nat)
  <2>2. n <= MaxDim /\ dtype \in DOMAIN ElementSize
    BY ONLY AllocOK(dtype, shape) DEF AllocOK
  <2> QED BY <2>1, <2>2
<1>2. Product(shape) \in Nat /\ z \in Nat
  BY <1>1, CountIsSuffix DEF ElementSize
<1>3. Product(shape) * z \in Nat /\ Product(shape) * z <= UsizeMax /\ Product(shape) * z # 0
  <2>1. PICK p \in Nat, q \in Nat : p = Product(shape) /\ q = z
    BY <1>2
  <2>2. p * q \in Nat
    OBVIOUS
  <2> QED BY <2>1, <2>2 DEF AllocOK, SizeFits, TensorSizeBytes
<1>4. v = FromUserBuffer(data, Product(shape) * z, dtype, layout, shape)
  BY DEF AllocTensor, TensorSizeBytes
<1>5. v = [data |-> data, bytes |-> Product(shape) * z, dtype |-> dtype, layout |-> layout,
           shape |-> shape, stride |-> RowMajorStrides(shape, z)]
  BY <1>4 DEF FromUserBuffer
<1>6. v \in Views
  <2>1. PICK b \in Nat : b = Product(shape) * z
    BY <1>3
  <2>2. FromUserBuffer(data, b, dtype, layout, shape) \in Views
    BY <1>1, FromUserBufferView
  <2> QED BY <1>4, <2>1, <2>2
<1>7. \A a \in 1 .. n : shape[a] # 0 /\ v.stride[a] = z * Inner(shape, a)
  <2>1. Suffix(shape)[0] # 0
    <3>1. Product(shape) # 0
      <4>1. PICK y \in Nat : y = z
        BY <1>2
      <4>2. 0 * y = 0
        OBVIOUS
      <4> QED BY <1>3, <4>1, <4>2
    <3>2. Product(shape) = Suffix(shape)[0]
      BY <1>1, CountIsSuffix
    <3> QED BY <3>1, <3>2
  <2>2. \A a \in 1 .. n : shape[a] # 0
    BY <1>1, <2>1, PositiveExtents
  <2> QED BY <1>5, <2>2 DEF RowMajorStrides
<1>8. /\ v.data # 0 /\ v.dtype \in DOMAIN ElementSize /\ v.layout = layout
      /\ Rank(v) <= MaxDim /\ Axes(v) = 1 .. n /\ v.shape = shape /\ SizeOf(v) = z
      /\ v.bytes = Product(shape) * z /\ Count(v) = Product(shape)
  BY <1>1, <1>5 DEF Rank, Axes, SizeOf, Count
<1>11. DescAsserts(Product(shape) * z, dtype, layout, shape) <=> layout # "GGML_QUANT"
  <2>1. \A a \in 1 .. n : shape[a] >= 1
    BY <1>1, <1>7
  <2>2. StridesFit(shape, z)
    BY <1>1, <1>2, <1>3, <2>1, StridesOfTheShape
  <2>3. SizeFits(shape, z)
    BY ONLY AllocOK(dtype, shape), Zenon DEF AllocOK
  <2>4. PICK b \in Nat : b = Product(shape) * z
    BY <1>3
  <2>5. b <= b
    OBVIOUS
  <2>6. TensorSizeBytes(shape, z) <= Product(shape) * z
    BY ONLY <2>4, <2>5, Zenon DEF TensorSizeBytes
  <2> QED BY <1>1, <2>2, <2>3, <2>6 DEF DescAsserts
<1>. HIDE DEF v
<1>9. SizeOf(v) * Count(v) = Product(shape) * z
  BY <1>2, <1>8
<1>10. ASSUME layout \in {"DENSE", "STRIDED"} PROVE MetaOK(v)
  <2>1. \A a \in Axes(v) : v.shape[a] # 0 /\ v.stride[a] = SizeOf(v) * Inner(v.shape, a)
    BY <1>7, <1>8
  <2>2. SizeOf(v) * Count(v) <= UsizeMax /\ SizeOf(v) * Count(v) <= v.bytes
    BY <1>3, <1>8, <1>9
  <2> QED BY <1>6, <1>8, <1>10, <2>1, <2>2, DenseMeta
<1>12. MetaOK(v) => layout \in {"DENSE", "STRIDED"}
  BY <1>8 DEF MetaOK
<1> QED BY <1>6, <1>10, <1>11, <1>12 DEF v, TensorSizeBytes
=============================================================================
