------------------------ MODULE KernelReferenceProof ------------------------
(***************************************************************************)
(* That the kernels do what KernelReference says, for descriptors of every *)
(* shape: the cells a call moves, selects and computes from, in the        *)
(* coordinates of the tensors.                                             *)
(***************************************************************************)
EXTENDS KernelProof

(* --- cells ----------------------------------------------------------------- *)
\* An extent of a shape that none of the extents exceeds, or 0.
LEMMA LargestExtent ==
  ASSUME NEW n \in Nat, NEW shape \in [1 .. n -> Nat]
  PROVE  \E t \in {0} \cup {shape[a] : a \in 1 .. n} : \A a \in 1 .. n : shape[a] <= t
<1>. DEFINE S == {0} \cup {shape[a] : a \in 1 .. n}
            G == {k \in 0 .. n : \E t \in S : \A a \in 1 .. k : shape[a] <= t}
<1>1. 0 \in G
  OBVIOUS
<1>2. ASSUME NEW k \in 1 .. n, k - 1 \in G PROVE k \in G
  <2>1. PICK t \in S : \A a \in 1 .. k - 1 : shape[a] <= t
    BY <1>2
  <2>2. t \in Nat /\ shape[k] \in Nat /\ shape[k] \in S
    OBVIOUS
  <2>3. CASE shape[k] <= t
    <3>1. \A a \in 1 .. k : shape[a] <= t
      BY <2>1, <2>3
    <3> QED BY <3>1
  <2>4. CASE t < shape[k]
    <3>1. ASSUME NEW a \in 1 .. k PROVE shape[a] <= shape[k]
      <4>1. CASE a = k
        BY <4>1, <2>2
      <4>2. CASE a # k
        <5>1. a \in 1 .. k - 1 /\ shape[a] \in Nat
          BY <4>2
        <5>2. shape[a] <= t
          BY <5>1, <2>1
        <5> QED BY ONLY <5>1, <5>2, <2>2, <2>4
      <4> QED BY <4>1, <4>2
    <3> QED BY <2>2, <3>1
  <2> QED BY <2>2, <2>3, <2>4
<1>3. 0 .. n \subseteq G
  <2>. HIDE DEF G
  <2> QED BY <1>1, <1>2, IntervalInduction
<1>4. n \in G
  <2>. HIDE DEF G
  <2>1. n \in 0 .. n
    OBVIOUS
  <2> QED BY <1>3, <2>1
<1> QED BY <1>4

\* The cells of a tensor are the coordinates inside its shape.
LEMMA CellsAre ==
  ASSUME NEW n \in Nat, NEW shape \in [1 .. n -> Nat], Len(shape) = n
  PROVE  Cells(shape) = {x \in [1 .. n -> Nat] : \A a \in 1 .. n : x[a] \in 0 .. shape[a] - 1}
<1>. DEFINE S == {0} \cup {shape[a] : a \in 1 .. n}
            top == CHOOSE t \in S : \A a \in 1 .. n : shape[a] <= t
<1>1. DOMAIN shape = 1 .. n
  OBVIOUS
<1>2. top \in S /\ \A a \in 1 .. n : shape[a] <= top
  BY LargestExtent
<1>3. Cells(shape) = {x \in [1 .. n -> 0 .. top - 1] : InShape(shape, x)}
  BY <1>1 DEF Cells
<1>. HIDE DEF top
<1>4. top \in Nat
  BY <1>2
<1>5. ASSUME NEW x \in [1 .. n -> 0 .. top - 1], InShape(shape, x)
      PROVE  x \in [1 .. n -> Nat] /\ \A a \in 1 .. n : x[a] \in 0 .. shape[a] - 1
  BY <1>4, <1>5 DEF InShape
<1>6. ASSUME NEW x \in [1 .. n -> Nat], \A a \in 1 .. n : x[a] \in 0 .. shape[a] - 1
      PROVE  x \in [1 .. n -> 0 .. top - 1] /\ InShape(shape, x)
  <2>1. ASSUME NEW a \in 1 .. n PROVE x[a] \in 0 .. top - 1
    <3>1. x[a] \in 0 .. shape[a] - 1 /\ shape[a] <= top /\ shape[a] \in Nat
      BY <1>2, <1>6
    <3> QED BY ONLY <1>4, <3>1
  <2>2. InShape(shape, x)
    BY <1>6 DEF InShape
  <2> QED BY <2>1, <2>2
<1> QED BY <1>3, <1>5, <1>6

\* A cell of a tensor of n axes.
InCells(n, shape, x) == x \in [1 .. n -> Nat] /\ \A a \in 1 .. n : x[a] \in 0 .. shape[a] - 1
\* The same, as membership.
LEMMA CellIn ==
  ASSUME NEW n \in Nat, NEW shape \in [1 .. n -> Nat], Len(shape) = n, NEW x
  PROVE  InCells(n, shape, x) <=> x \in Cells(shape)
<1>1. Cells(shape) = {y \in [1 .. n -> Nat] : \A a \in 1 .. n : y[a] \in 0 .. shape[a] - 1}
  BY CellsAre
<1> QED BY ONLY <1>1 DEF InCells

\* The steps of row_major_linear, whatever function takes them.
RowSteps(n, shape, x, r) ==
  /\ r \in [0 .. n -> Int]
  /\ r[0] = 0 /\ \A i \in 1 .. n : r[i] = r[i-1] * shape[i] + x[i]

\* They lead to the linear index.
LEMMA RowMajorIs ==
  ASSUME NEW n \in Nat, NEW shape \in [1 .. n -> Nat], Len(shape) = n, NEW x \in [1 .. n -> Nat],
         NEW r, RowSteps(n, shape, x, r)
  PROVE  RowMajor(shape, x) = r[n]
<1>1. PICK g \in [0 .. n -> Int] :
        /\ RowMajor(shape, x) = g[n]
        /\ g[0] = 0 /\ \A i \in 1 .. n : g[i] = g[i-1] * shape[i] + x[i]
  BY RowMajorFacts
<1>2. r[0] = 0 /\ \A i \in 1 .. n : r[i] = r[i-1] * shape[i] + x[i]
  BY DEF RowSteps
<1>. DEFINE G == {i \in 0 .. n : r[i] = g[i]}
<1>3. 0 \in G
  BY <1>1, <1>2
<1>4. \A i \in 1 .. n : i - 1 \in G => i \in G
  BY <1>1, <1>2
<1>5. 0 .. n \subseteq G
  <2>. HIDE DEF G
  <2> QED BY <1>3, <1>4, IntervalInduction
<1> QED BY <1>1, <1>5

\* One step, and the steps from 0 to the linear index of a cell.
OneStep(a, b, e) == a * b + e
\* A step stays a natural number.
LEMMA StepNat ==
  ASSUME NEW a \in Nat, NEW b \in Nat, NEW e \in Nat
  PROVE  OneStep(a, b, e) \in Nat
<1>1. a * b \in Nat
  OBVIOUS
<1> QED BY <1>1 DEF OneStep

HasSteps(n, shape, x) ==
  \E r : /\ RowSteps(n, shape, x, r) /\ r[n] = RowMajor(shape, x)
         /\ \A i \in 0 .. n : r[i] \in Nat
\* Cells have steps from 0 to their linear index.
LEMMA RowMajorSteps ==
  ASSUME NEW n \in Nat, NEW shape \in [1 .. n -> Nat], Len(shape) = n,
         NEW x, InCells(n, shape, x)
  PROVE  HasSteps(n, shape, x)
<1>0. x \in [1 .. n -> Nat] /\ \A a \in 1 .. n : x[a] \in 0 .. shape[a] - 1
  BY DEF InCells
<1>1. PICK r \in [0 .. n -> Int] :
        /\ RowMajor(shape, x) = r[n]
        /\ r[0] = 0 /\ \A i \in 1 .. n : r[i] = r[i-1] * shape[i] + x[i]
  BY <1>0, RowMajorFacts
<1>. DEFINE G == {i \in 0 .. n : r[i] \in Nat}
<1>2. 0 \in G
  BY <1>1
<1>3. ASSUME NEW i \in 1 .. n, i - 1 \in G PROVE i \in G
  <2>1. PICK a \in Nat, b \in Nat, e \in Nat : a = r[i-1] /\ b = shape[i] /\ e = x[i]
    BY <1>0, <1>3
  <2>2. OneStep(a, b, e) \in Nat
    BY StepNat
  <2> QED BY <2>1, <2>2, <1>1 DEF OneStep
<1>4. 0 .. n \subseteq G
  <2>. HIDE DEF G
  <2> QED BY <1>2, <1>3, IntervalInduction
<1> QED BY <1>1, <1>4 DEF RowSteps, HasSteps

\* The products from the first axis on are numbers.
LEMMA PrefixNat ==
  ASSUME NEW n \in Nat, NEW shape \in [1 .. n -> Nat], Len(shape) = n
  PROVE  \A i \in 0 .. n : Prefix(shape)[i] \in Nat
<1>1. Prefix(shape)[0] = 1
  BY PrefixFacts
<1>2. ASSUME NEW i \in 1 .. n PROVE Prefix(shape)[i] \in Nat
  BY SplitProduct
<1> QED BY <1>1, <1>2

\* The way from a linear index to its coordinates and back.
LEMMA ThereAndBack ==
  ASSUME NEW n \in Nat, NEW shape \in [1 .. n -> Nat], Len(shape) = n,
         NEW l \in 0 .. Product(shape) - 1
  PROVE  RowMajor(shape, Coordinates(shape, l)) = l
<1>1. Product(shape) = Suffix(shape)[0] /\ Product(shape) \in Nat
  BY CountIsSuffix
<1>2. \A a \in 1 .. n : shape[a] >= 1
  BY <1>1, PositiveExtents
<1>3. l \in Nat
  BY <1>1
<1>. DEFINE r == Rest(shape, l)
            p == Prefix(shape)
            x == Coordinates(shape, l)
            G == {i \in 0 .. n : r[i] \in 0 .. p[i] - 1}
<1>4. /\ r \in [0 .. n -> Nat] /\ r[n] = l /\ \A i \in 1 .. n : r[i-1] = r[i] \div shape[i]
  <2>1. Peeled(n, shape, l, Rest(shape, l))
    BY <1>2, <1>3, RestFacts
  <2> QED BY <2>1 DEF Peeled
<1>5. p \in [0 .. n -> Int] /\ p[0] = 1 /\ \A i \in 1 .. n : p[i] = p[i-1] * shape[i]
  BY PrefixFacts
<1>6. \A i \in 0 .. n : p[i] \in Nat
  BY PrefixNat
<1>7. l < p[n]
  BY <1>1 DEF Product
<1>8. x \in [1 .. n -> Nat] /\ \A a \in 1 .. n : x[a] = r[a] % shape[a]
  <2>1. x \in [1 .. n -> Nat]
    BY <1>2, <1>3, CoordinatesInShape
  <2> QED BY <2>1 DEF Coordinates
<1>. HIDE DEF r, p, x
<1>9. n \in G
  BY <1>3, <1>4, <1>6, <1>7
<1>10. ASSUME NEW i \in 1 .. n, i \in G PROVE i - 1 \in G
  <2>1. PICK A \in Nat, B \in Nat, y \in Nat :
          A = p[i-1] /\ B = shape[i] /\ y = r[i] /\ y \in 0 .. A * B - 1
    BY <1>4, <1>5, <1>6, <1>10
  <2>2. y \div B \in 0 .. A - 1
    BY ONLY <2>1, A \in Nat, B \in Nat, RowSplit
  <2> QED BY <1>4, <2>1, <2>2
<1>11. 0 .. n \subseteq G
  <2>. HIDE DEF G
  <2> QED BY <1>9, <1>10, DownwardInduction
<1>12. r[0] = 0
  BY <1>5, <1>11
<1>13. ASSUME NEW i \in 1 .. n PROVE r[i] = r[i-1] * shape[i] + x[i]
  <2>1. PICK b \in Nat, y \in Nat : b = shape[i] /\ b >= 1 /\ y = r[i]
    BY <1>2, <1>4
  <2>2. y = (y \div b) * b + (y % b)
    <3>1. b \in Nat \ {0} /\ y \in Int
      BY ONLY <2>1, y \in Nat, b \in Nat
    <3>2. PICK q \in Int, m \in Int : q = y \div b /\ m = y % b /\ y = b * q + m
      BY ONLY <3>1
    <3>3. y = q * b + m
      BY ONLY <3>1, <3>2, q \in Int, m \in Int
    <3> QED BY ONLY <3>2, <3>3
  <2> QED BY <1>4, <1>8, <2>1, <2>2
<1>14. RowSteps(n, shape, x, r)
  <2>1. r \in [0 .. n -> Int]
    BY <1>4
  <2> QED BY <2>1, <1>12, <1>13 DEF RowSteps
<1>15. RowMajor(shape, x) = r[n]
  BY ONLY n \in Nat, shape \in [1 .. n -> Nat], Len(shape) = n, <1>8, <1>14, RowMajorIs
<1> QED BY <1>4, <1>15 DEF x

\* A number of digits above and one digit below.
LEMMA LastDigit ==
  ASSUME NEW y \in Nat, NEW b \in Nat, NEW e \in 0 .. b - 1
  PROVE  (y * b + e) \div b = y /\ (y * b + e) % b = e
<1>1. y \in 0 .. (y + 1) - 1 /\ y + 1 \in Nat
  OBVIOUS
<1> QED BY <1>1, RowCell

\* And the coordinates of the linear index of a cell are the cell.
LEMMA BackAndThere ==
  ASSUME NEW n \in Nat, NEW shape \in [1 .. n -> Nat], Len(shape) = n,
         NEW x \in [1 .. n -> Nat], \A a \in 1 .. n : x[a] \in 0 .. shape[a] - 1
  PROVE  /\ RowMajor(shape, x) \in 0 .. Product(shape) - 1
         /\ Coordinates(shape, RowMajor(shape, x)) = x
<1>1. PICK r : /\ RowSteps(n, shape, x, r) /\ r[n] = RowMajor(shape, x)
               /\ \A i \in 0 .. n : r[i] \in Nat
  BY RowMajorSteps DEF HasSteps, InCells
<1>2. \A a \in 1 .. n : shape[a] >= 1
  <2>1. ASSUME NEW a \in 1 .. n PROVE shape[a] >= 1
    <3>1. x[a] \in 0 .. shape[a] - 1 /\ shape[a] \in Nat
      OBVIOUS
    <3> QED BY ONLY <3>1
  <2> QED BY <2>1
<1>3. PICK l \in Nat : l = RowMajor(shape, x)
  BY <1>1
<1>. DEFINE p == Rest(shape, l)
<1>4. RowMajor(shape, x) \in 0 .. Product(shape) - 1
  BY RowMajorBound DEF InShape
<1>5. p \in [0 .. n -> Nat] /\ p[n] = l /\ \A i \in 1 .. n : p[i-1] = p[i] \div shape[i]
  <2>1. /\ Rest(shape, l) \in [0 .. n -> Nat] /\ Rest(shape, l)[n] = l
        /\ \A i \in 1 .. n : Rest(shape, l)[i-1] = Rest(shape, l)[i] \div shape[i]
    <3>1. Peeled(n, shape, l, Rest(shape, l))
      BY ONLY n \in Nat, shape \in [1 .. n -> Nat], Len(shape) = n, l \in Nat, <1>2, RestFacts
    <3> QED BY ONLY <3>1 DEF Peeled
  <2> QED BY <2>1
<1>6. Coordinates(shape, l) = [a \in 1 .. n |-> p[a] % shape[a]]
  BY DEF Coordinates
<1>. HIDE DEF p
<1>7. ASSUME NEW i \in 1 .. n PROVE r[i] \div shape[i] = r[i-1] /\ r[i] % shape[i] = x[i]
  <2>1. PICK y \in Nat, b \in Nat : y = r[i-1] /\ b = shape[i] /\
          \E e \in 0 .. b - 1 : e = x[i] /\ r[i] = y * b + e
    <3>1. r[i-1] \in Nat /\ shape[i] \in Nat /\ x[i] \in Nat /\ x[i] \in 0 .. shape[i] - 1
      BY <1>1
    <3>2. r[i] = r[i-1] * shape[i] + x[i]
      BY <1>1 DEF RowSteps
    <3> QED BY ONLY <3>1, <3>2
  <2>2. PICK e \in 0 .. b - 1 : e = x[i] /\ r[i] = y * b + e
    BY <2>1
  <2>3. (y * b + e) \div b = y /\ (y * b + e) % b = e
    BY ONLY y \in Nat, b \in Nat, e \in 0 .. b - 1, LastDigit
  <2> QED BY <2>1, <2>2, <2>3
<1>. DEFINE G == {i \in 0 .. n : p[i] = r[i]}
<1>8. n \in G
  BY <1>1, <1>3, <1>5
<1>9. \A i \in 1 .. n : i \in G => i - 1 \in G
  BY <1>5, <1>7
<1>10. 0 .. n \subseteq G
  <2>. HIDE DEF G
  <2> QED BY <1>8, <1>9, DownwardInduction
<1>11. Coordinates(shape, l) = x
  <2>1. \A a \in 1 .. n : p[a] % shape[a] = x[a]
    BY <1>7, <1>10
  <2>2. Coordinates(shape, l) = [a \in 1 .. n |-> x[a]]
    BY <1>6, <2>1
  <2> QED BY <2>2
<1> QED BY <1>3, <1>4, <1>11

\* The address of a cell is one sum over the axes.
LEMMA AtIs ==
  ASSUME NEW v \in Views, NEW x \in [1 .. Rank(v) -> Nat]
  PROVE  At(v, x) = v.data + Sums(Rank(v), [a \in 1 .. Rank(v) |-> x[a] * v.stride[a]])[Rank(v)]
<1>. DEFINE n == Rank(v)
            d == [a \in 1 .. n |-> x[a] * v.stride[a]]
            s == Sums(n, d)
            Eq(f) == f = [a \in 0 .. n |-> IF a = 0 THEN v.data ELSE f[a-1] + x[a] * v.stride[a]]
            o == CHOOSE f : Eq(f)
            g == [a \in 0 .. n |-> v.data + s[a]]
<1>1. n \in Nat /\ v.stride \in [1 .. n -> Nat] /\ v.data \in Nat
  BY ViewFacts
<1>2. Len(x) = n
  BY <1>1
<1>3. \A a \in 1 .. n : d[a] \in Int /\ d[a] = x[a] * v.stride[a]
  <2>1. ASSUME NEW a \in 1 .. n PROVE x[a] * v.stride[a] \in Int
    <3>1. PICK y \in Nat, t \in Nat : y = x[a] /\ t = v.stride[a]
      BY <1>1
    <3>2. y * t \in Int
      OBVIOUS
    <3> QED BY <3>1, <3>2
  <2> QED BY <2>1
<1>4. d \in [1 .. n -> Int]
  <2>1. d = [a \in 1 .. n |-> d[a]]
    OBVIOUS
  <2>. HIDE DEF d
  <2> QED BY <1>3, <2>1
<1>. HIDE DEF d, n
<1>5. s \in [0 .. n -> Int] /\ s[0] = 0 /\ \A i \in 1 .. n : s[i] = s[i-1] + d[i]
  BY <1>1, <1>4, SumsFacts
<1>. HIDE DEF s
<1>6. Eq(g)
  <2>1. ASSUME NEW a \in 0 .. n
        PROVE  v.data + s[a] = IF a = 0 THEN v.data ELSE g[a-1] + x[a] * v.stride[a]
    <3>1. CASE a = 0
      BY <3>1, <1>1, <1>5
    <3>2. CASE a # 0
      <4>1. a \in 1 .. n /\ a - 1 \in 0 .. n
        BY <1>1, <3>2
      <4>2. PICK p \in Int, q \in Int : p = s[a-1] /\ q = d[a] /\ s[a] = p + q
        BY <1>3, <1>5, <4>1
      <4>3. g[a-1] = v.data + p /\ x[a] * v.stride[a] = q
        BY <1>3, <4>1, <4>2
      <4>4. v.data + (p + q) = (v.data + p) + q
        BY ONLY <1>1, p \in Int, q \in Int
      <4> QED BY <3>2, <4>2, <4>3, <4>4
    <3> QED BY <3>1, <3>2
  <2> QED BY <2>1
<1>7. Eq(o)
  <2>. HIDE DEF Eq, g
  <2> QED BY <1>6
<1>8. At(v, x) = o[n]
  BY <1>2 DEF At
<1>9. g[n] = v.data + s[n]
  BY <1>1
<1>. DEFINE G == {i \in 0 .. n : o[i] = g[i]}
<1>. HIDE DEF o, g
<1>10. 0 \in G
  BY <1>1, <1>6, <1>7
<1>11. ASSUME NEW i \in 1 .. n, i - 1 \in G PROVE i \in G
  <2>1. i \in 0 .. n /\ i # 0
    BY <1>1
  <2>2. o[i] = o[i-1] + x[i] * v.stride[i]
    BY <1>7, <2>1
  <2>3. g[i] = g[i-1] + x[i] * v.stride[i]
    BY <1>6, <2>1
  <2> QED BY <1>11, <2>1, <2>2, <2>3
<1>12. 0 .. n \subseteq G
  <2>. HIDE DEF G
  <2> QED BY <1>1, <1>10, <1>11, IntervalInduction
<1>13. At(v, x) = v.data + s[n]
  BY <1>1, <1>8, <1>9, <1>12
<1> QED BY <1>13 DEF s, d, n

\* A factor of all the terms is a factor of their sum.
Scaled(z, x) == z * x
\* Scaling distributes over a sum of two.
LEMMA ScaledSum ==
  ASSUME NEW z \in Int, NEW p \in Int, NEW q \in Int, NEW r \in Int, r = p + q
  PROVE  Scaled(z, r) = Scaled(z, p) + Scaled(z, q)
BY Distribute DEF Scaled

\* And over the sums of a sequence.
LEMMA SumsScaled ==
  ASSUME NEW n \in Nat, NEW d \in [1 .. n -> Int], NEW e \in [1 .. n -> Int], NEW z \in Int,
         \A a \in 1 .. n : e[a] = Scaled(z, d[a])
  PROVE  Sums(n, e)[n] = Scaled(z, Sums(n, d)[n])
<1>. DEFINE s == Sums(n, d)
            t == Sums(n, e)
            G == {i \in 0 .. n : t[i] = Scaled(z, s[i])}
<1>1. s \in [0 .. n -> Int] /\ s[0] = 0 /\ \A i \in 1 .. n : s[i] = s[i-1] + d[i]
  BY SumsFacts
<1>2. t \in [0 .. n -> Int] /\ t[0] = 0 /\ \A i \in 1 .. n : t[i] = t[i-1] + e[i]
  BY SumsFacts
<1>. HIDE DEF s, t
<1>3. 0 \in G
  BY <1>1, <1>2 DEF Scaled
<1>4. ASSUME NEW i \in 1 .. n, i - 1 \in G PROVE i \in G
  <2>1. PICK p \in Int, q \in Int : p = s[i-1] /\ q = d[i] /\ s[i] = p + q
    <3>1. i - 1 \in 0 .. n /\ i \in 1 .. n
      OBVIOUS
    <3>2. s[i-1] \in Int /\ d[i] \in Int /\ s[i] = s[i-1] + d[i]
      BY <1>1, <3>1
    <3> QED BY <3>2
  <2>2. t[i] = Scaled(z, p) + Scaled(z, q)
    <3>1. e[i] = Scaled(z, q) /\ t[i-1] = Scaled(z, p)
      BY <1>4, <2>1
    <3> QED BY <1>2, <3>1
  <2>3. Scaled(z, s[i]) = Scaled(z, p) + Scaled(z, q)
    <3>1. PICK u \in Int : u = s[i] /\ u = p + q
      BY <2>1
    <3>2. Scaled(z, u) = Scaled(z, p) + Scaled(z, q)
      BY ONLY z \in Int, p \in Int, q \in Int, u \in Int, <3>1, ScaledSum
    <3> QED BY <3>1, <3>2
  <2> QED BY <2>2, <2>3
<1>5. 0 .. n \subseteq G
  <2>. HIDE DEF G
  <2> QED BY <1>3, <1>4, IntervalInduction
<1> QED BY <1>5 DEF s, t

\* The offset the code computes leads to the address of the cell,
LEMMA OffsetToCell ==
  ASSUME NEW v \in Views, v.dtype \in DOMAIN ElementSize,
         \A a \in Axes(v) : v.stride[a] % SizeOf(v) = 0,
         NEW x \in [1 .. Rank(v) -> Nat]
  PROVE  At(v, x) = v.data + SizeOf(v) * Offset(v, x)
<1>. DEFINE n == Rank(v)
            z == SizeOf(v)
            d == [a \in 1 .. n |-> x[a] * (v.stride[a] \div z)]
            e == [a \in 1 .. n |-> x[a] * v.stride[a]]
<1>1. n \in Nat /\ Axes(v) = 1 .. n /\ z \in Nat \ {0} /\ v.stride \in [1 .. n -> Nat]
  <2>1. z \in 1 .. 8
    BY SizeFacts
  <2> QED BY <2>1, ViewFacts
<1>2. ASSUME NEW a \in 1 .. n PROVE d[a] \in Int /\ e[a] \in Int /\ e[a] = Scaled(z, d[a])
  <2>1. PICK y \in Nat, s \in Nat, q \in Nat :
          y = x[a] /\ s = v.stride[a] /\ q = s \div z /\ s = z * q
    <3>1. v.stride[a] \in Nat /\ v.stride[a] % z = 0 /\ x[a] \in Nat
      BY <1>1
    <3>2. v.stride[a] \div z \in Nat /\ z * (v.stride[a] \div z) = v.stride[a]
      BY ONLY <1>1, <3>1, StrideInElements
    <3> QED BY <3>1, <3>2
  <2>2. y * s = z * (y * q) /\ y * q \in Int /\ y * s \in Int
    BY ONLY <1>1, <2>1, y \in Nat, s \in Nat, q \in Nat
  <2>3. d[a] = y * q /\ e[a] = y * s
    BY <2>1
  <2> QED BY <2>2, <2>3 DEF Scaled
<1>3. d \in [1 .. n -> Int] /\ e \in [1 .. n -> Int]
  <2>1. d = [a \in 1 .. n |-> d[a]] /\ e = [a \in 1 .. n |-> e[a]]
    OBVIOUS
  <2>. HIDE DEF d, e
  <2> QED BY <1>2, <2>1
<1>4. Offset(v, x) = Sums(n, d)[n]
  BY <1>1 DEF Offset
<1>5. At(v, x) = v.data + Sums(n, e)[n]
  BY AtIs
<1>. HIDE DEF d, e, n, z
<1>6. Sums(n, e)[n] = Scaled(z, Sums(n, d)[n])
  <2>1. n \in Nat /\ z \in Int
    BY <1>1
  <2>2. \A a \in 1 .. n : e[a] = Scaled(z, d[a])
    BY <1>2
  <2>3. d \in [1 .. n -> Int] /\ e \in [1 .. n -> Int]
    BY <1>3
  <2> QED BY ONLY <2>1, <2>2, <2>3, SumsScaled
<1> QED BY <1>4, <1>5, <1>6 DEF z, Scaled

\* and so does the linear index, if the tensor is contiguous.
LEMMA DenseToCell ==
  ASSUME NEW v \in Views, v.dtype \in DOMAIN ElementSize, IsContiguous(v),
         NEW x \in [1 .. Rank(v) -> Nat], \A a \in 1 .. Rank(v) : x[a] \in 0 .. v.shape[a] - 1
  PROVE  At(v, x) = v.data + SizeOf(v) * RowMajor(v.shape, x)
<1>. DEFINE n == Rank(v)
            z == SizeOf(v)
            s == Suffix(v.shape)
            d == [a \in 1 .. n |-> x[a] * s[a]]
            e == [a \in 1 .. n |-> x[a] * v.stride[a]]
<1>1. n \in Nat /\ Axes(v) = 1 .. n /\ z \in Nat \ {0} /\ v.stride \in [1 .. n -> Nat]
      /\ v.shape \in [1 .. n -> Nat] /\ Len(v.shape) = n
  BY ViewFacts, SizeFacts DEF Rank
<1>2. /\ s \in [0 .. n -> Int] /\ s[n] = 1
      /\ \A i \in 1 .. n : s[i-1] = v.shape[i] * s[i]
  BY <1>1, SuffixFacts
<1>3. \A a \in 1 .. n : v.shape[a] > 1 => v.stride[a] = s[a] * z
  BY <1>1 DEF IsContiguous, Inner
<1>4. PICK r : /\ RowSteps(n, v.shape, x, r) /\ r[n] = RowMajor(v.shape, x)
               /\ \A i \in 0 .. n : r[i] \in Nat
  BY <1>1, RowMajorSteps DEF HasSteps, InCells
<1>5. At(v, x) = v.data + Sums(n, e)[n]
  BY AtIs
<1>. HIDE DEF s
<1>6. ASSUME NEW a \in 1 .. n PROVE d[a] \in Int /\ e[a] \in Int /\ e[a] = Scaled(z, d[a])
  <2>1. PICK y \in Nat, t \in Nat, q \in Int, m \in Nat :
          y = x[a] /\ t = v.stride[a] /\ q = s[a] /\ m = v.shape[a] /\ y \in 0 .. m - 1
    <3>1. x[a] \in Nat /\ v.stride[a] \in Nat /\ s[a] \in Int /\ v.shape[a] \in Nat
          /\ x[a] \in 0 .. v.shape[a] - 1
      BY <1>1, <1>2
    <3> QED BY ONLY <3>1
  <2>2. y * t = z * (y * q) /\ y * q \in Int /\ y * t \in Int
    <3>1. CASE m > 1
      <4>1. t = q * z
        BY <1>3, <2>1, <3>1
      <4> QED BY ONLY <4>1, <1>1, y \in Nat, t \in Nat, q \in Int
    <3>2. CASE m <= 1
      <4>1. y = 0
        BY <2>1, <3>2
      <4> QED BY ONLY <4>1, <1>1, y \in Nat, t \in Nat, q \in Int
    <3> QED BY <3>1, <3>2
  <2>3. d[a] = y * q /\ e[a] = y * t
    BY <2>1
  <2> QED BY <2>2, <2>3 DEF Scaled
<1>7. d \in [1 .. n -> Int] /\ e \in [1 .. n -> Int] /\ \A a \in 1 .. n : d[a] = x[a] * s[a]
  <2>1. d = [a \in 1 .. n |-> d[a]] /\ e = [a \in 1 .. n |-> e[a]] /\ \A a \in 1 .. n : d[a] = x[a] * s[a]
    OBVIOUS
  <2>. HIDE DEF d, e
  <2> QED BY <1>6, <2>1
<1>. HIDE DEF d, e, n, z
<1>8. Sums(n, e)[n] = Scaled(z, Sums(n, d)[n])
  <2>1. n \in Nat /\ z \in Int
    BY <1>1
  <2>2. \A a \in 1 .. n : e[a] = Scaled(z, d[a])
    BY <1>6
  <2>3. d \in [1 .. n -> Int] /\ e \in [1 .. n -> Int]
    BY <1>7
  <2> QED BY ONLY <2>1, <2>2, <2>3, SumsScaled
<1>. DEFINE t == Sums(n, d)
            G == {i \in 0 .. n : t[i] = r[i] * s[i]}
<1>9. t \in [0 .. n -> Int] /\ t[0] = 0 /\ \A i \in 1 .. n : t[i] = t[i-1] + d[i]
  BY <1>1, <1>7, SumsFacts
<1>. HIDE DEF t
<1>10. 0 \in G
  <2>1. r[0] = 0 /\ s[0] \in Int
    BY <1>1, <1>2, <1>4 DEF RowSteps
  <2>2. 0 * s[0] = 0
    BY <2>1
  <2> QED BY <1>1, <1>9, <2>1, <2>2
<1>11. ASSUME NEW i \in 1 .. n, i - 1 \in G PROVE i \in G
  <2>1. PICK p \in Nat, q \in Int, m \in Nat, y \in Nat :
          p = r[i-1] /\ q = s[i] /\ m = v.shape[i] /\ y = x[i]
          /\ r[i] = p * m + y /\ s[i-1] = m * q /\ t[i-1] = p * (m * q) /\ d[i] = y * q
    <3>1. r[i-1] \in Nat /\ s[i] \in Int /\ v.shape[i] \in Nat /\ x[i] \in Nat
      <4>1. i - 1 \in 0 .. n /\ i \in 0 .. n /\ i \in 1 .. n
        BY <1>1
      <4>2. r[i-1] \in Nat
        BY <1>4, <4>1
      <4>3. s[i] \in Int
        BY <1>2, <4>1
      <4>4. v.shape[i] \in Nat /\ x[i] \in Nat
        BY <1>1, <4>1 DEF n
      <4> QED BY <4>2, <4>3, <4>4
    <3>2. r[i] = r[i-1] * v.shape[i] + x[i]
      BY <1>4 DEF RowSteps
    <3> QED BY <3>1, <3>2, <1>2, <1>7, <1>11
  <2>2. p * (m * q) + y * q = (p * m + y) * q
    BY ONLY p \in Nat, q \in Int, m \in Nat, y \in Nat
  <2>3. t[i] = r[i] * s[i]
    BY <1>9, <2>1, <2>2
  <2> QED BY <2>3
<1>12. 0 .. n \subseteq G
  <2>. HIDE DEF G
  <2> QED BY <1>1, <1>10, <1>11, IntervalInduction
<1>13. t[n] = r[n]
  <2>1. t[n] = r[n] * 1 /\ r[n] \in Nat
    BY <1>1, <1>2, <1>4, <1>12
  <2> QED BY <2>1
<1> QED BY <1>4, <1>5, <1>8, <1>13 DEF t, z, Scaled

\* The cells of a view in logical order: each has a linear index, and the address
\* the code computes from that index is the address of the cell.
LEMMA CellOfIndex ==
  ASSUME NEW v \in Views, MetaOK(v), NEW l \in Linears(v)
  PROVE  /\ Coordinates(v.shape, l) \in Cells(v.shape)
         /\ RowMajor(v.shape, Coordinates(v.shape, l)) = l
         /\ LogicalAddr(v)[l] = At(v, Coordinates(v.shape, l))
<1>. DEFINE x == Coordinates(v.shape, l)
<1>1. Rank(v) \in Nat /\ v.shape \in [1 .. Rank(v) -> Nat] /\ Len(v.shape) = Rank(v)
      /\ Axes(v) = 1 .. Rank(v)
  BY ViewFacts DEF Rank
<1>2. x \in [1 .. Rank(v) -> Nat] /\ \A a \in 1 .. Rank(v) : x[a] \in 0 .. v.shape[a] - 1
  BY ElementCoordinates
<1>3. RowMajor(v.shape, x) = l
  BY <1>1, ThereAndBack DEF Linears, Count
<1>. HIDE DEF x
<1>4. x \in Cells(v.shape)
  BY <1>1, <1>2, CellsAre
<1>5. v.dtype \in DOMAIN ElementSize /\ \A a \in Axes(v) : v.stride[a] % SizeOf(v) = 0
  BY DEF MetaOK
<1>6. LogicalAddr(v)[l] = v.data + SizeOf(v) * (IF IsContiguous(v) THEN l ELSE Offset(v, x))
  BY DEF LogicalAddr, x
<1>7. CASE IsContiguous(v)
  <2>1. At(v, x) = v.data + SizeOf(v) * RowMajor(v.shape, x)
    BY <1>2, <1>5, <1>7, DenseToCell
  <2> QED BY <1>3, <1>4, <1>6, <1>7, <2>1 DEF x
<1>8. CASE ~IsContiguous(v)
  <2>1. At(v, x) = v.data + SizeOf(v) * Offset(v, x)
    BY <1>2, <1>5, OffsetToCell
  <2> QED BY <1>3, <1>4, <1>6, <1>8, <2>1 DEF x
<1> QED BY <1>7, <1>8

\* A cell has a linear index, and the kernels find it at its address.
LEMMA IndexOfCell ==
  ASSUME NEW v \in Views, MetaOK(v), NEW x \in Cells(v.shape)
  PROVE  /\ RowMajor(v.shape, x) \in Linears(v)
         /\ Coordinates(v.shape, RowMajor(v.shape, x)) = x
         /\ LogicalAddr(v)[RowMajor(v.shape, x)] = At(v, x)
<1>1. Rank(v) \in Nat /\ v.shape \in [1 .. Rank(v) -> Nat] /\ Len(v.shape) = Rank(v)
  BY ViewFacts DEF Rank
<1>2. x \in [1 .. Rank(v) -> Nat] /\ \A a \in 1 .. Rank(v) : x[a] \in 0 .. v.shape[a] - 1
  BY <1>1, CellsAre
<1>3. /\ RowMajor(v.shape, x) \in 0 .. Product(v.shape) - 1
      /\ Coordinates(v.shape, RowMajor(v.shape, x)) = x
  BY <1>1, <1>2, BackAndThere
<1>4. RowMajor(v.shape, x) \in Linears(v)
  BY <1>3 DEF Linears, Count
<1> QED BY <1>3, <1>4, CellOfIndex

(* --- the order of the cells ------------------------------------------------- *)
\* y comes before x: the first coordinate in which they differ is the smaller one.
ComesBefore(n, y, x) == \E a \in 1 .. n : y[a] < x[a] /\ \A b \in 1 .. a - 1 : y[b] = x[b]

\* The linear index grows with the order.
LinearBelow(shape, y, x) == RowMajor(shape, y) < RowMajor(shape, x)
\* A cell that comes before another has the smaller linear index.
LEMMA RowMajorGrows ==
  ASSUME NEW n \in Nat, NEW shape \in [1 .. n -> Nat], Len(shape) = n,
         NEW x, InCells(n, shape, x), NEW y, InCells(n, shape, y), ComesBefore(n, y, x)
  PROVE  LinearBelow(shape, y, x)
<1>0. /\ x \in [1 .. n -> Nat] /\ \A a \in 1 .. n : x[a] \in 0 .. shape[a] - 1
      /\ y \in [1 .. n -> Nat] /\ \A a \in 1 .. n : y[a] \in 0 .. shape[a] - 1
  BY DEF InCells
<1>1. PICK r : /\ RowSteps(n, shape, x, r) /\ r[n] = RowMajor(shape, x)
               /\ \A i \in 0 .. n : r[i] \in Nat
  BY RowMajorSteps DEF HasSteps
<1>2. PICK s : /\ RowSteps(n, shape, y, s) /\ s[n] = RowMajor(shape, y)
               /\ \A i \in 0 .. n : s[i] \in Nat
  BY RowMajorSteps DEF HasSteps
<1>3. PICK c \in 1 .. n : y[c] < x[c] /\ \A b \in 1 .. c - 1 : y[b] = x[b]
  BY <1>0 DEF ComesBefore
<1>4. /\ r[0] = 0 /\ s[0] = 0
      /\ \A i \in 1 .. n : /\ r[i] = r[i-1] * shape[i] + x[i]
                           /\ s[i] = s[i-1] * shape[i] + y[i]
  BY <1>1, <1>2 DEF RowSteps
<1>. DEFINE G == {i \in 0 .. n : IF i < c THEN s[i] = r[i] ELSE s[i] < r[i]}
<1>5. 0 \in G
  BY <1>3, <1>4
<1>6. ASSUME NEW i \in 1 .. n, i - 1 \in G PROVE i \in G
  <2>1. PICK p \in Nat, q \in Nat, m \in Nat, u \in Nat, v \in Nat :
          /\ p = r[i-1] /\ q = s[i-1] /\ m = shape[i] /\ u = x[i] /\ v = y[i]
          /\ u \in 0 .. m - 1 /\ v \in 0 .. m - 1
          /\ r[i] = p * m + u /\ s[i] = q * m + v
    <3>1. i - 1 \in 0 .. n /\ i \in 1 .. n
      OBVIOUS
    <3>2. r[i-1] \in Nat /\ s[i-1] \in Nat
      BY <1>1, <1>2, <3>1
    <3>3. x[i] \in 0 .. shape[i] - 1 /\ y[i] \in 0 .. shape[i] - 1 /\ shape[i] \in Nat
          /\ x[i] \in Nat /\ y[i] \in Nat
      BY <1>0, <3>1
    <3>4. r[i] = r[i-1] * shape[i] + x[i] /\ s[i] = s[i-1] * shape[i] + y[i]
      BY <1>4, <3>1
    <3>5. PICK m \in Nat : m = shape[i]
      BY <3>3
    <3>6. x[i] \in 0 .. m - 1 /\ y[i] \in 0 .. m - 1
          /\ r[i] = r[i-1] * m + x[i] /\ s[i] = s[i-1] * m + y[i]
      BY <3>3, <3>4, <3>5
    <3> QED BY ONLY <3>2, <3>3, <3>5, <3>6, m \in Nat, Zenon
  <2>2. PICK pm \in Int, qm \in Int : pm = p * m /\ qm = q * m
    OBVIOUS
  <2>3. r[i] = pm + u /\ s[i] = qm + v
    BY <2>1, <2>2
  <2>4. CASE i < c
    <3>1. q = p /\ v = u
      BY <1>3, <1>6, <2>1, <2>4
    <3> QED BY <2>1, <2>4, <3>1
  <2>5. CASE i = c
    <3>1. q = p /\ v < u
      BY <1>3, <1>6, <2>1, <2>5
    <3>2. qm = pm
      BY <2>2, <3>1
    <3> QED BY <2>3, <2>5, <3>1, <3>2
  <2>6. CASE i > c
    <3>1. q < p
      BY <1>6, <2>1, <2>6
    <3>2. qm + m <= pm
      <4>1. PICK k \in Nat : p = (q + 1) + k
        <5>1. p - (q + 1) \in Nat /\ p = (q + 1) + (p - (q + 1))
          BY <3>1
        <5> QED BY <5>1
      <4>2. p * m = q * m + m + k * m /\ k * m >= 0 /\ k * m \in Int
        BY ONLY <4>1, p \in Nat, q \in Nat, m \in Nat, k \in Nat
      <4> QED BY <2>2, <4>2
    <3>3. qm + v < pm + u
      <4>1. v < m
        BY <2>1
      <4> QED BY ONLY <4>1, <3>2, pm \in Int, qm \in Int, m \in Nat, u \in Nat, v \in Nat
    <3>4. s[i] < r[i] /\ ~(i < c)
      BY <2>3, <2>6, <3>3
    <3> QED BY <3>4
  <2> QED BY <1>3, <2>4, <2>5, <2>6
<1>7. 0 .. n \subseteq G
  <2>. HIDE DEF G
  <2> QED BY <1>5, <1>6, IntervalInduction
<1>8. n \in 0 .. n /\ ~(n < c)
  BY <1>3
<1>9. s[n] < r[n]
  BY <1>7, <1>8
<1> QED BY <1>1, <1>2, <1>9 DEF LinearBelow

\* Of two different cells one comes first.
LEMMA OneComesFirst ==
  ASSUME NEW n \in Nat, NEW x \in [1 .. n -> Nat], NEW y \in [1 .. n -> Nat], x # y
  PROVE  ComesBefore(n, y, x) \/ ComesBefore(n, x, y)
<1>. DEFINE Same(k) == \A a \in 1 .. k : x[a] = y[a]
            G == {k \in 0 .. n : Same(k) \/ ComesBefore(n, y, x) \/ ComesBefore(n, x, y)}
<1>1. 0 \in G
  OBVIOUS
<1>2. ASSUME NEW k \in 1 .. n, k - 1 \in G PROVE k \in G
  <2>1. CASE Same(k - 1)
    <3>1. CASE x[k] = y[k]
      <4>1. Same(k)
        <5>1. ASSUME NEW a \in 1 .. k PROVE x[a] = y[a]
          <6>1. a = k \/ a \in 1 .. k - 1
            OBVIOUS
          <6> QED BY <2>1, <3>1, <6>1
        <5> QED BY <5>1
      <4> QED BY <4>1
    <3>2. CASE x[k] # y[k]
      <4>1. x[k] \in Nat /\ y[k] \in Nat
        OBVIOUS
      <4>2. CASE y[k] < x[k]
        <5>1. ComesBefore(n, y, x)
          BY <2>1, <4>2 DEF ComesBefore
        <5> QED BY <5>1
      <4>3. CASE x[k] < y[k]
        <5>1. ComesBefore(n, x, y)
          BY <2>1, <4>3 DEF ComesBefore
        <5> QED BY <5>1
      <4> QED BY <3>2, <4>1, <4>2, <4>3
    <3> QED BY <3>1, <3>2
  <2>2. CASE ~Same(k - 1)
    BY <1>2, <2>2
  <2> QED BY <2>1, <2>2
<1>3. 0 .. n \subseteq G
  <2>. HIDE DEF G
  <2> QED BY <1>1, <1>2, IntervalInduction
<1>4. n \in G
  <2>. HIDE DEF G
  <2>1. n \in 0 .. n
    OBVIOUS
  <2> QED BY <1>3, <2>1
<1>5. ~Same(n)
  OBVIOUS
<1> QED BY <1>4, <1>5

\* As many cells come before a cell as its linear index says.
LEMMA CellsBeforeIs ==
  ASSUME NEW n \in Nat, NEW shape \in [1 .. n -> Nat], Len(shape) = n,
         NEW x \in Cells(shape)
  PROVE  CellsBefore(shape, x) = RowMajor(shape, x)
<1>1. \A y \in Cells(shape) : /\ InCells(n, shape, y) /\ y \in [1 .. n -> Nat]
                              /\ \A a \in 1 .. n : y[a] \in 0 .. shape[a] - 1
  BY CellsAre DEF InCells
<1>2. \A y \in Cells(shape) : /\ RowMajor(shape, y) \in 0 .. Product(shape) - 1
                              /\ Coordinates(shape, RowMajor(shape, y)) = y
  BY <1>1, BackAndThere
<1>. DEFINE B == {y \in Cells(shape) : ComesBefore(n, y, x)}
<1>3. PICK k \in Nat : k = RowMajor(shape, x)
  BY <1>2
<1>4. ASSUME NEW y \in Cells(shape) PROVE y \in B <=> RowMajor(shape, y) < k
  <2>1. CASE ComesBefore(n, y, x)
    BY <1>1, <1>3, <2>1, RowMajorGrows DEF LinearBelow
  <2>2. CASE ComesBefore(n, x, y)
    <3>1. LinearBelow(shape, x, y)
      BY <1>1, <2>2, RowMajorGrows
    <3>2. k < RowMajor(shape, y) /\ RowMajor(shape, y) \in Int
      BY <1>2, <1>3, <3>1 DEF LinearBelow
    <3>3. ~LinearBelow(shape, y, x)
      BY <1>3, <3>2 DEF LinearBelow
    <3>4. ~ComesBefore(n, y, x)
      BY <1>1, <3>3, RowMajorGrows
    <3> QED BY <3>2, <3>4
  <2>3. CASE y = x
    <3>1. ~ComesBefore(n, x, x)
      <4>1. ~LinearBelow(shape, x, x)
        BY <1>3 DEF LinearBelow
      <4> QED BY <1>1, <4>1, RowMajorGrows
    <3> QED BY <1>3, <2>3, <3>1
  <2> QED BY <1>1, <2>1, <2>2, <2>3, OneComesFirst
<1>. DEFINE T == 0 .. k - 1
            f == [v \in T |-> Coordinates(shape, v)]
<1>5. f \in Bijection(T, B)
  <2>1. ASSUME NEW v \in T PROVE Coordinates(shape, v) \in B /\ RowMajor(shape, Coordinates(shape, v)) = v
    <3>1. v \in 0 .. Product(shape) - 1
      <4>1. PICK p \in Int : p = Product(shape)
        BY CountIsSuffix
      <4>2. k \in 0 .. p - 1
        BY <1>2, <1>3, <4>1
      <4> QED BY <4>1, <4>2
    <3>2. RowMajor(shape, Coordinates(shape, v)) = v
      BY <3>1, ThereAndBack
    <3>3. Coordinates(shape, v) \in Cells(shape)
      <4>1. \A a \in 1 .. n : shape[a] >= 1
        <5>1. Product(shape) = Suffix(shape)[0] /\ Product(shape) \in Nat
          BY CountIsSuffix
        <5> QED BY <3>1, <5>1, PositiveExtents
      <4>2. v \in Nat
        OBVIOUS
      <4>3. Coordinates(shape, v) \in [1 .. n -> Nat] /\ InShape(shape, Coordinates(shape, v))
        BY <4>1, <4>2, CoordinatesInShape
      <4>4. \A a \in 1 .. n : Coordinates(shape, v)[a] \in 0 .. shape[a] - 1
        BY <4>3 DEF InShape
      <4> QED BY <4>3, <4>4, CellIn DEF InCells
    <3>4. Coordinates(shape, v) \in B
      BY <1>4, <3>2, <3>3
    <3> QED BY <3>2, <3>4
  <2>2. ASSUME NEW y \in B PROVE RowMajor(shape, y) \in T /\ f[RowMajor(shape, y)] = y
    <3>1. RowMajor(shape, y) \in Nat /\ RowMajor(shape, y) < k
      BY <1>2, <1>4
    <3>2. RowMajor(shape, y) \in T
      BY <3>1
    <3> QED BY <1>2, <3>2
  <2>3. f \in [T -> B]
    BY <2>1
  <2>4. \A v \in T, w \in T : f[v] = f[w] => v = w
    <3>1. ASSUME NEW v \in T, NEW w \in T, f[v] = f[w] PROVE v = w
      <4>1. Coordinates(shape, v) = Coordinates(shape, w)
        BY <3>1
      <4> QED BY <2>1, <4>1
    <3> QED BY <3>1
  <2>5. \A y \in B : \E v \in T : f[v] = y
    BY <2>2
  <2>. HIDE DEF B, T, f
  <2> QED BY <2>3, <2>4, <2>5 DEF Bijection, Injection, Surjection, IsInjective
<1>6. Cardinality(B) = k
  <2>1. IsFiniteSet(T) /\ Cardinality(T) = k
    BY FS_Interval
  <2>. HIDE DEF B, T, f
  <2>3. ExistsBijection(T, B)
    BY <1>5 DEF ExistsBijection
  <2> QED BY <2>1, <2>3, FS_Bijection
<1>7. CellsBefore(shape, x) = Cardinality(B)
  BY DEF CellsBefore, ComesBefore
<1> QED BY <1>3, <1>6, <1>7

(* --- one source per element --------------------------------------------------- *)
\* Counting from the end is what normalising an index in range means.
LEMMA WrapIs ==
  ASSUME NEW i \in Int, NEW n \in Nat, NormalizeAxis(i, n) \in 0 .. n - 1
  PROVE  Wrap(i, n) = NormalizeAxis(i, n)
<1>1. PICK e \in 0 .. n - 1 : e = NormalizeAxis(i, n)
  OBVIOUS
<1>2. CASE i < 0
  <2>1. i + n = 0 * n + e
    BY <1>1, <1>2 DEF NormalizeAxis
  <2>2. (0 * n + e) % n = e
    BY LastDigit
  <2> QED BY <1>1, <2>1, <2>2 DEF Wrap
<1>3. CASE ~(i < 0)
  <2>1. i + n = 1 * n + e
    BY <1>1, <1>3 DEF NormalizeAxis
  <2>2. (1 * n + e) % n = e
    BY LastDigit
  <2> QED BY <1>1, <2>1, <2>2 DEF Wrap
<1> QED BY <1>2, <1>3

\* Cells are the same if their coordinates are.
LEMMA SameCell ==
  ASSUME NEW S, NEW x \in [S -> Nat], NEW z \in [S -> Nat]
  PROVE  (\A b \in S : x[b] = z[b]) <=> z = x
<1>1. ASSUME \A b \in S : x[b] = z[b] PROVE z = x
  <2>1. z = [b \in S |-> z[b]] /\ x = [b \in S |-> x[b]]
    OBVIOUS
  <2>2. [b \in S |-> z[b]] = [b \in S |-> x[b]]
    BY <1>1
  <2> QED BY <2>1, <2>2
<1>2. ASSUME z = x PROVE \A b \in S : x[b] = z[b]
  BY <1>2
<1> QED BY <1>1, <1>2

\* Element l of the logical result is what cell x of input i holds, and the cell
\* of the output it belongs to shows no other.
ShowsCell(c, i, x, l) ==
  /\ i \in DOMAIN c.in /\ x \in Cells(c.in[i].shape)
  /\ LogicalOutput(c)[l] = MovedValue(c, At(c.in[i], x))
  /\ Sources(c, Coordinates(Dst(c).shape, l)) = {<<i, x>>}

\* Element l shows cell x of input 1 and none of its other cells.
ShowsOnly(c, x, l) ==
  \A z \in Cells(Src(c).shape) : Shows(c, 1, z, Coordinates(Dst(c).shape, l)) <=> z = x

\* The kernels with one input.
LEMMA OneSource ==
  ASSUME NEW c, c.in \in Seq(Views), AllMetaOK(c), 1 \in DOMAIN c.in, c.op # "CONCAT",
         NEW l, NEW x, InCells(Rank(Src(c)), Src(c).shape, x),
         LogicalOutput(c)[l] = MovedValue(c, LogicalAddr(Src(c))[RowMajor(Src(c).shape, x)]),
         ShowsOnly(c, x, l)
  PROVE  \E i, z : ShowsCell(c, i, z, l)
<1>1. Src(c) \in Views /\ Src(c) = c.in[1] /\ MetaOK(Src(c))
  BY SourceMeta DEF Src
<1>2. x \in Cells(Src(c).shape)
  BY <1>1, ViewFacts, CellIn DEF Rank
<1>3. LogicalAddr(Src(c))[RowMajor(Src(c).shape, x)] = At(Src(c), x)
  BY <1>1, <1>2, IndexOfCell
<1>. DEFINE y == Coordinates(Dst(c).shape, l)
<1>4. Sources(c, y) = {ix \in UNION {{i} \X Cells(c.in[i].shape) : i \in {1}} : Shows(c, ix[1], ix[2], y)}
  BY DEF Sources
<1>. HIDE DEF y
<1>5. UNION {{i} \X Cells(c.in[i].shape) : i \in {1}} = {1} \X Cells(Src(c).shape)
  BY <1>1
<1>6. {1} \X Cells(Src(c).shape) = {<<1, z>> : z \in Cells(Src(c).shape)}
  OBVIOUS
<1>7. \A z \in Cells(Src(c).shape) : Shows(c, 1, z, y) <=> z = x
  BY DEF y, ShowsOnly
<1>8. Sources(c, y) = {<<1, x>>}
  <2>1. ASSUME NEW ix \in Sources(c, y) PROVE ix = <<1, x>>
    <3>1. ix \in {1} \X Cells(Src(c).shape) /\ Shows(c, ix[1], ix[2], y)
      BY <1>4, <1>5
    <3>2. PICK z \in Cells(Src(c).shape) : ix = <<1, z>>
      BY <1>6, <3>1
    <3>3. ix[1] = 1 /\ ix[2] = z
      BY <3>2
    <3> QED BY <1>7, <3>1, <3>2, <3>3
  <2>2. <<1, x>> \in Sources(c, y)
    <3>1. <<1, x>>[1] = 1 /\ <<1, x>>[2] = x
      OBVIOUS
    <3>2. <<1, x>> \in {1} \X Cells(Src(c).shape)
      BY <1>2
    <3>3. Shows(c, 1, x, y)
      BY <1>2, <1>7
    <3> QED BY <1>4, <1>5, <3>1, <3>2, <3>3
  <2> QED BY <2>1, <2>2
<1>9. ShowsCell(c, 1, x, l)
  BY <1>1, <1>2, <1>3, <1>8 DEF ShowsCell, y
<1> QED BY <1>9

\* Those that move a value as it is.
LEMMA OneSourceTaken ==
  ASSUME NEW c, c.in \in Seq(Views), AllMetaOK(c), 1 \in DOMAIN c.in, c.op \notin {"CONCAT", "CAST"},
         NEW l, NEW x, Taken(c, LogicalOutput(c), l, x),
         \A z \in Cells(Src(c).shape) : Shows(c, 1, z, Coordinates(Dst(c).shape, l)) <=> z = x
  PROVE  \E i, z : ShowsCell(c, i, z, l)
<1>1. InCells(Rank(Src(c)), Src(c).shape, x)
  BY DEF InCells, Taken
<1>2. LogicalOutput(c)[l] = MovedValue(c, LogicalAddr(Src(c))[RowMajor(Src(c).shape, x)])
  BY DEF Taken, MovedValue
<1>3. c.op # "CONCAT"
  OBVIOUS
<1>4. ShowsOnly(c, x, l)
  BY DEF ShowsOnly
<1> QED BY ONLY c.in \in Seq(Views), AllMetaOK(c), 1 \in DOMAIN c.in, <1>1, <1>2, <1>3, <1>4, OneSource

\* TRANSPOSE (transform.rs:203).
LEMMA TransposeMoves ==
  ASSUME NEW c, c.in \in Seq(Views), c.out \in Seq(Views), c.op = "TRANSPOSE", TransposeOK(c),
         c.attr \in TransposeAttrs, c.attr.rank <= MaxDim => c.attr.rank <= Len(c.attr.perm),
         NEW l \in Linears(Dst(c))
  PROVE  \E i, z : ShowsCell(c, i, z, l)
<1>. DEFINE n == Rank(Src(c))
            y == Coordinates(Dst(c).shape, l)
<1>1. /\ 1 \in DOMAIN c.in /\ AllMetaOK(c) /\ Src(c) \in Views
      /\ n \in Nat /\ Axes(Dst(c)) = 1 .. n /\ Src(c).shape \in [1 .. n -> Nat] /\ Len(Src(c).shape) = n
  BY SourceAndResult DEF TransposeOK, OneToOne
<1>2. PICK x : /\ Taken(c, TransposeResult(c), l, x)
               /\ \A a \in 1 .. n : PermAxis(c, a) \in 1 .. n /\ x[PermAxis(c, a)] = y[a]
               /\ \A b \in 1 .. n : \E a \in 1 .. n : PermAxis(c, a) = b
  BY TransposeTaken
<1>3. ASSUME NEW a \in 1 .. n PROVE 1 + Wrap(c.attr.perm[a], n) = PermAxis(c, a)
  <2>1. c.attr.perm[a] \in Int
    <3>1. n <= MaxDim
      BY <1>1, SourceMeta DEF MetaOK
    <3>2. c.attr.perm \in Seq(I32) /\ n <= Len(c.attr.perm)
      BY <3>1 DEF TransposeOK, TransposeAttrs
    <3>3. c.attr.perm[a] \in I32
      BY <1>1, <3>2
    <3> QED BY <3>3, AttrAssumption DEF I32
  <2>2. NormalizeAxis(c.attr.perm[a], n) \in 0 .. n - 1
    BY <1>1 DEF TransposeOK, AxisOK
  <2> QED BY <1>1, <2>1, <2>2, WrapIs DEF PermAxis
<1>4. ASSUME NEW z \in Cells(Src(c).shape) PROVE Shows(c, 1, z, y) <=> z = x
  <2>1. Shows(c, 1, z, y) <=> \A a \in Axes(Dst(c)) : y[a] = z[1 + Wrap(c.attr.perm[a], Rank(Src(c)))]
    BY DEF Shows
  <2>2. z \in [1 .. n -> Nat] /\ x \in [1 .. n -> Nat]
    BY <1>1, <1>2, CellIn DEF InCells, Taken
  <2>. HIDE DEF n, y
  <2>3. Shows(c, 1, z, y) <=> \A a \in 1 .. n : x[PermAxis(c, a)] = z[PermAxis(c, a)]
    BY <1>1, <1>2, <1>3, <2>1 DEF n
  <2>4. (\A a \in 1 .. n : x[PermAxis(c, a)] = z[PermAxis(c, a)]) <=> \A b \in 1 .. n : x[b] = z[b]
    BY <1>2
  <2>5. (\A b \in 1 .. n : x[b] = z[b]) <=> z = x
    BY <2>2, SameCell
  <2> QED BY <2>3, <2>4, <2>5
<1>5. LogicalOutput(c) = TransposeResult(c)
  BY DEF LogicalOutput
<1> QED BY <1>1, <1>2, <1>4, <1>5, OneSourceTaken

\* EXPAND (transform.rs:391).
LEMMA ExpandMoves ==
  ASSUME NEW c, c.in \in Seq(Views), c.out \in Seq(Views), c.op = "EXPAND", ExpandOK(c),
         NEW l \in Linears(Dst(c))
  PROVE  \E i, z : ShowsCell(c, i, z, l)
<1>. DEFINE n == Rank(Src(c))
            m == Rank(Dst(c))
            s == Src(c).shape
            y == Coordinates(Dst(c).shape, l)
<1>1. /\ 1 \in DOMAIN c.in /\ AllMetaOK(c) /\ Src(c) \in Views /\ Dst(c) \in Views
      /\ n \in Nat /\ Axes(Src(c)) = 1 .. n /\ s \in [1 .. n -> Nat] /\ Len(s) = n
      /\ m \in Nat /\ Len(Dst(c).shape) = m
  BY SourceAndResult DEF ExpandOK, OneToOne
<1>2. PICK x : Taken(c, ExpandResult(c), l, x) /\ x = Broadcast(Src(c), y)
  BY ExpandTaken
<1>3. Len(y) = m
  BY <1>1 DEF Coordinates
<1>4. ASSUME NEW a \in 1 .. n PROVE x[a] = IF s[a] = 1 THEN 0 ELSE y[a + m - n]
  <2>1. x[a] = IF s[a] = 1 THEN 0 ELSE y[m - n + a]
    BY <1>1, <1>2, <1>3 DEF Broadcast
  <2>2. m - n + a = a + m - n
    BY <1>1
  <2> QED BY <2>1, <2>2
<1>5. ASSUME NEW z \in Cells(s) PROVE Shows(c, 1, z, y) <=> z = x
  <2>1. Shows(c, 1, z, y) <=> \A a \in Axes(Src(c)) : s[a] = 1 \/ z[a] = y[a + Rank(Dst(c)) - Rank(Src(c))]
    BY DEF Shows
  <2>2. InCells(n, s, z)
    BY <1>1, CellIn
  <2>3. z \in [1 .. n -> Nat] /\ x \in [1 .. n -> Nat] /\ \A a \in 1 .. n : z[a] \in 0 .. s[a] - 1
    BY <1>2, <2>2 DEF InCells, Taken
  <2>. HIDE DEF n, m, y, s
  <2>4. ASSUME NEW a \in 1 .. n PROVE (s[a] = 1 \/ z[a] = y[a + m - n]) <=> x[a] = z[a]
    <3>1. CASE s[a] = 1
      <4>1. z[a] = 0
        BY <2>3, <3>1
      <4> QED BY <1>4, <3>1, <4>1
    <3>2. CASE s[a] # 1
      BY <1>4, <3>2
    <3> QED BY <3>1, <3>2
  <2>5. Shows(c, 1, z, y) <=> \A a \in 1 .. n : x[a] = z[a]
    BY <1>1, <2>1, <2>4 DEF n, m
  <2> QED BY <2>3, <2>5, SameCell
<1>6. LogicalOutput(c) = ExpandResult(c)
  BY DEF LogicalOutput
<1> QED BY <1>1, <1>2, <1>5, <1>6, OneSourceTaken

\* The place in a tile is the only one that a whole number of tiles away.
Away(y, z, s) == (y - z) % s = 0
\* That is the remainder by the extent of the tile.
LEMMA TilePlace ==
  ASSUME NEW y \in Nat, NEW s \in Nat, NEW z \in 0 .. s - 1
  PROVE  Away(y, z, s) <=> z = y % s
<1>1. s \in Nat \ {0} /\ z \in Nat
  OBVIOUS
<1>2. ASSUME Away(y, z, s) PROVE z = y % s
  <2>1. PICK d \in Int : d = y - z
    BY <1>1
  <2>2. PICK q \in Int, u \in Int, e \in 0 .. s - 1 : u = s * q /\ d = u + e /\ e = d % s
    BY <1>1, QuotientAndRemainder
  <2>3. e = 0
    BY <1>2, <2>1, <2>2 DEF Away
  <2>4. y = s * q + z
    BY <1>1, <2>1, <2>2, <2>3
  <2> QED BY <1>1, <2>4, RemainderUnique
<1>3. ASSUME z = y % s PROVE Away(y, z, s)
  <2>0. y \in Int
    OBVIOUS
  <2>1. PICK q \in Int, u \in Int, e \in 0 .. s - 1 : u = s * q /\ y = u + e /\ e = y % s
    BY ONLY <1>1, <2>0, QuotientAndRemainder
  <2>2. PICK d \in Int : d = y - z
    BY <1>1
  <2>3. d = s * q + 0
    <3>1. e = z
      BY <1>3, <2>1
    <3> QED BY ONLY <1>1, <2>0, <2>1, <2>2, <3>1
  <2>4. 0 \in 0 .. s - 1
    BY <1>1
  <2>5. d % s = 0
    BY <1>1, <2>3, <2>4, RemainderUnique
  <2> QED BY <2>2, <2>5 DEF Away
<1> QED BY <1>2, <1>3

\* TILE (transform.rs:440).
LEMMA TileMoves ==
  ASSUME NEW c, c.in \in Seq(Views), c.out \in Seq(Views), c.op = "TILE", TileOK(c),
         c.attr \in TileAttrs, c.attr.rank <= MaxDim => c.attr.rank <= Len(c.attr.repeats),
         NEW l \in Linears(Dst(c))
  PROVE  \E i, z : ShowsCell(c, i, z, l)
<1>. DEFINE n == Rank(Src(c))
            s == Src(c).shape
            y == Coordinates(Dst(c).shape, l)
<1>1. /\ 1 \in DOMAIN c.in /\ AllMetaOK(c) /\ Src(c) \in Views /\ Dst(c) \in Views
      /\ n \in Nat /\ Axes(Src(c)) = 1 .. n /\ s \in [1 .. n -> Nat] /\ Len(s) = n /\ Rank(Dst(c)) = n
  BY SourceAndResult DEF TileOK, OneToOne
<1>2. PICK x : Taken(c, TileResult(c), l, x) /\ x = [a \in Axes(Src(c)) |-> y[a] % s[a]]
  BY TileTaken
<1>3. y \in [1 .. n -> Nat]
  BY <1>1, ElementCoordinates
<1>4. ASSUME NEW z \in Cells(s) PROVE Shows(c, 1, z, y) <=> z = x
  <2>1. Shows(c, 1, z, y) <=> \A a \in Axes(Src(c)) : (y[a] - z[a]) % s[a] = 0
    BY DEF Shows
  <2>2. InCells(n, s, z)
    BY <1>1, CellIn
  <2>3. z \in [1 .. n -> Nat] /\ x \in [1 .. n -> Nat] /\ \A a \in 1 .. n : z[a] \in 0 .. s[a] - 1
    BY <1>2, <2>2 DEF InCells, Taken
  <2>. HIDE DEF n, y, s
  <2>4. ASSUME NEW a \in 1 .. n PROVE Away(y[a], z[a], s[a]) <=> x[a] = z[a]
    <3>1. y[a] \in Nat /\ s[a] \in Nat /\ z[a] \in 0 .. s[a] - 1
      BY <1>1, <1>3, <2>3
    <3>2. x[a] = y[a] % s[a]
      BY <1>1, <1>2
    <3>3. Away(y[a], z[a], s[a]) <=> z[a] = y[a] % s[a]
      BY <3>1, TilePlace
    <3> QED BY <3>2, <3>3
  <2>5. Shows(c, 1, z, y) <=> \A a \in 1 .. n : x[a] = z[a]
    BY <1>1, <2>1, <2>4 DEF Away
  <2> QED BY <2>3, <2>5, SameCell
<1>5. LogicalOutput(c) = TileResult(c)
  BY DEF LogicalOutput
<1> QED BY <1>1, <1>2, <1>4, <1>5, OneSourceTaken

\* CAST (transform.rs:480).
LEMMA CastMoves ==
  ASSUME NEW c, c.in \in Seq(Views), c.out \in Seq(Views), c.op = "CAST", CastOK(c),
         NEW l \in Linears(Dst(c))
  PROVE  \E i, z : ShowsCell(c, i, z, l)
<1>. DEFINE n == Rank(Src(c))
            y == Coordinates(Dst(c).shape, l)
            a == LogicalAddr(Src(c))[l]
            source == [k \in Linears(Dst(c)) |-> k]
            moved == Gathered(Src(c), source)
<1>1. /\ 1 \in DOMAIN c.in /\ AllMetaOK(c) /\ Src(c) \in Views /\ Dst(c) \in Views
      /\ Src(c) = c.in[1] /\ Dst(c) = c.out[1]
      /\ n \in Nat /\ Src(c).shape \in [1 .. n -> Nat] /\ Len(Src(c).shape) = n /\ Src(c).shape = Dst(c).shape
  BY SourceAndResult DEF CastOK
<1>2. l \in Linears(Src(c))
  BY <1>1 DEF Linears, Count
<1>3. y \in Cells(Src(c).shape) /\ RowMajor(Src(c).shape, y) = l
  BY <1>1, <1>2, SourceMeta, CellOfIndex
<1>4. DOMAIN moved = Linears(Dst(c)) /\ moved[l] = Moved(a)
  BY DEF Gathered
<1>5. LogicalOutput(c) = IF Src(c).dtype = Dst(c).dtype THEN moved
                         ELSE [k \in DOMAIN moved |->
                                 Term("cast", <<SizeOf(Src(c)), SizeOf(Dst(c))>>, moved[k].from)]
  BY DEF LogicalOutput, CastResult
<1>6. moved[l].from = <<a>>
  BY <1>4 DEF Moved, Term
<1>. HIDE DEF moved, source, a
<1>7. LogicalOutput(c)[l] = MovedValue(c, a)
  <2>1. CASE Src(c).dtype = Dst(c).dtype
    BY <1>1, <1>4, <1>5, <2>1 DEF MovedValue
  <2>2. CASE Src(c).dtype # Dst(c).dtype
    <3>1. LogicalOutput(c)[l] = Term("cast", <<SizeOf(Src(c)), SizeOf(Dst(c))>>, <<a>>)
      BY <1>4, <1>5, <1>6, <2>2
    <3> QED BY <1>1, <2>2, <3>1 DEF MovedValue
  <2> QED BY <2>1, <2>2
<1>8. InCells(n, Src(c).shape, y)
  BY <1>1, <1>3, CellIn
<1>9. ASSUME NEW z \in Cells(Src(c).shape) PROVE Shows(c, 1, z, y) <=> z = y
  BY DEF Shows
<1>10. LogicalOutput(c)[l] = MovedValue(c, LogicalAddr(Src(c))[RowMajor(Src(c).shape, y)])
  BY <1>3, <1>7 DEF a
<1>. HIDE DEF y
<1>11. ShowsOnly(c, y, l)
  BY <1>9 DEF y, ShowsOnly
<1>12. InCells(Rank(Src(c)), Src(c).shape, y)
  BY ONLY <1>8
<1>13. c.op # "CONCAT"
  OBVIOUS
<1>14. 1 \in DOMAIN c.in /\ AllMetaOK(c)
  BY ONLY <1>1
<1> QED BY ONLY c.in \in Seq(Views), <1>14, <1>10, <1>11, <1>12, <1>13, OneSource

\* COPY (transform.rs:360).
LEMMA CopyMoves ==
  ASSUME NEW c, c.in \in Seq(Views), c.out \in Seq(Views), c.op = "COPY", CopyOK(c),
         NEW l \in Linears(Dst(c))
  PROVE  \E i, z : ShowsCell(c, i, z, l)
<1>. DEFINE n == Rank(Src(c))
            m == Rank(Dst(c))
            y == Coordinates(Dst(c).shape, l)
            x == Coordinates(Src(c).shape, l)
            source == [k \in Linears(Dst(c)) |-> k]
<1>1. /\ 1 \in DOMAIN c.in /\ AllMetaOK(c) /\ Src(c) \in Views /\ Dst(c) \in Views
      /\ Dst(c) = c.out[1] /\ 1 \in DOMAIN c.out
      /\ n \in Nat /\ Src(c).shape \in [1 .. n -> Nat] /\ Len(Src(c).shape) = n
      /\ m \in Nat /\ Dst(c).shape \in [1 .. m -> Nat] /\ Len(Dst(c).shape) = m
      /\ Count(Src(c)) = Count(Dst(c))
  BY SourceAndResult DEF CopyOK
<1>2. MetaOK(Src(c)) /\ MetaOK(Dst(c)) /\ l \in Linears(Src(c))
  BY <1>1 DEF Linears, AllMetaOK, ViewsOf, Src
<1>3. /\ x \in Cells(Src(c).shape) /\ RowMajor(Src(c).shape, x) = l
      /\ y \in Cells(Dst(c).shape) /\ RowMajor(Dst(c).shape, y) = l
  BY <1>1, <1>2, CellOfIndex
<1>4. CopyResult(c) = Gathered(Src(c), source) /\ l \in DOMAIN source /\ source[l] = l
  BY DEF CopyResult
<1>. HIDE DEF source, x, y
<1>5. InCells(n, Src(c).shape, x)
  BY <1>1, <1>3, CellIn
<1>6. Taken(c, CopyResult(c), l, x)
  BY <1>3, <1>4, <1>5, GatheredTaken DEF InCells
<1>7. ASSUME NEW z \in Cells(Src(c).shape) PROVE Shows(c, 1, z, y) <=> z = x
  <2>1. Shows(c, 1, z, y) <=> CellsBefore(Src(c).shape, z) = CellsBefore(Dst(c).shape, y)
    BY DEF Shows
  <2>2. CellsBefore(Src(c).shape, z) = RowMajor(Src(c).shape, z)
    BY <1>1, CellsBeforeIs
  <2>3. CellsBefore(Dst(c).shape, y) = l
    BY <1>1, <1>3, CellsBeforeIs
  <2>4. Coordinates(Src(c).shape, RowMajor(Src(c).shape, z)) = z
    BY <1>1, <1>2, IndexOfCell
  <2> QED BY <1>3, <2>1, <2>2, <2>3, <2>4 DEF x
<1>8. LogicalOutput(c) = CopyResult(c)
  BY DEF LogicalOutput
<1> QED BY <1>1, <1>6, <1>7, <1>8, OneSourceTaken DEF y

(* --- gather and gather_elements ------------------------------------------------ *)
\* An axis of the attribute counts from the end as the kernel normalises it.
LEMMA AxisFrom ==
  ASSUME NEW c, NEW v, c.attr.axis \in I32, AxisOK(c.attr.axis, Rank(v))
  PROVE  AxisIn(c, v) = AxisOf(c, v)
<1>1. c.attr.axis \in Int
  BY AttrAssumption DEF I32
<1>2. Rank(v) \in Nat /\ NormalizeAxis(c.attr.axis, Rank(v)) \in 0 .. Rank(v) - 1
  BY DEF AxisOK
<1>3. Wrap(c.attr.axis, Rank(v)) = NormalizeAxis(c.attr.axis, Rank(v))
  BY <1>1, <1>2, WrapIs
<1> QED BY <1>2, <1>3 DEF AxisIn, AxisOf

\* The integer of a cell of the index tensor is the one its logical position
\* selects, and it is inside the buffer.
LEMMA IndexRead ==
  ASSUME NEW c, NEW v, v \in Views, v = c.in[2], MetaOK(v),
         v.dtype \in {"I32", "I64"}, NEW z \in Cells(v.shape)
  PROVE  /\ Indices(c, v)[RowMajor(v.shape, z)] = IntAt(c, z)
         /\ \E o \in 0 .. v.bytes \div SizeOf(v) - 1 : IntAt(c, z) = c.ints[o]
<1>. DEFINE n == Rank(v)
            l == RowMajor(v.shape, z)
<1>1. /\ n \in Nat /\ v.shape \in [1 .. n -> Nat] /\ Len(v.shape) = n /\ Axes(v) = 1 .. n
      /\ v.data \in Nat /\ v.bytes \in Nat
  BY ViewFacts DEF Rank
<1>2. /\ v.dtype \in DOMAIN ElementSize /\ SizeOf(v) \in Nat \ {0}
      /\ \A a \in Axes(v) : v.stride[a] % SizeOf(v) = 0
      /\ Count(v) # 0 => Reach(v)[Rank(v)] + SizeOf(v) <= v.bytes
  BY DEF MetaOK, SizeOf, ElementSize
<1>3. z \in [1 .. n -> Nat] /\ \A a \in 1 .. n : z[a] \in 0 .. v.shape[a] - 1
  BY <1>1, CellIn DEF InCells
<1>4. /\ l \in Linears(v) /\ Coordinates(v.shape, l) = z
  BY IndexOfCell
<1>. HIDE DEF l, n
<1>5. Indices(c, v)[l] = c.ints[Offset(v, z)]
  BY <1>4 DEF Indices
<1>6. /\ Offset(v, z) \in Nat /\ Reach(v)[Rank(v)] \in Nat
      /\ SizeOf(v) * Offset(v, z) <= Reach(v)[Rank(v)]
  <2>1. InShape(v.shape, z)
    BY <1>1, <1>3 DEF InShape, n
  <2> QED BY <1>2, <1>3, <2>1, OffsetInReach DEF n
<1>7. Count(v) # 0
  BY <1>4 DEF Linears
<1>8. At(v, z) = v.data + SizeOf(v) * Offset(v, z)
  BY <1>2, <1>3, OffsetToCell DEF n
<1>9. PICK s \in Nat \ {0}, o \in Nat, r \in Nat, d \in Nat, b \in Nat :
        s = SizeOf(v) /\ o = Offset(v, z) /\ r = Reach(v)[Rank(v)] /\ d = v.data /\ b = v.bytes
  BY <1>1, <1>2, <1>6
<1>10. s * o <= r /\ r + s <= b /\ At(v, z) = d + s * o
  BY <1>2, <1>6, <1>7, <1>8, <1>9
<1>11. PICK u \in Nat : u = s * o
  BY <1>9
<1>12. u = o * s + 0 /\ 0 \in 0 .. s - 1
  BY <1>9, <1>11
<1>13. u \div s = o
  BY <1>9, <1>12, LastDigit
<1>14. (At(v, z) - d) \div s = o
  <2>1. At(v, z) - d = u
    BY <1>9, <1>10, <1>11
  <2> QED BY <1>13, <2>1
<1>15. o \in 0 .. b \div s - 1
  <2>1. (o + 1) * s <= b
    BY <1>9, <1>10, <1>11
  <2>2. o < b \div s
    <3>1. b \div s \in Nat /\ b < (b \div s + 1) * s
      BY ONLY s \in Nat \ {0}, b \in Nat
    <3>2. PICK k \in Nat : k = b \div s
      BY <3>1
    <3>3. (o + 1) * s < (k + 1) * s
      BY <2>1, <3>1, <3>2
    <3>4. ~(k + 1 <= o + 1)
      <4>1. ASSUME k + 1 <= o + 1 PROVE (k + 1) * s <= (o + 1) * s
        BY ONLY <4>1, s \in Nat \ {0}, o \in Nat, k \in Nat
      <4> QED BY ONLY <3>3, <4>1, s \in Nat \ {0}, o \in Nat, k \in Nat
    <3> QED BY <3>2, <3>4, o \in Nat
  <2>3. b \div s \in Int
    BY s \in Nat \ {0}, b \in Nat
  <2> QED BY <2>2, <2>3, o \in Nat
<1>16. IntAt(c, z) = c.ints[o]
  BY <1>9, <1>14 DEF IntAt
<1>17. Indices(c, v)[l] = c.ints[o]
  BY <1>5, <1>9
<1>18. o \in 0 .. v.bytes \div SizeOf(v) - 1
  BY <1>9, <1>15
<1> QED BY <1>16, <1>17, <1>18 DEF l

\* Where the buffer holds integers, so does the cell.
LEMMA IndexIs ==
  ASSUME NEW c, NEW v, v \in Views, v = c.in[2], MetaOK(v),
         v.dtype \in {"I32", "I64"},
         \A i \in 0 .. v.bytes \div SizeOf(v) - 1 : c.ints[i] \in Int,
         NEW z \in Cells(v.shape)
  PROVE  /\ Indices(c, v)[RowMajor(v.shape, z)] = IntAt(c, z)
         /\ IntAt(c, z) \in Int
<1>1. PICK o \in 0 .. v.bytes \div SizeOf(v) - 1 : IntAt(c, z) = c.ints[o]
  BY IndexRead
<1>2. c.ints[o] \in Int
  OBVIOUS
<1> QED BY <1>1, <1>2, IndexRead

\* What both take of the index tensor: a position of the axis.
LEMMA SelectedIs ==
  ASSUME NEW c, NEW v, v \in Views, v = c.in[2], MetaOK(v),
         v.dtype \in {"I32", "I64"},
         \A i \in 0 .. v.bytes \div SizeOf(v) - 1 : c.ints[i] \in Int,
         NEW z \in Cells(v.shape), NEW n \in Nat,
         IndexOK(Indices(c, v)[RowMajor(v.shape, z)], n)
  PROVE  NormalizeIndex(Indices(c, v)[RowMajor(v.shape, z)], n) = Wrap(IntAt(c, z), n)
<1>1. PICK i \in Int : i = IntAt(c, z) /\ i = Indices(c, v)[RowMajor(v.shape, z)]
  BY IndexIs
<1>2. NormalizeAxis(i, n) = NormalizeIndex(i, n) /\ NormalizeIndex(i, n) \in 0 .. n - 1
  BY <1>1 DEF NormalizeAxis, NormalizeIndex, IndexOK
<1>3. Wrap(i, n) = NormalizeAxis(i, n)
  BY <1>2, WrapIs
<1> QED BY <1>1, <1>2, <1>3

\* GATHER_ELEMENTS (transform.rs:280).
LEMMA GatherElementsMoves ==
  ASSUME NEW c, c.in \in Seq(Views), c.out \in Seq(Views), c.op = "GATHER_ELEMENTS",
         GatherElementsOK(c), c.attr.axis \in I32,
         \A i \in 0 .. c.in[2].bytes \div SizeOf(c.in[2]) - 1 : c.ints[i] \in Int,
         NEW l \in Linears(Dst(c))
  PROVE  \E i, z : ShowsCell(c, i, z, l)
<1>. DEFINE n == Rank(Src(c))
            s == Src(c).shape
            v == c.in[2]
            axis == AxisOf(c, Src(c))
            y == Coordinates(Dst(c).shape, l)
<1>1. /\ 1 \in DOMAIN c.in /\ AllMetaOK(c) /\ Src(c) \in Views /\ Dst(c) \in Views
      /\ Dst(c) = c.out[1] /\ 1 \in DOMAIN c.out /\ 2 \in DOMAIN c.in
      /\ n \in Nat /\ Axes(Src(c)) = 1 .. n /\ s \in [1 .. n -> Nat] /\ Len(s) = n
      /\ Dst(c).shape = v.shape
  <2>1. ExpectIO(c, {2}, {1}) /\ AllMetaOK(c) /\ Dst(c).shape = v.shape
    BY DEF GatherElementsOK, GatherIO
  <2>2. {1} \subseteq Nat \ {0} /\ {2} \subseteq Nat \ {0}
    OBVIOUS
  <2>3. 2 \in DOMAIN c.in
    BY <2>1 DEF ExpectIO
  <2> QED BY <2>1, <2>2, <2>3, SourceAndResult
<1>2. /\ v \in Views /\ MetaOK(v) /\ MetaOK(Dst(c)) /\ v.dtype \in {"I32", "I64"}
  BY <1>1 DEF AllMetaOK, ViewsOf, GatherElementsOK, IndicesOK
<1>3. axis \in 1 .. n /\ AxisIn(c, Src(c)) = axis
  <2>1. AxisOK(c.attr.axis, n)
    BY DEF GatherElementsOK
  <2> QED BY <1>1, <2>1, AxisInside, AxisFrom DEF AxisOf
<1>4. PICK x : /\ Taken(c, GatherElementsResult(c), l, x)
               /\ x = [y EXCEPT ![axis] = NormalizeIndex(Indices(c, v)[l], s[axis])]
  BY GatherElementsTaken
<1>5. y \in Cells(v.shape) /\ RowMajor(v.shape, y) = l
  BY <1>1, <1>2, CellOfIndex
<1>6. IndexOK(Indices(c, v)[l], s[axis])
  BY DEF GatherElementsOK
<1>. HIDE DEF y, axis, v
<1>7. NormalizeIndex(Indices(c, v)[l], s[axis]) = Wrap(IntAt(c, y), s[axis])
  <2>1. PICK m \in Nat : m = s[axis]
    BY <1>1, <1>3
  <2>2. v = c.in[2] /\ \A i \in 0 .. v.bytes \div SizeOf(v) - 1 : c.ints[i] \in Int
    BY DEF v
  <2>3. IndexOK(Indices(c, v)[RowMajor(v.shape, y)], m)
    BY <1>5, <1>6, <2>1
  <2>4. NormalizeIndex(Indices(c, v)[RowMajor(v.shape, y)], m) = Wrap(IntAt(c, y), m)
    BY ONLY <1>2, <1>5, <2>2, <2>3, m \in Nat, SelectedIs
  <2> QED BY <1>5, <2>1, <2>4
<1>8. x \in [1 .. n -> Nat] /\ y \in [1 .. Rank(Dst(c)) -> Nat]
  BY <1>1, <1>4, ElementCoordinates DEF Taken, y
<1>9. DOMAIN y = 1 .. n /\ \A a \in 1 .. n : x[a] = IF a = axis THEN Wrap(IntAt(c, y), s[axis]) ELSE y[a]
  <2>1. DOMAIN x = DOMAIN y
    BY <1>4
  <2> QED BY <1>4, <1>7, <1>8, <2>1
<1>10. ASSUME NEW z \in Cells(s) PROVE Shows(c, 1, z, y) <=> z = x
  <2>1. Shows(c, 1, z, y) <=>
          /\ Agree(z, y, Axes(Src(c)) \ {AxisIn(c, Src(c))})
          /\ z[AxisIn(c, Src(c))] = Wrap(IntAt(c, y), Src(c).shape[AxisIn(c, Src(c))])
    BY DEF Shows
  <2>2. z \in [1 .. n -> Nat]
    BY <1>1, CellIn DEF InCells
  <2>. HIDE DEF n, s
  <2>3. Shows(c, 1, z, y) <=> /\ \A a \in 1 .. n \ {axis} : z[a] = y[a]
                              /\ z[axis] = Wrap(IntAt(c, y), s[axis])
    BY <1>1, <1>3, <2>1 DEF Agree, s
  <2>4. Shows(c, 1, z, y) <=> \A a \in 1 .. n : x[a] = z[a]
    BY <1>3, <1>9, <2>3
  <2> QED BY <1>8, <2>2, <2>4, SameCell
<1>11. LogicalOutput(c) = GatherElementsResult(c)
  BY DEF LogicalOutput
<1> QED BY <1>1, <1>4, <1>10, <1>11, OneSourceTaken DEF y

\* The part of the coordinates of GATHER's output that belongs to the index tensor
\* is one of its cells.
LEMMA IndexPartCell ==
  ASSUME NEW c, c.in \in Seq(Views), c.out \in Seq(Views), GatherOK(c), NEW l \in Linears(Dst(c))
  PROVE  IndexPart(c, Coordinates(Dst(c).shape, l)) \in Cells(c.in[2].shape)
<1>. DEFINE axis == AxisOf(c, Src(c))
            oc == Coordinates(Dst(c).shape, l)
            p == IndexPart(c, oc)
<1>1. /\ Src(c) \in Views /\ Dst(c) \in Views /\ Rank(Src(c)) \in Nat /\ c.in[2] \in Views
  <2>1. ExpectIO(c, {2}, {1}) /\ AllMetaOK(c)
    BY DEF GatherOK, GatherIO
  <2>2. {1} \subseteq Nat \ {0} /\ {2} \subseteq Nat \ {0}
    OBVIOUS
  <2>3. 2 \in DOMAIN c.in
    BY <2>1 DEF ExpectIO
  <2> QED BY <2>1, <2>2, <2>3, SourceAndResult
<1>2. axis \in 1 .. Rank(Src(c))
  BY <1>1, AxisInside DEF GatherOK, AxisOf
<1>3. PICK s \in Seq(Nat), t \in Seq(Nat) :
        /\ s = Src(c).shape /\ t = c.in[2].shape
        /\ Dst(c).shape = SubSeq(s, 1, axis - 1) \o t \o SubSeq(s, axis + 1, Rank(Src(c)))
  BY <1>1 DEF Views, GatherOK
<1>4. PICK n \in Nat, q \in Nat, b \in Nat :
        n = Rank(Src(c)) /\ q = Rank(c.in[2]) /\ b = axis /\ b >= 1 /\ b <= n /\ n = Len(s) /\ q = Len(t)
  <2>1. Rank(Src(c)) = Len(s) /\ Rank(c.in[2]) = Len(t)
    BY <1>3 DEF Rank
  <2>2. Len(s) \in Nat /\ Len(t) \in Nat
    BY ONLY s \in Seq(Nat), t \in Seq(Nat)
  <2>3. PICK n \in Nat : n = Rank(Src(c))
    BY <1>1
  <2>4. PICK b \in Nat : b = axis /\ b >= 1 /\ b <= n
    BY ONLY <1>2, <2>3
  <2> QED BY ONLY <2>1, <2>2, <2>3, <2>4, n \in Nat, b \in Nat
<1>. HIDE DEF axis
<1>5. /\ Rank(Dst(c)) = n + q - 1
      /\ \A i \in 1 .. q : Dst(c).shape[b + i - 1] = t[i]
  <2>1. Dst(c).shape = Spliced(s, axis, t) /\ axis \in 1 .. Len(s)
    BY <1>2, <1>3, <1>4 DEF Spliced
  <2>2. /\ Len(Spliced(s, axis, t)) = Len(s) + Len(t) - 1
        /\ \A i \in 1 .. Len(t) : Spliced(s, axis, t)[axis + i - 1] = t[i]
    BY <2>1, GatherShape
  <2> QED BY <1>4, <2>1, <2>2 DEF Rank
<1>6. /\ oc \in [1 .. n + q - 1 -> Nat] /\ Len(oc) = n + q - 1
      /\ \A a \in 1 .. n + q - 1 : oc[a] \in 0 .. Dst(c).shape[a] - 1
  <2>1. oc \in [1 .. Rank(Dst(c)) -> Nat] /\ \A a \in 1 .. Rank(Dst(c)) : oc[a] \in 0 .. Dst(c).shape[a] - 1
    BY <1>1, ElementCoordinates
  <2>. HIDE DEF oc
  <2>2. n + q - 1 \in Nat
    BY <1>4
  <2> QED BY <1>5, <2>1, <2>2
<1>7. p = SubSeq(oc, b, b + q - 1)
  BY <1>4 DEF IndexPart, axis
<1>. HIDE DEF oc, p
<1>8. p \in Seq(Nat) /\ Len(p) = q /\ \A i \in 1 .. q : p[i] = oc[b + i - 1]
  <2>1. \A i \in b .. b + q - 1 : oc[i] \in Nat
    BY <1>4, <1>6
  <2>2. /\ p \in Seq(Nat)
        /\ Len(p) = IF b <= b + q - 1 THEN b + q - 1 - b + 1 ELSE 0
        /\ \A i \in 1 .. b + q - 1 - b + 1 : p[i] = oc[b + i - 1]
    <3>1. b \in Int /\ b + q - 1 \in Int
      OBVIOUS
    <3> QED BY <1>7, <2>1, <3>1, SubSeqProperties
  <2>3. b + q - 1 - b + 1 = q /\ (b <= b + q - 1 \/ q = 0)
    BY <1>4
  <2> QED BY <2>2, <2>3
<1>9. \A i \in 1 .. q : p[i] \in 0 .. t[i] - 1
  <2>1. ASSUME NEW i \in 1 .. q PROVE p[i] \in 0 .. t[i] - 1
    <3>1. b + i - 1 \in 1 .. n + q - 1
      BY <1>4
    <3> QED BY <1>5, <1>6, <1>8, <3>1
  <2> QED BY <2>1
<1>10. p \in [1 .. q -> Nat] /\ t \in [1 .. q -> Nat]
  <2>1. p \in [1 .. Len(p) -> Nat] /\ t \in [1 .. Len(t) -> Nat]
    BY ONLY <1>8, t \in Seq(Nat)
  <2> QED BY ONLY <1>4, <1>8, <2>1
<1>11. InCells(q, t, p)
  BY <1>9, <1>10 DEF InCells
<1>12. p \in Cells(t)
  BY <1>4, <1>10, <1>11, CellIn
<1> QED BY <1>3, <1>12 DEF p, oc

\* GATHER (transform.rs:232).
LEMMA GatherMoves ==
  ASSUME NEW c, c.in \in Seq(Views), c.out \in Seq(Views), c.op = "GATHER",
         GatherOK(c), c.attr.axis \in I32,
         \A i \in 0 .. c.in[2].bytes \div SizeOf(c.in[2]) - 1 : c.ints[i] \in Int,
         NEW l \in Linears(Dst(c))
  PROVE  \E i, z : ShowsCell(c, i, z, l)
<1>. DEFINE n == Rank(Src(c))
            s == Src(c).shape
            v == c.in[2]
            q == Rank(v)
            axis == AxisOf(c, Src(c))
            y == Coordinates(Dst(c).shape, l)
            p == IndexPart(c, y)
<1>1. /\ 1 \in DOMAIN c.in /\ AllMetaOK(c) /\ Src(c) \in Views /\ 2 \in DOMAIN c.in
      /\ n \in Nat /\ Axes(Src(c)) = 1 .. n /\ s \in [1 .. n -> Nat] /\ Len(s) = n
  <2>1. ExpectIO(c, {2}, {1}) /\ AllMetaOK(c)
    BY DEF GatherOK, GatherIO
  <2>2. {1} \subseteq Nat \ {0} /\ {2} \subseteq Nat \ {0}
    OBVIOUS
  <2>3. 2 \in DOMAIN c.in
    BY <2>1 DEF ExpectIO
  <2> QED BY <2>1, <2>2, <2>3, SourceAndResult
<1>2. v \in Views /\ MetaOK(v) /\ v.dtype \in {"I32", "I64"}
  BY <1>1 DEF AllMetaOK, ViewsOf, GatherOK, IndicesOK
<1>3. axis \in 1 .. n /\ AxisIn(c, Src(c)) = axis
  <2>1. AxisOK(c.attr.axis, n)
    BY DEF GatherOK
  <2> QED BY <1>1, <2>1, AxisInside, AxisFrom DEF AxisOf
<1>4. PICK x : /\ Taken(c, GatherResult(c), l, x)
               /\ \A a \in 1 .. axis - 1 : x[a] = y[a]
               /\ x[axis] = NormalizeIndex(Selected(c, Indices(c, v), y), s[axis])
               /\ \A a \in axis + 1 .. n : x[a] = y[a + q - 1]
  <2>1. PICK x : GatherPlace(c, l, x)
    BY GatherTaken
  <2>2. /\ Taken(c, GatherResult(c), l, x)
        /\ \A a \in 1 .. axis - 1 : x[a] = y[a]
        /\ x[axis] = NormalizeIndex(Selected(c, Indices(c, v), y), s[axis])
        /\ \A a \in axis + 1 .. n : x[a] = y[a + q - 1]
    BY ONLY <2>1 DEF GatherPlace
  <2> QED BY ONLY <2>2, Zenon
<1>5. p \in Cells(v.shape) /\ p = SubSeq(y, axis, axis + q - 1)
  BY IndexPartCell DEF IndexPart
<1>6. /\ Selected(c, Indices(c, v), y) = Indices(c, v)[RowMajor(v.shape, p)]
      /\ IndexOK(Selected(c, Indices(c, v), y), s[axis])
  BY DEF GatherOK, Selected
<1>. HIDE DEF y, axis, v, p
<1>7. x[axis] = Wrap(IntAt(c, p), s[axis])
  <2>1. PICK m \in Nat : m = s[axis]
    BY <1>1, <1>3
  <2>2. v = c.in[2] /\ \A i \in 0 .. v.bytes \div SizeOf(v) - 1 : c.ints[i] \in Int
    BY DEF v
  <2>3. IndexOK(Indices(c, v)[RowMajor(v.shape, p)], m)
    BY <1>6, <2>1
  <2>4. NormalizeIndex(Indices(c, v)[RowMajor(v.shape, p)], m) = Wrap(IntAt(c, p), m)
    BY ONLY <1>2, <1>5, <2>2, <2>3, m \in Nat, SelectedIs
  <2> QED BY <1>4, <1>6, <2>1, <2>4
<1>8. x \in [1 .. n -> Nat]
  BY <1>4 DEF Taken
<1>9. ASSUME NEW z \in Cells(s) PROVE Shows(c, 1, z, y) <=> z = x
  <2>1. Shows(c, 1, z, y) <=>
          /\ Agree(z, y, 1 .. AxisIn(c, Src(c)) - 1)
          /\ z[AxisIn(c, Src(c))] =
               Wrap(IntAt(c, SubSeq(y, AxisIn(c, Src(c)), AxisIn(c, Src(c)) + Rank(c.in[2]) - 1)),
                    Src(c).shape[AxisIn(c, Src(c))])
          /\ \A a \in AxisIn(c, Src(c)) + 1 .. Rank(Src(c)) : z[a] = y[a + Rank(c.in[2]) - 1]
    BY DEF Shows
  <2>2. z \in [1 .. n -> Nat]
    BY <1>1, CellIn DEF InCells
  <2>. HIDE DEF n, s, q
  <2>3. Shows(c, 1, z, y) <=> /\ \A a \in 1 .. axis - 1 : z[a] = y[a]
                              /\ z[axis] = Wrap(IntAt(c, p), s[axis])
                              /\ \A a \in axis + 1 .. n : z[a] = y[a + q - 1]
    <3>1. SubSeq(y, AxisIn(c, Src(c)), AxisIn(c, Src(c)) + Rank(c.in[2]) - 1) = p
      BY <1>3, <1>5 DEF q, v
    <3> QED BY <1>3, <2>1, <3>1 DEF Agree, s, n, q, v
  <2>4. Shows(c, 1, z, y) <=> \A a \in 1 .. n : x[a] = z[a]
    <3>0. n \in Nat /\ axis \in 1 .. n
      BY <1>1, <1>3 DEF n
    <3>1. PICK b \in Nat, k \in Nat : b = axis /\ k = n /\ b \in 1 .. k
      BY ONLY <3>0
    <3>2. (\A a \in 1 .. k : x[a] = z[a]) <=>
             /\ \A a \in 1 .. b - 1 : x[a] = z[a]
             /\ x[b] = z[b]
             /\ \A a \in b + 1 .. k : x[a] = z[a]
      <4>1. \A a \in 1 .. k : a \in 1 .. b - 1 \/ a = b \/ a \in b + 1 .. k
        BY <3>1
      <4>2. \A a \in 1 .. b - 1 : a \in 1 .. k
        BY <3>1
      <4>3. \A a \in b + 1 .. k : a \in 1 .. k
        BY <3>1
      <4> QED BY ONLY <3>1, <4>1, <4>2, <4>3
    <3>3. Shows(c, 1, z, y) <=> /\ \A a \in 1 .. b - 1 : x[a] = z[a]
                                /\ x[b] = z[b]
                                /\ \A a \in b + 1 .. k : x[a] = z[a]
      BY <1>4, <1>7, <2>3, <3>1 DEF n, s, q
    <3> QED BY <3>1, <3>2, <3>3
  <2> QED BY <1>8, <2>2, <2>4, SameCell
<1>10. LogicalOutput(c) = GatherResult(c)
  BY DEF LogicalOutput
<1> QED BY <1>1, <1>4, <1>9, <1>10, OneSourceTaken DEF y

(* --- resize -------------------------------------------------------------------- *)
\* A product and a distance by name.
Times(j, q) == j * q
Distance(p, u) == IF u > p THEN u - p ELSE p - u

\* Multiples are a whole step apart.
LEMMA TimesStep ==
  ASSUME NEW j \in Int, NEW k \in Int, NEW q \in Nat \ {0}
  PROVE  /\ Times(j, q) \in Int /\ Times(k, q) \in Int
         /\ j < k => Times(j, q) + q <= Times(k, q)
<1>1. Times(j, q) \in Int /\ Times(k, q) \in Int
  BY DEF Times
<1>2. ASSUME j < k PROVE Times(j, q) + q <= Times(k, q)
  <2>1. PICK d \in Nat : k = j + 1 + d
    <3>1. k - j - 1 \in Nat /\ k = j + 1 + (k - j - 1)
      BY <1>2
    <3> QED BY <3>1
  <2>2. k * q = j * q + q + d * q
    BY <2>1
  <2>3. d * q \in Nat
    OBVIOUS
  <2>4. PICK u \in Int, v \in Int, w \in Nat : u = j * q /\ v = k * q /\ w = d * q
    BY <1>1, <2>3 DEF Times
  <2>5. u + q <= v
    BY ONLY <2>2, <2>4, u \in Int, v \in Int, w \in Nat, q \in Nat \ {0}
  <2> QED BY <2>4, <2>5 DEF Times
<1> QED BY <1>1, <1>2

\* What rounding up and down mean.
LEMMA CeilIs ==
  ASSUME NEW x \in Int, NEW y \in Nat \ {0}
  PROVE  /\ Ceil(<<x, y>>) \in Int
         /\ x <= Times(Ceil(<<x, y>>), y) /\ Times(Ceil(<<x, y>>), y) < x + y
<1>1. PICK q \in Int, u \in Int, e \in 0 .. y - 1 : u = y * q /\ -x = u + e /\ q = (-x) \div y
  <2>1. -x \in Int
    OBVIOUS
  <2>2. (-x) \div y \in Int /\ (-x) % y \in 0 .. y - 1 /\ -x = y * ((-x) \div y) + ((-x) % y)
    BY <2>1
  <2>3. PICK a \in Int, q \in Int, e \in 0 .. y - 1 : a = -x /\ q = (-x) \div y /\ e = (-x) % y
    BY ONLY <2>1, <2>2
  <2>4. a = y * q + e /\ y * q \in Int
    BY ONLY <2>2, <2>3, y \in Nat \ {0}, q \in Int
  <2>5. PICK u \in Int : u = y * q
    BY ONLY <2>4
  <2> QED BY <2>3, <2>4, <2>5
<1>2. Ceil(<<x, y>>) = -q
  BY <1>1 DEF Ceil
<1>3. Times(-q, y) = -u
  BY <1>1 DEF Times
<1>4. x <= -u /\ -u < x + y /\ -q \in Int
  BY ONLY <1>1, x \in Int, y \in Nat \ {0}, q \in Int, u \in Int, e \in 0 .. y - 1
<1> QED BY <1>2, <1>3, <1>4

\* The floor of a fraction, by its multiples.
LEMMA FloorIs ==
  ASSUME NEW x \in Int, NEW y \in Nat \ {0}
  PROVE  /\ Floor(<<x, y>>) \in Int
         /\ Times(Floor(<<x, y>>), y) <= x /\ x < Times(Floor(<<x, y>>), y) + y
<1>1. PICK q \in Int, u \in Int, e \in 0 .. y - 1 : u = y * q /\ x = u + e /\ q = x \div y
  <2>1. x \div y \in Int /\ x % y \in 0 .. y - 1 /\ x = y * (x \div y) + (x % y)
    OBVIOUS
  <2> QED BY <2>1
<1>2. Floor(<<x, y>>) = q
  BY <1>1 DEF Floor
<1>3. Times(q, y) = u
  BY <1>1 DEF Times
<1>4. u <= x /\ x < u + y
  BY ONLY <1>1, x \in Int, y \in Nat \ {0}, u \in Int, e \in 0 .. y - 1
<1> QED BY <1>2, <1>3, <1>4

\* Cell x is closer to p than cell j, or as close and not above it.
Closer(x, j, p, q) ==
  \/ Distance(p, Times(x, q)) < Distance(p, Times(j, q))
  \/ Distance(p, Times(x, q)) = Distance(p, Times(j, q)) /\ x <= j

\* Half a step around p decides which cell is the nearest.
LEMMA HalfStep ==
  ASSUME NEW p \in Int, NEW q \in Nat \ {0}, NEW n \in Nat, n >= 1, NEW k \in Int,
         2 * p - q <= 2 * Times(k, q), 2 * Times(k, q) < 2 * p + q,
         NEW j \in 0 .. n - 1
  PROVE  Closer(Clamp(k, n - 1), j, p, q)
<1>1. PICK u \in Int, v \in Int, b \in Int, m \in Nat :
        u = Times(k, q) /\ v = Times(j, q) /\ m = n - 1 /\ b = Times(m, q) /\ j \in Int /\ j >= 0 /\ j <= m
  <2>1. PICK m \in Nat : m = n - 1 /\ j \in Int /\ m \in Int /\ j >= 0 /\ j <= m
    <3>1. n - 1 \in Nat
      OBVIOUS
    <3> QED BY <3>1
  <2>2. Times(k, q) \in Int /\ Times(j, q) \in Int /\ Times(m, q) \in Int
    BY <2>1, TimesStep
  <2> QED BY ONLY <2>1, <2>2, m \in Nat
<1>2. Times(0, q) = 0 /\ 0 \in Int
  BY DEF Times
<1>3. CASE k < 0
  <2>1. Clamp(k, m) = 0
    BY <1>1, <1>3 DEF Clamp
  <2>2. u + q <= 0
    BY <1>1, <1>2, <1>3, TimesStep
  <2>3. CASE j = 0
    BY <1>1, <1>2, <2>1, <2>3 DEF Closer
  <2>4. CASE j > 0
    <3>1. 0 + q <= v
      BY <1>1, <1>2, <2>4, TimesStep
    <3>2. Distance(p, 0) < Distance(p, v)
      BY ONLY <1>1, <2>2, <3>1, p \in Int, q \in Nat \ {0}, u \in Int, v \in Int,
              2 * p - q <= 2 * Times(k, q), 2 * Times(k, q) < 2 * p + q DEF Distance
    <3> QED BY <1>1, <1>2, <2>1, <3>2 DEF Closer
  <2> QED BY <1>1, <2>3, <2>4
<1>4. CASE k > m
  <2>1. Clamp(k, m) = m
    BY <1>1, <1>4 DEF Clamp
  <2>2. b + q <= u
    BY <1>1, <1>4, TimesStep
  <2>3. CASE j = m
    BY <1>1, <2>1, <2>3 DEF Closer
  <2>4. CASE j < m
    <3>1. v + q <= b
      BY <1>1, <2>4, TimesStep
    <3>2. Distance(p, b) < Distance(p, v)
      BY ONLY <1>1, <2>2, <3>1, p \in Int, q \in Nat \ {0}, u \in Int, v \in Int, b \in Int,
              2 * p - q <= 2 * Times(k, q), 2 * Times(k, q) < 2 * p + q DEF Distance
    <3> QED BY <1>1, <2>1, <3>2 DEF Closer
  <2> QED BY <1>1, <2>3, <2>4
<1>5. CASE ~(k < 0) /\ ~(k > m)
  <2>1. Clamp(k, m) = k
    BY <1>1, <1>5 DEF Clamp
  <2>2. CASE j = k
    BY <1>1, <2>1, <2>2 DEF Closer
  <2>3. CASE j < k
    <3>1. v + q <= u
      BY <1>1, <2>3, TimesStep
    <3>2. Distance(p, u) < Distance(p, v)
      BY ONLY <1>1, <3>1, p \in Int, q \in Nat \ {0}, u \in Int, v \in Int,
              2 * p - q <= 2 * Times(k, q), 2 * Times(k, q) < 2 * p + q DEF Distance
    <3> QED BY <1>1, <2>1, <3>2 DEF Closer
  <2>4. CASE k < j
    <3>1. u + q <= v
      BY <1>1, <2>4, TimesStep
    <3>2. Distance(p, u) < Distance(p, v) \/ Distance(p, u) = Distance(p, v)
      BY ONLY <1>1, <3>1, p \in Int, q \in Nat \ {0}, u \in Int, v \in Int,
              2 * p - q <= 2 * Times(k, q), 2 * Times(k, q) < 2 * p + q DEF Distance
    <3> QED BY <1>1, <2>1, <2>4, <3>2 DEF Closer
  <2> QED BY <1>1, <2>2, <2>3, <2>4
<1> QED BY <1>1, <1>3, <1>4, <1>5

\* The cell at or below p, and the one at or above it, as far as the axis goes.
AtOrBelow(x, p, q, n) ==
  (Times(x, q) <= p \/ x = 0) /\ (Times(x + 1, q) > p \/ x = n - 1)
AtOrAbove(x, p, q, n) ==
  (Times(x, q) >= p \/ x = n - 1) /\ (Times(x - 1, q) < p \/ x = 0)

\* The largest multiple that is not above p, clamped to the axis, is such a cell below.
LEMMA FloorTaken ==
  ASSUME NEW p \in Int, NEW q \in Nat \ {0}, NEW n \in Nat, n >= 1, NEW k \in Int,
         Times(k, q) <= p, p < Times(k, q) + q
  PROVE  AtOrBelow(Clamp(k, n - 1), p, q, n)
<1>1. PICK u \in Int, m \in Nat : u = Times(k, q) /\ m = n - 1
  BY TimesStep
<1>2. Times(0, q) = 0 /\ 0 \in Int /\ 1 \in Int /\ 0 + 1 = 1 /\ Times(1, q) = q
  BY DEF Times
<1>3. CASE k < 0
  <2>1. Clamp(k, m) = 0
    BY <1>1, <1>3 DEF Clamp
  <2>2. u + q <= 0
    BY <1>1, <1>2, <1>3, TimesStep
  <2>3. q > p
    BY ONLY <1>1, <2>2, p \in Int, q \in Nat \ {0}, u \in Int, p < Times(k, q) + q
  <2> QED BY <1>1, <1>2, <2>1, <2>3 DEF AtOrBelow
<1>4. CASE k > m
  <2>1. Clamp(k, m) = m
    BY <1>1, <1>4 DEF Clamp
  <2>2. Times(m, q) \in Int /\ Times(m, q) + q <= u
    BY <1>1, <1>4, TimesStep
  <2>3. Times(m, q) <= p
    BY ONLY <1>1, <2>2, p \in Int, q \in Nat \ {0}, u \in Int, Times(k, q) <= p
  <2> QED BY <1>1, <2>1, <2>3 DEF AtOrBelow
<1>5. CASE ~(k < 0) /\ ~(k > m)
  <2>1. Clamp(k, m) = k
    BY <1>1, <1>5 DEF Clamp
  <2>2. Times(k + 1, q) = Times(k, q) + q
    BY DEF Times
  <2> QED BY <1>1, <2>1, <2>2 DEF AtOrBelow
<1> QED BY <1>1, <1>3, <1>4, <1>5

\* The smallest multiple that is not below p, clamped, is such a cell above.
LEMMA CeilTaken ==
  ASSUME NEW p \in Int, NEW q \in Nat \ {0}, NEW n \in Nat, n >= 1, NEW k \in Int,
         p <= Times(k, q), Times(k, q) < p + q
  PROVE  AtOrAbove(Clamp(k, n - 1), p, q, n)
<1>1. PICK u \in Int, m \in Nat : u = Times(k, q) /\ m = n - 1
  BY TimesStep
<1>2. Times(0, q) = 0 /\ 0 \in Int
  BY DEF Times
<1>3. CASE k < 0
  <2>1. Clamp(k, m) = 0
    BY <1>1, <1>3 DEF Clamp
  <2>2. u + q <= 0
    BY <1>1, <1>2, <1>3, TimesStep
  <2>3. 0 >= p
    BY ONLY <1>1, <2>2, p \in Int, q \in Nat \ {0}, u \in Int, p <= Times(k, q)
  <2> QED BY <1>1, <1>2, <2>1, <2>3 DEF AtOrAbove
<1>4. CASE k > m
  <2>1. Clamp(k, m) = m
    BY <1>1, <1>4 DEF Clamp
  <2>2. Times(m - 1, q) \in Int /\ Times(m - 1, q) + q <= Times(m, q)
    <3>1. m - 1 \in Int /\ m \in Int /\ m - 1 < m
      OBVIOUS
    <3> QED BY <3>1, TimesStep
  <2>3. Times(m, q) \in Int /\ Times(m, q) + q <= u
    BY <1>1, <1>4, TimesStep
  <2>4. Times(m - 1, q) < p
    BY ONLY <1>1, <2>2, <2>3, p \in Int, q \in Nat \ {0}, u \in Int, Times(k, q) < p + q
  <2> QED BY <1>1, <2>1, <2>4 DEF AtOrAbove
<1>5. CASE ~(k < 0) /\ ~(k > m)
  <2>1. Clamp(k, m) = k
    BY <1>1, <1>5 DEF Clamp
  <2>2. Times(k - 1, q) = Times(k, q) - q
    BY DEF Times
  <2>3. Times(k - 1, q) < p
    BY ONLY <1>1, <2>2, p \in Int, q \in Nat \ {0}, u \in Int, Times(k, q) < p + q
  <2> QED BY <1>1, <2>1, <2>3 DEF AtOrAbove
<1> QED BY <1>1, <1>3, <1>4, <1>5

\* There is only one of each.
LEMMA OnlyBelow ==
  ASSUME NEW p \in Int, NEW q \in Nat \ {0}, NEW n \in Nat, NEW x \in 0 .. n - 1, NEW z \in 0 .. n - 1,
         AtOrBelow(x, p, q, n), AtOrBelow(z, p, q, n)
  PROVE  ~(x < z)
<1>1. SUFFICES ASSUME x < z PROVE FALSE
  OBVIOUS
<1>2. Times(x + 1, q) > p /\ Times(z, q) <= p
  BY <1>1 DEF AtOrBelow
<1>3. PICK a \in Int, b \in Int : a = x + 1 /\ b = z /\ (a < b \/ a = b)
  BY <1>1
<1>4. Times(a, q) \in Int /\ Times(b, q) \in Int /\ (a < b => Times(a, q) + q <= Times(b, q))
  BY TimesStep
<1>5. Times(a, q) <= Times(b, q)
  BY <1>3, <1>4
<1> QED BY <1>2, <1>3, <1>4, <1>5

\* No two cells are such cells above.
LEMMA OnlyAbove ==
  ASSUME NEW p \in Int, NEW q \in Nat \ {0}, NEW n \in Nat, NEW x \in 0 .. n - 1, NEW z \in 0 .. n - 1,
         AtOrAbove(x, p, q, n), AtOrAbove(z, p, q, n)
  PROVE  ~(x < z)
<1>1. SUFFICES ASSUME x < z PROVE FALSE
  OBVIOUS
<1>2. Times(x, q) >= p /\ Times(z - 1, q) < p
  BY <1>1 DEF AtOrAbove
<1>3. PICK a \in Int, b \in Int : a = x /\ b = z - 1 /\ (a < b \/ a = b)
  BY <1>1
<1>4. Times(a, q) \in Int /\ Times(b, q) \in Int /\ (a < b => Times(a, q) + q <= Times(b, q))
  BY TimesStep
<1>5. Times(a, q) <= Times(b, q)
  BY <1>3, <1>4
<1> QED BY <1>2, <1>3, <1>4, <1>5

\* The position RESIZE takes is the one its rounding mode names.
LEMMA NearestIs ==
  ASSUME NEW c, c.attr.nearest_mode \in 0 .. 2, NEW p \in Int, NEW q \in Nat \ {0},
         NEW n \in Nat, n >= 1, NEW x \in 0 .. n - 1
  PROVE  TakenFor(c, x, p, q, n) <=> x = Nearest(c, <<p, q>>, n)
<1>. DEFINE z == Nearest(c, <<p, q>>, n)
<1>1. z \in 0 .. n - 1
  BY NearestInside
<1>2. <<p, q>>[1] = p /\ <<p, q>>[2] = q
  OBVIOUS
<1>3. CASE c.attr.nearest_mode = 0
  <2>1. PICK a \in Int, b \in Nat \ {0} : a = 2 * p - q /\ b = 2 * q
    <3>1. 2 * p - q \in Int /\ 2 * q \in Nat \ {0}
      OBVIOUS
    <3> QED BY ONLY <3>1
  <2>2. PICK k \in Int : k = Ceil(<<a, b>>) /\ a <= Times(k, b) /\ Times(k, b) < a + b
    BY CeilIs
  <2>3. Times(k, b) = 2 * Times(k, q) /\ Times(k, q) \in Int
    BY <2>1 DEF Times
  <2>4. 2 * p - q <= 2 * Times(k, q) /\ 2 * Times(k, q) < 2 * p + q
    <3>1. PICK u \in Int : u = Times(k, q)
      BY <2>3
    <3> QED BY ONLY <2>1, <2>2, <2>3, <3>1, p \in Int, q \in Nat \ {0}, a \in Int, b \in Nat \ {0}
  <2>5. z = Clamp(k, n - 1)
    BY <1>2, <1>3, <2>1, <2>2 DEF Nearest
  <2>6. ASSUME NEW j \in 0 .. n - 1 PROVE Closer(z, j, p, q)
    BY <2>4, <2>5, HalfStep
  <2>. HIDE DEF z
  <2>7. TakenFor(c, x, p, q, n) <=> \A j \in 0 .. n - 1 : Closer(x, j, p, q)
    BY <1>3 DEF TakenFor, Closer, Distance, Times
  <2>8. ASSUME \A j \in 0 .. n - 1 : Closer(x, j, p, q) PROVE x = z
    <3>1. Closer(x, z, p, q) /\ Closer(z, x, p, q)
      BY <1>1, <2>6, <2>8
    <3>2. PICK d \in Int, e \in Int : d = Distance(p, Times(x, q)) /\ e = Distance(p, Times(z, q))
      <4>1. Times(x, q) \in Int /\ Times(z, q) \in Int
        BY <1>1 DEF Times
      <4> QED BY <4>1 DEF Distance
    <3> QED BY <1>1, <3>1, <3>2 DEF Closer
  <2> QED BY <2>6, <2>7, <2>8 DEF z
<1>4. CASE c.attr.nearest_mode = 1
  <2>1. PICK k \in Int : k = Floor(<<p, q>>) /\ Times(k, q) <= p /\ p < Times(k, q) + q
    BY FloorIs
  <2>2. z = Clamp(k, n - 1)
    BY <1>2, <1>4, <2>1 DEF Nearest
  <2>3. AtOrBelow(z, p, q, n)
    BY <2>1, <2>2, FloorTaken
  <2>. HIDE DEF z
  <2>4. TakenFor(c, x, p, q, n) <=> AtOrBelow(x, p, q, n)
    BY <1>4 DEF TakenFor, Below, AtOrBelow, Times
  <2>5. ASSUME AtOrBelow(x, p, q, n) PROVE x = z
    <3>1. ~(x < z) /\ ~(z < x)
      BY <1>1, <2>3, <2>5, OnlyBelow
    <3> QED BY <1>1, <3>1
  <2> QED BY <2>3, <2>4, <2>5 DEF z
<1>5. CASE c.attr.nearest_mode = 2
  <2>1. PICK k \in Int : k = Ceil(<<p, q>>) /\ p <= Times(k, q) /\ Times(k, q) < p + q
    BY CeilIs
  <2>2. z = Clamp(k, n - 1)
    BY <1>2, <1>5, <2>1 DEF Nearest
  <2>3. AtOrAbove(z, p, q, n)
    BY <2>1, <2>2, CeilTaken
  <2>. HIDE DEF z
  <2>4. TakenFor(c, x, p, q, n) <=> AtOrAbove(x, p, q, n)
    BY <1>5 DEF TakenFor, AtOrAbove, Times
  <2>5. ASSUME AtOrAbove(x, p, q, n) PROVE x = z
    <3>1. ~(x < z) /\ ~(z < x)
      BY <1>1, <2>3, <2>5, OnlyAbove
    <3> QED BY <1>1, <3>1
  <2> QED BY <2>3, <2>4, <2>5 DEF z
<1> QED BY <1>3, <1>4, <1>5

\* The code computes the exact position, whatever the coordinate mode.
HasPosition(c, y, n, m) ==
  \E u \in Int, w \in Nat \ {0} :
    /\ ExactPosition(c, y, n, m) = [p |-> u, q |-> w]
    /\ SourceCoordinate(c, y, n, m) = <<u, w>>
LEMMA ExactPositionIs ==
  ASSUME NEW c, c.attr.coordinate_mode \in 0 .. 2,
         NEW n \in Nat, n >= 1, NEW m \in Nat, m >= 1, NEW y \in Nat
  PROVE  HasPosition(c, y, n, m)
<1>1. CASE c.attr.coordinate_mode = 0
  <2>1. (2 * y + 1) * n - m \in Int /\ 2 * m \in Nat \ {0}
    OBVIOUS
  <2> QED BY ONLY <1>1, <2>1 DEF SourceCoordinate, ExactPosition, HasPosition
<1>2. CASE c.attr.coordinate_mode = 1
  <2>1. y * n \in Int /\ m \in Nat \ {0}
    OBVIOUS
  <2> QED BY ONLY <1>2, <2>1 DEF SourceCoordinate, ExactPosition, HasPosition
<1>3. CASE c.attr.coordinate_mode = 2 /\ m = 1
  <2>1. SourceCoordinate(c, y, n, m) = <<0, 1>> /\ ExactPosition(c, y, n, m) = [p |-> 0, q |-> 1]
    BY ONLY <1>3 DEF SourceCoordinate, ExactPosition, HasPosition
  <2>2. 0 \in Int /\ 1 \in Nat \ {0}
    OBVIOUS
  <2> QED BY ONLY <2>1, <2>2 DEF HasPosition
<1>4. CASE c.attr.coordinate_mode = 2 /\ m # 1
  <2>1. y * (n - 1) \in Int /\ m - 1 \in Nat \ {0} /\ m > 1
    BY <1>4
  <2> QED BY ONLY <1>4, <2>1 DEF SourceCoordinate, ExactPosition, HasPosition
<1> QED BY <1>1, <1>2, <1>3, <1>4

\* So the cell it takes is the one for that position.
LEMMA ResizedFromIs ==
  ASSUME NEW c, c.attr.nearest_mode \in 0 .. 2, c.attr.coordinate_mode \in 0 .. 2,
         NEW n \in Nat, n >= 1, NEW m \in Nat, m >= 1, NEW x \in 0 .. n - 1, NEW y \in Nat
  PROVE  ResizedFrom(c, x, y, n, m) <=> x = Nearest(c, SourceCoordinate(c, y, n, m), n)
<1>. HasPosition(c, y, n, m)
  BY ExactPositionIs
<1>1. PICK u \in Int, w \in Nat \ {0} :
        /\ ExactPosition(c, y, n, m) = [p |-> u, q |-> w]
        /\ SourceCoordinate(c, y, n, m) = <<u, w>>
  BY DEF HasPosition
<1>2. ResizedFrom(c, x, y, n, m) <=> TakenFor(c, x, u, w, n)
  BY <1>1 DEF ResizedFrom
<1> QED BY <1>1, <1>2, NearestIs

\* The linear index of a cell of four coordinates.
LEMMA RowMajorOfFour ==
  ASSUME NEW shape \in [1 .. 4 -> Nat], Len(shape) = 4, NEW x \in [1 .. 4 -> Nat]
  PROVE  RowMajor(shape, x) =
           ((x[1] * shape[2] + x[2]) * shape[3] + x[3]) * shape[4] + x[4]
<1>. DEFINE a == x[1]
            b == a * shape[2] + x[2]
            d == b * shape[3] + x[3]
            e == d * shape[4] + x[4]
            r == [i \in 0 .. 4 |-> IF i = 0 THEN 0 ELSE IF i = 1 THEN a ELSE IF i = 2 THEN b
                                   ELSE IF i = 3 THEN d ELSE e]
<1>1. a \in Nat /\ b \in Nat /\ d \in Nat /\ e \in Nat
  <2>1. /\ shape[1] \in Nat /\ shape[2] \in Nat /\ shape[3] \in Nat /\ shape[4] \in Nat
        /\ x[1] \in Nat /\ x[2] \in Nat /\ x[3] \in Nat /\ x[4] \in Nat
    OBVIOUS
  <2>2. a \in Nat /\ b \in Nat
    BY <2>1
  <2>. HIDE DEF b
  <2>3. d \in Nat
    BY <2>1, <2>2
  <2>. HIDE DEF d
  <2> QED BY <2>1, <2>2, <2>3
<1>2. /\ r[0] = 0 /\ r[1] = a /\ r[2] = r[1] * shape[2] + x[2]
      /\ r[3] = r[2] * shape[3] + x[3] /\ r[4] = r[3] * shape[4] + x[4]
  OBVIOUS
<1>3. r \in [0 .. 4 -> Int]
  <2>. HIDE DEF a, b, d, e
  <2> QED BY <1>1
<1>4. r[4] = e
  OBVIOUS
<1>. HIDE DEF r, b, d, e
<1>5. r[1] = r[0] * shape[1] + x[1]
  BY <1>1, <1>2
<1>6. RowSteps(4, shape, x, r)
  <2>1. ASSUME NEW i \in 1 .. 4 PROVE r[i] = r[i-1] * shape[i] + x[i]
    <3>1. (i = 1 /\ i - 1 = 0) \/ (i = 2 /\ i - 1 = 1) \/ (i = 3 /\ i - 1 = 2) \/ (i = 4 /\ i - 1 = 3)
      OBVIOUS
    <3> QED BY <1>2, <1>5, <3>1
  <2> QED BY <1>2, <1>3, <2>1 DEF RowSteps
<1>7. RowMajor(shape, x) = r[4]
  BY <1>6, RowMajorIs
<1> QED BY <1>4, <1>7 DEF e, d, b

\* RESIZE without interpolation (transform.rs:520).
LEMMA ResizeMoves ==
  ASSUME NEW c, c.in \in Seq(Views), c.out \in Seq(Views), c.op = "RESIZE", ResizeOK(c),
         ~ResizePanics(c), c.attr.mode = 0, NEW l \in Linears(Dst(c))
  PROVE  \E i, z : ShowsCell(c, i, z, l)
<1>. DEFINE is == Src(c).shape
            os == Dst(c).shape
            y == Coordinates(os, l)
            v == Nearest(c, SourceCoordinate(c, y[3], is[3], os[3]), is[3])
            u == Nearest(c, SourceCoordinate(c, y[4], is[4], os[4]), is[4])
            x == <<y[1], y[2], v, u>>
<1>1. /\ 1 \in DOMAIN c.in /\ Src(c) \in Views /\ Dst(c) \in Views /\ AllMetaOK(c)
      /\ Rank(Src(c)) = 4 /\ Rank(Dst(c)) = 4 /\ Src(c) = c.in[1]
      /\ y \in [1 .. 4 -> Nat]
      /\ \A a \in 1 .. 4 : /\ is[a] \in Nat /\ is[a] >= 1 /\ os[a] \in Nat /\ os[a] >= 1
      /\ y[1] \in 0 .. is[1] - 1 /\ y[2] \in 0 .. is[2] - 1
      /\ IsFraction(SourceCoordinate(c, y[3], is[3], os[3]))
      /\ IsFraction(SourceCoordinate(c, y[4], is[4], os[4]))
  BY ResizeFacts
<1>2. is \in [1 .. 4 -> Nat] /\ Len(is) = 4
  BY <1>1, ViewFacts DEF Rank
<1>. HIDE DEF y
<1>3. /\ is[3] \in Nat /\ is[3] >= 1 /\ is[4] \in Nat /\ is[4] >= 1
      /\ os[3] \in Nat /\ os[3] >= 1 /\ os[4] \in Nat /\ os[4] >= 1
      /\ y[1] \in Nat /\ y[2] \in Nat /\ y[3] \in Nat /\ y[4] \in Nat
  BY <1>1
<1>4. v \in 0 .. is[3] - 1 /\ u \in 0 .. is[4] - 1
  <2>1. PICK n \in Int, d \in Nat \ {0} : SourceCoordinate(c, y[3], is[3], os[3]) = <<n, d>>
    BY ONLY <1>1 DEF IsFraction
  <2>2. PICK m \in Int, e \in Nat \ {0} : SourceCoordinate(c, y[4], is[4], os[4]) = <<m, e>>
    BY ONLY <1>1 DEF IsFraction
  <2>3. /\ Nearest(c, <<n, d>>, is[3]) \in 0 .. is[3] - 1
        /\ Nearest(c, <<m, e>>, is[4]) \in 0 .. is[4] - 1
    BY ONLY <1>3, n \in Int, d \in Nat \ {0}, m \in Int, e \in Nat \ {0}, NearestInside
  <2> QED BY ONLY <2>1, <2>2, <2>3
<1>5. /\ c.attr.nearest_mode \in 0 .. 2 /\ c.attr.coordinate_mode \in 0 .. 2
  BY DEF ResizeOK
<1>6. /\ x[1] = y[1] /\ x[2] = y[2] /\ x[3] = v /\ x[4] = u
      /\ x \in [1 .. 4 -> Nat] /\ \A a \in 1 .. 4 : x[a] \in 0 .. is[a] - 1
  <2>1. PICK e \in Nat, f \in Nat, g \in Nat, h \in Nat : e = y[1] /\ f = y[2] /\ g = v /\ h = u
    <3>1. v \in Nat /\ u \in Nat
      BY <1>3, <1>4
    <3> QED BY <1>3, <3>1
  <2>2. <<e, f, g, h>> \in [1 .. 4 -> Nat]
    OBVIOUS
  <2>. HIDE DEF v, u
  <2>3. x = <<e, f, g, h>>
    BY <2>1
  <2>4. x[1] = e /\ x[2] = f /\ x[3] = g /\ x[4] = h
    BY ONLY <2>3
  <2>. HIDE DEF x
  <2>5. ASSUME NEW a \in 1 .. 4 PROVE x[a] \in 0 .. is[a] - 1
    <3>1. a = 1 \/ a = 2 \/ a = 3 \/ a = 4
      OBVIOUS
    <3> QED BY <1>1, <1>4, <2>1, <2>4, <3>1
  <2> QED BY <2>1, <2>2, <2>3, <2>4, <2>5
<1>7. RowMajor(is, x) = ((y[1] * is[2] + y[2]) * is[3] + v) * is[4] + u
  <2>1. RowMajor(is, x) = ((x[1] * is[2] + x[2]) * is[3] + x[3]) * is[4] + x[4]
    <3>. HIDE DEF x, is
    <3> QED BY ONLY <1>2, <1>6, RowMajorOfFour
  <2>. HIDE DEF x, v, u
  <2> QED BY <1>6, <2>1
<1>8. ResizeResult(c)[l] =
        Moved(LogicalAddr(Src(c))[((y[1] * is[2] + y[2]) * is[3] + v) * is[4] + u])
  BY DEF ResizeResult, y
<1>. HIDE DEF v, u, x
<1>9. Taken(c, ResizeResult(c), l, x)
  BY <1>1, <1>6, <1>7, <1>8 DEF Taken
<1>10. ASSUME NEW z \in Cells(is) PROVE Shows(c, 1, z, y) <=> z = x
  <2>1. Shows(c, 1, z, y) <=>
          /\ Agree(z, y, {1, 2})
          /\ \A a \in {3, 4} : ResizedFrom(c, z[a], y[a], Src(c).shape[a], Dst(c).shape[a])
    BY DEF Shows
  <2>2. z \in [1 .. 4 -> Nat] /\ z[3] \in 0 .. is[3] - 1 /\ z[4] \in 0 .. is[4] - 1
    <3>1. InCells(4, is, z)
      <4>. HIDE DEF is
      <4>1. 4 \in Nat
        OBVIOUS
      <4> QED BY ONLY <1>2, <4>1, z \in Cells(is), CellIn
    <3> QED BY ONLY <3>1 DEF InCells
  <2>3. ResizedFrom(c, z[3], y[3], is[3], os[3]) <=> z[3] = v
    <3>1. PICK n \in Nat, m \in Nat, k \in Nat, e \in Nat :
            n = is[3] /\ m = os[3] /\ k = y[3] /\ e = z[3] /\ n >= 1 /\ m >= 1 /\ e \in 0 .. n - 1
      BY ONLY <1>3, <2>2
    <3>2. ResizedFrom(c, e, k, n, m) <=> e = Nearest(c, SourceCoordinate(c, k, n, m), n)
      BY ONLY <1>5, <3>1, n \in Nat, m \in Nat, k \in Nat, ResizedFromIs
    <3> QED BY ONLY <3>1, <3>2 DEF v
  <2>4. ResizedFrom(c, z[4], y[4], is[4], os[4]) <=> z[4] = u
    <3>1. PICK n \in Nat, m \in Nat, k \in Nat, e \in Nat :
            n = is[4] /\ m = os[4] /\ k = y[4] /\ e = z[4] /\ n >= 1 /\ m >= 1 /\ e \in 0 .. n - 1
      BY ONLY <1>3, <2>2
    <3>2. ResizedFrom(c, e, k, n, m) <=> e = Nearest(c, SourceCoordinate(c, k, n, m), n)
      BY ONLY <1>5, <3>1, n \in Nat, m \in Nat, k \in Nat, ResizedFromIs
    <3> QED BY ONLY <3>1, <3>2 DEF u
  <2>5. Shows(c, 1, z, y) <=> z[1] = x[1] /\ z[2] = x[2] /\ z[3] = x[3] /\ z[4] = x[4]
    <3>1. Agree(z, y, {1, 2}) <=> z[1] = y[1] /\ z[2] = y[2]
      BY DEF Agree
    <3>2. (\A a \in {3, 4} : ResizedFrom(c, z[a], y[a], Src(c).shape[a], Dst(c).shape[a]))
            <=> /\ ResizedFrom(c, z[3], y[3], is[3], os[3])
                /\ ResizedFrom(c, z[4], y[4], is[4], os[4])
      OBVIOUS
    <3> QED BY ONLY <1>6, <2>1, <2>3, <2>4, <3>1, <3>2
  <2>6. Shows(c, 1, z, y) <=> \A a \in 1 .. 4 : x[a] = z[a]
    <3>1. 1 .. 4 = {1, 2, 3, 4}
      OBVIOUS
    <3> QED BY ONLY <2>5, <3>1
  <2> QED BY <1>6, <2>2, <2>6, SameCell
<1>11. LogicalOutput(c) = ResizeResult(c)
  BY DEF LogicalOutput
<1> QED BY <1>1, <1>9, <1>10, <1>11, OneSourceTaken DEF y

(* --- concat -------------------------------------------------------------------- *)
\* The linear indices of two cells that differ at most in their place along one axis,
\* in tensors that differ at most in its extent: the same rows before it, the same
\* place behind it.
SameDigits(a, s, x, u, z) ==
  \E h \in Nat, I \in Nat, t \in Nat :
    /\ t < I /\ I = Suffix(s)[a]
    /\ RowMajor(s, x) = (h * s[a] + x[a]) * I + t
    /\ RowMajor(u, z) = (h * u[a] + z[a]) * I + t

\* Two such cells have the same digits.
LEMMA SplitAtAxis ==
  ASSUME NEW n \in Nat, NEW s \in [1 .. n -> Nat], Len(s) = n, NEW u \in [1 .. n -> Nat], Len(u) = n,
         NEW a \in 1 .. n, \A k \in 1 .. n \ {a} : u[k] = s[k],
         NEW x, InCells(n, s, x), NEW z, InCells(n, u, z), \A k \in 1 .. n \ {a} : z[k] = x[k]
  PROVE  SameDigits(a, s, x, u, z)
<1>0. /\ x \in [1 .. n -> Nat] /\ \A k \in 1 .. n : x[k] \in 0 .. s[k] - 1
      /\ z \in [1 .. n -> Nat] /\ \A k \in 1 .. n : z[k] \in 0 .. u[k] - 1
  BY DEF InCells
<1>1. PICK r : /\ RowSteps(n, s, x, r) /\ r[n] = RowMajor(s, x) /\ \A i \in 0 .. n : r[i] \in Nat
  BY RowMajorSteps DEF HasSteps
<1>2. PICK w : /\ RowSteps(n, u, z, w) /\ w[n] = RowMajor(u, z) /\ \A i \in 0 .. n : w[i] \in Nat
  BY RowMajorSteps DEF HasSteps
<1>3. /\ r[0] = 0 /\ w[0] = 0
      /\ \A i \in 1 .. n : /\ r[i] = r[i-1] * s[i] + x[i]
                           /\ w[i] = w[i-1] * u[i] + z[i]
  BY <1>1, <1>2 DEF RowSteps
<1>. DEFINE S == Suffix(s)
<1>4. S[n] = 1 /\ (\A i \in 1 .. n : S[i-1] = s[i] * S[i]) /\ \A i \in 0 .. n : S[i] \in Nat
  BY SuffixFacts, SuffixNat
<1>. HIDE DEF S
<1>5. r[a-1] = w[a-1]
  <2>. DEFINE G == {i \in 0 .. n : i < a => r[i] = w[i]}
  <2>1. 0 \in G
    BY <1>3
  <2>2. ASSUME NEW i \in 1 .. n, i - 1 \in G PROVE i \in G
    <3>1. CASE i < a
      <4>1. i \in 1 .. n \ {a} /\ i - 1 < a
        BY <3>1
      <4> QED BY <1>3, <2>2, <4>1
    <3>2. CASE ~(i < a)
      BY <3>2
    <3> QED BY <3>1, <3>2
  <2>3. 0 .. n \subseteq G
    <3>. HIDE DEF G
    <3> QED BY <2>1, <2>2, IntervalInduction
  <2>4. a - 1 \in 0 .. n /\ a - 1 < a
    OBVIOUS
  <2> QED BY <2>3, <2>4
<1>. DEFINE Ex(i) == \E Q \in Nat, e \in Nat :
                       e < Q /\ Q * S[i] = S[a] /\ r[i] = r[a] * Q + e /\ w[i] = w[a] * Q + e
<1>6. Ex(n)
  <2>. DEFINE G == {i \in 0 .. n : i >= a => Ex(i)}
  <2>1. 0 \in G
    BY a >= 1
  <2>2. ASSUME NEW i \in 1 .. n, i - 1 \in G PROVE i \in G
    <3>1. CASE i < a
      BY <3>1
    <3>2. CASE i = a
      <4>1. S[a] \in Nat /\ r[a] \in Nat /\ w[a] \in Nat
        BY <1>1, <1>2, <1>4
      <4>2. 1 * S[a] = S[a] /\ r[a] = r[a] * 1 + 0 /\ w[a] = w[a] * 1 + 0
        BY ONLY <4>1
      <4>3. 1 \in Nat /\ 0 \in Nat /\ 0 < 1
        OBVIOUS
      <4>4. Ex(a)
        BY ONLY <4>2, <4>3
      <4> QED BY <3>2, <4>4
    <3>3. CASE i > a
      <4>1. i - 1 >= a /\ i - 1 \in 0 .. n /\ i \in 1 .. n \ {a}
        BY <3>3
      <4>2. PICK Q \in Nat, e \in Nat :
              e < Q /\ Q * S[i-1] = S[a] /\ r[i-1] = r[a] * Q + e /\ w[i-1] = w[a] * Q + e
        BY <2>2, <4>1
      <4>3. PICK m \in Nat, y \in Nat, b \in Nat, p \in Nat, q \in Nat :
              m = s[i] /\ y = x[i] /\ b = S[i] /\ p = r[a] /\ q = w[a] /\ y \in 0 .. m - 1
        <5>1. s[i] \in Nat /\ x[i] \in Nat /\ S[i] \in Nat /\ r[a] \in Nat /\ w[a] \in Nat
          BY <1>0, <1>1, <1>2, <1>4
        <5>2. x[i] \in 0 .. s[i] - 1
          BY <1>0
        <5> QED BY ONLY <5>1, <5>2
      <4>4. u[i] = m /\ z[i] = y
        BY <4>1, <4>3
      <4>5. S[i-1] = m * b
        BY <1>4, <4>3
      <4>6. r[i] = (p * Q + e) * m + y /\ w[i] = (q * Q + e) * m + y
        BY <1>3, <4>2, <4>3, <4>4
      <4>7. PICK R \in Nat, d \in Nat : d < R /\ R = Q * m /\ d = e * m + y
        <5>1. e \in 0 .. Q - 1
          BY <4>2
        <5>2. e * m + y \in 0 .. Q * m - 1 /\ Q * m \in Nat
          <6>1. Q * m \in Nat
            BY ONLY Q \in Nat, m \in Nat
          <6>2. y \in 0 .. m - 1
            BY <4>3
          <6>3. e * m + y \in 0 .. Q * m - 1
            BY ONLY <5>1, <6>2, Q \in Nat, m \in Nat, RowBound
          <6> QED BY <6>1, <6>3
        <5>3. PICK R \in Nat : R = Q * m
          BY <5>2
        <5>4. e * m + y \in Nat /\ e * m + y < R
          BY ONLY <5>2, <5>3
        <5> QED BY ONLY <5>3, <5>4
      <4>8. /\ (p * Q + e) * m + y = p * R + d /\ (q * Q + e) * m + y = q * R + d
            /\ R * b = Q * (m * b)
        BY ONLY <4>7, Q \in Nat, m \in Nat, p \in Nat, q \in Nat, b \in Nat, e \in Nat, y \in Nat
      <4>9. R * S[i] = S[a] /\ r[i] = r[a] * R + d /\ w[i] = w[a] * R + d
        BY ONLY <4>2, <4>3, <4>5, <4>6, <4>8
      <4>10. Ex(i)
        BY ONLY <4>7, <4>9
      <4> QED BY <4>10
    <3> QED BY <3>1, <3>2, <3>3
  <2>3. 0 .. n \subseteq G
    <3>. HIDE DEF G
    <3> QED BY <2>1, <2>2, IntervalInduction
  <2>4. n \in 0 .. n /\ n >= a
    OBVIOUS
  <2> QED BY <2>3, <2>4
<1>7. PICK Q \in Nat, e \in Nat :
        e < Q /\ Q * S[n] = S[a] /\ r[n] = r[a] * Q + e /\ w[n] = w[a] * Q + e
  BY <1>6
<1>8. Q = S[a]
  <2>1. Q * 1 = Q
    OBVIOUS
  <2> QED BY <1>4, <1>7, <2>1
<1>9. PICK h \in Nat : h = r[a-1] /\ r[a] = h * s[a] + x[a] /\ w[a] = h * u[a] + z[a]
  <2>1. a - 1 \in 0 .. n
    OBVIOUS
  <2>2. r[a-1] \in Nat
    BY <1>1, <2>1
  <2> QED BY <1>3, <1>5, <2>2
<1>10. RowMajor(s, x) = (h * s[a] + x[a]) * Q + e /\ RowMajor(u, z) = (h * u[a] + z[a]) * Q + e
  BY <1>1, <1>2, <1>7, <1>9
<1>11. Q = Suffix(s)[a]
  BY <1>8 DEF S
<1> QED BY ONLY <1>10, <1>11, h \in Nat, <1>7 DEF SameDigits

\* The inputs of c are m, each with an extent along the axis.
ExtentsKnown(c, m, axis) ==
  Len(c.in) = m /\ DOMAIN c.in = 1 .. m /\ \A i \in 1 .. m : c.in[i].shape[axis] \in Nat

\* Where the inputs after the first i start.
LEMMA SumOfExtentsIs ==
  ASSUME NEW c, NEW axis, NEW m \in Nat, ExtentsKnown(c, m, axis), NEW i \in 0 .. m
  PROVE  SumOfExtents(c, i, axis) = AxisStart(c, axis)[i]
<1>. Len(c.in) = m /\ DOMAIN c.in = 1 .. m /\ \A j \in 1 .. m : c.in[j].shape[axis] \in Nat
  BY DEF ExtentsKnown
<1>. DEFINE d == [j \in DOMAIN c.in |-> c.in[j].shape[axis]]
            s == Sums(m, d)
            Eq(f) == f = [j \in 0 .. i |-> IF j = 0 THEN 0 ELSE f[j-1] + c.in[j].shape[axis]]
            o == CHOOSE f : Eq(f)
            g == [j \in 0 .. i |-> s[j]]
<1>1. d \in [1 .. m -> Int] /\ \A j \in 1 .. m : d[j] = c.in[j].shape[axis]
  OBVIOUS
<1>2. AxisStart(c, axis) = s
  BY DEF AxisStart
<1>. HIDE DEF d
<1>3. s \in [0 .. m -> Int] /\ s[0] = 0 /\ \A j \in 1 .. m : s[j] = s[j-1] + d[j]
  BY <1>1, SumsFacts
<1>. HIDE DEF s
<1>4. Eq(g)
  <2>1. ASSUME NEW j \in 0 .. i PROVE s[j] = IF j = 0 THEN 0 ELSE g[j-1] + c.in[j].shape[axis]
    <3>1. CASE j = 0
      BY <1>3, <3>1
    <3>2. CASE j # 0
      <4>1. j \in 1 .. m /\ j - 1 \in 0 .. i
        BY <3>2
      <4> QED BY <1>1, <1>3, <3>2, <4>1
    <3> QED BY <3>1, <3>2
  <2> QED BY <2>1
<1>5. Eq(o)
  <2>. HIDE DEF Eq, g
  <2> QED BY <1>4
<1>6. SumOfExtents(c, i, axis) = o[i]
  BY DEF SumOfExtents
<1>. DEFINE G == {j \in 0 .. i : o[j] = g[j]}
<1>. HIDE DEF o, g
<1>7. 0 \in G
  BY <1>4, <1>5
<1>8. ASSUME NEW j \in 1 .. i, j - 1 \in G PROVE j \in G
  <2>1. j \in 0 .. i /\ j # 0
    OBVIOUS
  <2>2. o[j] = o[j-1] + c.in[j].shape[axis]
    BY <1>5, <2>1
  <2>3. g[j] = g[j-1] + c.in[j].shape[axis]
    BY <1>4, <2>1
  <2> QED BY <1>8, <2>1, <2>2, <2>3
<1>9. 0 .. i \subseteq G
  <2>. HIDE DEF G
  <2>1. i \in Nat
    OBVIOUS
  <2> QED BY <1>7, <1>8, <2>1, IntervalInduction
<1>10. i \in 0 .. i /\ i \in 0 .. m
  OBVIOUS
<1>11. g[i] = s[i]
  BY <1>10 DEF g
<1> QED BY <1>2, <1>6, <1>9, <1>10, <1>11

\* Blocks that follow one another: a place is in one of them at most.
LEMMA OneBlock ==
  ASSUME NEW m \in Nat, NEW start \in [0 .. m -> Int],
         \A i \in 1 .. m : start[i-1] <= start[i],
         NEW i \in 1 .. m, NEW j \in 1 .. m, NEW y \in Int,
         start[i-1] <= y, y < start[i], start[j-1] <= y, y < start[j]
  PROVE  i = j
<1>1. ASSUME NEW p \in 1 .. m, NEW q \in 1 .. m, p < q PROVE start[p] <= start[q-1]
  <2>. DEFINE G == {k \in 0 .. m : k >= p => start[p] <= start[k]}
  <2>1. 0 \in G
    OBVIOUS
  <2>2. ASSUME NEW k \in 1 .. m, k - 1 \in G PROVE k \in G
    <3>1. CASE k > p
      <4>1. k - 1 >= p /\ k - 1 \in 0 .. m /\ k \in 0 .. m /\ p \in 0 .. m
        BY <3>1
      <4>2. start[p] <= start[k-1] /\ start[k-1] <= start[k]
        BY <2>2, <4>1
      <4>3. start[p] \in Int /\ start[k-1] \in Int /\ start[k] \in Int
        BY <4>1
      <4>4. start[p] <= start[k]
        BY ONLY <4>2, <4>3
      <4> QED BY <4>1, <4>4
    <3>2. CASE k = p
      <4>1. p \in 0 .. m /\ start[p] \in Int
        OBVIOUS
      <4>2. start[p] <= start[p]
        BY ONLY <4>1
      <4> QED BY <3>2, <4>1, <4>2
    <3>3. CASE k < p
      BY <3>3
    <3> QED BY <3>1, <3>2, <3>3
  <2>3. 0 .. m \subseteq G
    <3>. HIDE DEF G
    <3> QED BY <2>1, <2>2, IntervalInduction
  <2>4. q - 1 \in 0 .. m /\ q - 1 >= p
    BY <1>1
  <2> QED BY <2>3, <2>4
<1>2. \A k \in 0 .. m : start[k] \in Int
  OBVIOUS
<1>3. CASE i < j
  <2>1. start[i] <= start[j-1] /\ i \in 0 .. m /\ j - 1 \in 0 .. m
    BY <1>1, <1>3
  <2>2. start[i] \in Int /\ start[j-1] \in Int
    BY <1>2, <2>1
  <2> QED BY ONLY <2>1, <2>2, y \in Int, y < start[i], start[j-1] <= y
<1>4. CASE j < i
  <2>1. start[j] <= start[i-1] /\ j \in 0 .. m /\ i - 1 \in 0 .. m
    BY <1>1, <1>4
  <2>2. start[j] \in Int /\ start[i-1] \in Int
    BY <1>2, <2>1
  <2> QED BY ONLY <2>1, <2>2, y \in Int, y < start[j], start[i-1] <= y
<1> QED BY <1>3, <1>4

\* The place in block f .. f+e-1 of a cell of the output at place ya of the axis, by
\* the rows h and the steps I of the tensor.
InBlock(h, I, t, N, ya, f, e, l) ==
  /\ t < I /\ ya \in 0 .. N - 1 /\ l = (h * N + ya) * I + t
  /\ l % (N * I) \in f * I .. (f + e) * I - 1
PlaceInBlock(h, I, t, N, ya, f, e, l) ==
  /\ f <= ya /\ ya < f + e
  /\ (l \div (N * I)) * (e * I) + (l % (N * I)) - f * I = (h * e + (ya - f)) * I + t
\* The cell lies in the block, and the copied element is at the same rows and steps of the input.
LEMMA BlockCell ==
  ASSUME NEW h \in Nat, NEW I \in Nat, NEW t \in Nat, NEW N \in Nat, NEW ya \in Nat,
         NEW f \in Int, NEW e \in Nat, NEW l, InBlock(h, I, t, N, ya, f, e, l)
  PROVE  PlaceInBlock(h, I, t, N, ya, f, e, l)
<1>. /\ t < I /\ ya \in 0 .. N - 1 /\ l = (h * N + ya) * I + t
     /\ l % (N * I) \in f * I .. (f + e) * I - 1
  BY DEF InBlock
<1>1. PICK B \in Nat : B = N * I
  <2>1. N * I \in Nat
    OBVIOUS
  <2> QED BY <2>1
<1>2. PICK g \in Nat : g = ya * I + t /\ g \in 0 .. B - 1
  <2>1. t \in 0 .. I - 1
    OBVIOUS
  <2>2. ya * I + t \in 0 .. N * I - 1
    BY <2>1, RowBound
  <2> QED BY <1>1, <2>2
<1>3. l = h * B + g
  <2>1. (h * N + ya) * I + t = h * (N * I) + (ya * I + t)
    BY ONLY h \in Nat, N \in Nat, ya \in 0 .. N - 1, I \in Nat, t \in Nat
  <2> QED BY <1>1, <1>2, <2>1
<1>4. l \div B = h /\ l % B = g
  <2>1. (h * B + g) \div B = h /\ (h * B + g) % B = g
    BY ONLY <1>2, h \in Nat, B \in Nat, LastDigit
  <2> QED BY <1>3, <2>1
<1>5. g \in f * I .. (f + e) * I - 1
  BY <1>1, <1>4
<1>6. PICK z \in Int : z = f + e /\ f * I \in Int /\ (f + e) * I \in Int
  <2>1. f + e \in Int /\ f * I \in Int /\ (f + e) * I \in Int
    OBVIOUS
  <2> QED BY ONLY <2>1
<1>7. /\ Times(f, I) = f * I /\ Times(z, I) = (f + e) * I /\ Times(ya, I) + t = g
      /\ ya \in Int /\ I \in Nat \ {0}
  BY <1>2, <1>6 DEF Times
<1>8. Times(f, I) <= Times(ya, I) + t /\ Times(ya, I) + t < Times(z, I)
  BY ONLY <1>5, <1>6, <1>7, g \in Nat
<1>9. f <= ya
  <2>1. SUFFICES ASSUME ya < f PROVE FALSE
    BY <1>7
  <2>2. Times(ya, I) + I <= Times(f, I) /\ Times(ya, I) \in Int /\ Times(f, I) \in Int
    BY <1>7, <2>1, TimesStep
  <2> QED BY ONLY <1>8, <2>2, t < I, t \in Nat, I \in Nat
<1>10. ya < z
  <2>1. SUFFICES ASSUME z <= ya PROVE FALSE
    BY <1>7
  <2>2. Times(z, I) \in Int /\ Times(ya, I) \in Int /\ (z < ya => Times(z, I) + I <= Times(ya, I))
    BY <1>7, TimesStep
  <2>3. Times(z, I) <= Times(ya, I)
    <3>1. z < ya \/ z = ya
      BY <1>7, <2>1
    <3> QED BY <2>2, <3>1
  <2> QED BY ONLY <1>8, <2>2, <2>3, t \in Nat
<1>11. h * (e * I) + g - f * I = (h * e + (ya - f)) * I + t
  <2>1. h * (e * I) + (ya * I + t) - f * I = (h * e + (ya - f)) * I + t
    BY ONLY <1>7, h \in Nat, e \in Nat, I \in Nat, f \in Int, t \in Nat
  <2> QED BY <1>2, <2>1
<1> QED BY <1>1, <1>4, <1>6, <1>9, <1>10, <1>11 DEF PlaceInBlock

\* CONCAT (transform.rs:96).
LEMMA ConcatMoves ==
  ASSUME NEW c, c.in \in Seq(Views), c.out \in Seq(Views), c.op = "CONCAT",
         ConcatOK(c), c.attr.axis \in I32, NEW l \in Linears(Dst(c))
  PROVE  \E i, z : ShowsCell(c, i, z, l)
<1>. DEFINE n == Rank(Dst(c))
            s == Dst(c).shape
            m == Len(c.in)
            axis == AxisOf(c, Dst(c))
            start == AxisStart(c, axis)
            y == Coordinates(s, l)
<1>1. /\ Dst(c) \in Views /\ AllMetaOK(c) /\ m \in Nat /\ DOMAIN c.in = 1 .. m
      /\ Dst(c) = c.out[1] /\ 1 \in DOMAIN c.out
      /\ n \in Nat /\ s \in [1 .. n -> Nat] /\ Len(s) = n /\ Axes(Dst(c)) = 1 .. n
  <2>1. ExpectIO(c, 1 .. 7, {1}) /\ AllMetaOK(c)
    BY DEF ConcatOK
  <2>2. 1 .. 7 \subseteq Nat \ {0} /\ {1} \subseteq Nat \ {0}
    OBVIOUS
  <2> QED BY <2>1, <2>2, SourceAndResult
<1>2. axis \in 1 .. n /\ AxisIn(c, Dst(c)) = axis
  <2>1. AxisOK(c.attr.axis, n)
    BY DEF ConcatOK
  <2> QED BY <1>1, <2>1, AxisInside, AxisFrom DEF AxisOf
<1>3. ASSUME NEW i \in 1 .. m
      PROVE  /\ c.in[i] \in Views /\ MetaOK(c.in[i]) /\ c.in[i].shape \in [1 .. n -> Nat]
             /\ Len(c.in[i].shape) = n /\ \A a \in 1 .. n \ {axis} : c.in[i].shape[a] = s[a]
  <2>1. c.in[i] \in Views /\ MetaOK(c.in[i])
    BY <1>1 DEF AllMetaOK, ViewsOf
  <2>2. Rank(c.in[i]) = n /\ \A a \in 1 .. n \ {axis} : c.in[i].shape[a] = s[a]
    BY <1>1 DEF ConcatOK
  <2> QED BY <2>1, <2>2, ViewFacts DEF Rank
<1>4. MetaOK(Dst(c)) /\ y \in Cells(s) /\ RowMajor(s, y) = l
  <2>1. MetaOK(Dst(c))
    BY <1>1 DEF AllMetaOK, ViewsOf
  <2> QED BY <1>1, <2>1, CellOfIndex
<1>5. PICK b, place : ConcatPlace(c, l, b, place)
  BY ConcatTaken
<1>6. /\ b \in 1 .. m
      /\ l % (s[axis] * Inner(s, axis)) \in start[b-1] * Inner(s, axis) .. start[b] * Inner(s, axis) - 1
      /\ place = (l \div (s[axis] * Inner(s, axis))) * (c.in[b].shape[axis] * Inner(s, axis))
                    + (l % (s[axis] * Inner(s, axis))) - start[b-1] * Inner(s, axis)
      /\ ConcatResult(c)[l] = Moved(LogicalAddr(c.in[b])[place])
  BY <1>1, <1>5 DEF ConcatPlace
<1>7. /\ start \in [0 .. m -> Int]
      /\ \A i \in 1 .. m : start[i] = start[i-1] + c.in[i].shape[axis]
      /\ \A i \in 1 .. m : c.in[i].shape[axis] \in Nat
  <2>. DEFINE d == [i \in DOMAIN c.in |-> c.in[i].shape[axis]]
  <2>1. \A i \in 1 .. m : c.in[i].shape[axis] \in Nat
    BY <1>2, <1>3
  <2>2. d \in [1 .. m -> Int] /\ \A i \in 1 .. m : d[i] = c.in[i].shape[axis]
    BY <1>1, <2>1
  <2>3. start = Sums(m, d)
    BY DEF AxisStart
  <2>. HIDE DEF d
  <2>4. /\ Sums(m, d) \in [0 .. m -> Int]
        /\ \A i \in 1 .. m : Sums(m, d)[i] = Sums(m, d)[i-1] + d[i]
    BY <1>1, <2>2, SumsFacts
  <2> QED BY <2>1, <2>2, <2>3, <2>4
<1>. HIDE DEF y
<1>8. InCells(n, s, y) /\ y \in [1 .. n -> Nat] /\ \A a \in 1 .. n : y[a] \in 0 .. s[a] - 1
  <2>1. InCells(n, s, y)
    BY <1>1, <1>4, CellIn
  <2> QED BY <2>1 DEF InCells
<1>. HIDE DEF start, axis
<1>9. PICK f \in Int, e \in Nat, N \in Nat, ya \in Nat :
        /\ f = start[b-1] /\ e = c.in[b].shape[axis] /\ start[b] = f + e
        /\ N = s[axis] /\ ya = y[axis] /\ ya \in 0 .. N - 1
  <2>1. b - 1 \in 0 .. m
    BY <1>1, <1>6
  <2>2. start[b-1] \in Int /\ c.in[b].shape[axis] \in Nat
        /\ start[b] = start[b-1] + c.in[b].shape[axis]
    BY <1>6, <1>7, <2>1
  <2>3. s[axis] \in Nat /\ y[axis] \in Nat /\ y[axis] \in 0 .. s[axis] - 1
    BY <1>1, <1>2, <1>8
  <2> QED BY ONLY <2>2, <2>3
<1>10. SameDigits(axis, s, y, s, y)
  BY <1>1, <1>2, <1>8, SplitAtAxis
<1>11. f <= ya /\ ya < f + e
  <2>1. PICK h \in Nat, I \in Nat, t \in Nat :
          t < I /\ I = Suffix(s)[axis] /\ RowMajor(s, y) = (h * s[axis] + y[axis]) * I + t
    BY <1>10 DEF SameDigits
  <2>2. l = (h * N + ya) * I + t /\ Inner(s, axis) = I
    BY <1>4, <1>9, <2>1 DEF Inner
  <2>3. l % (N * I) \in f * I .. (f + e) * I - 1
    BY <1>6, <1>9, <2>2
  <2>4. InBlock(h, I, t, N, ya, f, e, l)
    BY <1>9, <2>1, <2>2, <2>3 DEF InBlock
  <2>5. PlaceInBlock(h, I, t, N, ya, f, e, l)
    BY <2>4, BlockCell
  <2> QED BY <2>5 DEF PlaceInBlock
<1>. DEFINE u == c.in[b].shape
            x == [y EXCEPT ![axis] = ya - f]
<1>12. /\ c.in[b] \in Views /\ MetaOK(c.in[b]) /\ u \in [1 .. n -> Nat] /\ Len(u) = n
       /\ \A a \in 1 .. n \ {axis} : u[a] = s[a]
  BY <1>3, <1>6
<1>13. /\ x \in [1 .. n -> Nat] /\ x[axis] = ya - f /\ \A a \in 1 .. n \ {axis} : x[a] = y[a]
       /\ x[axis] \in 0 .. e - 1
  <2>1. ya - f \in 0 .. e - 1 /\ ya - f \in Nat
    BY ONLY <1>11, f \in Int, e \in Nat, ya \in Nat
  <2> QED BY <1>2, <1>8, <2>1
<1>. HIDE DEF x, u
<1>14. InCells(n, u, x)
  <2>1. ASSUME NEW a \in 1 .. n PROVE x[a] \in 0 .. u[a] - 1
    <3>1. CASE a = axis
      BY <1>9, <1>13, <3>1 DEF u
    <3>2. CASE a # axis
      <4>1. x[a] = y[a] /\ u[a] = s[a] /\ y[a] \in 0 .. s[a] - 1
        BY <1>8, <1>12, <1>13, <3>2
      <4> QED BY <4>1
    <3> QED BY <3>1, <3>2
  <2> QED BY <1>13, <2>1 DEF InCells
<1>15. RowMajor(u, x) = place
  <2>1. SameDigits(axis, s, y, u, x)
    BY <1>1, <1>2, <1>8, <1>12, <1>13, <1>14, SplitAtAxis
  <2>2. PICK h \in Nat, I \in Nat, t \in Nat :
          /\ t < I /\ I = Suffix(s)[axis] /\ RowMajor(s, y) = (h * s[axis] + y[axis]) * I + t
          /\ RowMajor(u, x) = (h * u[axis] + x[axis]) * I + t
    BY <2>1 DEF SameDigits
  <2>3. l = (h * N + ya) * I + t /\ Inner(s, axis) = I
    BY <1>4, <1>9, <2>2 DEF Inner
  <2>4. l % (N * I) \in f * I .. (f + e) * I - 1
    BY <1>6, <1>9, <2>3
  <2>5. (l \div (N * I)) * (e * I) + (l % (N * I)) - f * I = (h * e + (ya - f)) * I + t
    <3>1. InBlock(h, I, t, N, ya, f, e, l)
      BY <1>9, <2>2, <2>3, <2>4 DEF InBlock
    <3>2. PlaceInBlock(h, I, t, N, ya, f, e, l)
      BY <3>1, BlockCell
    <3> QED BY <3>2 DEF PlaceInBlock
  <2>6. place = (l \div (N * I)) * (e * I) + (l % (N * I)) - f * I
    BY <1>6, <1>9, <2>3
  <2>7. RowMajor(u, x) = (h * e + (ya - f)) * I + t
    BY <1>9, <1>13, <2>2 DEF u
  <2> QED BY <2>5, <2>6, <2>7
<1>16. x \in Cells(u)
  BY <1>1, <1>12, <1>14, CellIn
<1>17. LogicalOutput(c)[l] = MovedValue(c, At(c.in[b], x))
  <2>1. LogicalAddr(c.in[b])[RowMajor(c.in[b].shape, x)] = At(c.in[b], x)
    BY <1>12, <1>16, IndexOfCell DEF u
  <2>2. LogicalOutput(c) = ConcatResult(c)
    BY DEF LogicalOutput
  <2> QED BY <1>6, <1>15, <2>1, <2>2 DEF MovedValue, u
<1>18. ASSUME NEW i \in 1 .. m, NEW z \in Cells(c.in[i].shape)
       PROVE  Shows(c, i, z, y) <=> i = b /\ z = x
  <2>1. Shows(c, i, z, y) <=>
          /\ Agree(z, y, Axes(Dst(c)) \ {AxisIn(c, Dst(c))})
          /\ y[AxisIn(c, Dst(c))] = SumOfExtents(c, i - 1, AxisIn(c, Dst(c))) + z[AxisIn(c, Dst(c))]
    BY DEF Shows
  <2>2. SumOfExtents(c, i - 1, axis) = start[i-1]
    <3>1. PICK k \in 0 .. m : k = i - 1
      <4>1. i - 1 \in 0 .. m
        BY <1>1
      <4> QED BY <4>1
    <3>2. SumOfExtents(c, k, axis) = AxisStart(c, axis)[k]
      <4>1. ExtentsKnown(c, m, axis)
        BY <1>1, <1>7 DEF ExtentsKnown
      <4> QED BY <1>1, <3>1, <4>1, SumOfExtentsIs
    <3> QED BY <3>1, <3>2 DEF start
  <2>3. Shows(c, i, z, y) <=> /\ \A a \in 1 .. n \ {axis} : z[a] = y[a]
                              /\ ya = start[i-1] + z[axis]
    BY <1>1, <1>2, <1>9, <2>1, <2>2 DEF Agree
  <2>4. z \in [1 .. n -> Nat] /\ z[axis] \in 0 .. c.in[i].shape[axis] - 1
    <3>1. InCells(n, c.in[i].shape, z)
      BY <1>1, <1>3, CellIn
    <3> QED BY <1>2, <3>1 DEF InCells
  <2>5. ASSUME i = b, z = x PROVE Shows(c, i, z, y)
    <3>1. ya = f + (ya - f)
      OBVIOUS
    <3> QED BY <1>9, <1>13, <2>3, <2>5, <3>1
  <2>6. ASSUME Shows(c, i, z, y) PROVE i = b /\ z = x
    <3>1. ya = start[i-1] + z[axis]
      BY <2>3, <2>6
    <3>2. PICK g \in Int, k \in Nat, q \in Nat :
            g = start[i-1] /\ k = c.in[i].shape[axis] /\ start[i] = g + k /\ q = z[axis] /\ q \in 0 .. k - 1
      <4>1. i - 1 \in 0 .. m
        BY <1>1
      <4>2. start[i-1] \in Int /\ c.in[i].shape[axis] \in Nat
            /\ start[i] = start[i-1] + c.in[i].shape[axis] /\ z[axis] \in Nat
        BY <1>2, <1>7, <2>4, <4>1
      <4> QED BY ONLY <2>4, <4>2
    <3>3. g <= ya /\ ya < g + k
      <4>1. ya = g + q /\ q \in 0 .. k - 1
        BY <3>1, <3>2
      <4> QED BY ONLY <4>1, g \in Int, k \in Nat, ya \in Nat, q \in Nat
    <3>4. \A j \in 1 .. m : start[j-1] <= start[j]
      <4>1. ASSUME NEW j \in 1 .. m PROVE start[j-1] <= start[j]
        <5>1. j - 1 \in 0 .. m
          BY <1>1
        <5>2. PICK p \in Int, r \in Nat : p = start[j-1] /\ r = c.in[j].shape[axis] /\ start[j] = p + r
          BY <1>7, <5>1
        <5> QED BY <5>2
      <4> QED BY <4>1
    <3>5. i = b
      <4>1. start[i-1] <= ya /\ ya < start[i] /\ start[b-1] <= ya /\ ya < start[b] /\ ya \in Int
        BY <1>9, <1>11, <3>2, <3>3
      <4> QED BY ONLY <1>1, <1>6, <1>7, <3>4, <4>1, i \in 1 .. m, OneBlock
    <3>6. z[axis] = x[axis]
      <4>1. g = f /\ ya = g + q
        BY <1>9, <3>1, <3>2, <3>5
      <4>2. q = ya - f
        BY ONLY <4>1, g \in Int, f \in Int, q \in Nat, ya \in Nat
      <4> QED BY <1>13, <3>2, <4>2
    <3>7. \A a \in 1 .. n : x[a] = z[a]
      BY <1>13, <2>3, <2>6, <3>6
    <3> QED BY <1>13, <2>4, <3>5, <3>7, SameCell
  <2> QED BY <2>5, <2>6
<1>19. Sources(c, y) = {<<b, x>>}
  <2>1. Sources(c, y) = {ix \in UNION {{i} \X Cells(c.in[i].shape) : i \in DOMAIN c.in} :
                           Shows(c, ix[1], ix[2], y)}
    BY DEF Sources
  <2>2. ASSUME NEW ix \in Sources(c, y) PROVE ix = <<b, x>>
    <3>1. ix \in UNION {{i} \X Cells(c.in[i].shape) : i \in DOMAIN c.in} /\ Shows(c, ix[1], ix[2], y)
      BY <2>1
    <3>2. PICK i \in DOMAIN c.in : ix \in {i} \X Cells(c.in[i].shape)
      BY <3>1
    <3>3. PICK z \in Cells(c.in[i].shape) : ix = <<i, z>>
      BY <3>2
    <3>4. ix[1] = i /\ ix[2] = z /\ i \in 1 .. m
      BY <1>1, <3>3
    <3> QED BY <1>18, <3>1, <3>3, <3>4
  <2>3. <<b, x>> \in Sources(c, y)
    <3>1. <<b, x>>[1] = b /\ <<b, x>>[2] = x
      OBVIOUS
    <3>2. x \in Cells(c.in[b].shape) /\ b \in DOMAIN c.in
      BY <1>1, <1>6, <1>16 DEF u
    <3>3. <<b, x>> \in {b} \X Cells(c.in[b].shape)
      BY <3>2
    <3>4. Shows(c, b, x, y)
      BY <1>6, <1>18, <3>2
    <3> QED BY <2>1, <3>1, <3>2, <3>3, <3>4
  <2> QED BY <2>2, <2>3
<1>20. b \in DOMAIN c.in /\ x \in Cells(c.in[b].shape)
  BY <1>1, <1>6, <1>16 DEF u
<1>21. ShowsCell(c, b, x, l)
  BY <1>17, <1>19, <1>20 DEF ShowsCell, y
<1> QED BY <1>21

\* Whatever a data movement kernel accepts, each element of its result is what one
\* cell of the inputs holds: the only one that the cell of the output shows.
LEMMA AcceptedMoves ==
  ASSUME NEW c, TypedOperands(c), Accepts(c), ~Panics(c), Moves(c), NEW l \in Linears(Dst(c))
  PROVE  \E i, x : ShowsCell(c, i, x, l)
<1>1. c.in \in Seq(Views) /\ c.out \in Seq(Views) /\ TypedAttr(c.op, c.attr) /\ c.op \in MoveOps
  BY DEF TypedOperands, Moves
<1>2. CASE c.op = "CONCAT"
  <2>1. ConcatOK(c) /\ c.attr.axis \in I32
    BY <1>1, <1>2 DEF Accepts, BinaryOps, UnaryOps, TypedAttr, ConcatAttrs
  <2> QED BY <1>1, <1>2, <2>1, ConcatMoves
<1>3. CASE c.op = "TRANSPOSE"
  <2>1. TransposeOK(c) /\ c.attr \in TransposeAttrs
        /\ (c.attr.rank <= MaxDim => c.attr.rank <= Len(c.attr.perm))
    BY <1>1, <1>3 DEF Accepts, BinaryOps, UnaryOps, TypedAttr, TypedOperands
  <2> QED BY <1>1, <1>3, <2>1, TransposeMoves
<1>4. CASE c.op \in {"GATHER", "GATHER_ELEMENTS"}
  <2>1. /\ c.attr.axis \in I32
        /\ c.op = "GATHER" => GatherOK(c)
        /\ c.op = "GATHER_ELEMENTS" => GatherElementsOK(c)
    BY <1>1, <1>4 DEF Accepts, BinaryOps, UnaryOps, TypedAttr, GatherAttrs, GatherElementsAttrs
  <2>2. Len(c.in) > 1 /\ c.in[2].dtype \in {"I32", "I64"}
    BY <1>4, <2>1 DEF GatherOK, GatherElementsOK, GatherIO, ExpectIO, IndicesOK
  <2>3. \A i \in 0 .. c.in[2].bytes \div SizeOf(c.in[2]) - 1 : c.ints[i] \in Int
    BY <1>4, <2>2 DEF TypedOperands, TypedContents
  <2> QED BY <1>1, <1>4, <2>1, <2>3, GatherMoves, GatherElementsMoves
<1>5. CASE c.op \in {"COPY", "CAST", "EXPAND"}
  <2>1. /\ c.op = "COPY" => CopyOK(c)
        /\ c.op = "CAST" => CastOK(c)
        /\ c.op = "EXPAND" => ExpandOK(c)
    BY <1>5 DEF Accepts, BinaryOps, UnaryOps
  <2> QED BY <1>1, <1>5, <2>1, CopyMoves, CastMoves, ExpandMoves
<1>6. CASE c.op = "TILE"
  <2>1. TileOK(c)
    BY <1>6 DEF Accepts, BinaryOps, UnaryOps
  <2> QED BY <1>1, <1>6, <2>1, TileMoves DEF TypedOperands
<1>7. CASE c.op = "RESIZE"
  <2>1. ResizeOK(c) /\ ~ResizePanics(c) /\ c.attr.mode = 0
    BY <1>7 DEF Accepts, BinaryOps, UnaryOps, Panics, Moves
  <2> QED BY <1>1, <1>7, <2>1, ResizeMoves
<1> QED BY <1>1, <1>2, <1>3, <1>4, <1>5, <1>6, <1>7 DEF MoveOps

(* --- what memory holds at the end of a call with one output ----------------------- *)
\* After the first output memory holds its elements and nothing else, and so it does
\* when a call with one output is over.
WrittenOnce ==
  /\ pc = "writing" /\ next = 2 => mem = After(UntouchedMem, Stores(Call, 1))
  /\ Completed /\ Len(Call.out) = 1 => mem = After(UntouchedMem, Stores(Call, 1))

\* Every step keeps it.
LEMMA WrittenOnceKept ==
  ASSUME IInv, WrittenOnce, [Next]_vars
  PROVE  WrittenOnce'
<1>1. CASE Entry
  <2>1. node = FreshNode /\ node' = node /\ pc' \in {"refused", "submitted"}
    BY <1>1 DEF IInv, Idle, Entry, RefuseRequest, RunRequest, SubmitDesc
  <2> QED BY <2>1 DEF WrittenOnce, Completed, FreshNode
<1>2. CASE RejectCounts \/ RejectCall
  BY <1>2 DEF RejectCounts, RejectCall, Fail, WrittenOnce, Completed
<1>3. CASE StartCall \/ Panic
  <2>1. node = FreshNode /\ node' = node /\ (pc' = "writing" => next' = 1)
    BY <1>3 DEF IInv, Idle, StartCall, Panic
  <2> QED BY <2>1 DEF WrittenOnce, Completed, FreshNode
<1>4. CASE WriteOutput
  <2>1. Writing /\ node = FreshNode /\ next \in Nat
    BY <1>4, RequestAssumption DEF IInv, WriteOutput, Writing
  <2>2. CASE LengthOK(Call, next)
    <3>1. /\ mem' = After(mem, Stores(Call, next)) /\ next' = next + 1
          /\ desc' = desc /\ node' = node
      BY <1>4, <2>2 DEF WriteOutput, Call
    <3>2. Call' = Call
      BY <3>1 DEF Call
    <3>3. next' = 2 => next = 1 /\ mem = UntouchedMem
      BY <2>1, <3>1 DEF Writing
    <3> QED BY <2>1, <3>1, <3>2, <3>3 DEF WrittenOnce, Completed, FreshNode
  <2>3. CASE ~LengthOK(Call, next)
    <3>1. Fail
      BY <1>4, <2>3 DEF WriteOutput, Call
    <3> QED BY <3>1 DEF Fail, WrittenOnce, Completed
  <2> QED BY <2>2, <2>3
<1>5. CASE Succeed
  <2>1. Writing /\ pc = "writing" /\ next > desc.output_count
        /\ pc' = "done" /\ desc' = desc /\ mem' = mem /\ next' = next
    BY <1>5 DEF IInv, Succeed
  <2>2. Call' = Call
    BY <2>1 DEF Call
  <2>3. ASSUME Len(Call.out) = 1 PROVE next = 2
    <3>3. desc.output_count = 1
      BY <2>1, <2>3, CallViews DEF Writing, Started, Call
    <3>4. next \in 1 .. desc.output_count + 1
      BY <2>1 DEF Writing
    <3> QED BY <2>1, <3>3, <3>4
  <2> QED BY <2>1, <2>2, <2>3 DEF WrittenOnce
<1>6. CASE UNCHANGED vars
  BY <1>6 DEF vars, WrittenOnce, Completed, Call
<1> QED BY <1>1, <1>2, <1>3, <1>4, <1>5, <1>6 DEF Next, Kernel

\* So memory is what the one output made of it.
LEMMA WrittenOnceHolds == Spec => []WrittenOnce
<1>1. Init => WrittenOnce
  BY DEF Init, WrittenOnce, Completed, FreshNode
<1> QED BY <1>1, Invariance, WrittenOnceKept, PTL DEF Spec

\* What an address of an output holds once it is written: the element of some cell
\* at that address.
LEMMA AddressHolds ==
  ASSUME NEW c, NEW v \in Views, MetaOK(v), NEW terms, NEW y \in Cells(v.shape), NEW before
  PROVE  \E l \in Linears(v) :
           /\ Coordinates(v.shape, l) \in SameAddress(v, y)
           /\ Held(After(before, WriteLogical(v, terms)), At(v, y)) = terms[l]
<1>. DEFINE s == WriteLogical(v, terms)
            m == After(before, s)
            a == At(v, y)
            r == RowMajor(v.shape, y)
<1>1. /\ DOMAIN s = Linears(v)
      /\ \A l \in Linears(v) : s[l].at = LogicalAddr(v)[l] /\ s[l].val = terms[l]
  BY DEF WriteLogical
<1>2. r \in Linears(v) /\ LogicalAddr(v)[r] = a
  BY IndexOfCell
<1>3. PICK l \in Linears(v) : a = s[l].at /\ l = CHOOSE k \in Linears(v) : s[k].at = a
  BY <1>1, <1>2
<1>4. a \in DOMAIN m /\ m[a] = s[l].val
  <2>. HIDE DEF s, a
  <2> QED BY <1>1, <1>3 DEF After
<1>5. Coordinates(v.shape, l) \in Cells(v.shape) /\ At(v, Coordinates(v.shape, l)) = a
  BY <1>1, <1>3, CellOfIndex
<1>6. Held(m, a) = terms[l]
  BY <1>1, <1>4 DEF Held
<1> QED BY <1>5, <1>6 DEF SameAddress

\* Every kernel that moves elements moves the right ones, for every shape, stride,
\* axis, permutation, index, repetition and position mode it accepts: each cell of
\* the output shows exactly one cell of the inputs, and its address ends up with
\* what that cell held before the call, or with what another cell of the output
\* shows that the strides put at the same address (transform.rs).
THEOREM RightElementsMove == Spec => []MovesTheRightElements
<1>1. IInv /\ WrittenOnce => MovesTheRightElements
  <2>. SUFFICES ASSUME IInv, WrittenOnce, Completed, Moves(Call), NEW y \in Cells(Dst(Call).shape)
                PROVE  /\ Cardinality(Sources(Call, y)) = 1
                       /\ \E z \in SameAddress(Dst(Call), y) : \A ix \in Sources(Call, z) :
                            Now(At(Dst(Call), y)) = MovedValue(Call, At(Call.in[ix[1]], ix[2]))
    BY DEF MovesTheRightElements
  <2>1. Started
    BY DEF IInv, Idle, Writing, Finished, FreshNode, RefusedNode, DoneNode, Completed
  <2>2. TypedOperands(Call) /\ Accepts(Call) /\ ~Panics(Call)
    BY <2>1, CallTyped DEF Started, Call
  <2>3. Call.op \notin DirectOps /\ Call.op \notin {"MAX_POOL", "TOP_K"} /\ ~Skips(Call)
    BY DEF Moves, MoveOps, DirectOps, BinaryOps, UnaryOps
  <2>4. Len(Call.out) = 1
    BY <2>2, <2>3, SingleOutput
  <2>5. Dst(Call) \in Views /\ Dst(Call) = Call.out[1] /\ MetaOK(Dst(Call))
    <3>1. Call.in \in Seq(Views) /\ Call.out \in Seq(Views) /\ AllMetaOK(Call)
      BY <2>2, <2>3, LogicalMeta DEF TypedOperands
    <3> QED BY <2>4, <3>1 DEF Dst, AllMetaOK, ViewsOf
  <2>6. mem = After(UntouchedMem, WriteLogical(Dst(Call), LogicalOutput(Call)))
    <3>1. Stores(Call, 1) = WriteLogical(Call.out[1], LogicalOutputs(Call)[1])
      BY <2>3 DEF Stores, DirectOps
    <3>2. LogicalOutputs(Call)[1] = LogicalOutput(Call)
      BY <2>3 DEF LogicalOutputs
    <3> QED BY <2>4, <2>5, <3>1, <3>2 DEF WrittenOnce
  <2>7. Cardinality(Sources(Call, y)) = 1
    <3>1. RowMajor(Dst(Call).shape, y) \in Linears(Dst(Call))
          /\ Coordinates(Dst(Call).shape, RowMajor(Dst(Call).shape, y)) = y
      BY <2>5, IndexOfCell
    <3>2. PICK i, x : ShowsCell(Call, i, x, RowMajor(Dst(Call).shape, y))
      BY <2>2, <3>1, AcceptedMoves
    <3>3. Sources(Call, y) = {<<i, x>>}
      BY <3>1, <3>2 DEF ShowsCell
    <3> QED BY <3>3, FS_Singleton
  <2>8. PICK l \in Linears(Dst(Call)) :
          /\ Coordinates(Dst(Call).shape, l) \in SameAddress(Dst(Call), y)
          /\ Now(At(Dst(Call), y)) = LogicalOutput(Call)[l]
    BY <2>5, <2>6, AddressHolds DEF Now
  <2>9. PICK i, x : ShowsCell(Call, i, x, l)
    BY <2>2, AcceptedMoves
  <2>10. \A ix \in Sources(Call, Coordinates(Dst(Call).shape, l)) :
           Now(At(Dst(Call), y)) = MovedValue(Call, At(Call.in[ix[1]], ix[2]))
    BY <2>8, <2>9 DEF ShowsCell
  <2> QED BY <2>7, <2>8, <2>10
<1> QED BY <1>1, Invariance, WrittenOnceHolds, PTL

(* --- selection ------------------------------------------------------------------- *)
\* What a call must look like for its input to hold the numbers that are compared.
Compares(c) ==
  /\ c.in \in Seq(Views) /\ 1 \in DOMAIN c.in /\ AllMetaOK(c) /\ c.in[1].dtype = "F16"
  /\ \A i \in 0 .. c.in[1].bytes \div 2 - 1 : c.vals[i] \in Int

\* The number of a cell is the one the code finds at its linear index, and that
\* index is also its place among the cells; there are finitely many.
LEMMA NumberOfCell ==
  ASSUME NEW c, Compares(c), NEW x \in Cells(Src(c).shape)
  PROVE  /\ NumberAt(c, x) = Values(c)[RowMajor(Src(c).shape, x)] /\ NumberAt(c, x) \in Int
         /\ CellsBefore(Src(c).shape, x) = RowMajor(Src(c).shape, x)
         /\ RowMajor(Src(c).shape, x) \in Linears(Src(c)) /\ RowMajor(Src(c).shape, x) \in Nat
         /\ Coordinates(Src(c).shape, RowMajor(Src(c).shape, x)) = x
<1>. DEFINE v == Src(c)
            l == RowMajor(v.shape, x)
<1>1. v \in Views /\ MetaOK(v) /\ v = c.in[1]
  BY DEF Compares, AllMetaOK, ViewsOf, Src
<1>2. l \in Linears(v) /\ Coordinates(v.shape, l) = x /\ LogicalAddr(v)[l] = At(v, x)
  BY <1>1, IndexOfCell
<1>3. Values(c)[l] = NumberAt(c, x)
  BY <1>1, <1>2 DEF Values, NumberAt
<1>4. Values(c)[l] \in Int
  BY <1>2, ValuesTyped DEF Compares
<1>5. CellsBefore(v.shape, x) = l
  <2>1. Rank(v) \in Nat /\ v.shape \in [1 .. Rank(v) -> Nat] /\ Len(v.shape) = Rank(v)
    BY <1>1, ViewFacts DEF Rank
  <2> QED BY <2>1, CellsBeforeIs
<1>6. l \in Nat
  BY <1>1, <1>2, ElementCoordinates
<1> QED BY <1>2, <1>3, <1>4, <1>5, <1>6

\* There are finitely many cells.
LEMMA FiniteCells ==
  ASSUME NEW v \in Views, MetaOK(v)
  PROVE  IsFiniteSet(Cells(v.shape))
<1>1. Count(v) \in Nat
  BY CountIsSuffix, ViewFacts DEF Count, Rank
<1>2. IsFiniteSet(Linears(v))
  BY <1>1, FS_Interval DEF Linears
<1>3. IsFiniteSet({Coordinates(v.shape, l) : l \in Linears(v)})
  <2>. DEFINE f == [l \in Linears(v) |-> Coordinates(v.shape, l)]
              T == {Coordinates(v.shape, l) : l \in Linears(v)}
  <2>1. f \in Surjection(Linears(v), T)
    <3>1. f \in [Linears(v) -> T] /\ \A t \in T : \E l \in Linears(v) : f[l] = t
      OBVIOUS
    <3>. HIDE DEF f, T
    <3> QED BY <3>1 DEF Surjection
  <2>. HIDE DEF f, T
  <2>2. IsFiniteSet(T)
    BY <1>2, <2>1, FS_Surjection
  <2> QED BY <2>2 DEF T
<1>4. Cells(v.shape) \subseteq {Coordinates(v.shape, l) : l \in Linears(v)}
  <2>1. ASSUME NEW x \in Cells(v.shape) PROVE x \in {Coordinates(v.shape, l) : l \in Linears(v)}
    BY IndexOfCell
  <2> QED BY <2>1
<1> QED BY <1>3, <1>4, FS_Subset

\* Any cells are ordered by which is the better one.
LEMMA BetterOrders ==
  ASSUME NEW c, Compares(c), NEW C \in SUBSET Cells(Src(c).shape)
  PROVE  TotalOrder(C, [x \in C |-> {z \in C : Better(c, z, x)}])
<1>. DEFINE N(x) == NumberAt(c, x)
            R(x) == RowMajor(Src(c).shape, x)
            Up == c.op = "TOP_K" /\ c.attr.largest = 0
            Ahead(z, x) == \/ IF Up THEN N(z) < N(x) ELSE N(z) > N(x)
                           \/ N(z) = N(x) /\ R(z) < R(x)
            B == [x \in C |-> {z \in C : Better(c, z, x)}]
<1>1. \A x \in C : N(x) \in Int /\ R(x) \in Nat /\ CellsBefore(Src(c).shape, x) = R(x)
  BY NumberOfCell
<1>2. \A x, z \in C : R(x) = R(z) => x = z
  <2>1. ASSUME NEW x \in C, NEW z \in C, R(x) = R(z) PROVE x = z
    <3>1. Coordinates(Src(c).shape, R(x)) = x /\ Coordinates(Src(c).shape, R(z)) = z
      BY NumberOfCell
    <3> QED BY <2>1, <3>1
  <2> QED BY <2>1
<1>3. \A x, z \in C : Better(c, z, x) <=> Ahead(z, x)
  <2>1. ASSUME NEW x \in C, NEW z \in C PROVE Better(c, z, x) <=> Ahead(z, x)
    <3>1. CellsBefore(Src(c).shape, x) = R(x) /\ CellsBefore(Src(c).shape, z) = R(z)
      BY <1>1
    <3>. HIDE DEF R
    <3> QED BY <3>1 DEF Better
  <2> QED BY <2>1
<1>4. B \in [C -> SUBSET C] /\ \A x, z \in C : z \in B[x] <=> Better(c, z, x)
  OBVIOUS
<1>. HIDE DEF N, R, Up, B
<1>5. \A x \in C : ~Better(c, x, x)
  BY <1>1, <1>3
<1>6. \A x, y \in C : x = y \/ Better(c, x, y) \/ Better(c, y, x)
  <2>1. ASSUME NEW x \in C, NEW y \in C, x # y PROVE Better(c, x, y) \/ Better(c, y, x)
    <3>1. R(x) # R(y)
      BY <1>2, <2>1
    <3>2. PICK p \in Int, q \in Int, i \in Nat, j \in Nat : p = N(x) /\ q = N(y) /\ i = R(x) /\ j = R(y)
      BY <1>1
    <3>3. /\ Better(c, x, y) <=> (IF Up THEN p < q ELSE p > q) \/ (p = q /\ i < j)
          /\ Better(c, y, x) <=> (IF Up THEN q < p ELSE q > p) \/ (q = p /\ j < i)
      BY <1>3, <3>2
    <3>4. i # j
      BY <3>1, <3>2
    <3> QED BY ONLY <3>3, <3>4, p \in Int, q \in Int, i \in Nat, j \in Nat
  <2> QED BY <2>1
<1>7. \A x, y, z \in C : Better(c, x, y) /\ Better(c, z, x) => Better(c, z, y)
  BY <1>1, <1>3
<1>8. TotalOrder(C, B)
  BY <1>4, <1>5, <1>6, <1>7 DEF TotalOrder
<1> QED BY <1>8 DEF B

\* Exactly one cell has as many better ones as another.
LEMMA OneRanked ==
  ASSUME NEW c, Compares(c), NEW C \in SUBSET Cells(Src(c).shape), NEW x \in C
  PROVE  {w \in C : Cardinality({z \in C : Better(c, z, w)})
                      = Cardinality({z \in C : Better(c, z, x)})} = {x}
<1>. DEFINE B == [w \in C |-> {z \in C : Better(c, z, w)}]
<1>1. IsFiniteSet(C)
  <2>1. Src(c) \in Views /\ MetaOK(Src(c))
    BY DEF Compares, AllMetaOK, ViewsOf, Src
  <2> QED BY <2>1, FiniteCells, FS_Subset
<1>2. TotalOrder(C, B)
  BY BetterOrders
<1>3. \A w \in C : B[w] = {z \in C : Better(c, z, w)}
  OBVIOUS
<1>. HIDE DEF B
<1>4. PICK f \in Bijection(C, 0 .. Cardinality(C) - 1) : \A w \in C : f[w] = Cardinality(B[w])
  BY <1>1, <1>2, Ranks
<1>5. \A w \in C : Cardinality(B[w]) = Cardinality(B[x]) => w = x
  BY <1>4 DEF Bijection, Injection, IsInjective
<1> QED BY <1>3, <1>5

(* --- the cells under a window ---------------------------------------------------- *)
\* The pixel of the image under tap k of a window along its axis d, the taps that
\* fall inside the image, and the cell under one.
PoolPixel(c, oc, d, k) ==
  (oc[d + 2] * AtLeast1(c.attr.stride[d]) + k * AtLeast1(c.attr.dilation[d])) - c.attr.pad_before[d]
PoolTaps(c, oc) ==
  {t \in 0 .. c.attr.kernel[1] * c.attr.kernel[2] - 1 :
     /\ PoolPixel(c, oc, 1, t \div c.attr.kernel[2]) \in 0 .. Src(c).shape[3] - 1
     /\ PoolPixel(c, oc, 2, t % c.attr.kernel[2]) \in 0 .. Src(c).shape[4] - 1}
PoolCell(c, oc, t) ==
  [a \in 1 .. 4 |-> CASE a = 1 -> oc[1] [] a = 2 -> oc[2]
                      [] a = 3 -> PoolPixel(c, oc, 1, t \div c.attr.kernel[2])
                      [] a = 4 -> PoolPixel(c, oc, 2, t % c.attr.kernel[2])]

\* A window of an image: what is known of its place and its attributes.
Pools(c, oc) ==
  /\ Src(c) \in Views /\ MetaOK(Src(c)) /\ Rank(Src(c)) = 4 /\ c.attr \in PoolAttrs
  /\ oc[1] \in 0 .. Src(c).shape[1] - 1 /\ oc[2] \in 0 .. Src(c).shape[2] - 1
  /\ oc[3] \in Nat /\ oc[4] \in Nat

\* A later tap lies further on.
LEMMA PixelsGrow ==
  ASSUME NEW c, NEW oc, Pools(c, oc), NEW d \in {1, 2}, NEW k \in Nat
  PROVE  /\ PoolPixel(c, oc, d, k) \in Int
         /\ \A j \in Nat : k < j => PoolPixel(c, oc, d, k) < PoolPixel(c, oc, d, j)
<1>1. PICK s \in Nat, e \in Nat, p \in Nat :
        /\ s = AtLeast1(c.attr.stride[d]) /\ e = AtLeast1(c.attr.dilation[d])
        /\ p = c.attr.pad_before[d] /\ e >= 1
  <2>1. /\ c.attr.pad_before \in U32Pairs /\ c.attr.stride \in U32Pairs /\ c.attr.dilation \in U32Pairs
    BY DEF Pools, PoolAttrs
  <2> QED BY <2>1, AttrAssumption DEF U32Pairs, U32, AtLeast1
<1>2. PICK o \in Nat : o = oc[d + 2]
  <2>1. 1 + 2 = 3 /\ 2 + 2 = 4
    OBVIOUS
  <2> QED BY <2>1 DEF Pools
<1>3. PICK A \in Int : A = o * s - p
  <2>1. o * s - p \in Int
    OBVIOUS
  <2> QED BY <2>1
<1>4. ASSUME NEW j \in Nat PROVE PoolPixel(c, oc, d, j) = A + j * e /\ j * e \in Nat
  <2>1. PICK B \in Nat, J \in Nat : B = o * s /\ J = j * e
    <3>1. o * s \in Nat /\ j * e \in Nat
      OBVIOUS
    <3> QED BY <3>1
  <2>2. A = B - p
    BY <1>3, <2>1
  <2>3. PoolPixel(c, oc, d, j) = B + J - p
    BY <1>1, <1>2, <2>1 DEF PoolPixel
  <2> QED BY <2>1, <2>2, <2>3
<1>5. ASSUME NEW j \in Nat, k < j PROVE k * e < j * e
  <2>1. PICK m \in Nat : j = k + m /\ m >= 1
    <3>1. j - k \in Nat /\ j = k + (j - k) /\ j - k >= 1
      BY <1>5
    <3> QED BY <3>1
  <2>2. j * e = k * e + m * e /\ k * e \in Nat /\ m * e \in Nat
    BY <2>1
  <2>3. m * e >= 1
    <3>1. m * e # 0
      BY <1>1, <2>1
    <3> QED BY <2>2, <3>1
  <2> QED BY <2>2, <2>3
<1>6. PoolPixel(c, oc, d, k) = A + k * e /\ k * e \in Nat
  BY <1>4
<1>7. ASSUME NEW j \in Nat, k < j PROVE PoolPixel(c, oc, d, k) < PoolPixel(c, oc, d, j)
  <2>1. PICK x \in Nat, y \in Nat : x = k * e /\ y = j * e
    BY <1>4
  <2>2. x < y
    BY <1>5, <1>7, <2>1
  <2>3. PoolPixel(c, oc, d, k) = A + x /\ PoolPixel(c, oc, d, j) = A + y
    BY <1>4, <2>1
  <2> QED BY <2>2, <2>3
<1>8. PoolPixel(c, oc, d, k) \in Int
  BY <1>6
<1> QED BY <1>7, <1>8

\* The cell under a tap inside the image, and its linear index.
LEMMA PoolCellIs ==
  ASSUME NEW c, NEW oc, Pools(c, oc), NEW t \in PoolTaps(c, oc)
  PROVE  /\ PoolCell(c, oc, t) \in Cells(Src(c).shape)
         /\ PoolCell(c, oc, t) \in [1 .. 4 -> Nat]
         /\ t \in Nat /\ c.attr.kernel[1] \in Nat /\ c.attr.kernel[2] \in Nat
         /\ t \div c.attr.kernel[2] \in 0 .. c.attr.kernel[1] - 1
         /\ t % c.attr.kernel[2] \in 0 .. c.attr.kernel[2] - 1
         /\ t = (t \div c.attr.kernel[2]) * c.attr.kernel[2] + (t % c.attr.kernel[2])
<1>. DEFINE x == PoolCell(c, oc, t)
<1>1. c.attr.kernel[1] \in Nat /\ c.attr.kernel[2] \in Nat
  BY AttrAssumption DEF Pools, PoolAttrs, U32Pairs, U32
<1>2. Src(c).shape \in [1 .. 4 -> Nat] /\ Len(Src(c).shape) = 4
  BY ViewFacts DEF Pools, Rank
<1>3. /\ x[1] = oc[1] /\ x[2] = oc[2] /\ x[3] \in 0 .. Src(c).shape[3] - 1
      /\ x[4] \in 0 .. Src(c).shape[4] - 1 /\ DOMAIN x = 1 .. 4 /\ x = [a \in 1 .. 4 |-> x[a]]
  BY DEF PoolCell, PoolTaps
<1>4. \A a \in 1 .. 4 : x[a] \in 0 .. Src(c).shape[a] - 1
  <2>. HIDE DEF x
  <2>1. \A a \in 1 .. 4 : a \in {1, 2, 3, 4}
    OBVIOUS
  <2> QED BY <1>3, <2>1 DEF Pools
<1>5. x \in [1 .. 4 -> Nat]
  <2>. HIDE DEF x
  <2>1. \A a \in 1 .. 4 : x[a] \in Nat
    BY <1>2, <1>4
  <2> QED BY <1>3, <2>1
<1>6. x \in Cells(Src(c).shape)
  <2>. HIDE DEF x
  <2> QED BY <1>2, <1>4, <1>5, CellIn DEF InCells
<1>7. PICK A \in Nat, B \in Nat : A = c.attr.kernel[1] /\ B = c.attr.kernel[2]
  BY <1>1
<1>8. t \in 0 .. A * B - 1 /\ A * B \in Nat
  BY <1>7 DEF PoolTaps
<1>9. t \in Nat
  BY <1>8
<1>10. t \div B \in 0 .. A - 1 /\ t % B \in 0 .. B - 1 /\ t = (t \div B) * B + (t % B)
  BY <1>8, RowSplit
<1> QED BY <1>5, <1>6, <1>7, <1>9, <1>10

\* The cells under a window are those under its taps inside the image.
LEMMA PoolCellsAre ==
  ASSUME NEW c, NEW oc, Pools(c, oc)
  PROVE  PoolCells(c, oc) = {PoolCell(c, oc, t) : t \in PoolTaps(c, oc)}
<1>0. Src(c).shape \in [1 .. 4 -> Nat] /\ Len(Src(c).shape) = 4 /\ 1 + 2 = 3 /\ 2 + 2 = 4
  <2>1. Src(c).shape \in [1 .. 4 -> Nat] /\ Len(Src(c).shape) = 4
    BY ViewFacts DEF Pools, Rank
  <2> QED BY <2>1
<1>3. ASSUME NEW d \in {1, 2}
      PROVE  \A tap \in 0 .. c.attr.kernel[d] - 1 :
               PoolPixel(c, oc, d, tap) =
                 oc[d + 2] * AtLeast1(c.attr.stride[d]) + tap * AtLeast1(c.attr.dilation[d])
                   - c.attr.pad_before[d]
  <2>1. ASSUME NEW tap \in 0 .. c.attr.kernel[d] - 1
        PROVE  PoolPixel(c, oc, d, tap) =
                 oc[d + 2] * AtLeast1(c.attr.stride[d]) + tap * AtLeast1(c.attr.dilation[d])
                   - c.attr.pad_before[d]
    <3>1. PICK f \in Nat, e \in Nat, q \in Nat, m \in Nat :
            /\ f = AtLeast1(c.attr.stride[d]) /\ e = AtLeast1(c.attr.dilation[d])
            /\ q = c.attr.pad_before[d] /\ m = c.attr.kernel[d]
      <4>1. /\ c.attr.pad_before \in U32Pairs /\ c.attr.stride \in U32Pairs
            /\ c.attr.dilation \in U32Pairs /\ c.attr.kernel \in U32Pairs
        BY DEF Pools, PoolAttrs
      <4>2. \A z \in U32Pairs : z[d] \in Nat /\ AtLeast1(z[d]) \in Nat
        BY AttrAssumption DEF U32Pairs, U32, AtLeast1
      <4> QED BY <4>1, <4>2
    <3>2. PICK o \in Nat : o = oc[d + 2]
      BY <1>0 DEF Pools
    <3>3. tap \in Nat
      BY <3>1
    <3>4. PICK x \in Nat, y \in Nat : x = o * f /\ y = tap * e
      <4>1. o * f \in Nat /\ tap * e \in Nat
        BY <3>3
      <4> QED BY <4>1
    <3>5. (x + y) - q = x + (y - q)
      OBVIOUS
    <3> QED BY <3>1, <3>2, <3>4, <3>5 DEF PoolPixel
  <2> QED BY <2>1
<1>4. ASSUME NEW x
      PROVE  x \in PoolCells(c, oc) <=>
               /\ x \in Cells(Src(c).shape) /\ x[1] = oc[1] /\ x[2] = oc[2]
               /\ \A d \in {1, 2} : \E tap \in 0 .. c.attr.kernel[d] - 1 :
                    x[d + 2] = PoolPixel(c, oc, d, tap)
  BY <1>3 DEF PoolCells
<1>1. ASSUME NEW t \in PoolTaps(c, oc) PROVE PoolCell(c, oc, t) \in PoolCells(c, oc)
  <2>1. PICK k1 \in 0 .. c.attr.kernel[1] - 1, k2 \in 0 .. c.attr.kernel[2] - 1 :
          k1 = t \div c.attr.kernel[2] /\ k2 = t % c.attr.kernel[2]
    BY PoolCellIs
  <2>2. PICK x \in Cells(Src(c).shape) : x = PoolCell(c, oc, t)
    BY PoolCellIs
  <2>3. /\ x[1] = oc[1] /\ x[2] = oc[2]
        /\ x[3] = PoolPixel(c, oc, 1, k1) /\ x[4] = PoolPixel(c, oc, 2, k2)
    BY <2>1, <2>2 DEF PoolCell
  <2>4. \A d \in {1, 2} : \E tap \in 0 .. c.attr.kernel[d] - 1 : x[d + 2] = PoolPixel(c, oc, d, tap)
    <3>1. ASSUME NEW d \in {1, 2}
          PROVE  \E tap \in 0 .. c.attr.kernel[d] - 1 : x[d + 2] = PoolPixel(c, oc, d, tap)
      <4>1. CASE d = 1
        BY <1>0, <2>3, <4>1
      <4>2. CASE d = 2
        BY <1>0, <2>3, <4>2
      <4> QED BY <4>1, <4>2
    <3> QED BY <3>1
  <2>5. x \in PoolCells(c, oc)
    BY <1>4, <2>3, <2>4
  <2> QED BY <2>2, <2>5
<1>2. ASSUME NEW x \in PoolCells(c, oc) PROVE \E t \in PoolTaps(c, oc) : x = PoolCell(c, oc, t)
  <2>1. /\ x \in Cells(Src(c).shape) /\ x[1] = oc[1] /\ x[2] = oc[2]
        /\ \A d \in {1, 2} : \E tap \in 0 .. c.attr.kernel[d] - 1 : x[d + 2] = PoolPixel(c, oc, d, tap)
    BY <1>4
  <2>2. PICK k1 \in 0 .. c.attr.kernel[1] - 1 : x[3] = PoolPixel(c, oc, 1, k1)
    BY <1>0, <2>1
  <2>3. PICK k2 \in 0 .. c.attr.kernel[2] - 1 : x[4] = PoolPixel(c, oc, 2, k2)
    BY <1>0, <2>1
  <2>4. PICK A \in Nat, B \in Nat : A = c.attr.kernel[1] /\ B = c.attr.kernel[2]
    BY AttrAssumption DEF Pools, PoolAttrs, U32Pairs, U32
  <2>5. PICK t : t = k1 * B + k2
    OBVIOUS
  <2>6. k1 \in 0 .. A - 1 /\ k2 \in 0 .. B - 1
    BY <2>4
  <2>7. t \in 0 .. A * B - 1 /\ t % B = k2 /\ t \div B = k1
    BY <2>5, <2>6, RowCell
  <2>8. x \in [1 .. 4 -> Nat] /\ \A a \in 1 .. 4 : x[a] \in 0 .. Src(c).shape[a] - 1
    <3>1. InCells(4, Src(c).shape, x)
      BY <1>0, <2>1, CellIn
    <3> QED BY <3>1 DEF InCells
  <2>9. t \in PoolTaps(c, oc)
    BY <2>2, <2>3, <2>4, <2>7, <2>8 DEF PoolTaps
  <2>10. x = PoolCell(c, oc, t)
    <3>1. PICK z : z = PoolCell(c, oc, t)
      OBVIOUS
    <3>2. z \in [1 .. 4 -> Nat]
      BY <2>9, <3>1, PoolCellIs
    <3>3. z[1] = x[1] /\ z[2] = x[2] /\ z[3] = x[3] /\ z[4] = x[4]
      BY <2>1, <2>2, <2>3, <2>4, <2>7, <3>1 DEF PoolCell
    <3>4. \A a \in 1 .. 4 : a \in {1, 2, 3, 4}
      OBVIOUS
    <3>5. \A a \in 1 .. 4 : z[a] = x[a]
      BY <3>3, <3>4
    <3> QED BY <2>8, <3>1, <3>2, <3>5
  <2> QED BY <2>9, <2>10
<1> QED BY <1>1, <1>2

\* The scan meets them in the order of their linear indices, each at one place.
ScansInOrder(c, oc, n) ==
  /\ DOMAIN Window(c, oc) = 1 .. n
  /\ \A i \in 1 .. n : \E x \in PoolCells(c, oc) : Window(c, oc)[i] = RowMajor(Src(c).shape, x)
  /\ \A x \in PoolCells(c, oc) : \E i \in 1 .. n : Window(c, oc)[i] = RowMajor(Src(c).shape, x)
  /\ \A i, j \in 1 .. n : i < j => Window(c, oc)[i] < Window(c, oc)[j]

\* A window does.
LEMMA WindowScans ==
  ASSUME NEW c, NEW oc, Pools(c, oc)
  PROVE  \E n \in Nat : ScansInOrder(c, oc, n)
<1>. DEFINE s == Src(c).shape
            taps == PoolTaps(c, oc)
            kept == InOrder(taps)
            R(t) == RowMajor(s, PoolCell(c, oc, t))
<1>1. s \in [1 .. 4 -> Nat] /\ Len(s) = 4
  BY ViewFacts DEF Pools, Rank
<1>2. taps \in SUBSET Int /\ IsFiniteSet(taps)
  <2>1. PICK K \in Nat : K = c.attr.kernel[1] * c.attr.kernel[2]
    BY AttrAssumption DEF Pools, PoolAttrs, U32Pairs, U32
  <2>2. IsFiniteSet(0 .. K - 1)
    BY FS_Interval
  <2>3. taps \subseteq 0 .. K - 1
    BY <2>1 DEF PoolTaps
  <2>. HIDE DEF taps
  <2>4. IsFiniteSet(taps)
    BY <2>2, <2>3, FS_Subset
  <2> QED BY <2>3, <2>4
<1>3. ASSUME NEW t \in taps
      PROVE  R(t) = ((oc[1] * s[2] + oc[2]) * s[3] + PoolPixel(c, oc, 1, t \div c.attr.kernel[2])) * s[4]
                      + PoolPixel(c, oc, 2, t % c.attr.kernel[2])
  <2>1. PICK x \in [1 .. 4 -> Nat] : x = PoolCell(c, oc, t)
    BY PoolCellIs
  <2>2. RowMajor(s, x) = ((x[1] * s[2] + x[2]) * s[3] + x[3]) * s[4] + x[4]
    BY <1>1, RowMajorOfFour
  <2>3. /\ x[1] = oc[1] /\ x[2] = oc[2] /\ x[3] = PoolPixel(c, oc, 1, t \div c.attr.kernel[2])
        /\ x[4] = PoolPixel(c, oc, 2, t % c.attr.kernel[2])
    BY <2>1 DEF PoolCell
  <2> QED BY <2>1, <2>2, <2>3
<1>4. Window(c, oc) = [i \in DOMAIN kept |-> R(kept[i])]
  <2>. DEFINE raw(d, k) == oc[d + 2] * AtLeast1(c.attr.stride[d]) + k * AtLeast1(c.attr.dilation[d])
              at(t) == ((oc[1] * s[2] + oc[2]) * s[3] + raw(1, t \div c.attr.kernel[2])
                          - c.attr.pad_before[1]) * s[4]
                         + raw(2, t % c.attr.kernel[2]) - c.attr.pad_before[2]
  <2>0. \A k : /\ PoolPixel(c, oc, 1, k) = raw(1, k) - c.attr.pad_before[1]
               /\ PoolPixel(c, oc, 2, k) = raw(2, k) - c.attr.pad_before[2]
    <3>1. ASSUME NEW k, NEW d PROVE PoolPixel(c, oc, d, k) = raw(d, k) - c.attr.pad_before[d]
      BY DEF PoolPixel
    <3>. HIDE DEF raw
    <3> QED BY <3>1
  <2>1. Window(c, oc) = [i \in DOMAIN kept |-> at(kept[i])]
    <3>1. 1 + 2 = 3 /\ 2 + 2 = 4
      OBVIOUS
    <3>2. taps = {t \in 0 .. c.attr.kernel[1] * c.attr.kernel[2] - 1 :
                    /\ raw(1, t \div c.attr.kernel[2]) - c.attr.pad_before[1] \in 0 .. s[1 + 2] - 1
                    /\ raw(2, t % c.attr.kernel[2]) - c.attr.pad_before[2] \in 0 .. s[2 + 2] - 1}
      <4>1. s[1 + 2] = s[3] /\ s[2 + 2] = s[4]
        BY <3>1
      <4>. HIDE DEF raw
      <4> QED BY <2>0, <4>1 DEF PoolTaps
    <3>. HIDE DEF taps
    <3> QED BY <3>2 DEF Window
  <2>2. ASSUME NEW t \in taps PROVE at(t) = R(t)
    <3>. DEFINE u == raw(1, t \div c.attr.kernel[2])
                w == raw(2, t % c.attr.kernel[2])
                p == c.attr.pad_before[1]
                q == c.attr.pad_before[2]
    <3>1. PICK A \in Nat, B \in Nat : A = t \div c.attr.kernel[2] /\ B = t % c.attr.kernel[2]
      <4>1. PoolCell(c, oc, t) \in [1 .. 4 -> Nat] /\ t \div c.attr.kernel[2] \in 0 .. c.attr.kernel[1] - 1
            /\ t % c.attr.kernel[2] \in 0 .. c.attr.kernel[2] - 1
        BY PoolCellIs
      <4> QED BY <4>1
    <3>2. u - p = PoolPixel(c, oc, 1, A) /\ w - q = PoolPixel(c, oc, 2, B)
      <4>. HIDE DEF raw
      <4> QED BY <2>0, <3>1
    <3>3. p \in Nat /\ q \in Nat
      BY AttrAssumption DEF Pools, PoolAttrs, U32Pairs, U32
    <3>4. u \in Int /\ w \in Int
      <4>1. /\ AtLeast1(c.attr.stride[1]) \in Nat /\ AtLeast1(c.attr.dilation[1]) \in Nat
            /\ AtLeast1(c.attr.stride[2]) \in Nat /\ AtLeast1(c.attr.dilation[2]) \in Nat
        BY AttrAssumption DEF Pools, PoolAttrs, U32Pairs, U32, AtLeast1
      <4>2. oc[1 + 2] \in Nat /\ oc[2 + 2] \in Nat
        <5>1. 1 + 2 = 3 /\ 2 + 2 = 4
          OBVIOUS
        <5> QED BY <5>1 DEF Pools
      <4>3. ASSUME NEW o \in Nat, NEW f \in Nat, NEW k \in Nat, NEW e \in Nat PROVE o * f + k * e \in Int
        OBVIOUS
      <4> QED BY <3>1, <4>1, <4>2, <4>3
    <3>5. PICK g \in Int, h \in Int : g = (oc[1] * s[2] + oc[2]) * s[3] /\ h = s[4]
      <4>1. oc[1] \in Nat /\ oc[2] \in Nat /\ s[2] \in Nat /\ s[3] \in Nat /\ s[4] \in Nat
        BY <1>1 DEF Pools
      <4>2. ASSUME NEW i \in Nat, NEW j \in Nat, NEW k \in Nat, NEW m \in Nat PROVE (i * k + j) * m \in Int
        OBVIOUS
      <4> QED BY <4>1, <4>2
    <3>. HIDE DEF u, w, p, q
    <3>6. (g + u - p) * h + w - q = (g + (u - p)) * h + (w - q)
      <4>1. PICK z \in Int : z = g + u - p /\ z = g + (u - p)
        BY <3>3, <3>4
      <4>2. z * h \in Int
        OBVIOUS
      <4> QED BY <3>3, <3>4, <4>1, <4>2
    <3>7. at(t) = (g + u - p) * h + w - q
      BY <3>5 DEF u, w, p, q
    <3>8. R(t) = (g + PoolPixel(c, oc, 1, A)) * h + PoolPixel(c, oc, 2, B)
      BY <1>3, <3>1, <3>5
    <3> QED BY <3>2, <3>6, <3>7, <3>8
  <2>3. \A i \in DOMAIN kept : kept[i] \in taps
    BY <1>2, InOrderMembers
  <2>. HIDE DEF at, R, taps, kept
  <2> QED BY <2>1, <2>2, <2>3
<1>5. ASSUME NEW t \in taps, NEW u \in taps, t < u PROVE R(t) < R(u)
  <2>1. PICK B \in Nat, a \in Nat, b \in Nat, d \in Nat, e \in Nat :
          /\ B = c.attr.kernel[2] /\ a = t \div B /\ b = t % B /\ d = u \div B /\ e = u % B
          /\ t = a * B + b /\ u = d * B + e /\ b <= B - 1 /\ e <= B - 1
    <3>1. PICK A \in Nat, B \in Nat : A = c.attr.kernel[1] /\ B = c.attr.kernel[2]
      BY PoolCellIs
    <3>2. \A z \in taps : /\ z \div B \in 0 .. A - 1 /\ z % B \in 0 .. B - 1
                          /\ z = (z \div B) * B + (z % B)
      BY <3>1, PoolCellIs
    <3>3. \A z \in taps : \E f \in Nat, g \in Nat :
            f = z \div B /\ g = z % B /\ z = f * B + g /\ g <= B - 1
      <4>1. ASSUME NEW z \in taps
            PROVE  \E f \in Nat, g \in Nat : f = z \div B /\ g = z % B /\ z = f * B + g /\ g <= B - 1
        <5>1. z \div B \in Nat /\ z % B \in Nat /\ z % B <= B - 1
          BY <3>2
        <5> QED BY <3>2, <5>1
      <4> QED BY <4>1
    <3>4. PICK a \in Nat, b \in Nat : a = t \div B /\ b = t % B /\ t = a * B + b /\ b <= B - 1
      BY <3>3
    <3>5. PICK d \in Nat, e \in Nat : d = u \div B /\ e = u % B /\ u = d * B + e /\ e <= B - 1
      BY <3>3
    <3>6. B = c.attr.kernel[2]
      BY <3>1
    <3> QED BY ONLY <3>4, <3>5, <3>6, B \in Nat
  <2>2. PICK x \in [1 .. 4 -> Nat], y \in [1 .. 4 -> Nat] : x = PoolCell(c, oc, t) /\ y = PoolCell(c, oc, u)
    BY PoolCellIs
  <2>3. /\ x[1] = oc[1] /\ x[2] = oc[2] /\ y[1] = oc[1] /\ y[2] = oc[2]
        /\ x[3] = PoolPixel(c, oc, 1, a) /\ x[4] = PoolPixel(c, oc, 2, b)
        /\ y[3] = PoolPixel(c, oc, 1, d) /\ y[4] = PoolPixel(c, oc, 2, e)
    <3>1. \A z : /\ PoolCell(c, oc, z)[1] = oc[1] /\ PoolCell(c, oc, z)[2] = oc[2]
                 /\ PoolCell(c, oc, z)[3] = PoolPixel(c, oc, 1, z \div c.attr.kernel[2])
                 /\ PoolCell(c, oc, z)[4] = PoolPixel(c, oc, 2, z % c.attr.kernel[2])
      BY DEF PoolCell
    <3> QED BY <2>1, <2>2, <3>1
  <2>4. a < d \/ (a = d /\ b < e)
    <3>1. a <= d
      <4>1. SUFFICES ASSUME a > d PROVE FALSE
        OBVIOUS
      <4>2. PICK m \in Nat : a = d + 1 + m
        <5>1. a - d - 1 \in Nat /\ a = d + 1 + (a - d - 1)
          BY <4>1
        <5> QED BY <5>1
      <4>3. a * B = d * B + B + m * B /\ d * B \in Nat /\ m * B \in Nat
        BY <4>2
      <4>4. PICK p \in Nat, q \in Nat : p = d * B /\ q = m * B
        BY <4>3
      <4>5. t = p + B + q + b /\ u = p + e
        BY ONLY <2>1, <4>3, <4>4, B \in Nat
      <4>6. t < u /\ e <= B - 1
        BY <1>5, <2>1
      <4> QED BY ONLY <4>5, <4>6, p \in Nat, q \in Nat, B \in Nat, b \in Nat, e \in Nat
    <3>2. a = d => b < e
      BY <1>5, <2>1
    <3> QED BY <3>1, <3>2
  <2>5. ComesBefore(4, x, y)
    <3>1. CASE a < d
      <4>1. x[3] < y[3]
        BY <2>3, <3>1, PixelsGrow
      <4>2. \A k \in 1 .. 3 - 1 : k \in {1, 2}
        OBVIOUS
      <4>3. 3 \in 1 .. 4 /\ \A k \in 1 .. 3 - 1 : x[k] = y[k]
        BY <2>3, <4>2
      <4> QED BY <4>1, <4>3 DEF ComesBefore
    <3>2. CASE a = d /\ b < e
      <4>1. x[4] < y[4] /\ x[3] = y[3]
        BY <2>3, <3>2, PixelsGrow
      <4>2. \A k \in 1 .. 4 - 1 : k \in {1, 2, 3}
        OBVIOUS
      <4>3. 4 \in 1 .. 4 /\ \A k \in 1 .. 4 - 1 : x[k] = y[k]
        BY <2>3, <4>1, <4>2
      <4> QED BY <4>1, <4>3 DEF ComesBefore
    <3> QED BY <2>4, <3>1, <3>2
  <2>6. InCells(4, s, x) /\ InCells(4, s, y)
    BY <1>1, <2>2, PoolCellIs, CellIn
  <2>7. LinearBelow(s, x, y)
    BY <1>1, <2>5, <2>6, RowMajorGrows
  <2> QED BY <2>2, <2>7 DEF LinearBelow
<1>. HIDE DEF taps, R
<1>6. PICK n \in Nat :
        /\ kept \in [1 .. n -> taps] /\ \A t \in taps : \E i \in 1 .. n : kept[i] = t
        /\ \A i, j \in 1 .. n : i < j => kept[i] < kept[j]
  BY <1>2, InOrderMembers
<1>. HIDE DEF kept
<1>7. DOMAIN Window(c, oc) = 1 .. n /\ \A i \in 1 .. n : Window(c, oc)[i] = R(kept[i])
  BY <1>4, <1>6
<1>8. \A i, j \in 1 .. n : i < j => Window(c, oc)[i] < Window(c, oc)[j]
  BY <1>5, <1>6, <1>7
<1>9. ASSUME NEW i \in 1 .. n PROVE \E x \in PoolCells(c, oc) : Window(c, oc)[i] = RowMajor(s, x)
  BY <1>6, <1>7, PoolCellsAre DEF R, taps
<1>10. ASSUME NEW x \in PoolCells(c, oc) PROVE \E i \in 1 .. n : Window(c, oc)[i] = RowMajor(s, x)
  BY <1>6, <1>7, PoolCellsAre DEF R, taps
<1> QED BY <1>7, <1>8, <1>9, <1>10 DEF ScansInOrder

\* What the two outputs of MAX_POOL or TOP_K hold at one linear index.
ShownAt(c, l) ==
  LET y == Coordinates(Dst(c).shape, l)
  IN /\ Candidates(c, y) # {} => Cardinality(SelectedCells(c, y)) = 1
     /\ LogicalOutputs(c)[1][l] = ShownValue(c, y)
     /\ LogicalOutputs(c)[2][l] = ShownIndex(c, y)

\* A cell with as many better candidates as the place asks for is the selected one.
LEMMA SelectedIsOne ==
  ASSUME NEW c, Compares(c), NEW y, Candidates(c, y) \subseteq Cells(Src(c).shape),
         NEW x \in Candidates(c, y),
         Cardinality({z \in Candidates(c, y) : Better(c, z, x)}) = BetterThan(c, y)
  PROVE  /\ Cardinality(SelectedCells(c, y)) = 1
         /\ ShownValue(c, y) = Moved(LogicalAddr(Src(c))[RowMajor(Src(c).shape, x)])
         /\ ShownIndex(c, y) = Term("index", <<IndexOf(c, x)>>, <<>>)
<1>1. SelectedCells(c, y) = {x}
  <2>1. PICK C \in SUBSET Cells(Src(c).shape) : C = Candidates(c, y)
    OBVIOUS
  <2>2. {w \in C : Cardinality({z \in C : Better(c, z, w)})
                     = Cardinality({z \in C : Better(c, z, x)})} = {x}
    BY <2>1, OneRanked
  <2> QED BY <2>1, <2>2 DEF SelectedCells
<1>2. ShownCell(c, y) = x
  BY <1>1 DEF ShownCell
<1>3. LogicalAddr(Src(c))[RowMajor(Src(c).shape, x)] = At(Src(c), x)
  <2>1. Src(c) \in Views /\ MetaOK(Src(c))
    BY DEF Compares, AllMetaOK, ViewsOf, Src
  <2> QED BY <2>1, IndexOfCell
<1>4. Candidates(c, y) # {}
  OBVIOUS
<1>5. Cardinality(SelectedCells(c, y)) = 1
  BY <1>1, FS_Singleton
<1> QED BY <1>2, <1>3, <1>4, <1>5 DEF ShownValue, ShownIndex

\* MAX_POOL shows the first largest cell under the window, and its linear index.
LEMMA MaxPoolSelects ==
  ASSUME NEW c, c.in \in Seq(Views), c.out \in Seq(Views), c.attr \in PoolAttrs, MaxPoolOK(c),
         c.op = "MAX_POOL", \A i \in 0 .. c.in[1].bytes \div 2 - 1 : c.vals[i] \in Int,
         NEW l \in Linears(Dst(c))
  PROVE  ShownAt(c, l)
<1>. DEFINE s == Src(c).shape
            y == Coordinates(Dst(c).shape, l)
            addr == LogicalAddr(Src(c))
            values == Values(c)
            w == Window(c, y)
            C == PoolCells(c, y)
            best == IF w = <<>> THEN -1 ELSE w[FirstMax(w, values)]
<1>1. /\ 1 \in DOMAIN c.in /\ Src(c) \in Views /\ Dst(c) \in Views /\ AllMetaOK(c)
      /\ Src(c) = c.in[1] /\ Rank(Src(c)) = 4 /\ Rank(Dst(c)) = 4
      /\ Src(c).dtype = "F16" /\ Src(c).shape[1] = Dst(c).shape[1] /\ Src(c).shape[2] = Dst(c).shape[2]
  <2>1. ExpectIO(c, {1}, 1 .. 2) /\ AllMetaOK(c)
    BY DEF MaxPoolOK
  <2>2. {1} \subseteq Nat \ {0} /\ 1 .. 2 \subseteq Nat \ {0}
    OBVIOUS
  <2> QED BY <2>1, <2>2, SourceAndResult DEF MaxPoolOK
<1>2. y[1] \in 0 .. s[1] - 1 /\ y[2] \in 0 .. s[2] - 1 /\ y[3] \in Nat /\ y[4] \in Nat
  <2>1. 1 \in 1 .. 4 /\ 2 \in 1 .. 4 /\ 3 \in 1 .. 4 /\ 4 \in 1 .. 4
    OBVIOUS
  <2> QED BY <1>1, <2>1, ElementCoordinates
<1>3. Compares(c) /\ MetaOK(Src(c))
  BY <1>1 DEF Compares, AllMetaOK, ViewsOf
<1>4. Pools(c, y)
  BY <1>1, <1>2, <1>3 DEF Pools
<1>5. Candidates(c, y) = C /\ BetterThan(c, y) = 0 /\ C \subseteq Cells(s)
  BY DEF Candidates, BetterThan, PoolCells
<1>6. /\ LogicalOutputs(c)[1][l] =
           IF best = -1 THEN Term("minus_infinity", <<>>, <<>>) ELSE Moved(addr[best])
      /\ LogicalOutputs(c)[2][l] = Term("index", <<IF best = -1 THEN 0 ELSE best>>, <<>>)
  BY DEF LogicalOutputs, MaxPoolResult
<1>7. PICK n \in Nat : ScansInOrder(c, y, n)
  BY <1>4, WindowScans
<1>8. /\ DOMAIN w = 1 .. n /\ \A i \in 1 .. n : \E x \in C : w[i] = RowMajor(s, x)
      /\ \A x \in C : \E i \in 1 .. n : w[i] = RowMajor(s, x)
      /\ \A i, j \in 1 .. n : i < j => w[i] < w[j]
  BY <1>7 DEF ScansInOrder
<1>9. n = 0 => w = <<>>
  <2>1. PICK m \in Nat : DOMAIN w = 1 .. m /\ (m = 0 => w = <<>>)
    BY <1>1, <1>2, <1>4, WindowInside
  <2>2. n = 0 => m = 0
    BY <1>8, <2>1
  <2> QED BY <2>1, <2>2
<1>10. CASE C = {}
  <2>1. n = 0
    <3>1. n >= 1 => 1 \in 1 .. n
      OBVIOUS
    <3> QED BY <1>8, <1>10, <3>1
  <2>2. best = -1
    BY <1>9, <2>1
  <2>3. ShownValue(c, y) = Term("minus_infinity", <<>>, <<>>) /\ ShownIndex(c, y) = Term("index", <<0>>, <<>>)
    BY <1>5, <1>10 DEF ShownValue, ShownIndex
  <2> QED BY <1>5, <1>6, <1>10, <2>2, <2>3 DEF ShownAt
<1>11. CASE C # {}
  <2>0. n >= 1 /\ w # <<>>
    <3>1. 1 .. n # {}
      BY <1>8, <1>11
    <3> QED BY <1>8, <3>1
  <2>1. \A x \in C : /\ NumberAt(c, x) = values[RowMajor(s, x)] /\ NumberAt(c, x) \in Int
                     /\ CellsBefore(s, x) = RowMajor(s, x) /\ RowMajor(s, x) \in Nat
                     /\ RowMajor(s, x) \in Linears(Src(c))
    BY <1>3, <1>5, NumberOfCell
  <2>. HIDE DEF values, w, C
  <2>2. \A i \in 1 .. n : values[w[i]] \in Int /\ w[i] \in Nat
    <3>1. ASSUME NEW i \in 1 .. n PROVE values[w[i]] \in Int /\ w[i] \in Nat
      <4>1. PICK x \in C : w[i] = RowMajor(s, x)
        BY <1>8
      <4> QED BY <2>1, <4>1
    <3> QED BY <3>1
  <2>3. PICK i \in 1 .. n :
          /\ i = FirstMax(w, values)
          /\ \A j \in 1 .. n : values[w[j]] <= values[w[i]]
          /\ \A j \in 1 .. i - 1 : values[w[j]] < values[w[i]]
    BY <1>8, <2>0, <2>2, FirstMaxInside
  <2>4. PICK x \in C : w[i] = RowMajor(s, x)
    BY <1>8
  <2>5. ASSUME NEW z \in C PROVE ~Better(c, z, x)
    <3>1. PICK j \in 1 .. n : w[j] = RowMajor(s, z)
      BY <1>8
    <3>2. PICK p \in Int, q \in Int, f \in Nat, g \in Nat :
            p = NumberAt(c, z) /\ q = NumberAt(c, x) /\ f = w[j] /\ g = w[i]
      BY <2>1, <2>2
    <3>3. p = values[w[j]] /\ q = values[w[i]]
      BY <2>1, <2>4, <3>1, <3>2
    <3>4. Better(c, z, x) <=> p > q \/ (p = q /\ f < g)
      BY <2>1, <2>4, <3>1, <3>2 DEF Better
    <3>5. p <= q
      BY <2>3, <3>3
    <3>6. f < g => p < q
      <4>1. ASSUME f < g PROVE p < q
        <5>0. i < j => g < f
          BY <1>8, <3>2
        <5>1. i = j => f = g
          BY <3>2
        <5>2. j \in 1 .. i - 1
          <6>1. j < i
            BY ONLY <4>1, <5>0, <5>1, i \in 1 .. n, j \in 1 .. n, n \in Nat, f \in Nat, g \in Nat
          <6> QED BY <6>1
        <5> QED BY <2>3, <3>3, <5>2
      <4> QED BY <4>1
    <3> QED BY <3>4, <3>5, <3>6
  <2>6. Cardinality({z \in C : Better(c, z, x)}) = 0
    <3>1. {z \in C : Better(c, z, x)} = {}
      BY <2>5
    <3> QED BY <3>1, FS_EmptySet
  <2>7. best = RowMajor(s, x) /\ best # -1
    <3>1. RowMajor(s, x) \in Nat
      BY <2>1
    <3> QED BY <2>0, <2>3, <2>4, <3>1
  <2>8. IndexOf(c, x) = RowMajor(s, x)
    BY <2>1 DEF IndexOf
  <2>. HIDE DEF best
  <2>9. /\ Cardinality(SelectedCells(c, y)) = 1
        /\ ShownValue(c, y) = Moved(addr[RowMajor(s, x)])
        /\ ShownIndex(c, y) = Term("index", <<IndexOf(c, x)>>, <<>>)
    <3>1. x \in Candidates(c, y) /\ Candidates(c, y) \subseteq Cells(Src(c).shape)
      BY <1>5
    <3>2. Cardinality({z \in Candidates(c, y) : Better(c, z, x)}) = BetterThan(c, y)
      BY <1>5, <2>6
    <3> QED BY <1>3, <3>1, <3>2, SelectedIsOne
  <2> QED BY <1>6, <2>7, <2>8, <2>9 DEF ShownAt
<1> QED BY <1>10, <1>11

(* --- the rows of top_k ------------------------------------------------------------- *)
\* The digits of a linear index: row h before the axis, place e along it, t behind it.
HasDigits(l, h, k, I, t, e) ==
  /\ l \div (k * I) = h /\ l % I = t /\ (l \div I) % k = e
  /\ l = h * k * I + e * I + t

\* They can be read off.
LEMMA ThreeDigits ==
  ASSUME NEW h \in Nat, NEW k \in Nat, NEW I \in Nat, NEW t \in Nat, t < I, NEW e \in 0 .. k - 1,
         NEW l, l = (h * k + e) * I + t
  PROVE  HasDigits(l, h, k, I, t, e)
<1>1. PICK y \in Nat : y = h * k + e
  <2>1. h * k + e \in Nat
    OBVIOUS
  <2> QED BY <2>1
<1>2. t \in 0 .. I - 1
  OBVIOUS
<1>3. (y * I + t) \div I = y /\ (y * I + t) % I = t
  BY <1>2, LastDigit
<1>4. y % k = e
  BY <1>1, LastDigit
<1>5. PICK f \in Nat, K \in Nat : K = k * I /\ f = e * I + t /\ f \in 0 .. K - 1
  <2>1. e * I + t \in 0 .. k * I - 1 /\ k * I \in Nat
    BY <1>2, RowBound
  <2> QED BY <2>1
<1>6. (h * K + f) \div K = h
  BY <1>5, LastDigit
<1>7. y * I = h * k * I + e * I /\ h * k * I = h * K
  <2>1. PICK z \in Nat : z = h * k
    <3>1. h * k \in Nat
      OBVIOUS
    <3> QED BY <3>1
  <2>2. (z + e) * I = z * I + e * I
    BY ONLY z \in Nat, e \in 0 .. k - 1, k \in Nat, I \in Nat, Distribute
  <2>3. h * k * I = h * (k * I)
    OBVIOUS
  <2> QED BY <1>1, <1>5, <2>1, <2>2, <2>3
<1>8. PICK u \in Nat, w \in Nat : u = h * k * I /\ w = e * I
  <2>1. h * k * I \in Nat /\ e * I \in Nat
    OBVIOUS
  <2> QED BY <2>1
<1>9. y * I + t = u + w + t /\ y * I + t = h * K + f
  BY <1>5, <1>7, <1>8
<1>10. l = y * I + t
  BY <1>1
<1> QED BY <1>3, <1>4, <1>5, <1>6, <1>8, <1>9, <1>10 DEF HasDigits

\* Element j of the row: the digits are those of the cell whose place on the axis is j.
InRow(base, h, n, I, t, j) ==
  (base \div (n * I)) * n * I + j * I + (base % I) = (h * n + j) * I + t
\* So the code finds it.
LEMMA RowDigits ==
  ASSUME NEW h \in Nat, NEW n \in Nat, NEW I \in Nat, NEW t \in Nat, t < I, NEW j \in 0 .. n - 1,
         NEW base, base = h * n * I + t
  PROVE  InRow(base, h, n, I, t, j)
<1>1. 0 \in 0 .. n - 1
  OBVIOUS
<1>2. PICK z \in Nat : z = h * n * I
  <2>1. h * n * I \in Nat
    OBVIOUS
  <2> QED BY <2>1
<1>3. PICK b : b = (h * n + 0) * I + t
  OBVIOUS
<1>4. HasDigits(b, h, n, I, t, 0)
  BY <1>1, <1>3, ThreeDigits
<1>5. b = base
  <2>1. b = z + 0 * I + t
    BY <1>2, <1>4 DEF HasDigits
  <2> QED BY <1>2, <2>1
<1>6. base \div (n * I) = h /\ base % I = t
  BY <1>4, <1>5 DEF HasDigits
<1>7. PICK v : v = (h * n + j) * I + t
  OBVIOUS
<1>8. HasDigits(v, h, n, I, t, j)
  BY <1>7, ThreeDigits
<1>9. v = h * n * I + j * I + t
  BY <1>8 DEF HasDigits
<1> QED BY <1>6, <1>7, <1>9 DEF InRow

\* The cells of a row, their linear indices, and the place that is asked for.
PlacedRow(c, y, row, s, n) ==
  LET a == AxisOf(c, Src(c))  X(j) == [y EXCEPT ![a] = j - 1]
  IN /\ n \in Nat /\ DOMAIN row = 1 .. n /\ s \in 0 .. n - 1 /\ BetterThan(c, y) = s
     /\ \A j \in 1 .. n : /\ X(j) \in Cells(Src(c).shape) /\ RowMajor(Src(c).shape, X(j)) = row[j]
                           /\ X(j)[a] = j - 1
     /\ \A i, j \in 1 .. n : i < j => row[i] < row[j]
     /\ Candidates(c, y) = {X(j) : j \in 1 .. n}

\* TOP_K takes row and place of an output cell from its linear index.
LEMMA TopKRow ==
  ASSUME NEW c, c.in \in Seq(Views), c.out \in Seq(Views), c.op = "TOP_K", c.attr.axis \in I32, TopKOK(c),
         NEW l \in Linears(Dst(c))
  PROVE  LET axis == AxisOf(c, Src(c))
             shape == Src(c).shape
             inner == Inner(shape, axis)
             k == c.attr.k
             row == RowOf(shape, axis, (l \div (k * inner)) * shape[axis] * inner + (l % inner))
         IN PlacedRow(c, Coordinates(Dst(c).shape, l), row, (l \div inner) % k, shape[axis])
<1>. DEFINE a == AxisOf(c, Src(c))
            shape == Src(c).shape
            u == Dst(c).shape
            m == Rank(Src(c))
            k == c.attr.k
            inner == Inner(shape, a)
            base == (l \div (k * inner)) * shape[a] * inner + (l % inner)
            row == RowOf(shape, a, base)
            y == Coordinates(u, l)
            X(j) == [y EXCEPT ![a] = j - 1]
<1>1. /\ 1 \in DOMAIN c.in /\ Src(c) \in Views /\ Dst(c) \in Views /\ AllMetaOK(c)
      /\ Src(c) = c.in[1] /\ m \in Nat /\ shape \in [1 .. m -> Nat] /\ Len(shape) = m
      /\ u = [shape EXCEPT ![a] = k] /\ k \in 1 .. shape[a]
      /\ Axes(Src(c)) = 1 .. m /\ Dst(c) = c.out[1] /\ 1 \in DOMAIN c.out /\ Len(u) = Rank(Dst(c))
  <2>1. ExpectIO(c, {1}, {2}) /\ AllMetaOK(c)
    BY DEF TopKOK
  <2>2. {1} \subseteq Nat \ {0} /\ {2} \subseteq Nat \ {0}
    OBVIOUS
  <2> QED BY <2>1, <2>2, SourceAndResult DEF TopKOK
<1>2. a \in 1 .. m /\ AxisIn(c, Src(c)) = a
  BY <1>1, AxisInside, AxisFrom DEF TopKOK, AxisOf
<1>. HIDE DEF a
<1>3. /\ Rank(Dst(c)) = m /\ u \in [1 .. m -> Nat] /\ Len(u) = m /\ u[a] = k
      /\ \A b \in 1 .. m \ {a} : u[b] = shape[b]
  <2>1. Len(u) = m
    BY <1>1, <1>2
  <2>2. u \in [1 .. m -> Nat] /\ u[a] = k /\ \A b \in 1 .. m \ {a} : u[b] = shape[b]
    BY <1>1, <1>2
  <2> QED BY <1>1, <2>1, <2>2
<1>4. MetaOK(Dst(c)) /\ MetaOK(Src(c))
  BY <1>1 DEF AllMetaOK, ViewsOf
<1>5. /\ y \in [1 .. m -> Nat] /\ InCells(m, u, y) /\ RowMajor(u, y) = l
      /\ \A b \in 1 .. m : y[b] \in 0 .. u[b] - 1
  <2>1. y \in Cells(u) /\ RowMajor(u, y) = l
    BY <1>1, <1>4, CellOfIndex
  <2>2. InCells(m, u, y)
    BY <1>1, <1>3, <2>1, CellIn
  <2> QED BY <2>1, <2>2 DEF InCells
<1>. HIDE DEF y
<1>6. PICK n \in Nat, K \in Nat : n = shape[a] /\ K = k /\ K \in 1 .. n
  <2>1. PICK n \in Nat : n = shape[a]
    BY <1>1, <1>2
  <2>2. k \in 1 .. n
    BY <1>1, <2>1
  <2>. HIDE DEF shape, k
  <2> QED BY <2>1, <2>2
<1>7. ASSUME NEW j \in 1 .. n
      PROVE  /\ X(j) \in Cells(shape) /\ RowMajor(shape, X(j)) = row[j]
             /\ X(j)[a] = j - 1 /\ (l \div inner) % k = y[a]
             /\ \E h \in Nat, I \in Nat, t \in Nat :
                  /\ I = inner /\ I >= 1 /\ h = l \div (k * inner) /\ t = l % inner
                  /\ RowMajor(shape, X(j)) = (h * n + (j - 1)) * I + t
  <2>1. /\ X(j) \in [1 .. m -> Nat] /\ X(j)[a] = j - 1 /\ \A b \in 1 .. m \ {a} : X(j)[b] = y[b]
        /\ j - 1 \in 0 .. n - 1
    BY <1>2, <1>5
  <2>2. \A b \in 1 .. m : X(j)[b] \in 0 .. shape[b] - 1
    <3>. HIDE DEF X, shape, u
    <3>1. ASSUME NEW b \in 1 .. m PROVE X(j)[b] \in 0 .. shape[b] - 1
      <4>1. CASE b = a
        BY <1>6, <2>1, <4>1
      <4>2. CASE b # a
        BY <1>3, <1>5, <2>1, <4>2
      <4> QED BY <4>1, <4>2
    <3> QED BY <3>1
  <2>3. InCells(m, shape, X(j))
    <3>. HIDE DEF X, shape, m
    <3> QED BY <2>1, <2>2 DEF InCells
  <2>4. X(j) \in Cells(shape)
    <3>. HIDE DEF X
    <3> QED BY <1>1, <2>3, CellIn
  <2>5. SameDigits(a, shape, X(j), u, y)
    <3>1. \A b \in 1 .. m \ {a} : y[b] = X(j)[b]
      BY <2>1
    <3>. HIDE DEF X, shape, u, m
    <3> QED BY <1>1, <1>2, <1>3, <1>5, <2>3, <3>1, SplitAtAxis
  <2>. HIDE DEF X
  <2>6. PICK h \in Nat, I \in Nat, t \in Nat :
          /\ t < I /\ I = inner
          /\ RowMajor(shape, X(j)) = (h * shape[a] + X(j)[a]) * I + t
          /\ RowMajor(u, y) = (h * u[a] + y[a]) * I + t
    BY <2>5 DEF SameDigits, Inner
  <2>7. PICK e \in 0 .. K - 1 : e = y[a] /\ l = (h * K + e) * I + t
    BY <1>2, <1>3, <1>5, <1>6, <2>6
  <2>8. l \div (K * I) = h /\ l % I = t /\ (l \div I) % K = e
    <3>1. PICK z : z = (h * K + e) * I + t
      OBVIOUS
    <3>2. HasDigits(z, h, K, I, t, e)
      BY <2>6, <3>1, ThreeDigits
    <3> QED BY <2>7, <3>1, <3>2 DEF HasDigits
  <2>9. base = h * n * I + t
    BY <1>6, <2>6, <2>8
  <2>10. PICK g \in 0 .. n - 1 : g = j - 1
    BY <2>1
  <2>11. RowMajor(shape, X(j)) = (h * n + g) * I + t
    BY <1>6, <2>1, <2>6, <2>10
  <2>12. (base \div (n * I)) * n * I + g * I + (base % I) = (h * n + g) * I + t
    <3>1. t < I
      BY <2>6
    <3>2. PICK b : b = base
      OBVIOUS
    <3>3. b = h * n * I + t
      BY <2>9, <3>2
    <3>4. InRow(b, h, n, I, t, g)
      BY <3>1, <3>3, RowDigits
    <3> QED BY <3>2, <3>4 DEF InRow
  <2>13. row[j] = (base \div (n * I)) * n * I + g * I + (base % I)
    <3>. HIDE DEF base
    <3>1. row[j] = RowAt(shape, a, base, g)
      BY <1>6, <2>10 DEF RowOf
    <3> QED BY <1>6, <2>6, <3>1 DEF RowAt
  <2>14. I >= 1
    BY <2>6
  <2> QED BY <1>6, <2>1, <2>4, <2>6, <2>7, <2>8, <2>10, <2>11, <2>12, <2>13, <2>14
<1>. HIDE DEF base
<1>8. DOMAIN row = 1 .. n
  BY <1>6 DEF RowOf
<1>. HIDE DEF row
<1>9. (l \div inner) % k = y[a] /\ y[a] \in 0 .. n - 1
  <2>1. 1 \in 1 .. n
    BY <1>6
  <2>2. y[a] \in 0 .. K - 1
    BY <1>2, <1>3, <1>5, <1>6
  <2>3. y[a] \in 0 .. n - 1
    BY <1>6, <2>2
  <2> QED BY <1>7, <2>1, <2>3
<1>10. \A i, j \in 1 .. n : i < j => row[i] < row[j]
  <2>1. ASSUME NEW i \in 1 .. n, NEW j \in 1 .. n, i < j PROVE row[i] < row[j]
    <3>1. PICK h \in Nat, I \in Nat, t \in Nat :
            /\ I >= 1 /\ I = inner /\ h = l \div (k * inner) /\ t = l % inner
            /\ row[i] = (h * n + (i - 1)) * I + t
      <4>1. RowMajor(shape, X(i)) = row[i]
        BY <1>7
      <4>. HIDE DEF X
      <4> QED BY <1>7, <4>1
    <3>2. row[j] = (h * n + (j - 1)) * I + t
      <4>1. RowMajor(shape, X(j)) = row[j]
        BY <1>7
      <4>. HIDE DEF X
      <4> QED BY <1>7, <3>1, <4>1
    <3>3. PICK p \in Nat, q \in Nat : p = h * n + (i - 1) /\ q = h * n + (j - 1) /\ p < q
      <4>1. h * n \in Nat
        OBVIOUS
      <4> QED BY <2>1, <4>1
    <3>4. PICK d \in Nat : q = p + d /\ d >= 1
      <4>1. q - p \in Nat /\ q = p + (q - p) /\ q - p >= 1
        BY <3>3
      <4> QED BY <4>1
    <3>5. q * I = p * I + d * I /\ p * I \in Nat /\ d * I \in Nat
      BY <3>4
    <3>6. d * I # 0
      BY <3>1, <3>4
    <3>7. PICK w \in Nat, v \in Nat : w = p * I /\ v = d * I /\ v >= 1
      BY <3>5, <3>6
    <3>8. row[i] = w + t /\ row[j] = w + v + t
      BY <3>1, <3>2, <3>3, <3>5, <3>7
    <3> QED BY ONLY <3>7, <3>8, t \in Nat, w \in Nat, v \in Nat
  <2> QED BY <2>1
<1>11. Candidates(c, y) = {X(j) : j \in 1 .. n}
  <2>1. Candidates(c, y) = {x \in Cells(shape) : \A b \in 1 .. m \ {a} : x[b] = y[b]}
    BY <1>1, <1>2 DEF Candidates, RowCells, Agree
  <2>2. ASSUME NEW j \in 1 .. n PROVE X(j) \in Candidates(c, y)
    <3>1. X(j) \in Cells(shape)
      BY <1>7
    <3>2. \A b \in 1 .. m \ {a} : X(j)[b] = y[b]
      BY <1>5
    <3> QED BY <2>1, <3>1, <3>2
  <2>3. ASSUME NEW x \in Candidates(c, y) PROVE \E j \in 1 .. n : x = X(j)
    <3>1. x \in Cells(shape) /\ \A b \in 1 .. m \ {a} : x[b] = y[b]
      BY <2>1
    <3>2. x \in [1 .. m -> Nat] /\ \A b \in 1 .. m : x[b] \in 0 .. shape[b] - 1
      <4>1. InCells(m, shape, x)
        BY <1>1, <3>1, CellIn
      <4> QED BY <4>1 DEF InCells
    <3>3. x[a] \in 0 .. n - 1
      BY <1>2, <1>6, <3>2
    <3>4. PICK j \in 1 .. n : j - 1 = x[a]
      <4>1. x[a] + 1 \in 1 .. n /\ (x[a] + 1) - 1 = x[a]
        BY <3>3
      <4> QED BY <4>1
    <3>5. \A b \in 1 .. m : X(j)[b] = x[b]
      BY <1>5, <3>1, <3>4
    <3>6. DOMAIN X(j) = 1 .. m /\ X(j) = [b \in 1 .. m |-> X(j)[b]]
      BY <1>5
    <3>7. x = X(j)
      <4>1. x = [b \in 1 .. m |-> x[b]]
        BY <3>2
      <4>. HIDE DEF X, m
      <4> QED BY <3>5, <3>6, <4>1
    <3> QED BY <3>7
  <2>. HIDE DEF X
  <2> QED BY <2>2, <2>3
<1>12. BetterThan(c, y) = y[a]
  BY <1>2 DEF BetterThan
<1>13. PlacedRow(c, y, row, (l \div inner) % k, n)
  BY <1>7, <1>8, <1>9, <1>10, <1>11, <1>12 DEF PlacedRow, a
<1> QED BY <1>6, <1>13 DEF row, base, y, a

\* TOP_K shows the cell of the row with as many better ones as the place says,
\* and where on the axis it lies.
LEMMA TopKSelects ==
  ASSUME NEW c, c.in \in Seq(Views), c.out \in Seq(Views), c.op = "TOP_K", c.attr.axis \in I32, TopKOK(c),
         \A i \in 0 .. c.in[1].bytes \div 2 - 1 : c.vals[i] \in Int,
         NEW l \in Linears(Dst(c))
  PROVE  ShownAt(c, l)
<1>. DEFINE a == AxisOf(c, Src(c))
            shape == Src(c).shape
            inner == Inner(shape, a)
            k == c.attr.k
            addr == LogicalAddr(Src(c))
            values == Values(c)
            base == (l \div (k * inner)) * shape[a] * inner + (l % inner)
            row == RowOf(shape, a, base)
            s == (l \div inner) % k
            pick == Ranked(c, row, values, s)
            y == Coordinates(Dst(c).shape, l)
            X(j) == [y EXCEPT ![a] = j - 1]
            C == Candidates(c, y)
<1>1. PlacedRow(c, y, row, s, shape[a])
  BY TopKRow
<1>2. PICK n \in Nat : n = shape[a]
  BY <1>1 DEF PlacedRow
<1>3. /\ DOMAIN row = 1 .. n /\ s \in 0 .. n - 1 /\ BetterThan(c, y) = s
      /\ \A j \in 1 .. n : /\ X(j) \in Cells(shape) /\ RowMajor(shape, X(j)) = row[j]
                           /\ X(j)[a] = j - 1
      /\ \A i, j \in 1 .. n : i < j => row[i] < row[j]
      /\ C = {X(j) : j \in 1 .. n}
  BY <1>1, <1>2 DEF PlacedRow
<1>4. Compares(c)
  <2>1. ExpectIO(c, {1}, {2}) /\ AllMetaOK(c) /\ Src(c).dtype = "F16"
    BY DEF TopKOK
  <2>2. 1 \in DOMAIN c.in
    BY <2>1 DEF ExpectIO
  <2> QED BY <2>1, <2>2 DEF Compares, Src
<1>5. /\ LogicalOutputs(c)[1][l] = Moved(addr[row[pick]])
      /\ LogicalOutputs(c)[2][l] = Term("index", <<pick - 1>>, <<>>)
  BY DEF LogicalOutputs, TopKResult
<1>6. AxisIn(c, Src(c)) = a
  BY AxisFrom DEF TopKOK, AxisOf
<1>. HIDE DEF row, s, values, y, X
<1>7. \A j \in 1 .. n : /\ values[row[j]] = NumberAt(c, X(j)) /\ NumberAt(c, X(j)) \in Int
                        /\ CellsBefore(shape, X(j)) = row[j] /\ row[j] \in Nat
  <2>1. ASSUME NEW j \in 1 .. n
        PROVE  /\ values[row[j]] = NumberAt(c, X(j)) /\ NumberAt(c, X(j)) \in Int
               /\ CellsBefore(shape, X(j)) = row[j] /\ row[j] \in Nat
    <3>1. X(j) \in Cells(Src(c).shape) /\ RowMajor(Src(c).shape, X(j)) = row[j]
      BY <1>3
    <3> QED BY <1>4, <3>1, NumberOfCell DEF values
  <2> QED BY <2>1
<1>8. ASSUME NEW i \in 1 .. n, NEW j \in 1 .. n
      PROVE  Better(c, X(i), X(j)) <=> Precedes(c, row, values, i, j)
  <2>1. PICK p \in Int, q \in Int, f \in Nat, g \in Nat :
          /\ p = NumberAt(c, X(i)) /\ q = NumberAt(c, X(j)) /\ f = row[i] /\ g = row[j]
    BY <1>7
  <2>2. f < g <=> i < j
    <3>1. (i < j => f < g) /\ (j < i => g < f) /\ (i = j => f = g)
      BY <1>3, <2>1
    <3> QED BY ONLY <3>1, i \in 1 .. n, j \in 1 .. n, n \in Nat, f \in Nat, g \in Nat
  <2>3. Better(c, X(i), X(j)) <=> (IF c.attr.largest = 0 THEN p < q ELSE p > q) \/ (p = q /\ f < g)
    BY <1>7, <2>1 DEF Better
  <2>4. Precedes(c, row, values, i, j) <=> (IF c.attr.largest # 0 THEN p > q ELSE p < q) \/ (p = q /\ i < j)
    BY <1>7, <2>1 DEF Precedes
  <2> QED BY <2>2, <2>3, <2>4
<1>9. pick \in 1 .. n /\ Cardinality(AheadOf(c, row, values, pick)) = s
  <2>1. \A i \in 1 .. n : values[row[i]] \in Int
    BY <1>7
  <2> QED BY <1>3, <2>1, RankedInside
<1>. HIDE DEF pick
<1>10. Cardinality({z \in C : Better(c, z, X(pick))}) = s
  <2>. DEFINE A == AheadOf(c, row, values, pick)
              B == {z \in C : Better(c, z, X(pick))}
              f == [j \in A |-> X(j)]
  <2>1. A \subseteq 1 .. n /\ \A j \in 1 .. n : j \in A <=> X(j) \in B
    BY <1>3, <1>8, <1>9 DEF AheadOf
  <2>2. \A i, j \in 1 .. n : X(i) = X(j) => i = j
    <3>1. ASSUME NEW i \in 1 .. n, NEW j \in 1 .. n, X(i) = X(j) PROVE i = j
      <4>1. i - 1 = j - 1
        BY <1>3, <3>1
      <4> QED BY <4>1
    <3> QED BY <3>1
  <2>3. f \in [A -> B]
    BY <2>1
  <2>4. \A z \in B : \E j \in A : f[j] = z
    <3>1. ASSUME NEW z \in B PROVE \E j \in A : f[j] = z
      <4>1. PICK j \in 1 .. n : z = X(j)
        BY <1>3
      <4> QED BY <2>1, <4>1
    <3> QED BY <3>1
  <2>5. \A i, j \in A : f[i] = f[j] => i = j
    <3>1. \A i \in A : f[i] = X(i) /\ i \in 1 .. n
      BY <2>1
    <3>. HIDE DEF A, f
    <3> QED BY <2>2, <3>1
  <2>6. IsFiniteSet(A)
    <3>1. IsFiniteSet(1 .. n)
      BY FS_Interval
    <3>. HIDE DEF A
    <3> QED BY <2>1, <3>1, FS_Subset
  <2>7. f \in Bijection(A, B)
    <3>. HIDE DEF f, A, B
    <3> QED BY <2>3, <2>4, <2>5 DEF Bijection, Injection, Surjection, IsInjective
  <2>8. Cardinality(B) = Cardinality(A)
    <3>1. ExistsBijection(A, B)
      BY <2>7 DEF ExistsBijection
    <3>. HIDE DEF A, B
    <3> QED BY <2>6, <3>1, FS_Bijection
  <2> QED BY <1>9, <2>8
<1>11. /\ X(pick) \in C /\ C \subseteq Cells(shape) /\ RowMajor(shape, X(pick)) = row[pick]
       /\ IndexOf(c, X(pick)) = pick - 1
  BY <1>3, <1>6, <1>9 DEF IndexOf
<1>12. /\ Cardinality(SelectedCells(c, y)) = 1
       /\ ShownValue(c, y) = Moved(addr[row[pick]])
       /\ ShownIndex(c, y) = Term("index", <<pick - 1>>, <<>>)
  <2>1. PICK x : x = X(pick)
    OBVIOUS
  <2>2. x \in Candidates(c, y) /\ Candidates(c, y) \subseteq Cells(Src(c).shape)
        /\ Cardinality({z \in Candidates(c, y) : Better(c, z, x)}) = BetterThan(c, y)
    BY <1>3, <1>10, <1>11, <2>1
  <2>3. /\ Cardinality(SelectedCells(c, y)) = 1
        /\ ShownValue(c, y) = Moved(addr[RowMajor(shape, x)])
        /\ ShownIndex(c, y) = Term("index", <<IndexOf(c, x)>>, <<>>)
    BY <1>4, <2>2, SelectedIsOne
  <2> QED BY <1>11, <2>1, <2>3
<1> QED BY <1>5, <1>12 DEF ShownAt, y

(* --- what memory holds at the end of a call with two outputs ----------------------- *)
\* After the second output memory holds the elements of both, the second ones on top.
WrittenTwice ==
  LET both == After(After(UntouchedMem, Stores(Call, 1)), Stores(Call, 2))
  IN /\ pc = "writing" /\ next = 3 => mem = both
     /\ Completed /\ Len(Call.out) = 2 => mem = both

\* Every step keeps it.
LEMMA WrittenTwiceKept ==
  ASSUME IInv, WrittenOnce, WrittenTwice, [Next]_vars
  PROVE  WrittenTwice'
<1>1. CASE Entry
  <2>1. node = FreshNode /\ node' = node /\ pc' \in {"refused", "submitted"}
    BY <1>1 DEF IInv, Idle, Entry, RefuseRequest, RunRequest, SubmitDesc
  <2> QED BY <2>1 DEF WrittenTwice, Completed, FreshNode
<1>2. CASE RejectCounts \/ RejectCall
  BY <1>2 DEF RejectCounts, RejectCall, Fail, WrittenTwice, Completed
<1>3. CASE StartCall \/ Panic
  <2>1. node = FreshNode /\ node' = node /\ (pc' = "writing" => next' = 1)
    BY <1>3 DEF IInv, Idle, StartCall, Panic
  <2> QED BY <2>1 DEF WrittenTwice, Completed, FreshNode
<1>4. CASE WriteOutput
  <2>1. Writing /\ node = FreshNode /\ next \in Nat /\ pc = "writing"
    BY <1>4, RequestAssumption DEF IInv, WriteOutput, Writing
  <2>2. CASE LengthOK(Call, next)
    <3>1. /\ mem' = After(mem, Stores(Call, next)) /\ next' = next + 1
          /\ desc' = desc /\ node' = node
      BY <1>4, <2>2 DEF WriteOutput, Call
    <3>2. Call' = Call
      BY <3>1 DEF Call
    <3>3. next' = 3 => next = 2 /\ mem = After(UntouchedMem, Stores(Call, 1))
      BY <2>1, <3>1 DEF WrittenOnce
    <3> QED BY <2>1, <3>1, <3>2, <3>3 DEF WrittenTwice, Completed, FreshNode
  <2>3. CASE ~LengthOK(Call, next)
    <3>1. Fail
      BY <1>4, <2>3 DEF WriteOutput, Call
    <3> QED BY <3>1 DEF Fail, WrittenTwice, Completed
  <2> QED BY <2>2, <2>3
<1>5. CASE Succeed
  <2>1. Writing /\ pc = "writing" /\ next > desc.output_count
        /\ pc' = "done" /\ desc' = desc /\ mem' = mem /\ next' = next
    BY <1>5 DEF IInv, Succeed
  <2>2. Call' = Call
    BY <2>1 DEF Call
  <2>3. ASSUME Len(Call.out) = 2 PROVE next = 3
    <3>1. desc.output_count = 2
      BY <2>1, <2>3, CallViews DEF Writing, Started, Call
    <3>2. next \in 1 .. desc.output_count + 1
      BY <2>1 DEF Writing
    <3> QED BY <2>1, <3>1, <3>2
  <2> QED BY <2>1, <2>2, <2>3 DEF WrittenTwice
<1>6. CASE UNCHANGED vars
  BY <1>6 DEF vars, WrittenTwice, Completed, Call
<1> QED BY <1>1, <1>2, <1>3, <1>4, <1>5, <1>6 DEF Next, Kernel

\* So memory is what the two outputs made of it.
LEMMA WrittenTwiceHolds == Spec => []WrittenTwice
<1>1. Init => WrittenTwice
  BY DEF Init, WrittenTwice, Completed, FreshNode
<1> QED BY <1>1, Invariance, WrittenOnceHolds, WrittenTwiceKept, PTL DEF Spec

\* The elements of one output keep what they hold while another one is written that
\* shares no byte with it.
LEMMA KeptApart ==
  ASSUME NEW v \in Views, MetaOK(v), NEW w \in Views, MetaOK(w), ~Overlap(v, w),
         NEW y \in Cells(v.shape), NEW m, NEW terms
  PROVE  Held(After(m, WriteLogical(w, terms)), At(v, y)) = Held(m, At(v, y))
<1>. DEFINE a == At(v, y)
            s == WriteLogical(w, terms)
<1>1. /\ DOMAIN s = Linears(w) /\ \A l \in Linears(w) : s[l].at = LogicalAddr(w)[l]
  BY DEF WriteLogical
<1>2. PICK r \in Linears(v) : LogicalAddr(v)[r] = a
  BY IndexOfCell
<1>3. a \in v.data .. v.data + v.bytes - SizeOf(v)
  BY <1>2, LogicalAddrInBounds
<1>4. ASSUME NEW l \in Linears(w) PROVE s[l].at # a
  <2>1. LogicalAddr(w)[l] \in w.data .. w.data + w.bytes - SizeOf(w)
    BY LogicalAddrInBounds
  <2>2. PICK d \in Nat, b \in Nat, z \in Nat, e \in Nat, f \in Nat, g \in Nat :
          /\ d = v.data /\ b = v.bytes /\ z = SizeOf(v) /\ e = w.data /\ f = w.bytes /\ g = SizeOf(w)
          /\ z >= 1 /\ g >= 1
    <3>1. SizeOf(v) \in 1 .. 8 /\ SizeOf(w) \in 1 .. 8
      BY SizeFacts DEF MetaOK
    <3>2. v.data \in Nat /\ v.bytes \in Nat /\ w.data \in Nat /\ w.bytes \in Nat
      BY ViewFacts
    <3>3. \A i \in 1 .. 8 : i \in Nat /\ i >= 1
      OBVIOUS
    <3>4. SizeOf(v) \in Nat /\ SizeOf(v) >= 1 /\ SizeOf(w) \in Nat /\ SizeOf(w) >= 1
      BY <3>1, <3>3
    <3> QED BY ONLY <3>2, <3>4
  <2>3. ~(d < e + f /\ e < d + b)
    BY <2>2 DEF Overlap
  <2>4. a \in d .. d + b - z /\ LogicalAddr(w)[l] \in e .. e + f - g
    BY <1>3, <2>1, <2>2
  <2>. HIDE DEF a
  <2>5. LogicalAddr(w)[l] # a
    BY ONLY <2>2, <2>3, <2>4
  <2> QED BY <1>1, <2>5
<1>. HIDE DEF a, s
<1>5. a \notin {s[k].at : k \in DOMAIN s}
  BY <1>1, <1>4
<1>6. /\ a \in DOMAIN After(m, s) <=> a \in DOMAIN m
      /\ a \in DOMAIN m => After(m, s)[a] = m[a]
  BY <1>5 DEF After
<1>7. Held(After(m, s), a) = Held(m, a)
  BY <1>6 DEF Held
<1> QED BY <1>7 DEF a, s

\* Whatever MAX_POOL and TOP_K accept, each element of their two results is the one
\* the output cell stands for.
LEMMA AcceptedSelects ==
  ASSUME NEW c, TypedOperands(c), Accepts(c), c.op \in {"MAX_POOL", "TOP_K"}
  PROVE  /\ Len(c.out) \in {1, 2} /\ (Len(c.out) = 2 => c.out[2].shape = Dst(c).shape)
         /\ \A l \in Linears(Dst(c)) : ShownAt(c, l)
<1>1. c.in \in Seq(Views) /\ c.out \in Seq(Views) /\ TypedAttr(c.op, c.attr)
  BY DEF TypedOperands
<1>2. CASE c.op = "MAX_POOL"
  <2>1. MaxPoolOK(c) /\ c.attr \in PoolAttrs
    BY <1>2 DEF Accepts, BinaryOps, UnaryOps, TypedOperands
  <2>2. ExpectIO(c, {1}, 1 .. 2) /\ (Len(c.out) = 2 => c.out[2].shape = Dst(c).shape)
    BY <2>1 DEF MaxPoolOK
  <2>3. Len(c.out) \in {1, 2} /\ Len(c.in) = 1
    BY <2>2 DEF ExpectIO
  <2>4. \A i \in 0 .. c.in[1].bytes \div 2 - 1 : c.vals[i] \in Int
    BY <1>2, <2>3 DEF TypedOperands, TypedContents
  <2> QED BY <1>1, <1>2, <2>1, <2>2, <2>3, <2>4, MaxPoolSelects
<1>3. CASE c.op = "TOP_K"
  <2>1. TopKOK(c) /\ c.attr \in TopKAttrs
    BY <1>1, <1>3 DEF Accepts, BinaryOps, UnaryOps, TypedAttr
  <2>2. c.attr.axis \in I32
    BY <2>1 DEF TopKAttrs
  <2>3. Len(c.out) = 2 /\ Len(c.in) = 1 /\ c.out[2].shape = Dst(c).shape
    BY <2>1 DEF TopKOK, ExpectIO
  <2>4. \A i \in 0 .. c.in[1].bytes \div 2 - 1 : c.vals[i] \in Int
    BY <1>3, <2>3 DEF TypedOperands, TypedContents
  <2> QED BY <1>1, <1>3, <2>1, <2>2, <2>3, <2>4, TopKSelects
<1> QED BY <1>2, <1>3

\* MAX_POOL and TOP_K write the extreme elements of their windows and rows, in order:
\* for every kernel, stride, dilation, padding, axis and k they accept, and all
\* numbers in the input, exactly one element has as many better ones as the place in
\* the output asks for, the value output shows it and the index output names it, as
\* long as the two outputs share no byte (nn.rs).
THEOREM ExtremesAreSelected == Spec => []SelectsTheExtremes
<1>1. IInv /\ WrittenOnce /\ WrittenTwice => SelectsTheExtremes
  <2>. SUFFICES ASSUME IInv, WrittenOnce, WrittenTwice, Completed, desc.op \in {"MAX_POOL", "TOP_K"},
                       OutputsApart(Call), NEW y \in Cells(Dst(Call).shape)
                PROVE  /\ Candidates(Call, y) # {} => Cardinality(SelectedCells(Call, y)) = 1
                       /\ \E z \in SameAddress(Dst(Call), y) :
                            Now(At(Dst(Call), y)) = ShownValue(Call, z)
                       /\ Len(Call.out) = 2 =>
                            \E z \in SameAddress(Call.out[2], y) :
                              Now(At(Call.out[2], y)) = ShownIndex(Call, z)
    BY DEF SelectsTheExtremes
  <2>. DEFINE v == Dst(Call)
              w == Call.out[2]
              first == After(UntouchedMem, WriteLogical(v, LogicalOutputs(Call)[1]))
              both == After(first, WriteLogical(w, LogicalOutputs(Call)[2]))
  <2>1. Started
    BY DEF IInv, Idle, Writing, Finished, FreshNode, RefusedNode, DoneNode, Completed
  <2>2. TypedOperands(Call) /\ Accepts(Call) /\ Call.op \in {"MAX_POOL", "TOP_K"}
    BY <2>1, CallTyped DEF Started, Call, CallOf
  <2>3. Call.op \notin DirectOps /\ ~Skips(Call)
    BY <2>2 DEF DirectOps, BinaryOps, UnaryOps, Skips
  <2>4. /\ Len(Call.out) \in {1, 2} /\ (Len(Call.out) = 2 => w.shape = v.shape)
        /\ \A l \in Linears(v) : ShownAt(Call, l)
    BY <2>2, AcceptedSelects
  <2>5. /\ v \in Views /\ v = Call.out[1] /\ MetaOK(v)
        /\ Len(Call.out) = 2 => w \in Views /\ MetaOK(w) /\ ~Overlap(v, w)
    <3>1. Call.in \in Seq(Views) /\ Call.out \in Seq(Views) /\ AllMetaOK(Call)
      BY <2>2, <2>3, LogicalMeta DEF TypedOperands
    <3> QED BY <2>4, <3>1 DEF Dst, AllMetaOK, ViewsOf, OutputsApart
  <2>6. \A o \in {1, 2} : Stores(Call, o) = WriteLogical(Call.out[o], LogicalOutputs(Call)[o])
    BY <2>3 DEF Stores, DirectOps
  <2>7. mem = IF Len(Call.out) = 2 THEN both ELSE first
    BY <2>4, <2>5, <2>6 DEF WrittenOnce, WrittenTwice
  <2>. HIDE DEF v, w
  <2>8. Candidates(Call, y) # {} => Cardinality(SelectedCells(Call, y)) = 1
    <3>1. RowMajor(v.shape, y) \in Linears(v) /\ Coordinates(v.shape, RowMajor(v.shape, y)) = y
      BY <2>5, IndexOfCell DEF v
    <3>2. ShownAt(Call, RowMajor(v.shape, y))
      BY <2>4, <3>1
    <3> QED BY <3>1, <3>2 DEF ShownAt, v
  <2>9. \E z \in SameAddress(v, y) : Now(At(v, y)) = ShownValue(Call, z)
    <3>1. y \in Cells(v.shape)
      BY DEF v
    <3>2. Now(At(v, y)) = Held(first, At(v, y))
      <4>1. CASE Len(Call.out) = 2
        <5>. HIDE DEF first
        <5>1. Held(both, At(v, y)) = Held(first, At(v, y))
          BY <2>5, <3>1, <4>1, KeptApart
        <5> QED BY <2>7, <4>1, <5>1 DEF Now
      <4>2. CASE Len(Call.out) # 2
        BY <2>7, <4>2 DEF Now
      <4> QED BY <4>1, <4>2
    <3>3. PICK l \in Linears(v) :
            /\ Coordinates(v.shape, l) \in SameAddress(v, y)
            /\ Held(first, At(v, y)) = LogicalOutputs(Call)[1][l]
      BY <2>5, <3>1, AddressHolds
    <3>4. LogicalOutputs(Call)[1][l] = ShownValue(Call, Coordinates(v.shape, l))
      BY <2>4 DEF ShownAt, v
    <3> QED BY <3>2, <3>3, <3>4
  <2>10. ASSUME Len(Call.out) = 2
         PROVE  \E z \in SameAddress(w, y) : Now(At(w, y)) = ShownIndex(Call, z)
    <3>1. y \in Cells(w.shape) /\ Linears(w) = Linears(v)
      BY <2>4, <2>10 DEF v, Linears, Count
    <3>2. PICK l \in Linears(w) :
            /\ Coordinates(w.shape, l) \in SameAddress(w, y)
            /\ Held(both, At(w, y)) = LogicalOutputs(Call)[2][l]
      <4>. HIDE DEF first
      <4> QED BY <2>5, <2>10, <3>1, AddressHolds
    <3>3. LogicalOutputs(Call)[2][l] = ShownIndex(Call, Coordinates(w.shape, l))
      BY <2>4, <2>10, <3>1 DEF ShownAt, v
    <3> QED BY <2>7, <2>10, <3>2, <3>3 DEF Now
  <2> QED BY <2>8, <2>9, <2>10 DEF v, w
<1> QED BY <1>1, Invariance, WrittenOnceHolds, WrittenTwiceHolds, PTL

(* --- computation ------------------------------------------------------------------- *)
\* Element j of the row of a cell is the cell with j for its place on the axis.
PlacedAlong(n, s, a, x, j) ==
  /\ InCells(n, s, [x EXCEPT ![a] = j])
  /\ RowMajor(s, [x EXCEPT ![a] = j]) = RowAt(s, a, RowMajor(s, x), j)

\* It is, in the index arithmetic the kernels step along a row with.
LEMMA RowAtPlace ==
  ASSUME NEW n \in Nat, NEW s \in [1 .. n -> Nat], Len(s) = n, NEW a \in 1 .. n,
         NEW x, InCells(n, s, x), NEW j \in 0 .. s[a] - 1
  PROVE  PlacedAlong(n, s, a, x, j)
<1>. DEFINE z == [x EXCEPT ![a] = j]
<1>1. x \in [1 .. n -> Nat] /\ \A k \in 1 .. n : x[k] \in 0 .. s[k] - 1
  BY DEF InCells
<1>2. /\ z \in [1 .. n -> Nat] /\ z[a] = j /\ \A k \in 1 .. n \ {a} : z[k] = x[k]
  BY <1>1
<1>3. ASSUME NEW k \in 1 .. n PROVE z[k] \in 0 .. s[k] - 1
  <2>. HIDE DEF z
  <2>1. CASE k = a
    BY <1>2, <2>1
  <2>2. CASE k # a
    BY <1>1, <1>2, <2>2
  <2> QED BY <2>1, <2>2
<1>4. InCells(n, s, z)
  <2>. HIDE DEF z
  <2> QED BY <1>2, <1>3 DEF InCells
<1>5. SameDigits(a, s, x, s, z)
  <2>1. (\A k \in 1 .. n \ {a} : s[k] = s[k]) /\ \A k \in 1 .. n \ {a} : z[k] = x[k]
    BY <1>2
  <2>. HIDE DEF z
  <2> QED BY <1>4, <2>1, SplitAtAxis
<1>6. PICK m \in Nat : m = s[a] /\ x[a] \in 0 .. m - 1 /\ j \in 0 .. m - 1
  BY <1>1
<1>. HIDE DEF z
<1>7. PICK h \in Nat, I \in Nat, t \in Nat :
        /\ t < I /\ I = Suffix(s)[a]
        /\ RowMajor(s, x) = (h * m + x[a]) * I + t
        /\ RowMajor(s, z) = (h * m + j) * I + t
  BY <1>2, <1>5, <1>6 DEF SameDigits
<1>8. PICK l : l = RowMajor(s, x)
  OBVIOUS
<1>9. l \div (m * I) = h /\ l % I = t
  <2>1. PICK e \in 0 .. m - 1 : e = x[a]
    BY <1>6
  <2>2. l = (h * m + e) * I + t
    BY <1>7, <1>8, <2>1
  <2>3. HasDigits(l, h, m, I, t, e)
    BY <1>7, <2>2, ThreeDigits
  <2> QED BY <2>3 DEF HasDigits
<1>10. RowAt(s, a, l, j) = h * m * I + j * I + t
  BY <1>6, <1>7, <1>9 DEF RowAt, Inner
<1>11. PICK g \in Nat : g = j
  OBVIOUS
<1>12. h * m * I + g * I + t = (h * m + g) * I + t
  BY ONLY h \in Nat, m \in Nat, I \in Nat, g \in Nat, t \in Nat
<1>13. RowMajor(s, z) = RowAt(s, a, RowMajor(s, x), j)
  BY <1>7, <1>8, <1>10, <1>11, <1>12
<1> QED BY <1>4, <1>13 DEF PlacedAlong, z

\* As cells of a view: the address the code reads for element j of a row.
LEMMA RowAtCell ==
  ASSUME NEW v \in Views, MetaOK(v), NEW y \in Cells(v.shape), NEW a \in 1 .. Rank(v),
         NEW j \in 0 .. v.shape[a] - 1
  PROVE  /\ [y EXCEPT ![a] = j] \in Cells(v.shape)
         /\ RowAt(v.shape, a, RowMajor(v.shape, y), j) \in Linears(v)
         /\ Coordinates(v.shape, RowAt(v.shape, a, RowMajor(v.shape, y), j)) = [y EXCEPT ![a] = j]
         /\ LogicalAddr(v)[RowAt(v.shape, a, RowMajor(v.shape, y), j)] = At(v, [y EXCEPT ![a] = j])
<1>. DEFINE n == Rank(v)
            s == v.shape
<1>1. n \in Nat /\ s \in [1 .. n -> Nat] /\ Len(s) = n
  BY ViewFacts DEF Rank
<1>. HIDE DEF n
<1>2. PICK z : z = [y EXCEPT ![a] = j]
  OBVIOUS
<1>3. PlacedAlong(n, s, a, y, j)
  <2>1. InCells(n, s, y)
    BY <1>1, CellIn
  <2>2. a \in 1 .. n
    BY DEF n
  <2> QED BY <1>1, <2>1, <2>2, RowAtPlace
<1>4. z \in Cells(s) /\ RowMajor(s, z) = RowAt(s, a, RowMajor(s, y), j)
  <2>1. InCells(n, s, z) /\ RowMajor(s, z) = RowAt(s, a, RowMajor(s, y), j)
    BY <1>2, <1>3 DEF PlacedAlong
  <2> QED BY <1>1, <2>1, CellIn
<1>5. RowMajor(s, z) \in Linears(v) /\ Coordinates(s, RowMajor(s, z)) = z
      /\ LogicalAddr(v)[RowMajor(s, z)] = At(v, z)
  BY <1>1, <1>4, IndexOfCell
<1> QED BY <1>2, <1>4, <1>5

\* The cell of a smaller view that faces cell y is one of its cells.
FacingCell(v, y, lead) == [a \in Axes(v) |-> IF v.shape[a] = 1 THEN 0 ELSE y[a + lead]]
\* Broadcasting checks each extent against 1 or that of the output, hence it lies inside.
LEMMA FacingInside ==
  ASSUME NEW v \in Views, NEW n \in Nat, NEW s \in [1 .. n -> Nat], NEW y \in [1 .. n -> Nat],
         \A a \in 1 .. n : y[a] \in 0 .. s[a] - 1,
         NEW lead \in Nat, Rank(v) + lead <= n,
         \A a \in 1 .. Rank(v) : v.shape[a] \in {1, s[a + lead]}
  PROVE  FacingCell(v, y, lead) \in Cells(v.shape)
<1>. DEFINE z == FacingCell(v, y, lead)
            m == Rank(v)
<1>1. /\ m \in Nat /\ Axes(v) = 1 .. m /\ v.shape \in [1 .. m -> Nat] /\ Len(v.shape) = m
      /\ m + lead <= n
  BY ViewFacts DEF Rank
<1>. HIDE DEF m
<1>2. ASSUME NEW a \in 1 .. m
      PROVE  /\ (IF v.shape[a] = 1 THEN 0 ELSE y[a + lead]) \in 0 .. v.shape[a] - 1
             /\ (IF v.shape[a] = 1 THEN 0 ELSE y[a + lead]) \in Nat
  <2>1. a + lead \in 1 .. n
    BY ONLY <1>1, a \in 1 .. m, n \in Nat, lead \in Nat
  <2>2. y[a + lead] \in 0 .. s[a + lead] - 1 /\ y[a + lead] \in Nat /\ v.shape[a] \in {1, s[a + lead]}
    BY <2>1 DEF m
  <2> QED BY <2>2
<1>3. z = [a \in 1 .. m |-> IF v.shape[a] = 1 THEN 0 ELSE y[a + lead]]
  BY <1>1 DEF FacingCell
<1>. HIDE DEF z
<1>4. z \in [1 .. m -> Nat] /\ \A a \in 1 .. m : z[a] \in 0 .. v.shape[a] - 1
  BY <1>2, <1>3
<1>5. InCells(m, v.shape, z)
  BY <1>4 DEF InCells
<1>6. z \in Cells(v.shape)
  BY <1>1, <1>5, CellIn
<1> QED BY <1>6 DEF z

\* The shapes the row kernels have in common, with a cell and its linear index.
RowKernel(c, l, y) ==
  /\ c.in \in Seq(Views) /\ c.out \in Seq(Views) /\ SameShape(c)
  /\ l \in Linears(Dst(c)) /\ y = Coordinates(Dst(c).shape, l)
\* The shape checks give them the same cells in the same order.
LEMMA RowKernelFacts ==
  ASSUME NEW c, NEW l, NEW y, RowKernel(c, l, y)
  PROVE  /\ 1 \in DOMAIN c.in /\ Src(c) = c.in[1] /\ Src(c) \in Views /\ MetaOK(Src(c))
         /\ Dst(c) \in Views /\ Dst(c).shape = Src(c).shape
         /\ l \in Linears(Src(c)) /\ y \in Cells(Src(c).shape) /\ l = RowMajor(Src(c).shape, y)
         /\ y = Coordinates(Src(c).shape, l) /\ LogicalAddr(Src(c))[l] = At(Src(c), y)
         /\ Rank(Src(c)) \in Nat /\ Axes(Src(c)) = 1 .. Rank(Src(c))
         /\ Src(c).shape \in [1 .. Rank(Src(c)) -> Nat] /\ Len(Src(c).shape) = Rank(Src(c))
         /\ y \in [1 .. Rank(Src(c)) -> Nat]
         /\ \A a \in 1 .. Rank(Src(c)) : y[a] \in 0 .. Src(c).shape[a] - 1
         /\ Len(c.in) \in {1, 2} /\ DOMAIN c.in = 1 .. Len(c.in)
         /\ Len(c.in) = 2 => c.in[2] \in Views /\ MetaOK(c.in[2])
<1>1. /\ 1 \in DOMAIN c.in /\ Src(c) \in Views /\ Dst(c) \in Views /\ AllMetaOK(c)
      /\ Src(c) = c.in[1] /\ Linears(Dst(c)) = Linears(Src(c)) /\ Rank(Src(c)) \in Nat
      /\ Src(c).shape \in [1 .. Rank(Src(c)) -> Nat] /\ Len(Src(c).shape) = Rank(Src(c))
      /\ Dst(c).shape = Src(c).shape
      /\ HasSecond(c) => 2 \in DOMAIN c.in /\ c.in[2] \in Views
  BY SameShapeFacts DEF RowKernel, SameShape
<1>2. Len(c.in) \in {1, 2} /\ DOMAIN c.in = 1 .. Len(c.in)
  <2>1. Len(c.in) \in 1 .. 2
    BY DEF RowKernel, SameShape, ExpectIO
  <2> QED BY <2>1 DEF RowKernel
<1>3. MetaOK(Src(c)) /\ (Len(c.in) = 2 => MetaOK(c.in[2]))
  BY <1>1 DEF AllMetaOK, ViewsOf, HasSecond
<1>4. l \in Linears(Src(c)) /\ y = Coordinates(Src(c).shape, l)
  BY <1>1 DEF RowKernel
<1>5. y \in Cells(Src(c).shape) /\ l = RowMajor(Src(c).shape, y) /\ LogicalAddr(Src(c))[l] = At(Src(c), y)
  BY <1>1, <1>3, <1>4, CellOfIndex
<1>6. y \in [1 .. Rank(Src(c)) -> Nat] /\ \A a \in 1 .. Rank(Src(c)) : y[a] \in 0 .. Src(c).shape[a] - 1
  <2>1. InCells(Rank(Src(c)), Src(c).shape, y)
    BY <1>1, <1>5, CellIn
  <2> QED BY <2>1 DEF InCells
<1> QED BY <1>1, <1>2, <1>3, <1>4, <1>5, <1>6, ViewFacts DEF HasSecond

\* SOFTMAX computes a cell from itself, its mask, its row and the masks of the row.
LEMMA SoftmaxComputes ==
  ASSUME NEW c, NEW l, NEW y, RowKernel(c, l, y), SoftmaxOK(c), c.attr.axis \in I32
  PROVE  SoftmaxResult(c)[l] = Term("softmax", <<>>, SoftmaxReads(c, y))
<1>. DEFINE n == Rank(Src(c))
            shape == Src(c).shape
            a == AxisOf(c, Src(c))
            addr == LogicalAddr(Src(c))
            M == c.in[2]
            mask == LogicalAddr(M)
            At1(m) == RowMajor(M.shape, MaskCoordinates(M, Coordinates(shape, m)))
            Masked(ls) == IF HasSecond(c) THEN [j \in DOMAIN ls |-> mask[At1(ls[j])]] ELSE <<>>
            Read(ls) == [j \in DOMAIN ls |-> addr[ls[j]]] \o Masked(ls)
            row == RowOf(shape, a, l)
            X(j) == [y EXCEPT ![a] = j - 1]
<1>1. /\ n \in Nat /\ shape \in [1 .. n -> Nat] /\ Len(shape) = n /\ l \in Linears(Src(c))
      /\ l \in Linears(Dst(c)) /\ addr[l] = At(Src(c), y) /\ y = Coordinates(shape, l)
      /\ l = RowMajor(shape, y) /\ y \in Cells(shape) /\ Src(c) \in Views /\ MetaOK(Src(c))
      /\ Len(c.in) = 2 => M \in Views /\ MetaOK(M)
  BY RowKernelFacts DEF RowKernel
<1>2. a \in 1 .. n /\ AxisIn(c, Src(c)) = a
  BY <1>1, AxisInside, AxisFrom DEF SoftmaxOK, AxisOf
<1>. HIDE DEF a
<1>3. SoftmaxResult(c)[l] = Term("softmax", <<>>, Read(<<l>>) \o Read(row))
  BY <1>1 DEF SoftmaxResult, a
<1>4. ASSUME NEW m \in Linears(Src(c)), NEW x, x = Coordinates(shape, m), HasSecond(c)
      PROVE  mask[At1(m)] = Facing(M, x, 0)
  <2>1. M \in Views /\ MetaOK(M) /\ Rank(M) <= n /\ Rank(M) \in Nat /\ Axes(M) = 1 .. Rank(M)
        /\ \A k \in 1 .. Rank(M) : M.shape[k] \in {1, shape[k]}
    BY <1>1, <1>4, ViewFacts DEF HasSecond, SoftmaxOK
  <2>2. x \in [1 .. n -> Nat] /\ \A k \in 1 .. n : x[k] \in 0 .. shape[k] - 1
    <3>1. x \in Cells(shape)
      BY <1>1, <1>4, CellOfIndex
    <3>2. InCells(n, shape, x)
      BY <1>1, <3>1, CellIn
    <3> QED BY <3>2 DEF InCells
  <2>3. \A k \in 1 .. Rank(M) : k + 0 = k
    OBVIOUS
  <2>4. FacingCell(M, x, 0) \in Cells(M.shape)
    <3>1. Rank(M) + 0 <= n /\ \A k \in 1 .. Rank(M) : M.shape[k] \in {1, shape[k + 0]}
      BY <1>1, <2>1, <2>3
    <3> QED BY <1>1, <2>1, <2>2, <3>1, FacingInside
  <2>5. MaskCoordinates(M, x) = FacingCell(M, x, 0)
    BY <2>1, <2>3 DEF MaskCoordinates, FacingCell
  <2>6. mask[RowMajor(M.shape, FacingCell(M, x, 0))] = At(M, FacingCell(M, x, 0))
    BY <2>1, <2>4, IndexOfCell
  <2> QED BY <1>4, <2>5, <2>6 DEF Facing, FacingCell
<1>5. ASSUME NEW j \in 1 .. shape[a]
      PROVE  /\ row[j] \in Linears(Src(c)) /\ addr[row[j]] = At(Src(c), X(j))
             /\ Coordinates(shape, row[j]) = X(j)
  <2>1. PICK i \in 0 .. shape[a] - 1 : i = j - 1
    BY <1>1, <1>2
  <2>2. row[j] = RowAt(shape, a, l, i)
    BY <2>1 DEF RowOf
  <2> QED BY <1>1, <1>2, <2>1, <2>2, RowAtCell
<1>6. DOMAIN row = 1 .. shape[a]
  BY DEF RowOf
<1>. HIDE DEF row, At1, addr, mask
<1>7. Read(<<l>>) = <<At(Src(c), y)>> \o (IF Len(c.in) = 2 THEN <<Facing(M, y, 0)>> ELSE <<>>)
  <2>1. [j \in DOMAIN <<l>> |-> addr[<<l>>[j]]] = <<At(Src(c), y)>>
    BY <1>1
  <2>2. Masked(<<l>>) = IF Len(c.in) = 2 THEN <<Facing(M, y, 0)>> ELSE <<>>
    <3>1. HasSecond(c) => mask[At1(l)] = Facing(M, y, 0)
      BY <1>1, <1>4
    <3> QED BY <3>1 DEF HasSecond
  <2> QED BY <2>1, <2>2
<1>8. [j \in DOMAIN row |-> addr[row[j]]] = Along(Src(c), y, a)
  <2>. HIDE DEF X
  <2>1. [j \in 1 .. shape[a] |-> addr[row[j]]] = [j \in 1 .. shape[a] |-> At(Src(c), X(j))]
    BY <1>5
  <2> QED BY <1>6, <2>1 DEF Along, X
<1>9. HasSecond(c) => [j \in DOMAIN row |-> mask[At1(row[j])]]
                        = [j \in 1 .. shape[a] |-> Facing(M, X(j), 0)]
  <2>. HIDE DEF X
  <2> QED BY <1>4, <1>5, <1>6
<1>10. Read(row) = Along(Src(c), y, a)
                     \o (IF Len(c.in) = 2 THEN [j \in 1 .. shape[a] |-> Facing(M, X(j), 0)] ELSE <<>>)
  BY <1>8, <1>9 DEF HasSecond
<1>. HIDE DEF Read
<1> QED BY <1>2, <1>3, <1>7, <1>10 DEF SoftmaxReads

\* Along the last axis the row of a cell is a chunk of consecutive elements.
InLastRow(n, s, y, l) ==
  /\ l \in Nat /\ y[n] = l % s[n]
  /\ \A j \in Nat : RowAt(s, n, l, j) = (l \div s[n]) * s[n] + j
\* The dense order puts it there.
LEMMA LastRow ==
  ASSUME NEW n \in Nat, n >= 1, NEW s \in [1 .. n -> Nat], Len(s) = n, NEW y, InCells(n, s, y),
         NEW l, l = RowMajor(s, y)
  PROVE  InLastRow(n, s, y, l)
<1>1. PICK r : RowSteps(n, s, y, r) /\ r[n] = l /\ \A i \in 0 .. n : r[i] \in Nat
  BY RowMajorSteps DEF HasSteps
<1>2. n \in 1 .. n /\ n - 1 \in 0 .. n /\ n \in 0 .. n
  OBVIOUS
<1>3. PICK h \in Nat, m \in Nat, e \in Nat :
        h = r[n-1] /\ m = s[n] /\ e = y[n] /\ e \in 0 .. m - 1
  <2>1. r[n-1] \in Nat /\ s[n] \in Nat /\ y[n] \in 0 .. s[n] - 1
    BY <1>1, <1>2 DEF InCells
  <2>2. PICK m \in Nat : m = s[n]
    BY <2>1
  <2> QED BY <2>1, <2>2
<1>4. l = h * m + e
  <2>1. r[n] = r[n-1] * s[n] + y[n]
    BY <1>1, <1>2 DEF RowSteps
  <2> QED BY <1>1, <1>3, <2>1
<1>5. (h * m + e) \div m = h /\ (h * m + e) % m = e /\ h * m \in Nat
  <2>1. h \in Nat /\ m \in Nat /\ e \in 0 .. m - 1 /\ m >= 1
    BY <1>3
  <2>2. (h * m + e) \div m = h /\ (h * m + e) % m = e
    BY <2>1, LastDigit
  <2>3. h * m \in Nat
    BY <2>1
  <2> QED BY <2>2, <2>3
<1>6. Inner(s, n) = 1
  BY SuffixFacts DEF Inner
<1>7. l \in Nat
  BY <1>1, <1>2
<1>8. ASSUME NEW j \in Nat PROVE RowAt(s, n, l, j) = (l \div s[n]) * s[n] + j
  <2>1. RowAt(s, n, l, j) = (l \div (m * 1)) * m * 1 + j * 1 + (l % 1)
    BY <1>3, <1>6 DEF RowAt
  <2>2. l % 1 = 0 /\ m * 1 = m
    BY <1>7
  <2>3. RowAt(s, n, l, j) = h * m * 1 + j * 1 + 0
    BY <1>4, <1>5, <2>1, <2>2
  <2>4. h * m * 1 + j * 1 + 0 = h * m + j
    BY <1>5
  <2> QED BY <1>3, <1>4, <1>5, <2>3, <2>4
<1> QED BY <1>3, <1>4, <1>5, <1>7, <1>8 DEF InLastRow

\* The cell with a number is the one the code finds at that linear index.
LEMMA CellNumberIs ==
  ASSUME NEW v \in Views, MetaOK(v), NEW k \in Linears(v)
  PROVE  /\ CellNumber(v, k) = Coordinates(v.shape, k) /\ CellNumber(v, k) \in Cells(v.shape)
         /\ RowMajor(v.shape, CellNumber(v, k)) = k
         /\ LogicalAddr(v)[k] = At(v, CellNumber(v, k))
<1>. DEFINE n == Rank(v)
<1>1. n \in Nat /\ v.shape \in [1 .. n -> Nat] /\ Len(v.shape) = n
  BY ViewFacts DEF Rank
<1>2. PICK z : z = Coordinates(v.shape, k)
  OBVIOUS
<1>3. z \in Cells(v.shape) /\ RowMajor(v.shape, z) = k /\ LogicalAddr(v)[k] = At(v, z)
  BY <1>2, CellOfIndex
<1>4. ASSUME NEW x \in Cells(v.shape)
      PROVE  CellsBefore(v.shape, x) = k <=> x = z
  <2>1. CellsBefore(v.shape, x) = RowMajor(v.shape, x)
    BY <1>1, CellsBeforeIs
  <2>2. Coordinates(v.shape, RowMajor(v.shape, x)) = x
    BY IndexOfCell
  <2> QED BY <1>2, <1>3, <2>1, <2>2
<1>5. CellNumber(v, k) = z
  BY <1>3, <1>4 DEF CellNumber
<1> QED BY <1>2, <1>3, <1>5

\* RMS_NORM computes a cell from itself, the weight of its place on the last axis,
\* whatever shape the weights have, and its row.
LEMMA RmsNormComputes ==
  ASSUME NEW c, NEW l, NEW y, RowKernel(c, l, y), RmsNormOK(c)
  PROVE  RmsNormResult(c)[l] = Term("rms_norm", <<>>, RmsNormReads(c, y))
<1>. DEFINE n == Rank(Src(c))
            shape == Src(c).shape
            addr == LogicalAddr(Src(c))
            M == c.in[2]
            weight == LogicalAddr(M)
            h == c.attr.hidden_size
            X(j) == [y EXCEPT ![n] = j - 1]
<1>1. /\ n \in Nat /\ shape \in [1 .. n -> Nat] /\ Len(shape) = n
      /\ l \in Linears(Dst(c)) /\ addr[l] = At(Src(c), y)
      /\ l = RowMajor(shape, y) /\ y \in Cells(shape) /\ Src(c) \in Views /\ MetaOK(Src(c))
      /\ y \in [1 .. n -> Nat] /\ \A a \in 1 .. n : y[a] \in 0 .. shape[a] - 1
      /\ Len(c.in) = 2 => M \in Views /\ MetaOK(M)
  BY RowKernelFacts DEF RowKernel
<1>2. n >= 1 /\ n \in 1 .. n /\ shape[n] = h /\ h \in Nat /\ (Len(c.in) = 2 => Count(M) = h)
  BY <1>1 DEF RmsNormOK, HasSecond
<1>3. l \in Nat /\ y[n] = l % h /\ \A j \in Nat : RowAt(shape, n, l, j) = (l \div h) * h + j
  <2>1. InCells(n, shape, y)
    BY <1>1, CellIn
  <2>. HIDE DEF n, shape, h
  <2>2. InLastRow(n, shape, y, l)
    BY <1>1, <1>2, <2>1, LastRow
  <2> QED BY <1>2, <2>2 DEF InLastRow
<1>. HIDE DEF n
<1>. DEFINE middle == IF Len(c.in) = 2 THEN <<weight[l % h]>> ELSE <<>>
            chunk == [j \in 1 .. h |-> addr[(l \div h) * h + j - 1]]
<1>4. RmsNormResult(c)[l] = Term("rms_norm", <<>>, <<addr[l]>> \o middle \o chunk)
  BY <1>1 DEF RmsNormResult, HasSecond
<1>5. middle = IF Len(c.in) = 2 THEN <<At(M, CellNumber(M, y[n]))>> ELSE <<>>
  <2>1. ASSUME Len(c.in) = 2 PROVE weight[l % h] = At(M, CellNumber(M, y[n]))
    <3>1. y[n] \in Linears(M)
      BY <1>1, <1>2, <2>1 DEF Linears
    <3> QED BY <1>1, <1>3, <2>1, <3>1, CellNumberIs
  <2> QED BY <2>1
<1>6. chunk = Along(Src(c), y, n)
  <2>1. ASSUME NEW j \in 1 .. h PROVE addr[(l \div h) * h + j - 1] = At(Src(c), X(j))
    <3>1. PICK i \in 0 .. h - 1 : i = j - 1
      BY <1>2
    <3>2. PICK q \in Int : q = (l \div h) * h
      <4>1. h # 0
        BY <3>1
      <4>2. (l \div h) * h \in Int
        BY <1>2, <1>3, <4>1
      <4> QED BY <4>2
    <3>3. q + j - 1 = q + i
      BY ONLY <3>1, q \in Int, j \in 1 .. h, i \in 0 .. h - 1, <1>2
    <3>4. RowAt(shape, n, l, i) = q + i
      BY <1>3, <3>2
    <3>5. addr[RowAt(shape, n, l, i)] = At(Src(c), [y EXCEPT ![n] = i])
      <4>1. n \in 1 .. Rank(Src(c)) /\ i \in 0 .. Src(c).shape[n] - 1
        BY <1>2 DEF n
      <4>2. LogicalAddr(Src(c))[RowAt(Src(c).shape, n, RowMajor(Src(c).shape, y), i)]
              = At(Src(c), [y EXCEPT ![n] = i])
        <5>1. Src(c) \in Views /\ MetaOK(Src(c)) /\ y \in Cells(Src(c).shape)
          BY <1>1
        <5>. HIDE DEF shape, addr, h
        <5>2. PICK v \in Views : /\ v = Src(c) /\ MetaOK(v) /\ y \in Cells(v.shape)
                                /\ n \in 1 .. Rank(v) /\ i \in 0 .. v.shape[n] - 1
          BY <4>1, <5>1
        <5>3. LogicalAddr(v)[RowAt(v.shape, n, RowMajor(v.shape, y), i)] = At(v, [y EXCEPT ![n] = i])
          BY ONLY <5>2, v \in Views, RowAtCell
        <5> QED BY <5>2, <5>3
      <4> QED BY <1>1, <4>2
    <3> QED BY <3>1, <3>2, <3>3, <3>4, <3>5
  <2>. HIDE DEF X
  <2>2. [j \in 1 .. h |-> addr[(l \div h) * h + j - 1]] = [j \in 1 .. h |-> At(Src(c), X(j))]
    BY <2>1
  <2> QED BY <1>2, <2>2 DEF Along, X
<1>. HIDE DEF chunk, middle, addr, weight
<1> QED BY <1>1, <1>4, <1>5, <1>6 DEF RmsNormReads, n

\* Shapes with the same tail agree from the second axis on.
LEMMA TailAgrees ==
  ASSUME NEW n \in Nat, n > 0, NEW s \in [1 .. n -> Nat], NEW t \in [1 .. n -> Nat],
         Len(s) = n, Len(t) = n, Tail(s) = Tail(t)
  PROVE  \A a \in 2 .. n : s[a] = t[a]
<1>1. ASSUME NEW a \in 2 .. n PROVE s[a] = t[a]
  <2>1. PICK b \in 1 .. n - 1 : b = a - 1 /\ b + 1 = a
    OBVIOUS
  <2>2. s \in Seq(Nat) /\ t \in Seq(Nat) /\ s # <<>> /\ t # <<>>
    <3>1. s \in Seq(Nat) /\ t \in Seq(Nat)
      OBVIOUS
    <3> QED BY <3>1
  <2>3. PICK f \in Seq(Nat), g \in Seq(Nat) :
          f = s /\ g = t /\ f # <<>> /\ g # <<>> /\ b \in 1 .. Len(f) - 1 /\ b \in 1 .. Len(g) - 1
    BY <2>2
  <2>4. Tail(f)[b] = f[b + 1] /\ Tail(g)[b] = g[b + 1]
    BY ONLY <2>3, f \in Seq(Nat), g \in Seq(Nat), HeadTailProperties
  <2> QED BY <2>1, <2>3, <2>4
<1> QED BY <1>1

\* GLU computes a cell from the gate and the value: from the same cell of two
\* inputs, or from the two cells of one input that lie half of axis 0 apart.
LEMMA GluComputes ==
  ASSUME NEW c, c.in \in Seq(Views), c.out \in Seq(Views), GluOK(c), NEW l \in Linears(Dst(c)),
         NEW y, y = Coordinates(Dst(c).shape, l)
  PROVE  GluResult(c)[l] = Term("swiglu", <<>>, GluReads(c, y))
<1>. DEFINE n == Rank(Src(c))
            s == Src(c).shape
            t == Dst(c).shape
            R == c.in[Len(c.in)]
            lhs == LogicalAddr(Src(c))
            rhs == LogicalAddr(R)
            Shifted(up) == [y EXCEPT ![1] = @ + (IF up THEN t[1] ELSE 0)]
            upper == [y EXCEPT ![1] = @ + t[1]]
            swapped == c.attr.swapped # 0
<1>1. /\ 1 \in DOMAIN c.in /\ Src(c) \in Views /\ Dst(c) \in Views /\ AllMetaOK(c)
      /\ Src(c) = c.in[1] /\ Len(c.in) \in 1 .. 2 /\ n \in Nat /\ Rank(Dst(c)) = n
      /\ s \in [1 .. n -> Nat] /\ t \in [1 .. n -> Nat] /\ Len(s) = n /\ Len(t) = n
  <2>1. ExpectIO(c, 1 .. 2, {1}) /\ AllMetaOK(c) /\ Rank(Src(c)) = Rank(Dst(c))
    BY DEF GluOK
  <2>2. 1 .. 2 \subseteq Nat \ {0} /\ {1} \subseteq Nat \ {0}
    OBVIOUS
  <2> QED BY <2>1, <2>2, SourceAndResult DEF ExpectIO
<1>2. /\ MetaOK(Src(c)) /\ (Len(c.in) = 2 => c.in[2] \in Views /\ MetaOK(c.in[2]))
      /\ (Len(c.in) = 1 => R = Src(c)) /\ (Len(c.in) = 2 => R = c.in[2])
  BY <1>1 DEF AllMetaOK, ViewsOf
<1>3. y \in [1 .. n -> Nat] /\ \A a \in 1 .. n : y[a] \in 0 .. t[a] - 1 /\ t[a] >= 1
  <2>1. Dst(c) \in Views /\ Rank(Dst(c)) = n
    BY <1>1
  <2> QED BY <2>1, ElementCoordinates
<1>4. GluResult(c)[l] = IF s = t THEN Term("swiglu", <<>>, <<lhs[l], rhs[l]>>)
                        ELSE Term("swiglu", <<>>, <<lhs[RowMajor(s, Shifted(swapped))],
                                                    rhs[RowMajor(s, Shifted(~swapped))]>>)
  BY DEF GluResult
<1>. HIDE DEF lhs, rhs, n
<1>5. CASE s = t
  <2>1. l \in Linears(Src(c)) /\ y = Coordinates(s, l) /\ lhs[l] = At(Src(c), y)
    <3>1. l \in Linears(Src(c))
      BY <1>5 DEF Linears, Count
    <3> QED BY <1>1, <1>2, <1>5, <3>1, CellOfIndex DEF lhs
  <2>2. CASE Len(c.in) = 2
    <3>1. c.in[2].shape = t
      BY <2>2 DEF GluOK, HasSecond
    <3>2. l \in Linears(c.in[2]) /\ y = Coordinates(c.in[2].shape, l)
      BY <1>5, <2>1, <3>1 DEF Linears, Count
    <3>3. rhs[l] = At(c.in[2], y)
      BY <1>2, <2>2, <3>2, CellOfIndex DEF rhs
    <3> QED BY <1>4, <1>5, <2>1, <2>2, <3>3 DEF GluReads
  <2>3. CASE Len(c.in) = 1
    <3>1. n = 0
      <4>1. n > 0 => s[1] = 2 * t[1]
        BY <1>5, <2>3 DEF GluOK, HasSecond, n
      <4>2. ASSUME n > 0 PROVE FALSE
        <5>1. 1 \in 1 .. n /\ t[1] \in Nat /\ t[1] >= 1
          BY <1>1, <1>3, <4>2
        <5> QED BY <1>5, <4>1, <4>2, <5>1
      <4> QED BY <1>1, <4>2
    <3>2. upper = y
      <4>1. DOMAIN y = {} /\ DOMAIN upper = DOMAIN y
        BY <1>3, <3>1
      <4>2. \A a \in DOMAIN y : upper[a] = y[a]
        BY <4>1
      <4> QED BY <4>1, <4>2
    <3>3. rhs[l] = At(Src(c), y)
      BY <1>2, <2>1, <2>3 DEF lhs, rhs
    <3>. HIDE DEF upper
    <3>4. GluReads(c, y) = <<At(Src(c), y), At(Src(c), y)>>
      BY <2>3, <3>2 DEF GluReads, upper
    <3> QED BY <1>4, <1>5, <2>1, <3>3, <3>4
  <2> QED BY <1>1, <2>2, <2>3
<1>6. CASE s # t
  <2>1. Len(c.in) = 1 /\ n > 0 /\ s[1] = 2 * t[1] /\ Tail(s) = Tail(t)
    BY <1>1, <1>6 DEF GluOK, HasSecond, n
  <2>2. \A a \in 2 .. n : s[a] = t[a]
    BY <1>1, <2>1, TailAgrees
  <2>3. ASSUME NEW d \in {0, t[1]}
        PROVE  lhs[RowMajor(s, [y EXCEPT ![1] = y[1] + d])] = At(Src(c), [y EXCEPT ![1] = y[1] + d])
    <3>1. PICK x : x = [y EXCEPT ![1] = y[1] + d]
      OBVIOUS
    <3>2. 1 \in 1 .. n /\ t[1] \in Nat /\ y[1] \in 0 .. t[1] - 1 /\ s[1] = 2 * t[1] /\ d \in {0, t[1]}
      BY <1>1, <1>3, <2>1
    <3>3. y[1] + d \in 0 .. s[1] - 1 /\ y[1] + d \in Nat
      BY <3>2
    <3>4. x \in [1 .. n -> Nat] /\ x[1] = y[1] + d /\ \A a \in 2 .. n : x[a] = y[a]
      <4>1. PICK e \in Nat : e = y[1] + d
        BY <3>3
      <4>2. x = [y EXCEPT ![1] = e]
        BY <3>1, <4>1
      <4>3. y \in [1 .. n -> Nat] /\ 1 \in 1 .. n
        BY <1>3, <3>2
      <4>4. x \in [1 .. n -> Nat] /\ x[1] = e /\ \A a \in 2 .. n : x[a] = y[a]
        <5>1. x = [a \in 1 .. n |-> IF a = 1 THEN e ELSE y[a]]
          BY <4>2, <4>3
        <5>2. \A a \in 1 .. n : (IF a = 1 THEN e ELSE y[a]) \in Nat
          BY <4>3
        <5>3. x \in [1 .. n -> Nat]
          BY <5>1, <5>2
        <5>4. x[1] = e
          BY <4>3, <5>1
        <5>5. \A a \in 2 .. n : x[a] = y[a]
          BY <5>1
        <5> QED BY <5>3, <5>4, <5>5
      <4> QED BY <4>1, <4>4
    <3>5. ASSUME NEW a \in 1 .. n PROVE x[a] \in 0 .. s[a] - 1
      <4>1. CASE a = 1
        BY <3>3, <3>4, <4>1
      <4>2. CASE a # 1
        <5>1. a \in 2 .. n
          BY <1>1, <4>2
        <5> QED BY <1>3, <2>2, <3>4, <5>1
      <4> QED BY <4>1, <4>2
    <3>6. x \in Cells(s)
      <4>1. InCells(n, s, x)
        BY <3>4, <3>5 DEF InCells
      <4> QED BY <1>1, <4>1, CellIn
    <3>7. lhs[RowMajor(s, x)] = At(Src(c), x)
      BY <1>1, <1>2, <3>6, IndexOfCell DEF lhs
    <3> QED BY <3>1, <3>7
  <2>4. DOMAIN y = 1 .. n /\ 1 \in 1 .. n /\ y[1] + 0 = y[1] /\ y[1] \in Nat
    BY <1>1, <1>3, <2>1
  <2>5. /\ Shifted(TRUE) = upper /\ Shifted(FALSE) = y
        /\ upper = [y EXCEPT ![1] = y[1] + t[1]] /\ y = [y EXCEPT ![1] = y[1] + 0]
    <3>1. y = [y EXCEPT ![1] = y[1]]
      BY <1>3
    <3> QED BY <2>4, <3>1
  <2>6. lhs[RowMajor(s, upper)] = At(Src(c), upper) /\ lhs[RowMajor(s, y)] = At(Src(c), y)
    <3>1. lhs[RowMajor(s, [y EXCEPT ![1] = y[1] + 0])] = At(Src(c), [y EXCEPT ![1] = y[1] + 0])
      BY <2>3
    <3>2. lhs[RowMajor(s, [y EXCEPT ![1] = y[1] + t[1]])] = At(Src(c), [y EXCEPT ![1] = y[1] + t[1]])
      BY <2>3
    <3>. HIDE DEF upper
    <3> QED BY <2>5, <3>1, <3>2
  <2>7. rhs = lhs
    BY <1>2, <2>1 DEF lhs, rhs
  <2>8. GluReads(c, y) = IF swapped THEN <<At(Src(c), upper), At(Src(c), y)>>
                         ELSE <<At(Src(c), y), At(Src(c), upper)>>
    BY <2>1 DEF GluReads
  <2>. HIDE DEF upper, Shifted
  <2>9. CASE swapped
    <3>1. Shifted(swapped) = upper /\ Shifted(~swapped) = y
      BY <2>5, <2>9
    <3> QED BY <1>4, <1>6, <2>6, <2>7, <2>8, <2>9, <3>1
  <2>10. CASE ~swapped
    <3>1. Shifted(swapped) = y /\ Shifted(~swapped) = upper
      BY <2>5, <2>10
    <3> QED BY <1>4, <1>6, <2>6, <2>7, <2>8, <2>10, <3>1
  <2> QED BY <2>9, <2>10
<1> QED BY <1>5, <1>6

\* Dimension d is the half-th of pair p, and of no other pair; the other of the two
\* is the one dimension it makes a pair with.
PairedAs(c, d, p, half) ==
  LET pair == PairOf(c, p)  other == pair[3 - half]
  IN /\ pair[1] \in Nat /\ pair[2] \in Nat /\ pair[1] < pair[2] /\ d = pair[half]
     /\ other \in 0 .. c.attr.n_dims - 1
     /\ \A e \in 0 .. c.attr.n_dims - 1 : (RopePair(c, d, e) \/ RopePair(c, e, d)) <=> e = other
     /\ p = IF c.attr.mode = GptJ THEN pair[1] \div 2 ELSE pair[1]
     /\ \A q \in 0 .. c.attr.n_dims \div 2 - 1 : \A k \in 1 .. 2 :
          d = PairOf(c, q)[k] => q = p /\ k = half

\* The first n_dims dimensions fall into pairs, in both layouts of the pairs.
LEMMA RopePairs ==
  ASSUME NEW c, NEW h \in Nat, c.attr.n_dims = 2 * h, c.attr.mode \in {GptJ, Neox}, NEW d \in Nat
  PROVE  /\ d < 2 * h => \E p \in 0 .. h - 1 : \E half \in 1 .. 2 : PairedAs(c, d, p, half)
         /\ \A p \in 0 .. h - 1 : \A half \in 1 .. 2 : PairOf(c, p)[half] < 2 * h
<1>1. (2 * h) \div 2 = h
  OBVIOUS
<1>2. ASSUME NEW p \in 0 .. h - 1
      PROVE  PairOf(c, p) = IF c.attr.mode = GptJ THEN <<2 * p, 2 * p + 1>> ELSE <<p, p + h>>
  BY <1>1 DEF PairOf
<1>3. ASSUME NEW p \in 0 .. h - 1, NEW half \in 1 .. 2 PROVE PairOf(c, p)[half] < 2 * h
  <2>1. half = 1 \/ half = 2
    OBVIOUS
  <2> QED BY <1>2, <2>1
<1>4. ASSUME d < 2 * h, c.attr.mode = GptJ
      PROVE  \E p \in 0 .. h - 1 : \E half \in 1 .. 2 : PairedAs(c, d, p, half)
  <2>1. PICK p \in 0 .. h - 1 : d = 2 * p \/ d = 2 * p + 1
    <3>1. d \div 2 \in 0 .. h - 1 /\ (d = 2 * (d \div 2) \/ d = 2 * (d \div 2) + 1)
      BY <1>4
    <3> QED BY <3>1
  <2>2. PairOf(c, p) = <<2 * p, 2 * p + 1>> /\ (2 * p) \div 2 = p
    BY <1>2, <1>4
  <2>3. ASSUME NEW x \in 0 .. 2 * h - 1, NEW y \in 0 .. 2 * h - 1
        PROVE  RopePair(c, x, y) <=> x % 2 = 0 /\ y = x + 1
    BY <1>4 DEF RopePair
  <2>4. \A q \in 0 .. h - 1 : PairOf(c, q) = <<2 * q, 2 * q + 1>>
    BY <1>2, <1>4
  <2>5. ASSUME NEW q \in 0 .. h - 1, NEW k \in 1 .. 2, d = PairOf(c, q)[k]
        PROVE  q = p /\ k = (IF d = 2 * p THEN 1 ELSE 2)
    <3>1. (k = 1 /\ d = 2 * q) \/ (k = 2 /\ d = 2 * q + 1)
      BY <2>4, <2>5
    <3> QED BY <2>1, <3>1
  <2>6. ASSUME NEW e \in 0 .. 2 * h - 1
        PROVE  (RopePair(c, d, e) \/ RopePair(c, e, d)) <=> e = (IF d = 2 * p THEN 2 * p + 1 ELSE 2 * p)
    <3>1. d \in 0 .. 2 * h - 1
      BY <1>4
    <3>2. (RopePair(c, d, e) \/ RopePair(c, e, d))
             <=> (d % 2 = 0 /\ e = d + 1) \/ (e % 2 = 0 /\ d = e + 1)
      BY <2>3, <3>1
    <3>3. (2 * p) % 2 = 0 /\ (2 * p + 1) % 2 = 1
      OBVIOUS
    <3>4. CASE d = 2 * p
      <4>1. e % 2 = 0 => d # e + 1
        BY <3>4
      <4> QED BY <3>2, <3>3, <3>4, <4>1
    <3>5. CASE d = 2 * p + 1
      <4>1. d % 2 # 0 /\ d # 2 * p
        BY <3>3, <3>5
      <4>2. d = e + 1 <=> e = 2 * p
        BY <3>5
      <4> QED BY <3>2, <3>3, <4>1, <4>2
    <3> QED BY <2>1, <3>4, <3>5
  <2>7. CASE d = 2 * p
    <3>1. PairedAs(c, d, p, 1)
      BY <1>1, <1>4, <2>2, <2>5, <2>6, <2>7 DEF PairedAs
    <3> QED BY <3>1
  <2>8. CASE d = 2 * p + 1
    <3>1. d # 2 * p
      BY <2>8
    <3>2. PairedAs(c, d, p, 2)
      BY <1>1, <1>4, <2>2, <2>5, <2>6, <2>8, <3>1 DEF PairedAs
    <3> QED BY <3>2
  <2> QED BY <2>1, <2>7, <2>8
<1>5. ASSUME d < 2 * h, c.attr.mode # GptJ
      PROVE  \E p \in 0 .. h - 1 : \E half \in 1 .. 2 : PairedAs(c, d, p, half)
  <2>1. \A x, y : RopePair(c, x, y) <=> y = x + h
    BY <1>1, <1>5 DEF RopePair
  <2>2. \A q \in 0 .. h - 1 : PairOf(c, q) = <<q, q + h>>
    BY <1>2, <1>5
  <2>3. CASE d < h
    <3>1. ASSUME NEW q \in 0 .. h - 1, NEW k \in 1 .. 2, d = PairOf(c, q)[k] PROVE q = d /\ k = 1
      <4>1. (k = 1 /\ d = q) \/ (k = 2 /\ d = q + h)
        BY <2>2, <3>1
      <4> QED BY <2>3, <4>1
    <3>2. ASSUME NEW e \in 0 .. 2 * h - 1
          PROVE  (RopePair(c, d, e) \/ RopePair(c, e, d)) <=> e = d + h
      BY <2>1, <2>3
    <3>3. PairOf(c, d) = <<d, d + h>> /\ d \in 0 .. h - 1
      BY <2>2, <2>3
    <3>4. PairedAs(c, d, d, 1)
      BY <1>1, <1>5, <3>1, <3>2, <3>3 DEF PairedAs
    <3> QED BY <3>3, <3>4
  <2>4. CASE d >= h
    <3>1. PICK p \in 0 .. h - 1 : d = p + h
      <4>1. d - h \in 0 .. h - 1 /\ d = (d - h) + h
        BY <1>5, <2>4
      <4> QED BY <4>1
    <3>2. ASSUME NEW q \in 0 .. h - 1, NEW k \in 1 .. 2, d = PairOf(c, q)[k] PROVE q = p /\ k = 2
      <4>1. (k = 1 /\ d = q) \/ (k = 2 /\ d = q + h)
        BY <2>2, <3>2
      <4> QED BY <2>4, <3>1, <4>1
    <3>3. ASSUME NEW e \in 0 .. 2 * h - 1
          PROVE  (RopePair(c, d, e) \/ RopePair(c, e, d)) <=> e = p
      BY <2>1, <3>1
    <3>4. PairOf(c, p) = <<p, p + h>>
      BY <2>2
    <3>5. PairedAs(c, d, p, 2)
      BY <1>1, <1>5, <3>1, <3>2, <3>3, <3>4 DEF PairedAs
    <3> QED BY <3>5
  <2> QED BY <2>3, <2>4
<1> QED BY <1>3, <1>4, <1>5

\* Where the code finds batch, token and dimension of a cell of a 4-axis view.
TokenOf(s, y, l) ==
  /\ l \div (s[3] * s[4]) \in Nat
  /\ (l \div (s[3] * s[4])) \div s[2] = y[1] /\ (l \div (s[3] * s[4])) % s[2] = y[2]
\* It is at the first two coordinates of the cell.
LEMMA TokenIs ==
  ASSUME NEW s \in [1 .. 4 -> Nat], Len(s) = 4, NEW y \in [1 .. 4 -> Nat],
         \A a \in 1 .. 4 : y[a] \in 0 .. s[a] - 1, NEW l, l = RowMajor(s, y)
  PROVE  TokenOf(s, y, l)
<1>1. PICK s2 \in Nat, s3 \in Nat, s4 \in Nat : s2 = s[2] /\ s3 = s[3] /\ s4 = s[4]
  OBVIOUS
<1>2. PICK y1 \in Nat, y2 \in 0 .. s2 - 1, y3 \in 0 .. s3 - 1, y4 \in 0 .. s4 - 1 :
        y1 = y[1] /\ y2 = y[2] /\ y3 = y[3] /\ y4 = y[4]
  BY <1>1
<1>3. PICK t \in Nat : t = y1 * s2 + y2
  BY <1>2
<1>4. l = (t * s3 + y3) * s4 + y4
  BY <1>1, <1>2, <1>3, RowMajorOfFour
<1>5. PICK b \in Nat : b = s3 * s4
  OBVIOUS
<1>6. PICK e \in 0 .. b - 1 : e = y3 * s4 + y4
  BY <1>5, RowBound
<1>7. l = t * b + e
  <2>1. (t * s3 + y3) * s4 + y4 = t * (s3 * s4) + (y3 * s4 + y4)
    <3>1. y3 \in Nat /\ y4 \in Nat
      BY <1>2
    <3> QED BY ONLY <3>1, t \in Nat, s3 \in Nat, s4 \in Nat
  <2> QED BY <1>4, <1>5, <1>6, <2>1
<1>8. l \div b = t
  <2>1. (t * b + e) \div b = t
    BY LastDigit
  <2> QED BY <1>7, <2>1
<1>9. t \div s2 = y1 /\ t % s2 = y2
  <2>1. (y1 * s2 + y2) \div s2 = y1 /\ (y1 * s2 + y2) % s2 = y2
    BY ONLY y1 \in Nat, s2 \in Nat, y2 \in 0 .. s2 - 1, LastDigit
  <2> QED BY <1>3, <2>1
<1> QED BY <1>1, <1>2, <1>5, <1>8, <1>9 DEF TokenOf

\* ROPE rotates a dimension with the other one of its pair by the position of the
\* token, its own or the one the second input holds, and moves the rest.
LEMMA RopePosition ==
  ASSUME NEW c, NEW l, NEW y, RowKernel(c, l, y), RopeOK(c)
  PROVE  PositionOf(c, y[1], y[2]) =
           IF Len(c.in) = 1 THEN y[2]
           ELSE IF Count(c.in[2]) = Src(c).shape[2] THEN IntAt(c, CellNumber(c.in[2], y[2]))
           ELSE IntAt(c, CellNumber(c.in[2], y[1] * Src(c).shape[2] + y[2]))
<1>. DEFINE M == c.in[2]
            s == Src(c).shape
<1>1. /\ Len(c.in) \in {1, 2} /\ (Len(c.in) = 2 => M \in Views /\ MetaOK(M))
      /\ s \in [1 .. 4 -> Nat] /\ \A a \in 1 .. 4 : y[a] \in 0 .. s[a] - 1
  BY RowKernelFacts DEF RopeOK
<1>2. PICK s1 \in Nat, s2 \in Nat : s1 = s[1] /\ s2 = s[2]
  BY <1>1
<1>3. PICK y1 \in 0 .. s1 - 1, y2 \in 0 .. s2 - 1 : y1 = y[1] /\ y2 = y[2]
  BY <1>1, <1>2
<1>4. CASE Len(c.in) = 1
  BY <1>4 DEF PositionOf, HasSecond
<1>5. CASE Len(c.in) = 2
  <2>1. M \in Views /\ MetaOK(M) /\ M.dtype \in {"I32", "I64"} /\ Count(M) \in {s2, s1 * s2}
    BY <1>1, <1>2, <1>5 DEF RopeOK, HasSecond, IndicesOK
  <2>2. ASSUME NEW k \in Linears(M) PROVE Indices(c, M)[k] = IntAt(c, CellNumber(M, k))
    <3>1. CellNumber(M, k) \in Cells(M.shape) /\ RowMajor(M.shape, CellNumber(M, k)) = k
      BY <2>1, CellNumberIs
    <3>2. Indices(c, M)[RowMajor(M.shape, CellNumber(M, k))] = IntAt(c, CellNumber(M, k))
      BY <2>1, <3>1, IndexRead
    <3> QED BY <3>1, <3>2
  <2>3. CASE Count(M) = s2
    <3>1. y2 \in Linears(M)
      BY <2>3 DEF Linears
    <3> QED BY <1>2, <1>3, <1>5, <2>2, <2>3, <3>1 DEF PositionOf, HasSecond
  <2>4. CASE Count(M) # s2
    <3>1. y1 * s2 + y2 \in 0 .. s1 * s2 - 1
      BY RowBound
    <3>2. y1 * s2 + y2 \in Linears(M)
      BY <2>1, <2>4, <3>1 DEF Linears
    <3> QED BY <1>2, <1>3, <1>5, <2>2, <2>4, <3>2 DEF PositionOf, HasSecond
  <2> QED BY <2>3, <2>4
<1> QED BY <1>1, <1>4, <1>5

\* ROPE turns each pair by its angle and moves the dimensions beyond n_dims.
LEMMA RopeComputes ==
  ASSUME NEW c, NEW l, NEW y, RowKernel(c, l, y), RopeOK(c)
  PROVE  RopeResult(c)[l] = RopeValue(c, y)
<1>. DEFINE addr == LogicalAddr(Src(c))
            s == Src(c).shape
            Base(m) == (m \div s[4]) * s[4]
            Token(m) == m \div (s[3] * s[4])
            Position(m) == PositionOf(c, Token(m) \div s[2], Token(m) % s[2])
            Rotated(m, p, half) ==
              Term("rotate", <<half, p, Position(m)>>,
                   <<addr[Base(m) + PairOf(c, p)[1]], addr[Base(m) + PairOf(c, p)[2]]>>)
            pairs == 0 .. c.attr.n_dims \div 2 - 1
            E == \E p \in pairs, half \in 1 .. 2 : l % s[4] = PairOf(c, p)[half]
            pp == CHOOSE p \in pairs : \E half \in 1 .. 2 : l % s[4] = PairOf(c, p)[half]
            hh == CHOOSE half \in 1 .. 2 : l % s[4] = PairOf(c, pp)[half]
            X(e) == [y EXCEPT ![4] = e]
<1>1. /\ Src(c) \in Views /\ MetaOK(Src(c)) /\ l \in Linears(Dst(c)) /\ addr[l] = At(Src(c), y)
      /\ s \in [1 .. 4 -> Nat] /\ Len(s) = 4 /\ Rank(Src(c)) = 4 /\ l = RowMajor(s, y)
      /\ y \in [1 .. 4 -> Nat] /\ \A a \in 1 .. 4 : y[a] \in 0 .. s[a] - 1
      /\ y \in Cells(s) /\ Axes(Src(c)) = 1 .. 4
      /\ c.attr.n_dims \in 1 .. s[4] /\ c.attr.n_dims % 2 = 0 /\ c.attr.mode \in {GptJ, Neox}
  BY RowKernelFacts DEF RopeOK, RowKernel
<1>2. RopeResult(c)[l] = IF E THEN Rotated(l, pp, hh) ELSE Moved(addr[l])
  BY <1>1, ZenonT(30) DEF RopeResult
<1>3. InLastRow(4, s, y, l)
  <2>1. InCells(4, s, y)
    BY <1>1 DEF InCells
  <2>2. PICK n \in Nat : n = 4
    OBVIOUS
  <2>. HIDE DEF s
  <2>3. n >= 1 /\ s \in [1 .. n -> Nat] /\ Len(s) = n /\ InCells(n, s, y) /\ l = RowMajor(s, y)
    BY <1>1, <2>1, <2>2
  <2>4. InLastRow(n, s, y, l)
    BY <2>3, LastRow
  <2> QED BY <2>2, <2>4
<1>4. l % s[4] = y[4] /\ \A e \in Nat : RowAt(s, 4, l, e) = Base(l) + e
  BY <1>3 DEF InLastRow
<1>5. ASSUME NEW e \in 0 .. s[4] - 1 PROVE addr[Base(l) + e] = At(Src(c), X(e))
  <2>1. addr[RowAt(s, 4, RowMajor(s, y), e)] = At(Src(c), X(e))
    <3>1. PICK k : k = 4
      OBVIOUS
    <3>2. k \in 1 .. Rank(Src(c)) /\ e \in 0 .. Src(c).shape[k] - 1
          /\ Src(c) \in Views /\ MetaOK(Src(c)) /\ y \in Cells(Src(c).shape)
      BY <1>1, <3>1
    <3>3. LogicalAddr(Src(c))[RowAt(Src(c).shape, k, RowMajor(Src(c).shape, y), e)]
            = At(Src(c), [y EXCEPT ![k] = e])
      <4>. HIDE DEF s, addr
      <4> QED BY <3>2, RowAtCell
    <3> QED BY <3>1, <3>3
  <2>2. e \in Nat
    BY <1>1
  <2> QED BY <1>1, <1>4, <2>1, <2>2
<1>6. Position(l) = PositionOf(c, y[1], y[2])
  <2>1. TokenOf(s, y, l)
    BY <1>1, TokenIs
  <2> QED BY <2>1 DEF TokenOf
<1>7. PICK h \in Nat, d \in Nat : c.attr.n_dims = 2 * h /\ d = y[4] /\ d \in 0 .. s[4] - 1
                                  /\ 2 * h <= s[4] /\ pairs = 0 .. h - 1
  <2>1. PICK m \in Nat : m = c.attr.n_dims /\ m % 2 = 0 /\ m <= s[4]
    BY <1>1
  <2>2. m = 2 * (m \div 2) /\ m \div 2 \in Nat
    BY <2>1
  <2>3. y[4] \in Nat /\ y[4] \in 0 .. s[4] - 1
    BY <1>1
  <2> QED BY <2>1, <2>2, <2>3
<1>. HIDE DEF addr, Base, Position, X, Rotated
<1>8. CASE d < 2 * h
  <2>1. PICK p \in 0 .. h - 1, half \in 1 .. 2 : PairedAs(c, d, p, half)
    BY <1>1, <1>7, <1>8, RopePairs
  <2>2. PICK u \in Nat, v \in Nat : u = PairOf(c, p)[1] /\ v = PairOf(c, p)[2] /\ u < v
    BY <2>1 DEF PairedAs
  <2>3. PICK o \in Nat : o = PairOf(c, p)[3 - half]
    BY <2>1 DEF PairedAs
  <2>4. /\ d = PairOf(c, p)[half] /\ o \in 0 .. 2 * h - 1
        /\ \A e \in 0 .. 2 * h - 1 : (RopePair(c, d, e) \/ RopePair(c, e, d)) <=> e = o
        /\ p = IF c.attr.mode = GptJ THEN u \div 2 ELSE u
        /\ \A q \in pairs : \A k \in 1 .. 2 : d = PairOf(c, q)[k] => q = p /\ k = half
    BY <1>7, <2>1, <2>2, <2>3 DEF PairedAs
  <2>5. E /\ pp = p
    <3>1. p \in pairs /\ l % s[4] = PairOf(c, p)[half]
      BY <1>4, <1>7, <2>4
    <3>2. \A q \in pairs : (\E k \in 1 .. 2 : l % s[4] = PairOf(c, q)[k]) => q = p
      BY <1>4, <1>7, <2>4
    <3> QED BY <3>1, <3>2
  <2>6. hh = half
    <3>1. l % s[4] = PairOf(c, pp)[half] /\ \A k \in 1 .. 2 : l % s[4] = PairOf(c, pp)[k] => k = half
      BY <1>4, <1>7, <2>4, <2>5
    <3> QED BY <3>1
  <2>. HIDE DEF E, pp, hh
  <2>7. (half = 1 /\ u = d /\ v = o) \/ (half = 2 /\ u = o /\ v = d)
    BY <2>2, <2>3, <2>4
  <2>. DEFINE dims == 0 .. c.attr.n_dims - 1
              other == CHOOSE e \in dims : RopePair(c, y[4], e) \/ RopePair(c, e, y[4])
              first == IF y[4] < other THEN y[4] ELSE other
  <2>8. d \in dims /\ other = o
    BY <1>7, <1>8, <2>4
  <2>9. first = u /\ d + other - first = v /\ half = (IF d = first THEN 1 ELSE 2)
        /\ p = IF c.attr.mode = GptJ THEN first \div 2 ELSE first
    <3>. HIDE DEF other
    <3> QED BY <1>7, <2>2, <2>4, <2>7, <2>8
  <2>10. Rotated(l, pp, hh) = Term("rotate", <<half, p, Position(l)>>, <<At(Src(c), X(u)), At(Src(c), X(v))>>)
    <3>1. u \in 0 .. s[4] - 1 /\ v \in 0 .. s[4] - 1
      <4>1. PICK S \in Nat : S = s[4]
        BY <1>1
      <4> QED BY <1>7, <1>8, <2>4, <2>7, <4>1
    <3> QED BY <1>5, <2>2, <2>5, <2>6, <3>1 DEF Rotated
  <2>11. RopeValue(c, y) =
           Term("rotate", <<IF y[4] = first THEN 1 ELSE 2,
                            IF c.attr.mode = GptJ THEN first \div 2 ELSE first,
                            PositionOf(c, y[1], y[2])>>,
                <<At(Src(c), X(first)), At(Src(c), X(y[4] + other - first))>>)
    <3>. DEFINE position ==
                  IF Len(c.in) = 1 THEN y[2]
                  ELSE IF Count(c.in[2]) = Src(c).shape[2] THEN IntAt(c, CellNumber(c.in[2], y[2]))
                  ELSE IntAt(c, CellNumber(c.in[2], y[1] * Src(c).shape[2] + y[2]))
    <3>1. PositionOf(c, y[1], y[2]) = position
      BY RopePosition
    <3>2. y[4] \in 0 .. c.attr.n_dims - 1
      BY <1>7, <2>8
    <3>3. RopeValue(c, y) =
            Term("rotate", <<IF y[4] = first THEN 1 ELSE 2,
                             IF c.attr.mode = GptJ THEN first \div 2 ELSE first, position>>,
                 <<At(Src(c), [y EXCEPT ![4] = first]), At(Src(c), [y EXCEPT ![4] = y[4] + other - first])>>)
      BY ONLY <3>2, Zenon DEF RopeValue
    <3>. HIDE DEF position, first, other
    <3> QED BY <3>1, <3>3 DEF X
  <2>. HIDE DEF other, first
  <2> QED BY <1>2, <1>6, <1>7, <2>5, <2>9, <2>10, <2>11
<1>9. CASE d >= 2 * h
  <2>1. ~E
    <3>1. \A q \in pairs : \A k \in 1 .. 2 : PairOf(c, q)[k] < 2 * h
      BY <1>1, <1>7, RopePairs
    <3>2. ASSUME NEW q \in pairs, NEW k \in 1 .. 2, d = PairOf(c, q)[k] PROVE FALSE
      <4>1. d < 2 * h
        BY <3>1, <3>2
      <4> QED BY <1>9, <4>1
    <3> QED BY <1>4, <1>7, <3>2
  <2>2. d \notin 0 .. c.attr.n_dims - 1
    BY <1>7, <1>9
  <2>3. RopeValue(c, y) = Moved(At(Src(c), y))
    BY <1>7, <2>2 DEF RopeValue
  <2> QED BY <1>1, <1>2, <2>1, <2>3
<1> QED BY <1>7, <1>8, <1>9

\* The two neighbours of a position are the cell below it and the next one, and the
\* weight is how far the position is from the one below; beyond an edge both are
\* the cell at the edge, or the weight is 0.
BelowOf(u, w, n) == CHOOSE x \in 0 .. n - 1 : Below(x, u, w, n)
Interpolated(u, w, n) ==
  LET b == BelowOf(u, w, n)
  IN /\ b \in 0 .. n - 1
     /\ Neighbours(<<u, w>>, n).lo = b
     /\ Neighbours(<<u, w>>, n).hi = (IF b = n - 1 THEN n - 1 ELSE b + 1)
     /\ (IF b = n - 1 THEN n - 1 ELSE b + 1) \in 0 .. n - 1
     /\ Neighbours(<<u, w>>, n).w = <<IF u < 0 \/ b = n - 1 THEN 0 ELSE u - b * w, w>>
\* What the code computes by clamping and dividing is this, at the edges as well.
LEMMA NeighboursAre ==
  ASSUME NEW u \in Int, NEW w \in Nat \ {0}, NEW n \in Nat, n >= 1
  PROVE  Interpolated(u, w, n)
<1>. DEFINE m == n - 1
            top == m * w
            N == Neighbours(<<u, w>>, n)
            p == IF u < 0 THEN 0 ELSE IF u > top THEN top ELSE u
            k == p \div w
            r == p % w
<1>1. m \in Nat /\ top \in Nat
  BY DEF m
<1>2. N = [lo |-> k, hi |-> Clamp(k + 1, m), w |-> <<r, w>>]
  <2>. HIDE DEF top, m
  <2>1. (IF u < 0 THEN <<0, w>> ELSE IF u > top THEN <<top, w>> ELSE <<u, w>>) = <<p, w>>
    OBVIOUS
  <2> QED BY <2>1 DEF Neighbours, Floor, top, m
<1>. HIDE DEF N, m
<1>3. PICK K \in Nat, R \in 0 .. w - 1 : K = k /\ R = r /\ p = K * w + R
  <2>1. p \in Nat
    BY <1>1
  <2>. HIDE DEF p
  <2>2. p \div w \in Nat /\ p % w \in 0 .. w - 1 /\ p = w * (p \div w) + (p % w)
    BY <2>1
  <2>3. PICK K \in Nat, R \in 0 .. w - 1 : K = p \div w /\ R = p % w
    BY <2>2
  <2>4. w * K + R = K * w + R
    OBVIOUS
  <2> QED BY <2>2, <2>3, <2>4
<1>4. K <= m
  <2>1. p <= top
    BY <1>1
  <2>. HIDE DEF p
  <2>2. ASSUME m < K PROVE FALSE
    <3>1. Times(m, w) + w <= Times(K, w) /\ Times(m, w) \in Int /\ Times(K, w) \in Int
      BY <1>1, <2>2, TimesStep
    <3>2. Times(K, w) <= Times(m, w)
      <4>1. p = Times(K, w) + R /\ p <= Times(m, w)
        BY <1>3, <2>1 DEF Times
      <4> QED BY ONLY <3>1, <4>1, R \in 0 .. w - 1, w \in Nat \ {0}
    <3> QED BY ONLY <3>1, <3>2, w \in Nat \ {0}
  <2> QED BY <1>1, <2>2
<1>5. PICK t \in Int : t = Times(K, w) /\ p = t + R /\ Times(K + 1, w) = t + w
  <2>1. K * w \in Int /\ (K + 1) * w = K * w + w
    OBVIOUS
  <2> QED BY <1>3, <2>1 DEF Times
<1>6. Below(K, u, w, n)
  <2>1. (K + 1) * w = t + w /\ K * w = t
    BY <1>5 DEF Times
  <2>2. CASE u < 0
    <3>1. K = 0
      <4>1. p = 0
        BY <2>2
      <4>. HIDE DEF p
      <4>2. ~(0 < K)
        <5>1. ASSUME 0 < K PROVE FALSE
          <6>1. Times(0, w) + w <= Times(K, w) /\ Times(0, w) = 0
            BY <5>1, TimesStep DEF Times
          <6> QED BY ONLY <6>1, <4>1, <1>5, R \in 0 .. w - 1, w \in Nat \ {0}, t \in Int
        <5> QED BY <5>1
      <4> QED BY <4>2
    <3>2. t = 0
      BY <1>5, <3>1 DEF Times
    <3>3. t + w > u
      BY <2>2, <3>2
    <3> QED BY <2>1, <3>1, <3>3 DEF Below
  <2>3. CASE ~(u < 0) /\ u > top
    <3>1. p = top
      BY <2>3
    <3>2. K = m
      <4>1. top = m * w + 0 /\ 0 \in 0 .. w - 1
        BY <1>1
      <4>2. (m * w + 0) \div w = m
        BY ONLY <1>1, <4>1, w \in Nat \ {0}, m \in Nat, LastDigit
      <4>. HIDE DEF p, top
      <4> QED BY <1>3, <3>1, <4>1, <4>2
    <3>3. t <= u
      <4>1. t = top
        BY <1>5, <3>2 DEF Times
      <4> QED BY <1>1, <2>3, <4>1
    <3> QED BY <2>1, <3>2, <3>3 DEF Below, m
  <2>4. CASE ~(u < 0) /\ ~(u > top)
    <3>1. p = u
      BY <2>4
    <3>. HIDE DEF p
    <3>2. t <= u /\ t + w > u
      BY ONLY <1>5, <3>1, R \in 0 .. w - 1, w \in Nat \ {0}, t \in Int, u \in Int
    <3> QED BY <2>1, <3>2 DEF Below
  <2> QED BY <2>2, <2>3, <2>4
<1>7. BelowOf(u, w, n) = K
  <2>1. K \in 0 .. n - 1
    BY <1>1, <1>4 DEF m
  <2>2. ASSUME NEW x \in 0 .. n - 1, Below(x, u, w, n) PROVE x = K
    <3>1. AtOrBelow(x, u, w, n) /\ AtOrBelow(K, u, w, n)
      BY <1>6, <2>2 DEF Below, AtOrBelow, Times
    <3>2. ~(x < K) /\ ~(K < x)
      BY <2>1, <3>1, OnlyBelow
    <3> QED BY <2>1, <3>2
  <2> QED BY <1>6, <2>1, <2>2 DEF BelowOf
<1>8. R = IF u < 0 \/ K = m THEN 0 ELSE u - K * w
  <2>1. CASE u < 0
    <3>1. p = 0
      BY <2>1
    <3>. HIDE DEF p
    <3>2. t >= 0
      <4>1. K * w \in Nat
        OBVIOUS
      <4> QED BY <1>5, <4>1 DEF Times
    <3> QED BY <1>5, <2>1, <3>1, <3>2
  <2>2. CASE ~(u < 0) /\ K = m
    <3>1. p <= top
      BY <1>1
    <3>. HIDE DEF p
    <3>2. t = top
      BY <1>5, <2>2 DEF Times
    <3>. HIDE DEF top
    <3> QED BY <1>5, <2>2, <3>1, <3>2
  <2>3. CASE ~(u < 0) /\ K # m
    <3>1. p = u
      <4>1. ASSUME u > top PROVE FALSE
        <5>1. p = top
          BY <2>3, <4>1
        <5>2. top = m * w + 0 /\ 0 \in 0 .. w - 1
          BY <1>1
        <5>3. (m * w + 0) \div w = m
          BY ONLY <1>1, <5>2, w \in Nat \ {0}, m \in Nat, LastDigit
        <5>. HIDE DEF p, top
        <5> QED BY <1>3, <2>3, <5>1, <5>2, <5>3
      <4> QED BY <2>3, <4>1
    <3>. HIDE DEF p
    <3>2. K * w = t
      BY <1>5 DEF Times
    <3> QED BY <1>5, <2>3, <3>1, <3>2
  <2> QED BY <2>1, <2>2, <2>3
<1>9. Clamp(K + 1, m) = IF K = m THEN m ELSE K + 1
  BY <1>1, <1>4 DEF Clamp
<1>. HIDE DEF p, k, r
<1>10. N.lo = K /\ N.hi = (IF K = m THEN m ELSE K + 1) /\ N.w = <<R, w>>
  BY <1>2, <1>3, <1>9
<1>11. K \in 0 .. m /\ (IF K = m THEN m ELSE K + 1) \in 0 .. m
  BY <1>1, <1>4
<1> QED BY <1>7, <1>8, <1>10, <1>11 DEF Interpolated, N, m

\* The address of a cell of four coordinates.
LEMMA FourCell ==
  ASSUME NEW v \in Views, MetaOK(v), Rank(v) = 4,
         NEW e \in 0 .. v.shape[1] - 1, NEW f \in 0 .. v.shape[2] - 1,
         NEW i \in 0 .. v.shape[3] - 1, NEW j \in 0 .. v.shape[4] - 1
  PROVE  LogicalAddr(v)[((e * v.shape[2] + f) * v.shape[3] + i) * v.shape[4] + j]
           = At(v, <<e, f, i, j>>)
<1>. DEFINE s == v.shape
            x == <<e, f, i, j>>
<1>1. s \in [1 .. 4 -> Nat] /\ Len(s) = 4
  BY ViewFacts DEF Rank
<1>2. x[1] = e /\ x[2] = f /\ x[3] = i /\ x[4] = j /\ x \in [1 .. 4 -> Nat]
  <2>1. e \in Nat /\ f \in Nat /\ i \in Nat /\ j \in Nat
    BY <1>1
  <2> QED BY <2>1
<1>. HIDE DEF x
<1>3. \A a \in 1 .. 4 : x[a] \in 0 .. s[a] - 1
  <2>1. 1 .. 4 = {1, 2, 3, 4}
    OBVIOUS
  <2> QED BY <1>2, <2>1
<1>4. x \in Cells(s)
  <2>1. InCells(4, s, x)
    BY <1>2, <1>3 DEF InCells
  <2>2. 4 \in Nat
    OBVIOUS
  <2>. HIDE DEF s
  <2> QED BY ONLY <1>1, <2>1, <2>2, CellIn
<1>5. RowMajor(s, x) = ((e * s[2] + f) * s[3] + i) * s[4] + j
  <2>1. RowMajor(s, x) = ((x[1] * s[2] + x[2]) * s[3] + x[3]) * s[4] + x[4]
    <3>. HIDE DEF s
    <3> QED BY ONLY <1>1, <1>2, RowMajorOfFour
  <2> QED BY <1>2, <2>1
<1>6. LogicalAddr(v)[RowMajor(s, x)] = At(v, x)
  BY <1>4, IndexOfCell
<1> QED BY <1>5, <1>6 DEF x

\* RESIZE between pixels computes a cell from the four cells around its position,
\* and from how far it is from the first of them.
LEMMA ResizeComputes ==
  ASSUME NEW c, c.in \in Seq(Views), c.out \in Seq(Views), ResizeOK(c), ~ResizePanics(c),
         c.attr.mode = 1, NEW l \in Linears(Dst(c)), NEW y, y = Coordinates(Dst(c).shape, l)
  PROVE  ResizeResult(c)[l] = LerpValue(c, y)
<1>. DEFINE is == Src(c).shape
            os == Dst(c).shape
            Ny == Neighbours(SourceCoordinate(c, y[3], is[3], os[3]), is[3])
            Nx == Neighbours(SourceCoordinate(c, y[4], is[4], os[4]), is[4])
            At4(i, j) == LogicalAddr(Src(c))[((y[1] * is[2] + y[2]) * is[3] + i) * is[4] + j]
<1>1. /\ 1 \in DOMAIN c.in /\ Src(c) \in Views /\ Dst(c) \in Views /\ AllMetaOK(c)
      /\ Rank(Src(c)) = 4 /\ Rank(Dst(c)) = 4 /\ Src(c) = c.in[1]
      /\ y \in [1 .. 4 -> Nat]
      /\ \A a \in 1 .. 4 : /\ is[a] \in Nat /\ is[a] >= 1 /\ os[a] \in Nat /\ os[a] >= 1
      /\ y[1] \in 0 .. is[1] - 1 /\ y[2] \in 0 .. is[2] - 1
  BY ResizeFacts
<1>2. MetaOK(Src(c)) /\ c.attr.coordinate_mode \in 0 .. 2
  BY <1>1, SourceMeta DEF ResizeOK
<1>3. ResizeResult(c)[l] =
        Term("lerp", Ny.w \o Nx.w,
             <<At4(Ny.lo, Nx.lo), At4(Ny.lo, Nx.hi), At4(Ny.hi, Nx.lo), At4(Ny.hi, Nx.hi)>>)
  BY DEF ResizeResult
<1>4. ASSUME NEW i \in 0 .. is[3] - 1, NEW j \in 0 .. is[4] - 1
      PROVE  At4(i, j) = At(Src(c), <<y[1], y[2], i, j>>)
  BY <1>1, <1>2, FourCell
<1>. HIDE DEF At4
<1>. DEFINE E(d) == ExactPosition(c, y[d + 2], is[d + 2], os[d + 2])
            Bl(d) == CHOOSE x \in 0 .. is[d + 2] - 1 : Below(x, E(d).p, E(d).q, is[d + 2])
            Ab(d) == IF Bl(d) = is[d + 2] - 1 THEN is[d + 2] - 1 ELSE Bl(d) + 1
            Aw(d) == IF E(d).p < 0 \/ Bl(d) = is[d + 2] - 1 THEN 0 ELSE E(d).p - Bl(d) * E(d).q
            N(d) == Neighbours(SourceCoordinate(c, y[d + 2], is[d + 2], os[d + 2]), is[d + 2])
<1>5. ASSUME NEW d \in {1, 2}
      PROVE  /\ Bl(d) \in 0 .. is[d + 2] - 1 /\ Ab(d) \in 0 .. is[d + 2] - 1
             /\ N(d).lo = Bl(d) /\ N(d).hi = Ab(d) /\ N(d).w = <<Aw(d), E(d).q>>
  <2>1. PICK n \in Nat, m \in Nat, k \in Nat :
          n = is[d + 2] /\ m = os[d + 2] /\ k = y[d + 2] /\ n >= 1 /\ m >= 1
    <3>1. d + 2 \in 1 .. 4
      OBVIOUS
    <3> QED BY <1>1, <3>1
  <2>2. HasPosition(c, k, n, m)
    BY <1>2, <2>1, ExactPositionIs
  <2>3. PICK u \in Int, w \in Nat \ {0} :
          /\ ExactPosition(c, k, n, m) = [p |-> u, q |-> w]
          /\ SourceCoordinate(c, k, n, m) = <<u, w>>
    BY <2>2 DEF HasPosition
  <2>4. Interpolated(u, w, n)
    BY <2>1, NeighboursAre
  <2>5. E(d).p = u /\ E(d).q = w /\ N(d) = Neighbours(<<u, w>>, n)
    BY <2>1, <2>3
  <2>. HIDE DEF E, N
  <2>6. Bl(d) = BelowOf(u, w, n)
    BY <2>1, <2>5 DEF BelowOf
  <2>. HIDE DEF Bl
  <2> QED BY <2>1, <2>4, <2>5, <2>6 DEF Interpolated
<1>6. N(1) = Ny /\ N(2) = Nx
  OBVIOUS
<1>7. LerpValue(c, y) =
        Term("lerp", <<Aw(1), E(1).q, Aw(2), E(2).q>>,
             <<At(Src(c), <<y[1], y[2], Bl(1), Bl(2)>>), At(Src(c), <<y[1], y[2], Bl(1), Ab(2)>>),
               At(Src(c), <<y[1], y[2], Ab(1), Bl(2)>>), At(Src(c), <<y[1], y[2], Ab(1), Ab(2)>>)>>)
  BY DEF LerpValue
<1>. HIDE DEF N, Bl, Ab, Aw, E, Ny, Nx
<1>8. /\ Ny.lo = Bl(1) /\ Ny.hi = Ab(1) /\ Nx.lo = Bl(2) /\ Nx.hi = Ab(2)
      /\ Ny.w = <<Aw(1), E(1).q>> /\ Nx.w = <<Aw(2), E(2).q>>
      /\ Bl(1) \in 0 .. is[3] - 1 /\ Ab(1) \in 0 .. is[3] - 1
      /\ Bl(2) \in 0 .. is[4] - 1 /\ Ab(2) \in 0 .. is[4] - 1
  BY <1>5, <1>6
<1>9. Ny.w \o Nx.w = <<Aw(1), E(1).q, Aw(2), E(2).q>>
  <2>1. PICK a, p, b, q : a = Aw(1) /\ p = E(1).q /\ b = Aw(2) /\ q = E(2).q
    OBVIOUS
  <2>2. <<a, p>> \o <<b, q>> = <<a, p, b, q>>
    <3>1. PICK S : S = {a, p, b, q}
      OBVIOUS
    <3>2. a \in S /\ p \in S /\ b \in S /\ q \in S
      BY <3>1
    <3>3. <<a, p>> \in Seq(S) /\ <<b, q>> \in Seq(S) /\ <<a, p, b, q>> \in Seq(S)
      BY <3>2
    <3>4. Len(<<a, p>>) = 2 /\ Len(<<b, q>>) = 2 /\ Len(<<a, p, b, q>>) = 4
      OBVIOUS
    <3>5. PICK f \in Seq(S), g \in Seq(S), h \in Seq(S) :
            f = <<a, p>> /\ g = <<b, q>> /\ h = <<a, p, b, q>>
      BY <3>3
    <3>6. Len(f) = 2 /\ Len(g) = 2 /\ Len(h) = 4
      BY <3>4, <3>5
    <3>7. /\ f \o g \in Seq(S) /\ Len(f \o g) = 4
          /\ \A i \in 1 .. 4 : (f \o g)[i] = IF i <= 2 THEN f[i] ELSE g[i - 2]
      <4>1. /\ f \o g \in Seq(S) /\ Len(f \o g) = Len(f) + Len(g)
            /\ \A i \in 1 .. Len(f) + Len(g) :
                 (f \o g)[i] = IF i <= Len(f) THEN f[i] ELSE g[i - Len(f)]
        BY ONLY f \in Seq(S), g \in Seq(S), ConcatProperties, Zenon
      <4>2. Len(f) + Len(g) = 4
        BY <3>6
      <4> QED BY <3>6, <4>1, <4>2
    <3>8. f[1] = a /\ f[2] = p /\ g[1] = b /\ g[2] = q
          /\ h[1] = a /\ h[2] = p /\ h[3] = b /\ h[4] = q
      BY ONLY <3>5
    <3>9. ASSUME NEW i \in 1 .. 4 PROVE (f \o g)[i] = h[i]
      <4>1. (i = 1 /\ i <= 2) \/ (i = 2 /\ i <= 2) \/ (i = 3 /\ ~(i <= 2) /\ i - 2 = 1)
              \/ (i = 4 /\ ~(i <= 2) /\ i - 2 = 2)
        OBVIOUS
      <4>2. (f \o g)[i] = IF i <= 2 THEN f[i] ELSE g[i - 2]
        BY <3>7
      <4> QED BY ONLY <3>8, <4>1, <4>2
    <3>10. f \o g = h
      <4>1. PICK w \in Seq(S) : w = f \o g
        BY <3>7
      <4>2. Len(w) = Len(h) /\ \A i \in 1 .. Len(w) : w[i] = h[i]
        BY <3>6, <3>7, <3>9, <4>1
      <4>3. w = h
        BY ONLY <4>2, w \in Seq(S), h \in Seq(S), SeqEqual
      <4> QED BY <4>1, <4>3
    <3> QED BY <3>5, <3>10
  <2> QED BY <1>8, <2>1, <2>2
<1> QED BY <1>3, <1>4, <1>7, <1>8, <1>9

\* A member stands at the place that says how many are not above it.
PlaceIn(S, x) == Cardinality({y \in S : y <= x})
\* It stands there and nowhere else.
LEMMA InOrderPlace ==
  ASSUME NEW S \in SUBSET Int, IsFiniteSet(S), NEW x \in S
  PROVE  /\ PlaceIn(S, x) \in 1 .. Cardinality(S)
         /\ InOrder(S)[PlaceIn(S, x)] = x
         /\ \A i \in 1 .. Cardinality(S) : InOrder(S)[i] = x => i = PlaceIn(S, x)
<1>1. PICK n \in Nat, f \in [1 .. Cardinality(S) -> S] :
        /\ n = Cardinality(S) /\ f = InOrder(S) /\ f \in [1 .. n -> S]
        /\ \A z \in S : \E i \in 1 .. n : f[i] = z
        /\ \A i, j \in 1 .. n : i < j => f[i] < f[j]
  BY InOrderMembers
<1>2. PICK k \in 1 .. n : f[k] = x
  BY <1>1
<1>3. ASSUME NEW i \in 1 .. n PROVE f[i] <= x <=> i <= k
  <2>1. f[i] \in Int /\ f[k] \in Int
    BY <1>1
  <2>2. (i < k => f[i] < f[k]) /\ (k < i => f[k] < f[i])
    BY <1>1
  <2> QED BY <1>2, <2>1, <2>2
<1>. DEFINE U == {y \in S : y <= x}
            g == [i \in 1 .. k |-> f[i]]
<1>4. g \in Bijection(1 .. k, U)
  <2>1. \A i \in 1 .. k : i \in 1 .. n /\ f[i] \in U
    BY <1>1, <1>3
  <2>2. \A i, j \in 1 .. k : g[i] = g[j] => i = j
    <3>1. ASSUME NEW i \in 1 .. k, NEW j \in 1 .. k, f[i] = f[j] PROVE i = j
      <4>0. \A a \in 1 .. k : a \in 1 .. n
        BY <1>1
      <4>1. i \in 1 .. n /\ j \in 1 .. n /\ f[i] \in Int /\ f[j] \in Int
        BY ONLY <1>1, <4>0, S \in SUBSET Int, i \in 1 .. k, j \in 1 .. k
      <4>2. (i < j => f[i] < f[j]) /\ (j < i => f[j] < f[i])
        BY <1>1, <4>1
      <4> QED BY <3>1, <4>1, <4>2
    <3> QED BY <3>1
  <2>3. ASSUME NEW z \in U PROVE \E i \in 1 .. k : g[i] = z
    <3>1. PICK i \in 1 .. n : f[i] = z
      BY <1>1
    <3>2. i \in 1 .. k
      BY <1>3, <3>1
    <3> QED BY <3>1, <3>2
  <2>4. g \in [1 .. k -> U]
    BY <2>1
  <2>. HIDE DEF U, g
  <2> QED BY <2>2, <2>3, <2>4 DEF Bijection, Injection, Surjection, IsInjective
<1>5. Cardinality(U) = k
  <2>1. IsFiniteSet(1 .. k) /\ Cardinality(1 .. k) = k
    <3>1. PICK m \in Nat : m = k /\ m >= 1
      OBVIOUS
    <3>2. IsFiniteSet(1 .. m) /\ Cardinality(1 .. m) = IF 1 > m THEN 0 ELSE m - 1 + 1
      BY FS_Interval
    <3> QED BY <3>1, <3>2
  <2>. HIDE DEF U, g
  <2>2. ExistsBijection(1 .. k, U)
    BY <1>4 DEF ExistsBijection
  <2> QED BY <2>1, <2>2, FS_Bijection
<1>6. PlaceIn(S, x) = k
  BY <1>5 DEF PlaceIn
<1>7. \A i \in 1 .. n : f[i] = x => i = k
  <2>1. ASSUME NEW i \in 1 .. n, f[i] = x PROVE i = k
    <3>1. f[i] \in Int /\ f[k] \in Int /\ (i < k => f[i] < f[k]) /\ (k < i => f[k] < f[i])
      BY <1>1
    <3> QED BY <1>2, <2>1, <3>1
  <2> QED BY <2>1
<1> QED BY <1>1, <1>2, <1>6, <1>7

\* The points of the reduced axes R, with the coordinates of `base' elsewhere: the
\* code counts them in row-major order, and meets each once.
ExtentsAlong(s, R) == [i \in DOMAIN InOrder(R) |-> s[InOrder(R)[i]]]
PointAt(n, s, R, base, r) ==
  [a \in 1 .. n |->
     IF a \in R THEN Coordinates(ExtentsAlong(s, R), r)[CHOOSE i \in DOMAIN InOrder(R) : InOrder(R)[i] = a]
     ELSE base[a]]
PointsOf(n, s, R, base) == {x \in Cells(s) : \A a \in 1 .. n \ R : x[a] = base[a]}
CountedOnce(n, s, R, base) ==
  LET P == Product(ExtentsAlong(s, R))
  IN /\ P \in Nat
     /\ \A r \in 0 .. P - 1 : PointAt(n, s, R, base, r) \in PointsOf(n, s, R, base)
     /\ \A x \in PointsOf(n, s, R, base) : \E r \in 0 .. P - 1 : PointAt(n, s, R, base, r) = x
     /\ \A q, r \in 0 .. P - 1 : PointAt(n, s, R, base, q) = PointAt(n, s, R, base, r) => q = r

\* A cell is found again from its linear index.
LEMMA DigitsBack ==
  ASSUME NEW n \in Nat, NEW shape \in [1 .. n -> Nat], Len(shape) = n
  PROVE  \A x \in [1 .. n -> Nat] : (\A a \in 1 .. n : x[a] \in 0 .. shape[a] - 1) =>
           /\ RowMajor(shape, x) \in 0 .. Product(shape) - 1
           /\ Coordinates(shape, RowMajor(shape, x)) = x
BY BackAndThere

\* Counting through the reduced axes meets each cell with the given kept coordinates once.
LEMMA PointsCounted ==
  ASSUME NEW n \in Nat, NEW s \in [1 .. n -> Nat], Len(s) = n, NEW R \in SUBSET (1 .. n), NEW base,
         \A a \in 1 .. n \ R : base[a] \in 0 .. s[a] - 1
  PROVE  CountedOnce(n, s, R, base)
<1>1. IsFiniteSet(R) /\ R \in SUBSET Int
  <2>1. IsFiniteSet(1 .. n) /\ 1 .. n \subseteq Int
    BY FS_Interval
  <2> QED BY <2>1, FS_Subset
<1>2. PICK q \in Nat, axes \in [1 .. Cardinality(R) -> R] : q = Cardinality(R) /\ axes = InOrder(R) /\ axes \in [1 .. q -> R]
  BY <1>1, InOrderMembers
<1>3. ASSUME NEW a \in R
      PROVE  \E i \in 1 .. q : /\ axes[i] = a /\ \A j \in 1 .. q : axes[j] = a => j = i
                               /\ i = CHOOSE j \in DOMAIN axes : axes[j] = a
  <2>1. PICK i \in 1 .. q : axes[i] = a /\ \A j \in 1 .. q : axes[j] = a => j = i
    BY <1>1, <1>2, InOrderPlace
  <2> QED BY <1>2, <2>1
<1>. DEFINE e == ExtentsAlong(s, R)
            P == Product(e)
            Pt(r) == PointAt(n, s, R, base, r)
            pos(a) == CHOOSE j \in DOMAIN axes : axes[j] = a
<1>4. e = [i \in 1 .. q |-> s[axes[i]]]
  BY <1>2 DEF ExtentsAlong
<1>5. e \in [1 .. q -> Nat] /\ Len(e) = q /\ \A i \in 1 .. q : e[i] = s[axes[i]]
  <2>1. \A i \in 1 .. q : s[axes[i]] \in Nat
    BY <1>2
  <2>. HIDE DEF e
  <2> QED BY <1>4, <2>1
<1>6. \A r : Pt(r) = [a \in 1 .. n |-> IF a \in R THEN Coordinates(e, r)[pos(a)] ELSE base[a]]
  BY <1>2 DEF PointAt
<1>7. \A a \in R : pos(a) \in 1 .. q /\ axes[pos(a)] = a
  BY <1>3
<1>8. \A i \in 1 .. q : axes[i] \in R /\ pos(axes[i]) = i
  BY <1>2, <1>3
<1>9. P \in Nat
  <2>. HIDE DEF e
  <2> QED BY <1>5, CountIsSuffix
<1>. HIDE DEF e, Pt, pos
<1>10. ASSUME NEW r \in 0 .. P - 1
       PROVE  /\ Coordinates(e, r) \in [1 .. q -> Nat]
              /\ \A i \in 1 .. q : Coordinates(e, r)[i] \in 0 .. e[i] - 1
              /\ RowMajor(e, Coordinates(e, r)) = r
  <2>1. P # 0 /\ r \in Nat
    BY <1>9
  <2>2. \A j \in 1 .. q : e[j] >= 1
    BY <1>5, <2>1, CountIsSuffix, PositiveExtents
  <2>3. Coordinates(e, r) \in [1 .. q -> Nat] /\ InShape(e, Coordinates(e, r))
    BY <1>5, <2>1, <2>2, CoordinatesInShape
  <2>4. RowMajor(e, Coordinates(e, r)) = r
    BY <1>5, ThereAndBack
  <2> QED BY <1>5, <2>3, <2>4 DEF InShape
<1>11. ASSUME NEW r \in 0 .. P - 1 PROVE Pt(r) \in PointsOf(n, s, R, base)
  <2>1. PICK d : d = Coordinates(e, r)
    OBVIOUS
  <2>2. ASSUME NEW a \in 1 .. n PROVE (IF a \in R THEN d[pos(a)] ELSE base[a]) \in 0 .. s[a] - 1
    <3>1. CASE a \in R
      <4>1. pos(a) \in 1 .. q /\ axes[pos(a)] = a
        BY <1>7, <3>1
      <4>2. d[pos(a)] \in 0 .. e[pos(a)] - 1 /\ e[pos(a)] = s[a]
        BY <1>5, <1>10, <2>1, <4>1
      <4> QED BY <3>1, <4>2
    <3>2. CASE a \notin R
      BY <3>2
    <3> QED BY <3>1, <3>2
  <2>3. Pt(r) = [a \in 1 .. n |-> IF a \in R THEN d[pos(a)] ELSE base[a]]
    BY <1>6, <2>1
  <2>4. \A a \in 1 .. n : Pt(r)[a] \in 0 .. s[a] - 1
    BY <2>2, <2>3
  <2>5. Pt(r) \in [1 .. n -> Nat]
    <3>1. \A a \in 1 .. n : (IF a \in R THEN d[pos(a)] ELSE base[a]) \in Nat
      <4>1. \A a \in 1 .. n : s[a] \in Nat
        OBVIOUS
      <4> QED BY <2>2, <4>1
    <3> QED BY <2>3, <3>1
  <2>6. \A a \in 1 .. n \ R : Pt(r)[a] = base[a]
    BY <2>3
  <2>7. Pt(r) \in Cells(s)
    BY <2>4, <2>5, CellIn DEF InCells
  <2> QED BY <2>6, <2>7 DEF PointsOf
<1>14. \A d \in [1 .. q -> Nat] : (\A a \in 1 .. q : d[a] \in 0 .. e[a] - 1) =>
         RowMajor(e, d) \in 0 .. Product(e) - 1 /\ Coordinates(e, RowMajor(e, d)) = d
  <2>1. e \in [1 .. q -> Nat] /\ Len(e) = q
    BY <1>5
  <2> QED BY <2>1, DigitsBack
<1>12. ASSUME NEW x \in PointsOf(n, s, R, base) PROVE \E r \in 0 .. P - 1 : Pt(r) = x
  <2>1. x \in [1 .. n -> Nat] /\ (\A a \in 1 .. n : x[a] \in 0 .. s[a] - 1)
        /\ \A a \in 1 .. n \ R : x[a] = base[a]
    <3>1. x \in Cells(s) /\ \A a \in 1 .. n \ R : x[a] = base[a]
      BY DEF PointsOf
    <3>2. InCells(n, s, x)
      BY <3>1, CellIn
    <3> QED BY <3>1, <3>2 DEF InCells
  <2>2. PICK d : d = [i \in 1 .. q |-> x[axes[i]]]
    OBVIOUS
  <2>3. d \in [1 .. q -> Nat] /\ \A i \in 1 .. q : d[i] \in 0 .. e[i] - 1
    <3>1. ASSUME NEW i \in 1 .. q PROVE x[axes[i]] \in Nat /\ x[axes[i]] \in 0 .. e[i] - 1
      <4>1. axes[i] \in 1 .. n
        BY <1>8
      <4> QED BY <1>5, <2>1, <4>1
    <3> QED BY <2>2, <3>1
  <2>4. PICK r \in 0 .. P - 1 : r = RowMajor(e, d) /\ Coordinates(e, r) = d
    <3>1. RowMajor(e, d) \in 0 .. Product(e) - 1 /\ Coordinates(e, RowMajor(e, d)) = d
      <4>1. d \in [1 .. q -> Nat] /\ \A a \in 1 .. q : d[a] \in 0 .. e[a] - 1
        BY <2>3
      <4> QED BY <1>14, <4>1
    <3> QED BY <3>1
  <2>5. Pt(r) = [a \in 1 .. n |-> IF a \in R THEN d[pos(a)] ELSE base[a]]
    BY <1>6, <2>4
  <2>6. ASSUME NEW a \in 1 .. n PROVE Pt(r)[a] = x[a]
    <3>1. CASE a \in R
      <4>1. pos(a) \in 1 .. q /\ axes[pos(a)] = a
        BY <1>7, <3>1
      <4> QED BY <2>2, <2>5, <3>1, <4>1
    <3>2. CASE a \notin R
      BY <2>1, <2>5, <3>2
    <3> QED BY <3>1, <3>2
  <2>7. Pt(r) = x
    BY <2>1, <2>5, <2>6
  <2> QED BY <2>7
<1>13. ASSUME NEW k \in 0 .. P - 1, NEW r \in 0 .. P - 1, Pt(k) = Pt(r) PROVE k = r
  <2>1. PICK d, f : d = Coordinates(e, k) /\ f = Coordinates(e, r)
    OBVIOUS
  <2>2. d \in [1 .. q -> Nat] /\ f \in [1 .. q -> Nat] /\ RowMajor(e, d) = k /\ RowMajor(e, f) = r
    BY <1>10, <2>1
  <2>3. ASSUME NEW i \in 1 .. q PROVE d[i] = f[i]
    <3>1. PICK a \in R : a = axes[i] /\ pos(a) = i /\ a \in 1 .. n
      BY <1>8
    <3>2. Pt(k)[a] = d[pos(a)] /\ Pt(r)[a] = f[pos(a)]
      BY <1>6, <2>1, <3>1
    <3> QED BY <1>13, <3>1, <3>2
  <2>4. d = f
    BY <2>2, <2>3
  <2> QED BY <2>2, <2>4
<1> QED BY <1>9, <1>11, <1>12, <1>13 DEF CountedOnce, e, Pt

\* The axis of the output that a kept axis of the input has for itself.
KeptIn(n, R, keep) == {a \in 1 .. n : keep \/ a \notin R}
\* It is the number of kept axes not above it.
LEMMA KeptPlace ==
  ASSUME NEW n \in Nat, NEW R \in SUBSET (1 .. n), NEW keep \in BOOLEAN, NEW a \in KeptIn(n, R, keep)
  PROVE  /\ PlaceIn(KeptIn(n, R, keep), a)
              = IF keep THEN a ELSE Cardinality({b \in 1 .. a : b \notin R})
         /\ IsFiniteSet(KeptIn(n, R, keep)) /\ KeptIn(n, R, keep) \in SUBSET Int
<1>. DEFINE K == KeptIn(n, R, keep)
<1>0. K = {b \in 1 .. n : keep \/ b \notin R} /\ a \in K
  BY DEF KeptIn
<1>. HIDE DEF K
<1>1. IsFiniteSet(K) /\ K \in SUBSET Int
  <2>1. IsFiniteSet(1 .. n) /\ 1 .. n \subseteq Int
    BY FS_Interval
  <2>2. K \subseteq 1 .. n
    BY <1>0
  <2> QED BY <2>1, <2>2, FS_Subset
<1>2. PICK k \in Nat : k = a /\ k >= 1 /\ k <= n
  BY <1>0
<1>3. CASE keep
  <2>1. {y \in K : y <= a} = 1 .. k
    BY <1>0, <1>2, <1>3
  <2>2. Cardinality(1 .. k) = k
    BY <1>2, FS_Interval
  <2> QED BY <1>1, <1>2, <1>3, <2>1, <2>2 DEF PlaceIn, K
<1>4. CASE ~keep
  <2>1. {y \in K : y <= a} = {b \in 1 .. a : b \notin R}
    BY <1>0, <1>2, <1>4
  <2> QED BY <1>1, <1>4, <2>1 DEF PlaceIn, K
<1> QED BY <1>1, <1>3, <1>4 DEF K

\* The axes REDUCE_MAX reduces are those of the attribute, counted from either end.
LEMMA ReducedIs ==
  ASSUME NEW c, c.in \in Seq(Views), c.out \in Seq(Views), ReduceMaxOK(c),
         c.attr \in ReduceMaxAttrs, ~ReduceNoop(c)
  PROVE  ReducedAxes(c) = Reduced(c) /\ Reduced(c) \in SUBSET (1 .. Rank(Src(c)))
<1>1. Rank(Src(c)) \in Nat /\ Axes(Src(c)) = 1 .. Rank(Src(c))
  BY SourceAndResult DEF ReduceMaxOK, OneToOne
<1>2. c.attr.axes \in Seq(I32) /\ c.attr.noop_with_empty_axes \in BOOLEAN
  BY DEF ReduceMaxAttrs
<1>3. CASE c.attr.axes = <<>>
  BY <1>1, <1>2, <1>3 DEF ReducedAxes, Reduced, ReduceNoop
<1>4. CASE c.attr.axes # <<>>
  <2>1. ASSUME NEW i \in DOMAIN c.attr.axes
        PROVE  /\ Wrap(c.attr.axes[i], Rank(Src(c))) = NormalizeAxis(c.attr.axes[i], Rank(Src(c)))
               /\ NormalizeAxis(c.attr.axes[i], Rank(Src(c))) \in 0 .. Rank(Src(c)) - 1
    <3>1. c.attr.axes[i] \in I32
      BY <1>2
    <3>2. c.attr.axes[i] \in Int
      BY <3>1, AttrAssumption DEF I32
    <3>3. NormalizeAxis(c.attr.axes[i], Rank(Src(c))) \in 0 .. Rank(Src(c)) - 1
      BY DEF ReduceMaxOK, AxisOK
    <3> QED BY <1>1, <3>2, <3>3, WrapIs
  <2>2. \A i \in DOMAIN c.attr.axes :
          /\ 1 + Wrap(c.attr.axes[i], Rank(Src(c))) = NormalizeAxis(c.attr.axes[i], Rank(Src(c))) + 1
          /\ NormalizeAxis(c.attr.axes[i], Rank(Src(c))) + 1 \in 1 .. Rank(Src(c))
    <3>1. \A i \in DOMAIN c.attr.axes : NormalizeAxis(c.attr.axes[i], Rank(Src(c))) + 1 \in 1 .. Rank(Src(c))
      BY <1>1, <2>1
    <3>2. \A i \in DOMAIN c.attr.axes :
            1 + Wrap(c.attr.axes[i], Rank(Src(c))) = NormalizeAxis(c.attr.axes[i], Rank(Src(c))) + 1
      BY <1>1, <2>1
    <3> QED BY <3>1, <3>2
  <2>3. ReducedAxes(c) = {1 + Wrap(c.attr.axes[i], Rank(Src(c))) : i \in DOMAIN c.attr.axes}
    BY <1>4 DEF ReducedAxes
  <2>4. Reduced(c) = {NormalizeAxis(c.attr.axes[i], Rank(Src(c))) + 1 : i \in DOMAIN c.attr.axes}
    BY <1>4 DEF Reduced
  <2> QED BY <2>2, <2>3, <2>4
<1> QED BY <1>3, <1>4

\* A cell of a tensor has a coordinate below each extent.
LEMMA CellTyped ==
  ASSUME NEW v \in Views, NEW x \in Cells(v.shape)
  PROVE  x \in [1 .. Rank(v) -> Nat] /\ \A a \in 1 .. Rank(v) : x[a] \in 0 .. v.shape[a] - 1
<1>1. Rank(v) \in Nat /\ v.shape \in [1 .. Rank(v) -> Nat] /\ Len(v.shape) = Rank(v)
  BY ViewFacts DEF Rank
<1>2. InCells(Rank(v), v.shape, x)
  BY <1>1, CellIn
<1> QED BY <1>2 DEF InCells

\* Without an axis to reduce, the one cell is moved.
LEMMA ReduceNoopComputes ==
  ASSUME NEW c, c.in \in Seq(Views), c.out \in Seq(Views), ReduceMaxOK(c),
         c.attr \in ReduceMaxAttrs, ReduceNoop(c), NEW l \in Linears(Dst(c)),
         NEW y, y = Coordinates(Dst(c).shape, l)
  PROVE  ReduceValue(c, y, ReduceMaxResult(c)[l])
<1>. DEFINE n == Rank(Src(c))
            s == Src(c).shape
<1>1. /\ 1 \in DOMAIN c.in /\ Src(c) \in Views /\ Dst(c) \in Views /\ AllMetaOK(c)
      /\ n \in Nat /\ s \in [1 .. n -> Nat] /\ Len(s) = n /\ Axes(Src(c)) = 1 .. n /\ Src(c) = c.in[1]
  BY SourceAndResult DEF ReduceMaxOK, OneToOne
<1>2. MetaOK(Src(c))
  BY <1>1 DEF AllMetaOK, ViewsOf
<1>3. Dst(c).shape = s
  BY DEF ReduceMaxOK
<1>4. l \in Linears(Src(c))
  BY <1>3 DEF Linears, Count
<1>5. y \in Cells(s) /\ LogicalAddr(Src(c))[l] = At(Src(c), y)
  BY <1>1, <1>2, <1>3, <1>4, CellOfIndex
<1>6. y \in [1 .. n -> Nat]
  BY <1>1, <1>5, CellTyped
<1>7. ReduceMaxResult(c)[l] = Moved(At(Src(c), y))
  BY <1>5 DEF ReduceMaxResult, Gathered
<1>8. ReducedAxes(c) = {} /\ c.attr.keepdims \in BOOLEAN
  BY DEF ReducedAxes, ReduceNoop, ReduceMaxAttrs
<1>9. ASSUME NEW a \in 1 .. n PROVE AxisInOutput(c, a) = a
  <2>1. PICK k \in Nat : k = a /\ k >= 1
    OBVIOUS
  <2>2. {b \in 1 .. a : b \notin ReducedAxes(c)} = 1 .. k
    BY <1>8, <2>1
  <2>3. Cardinality(1 .. k) = k
    BY <2>1, FS_Interval
  <2> QED BY <2>1, <2>2, <2>3 DEF AxisInOutput
<1>10. ReducedCells(c, y) = {y}
  <2>1. ASSUME NEW x \in Cells(s) PROVE (\A a \in 1 .. n : x[a] = y[a]) <=> x = y
    <3>1. x \in [1 .. n -> Nat]
      BY <1>1, CellTyped
    <3>2. x = [a \in 1 .. n |-> x[a]] /\ y = [a \in 1 .. n |-> y[a]]
      BY <1>6, <3>1
    <3> QED BY <3>2
  <2>2. ReducedCells(c, y) = {x \in Cells(s) : \A a \in 1 .. n : x[a] = y[a]}
    BY <1>1, <1>8, <1>9 DEF ReducedCells
  <2> QED BY <1>5, <2>1, <2>2
<1>11. Cardinality({y}) = 1
  BY FS_Singleton
<1>12. {At(Src(c), x) : x \in {y}} = {At(Src(c), y)}
  OBVIOUS
<1>13. /\ Moved(At(Src(c), y)).f = "moved" /\ Moved(At(Src(c), y)).from = <<At(Src(c), y)>>
  BY DEF Moved, Term
<1> QED BY <1>7, <1>10, <1>11, <1>12, <1>13 DEF ReduceValue, ReduceNoop

\* Otherwise every cell with the kept coordinates is read, each once.
LEMMA ReduceMaxComputes ==
  ASSUME NEW c, c.in \in Seq(Views), c.out \in Seq(Views), ReduceMaxOK(c),
         c.attr \in ReduceMaxAttrs, ~ReduceNoop(c), NEW l \in Linears(Dst(c)),
         NEW y, y = Coordinates(Dst(c).shape, l)
  PROVE  ReduceValue(c, y, ReduceMaxResult(c)[l])
<1>. DEFINE n == Rank(Src(c))
            s == Src(c).shape
            R == Reduced(c)
            keep == c.attr.keepdims
            K == KeptIn(n, R, keep)
            kept == KeptAxes(c)
            addr == LogicalAddr(Src(c))
            base == [a \in 1 .. n |-> y[AxisInOutput(c, a)]]
            P == Product(ExtentsAlong(s, R))
            Pt(r) == PointAt(n, s, R, base, r)
            from == [i \in 1 .. P |-> At(Src(c), Pt(i - 1))]
<1>1. /\ 1 \in DOMAIN c.in /\ Src(c) \in Views /\ Dst(c) \in Views /\ AllMetaOK(c)
      /\ n \in Nat /\ s \in [1 .. n -> Nat] /\ Len(s) = n /\ Axes(Src(c)) = 1 .. n /\ Src(c) = c.in[1]
  BY SourceAndResult DEF ReduceMaxOK, OneToOne
<1>2. MetaOK(Src(c)) /\ keep \in BOOLEAN
  BY <1>1 DEF AllMetaOK, ViewsOf, ReduceMaxAttrs
<1>3. ReducedAxes(c) = R /\ R \in SUBSET (1 .. n)
  BY ReducedIs
<1>4. kept = InOrder(K)
  <2>1. {a \in Axes(Src(c)) : c.attr.keepdims \/ a \notin Reduced(c)} = K
    BY <1>1 DEF KeptIn
  <2> QED BY <2>1 DEF KeptAxes
<1>. HIDE DEF n, s, R, keep, K, kept
<1>5. ASSUME NEW a \in 1 .. n, keep \/ a \notin R
      PROVE  /\ AxisInOutput(c, a) \in DOMAIN kept /\ kept[AxisInOutput(c, a)] = a
             /\ AxisInOutput(c, a) = CHOOSE i \in DOMAIN kept : kept[i] = a
  <2>1. a \in K
    BY <1>5 DEF K, KeptIn
  <2>2. /\ PlaceIn(K, a) = IF keep THEN a ELSE Cardinality({b \in 1 .. a : b \notin R})
        /\ IsFiniteSet(K) /\ K \in SUBSET Int
    <3>1. a \in KeptIn(n, R, keep) /\ n \in Nat /\ R \in SUBSET (1 .. n) /\ keep \in BOOLEAN
      BY <1>1, <1>2, <1>3, <2>1 DEF K
    <3>2. /\ PlaceIn(KeptIn(n, R, keep), a)
               = IF keep THEN a ELSE Cardinality({b \in 1 .. a : b \notin R})
          /\ IsFiniteSet(KeptIn(n, R, keep)) /\ KeptIn(n, R, keep) \in SUBSET Int
      BY ONLY <3>1, KeptPlace
    <3> QED BY <3>2 DEF K
  <2>3. PlaceIn(K, a) = AxisInOutput(c, a)
    BY <1>3, <2>2 DEF AxisInOutput, keep
  <2>4. /\ PlaceIn(K, a) \in 1 .. Cardinality(K) /\ InOrder(K)[PlaceIn(K, a)] = a
        /\ \A i \in 1 .. Cardinality(K) : InOrder(K)[i] = a => i = PlaceIn(K, a)
    BY <2>1, <2>2, InOrderPlace
  <2>5. DOMAIN kept = 1 .. Cardinality(K)
    BY <1>4 DEF InOrder
  <2> QED BY <1>4, <2>3, <2>4, <2>5
<1>6. /\ Dst(c).shape = [i \in DOMAIN kept |-> IF kept[i] \in R THEN 1 ELSE s[kept[i]]]
      /\ \A i \in DOMAIN kept : y[i] \in 0 .. Dst(c).shape[i] - 1
  <2>1. Dst(c).shape = [i \in DOMAIN kept |-> IF kept[i] \in R THEN 1 ELSE s[kept[i]]]
    BY DEF ReduceMaxOK, kept, R, s
  <2>2. \A i \in 1 .. Rank(Dst(c)) : y[i] \in 0 .. Dst(c).shape[i] - 1
    BY <1>1, ElementCoordinates
  <2>3. DOMAIN Dst(c).shape = 1 .. Rank(Dst(c))
    BY <1>1, ViewFacts DEF Rank
  <2> QED BY <2>1, <2>2, <2>3
<1>7. \A a \in 1 .. n \ R : base[a] \in 0 .. s[a] - 1 /\ base[a] = y[AxisInOutput(c, a)]
  <2>1. ASSUME NEW a \in 1 .. n, a \notin R PROVE y[AxisInOutput(c, a)] \in 0 .. s[a] - 1
    <3>1. AxisInOutput(c, a) \in DOMAIN kept /\ kept[AxisInOutput(c, a)] = a
      BY <1>5, <2>1
    <3>2. Dst(c).shape[AxisInOutput(c, a)] = s[a]
      BY <1>6, <2>1, <3>1
    <3> QED BY <1>6, <3>1, <3>2
  <2> QED BY <2>1
<1>. HIDE DEF base
<1>8. CountedOnce(n, s, R, base)
  BY <1>1, <1>3, <1>7, PointsCounted
<1>9. ReducedCells(c, y) = PointsOf(n, s, R, base)
  <2>1. ReducedCells(c, y) = {x \in Cells(s) : \A a \in 1 .. n \ R : x[a] = y[AxisInOutput(c, a)]}
    BY <1>1, <1>3 DEF ReducedCells, s
  <2>2. PointsOf(n, s, R, base) = {x \in Cells(s) : \A a \in 1 .. n \ R : x[a] = base[a]}
    BY DEF PointsOf
  <2> QED BY <1>7, <2>1, <2>2
<1>10. ASSUME NEW r
       PROVE  Pt(r) = [a \in 1 .. n |->
                IF a \in R
                THEN Coordinates(ExtentsAlong(s, R), r)[CHOOSE i \in DOMAIN InOrder(R) : InOrder(R)[i] = a]
                ELSE y[CHOOSE i \in DOMAIN kept : kept[i] = a]]
  <2>1. \A a \in 1 .. n : a \notin R => base[a] = y[CHOOSE i \in DOMAIN kept : kept[i] = a]
    BY <1>5, <1>7
  <2>2. Pt(r) = [a \in 1 .. n |->
          IF a \in R
          THEN Coordinates(ExtentsAlong(s, R), r)[CHOOSE i \in DOMAIN InOrder(R) : InOrder(R)[i] = a]
          ELSE base[a]]
    BY DEF PointAt
  <2>. DEFINE D(a) == Coordinates(ExtentsAlong(s, R), r)[CHOOSE i \in DOMAIN InOrder(R) : InOrder(R)[i] = a]
              E(a) == y[CHOOSE i \in DOMAIN kept : kept[i] = a]
  <2>. HIDE DEF D, E
  <2>3. [a \in 1 .. n |-> IF a \in R THEN D(a) ELSE base[a]] = [a \in 1 .. n |-> IF a \in R THEN D(a) ELSE E(a)]
    <3>1. \A a \in 1 .. n : (IF a \in R THEN D(a) ELSE base[a]) = (IF a \in R THEN D(a) ELSE E(a))
      BY <2>1 DEF E
    <3> QED BY <3>1
  <2> QED BY <2>2, <2>3 DEF D, E
<1>11. ReduceMaxResult(c)[l] = Term("max", <<>>, [i \in 1 .. P |-> addr[RowMajor(s, Pt(i - 1))]])
  <2>. DEFINE Source(r) ==
         [a \in 1 .. n |->
            IF a \in R
            THEN Coordinates(ExtentsAlong(s, R), r)[CHOOSE i \in DOMAIN InOrder(R) : InOrder(R)[i] = a]
            ELSE y[CHOOSE i \in DOMAIN kept : kept[i] = a]]
  <2>1. ReduceMaxResult(c)[l]
          = Term("max", <<>>, [i \in 1 .. P |-> addr[RowMajor(s, Source(i - 1))]])
    BY <1>1 DEF ReduceMaxResult, ReducedExtents, ExtentsAlong, R, s, n, kept
  <2>2. \A i \in 1 .. P : Source(i - 1) = Pt(i - 1)
    BY <1>10
  <2>. HIDE DEF Source, Pt, P
  <2>3. [i \in 1 .. P |-> addr[RowMajor(s, Source(i - 1))]] = [i \in 1 .. P |-> addr[RowMajor(s, Pt(i - 1))]]
    BY <2>2
  <2> QED BY <2>1, <2>3
<1>. HIDE DEF Pt, P
<1>12. /\ P \in Nat
       /\ \A r \in 0 .. P - 1 : Pt(r) \in ReducedCells(c, y)
       /\ \A x \in ReducedCells(c, y) : \E r \in 0 .. P - 1 : Pt(r) = x
       /\ \A q, r \in 0 .. P - 1 : Pt(q) = Pt(r) => q = r
  BY <1>8, <1>9 DEF CountedOnce, Pt, P
<1>13. ASSUME NEW i \in 1 .. P PROVE addr[RowMajor(s, Pt(i - 1))] = At(Src(c), Pt(i - 1))
  <2>1. i - 1 \in 0 .. P - 1
    BY <1>12
  <2>2. Pt(i - 1) \in Cells(Src(c).shape)
    BY <1>12, <2>1 DEF ReducedCells
  <2> QED BY <1>1, <1>2, <2>2, IndexOfCell DEF s
<1>14. ReduceMaxResult(c)[l] = Term("max", <<>>, from)
  <2>1. [i \in 1 .. P |-> addr[RowMajor(s, Pt(i - 1))]] = [i \in 1 .. P |-> At(Src(c), Pt(i - 1))]
    BY <1>13
  <2> QED BY <1>11, <2>1
<1>15. {from[i] : i \in DOMAIN from} = {At(Src(c), x) : x \in ReducedCells(c, y)}
  <2>1. ASSUME NEW i \in DOMAIN from PROVE from[i] \in {At(Src(c), x) : x \in ReducedCells(c, y)}
    <3>1. i \in 1 .. P /\ i - 1 \in 0 .. P - 1
      BY <1>12
    <3> QED BY <1>12, <3>1
  <2>2. ASSUME NEW x \in ReducedCells(c, y) PROVE \E i \in DOMAIN from : from[i] = At(Src(c), x)
    <3>1. PICK r \in 0 .. P - 1 : Pt(r) = x
      BY <1>12
    <3>2. r + 1 \in 1 .. P /\ (r + 1) - 1 = r
      BY <1>12
    <3>3. from[r + 1] = At(Src(c), x)
      BY <3>1, <3>2
    <3> QED BY <3>2, <3>3
  <2>. HIDE DEF from
  <2> QED BY <2>1, <2>2
<1>16. Len(from) = Cardinality(ReducedCells(c, y))
  <2>1. Len(from) = P
    BY <1>12
  <2>. DEFINE C == ReducedCells(c, y)
              f == [i \in 1 .. P |-> Pt(i - 1)]
  <2>. HIDE DEF C
  <2>2. \A i \in 1 .. P : i - 1 \in 0 .. P - 1 /\ f[i] = Pt(i - 1)
    BY <1>12
  <2>3. f \in [1 .. P -> C]
    BY <1>12, <2>2 DEF C
  <2>4. ASSUME NEW i \in 1 .. P, NEW j \in 1 .. P, f[i] = f[j] PROVE i = j
    <3>1. i - 1 = j - 1
      BY <1>12, <2>2, <2>4
    <3> QED BY <1>12, <3>1
  <2>5. ASSUME NEW x \in C PROVE \E i \in 1 .. P : f[i] = x
    <3>1. PICK r \in 0 .. P - 1 : Pt(r) = x
      BY <1>12 DEF C
    <3>2. r + 1 \in 1 .. P /\ (r + 1) - 1 = r
      BY <1>12
    <3> QED BY <3>1, <3>2
  <2>. HIDE DEF f
  <2>6. f \in Bijection(1 .. P, C)
    BY <2>3, <2>4, <2>5 DEF Bijection, Injection, Surjection, IsInjective
  <2>7. IsFiniteSet(1 .. P) /\ Cardinality(1 .. P) = P
    BY <1>12, FS_Interval
  <2>8. ExistsBijection(1 .. P, C)
    BY <2>6 DEF ExistsBijection
  <2> QED BY <2>1, <2>7, <2>8, FS_Bijection DEF C
<1>17. Term("max", <<>>, from).f = "max" /\ Term("max", <<>>, from).from = from
  BY DEF Term
<1>. HIDE DEF from
<1> QED BY <1>14, <1>15, <1>16, <1>17 DEF ReduceValue, ReduceNoop

(* --- the kernels that address the buffers themselves ----------------------------- *)
\* An operand of an element-wise kernel is the cell that faces the one of the output.
LEMMA OperandFaces ==
  ASSUME NEW v \in Views, v.dtype = "F16", MetaOK(v), NEW m \in Nat, Rank(v) <= m,
         NEW shape \in [1 .. m -> Nat], NEW y \in [1 .. m -> Nat], Len(y) = m,
         \A a \in 1 .. m : y[a] \in 0 .. shape[a] - 1,
         \A a \in 1 .. Rank(v) : v.shape[a] \in {1, shape[m - Rank(v) + a]}
  PROVE  Operand(v, y) = Facing(v, y, m - Rank(v))
<1>. DEFINE x == Broadcast(v, y)
            f == FacingCell(v, y, m - Rank(v))
<1>1. x \in [1 .. Rank(v) -> Nat] /\ \A a \in 1 .. Rank(v) : x[a] \in 0 .. v.shape[a] - 1
  BY BroadcastInside
<1>2. v.dtype \in DOMAIN ElementSize /\ SizeOf(v) = 2
      /\ \A a \in Axes(v) : v.stride[a] % SizeOf(v) = 0
  BY DEF MetaOK, SizeOf, ElementSize
<1>3. x = f
  <2>1. PICK n \in Nat : n = Rank(v) /\ Axes(v) = 1 .. n
    BY ViewFacts
  <2>2. ASSUME NEW a \in 1 .. n PROVE y[(m - n) + a] = y[a + (m - n)]
    <3>1. (m - n) + a = a + (m - n)
      BY ONLY m \in Nat, n \in Nat, a \in 1 .. n
    <3> QED BY <3>1
  <2>3. x = [a \in 1 .. n |-> IF v.shape[a] = 1 THEN 0 ELSE y[(m - n) + a]]
    BY <2>1 DEF Broadcast
  <2>4. f = [a \in 1 .. n |-> IF v.shape[a] = 1 THEN 0 ELSE y[a + (m - n)]]
    BY <2>1 DEF FacingCell
  <2>. HIDE DEF x, f
  <2> QED BY <2>2, <2>3, <2>4
<1>4. Facing(v, y, m - Rank(v)) = At(v, f)
  BY DEF Facing, FacingCell
<1>. HIDE DEF x, f
<1>5. At(v, x) = v.data + SizeOf(v) * Offset(v, x)
  BY <1>1, <1>2, OffsetToCell
<1>6. Operand(v, y) = v.data + 2 * Offset(v, x)
  BY DEF Operand, x
<1> QED BY <1>2, <1>3, <1>4, <1>5, <1>6

\* The binary kernels: the two cells that face the one of the output.
LEMMA BinaryComputes ==
  ASSUME NEW c, c.in \in Seq(Views), c.out \in Seq(Views), BinaryOK(c), NEW l \in Linears(Dst(c)),
         NEW y, y = Coordinates(Dst(c).shape, l)
  PROVE  /\ BinaryWrites(c)[l].at = At(Dst(c), y)
         /\ BinaryWrites(c)[l].val = Term(c.op, <<>>, BinaryReads(c, y))
<1>1. Len(c.in) = 2 /\ Len(c.out) = 1 /\ AllF16(c) /\ AllMetaOK(c)
  BY DEF BinaryOK, ExpectIO
<1>2. 1 \in DOMAIN c.out /\ c.out[1] = Dst(c) /\ Dst(c) \in Views /\ Dst(c).dtype = "F16" /\ MetaOK(Dst(c))
  <2>1. 1 \in DOMAIN c.out
    BY <1>1
  <2> QED BY <1>1, <2>1 DEF AllF16, AllMetaOK, ViewsOf, Dst
<1>3. PICK m \in Nat : m = Rank(Dst(c))
  BY <1>2, ViewFacts
<1>4. PICK shape \in [1 .. m -> Nat] : shape = Dst(c).shape
  BY <1>2, <1>3, ViewFacts
<1>5. y \in [1 .. m -> Nat] /\ Len(y) = m /\ \A a \in 1 .. m : y[a] \in 0 .. shape[a] - 1
  <2>1. y \in [1 .. m -> Nat] /\ \A a \in 1 .. m : y[a] \in 0 .. Dst(c).shape[a] - 1
    BY <1>2, <1>3, ElementCoordinates
  <2>2. Len(y) = m
    BY <1>3, <1>4 DEF Coordinates, Rank
  <2> QED BY <1>4, <2>1, <2>2
<1>6. /\ SizeOf(Dst(c)) = 2 /\ Dst(c).dtype \in DOMAIN ElementSize
      /\ \A a \in Axes(Dst(c)) : Dst(c).stride[a] % SizeOf(Dst(c)) = 0
  BY <1>2 DEF MetaOK, SizeOf, ElementSize
<1>7. At(Dst(c), y) = Dst(c).data + 2 * Offset(Dst(c), y)
  BY <1>2, <1>3, <1>5, <1>6, OffsetToCell
<1>8. ASSUME NEW w \in {c.in[1], c.in[2]}
      PROVE  Operand(w, y) = Facing(w, y, Rank(Dst(c)) - Rank(w))
  <2>1. /\ w \in Views /\ w.dtype = "F16" /\ MetaOK(w) /\ Rank(w) <= m
        /\ \A a \in 1 .. Rank(w) : w.shape[a] \in {1, shape[m - Rank(w) + a]}
    <3>1. /\ w \in Views /\ w.dtype = "F16" /\ MetaOK(w)
          /\ Rank(w) <= Rank(c.out[1])
          /\ \A a \in 1 .. Rank(w) :
               w.shape[a] \in {1, c.out[1].shape[Rank(c.out[1]) - Rank(w) + a]}
      BY <1>2, BinaryBroadcasts
    <3> QED BY <1>2, <1>3, <1>4, <3>1
  <2>2. PICK z \in [1 .. m -> Nat] : z = y /\ Len(z) = m /\ \A a \in 1 .. m : z[a] \in 0 .. shape[a] - 1
    BY <1>5
  <2>3. Operand(w, z) = Facing(w, z, m - Rank(w))
    BY ONLY <2>1, <2>2, m \in Nat, shape \in [1 .. m -> Nat], z \in [1 .. m -> Nat], OperandFaces
  <2> QED BY <1>3, <2>2, <2>3
<1>9. BinaryWrites(c)[l] = [at |-> Dst(c).data + 2 * Offset(Dst(c), y),
                            val |-> Term(c.op, <<>>, <<Operand(c.in[1], y), Operand(c.in[2], y)>>)]
  BY <1>2 DEF BinaryWrites
<1>10. BinaryReads(c, y) = <<Operand(c.in[1], y), Operand(c.in[2], y)>>
  <2>1. Operand(c.in[1], y) = Facing(c.in[1], y, Rank(Dst(c)) - Rank(c.in[1]))
    BY <1>8
  <2>2. Operand(c.in[2], y) = Facing(c.in[2], y, Rank(Dst(c)) - Rank(c.in[2]))
    BY <1>8
  <2>3. BinaryReads(c, y) = [i \in 1 .. 2 |-> Facing(c.in[i], y, Rank(Dst(c)) - Rank(c.in[i]))]
    BY DEF BinaryReads
  <2> QED BY <2>1, <2>2, <2>3
<1> QED BY <1>7, <1>9, <1>10

\* What an address holds after some stores of which one meets it.
LEMMA StoredHolds ==
  ASSUME NEW m, NEW stores, NEW k \in DOMAIN stores
  PROVE  \E j \in DOMAIN stores : /\ stores[j].at = stores[k].at
                                  /\ Held(After(m, stores), stores[k].at) = stores[j].val
<1>. DEFINE a == stores[k].at
<1>1. PICK j \in DOMAIN stores : j = CHOOSE h \in DOMAIN stores : stores[h].at = a
  OBVIOUS
<1>2. stores[j].at = a
  BY <1>1
<1>3. a \in DOMAIN After(m, stores) /\ After(m, stores)[a] = stores[j].val
  BY <1>1 DEF After
<1> QED BY <1>2, <1>3 DEF Held

\* The unary kernels: the store at the address of a cell has what lies as far into
\* the input.
StoredOnly(stores, address, value) ==
  /\ \E k \in DOMAIN stores : stores[k].at = address
  /\ \A k \in DOMAIN stores : stores[k].at = address => stores[k].val = value
\* Both views have the same strides, so the same offset reaches the same cell.
LEMMA UnaryComputes ==
  ASSUME NEW c, c.in \in Seq(Views), c.out \in Seq(Views), UnaryOK(c), MetaOK(Dst(c)),
         Src(c).stride = Dst(c).stride, NEW y \in Cells(Dst(c).shape)
  PROVE  StoredOnly(UnaryWrites(c), At(Dst(c), y), Term(c.op, <<>>, <<At(Src(c), y)>>))
<1>. DEFINE u == Src(c)
            v == Dst(c)
            o == Offset(v, y)
<1>1. /\ Len(c.in) = 1 /\ Len(c.out) = 1 /\ AllF16(c)
      /\ u = c.in[1] /\ v = c.out[1] /\ u.bytes = v.bytes
  BY DEF UnaryOK, ExpectIO, Src, Dst
<1>2. u \in Views /\ v \in Views /\ u.dtype = "F16" /\ v.dtype = "F16"
  <2>1. 1 \in DOMAIN c.in /\ 1 \in DOMAIN c.out
    BY <1>1
  <2> QED BY <1>1, <2>1 DEF AllF16, ViewsOf
<1>3. PICK n \in Nat : n = Rank(v) /\ n = Rank(u)
  <2>1. Rank(v) \in Nat /\ Rank(u) = Len(u.stride) /\ Rank(v) = Len(v.stride)
    BY <1>2, ViewFacts DEF Views, Rank
  <2> QED BY <2>1
<1>4. y \in [1 .. n -> Nat] /\ \A a \in 1 .. n : y[a] \in 0 .. v.shape[a] - 1
  BY <1>2, <1>3, CellTyped
<1>5. /\ SizeOf(v) = 2 /\ SizeOf(u) = 2 /\ v.dtype \in DOMAIN ElementSize /\ u.dtype \in DOMAIN ElementSize
      /\ \A a \in Axes(v) : v.stride[a] % SizeOf(v) = 0
      /\ \A a \in Axes(u) : u.stride[a] % SizeOf(u) = 0
  <2>1. Axes(v) = 1 .. n /\ Axes(u) = 1 .. n
    BY <1>2, <1>3, ViewFacts
  <2>2. SizeOf(v) = 2 /\ SizeOf(u) = 2 /\ v.dtype \in DOMAIN ElementSize /\ u.dtype \in DOMAIN ElementSize
    BY <1>2 DEF SizeOf, ElementSize
  <2>3. \A a \in Axes(v) : v.stride[a] % SizeOf(v) = 0
    BY DEF MetaOK
  <2> QED BY <2>1, <2>2, <2>3
<1>6. At(v, y) = v.data + 2 * o
  BY <1>2, <1>3, <1>4, <1>5, OffsetToCell
<1>7. At(u, y) = u.data + 2 * o
  <2>1. At(u, y) = u.data + 2 * Offset(u, y)
    BY <1>2, <1>3, <1>4, <1>5, OffsetToCell
  <2>2. Offset(u, y) = Offset(v, y)
    BY <1>3, <1>5 DEF Offset, Axes
  <2> QED BY <2>1, <2>2
<1>8. o \in Nat /\ 2 * o + 2 <= v.bytes /\ v.data \in Nat /\ u.data \in Nat /\ v.bytes \in Nat
  <2>1. InShape(v.shape, y)
    BY <1>3, <1>4 DEF InShape, Rank
  <2>2. o \in Nat /\ Reach(v)[Rank(v)] \in Nat /\ 2 * o <= Reach(v)[Rank(v)]
    BY <1>2, <1>3, <1>4, <1>5, <2>1, OffsetInReach
  <2>3. Count(v) # 0
    <3>1. RowMajor(v.shape, y) \in 0 .. Count(v) - 1
      BY <1>2, IndexOfCell DEF Linears
    <3> QED BY <3>1
  <2>4. Reach(v)[Rank(v)] + 2 <= v.bytes
    BY <1>5, <2>3 DEF MetaOK
  <2>5. v.data \in Nat /\ u.data \in Nat /\ v.bytes \in Nat
    BY <1>2, ViewFacts
  <2>. HIDE DEF o, v, u
  <2> QED BY <2>2, <2>4, <2>5
<1>. HIDE DEF u, v, o
<1>9. PICK b \in Nat, e \in Nat, d \in Nat : b = v.bytes /\ e = u.data /\ d = v.data
  BY <1>8
<1>10. UnaryWrites(c) = [i \in 0 .. b \div 2 - 1 |->
                           [at |-> d + 2 * i, val |-> Term(c.op, <<>>, <<e + 2 * i>>)]]
  BY <1>1, <1>9 DEF UnaryWrites
<1>11. o \in 0 .. b \div 2 - 1
  BY <1>8, <1>9
<1>12. ASSUME NEW k \in 0 .. b \div 2 - 1, d + 2 * k = d + 2 * o PROVE k = o
  BY <1>8, <1>12
<1>13. UnaryWrites(c)[o].at = At(v, y)
  BY <1>6, <1>9, <1>10, <1>11
<1>14. ASSUME NEW k \in DOMAIN UnaryWrites(c), UnaryWrites(c)[k].at = At(v, y)
       PROVE  UnaryWrites(c)[k].val = Term(c.op, <<>>, <<At(u, y)>>)
  <2>1. k \in 0 .. b \div 2 - 1 /\ d + 2 * k = d + 2 * o
    BY <1>6, <1>9, <1>10, <1>14
  <2>2. k = o
    BY <1>12, <2>1
  <2> QED BY <1>7, <1>9, <1>10, <1>11, <2>2
<1>15. o \in DOMAIN UnaryWrites(c)
  BY <1>10, <1>11
<1> QED BY <1>13, <1>14, <1>15 DEF StoredOnly, u, v

(* --- MAT_MUL ------------------------------------------------------------------------ *)
\* The numbers up to k, in order.
LEMMA InOrderAll ==
  ASSUME NEW k \in Nat
  PROVE  /\ Cardinality(1 .. k) = k /\ Len(InOrder(1 .. k)) = k
         /\ \A i \in 1 .. k : InOrder(1 .. k)[i] = i
<1>1. IsFiniteSet(1 .. k) /\ Cardinality(1 .. k) = k /\ 1 .. k \in SUBSET Int
  BY FS_Interval
<1>2. ASSUME NEW i \in 1 .. k PROVE InOrder(1 .. k)[i] = i
  <2>1. PICK j \in Nat : j = i /\ j <= k
    OBVIOUS
  <2>2. {y \in 1 .. k : y <= i} = 1 .. j
    BY <2>1
  <2>3. Cardinality(1 .. j) = j
    BY <2>1, FS_Interval
  <2>4. PlaceIn(1 .. k, i) = i
    BY <2>1, <2>2, <2>3 DEF PlaceIn
  <2> QED BY <1>1, <2>4, InOrderPlace
<1>3. InOrder(1 .. k) \in [1 .. k -> 1 .. k]
  BY <1>1, InOrderMembers
<1>4. Len(InOrder(1 .. k)) = k
  <2>1. InOrder(1 .. k) \in Seq(1 .. k)
    BY <1>3
  <2> QED BY <1>3, <2>1
<1> QED BY <1>1, <1>2, <1>4

\* Where nothing is padding, every pair is read.
LEMMA PairedAll ==
  ASSUME NEW k \in Nat, NEW pairs, DOMAIN pairs = 1 .. k,
         \A d \in 1 .. k : pairs[d][1] # 0 /\ pairs[d][2] # 0
  PROVE  Paired(pairs) = [i \in 1 .. 2 * k |-> pairs[(i + 1) \div 2][IF i % 2 = 1 THEN 1 ELSE 2]]
<1>. DEFINE real == InOrder({d \in DOMAIN pairs : pairs[d][1] # 0 /\ pairs[d][2] # 0})
<1>1. {d \in DOMAIN pairs : pairs[d][1] # 0 /\ pairs[d][2] # 0} = 1 .. k
  OBVIOUS
<1>2. real = InOrder(1 .. k)
  BY <1>1
<1>3. Paired(pairs) = [i \in 1 .. 2 * Len(real) |-> pairs[real[(i + 1) \div 2]][IF i % 2 = 1 THEN 1 ELSE 2]]
  BY DEF Paired
<1>. HIDE DEF real
<1>4. Len(real) = k /\ \A j \in 1 .. k : real[j] = j
  BY <1>2, InOrderAll
<1>5. ASSUME NEW i \in 1 .. 2 * k PROVE real[(i + 1) \div 2] = (i + 1) \div 2
  <2>1. (i + 1) \div 2 \in 1 .. k
    OBVIOUS
  <2> QED BY <1>4, <2>1
<1> QED BY <1>3, <1>4, <1>5

\* The address of an entry of a batch of matrices.
LEMMA AtBatched ==
  ASSUME NEW v \in Views, NEW s \in [row : Nat, col : Nat, batch : Nat], Batched(v, s),
         NEW b \in Nat, NEW i \in Nat, NEW j \in Nat
  PROVE  /\ Rank(v) = 3 /\ At(v, <<b, i, j>>) = v.data + 2 * (b * s.batch + i * s.row + j * s.col)
<1>1. v.stride = <<2 * s.batch, 2 * s.row, 2 * s.col>> /\ Len(v.stride) = Len(v.shape)
  BY DEF Batched, Views
<1>2. Rank(v) = 3
  BY <1>1 DEF Rank
<1>. DEFINE x == <<b, i, j>>
            d == [a \in 1 .. Rank(v) |-> x[a] * v.stride[a]]
<1>3. At(v, x) = v.data + Sums(Rank(v), d)[Rank(v)]
  <2>1. x \in [1 .. Rank(v) -> Nat]
    BY <1>2
  <2> QED BY <2>1, AtIs
<1>4. PICK n \in Nat : n = 3
  OBVIOUS
<1>5. d[1] = b * (2 * s.batch) /\ d[2] = i * (2 * s.row) /\ d[3] = j * (2 * s.col)
  BY <1>1, <1>2
<1>6. d \in [1 .. n -> Int]
  <2>1. ASSUME NEW a \in 1 .. n PROVE x[a] * v.stride[a] \in Int
    <3>1. x[a] \in Nat /\ v.stride[a] \in Nat
      BY <1>1, <1>4
    <3>2. PICK p \in Nat, q \in Nat : p = x[a] /\ q = v.stride[a]
      BY <3>1
    <3>3. p * q \in Int
      OBVIOUS
    <3> QED BY <3>2, <3>3
  <2> QED BY <1>2, <1>4, <2>1
<1>. HIDE DEF x, d
<1>7. /\ Sums(n, d)[0] = 0
      /\ \A a \in 1 .. n : Sums(n, d)[a] = Sums(n, d)[a-1] + d[a]
  BY <1>6, SumsFacts
<1>8. PICK p \in Nat, q \in Nat, r \in Nat : p = s.batch /\ q = s.row /\ r = s.col
  OBVIOUS
<1>9. Sums(n, d)[3] = b * (2 * p) + i * (2 * q) + j * (2 * r)
  <2>1. Sums(n, d)[1] = Sums(n, d)[0] + d[1] /\ Sums(n, d)[2] = Sums(n, d)[1] + d[2]
        /\ Sums(n, d)[3] = Sums(n, d)[2] + d[3]
    <3>1. 1 \in 1 .. n /\ 2 \in 1 .. n /\ 3 \in 1 .. n /\ 1 - 1 = 0 /\ 2 - 1 = 1 /\ 3 - 1 = 2
      BY <1>4
    <3> QED BY <1>7, <3>1
  <2>2. PICK f \in Nat, g \in Nat, h \in Nat : f = b * (2 * p) /\ g = i * (2 * q) /\ h = j * (2 * r)
    OBVIOUS
  <2> QED BY <1>5, <1>7, <1>8, <2>1, <2>2
<1>10. b * (2 * p) + i * (2 * q) + j * (2 * r) = 2 * (b * p + i * q + j * r)
  BY ONLY b \in Nat, i \in Nat, j \in Nat, p \in Nat, q \in Nat, r \in Nat
<1>11. Sums(Rank(v), d)[Rank(v)] = Sums(n, d)[3]
  BY <1>2, <1>4
<1> QED BY <1>2, <1>3, <1>8, <1>9, <1>10, <1>11 DEF x

\* The widths of the attribute of MAT_MUL.
LEMMA MatMulTyped ==
  ASSUME NEW a \in MatMulAttrs
  PROVE  /\ a.k \in Nat /\ a.m \in Nat /\ a.n \in Nat /\ Batches(a) \in Nat
         /\ a.lhs \in [row : Nat, col : Nat, batch : Nat] /\ a.rhs \in [row : Nat, col : Nat, batch : Nat]
         /\ a.out \in [row : Nat, col : Nat, batch : Nat]
         /\ a.lhsT \in BOOLEAN /\ a.rhsT \in BOOLEAN
<1>1. U32 \subseteq Nat
  BY ONLY AttrAssumption DEF U32
<1>2. /\ a.batch \in U32 /\ a.m \in U32 /\ a.n \in U32 /\ a.k \in U32
      /\ a.lhs \in MatMulStrides /\ a.rhs \in MatMulStrides /\ a.out \in MatMulStrides
      /\ a.lhsT \in BOOLEAN /\ a.rhsT \in BOOLEAN
  BY DEF MatMulAttrs
<1>3. /\ a.lhs \in [row : Nat, col : Nat, batch : Nat] /\ a.rhs \in [row : Nat, col : Nat, batch : Nat]
      /\ a.out \in [row : Nat, col : Nat, batch : Nat]
  BY ONLY <1>1, <1>2 DEF MatMulStrides
<1>4. Batches(a) \in Nat
  BY <1>1, <1>2 DEF Batches, AtLeastOne
<1> QED BY <1>1, <1>2, <1>3, <1>4

\* The pairs of one product, in order: row y[2] of the left matrix and column y[3] of
\* the right one, depth by depth.
LEMMA MatMulComputes ==
  ASSUME NEW c, c.in \in Seq(Views), c.op = "MAT_MUL", MatMulOK(c), c.attr \in MatMulAttrs,
         Batched(c.in[1], c.attr.lhs), Batched(c.in[2], c.attr.rhs),
         NEW b \in Nat, NEW row \in Nat, NEW col \in Nat
  PROVE  MatMulTerm(c, b, row, col) = Term("dot", <<>>, MatMulReads(c, <<b, row, col>>))
<1>. DEFINE a == c.attr
            depths == 0 .. a.k - 1
            lhs == [x \in {row} \X depths |-> c.in[1].data + 2 * LhsIndex(a, b, x[1], x[2])]
            rhs == [x \in {col} \X depths |-> c.in[2].data + 2 * RhsIndex(a, b, x[2], x[1])]
            L(d) == At(c.in[1], IF a.lhsT THEN <<b, d, row>> ELSE <<b, row, d>>)
            R(d) == At(c.in[2], IF a.rhsT THEN <<b, col, d>> ELSE <<b, d, col>>)
            pairs == [d \in 1 .. a.k |-> <<lhs[<<row, d - 1>>], rhs[<<col, d - 1>>]>>]
<1>1. Len(c.in) = 2 /\ 1 \in DOMAIN c.in /\ 2 \in DOMAIN c.in
  BY DEF MatMulOK, ExpectIO
<1>2. /\ c.in[1] \in Views /\ c.in[2] \in Views /\ c.in[1].data \in Nat /\ c.in[2].data \in Nat
      /\ c.in[1].data # 0 /\ c.in[2].data # 0
  <2>1. c.in[1] \in ViewsOf(c) /\ c.in[2] \in ViewsOf(c)
    BY <1>1 DEF ViewsOf
  <2>2. c.in[1] \in Views /\ c.in[2] \in Views
    BY <1>1
  <2> QED BY <2>1, <2>2, ViewFacts DEF MatMulOK, TypedOK
<1>3. /\ a.k \in Nat /\ a.lhsT \in BOOLEAN /\ a.rhsT \in BOOLEAN
      /\ a.lhs \in [row : Nat, col : Nat, batch : Nat] /\ a.rhs \in [row : Nat, col : Nat, batch : Nat]
  BY MatMulTyped
<1>4. ASSUME NEW d \in Nat
      PROVE  c.in[1].data + 2 * LhsIndex(a, b, row, d) = L(d) /\ L(d) # 0
  <2>1. PICK i \in Nat, j \in Nat : i = (IF a.lhsT THEN d ELSE row) /\ j = (IF a.lhsT THEN row ELSE d)
    BY <1>3
  <2>2. L(d) = At(c.in[1], <<b, i, j>>)
    BY <1>3, <2>1
  <2>3. L(d) = c.in[1].data + 2 * (b * a.lhs.batch + i * a.lhs.row + j * a.lhs.col)
    <3>1. PICK s \in [row : Nat, col : Nat, batch : Nat] : s = a.lhs /\ Batched(c.in[1], s)
      BY <1>3
    <3>2. PICK v \in Views : v = c.in[1]
      BY <1>2
    <3>3. Batched(v, s)
      BY <3>1, <3>2
    <3>4. At(v, <<b, i, j>>) = v.data + 2 * (b * s.batch + i * s.row + j * s.col)
      BY ONLY v \in Views, s \in [row : Nat, col : Nat, batch : Nat], <3>3, b \in Nat, i \in Nat, j \in Nat, AtBatched
    <3> QED BY <2>2, <3>1, <3>2, <3>4
  <2>4. LhsIndex(a, b, row, d) = b * a.lhs.batch + i * a.lhs.row + j * a.lhs.col
    BY <2>1 DEF LhsIndex
  <2>. HIDE DEF L
  <2>5. LhsIndex(a, b, row, d) \in Nat
    <3>1. PICK p \in Nat, q \in Nat, r \in Nat : p = a.lhs.batch /\ q = a.lhs.row /\ r = a.lhs.col
      BY <1>3
    <3>2. b * p + i * q + j * r \in Nat
      OBVIOUS
    <3> QED BY <2>4, <3>1, <3>2
  <2>6. PICK e \in Nat, f \in Nat : e = LhsIndex(a, b, row, d) /\ f = c.in[1].data /\ f # 0
    BY <1>2, <2>5
  <2>7. f + 2 * e # 0
    BY ONLY e \in Nat, f \in Nat, <2>6
  <2>8. L(d) = f + 2 * e /\ c.in[1].data + 2 * LhsIndex(a, b, row, d) = f + 2 * e
    BY <2>3, <2>4, <2>6
  <2> QED BY <2>7, <2>8
<1>5. ASSUME NEW d \in Nat
      PROVE  c.in[2].data + 2 * RhsIndex(a, b, d, col) = R(d) /\ R(d) # 0
  <2>1. PICK i \in Nat, j \in Nat : i = (IF a.rhsT THEN col ELSE d) /\ j = (IF a.rhsT THEN d ELSE col)
    BY <1>3
  <2>2. R(d) = At(c.in[2], <<b, i, j>>)
    BY <1>3, <2>1
  <2>3. R(d) = c.in[2].data + 2 * (b * a.rhs.batch + i * a.rhs.row + j * a.rhs.col)
    <3>1. PICK s \in [row : Nat, col : Nat, batch : Nat] : s = a.rhs /\ Batched(c.in[2], s)
      BY <1>3
    <3>2. PICK v \in Views : v = c.in[2]
      BY <1>2
    <3>3. Batched(v, s)
      BY <3>1, <3>2
    <3>4. At(v, <<b, i, j>>) = v.data + 2 * (b * s.batch + i * s.row + j * s.col)
      BY ONLY v \in Views, s \in [row : Nat, col : Nat, batch : Nat], <3>3, b \in Nat, i \in Nat, j \in Nat, AtBatched
    <3> QED BY <2>2, <3>1, <3>2, <3>4
  <2>4. RhsIndex(a, b, d, col) = b * a.rhs.batch + i * a.rhs.row + j * a.rhs.col
    BY <2>1 DEF RhsIndex
  <2>. HIDE DEF R
  <2>5. RhsIndex(a, b, d, col) \in Nat
    <3>1. PICK p \in Nat, q \in Nat, r \in Nat : p = a.rhs.batch /\ q = a.rhs.row /\ r = a.rhs.col
      BY <1>3
    <3>2. b * p + i * q + j * r \in Nat
      OBVIOUS
    <3> QED BY <2>4, <3>1, <3>2
  <2>6. PICK e \in Nat, f \in Nat : e = RhsIndex(a, b, d, col) /\ f = c.in[2].data /\ f # 0
    BY <1>2, <2>5
  <2>7. f + 2 * e # 0
    BY ONLY e \in Nat, f \in Nat, <2>6
  <2>8. R(d) = f + 2 * e /\ c.in[2].data + 2 * RhsIndex(a, b, d, col) = f + 2 * e
    BY <2>3, <2>4, <2>6
  <2> QED BY <2>7, <2>8
<1>6. MatMulTerm(c, b, row, col) = Term("dot", <<>>, Dot(VectorTarget(c), a.k, row, col, lhs, rhs))
  BY DEF MatMulTerm
<1>7. MatMulReads(c, <<b, row, col>>)
        = [i \in 1 .. 2 * a.k |-> IF i % 2 = 1 THEN L((i - 1) \div 2) ELSE R((i - 1) \div 2)]
  BY DEF MatMulReads
<1>8. \A e \in depths : /\ lhs[<<row, e>>] = c.in[1].data + 2 * LhsIndex(a, b, row, e)
                        /\ rhs[<<col, e>>] = c.in[2].data + 2 * RhsIndex(a, b, e, col)
  OBVIOUS
<1>. HIDE DEF a, lhs, rhs, L, R
<1>9. Dot(VectorTarget(c), a.k, row, col, lhs, rhs) = ScalarDot(a.k, row, col, lhs, rhs)
  BY <1>3, DotAgrees DEF Dot
<1>10. ASSUME NEW d \in 1 .. a.k PROVE pairs[d] = <<L(d - 1), R(d - 1)>>
  <2>1. d - 1 \in depths /\ d - 1 \in Nat
    BY <1>3
  <2> QED BY <1>4, <1>5, <1>8, <2>1
<1>11. Paired(pairs) = [i \in 1 .. 2 * a.k |-> pairs[(i + 1) \div 2][IF i % 2 = 1 THEN 1 ELSE 2]]
  <2>1. ASSUME NEW d \in 1 .. a.k PROVE pairs[d][1] # 0 /\ pairs[d][2] # 0
    <3>1. d - 1 \in Nat
      BY <1>3
    <3>2. L(d - 1) # 0 /\ R(d - 1) # 0
      BY <1>4, <1>5, <3>1
    <3> QED BY <1>10, <3>2
  <2>2. DOMAIN pairs = 1 .. a.k
    OBVIOUS
  <2>. HIDE DEF pairs
  <2> QED BY <1>3, <2>1, <2>2, PairedAll
<1>12. ASSUME NEW i \in 1 .. 2 * a.k
       PROVE  pairs[(i + 1) \div 2][IF i % 2 = 1 THEN 1 ELSE 2]
                = IF i % 2 = 1 THEN L((i - 1) \div 2) ELSE R((i - 1) \div 2)
  <2>1. PICK k \in Nat : k = a.k
    BY <1>3
  <2>2. (i + 1) \div 2 \in 1 .. k /\ (i + 1) \div 2 - 1 = (i - 1) \div 2
    BY <2>1
  <2>3. pairs[(i + 1) \div 2] = <<L((i - 1) \div 2), R((i - 1) \div 2)>>
    BY <1>10, <2>1, <2>2
  <2>. HIDE DEF pairs
  <2> QED BY <2>3
<1>13. Paired(pairs) = MatMulReads(c, <<b, row, col>>)
  <2>. HIDE DEF pairs
  <2> QED BY <1>7, <1>11, <1>12
<1>14. ScalarDot(a.k, row, col, lhs, rhs) = Paired(pairs)
  BY DEF ScalarDot
<1> QED BY <1>6, <1>9, <1>13, <1>14

\* What the stores of a call do to the address of a cell of its output: some store
\* meets it, and any that does has the value of a cell there.
HoldsComputed(c, stores, y) ==
  /\ \E k \in DOMAIN stores : stores[k].at = At(Dst(c), y)
  /\ \A k \in DOMAIN stores : stores[k].at = At(Dst(c), y) =>
       \E z \in SameAddress(Dst(c), y) : ComputedValue(c, z, stores[k].val)

\* The cells MAT_MUL goes over are those of the output.
LEMMA MatMulStored ==
  ASSUME NEW c, c.in \in Seq(Views), c.out \in Seq(Views), c.op = "MAT_MUL", MatMulOK(c),
         c.attr \in MatMulAttrs, Described(c), NEW y \in Cells(Dst(c).shape)
  PROVE  HoldsComputed(c, MatMulWrites(c), y)
<1>. DEFINE a == c.attr
            v == Dst(c)
<1>1. /\ Batched(c.in[1], a.lhs) /\ Batched(c.in[2], a.rhs) /\ Batched(v, a.out)
      /\ v.shape = <<Batches(a), a.m, a.n>>
  BY DEF Described, UnaryOps
<1>2. /\ a.k \in Nat /\ a.m \in Nat /\ a.n \in Nat /\ Batches(a) \in Nat
      /\ a.out \in [row : Nat, col : Nat, batch : Nat]
  BY MatMulTyped
<1>3. v \in Views /\ v = c.out[1]
  <2>1. 1 \in DOMAIN c.out
    BY DEF MatMulOK, ExpectIO
  <2> QED BY <2>1 DEF Dst
<1>4. Rank(v) = 3
  BY <1>1 DEF Rank
<1>5. ASSUME NEW x \in MatMulCells(a)
      PROVE  /\ x \in Cells(v.shape) /\ MatMulWrites(c)[x].at = At(v, x)
             /\ MatMulWrites(c)[x].val = Term("dot", <<>>, MatMulReads(c, x))
  <2>1. PICK b \in 0 .. Batches(a) - 1, i \in 0 .. a.m - 1, j \in 0 .. a.n - 1 : x = <<b, i, j>>
    BY DEF MatMulCells
  <2>2. b \in Nat /\ i \in Nat /\ j \in Nat
    BY <1>2
  <2>3. MatMulWrites(c)[x] = [at |-> v.data + 2 * OutIndex(a, b, i, j), val |-> MatMulTerm(c, b, i, j)]
    BY <1>3, <2>1 DEF MatMulWrites
  <2>4. At(v, <<b, i, j>>) = v.data + 2 * (b * a.out.batch + i * a.out.row + j * a.out.col)
    <3>1. PICK s \in [row : Nat, col : Nat, batch : Nat], w \in Views : s = a.out /\ w = v /\ Batched(w, s)
      BY <1>1, <1>2, <1>3
    <3>2. At(w, <<b, i, j>>) = w.data + 2 * (b * s.batch + i * s.row + j * s.col)
      BY ONLY w \in Views, s \in [row : Nat, col : Nat, batch : Nat], <3>1, <2>2, AtBatched
    <3> QED BY <3>1, <3>2
  <2>5. MatMulTerm(c, b, i, j) = Term("dot", <<>>, MatMulReads(c, <<b, i, j>>))
    BY <1>1, <2>2, MatMulComputes
  <2>6. x \in Cells(v.shape)
    <3>1. PICK n \in Nat : n = 3
      OBVIOUS
    <3>2. v.shape \in [1 .. n -> Nat] /\ Len(v.shape) = n
      BY <1>3, <1>4, <3>1, ViewFacts DEF Rank
    <3>3. x \in [1 .. n -> Nat]
      BY <2>1, <2>2, <3>1
    <3>4. \A e \in 1 .. n : x[e] \in 0 .. v.shape[e] - 1
      BY <1>1, <2>1, <3>1
    <3>5. InCells(n, v.shape, x)
      BY <3>3, <3>4 DEF InCells
    <3> QED BY <3>2, <3>5, CellIn
  <2> QED BY <2>1, <2>3, <2>4, <2>5, <2>6 DEF OutIndex
<1>6. y \in MatMulCells(a)
  <2>1. y \in [1 .. 3 -> Nat] /\ \A e \in 1 .. 3 : y[e] \in 0 .. v.shape[e] - 1
    BY <1>3, <1>4, CellTyped
  <2>2. y = <<y[1], y[2], y[3]>>
    BY <2>1
  <2>3. y[1] \in 0 .. Batches(a) - 1 /\ y[2] \in 0 .. a.m - 1 /\ y[3] \in 0 .. a.n - 1
    BY <1>1, <2>1
  <2> QED BY <2>2, <2>3 DEF MatMulCells
<1>7. DOMAIN MatMulWrites(c) = MatMulCells(a)
  BY DEF MatMulWrites
<1>. HIDE DEF a, v
<1>8. ASSUME NEW k \in MatMulCells(a), MatMulWrites(c)[k].at = At(v, y)
      PROVE  k \in SameAddress(v, y) /\ ComputedValue(c, k, MatMulWrites(c)[k].val)
  <2>1. k \in SameAddress(v, y)
    BY <1>5, <1>8 DEF SameAddress
  <2>2. ComputedValue(c, k, MatMulWrites(c)[k].val)
    BY <1>5 DEF ComputedValue, UnaryOps, BinaryOps
  <2> QED BY <2>1, <2>2
<1> QED BY <1>5, <1>6, <1>7, <1>8 DEF HoldsComputed, v

(* --- CONV2D ------------------------------------------------------------------------- *)
\* A cell of a dense tensor of four axes.
Dense4(v, s1, s2, s3, s4) ==
  v.dtype = "F16" /\ IsContiguous(v) /\ v.shape = <<s1, s2, s3, s4>>
\* Its address is that of its row-major place.
LEMMA DenseFour ==
  ASSUME NEW v \in Views, NEW s1 \in Nat, NEW s2 \in Nat, NEW s3 \in Nat, NEW s4 \in Nat,
         Dense4(v, s1, s2, s3, s4),
         NEW x1 \in 0 .. s1 - 1, NEW x2 \in 0 .. s2 - 1, NEW x3 \in 0 .. s3 - 1, NEW x4 \in 0 .. s4 - 1
  PROVE  At(v, <<x1, x2, x3, x4>>) = v.data + 2 * (((x1 * s2 + x2) * s3 + x3) * s4 + x4)
<1>. DEFINE x == <<x1, x2, x3, x4>>
<1>0. v.dtype = "F16" /\ IsContiguous(v) /\ v.shape = <<s1, s2, s3, s4>>
  BY DEF Dense4
<1>1. Rank(v) = 4 /\ Len(v.shape) = 4
  BY <1>0 DEF Rank
<1>2. x \in [1 .. 4 -> Nat] /\ \A a \in 1 .. 4 : x[a] \in 0 .. v.shape[a] - 1
  BY <1>0
<1>3. v.dtype \in DOMAIN ElementSize /\ SizeOf(v) = 2
  BY <1>0 DEF SizeOf, ElementSize
<1>4. At(v, x) = v.data + SizeOf(v) * RowMajor(v.shape, x)
  <2>1. x \in [1 .. Rank(v) -> Nat] /\ \A a \in 1 .. Rank(v) : x[a] \in 0 .. v.shape[a] - 1
    BY <1>1, <1>2
  <2>. HIDE DEF x
  <2> QED BY <1>0, <1>3, <2>1, DenseToCell
<1>5. RowMajor(v.shape, x) = ((x[1] * v.shape[2] + x[2]) * v.shape[3] + x[3]) * v.shape[4] + x[4]
  <2>1. PICK t \in [1 .. 4 -> Nat] : t = v.shape /\ Len(t) = 4
    <3>1. v.shape \in [1 .. 4 -> Nat]
      BY <1>0
    <3> QED BY <1>1, <3>1
  <2>2. PICK z \in [1 .. 4 -> Nat] : z = x
    BY <1>2
  <2>3. RowMajor(t, z) = ((z[1] * t[2] + z[2]) * t[3] + z[3]) * t[4] + z[4]
    BY ONLY t \in [1 .. 4 -> Nat], <2>1, z \in [1 .. 4 -> Nat], RowMajorOfFour
  <2>. HIDE DEF x
  <2> QED BY <2>1, <2>2, <2>3
<1>6. x[1] = x1 /\ x[2] = x2 /\ x[3] = x3 /\ x[4] = x4
      /\ v.shape[2] = s2 /\ v.shape[3] = s3 /\ v.shape[4] = s4
  BY <1>0
<1> QED BY <1>3, <1>4, <1>5, <1>6

\* The pairs a product keeps: each of them once.
PairsKept(pairs, S) ==
  /\ IsFiniteSet(S) /\ Cardinality(S) \in Nat
  /\ DOMAIN Paired(pairs) = 1 .. 2 * Cardinality(S)
  /\ \A i \in 1 .. Cardinality(S) :
       \E d \in S : Paired(pairs)[2*i - 1] = pairs[d][1] /\ Paired(pairs)[2*i] = pairs[d][2]
  /\ \A d \in S : \E i \in 1 .. Cardinality(S) :
       Paired(pairs)[2*i - 1] = pairs[d][1] /\ Paired(pairs)[2*i] = pairs[d][2]

\* The loop that leaves out padding keeps all others.
LEMMA PairedValues ==
  ASSUME NEW n \in Nat, NEW pairs, DOMAIN pairs = 1 .. n,
         NEW S, S = {d \in 1 .. n : pairs[d][1] # 0 /\ pairs[d][2] # 0}
  PROVE  PairsKept(pairs, S)
<1>. DEFINE real == InOrder(S)
<1>1. S \in SUBSET Int /\ IsFiniteSet(S)
  <2>1. S \subseteq 1 .. n /\ IsFiniteSet(1 .. n)
    BY FS_Interval
  <2> QED BY <2>1, FS_Subset
<1>2. PICK m \in Nat : m = Cardinality(S) /\ real \in [1 .. m -> S]
                       /\ \A d \in S : \E i \in 1 .. m : real[i] = d
  BY <1>1, InOrderMembers
<1>3. Paired(pairs) = [i \in 1 .. 2 * Len(real) |-> pairs[real[(i + 1) \div 2]][IF i % 2 = 1 THEN 1 ELSE 2]]
  BY DEF Paired
<1>. HIDE DEF real
<1>4. Len(real) = m
  <2>1. real \in [1 .. m -> S]
    BY <1>2
  <2>2. real \in Seq(S)
    BY ONLY m \in Nat, <2>1
  <2> QED BY ONLY m \in Nat, <2>1, <2>2
<1>5. ASSUME NEW i \in 1 .. m
      PROVE  /\ Paired(pairs)[2*i - 1] = pairs[real[i]][1] /\ Paired(pairs)[2*i] = pairs[real[i]][2]
  <2>1. 2*i - 1 \in 1 .. 2 * m /\ 2*i \in 1 .. 2 * m /\ (2*i - 1) % 2 = 1 /\ (2*i) % 2 = 0
        /\ ((2*i - 1) + 1) \div 2 = i /\ (2*i + 1) \div 2 = i
    BY ONLY m \in Nat, i \in 1 .. m
  <2>2. ASSUME NEW j \in 1 .. 2 * m
        PROVE  Paired(pairs)[j] = pairs[real[(j + 1) \div 2]][IF j % 2 = 1 THEN 1 ELSE 2]
    BY ONLY <1>3, <1>4, j \in 1 .. 2 * m
  <2>3. PICK a \in 1 .. 2 * m, b \in 1 .. 2 * m :
          /\ a = 2*i - 1 /\ a % 2 = 1 /\ (a + 1) \div 2 = i
          /\ b = 2*i /\ b % 2 = 0 /\ (b + 1) \div 2 = i
    BY ONLY <2>1
  <2> QED BY ONLY <2>2, <2>3
<1>6. DOMAIN Paired(pairs) = 1 .. 2 * m
  BY ONLY <1>3, <1>4
<1>7. ASSUME NEW i \in 1 .. m
      PROVE  \E d \in S : Paired(pairs)[2*i - 1] = pairs[d][1] /\ Paired(pairs)[2*i] = pairs[d][2]
  <2>1. PICK d \in S : d = real[i]
    BY <1>2
  <2> QED BY ONLY <1>5, <2>1
<1>8. ASSUME NEW d \in S
      PROVE  \E i \in 1 .. m : Paired(pairs)[2*i - 1] = pairs[d][1] /\ Paired(pairs)[2*i] = pairs[d][2]
  <2>1. PICK i \in 1 .. m : real[i] = d
    BY <1>2
  <2> QED BY ONLY <1>5, <2>1
<1>9. IsFiniteSet(S) /\ Cardinality(S) = m
  BY <1>1, <1>2
<1> QED BY ONLY m \in Nat, <1>6, <1>7, <1>8, <1>9, Zenon DEF PairsKept

\* A patch position by its channel, row and column of the kernel.
TapDigits(C, K, L, p, t1, t2, t3) ==
  /\ p \in 0 .. (C * K) * L - 1
  /\ p \div (K * L) = t1 /\ (p \div L) % K = t2 /\ p % L = t3

\* The digits of a tap's position are its channel, row and column.
LEMMA TapPlace ==
  ASSUME NEW C \in Nat, NEW K \in Nat, NEW L \in Nat,
         NEW t1 \in 0 .. C - 1, NEW t2 \in 0 .. K - 1, NEW t3 \in 0 .. L - 1
  PROVE  TapDigits(C, K, L, (t1 * K + t2) * L + t3, t1, t2, t3)
<1>1. t1 * K + t2 \in 0 .. C * K - 1 /\ (t1 * K + t2) % K = t2 /\ (t1 * K + t2) \div K = t1
  BY RowCell
<1>0. PICK N \in Nat : N = C * K
  OBVIOUS
<1>2. PICK q \in 0 .. N - 1 : q = t1 * K + t2 /\ q % K = t2
  BY <1>0, <1>1
<1>3. PICK p \in Int : p = q * L + t3 /\ p \in 0 .. N * L - 1 /\ p % L = t3 /\ p \div L = q
  <2>1. q * L + t3 \in 0 .. N * L - 1 /\ (q * L + t3) % L = t3 /\ (q * L + t3) \div L = q
    BY RowCell
  <2> QED BY <2>1
<1>4. p \div (K * L) = t1
  <2>0. PICK M \in Nat : M = K * L
    OBVIOUS
  <2>1. PICK e \in 0 .. M - 1 : e = t2 * L + t3
    <3>1. t2 * L + t3 \in 0 .. K * L - 1
      BY RowBound
    <3> QED BY <2>0, <3>1
  <2>2. (t1 * K + t2) * L + t3 = t1 * (K * L) + (t2 * L + t3)
    OBVIOUS
  <2>3. p = t1 * M + e
    BY <1>2, <1>3, <2>0, <2>1, <2>2
  <2>4. (t1 * M + e) \div M = t1
    BY LastDigit
  <2> QED BY <2>0, <2>3, <2>4
<1> QED BY <1>0, <1>2, <1>3, <1>4 DEF TapDigits

\* A position that is the one of some tap.
HasTap(C, K, L, p) ==
  \E t1 \in 0 .. C - 1, t2 \in 0 .. K - 1, t3 \in 0 .. L - 1 : p = (t1 * K + t2) * L + t3
\* Every position of a patch is that of a tap.
LEMMA TapOf ==
  ASSUME NEW C \in Nat, NEW K \in Nat, NEW L \in Nat, NEW p \in 0 .. (C * K) * L - 1
  PROVE  HasTap(C, K, L, p)
<1>1. PICK N \in Nat : N = C * K
  OBVIOUS
<1>2. p \in 0 .. N * L - 1
  BY <1>1
<1>3. p \div L \in 0 .. N - 1 /\ p % L \in 0 .. L - 1 /\ p = (p \div L) * L + (p % L)
  BY ONLY N \in Nat, L \in Nat, <1>2, RowSplit
<1>4. PICK q \in 0 .. C * K - 1, t3 \in 0 .. L - 1 : p = q * L + t3
  BY <1>1, <1>3
<1>5. q \div K \in 0 .. C - 1 /\ q % K \in 0 .. K - 1 /\ q = (q \div K) * K + (q % K)
  BY ONLY C \in Nat, K \in Nat, q \in 0 .. C * K - 1, RowSplit
<1>6. PICK t1 \in 0 .. C - 1, t2 \in 0 .. K - 1 : q = t1 * K + t2
  BY <1>5
<1>7. p = (t1 * K + t2) * L + t3
  BY <1>4, <1>6
<1> QED BY <1>7 DEF HasTap

\* The extents of a convolution whose operands are the images and weights it describes.
ConvShapes(c, G, C, Q, H, W, K, L, B, O, U) ==
  LET g == Geom(c.attr)
  IN /\ G = g.groups /\ C = CinPerGroup(g) /\ Q = CoutPerGroup(g) /\ Q >= 1
     /\ B = g.batch /\ g.cin = G * C /\ g.cout = G * Q
     /\ H = g.in[1] /\ W = g.in[2] /\ K = g.kernel[1] /\ L = g.kernel[2] /\ K >= 1 /\ L >= 1
     /\ O = g.out[1] /\ U = g.out[2]
     /\ CastsFit(g) /\ ~ConvPanics(g)
     /\ Taps(g) = (C * K) * L /\ PatchSize(g) = (C * K) * L
     /\ c.in[1] \in Views /\ c.in[2] \in Views /\ c.out[1] \in Views
     /\ \A v \in ViewsOf(c) : IsContiguous(v) /\ v.dtype = "F16" /\ v.data # 0
     /\ c.in[1] \in ViewsOf(c) /\ c.in[2] \in ViewsOf(c) /\ c.out[1] \in ViewsOf(c)
     /\ c.in[1].shape = <<B, G * C, H, W>> /\ c.in[2].shape = <<G * Q, C, K, L>>
     /\ c.out[1].shape = <<B, G * Q, O, U>>

\* The checks of CONV2D and the shapes its attribute describes make every number natural.
LEMMA ConvShapesAre ==
  ASSUME NEW c, c.in \in Seq(Views), c.out \in Seq(Views), c.op = "CONV2D", ConvOK(c),
         c.attr \in ConvAttrs, Described(c), ~ConvPanics(Geom(c.attr))
  PROVE  \E G, C, Q, H, W, K, L, B, O, U \in Nat : ConvShapes(c, G, C, Q, H, W, K, L, B, O, U)
<1>. DEFINE g == Geom(c.attr)
<1>1. /\ Len(c.in) \in 2 .. 3 /\ Len(c.out) = 1 /\ GeomOK(g) /\ AllF16(c)
      /\ 1 \in DOMAIN c.in /\ 2 \in DOMAIN c.in /\ 1 \in DOMAIN c.out
      /\ \A v \in ViewsOf(c) : TypedOK(v, 2)
  BY DEF ConvOK, ExpectIO
<1>2. PICK b : b = (IF Len(c.in) = 3 THEN Elements(c.in[3]) ELSE c.attr.cout)
  OBVIOUS
<1>3. PICK a \in ConvAttrs, n \in Nat, w \in Nat, o \in Nat :
        a = c.attr /\ GeomOK(Geom(a)) /\ ValidateLengths(Geom(a), n, w, o, b)
  <2>1. ValidateLengths(g, Elements(c.in[1]), Elements(c.in[2]), Elements(c.out[1]),
                        IF Len(c.in) = 3 THEN Elements(c.in[3]) ELSE c.attr.cout)
    BY DEF ConvOK
  <2>2. c.in[1].bytes \in Nat /\ c.in[2].bytes \in Nat /\ c.out[1].bytes \in Nat
    BY <1>1, ViewFacts
  <2>3. ASSUME NEW v, v.bytes \in Nat PROVE Elements(v) \in Nat
    BY <2>3 DEF Elements
  <2> QED BY <1>1, <1>2, <2>1, <2>2, <2>3
<1>4. PICK G \in Nat, C \in Nat, Q \in Nat, H \in Nat, W \in Nat, K \in Nat, L \in Nat :
        /\ G = g.groups /\ C = CinPerGroup(g) /\ Q = CoutPerGroup(g) /\ Q >= 1
        /\ g.cin = G * C /\ g.cout = G * Q
        /\ H = g.in[1] /\ W = g.in[2] /\ K = g.kernel[1] /\ L = g.kernel[2] /\ K >= 1 /\ L >= 1
  <2>1. ConvSizes(Geom(a), n, w)
    BY ONLY a \in ConvAttrs, n \in Nat, w \in Nat, <1>3, ConvOperands
  <2>2. ConvSizes(g, n, w)
    BY <1>3, <2>1
  <2>. HIDE DEF g
  <2>3. PICK G \in Nat, C \in Nat, Q \in Nat, H \in Nat, W \in Nat, K \in Nat, L \in Nat, P \in Nat :
          /\ G = g.groups /\ G >= 1 /\ C = CinPerGroup(g) /\ Q = CoutPerGroup(g) /\ Q >= 1
          /\ g.cin = G * C /\ g.cout = G * Q
          /\ H = g.in[1] /\ W = g.in[2] /\ K = g.kernel[1] /\ L = g.kernel[2] /\ K >= 1 /\ L >= 1
          /\ P = PatchSize(g) /\ P <= C * (K * L)
          /\ ((g.batch * g.cin) * H) * W <= n /\ g.cout * P <= w
    BY ONLY <2>2, Zenon DEF ConvSizes
  <2> QED BY ONLY <2>3, G \in Nat, C \in Nat, Q \in Nat, H \in Nat, W \in Nat, K \in Nat, L \in Nat, Zenon
<1>5. PICK B \in Nat, O \in Nat, U \in Nat : B = g.batch /\ O = g.out[1] /\ U = g.out[2]
  <2>1. LET f == Geom(a) IN
        /\ f.batch \in Nat /\ f.cout \in Nat /\ f.groups \in Nat \ {0}
        /\ f.out[1] \in Nat /\ f.out[2] \in Nat
        /\ Spatial(f) = f.out[1] * f.out[2] /\ Spatial(f) \in Nat
        /\ f.batch * f.cout * Spatial(f) <= o
        /\ CoutPerGroup(f) \in Nat \ {0}
    BY ONLY a \in ConvAttrs, o \in Nat, <1>3, ConvFacts
  <2> QED BY <1>3, <2>1
<1>6. /\ \A v \in ViewsOf(c) : IsContiguous(v)
      /\ c.in[1].shape = <<B, G * C, H, W>> /\ c.in[2].shape = <<G * Q, C, K, L>>
      /\ c.out[1].shape = <<B, G * Q, O, U>>
  <2>1. /\ \A v \in ViewsOf(c) : IsContiguous(v)
        /\ c.in[1].shape = <<g.batch, g.cin, g.in[1], g.in[2]>>
        /\ c.in[2].shape = <<g.cout, CinPerGroup(g), g.kernel[1], g.kernel[2]>>
        /\ Dst(c).shape = <<g.batch, g.cout, g.out[1], g.out[2]>>
    BY DEF Described, UnaryOps
  <2>. HIDE DEF g
  <2> QED BY <1>4, <1>5, <2>1 DEF Dst
<1>7. /\ c.in[1] \in Views /\ c.in[2] \in Views /\ c.out[1] \in Views
      /\ c.in[1] \in ViewsOf(c) /\ c.in[2] \in ViewsOf(c) /\ c.out[1] \in ViewsOf(c)
      /\ \A v \in ViewsOf(c) : v.dtype = "F16" /\ v.data # 0
  BY <1>1 DEF ViewsOf, AllF16, TypedOK
<1>8. CastsFit(g) /\ ~ConvPanics(g)
  BY DEF Described, UnaryOps
<1>. HIDE DEF g
<1>9. Taps(g) = (C * K) * L /\ PatchSize(g) = (C * K) * L
  <2>1. Taps(g) = PatchSize(g)
    BY <1>3, TapsFit DEF g
  <2> QED BY <1>4, <2>1 DEF Taps
<1>10. ConvShapes(c, G, C, Q, H, W, K, L, B, O, U)
  BY <1>4, <1>5, <1>6, <1>7, <1>8, <1>9 DEF ConvShapes, g
<1> QED BY <1>10

\* A cell of the output of a convolution.
ConvCell(y, B, N, O, U) ==
  /\ Len(y) = 4 /\ y[1] \in 0 .. B - 1 /\ y[2] \in 0 .. N - 1
  /\ y[3] \in 0 .. O - 1 /\ y[4] \in 0 .. U - 1

\* A tap reads the pixel under it, unless it lies in the padding.
ReadsTap(c, y, t, p) ==
  LET g == Geom(c.attr)
      pair == ConvPair(c, g, y, t)
  IN /\ PatchAddr(c, y[1], y[2] \div CoutPerGroup(g), p, y[3] * g.out[2] + y[4])
          = (IF t \in ConvTaps(g, y) THEN pair[2] ELSE 0)
     /\ t \in ConvTaps(g, y) => pair[2] # 0
     /\ pair[1] = c.in[2].data + 2 * (y[2] * PatchSize(g) + p) /\ pair[1] # 0
\* The position of the tap, taken apart by the code, names the pixel under it.
LEMMA PatchReads ==
  ASSUME NEW c, c.attr \in ConvAttrs,
         NEW G \in Nat, NEW C \in Nat, NEW Q \in Nat, NEW H \in Nat, NEW W \in Nat, NEW K \in Nat,
         NEW L \in Nat, NEW B \in Nat, NEW O \in Nat, NEW U \in Nat,
         ConvShapes(c, G, C, Q, H, W, K, L, B, O, U),
         NEW y, ConvCell(y, B, G * Q, O, U),
         NEW t1 \in 0 .. C - 1, NEW t2 \in 0 .. K - 1, NEW t3 \in 0 .. L - 1,
         NEW p, p = (t1 * K + t2) * L + t3
  PROVE  ReadsTap(c, y, <<t1, t2, t3>>, p)
<1>. DEFINE g == Geom(c.attr)
            t == <<t1, t2, t3>>
            s == y[3] * g.out[2] + y[4]
            group == y[2] \div CoutPerGroup(g)
            channel == group * CinPerGroup(g) + p \div (g.kernel[1] * g.kernel[2])
            down == Tap(g, 1, y[3], t2)
            across == Tap(g, 2, y[4], t3)
<1>1. /\ C = CinPerGroup(g) /\ Q = CoutPerGroup(g) /\ Q >= 1 /\ g.cin = G * C
      /\ H = g.in[1] /\ W = g.in[2] /\ K = g.kernel[1] /\ L = g.kernel[2] /\ U = g.out[2]
      /\ PatchSize(g) = (C * K) * L
      /\ c.in[1] \in Views /\ c.in[2] \in Views
      /\ IsContiguous(c.in[1]) /\ c.in[1].dtype = "F16" /\ c.in[1].data # 0
      /\ IsContiguous(c.in[2]) /\ c.in[2].dtype = "F16" /\ c.in[2].data # 0
      /\ c.in[1].shape = <<B, G * C, H, W>> /\ c.in[2].shape = <<G * Q, C, K, L>>
  BY DEF ConvShapes
<1>2. PICK b \in 0 .. B - 1 : b = y[1]
  BY DEF ConvCell
<1>3. PICK oc \in 0 .. G * Q - 1 : oc = y[2]
  BY DEF ConvCell
<1>4. PICK oy \in 0 .. O - 1, ox \in 0 .. U - 1 : oy = y[3] /\ ox = y[4]
  BY DEF ConvCell
<1>5. PICK d \in 0 .. G - 1 : d = oc \div Q
  <2>1. oc \div Q \in 0 .. G - 1
    BY ONLY G \in Nat, Q \in Nat, oc \in 0 .. G * Q - 1, RowSplit
  <2> QED BY <2>1
<1>6. PICK N \in Nat : N = G * C
  OBVIOUS
<1>7. PICK n \in 0 .. N - 1 : n = d * C + t1
  <2>1. d * C + t1 \in 0 .. G * C - 1
    BY RowBound
  <2> QED BY <1>6, <2>1
<1>8. /\ p \div (K * L) = t1 /\ (p \div L) % K = t2 /\ p % L = t3
      /\ p \in 0 .. (C * K) * L - 1
  <2>1. TapDigits(C, K, L, (t1 * K + t2) * L + t3, t1, t2, t3)
    BY TapPlace
  <2>2. TapDigits(C, K, L, p, t1, t2, t3)
    BY <2>1
  <2> QED BY <2>2 DEF TapDigits
<1>9. s \div g.out[2] = oy /\ s % g.out[2] = ox
  <2>1. oy \in Nat
    OBVIOUS
  <2>2. (oy * U + ox) \div U = oy /\ (oy * U + ox) % U = ox
    BY ONLY U \in Nat, <2>1, ox \in 0 .. U - 1, LastDigit
  <2> QED BY <1>1, <1>4, <2>2
<1>10. channel = n
  BY <1>1, <1>3, <1>5, <1>7, <1>8
<1>11. PatchAddr(c, b, group, p, s) =
         IF TapInside(g, 1, oy, t2) /\ TapInside(g, 2, ox, t3)
         THEN c.in[1].data + 2 * InputIndex(g, b, channel, oy, ox, t2, t3) ELSE 0
  <2>1. PatchAddr(c, b, group, p, s) =
         IF TapInside(g, 1, s \div g.out[2], (p \div g.kernel[2]) % g.kernel[1])
              /\ TapInside(g, 2, s % g.out[2], p % g.kernel[2])
         THEN c.in[1].data + 2 * InputIndex(g, b, channel, s \div g.out[2], s % g.out[2],
                                            (p \div g.kernel[2]) % g.kernel[1], p % g.kernel[2]) ELSE 0
    BY DEF PatchAddr
  <2>2. (p \div g.kernel[2]) % g.kernel[1] = t2 /\ p % g.kernel[2] = t3
    BY <1>1, <1>8
  <2>. HIDE DEF g, s, channel, group
  <2> QED BY <1>9, <2>1, <2>2
<1>. HIDE DEF s, channel
<1>19. PICK e \in Int, f \in Int, j \in Int, k \in Int :
         /\ e = Tap(g, 1, oy, t2) /\ f = g.pad[1] /\ j = Tap(g, 2, ox, t3) /\ k = g.pad[2]
         /\ Pixel(g, 1, oy, t2) = e - f /\ Pixel(g, 2, ox, t3) = j - k
  <2>1. /\ g.pad[1] \in Int /\ g.pad[2] \in Int /\ g.stride[1] \in Nat /\ g.stride[2] \in Nat
        /\ g.dilation[1] \in Nat /\ g.dilation[2] \in Nat
    <3>1. /\ c.attr.pad \in U32Pairs /\ c.attr.stride \in U32Pairs /\ c.attr.dilation \in U32Pairs
      BY DEF ConvAttrs
    <3> QED BY <3>1, AttrAssumption, SMTT(30) DEF Geom, AtLeastOne, U32Pairs, U32
  <2>2. ASSUME NEW x1 \in Nat, NEW x2 \in Nat, NEW x3 \in Nat, NEW x4 \in Nat, NEW x5 \in Int
        PROVE  x1 * x2 + x3 * x4 \in Int /\ x1 * x2 + x3 * x4 - x5 = (x1 * x2 + x3 * x4) - x5
    <3>1. PICK z1 \in Nat, z2 \in Nat : z1 = x1 * x2 /\ z2 = x3 * x4
      OBVIOUS
    <3> QED BY <3>1
  <2>3. oy \in Nat /\ ox \in Nat /\ t2 \in Nat /\ t3 \in Nat
    OBVIOUS
  <2>. HIDE DEF g
  <2>4. /\ Tap(g, 1, oy, t2) \in Int /\ Tap(g, 2, ox, t3) \in Int
        /\ Pixel(g, 1, oy, t2) = Tap(g, 1, oy, t2) - g.pad[1]
        /\ Pixel(g, 2, ox, t3) = Tap(g, 2, ox, t3) - g.pad[2]
    BY <2>1, <2>2, <2>3 DEF Tap, Pixel
  <2> QED BY <2>1, <2>4
<1>12. t \in ConvTaps(g, y) <=> TapInside(g, 1, oy, t2) /\ TapInside(g, 2, ox, t3)
  <2>1. t \in ConvTaps(g, y) <=>
          \A dim \in {1, 2} : Pixel(g, dim, y[dim + 2], t[dim + 1]) \in 0 .. g.in[dim] - 1
    <3>1. t \in (0 .. CinPerGroup(g) - 1) \X (0 .. g.kernel[1] - 1) \X (0 .. g.kernel[2] - 1)
      BY <1>1
    <3>. HIDE DEF t, g
    <3> QED BY <3>1 DEF ConvTaps
  <2>2. /\ Pixel(g, 1, y[3], t[2]) \in 0 .. g.in[1] - 1 <=> TapInside(g, 1, oy, t2)
        /\ Pixel(g, 2, y[4], t[3]) \in 0 .. g.in[2] - 1 <=> TapInside(g, 2, ox, t3)
    <3>1. t[2] = t2 /\ t[3] = t3
      OBVIOUS
    <3>. HIDE DEF t, g
    <3> QED BY <1>4, <1>19, <3>1 DEF TapInside
  <2>3. 1 + 2 = 3 /\ 1 + 1 = 2 /\ 2 + 2 = 4 /\ 2 + 1 = 3
    OBVIOUS
  <2>. HIDE DEF t, g
  <2> QED BY ONLY <2>1, <2>2, <2>3
<1>13. ConvPair(c, g, y, t) =
         <<At(c.in[2], <<oc, t1, t2, t3>>),
           At(c.in[1], <<b, n, Pixel(g, 1, oy, t2), Pixel(g, 2, ox, t3)>>)>>
  <2>1. (y[2] \div CoutPerGroup(g)) * CinPerGroup(g) + t[1] = n
    BY <1>1, <1>3, <1>5, <1>7
  <2>2. t[1] = t1 /\ t[2] = t2 /\ t[3] = t3
    OBVIOUS
  <2>. HIDE DEF t, g
  <2> QED BY <1>2, <1>3, <1>4, <2>1, <2>2 DEF ConvPair
<1>14. At(c.in[2], <<oc, t1, t2, t3>>) = c.in[2].data + 2 * (oc * PatchSize(g) + p)
  <2>1. PICK v \in Views, M \in Nat : v = c.in[2] /\ M = G * Q
    BY <1>1
  <2>2. oc \in 0 .. M - 1 /\ Dense4(v, M, C, K, L)
    BY <1>1, <2>1 DEF Dense4
  <2>3. At(v, <<oc, t1, t2, t3>>) = v.data + 2 * (((oc * C + t1) * K + t2) * L + t3)
    BY ONLY v \in Views, M \in Nat, C \in Nat, K \in Nat, L \in Nat, <2>2,
            t1 \in 0 .. C - 1, t2 \in 0 .. K - 1, t3 \in 0 .. L - 1, DenseFour
  <2>4. ((oc * C + t1) * K + t2) * L + t3 = oc * ((C * K) * L) + ((t1 * K + t2) * L + t3)
    <3>1. oc \in Nat /\ t1 \in Nat /\ t2 \in Nat /\ t3 \in Nat
      BY <2>1, <2>2
    <3> QED BY ONLY <3>1, C \in Nat, K \in Nat, L \in Nat
  <2> QED BY <1>1, <2>1, <2>3, <2>4
<1>15. c.in[2].data + 2 * (oc * PatchSize(g) + p) # 0
  <2>1. PICK P \in Nat, q \in Nat, a \in Nat : P = PatchSize(g) /\ q = p /\ a = c.in[2].data /\ a # 0
    <3>1. c.in[2].data \in Nat /\ c.in[2].data # 0
      BY <1>1, ViewFacts
    <3>2. (C * K) * L \in Nat /\ p \in Nat
      BY <1>8
    <3>3. PatchSize(g) \in Nat
      BY <1>1, <3>2
    <3>. HIDE DEF g
    <3> QED BY <3>1, <3>2, <3>3
  <2>2. PICK m \in Nat : m = oc * P + q
    <3>1. oc \in Nat
      BY <1>3
    <3> QED BY <3>1
  <2>3. a + 2 * m # 0
    BY ONLY a \in Nat, m \in Nat, <2>1
  <2> QED BY <2>1, <2>2, <2>3
<1>16. ASSUME TapInside(g, 1, oy, t2), TapInside(g, 2, ox, t3)
       PROVE  /\ At(c.in[1], <<b, n, Pixel(g, 1, oy, t2), Pixel(g, 2, ox, t3)>>)
                   = c.in[1].data + 2 * InputIndex(g, b, channel, oy, ox, t2, t3)
              /\ c.in[1].data + 2 * InputIndex(g, b, channel, oy, ox, t2, t3) # 0
  <2>1. PICK i \in 0 .. H - 1, x \in 0 .. W - 1 :
          /\ i = Pixel(g, 1, oy, t2) /\ x = Pixel(g, 2, ox, t3)
          /\ i = e - f /\ x = j - k
    <3>. HIDE DEF g
    <3> QED BY <1>1, <1>16, <1>19 DEF TapInside
  <2>2. PICK v \in Views : v = c.in[1]
    BY <1>1
  <2>3. Dense4(v, B, N, H, W)
    BY <1>1, <1>6, <2>2 DEF Dense4
  <2>4. At(v, <<b, n, i, x>>) = v.data + 2 * (((b * N + n) * H + i) * W + x)
    BY ONLY v \in Views, B \in Nat, N \in Nat, H \in Nat, W \in Nat, <2>3,
            b \in 0 .. B - 1, n \in 0 .. N - 1, i \in 0 .. H - 1, x \in 0 .. W - 1, DenseFour
  <2>6. InputIndex(g, b, n, oy, ox, t2, t3) = ((b * N + n) * H + e - f) * W + j - k
    <3>. HIDE DEF g
    <3> QED BY <1>1, <1>6, <1>19 DEF InputIndex
  <2>7. PICK z \in Nat : z = (b * N + n) * H
    <3>1. b \in Nat /\ n \in Nat
      OBVIOUS
    <3> QED BY <3>1
  <2>8. z + e - f = z + i /\ i = e - f /\ x = j - k
    BY <2>1, <2>7
  <2>9. PICK u \in Nat : u = (z + i) * W
    <3>1. z + i \in Nat
      OBVIOUS
    <3> QED BY <3>1
  <2>10. InputIndex(g, b, n, oy, ox, t2, t3) = u + x
    <3>1. u + j - k = u + x
      BY <2>8
    <3> QED BY <2>6, <2>7, <2>8, <2>9, <3>1
  <2>11. v.data \in Nat /\ v.data # 0
    BY <1>1, <2>2, ViewFacts
  <2>12. v.data + 2 * (u + x) # 0
    BY <2>11
  <2>. HIDE DEF g, channel
  <2> QED BY <1>10, <2>1, <2>2, <2>4, <2>7, <2>9, <2>10, <2>12
<1>17. ConvPair(c, g, y, t)[1] = c.in[2].data + 2 * (y[2] * PatchSize(g) + p)
       /\ ConvPair(c, g, y, t)[1] # 0
  BY <1>3, <1>13, <1>14, <1>15
<1>18. /\ PatchAddr(c, y[1], group, p, s) = (IF t \in ConvTaps(g, y) THEN ConvPair(c, g, y, t)[2] ELSE 0)
       /\ t \in ConvTaps(g, y) => ConvPair(c, g, y, t)[2] # 0
  <2>. HIDE DEF g, t, s, channel, group
  <2> QED BY <1>2, <1>11, <1>12, <1>13, <1>16
<1>. HIDE DEF g, t
<1> QED BY <1>17, <1>18 DEF g, t, s, ReadsTap

\* The bias comes after the pairs.
LEMMA BiasAtTheEnd ==
  ASSUME NEW n \in Nat, NEW q, q = [i \in 1 .. n |-> q[i]], NEW z
  PROVE  /\ Len(q) = n /\ Len(q \o <<z>>) = n + 1
         /\ (q \o <<z>>)[n + 1] = z
         /\ \A i \in 1 .. n : (q \o <<z>>)[i] = q[i]
<1>. DEFINE R == {z} \cup {q[i] : i \in 1 .. n}
<1>1. q \in Seq(R) /\ Len(q) = n
  <2>1. \A i \in 1 .. n : q[i] \in R
    OBVIOUS
  <2>. HIDE DEF R
  <2>2. q \in [1 .. n -> R]
    BY <2>1, Zenon
  <2> QED BY ONLY n \in Nat, <2>2
<1>2. z \in R
  OBVIOUS
<1>. HIDE DEF R
<1>3. PICK b : b = <<z>> /\ b \in Seq(R) /\ Len(b) = 1 /\ b[1] = z
  <2>1. <<z>> \in Seq(R) /\ Len(<<z>>) = 1 /\ <<z>>[1] = z
    BY ONLY <1>2
  <2> QED BY ONLY <2>1, Zenon
<1>4. /\ q \o b \in Seq(R)
      /\ Len(q \o b) = Len(q) + Len(b)
      /\ \A i \in 1 .. Len(q) + Len(b) :
           (q \o b)[i] = IF i <= Len(q) THEN q[i] ELSE b[i - Len(q)]
  BY <1>1, <1>3, ConcatProperties, Zenon
<1>5. PICK w : w = q \o b
  OBVIOUS
<1>6. Len(w) = n + 1 /\ \A i \in 1 .. n + 1 : w[i] = IF i <= n THEN q[i] ELSE b[i - n]
  BY <1>1, <1>3, <1>4, <1>5
<1>7. w[n + 1] = z
  <2>1. n + 1 \in 1 .. n + 1 /\ ~(n + 1 <= n) /\ (n + 1) - n = 1
    BY ONLY n \in Nat
  <2> QED BY ONLY <1>3, <1>6, <2>1
<1>8. ASSUME NEW i \in 1 .. n PROVE w[i] = q[i]
  <2>1. i \in 1 .. n + 1 /\ i <= n
    BY ONLY n \in Nat, i \in 1 .. n
  <2> QED BY ONLY <1>6, <2>1
<1> QED BY <1>1, <1>3, <1>5, <1>6, <1>7, <1>8

\* The pairs that meet no padding are those of the taps that meet a pixel, one for each.
KeepsTaps(c, y, n, pairs) ==
  LET S == {d \in 1 .. n : pairs[d][1] # 0 /\ pairs[d][2] # 0}
      T == ConvTaps(Geom(c.attr), y)
      pair(t) == ConvPair(c, Geom(c.attr), y, t)
  IN /\ Cardinality(S) = Cardinality(T)
     /\ \A d \in S : \E t \in T : pairs[d][1] = pair(t)[1] /\ pairs[d][2] = pair(t)[2]
     /\ \A t \in T : \E d \in S : pairs[d][1] = pair(t)[1] /\ pairs[d][2] = pair(t)[2]

\* Positions and taps are one to one, and the padding is left out of both.
LEMMA TapsKept ==
  ASSUME NEW c, c.attr \in ConvAttrs,
         NEW G \in Nat, NEW C \in Nat, NEW Q \in Nat, NEW H \in Nat, NEW W \in Nat, NEW K \in Nat,
         NEW L \in Nat, NEW B \in Nat, NEW O \in Nat, NEW U \in Nat,
         ConvShapes(c, G, C, Q, H, W, K, L, B, O, U),
         NEW y, ConvCell(y, B, G * Q, O, U), NEW P \in Nat, P = (C * K) * L, NEW pairs,
         \A p \in 0 .. P - 1 : LET g == Geom(c.attr) IN
           /\ pairs[p + 1][1] = c.in[2].data + 2 * (y[2] * PatchSize(g) + p)
           /\ pairs[p + 1][2] = PatchAddr(c, y[1], y[2] \div CoutPerGroup(g), p, y[3] * g.out[2] + y[4])
  PROVE  KeepsTaps(c, y, P, pairs)
<1>. DEFINE g == Geom(c.attr)
            T == ConvTaps(g, y)
            S == {d \in 1 .. P : pairs[d][1] # 0 /\ pairs[d][2] # 0}
            pair(t) == ConvPair(c, g, y, t)
            tap(d) == <<(d - 1) \div (K * L), ((d - 1) \div L) % K, (d - 1) % L>>
            place(t1, t2, t3) == (t1 * K + t2) * L + t3 + 1
            f == [d \in S |-> tap(d)]
<1>1. ASSUME NEW t1 \in 0 .. C - 1, NEW t2 \in 0 .. K - 1, NEW t3 \in 0 .. L - 1,
             NEW d, d = place(t1, t2, t3)
      PROVE  /\ d \in 1 .. P /\ tap(d) = <<t1, t2, t3>> /\ pairs[d][1] # 0
             /\ pairs[d][1] = pair(<<t1, t2, t3>>)[1]
             /\ pairs[d][2] = (IF <<t1, t2, t3>> \in T THEN pair(<<t1, t2, t3>>)[2] ELSE 0)
             /\ <<t1, t2, t3>> \in T => pair(<<t1, t2, t3>>)[2] # 0
  <2>1. PICK p : p = (t1 * K + t2) * L + t3
    OBVIOUS
  <2>2. TapDigits(C, K, L, (t1 * K + t2) * L + t3, t1, t2, t3)
    BY TapPlace
  <2>3. /\ p \in 0 .. P - 1 /\ p \div (K * L) = t1 /\ (p \div L) % K = t2 /\ p % L = t3
    BY <2>1, <2>2 DEF TapDigits
  <2>4. d = p + 1 /\ d - 1 = p /\ d \in 1 .. P
    BY <1>1, <2>1, <2>3
  <2>5. /\ pairs[d][1] = c.in[2].data + 2 * (y[2] * PatchSize(g) + p)
        /\ pairs[d][2] = PatchAddr(c, y[1], y[2] \div CoutPerGroup(g), p, y[3] * g.out[2] + y[4])
    BY <2>3, <2>4
  <2>6. /\ PatchAddr(c, y[1], y[2] \div CoutPerGroup(g), p, y[3] * g.out[2] + y[4])
             = (IF <<t1, t2, t3>> \in T THEN pair(<<t1, t2, t3>>)[2] ELSE 0)
        /\ <<t1, t2, t3>> \in T => pair(<<t1, t2, t3>>)[2] # 0
        /\ pair(<<t1, t2, t3>>)[1] = c.in[2].data + 2 * (y[2] * PatchSize(g) + p)
        /\ pair(<<t1, t2, t3>>)[1] # 0
    <3>1. ReadsTap(c, y, <<t1, t2, t3>>, p)
      BY ONLY c.attr \in ConvAttrs, G \in Nat, C \in Nat, Q \in Nat, H \in Nat, W \in Nat, K \in Nat,
              L \in Nat, B \in Nat, O \in Nat, U \in Nat, ConvShapes(c, G, C, Q, H, W, K, L, B, O, U),
              ConvCell(y, B, G * Q, O, U), t1 \in 0 .. C - 1, t2 \in 0 .. K - 1, t3 \in 0 .. L - 1,
              <2>1, PatchReads, Zenon
    <3> QED BY ONLY <3>1 DEF ReadsTap
  <2>7. tap(d) = <<t1, t2, t3>>
    BY <2>3, <2>4
  <2>. HIDE DEF T, pair, g, tap
  <2> QED BY <2>4, <2>5, <2>6, <2>7
<1>2. ASSUME NEW t \in T
      PROVE  \E t1 \in 0 .. C - 1, t2 \in 0 .. K - 1, t3 \in 0 .. L - 1 : t = <<t1, t2, t3>>
  <2>1. C = CinPerGroup(g) /\ K = g.kernel[1] /\ L = g.kernel[2]
    BY DEF ConvShapes
  <2>2. t \in (0 .. CinPerGroup(g) - 1) \X (0 .. g.kernel[1] - 1) \X (0 .. g.kernel[2] - 1)
    BY DEF ConvTaps
  <2>. HIDE DEF g
  <2> QED BY <2>1, <2>2
<1>3. ASSUME NEW d \in 1 .. P
      PROVE  \E t1 \in 0 .. C - 1, t2 \in 0 .. K - 1, t3 \in 0 .. L - 1 :
               d = place(t1, t2, t3)
  <2>1. PICK p \in 0 .. (C * K) * L - 1 : p = d - 1
    OBVIOUS
  <2>2. PICK t1 \in 0 .. C - 1, t2 \in 0 .. K - 1, t3 \in 0 .. L - 1 : p = (t1 * K + t2) * L + t3
    <3>1. HasTap(C, K, L, p)
      BY ONLY C \in Nat, K \in Nat, L \in Nat, p \in 0 .. (C * K) * L - 1, TapOf
    <3> QED BY <3>1 DEF HasTap
  <2>3. d = place(t1, t2, t3)
    BY <2>1, <2>2
  <2> QED BY <2>3
<1>. HIDE DEF T, pair, g, tap, place
<1>4. ASSUME NEW d \in S
      PROVE  /\ tap(d) \in T /\ pairs[d][1] = pair(tap(d))[1] /\ pairs[d][2] = pair(tap(d))[2]
  <2>1. d \in 1 .. P /\ pairs[d][1] # 0 /\ pairs[d][2] # 0
    OBVIOUS
  <2>. HIDE DEF S
  <2>2. PICK t1 \in 0 .. C - 1, t2 \in 0 .. K - 1, t3 \in 0 .. L - 1 : d = place(t1, t2, t3)
    BY <1>3, <2>1
  <2>3. /\ tap(d) = <<t1, t2, t3>> /\ pairs[d][1] = pair(<<t1, t2, t3>>)[1]
        /\ pairs[d][2] = (IF <<t1, t2, t3>> \in T THEN pair(<<t1, t2, t3>>)[2] ELSE 0)
    BY ONLY <1>1, <2>2
  <2> QED BY ONLY <2>1, <2>3
<1>5. ASSUME NEW t \in T
      PROVE  \E d \in S : tap(d) = t /\ pairs[d][1] = pair(t)[1] /\ pairs[d][2] = pair(t)[2]
  <2>1. PICK t1 \in 0 .. C - 1, t2 \in 0 .. K - 1, t3 \in 0 .. L - 1 : t = <<t1, t2, t3>>
    BY <1>2
  <2>2. PICK d : d = place(t1, t2, t3)
    OBVIOUS
  <2>3. /\ d \in 1 .. P /\ tap(d) = t /\ pairs[d][1] # 0
        /\ pairs[d][1] = pair(t)[1] /\ pairs[d][2] = pair(t)[2] /\ pairs[d][2] # 0
    BY ONLY <1>1, <2>1, <2>2, t \in T
  <2>4. d \in S
    BY <2>3
  <2>. HIDE DEF S
  <2> QED BY <2>3, <2>4
<1>6. ASSUME NEW d \in S, NEW e \in S, tap(d) = tap(e) PROVE d = e
  <2>1. d \in 1 .. P /\ e \in 1 .. P
    OBVIOUS
  <2>. HIDE DEF S
  <2>2. PICK t1 \in 0 .. C - 1, t2 \in 0 .. K - 1, t3 \in 0 .. L - 1 : d = place(t1, t2, t3)
    BY <1>3, <2>1
  <2>3. PICK r1 \in 0 .. C - 1, r2 \in 0 .. K - 1, r3 \in 0 .. L - 1 : e = place(r1, r2, r3)
    BY <1>3, <2>1
  <2>4. tap(d) = <<t1, t2, t3>> /\ tap(e) = <<r1, r2, r3>>
    <3>1. tap(d) = <<t1, t2, t3>> /\ pairs[d][1] = pair(<<t1, t2, t3>>)[1]
      BY ONLY <1>1, <2>2
    <3>2. tap(e) = <<r1, r2, r3>> /\ pairs[e][1] = pair(<<r1, r2, r3>>)[1]
      BY ONLY <1>1, <2>3
    <3> QED BY ONLY <3>1, <3>2
  <2>5. t1 = r1 /\ t2 = r2 /\ t3 = r3
    <3>1. <<t1, t2, t3>> = <<r1, r2, r3>>
      BY ONLY <1>6, <2>4
    <3> QED BY ONLY <3>1
  <2> QED BY ONLY <2>2, <2>3, <2>5
<1>7. IsFiniteSet(S)
  <2>1. S \subseteq 1 .. P /\ IsFiniteSet(1 .. P)
    BY FS_Interval
  <2>. HIDE DEF S
  <2> QED BY <2>1, FS_Subset
<1>. HIDE DEF S
<1>8. \A d \in S : f[d] = tap(d)
  OBVIOUS
<1>9. f \in [S -> T]
  BY <1>4
<1>. HIDE DEF f
<1>10. f \in Bijection(S, T)
  <2>1. \A t \in T : \E d \in S : f[d] = t
    BY <1>5, <1>8
  <2>2. \A d \in S : \A e \in S : f[d] = f[e] => d = e
    BY <1>6, <1>8
  <2> QED BY <1>9, <2>1, <2>2 DEF Bijection, Injection, Surjection, IsInjective
<1>11. ExistsBijection(S, T)
  BY <1>10 DEF ExistsBijection
<1>12. Cardinality(T) = Cardinality(S)
  BY <1>7, <1>11, FS_Bijection
<1>13. \A d \in S : \E t \in T : pairs[d][1] = pair(t)[1] /\ pairs[d][2] = pair(t)[2]
  BY <1>4
<1>14. \A t \in T : \E d \in S : pairs[d][1] = pair(t)[1] /\ pairs[d][2] = pair(t)[2]
  BY <1>5
<1> QED BY ONLY <1>12, <1>13, <1>14, Zenon DEF KeepsTaps, S, T, pair, g

\* The value of a cell: the pairs of its taps, each of them once, and then the bias.
LEMMA ConvComputes ==
  ASSUME NEW c, c.in \in Seq(Views), c.out \in Seq(Views), c.attr \in ConvAttrs, c.op = "CONV2D",
         ConvOK(c), Described(c),
         NEW G \in Nat, NEW C \in Nat, NEW Q \in Nat, NEW H \in Nat, NEW W \in Nat, NEW K \in Nat,
         NEW L \in Nat, NEW B \in Nat, NEW O \in Nat, NEW U \in Nat,
         ConvShapes(c, G, C, Q, H, W, K, L, B, O, U),
         NEW y, ConvCell(y, B, G * Q, O, U)
  PROVE  ConvValue(c, y, ConvSum(c, y))
<1>. DEFINE g == Geom(c.attr)
            s == y[3] * g.out[2] + y[4]
            group == y[2] \div CoutPerGroup(g)
            taps == Taps(g)
            weight == [x \in {0} \X (0 .. taps - 1) |-> c.in[2].data + 2 * (y[2] * PatchSize(g) + x[2])]
            input == [x \in {s} \X (0 .. taps - 1) |-> PatchAddr(c, y[1], group, x[2], x[1])]
            bias == c.in[3].data + 2 * y[2]
            pairs == [d \in 1 .. taps |-> <<weight[<<0, d - 1>>], input[<<s, d - 1>>]>>]
            S == {d \in 1 .. taps : pairs[d][1] # 0 /\ pairs[d][2] # 0}
            T == ConvTaps(g, y)
            pair(t) == ConvPair(c, g, y, t)
<1>1. ConvSum(c, y) = IF Biased(c) THEN Term("biased", <<>>, Paired(pairs) \o <<bias>>)
                      ELSE Term("conv", <<>>, Paired(pairs))
  BY DEF ConvSum, ConvDot, ScalarDot
<1>2. PICK P \in Nat : P = (C * K) * L
  BY ONLY C \in Nat, K \in Nat, L \in Nat
<1>3. taps = P
  BY <1>2 DEF ConvShapes
<1>4. \A p \in 0 .. P - 1 :
        /\ pairs[p + 1][1] = c.in[2].data + 2 * (y[2] * PatchSize(g) + p)
        /\ pairs[p + 1][2] = PatchAddr(c, y[1], group, p, s)
  <2>1. \A p \in 0 .. P - 1 : /\ weight[<<0, p>>] = c.in[2].data + 2 * (y[2] * PatchSize(g) + p)
                              /\ input[<<s, p>>] = PatchAddr(c, y[1], group, p, s)
    BY <1>3
  <2>2. \A d \in 1 .. P : pairs[d] = <<weight[<<0, d - 1>>], input[<<s, d - 1>>]>>
    BY <1>3
  <2>3. \A p \in 0 .. P - 1 : p + 1 \in 1 .. P /\ (p + 1) - 1 = p
    OBVIOUS
  <2>. HIDE DEF weight, input, pairs, s, group, taps, g
  <2>4. ASSUME NEW p \in 0 .. P - 1
        PROVE  /\ pairs[p + 1][1] = c.in[2].data + 2 * (y[2] * PatchSize(g) + p)
               /\ pairs[p + 1][2] = PatchAddr(c, y[1], group, p, s)
    <3>1. PICK d \in 1 .. P : d = p + 1 /\ d - 1 = p
      BY ONLY P \in Nat, p \in 0 .. P - 1
    <3>2. pairs[d] = <<weight[<<0, p>>], input[<<s, p>>]>>
      BY ONLY <2>2, <3>1
    <3> QED BY ONLY <2>1, p \in 0 .. P - 1, <3>1, <3>2
  <2> QED BY ONLY <2>4
<1>5. DOMAIN pairs = 1 .. P
  BY <1>3
<1>. HIDE DEF pairs
<1>6. S = {d \in 1 .. P : pairs[d][1] # 0 /\ pairs[d][2] # 0}
  BY ONLY <1>3
<1>7. KeepsTaps(c, y, P, pairs)
  BY ONLY c.attr \in ConvAttrs, G \in Nat, C \in Nat, Q \in Nat, H \in Nat, W \in Nat, K \in Nat,
          L \in Nat, B \in Nat, O \in Nat, U \in Nat, ConvShapes(c, G, C, Q, H, W, K, L, B, O, U),
          ConvCell(y, B, G * Q, O, U), P \in Nat, <1>2, <1>4, TapsKept
<1>. HIDE DEF S
<1>8. /\ Cardinality(S) = Cardinality(T)
      /\ \A d \in S : \E t \in T : pairs[d][1] = pair(t)[1] /\ pairs[d][2] = pair(t)[2]
      /\ \A t \in T : \E d \in S : pairs[d][1] = pair(t)[1] /\ pairs[d][2] = pair(t)[2]
  BY ONLY <1>6, <1>7 DEF KeepsTaps
<1>9. /\ IsFiniteSet(S) /\ Cardinality(S) \in Nat
      /\ DOMAIN Paired(pairs) = 1 .. 2 * Cardinality(S)
      /\ \A i \in 1 .. Cardinality(S) :
           \E d \in S : Paired(pairs)[2*i - 1] = pairs[d][1] /\ Paired(pairs)[2*i] = pairs[d][2]
      /\ \A d \in S : \E i \in 1 .. Cardinality(S) :
           Paired(pairs)[2*i - 1] = pairs[d][1] /\ Paired(pairs)[2*i] = pairs[d][2]
  <2>1. PairsKept(pairs, S)
    BY ONLY P \in Nat, <1>5, <1>6, PairedValues
  <2> QED BY ONLY <2>1, Zenon DEF PairsKept
<1>10. PICK m \in Nat : m = Cardinality(T) /\ m = Cardinality(S)
  BY <1>8, <1>9
<1>12. PICK lead \in 0 .. 1 : Biased(c) <=> lead = 1
  <2>1. (IF Biased(c) THEN 1 ELSE 0) \in 0 .. 1
    OBVIOUS
  <2> QED BY <2>1
<1>13. PICK q : q = Paired(pairs)
  OBVIOUS
<1>14. q = [i \in 1 .. 2 * m |-> q[i]]
  BY <1>9, <1>10, <1>13 DEF Paired
<1>15. PICK from : from = IF lead = 1 THEN q \o <<bias>> ELSE q
  OBVIOUS
<1>16. /\ Len(from) = 2 * m + lead
       /\ lead = 1 => from[Len(from)] = bias
       /\ \A i \in 1 .. 2 * m : from[i] = q[i]
  <2>1. PICK n \in Nat : n = 2 * m
    OBVIOUS
  <2>2. PICK z : z = bias
    OBVIOUS
  <2>. HIDE DEF bias
  <2>3. q = [i \in 1 .. n |-> q[i]]
    BY <1>14, <2>1
  <2>4. /\ Len(q) = n /\ Len(q \o <<z>>) = n + 1
        /\ (q \o <<z>>)[n + 1] = z
        /\ \A i \in 1 .. n : (q \o <<z>>)[i] = q[i]
    BY ONLY n \in Nat, <2>3, BiasAtTheEnd
  <2>5. CASE lead = 1
    <3>1. from = q \o <<z>>
      BY <1>15, <2>2, <2>5
    <3> QED BY ONLY <2>1, <2>2, <2>4, <2>5, <3>1
  <2>6. CASE lead = 0
    <3>1. from = q
      BY <1>15, <2>6
    <3> QED BY ONLY <2>1, <2>4, <2>6, <3>1, n \in Nat
  <2> QED BY <2>5, <2>6
<1>17. ASSUME NEW i \in 1 .. m
       PROVE  from[2*i - 1] = q[2*i - 1] /\ from[2*i] = q[2*i]
  <2>1. 2*i - 1 \in 1 .. 2 * m /\ 2*i \in 1 .. 2 * m
    BY ONLY m \in Nat, i \in 1 .. m
  <2> QED BY ONLY <1>16, <2>1
<1>18. {<<from[2*i - 1], from[2*i]>> : i \in 1 .. m} = {pair(t) : t \in T}
  <2>1. \A t \in T : pair(t) = <<pair(t)[1], pair(t)[2]>>
    BY DEF ConvPair
  <2>. HIDE DEF pair, T
  <2>2. ASSUME NEW i \in 1 .. m PROVE <<from[2*i - 1], from[2*i]>> \in {pair(t) : t \in T}
    <3>1. PICK d \in S : q[2*i - 1] = pairs[d][1] /\ q[2*i] = pairs[d][2]
      BY <1>9, <1>10, <1>13
    <3>2. PICK t \in T : pairs[d][1] = pair(t)[1] /\ pairs[d][2] = pair(t)[2]
      BY <1>8
    <3>3. <<from[2*i - 1], from[2*i]>> = pair(t)
      BY ONLY <1>17, i \in 1 .. m, t \in T, <2>1, <3>1, <3>2
    <3> QED BY <3>3
  <2>3. ASSUME NEW t \in T
        PROVE  \E i \in 1 .. m : pair(t) = <<from[2*i - 1], from[2*i]>>
    <3>1. PICK d \in S : pairs[d][1] = pair(t)[1] /\ pairs[d][2] = pair(t)[2]
      BY <1>8
    <3>2. PICK i \in 1 .. m : q[2*i - 1] = pairs[d][1] /\ q[2*i] = pairs[d][2]
      BY <1>9, <1>10, <1>13
    <3>3. <<from[2*i - 1], from[2*i]>> = pair(t)
      BY ONLY <1>17, i \in 1 .. m, t \in T, <2>1, <3>1, <3>2
    <3> QED BY <3>3
  <2> QED BY ONLY <2>2, <2>3
<1>19. lead = 1 => bias = At(c.in[3], <<y[2]>>)
  <2>1. SUFFICES ASSUME lead = 1 PROVE bias = At(c.in[3], <<y[2]>>)
    OBVIOUS
  <2>2. PICK v \in Views : v = c.in[3] /\ v \in ViewsOf(c)
    BY <1>12, <2>1 DEF ViewsOf, Biased
  <2>3. PICK N \in Nat : N = G * Q
    BY ONLY G \in Nat, Q \in Nat
  <2>4. v.dtype = "F16" /\ IsContiguous(v) /\ v.shape = <<N>>
    <3>1. v.shape = <<g.cout>>
      BY <1>12, <2>1, <2>2 DEF Described, UnaryOps, Biased
    <3> QED BY <2>2, <2>3, <3>1 DEF ConvShapes
  <2>5. PICK e \in 0 .. N - 1 : e = y[2]
    BY <2>3 DEF ConvCell
  <2>6. At(v, <<e>>) = v.data + 2 * e
    <3>. DEFINE x == <<e>>
    <3>1. Rank(v) = 1 /\ v.dtype \in DOMAIN ElementSize /\ SizeOf(v) = 2
      BY <2>4 DEF Rank, SizeOf, ElementSize
    <3>2. x \in [1 .. Rank(v) -> Nat] /\ \A a \in 1 .. Rank(v) : x[a] \in 0 .. v.shape[a] - 1
      <4>1. v.shape[1] = N
        BY ONLY <2>4
      <4>2. x[1] = e
        OBVIOUS
      <4>3. x \in [1 .. 1 -> Nat]
        BY ONLY e \in 0 .. N - 1, N \in Nat
      <4>. HIDE DEF x
      <4>4. \A a \in 1 .. 1 : a = 1
        OBVIOUS
      <4>5. \A a \in 1 .. 1 : x[a] \in 0 .. v.shape[a] - 1
        BY ONLY e \in 0 .. N - 1, N \in Nat, <4>1, <4>2, <4>4
      <4> QED BY ONLY <3>1, <4>3, <4>5
    <3>3. RowMajor(v.shape, x) = e
      <4>1. PICK n \in Nat : n = 1
        OBVIOUS
      <4>2. v.shape \in [1 .. n -> Nat] /\ Len(v.shape) = n /\ x \in [1 .. n -> Nat]
        BY <2>4, <4>1
      <4>. DEFINE r == [a \in 0 .. n |-> IF a = 0 THEN 0 ELSE e]
      <4>3. r[0] = 0 /\ r[1] = r[0] * v.shape[1] + x[1] /\ r[n] = e
        BY <2>4, <4>1
      <4>4. RowSteps(n, v.shape, x, r)
        BY <4>1, <4>3 DEF RowSteps
      <4>. HIDE DEF r, x
      <4>5. PICK t \in [1 .. n -> Nat] : t = v.shape /\ Len(t) = n
        BY <4>2
      <4>6. PICK z \in [1 .. n -> Nat] : z = x
        BY <4>2
      <4>7. RowMajor(t, z) = r[n]
        BY ONLY n \in Nat, t \in [1 .. n -> Nat], <4>5, z \in [1 .. n -> Nat], <4>6, <4>4, RowMajorIs
      <4> QED BY <4>3, <4>5, <4>6, <4>7
    <3>. HIDE DEF x
    <3>4. At(v, x) = v.data + SizeOf(v) * RowMajor(v.shape, x)
      BY <2>4, <3>1, <3>2, DenseToCell
    <3> QED BY <3>1, <3>3, <3>4 DEF x
  <2> QED BY <2>2, <2>5, <2>6
<1>20. PICK value : value = ConvSum(c, y)
  OBVIOUS
<1>21. value.f = (IF Biased(c) THEN "biased" ELSE "conv") /\ value.from = from
  BY <1>1, <1>12, <1>13, <1>15, <1>20 DEF Term
<1>. HIDE DEF bias
<1>22. ConvValue(c, y, value)
  <2>. HIDE DEF g
  <2> QED BY ONLY <1>10, <1>12, <1>16, <1>18, <1>19, <1>21 DEF ConvValue, g, pair, T
<1> QED BY ONLY <1>20, <1>22

\* The cells CONV2D goes over are those of the output.
LEMMA ConvStored ==
  ASSUME NEW c, c.in \in Seq(Views), c.out \in Seq(Views), c.op = "CONV2D", ConvOK(c),
         c.attr \in ConvAttrs, Described(c), ~ConvPanics(Geom(c.attr)), c.target = "A100",
         NEW y \in Cells(Dst(c).shape)
  PROVE  HoldsComputed(c, ConvWrites(c), y)
<1>. DEFINE g == Geom(c.attr)
            v == Dst(c)
            stores == ConvWrites(c)
<1>1. PICK G \in Nat, C \in Nat, Q \in Nat, H \in Nat, W \in Nat, K \in Nat, L \in Nat,
           B \in Nat, O \in Nat, U \in Nat : ConvShapes(c, G, C, Q, H, W, K, L, B, O, U)
  BY ConvShapesAre
<1>2. PICK N \in Nat : N = G * Q
  OBVIOUS
<1>3. /\ g.batch = B /\ g.cout = N /\ g.out[1] = O /\ g.out[2] = U
      /\ v \in Views /\ v = c.out[1] /\ v.shape = <<B, N, O, U>>
      /\ v.dtype = "F16" /\ IsContiguous(v) /\ CastsFit(g) /\ ~ConvPanics(g)
  BY <1>1, <1>2 DEF ConvShapes, Dst
<1>4. ConvCells(g) = (0 .. B - 1) \X (0 .. N - 1) \X (0 .. O - 1) \X (0 .. U - 1)
  BY <1>3 DEF ConvCells
<1>5. Rank(v) = 4 /\ v.shape \in [1 .. 4 -> Nat] /\ Len(v.shape) = 4
  <2>1. PICK w : w = v.shape /\ w = <<B, N, O, U>>
    BY <1>3
  <2>2. w \in [1 .. 4 -> Nat] /\ Len(w) = 4
    BY ONLY <2>1, B \in Nat, N \in Nat, O \in Nat, U \in Nat
  <2> QED BY <2>1, <2>2 DEF Rank
<1>6. ASSUME NEW x \in ConvCells(g)
      PROVE  /\ x \in Cells(v.shape) /\ stores[x].at = At(v, x) /\ ConvValue(c, x, stores[x].val)
  <2>1. PICK b \in 0 .. B - 1, oc \in 0 .. N - 1, oy \in 0 .. O - 1, ox \in 0 .. U - 1 :
          x = <<b, oc, oy, ox>>
    BY <1>4
  <2>2. x[1] = b /\ x[2] = oc /\ x[3] = oy /\ x[4] = ox /\ Len(x) = 4
    BY ONLY <2>1
  <2>3. ConvCell(x, B, G * Q, O, U)
    BY <1>2, <2>1, <2>2 DEF ConvCell
  <2>4. ConvValue(c, x, ConvSum(c, x))
    BY <1>1, <2>3, ConvComputes
  <2>5. ConvA100Term(c, x[1], x[2], x[3] * g.out[2] + x[4]) = ConvSum(c, x)
        /\ x \in ConvStoredCells(c)
    BY <1>3, ConvSumStored DEF ConvStoredCells
  <2>6. ConvCpuAt(c, x[1], x[2], x[3], x[4]) = ConvA100At(c, x[1], x[2], x[3] * g.out[2] + x[4])
    <3>1. Len(c.out) = 1 /\ AllF16(c) /\ GeomOK(Geom(c.attr))
      BY DEF ConvOK, ExpectIO
    <3>2. PICK i, w, bias : ValidateLengths(Geom(c.attr), i, w, Elements(c.out[1]), bias)
      BY DEF ConvOK
    <3> QED BY <3>1, <3>2, ConvAddress
  <2>7. stores[x] = [at |-> ConvA100At(c, x[1], x[2], x[3] * g.out[2] + x[4]),
                     val |-> ConvA100Term(c, x[1], x[2], x[3] * g.out[2] + x[4])]
    BY <2>5 DEF ConvWrites, VectorTarget, TargetOf
  <2>8. ConvCpuAt(c, x[1], x[2], x[3], x[4]) = At(v, x)
    <3>1. ConvCpuAt(c, b, oc, oy, ox) = v.data + 2 * (((b * N + oc) * O + oy) * U + ox)
      BY <1>3 DEF ConvCpuAt, OutputIndex
    <3>2. PICK w \in Views : w = v /\ Dense4(w, B, N, O, U)
      BY <1>3 DEF Dense4
    <3>3. At(w, <<b, oc, oy, ox>>) = w.data + 2 * (((b * N + oc) * O + oy) * U + ox)
      BY ONLY w \in Views, B \in Nat, N \in Nat, O \in Nat, U \in Nat, <3>2,
              b \in 0 .. B - 1, oc \in 0 .. N - 1, oy \in 0 .. O - 1, ox \in 0 .. U - 1, DenseFour
    <3>. HIDE DEF v
    <3> QED BY <2>1, <2>2, <3>1, <3>2, <3>3
  <2>9. x \in Cells(v.shape)
    <3>1. PICK n \in Nat : n = 4
      OBVIOUS
    <3>2. x \in [1 .. n -> Nat]
      BY <2>1, <3>1
    <3>3. v.shape[1] = B /\ v.shape[2] = N /\ v.shape[3] = O /\ v.shape[4] = U
      BY <1>3
    <3>4. \A a \in 1 .. n : a \in {1, 2, 3, 4}
      BY <3>1
    <3>. HIDE DEF v
    <3>5. \A a \in 1 .. n : x[a] \in 0 .. v.shape[a] - 1
      BY ONLY <2>1, <2>2, <3>3, <3>4
    <3>6. PICK w \in [1 .. n -> Nat] : w = v.shape /\ Len(w) = n
      BY <1>5, <3>1
    <3>7. InCells(n, w, x)
      BY <3>2, <3>5, <3>6 DEF InCells
    <3> QED BY <3>6, <3>7, CellIn
  <2>. HIDE DEF stores, v, g
  <2>10. /\ stores[x].at = ConvCpuAt(c, x[1], x[2], x[3], x[4])
         /\ stores[x].val = ConvSum(c, x)
    BY ONLY <2>5, <2>6, <2>7
  <2> QED BY ONLY <2>4, <2>8, <2>9, <2>10
<1>7. y \in ConvCells(g)
  <2>1. y \in [1 .. 4 -> Nat] /\ \A a \in 1 .. 4 : y[a] \in 0 .. v.shape[a] - 1
    BY <1>3, <1>5, CellTyped
  <2>2. v.shape[1] = B /\ v.shape[2] = N /\ v.shape[3] = O /\ v.shape[4] = U
    BY <1>3
  <2>. HIDE DEF v
  <2>3. y = <<y[1], y[2], y[3], y[4]>>
    BY ONLY <2>1
  <2>4. y[1] \in 0 .. B - 1 /\ y[2] \in 0 .. N - 1 /\ y[3] \in 0 .. O - 1 /\ y[4] \in 0 .. U - 1
    BY <2>1, <2>2
  <2> QED BY <1>4, <2>3, <2>4
<1>8. DOMAIN stores = ConvCells(g)
  BY <1>3, ConvSumStored DEF ConvWrites, ConvStoredCells
<1>. HIDE DEF g, v, stores
<1>9. ASSUME NEW k \in ConvCells(g), stores[k].at = At(v, y)
      PROVE  k \in SameAddress(v, y) /\ ComputedValue(c, k, stores[k].val)
  <2>1. k \in SameAddress(v, y)
    BY <1>6, <1>9 DEF SameAddress
  <2>2. ComputedValue(c, k, stores[k].val)
    BY <1>6 DEF ComputedValue, UnaryOps, BinaryOps
  <2> QED BY <2>1, <2>2
<1> QED BY <1>6, <1>7, <1>8, <1>9 DEF HoldsComputed, v, stores

(* --- accepted calls ------------------------------------------------------------------ *)
\* Whatever a kernel that computes through write_logical_bytes accepts, each element
\* of its result is computed from the cells its operation names.
LEMMA LogicalComputes ==
  ASSUME NEW c, TypedOperands(c), Accepts(c), ~Panics(c), Computes(c), c.op \notin DirectOps,
         NEW l \in Linears(Dst(c)), NEW y, y = Coordinates(Dst(c).shape, l)
  PROVE  ComputedValue(c, y, LogicalOutput(c)[l])
<1>1. c.in \in Seq(Views) /\ c.out \in Seq(Views) /\ TypedAttr(c.op, c.attr)
  BY DEF TypedOperands
<1>2. CASE c.op = "SOFTMAX"
  <2>1. SoftmaxOK(c) /\ c.attr.axis \in I32
    BY <1>1, <1>2 DEF Accepts, BinaryOps, UnaryOps, TypedAttr, SoftmaxAttrs
  <2>2. RowKernel(c, l, y)
    BY <1>1, <2>1 DEF RowKernel, SoftmaxOK
  <2>3. SoftmaxResult(c)[l] = Term("softmax", <<>>, SoftmaxReads(c, y))
    BY <2>1, <2>2, SoftmaxComputes
  <2>4. LogicalOutput(c) = SoftmaxResult(c)
    BY <1>2 DEF LogicalOutput
  <2> QED BY <1>2, <2>3, <2>4 DEF ComputedValue, UnaryOps, BinaryOps
<1>3. CASE c.op = "RMS_NORM"
  <2>1. RmsNormOK(c)
    BY <1>3 DEF Accepts, BinaryOps, UnaryOps
  <2>2. RowKernel(c, l, y)
    BY <1>1, <2>1 DEF RowKernel, RmsNormOK
  <2>3. RmsNormResult(c)[l] = Term("rms_norm", <<>>, RmsNormReads(c, y))
    BY <2>1, <2>2, RmsNormComputes
  <2>4. LogicalOutput(c) = RmsNormResult(c)
    BY <1>3 DEF LogicalOutput
  <2> QED BY <1>3, <2>3, <2>4 DEF ComputedValue, UnaryOps, BinaryOps
<1>4. CASE c.op = "ROPE"
  <2>1. RopeOK(c)
    BY <1>4 DEF Accepts, BinaryOps, UnaryOps
  <2>2. RowKernel(c, l, y)
    BY <1>1, <2>1 DEF RowKernel, RopeOK
  <2>3. RopeResult(c)[l] = RopeValue(c, y)
    BY <2>1, <2>2, RopeComputes
  <2>4. LogicalOutput(c) = RopeResult(c)
    BY <1>4 DEF LogicalOutput
  <2> QED BY <1>4, <2>3, <2>4 DEF ComputedValue, UnaryOps, BinaryOps
<1>5. CASE c.op = "GLU"
  <2>1. GluOK(c)
    BY <1>5 DEF Accepts, BinaryOps, UnaryOps
  <2>2. GluResult(c)[l] = Term("swiglu", <<>>, GluReads(c, y))
    BY <1>1, <2>1, GluComputes
  <2>3. LogicalOutput(c) = GluResult(c)
    BY <1>5 DEF LogicalOutput
  <2> QED BY <1>5, <2>2, <2>3 DEF ComputedValue, UnaryOps, BinaryOps
<1>6. CASE c.op = "REDUCE_MAX"
  <2>1. ReduceMaxOK(c) /\ c.attr \in ReduceMaxAttrs
    BY <1>1, <1>6 DEF Accepts, BinaryOps, UnaryOps, TypedAttr
  <2>2. ReduceValue(c, y, ReduceMaxResult(c)[l])
    BY <1>1, <2>1, ReduceNoopComputes, ReduceMaxComputes
  <2>3. LogicalOutput(c) = ReduceMaxResult(c)
    BY <1>6 DEF LogicalOutput
  <2> QED BY <1>6, <2>2, <2>3 DEF ComputedValue, UnaryOps, BinaryOps
<1>7. CASE c.op = "RESIZE"
  <2>1. ResizeOK(c) /\ ~ResizePanics(c) /\ c.attr.mode = 1
    BY <1>7 DEF Accepts, BinaryOps, UnaryOps, Panics, Computes, MoveOps
  <2>2. ResizeResult(c)[l] = LerpValue(c, y)
    BY <1>1, <2>1, ResizeComputes
  <2>3. LogicalOutput(c) = ResizeResult(c)
    BY <1>7 DEF LogicalOutput
  <2> QED BY <1>7, <2>2, <2>3 DEF ComputedValue, UnaryOps, BinaryOps
<1>8. c.op \in {"SOFTMAX", "RMS_NORM", "ROPE", "GLU", "REDUCE_MAX", "RESIZE"}
  BY DEF Accepts, Computes, MoveOps, DirectOps
<1> QED BY <1>2, <1>3, <1>4, <1>5, <1>6, <1>7, <1>8

\* So does what a kernel stores that addresses its buffers itself.
LEMMA DirectComputes ==
  ASSUME NEW c, TypedOperands(c), Accepts(c), ~Panics(c), Described(c), c.op \in DirectOps,
         NEW y \in Cells(Dst(c).shape)
  PROVE  HoldsComputed(c, Stores(c, 1), y)
<1>1. c.in \in Seq(Views) /\ c.out \in Seq(Views) /\ ~Skips(c)
  BY DEF TypedOperands, Skips, DirectOps, BinaryOps, UnaryOps
<1>2. CASE c.op = "MAT_MUL"
  <2>1. MatMulOK(c) /\ c.attr \in MatMulAttrs
    BY <1>2 DEF Accepts, TypedOperands, BinaryOps, UnaryOps
  <2> QED BY <1>1, <1>2, <2>1, MatMulStored DEF Stores
<1>3. CASE c.op = "CONV2D"
  <2>1. ConvOK(c) /\ c.attr \in ConvAttrs /\ c.target = "A100" /\ ~ConvPanics(Geom(c.attr))
    BY <1>3 DEF Accepts, TypedOperands, Panics, BinaryOps, UnaryOps
  <2> QED BY <1>1, <1>3, <2>1, ConvStored DEF Stores
<1>4. CASE c.op \in BinaryOps
  <2>1. BinaryOK(c)
    BY <1>4 DEF Accepts, BinaryOps, UnaryOps
  <2>2. Stores(c, 1) = BinaryWrites(c) /\ DOMAIN BinaryWrites(c) = Linears(Dst(c))
    BY <1>1, <1>4, SMTT(30) DEF Stores, BinaryOps, BinaryWrites, Dst
  <2>3. Dst(c) \in Views /\ MetaOK(Dst(c))
    <3>1. 1 \in DOMAIN c.out /\ AllMetaOK(c)
      BY <2>1 DEF BinaryOK, ExpectIO
    <3> QED BY <1>1, <3>1 DEF AllMetaOK, ViewsOf, Dst
  <2>4. ASSUME NEW l \in Linears(Dst(c))
        PROVE  /\ BinaryWrites(c)[l].at = At(Dst(c), Coordinates(Dst(c).shape, l))
               /\ ComputedValue(c, Coordinates(Dst(c).shape, l), BinaryWrites(c)[l].val)
    <3>1. PICK z : z = Coordinates(Dst(c).shape, l)
      OBVIOUS
    <3>2. /\ BinaryWrites(c)[l].at = At(Dst(c), z)
          /\ BinaryWrites(c)[l].val = Term(c.op, <<>>, BinaryReads(c, z))
      BY <1>1, <2>1, <3>1, BinaryComputes
    <3>3. ComputedValue(c, z, BinaryWrites(c)[l].val)
      BY <1>4, <3>2 DEF ComputedValue, BinaryOps, UnaryOps
    <3> QED BY <3>1, <3>2, <3>3
  <2>5. \E k \in Linears(Dst(c)) : BinaryWrites(c)[k].at = At(Dst(c), y)
    <3>1. RowMajor(Dst(c).shape, y) \in Linears(Dst(c))
          /\ Coordinates(Dst(c).shape, RowMajor(Dst(c).shape, y)) = y
      BY <2>3, IndexOfCell
    <3> QED BY <2>4, <3>1
  <2>6. ASSUME NEW k \in Linears(Dst(c)), BinaryWrites(c)[k].at = At(Dst(c), y)
        PROVE  \E z \in SameAddress(Dst(c), y) : ComputedValue(c, z, BinaryWrites(c)[k].val)
    <3>1. Coordinates(Dst(c).shape, k) \in Cells(Dst(c).shape)
      BY <2>3, CellOfIndex
    <3>2. Coordinates(Dst(c).shape, k) \in SameAddress(Dst(c), y)
      BY <2>4, <2>6, <3>1 DEF SameAddress
    <3> QED BY <2>4, <3>2
  <2> QED BY <2>2, <2>5, <2>6 DEF HoldsComputed
<1>5. CASE c.op \in UnaryOps
  <2>1. UnaryOK(c)
    BY <1>5 DEF Accepts, BinaryOps, UnaryOps
  <2>2. Stores(c, 1) = UnaryWrites(c)
    BY <1>1, <1>5, SMTT(30) DEF Stores, BinaryOps, UnaryOps
  <2>3. MetaOK(Dst(c)) /\ Src(c).stride = Dst(c).stride
    BY <1>5 DEF Described, UnaryOps
  <2>4. StoredOnly(UnaryWrites(c), At(Dst(c), y), Term(c.op, <<>>, <<At(Src(c), y)>>))
    BY <1>1, <2>1, <2>3, UnaryComputes
  <2>5. ComputedValue(c, y, Term(c.op, <<>>, <<At(Src(c), y)>>)) /\ y \in SameAddress(Dst(c), y)
    BY <1>5 DEF ComputedValue, UnaryOps, BinaryOps, SameAddress
  <2> QED BY <2>2, <2>4, <2>5 DEF HoldsComputed, StoredOnly
<1> QED BY <1>2, <1>3, <1>4, <1>5 DEF DirectOps

\* Every kernel that computes does so from exactly the cells its operation is defined
\* on, for every shape, stride, axis, mask, tap and attribute it accepts: each cell of
\* the output, or another one the strides put at its address, ends up computed from
\* the row, the pair, the window or the pixels it stands for.  The unary kernels,
\* MAT_MUL and CONV2D, which look at no stride, do so where the views are the ones
\* the attribute describes, CONV2D where its sizes fit in 32 bits too: every pair of a
\* weight and a pixel once, and the bias after them, added to the rounded product
\* (matmul.rs, conv2d.rs:265-358, transform.rs and the kernels of nn).
THEOREM ComputedRight == Spec => []ComputesFromTheRightElements
<1>1. IInv /\ WrittenOnce => ComputesFromTheRightElements
  <2>. SUFFICES ASSUME IInv, WrittenOnce, Completed, Computes(Call), Described(Call),
                       NEW y \in Cells(Dst(Call).shape)
                PROVE  \E z \in SameAddress(Dst(Call), y) :
                         ComputedValue(Call, z, Now(At(Dst(Call), y)))
    BY DEF ComputesFromTheRightElements
  <2>1. Started
    BY DEF IInv, Idle, Writing, Finished, FreshNode, RefusedNode, DoneNode, Completed
  <2>2. TypedOperands(Call) /\ Accepts(Call) /\ ~Panics(Call)
    BY <2>1, CallTyped DEF Started, Call
  <2>3. Call.op \notin {"MAX_POOL", "TOP_K"} /\ ~Skips(Call)
    BY DEF Computes, MoveOps, Skips
  <2>4. Len(Call.out) = 1
    BY <2>2, <2>3, SingleOutput
  <2>5. Dst(Call) \in Views /\ Dst(Call) = Call.out[1]
    BY <2>2, <2>4 DEF Dst, TypedOperands
  <2>6. mem = After(UntouchedMem, Stores(Call, 1))
    BY <2>4 DEF WrittenOnce
  <2>7. CASE Call.op \in DirectOps
    <3>1. HoldsComputed(Call, Stores(Call, 1), y)
      BY <2>2, <2>7, DirectComputes
    <3>2. PICK k \in DOMAIN Stores(Call, 1) : Stores(Call, 1)[k].at = At(Dst(Call), y)
      BY <3>1 DEF HoldsComputed
    <3>3. PICK j \in DOMAIN Stores(Call, 1) :
            /\ Stores(Call, 1)[j].at = At(Dst(Call), y)
            /\ Held(mem, At(Dst(Call), y)) = Stores(Call, 1)[j].val
      BY <2>6, <3>2, StoredHolds
    <3> QED BY <3>1, <3>3 DEF HoldsComputed, Now
  <2>8. CASE Call.op \notin DirectOps
    <3>1. MetaOK(Dst(Call))
      <4>1. AllMetaOK(Call)
        BY <2>2, <2>8, LogicalMeta
      <4> QED BY <2>4, <2>5, <4>1 DEF AllMetaOK, ViewsOf
    <3>2. Stores(Call, 1) = WriteLogical(Dst(Call), LogicalOutput(Call))
      <4>1. Stores(Call, 1) = WriteLogical(Call.out[1], LogicalOutputs(Call)[1])
        BY <2>3, <2>8 DEF Stores, DirectOps
      <4>2. LogicalOutputs(Call)[1] = LogicalOutput(Call)
        BY <2>3 DEF LogicalOutputs
      <4> QED BY <2>5, <4>1, <4>2
    <3>3. PICK l \in Linears(Dst(Call)) :
            /\ Coordinates(Dst(Call).shape, l) \in SameAddress(Dst(Call), y)
            /\ Now(At(Dst(Call), y)) = LogicalOutput(Call)[l]
      BY <2>5, <2>6, <3>1, <3>2, AddressHolds DEF Now
    <3>4. ComputedValue(Call, Coordinates(Dst(Call).shape, l), LogicalOutput(Call)[l])
      BY <2>2, <2>8, LogicalComputes
    <3> QED BY <3>3, <3>4
  <2> QED BY <2>7, <2>8
<1> QED BY <1>1, Invariance, WrittenOnceHolds, PTL
=============================================================================
