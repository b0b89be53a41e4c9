-------------------------- MODULE WorkGroupsProofs --------------------------
(***************************************************************************)
(* Lemmas about the work-group arithmetic of OpenCL_driver.c, for ranges   *)
(* of any size.                                                            *)
(***************************************************************************)
EXTENDS WorkGroups, TLAPS

(* The product of two naturals is a natural, and grows with its factors.    *)
LEMMA ProductMonotone ==
  ASSUME NEW a \in Nat, NEW b \in Nat, NEW c \in Nat, a <= b
  PROVE  a * c \in Nat /\ a * c <= b * c
OBVIOUS

(* The last group of a range is in front of its size: row-major positions   *)
(* of a range are the numbers below the product of its sides.               *)
LEMMA IndexBound ==
  ASSUME NEW id \in Ids, NEW max \in Sizes, Inside(id, max)
  PROVE  Index(id, max) \in Nat /\ Index(id, max) < Product(max)
<1> DEFINE x == id[1]  y == id[2]  z == id[3]
           mx == max[1]  my == max[2]  mz == max[3]
<1>1. /\ x \in Nat /\ y \in Nat /\ z \in Nat
      /\ mx \in Nat /\ my \in Nat /\ mz \in Nat
      /\ x < mx /\ y < my /\ z < mz
  BY DEF Ids, Sizes, Inside
<1> HIDE DEF x, y, z, mx, my, mz
<1>2. mx * y + mx <= mx * my
  <2>1. (y + 1) * mx <= my * mx
    BY <1>1, y + 1 <= my, y + 1 \in Nat, ProductMonotone
  <2> QED BY <2>1, <1>1
<1>3. (mx * my) * z + mx * my <= (mx * my) * mz
  <2>1. mx * my \in Nat
    BY <1>1, ProductMonotone
  <2>2. (z + 1) * (mx * my) <= mz * (mx * my)
    BY <1>1, <2>1, z + 1 <= mz, z + 1 \in Nat, ProductMonotone
  <2> QED BY <2>1, <2>2, <1>1
<1>4. mx * y \in Nat /\ (mx * my) * z \in Nat /\ mx * my \in Nat
  BY <1>1, ProductMonotone
<1>5. x + mx * y + mx * my * z < mx * my * mz
  BY <1>1, <1>2, <1>3, <1>4
<1> QED BY <1>1, <1>4, <1>5 DEF Index, Product, x, y, z, mx, my, mz

(* The carries of increment_wg_id keep the row-major position counting up.  *)
LEMMA CarryX ==
  ASSUME NEW mx \in Int, NEW my \in Int, NEW y \in Int, NEW z \in Int
  PROVE  0 + mx * (y + 1) + mx * my * z = (mx - 1) + mx * y + mx * my * z + 1
OBVIOUS

LEMMA CarryY ==
  ASSUME NEW mx \in Int, NEW my \in Int, NEW z \in Int
  PROVE  0 + mx * 0 + mx * my * (z + 1)
           = (mx - 1) + mx * (my - 1) + mx * my * z + 1
OBVIOUS

(* increment_wg_id moves to the next group in row-major order, unless the   *)
(* group is the last one.                                                   *)
LEMMA NextIdAdvances ==
  ASSUME NEW id \in Ids, NEW max \in Sizes, Inside(id, max),
         Index(id, max) + 1 < Product(max)
  PROVE  /\ NextId(id, max) \in Ids
         /\ Inside(NextId(id, max), max)
         /\ Index(NextId(id, max), max) = Index(id, max) + 1
<1> DEFINE x == id[1]  y == id[2]  z == id[3]
           mx == max[1]  my == max[2]  mz == max[3]
           next == NextId(id, max)
           here == x + mx * y + mx * my * z
<1>1. /\ x \in Nat /\ y \in Nat /\ z \in Nat
      /\ mx \in Nat \ {0} /\ my \in Nat \ {0} /\ mz \in Nat \ {0}
      /\ x < mx /\ y < my /\ z < mz
  BY DEF Ids, Sizes, Inside
<1>2. here + 1 < mx * my * mz
  BY DEF Index, Product
<1>3. next = IF x < mx - 1 THEN <<x + 1, y, z>>
             ELSE IF y < my - 1 THEN <<0, y + 1, z>>
             ELSE <<0, 0, IF z < mz - 1 THEN z + 1 ELSE z>>
  BY DEF NextId
<1>4. SUFFICES \E a \in Nat, b \in Nat, c \in Nat :
                 /\ next = <<a, b, c>>
                 /\ a < mx /\ b < my /\ c < mz
                 /\ a + mx * b + mx * my * c = here + 1
  BY DEF Ids, Inside, Index
<1> HIDE DEF x, y, z, mx, my, mz, next
<1>5. CASE x < mx - 1
  <2>1. (x + 1) + mx * y + mx * my * z = here + 1
    BY <1>1
  <2> QED BY <2>1, <1>1, <1>3, <1>5
<1>6. CASE ~(x < mx - 1) /\ y < my - 1
  <2>1. x = mx - 1
    BY <1>1, <1>6
  <2>2. 0 + mx * (y + 1) + mx * my * z = here + 1
    BY <2>1, <1>1, CarryX
  <2> QED BY <2>2, <1>1, <1>3, <1>6
<1>7. CASE ~(x < mx - 1) /\ ~(y < my - 1)
  <2>1. x = mx - 1 /\ y = my - 1
    BY <1>1, <1>7
  <2>2. 0 + mx * 0 + mx * my * (z + 1) = here + 1
    BY <2>1, <1>1, CarryY
  <2>3. z < mz - 1
    BY <2>2, <1>1, <1>2
  <2> QED BY <2>2, <2>3, <1>1, <1>3, <1>7
<1> QED BY <1>5, <1>6, <1>7

(* increment_wg_id yields a group id whatever it is given.                  *)
LEMMA NextIdType ==
  ASSUME NEW id \in Ids, NEW max \in Ids
  PROVE  NextId(id, max) \in Ids
BY DEF NextId, Ids

(* Wrapping never makes a natural larger: an overflowing product can make   *)
(* the driver issue too few groups, never too many.                         *)
LEMMA WrapBound ==
  ASSUME NEW n \in Nat
  PROVE  Wrap(n) \in Int /\ Wrap(n) <= n
<1> DEFINE size == 2 * IntMax + 2
<1>1. IntMax \in Nat /\ size \in Nat \ {0}
  BY IntMaxAssumption
<1>2. CASE n <= IntMax
  BY <1>1, <1>2 DEF Wrap
<1>3. CASE ~(n <= IntMax)
  <2>1. (n + IntMax + 1) % size \in 0..(size - 1)
    <3> HIDE DEF size
    <3> QED BY <1>1
  <2>2. Wrap(n) = ((n + IntMax + 1) % size) - (IntMax + 1)
    BY <1>1, <1>3 DEF Wrap
  <2> HIDE DEF Wrap
  <2>3. Wrap(n) <= IntMax /\ Wrap(n) \in Int
    BY <2>1, <2>2, <1>1
  <2> QED BY <2>3, <1>1, <1>3
<1> QED BY <1>2, <1>3

LEMMA ProductPositive ==
  ASSUME NEW a \in Nat \ {0}, NEW b \in Nat \ {0}
  PROVE  a * b \in Nat \ {0}
OBVIOUS

(* A quotient without remainder, and the bound a quotient takes from its    *)
(* dividend.                                                                *)
LEMMA ExactQuotient ==
  ASSUME NEW n \in Nat \ {0}, NEW d \in Nat \ {0}, n % d = 0
  PROVE  n \div d \in Nat \ {0} /\ n = (n \div d) * d
<1>1. n \div d \in Int /\ n = (n \div d) * d + (n % d)
  OBVIOUS
<1> DEFINE q == n \div d
<1>2. q \in Int /\ n = q * d
  BY <1>1
<1> HIDE DEF q
<1>3. q > 0
  <2> SUFFICES ASSUME q <= 0 PROVE FALSE
    BY <1>2
  <2>1. q * d <= 0
    BY <1>2
  <2> QED BY <2>1, <1>2
<1> QED BY <1>2, <1>3 DEF q

LEMMA QuotientBound ==
  ASSUME NEW n \in Int, NEW d \in Nat \ {0}, NEW b \in Int, n <= b * d
  PROVE  n \div d \in Int /\ n \div d <= b
<1> DEFINE q == n \div d
<1>1. q \in Int /\ q * d <= n
  OBVIOUS
<1> HIDE DEF q
<1>2. q <= b
  <2> SUFFICES ASSUME q >= b + 1 PROVE FALSE
    BY <1>1
  <2>1. (q - b) * d >= d
    BY <1>1
  <2>2. (q - b) * d = q * d - b * d
    BY <1>1
  <2> QED BY <2>1, <2>2, <1>1
<1> QED BY <1>1, <1>2 DEF q

(* What launchWgs issues from a group on is not more than what row-major    *)
(* order has left.                                                          *)
LEMMA PartialFits ==
  ASSUME NEW id \in Ids, NEW max \in Sizes, Inside(id, max)
  PROVE  /\ PartialTotal(id, max) \in Int
         /\ Index(id, max) + PartialTotal(id, max) <= Product(max)
<1> DEFINE x == id[1]  y == id[2]  z == id[3]
           a == max[1] - id[1]  b == max[2] - id[2]  c == max[3] - id[3]
<1>1. /\ x \in Nat /\ y \in Nat /\ z \in Nat
      /\ a \in Nat \ {0} /\ b \in Nat \ {0} /\ c \in Nat \ {0}
      /\ max[1] = x + a /\ max[2] = y + b /\ max[3] = z + c
  BY DEF Ids, Sizes, Inside
<1>2. /\ PartialTotal(id, max) = Wrap(a * b * c)
      /\ Index(id, max) = x + (x + a) * y + (x + a) * (y + b) * z
      /\ Product(max) = (x + a) * (y + b) * (z + c)
  BY <1>1 DEF PartialTotal, Index, Product
<1> HIDE DEF x, y, z, a, b, c
<1>3. a * b * c \in Nat
  <2>1. a * b \in Nat
    BY <1>1, ProductMonotone
  <2> QED BY <2>1, <1>1, ProductMonotone
<1>4. x + (x + a) * y + (x + a) * (y + b) * z + a * b * c
        <= (x + a) * (y + b) * (z + c)
  <2> DEFINE m == x + a  p == y + b  r == b * c  s == p * c
  <2>1. m \in Nat /\ p \in Nat /\ r \in Nat /\ s \in Nat
    BY <1>1, ProductMonotone
  <2>2. y <= y * c /\ y * c \in Nat
    <3>1. 1 * y <= c * y
      BY <1>1, 1 \in Nat, 1 <= c, ProductMonotone
    <3> QED BY <3>1, <1>1
  <2>3. s = y * c + r
    BY <1>1
  <2>4. 1 <= r
    <3>1. 1 * c <= b * c
      BY <1>1, 1 \in Nat, 1 <= b, ProductMonotone
    <3> QED BY <3>1, <1>1
  <2>5. m * p * (z + c) = m * p * z + m * s
    BY <1>1, <2>1
  <2> HIDE DEF m, p, r, s
  <2>6. m * (y + r) <= m * s
    <3>1. y + r <= s /\ y + r \in Nat
      BY <2>1, <2>2, <2>3, <1>1
    <3>2. (y + r) * m <= s * m
      BY <3>1, <2>1, ProductMonotone
    <3> QED BY <3>2, <2>1, <1>1
  <2>7. m * (y + r) = m * y + m * r
    BY <2>1, <1>1
  <2>8. x + a * r <= m * r
    <3>1. x * 1 <= x * r /\ x * r \in Nat
      <4>1. 1 * x <= r * x
        BY <2>1, <2>4, <1>1, 1 \in Nat, ProductMonotone
      <4> QED BY <4>1, <2>1, <1>1
    <3>2. m * r = x * r + a * r
      BY <2>1, <1>1 DEF m
    <3> QED BY <3>1, <3>2, <2>1, <1>1
  <2>9. x + m * y + m * p * z + a * r <= m * p * (z + c)
    <3>1. /\ m * y \in Nat /\ m * r \in Nat /\ a * r \in Nat /\ m * s \in Nat
          /\ m * p * z \in Nat
      <4>1. m * p \in Nat
        BY <2>1, ProductMonotone
      <4> QED BY <4>1, <2>1, <1>1, ProductMonotone
    <3> QED BY <3>1, <2>5, <2>6, <2>7, <2>8, <1>1
  <2>10. a * r = a * b * c
    BY <1>1 DEF r
  <2> QED BY <2>9, <2>10 DEF m, p
<1> QED BY <1>1, <1>2, <1>3, <1>4, WrapBound

(* For a range the group size divides, launchKernel issues no more groups   *)
(* than the range has.                                                      *)
LEMMA WholeFits ==
  ASSUME NEW nd \in Sizes, NEW wg \in Sizes, Divides(nd, wg)
  PROVE  /\ MaxOf(nd, wg) \in Sizes
         /\ TotalOf(nd, wg) \in Int
         /\ TotalOf(nd, wg) <= Product(MaxOf(nd, wg))
<1> DEFINE W == Product(wg)  P == Product(MaxOf(nd, wg))  N == Product(nd)
           p1 == nd[1] \div wg[1]  p2 == nd[2] \div wg[2]  p3 == nd[3] \div wg[3]
<1>1. /\ nd[1] \in Nat \ {0} /\ nd[2] \in Nat \ {0} /\ nd[3] \in Nat \ {0}
      /\ wg[1] \in Nat \ {0} /\ wg[2] \in Nat \ {0} /\ wg[3] \in Nat \ {0}
  BY DEF Sizes
<1>2. /\ p1 \in Nat \ {0} /\ nd[1] = p1 * wg[1]
      /\ p2 \in Nat \ {0} /\ nd[2] = p2 * wg[2]
      /\ p3 \in Nat \ {0} /\ nd[3] = p3 * wg[3]
  <2>1. nd[1] % wg[1] = 0 /\ nd[2] % wg[2] = 0 /\ nd[3] % wg[3] = 0
    BY DEF Divides
  <2> QED BY <2>1, <1>1, ExactQuotient
<1>3. MaxOf(nd, wg) = <<p1, p2, p3>>
  BY DEF MaxOf
<1>4. W = wg[1] * wg[2] * wg[3] /\ P = p1 * p2 * p3 /\ N = nd[1] * nd[2] * nd[3]
  BY <1>3 DEF Product
<1> HIDE DEF p1, p2, p3, W, P, N
<1>5. N = P * W
  BY <1>1, <1>2, <1>4
<1>6. W \in Nat \ {0} /\ P \in Nat /\ N \in Nat
  <2>1. /\ wg[1] * wg[2] \in Nat \ {0} /\ p1 * p2 \in Nat
        /\ nd[1] * nd[2] \in Nat
    BY <1>1, <1>2, ProductPositive, ProductMonotone
  <2> QED BY <2>1, <1>1, <1>2, <1>4, ProductPositive, ProductMonotone
<1>7. Wrap(N) \in Int /\ Wrap(N) <= P * W
  BY <1>5, <1>6, WrapBound
<1>8. Wrap(N) \div W \in Int /\ Wrap(N) \div W <= P
  BY <1>6, <1>7, QuotientBound
<1> QED BY <1>2, <1>3, <1>8 DEF TotalOf, Sizes, W, P, N

=============================================================================
