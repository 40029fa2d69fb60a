---------------------------- MODULE PagingProofs ----------------------------
(***************************************************************************)
(* Proof, for every memory map, page size, table size and pair of user     *)
(* pages, that the system calls accept exactly the ranges in a task's own  *)
(* code and stack page and that no frame serves two purposes (Paging).     *)
(* PagingInv is inductive: from the root of every address space one path   *)
(* of tables leads to its code page and one to its stack page, and no      *)
(* other entry of the user's half leads anywhere.                          *)
(***************************************************************************)
EXTENDS Paging, WellFoundedInduction, NaturalsInduction, TLAPS

-----------------------------------------------------------------------------
(* Numbers *)

\* A set of numbers that is not empty has a least one.
LEMMA LeastNat ==
    ASSUME NEW T, T \subseteq Nat, T # {}
    PROVE  Min(T) \in T /\ \A y \in T : Min(T) <= y
<1>1. IsWellFoundedOn(OpToRel(<, Nat), Nat)
  BY NatLessThanWellFounded, Zenon
<1>2. PICK x \in T : \A y \in T : <<y, x>> \notin OpToRel(<, Nat)
  BY <1>1, WFMin, Zenon
<1>3. \A y \in T : x <= y
  <2> SUFFICES ASSUME NEW y \in T PROVE x <= y
    BY Zenon
  <2>1. x \in Nat /\ y \in Nat
    BY Zenon
  <2>2. ~(y < x)
    BY <1>2, <2>1, Zenon DEF OpToRel
  <2> QED
    BY <2>1, <2>2
<1> QED
  BY <1>3, Zenon DEF Min

\* Dividing by a number that is not zero.
LEMMA Divided ==
    ASSUME NEW n \in Nat, NEW s \in Nat \ {0}
    PROVE  n = (s * (n \div s)) + (n % s) /\ n % s \in 0 .. s - 1 /\ n \div s \in Nat
  OBVIOUS

\* Products grow with their factors.
LEMMA Product ==
    ASSUME NEW r \in Nat, NEW q \in Nat, NEW s \in Nat, r <= q
    PROVE  r * s \in Nat /\ q * s \in Nat /\ r * s <= q * s
  OBVIOUS

\* One factor more is one term more.
LEMMA ProductNext ==
    ASSUME NEW r \in Nat, NEW s \in Nat
    PROVE  (r + 1) * s = (r * s) + s
  OBVIOUS

\* Dividing, the quotient first.
LEMMA DividedBy ==
    ASSUME NEW n \in Nat, NEW s \in Nat \ {0}
    PROVE  n = ((n \div s) * s) + (n % s) /\ n % s \in 0 .. s - 1 /\ n \div s \in Nat
<1> DEFINE d == n \div s
<1>1. n = (s * d) + (n % s) /\ n % s \in 0 .. s - 1 /\ d \in Nat
  BY Divided, Zenon
<1> HIDE DEF d
<1>2. s * d = d * s
  BY <1>1
<1> QED
  BY <1>1, <1>2, Zenon DEF d

-----------------------------------------------------------------------------
(* The entries of a page, the pages of a range, the largest region *)

\* Quotient and remainder are the only ones.
LEMMA QuotientIs ==
    ASSUME NEW s \in Nat \ {0}, NEW q \in Nat, NEW r \in 0 .. s - 1, NEW n \in Nat, n = (q * s) + r
    PROVE  n \div s = q /\ n % s = r
<1> DEFINE d == n \div s
           e == n % s
<1>1. d \in Nat /\ e \in 0 .. s - 1 /\ n = (d * s) + e
  BY DividedBy, Zenon
<1> HIDE DEF d, e
<1>2. q * s \in Nat /\ d * s \in Nat
  BY <1>1, Product
<1>3. ~(d < q)
  <2> SUFFICES ASSUME d < q PROVE FALSE
    OBVIOUS
  <2>1. d + 1 <= q /\ d + 1 \in Nat
    BY <1>1
  <2>2. (d + 1) * s <= q * s /\ (d + 1) * s = (d * s) + s
    BY <1>1, <2>1, Product, ProductNext
  <2> QED
    BY <1>1, <1>2, <2>2
<1>4. ~(q < d)
  <2> SUFFICES ASSUME q < d PROVE FALSE
    OBVIOUS
  <2>1. q + 1 <= d /\ q + 1 \in Nat
    BY <1>1
  <2>2. (q + 1) * s <= d * s /\ (q + 1) * s = (q * s) + s
    BY <1>1, <2>1, Product, ProductNext
  <2> QED
    BY <1>1, <1>2, <2>2
<1>5. d = q
  BY <1>1, <1>3, <1>4
<1>6. e = r
  BY <1>1, <1>2, <1>5
<1> QED
  BY <1>5, <1>6 DEF d, e

\* Dividing twice is dividing by the product.
LEMMA DividedTwice ==
    ASSUME NEW n \in Nat, NEW s \in Nat \ {0}, NEW t \in Nat \ {0}
    PROVE  n \div (s * t) = (n \div t) \div s
<1> DEFINE q1 == n \div t
           r1 == n % t
           q2 == q1 \div s
           r2 == q1 % s
<1>1. n = (q1 * t) + r1 /\ r1 \in 0 .. t - 1 /\ q1 \in Nat
  BY DividedBy, Zenon
<1>2. q1 = (q2 * s) + r2 /\ r2 \in 0 .. s - 1 /\ q2 \in Nat
  BY <1>1, DividedBy, Zenon
<1> HIDE DEF q1, q2, r1, r2
<1>3. q1 * t = ((q2 * s) * t) + (r2 * t) /\ (q2 * s) * t = q2 * (s * t)
  BY <1>1, <1>2
<1>4. n = (q2 * (s * t)) + ((r2 * t) + r1) /\ s * t \in Nat /\ r2 * t \in Nat /\ q2 * (s * t) \in Nat
  BY <1>1, <1>2, <1>3
<1>5. (r2 * t) + r1 \in 0 .. (s * t) - 1
  <2>1. r2 \in Nat /\ r2 + 1 \in Nat /\ r2 + 1 <= s
    BY <1>2
  <2>2. (r2 + 1) * t <= s * t /\ (r2 + 1) * t = (r2 * t) + t
    BY <2>1, Product, ProductNext
  <2> QED
    BY <1>1, <1>4, <2>2
<1>6. s * t # 0
  BY <1>4, <1>5
<1>7. n \div (s * t) = q2
  <2> DEFINE u == s * t
             v == (r2 * t) + r1
  <2>1. u \in Nat \ {0} /\ v \in 0 .. u - 1 /\ n = (q2 * u) + v
    BY <1>4, <1>5, <1>6
  <2> HIDE DEF u, v
  <2>2. n \div u = q2
    BY <1>2, <2>1, QuotientIs
  <2> QED
    BY <2>2 DEF u
<1> QED
  BY <1>7 DEF q1, q2

\* The four entries tell the pages of a root apart.
LEMMA EntriesTellPages ==
    ASSUME NEW x \in 0 .. PagesPerRoot - 1, NEW y \in 0 .. PagesPerRoot - 1,
           pml4_idx(x) = pml4_idx(y), pdpt_idx(x) = pdpt_idx(y),
           pd_idx(x) = pd_idx(y), pt_idx(x) = pt_idx(y)
    PROVE  x = y
<1> DEFINE F == Fanout
<1>0. F \in Nat \ {0} /\ F * F \in Nat \ {0} /\ F * F * F \in Nat \ {0} /\ PagesPerRoot \in Nat
  <2>1. Fanout \in Nat \ {0}
    BY PagingConstants
  <2>2. F * F \in Nat \ {0}
    BY <2>1
  <2>3. F * F * F \in Nat \ {0}
    BY <2>1, <2>2
  <2>4. PagesPerRoot = (F * F * F) * F
    BY DEF PagesPerRoot
  <2>5. PagesPerRoot \in Nat
    BY <2>1, <2>3, <2>4
  <2> QED
    BY <2>1, <2>2, <2>3, <2>5, Zenon
<1>1. ASSUME NEW z \in 0 .. PagesPerRoot - 1
      PROVE  /\ z \in Nat /\ z \div F \in Nat /\ z \div (F * F) \in Nat /\ z \div (F * F * F) \in Nat
             /\ z = (F * (z \div F)) + pt_idx(z)
             /\ z \div F = (F * (z \div (F * F))) + pd_idx(z)
             /\ z \div (F * F) = (F * (z \div (F * F * F))) + pdpt_idx(z)
             /\ z \div (F * F * F) = pml4_idx(z)
  <2>1. z \in Nat
    BY <1>0
  <2>2. z \div (F * F) = (z \div F) \div F
    BY <1>0, <2>1, DividedTwice, Zenon
  <2>3. z \div (F * F * F) = (z \div (F * F)) \div F
    <3> DEFINE G == F * F
    <3>1. F * F * F = F * G /\ G \in Nat \ {0}
      BY <1>0
    <3> HIDE DEF G
    <3>2. z \div (F * G) = (z \div G) \div F
      BY <1>0, <2>1, <3>1, DividedTwice, Zenon
    <3> QED
      BY <3>1, <3>2 DEF G
  <2>4. z \div F \in Nat /\ z = (F * (z \div F)) + (z % F)
    BY <1>0, <2>1, Divided
  <2>5. z \div (F * F) \in Nat /\ z \div F = (F * (z \div (F * F))) + ((z \div F) % F)
    BY <1>0, <2>2, <2>4, Divided, Zenon
  <2>6. z \div (F * F * F) \in Nat /\ z \div (F * F) = (F * (z \div (F * F * F))) + ((z \div (F * F)) % F)
    BY <1>0, <2>3, <2>5, Divided, Zenon
  <2>7. (z \div (F * F * F)) % F = z \div (F * F * F)
    <3> DEFINE C == F * F * F
               w == z \div C
    <3>1. w \in Nat /\ z = (C * w) + (z % C) /\ z % C \in 0 .. C - 1
      BY <1>0, <2>1, Divided, Zenon
    <3>2. z < C * F /\ C \in Nat \ {0} /\ F \in Nat \ {0}
      BY <1>0 DEF PagesPerRoot
    <3> HIDE DEF C, w, F
    <3>3. w * C \in Nat /\ w * C <= z /\ z < F * C
      BY <2>1, <3>1, <3>2
    <3>4. w < F
      <4> SUFFICES ASSUME F <= w PROVE FALSE
        BY <3>1, <3>2
      <4>1. F * C <= w * C /\ F * C \in Nat
        BY <3>1, <3>2, Product
      <4> QED
        BY <2>1, <3>3, <4>1
    <3>5. w % F = w
      BY <3>1, <3>2, <3>4
    <3> QED
      BY <3>5 DEF w, C
  <2> QED
    BY <2>1, <2>4, <2>5, <2>6, <2>7, Zenon DEF pml4_idx, pdpt_idx, pd_idx, pt_idx
<1>2. x \div (F * F * F) = y \div (F * F * F)
  BY <1>1, Zenon
<1>3. x \div (F * F) = y \div (F * F)
  BY <1>1, <1>2, Zenon
<1>4. x \div F = y \div F
  BY <1>1, <1>3, Zenon
<1> QED
  BY <1>1, <1>4, Zenon

\* The entries of a page are entries of a table; the root's entry of a user
\* page is in the half that is not the kernel's.
LEMMA EntryRange ==
    ASSUME NEW x \in UserPages
    PROVE  /\ x \in 0 .. PagesPerRoot - 1 /\ x \in Nat
           /\ pml4_idx(x) \in 0 .. Fanout - 1 /\ pdpt_idx(x) \in 0 .. Fanout - 1
           /\ pd_idx(x) \in 0 .. Fanout - 1 /\ pt_idx(x) \in 0 .. Fanout - 1
           /\ pml4_idx(x) < Fanout \div 2
<1> DEFINE F == Fanout
           C == F * F * F
           h == F \div 2
<1>0. F \in Nat \ {0} /\ F % 2 = 0
  BY PagingConstants
<1>1. F * F \in Nat \ {0}
  BY <1>0
<1>2. C \in Nat \ {0}
  BY <1>0, <1>1
<1>3. PagesPerRoot = C * F
  BY DEF PagesPerRoot
<1>4. h \in Nat /\ F = 2 * h
  BY <1>0
<1> HIDE DEF C, h
<1>5. C * F = 2 * (C * h) /\ C * h \in Nat /\ h * C = C * h
  BY <1>2, <1>4
<1>6. PagesPerRoot \div 2 = C * h /\ PagesPerRoot \in Nat /\ C * h <= PagesPerRoot
  BY <1>3, <1>5
<1>7. x \in Nat /\ x < C * h /\ x \in 0 .. PagesPerRoot - 1
  BY <1>5, <1>6 DEF UserPages
<1> DEFINE w == x \div C
<1>8. w \in Nat /\ x = (w * C) + (x % C) /\ x % C \in 0 .. C - 1
  BY <1>2, <1>7, DividedBy, Zenon
<1> HIDE DEF w
<1>9. w * C \in Nat /\ w * C <= x
  BY <1>2, <1>8, <1>7, Product
<1>10. w < h
  <2> SUFFICES ASSUME h <= w PROVE FALSE
    BY <1>4, <1>8
  <2>1. h * C <= w * C
    BY <1>2, <1>4, <1>8, Product
  <2> QED
    BY <1>5, <1>7, <1>9, <2>1
<1>11. w % F = w
  BY <1>0, <1>4, <1>8, <1>10
<1>12. pml4_idx(x) = w
  BY <1>11 DEF pml4_idx, w, C
<1>13. pml4_idx(x) \in 0 .. F - 1 /\ pml4_idx(x) < h
  BY <1>0, <1>4, <1>8, <1>10, <1>12
<1>14. pt_idx(x) \in 0 .. F - 1
  BY <1>0, <1>7, Divided DEF pt_idx
<1>15. pd_idx(x) \in 0 .. F - 1
  <2>1. x \div F \in Nat
    BY <1>0, <1>7, Divided, SMTT(30)
  <2> QED
    BY <1>0, <2>1, Divided, Zenon DEF pd_idx
<1>16. pdpt_idx(x) \in 0 .. F - 1
  <2>1. x \div (F * F) \in Nat
    BY <1>1, <1>7, Divided
  <2> QED
    BY <1>0, <2>1, Divided, ZenonT(60) DEF pdpt_idx
<1> QED
  BY <1>7, <1>13, <1>14, <1>15, <1>16 DEF h

\* The pages of a range are the pages of its bytes.
LEMMA RangePages ==
    ASSUME NEW start \in Nat, NEW len \in Nat \ {0}, NEW P
    PROVE  (\A byte \in start .. start + len - 1 : byte \div PAGE_SIZE \in P) <=>
           (\A page \in start \div PAGE_SIZE .. LastPage(start + len) : page \in P)
<1> DEFINE s == PAGE_SIZE
           last == start + len - 1
           first == start \div s
           end == last \div s
<1>0. s \in Nat \ {0} /\ last \in Nat /\ start <= last
  BY PagingConstants
<1>a. LastPage(start + len) = end
  BY DEF LastPage
<1>1. /\ first \in Nat /\ start = (first * s) + (start % s) /\ start % s \in 0 .. s - 1
      /\ end \in Nat /\ last = (end * s) + (last % s) /\ last % s \in 0 .. s - 1
  BY <1>0, DividedBy, Zenon
<1>2. ASSUME NEW byte \in start .. last PROVE byte \div s \in first .. end
  <2> DEFINE q == byte \div s
  <2>0. byte \in Nat
    BY <1>0
  <2>1. q \in Nat /\ byte = (q * s) + (byte % s) /\ byte % s \in 0 .. s - 1
    BY <1>0, <2>0, DividedBy, Zenon
  <2> HIDE DEF q, first, end
  <2>2. q * s \in Nat /\ first * s \in Nat /\ end * s \in Nat
    BY <1>0, <1>1, <2>1, Product
  <2>3. ~(q < first)
    <3> SUFFICES ASSUME q < first PROVE FALSE
      OBVIOUS
    <3>1. q + 1 <= first /\ q + 1 \in Nat
      BY <1>1, <2>1
    <3>2. (q + 1) * s <= first * s /\ (q + 1) * s = (q * s) + s
      BY <1>0, <1>1, <2>1, <3>1, Product, ProductNext
    <3> QED
      BY <1>0, <1>1, <2>1, <2>2, <3>2
  <2>4. ~(end < q)
    <3> SUFFICES ASSUME end < q PROVE FALSE
      OBVIOUS
    <3>1. end + 1 <= q /\ end + 1 \in Nat
      BY <1>1, <2>1
    <3>2. (end + 1) * s <= q * s /\ (end + 1) * s = (end * s) + s
      BY <1>0, <1>1, <2>1, <3>1, Product, ProductNext
    <3> QED
      BY <1>0, <1>1, <2>1, <2>2, <3>2
  <2> QED
    BY <1>1, <2>1, <2>3, <2>4 DEF q
<1>3. ASSUME NEW page \in first .. end PROVE \E byte \in start .. last : byte \div s = page
  <2> HIDE DEF first, end
  <2>1. page \in Nat /\ first <= page /\ page <= end
    BY <1>1
  <2>2. page * s \in Nat /\ first * s \in Nat /\ end * s \in Nat /\ page * s <= end * s
    BY <1>0, <1>1, <2>1, Product
  <2>3. CASE page = first
    BY <1>0, <2>3 DEF first
  <2>4. CASE page # first
    <3>1. first + 1 <= page /\ first + 1 \in Nat
      BY <1>1, <2>1, <2>4
    <3>2. (first + 1) * s <= page * s /\ (first + 1) * s = (first * s) + s
      BY <1>0, <1>1, <2>1, <3>1, Product, ProductNext
    <3>3. page * s \in start .. last
      BY <1>0, <1>1, <2>2, <3>2
    <3> DEFINE b == page * s
    <3>4. b = (page * s) + 0 /\ 0 \in 0 .. s - 1 /\ b \in Nat
      BY <1>0, <2>2
    <3> HIDE DEF b
    <3>5. b \div s = page
      BY <1>0, <2>1, <3>4, QuotientIs
    <3> QED
      BY <3>3, <3>5 DEF b
  <2> QED
    BY <2>3, <2>4
<1> HIDE DEF first, end
<1>4. (\A byte \in start .. last : byte \div s \in P) <=> (\A page \in first .. end : page \in P)
  BY <1>2, <1>3, Zenon
<1> QED
  BY <1>4, <1>a, Zenon DEF first

\* A byte of a user page lies below the bound.
LEMMA UserByte ==
    ASSUME NEW n \in Nat
    PROVE  n \div PAGE_SIZE \in UserPages <=> n + 1 <= USER_SPACE_UPPER_BOUND + 1
<1> DEFINE s == PAGE_SIZE
           H == PagesPerRoot \div 2
           q == n \div s
<1>0. s \in Nat \ {0} /\ H \in Nat
  <2>1. Fanout \in Nat /\ s \in Nat \ {0}
    BY PagingConstants
  <2>2. Fanout * Fanout \in Nat
    BY <2>1
  <2>3. Fanout * Fanout * Fanout \in Nat
    BY <2>1, <2>2
  <2>4. PagesPerRoot \in Nat
    BY <2>1, <2>3 DEF PagesPerRoot
  <2> QED
    BY <2>1, <2>4
<1>1. q \in Nat /\ n = (q * s) + (n % s) /\ n % s \in 0 .. s - 1
  BY <1>0, DividedBy, Zenon
<1>a. UserPages = 0 .. H - 1 /\ USER_SPACE_UPPER_BOUND = (H * s) - 1
  BY DEF UserPages, USER_SPACE_UPPER_BOUND
<1> HIDE DEF H, q
<1>2. q * s \in Nat /\ H * s \in Nat
  BY <1>0, <1>1, Product
<1>3. USER_SPACE_UPPER_BOUND + 1 = H * s
  BY <1>2, <1>a
<1>4. CASE q < H
  <2>1. q + 1 <= H /\ q + 1 \in Nat
    BY <1>0, <1>1, <1>4
  <2>2. (q + 1) * s <= H * s /\ (q + 1) * s = (q * s) + s
    BY <1>0, <1>1, <2>1, Product, ProductNext
  <2>3. n + 1 <= H * s
    BY <1>0, <1>1, <1>2, <2>2
  <2>4. q \in UserPages
    BY <1>0, <1>1, <1>4, <1>a
  <2> QED
    BY <1>3, <2>3, <2>4 DEF q
<1>5. CASE H <= q
  <2>1. H * s <= q * s
    BY <1>0, <1>1, <1>5, Product
  <2>2. ~(n + 1 <= H * s)
    BY <1>0, <1>1, <1>2, <2>1
  <2>3. q \notin UserPages
    BY <1>0, <1>1, <1>5, <1>a
  <2> QED
    BY <1>3, <2>2, <2>3 DEF q
<1> QED
  BY <1>0, <1>1, <1>4, <1>5

\* One turn of the allocator's scan of the memory map.
Better(map, n, best) == IF map[n][2] - map[n][1] > best[2] - best[1] THEN map[n] ELSE best
Scan(map, f, k) == f = [n \in 0 .. k |-> IF n = 0 THEN <<0, 0>> ELSE Better(map, n, f[n - 1])]

\* The scan has a result, for a map of any length.
LEMMA ScanExists ==
    ASSUME NEW map, NEW k \in Nat
    PROVE  \E f : Scan(map, f, k)
<1> DEFINE K == {n \in Nat : ~\E f : Scan(map, f, n)}
<1> SUFFICES ASSUME K # {} PROVE FALSE
  BY Zenon
<1>1. Min(K) \in K /\ \A y \in K : Min(K) <= y
  BY LeastNat, Zenon
<1> DEFINE m == Min(K)
<1>2. m \in Nat /\ ~\E f : Scan(map, f, m)
  BY <1>1, Zenon
<1>3. \A y \in Nat : ~(m <= y) => \E f : Scan(map, f, y)
  BY <1>1, Zenon
<1> HIDE DEF m, K
<1>4. m # 0
  <2> SUFFICES ASSUME m = 0 PROVE FALSE
    OBVIOUS
  <2> DEFINE f == [n \in 0 .. 0 |-> <<0, 0>>]
  <2>1. \A n \in 0 .. 0 : n = 0
    OBVIOUS
  <2>2. f = [n \in 0 .. 0 |-> IF n = 0 THEN <<0, 0>> ELSE Better(map, n, f[n - 1])]
    BY <2>1, Zenon
  <2>3. Scan(map, f, 0)
    BY <2>2, Zenon DEF Scan
  <2> QED
    BY <1>2, <2>3, Zenon
<1>5. m - 1 \in Nat /\ ~(m <= m - 1)
  BY <1>2, <1>4
<1>6. PICK f : Scan(map, f, m - 1)
  BY <1>3, <1>5, Zenon
<1> DEFINE g == [n \in 0 .. m |-> IF n = m THEN Better(map, m, f[m - 1]) ELSE f[n]]
<1>7. \A n \in 0 .. m - 1 : f[n] = IF n = 0 THEN <<0, 0>> ELSE Better(map, n, f[n - 1])
  BY <1>6, Zenon DEF Scan
<1>8. \A n \in 0 .. m : g[n] = IF n = m THEN Better(map, m, f[m - 1]) ELSE f[n]
  BY Zenon
<1>9. \A n \in 0 .. m : /\ n # m => n \in 0 .. m - 1
                        /\ n # 0 => n - 1 \in 0 .. m /\ n - 1 # m
  BY <1>2
<1>10. ASSUME NEW n \in 0 .. m
       PROVE  g[n] = IF n = 0 THEN <<0, 0>> ELSE Better(map, n, g[n - 1])
  <2> HIDE DEF g
  <2>1. CASE n = 0
    BY <1>4, <1>7, <1>8, <1>9, <2>1, Zenon
  <2>2. CASE n # 0
    <3>1. g[n - 1] = f[n - 1]
      BY <1>8, <1>9, <2>2, Zenon
    <3>2. CASE n = m
      BY <1>8, <2>2, <3>1, <3>2, Zenon
    <3>3. CASE n # m
      BY <1>7, <1>8, <1>9, <2>2, <3>1, <3>3, Zenon
    <3> QED
      BY <3>2, <3>3, Zenon
  <2> QED
    BY <2>1, <2>2, Zenon
<1>11. g = [n \in 0 .. m |-> g[n]]
  BY Zenon
<1> HIDE DEF g
<1>12. g = [n \in 0 .. m |-> IF n = 0 THEN <<0, 0>> ELSE Better(map, n, g[n - 1])]
  BY <1>10, <1>11, Zenon
<1>13. Scan(map, g, m)
  BY <1>12, Zenon DEF Scan
<1> QED
  BY <1>2, <1>13, Zenon

\* A difference of numbers is a number.
LEMMA MinusIsInt == ASSUME NEW a \in Nat, NEW b \in Nat PROVE a - b \in Int
  OBVIOUS

\* FrameAllocator::init takes the largest region of the map, if there is one
\* that is not empty.
LEMMA LargestIsRegion ==
    ASSUME NEW map \in Seq(Nat \X Nat)
    PROVE  LET best == LargestRegion(map)
           IN  /\ best \in Nat \X Nat /\ best[1] <= best[2]
               /\ best = <<0, 0>> \/ \E r \in 1 .. Len(map) : best = map[r]
               /\ \A r \in 1 .. Len(map) : map[r][2] - map[r][1] <= best[2] - best[1]
<1> DEFINE L == Len(map)
           pick == CHOOSE f : Scan(map, f, L)
           Good(n) == /\ pick[n] \in Nat \X Nat /\ pick[n][1] <= pick[n][2]
                      /\ pick[n] = <<0, 0>> \/ \E r \in 1 .. n : pick[n] = map[r]
                      /\ \A r \in 1 .. n : map[r][2] - map[r][1] <= pick[n][2] - pick[n][1]
<1>0. L \in Nat /\ \A r \in 1 .. L : map[r] \in Nat \X Nat
  OBVIOUS
<1>1. LargestRegion(map) = pick[L]
  BY Zenon DEF LargestRegion, Scan, Better
<1>2. Scan(map, pick, L)
  BY <1>0, ScanExists, Zenon
<1> HIDE DEF pick
<1>3. \A n \in 0 .. L : pick[n] = IF n = 0 THEN <<0, 0>> ELSE Better(map, n, pick[n - 1])
  BY <1>2, Zenon DEF Scan
<1> DEFINE K == {n \in Nat : n \in 0 .. L /\ ~Good(n)}
<1>4. K = {}
  <2> SUFFICES ASSUME K # {} PROVE FALSE
    OBVIOUS
  <2>1. Min(K) \in K /\ \A y \in K : Min(K) <= y
    BY LeastNat, Zenon
  <2> DEFINE m == Min(K)
  <2>2. m \in Nat /\ m \in 0 .. L /\ ~Good(m) /\ \A y \in Nat : y \in 0 .. L /\ ~(m <= y) => Good(y)
    BY <2>1, Zenon
  <2> HIDE DEF m, K
  <2>3. m # 0
    <3> SUFFICES ASSUME m = 0 PROVE FALSE
      OBVIOUS
    <3>1. pick[0] = <<0, 0>> /\ 1 .. 0 = {}
      BY <1>3, <2>2
    <3>2. <<0, 0>> \in Nat \X Nat /\ <<0, 0>>[1] <= <<0, 0>>[2]
      OBVIOUS
    <3> QED
      BY <2>2, <3>1, <3>2, Zenon
  <2>4. m - 1 \in Nat /\ m - 1 \in 0 .. L /\ ~(m <= m - 1) /\ m \in 1 .. L
    BY <1>0, <2>2, <2>3
  <2> DEFINE b == pick[m - 1]
             c == map[m]
  <2>5. /\ b \in Nat \X Nat /\ b[1] <= b[2]
        /\ b = <<0, 0>> \/ \E r \in 1 .. m - 1 : b = map[r]
        /\ \A r \in 1 .. m - 1 : map[r][2] - map[r][1] <= b[2] - b[1]
    BY <2>2, <2>4, Zenon
  <2>6. pick[m] = IF c[2] - c[1] > b[2] - b[1] THEN c ELSE b
    BY <1>3, <2>2, <2>3, Zenon DEF Better
  <2>7. c \in Nat \X Nat
    BY <1>0, <2>4, Zenon
  <2>8. \A r \in 1 .. m : r \in 1 .. m - 1 \/ r = m
    BY <2>2
  <2>9. 1 .. m - 1 \subseteq 1 .. m /\ m \in 1 .. m
    BY <2>2, <2>3
  <2> HIDE DEF b, c
  <2>10. ASSUME NEW r \in 1 .. m - 1 PROVE map[r] \in Nat \X Nat
    BY <1>0, <2>4
  <2>11. b[1] \in Nat /\ b[2] \in Nat /\ c[1] \in Nat /\ c[2] \in Nat
    BY <2>5, <2>7
  <2>12. CASE c[2] - c[1] > b[2] - b[1]
    <3>1. pick[m] = c /\ c[1] <= c[2]
      BY <2>5, <2>6, <2>11, <2>12
    <3>2. ASSUME NEW r \in 1 .. m - 1 PROVE map[r][2] - map[r][1] <= c[2] - c[1]
      <4>1. map[r][1] \in Nat /\ map[r][2] \in Nat /\ map[r][2] - map[r][1] <= b[2] - b[1]
        BY <2>5, <2>10
      <4> DEFINE u == map[r][2] - map[r][1]
                 v == b[2] - b[1]
                 w == c[2] - c[1]
      <4>2. u \in Int /\ v \in Int /\ w \in Int
        BY <2>11, <4>1, MinusIsInt, Zenon
      <4>3. u <= v /\ w > v
        BY <2>12, <4>1, Zenon
      <4> HIDE DEF u, v, w
      <4>4. u <= w
        BY <4>2, <4>3
      <4> QED
        BY <4>4 DEF u, w
    <3>3. c[2] - c[1] <= c[2] - c[1]
      BY <2>11
    <3>4. \A r \in 1 .. m : map[r][2] - map[r][1] <= c[2] - c[1]
      BY <2>8, <3>2, <3>3, Zenon DEF c
    <3>5. \E r \in 1 .. m : c = map[r]
      BY <2>9, Zenon DEF c
    <3> QED
      BY <2>2, <2>7, <3>1, <3>4, <3>5, Zenon
  <2>13. CASE ~(c[2] - c[1] > b[2] - b[1])
    <3>1. pick[m] = b
      BY <2>6, <2>13, Zenon
    <3>2. c[2] - c[1] <= b[2] - b[1]
      BY <2>11, <2>13, SMTT(30)
    <3>3. \A r \in 1 .. m : map[r][2] - map[r][1] <= b[2] - b[1]
      BY <2>5, <2>8, <3>2, Zenon DEF c
    <3>4. b = <<0, 0>> \/ \E r \in 1 .. m : b = map[r]
      BY <2>5, <2>9, Zenon
    <3> QED
      BY <2>2, <2>5, <3>1, <3>3, <3>4, Zenon
  <2> QED
    BY <2>12, <2>13, Zenon
<1>5. Good(L)
  <2>1. L \in 0 .. L
    BY <1>0
  <2> QED
    BY <1>0, <1>4, <2>1, Zenon
<1> QED
  BY <1>1, <1>5, Zenon

-----------------------------------------------------------------------------
(* Memory that grows from the tables T by the frames from n0 on.           *)

\* The entries of a table; tables; the frames from n0 on are no tables; a
\* memory state as the functions of Paging pass it on.
Entries == 0 .. Fanout - 1

Tables(T) == /\ T = [f \in DOMAIN T |-> T[f]]
             /\ \A f \in DOMAIN T : T[f] = [i \in Entries |-> T[f][i]]

Room(T, n0) == \A g \in Nat : n0 <= g /\ g < usable_end => g \notin DOMAIN T

IsMemory(m) == m = [free |-> m.free, table |-> m.table, failed |-> m.failed]

\* The memory m still has every table of T as it was, and has grown by frames
\* from n0 to m.free only.
Since(T, n0, m) ==
    /\ IsMemory(m) /\ m.failed \in BOOLEAN
    /\ m.free \in Nat /\ n0 <= m.free /\ m.free <= usable_end
    /\ Tables(m.table)
    /\ \A h \in DOMAIN T : h \in DOMAIN m.table /\ m.table[h] = T[h]
    /\ \A g \in DOMAIN m.table : g \in DOMAIN T \/ (g \in Nat /\ n0 <= g /\ g < m.free)

\* n is m with the entry i of f leading to the table g, which is new or was
\* there.
Opened(m, n, f, i, g) ==
    /\ ~n.failed
    /\ \/ m.table[f][i] = UserEntry(g) /\ g \in DOMAIN m.table /\ n.free = m.free
       \/ m.table[f][i] = Absent /\ g \notin DOMAIN m.table /\ g = m.free /\ n.free = m.free + 1
    /\ DOMAIN n.table = DOMAIN m.table \cup {g}
    /\ \A h \in DOMAIN n.table : \A j \in Entries :
          n.table[h][j] = IF h = f /\ j = i THEN UserEntry(g)
                          ELSE IF h \in DOMAIN m.table THEN m.table[h][j] ELSE Absent

\* n is m with a frame mapped at a page of the root c, through the tables q1,
\* q2 and q3, each of them new or there before.
Mapped(m, n, c, page, frame, q1, q2, q3) ==
    LET D == DOMAIN m.table
    IN  /\ ~n.failed /\ DOMAIN n.table = D \cup {q1, q2, q3}
        /\ c # q1 /\ c # q2 /\ c # q3 /\ q1 # q2 /\ q1 # q3 /\ q2 # q3
        /\ \/ q1 \in D /\ m.table[c][pml4_idx(page)] = UserEntry(q1)
           \/ q1 \notin D /\ m.table[c][pml4_idx(page)] = Absent
        /\ \/ q1 \in D /\ q2 \in D /\ m.table[q1][pdpt_idx(page)] = UserEntry(q2)
           \/ q2 \notin D /\ (q1 \in D => m.table[q1][pdpt_idx(page)] = Absent)
        /\ \/ q2 \in D /\ q3 \in D /\ m.table[q2][pd_idx(page)] = UserEntry(q3)
           \/ q3 \notin D /\ (q2 \in D => m.table[q2][pd_idx(page)] = Absent)
        /\ \A q \in {q1, q2, q3} : q \in D \/ (q \in Nat /\ m.free <= q)
        /\ \A h \in DOMAIN n.table : \A j \in Entries :
              n.table[h][j] = IF h = c /\ j = pml4_idx(page) THEN UserEntry(q1)
                              ELSE IF h = q1 /\ j = pdpt_idx(page) THEN UserEntry(q2)
                              ELSE IF h = q2 /\ j = pd_idx(page) THEN UserEntry(q3)
                              ELSE IF h = q3 /\ j = pt_idx(page) THEN UserEntry(frame)
                              ELSE IF h \in D THEN m.table[h][j] ELSE Absent

\* The entry is absent or leads to a table of S.
Leads(T, f, i, S) == T[f][i] = Absent \/ \E g \in S : T[f][i] = UserEntry(g)

\* The tables of the levels below the root c, none of them in T.
Levels(T, t, c, page, L2, L3, L4) ==
    /\ c \in DOMAIN t /\ L2 \cup L3 \cup L4 \subseteq DOMAIN t
    /\ c \notin L2 \cup L3 \cup L4 /\ L2 \cap L3 = {} /\ L2 \cap L4 = {} /\ L3 \cap L4 = {}
    /\ c \notin DOMAIN T /\ DOMAIN T \cap (L2 \cup L3 \cup L4) = {}
    /\ Leads(t, c, pml4_idx(page), L2)
    /\ \A f \in L2 : Leads(t, f, pdpt_idx(page), L3)
    /\ \A f \in L3 : Leads(t, f, pd_idx(page), L4)

\* A frame that can be allocated is no table.
LEMMA FreeIsFresh ==
    ASSUME NEW T, NEW n0 \in Nat, Room(T, n0), NEW m, Since(T, n0, m), usable_end \in Nat, ~NoFrame(m)
    PROVE  m.free < usable_end /\ m.free \notin DOMAIN m.table
<1>1. m.free \in Nat /\ n0 <= m.free
  BY Zenon DEF Since
<1>2. m.free < usable_end
  BY <1>1 DEF NoFrame
<1>3. m.free \notin DOMAIN T
  BY <1>1, <1>2, Zenon DEF Room
<1>4. ~(m.free < m.free)
  BY <1>1
<1> QED
  BY <1>2, <1>3, <1>4, Zenon DEF Since

\* Allocating a frame and making it a table, or failing to.
LEMMA AddTable ==
    ASSUME NEW m, IsMemory(m), NEW E
    PROVE  /\ NoFrame(m) => Allocated(m) = [free |-> m.free, table |-> m.table, failed |-> TRUE]
           /\ ~NoFrame(m) =>
                /\ Allocated(m) = [free |-> m.free + 1, table |-> m.table, failed |-> m.failed]
                /\ WithTable(Allocated(m), m.free, E) =
                     [free |-> m.free + 1,
                      table |-> [g \in DOMAIN m.table \cup {m.free} |->
                                   IF g = m.free THEN E ELSE m.table[g]],
                      failed |-> m.failed]
<1> DEFINE a == m.free
           t == m.table
           b == m.failed
<1>0. m = [free |-> a, table |-> t, failed |-> b]
  BY Zenon DEF IsMemory
<1> HIDE DEF a, t, b
<1>1. NoFrame(m) => Allocated(m) = [free |-> a, table |-> t, failed |-> TRUE]
  BY <1>0, Zenon DEF Allocated
<1>2. ~NoFrame(m) => Allocated(m) = [free |-> a + 1, table |-> t, failed |-> b]
  BY <1>0 DEF Allocated
<1>3. ASSUME ~NoFrame(m)
      PROVE  WithTable(Allocated(m), a, E) =
                     [free |-> a + 1, table |-> [g \in DOMAIN t \cup {a} |-> IF g = a THEN E ELSE t[g]],
                      failed |-> b]
  <2> DEFINE n == [free |-> a + 1, table |-> t, failed |-> b]
             w == [g \in DOMAIN n.table \cup {a} |-> IF g = a THEN E ELSE n.table[g]]
  <2>1. n.table = t
    OBVIOUS
  <2>2. WithTable(n, a, E) = [n EXCEPT !.table = w]
    BY Zenon DEF WithTable
  <2>3. w = [g \in DOMAIN t \cup {a} |-> IF g = a THEN E ELSE t[g]]
    BY <2>1, Zenon
  <2> HIDE DEF w
  <2>4. [n EXCEPT !.table = w] = [free |-> a + 1, table |-> w, failed |-> b]
    OBVIOUS
  <2> QED
    BY <1>2, <1>3, <2>2, <2>3, <2>4, Zenon
<1> QED
  BY <1>1, <1>2, <1>3, Zenon DEF a, t, b

\* Setting the user bit of an entry that has it.
LEMMA SetAgain ==
    ASSUME NEW g
    PROVE  [UserEntry(g) EXCEPT !.user = TRUE] = UserEntry(g)
<1>1. PICK u : u = TRUE
  BY Zenon
<1> DEFINE e == [present |-> u, writeable |-> u, user |-> u, frame |-> g]
<1>2. UserEntry(g) = e
  BY <1>1, Zenon DEF UserEntry
<1>3. [e EXCEPT !.user = u] = e
  OBVIOUS
<1> QED
  BY <1>1, <1>2, <1>3, Zenon

\* get_or_create_table_user in a table of the new address space: it fails, or
\* the entry leads to a table, and nothing else has changed.
LEMMA GetOrCreateOpens ==
    ASSUME usable_end \in Nat, NEW T, NEW n0 \in Nat, Room(T, n0),
           NEW m, Since(T, n0, m), ~m.failed,
           NEW f \in DOMAIN m.table, f \notin DOMAIN T, NEW i \in Entries,
           m.table[f][i] = Absent \/ \E g \in DOMAIN m.table : m.table[f][i] = UserEntry(g)
    PROVE  LET n == GetOrCreate(m, f, i)
           IN  Since(T, n0, n) /\ (n.failed \/ Opened(m, n, f, i, n.table[f][i].frame))
<1> DEFINE n == GetOrCreate(m, f, i)
           t == m.table
           a == m.free
<1>0. m = [free |-> a, table |-> t, failed |-> FALSE] /\ m.failed = FALSE
  BY Zenon DEF Since, IsMemory
<1>1. /\ a \in Nat /\ n0 <= a /\ a <= usable_end /\ Tables(t)
      /\ \A h \in DOMAIN T : h \in DOMAIN t /\ t[h] = T[h]
      /\ \A g \in DOMAIN t : g \in DOMAIN T \/ (g \in Nat /\ n0 <= g /\ g < a)
  BY Zenon DEF Since
<1>2. f \in DOMAIN t /\ t[f] = [j \in Entries |-> t[f][j]]
  BY <1>1, Zenon DEF Tables
<1>3. CASE \E g \in DOMAIN m.table : m.table[f][i] = UserEntry(g)
  <2>1. PICK g \in DOMAIN t : t[f][i] = UserEntry(g)
    BY <1>3, Zenon
  <2>2. t[f][i].present
    BY <2>1 DEF UserEntry
  <2>3. n = [m EXCEPT !.table[f][i].user = TRUE]
    BY <2>2, Zenon DEF GetOrCreate
  <2> HIDE DEF t, a
  <2>4. [UserEntry(g) EXCEPT !.user = TRUE] = UserEntry(g)
    BY SetAgain, Zenon
  <2>5. n = [free |-> a, table |-> [t EXCEPT ![f][i].user = TRUE], failed |-> FALSE]
    BY <1>0, <2>3, Zenon
  <2>6. [t EXCEPT ![f][i].user = TRUE] = t
    <3>1. [t[f] EXCEPT ![i].user = TRUE] = t[f]
      BY <1>2, <2>1, <2>4, Zenon
    <3>2. t = [h \in DOMAIN t |-> t[h]]
      BY <1>1, Zenon DEF Tables
    <3> QED
      BY <1>2, <3>1, <3>2
  <2>7. n = m
    BY <1>0, <2>5, <2>6, Zenon
  <2>8. UserEntry(g).frame = g
    BY DEF UserEntry
  <2>9. Opened(m, m, f, i, g)
    <3>1. DOMAIN m.table = DOMAIN m.table \cup {g}
      BY <2>1, Zenon DEF t
    <3> QED
      BY <1>0, <2>1, <3>1, Zenon DEF Opened, t, a
  <2> HIDE DEF n
  <2> QED
    BY <2>1, <2>7, <2>8, <2>9, Zenon DEF t, n
<1>4. CASE m.table[f][i] = Absent
  <2>1. ~t[f][i].present
    BY <1>4 DEF Absent
  <2>2. IsMemory(m)
    BY Zenon DEF Since
  <2>3. CASE NoFrame(m)
    <3>1. n = [free |-> a, table |-> t, failed |-> TRUE]
      BY <1>0, <2>1, <2>2, <2>3, AddTable, ZenonT(60) DEF GetOrCreate
    <3> HIDE DEF n, t, a
    <3>2. n.free = a /\ n.table = t /\ n.failed = TRUE
      BY <3>1
    <3>3. Since(T, n0, n) /\ n.failed
      BY <1>1, <3>1, <3>2, Zenon DEF Since, IsMemory
    <3> QED
      BY <3>3, ZenonT(60) DEF n
  <2>4. CASE ~NoFrame(m)
    <3>1. a < usable_end /\ a \notin DOMAIN t
      BY <2>4, FreeIsFresh, Zenon
    <3> DEFINE w == [g \in DOMAIN t \cup {a} |-> IF g = a THEN EmptyTable ELSE t[g]]
               r == [free |-> a + 1, table |-> w, failed |-> FALSE]
    <3>2. n = [r EXCEPT !.table[f][i] = UserEntry(a)]
      <4> DEFINE x == WithTable(Allocated(m), m.free, EmptyTable)
      <4>1. n = [x EXCEPT !.table[f][i] = UserEntry(m.free)]
        BY <1>0, <2>1, <2>4, Zenon DEF GetOrCreate
      <4>2. x = r
        BY <1>0, <2>2, <2>4, AddTable, Zenon
      <4> HIDE DEF x, r, n
      <4> QED
        BY <4>1, <4>2, SMTT(30)
    <3>a. /\ f # a /\ DOMAIN w = DOMAIN t \cup {a} /\ w = [g \in DOMAIN w |-> w[g]]
          /\ w[a] = EmptyTable /\ \A h \in DOMAIN t : w[h] = t[h]
      BY <1>2, <3>1, Zenon
    <3> HIDE DEF w, t, a
    <3>3. n = [free |-> a + 1, table |-> [w EXCEPT ![f][i] = UserEntry(a)], failed |-> FALSE]
      BY <3>2, Zenon
    <3> DEFINE v == [w EXCEPT ![f][i] = UserEntry(a)]
    <3>4. /\ DOMAIN v = DOMAIN t \cup {a} /\ v = [g \in DOMAIN v |-> v[g]]
          /\ v[f] = [w[f] EXCEPT ![i] = UserEntry(a)]
          /\ \A h \in DOMAIN v : h # f => v[h] = w[h]
      BY <1>2, <3>a, Zenon
    <3> HIDE DEF v, n
    <3>5. n.free = a + 1 /\ n.table = v /\ n.failed = FALSE
      BY <3>3 DEF v
    <3>6. w[f] = [j \in Entries |-> t[f][j]]
      BY <1>2, <3>a, Zenon
    <3>7. v[f] = [j \in Entries |-> IF j = i THEN UserEntry(a) ELSE t[f][j]]
      BY <3>4, <3>6, ZenonT(30)
    <3>8. v[a] = [j \in Entries |-> Absent]
      BY <3>4, <3>a, Zenon DEF EmptyTable, Entries
    <3>9. \A h \in DOMAIN t : h # f => v[h] = t[h]
      BY <3>4, <3>a, Zenon
    <3>10. ASSUME NEW h \in DOMAIN v PROVE v[h] = [j \in Entries |-> v[h][j]]
      <4>1. CASE h = f
        BY <3>7, <4>1, Zenon
      <4>2. CASE h = a
        BY <3>8, <4>2, Zenon
      <4>3. CASE h \in DOMAIN t /\ h # f
        BY <1>1, <3>9, <4>3, Zenon DEF Tables
      <4> QED
        BY <3>4, <4>1, <4>2, <4>3, Zenon
    <3>11. Tables(v)
      BY <3>4, <3>10, Zenon DEF Tables
    <3>12. a + 1 \in Nat /\ n0 <= a + 1 /\ a + 1 <= usable_end /\ a < a + 1 /\ \A g \in Nat : g < a => g < a + 1
      BY <1>1, <3>1
    <3>13. \A h \in DOMAIN T : h \in DOMAIN v /\ v[h] = T[h]
      BY <1>1, <3>4, <3>9, Zenon
    <3>14. \A g \in DOMAIN v : g \in DOMAIN T \/ (g \in Nat /\ n0 <= g /\ g < a + 1)
      BY <1>1, <3>4, <3>12, Zenon
    <3>15. Since(T, n0, n)
      <4>1. IsMemory(n)
        BY <3>3, <3>5, Zenon DEF IsMemory, v
      <4> QED
        BY <3>5, <3>11, <3>12, <3>13, <3>14, <4>1, Zenon DEF Since
    <3>16. v[f][i] = UserEntry(a)
      BY <3>7, Zenon
    <3>17. UserEntry(a).frame = a
      BY DEF UserEntry
    <3>18. ASSUME NEW h \in DOMAIN v, NEW j \in Entries
           PROVE  v[h][j] = IF h = f /\ j = i THEN UserEntry(a)
                            ELSE IF h \in DOMAIN t THEN t[h][j] ELSE Absent
      <4>1. CASE h = f
        BY <1>2, <3>7, <4>1, Zenon
      <4>2. CASE h = a
        BY <3>1, <3>8, <3>a, <4>2, Zenon
      <4>3. CASE h \in DOMAIN t /\ h # f
        BY <3>9, <4>3, Zenon
      <4> QED
        BY <3>4, <4>1, <4>2, <4>3, Zenon
    <3>19. Opened(m, n, f, i, a)
      BY <1>4, <3>1, <3>4, <3>5, <3>18, ZenonT(60) DEF Opened, t, a
    <3> QED
      BY <3>5, <3>15, <3>16, <3>17, <3>19, Zenon DEF n
  <2> QED
    BY <2>3, <2>4, Zenon
<1> QED
  BY <1>3, <1>4, Zenon

\* Entries of user tables tell their frames, and are not absent.
LEMMA UserEntries ==
    /\ \A g, h : UserEntry(g) = UserEntry(h) => g = h
    /\ \A g : UserEntry(g) # Absent /\ UserEntry(g).frame = g
<1>1. \A g : UserEntry(g).frame = g
  BY DEF UserEntry
<1>2. \A g : UserEntry(g).present
  BY DEF UserEntry
<1>3. ~Absent.present
  BY DEF Absent
<1>4. \A g, h : UserEntry(g) = UserEntry(h) => g = h
  <2> SUFFICES ASSUME NEW g, NEW h, UserEntry(g) = UserEntry(h) PROVE g = h
    BY Zenon
  <2>1. UserEntry(g).frame = g /\ UserEntry(h).frame = h
    BY <1>1, Zenon
  <2> QED
    BY <2>1, Zenon
<1>5. \A g : UserEntry(g) # Absent
  BY <1>2, <1>3, Zenon
<1> QED
  BY <1>1, <1>4, <1>5, Zenon

\* A write to one entry, and what it is to change that entry only.
Written(m, f, i, e) == [m EXCEPT !.table[f][i] = e]
OnlyEntry(m, n, f, i, e) ==
    /\ n.free = m.free /\ DOMAIN n.table = DOMAIN m.table
    /\ \A h \in DOMAIN m.table : \A j \in Entries :
          n.table[h][j] = IF h = f /\ j = i THEN e ELSE m.table[h][j]

\* Writing an entry of a table that is not of T.
LEMMA SetEntry ==
    ASSUME NEW T, NEW n0, NEW m, Since(T, n0, m), ~m.failed,
           NEW f \in DOMAIN m.table, f \notin DOMAIN T, NEW i \in Entries, NEW e,
           NEW n, n = Written(m, f, i, e)
    PROVE  Since(T, n0, n) /\ ~n.failed /\ OnlyEntry(m, n, f, i, e)
<1> DEFINE t == m.table
           a == m.free
           v == [t EXCEPT ![f][i] = e]
           r == [free |-> a, table |-> t, failed |-> FALSE]
<1>0. m = [free |-> a, table |-> t, failed |-> FALSE]
  BY Zenon DEF Since, IsMemory
<1>1. /\ a \in Nat /\ n0 <= a /\ a <= usable_end /\ Tables(t)
      /\ \A h \in DOMAIN T : h \in DOMAIN t /\ t[h] = T[h]
      /\ \A g \in DOMAIN t : g \in DOMAIN T \/ (g \in Nat /\ n0 <= g /\ g < a)
  BY Zenon DEF Since
<1>2. f \in DOMAIN t /\ t[f] = [j \in Entries |-> t[f][j]] /\ t = [h \in DOMAIN t |-> t[h]]
  BY <1>1, Zenon DEF Tables
<1>x. n = [r EXCEPT !.table[f][i] = e]
  <2>1. m = r /\ n = [m EXCEPT !.table[f][i] = e]
    BY <1>0, Zenon DEF Written
  <2> HIDE DEF r, t, a
  <2> QED
    BY <2>1
<1> HIDE DEF t, a
<1>3. n = [free |-> a, table |-> v, failed |-> FALSE]
  BY <1>x, Zenon
<1>4. /\ DOMAIN v = DOMAIN t /\ v = [g \in DOMAIN v |-> v[g]]
      /\ v[f] = [t[f] EXCEPT ![i] = e]
      /\ \A h \in DOMAIN v : h # f => v[h] = t[h]
  BY <1>2
<1> HIDE DEF v
<1>5. n.free = a /\ n.table = v /\ n.failed = FALSE
  BY <1>3
<1>6. v[f] = [j \in Entries |-> IF j = i THEN e ELSE t[f][j]]
  BY <1>2, <1>4, ZenonT(30)
<1>7. Tables(v)
  <2>1. ASSUME NEW h \in DOMAIN v PROVE v[h] = [j \in Entries |-> v[h][j]]
    <3>1. CASE h = f
      BY <1>6, <3>1, Zenon
    <3>2. CASE h # f
      BY <1>1, <1>4, <3>2, Zenon DEF Tables
    <3> QED
      BY <3>1, <3>2, Zenon
  <2> QED
    BY <1>4, <2>1, Zenon DEF Tables
<1>8. IsMemory(n)
  BY <1>3, <1>5, Zenon DEF IsMemory
<1>9. \A h \in DOMAIN T : h \in DOMAIN v /\ v[h] = T[h]
  BY <1>1, <1>4, Zenon
<1>10. Since(T, n0, n)
  BY <1>1, <1>4, <1>5, <1>7, <1>8, <1>9, Zenon DEF Since
<1>11. \A h \in DOMAIN t : \A j \in Entries : v[h][j] = IF h = f /\ j = i THEN e ELSE t[h][j]
  BY <1>4, <1>6, ZenonT(60)
<1> QED
  BY <1>4, <1>5, <1>10, <1>11, Zenon DEF OnlyEntry, t, a

\* map_page_user_into on a root whose tables are its own: it fails, or it maps
\* the frame at the page and changes no other entry.
LEMMA MapPageMaps ==
    ASSUME usable_end \in Nat, NEW T, NEW n0 \in Nat, Room(T, n0),
           NEW m, Since(T, n0, m), ~m.failed, NEW page \in UserPages, NEW frame, NEW c,
           NEW L2, NEW L3, NEW L4, Levels(T, m.table, c, page, L2, L3, L4)
    PROVE  LET n == MapPageUser(m, c, page, frame)
           IN  /\ Since(T, n0, n)
               /\ n.failed \/ \E q1, q2, q3 : Mapped(m, n, c, page, frame, q1, q2, q3)
<1> DEFINE b1 == pml4_idx(page)
           b2 == pdpt_idx(page)
           b3 == pd_idx(page)
           b4 == pt_idx(page)
           m1 == GetOrCreate(m, c, b1)
           q1 == m1.table[c][b1].frame
           m2 == GetOrCreate(m1, q1, b2)
           q2 == m2.table[q1][b2].frame
           m3 == GetOrCreate(m2, q2, b3)
           q3 == m3.table[q2][b3].frame
           n == MapPageUser(m, c, page, frame)
           D == DOMAIN m.table
<1>0. b1 \in Entries /\ b2 \in Entries /\ b3 \in Entries /\ b4 \in Entries
  BY EntryRange, Zenon DEF Entries
<1>1. n = IF m3.failed THEN m3 ELSE [m3 EXCEPT !.table[q3][b4] = UserEntry(frame)]
  BY Zenon DEF MapPageUser
<1>2. /\ c \in D /\ L2 \subseteq D /\ L3 \subseteq D /\ L4 \subseteq D
      /\ c \notin L2 /\ c \notin L3 /\ c \notin L4 /\ L2 \cap L3 = {} /\ L2 \cap L4 = {} /\ L3 \cap L4 = {}
      /\ c \notin DOMAIN T /\ DOMAIN T \cap L2 = {} /\ DOMAIN T \cap L3 = {} /\ DOMAIN T \cap L4 = {}
      /\ Leads(m.table, c, b1, L2)
      /\ \A f \in L2 : Leads(m.table, f, b2, L3)
      /\ \A f \in L3 : Leads(m.table, f, b3, L4)
  BY Zenon DEF Levels
<1>3. \A h \in DOMAIN T : h \in D
  BY Zenon DEF Since
<1>f. \A x, f, i : x.failed => GetOrCreate(x, f, i) = x
  BY Zenon DEF GetOrCreate
<1> HIDE DEF b1, b2, b3, b4, D
<1>4. Since(T, n0, m1) /\ (m1.failed \/ Opened(m, m1, c, b1, q1))
  <2>1. m.table[c][b1] = Absent \/ \E g \in DOMAIN m.table : m.table[c][b1] = UserEntry(g)
    BY <1>2, Zenon DEF Leads, D
  <2> QED
    BY <1>0, <1>2, <2>1, GetOrCreateOpens, Zenon DEF D
<1>5. CASE m1.failed
  <2>1. m2 = m1
    BY <1>5, <1>f, Zenon
  <2>2. m3 = m1
    BY <1>5, <1>f, <2>1, Zenon
  <2> HIDE DEF m1, m2, m3
  <2>3. n = m1
    BY <1>1, <1>5, <2>2, Zenon
  <2> QED
    BY <1>4, <1>5, <2>3, Zenon
<1>6. CASE Opened(m, m1, c, b1, q1)
  <2> DEFINE D1 == DOMAIN m1.table
  <2>1. /\ ~m1.failed /\ D1 = D \cup {q1}
        /\ \/ q1 \in D /\ q1 \in L2 /\ m.table[c][b1] = UserEntry(q1) /\ m1.free = m.free
           \/ q1 \notin D /\ m.table[c][b1] = Absent /\ q1 = m.free /\ m1.free = m.free + 1
        /\ \A h \in D1 : \A j \in Entries :
              m1.table[h][j] = IF h = c /\ j = b1 THEN UserEntry(q1)
                               ELSE IF h \in D THEN m.table[h][j] ELSE Absent
    <3> HIDE DEF m1, q1
    <3>1. m.table[c][b1] = UserEntry(q1) => q1 \in L2
      BY <1>2, UserEntries, Zenon DEF Leads
    <3> QED
      BY <1>6, <3>1, Zenon DEF Opened, D
  <2>2. c # q1 /\ q1 \notin DOMAIN T /\ q1 \in D1 /\ c \in D1
    BY <1>2, <1>3, <2>1, Zenon
  <2>3. m1.table[q1][b2] = Absent \/ \E g \in L3 : q1 \in L2 /\ m1.table[q1][b2] = UserEntry(g)
    <3> HIDE DEF m1, q1, D1
    <3>1. m1.table[q1][b2] = IF q1 \in D THEN m.table[q1][b2] ELSE Absent
      BY <1>0, <2>1, <2>2, Zenon
    <3>2. q1 \in D => q1 \in L2
      BY <2>1, Zenon
    <3>3. q1 \in D => Leads(m.table, q1, b2, L3)
      BY <1>2, <3>2, Zenon
    <3> QED
      BY <3>1, <3>2, <3>3, Zenon DEF Leads
  <2>4. Since(T, n0, m2) /\ (m2.failed \/ Opened(m1, m2, q1, b2, q2))
    <3> HIDE DEF m1, q1
    <3>1. \A g \in L3 : g \in D1
      BY <1>2, <2>1, Zenon
    <3>2. m1.table[q1][b2] = Absent \/ \E g \in DOMAIN m1.table : m1.table[q1][b2] = UserEntry(g)
      BY <2>3, <3>1, Zenon
    <3> QED
      BY <1>0, <1>4, <2>1, <2>2, <3>2, GetOrCreateOpens, Zenon
  <2>5. CASE m2.failed
    <3>1. m3 = m2
      BY <1>f, <2>5, Zenon
    <3> HIDE DEF m1, m2, m3, q1, q2
    <3>2. n = m2
      BY <1>1, <2>5, <3>1, Zenon
    <3> QED
      BY <2>4, <2>5, <3>2, Zenon
  <2>6. CASE Opened(m1, m2, q1, b2, q2)
    <3> DEFINE D2 == DOMAIN m2.table
    <3>1. /\ ~m2.failed /\ D2 = D1 \cup {q2}
          /\ \/ q2 \in D1 /\ q2 \in L3 /\ q1 \in L2 /\ m1.table[q1][b2] = UserEntry(q2) /\ m2.free = m1.free
             \/ q2 \notin D1 /\ m1.table[q1][b2] = Absent /\ q2 = m1.free /\ m2.free = m1.free + 1
          /\ \A h \in D2 : \A j \in Entries :
                m2.table[h][j] = IF h = q1 /\ j = b2 THEN UserEntry(q2)
                                 ELSE IF h \in D1 THEN m1.table[h][j] ELSE Absent
      <4> HIDE DEF m1, q1, m2, q2
      <4>1. m1.table[q1][b2] = UserEntry(q2) => q2 \in L3 /\ q1 \in L2
        BY <2>3, UserEntries, Zenon
      <4> QED
        BY <2>6, <4>1, Zenon DEF Opened
    <3> HIDE DEF m1, q1, m2, q2
    <3>2. c # q2 /\ q1 # q2 /\ q2 \notin DOMAIN T /\ q2 \in D2 /\ q1 \in D2 /\ c \in D2
      <4>1. q2 \in D2 /\ q1 \in D2 /\ c \in D2
        BY <2>2, <3>1, Zenon
      <4>2. CASE q2 \in L3 /\ q1 \in L2
        BY <1>2, <4>1, <4>2, Zenon
      <4>3. CASE q2 \notin D1
        <5>1. q2 \notin DOMAIN T
          BY <1>3, <2>1, <4>3, Zenon
        <5> QED
          BY <2>2, <4>1, <4>3, <5>1, Zenon
      <4> QED
        BY <3>1, <4>2, <4>3, Zenon
    <3> HIDE DEF D1
    <3>3. m2.table[q2][b3] = Absent \/ \E g \in L4 : q2 \in L3 /\ m2.table[q2][b3] = UserEntry(g)
      <4>1. m2.table[q2][b3] = IF q2 \in D1 THEN m1.table[q2][b3] ELSE Absent
        BY <1>0, <3>1, <3>2, Zenon
      <4>2. q2 \in D1 => m1.table[q2][b3] = m.table[q2][b3] /\ q2 \in L3
        BY <1>0, <1>2, <2>1, <3>1, <3>2, Zenon
      <4> QED
        BY <1>2, <4>1, <4>2, Zenon DEF Leads
    <3>4. Since(T, n0, m3) /\ (m3.failed \/ Opened(m2, m3, q2, b3, q3))
      <4>1. \A g \in L4 : g \in D2
        BY <1>2, <2>1, <3>1, Zenon
      <4>2. m2.table[q2][b3] = Absent \/ \E g \in DOMAIN m2.table : m2.table[q2][b3] = UserEntry(g)
        BY <3>3, <4>1, Zenon
      <4> QED
        BY <1>0, <2>4, <3>1, <3>2, <4>2, GetOrCreateOpens, Zenon
    <3>5. CASE m3.failed
      <4> HIDE DEF m3, q3
      <4>1. n = m3
        BY <1>1, <3>5, Zenon
      <4> QED
        BY <3>4, <3>5, <4>1, Zenon
    <3>6. CASE Opened(m2, m3, q2, b3, q3)
      <4> HIDE DEF m3, q3, n
      <4> DEFINE D3 == DOMAIN m3.table
      <4>1. /\ ~m3.failed /\ D3 = D2 \cup {q3}
            /\ \/ q3 \in D2 /\ q3 \in L4 /\ q2 \in L3 /\ m2.table[q2][b3] = UserEntry(q3)
               \/ q3 \notin D2 /\ m2.table[q2][b3] = Absent /\ q3 = m2.free
            /\ \A h \in D3 : \A j \in Entries :
                  m3.table[h][j] = IF h = q2 /\ j = b3 THEN UserEntry(q3)
                                   ELSE IF h \in D2 THEN m2.table[h][j] ELSE Absent
        <5>1. m2.table[q2][b3] = UserEntry(q3) => q3 \in L4 /\ q2 \in L3
          BY <3>3, UserEntries, Zenon
        <5> QED
          BY <3>6, <5>1, Zenon DEF Opened
      <4> HIDE DEF D2
      <4>2. c # q3 /\ q1 # q3 /\ q2 # q3 /\ q3 \notin DOMAIN T /\ q3 \in D3
        <5>1. \A h \in DOMAIN T : h \in D2
          BY <1>3, <2>1, <3>1, Zenon
        <5>2. q3 \in L4 => c # q3 /\ q2 # q3
          BY <1>2, <3>1, <4>1, ZenonT(60)
        <5>3. q3 \in L4 => q1 # q3
          <6>1. q1 \in D => q1 \in L2
            BY <2>1, Zenon
          <6> QED
            BY <1>2, <6>1, Zenon
        <5>4. q3 \in L4 => q3 \notin DOMAIN T
          BY <1>2, Zenon
        <5> QED
          BY <3>2, <4>1, <5>1, <5>2, <5>3, <5>4, Zenon
      <4>3. /\ n = [m3 EXCEPT !.table[q3][b4] = UserEntry(frame)]
            /\ Since(T, n0, n) /\ ~n.failed /\ DOMAIN n.table = D3
            /\ \A h \in D3 : \A j \in Entries :
                  n.table[h][j] = IF h = q3 /\ j = b4 THEN UserEntry(frame) ELSE m3.table[h][j]
        <5>1. n = [m3 EXCEPT !.table[q3][b4] = UserEntry(frame)]
          BY <1>1, <4>1, Zenon
        <5> DEFINE e == UserEntry(frame)
        <5>2. Since(T, n0, m3) /\ ~m3.failed /\ q3 \in DOMAIN m3.table /\ q3 \notin DOMAIN T /\ b4 \in Entries
          BY <1>0, <3>4, <4>1, <4>2, Zenon
        <5>3. n = Written(m3, q3, b4, e)
          BY <5>1, Zenon DEF Written
        <5> HIDE DEF e
        <5>4. Since(T, n0, n) /\ ~n.failed /\ OnlyEntry(m3, n, q3, b4, e)
          BY <5>2, <5>3, SetEntry, Zenon
        <5> QED
          BY <5>1, <5>4, Zenon DEF e, OnlyEntry
      <4> HIDE DEF D3
      <4>4. D3 = D \cup {q1, q2, q3}
        BY <2>1, <3>1, <4>1, Zenon
      <4>5. \A q \in {q1, q2, q3} : q \in D \/ (q \in Nat /\ m.free <= q)
        <5>1. m.free \in Nat
          BY Zenon DEF Since
        <5>2. m.free <= m1.free /\ m1.free \in Nat
          BY <2>1, <5>1
        <5>3. m.free <= m2.free /\ m2.free \in Nat
          BY <3>1, <5>1, <5>2
        <5>4. q1 \in D \/ (q1 \in Nat /\ m.free <= q1)
          BY <2>1, <5>1
        <5>5. q2 \in D \/ q2 = q1 \/ (q2 \in Nat /\ m.free <= q2)
          BY <2>1, <3>1, <5>2, Zenon
        <5>6. q3 \in D \/ q3 = q1 \/ q3 = q2 \/ (q3 \in Nat /\ m.free <= q3)
          BY <2>1, <3>1, <4>1, <5>3, Zenon
        <5> QED
          BY <5>4, <5>5, <5>6, Zenon
      <4>6. \/ q1 \in D /\ q2 \in D /\ m.table[q1][b2] = UserEntry(q2)
            \/ q2 \notin D /\ (q1 \in D => m.table[q1][b2] = Absent)
        <5>1. q1 \in D => m1.table[q1][b2] = m.table[q1][b2]
          BY <1>0, <2>1, <2>2, Zenon
        <5>2. q2 \in D1 => q2 \in D
          BY <2>1, <3>2, Zenon
        <5>3. q2 \in D1 => q1 \in D
          BY <1>2, <3>1, Zenon
        <5>4. q2 \in D => q2 \in D1
          BY <2>1, Zenon
        <5> QED
          BY <3>1, <5>1, <5>2, <5>3, <5>4, Zenon
      <4>7. \/ q2 \in D /\ q3 \in D /\ m.table[q2][b3] = UserEntry(q3)
            \/ q3 \notin D /\ (q2 \in D => m.table[q2][b3] = Absent)
        <5>1. q2 \in D => m2.table[q2][b3] = m.table[q2][b3]
          <6>1. q2 \in D => q2 \in D1 /\ m1.table[q2][b3] = m.table[q2][b3]
            BY <1>0, <2>1, <3>2, Zenon
          <6> QED
            BY <1>0, <3>1, <3>2, <6>1, Zenon
        <5>2. q3 \in D2 => q3 \in D /\ q2 \in D
          BY <1>2, <4>1, Zenon
        <5>3. q3 \in D => q3 \in D2
          BY <2>1, <3>1, Zenon
        <5> QED
          BY <4>1, <5>1, <5>2, <5>3, Zenon
      <4>8. ASSUME NEW h \in D3, NEW j \in Entries
            PROVE  n.table[h][j] = IF h = c /\ j = b1 THEN UserEntry(q1)
                              ELSE IF h = q1 /\ j = b2 THEN UserEntry(q2)
                              ELSE IF h = q2 /\ j = b3 THEN UserEntry(q3)
                              ELSE IF h = q3 /\ j = b4 THEN UserEntry(frame)
                              ELSE IF h \in D THEN m.table[h][j] ELSE Absent
        <5>1. n.table[h][j] = IF h = q3 /\ j = b4 THEN UserEntry(frame)
                              ELSE IF h = q2 /\ j = b3 THEN UserEntry(q3)
                              ELSE IF h \in D2 THEN m2.table[h][j] ELSE Absent
          <6>1. n.table[h][j] = IF h = q3 /\ j = b4 THEN UserEntry(frame) ELSE m3.table[h][j]
            BY <4>3, Zenon
          <6>2. m3.table[h][j] = IF h = q2 /\ j = b3 THEN UserEntry(q3)
                                 ELSE IF h \in D2 THEN m2.table[h][j] ELSE Absent
            BY <4>1, Zenon DEF D3
          <6> QED
            BY <6>1, <6>2, Zenon
        <5>2. h \in D2 => m2.table[h][j] = IF h = q1 /\ j = b2 THEN UserEntry(q2)
                                ELSE IF h \in D1 THEN m1.table[h][j] ELSE Absent
          BY <3>1, Zenon
        <5>3. h \in D1 => m1.table[h][j] = IF h = c /\ j = b1 THEN UserEntry(q1)
                                ELSE IF h \in D THEN m.table[h][j] ELSE Absent
          BY <2>1, Zenon
        <5>4. (h \in D => h \in D1) /\ (h \in D1 => h \in D2) /\ c \in D1 /\ q1 \in D2
          BY <2>1, <2>2, <3>1, <3>2, Zenon
        <5>5. CASE h = q3 /\ j = b4
          BY <4>2, <5>1, <5>5, Zenon
        <5>6. CASE h = q2 /\ j = b3
          BY <3>2, <4>2, <5>1, <5>6, Zenon
        <5>7. CASE h = q1 /\ j = b2
          BY <2>2, <3>2, <4>2, <5>1, <5>2, <5>4, <5>7, Zenon
        <5>8. CASE h = c /\ j = b1
          BY <2>2, <3>2, <4>2, <5>1, <5>2, <5>3, <5>4, <5>8, Zenon
        <5>9. CASE ~(h = q3 /\ j = b4) /\ ~(h = q2 /\ j = b3) /\ ~(h = q1 /\ j = b2) /\ ~(h = c /\ j = b1)
          <6>1. n.table[h][j] = IF h \in D2 THEN m2.table[h][j] ELSE Absent
            BY <5>1, <5>9, Zenon
          <6>2. h \in D2 => m2.table[h][j] = IF h \in D1 THEN m1.table[h][j] ELSE Absent
            BY <5>2, <5>9, Zenon
          <6>3. h \in D1 => m1.table[h][j] = IF h \in D THEN m.table[h][j] ELSE Absent
            BY <5>3, <5>9, Zenon
          <6>4. n.table[h][j] = IF h \in D THEN m.table[h][j] ELSE Absent
            BY <5>4, <6>1, <6>2, <6>3, Zenon
          <6> QED
            BY <5>9, <6>4, Zenon
        <5> QED
          BY <5>5, <5>6, <5>7, <5>8, <5>9, Zenon
      <4>9. \/ q1 \in D /\ m.table[c][b1] = UserEntry(q1)
            \/ q1 \notin D /\ m.table[c][b1] = Absent
        BY <2>1, Zenon
      <4>10. Mapped(m, n, c, page, frame, q1, q2, q3)
        BY <2>2, <3>2, <4>2, <4>3, <4>4, <4>5, <4>6, <4>7, <4>8, <4>9, Zenon DEF Mapped, D, b1, b2, b3, b4
      <4> QED
        BY <4>3, <4>10, Zenon DEF n
    <3> QED
      BY <3>4, <3>5, <3>6, Zenon
  <2> QED
    BY <2>4, <2>5, <2>6, Zenon
<1> QED
  BY <1>4, <1>5, <1>6, Zenon

-----------------------------------------------------------------------------
(* What a spawned task can reach.                                          *)

\* The entries i of the table p and j of the table q lead on to pn and qn, and
\* no other entry of K leads on.
Fork(T, K, p, q, i, j, pn, qn) ==
    \A k \in K : /\ T[p][k] = IF k = i THEN UserEntry(pn)
                              ELSE IF q = p /\ k = j THEN UserEntry(qn) ELSE Absent
                 /\ T[q][k] = IF k = j THEN UserEntry(qn)
                              ELSE IF q = p /\ k = i THEN UserEntry(pn) ELSE Absent

\* The entries of a root that are the user's.
UserHalf == {i \in Entries : i < Fanout \div 2}

\* From the root c one path leads to code and one to stack, which part at the
\* first level that tells their pages.
Paths(T, c, code, stack, p1, p2, p3, q1, q2, q3) ==
    /\ {c, p1, p2, p3, q1, q2, q3} \subseteq DOMAIN T
    /\ q1 = p1 => pml4_idx(CodePage) = pml4_idx(StackPage)
    /\ q2 = p2 => q1 = p1 /\ pdpt_idx(CodePage) = pdpt_idx(StackPage)
    /\ q3 = p3 => q2 = p2 /\ pd_idx(CodePage) = pd_idx(StackPage)
    /\ Fork(T, UserHalf, c, c, pml4_idx(CodePage), pml4_idx(StackPage), p1, q1)
    /\ Fork(T, Entries, p1, q1, pdpt_idx(CodePage), pdpt_idx(StackPage), p2, q2)
    /\ Fork(T, Entries, p2, q2, pd_idx(CodePage), pd_idx(StackPage), p3, q3)
    /\ Fork(T, Entries, p3, q3, pt_idx(CodePage), pt_idx(StackPage), code, stack)

\* Such paths exist, through tables of T.
TwoPaths(T, c, code, stack) ==
    \E p1, p2, p3, q1, q2, q3 \in DOMAIN T : Paths(T, c, code, stack, p1, p2, p3, q1, q2, q3)

\* The frames from the region's first one to next_free are in use, each once:
\* as a table, or as a page of one task.
PagingInv ==
    LET first == LargestRegion(memmap)[1]
    IN  /\ memmap \in MemoryMaps /\ usable_end = LargestRegion(memmap)[2]
        /\ next_free \in Nat /\ first <= next_free /\ next_free <= usable_end
        /\ Tables(table) /\ KernelFrame \in DOMAIN table
        /\ \A f \in DOMAIN table : f = KernelFrame \/ (f \in Nat /\ first <= f /\ f < next_free)
        /\ spaces \in Seq([cr3 : Nat, code : Nat, stack : Nat])
        /\ \A s \in DOMAIN spaces :
              /\ first <= spaces[s].cr3 /\ spaces[s].code = spaces[s].cr3 + 1
              /\ spaces[s].stack = spaces[s].cr3 + 2 /\ spaces[s].stack < next_free
              /\ spaces[s].code \notin DOMAIN table /\ spaces[s].stack \notin DOMAIN table
              /\ TwoPaths(table, spaces[s].cr3, spaces[s].code, spaces[s].stack)
        /\ \A s, t \in DOMAIN spaces : s < t => spaces[s].stack < spaces[t].cr3

\* An entry that the walk of validate_user_range passes.
Allowed(e, w) == e.present /\ e.user /\ (w => e.writeable)

\* What the walk of validate_user_range lets pass.
LEMMA EntriesAllowed ==
    ASSUME NEW w
    PROVE  ~Allowed(Absent, w) /\ \A g : Allowed(UserEntry(g), w)
<1>1. ~Absent.present
  BY DEF Absent
<1>2. \A g : UserEntry(g).present /\ UserEntry(g).user /\ UserEntry(g).writeable
  BY DEF UserEntry
<1> QED
  BY <1>1, <1>2, Zenon DEF Allowed

\* From the tables p and q of a fork the walk goes on at i and j only.
GoesOn(T, p, q, i, j, pn, qn, k, w) ==
    /\ k = i => Allowed(T[p][k], w) /\ T[p][k].frame = pn
    /\ k = j => Allowed(T[q][k], w) /\ T[q][k].frame = qn
    /\ Allowed(T[p][k], w) => (k = i /\ T[p][k].frame = pn) \/ (q = p /\ k = j /\ T[p][k].frame = qn)
    /\ Allowed(T[q][k], w) => (k = j /\ T[q][k].frame = qn) \/ (q = p /\ k = i /\ T[q][k].frame = pn)

\* One level of the walk: it goes on only from the entries of the fork.
LEMMA ForkAllows ==
    ASSUME NEW T, NEW K, NEW p, NEW q, NEW i, NEW j, NEW pn, NEW qn, Fork(T, K, p, q, i, j, pn, qn),
           NEW k \in K, NEW w
    PROVE  GoesOn(T, p, q, i, j, pn, qn, k, w)
<1>1. /\ T[p][k] = IF k = i THEN UserEntry(pn) ELSE IF q = p /\ k = j THEN UserEntry(qn) ELSE Absent
      /\ T[q][k] = IF k = j THEN UserEntry(qn) ELSE IF q = p /\ k = i THEN UserEntry(pn) ELSE Absent
  BY Zenon DEF Fork
<1>2. k = i => T[p][k] = UserEntry(pn)
  BY <1>1, Zenon
<1>3. k = j => T[q][k] = UserEntry(qn)
  BY <1>1, Zenon
<1>4. T[p][k] = Absent \/ (k = i /\ T[p][k] = UserEntry(pn)) \/ (q = p /\ k = j /\ T[p][k] = UserEntry(qn))
  BY <1>1, Zenon
<1>5. T[q][k] = Absent \/ (k = j /\ T[q][k] = UserEntry(qn)) \/ (q = p /\ k = i /\ T[q][k] = UserEntry(pn))
  BY <1>1, Zenon
<1>6. ~Allowed(Absent, w) /\ \A g : Allowed(UserEntry(g), w) /\ UserEntry(g).frame = g
  BY EntriesAllowed, UserEntries, Zenon
<1>7. k = i => Allowed(T[p][k], w) /\ T[p][k].frame = pn
  BY <1>2, <1>6, Zenon
<1>8. k = j => Allowed(T[q][k], w) /\ T[q][k].frame = qn
  BY <1>3, <1>6, Zenon
<1>9. Allowed(T[p][k], w) => (k = i /\ T[p][k].frame = pn) \/ (q = p /\ k = j /\ T[p][k].frame = qn)
  BY <1>4, <1>6, Zenon
<1>10. Allowed(T[q][k], w) => (k = j /\ T[q][k].frame = qn) \/ (q = p /\ k = i /\ T[q][k].frame = pn)
  BY <1>5, <1>6, Zenon
<1> QED
  BY <1>7, <1>8, <1>9, <1>10, Zenon DEF GoesOn

\* Of the user's pages the walk lets the code and the stack page pass, and no
\* other one.
LEMMA WalkAllows ==
    ASSUME NEW c, NEW code, NEW stack, TwoPaths(table, c, code, stack), NEW page \in UserPages, NEW w
    PROVE  PageAllows(c, page, w) <=> page \in {CodePage, StackPage}
<1> DEFINE a1 == pml4_idx(CodePage)
           a2 == pdpt_idx(CodePage)
           a3 == pd_idx(CodePage)
           a4 == pt_idx(CodePage)
           b1 == pml4_idx(StackPage)
           b2 == pdpt_idx(StackPage)
           b3 == pd_idx(StackPage)
           b4 == pt_idx(StackPage)
           i1 == pml4_idx(page)
           i2 == pdpt_idx(page)
           i3 == pd_idx(page)
           i4 == pt_idx(page)
           e1 == table[c][i1]
           e2 == table[e1.frame][i2]
           e3 == table[e2.frame][i3]
           e4 == table[e3.frame][i4]
           OfCode == i1 = a1 /\ i2 = a2 /\ i3 = a3 /\ i4 = a4
           OfStack == i1 = b1 /\ i2 = b2 /\ i3 = b3 /\ i4 = b4
<1>1. PICK p1, p2, p3, q1, q2, q3 \in DOMAIN table : Paths(table, c, code, stack, p1, p2, p3, q1, q2, q3)
  BY Zenon DEF TwoPaths
<1>2. /\ q1 = p1 => a1 = b1
      /\ q2 = p2 => q1 = p1 /\ a2 = b2
      /\ q3 = p3 => q2 = p2 /\ a3 = b3
      /\ Fork(table, UserHalf, c, c, a1, b1, p1, q1)
      /\ Fork(table, Entries, p1, q1, a2, b2, p2, q2)
      /\ Fork(table, Entries, p2, q2, a3, b3, p3, q3)
      /\ Fork(table, Entries, p3, q3, a4, b4, code, stack)
  BY <1>1, Zenon DEF Paths
<1>3. i1 \in UserHalf /\ i2 \in Entries /\ i3 \in Entries /\ i4 \in Entries
  BY EntryRange, Zenon DEF Entries, UserHalf
<1>4. PageAllows(c, page, w) <=> Allowed(e1, w) /\ Allowed(e2, w) /\ Allowed(e3, w) /\ Allowed(e4, w)
  BY Zenon DEF PageAllows, Allowed
<1>5. (page = CodePage => OfCode) /\ (page = StackPage => OfStack)
  BY Zenon
<1>6. (OfCode => page = CodePage) /\ (OfStack => page = StackPage)
  <2>1. /\ page \in 0 .. PagesPerRoot - 1 /\ CodePage \in 0 .. PagesPerRoot - 1
        /\ StackPage \in 0 .. PagesPerRoot - 1
    BY EntryRange, PagingConstants, Zenon
  <2> QED
    BY <2>1, EntriesTellPages, Zenon
<1> HIDE DEF a1, a2, a3, a4, b1, b2, b3, b4, i1, i2, i3, i4
<1>10. /\ GoesOn(table, c, c, a1, b1, p1, q1, i1, w) /\ GoesOn(table, p1, q1, a2, b2, p2, q2, i2, w)
       /\ GoesOn(table, p2, q2, a3, b3, p3, q3, i3, w) /\ GoesOn(table, p3, q3, a4, b4, code, stack, i4, w)
  BY <1>2, <1>3, ForkAllows, Zenon
<1>11. /\ i1 = a1 => Allowed(e1, w) /\ e1.frame = p1
       /\ i1 = b1 => Allowed(e1, w) /\ e1.frame = q1
       /\ Allowed(e1, w) => (i1 = a1 /\ e1.frame = p1) \/ (i1 = b1 /\ e1.frame = q1)
  BY <1>10, Zenon DEF GoesOn
<1>12. /\ i2 = a2 => Allowed(table[p1][i2], w) /\ table[p1][i2].frame = p2
       /\ i2 = b2 => Allowed(table[q1][i2], w) /\ table[q1][i2].frame = q2
       /\ Allowed(table[p1][i2], w) =>
             (i2 = a2 /\ table[p1][i2].frame = p2) \/ (q1 = p1 /\ i2 = b2 /\ table[p1][i2].frame = q2)
       /\ Allowed(table[q1][i2], w) =>
             (i2 = b2 /\ table[q1][i2].frame = q2) \/ (q1 = p1 /\ i2 = a2 /\ table[q1][i2].frame = p2)
  BY <1>10, Zenon DEF GoesOn
<1>13. /\ i3 = a3 => Allowed(table[p2][i3], w) /\ table[p2][i3].frame = p3
       /\ i3 = b3 => Allowed(table[q2][i3], w) /\ table[q2][i3].frame = q3
       /\ Allowed(table[p2][i3], w) =>
             (i3 = a3 /\ table[p2][i3].frame = p3) \/ (q2 = p2 /\ i3 = b3 /\ table[p2][i3].frame = q3)
       /\ Allowed(table[q2][i3], w) =>
             (i3 = b3 /\ table[q2][i3].frame = q3) \/ (q2 = p2 /\ i3 = a3 /\ table[q2][i3].frame = p3)
  BY <1>10, Zenon DEF GoesOn
<1>14. /\ i4 = a4 => Allowed(table[p3][i4], w)
       /\ i4 = b4 => Allowed(table[q3][i4], w)
       /\ Allowed(table[p3][i4], w) => i4 = a4 \/ (q3 = p3 /\ i4 = b4)
       /\ Allowed(table[q3][i4], w) => i4 = b4 \/ (q3 = p3 /\ i4 = a4)
  BY <1>10, Zenon DEF GoesOn
<1>15. OfCode => Allowed(e1, w) /\ Allowed(e2, w) /\ Allowed(e3, w) /\ Allowed(e4, w)
  BY <1>11, <1>12, <1>13, <1>14, Zenon
<1>16. OfStack => Allowed(e1, w) /\ Allowed(e2, w) /\ Allowed(e3, w) /\ Allowed(e4, w)
  BY <1>11, <1>12, <1>13, <1>14, Zenon
<1>17. ASSUME Allowed(e1, w), Allowed(e2, w), Allowed(e3, w), Allowed(e4, w) PROVE OfCode \/ OfStack
  <2>1. (i1 = a1 /\ e1.frame = p1) \/ (i1 = b1 /\ e1.frame = q1)
    BY <1>11, <1>17, Zenon
  <2> HIDE DEF e1
  <2>2. \/ i1 = a1 /\ i2 = a2 /\ e2.frame = p2
        \/ i1 = b1 /\ i2 = b2 /\ e2.frame = q2
    BY <1>2, <1>12, <1>17, <2>1, Zenon
  <2> HIDE DEF e2
  <2>3. \/ i1 = a1 /\ i2 = a2 /\ i3 = a3 /\ e3.frame = p3
        \/ i1 = b1 /\ i2 = b2 /\ i3 = b3 /\ e3.frame = q3
    BY <1>2, <1>13, <1>17, <2>2, Zenon
  <2> HIDE DEF e3
  <2> QED
    BY <1>2, <1>14, <1>17, <2>3, Zenon
<1> QED
  BY <1>4, <1>5, <1>6, <1>15, <1>16, <1>17, Zenon

\* The system calls' check of a range, in an address space that spawn_user made.
LEMMA RangeAllowed ==
    ASSUME NEW c, NEW code, NEW stack, TwoPaths(table, c, code, stack),
           NEW start \in Nat, NEW len \in Nat, NEW w
    PROVE  ValidateUserRange(c, start, len, w) <=>
              \A byte \in start .. start + len - 1 : byte \div PAGE_SIZE \in {CodePage, StackPage}
<1> DEFINE own == {CodePage, StackPage}
           end == start + len
<1>1. CASE len = 0
  <2>1. start .. start + len - 1 = {}
    BY <1>1
  <2> QED
    BY <1>1, <2>1, Zenon DEF ValidateUserRange
<1>2. CASE len # 0
  <2>0. len \in Nat \ {0}
    BY <1>2
  <2>1. (\A byte \in start .. start + len - 1 : byte \div PAGE_SIZE \in own) <=>
        (\A page \in start \div PAGE_SIZE .. LastPage(end) : page \in own)
    BY <2>0, RangePages, Zenon
  <2>2. ValidateUserRange(c, start, len, w) <=>
          /\ end < USIZE /\ end <= USER_SPACE_UPPER_BOUND + 1
          /\ \A page \in start \div PAGE_SIZE .. LastPage(end) : PageAllows(c, page, w)
    BY <1>2, Zenon DEF ValidateUserRange
  <2>3. /\ end - 1 \in Nat /\ (end - 1) + 1 = end /\ start \in start .. end - 1 /\ end - 1 \in start .. end - 1
        /\ start .. end - 1 \subseteq Nat /\ start + len - 1 = end - 1
    BY <1>2
  <2>4. (end - 1) \div PAGE_SIZE \in UserPages <=> end <= USER_SPACE_UPPER_BOUND + 1
    BY <2>3, UserByte, Zenon
  <2>5. USER_SPACE_UPPER_BOUND + 1 \in Nat
    <3>1. PagesPerRoot \in Nat
      BY PagingConstants DEF PagesPerRoot
    <3> DEFINE H == PagesPerRoot \div 2
    <3>2. H \in Nat
      BY <3>1
    <3> HIDE DEF H
    <3>3. H * PAGE_SIZE \in Nat
      BY <3>2, PagingConstants
    <3> QED
      BY <3>3 DEF USER_SPACE_UPPER_BOUND, H
  <2>6. end <= USER_SPACE_UPPER_BOUND + 1 => end < USIZE
    <3> DEFINE B == USER_SPACE_UPPER_BOUND + 1
    <3>1. B \in Nat /\ USIZE \in Nat /\ B < USIZE
      BY <2>5, PagingConstants, Zenon
    <3> HIDE DEF B
    <3> QED
      BY <3>1 DEF B
  <2>7. ASSUME end <= USER_SPACE_UPPER_BOUND + 1
        PROVE  \A page \in start \div PAGE_SIZE .. LastPage(end) : page \in UserPages
    <3>1. \A byte \in start .. end - 1 : byte \in Nat /\ byte + 1 <= end
      BY <2>3
    <3>2. \A byte \in start .. end - 1 : byte + 1 <= USER_SPACE_UPPER_BOUND + 1
      <4> DEFINE B == USER_SPACE_UPPER_BOUND + 1
      <4> HIDE DEF B
      <4> SUFFICES \A byte \in start .. end - 1 : byte + 1 <= B
        BY Zenon DEF B
      <4>1. B \in Nat /\ end <= B
        BY <2>5, <2>7, Zenon DEF B
      <4> QED
        BY <3>1, <4>1
    <3>3. \A byte \in start .. start + len - 1 : byte \div PAGE_SIZE \in UserPages
      <4> TAKE byte \in start .. start + len - 1
      <4>1. byte \in Nat /\ byte + 1 <= USER_SPACE_UPPER_BOUND + 1
        BY <2>3, <3>1, <3>2, Zenon
      <4> QED
        BY <4>1, UserByte, Zenon
    <3> QED
      BY <2>0, <3>3, RangePages, Zenon
  <2>8. ASSUME \A byte \in start .. start + len - 1 : byte \div PAGE_SIZE \in own
        PROVE  end <= USER_SPACE_UPPER_BOUND + 1
    <3>1. own \subseteq UserPages
      BY PagingConstants, Zenon
    <3>2. (end - 1) \div PAGE_SIZE \in own
      BY <2>3, <2>8, Zenon
    <3>3. (end - 1) \div PAGE_SIZE \in UserPages
      BY <3>1, <3>2, Zenon
    <3> QED
      BY <2>4, <3>3, Zenon
  <2>9. ASSUME end <= USER_SPACE_UPPER_BOUND + 1
        PROVE  (\A page \in start \div PAGE_SIZE .. LastPage(end) : PageAllows(c, page, w)) <=>
               (\A page \in start \div PAGE_SIZE .. LastPage(end) : page \in own)
    BY <2>7, <2>9, WalkAllows, Zenon
  <2> QED
    BY <2>1, <2>2, <2>6, <2>8, <2>9, Zenon
<1> QED
  BY <1>1, <1>2, Zenon

\* A fork, from what the second of its two entries left of the first.
LEMMA ForkMade ==
    ASSUME NEW U, NEW K, NEW p, NEW q, NEW i, NEW j, NEW pn, NEW qn,
           \A k \in K : U[p][k] = IF q = p /\ k = j THEN UserEntry(qn)
                                  ELSE IF k = i THEN UserEntry(pn) ELSE Absent,
           \A k \in K : U[q][k] = IF k = j THEN UserEntry(qn)
                                  ELSE IF q = p /\ k = i THEN UserEntry(pn) ELSE Absent,
           q = p /\ i = j => pn = qn
    PROVE  Fork(U, K, p, q, i, j, pn, qn)
<1> SUFFICES ASSUME NEW k \in K
             PROVE  U[p][k] = IF k = i THEN UserEntry(pn)
                              ELSE IF q = p /\ k = j THEN UserEntry(qn) ELSE Absent
  BY Zenon DEF Fork
<1>1. CASE k = i /\ q = p /\ k = j
  BY <1>1, Zenon
<1>2. CASE k # i
  BY <1>2, Zenon
<1>3. CASE k = i /\ ~(q = p /\ k = j)
  BY <1>3, Zenon
<1> QED
  BY <1>1, <1>2, <1>3, Zenon

\* The two maps of spawn_user make the two paths.
LEMMA MappedTwice ==
    ASSUME NEW m, NEW x, NEW n, NEW c \in DOMAIN m.table, NEW code, NEW stack,
           \A k \in UserHalf : m.table[c][k] = Absent,
           NEW p1, NEW p2, NEW p3, Mapped(m, x, c, CodePage, code, p1, p2, p3),
           NEW q1, NEW q2, NEW q3, Mapped(x, n, c, StackPage, stack, q1, q2, q3)
    PROVE  TwoPaths(n.table, c, code, stack)
<1> DEFINE a1 == pml4_idx(CodePage)
           a2 == pdpt_idx(CodePage)
           a3 == pd_idx(CodePage)
           a4 == pt_idx(CodePage)
           b1 == pml4_idx(StackPage)
           b2 == pdpt_idx(StackPage)
           b3 == pd_idx(StackPage)
           b4 == pt_idx(StackPage)
           M == m.table
           X == x.table
           N == n.table
           D == DOMAIN m.table
           E == DOMAIN x.table
<1>1. /\ E = D \cup {p1, p2, p3}
      /\ c # p1 /\ c # p2 /\ c # p3 /\ p1 # p2 /\ p1 # p3 /\ p2 # p3
      /\ \/ p1 \in D /\ M[c][a1] = UserEntry(p1)
         \/ p1 \notin D /\ M[c][a1] = Absent
      /\ \/ p1 \in D /\ p2 \in D /\ M[p1][a2] = UserEntry(p2)
         \/ p2 \notin D /\ (p1 \in D => M[p1][a2] = Absent)
      /\ \/ p2 \in D /\ p3 \in D /\ M[p2][a3] = UserEntry(p3)
         \/ p3 \notin D /\ (p2 \in D => M[p2][a3] = Absent)
  BY Zenon DEF Mapped
<1>2. \A h \in E : \A j \in Entries :
        X[h][j] = IF h = c /\ j = a1 THEN UserEntry(p1)
                  ELSE IF h = p1 /\ j = a2 THEN UserEntry(p2)
                  ELSE IF h = p2 /\ j = a3 THEN UserEntry(p3)
                  ELSE IF h = p3 /\ j = a4 THEN UserEntry(code)
                  ELSE IF h \in D THEN M[h][j] ELSE Absent
  BY Zenon DEF Mapped
<1>3. /\ DOMAIN N = E \cup {q1, q2, q3}
      /\ c # q1 /\ c # q2 /\ c # q3 /\ q1 # q2 /\ q1 # q3 /\ q2 # q3
      /\ \/ q1 \in E /\ X[c][b1] = UserEntry(q1)
         \/ q1 \notin E /\ X[c][b1] = Absent
      /\ \/ q1 \in E /\ q2 \in E /\ X[q1][b2] = UserEntry(q2)
         \/ q2 \notin E /\ (q1 \in E => X[q1][b2] = Absent)
      /\ \/ q2 \in E /\ q3 \in E /\ X[q2][b3] = UserEntry(q3)
         \/ q3 \notin E /\ (q2 \in E => X[q2][b3] = Absent)
  BY Zenon DEF Mapped
<1>4. \A h \in DOMAIN N : \A j \in Entries :
        N[h][j] = IF h = c /\ j = b1 THEN UserEntry(q1)
                  ELSE IF h = q1 /\ j = b2 THEN UserEntry(q2)
                  ELSE IF h = q2 /\ j = b3 THEN UserEntry(q3)
                  ELSE IF h = q3 /\ j = b4 THEN UserEntry(stack)
                  ELSE IF h \in E THEN X[h][j] ELSE Absent
  BY Zenon DEF Mapped
<1>5. /\ a1 \in UserHalf /\ b1 \in UserHalf /\ UserHalf \subseteq Entries
      /\ a2 \in Entries /\ a3 \in Entries /\ a4 \in Entries
      /\ b2 \in Entries /\ b3 \in Entries /\ b4 \in Entries
  <2>1. CodePage \in UserPages /\ StackPage \in UserPages
    BY PagingConstants, Zenon
  <2> QED
    BY <2>1, EntryRange, Zenon DEF Entries, UserHalf
<1>6. ~(a1 = b1 /\ a2 = b2 /\ a3 = b3 /\ a4 = b4)
  <2>1. /\ CodePage \in 0 .. PagesPerRoot - 1 /\ StackPage \in 0 .. PagesPerRoot - 1
        /\ CodePage # StackPage
    BY EntryRange, PagingConstants, Zenon
  <2> QED
    BY <2>1, EntriesTellPages, Zenon
<1> USE UserEntries
<1> HIDE DEF a1, a2, a3, a4, b1, b2, b3, b4, M, X, N, D, E
<1>7. c \in D /\ \A k \in UserHalf : M[c][k] = Absent
  BY Zenon DEF D, M
<1>8. p1 \notin D /\ p2 \notin D /\ p3 \notin D /\ p1 \in E /\ p2 \in E /\ p3 \in E /\ c \in E
  BY <1>1, <1>5, <1>7, Zenon
\* The tables after the first map.
<1>11. \A k \in UserHalf : X[c][k] = IF k = a1 THEN UserEntry(p1) ELSE Absent
  BY <1>1, <1>2, <1>5, <1>7, <1>8, Zenon
<1>12. \A k \in Entries : X[p1][k] = IF k = a2 THEN UserEntry(p2) ELSE Absent
  BY <1>1, <1>2, <1>8, Zenon
<1>13. \A k \in Entries : X[p2][k] = IF k = a3 THEN UserEntry(p3) ELSE Absent
  BY <1>1, <1>2, <1>8, Zenon
<1>14. \A k \in Entries : X[p3][k] = IF k = a4 THEN UserEntry(code) ELSE Absent
  BY <1>1, <1>2, <1>8, Zenon
\* Where the second map meets the first.
<1>21. (q1 \in E => q1 = p1 /\ a1 = b1) /\ (a1 = b1 => q1 = p1)
  <2>1. X[c][b1] = IF b1 = a1 THEN UserEntry(p1) ELSE Absent
    BY <1>5, <1>11, Zenon
  <2>2. CASE a1 = b1
    BY <1>3, <2>1, <2>2, Zenon
  <2>3. CASE a1 # b1
    BY <1>3, <2>1, <2>3, Zenon
  <2> QED
    BY <2>2, <2>3, Zenon
<1>22. (q2 \in E => q2 = p2 /\ q1 = p1 /\ a2 = b2) /\ (q1 = p1 /\ a2 = b2 => q2 = p2)
  <2>1. X[p1][b2] = IF b2 = a2 THEN UserEntry(p2) ELSE Absent
    BY <1>5, <1>12, Zenon
  <2>2. CASE q1 = p1 /\ a2 = b2
    BY <1>3, <1>8, <2>1, <2>2, Zenon
  <2>3. CASE q1 = p1 /\ a2 # b2
    BY <1>3, <1>8, <2>1, <2>3, Zenon
  <2>4. CASE q1 # p1
    BY <1>3, <1>21, <2>4, Zenon
  <2> QED
    BY <2>2, <2>3, <2>4, Zenon
<1>23. (q3 \in E => q3 = p3 /\ q2 = p2 /\ a3 = b3) /\ (q2 = p2 /\ a3 = b3 => q3 = p3)
  <2>1. X[p2][b3] = IF b3 = a3 THEN UserEntry(p3) ELSE Absent
    BY <1>5, <1>13, Zenon
  <2>2. CASE q2 = p2 /\ a3 = b3
    BY <1>3, <1>8, <2>1, <2>2, Zenon
  <2>3. CASE q2 = p2 /\ a3 # b3
    BY <1>3, <1>8, <2>1, <2>3, Zenon
  <2>4. CASE q2 # p2
    BY <1>3, <1>22, <2>4, Zenon
  <2> QED
    BY <2>2, <2>3, <2>4, Zenon
<1>24. p1 # q2 /\ p1 # q3 /\ p2 # q1 /\ p2 # q3 /\ p3 # q1 /\ p3 # q2
  BY <1>1, <1>8, <1>21, <1>22, <1>23, Zenon
<1>25. c \in DOMAIN N /\ p1 \in DOMAIN N /\ p2 \in DOMAIN N /\ p3 \in DOMAIN N
       /\ q1 \in DOMAIN N /\ q2 \in DOMAIN N /\ q3 \in DOMAIN N
  BY <1>3, <1>8, Zenon
\* The forks.
<1>31. Fork(N, UserHalf, c, c, a1, b1, p1, q1)
  <2>1. ASSUME NEW k \in UserHalf
        PROVE  N[c][k] = IF k = b1 THEN UserEntry(q1) ELSE IF k = a1 THEN UserEntry(p1) ELSE Absent
    <3>1. N[c][k] = IF k = b1 THEN UserEntry(q1) ELSE X[c][k]
      BY <1>3, <1>4, <1>5, <1>8, <1>25, Zenon
    <3> QED
      BY <1>11, <3>1, Zenon
  <2>2. \A k \in UserHalf : N[c][k] = IF c = c /\ k = b1 THEN UserEntry(q1)
                                      ELSE IF k = a1 THEN UserEntry(p1) ELSE Absent
    BY <2>1, Zenon
  <2>3. \A k \in UserHalf : N[c][k] = IF k = b1 THEN UserEntry(q1)
                                      ELSE IF c = c /\ k = a1 THEN UserEntry(p1) ELSE Absent
    BY <2>1, Zenon
  <2> QED
    BY <1>21, <2>2, <2>3, ForkMade, Zenon
<1>32. Fork(N, Entries, p1, q1, a2, b2, p2, q2)
  <2>1. ASSUME NEW k \in Entries
        PROVE  N[p1][k] = IF q1 = p1 /\ k = b2 THEN UserEntry(q2)
                          ELSE IF k = a2 THEN UserEntry(p2) ELSE Absent
    <3>1. N[p1][k] = IF q1 = p1 /\ k = b2 THEN UserEntry(q2) ELSE X[p1][k]
      BY <1>1, <1>4, <1>8, <1>24, <1>25, Zenon
    <3> QED
      BY <1>12, <3>1, Zenon
  <2>2. ASSUME NEW k \in Entries
        PROVE  N[q1][k] = IF k = b2 THEN UserEntry(q2)
                          ELSE IF q1 = p1 /\ k = a2 THEN UserEntry(p2) ELSE Absent
    <3>1. N[q1][k] = IF k = b2 THEN UserEntry(q2) ELSE IF q1 \in E THEN X[q1][k] ELSE Absent
      BY <1>3, <1>4, <1>25, Zenon
    <3>2. CASE q1 = p1
      BY <1>8, <1>12, <3>1, <3>2, Zenon
    <3>3. CASE q1 # p1
      BY <1>21, <3>1, <3>3, Zenon
    <3> QED
      BY <3>2, <3>3, Zenon
  <2> QED
    BY <1>22, <2>1, <2>2, ForkMade, Zenon
<1>33. Fork(N, Entries, p2, q2, a3, b3, p3, q3)
  <2>1. ASSUME NEW k \in Entries
        PROVE  N[p2][k] = IF q2 = p2 /\ k = b3 THEN UserEntry(q3)
                          ELSE IF k = a3 THEN UserEntry(p3) ELSE Absent
    <3>1. N[p2][k] = IF q2 = p2 /\ k = b3 THEN UserEntry(q3) ELSE X[p2][k]
      BY <1>1, <1>4, <1>8, <1>24, <1>25, Zenon
    <3> QED
      BY <1>13, <3>1, Zenon
  <2>2. ASSUME NEW k \in Entries
        PROVE  N[q2][k] = IF k = b3 THEN UserEntry(q3)
                          ELSE IF q2 = p2 /\ k = a3 THEN UserEntry(p3) ELSE Absent
    <3>1. N[q2][k] = IF k = b3 THEN UserEntry(q3) ELSE IF q2 \in E THEN X[q2][k] ELSE Absent
      BY <1>3, <1>4, <1>25, Zenon
    <3>2. CASE q2 = p2
      BY <1>8, <1>13, <3>1, <3>2, Zenon
    <3>3. CASE q2 # p2
      BY <1>22, <3>1, <3>3, Zenon
    <3> QED
      BY <3>2, <3>3, Zenon
  <2> QED
    BY <1>23, <2>1, <2>2, ForkMade, Zenon
<1>34. Fork(N, Entries, p3, q3, a4, b4, code, stack)
  <2>1. ASSUME NEW k \in Entries
        PROVE  N[p3][k] = IF q3 = p3 /\ k = b4 THEN UserEntry(stack)
                          ELSE IF k = a4 THEN UserEntry(code) ELSE Absent
    <3>1. N[p3][k] = IF q3 = p3 /\ k = b4 THEN UserEntry(stack) ELSE X[p3][k]
      BY <1>1, <1>4, <1>8, <1>24, <1>25, Zenon
    <3> QED
      BY <1>14, <3>1, Zenon
  <2>2. ASSUME NEW k \in Entries
        PROVE  N[q3][k] = IF k = b4 THEN UserEntry(stack)
                          ELSE IF q3 = p3 /\ k = a4 THEN UserEntry(code) ELSE Absent
    <3>1. N[q3][k] = IF k = b4 THEN UserEntry(stack) ELSE IF q3 \in E THEN X[q3][k] ELSE Absent
      BY <1>3, <1>4, <1>25, Zenon
    <3>2. CASE q3 = p3
      BY <1>8, <1>14, <3>1, <3>2, Zenon
    <3>3. CASE q3 # p3
      BY <1>23, <3>1, <3>3, Zenon
    <3> QED
      BY <3>2, <3>3, Zenon
  <2>3. ~(q3 = p3 /\ a4 = b4)
    BY <1>6, <1>8, <1>21, <1>22, <1>23, Zenon
  <2> QED
    BY <2>1, <2>2, <2>3, ForkMade, Zenon
<1>35. /\ q1 = p1 => a1 = b1
       /\ q2 = p2 => q1 = p1 /\ a2 = b2
       /\ q3 = p3 => q2 = p2 /\ a3 = b3
  BY <1>8, <1>21, <1>22, <1>23, Zenon
<1>36. {c, p1, p2, p3, q1, q2, q3} \subseteq DOMAIN N
  BY <1>25, Zenon
<1>37. Paths(N, c, code, stack, p1, p2, p3, q1, q2, q3)
  BY <1>31, <1>32, <1>33, <1>34, <1>35, <1>36, Zenon DEF Paths, a1, a2, a3, a4, b1, b2, b3, b4
<1> QED
  BY <1>25, <1>37, Zenon DEF TwoPaths, N

\* allocate_frame keeps the tables.
LEMMA AllocatedIs ==
    ASSUME usable_end \in Nat, NEW T, NEW n0 \in Nat, NEW m, Since(T, n0, m)
    PROVE  LET n == Allocated(m)
           IN  /\ Since(T, n0, n) /\ n.table = m.table
               /\ \/ n.failed
                  \/ n.failed = m.failed /\ m.free < usable_end /\ n.free = m.free + 1
<1> DEFINE n == Allocated(m)
           a == m.free
           t == m.table
           b == m.failed
<1>1. /\ IsMemory(m) /\ b \in BOOLEAN /\ a \in Nat /\ n0 <= a /\ a <= usable_end /\ Tables(t)
      /\ \A h \in DOMAIN T : h \in DOMAIN t /\ t[h] = T[h]
      /\ \A g \in DOMAIN t : g \in DOMAIN T \/ (g \in Nat /\ n0 <= g /\ g < a)
  BY Zenon DEF Since
<1>2. CASE NoFrame(m)
  <2>1. n = [free |-> a, table |-> t, failed |-> TRUE]
    BY <1>1, <1>2, AddTable, Zenon
  <2> HIDE DEF n, a, t, b
  <2>2. n.free = a /\ n.table = t /\ n.failed = TRUE
    BY <2>1
  <2>3. Since(T, n0, n)
    BY <1>1, <2>1, <2>2, Zenon DEF Since, IsMemory
  <2> QED
    BY <2>2, <2>3, Zenon DEF n, t
<1>3. CASE ~NoFrame(m)
  <2>1. n = [free |-> a + 1, table |-> t, failed |-> b]
    BY <1>1, <1>3, AddTable, Zenon
  <2>2. a < usable_end
    BY <1>1, <1>3 DEF NoFrame
  <2> HIDE DEF n, a, t, b
  <2>3. n.free = a + 1 /\ n.table = t /\ n.failed = b
    BY <2>1
  <2>4. a + 1 \in Nat /\ n0 <= a + 1 /\ a + 1 <= usable_end /\ \A g \in Nat : g < a => g < a + 1
    BY <1>1, <2>2
  <2>5. \A g \in DOMAIN t : g \in DOMAIN T \/ (g \in Nat /\ n0 <= g /\ g < a + 1)
    BY <1>1, <2>4, Zenon
  <2>6. IsMemory(n)
    BY <2>1, <2>3, Zenon DEF IsMemory
  <2>7. Since(T, n0, n)
    BY <1>1, <2>3, <2>4, <2>5, <2>6, Zenon DEF Since
  <2> QED
    BY <2>2, <2>3, <2>7, Zenon DEF n, t, a, b
<1> QED
  BY <1>2, <1>3, Zenon

\* new_address_space fails, or makes the next frame a root whose lower half
\* leads nowhere.
LEMMA NewSpaceIs ==
    ASSUME usable_end \in Nat, next_free \in Nat, next_free <= usable_end, Tables(table),
           Room(table, next_free)
    PROVE  LET n == NewAddressSpace(Memory)
           IN  /\ Since(table, next_free, n)
               /\ \/ n.failed
                  \/ /\ ~n.failed /\ n.free = next_free + 1 /\ next_free < usable_end
                     /\ DOMAIN n.table = DOMAIN table \cup {next_free}
                     /\ \A k \in UserHalf : n.table[next_free][k] = Absent
<1> DEFINE n == NewAddressSpace(Memory)
           a == next_free
           root == [i \in 0 .. Fanout - 1 |->
                      IF i >= Fanout \div 2 THEN table[KernelFrame][i] ELSE Absent]
<1>1. Memory.free = a /\ Memory.table = table /\ Memory.failed = FALSE
  BY DEF Memory
<1>2. IsMemory(Memory)
  BY <1>1, Zenon DEF IsMemory, Memory
<1>3. a <= a
  OBVIOUS
<1>4. Since(table, a, Memory)
  BY <1>1, <1>2, <1>3, Zenon DEF Since
<1>5. CASE NoFrame(Memory)
  <2>1. n = [free |-> a, table |-> table, failed |-> TRUE]
    BY <1>1, <1>2, <1>5, AddTable, Zenon DEF NewAddressSpace
  <2> HIDE DEF n
  <2>2. n.free = a /\ n.table = table /\ n.failed = TRUE
    BY <2>1
  <2>3. IsMemory(n)
    BY <2>1, <2>2, Zenon DEF IsMemory
  <2>4. Since(table, a, n) /\ n.failed
    BY <1>3, <2>2, <2>3, Zenon DEF Since
  <2> QED
    BY <2>4, Zenon DEF n
<1>6. CASE ~NoFrame(Memory)
  <2> DEFINE w == [g \in DOMAIN table \cup {a} |-> IF g = a THEN root ELSE table[g]]
  <2>1. n = [free |-> a + 1, table |-> w, failed |-> FALSE]
    <3>1. n = WithTable(Allocated(Memory), a, root)
      BY <1>1, <1>6, Zenon DEF NewAddressSpace
    <3> HIDE DEF n, root
    <3> QED
      BY <1>1, <1>2, <1>6, <3>1, AddTable, Zenon
  <2>2. a < usable_end /\ a \notin DOMAIN table
    BY <1>1, <1>4, <1>6, FreeIsFresh, Zenon
  <2>3. /\ DOMAIN w = DOMAIN table \cup {a} /\ w = [g \in DOMAIN w |-> w[g]]
        /\ w[a] = root /\ \A h \in DOMAIN table : w[h] = table[h]
    BY <2>2, Zenon
  <2>4. root = [i \in Entries |-> root[i]]
    BY Zenon DEF Entries
  <2>5. \A k \in UserHalf : root[k] = Absent
    <3> SUFFICES ASSUME NEW k \in UserHalf PROVE root[k] = Absent
      BY Zenon
    <3>1. k \in 0 .. Fanout - 1 /\ k < Fanout \div 2
      BY Zenon DEF UserHalf, Entries
    <3>2. ~(k >= Fanout \div 2)
      BY <3>1, PagingConstants
    <3> QED
      BY <3>1, <3>2, Zenon
  <2> HIDE DEF w, n, root
  <2>6. n.free = a + 1 /\ n.table = w /\ n.failed = FALSE
    BY <2>1
  <2>7. IsMemory(n)
    BY <2>1, <2>6, Zenon DEF IsMemory
  <2>8. ASSUME NEW h \in DOMAIN w PROVE w[h] = [i \in Entries |-> w[h][i]]
    <3>1. CASE h = a
      BY <2>3, <2>4, <3>1, Zenon
    <3>2. CASE h \in DOMAIN table
      BY <2>3, <3>2, Zenon DEF Tables
    <3> QED
      BY <2>3, <3>1, <3>2, Zenon
  <2>9. Tables(w)
    BY <2>3, <2>8, Zenon DEF Tables
  <2>10. a + 1 \in Nat /\ a <= a + 1 /\ a + 1 <= usable_end /\ a < a + 1
    BY <2>2
  <2>11. \A g \in DOMAIN w : g \in DOMAIN table \/ (g \in Nat /\ a <= g /\ g < a + 1)
    BY <1>3, <2>3, <2>10, Zenon
  <2>12. Since(table, a, n)
    BY <2>3, <2>6, <2>7, <2>9, <2>10, <2>11, Zenon DEF Since
  <2> QED
    BY <2>2, <2>3, <2>5, <2>6, <2>12, Zenon DEF n
<1> QED
  BY <1>5, <1>6, Zenon

\* The steps of spawn_user: the root and two frames, the code mapped, the
\* stack mapped.
framed == Allocated(Allocated(NewAddressSpace(Memory)))
coded == IF framed.failed THEN framed ELSE MapPageUser(framed, next_free, CodePage, next_free + 1)
done == IF coded.failed THEN coded ELSE MapPageUser(coded, next_free, StackPage, next_free + 2)

\* spawn_user fails, or leaves an address space with the two paths and two
\* frames that are no tables; the tables that were there stay as they are.
LEMMA SpawnDone ==
    ASSUME usable_end \in Nat, next_free \in Nat, next_free <= usable_end, Tables(table),
           Room(table, next_free)
    PROVE  /\ Since(table, next_free, done)
           /\ \/ done.failed = TRUE
              \/ /\ done.failed = FALSE /\ next_free + 2 < done.free
                 /\ next_free + 1 \notin DOMAIN done.table /\ next_free + 2 \notin DOMAIN done.table
                 /\ TwoPaths(done.table, next_free, next_free + 1, next_free + 2)
<1> DEFINE T == table
           a == next_free
           m1 == NewAddressSpace(Memory)
           m2 == Allocated(m1)
           m3 == Allocated(m2)
<1>0. framed = m3
  BY Zenon DEF framed
<1>1. /\ Since(T, a, m1)
      /\ \/ m1.failed
         \/ /\ ~m1.failed /\ m1.free = a + 1 /\ a < usable_end
            /\ DOMAIN m1.table = DOMAIN T \cup {a}
            /\ \A k \in UserHalf : m1.table[a][k] = Absent
  BY NewSpaceIs, Zenon
<1> HIDE DEF m1
<1>2. /\ Since(T, a, m2) /\ m2.table = m1.table
      /\ m2.failed \/ (m2.failed = m1.failed /\ m1.free < usable_end /\ m2.free = m1.free + 1)
  BY <1>1, AllocatedIs, Zenon
<1> HIDE DEF m2
<1>3. /\ Since(T, a, m3) /\ m3.table = m2.table
      /\ m3.failed \/ (m3.failed = m2.failed /\ m2.free < usable_end /\ m3.free = m2.free + 1)
  BY <1>2, AllocatedIs, Zenon
<1> HIDE DEF m3
<1>4. CASE m3.failed
  <2>1. coded = m3 /\ done = m3
    BY <1>0, <1>4, Zenon DEF coded, done
  <2>2. m3.failed = TRUE
    BY <1>3, <1>4, Zenon DEF Since
  <2> QED
    BY <1>3, <2>1, <2>2, Zenon
<1>5. CASE ~m3.failed
  <2>1. ~m1.failed /\ ~m2.failed
    BY <1>2, <1>3, <1>5, Zenon
  <2>2. /\ m3.free = a + 3 /\ a < usable_end /\ a + 1 < usable_end /\ a + 2 < usable_end
    <3>1. m1.free = a + 1 /\ a < usable_end /\ m1.free < usable_end /\ m2.free = m1.free + 1
          /\ m2.free < usable_end /\ m3.free = m2.free + 1
      BY <1>1, <1>2, <1>3, <1>5, <2>1, Zenon
    <3> QED
      BY <3>1
  <2>3. DOMAIN m3.table = DOMAIN T \cup {a} /\ \A k \in UserHalf : m3.table[a][k] = Absent
    BY <1>1, <1>2, <1>3, <2>1, Zenon
  <2>4. a \notin DOMAIN T /\ a + 1 \notin DOMAIN T /\ a + 2 \notin DOMAIN T
    <3>1. /\ a <= a /\ a + 1 \in Nat /\ a <= a + 1 /\ a + 2 \in Nat /\ a <= a + 2
      OBVIOUS
    <3> QED
      BY <2>2, <3>1, Zenon DEF Room
  <2>5. CodePage \in UserPages /\ StackPage \in UserPages
    BY PagingConstants, Zenon
  <2>6. pml4_idx(CodePage) \in UserHalf /\ pml4_idx(StackPage) \in UserHalf /\ UserHalf \subseteq Entries
    BY <2>5, EntryRange, Zenon DEF UserHalf, Entries
  <2>7. Levels(T, m3.table, a, CodePage, {}, {}, {})
    <3>1. Leads(m3.table, a, pml4_idx(CodePage), {})
      BY <2>3, <2>6, Zenon DEF Leads
    <3> QED
      BY <2>3, <2>4, <3>1, Zenon DEF Levels
  <2> DEFINE x == MapPageUser(m3, a, CodePage, a + 1)
  <2>8. coded = x
    BY <1>0, <1>5, Zenon DEF coded
  <2>9. /\ Since(T, a, x)
        /\ x.failed \/ \E p1, p2, p3 : Mapped(m3, x, a, CodePage, a + 1, p1, p2, p3)
    BY <1>3, <1>5, <2>5, <2>7, MapPageMaps, Zenon
  <2> HIDE DEF x
  <2>10. CASE x.failed
    <3>1. done = x
      BY <2>8, <2>10, Zenon DEF done
    <3>2. x.failed = TRUE
      BY <2>9, <2>10, Zenon DEF Since
    <3> QED
      BY <2>9, <3>1, <3>2, Zenon
  <2>11. CASE \E p1, p2, p3 : Mapped(m3, x, a, CodePage, a + 1, p1, p2, p3)
    <3>1. PICK p1, p2, p3 : Mapped(m3, x, a, CodePage, a + 1, p1, p2, p3)
      BY <2>11, Zenon
    <3> DEFINE n == MapPageUser(x, a, StackPage, a + 2)
               D == DOMAIN m3.table
    <3>2. ~x.failed /\ DOMAIN x.table = D \cup {p1, p2, p3}
      BY <3>1, Zenon DEF Mapped
    <3>3. done = n
      BY <2>8, <3>2, Zenon DEF done
    <3>4. a \in D /\ m3.table[a][pml4_idx(CodePage)] = Absent
      BY <2>3, <2>6, Zenon
    <3>5. /\ a # p1 /\ a # p2 /\ a # p3 /\ p1 # p2 /\ p1 # p3 /\ p2 # p3
          /\ p1 \notin D /\ p2 \notin D /\ p3 \notin D
      BY <3>1, <3>4, UserEntries, Zenon DEF Mapped
    <3>6. \A h \in DOMAIN x.table : \A j \in Entries :
            x.table[h][j] = IF h = a /\ j = pml4_idx(CodePage) THEN UserEntry(p1)
                            ELSE IF h = p1 /\ j = pdpt_idx(CodePage) THEN UserEntry(p2)
                            ELSE IF h = p2 /\ j = pd_idx(CodePage) THEN UserEntry(p3)
                            ELSE IF h = p3 /\ j = pt_idx(CodePage) THEN UserEntry(a + 1)
                            ELSE IF h \in D THEN m3.table[h][j] ELSE Absent
      BY <3>1, Zenon DEF Mapped
    <3>7. pdpt_idx(StackPage) \in Entries /\ pd_idx(StackPage) \in Entries
      BY <2>5, EntryRange, Zenon DEF Entries
    <3>8. Leads(x.table, a, pml4_idx(StackPage), {p1})
      <4>1. x.table[a][pml4_idx(StackPage)] = UserEntry(p1)
            \/ x.table[a][pml4_idx(StackPage)] = m3.table[a][pml4_idx(StackPage)]
        BY <2>6, <3>2, <3>4, <3>5, <3>6, Zenon
      <4> QED
        BY <2>3, <2>6, <4>1, Zenon DEF Leads
    <3>9. Leads(x.table, p1, pdpt_idx(StackPage), {p2})
      <4>1. x.table[p1][pdpt_idx(StackPage)] = UserEntry(p2) \/ x.table[p1][pdpt_idx(StackPage)] = Absent
        BY <3>2, <3>5, <3>6, <3>7, Zenon
      <4> QED
        BY <4>1, Zenon DEF Leads
    <3>10. Leads(x.table, p2, pd_idx(StackPage), {p3})
      <4>1. x.table[p2][pd_idx(StackPage)] = UserEntry(p3) \/ x.table[p2][pd_idx(StackPage)] = Absent
        BY <3>2, <3>5, <3>6, <3>7, Zenon
      <4> QED
        BY <4>1, Zenon DEF Leads
    <3>11. Levels(T, x.table, a, StackPage, {p1}, {p2}, {p3})
      <4>1. p1 \notin DOMAIN T /\ p2 \notin DOMAIN T /\ p3 \notin DOMAIN T
        BY <2>3, <3>5, Zenon
      <4> QED
        BY <2>4, <3>2, <3>4, <3>5, <3>8, <3>9, <3>10, <4>1, Zenon DEF Levels
    <3>12. /\ Since(T, a, n)
           /\ n.failed \/ \E q1, q2, q3 : Mapped(x, n, a, StackPage, a + 2, q1, q2, q3)
      BY <2>5, <2>9, <3>2, <3>11, MapPageMaps, Zenon
    <3> HIDE DEF n
    <3>13. CASE n.failed
      <4>1. n.failed = TRUE
        BY <3>12, <3>13, Zenon DEF Since
      <4> QED
        BY <3>3, <3>12, <4>1, Zenon
    <3>14. CASE \E q1, q2, q3 : Mapped(x, n, a, StackPage, a + 2, q1, q2, q3)
      <4>1. PICK q1, q2, q3 : Mapped(x, n, a, StackPage, a + 2, q1, q2, q3)
        BY <3>14, Zenon
      <4>2. TwoPaths(n.table, a, a + 1, a + 2)
        BY <2>3, <3>1, <3>4, <4>1, MappedTwice, Zenon
      <4>3. n.failed = FALSE
        BY <3>12, <4>1, Zenon DEF Mapped, Since
      <4>4. DOMAIN n.table = D \cup {p1, p2, p3, q1, q2, q3}
        <5>1. DOMAIN n.table = DOMAIN x.table \cup {q1, q2, q3}
          BY <4>1, Zenon DEF Mapped
        <5> QED
          BY <3>2, <5>1, Zenon
      <4>5. \A p \in {p1, p2, p3} : p \in Nat /\ a + 3 <= p
        BY <2>2, <3>1, <3>5, Zenon DEF Mapped
      <4>6. a + 3 <= x.free /\ x.free \in Nat
        <5>1. p1 \in DOMAIN x.table /\ p1 \notin DOMAIN T
          BY <2>3, <3>2, <3>5, Zenon
        <5>2. p1 < x.free /\ p1 \in Nat /\ x.free \in Nat
          BY <2>9, <5>1, Zenon DEF Since
        <5>3. a + 3 <= p1
          BY <4>5, Zenon
        <5> QED
          BY <5>2, <5>3
      <4>7. \A q \in {q1, q2, q3} : q \in DOMAIN x.table \/ (q \in Nat /\ x.free <= q)
        BY <4>1, Zenon DEF Mapped
      <4>8. \A q \in {q1, q2, q3} : q \in D \/ (q \in Nat /\ a + 3 <= q)
        <5>1. \A q \in Nat : x.free <= q => a + 3 <= q
          BY <4>6
        <5> QED
          BY <3>2, <4>5, <4>7, <5>1, Zenon
      <4>9. \A h \in DOMAIN n.table : h \in D \/ (h \in Nat /\ a + 3 <= h)
        BY <4>4, <4>5, <4>8, Zenon
      <4>10. /\ a + 1 # a /\ a + 2 # a /\ ~(a + 3 <= a + 1) /\ ~(a + 3 <= a + 2)
        OBVIOUS
      <4>11. a + 1 \notin DOMAIN n.table /\ a + 2 \notin DOMAIN n.table
        BY <2>3, <2>4, <4>9, <4>10, Zenon
      <4>12. a + 2 < n.free
        <5>1. p1 \in DOMAIN n.table /\ p1 \notin DOMAIN T
          BY <2>3, <3>5, <4>4, Zenon
        <5>2. p1 < n.free /\ p1 \in Nat /\ n.free \in Nat
          BY <3>12, <5>1, Zenon DEF Since
        <5>3. a + 3 <= p1
          BY <4>5, Zenon
        <5> QED
          BY <5>2, <5>3
      <4> QED
        BY <3>3, <3>12, <4>2, <4>3, <4>11, <4>12, ZenonT(60)
    <3> QED
      BY <3>12, <3>13, <3>14, Zenon
  <2> QED
    BY <2>9, <2>10, <2>11, Zenon
<1> QED
  BY <1>4, <1>5, Zenon

\* Tables that stay as they are keep the paths through them.
LEMMA PathsStay ==
    ASSUME NEW T, NEW U, \A h \in DOMAIN T : h \in DOMAIN U /\ U[h] = T[h],
           NEW c, NEW code, NEW stack, TwoPaths(T, c, code, stack)
    PROVE  TwoPaths(U, c, code, stack)
<1>1. PICK p1, p2, p3, q1, q2, q3 \in DOMAIN T : Paths(T, c, code, stack, p1, p2, p3, q1, q2, q3)
  BY Zenon DEF TwoPaths
<1>2. \A K, p, q, i, j, pn, qn :
        p \in DOMAIN T /\ q \in DOMAIN T /\ Fork(T, K, p, q, i, j, pn, qn) => Fork(U, K, p, q, i, j, pn, qn)
  <2> SUFFICES ASSUME NEW K, NEW p \in DOMAIN T, NEW q \in DOMAIN T, NEW i, NEW j, NEW pn, NEW qn,
                      Fork(T, K, p, q, i, j, pn, qn)
               PROVE  Fork(U, K, p, q, i, j, pn, qn)
    BY Zenon
  <2>1. U[p] = T[p] /\ U[q] = T[q]
    BY Zenon
  <2> QED
    BY <2>1, Zenon DEF Fork
<1>3. c \in DOMAIN T
  BY <1>1, Zenon DEF Paths
<1>4. Paths(U, c, code, stack, p1, p2, p3, q1, q2, q3)
  <2>1. {c, p1, p2, p3, q1, q2, q3} \subseteq DOMAIN U
    BY <1>1, <1>3, Zenon
  <2> QED
    BY <1>1, <1>2, <1>3, <2>1, Zenon DEF Paths
<1> QED
  BY <1>1, <1>4, Zenon DEF TwoPaths

\* The region of the allocator, in which the boot loader's tables are not.
LEMMA RegionIs ==
    ASSUME memmap \in MemoryMaps
    PROVE  LET r == LargestRegion(memmap)
           IN  /\ r[1] \in Nat /\ r[2] \in Nat /\ r[1] <= r[2]
               /\ ~(r[1] <= KernelFrame /\ KernelFrame < r[2])
               /\ \A k \in 1 .. Len(memmap) : memmap[k][2] - memmap[k][1] <= r[2] - r[1]
<1> DEFINE r == LargestRegion(memmap)
<1>0. memmap \in Seq(Nat \X Nat) /\ KernelFrame \in Nat
  BY PagingConstants, Zenon
<1>1. /\ r \in Nat \X Nat /\ r[1] <= r[2]
      /\ r = <<0, 0>> \/ \E k \in 1 .. Len(memmap) : r = memmap[k]
      /\ \A k \in 1 .. Len(memmap) : memmap[k][2] - memmap[k][1] <= r[2] - r[1]
  BY <1>0, LargestIsRegion, Zenon
<1> HIDE DEF r
<1>2. r[1] \in Nat /\ r[2] \in Nat
  BY <1>1
<1>3. ~(r[1] <= KernelFrame /\ KernelFrame < r[2])
  <2>1. CASE r = <<0, 0>>
    BY <1>0, <2>1
  <2>2. CASE \E k \in 1 .. Len(memmap) : r = memmap[k]
    <3>1. PICK k \in 1 .. Len(memmap) : r = memmap[k]
      BY <2>2, Zenon
    <3>2. KernelFrame \notin memmap[k][1] .. memmap[k][2] - 1
      BY PagingConstants, Zenon
    <3>3. KernelFrame \notin r[1] .. r[2] - 1
      BY <3>1, <3>2, Zenon
    <3> QED
      BY <1>0, <1>2, <3>3
  <2> QED
    BY <1>1, <2>1, <2>2, Zenon
<1> QED
  BY <1>1, <1>2, <1>3, Zenon DEF r

\* The frames that are still free are no tables.
LEMMA RoomLeft ==
    ASSUME PagingInv
    PROVE  Room(table, next_free) /\ usable_end \in Nat
<1> DEFINE a == LargestRegion(memmap)[1]
<1>1. /\ memmap \in MemoryMaps /\ usable_end = LargestRegion(memmap)[2]
      /\ next_free \in Nat /\ a <= next_free
      /\ \A f \in DOMAIN table : f = KernelFrame \/ (f \in Nat /\ a <= f /\ f < next_free)
  BY Zenon DEF PagingInv
<1>2. a \in Nat /\ usable_end \in Nat /\ ~(a <= KernelFrame /\ KernelFrame < usable_end)
  BY <1>1, RegionIs, Zenon
<1> HIDE DEF a
<1>3. ASSUME NEW g \in Nat, next_free <= g, g < usable_end PROVE g \notin DOMAIN table
  <2>1. a <= g /\ ~(g < next_free)
    BY <1>1, <1>2, <1>3
  <2> QED
    BY <1>1, <1>2, <1>3, <2>1, Zenon
<1> QED
  BY <1>2, <1>3, Zenon DEF Room

\* The allocator starts in its region, with the boot loader's table.
LEMMA PagingInitInv == PagingInit => PagingInv
<1> SUFFICES ASSUME PagingInit PROVE PagingInv
  OBVIOUS
<1> DEFINE a == LargestRegion(memmap)[1]
           e == [i \in 0 .. Fanout - 1 |-> IF i >= Fanout \div 2 THEN KernelEntry ELSE Absent]
<1>1. /\ memmap \in MemoryMaps /\ next_free = a /\ usable_end = LargestRegion(memmap)[2]
      /\ table = [f \in {KernelFrame} |-> e] /\ spaces = << >>
  BY Zenon DEF PagingInit
<1>2. a \in Nat /\ usable_end \in Nat /\ a <= usable_end
  BY <1>1, RegionIs, Zenon
<1>3. DOMAIN table = {KernelFrame} /\ table[KernelFrame] = e
  BY <1>1, Zenon
<1>4. e = [i \in Entries |-> e[i]]
  BY Zenon DEF Entries
<1> HIDE DEF a, e
<1>5. table = [f \in DOMAIN table |-> table[f]]
  BY <1>1, <1>3, Zenon
<1>6. Tables(table)
  BY <1>3, <1>4, <1>5, Zenon DEF Tables
<1>7. a <= next_free
  BY <1>1, <1>2
<1>8. spaces \in Seq([cr3 : Nat, code : Nat, stack : Nat]) /\ DOMAIN spaces = {}
  BY <1>1
<1> QED
  BY <1>1, <1>2, <1>3, <1>6, <1>7, <1>8, Zenon DEF PagingInv, a

\* The frames of an address space.
LEMMA SpaceIs ==
    ASSUME NEW S \in Seq([cr3 : Nat, code : Nat, stack : Nat]), NEW s \in DOMAIN S
    PROVE  s \in Nat /\ S[s].cr3 \in Nat /\ S[s].code \in Nat /\ S[s].stack \in Nat
<1> DEFINE R == [cr3 : Nat, code : Nat, stack : Nat]
<1>0. S \in Seq(R)
  BY Zenon
<1> HIDE DEF R
<1>1. DOMAIN S = 1 .. Len(S) /\ Len(S) \in Nat
  BY <1>0
<1>2. s \in 1 .. Len(S)
  BY <1>1, Zenon
<1>3. S[s] \in R /\ s \in Nat
  BY <1>0, <1>1, <1>2
<1>4. \A r \in R : r.cr3 \in Nat /\ r.code \in Nat /\ r.stack \in Nat
  BY DEF R
<1> QED
  BY <1>3, <1>4, Zenon

\* spawn_user, whether it panics or not, keeps the paths of earlier tasks and
\* takes its frames from what is left.
LEMMA SpawnInv == PagingInv /\ SpawnUser => PagingInv'
<1> SUFFICES ASSUME PagingInv, SpawnUser PROVE PagingInv'
  OBVIOUS
<1> DEFINE a == LargestRegion(memmap)[1]
           n0 == next_free
           new == [cr3 |-> n0, code |-> n0 + 1, stack |-> n0 + 2]
           N == done.table
<1>1. /\ memmap \in MemoryMaps /\ usable_end = LargestRegion(memmap)[2]
      /\ n0 \in Nat /\ a <= n0 /\ n0 <= usable_end /\ Tables(table) /\ KernelFrame \in DOMAIN table
      /\ \A f \in DOMAIN table : f = KernelFrame \/ (f \in Nat /\ a <= f /\ f < n0)
      /\ spaces \in Seq([cr3 : Nat, code : Nat, stack : Nat])
      /\ \A s, t \in DOMAIN spaces : s < t => spaces[s].stack < spaces[t].cr3
  BY Zenon DEF PagingInv
<1>2. ASSUME NEW s \in DOMAIN spaces
      PROVE  /\ a <= spaces[s].cr3 /\ spaces[s].code = spaces[s].cr3 + 1
             /\ spaces[s].stack = spaces[s].cr3 + 2 /\ spaces[s].stack < n0
             /\ spaces[s].code \notin DOMAIN table /\ spaces[s].stack \notin DOMAIN table
             /\ TwoPaths(table, spaces[s].cr3, spaces[s].code, spaces[s].stack)
  BY Zenon DEF PagingInv
<1>3. a \in Nat /\ usable_end \in Nat /\ Room(table, n0)
  BY <1>1, RegionIs, RoomLeft, Zenon
<1>4. /\ Since(table, n0, done)
      /\ \/ done.failed = TRUE
         \/ /\ done.failed = FALSE /\ n0 + 2 < done.free
            /\ n0 + 1 \notin DOMAIN N /\ n0 + 2 \notin DOMAIN N
            /\ TwoPaths(N, n0, n0 + 1, n0 + 2)
  BY <1>1, <1>3, SpawnDone, Zenon
<1>5. /\ next_free' = done.free /\ table' = done.table
      /\ spaces' = (IF done.failed THEN spaces ELSE Append(spaces, new))
      /\ memmap' = memmap /\ usable_end' = usable_end
  BY Zenon DEF SpawnUser, done, coded, framed
<1>6. /\ done.free \in Nat /\ n0 <= done.free /\ done.free <= usable_end /\ Tables(N)
      /\ \A h \in DOMAIN table : h \in DOMAIN N /\ N[h] = table[h]
      /\ \A g \in DOMAIN N : g \in DOMAIN table \/ (g \in Nat /\ n0 <= g /\ g < done.free)
  BY <1>4, Zenon DEF Since
<1>7. a <= done.free
  BY <1>1, <1>3, <1>6
<1>8. \A f \in DOMAIN N : f = KernelFrame \/ (f \in Nat /\ a <= f /\ f < done.free)
  <2>1. \A f \in Nat : (f < n0 => f < done.free) /\ (n0 <= f => a <= f)
    BY <1>1, <1>3, <1>6
  <2> QED
    BY <1>1, <1>6, <2>1, Zenon
<1>9. LargestRegion(memmap') = LargestRegion(memmap)
  BY <1>5, Zenon
<1>10. \A s \in DOMAIN spaces : spaces[s].cr3 \in Nat /\ spaces[s].code \in Nat /\ spaces[s].stack \in Nat
  BY <1>1, SpaceIs, Zenon
<1>11. ASSUME NEW s \in DOMAIN spaces
       PROVE  /\ a <= spaces[s].cr3 /\ spaces[s].code = spaces[s].cr3 + 1
              /\ spaces[s].stack = spaces[s].cr3 + 2 /\ spaces[s].stack < done.free
              /\ spaces[s].code \notin DOMAIN N /\ spaces[s].stack \notin DOMAIN N
              /\ TwoPaths(N, spaces[s].cr3, spaces[s].code, spaces[s].stack)
  <2> DEFINE x == spaces[s].cr3
             y == spaces[s].code
             z == spaces[s].stack
  <2>1. /\ a <= x /\ y = x + 1 /\ z = x + 2 /\ z < n0 /\ y \notin DOMAIN table /\ z \notin DOMAIN table
        /\ TwoPaths(table, x, y, z)
    BY <1>2, Zenon
  <2>2. x \in Nat /\ y \in Nat /\ z \in Nat
    BY <1>10, Zenon
  <2> HIDE DEF x, y, z
  <2>3. z < done.free /\ ~(n0 <= y) /\ ~(n0 <= z)
    <3> DEFINE d == done.free
    <3>1. n0 \in Nat /\ d \in Nat /\ n0 <= d /\ y = x + 1 /\ z = x + 2 /\ z < n0
      BY <1>1, <1>6, <2>1, Zenon
    <3> HIDE DEF d, n0
    <3>2. z < d /\ ~(n0 <= y) /\ ~(n0 <= z)
      BY <2>2, <3>1
    <3> QED
      BY <3>2, Zenon DEF d, n0
  <2>4. y \notin DOMAIN N /\ z \notin DOMAIN N
    BY <1>6, <2>1, <2>3, Zenon
  <2>5. TwoPaths(N, x, y, z)
    BY <1>6, <2>1, PathsStay, Zenon
  <2> QED
    BY <2>1, <2>3, <2>4, <2>5, Zenon DEF x, y, z
<1> HIDE DEF N
<1>12. CASE done.failed = TRUE
  <2>1. spaces' = spaces
    BY <1>5, <1>12, Zenon
  <2> QED
    BY <1>1, <1>5, <1>6, <1>7, <1>8, <1>9, <1>11, <2>1, Zenon DEF PagingInv, N
<1>13. CASE done.failed = FALSE
  <2>0. /\ n0 + 2 < done.free /\ n0 + 1 \notin DOMAIN N /\ n0 + 2 \notin DOMAIN N
        /\ TwoPaths(N, n0, n0 + 1, n0 + 2)
    BY <1>4, <1>13, Zenon
  <2> DEFINE L == Len(spaces)
             S == Append(spaces, new)
  <2>1. spaces' = S
    BY <1>5, <1>13, Zenon
  <2>2. new \in [cr3 : Nat, code : Nat, stack : Nat] /\ new.cr3 = n0 /\ new.code = n0 + 1 /\ new.stack = n0 + 2
    BY <1>1, SMTT(30)
  <2> HIDE DEF new
  <2>3. /\ S \in Seq([cr3 : Nat, code : Nat, stack : Nat]) /\ L \in Nat
        /\ DOMAIN spaces = 1 .. L /\ DOMAIN S = 1 .. L + 1
        /\ S[L + 1] = new /\ \A s \in 1 .. L : S[s] = spaces[s]
    BY <1>1, <2>2
  <2> HIDE DEF S, L
  <2>4. \A s \in DOMAIN S : s = L + 1 \/ s \in DOMAIN spaces
    BY <2>3
  <2>5. ASSUME NEW s \in DOMAIN S
        PROVE  /\ a <= S[s].cr3 /\ S[s].code = S[s].cr3 + 1
               /\ S[s].stack = S[s].cr3 + 2 /\ S[s].stack < done.free
               /\ S[s].code \notin DOMAIN N /\ S[s].stack \notin DOMAIN N
               /\ TwoPaths(N, S[s].cr3, S[s].code, S[s].stack)
    <3>1. CASE s = L + 1
      BY <1>1, <2>0, <2>2, <2>3, <3>1, Zenon
    <3>2. CASE s \in DOMAIN spaces
      <4>1. S[s] = spaces[s]
        BY <2>3, <3>2, Zenon
      <4> QED
        BY <1>11, <3>2, <4>1, Zenon DEF N
    <3> QED
      BY <2>4, <3>1, <3>2, Zenon
  <2>6. ASSUME NEW s \in DOMAIN S, NEW t \in DOMAIN S, s < t PROVE S[s].stack < S[t].cr3
    <3>1. CASE t = L + 1
      <4>1. s \in DOMAIN spaces /\ s \in 1 .. L
        BY <2>3, <2>6, <3>1
      <4>2. spaces[s].stack < n0
        BY <1>2, <4>1, Zenon
      <4> QED
        BY <2>2, <2>3, <3>1, <4>1, <4>2, Zenon
    <3>2. CASE t \in DOMAIN spaces
      <4>1. s \in 1 .. L /\ t \in 1 .. L
        BY <2>3, <2>6, <3>2
      <4> QED
        BY <1>1, <2>3, <2>6, <4>1, Zenon
    <3> QED
      BY <2>4, <3>1, <3>2, Zenon
  <2> QED
    BY <1>1, <1>5, <1>6, <1>7, <1>8, <1>9, <2>1, <2>3, <2>5, <2>6, ZenonT(60) DEF PagingInv, N
<1> QED
  BY <1>4, <1>12, <1>13, Zenon

-----------------------------------------------------------------------------
(* The tables of two tasks are different ones.                             *)

\* From every table of F an entry of K leads on, and only to frames of G.
LeadOn(T, K, F, G) ==
    \A f \in F : /\ \E k \in K : \E g \in G : T[f][k] = UserEntry(g)
                 /\ \A k \in K : \A g : T[f][k] = UserEntry(g) => g \in G

\* One level of the two paths of a task.
LEMMA ForkLeads ==
    ASSUME NEW T, NEW K, NEW p, NEW q, NEW i \in K, NEW j \in K, NEW pn, NEW qn,
           Fork(T, K, p, q, i, j, pn, qn)
    PROVE  LeadOn(T, K, {p, q}, {pn, qn})
<1>1. T[p][i] = UserEntry(pn) /\ T[q][j] = UserEntry(qn)
  BY Zenon DEF Fork
<1>2. ASSUME NEW k \in K, NEW g, T[p][k] = UserEntry(g) PROVE g \in {pn, qn}
  <2>1. T[p][k] = UserEntry(pn) \/ T[p][k] = UserEntry(qn) \/ T[p][k] = Absent
    BY Zenon DEF Fork
  <2> QED
    BY <1>2, <2>1, UserEntries, Zenon
<1>3. ASSUME NEW k \in K, NEW g, T[q][k] = UserEntry(g) PROVE g \in {pn, qn}
  <2>1. T[q][k] = UserEntry(pn) \/ T[q][k] = UserEntry(qn) \/ T[q][k] = Absent
    BY Zenon DEF Fork
  <2> QED
    BY <1>3, <2>1, UserEntries, Zenon
<1> QED
  BY <1>1, <1>2, <1>3, Zenon DEF LeadOn

Apart(F, H) == F \cap H = {}

\* Tables that lead to different frames are different.
LEMMA LeadApart ==
    ASSUME NEW T, NEW K, NEW J, NEW F, NEW G, NEW H, NEW I, J \subseteq K,
           LeadOn(T, K, F, G), LeadOn(T, J, H, I), Apart(G, I) \/ Apart(I, G)
    PROVE  Apart(F, H) /\ Apart(H, F)
<1>1. ASSUME NEW f \in F, f \in H PROVE FALSE
  <2>1. PICK k \in J, g \in I : T[f][k] = UserEntry(g)
    BY <1>1, Zenon DEF LeadOn
  <2>2. g \in G
    BY <2>1, Zenon DEF LeadOn
  <2> QED
    BY <2>1, <2>2, Zenon DEF Apart
<1> QED
  BY <1>1, Zenon DEF Apart

\* The levels of a task's tables, and its pages.
OwnLevels(T, c, L1, L2, L3, L4) ==
    /\ {c} \cup L1 \cup L2 \cup L3 \subseteq DOMAIN T /\ L4 \cap DOMAIN T = {}
    /\ LeadOn(T, UserHalf, {c}, L1) /\ LeadOn(T, Entries, L1, L2)
    /\ LeadOn(T, Entries, L2, L3) /\ LeadOn(T, Entries, L3, L4)

\* The walk of the code and of the stack page goes through these tables.
Through(c, L1, L2, L3) ==
    TablesOf(c, CodePage) \cup TablesOf(c, StackPage) = {c} \cup L1 \cup L2 \cup L3

\* The paths of a task are such levels, and the walk goes through them.
LEMMA PathLevels ==
    ASSUME NEW c, NEW code, NEW stack, TwoPaths(table, c, code, stack),
           code \notin DOMAIN table, stack \notin DOMAIN table
    PROVE  \E L1, L2, L3 :
              /\ OwnLevels(table, c, L1, L2, L3, {code, stack})
              /\ Through(c, L1, L2, L3)
<1> DEFINE a1 == pml4_idx(CodePage)
           a2 == pdpt_idx(CodePage)
           a3 == pd_idx(CodePage)
           a4 == pt_idx(CodePage)
           b1 == pml4_idx(StackPage)
           b2 == pdpt_idx(StackPage)
           b3 == pd_idx(StackPage)
           b4 == pt_idx(StackPage)
<1>1. PICK p1, p2, p3, q1, q2, q3 \in DOMAIN table : Paths(table, c, code, stack, p1, p2, p3, q1, q2, q3)
  BY Zenon DEF TwoPaths
<1>2. /\ {c, p1, p2, p3, q1, q2, q3} \subseteq DOMAIN table
      /\ Fork(table, UserHalf, c, c, a1, b1, p1, q1)
      /\ Fork(table, Entries, p1, q1, a2, b2, p2, q2)
      /\ Fork(table, Entries, p2, q2, a3, b3, p3, q3)
      /\ Fork(table, Entries, p3, q3, a4, b4, code, stack)
  BY <1>1, Zenon DEF Paths
<1>3. /\ a1 \in UserHalf /\ a2 \in Entries /\ a3 \in Entries /\ a4 \in Entries
      /\ b1 \in UserHalf /\ b2 \in Entries /\ b3 \in Entries /\ b4 \in Entries
  BY EntryRange, PagingConstants, Zenon DEF Entries, UserHalf
<1>4. /\ TablesOf(c, CodePage) = LET x == table[c][a1].frame
                                     y == table[x][a2].frame
                                     z == table[y][a3].frame
                                 IN  {c, x, y, z}
      /\ TablesOf(c, StackPage) = LET x == table[c][b1].frame
                                      y == table[x][b2].frame
                                      z == table[y][b3].frame
                                  IN  {c, x, y, z}
  BY Zenon DEF TablesOf
<1> HIDE DEF a1, a2, a3, a4, b1, b2, b3, b4
<1>5. /\ LeadOn(table, UserHalf, {c, c}, {p1, q1}) /\ LeadOn(table, Entries, {p1, q1}, {p2, q2})
      /\ LeadOn(table, Entries, {p2, q2}, {p3, q3}) /\ LeadOn(table, Entries, {p3, q3}, {code, stack})
  BY <1>2, <1>3, ForkLeads, Zenon
<1>6. /\ table[c][a1] = UserEntry(p1) /\ table[p1][a2] = UserEntry(p2) /\ table[p2][a3] = UserEntry(p3)
      /\ table[c][b1] = UserEntry(q1) /\ table[q1][b2] = UserEntry(q2) /\ table[q2][b3] = UserEntry(q3)
  BY <1>2, <1>3, Zenon DEF Fork
<1>7. /\ table[c][a1].frame = p1 /\ table[p1][a2].frame = p2 /\ table[p2][a3].frame = p3
      /\ table[c][b1].frame = q1 /\ table[q1][b2].frame = q2 /\ table[q2][b3].frame = q3
  BY <1>6, UserEntries, Zenon
<1>8. TablesOf(c, CodePage) = {c, p1, p2, p3} /\ TablesOf(c, StackPage) = {c, q1, q2, q3}
  BY <1>4, <1>7, Zenon
<1>9. Through(c, {p1, q1}, {p2, q2}, {p3, q3})
  BY <1>8, Zenon DEF Through
<1>10. {c, c} = {c}
  BY Zenon
<1>11. /\ {c} \cup {p1, q1} \cup {p2, q2} \cup {p3, q3} \subseteq DOMAIN table
       /\ {code, stack} \cap DOMAIN table = {}
  BY <1>2, Zenon
<1>12. OwnLevels(table, c, {p1, q1}, {p2, q2}, {p3, q3}, {code, stack})
  BY <1>5, <1>10, <1>11, Zenon DEF OwnLevels
<1> QED
  BY <1>9, <1>12, Zenon

\* Tasks with different pages share no table, at whatever levels: the pages
\* below a shared one would be shared, or be tables of the other task.
LEMMA LevelsApart ==
    ASSUME NEW T, NEW c, NEW L1, NEW L2, NEW L3, NEW L4, OwnLevels(T, c, L1, L2, L3, L4),
           NEW d, NEW M1, NEW M2, NEW M3, NEW M4, OwnLevels(T, d, M1, M2, M3, M4), Apart(L4, M4)
    PROVE  Apart({c} \cup L1 \cup L2 \cup L3 \cup L4, {d} \cup M1 \cup M2 \cup M3 \cup M4)
<1>1. UserHalf \subseteq Entries /\ Entries \subseteq Entries /\ UserHalf \subseteq UserHalf
  BY Zenon DEF UserHalf
<1>2. /\ LeadOn(T, UserHalf, {c}, L1) /\ LeadOn(T, Entries, L1, L2)
      /\ LeadOn(T, Entries, L2, L3) /\ LeadOn(T, Entries, L3, L4)
      /\ LeadOn(T, UserHalf, {d}, M1) /\ LeadOn(T, Entries, M1, M2)
      /\ LeadOn(T, Entries, M2, M3) /\ LeadOn(T, Entries, M3, M4)
  BY Zenon DEF OwnLevels
<1>3. /\ Apart(L4, {d}) /\ Apart(L4, M1) /\ Apart(L4, M2) /\ Apart(L4, M3)
      /\ Apart({c}, M4) /\ Apart(L1, M4) /\ Apart(L2, M4) /\ Apart(L3, M4)
  BY Zenon DEF OwnLevels, Apart
<1>a. \A F, G, H, I : LeadOn(T, Entries, F, G) /\ LeadOn(T, Entries, H, I) /\ Apart(G, I) => Apart(F, H)
  BY <1>1, LeadApart, Zenon
<1>b. \A F, G, H, I : LeadOn(T, Entries, F, G) /\ LeadOn(T, UserHalf, H, I) /\ Apart(G, I) => Apart(F, H)
  BY <1>1, LeadApart, Zenon
<1>c. \A F, G, H, I : LeadOn(T, UserHalf, F, G) /\ LeadOn(T, Entries, H, I) /\ Apart(G, I) => Apart(F, H)
  BY <1>1, LeadApart, Zenon
<1>d. \A F, G, H, I : LeadOn(T, UserHalf, F, G) /\ LeadOn(T, UserHalf, H, I) /\ Apart(G, I) => Apart(F, H)
  BY <1>1, LeadApart, Zenon
<1>4. Apart(L3, M3)
  BY <1>2, <1>a, Zenon
<1>5. Apart(L2, M3)
  BY <1>2, <1>a, <1>3, Zenon
<1>6. Apart(L3, M2)
  BY <1>2, <1>a, <1>3, Zenon
<1>7. Apart(L1, M3)
  BY <1>2, <1>a, <1>3, Zenon
<1>8. Apart(L3, M1)
  BY <1>2, <1>a, <1>3, Zenon
<1>9. Apart({c}, M3)
  BY <1>2, <1>c, <1>3, Zenon
<1>10. Apart(L3, {d})
  BY <1>2, <1>b, <1>3, Zenon
<1>11. Apart(L2, M2)
  BY <1>2, <1>a, <1>4, Zenon
<1>12. Apart(L1, M2)
  BY <1>2, <1>a, <1>5, Zenon
<1>13. Apart(L2, M1)
  BY <1>2, <1>a, <1>6, Zenon
<1>14. Apart({c}, M2)
  BY <1>2, <1>c, <1>7, Zenon
<1>15. Apart(L2, {d})
  BY <1>2, <1>b, <1>8, Zenon
<1>16. Apart(L1, M1)
  BY <1>2, <1>a, <1>11, Zenon
<1>17. Apart({c}, M1)
  BY <1>2, <1>c, <1>12, Zenon
<1>18. Apart(L1, {d})
  BY <1>2, <1>b, <1>13, Zenon
<1>19. Apart({c}, {d})
  BY <1>2, <1>d, <1>16, Zenon
<1>20. ASSUME NEW x, x \in {c} \cup L1 \cup L2 \cup L3 \cup L4, x \in {d} \cup M1 \cup M2 \cup M3 \cup M4
       PROVE  FALSE
  <2>1. CASE x \in {c}
    BY <2>1, <1>3, <1>19, <1>17, <1>14, <1>9, <1>20, Zenon DEF Apart
  <2>2. CASE x \in L1
    BY <2>2, <1>3, <1>18, <1>16, <1>12, <1>7, <1>20, ZenonT(60) DEF Apart
  <2>3. CASE x \in L2
    BY <2>3, <1>3, <1>15, <1>13, <1>11, <1>5, <1>20, ZenonT(60) DEF Apart
  <2>4. CASE x \in L3
    BY <2>4, <1>3, <1>10, <1>8, <1>6, <1>4, <1>20, Zenon DEF Apart
  <2>5. CASE x \in L4
    BY <2>5, <1>3, <1>20, Zenon DEF Apart
  <2> QED
    BY <1>20, <2>1, <2>2, <2>3, <2>4, <2>5, Zenon
<1> QED
  BY <1>20, Zenon DEF Apart

\* What the invariant says of the ranges and of the frames.
LEMMA PagingInvOwnPages == PagingInv => UserRangesAreOwnPages
<1> SUFFICES ASSUME PagingInv PROVE UserRangesAreOwnPages
  OBVIOUS
<1> DEFINE a == LargestRegion(memmap)[1]
           own(s) == {spaces[s].code, spaces[s].stack}
                       \cup TablesOf(spaces[s].cr3, CodePage) \cup TablesOf(spaces[s].cr3, StackPage)
           leaves == UNION {{spaces[s].code, spaces[s].stack} : s \in DOMAIN spaces}
<1>1. /\ memmap \in MemoryMaps /\ usable_end = LargestRegion(memmap)[2]
      /\ next_free \in Nat /\ next_free <= usable_end
      /\ \A f \in DOMAIN table : f = KernelFrame \/ (f \in Nat /\ a <= f /\ f < next_free)
      /\ spaces \in Seq([cr3 : Nat, code : Nat, stack : Nat])
      /\ \A s, t \in DOMAIN spaces : s < t => spaces[s].stack < spaces[t].cr3
  BY Zenon DEF PagingInv
<1>2. \A s \in DOMAIN spaces :
        /\ a <= spaces[s].cr3 /\ spaces[s].code = spaces[s].cr3 + 1
        /\ spaces[s].stack = spaces[s].cr3 + 2 /\ spaces[s].stack < next_free
        /\ spaces[s].code \notin DOMAIN table /\ spaces[s].stack \notin DOMAIN table
        /\ TwoPaths(table, spaces[s].cr3, spaces[s].code, spaces[s].stack)
  BY Zenon DEF PagingInv
<1>3. /\ a \in Nat /\ usable_end \in Nat
      /\ \A k \in 1 .. Len(memmap) :
           memmap[k][2] - memmap[k][1] <= LargestRegion(memmap)[2] - LargestRegion(memmap)[1]
  BY <1>1, RegionIs, Zenon
<1>4. \A s \in DOMAIN spaces : s \in Nat /\ spaces[s].cr3 \in Nat
  BY <1>1, SpaceIs, Zenon
<1>5. ASSUME NEW s \in DOMAIN spaces, NEW start \in 0 .. USIZE - 1, NEW len \in 0 .. 2 * PAGE_SIZE + 1,
             NEW writeable \in BOOLEAN
      PROVE  ValidateUserRange(spaces[s].cr3, start, len, writeable) <=>
               \A byte \in start .. start + len - 1 : byte \div PAGE_SIZE \in {CodePage, StackPage}
  <2>1. start \in Nat /\ len \in Nat
    OBVIOUS
  <2>2. TwoPaths(table, spaces[s].cr3, spaces[s].code, spaces[s].stack)
    BY <1>2, Zenon
  <2> QED
    BY <2>1, <2>2, RangeAllowed, Zenon
<1>6. ASSUME NEW s \in DOMAIN spaces, NEW t \in DOMAIN spaces, s < t PROVE own(s) \cap own(t) = {}
  <2> DEFINE x == spaces[s].cr3
             y == spaces[t].cr3
  <2>1. /\ spaces[s].code = x + 1 /\ spaces[s].stack = x + 2 /\ spaces[t].code = y + 1
        /\ spaces[t].stack = y + 2 /\ x \in Nat /\ y \in Nat /\ spaces[s].stack < y
    BY <1>1, <1>2, <1>4, <1>6, Zenon
  <2>2. x \in Nat /\ y \in Nat /\ x + 2 < y
    BY <2>1, Zenon
  <2>3. {x + 1, x + 2} \cap {y + 1, y + 2} = {}
    <3> HIDE DEF x, y
    <3> QED
      BY <2>2
  <2>4. {spaces[s].code, spaces[s].stack} \cap {spaces[t].code, spaces[t].stack} = {}
    BY <2>1, <2>3, Zenon
  <2> DEFINE S4 == {spaces[s].code, spaces[s].stack}
             T4 == {spaces[t].code, spaces[t].stack}
  <2>5. /\ TwoPaths(table, x, spaces[s].code, spaces[s].stack)
        /\ spaces[s].code \notin DOMAIN table /\ spaces[s].stack \notin DOMAIN table
        /\ TwoPaths(table, y, spaces[t].code, spaces[t].stack)
        /\ spaces[t].code \notin DOMAIN table /\ spaces[t].stack \notin DOMAIN table
    BY <1>2, Zenon
  <2>6. /\ own(s) = S4 \cup TablesOf(x, CodePage) \cup TablesOf(x, StackPage)
        /\ own(t) = T4 \cup TablesOf(y, CodePage) \cup TablesOf(y, StackPage)
    BY Zenon
  <2> HIDE DEF x, y, own
  <2>7. PICK L1, L2, L3 :
          /\ OwnLevels(table, x, L1, L2, L3, S4)
          /\ Through(x, L1, L2, L3)
    BY <2>5, PathLevels, Zenon
  <2>8. PICK M1, M2, M3 :
          /\ OwnLevels(table, y, M1, M2, M3, T4)
          /\ Through(y, M1, M2, M3)
    BY <2>5, PathLevels, Zenon
  <2>9. Apart(S4, T4)
    BY <2>4, Zenon DEF Apart
  <2> HIDE DEF S4, T4
  <2>10. Apart({x} \cup L1 \cup L2 \cup L3 \cup S4, {y} \cup M1 \cup M2 \cup M3 \cup T4)
    BY <2>7, <2>8, <2>9, LevelsApart, ZenonT(60)
  <2>11. own(s) = {x} \cup L1 \cup L2 \cup L3 \cup S4 /\ own(t) = {y} \cup M1 \cup M2 \cup M3 \cup T4
    BY <2>6, <2>7, <2>8, Zenon DEF Through
  <2> QED
    BY <2>10, <2>11, Zenon DEF Apart
<1>7. \A s, t \in DOMAIN spaces : s # t => own(s) \cap own(t) = {}
  <2> SUFFICES ASSUME NEW s \in DOMAIN spaces, NEW t \in DOMAIN spaces, s # t PROVE own(s) \cap own(t) = {}
    BY Zenon
  <2>1. s < t \/ t < s
    BY <1>4
  <2>2. t < s => own(t) \cap own(s) = {}
    BY <1>6, Zenon
  <2> HIDE DEF own
  <2>3. own(t) \cap own(s) = {} => own(s) \cap own(t) = {}
    BY Zenon
  <2> QED
    BY <1>6, <2>1, <2>2, <2>3, Zenon DEF own
<1>8. leaves \cap DOMAIN table = {}
  <2>1. ASSUME NEW f \in leaves PROVE f \notin DOMAIN table
    <3>1. PICK s \in DOMAIN spaces : f = spaces[s].code \/ f = spaces[s].stack
      BY <2>1, Zenon
    <3> QED
      BY <1>2, <3>1, Zenon
  <2> HIDE DEF leaves
  <2> QED
    BY <2>1, Zenon
<1>9. ASSUME NEW f \in leaves \cup (DOMAIN table \ {KernelFrame}) PROVE a <= f /\ f < usable_end
  <2>1. CASE f \in leaves
    <3>1. PICK s \in DOMAIN spaces : f = spaces[s].code \/ f = spaces[s].stack
      BY <2>1, Zenon
    <3> DEFINE x == spaces[s].cr3
    <3>2. a <= x /\ x \in Nat /\ (f = x + 1 \/ f = x + 2) /\ x + 2 < next_free
      BY <1>2, <1>4, <3>1, Zenon
    <3>3. a \in Nat /\ usable_end \in Nat /\ next_free \in Nat /\ next_free <= usable_end
      BY <1>1, <1>3, Zenon
    <3> HIDE DEF x, a
    <3>4. a <= x + 1 /\ a <= x + 2 /\ x + 1 < usable_end /\ x + 2 < usable_end
      BY <3>2, <3>3
    <3> QED
      BY <3>2, <3>4, Zenon
  <2>2. CASE f \in DOMAIN table \ {KernelFrame}
    <3>1. f \in Nat /\ a <= f /\ f < next_free
      BY <1>1, <2>2, Zenon
    <3> HIDE DEF a
    <3> QED
      BY <1>1, <1>3, <3>1
  <2> QED
    BY <2>1, <2>2, Zenon
<1> QED
  BY <1>3, <1>5, <1>7, <1>8, <1>9, Zenon DEF UserRangesAreOwnPages

\* The invariant holds in every reachable state.
THEOREM Paged == PagingSpec => []PagingInv
<1>1. PagingInv /\ UNCHANGED pagingVars => PagingInv'
  <2> SUFFICES ASSUME PagingInv, UNCHANGED pagingVars PROVE PagingInv'
    OBVIOUS
  <2>1. memmap' = memmap /\ next_free' = next_free /\ usable_end' = usable_end /\ table' = table /\ spaces' = spaces
    BY Zenon DEF pagingVars
  <2> QED
    BY <2>1, Zenon DEF PagingInv
<1>2. PagingInv /\ [PagingNext]_pagingVars => PagingInv'
  BY <1>1, SpawnInv, Zenon DEF PagingNext
<1> QED
  BY <1>2, PagingInitInv, PTL DEF PagingSpec

\* For every memory map, page size and pair of user pages: whatever tasks
\* spawn_user has made, the system calls accept exactly the ranges in the
\* caller's code and stack page, and no frame serves two purposes.
THEOREM UserRangesSafe == PagingSpec => []UserRangesAreOwnPages
BY Paged, PagingInvOwnPages, PTL

\* Buffers of every length, at every address: validate_user_range accepts one
\* exactly when each of its bytes is in the caller's code or stack page.
BuffersAreOwn ==
    \A s \in DOMAIN spaces : \A start \in Nat, len \in Nat, writeable \in BOOLEAN :
       ValidateUserRange(spaces[s].cr3, start, len, writeable) <=>
          \A byte \in start .. start + len - 1 : byte \div PAGE_SIZE \in {CodePage, StackPage}

\* UserRangesAreOwnPages says so of buffers up to two pages and a byte long;
\* this theorem, of buffers of any length.
THEOREM AnyBuffer == PagingSpec => []BuffersAreOwn
<1>1. PagingInv => BuffersAreOwn
  <2> SUFFICES ASSUME PagingInv, NEW s \in DOMAIN spaces, NEW start \in Nat, NEW len \in Nat,
                      NEW writeable \in BOOLEAN
               PROVE  ValidateUserRange(spaces[s].cr3, start, len, writeable) <=>
                        \A byte \in start .. start + len - 1 : byte \div PAGE_SIZE \in {CodePage, StackPage}
    BY Zenon DEF BuffersAreOwn
  <2>1. TwoPaths(table, spaces[s].cr3, spaces[s].code, spaces[s].stack)
    BY Zenon DEF PagingInv
  <2> QED
    BY <2>1, RangeAllowed, Zenon
<1> QED
  BY <1>1, Paged, PTL

=============================================================================
