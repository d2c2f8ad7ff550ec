-------------------------- MODULE KServeInfer_proofs --------------------------
(***************************************************************************)
(* Theorems about KServeInfer, for any requests, any replies and any       *)
(* number of retries: the calls, the retry loop of client.py within the    *)
(* loop over the images of kserve.py; and the data, from the tensors of    *)
(* the request to the rows and lines of the answer. At the end, theorems   *)
(* about ReplyJson, which is how the parsers of these calls, and of the    *)
(* others, find the JSON in what a model wrote.                            *)
(***************************************************************************)
EXTENDS KServeInfer, ReplyJson, FiniteSetTheorems, FunctionTheorems,
        SequenceTheorems, WellFoundedInduction, TLAPS

-----------------------------------------------------------------------------
(* Ranks and selections.                                                   *)

\* A set of numbers has a least one, the induction of the lemmas below.
LEMMA LeastOf ==
    ASSUME NEW T \in SUBSET Nat, T # {}
    PROVE  \E x \in T : \A y \in T : x <= y
<1> DEFINE R == {ss \in Nat \X Nat : ss[1] < ss[2]}
<1>1. OpToRel(<, Nat) = R
  BY Zenon DEF OpToRel
<1>2. IsWellFoundedOn(R, Nat)
  BY <1>1, NatLessThanWellFounded, Zenon
<1>3. PICK x \in T : \A y \in T : <<y, x>> \notin R
  <2> HIDE DEF R
  <2> QED
    BY <1>2, WFMin, Zenon
<1>4. ASSUME NEW y \in T, y < x PROVE FALSE
  <2>1. <<y, x>> \in R
    BY <1>4
  <2> QED
    BY <1>3, <2>1
<1> QED
  BY <1>4

\* Ranks count up from 1 without a gap or a repetition.
LEMMA Ranks ==
    ASSUME NEW n \in Nat, NEW I \in SUBSET (1 .. n)
    PROVE  /\ Cardinality(I) \in Nat /\ Cardinality(I) <= n
           /\ \A i \in I : Rank(i, I) \in 1 .. Cardinality(I)
           /\ \A i, j \in I : i < j => Rank(i, I) < Rank(j, I)
           /\ \A k \in 1 .. Cardinality(I) : \E i \in I : Rank(i, I) = k
<1> DEFINE U(m) == {j \in I : j <= m}
<1>1. /\ IsFiniteSet(I) /\ Cardinality(I) \in Nat /\ Cardinality(I) <= n
      /\ \A S \in SUBSET I : /\ IsFiniteSet(S) /\ Cardinality(S) \in Nat
                             /\ Cardinality(S) <= Cardinality(I)
  <2>1. IsFiniteSet(1 .. n) /\ Cardinality(1 .. n) = n
    BY FS_Interval
  <2> QED
    BY <2>1, FS_Subset, FS_CardinalityType
<1>0. \A i \in I : i \in Int /\ 0 < i /\ i <= n
  OBVIOUS
<1>e. U(0) = {} /\ U(n) = I
  <2>1. \A i \in I : ~(i <= 0) /\ i <= n
    BY <1>0
  <2> QED
    BY <2>1
<1>2. \A m \in Nat : Cardinality(U(m)) \in Nat /\ IsFiniteSet(U(m))
  BY <1>1
<1>3. ASSUME NEW m \in Nat
      PROVE  Cardinality(U(m + 1)) = IF m + 1 \in I THEN Cardinality(U(m)) + 1 ELSE Cardinality(U(m))
  <2>1. CASE m + 1 \in I
    <3>1. U(m + 1) = U(m) \cup {m + 1} /\ m + 1 \notin U(m)
      <4>1. \A i \in I : i <= m + 1 <=> i <= m \/ i = m + 1
        BY <1>0
      <4>2. ~(m + 1 <= m)
        OBVIOUS
      <4>3. m + 1 \notin U(m)
        BY <4>2
      <4>4. \A x : x \in U(m + 1) <=> x \in U(m) \cup {m + 1}
        BY <2>1, <4>1
      <4> HIDE DEF U
      <4> QED
        BY <4>3, <4>4
    <3> HIDE DEF U
    <3> QED
      BY <1>2, <2>1, <3>1, FS_AddElement
  <2>2. CASE m + 1 \notin I
    <3>1. U(m + 1) = U(m)
      <4>1. \A i \in I : i <= m + 1 <=> i <= m
        BY <1>0, <2>2
      <4> QED
        BY <4>1
    <3> QED
      BY <2>2, <3>1
  <2> QED
    BY <2>1, <2>2
<1>4. \A i \in I : i \in U(i) /\ U(i) \in SUBSET I /\ Rank(i, I) = Cardinality(U(i))
  BY DEF Rank
<1>5. \A i \in I : Rank(i, I) \in 1 .. Cardinality(I)
  <2> TAKE i \in I
  <2>1. Cardinality(U(i)) # 0
    <3> HIDE DEF U
    <3> QED
      BY <1>1, <1>4, FS_EmptySet
  <2> QED
    BY <1>1, <1>4, <2>1
<1>6. \A i, j \in I : i < j => Rank(i, I) < Rank(j, I)
  <2> SUFFICES ASSUME NEW i \in I, NEW j \in I, i < j PROVE Cardinality(U(i)) < Cardinality(U(j))
    BY <1>4
  <2>1. U(i) \subseteq U(j) /\ U(i) # U(j)
    <3>1. j \notin U(i) /\ \A m \in I : m <= i => m <= j
      BY <1>0
    <3> QED
      BY <1>4, <3>1
  <2>2. /\ IsFiniteSet(U(j)) /\ U(i) \in SUBSET U(j)
        /\ Cardinality(U(i)) \in Nat /\ Cardinality(U(j)) \in Nat
    BY <1>1, <1>4, <2>1
  <2> HIDE DEF U
  <2>3. Cardinality(U(i)) <= Cardinality(U(j)) /\ Cardinality(U(i)) # Cardinality(U(j))
    BY <2>1, <2>2, FS_Subset
  <2> QED
    BY <2>2, <2>3
<1>7. ASSUME NEW k \in 1 .. Cardinality(I) PROVE \E i \in I : Rank(i, I) = k
  <2> DEFINE T == {m \in Nat : Cardinality(U(m)) >= k}
  <2>1. n \in T
    BY <1>e, <1>1, <1>7
  <2>2. PICK m \in T : \A y \in T : m <= y
    <3>1. T \in SUBSET Nat /\ T # {}
      BY <2>1
    <3> HIDE DEF T
    <3> QED
      BY <3>1, LeastOf
  <2>3. m # 0
    <3>1. Cardinality(U(0)) = 0
      BY <1>e, FS_EmptySet
    <3> QED
      BY <1>7, <2>2, <3>1
  <2>4. m - 1 \in Nat /\ m - 1 \notin T
    <3>1. m \in Nat /\ \A y \in T : m <= y
      BY <2>2
    <3> HIDE DEF T
    <3> QED
      BY <2>3, <3>1
  <2>5. Cardinality(U(m - 1)) < k /\ Cardinality(U(m)) >= k
    <3> HIDE DEF U
    <3> QED
      BY <1>2, <2>2, <2>4
  <2>6. m \in I /\ Cardinality(U(m)) = Cardinality(U(m - 1)) + 1
    <3>1. (m - 1) + 1 = m
      BY <2>2
    <3> HIDE DEF U
    <3> QED
      BY <1>2, <1>3, <2>4, <2>5, <3>1
  <2>7. Cardinality(U(m)) = k
    <3> HIDE DEF U
    <3> QED
      BY <1>2, <2>2, <2>4, <2>5, <2>6
  <2> QED
    BY <1>4, <2>6, <2>7
<1> QED
  BY <1>1, <1>5, <1>6, <1>7

\* A selection has the elements of its positions, each at its rank.
LEMMA Selected ==
    ASSUME NEW n \in Nat, NEW I \in SUBSET (1 .. n), NEW s
    PROVE  /\ DOMAIN Select(s, I) = 1 .. Cardinality(I)
           /\ Len(Select(s, I)) = Cardinality(I)
           /\ \A i \in I : Select(s, I)[Rank(i, I)] = s[i]
<1>1. DOMAIN Select(s, I) = 1 .. Cardinality(I)
  BY DEF Select
<1>2. Len(Select(s, I)) = Cardinality(I)
  BY <1>1, Ranks DEF Select
<1>3. ASSUME NEW i \in I PROVE Select(s, I)[Rank(i, I)] = s[i]
  <2> DEFINE k == Rank(i, I)
  <2>1. k \in 1 .. Cardinality(I)
    BY Ranks
  <2>2. \A j \in I : Rank(j, I) = k => j = i
    <3>1. \A j \in I : j < i \/ j = i \/ i < j
      OBVIOUS
    <3>2. \A j \in I : Rank(j, I) \in Nat
      BY Ranks
    <3>3. \A j \in I : (j < i => Rank(j, I) < k) /\ (i < j => k < Rank(j, I))
      BY Ranks
    <3> QED
      BY <3>1, <3>2, <3>3
  <2>3. (CHOOSE j \in I : Rank(j, I) = k) = i
    BY <2>2
  <2> QED
    BY <2>1, <2>3 DEF Select
<1> QED
  BY <1>1, <1>2, <1>3

\* The largest of finitely many numbers.
LEMMA LargestOf ==
    ASSUME NEW n \in Nat, NEW f, \A b \in 1 .. n : f[b] \in Nat
    PROVE  LET S == {0} \cup {f[b] : b \in 1 .. n}
           IN  Largest(S) \in Nat /\ \A b \in 1 .. n : f[b] <= Largest(S)
<1> DEFINE S(m) == {0} \cup {f[b] : b \in 1 .. m}
           Has(m) == \E x \in S(m) : \A y \in S(m) : y <= x
           T == {m \in Nat : m <= n /\ ~Has(m)}
<1>1. Has(0)
  <2>1. S(0) = {0}
    OBVIOUS
  <2> QED
    BY <2>1
<1>2. ASSUME NEW m \in 1 .. n, Has(m - 1) PROVE Has(m)
  <2>1. PICK x \in S(m - 1) : \A y \in S(m - 1) : y <= x
    BY <1>2
  <2>2. S(m) = S(m - 1) \cup {f[m]} /\ f[m] \in Nat /\ S(m - 1) \subseteq Nat
    <3>1. 1 .. m = (1 .. (m - 1)) \cup {m}
      OBVIOUS
    <3> QED
      BY <3>1
  <2> HIDE DEF S
  <2>3. f[m] <= x \/ x <= f[m]
    BY <2>2
  <2>4. CASE f[m] <= x
    BY <2>1, <2>2, <2>4
  <2>5. CASE x <= f[m]
    <3>1. \A y \in S(m) : y <= f[m]
      BY <2>1, <2>2, <2>5
    <3> QED
      BY <2>2, <3>1
  <2> QED
    BY <2>3, <2>4, <2>5
<1>3. Has(n)
  <2> HIDE DEF Has
  <2> SUFFICES ASSUME ~Has(n) PROVE FALSE
    OBVIOUS
  <2>1. PICK m \in T : \A y \in T : m <= y
    <3>1. T \in SUBSET Nat /\ n \in T
      OBVIOUS
    <3> HIDE DEF T
    <3> QED
      BY <3>1, LeastOf
  <2>2. m # 0 /\ m - 1 \notin T
    <3>1. m \in Nat /\ m # 0
      BY <1>1, <2>1
    <3> HIDE DEF T
    <3> QED
      BY <2>1, <3>1
  <2>3. m \in 1 .. n /\ Has(m - 1) /\ ~Has(m)
    BY <2>1, <2>2
  <2> QED
    BY <1>2, <2>3
<1>4. Largest(S(n)) \in S(n) /\ \A y \in S(n) : y <= Largest(S(n))
  <2> HIDE DEF S
  <2> QED
    BY <1>3 DEF Largest
<1> QED
  BY <1>4

\* One of m lines after another: each is at least as high as its share, the
\* next one starts where it ends or later, and the last one ends with the page.
LEMMA Shares ==
    ASSUME NEW h \in Nat, NEW m \in Nat \ {0}, NEW u \in Nat, m * u <= h,
           NEW i \in Nat, NEW j \in Nat, i < j
    PROVE  /\ (h * i) \div m \in Nat /\ (h * j) \div m \in Nat
           /\ (h * i) \div m + u <= (h * j) \div m
           /\ j <= m => (h * j) \div m <= h
<1> DEFINE a == h * i
           b == h * j
<1>1. a \in Nat /\ b \in Nat /\ a + h <= b
  OBVIOUS
<1>2. a + m * u <= b
  BY <1>1
<1> HIDE DEF a, b
<1>3. a \div m \in Nat /\ b \div m \in Nat
  BY <1>1
<1>4. a \div m + u <= b \div m
  BY <1>1, <1>2
<1>5. b <= h * m => b \div m <= h
  BY <1>1
<1>6. j <= m => b <= h * m
  BY DEF b
<1> QED
  BY <1>3, <1>4, <1>5, <1>6 DEF a, b

-----------------------------------------------------------------------------
(* The lines of a page.                                                    *)

\* Where line k of m begins on a page of height h.
LineTop(h, m, k) == ((h * Unit) * k) \div m

\* The box of a text without one is its line.
LEMMA LineEnds ==
    ASSUME NEW h \in Nat \ {0}, NEW m \in Nat \ {0}, m <= h,
           NEW size, h = IF size[2] > 0 THEN size[2] ELSE 1000,
           NEW k \in Nat, k < m
    PROVE  /\ SyntheticBox(k, m, size)[2] = LineTop(h, m, k)
           /\ SyntheticBox(k, m, size)[4] = LineTop(h, m, k + 1)
           /\ LineTop(h, m, k + 1) <= h * Unit
<1> DEFINE H == h * Unit
           t(i) == (H * i) \div m
<1>1. H \in Nat /\ m * Unit <= H /\ Unit \in Nat /\ m \in Nat \ {0}
  BY UnitAssumption
<1>2. k + 1 \in Nat /\ k < k + 1 /\ k + 1 <= m
  OBVIOUS
<1>3. SyntheticBox(k, m, size)[2] = t(k) /\ SyntheticBox(k, m, size)[4] = Higher(t(k + 1), t(k) + Unit)
  BY DEF SyntheticBox
<1> HIDE DEF H
<1>4. t(k) \in Nat /\ t(k + 1) \in Nat /\ t(k) + Unit <= t(k + 1) /\ t(k + 1) <= H
  BY <1>1, <1>2, Shares
<1> HIDE DEF t
<1>5. Higher(t(k + 1), t(k) + Unit) = t(k + 1)
  BY <1>1, <1>4 DEF Higher
<1> QED
  BY <1>3, <1>4, <1>5 DEF t, H, LineTop

\* A line ends before the ones after it begin.
LEMMA LinesInOrder ==
    ASSUME NEW h \in Nat \ {0}, NEW m \in Nat \ {0}, m <= h,
           NEW i \in 1 .. m, NEW j \in 1 .. m, i < j
    PROVE  LineTop(h, m, i) <= LineTop(h, m, j - 1)
<1> DEFINE H == h * Unit
           t(k) == (H * k) \div m
<1>1. H \in Nat /\ m * Unit <= H /\ Unit \in Nat /\ m \in Nat \ {0}
  BY UnitAssumption
<1>2. i \in Nat /\ j - 1 \in Nat /\ i - 1 \in Nat /\ i - 1 < i /\ (i = j - 1 \/ i < j - 1)
  OBVIOUS
<1> HIDE DEF H
<1>3. t(i) \in Nat
  BY <1>1, <1>2, Shares
<1>4. t(i) <= t(j - 1)
  <2>1. CASE i = j - 1
    BY <1>3, <2>1
  <2>2. CASE i < j - 1
    <3>1. t(j - 1) \in Nat /\ t(i) + Unit <= t(j - 1)
      BY <1>1, <1>2, <2>2, Shares
    <3> HIDE DEF t
    <3> QED
      BY <1>1, <1>3, <3>1
  <2> QED
    BY <1>2, <2>1, <2>2
<1> QED
  BY <1>4 DEF LineTop, t, H

\* The texts of said in out, as the property of the answer has them.
LinesHold(said, size, out) ==
    LET texts == {i \in DOMAIN said : HasText(said[i])}
        free == {i \in texts : Coerce(said[i].box) = Absent}
        line(i) == out[Rank(i, texts)].box
        height == IF size[2] > 0 THEN size[2] ELSE 1000
    IN  /\ Len(out) = Cardinality(texts)
        /\ \A i \in texts :
             /\ out[Rank(i, texts)].text = said[i].text
             /\ i \notin free => line(i) = Coerce(said[i].box)
        /\ Cardinality(free) <= height =>
             \A i \in free :
               /\ line(i)[4] <= height * Unit
               /\ \A j \in free : i < j => line(i)[4] <= line(j)[2]

\* Every text keeps its box, or has the line of its rank among those without one.
LEMMA TextsInPlace ==
    ASSUME NEW n \in Nat, NEW said, DOMAIN said = 1 .. n, NEW size \in Page
    PROVE  LinesHold(said, size, EncodeTexts(said, size))
<1> DEFINE out == EncodeTexts(said, size)
           texts == {i \in DOMAIN said : HasText(said[i])}
           free == {i \in texts : Coerce(said[i].box) = Absent}
           height == IF size[2] > 0 THEN size[2] ELSE 1000
           W == Written(said)
           unplaced == {k \in DOMAIN W : Coerce(W[k].box) = Absent}
           place(i) == Rank(i, texts)
<1>1. /\ texts \in SUBSET (1 .. n)
      /\ DOMAIN W = 1 .. Cardinality(texts)
      /\ \A i \in texts : W[place(i)] = said[i]
  <2>1. texts \in SUBSET (1 .. n) /\ W = Select(said, texts)
    BY DEF Written
  <2> HIDE DEF texts, W
  <2> QED
    BY <2>1, Selected
<1>2. /\ Cardinality(texts) \in Nat
      /\ \A i \in texts : place(i) \in 1 .. Cardinality(texts)
      /\ \A i, j \in texts : i < j => place(i) < place(j)
      /\ \A k \in 1 .. Cardinality(texts) : \E i \in texts : place(i) = k
  BY <1>1, Ranks
<1>3. /\ DOMAIN out = DOMAIN W
      /\ \A k \in DOMAIN W :
           /\ out[k].text = W[k].text
           /\ out[k].box = IF k \notin unplaced THEN Coerce(W[k].box)
                           ELSE SyntheticBox(Rank(k, unplaced) - 1, Cardinality(unplaced), size)
  BY DEF EncodeTexts
<1>4. Len(out) = Cardinality(texts)
  BY <1>1, <1>2, <1>3 DEF EncodeTexts
<1>5. unplaced \in SUBSET (1 .. Cardinality(texts)) /\ free \in SUBSET (1 .. n)
  BY <1>1
<1>6. \A i \in texts : i \in free <=> place(i) \in unplaced
  BY <1>1, <1>2
<1> HIDE DEF out, texts, W
<1>7. Cardinality(unplaced) <= Cardinality(free) /\ Cardinality(unplaced) \in Nat
      /\ Cardinality(free) \in Nat
  <2> DEFINE f == [i \in free |-> place(i)]
  <2>1. f \in Surjection(free, unplaced)
    <3>1. \A k \in unplaced : \E i \in free : place(i) = k
      BY <1>1, <1>2, <1>5, <1>6
    <3>2. \A i \in free : place(i) \in unplaced
      BY <1>6
    <3> HIDE DEF free, unplaced, place
    <3> QED
      BY <3>1, <3>2 DEF Surjection
  <2>2. IsFiniteSet(free)
    BY <1>5, FS_Interval, FS_Subset
  <2> HIDE DEF free, unplaced, f
  <2> QED
    BY <1>2, <1>5, <2>1, <2>2, FS_Surjection, Ranks
<1>8. ASSUME Cardinality(free) <= height, NEW i \in free
      PROVE  /\ out[place(i)].box[4] <= height * Unit
             /\ \A j \in free : i < j => out[place(i)].box[4] <= out[place(j)].box[2]
  <2> DEFINE r(k) == Rank(place(k), unplaced)
             m == Cardinality(unplaced)
  <2>1. \A k \in free : out[place(k)].box = SyntheticBox(r(k) - 1, m, size)
    BY <1>1, <1>2, <1>3, <1>6
  <2>2. \A k \in free : r(k) \in 1 .. m
    BY <1>2, <1>5, <1>6, Ranks
  <2>3. \A j \in free : i < j => r(i) < r(j)
    <3> HIDE DEF unplaced
    <3> QED
      BY <1>2, <1>5, <1>6, Ranks
  <2>4. height \in Nat \ {0} /\ m \in Nat \ {0} /\ m <= height
    <3>1. height \in Nat \ {0}
      BY DEF Page
    <3>2. m # 0
      <4>1. r(i) \in 1 .. m
        BY <2>2
      <4> HIDE DEF r, m
      <4> QED
        BY <4>1
    <3> HIDE DEF height, free, unplaced
    <3> QED
      BY <1>7, <1>8, <3>1, <3>2
  <2>5. height = IF size[2] > 0 THEN size[2] ELSE 1000
    OBVIOUS
  <2> HIDE DEF m, r, place, free, unplaced, height
  <2>6. \A k \in free :
           /\ out[place(k)].box[2] = LineTop(height, m, r(k) - 1)
           /\ out[place(k)].box[4] = LineTop(height, m, r(k))
           /\ LineTop(height, m, r(k)) <= height * Unit
    <3>1. ASSUME NEW k \in Nat, k < m
          PROVE  /\ SyntheticBox(k, m, size)[2] = LineTop(height, m, k)
                 /\ SyntheticBox(k, m, size)[4] = LineTop(height, m, k + 1)
                 /\ LineTop(height, m, k + 1) <= height * Unit
      BY <2>4, <2>5, <3>1, LineEnds
    <3>2. \A k \in free : r(k) - 1 \in Nat /\ r(k) - 1 < m /\ (r(k) - 1) + 1 = r(k)
      BY <2>2, <2>4
    <3> QED
      BY <2>1, <3>1, <3>2
  <2>7. out[place(i)].box[4] <= height * Unit
    BY <2>6
  <2>8. ASSUME NEW j \in free, i < j PROVE out[place(i)].box[4] <= out[place(j)].box[2]
    <3>1. LineTop(height, m, r(i)) <= LineTop(height, m, r(j) - 1)
      BY <2>2, <2>3, <2>4, <2>8, LinesInOrder
    <3> QED
      BY <2>6, <3>1
  <2> QED
    BY <2>7, <2>8
<1>9. ASSUME NEW i \in texts, i \notin free
      PROVE  out[place(i)].box = Coerce(said[i].box)
  BY <1>1, <1>2, <1>3, <1>6, <1>9
<1>10. \A i \in texts : out[place(i)].text = said[i].text
  BY <1>1, <1>2, <1>3
<1> QED
  BY <1>4, <1>8, <1>9, <1>10 DEF out, texts, LinesHold

-----------------------------------------------------------------------------
(* Boxes and rows.                                                         *)

Corners == Int \X Int \X Int \X Int

\* A box that is read has its corners in order.
LEMMA Coerced ==
    ASSUME NEW box \in {Absent} \cup Seq(Int), Coerce(box) # Absent
    PROVE  Coerce(box) \in Corners
<1>1. box \in Seq(Int) /\ Len(box) >= 4
  BY DEF Coerce
<1>2. box[1] \in Int /\ box[2] \in Int /\ box[3] \in Int /\ box[4] \in Int
  BY <1>1
<1> DEFINE a == Lower(box[1], box[3])
           b == Lower(box[2], box[4])
           c == Higher(box[1], box[3])
           d == Higher(box[2], box[4])
<1>3. a \in Int /\ b \in Int /\ c \in Int /\ d \in Int
  BY <1>2 DEF Lower, Higher
<1>4. Coerce(box) = <<a, b, c, d>>
  BY DEF Coerce
<1> HIDE DEF a, b, c, d
<1> QED
  BY <1>3, <1>4 DEF Corners

\* A scaled box has integer corners.
LEMMA Scaled ==
    ASSUME NEW box \in Corners, NEW size \in Page
    PROVE  ScaleUp(box, size) \in Corners
<1>1. box[1] * size[1] \in Int /\ box[2] * size[2] \in Int
      /\ box[3] * size[1] \in Int /\ box[4] * size[2] \in Int
  BY DEF Corners, Page
<1> QED
  BY <1>1 DEF ScaleUp, Corners

\* A coordinate is cut to the page.
LEMMA CutToPage ==
    ASSUME NEW x \in Int, NEW page \in Int
    PROVE  Within(x, page) \in Int /\ (page > 0 => Within(x, page) >= 0 /\ Within(x, page) <= page * Unit)
<1>1. page * Unit \in Int /\ (page > 0 => page * Unit >= 0)
  BY UnitAssumption
<1> QED
  BY <1>1 DEF Within, Higher, Lower

\* A box that is kept is not too small, and inside a page of known size.
LEMMA Finalized ==
    ASSUME NEW box \in Corners, NEW size \in Page, NEW label,
           Finalize(box, size, label) # Absent
    PROVE  LET cut == Finalize(box, size, label)
               side == IF label = LabelIds["table"] THEN 32 ELSE 4
           IN  /\ cut[3] - cut[1] >= side * Unit
               /\ cut[4] - cut[2] >= side * Unit
               /\ Known(size) =>
                    /\ cut[1] >= 0 /\ cut[3] <= size[1] * Unit
                    /\ cut[2] >= 0 /\ cut[4] <= size[2] * Unit
<1> DEFINE cut == IF Known(size)
                  THEN <<Within(box[1], size[1]), Within(box[2], size[2]),
                         Within(box[3], size[1]), Within(box[4], size[2])>>
                  ELSE box
           side == IF label = LabelIds["table"] THEN 32 ELSE 4
<1>1. /\ box[1] \in Int /\ box[2] \in Int /\ box[3] \in Int /\ box[4] \in Int
      /\ size[1] \in Int /\ size[2] \in Int
  BY DEF Corners, Page
<1>2. /\ cut[1] \in Int /\ cut[2] \in Int /\ cut[3] \in Int /\ cut[4] \in Int
      /\ Known(size) => /\ cut[1] >= 0 /\ cut[3] <= size[1] * Unit
                        /\ cut[2] >= 0 /\ cut[4] <= size[2] * Unit
  BY <1>1, CutToPage DEF Known
<1>3. side * Unit \in Int /\ side * Unit = IF label = LabelIds["table"] THEN MinTableSide ELSE MinLayoutSide
  BY UnitAssumption DEF MinTableSide, MinLayoutSide
<1>4. /\ Finalize(box, size, label) = cut
      /\ ~(cut[3] - cut[1] < side * Unit) /\ ~(cut[4] - cut[2] < side * Unit)
  BY <1>3 DEF Finalize
<1> HIDE DEF cut
<1>5. cut[3] - cut[1] >= side * Unit /\ cut[4] - cut[2] >= side * Unit
  BY <1>2, <1>3, <1>4
<1> QED
  BY <1>2, <1>4, <1>5

\* What an item becomes.
LEMMA Detected ==
    ASSUME NEW item \in Item, NEW size \in Page, Detection(item, size) # Absent
    PROVE  LET found == Detection(item, size)
               side == IF found.label = LabelIds["table"] THEN 32 ELSE 4
           IN  /\ found.box[3] - found.box[1] >= side * Unit
               /\ found.box[4] - found.box[2] >= side * Unit
               /\ Known(size) =>
                    /\ found.box[1] >= 0 /\ found.box[3] <= size[1] * Unit
                    /\ found.box[2] >= 0 /\ found.box[4] <= size[2] * Unit
<1> DEFINE id == LabelId(item.label, LabelIds, "text")
           corners == IF item.dict THEN Coerce(item.box) ELSE Absent
           box == IF corners = Absent THEN Absent
                  ELSE Finalize(ScaleUp(corners, size), size, id)
<1>1. box # Absent /\ Detection(item, size) = [label |-> id, box |-> box, score |-> Score(item.score)]
  BY DEF Detection
<1>2. corners # Absent /\ corners = Coerce(item.box) /\ item.box \in {Absent} \cup Seq(Int)
  BY <1>1 DEF Item
<1> HIDE DEF id, corners
<1>3. ScaleUp(corners, size) \in Corners
  BY <1>2, Coerced, Scaled
<1>4. box = Finalize(ScaleUp(corners, size), size, id)
  BY <1>2
<1> HIDE DEF box
<1>5. Detection(item, size).label = id /\ Detection(item, size).box = box
  BY <1>1
<1> QED
  BY <1>1, <1>3, <1>4, <1>5, Finalized

\* The place of the n-th of c entries of row b, and back.
Place(c, b, n) == (b - 1) * c + n
Row(c, k) == 1 + ((k - 1) \div c)
Column(c, k) == 1 + ((k - 1) % c)

\* An entry is found again at its row and its column, within the shape.
LEMMA RowPlace ==
    ASSUME NEW c \in Nat, NEW h \in Nat, NEW b \in 1 .. h, NEW n \in 1 .. c
    PROVE  /\ Place(c, b, n) \in 1 .. h * c
           /\ Row(c, Place(c, b, n)) = b /\ Column(c, Place(c, b, n)) = n
<1>1. PICK k \in Nat : k = Place(c, b, n)
  BY DEF Place
<1>2. k \in Nat /\ k >= 1 /\ k - 1 = c * (b - 1) + (n - 1)
  BY <1>1 DEF Place
<1>3. k <= h * c
  <2>1. (b - 1) * c + c = b * c /\ b * c <= h * c
    OBVIOUS
  <2> QED
    BY <1>1, <2>1 DEF Place
<1>4. (k - 1) \div c = b - 1 /\ (k - 1) % c = n - 1
  BY <1>2
<1> QED
  BY <1>1, <1>2, <1>3, <1>4 DEF Row, Column

\* The detections of items in row b of data, as the property of the answer has
\* them, and those of a batch in the rows of out.
RowHolds(items, page, count, data, b) ==
    LET seen(i) == Detection(items[i], page)
        kept == {i \in DOMAIN items : seen(i) # Absent}
    IN  /\ Cardinality(kept) <= count
        /\ \A n \in Cardinality(kept) + 1 .. count : data[(b - 1) * count + n] = Padding
        /\ \A i \in kept :
             LET found == data[(b - 1) * count + Rank(i, kept)]
                 box == found.box
                 side == IF found.label = LabelIds["table"] THEN 32 ELSE 4
             IN  /\ found = seen(i)
                 /\ box[3] - box[1] >= side * Unit
                 /\ box[4] - box[2] >= side * Unit
                 /\ Known(page) =>
                      /\ box[1] >= 0 /\ box[3] <= page[1] * Unit
                      /\ box[2] >= 0 /\ box[4] <= page[2] * Unit

RowsHold(batch, pages, out) ==
    /\ out.shape[1] = Higher(1, Len(pages))
    /\ Len(out.data) = out.shape[1] * out.shape[2]
    /\ \A b \in DOMAIN pages : RowHolds(batch[b], pages[b], out.shape[2], out.data, b)

\* The detections of every image are found in its row at their ranks, and the
\* rows fill the declared shape.
LEMMA DetectionsInPlace ==
    ASSUME NEW m \in Nat, NEW batch \in Seq(Seq(Item)), NEW pages \in Seq(Page),
           Len(batch) = m, Len(pages) = m
    PROVE  RowsHold(batch, pages, EncodeDetections(batch, pages))
<1> DEFINE out == EncodeDetections(batch, pages)
           rows == [b \in DOMAIN batch |-> Detections(batch[b], pages[b])]
           lens == [b \in 1 .. m |-> Len(rows[b])]
           count == Largest({0} \cup {Len(rows[b]) : b \in DOMAIN rows})
           kept(b) == {i \in DOMAIN batch[b] : Detection(batch[b][i], pages[b]) # Absent}
           large(b, found) ==
             LET box == found.box
                 side == IF found.label = LabelIds["table"] THEN 32 ELSE 4
             IN  /\ box[3] - box[1] >= side * Unit
                 /\ box[4] - box[2] >= side * Unit
                 /\ Known(pages[b]) =>
                      /\ box[1] >= 0 /\ box[3] <= pages[b][1] * Unit
                      /\ box[2] >= 0 /\ box[4] <= pages[b][2] * Unit
<1>1. DOMAIN batch = 1 .. m /\ DOMAIN pages = 1 .. m /\ DOMAIN rows = 1 .. m
  OBVIOUS
<1>2. ASSUME NEW b \in 1 .. m
      PROVE  /\ Cardinality(kept(b)) \in Nat
             /\ Len(rows[b]) = Cardinality(kept(b))
             /\ \A i \in kept(b) : /\ Rank(i, kept(b)) \in 1 .. Cardinality(kept(b))
                                   /\ rows[b][Rank(i, kept(b))] = Detection(batch[b][i], pages[b])
  <2> DEFINE items == batch[b]
             detections == [i \in DOMAIN items |-> Detection(items[i], pages[b])]
             I == {i \in DOMAIN items : detections[i] # Absent}
  <2>1. items \in Seq(Item) /\ DOMAIN items = 1 .. Len(items) /\ Len(items) \in Nat
    BY <1>1
  <2>2. I = kept(b) /\ I \in SUBSET (1 .. Len(items))
    BY <2>1
  <2>3. rows[b] = Select(detections, I)
    BY <1>1 DEF Detections
  <2>4. \A i \in I : detections[i] = Detection(items[i], pages[b])
    OBVIOUS
  <2> HIDE DEF rows, I, kept, detections
  <2>5. /\ Len(Select(detections, I)) = Cardinality(I)
        /\ \A i \in I : Select(detections, I)[Rank(i, I)] = detections[i]
    BY <2>1, <2>2, Selected
  <2>6. Cardinality(I) \in Nat /\ \A i \in I : Rank(i, I) \in 1 .. Cardinality(I)
    BY <2>1, <2>2, Ranks
  <2> QED
    BY <2>2, <2>3, <2>4, <2>5, <2>6
<1>3. count \in Nat /\ \A b \in 1 .. m : Len(rows[b]) <= count
  <2>1. {Len(rows[b]) : b \in DOMAIN rows} = {lens[b] : b \in 1 .. m}
    BY <1>1
  <2>2. \A b \in 1 .. m : lens[b] = Len(rows[b]) /\ lens[b] \in Nat
    BY <1>2
  <2> DEFINE S == {0} \cup {lens[b] : b \in 1 .. m}
  <2> HIDE DEF lens, rows
  <2>3. Largest(S) \in Nat /\ \A b \in 1 .. m : lens[b] <= Largest(S)
    BY <2>2, LargestOf
  <2>4. count = Largest(S)
    BY <2>1
  <2> HIDE DEF S, count
  <2> QED
    BY <2>2, <2>3, <2>4
<1>4. /\ out.shape[1] = Higher(1, m) /\ out.shape[2] = count
      /\ out.data = [k \in 1 .. m * count |->
                       IF Column(count, k) <= Len(rows[Row(count, k)])
                       THEN rows[Row(count, k)][Column(count, k)] ELSE Padding]
  BY DEF EncodeDetections, Row, Column
<1> HIDE DEF out, rows, count
<1>5. Len(out.data) = m * count /\ m * count = Higher(1, m) * count
  <2>1. m * count \in Nat
    BY <1>3
  <2>2. Len(out.data) = m * count
    BY <1>4, <2>1
  <2>3. m * count = Higher(1, m) * count
    <3>1. CASE m = 0
      <4>1. {Len(rows[b]) : b \in DOMAIN rows} = {}
        BY <1>1, <3>1
      <4>2. count = 0
        BY <4>1 DEF count, Largest
      <4> QED
        BY <3>1, <4>2 DEF Higher
    <3>2. CASE m # 0
      BY <3>2 DEF Higher
    <3> QED
      BY <3>1, <3>2
  <2> QED
    BY <2>2, <2>3
<1>6. ASSUME NEW b \in 1 .. m, NEW n \in 1 .. count
      PROVE  out.data[Place(count, b, n)] = IF n <= Len(rows[b]) THEN rows[b][n] ELSE Padding
  <2>1. /\ Place(count, b, n) \in 1 .. m * count
        /\ Row(count, Place(count, b, n)) = b /\ Column(count, Place(count, b, n)) = n
    BY <1>3, RowPlace
  <2> QED
    BY <1>4, <2>1
<1>7. ASSUME NEW b \in DOMAIN pages
      PROVE  /\ Cardinality(kept(b)) <= count
             /\ \A n \in Cardinality(kept(b)) + 1 .. count : out.data[Place(count, b, n)] = Padding
             /\ \A i \in kept(b) : out.data[Place(count, b, Rank(i, kept(b)))]
                                     = Detection(batch[b][i], pages[b])
  <2>1. /\ b \in 1 .. m /\ Cardinality(kept(b)) \in Nat /\ Len(rows[b]) = Cardinality(kept(b))
        /\ Cardinality(kept(b)) <= count
    BY <1>1, <1>2, <1>3
  <2>2. ASSUME NEW n \in Cardinality(kept(b)) + 1 .. count
        PROVE  out.data[Place(count, b, n)] = Padding
    <3>1. n \in 1 .. count /\ ~(n <= Len(rows[b]))
      BY <1>3, <2>1
    <3> QED
      BY <1>6, <2>1, <3>1
  <2>3. ASSUME NEW i \in kept(b)
        PROVE  out.data[Place(count, b, Rank(i, kept(b)))] = Detection(batch[b][i], pages[b])
    <3> DEFINE n == Rank(i, kept(b))
    <3>1. n \in 1 .. count /\ n <= Len(rows[b]) /\ rows[b][n] = Detection(batch[b][i], pages[b])
      <4>1. n \in 1 .. Cardinality(kept(b)) /\ rows[b][n] = Detection(batch[b][i], pages[b])
        BY <1>2, <2>1
      <4> HIDE DEF n, kept
      <4> QED
        BY <1>3, <2>1, <4>1
    <3> HIDE DEF n
    <3>2. out.data[Place(count, b, n)] = Detection(batch[b][i], pages[b])
      BY <1>6, <2>1, <3>1
    <3> QED
      BY <3>2 DEF n
  <2> QED
    BY <2>1, <2>2, <2>3
<1>8. ASSUME NEW b \in DOMAIN pages, NEW i \in kept(b)
      PROVE  large(b, Detection(batch[b][i], pages[b]))
  <2>1. b \in DOMAIN batch /\ batch[b] \in Seq(Item) /\ i \in DOMAIN batch[b]
    BY <1>1
  <2>2. batch[b][i] \in Item /\ pages[b] \in Page /\ Detection(batch[b][i], pages[b]) # Absent
    BY <2>1
  <2> QED
    BY <2>2, Detected
<1>9. ASSUME NEW b \in DOMAIN pages, NEW i \in kept(b)
      PROVE  LET found == out.data[Place(count, b, Rank(i, kept(b)))]
             IN  found = Detection(batch[b][i], pages[b]) /\ large(b, found)
  <2> HIDE DEF large
  <2>1. out.data[Place(count, b, Rank(i, kept(b)))] = Detection(batch[b][i], pages[b])
    BY <1>7
  <2>2. large(b, Detection(batch[b][i], pages[b]))
    BY <1>8
  <2> QED
    BY <2>1, <2>2
<1>10. /\ out.shape[1] = Higher(1, Len(pages)) /\ out.shape[2] = count
       /\ Len(out.data) = out.shape[1] * count
  BY <1>4, <1>5
<1> HIDE DEF large
<1>11. ASSUME NEW b \in DOMAIN pages
       PROVE  RowHolds(batch[b], pages[b], count, out.data, b)
  <2>1. /\ Cardinality(kept(b)) <= count
        /\ \A n \in Cardinality(kept(b)) + 1 .. count : out.data[(b - 1) * count + n] = Padding
    BY <1>7 DEF Place
  <2>2. \A i \in kept(b) :
           LET found == out.data[(b - 1) * count + Rank(i, kept(b))]
           IN  found = Detection(batch[b][i], pages[b]) /\ large(b, found)
    BY <1>9 DEF Place
  <2> QED
    BY <2>1, <2>2 DEF RowHolds, large
<1>12. RowsHold(batch, pages, out)
  BY <1>4, <1>10, <1>11 DEF RowsHold
<1> QED
  BY <1>12 DEF out

-----------------------------------------------------------------------------
(* The calls: the invariant.                                               *)

Outcomes == {"timeout", "refused", "status", "text", "array", "rejected", "reply"}

Post == [image : Nat, outcome : Outcomes]

Parsed == {ParseReply(r) : r \in Replies[request.model]}

Calling == pc \notin {"encode", "done"}

\* The POSTs made for image b.
Posts(b) == {i \in DOMAIN log : log[i].image = b}

Types ==
    /\ log \in Seq(Post)
    /\ replies # <<>> => replies \in Seq(Parsed)
    /\ attempt \in 1 .. MaxRetries + 1

\* Before the first POST there is nothing to show for.
Fresh == pc \in {"received", "decode", "relay"} => log = <<>> /\ replies = <<>> /\ attempt = 1

\* What was sent is about images that have been answered for, or about the
\* present one and has timed out; attempt counts the latter.
Behind ==
    Calling =>
        /\ \A i \in DOMAIN log :
              \/ log[i].image < Current
              \/ log[i].image = Current /\ log[i].outcome = "timeout"
        /\ Cardinality(Posts(Current)) = attempt - 1

InOrder ==
    \A i, j \in DOMAIN log : i < j =>
        /\ log[i].image <= log[j].image
        /\ log[i].image = log[j].image => log[i].outcome = "timeout"

Bounded == \A i \in DOMAIN log : Cardinality(Posts(log[i].image)) <= MaxRetries + 1

\* Encoding starts after a reply, or without any call.
Replied == pc = "encode" /\ log # <<>> => Last(log).outcome = "reply"

IInv == Types /\ Fresh /\ Behind /\ InOrder /\ Bounded /\ Replied /\ UnreachableIs502

-----------------------------------------------------------------------------
(* Sets of POSTs.                                                          *)

\* The POSTs for an image, and those after one more.
LEMMA OneMore ==
    ASSUME log \in Seq(Post), NEW n \in Nat, NEW outcome \in Outcomes,
           log' = Append(log, [image |-> n, outcome |-> outcome])
    PROVE  /\ log' \in Seq(Post) /\ Len(log') = Len(log) + 1
           /\ DOMAIN log = 1 .. Len(log) /\ DOMAIN log' = 1 .. Len(log) + 1
           /\ log'[Len(log) + 1] = [image |-> n, outcome |-> outcome]
           /\ \A i \in DOMAIN log : log'[i] = log[i] /\ log[i] \in Post
           /\ Last(log') = [image |-> n, outcome |-> outcome]
           /\ IsFiniteSet(Posts(n)) /\ Cardinality(Posts(n)) \in Nat
           /\ Cardinality(Posts(n)') = Cardinality(Posts(n)) + 1
           /\ \A b \in Nat \ {n} : Posts(b)' = Posts(b)
<1> DEFINE e == [image |-> n, outcome |-> outcome]
<1>1. e \in Post
  BY DEF Post
<1>2. /\ log' \in Seq(Post) /\ Len(log') = Len(log) + 1
      /\ DOMAIN log = 1 .. Len(log) /\ DOMAIN log' = 1 .. Len(log) + 1
      /\ log'[Len(log) + 1] = e /\ Len(log) \in Nat
      /\ \A i \in DOMAIN log : log'[i] = log[i] /\ log[i] \in Post
  BY <1>1
<1>3. Last(log') = e
  BY <1>2 DEF Last
<1>4. IsFiniteSet(Posts(n)) /\ Cardinality(Posts(n)) \in Nat
  <2>1. IsFiniteSet(1 .. Len(log)) /\ Posts(n) \in SUBSET (1 .. Len(log))
    BY <1>2, FS_Interval DEF Posts
  <2> QED
    BY <2>1, FS_Subset, FS_CardinalityType
<1>5. Posts(n)' = Posts(n) \cup {Len(log) + 1} /\ Len(log) + 1 \notin Posts(n)
  BY <1>2 DEF Posts
<1>6. Cardinality(Posts(n)') = Cardinality(Posts(n)) + 1
  BY <1>4, <1>5, FS_AddElement
<1>7. \A b \in Nat \ {n} : Posts(b)' = Posts(b)
  BY <1>2 DEF Posts
<1> QED
  BY <1>2, <1>3, <1>4, <1>6, <1>7

\* The place of the present image.
LEMMA CurrentType == IInv => Current \in Nat /\ Len(replies) \in Nat
<1> SUFFICES ASSUME IInv PROVE Len(replies) \in Nat
  BY DEF Current
<1>1. CASE replies = <<>>
  BY <1>1
<1>2. CASE replies # <<>>
  BY <1>2 DEF IInv, Types
<1> QED
  BY <1>1, <1>2

-----------------------------------------------------------------------------
(* Steps.                                                                  *)

\* Initially nothing was sent.
LEMMA InitInv == Init => IInv
<1> SUFFICES ASSUME Init PROVE IInv
  OBVIOUS
<1> USE DEF Init
<1>1. Types /\ Fresh
  BY RetryAssumption DEF Types, Fresh
<1>2. Behind
  <2>1. Posts(Current) = {}
    BY DEF Posts
  <2> QED
    BY <2>1, FS_EmptySet DEF Behind
<1>3. InOrder /\ Bounded /\ Replied /\ UnreachableIs502
  BY DEF InOrder, Bounded, Replied, UnreachableIs502
<1> QED
  BY <1>1, <1>2, <1>3 DEF IInv

\* What a model may have said depends on the request alone.
LEMMA SameParsed == request' = request => Parsed' = Parsed
BY DEF Parsed, ParseReply

\* A step that sends nothing and stays before, or passes, the calls.
LEMMA QuietInv ==
    ASSUME IInv, UNCHANGED <<request, attempt, log, replies>>,
           pc \in {"received", "decode", "relay", "encode"},
           \/ pc' = "done" /\ pc = "encode" /\ answer'.status \in {200, 400, 500}
           \/ pc # "encode" /\ pc' \in {"decode", "relay", "post", "encode", "done"}
    PROVE  IInv'
<1>1. Types'
  BY SameParsed DEF IInv, Types
<1>2. pc # "encode" => log = <<>> /\ replies = <<>> /\ attempt = 1
  BY DEF IInv, Fresh
<1>3. Fresh'
  BY <1>2 DEF Fresh
<1>4. Behind'
  <2>1. SUFFICES ASSUME Calling' PROVE Behind'
    BY DEF Behind
  <2>2. Calling
    BY <2>1 DEF Calling
  <2> QED
    BY <2>2 DEF IInv, Behind, Posts, Current
<1>5. InOrder' /\ Bounded'
  BY DEF IInv, InOrder, Bounded, Posts
<1>6. Replied'
  BY <1>2 DEF Replied
<1>7. UnreachableIs502'
  <2>1. SUFFICES ASSUME pc' = "done", log # <<>>
                 PROVE  /\ Last(log).outcome \in {"timeout", "refused"} => answer'.status = 502
                        /\ answer'.status = 200 => Last(log).outcome = "reply"
    BY DEF UnreachableIs502
  <2>2. pc = "encode" /\ Last(log).outcome = "reply"
    BY <1>2, <2>1 DEF IInv, Replied
  <2> QED
    BY <2>2
<1> QED
  BY <1>1, <1>3, <1>4, <1>5, <1>6, <1>7 DEF IInv

\* What a POST adds to the log, wherever the code goes on from there.
LEMMA PostInv ==
    ASSUME IInv, Calling, NEW outcome \in Outcomes, Logged(outcome)
    PROVE  /\ log' \in Seq(Post) /\ log' # <<>> /\ Last(log').outcome = outcome
           /\ InOrder' /\ Bounded'
           /\ Cardinality({i \in DOMAIN log' : log'[i].image = Current}) = attempt
           /\ \A i \in DOMAIN log' :
                 /\ log'[i].image \in Nat /\ log'[i].image <= Current
                 /\ log'[i].image = Current => log'[i].outcome \in {"timeout", outcome}
<1>1. PICK n \in Nat : n = Current
  BY CurrentType
<1>2. log' = Append(log, [image |-> n, outcome |-> outcome]) /\ log \in Seq(Post)
  BY <1>1 DEF Logged, IInv, Types
<1>3. /\ log' \in Seq(Post) /\ Len(log') = Len(log) + 1 /\ Len(log) \in Nat
      /\ DOMAIN log = 1 .. Len(log) /\ DOMAIN log' = 1 .. Len(log) + 1
      /\ log'[Len(log) + 1] = [image |-> n, outcome |-> outcome]
      /\ \A i \in DOMAIN log : log'[i] = log[i] /\ log[i] \in Post
      /\ Last(log') = [image |-> n, outcome |-> outcome]
      /\ Cardinality(Posts(n)) \in Nat
      /\ Cardinality(Posts(n)') = Cardinality(Posts(n)) + 1
      /\ \A b \in Nat \ {n} : Posts(b)' = Posts(b)
  BY <1>1, <1>2, OneMore
<1>4. /\ \A i \in DOMAIN log : \/ log[i].image < n
                               \/ log[i].image = n /\ log[i].outcome = "timeout"
      /\ Cardinality(Posts(n)) = attempt - 1
      /\ attempt \in 1 .. MaxRetries + 1
  BY <1>1 DEF IInv, Behind, Types
<1>5. \A i \in DOMAIN log' : \/ i \in DOMAIN log
                             \/ i = Len(log) + 1
  BY <1>3
<1>6. \A i \in DOMAIN log' :
        /\ log'[i].image \in Nat /\ log'[i].image <= n
        /\ log'[i].image = n => log'[i].outcome \in {"timeout", outcome}
  <2> SUFFICES ASSUME NEW i \in DOMAIN log'
               PROVE  /\ log'[i].image \in Nat /\ log'[i].image <= n
                      /\ log'[i].image = n => log'[i].outcome \in {"timeout", outcome}
    OBVIOUS
  <2>1. CASE i \in DOMAIN log
    <3>1. log'[i] = log[i] /\ log[i].image \in Nat
      BY <1>3, <2>1 DEF Post
    <3>2. \/ log[i].image < n
          \/ log[i].image = n /\ log[i].outcome = "timeout"
      BY <1>4, <2>1
    <3> QED
      BY <1>1, <3>1, <3>2
  <2>2. CASE i = Len(log) + 1
    <3>1. log'[i] = [image |-> n, outcome |-> outcome]
      BY <1>3, <2>2
    <3> QED
      BY <1>1, <3>1
  <2> QED
    BY <1>5, <2>1, <2>2
<1>7. InOrder'
  <2> SUFFICES ASSUME NEW i \in DOMAIN log', NEW j \in DOMAIN log', i < j
               PROVE  /\ log'[i].image <= log'[j].image
                      /\ log'[i].image = log'[j].image => log'[i].outcome = "timeout"
    BY DEF InOrder
  <2>1. i \in DOMAIN log /\ log'[i] = log[i]
    BY <1>3
  <2>2. CASE j \in DOMAIN log
    BY <1>3, <2>1, <2>2 DEF IInv, InOrder
  <2>3. CASE j = Len(log) + 1
    BY <1>1, <1>3, <1>4, <2>1, <2>3 DEF Post
  <2> QED
    BY <1>5, <2>2, <2>3
<1>8. Cardinality({i \in DOMAIN log' : log'[i].image = n}) = attempt
  <2>1. Posts(n)' = {i \in DOMAIN log' : log'[i].image = n}
    BY DEF Posts
  <2> QED
    BY <1>3, <1>4, <2>1
<1>9. Bounded'
  <2> SUFFICES ASSUME NEW i \in DOMAIN log'
               PROVE  Cardinality({j \in DOMAIN log' : log'[j].image = log'[i].image})
                        <= MaxRetries + 1
    BY DEF Bounded, Posts
  <2>1. PICK b \in Nat : b = log'[i].image
    BY <1>6
  <2>2. Posts(b)' = {j \in DOMAIN log' : log'[j].image = log'[i].image}
    BY <2>1 DEF Posts
  <2>3. CASE b = n
    <3>1. {j \in DOMAIN log' : log'[j].image = log'[i].image}
            = {j \in DOMAIN log' : log'[j].image = n}
      BY <2>1, <2>3
    <3>2. Cardinality({j \in DOMAIN log' : log'[j].image = n}) <= MaxRetries + 1
      BY <1>4, <1>8, RetryAssumption
    <3> QED
      BY <3>1, <3>2
  <2>4. CASE b # n
    <3>1. i \in DOMAIN log /\ log[i].image = b
      BY <1>1, <1>3, <1>5, <2>1, <2>4
    <3>2. Cardinality(Posts(b)) <= MaxRetries + 1
      BY <3>1 DEF IInv, Bounded
    <3> QED
      BY <1>3, <2>2, <2>4, <3>2
  <2> QED
    BY <2>3, <2>4
<1> QED
  BY <1>1, <1>3, <1>6, <1>7, <1>8, <1>9

\* A POST that ends the request.
LEMMA EndInv ==
    ASSUME IInv, Calling, NEW outcome \in Outcomes, Logged(outcome), pc' = "done",
           request' = request, UNCHANGED <<attempt, replies>>,
           outcome \in {"timeout", "refused"} => answer'.status = 502,
           answer'.status = 200 => outcome = "reply"
    PROVE  IInv'
<1>1. log' \in Seq(Post) /\ log' # <<>> /\ Last(log').outcome = outcome /\ InOrder' /\ Bounded'
  BY PostInv
<1>2. Types'
  BY <1>1, SameParsed DEF IInv, Types
<1>3. Fresh' /\ Behind' /\ Replied'
  BY DEF Fresh, Behind, Calling, Replied
<1>4. UnreachableIs502'
  BY <1>1 DEF UnreachableIs502
<1> QED
  BY <1>1, <1>2, <1>3, <1>4 DEF IInv

\* A timeout that is followed by another attempt.
LEMMA TimeOutInv == IInv /\ TimeOut => IInv'
<1> SUFFICES ASSUME IInv, TimeOut PROVE IInv'
  OBVIOUS
<1>1. /\ pc = "post" /\ pc' = "post" /\ attempt <= MaxRetries /\ attempt' = attempt + 1
      /\ Logged("timeout") /\ UNCHANGED <<request, replies>> /\ Calling
  BY DEF TimeOut, Calling
<1>2. /\ log' \in Seq(Post) /\ InOrder' /\ Bounded'
      /\ Cardinality({i \in DOMAIN log' : log'[i].image = Current}) = attempt
      /\ \A i \in DOMAIN log' :
            /\ log'[i].image \in Nat /\ log'[i].image <= Current
            /\ log'[i].image = Current => log'[i].outcome = "timeout"
  <2>1. PICK outcome \in Outcomes : outcome = "timeout"
    BY DEF Outcomes
  <2>2. Logged(outcome)
    BY <1>1, <2>1
  <2> QED
    BY <1>1, <2>1, <2>2, PostInv
<1>3. Current' = Current /\ Current \in Nat
  BY <1>1, CurrentType DEF Current
<1>4. Types'
  BY <1>1, <1>2, SameParsed, RetryAssumption DEF IInv, Types
<1>5. Behind'
  <2>1. Posts(Current)' = {i \in DOMAIN log' : log'[i].image = Current}
    BY <1>3 DEF Posts
  <2>2. Cardinality(Posts(Current)') = attempt' - 1
    BY <1>1, <1>2, <1>4, <2>1 DEF IInv, Types
  <2> QED
    BY <1>2, <1>3, <2>2 DEF Behind
<1>6. Fresh' /\ Replied' /\ UnreachableIs502'
  BY <1>1 DEF Fresh, Replied, UnreachableIs502
<1> QED
  BY <1>2, <1>4, <1>5, <1>6 DEF IInv

\* A reply: the next image starts with no POST of its own.
LEMMA ReplyInv == IInv /\ ModelReplies => IInv'
<1> SUFFICES ASSUME IInv, ModelReplies PROVE IInv'
  OBVIOUS
<1>1. pc = "post" /\ Calling /\ Logged("reply") /\ request' = request
  BY DEF ModelReplies, Calling
<1> PICK outcome \in Outcomes : outcome = "reply" /\ Logged(outcome)
  BY <1>1 DEF Outcomes
<1>2. PICK parsed \in Parsed :
        IF parsed = Bad
        THEN Answer(StatusOf(Bad), Absent) /\ UNCHANGED <<replies, attempt>>
        ELSE /\ replies' = Append(replies, parsed) /\ attempt' = 1
             /\ pc' = IF Current = Len(sizes) THEN "encode" ELSE "post"
  BY DEF ModelReplies, Parsed
<1>3. CASE parsed = Bad
  <2>1. pc' = "done" /\ answer'.status = 400 /\ UNCHANGED <<replies, attempt>>
    BY <1>2, <1>3 DEF Answer, StatusOf
  <2> QED
    BY <1>1, <2>1, EndInv
<1>4. CASE parsed # Bad
  <2>1. /\ replies' = Append(replies, parsed) /\ attempt' = 1 /\ pc' \in {"encode", "post"}
    BY <1>2, <1>4
  <2>2. /\ log' \in Seq(Post) /\ log' # <<>> /\ Last(log').outcome = outcome /\ InOrder' /\ Bounded'
        /\ \A i \in DOMAIN log' : log'[i].image \in Nat /\ log'[i].image <= Current
    BY <1>1, PostInv
  <2>3. replies \in Seq(Parsed)
    <3>1. CASE replies = <<>>
      BY <3>1
    <3>2. CASE replies # <<>>
      BY <3>2 DEF IInv, Types
    <3> QED
      BY <3>1, <3>2
  <2>4. replies' \in Seq(Parsed) /\ Len(replies') = Len(replies) + 1
    BY <2>1, <2>3
  <2>5. Current' = Current + 1 /\ Current \in Nat
    BY <2>4, CurrentType DEF Current
  <2>6. Types'
    BY <1>1, <2>1, <2>2, <2>4, SameParsed, RetryAssumption DEF Types
  <2>7. Behind'
    <3>1. Posts(Current)' = {}
      BY <2>2, <2>5 DEF Posts
    <3>2. Cardinality(Posts(Current)') = attempt' - 1
      BY <2>1, <3>1, FS_EmptySet
    <3>3. \A i \in DOMAIN log' : log'[i].image < Current'
      BY <2>2, <2>5
    <3> QED
      BY <3>2, <3>3 DEF Behind
  <2>8. Fresh' /\ Replied' /\ UnreachableIs502'
    BY <2>1, <2>2 DEF Fresh, Replied, UnreachableIs502
  <2> QED
    BY <2>2, <2>6, <2>7, <2>8 DEF IInv
<1> QED
  BY <1>3, <1>4

\* The steps that make no call.
LEMMA QuietSteps ==
    ASSUME IInv, UnknownModel \/ ReceiveRelay \/ ReceiveOpenAI \/ Parse \/ Decode \/ Encode
    PROVE  IInv'
<1>1. UNCHANGED <<request, attempt, log, replies>> /\ pc \in {"received", "decode", "relay", "encode"}
  BY DEF UnknownModel, ReceiveRelay, ReceiveOpenAI, Parse, Decode, Encode
<1>2. CASE Encode
  <2>1. pc' = "done" /\ pc = "encode" /\ answer'.status \in {200, 400, 500}
    BY <1>2 DEF Encode, Answer, StatusOf
  <2> QED
    BY <1>1, <2>1, QuietInv
<1>3. CASE ~Encode
  <2>1. pc # "encode" /\ pc' \in {"decode", "relay", "post", "encode", "done"}
    BY <1>3 DEF UnknownModel, ReceiveRelay, ReceiveOpenAI, Parse, Decode, Answer
  <2> QED
    BY <1>1, <2>1, QuietInv
<1> QED
  BY <1>2, <1>3

\* The calls that end the request: failures, and the answers handed back.
LEMMA FinalCalls ==
    ASSUME IInv, TransportFails \/ ModelErrs \/ ModelRepliesOpenAI \/ Relay
    PROVE  IInv'
<1>1. /\ Calling /\ pc' = "done" /\ request' = request /\ UNCHANGED <<attempt, replies>>
  BY DEF TransportFails, ModelErrs, ModelRepliesOpenAI, Relay, Answer, Calling
<1>2. PICK outcome \in Outcomes :
        /\ Logged(outcome)
        /\ outcome \in {"timeout", "refused"} => answer'.status = 502
        /\ answer'.status = 200 => outcome = "reply"
  <2>1. CASE TransportFails
    BY <2>1 DEF TransportFails, Answer, Logged, Outcomes
  <2>2. CASE ModelErrs
    BY <2>2 DEF ModelErrs, Answer, StatusOf, Logged, Outcomes
  <2>3. CASE ModelRepliesOpenAI
    BY <2>3 DEF ModelRepliesOpenAI, Answer, Logged, Outcomes
  <2>4. CASE Relay
    BY <2>4 DEF Relay, Answer, Logged, Outcomes
  <2> QED
    BY <2>1, <2>2, <2>3, <2>4
<1> QED
  BY <1>1, <1>2, EndInv

-----------------------------------------------------------------------------
(* The theorems.                                                           *)

\* Every step keeps the invariant.
LEMMA StepInv == IInv /\ [Next]_vars => IInv'
<1> SUFFICES ASSUME IInv, [Next]_vars PROVE IInv'
  OBVIOUS
<1>1. CASE UNCHANGED vars
  <2>1. Types'
    BY <1>1, SameParsed DEF vars, IInv, Types
  <2> QED
    BY <1>1, <2>1 DEF vars, IInv, Fresh, Behind, InOrder, Bounded, Replied, UnreachableIs502,
                      Posts, Current, Calling
<1> QED
  BY <1>1, QuietSteps, FinalCalls, TimeOutInv, ReplyInv DEF Next

\* The inductive invariant of the calls.
THEOREM Invariance == Spec => []IInv
<1> QED
  BY InitInv, StepInv, PTL DEF Spec

\* A model that cannot be reached is a 502 on every path, and nothing but a
\* reply a 200, for any retries.
THEOREM UnreachableAnswered == Spec => []UnreachableIs502
<1>1. IInv => UnreachableIs502
  BY DEF IInv
<1> QED
  BY <1>1, Invariance, PTL

\* Images are sent in order, again only after a timeout, never after their
\* reply, and never more than MaxRetries + 1 times, for any number of images
\* and retries.
THEOREM RepliesAreKept == Spec => []NoReplyIsLost
<1>1. IInv => NoReplyIsLost
  <2> SUFFICES ASSUME IInv, NEW b \in DOMAIN sizes
               PROVE  Cardinality(Posts(b)) <= MaxRetries + 1
    BY DEF IInv, InOrder, NoReplyIsLost, Posts
  <2>1. CASE Posts(b) = {}
    BY <2>1, FS_EmptySet, RetryAssumption
  <2>2. CASE Posts(b) # {}
    <3>1. PICK i \in DOMAIN log : log[i].image = b
      BY <2>2 DEF Posts
    <3> QED
      BY <3>1 DEF IInv, Bounded
  <2> QED
    BY <2>1, <2>2
<1> QED
  BY <1>1, Invariance, PTL

-----------------------------------------------------------------------------
(* The data of a request: from its inputs to its outputs.                  *)

\* The gateway encodes the answer itself, instead of passing it on.
Adapted == request.endpoint = "kserve" /\ request.model \in Models /\ ~request.relay

Reads == Parsed \ {Bad}

Sized == sizes \in Seq(Page) /\ (request.model # "layout" => Len(sizes) = 1)

\* A reply for each image.
Complete == Sized /\ replies \in Seq(Reads) /\ Len(replies) = Len(sizes)

Decoding == pc = "decode" => inputs = ParseRequest(request.body) /\ inputs # Bad /\ Adapted

Unasked == pc \in {"received", "decode"} => replies = <<>>

Asking ==
    pc = "post" /\ request.endpoint = "kserve" =>
        Adapted /\ Sized /\ replies \in Seq(Reads) /\ Len(replies) < Len(sizes)

Answered ==
    answer.status = 200 => pc = "done" /\ (Adapted => Complete /\ answer.outputs = Outputs)

DataInv ==
    /\ request \in Requests
    /\ pc = "relay" => request.relay
    /\ Decoding /\ Unasked /\ Asking
    /\ pc = "encode" => Adapted /\ Complete
    /\ Answered

\* What is read, and what is encoded, are functions of the state.
LEMMA SameData ==
    /\ request' = request => Parsed' = Parsed /\ Reads' = Reads /\ Adapted' = Adapted
    /\ UNCHANGED <<request, sizes>> => Sized' = Sized
    /\ UNCHANGED <<request, inputs, sizes, replies>> => Outputs' = Outputs /\ Complete' = Complete
<1>1. request' = request => Parsed' = Parsed /\ Reads' = Reads /\ Adapted' = Adapted
  BY SameParsed DEF Reads, Adapted
<1>2. UNCHANGED <<request, sizes>> => Sized' = Sized
  BY DEF Sized
<1>3. UNCHANGED <<request, inputs, sizes, replies>> => Outputs' = Outputs
  BY DEF Outputs, ClassifierBatch
<1> QED
  BY <1>1, <1>2, <1>3 DEF Complete

\* A step that answers with anything else than 200.
LEMMA RefusedData ==
    ASSUME DataInv, UNCHANGED <<request, replies>>, pc # "done",
           NEW status \in {400, 404, 500, 502}, NEW outputs, Answer(status, outputs)
    PROVE  DataInv'
BY DEF DataInv, Answer, Decoding, Unasked, Asking, Answered

\* The pictures of a request have the sizes of pages, and all but those of the
\* layout model are one picture.
LEMMA ImagesAreSized ==
    ASSUME DataInv, pc = "decode", Images \notin {Bad, Crash}
    PROVE  Images \in Seq(Page) /\ (request.model # "layout" => Len(Images) = 1)
<1>1. request \in Requests /\ inputs = ParseRequest(request.body) /\ inputs # Bad /\ Adapted
  BY DEF DataInv, Decoding
<1>2. request.page \in Page
  BY <1>1, PageAssumption
<1>3. \A image : Only(image) \in {Bad, Crash} \cup {<<request.page>>}
  BY DEF Only
<1>4. <<request.page>> \in Seq(Page) /\ Len(<<request.page>>) = 1
  BY <1>2
<1>5. CASE request.model = "layout"
  <2>1. Images = LayoutImages(inputs)
    BY <1>5 DEF Images
  <2>2. LayoutImages(inputs) \in {Bad, Crash} \/ LayoutImages(inputs) \in Seq(Page)
    BY <1>1, <1>5, PageAssumption DEF Adapted
  <2> QED
    BY <1>5, <2>1, <2>2
<1>6. CASE request.model = "picture_classifier"
  <2>1. Images = ClassifierImages
    BY <1>6 DEF Images
  <2>2. ClassifierImages \in {Bad, Crash} \cup {<<request.page>>}
    BY <1>3 DEF ClassifierImages, OneImage
  <2> QED
    BY <1>4, <2>1, <2>2
<1>7. CASE request.model \in {"ocr", "table"}
  <2>1. Images = OneImage
    BY <1>7 DEF Images
  <2>2. OneImage \in {Bad, Crash} \cup {<<request.page>>}
    BY <1>3 DEF OneImage
  <2> QED
    BY <1>4, <2>1, <2>2
<1> QED
  BY <1>1, <1>5, <1>6, <1>7 DEF Adapted, Models

\* Initially nothing is known but the request.
LEMMA InitData == Init => DataInv
BY DEF Init, DataInv, Decoding, Unasked, Asking, Answered, Unanswered

\* A request that arrives.
LEMMA ArrivalData ==
    ASSUME DataInv, UnknownModel \/ ReceiveRelay \/ ReceiveOpenAI \/ Parse
    PROVE  DataInv'
<1>1. request' = request /\ replies' = replies /\ pc = "received" /\ replies = <<>>
      /\ request \in Requests /\ answer.status # 200
  BY DEF DataInv, Unasked, Answered, UnknownModel, ReceiveRelay, ReceiveOpenAI, Parse
<1>2. Adapted' = Adapted
  BY <1>1, SameData
<1>3. CASE UnknownModel
  BY <1>1, <1>3, RefusedData DEF UnknownModel
<1>4. CASE ReceiveRelay
  BY <1>1, <1>4 DEF ReceiveRelay, DataInv, Decoding, Unasked, Asking, Answered
<1>5. CASE ReceiveOpenAI
  <2>1. CASE request.body = Bad
    BY <1>1, <1>5, <2>1, RefusedData DEF ReceiveOpenAI
  <2>2. CASE request.body # Bad
    BY <1>1, <1>5, <2>2 DEF ReceiveOpenAI, DataInv, Decoding, Unasked, Asking, Answered
  <2> QED
    BY <2>1, <2>2
<1>6. CASE Parse
  <2>1. Adapted /\ inputs' = ParseRequest(request.body)
    BY <1>6 DEF Parse, Adapted
  <2>2. CASE inputs' = Bad
    BY <1>1, <1>6, <2>1, <2>2, RefusedData DEF Parse, StatusOf
  <2>3. CASE inputs' # Bad
    BY <1>1, <1>2, <1>6, <2>1, <2>3 DEF Parse, DataInv, Decoding, Unasked, Asking, Answered
  <2> QED
    BY <2>2, <2>3
<1> QED
  BY <1>3, <1>4, <1>5, <1>6

\* Every picture gets a size before the first reply; a batch without pages is
\* complete at once.
LEMMA DecodeData == DataInv /\ Decode => DataInv'
<1> SUFFICES ASSUME DataInv, Decode PROVE DataInv'
  OBVIOUS
<1>1. /\ request' = request /\ replies' = replies /\ inputs' = inputs /\ pc = "decode"
      /\ replies = <<>> /\ request \in Requests /\ answer.status # 200 /\ Adapted
  BY DEF DataInv, Decoding, Unasked, Answered, Decode
<1>2. CASE Images \in {Bad, Crash}
  BY <1>1, <1>2, RefusedData DEF Decode, StatusOf
<1>3. CASE Images \notin {Bad, Crash}
  <2>1. Images \in Seq(Page) /\ (request.model # "layout" => Len(Images) = 1)
    BY <1>1, <1>3, ImagesAreSized
  <2>2. sizes' = Images /\ pc' = (IF Images = <<>> THEN "encode" ELSE "post") /\ answer' = answer
    BY <1>3 DEF Decode
  <2> HIDE DEF Images
  <2>3. Sized' /\ Adapted' /\ replies' \in Seq(Reads)' /\ Len(replies') = 0
    BY <1>1, <2>1, <2>2, SameData DEF Sized
  <2>4. CASE Images = <<>>
    BY <1>1, <2>2, <2>3, <2>4 DEF Complete, DataInv, Decoding, Unasked, Asking, Answered
  <2>5. CASE Images # <<>>
    <3>1. Len(replies') < Len(sizes')
      BY <2>1, <2>2, <2>3, <2>5
    <3> QED
      BY <1>1, <2>2, <2>3, <2>5, <3>1 DEF DataInv, Decoding, Unasked, Asking, Answered
  <2> QED
    BY <2>4, <2>5
<1> QED
  BY <1>2, <1>3

\* A reply that is read takes its place after those before it.
LEMMA ReplyData == DataInv /\ ModelReplies => DataInv'
<1> SUFFICES ASSUME DataInv, ModelReplies PROVE DataInv'
  OBVIOUS
<1>1. /\ request' = request /\ sizes' = sizes /\ pc = "post" /\ request \in Requests
      /\ answer.status # 200 /\ Adapted /\ Sized /\ replies \in Seq(Reads)
      /\ Len(replies) < Len(sizes)
  BY DEF DataInv, Asking, Answered, ModelReplies
<1>2. PICK parsed \in Parsed :
        IF parsed = Bad
        THEN Answer(StatusOf(Bad), Absent) /\ UNCHANGED <<replies, attempt>>
        ELSE /\ replies' = Append(replies, parsed) /\ UNCHANGED answer
             /\ pc' = IF Current = Len(sizes) THEN "encode" ELSE "post"
  BY DEF ModelReplies, Parsed
<1>3. CASE parsed = Bad
  BY <1>1, <1>2, <1>3, RefusedData DEF StatusOf
<1>4. CASE parsed # Bad
  <2>1. /\ replies' = Append(replies, parsed) /\ parsed \in Reads /\ answer' = answer
        /\ pc' = IF Len(replies) + 1 = Len(sizes) THEN "encode" ELSE "post"
    BY <1>2, <1>4 DEF Reads, Current
  <2>2. /\ replies' \in Seq(Reads) /\ Len(replies') = Len(replies) + 1
        /\ Len(sizes) \in Nat /\ Len(replies) \in Nat
    BY <1>1, <2>1 DEF Sized
  <2>3. Sized' /\ Adapted' /\ replies' \in Seq(Reads)'
    BY <1>1, <2>2, SameData
  <2>4. CASE Len(replies) + 1 = Len(sizes)
    BY <1>1, <2>1, <2>2, <2>3, <2>4 DEF Complete, DataInv, Decoding, Unasked, Asking, Answered
  <2>5. CASE Len(replies) + 1 # Len(sizes)
    <3>1. Len(replies') < Len(sizes')
      BY <1>1, <2>2, <2>5
    <3> QED
      BY <1>1, <2>1, <2>3, <2>5, <3>1 DEF DataInv, Decoding, Unasked, Asking, Answered
  <2> QED
    BY <2>4, <2>5
<1> QED
  BY <1>3, <1>4

\* The outputs are those of the replies that are there.
LEMMA EncodeData == DataInv /\ Encode => DataInv'
<1> SUFFICES ASSUME DataInv, Encode PROVE DataInv'
  OBVIOUS
<1>1. /\ UNCHANGED <<request, inputs, sizes, replies>> /\ pc = "encode" /\ request \in Requests
      /\ Complete /\ Outputs' = Outputs /\ Complete' = Complete
  BY SameData DEF DataInv, Encode
<1>2. CASE Outputs = Crash
  BY <1>1, <1>2, RefusedData DEF Encode, StatusOf
<1>3. CASE Outputs # Crash
  <2>1. pc' = "done" /\ answer' = [status |-> 200, outputs |-> Outputs]
    BY <1>3 DEF Encode, Answer
  <2>2. Answered'
    BY <1>1, <2>1 DEF Answered
  <2> QED
    BY <1>1, <2>1, <2>2 DEF DataInv, Decoding, Unasked, Asking
<1> QED
  BY <1>2, <1>3

\* What the proxy and the relay hand back is not encoded.
LEMMA PassedOnData ==
    ASSUME DataInv, ModelRepliesOpenAI \/ Relay
    PROVE  DataInv'
<1>1. /\ UNCHANGED <<request, inputs, sizes, replies>> /\ request \in Requests
      /\ pc' = "done" /\ ~Adapted /\ Adapted' = Adapted
  <2>1. CASE ModelRepliesOpenAI
    BY <2>1, SameData DEF ModelRepliesOpenAI, Answer, DataInv, Adapted
  <2>2. CASE Relay
    BY <2>2, SameData DEF Relay, Answer, DataInv, Adapted
  <2> QED
    BY <2>1, <2>2
<1> QED
  BY <1>1 DEF DataInv, Decoding, Unasked, Asking, Answered

\* Timeouts and failures read nothing.
LEMMA FailureData ==
    ASSUME DataInv, TimeOut \/ TransportFails \/ ModelErrs
    PROVE  DataInv'
<1>1. CASE TimeOut
  <2>1. UNCHANGED <<request, pc, inputs, sizes, replies, answer>> /\ pc = "post"
    BY <1>1 DEF TimeOut
  <2>2. Adapted' = Adapted /\ Sized' = Sized /\ Reads' = Reads
    BY <2>1, SameData
  <2> QED
    BY <2>1, <2>2 DEF DataInv, Decoding, Unasked, Asking, Answered
<1>2. CASE TransportFails
  BY <1>2, RefusedData DEF TransportFails
<1>3. CASE ModelErrs
  <2>1. PICK status \in {400, 404, 500, 502} : Answer(status, Absent)
    BY <1>3 DEF ModelErrs, StatusOf
  <2> QED
    BY <1>3, <2>1, RefusedData DEF ModelErrs
<1> QED
  BY <1>1, <1>2, <1>3

\* Every step keeps the data.
LEMMA StepData == DataInv /\ [Next]_vars => DataInv'
<1> SUFFICES ASSUME DataInv, [Next]_vars PROVE DataInv'
  OBVIOUS
<1>1. CASE UNCHANGED vars
  <2>1. UNCHANGED <<request, pc, inputs, sizes, replies, answer>>
    BY <1>1 DEF vars
  <2>2. /\ Adapted' = Adapted /\ Sized' = Sized /\ Reads' = Reads
        /\ Outputs' = Outputs /\ Complete' = Complete
    BY <2>1, SameData
  <2> QED
    BY <2>1, <2>2 DEF DataInv, Decoding, Unasked, Asking, Answered
<1> QED
  BY <1>1, ArrivalData, DecodeData, ReplyData, EncodeData, PassedOnData, FailureData DEF Next

\* The inductive invariant of the data.
THEOREM DataInvariance == Spec => []DataInv
<1> QED
  BY InitData, StepData, PTL DEF Spec

\* Every detection of every page is found in the row of its page, in order,
\* inside the page and large enough, for any replies and any number of pages.
THEOREM DetectionsStay == Spec => []DetectionsStayWithTheirPage
<1>1. DataInv => DetectionsStayWithTheirPage
  <2> SUFFICES ASSUME DataInv, answer.status = 200, request.endpoint = "kserve",
                      ~request.relay, request.model = "layout"
               PROVE  DetectionsStayWithTheirPage
    BY DEF DetectionsStayWithTheirPage
  <2>1. Complete /\ answer.outputs = EncodeDetections(replies, sizes)
    BY DEF DataInv, Answered, Adapted, Models, Outputs
  <2>2. \A m \in Models : \A reply \in Replies[m] : reply \in Reply
    BY ReplyAssumption
  <2>3. Reads \subseteq Seq(Item)
    <3> SUFFICES ASSUME NEW reply \in Replies["layout"], ParseLayout(reply) # Bad
                 PROVE  ParseLayout(reply) \in Seq(Item)
      BY DEF Reads, Parsed, ParseReply
    <3>1. /\ reply.items \in Seq(Item)
          /\ reply.form \in {"prose", "list", "object", "single", "null", "empty", "scalar"}
      BY <2>2 DEF Models, Reply
    <3>2. ParseLayout(reply) \in {<<>>, reply.items}
      BY <3>1 DEF ParseLayout
    <3>3. <<>> \in Seq(Item)
      OBVIOUS
    <3> QED
      BY <3>1, <3>2, <3>3, Zenon
  <2>4. replies \in Seq(Seq(Item)) /\ sizes \in Seq(Page) /\ Len(replies) = Len(sizes)
    BY <2>1, <2>3 DEF Complete, Sized
  <2>5. RowsHold(replies, sizes, answer.outputs)
    <3>1. PICK m \in Nat : Len(replies) = m /\ Len(sizes) = m
      BY <2>4
    <3> QED
      BY <2>1, <2>4, <3>1, DetectionsInPlace
  <2> QED
    BY <2>5 DEF DetectionsStayWithTheirPage, RowsHold, RowHolds
<1> QED
  BY <1>1, DataInvariance, PTL

\* No text is lost or moved, and the texts without a box get lines of the page
\* that do not overlap, for any reply and any page with a pixel for each.
THEOREM TextsKeep == Spec => []TextsKeepTheirPlace
<1>1. DataInv => TextsKeepTheirPlace
  <2> SUFFICES ASSUME DataInv, answer.status = 200, request.endpoint = "kserve",
                      ~request.relay, request.model = "ocr"
               PROVE  TextsKeepTheirPlace
    BY DEF TextsKeepTheirPlace
  <2>1. Complete /\ answer.outputs = EncodeTexts(replies[1], sizes[1])
    BY DEF DataInv, Answered, Adapted, Models, Outputs
  <2>2. \A m \in Models : \A reply \in Replies[m] : reply \in Reply
    BY ReplyAssumption
  <2>3. \A said \in Reads : \E n \in Nat : DOMAIN said = 1 .. n
    <3> SUFFICES ASSUME NEW reply \in Replies["ocr"], ParseOcr(reply) # Bad
                 PROVE  \E n \in Nat : DOMAIN ParseOcr(reply) = 1 .. n
      BY DEF Reads, Parsed, ParseReply
    <3>1. reply \in Reply /\ reply.items \in Seq(Item)
      BY <2>2 DEF Models, Reply
    <3>2. Len(reply.items) \in Nat /\ DOMAIN reply.items = 1 .. Len(reply.items)
      BY <3>1
    <3>3. DOMAIN ParseOcr(reply) = DOMAIN reply.items
      BY <3>1 DEF ParseOcr, Reply
    <3> QED
      BY <3>2, <3>3
  <2>4. replies[1] \in Reads /\ sizes[1] \in Page
    BY <2>1 DEF Complete, Sized
  <2>5. PICK n \in Nat : DOMAIN replies[1] = 1 .. n
    BY <2>3, <2>4
  <2>6. LinesHold(replies[1], sizes[1], answer.outputs)
    BY <2>1, <2>4, <2>5, TextsInPlace
  <2> QED
    BY <2>6 DEF TextsKeepTheirPlace, LinesHold
<1> QED
  BY <1>1, DataInvariance, PTL

-----------------------------------------------------------------------------
(* Sequences one after the other.                                          *)

\* Induction up to n, for a set of numbers.
LEMMA UpTo ==
    ASSUME NEW n \in Nat, NEW T, 0 \in T, \A m \in 0 .. n - 1 : m \in T => m + 1 \in T
    PROVE  \A m \in 0 .. n : m \in T
<1> DEFINE U == {m \in 0 .. n : m \notin T}
<1> SUFFICES ASSUME U # {} PROVE FALSE
  OBVIOUS
<1>1. PICK m \in U : \A y \in U : m <= y
  <2>1. U \in SUBSET Nat
    OBVIOUS
  <2> HIDE DEF U
  <2> QED
    BY <2>1, LeastOf
<1>2. m \in 0 .. n /\ m # 0 /\ m - 1 \notin U
  <2>1. m \in 0 .. n /\ m # 0
    OBVIOUS
  <2>2. m - 1 \notin U
    <3>1. m \in Nat /\ ~(m <= m - 1)
      BY <2>1
    <3> HIDE DEF U
    <3> QED
      BY <1>1, <3>1
  <2> QED
    BY <2>1, <2>2
<1>3. m - 1 \in 0 .. n - 1 /\ (m - 1) + 1 = m
  BY <1>2
<1> QED
  BY <1>2, <1>3

\* The function by which FlattenSeq joins n sequences.
Joins(f, seqs, n) ==
    f = [i \in 1 .. n |-> IF i = 1 THEN seqs[i] ELSE f[i - 1] \o seqs[i]]

LEMMA Joined ==
    ASSUME NEW n \in Nat, NEW seqs
    PROVE  \E f : Joins(f, seqs, n)
<1> DEFINE T == {m \in Nat : \E f : Joins(f, seqs, m)}
<1>1. 0 \in T
  <2>1. Joins([i \in 1 .. 0 |-> seqs[i]], seqs, 0)
    BY DEF Joins
  <2> QED
    BY <2>1
<1>2. ASSUME NEW m \in 0 .. n - 1, m \in T PROVE m + 1 \in T
  <2>1. PICK f : Joins(f, seqs, m)
    BY <1>2
  <2> DEFINE last == IF m + 1 = 1 THEN seqs[m + 1] ELSE f[m] \o seqs[m + 1]
             g == [i \in 1 .. m + 1 |-> IF i <= m THEN f[i] ELSE last]
  <2>2. \A i \in 1 .. m : f[i] = IF i = 1 THEN seqs[i] ELSE f[i - 1] \o seqs[i]
    BY <2>1 DEF Joins
  <2>3. \A i \in 1 .. m : g[i] = f[i]
    OBVIOUS
  <2>4. g[m + 1] = last
    OBVIOUS
  <2>5. g = [i \in 1 .. m + 1 |-> g[i]]
    OBVIOUS
  <2> HIDE DEF g
  <2>6. ASSUME NEW i \in 1 .. m + 1
        PROVE  g[i] = IF i = 1 THEN seqs[i] ELSE g[i - 1] \o seqs[i]
    <3>1. CASE i \in 1 .. m
      <4>1. i # 1 => i - 1 \in 1 .. m
        BY <3>1
      <4>2. i # 1 => g[i - 1] = f[i - 1]
        BY <2>3, <4>1
      <4> QED
        BY <2>2, <2>3, <3>1, <4>2
    <3>2. CASE i = m + 1
      <4>1. i # 1 => i - 1 = m /\ m \in 1 .. m
        BY <3>2
      <4>2. i # 1 => g[i - 1] = f[m]
        BY <2>3, <4>1
      <4> QED
        BY <2>4, <3>2, <4>2
    <3> QED
      BY <3>1, <3>2
  <2>7. Joins(g, seqs, m + 1)
    BY <2>5, <2>6 DEF Joins
  <2> QED
    BY <2>7
<1> HIDE DEF T
<1>3. \A m \in 0 .. n : m \in T
  BY <1>1, <1>2, UpTo
<1> QED
  BY <1>3 DEF T

\* A sequence after another, and what is behind it.
LEMMA OneJoined ==
    ASSUME NEW s \in Seq(Nat), NEW t \in Seq(Nat)
    PROVE  /\ s \o t \in Seq(Nat) /\ Len(s \o t) = Len(s) + Len(t)
           /\ Len(s) \in Nat /\ Len(t) \in Nat
           /\ SubSeq(s \o t, Len(s) + 1, Len(s) + Len(t)) = t
           /\ \A a, b \in Nat : a <= b /\ b <= Len(s) =>
                 SubSeq(s \o t, a + 1, b) = SubSeq(s, a + 1, b)
<1>1. /\ s \o t \in Seq(Nat) /\ Len(s \o t) = Len(s) + Len(t)
      /\ Len(s) \in Nat /\ Len(t) \in Nat
  OBVIOUS
<1>2. SubSeq(s \o t, Len(s) + 1, Len(s) + Len(t)) = t
  <2>1. CASE Len(t) = 0
    <3>1. t = <<>> /\ Len(s) + Len(t) < Len(s) + 1
      BY <1>1, <2>1
    <3> QED
      BY <1>1, <3>1, SubSeqEmpty
  <2>2. CASE Len(t) # 0
    <3>1. SubSeq(s \o t, Len(s) + 1, Len(s) + Len(t)) = SubSeq(t, 1, Len(t))
      BY <1>1, <2>2, SubSeqOfConcat2
    <3> QED
      BY <3>1, SubSeqFull
  <2> QED
    BY <2>1, <2>2
<1>3. ASSUME NEW a \in Nat, NEW b \in Nat, a <= b, b <= Len(s)
      PROVE  SubSeq(s \o t, a + 1, b) = SubSeq(s, a + 1, b)
  <2>1. CASE a = b
    BY <2>1, SubSeqEmpty
  <2>2. CASE a # b
    BY <1>1, <1>3, <2>2, SubSeqOfConcat1
  <2> QED
    BY <2>1, <2>2
<1> QED
  BY <1>1, <1>2, <1>3

\* Part i of n parts that lie one after the other in flat, at says where each ends.
Piece(flat, parts, at, i) ==
    /\ parts[i] \in Seq(Nat) /\ Len(parts[i]) \in Nat
    /\ at[i - 1] \in Nat /\ at[i] \in Nat
    /\ at[i] = at[i - 1] + Len(parts[i])
    /\ at[i] <= Len(flat)
    /\ SubSeq(flat, at[i - 1] + 1, at[i]) = parts[i]

Laid(flat, parts, n, at) ==
    /\ flat \in Seq(Nat) /\ Len(flat) \in Nat
    /\ at[0] = 0 /\ at[n] = Len(flat)
    /\ \A i \in 1 .. n : Piece(flat, parts, at, i)

\* One more part.
LEMMA OnePartMore ==
    ASSUME NEW m \in Nat, NEW flat, NEW parts, NEW at, Laid(flat, parts, m, at),
           parts[m + 1] \in Seq(Nat)
    PROVE  \E up : Laid(flat \o parts[m + 1], parts, m + 1, up)
<1>1. PICK s \in Seq(Nat) : s = flat
  BY DEF Laid
<1>2. PICK t \in Seq(Nat) : t = parts[m + 1]
  OBVIOUS
<1>3. /\ s \o t \in Seq(Nat) /\ Len(s \o t) = Len(s) + Len(t)
      /\ Len(s) \in Nat /\ Len(t) \in Nat
      /\ SubSeq(s \o t, Len(s) + 1, Len(s) + Len(t)) = t
      /\ \A a, b \in Nat : a <= b /\ b <= Len(s) =>
            SubSeq(s \o t, a + 1, b) = SubSeq(s, a + 1, b)
  BY OneJoined
<1> DEFINE up == [i \in 0 .. m + 1 |-> IF i = m + 1 THEN Len(s) + Len(t) ELSE at[i]]
<1>4. up[m + 1] = Len(s) + Len(t) /\ \A i \in 0 .. m : up[i] = at[i]
  OBVIOUS
<1> HIDE DEF up
<1>5. up[0] = 0 /\ up[m] = Len(s) /\ up[m + 1] = Len(s \o t)
  BY <1>1, <1>3, <1>4 DEF Laid
<1>6. ASSUME NEW i \in 1 .. m PROVE Piece(s \o t, parts, up, i)
  <2>1. Piece(s, parts, at, i)
    BY <1>1 DEF Laid
  <2>2. up[i] = at[i] /\ up[i - 1] = at[i - 1]
    BY <1>4
  <2>3. SubSeq(s \o t, at[i - 1] + 1, at[i]) = SubSeq(s, at[i - 1] + 1, at[i])
    <3>1. /\ at[i - 1] \in Nat /\ at[i] \in Nat
          /\ at[i - 1] <= at[i] /\ at[i] <= Len(s)
      BY <2>1 DEF Piece
    <3> QED
      BY <1>3, <3>1
  <2>4. at[i] <= Len(s \o t)
    BY <1>3, <2>1 DEF Piece
  <2> QED
    BY <2>1, <2>2, <2>3, <2>4 DEF Piece
<1>7. Piece(s \o t, parts, up, m + 1)
  <2>1. (m + 1) - 1 = m
    OBVIOUS
  <2>2. Len(s \o t) \in Nat /\ Len(s \o t) <= Len(s \o t)
    BY <1>3
  <2> QED
    BY <1>2, <1>3, <1>5, <2>1, <2>2 DEF Piece
<1>8. \A i \in 1 .. m + 1 : Piece(s \o t, parts, up, i)
  <2>1. \A i \in 1 .. m + 1 : i \in 1 .. m \/ i = m + 1
    OBVIOUS
  <2> QED
    BY <1>6, <1>7, <2>1
<1>9. Laid(s \o t, parts, m + 1, up)
  BY <1>3, <1>5, <1>8 DEF Laid
<1> QED
  BY <1>1, <1>2, <1>9

\* FlattenSeq lays its sequences one after the other.
LEMMA Flattened ==
    ASSUME NEW n \in Nat, NEW parts \in [1 .. n -> Seq(Nat)]
    PROVE  \E at : Laid(FlattenSeq(parts), parts, n, at)
<1>0. Len(parts) = n
  OBVIOUS
<1>1. \E f : Joins(f, parts, n)
  BY Joined
<1> DEFINE flat == CHOOSE f : Joins(f, parts, n)
           Upto(m) == IF m = 0 THEN <<>> ELSE flat[m]
           T == {m \in Nat : \E at : Laid(Upto(m), parts, m, at)}
<1>2. Joins(flat, parts, n)
  BY <1>1
<1>3. FlattenSeq(parts) = Upto(n)
  <2>1. CASE n = 0
    <3>1. FlattenSeq(parts) = parts
      BY <1>0, <2>1 DEF FlattenSeq
    <3>2. parts = <<>>
      BY <2>1
    <3> QED
      BY <2>1, <3>1, <3>2
  <2>2. CASE n # 0
    BY <1>0, <2>2 DEF FlattenSeq, Joins
  <2> QED
    BY <2>1, <2>2
<1> HIDE DEF flat
<1>4. 0 \in T
  <2> DEFINE none == [i \in {0} |-> 0]
  <2>1. Laid(<<>>, parts, 0, none)
    <3>1. \A i \in 1 .. 0 : Piece(<<>>, parts, none, i)
      OBVIOUS
    <3>2. none[0] = 0 /\ <<>> \in Seq(Nat) /\ Len(<<>>) = 0
      OBVIOUS
    <3> HIDE DEF none
    <3> QED
      BY <3>1, <3>2 DEF Laid
  <2> QED
    BY <2>1
<1>5. ASSUME NEW m \in 0 .. n - 1, m \in T PROVE m + 1 \in T
  <2>1. PICK at : Laid(Upto(m), parts, m, at)
    BY <1>5
  <2>2. parts[m + 1] \in Seq(Nat) /\ m \in Nat
    OBVIOUS
  <2>3. \E up : Laid(Upto(m) \o parts[m + 1], parts, m + 1, up)
    <3> HIDE DEF Upto
    <3> QED
      BY <2>1, <2>2, OnePartMore
  <2>4. Upto(m) \o parts[m + 1] = Upto(m + 1)
    <3>1. m + 1 \in 1 .. n /\ (m + 1) - 1 = m /\ m + 1 # 0
      OBVIOUS
    <3>2. flat[m + 1] = IF m + 1 = 1 THEN parts[m + 1] ELSE flat[m] \o parts[m + 1]
      BY <1>2, <3>1 DEF Joins
    <3>3. CASE m = 0
      <4>1. <<>> \o parts[m + 1] = parts[m + 1]
        BY <2>2
      <4>2. m + 1 = 1 /\ Upto(m) = <<>>
        BY <3>3
      <4> QED
        BY <3>1, <3>2, <4>1, <4>2
    <3>4. CASE m # 0
      <4>1. m + 1 # 1 /\ Upto(m) = flat[m]
        BY <3>4
      <4> QED
        BY <3>1, <3>2, <4>1
    <3> QED
      BY <3>3, <3>4
  <2> HIDE DEF Upto
  <2> QED
    BY <2>2, <2>3, <2>4
<1>6. \A m \in 0 .. n : m \in T
  <2> HIDE DEF T
  <2> QED
    BY <1>4, <1>5, UpTo
<1>7. \E at : Laid(Upto(n), parts, n, at)
  BY <1>6
<1> QED
  BY <1>3, <1>7

-----------------------------------------------------------------------------
(* Numbers and strings in bytes.                                           *)

\* How many bytes a number may have.
Widths == {1, 2, 4, 8}

\* Every datatype that is not BYTES has one of them.
LEMMA WidthOfType ==
    ASSUME NEW datatype \in DOMAIN Width
    PROVE  Width[datatype] \in Widths
BY DEF Width, Widths

\* Limit as a numeral; where its value does not matter, only that it is a number.
LEMMA LimitIs == Limit = 16777216
BY DEF Limit

\* What can be told apart is a number.
LEMMA InNumber24 ==
    ASSUME NEW n \in Number24
    PROVE  n \in Nat /\ n < Limit
<1>1. Limit \in Nat
  BY LimitIs
<1> QED
  BY <1>1 DEF Number24

\* Bytes are numbers, as many as the width says.
LEMMA BytesType ==
    ASSUME NEW n \in Number24, NEW width \in Nat
    PROVE  /\ Bytes(n, width) \in Seq(Nat) /\ Len(Bytes(n, width)) = width
           /\ DOMAIN Bytes(n, width) = 1 .. width
<1>1. n \in Nat /\ n % 256 \in Nat /\ (n \div 256) % 256 \in Nat /\ n \div 65536 \in Nat
  BY InNumber24
<1>2. \A i \in 1 .. width : Bytes(n, width)[i] \in Nat
  BY <1>1 DEF Bytes
<1>3. Bytes(n, width) = [i \in 1 .. width |-> Bytes(n, width)[i]]
  BY DEF Bytes
<1> HIDE DEF Bytes
<1> QED
  BY <1>2, <1>3

\* A number that fits is read from its bytes.
LEMMA NumberOfBytes ==
    ASSUME NEW width \in Widths, NEW n, Fits(n, width)
    PROVE  Number(Bytes(n, width)) = n
<1> DEFINE bytes == Bytes(n, width)
           At(i) == IF i <= Len(bytes) THEN bytes[i] ELSE 0
<1>1. n \in Nat /\ n < 16777216 /\ (width = 1 => n < 256) /\ (width = 2 => n < 65536)
  BY InNumber24, LimitIs DEF Fits
<1>2. width \in Nat /\ Len(bytes) = width
  BY BytesType DEF Widths, Fits
<1>3. /\ width >= 1 => bytes[1] = n % 256
      /\ width >= 2 => bytes[2] = (n \div 256) % 256
      /\ width >= 3 => bytes[3] = n \div 65536
      /\ \A i \in 4 .. width : bytes[i] = 0
  BY <1>2 DEF Bytes
<1> HIDE DEF bytes
<1>4. Number(bytes) = At(1) + 256 * At(2) + 65536 * At(3)
  BY <1>2, <1>3 DEF Number
<1>5. CASE width = 1
  <2>1. At(1) = n % 256 /\ At(2) = 0 /\ At(3) = 0
    BY <1>2, <1>3, <1>5
  <2> HIDE DEF At
  <2> QED
    BY <1>1, <1>4, <1>5, <2>1 DEF bytes
<1>6. CASE width = 2
  <2>1. At(1) = n % 256 /\ At(2) = (n \div 256) % 256 /\ At(3) = 0
    BY <1>2, <1>3, <1>6
  <2> HIDE DEF At
  <2> QED
    BY <1>1, <1>4, <1>6, <2>1 DEF bytes
<1>7. CASE width \in {4, 8}
  <2>1. At(1) = n % 256 /\ At(2) = (n \div 256) % 256 /\ At(3) = n \div 65536
    BY <1>2, <1>3, <1>7
  <2>2. n = (n % 256) + 256 * (n \div 256) /\ n \div 256 \in Nat
    BY <1>1
  <2>3. n \div 256 = ((n \div 256) % 256) + 256 * ((n \div 256) \div 256)
    BY <2>2
  <2>4. (n \div 256) \div 256 = n \div 65536
    BY <1>1
  <2>5. (n % 256) + 256 * ((n \div 256) % 256) + 65536 * (n \div 65536) = n
    BY <1>1, <2>2, <2>3, <2>4
  <2> HIDE DEF At
  <2>6. Number(bytes) = n
    BY <1>4, <2>1, <2>5
  <2> QED
    BY <2>6 DEF bytes
<1> QED
  BY <1>5, <1>6, <1>7 DEF Widths

\* Numbers of one width stand at its multiples.
LEMMA Multiples ==
    ASSUME NEW w \in Widths, NEW e \in Nat
    PROVE  /\ e * w \in Nat /\ (e + 1) * w = e * w + w
           /\ (e * w) \div w = e /\ (e * w) % w = 0
<1>1. CASE w = 1
  BY <1>1
<1>2. CASE w = 2
  BY <1>2
<1>3. CASE w = 4
  BY <1>3
<1>4. CASE w = 8
  BY <1>4
<1> QED
  BY <1>1, <1>2, <1>3, <1>4 DEF Widths

\* The numbers that were packed are the numbers that are read.
LEMMA NumbersRead ==
    ASSUME NEW datatype \in DOMAIN Width, NEW shape,
           NEW values \in Seq(Number24), Reshapes(shape, Len(values)),
           \A e \in DOMAIN values : Fits(values[e], Width[datatype])
    PROVE  DecodeNumbers(FlattenSeq([e \in DOMAIN values |-> Bytes(values[e], Width[datatype])]),
                         datatype, shape) = values
<1> DEFINE w == Width[datatype]
           n == Len(values)
           parts == [e \in 1 .. n |-> Bytes(values[e], w)]
           flat == FlattenSeq(parts)
<1>1. w \in Widths /\ w \in Nat
  BY WidthOfType DEF Widths
<1>2. n \in Nat /\ DOMAIN values = 1 .. n /\ values = [e \in 1 .. n |-> values[e]]
  OBVIOUS
<1>3. \A e \in 1 .. n : Bytes(values[e], w) \in Seq(Nat) /\ Len(Bytes(values[e], w)) = w
  <2> SUFFICES ASSUME NEW e \in 1 .. n
               PROVE  Bytes(values[e], w) \in Seq(Nat) /\ Len(Bytes(values[e], w)) = w
    OBVIOUS
  <2>1. values[e] \in Number24
    OBVIOUS
  <2> QED
    BY <1>1, <2>1, BytesType
<1>4. parts \in [1 .. n -> Seq(Nat)] /\ \A e \in 1 .. n : parts[e] = Bytes(values[e], w)
  BY <1>3
<1>5. \A e \in 1 .. n : Number(Bytes(values[e], w)) = values[e]
  BY <1>1, <1>2, NumberOfBytes
<1> HIDE DEF parts, w
<1>6. PICK at : Laid(flat, parts, n, at)
  BY <1>2, <1>4, Flattened
<1> DEFINE T == {e \in 0 .. n : at[e] = e * w}
<1>7. 0 \in T
  <2>1. 0 * w = 0
    BY <1>1
  <2> QED
    BY <1>2, <1>6, <2>1 DEF Laid
<1>8. ASSUME NEW e \in 0 .. n - 1, e \in T PROVE e + 1 \in T
  <2>1. e + 1 \in 1 .. n /\ (e + 1) - 1 = e /\ e \in Nat /\ e + 1 \in 0 .. n
    BY <1>2
  <2>2. Piece(flat, parts, at, e + 1)
    BY <1>6, <2>1 DEF Laid
  <2>3. at[e + 1] = at[e] + w
    BY <1>3, <1>4, <2>1, <2>2 DEF Piece
  <2>4. (e + 1) * w = e * w + w
    BY <1>1, <2>1, Multiples
  <2> QED
    BY <1>8, <2>1, <2>3, <2>4
<1>9. \A e \in 0 .. n : at[e] = e * w
  <2>1. \A e \in 0 .. n : e \in T
    <3> HIDE DEF T
    <3> QED
      BY <1>2, <1>7, <1>8, UpTo
  <2> QED
    BY <2>1
<1>10. \A e \in 1 .. n : SubSeq(flat, (e - 1) * w + 1, e * w) = Bytes(values[e], w)
  <2> SUFFICES ASSUME NEW e \in 1 .. n
               PROVE  SubSeq(flat, (e - 1) * w + 1, e * w) = Bytes(values[e], w)
    OBVIOUS
  <2>1. Piece(flat, parts, at, e)
    BY <1>6 DEF Laid
  <2>2. e \in 0 .. n /\ e - 1 \in 0 .. n
    BY <1>2
  <2>3. at[e] = e * w /\ at[e - 1] = (e - 1) * w
    BY <1>9, <2>2
  <2> QED
    BY <1>4, <2>1, <2>3 DEF Piece
<1>11. Len(flat) = n * w
  BY <1>2, <1>6, <1>9 DEF Laid
<1>12. Len(flat) \div w = n /\ Len(flat) % w = 0
  BY <1>1, <1>2, <1>11, Multiples
<1>13. DecodeNumbers(flat, datatype, shape)
         = [e \in 1 .. n |-> Number(SubSeq(flat, (e - 1) * w + 1, e * w))]
  <2>1. Reshapes(shape, n)
    OBVIOUS
  <2> HIDE DEF n
  <2> QED
    BY <1>12, <2>1 DEF DecodeNumbers, w
<1>14. [e \in 1 .. n |-> Number(SubSeq(flat, (e - 1) * w + 1, e * w))] = [e \in 1 .. n |-> values[e]]
  BY <1>5, <1>10
<1>15. flat = FlattenSeq([e \in DOMAIN values |-> Bytes(values[e], Width[datatype])])
  BY <1>2 DEF parts, w
<1> QED
  BY <1>2, <1>13, <1>14, <1>15

\* The first n values of a sequence, and one more of them.
Firsts(values, n) == [k \in 1 .. n |-> values[k]]

LEMMA OneMoreOfFirsts ==
    ASSUME NEW S, NEW values \in Seq(S), NEW m \in Nat, m < Len(values)
    PROVE  Append(Firsts(values, m), values[m + 1]) = Firsts(values, m + 1)
<1>1. Firsts(values, m) \in Seq(S) /\ Len(Firsts(values, m)) = m
  BY DEF Firsts
<1>2. values[m + 1] \in S
  OBVIOUS
<1> DEFINE more == Append(Firsts(values, m), values[m + 1])
<1>3. more \in Seq(S) /\ Len(more) = m + 1
  BY <1>1, <1>2
<1>4. more = [k \in 1 .. m + 1 |-> more[k]]
  BY <1>3
<1>5. \A k \in 1 .. m + 1 : more[k] = values[k]
  <2>1. more[m + 1] = values[m + 1]
    BY <1>1, <1>2
  <2>2. ASSUME NEW k \in 1 .. m PROVE more[k] = values[k]
    <3>1. more[k] = Firsts(values, m)[k]
      BY <1>1, <1>2
    <3> QED
      BY <3>1 DEF Firsts
  <2>3. \A k \in 1 .. m + 1 : k \in 1 .. m \/ k = m + 1
    OBVIOUS
  <2> HIDE DEF more
  <2> QED
    BY <2>1, <2>2, <2>3
<1> HIDE DEF more
<1>6. more = Firsts(values, m + 1)
  BY <1>4, <1>5 DEF Firsts
<1> QED
  BY <1>6 DEF more

\* A sequence over a set is one over a larger set.
LEMMA SeqSubset ==
    ASSUME NEW S, NEW T, S \subseteq T, NEW s \in Seq(S)
    PROVE  s \in Seq(T)
OBVIOUS

LEMMA LimitNat == Limit \in Nat
BY LimitIs

\* A string is a sequence of bytes.
LEMMA StringType ==
    ASSUME NEW string \in String
    PROVE  string \in Seq(Nat) /\ Len(string) \in Nat
<1> DEFINE Octet == 0 .. 255
<1>1. string \in Seq(Octet)
  BY DEF String
<1>2. Octet \subseteq Nat
  OBVIOUS
<1> HIDE DEF Octet
<1>3. string \in Seq(Nat)
  BY <1>1, <1>2, SeqSubset
<1> QED
  BY <1>3

\* A sequence with two parts has them in it.
LEMMA TwoParts ==
    ASSUME NEW flat \in Seq(Nat), NEW s \in Seq(Nat), NEW t \in Seq(Nat), NEW a \in Nat,
           a + Len(s) + Len(t) <= Len(flat),
           SubSeq(flat, a + 1, a + Len(s) + Len(t)) = s \o t
    PROVE  /\ SubSeq(flat, a + 1, a + Len(s)) = s
           /\ SubSeq(flat, a + Len(s) + 1, a + Len(s) + Len(t)) = t
<1>1. Len(s) \in Nat /\ Len(t) \in Nat /\ Len(flat) \in Nat
  OBVIOUS
<1>2. \A i \in 1 .. Len(s) + Len(t) : flat[a + i] = (s \o t)[i]
  <2> SUFFICES ASSUME NEW i \in 1 .. Len(s) + Len(t) PROVE flat[a + i] = (s \o t)[i]
    OBVIOUS
  <2>1. SubSeq(flat, a + 1, a + Len(s) + Len(t))[i] = flat[a + i]
    BY <1>1, SubSeqProperties
  <2> QED
    BY <2>1
<1>3. \A i \in 1 .. Len(s) : flat[a + i] = s[i]
  BY <1>1, <1>2
<1>4. \A i \in 1 .. Len(t) : flat[a + Len(s) + i] = t[i]
  <2> SUFFICES ASSUME NEW i \in 1 .. Len(t) PROVE flat[a + Len(s) + i] = t[i]
    OBVIOUS
  <2>1. Len(s) + i \in 1 .. Len(s) + Len(t) /\ a + (Len(s) + i) = a + Len(s) + i
    BY <1>1
  <2>2. (s \o t)[Len(s) + i] = t[i]
    BY <1>1
  <2> QED
    BY <1>2, <2>1, <2>2
<1>5. SubSeq(flat, a + 1, a + Len(s)) = s
  <2> DEFINE cut == SubSeq(flat, a + 1, a + Len(s))
  <2>1. cut \in Seq(Nat) /\ Len(cut) = Len(s) /\ \A i \in 1 .. Len(s) : cut[i] = flat[a + i]
    BY <1>1, SubSeqProperties
  <2> HIDE DEF cut
  <2>2. cut = s
    BY <1>3, <2>1, SeqEqual
  <2> QED
    BY <2>2 DEF cut
<1>6. SubSeq(flat, a + Len(s) + 1, a + Len(s) + Len(t)) = t
  <2> DEFINE cut == SubSeq(flat, a + Len(s) + 1, a + Len(s) + Len(t))
  <2>1. cut \in Seq(Nat) /\ Len(cut) = Len(t) /\ \A i \in 1 .. Len(t) : cut[i] = flat[a + Len(s) + i]
    BY <1>1, SubSeqProperties
  <2> HIDE DEF cut
  <2>2. cut = t
    BY <1>4, <2>1, SeqEqual
  <2> QED
    BY <2>2 DEF cut
<1> QED
  BY <1>5, <1>6

\* A string behind its length.
Packed(string) == Bytes(Len(string), PrefixWidth) \o string

\* A string behind its length is bytes.
LEMMA PackedType ==
    ASSUME NEW string \in String, Len(string) < Limit
    PROVE  Packed(string) \in Seq(Nat)
<1>1. string \in Seq(Nat) /\ Len(string) \in Nat
  BY StringType
<1>2. Len(string) \in Number24
  BY <1>1, LimitNat DEF Number24
<1>3. Bytes(Len(string), PrefixWidth) \in Seq(Nat)
  BY <1>2, BytesType DEF PrefixWidth
<1> QED
  BY <1>1, <1>3 DEF Packed

\* A string is packed between a and b, and read from there.
HoldsString(flat, a, b, string) ==
    /\ string \in String /\ Len(string) < Limit
    /\ flat \in Seq(Nat) /\ a \in Nat /\ b \in Nat
    /\ b = a + Len(Packed(string)) /\ b <= Len(flat)
    /\ SubSeq(flat, a + 1, b) = Packed(string)

ReadOn(flat, a, b, before, string) ==
    NextString(flat, [ok |-> TRUE, offset |-> a, values |-> before])
      = [ok |-> TRUE, offset |-> b, values |-> Append(before, string)]

\* NextString reads the string that is packed where it stands.
LEMMA NextStringRead ==
    ASSUME NEW flat, NEW a, NEW b, NEW string, HoldsString(flat, a, b, string), NEW before
    PROVE  ReadOn(flat, a, b, before, string)
<1>0. /\ string \in String /\ Len(string) < Limit
      /\ flat \in Seq(Nat) /\ a \in Nat /\ b \in Nat
      /\ b = a + Len(Packed(string)) /\ b <= Len(flat)
      /\ SubSeq(flat, a + 1, b) = Packed(string)
  BY DEF HoldsString
<1> DEFINE n == Len(string)
           prefix == Bytes(n, PrefixWidth)
<1>1. string \in Seq(Nat) /\ n \in Nat /\ n \in Number24 /\ Len(flat) \in Nat
  <2>1. string \in Seq(Nat) /\ n \in Nat
    BY <1>0, StringType
  <2> QED
    BY <1>0, <2>1, LimitNat DEF Number24
<1>2. PrefixWidth \in Widths /\ PrefixWidth \in Nat /\ PrefixWidth = 4
  BY DEF PrefixWidth, Widths
<1>3. prefix \in Seq(Nat) /\ Len(prefix) = 4
  BY <1>1, <1>2, BytesType
<1>4. Fits(n, PrefixWidth)
  BY <1>1, <1>2 DEF Fits
<1>5. Number(prefix) = n
  BY <1>2, <1>4, NumberOfBytes
<1> HIDE DEF prefix
<1>6. b = a + 4 + n
  <2>1. Len(prefix \o string) = Len(prefix) + Len(string)
    BY <1>1, <1>3, ConcatProperties
  <2> QED
    BY <1>0, <1>1, <1>3, <2>1 DEF Packed, prefix
<1>7. /\ SubSeq(flat, a + 1, a + 4) = prefix
      /\ SubSeq(flat, a + 4 + 1, a + 4 + n) = string
  <2>1. SubSeq(flat, a + 1, a + 4 + n) = prefix \o string
    BY <1>0, <1>6 DEF Packed, prefix
  <2>2. a + 4 + n <= Len(flat)
    BY <1>0, <1>6
  <2> QED
    <3>1. PICK s \in Seq(Nat) : s = prefix
      BY <1>3
    <3>2. PICK t \in Seq(Nat) : t = string
      BY <1>1
    <3>3. Len(s) = 4 /\ Len(t) = n
      BY <1>3, <3>1, <3>2
    <3>4. /\ a + Len(s) + Len(t) <= Len(flat)
          /\ SubSeq(flat, a + 1, a + Len(s) + Len(t)) = s \o t
      BY <2>1, <2>2, <3>1, <3>2, <3>3
    <3>5. /\ SubSeq(flat, a + 1, a + Len(s)) = s
          /\ SubSeq(flat, a + Len(s) + 1, a + Len(s) + Len(t)) = t
      BY <1>0, <3>4, TwoParts
    <3> QED
      BY <3>1, <3>2, <3>3, <3>5
<1> DEFINE acc == [ok |-> TRUE, offset |-> a, values |-> before]
<1>8. acc.ok /\ acc.offset = a /\ acc.values = before
  OBVIOUS
<1>9. ~(a + 4 > Len(flat)) /\ ~(a + 4 + n > Len(flat))
  BY <1>0, <1>1, <1>6
<1>10. NextString(flat, acc) = [acc EXCEPT !.offset = a + 4 + n, !.values = Append(@, string)]
  BY <1>2, <1>5, <1>7, <1>8, <1>9 DEF NextString
<1> QED
  BY <1>6, <1>10 DEF ReadOn

\* The function of DecodeStrings.
ReadsStrings(f, chunk, n) ==
    f = [e \in 0 .. n |->
            IF e = 0 THEN [ok |-> TRUE, offset |-> 0, values |-> <<>>]
            ELSE NextString(chunk, f[e - 1])]

StringsOf(chunk, n) == CHOOSE f : ReadsStrings(f, chunk, n)

\* The strings that were packed are the strings that are read.
LEMMA StringsRead ==
    ASSUME NEW shape, shape # <<>>, NEW values \in Seq(String),
           Product(shape) = Len(values), Reshapes(shape, Len(values)),
           \A e \in DOMAIN values : Len(values[e]) < Limit
    PROVE  DecodeStrings(FlattenSeq([e \in DOMAIN values |-> Packed(values[e])]), shape) = values
<1> DEFINE n == Len(values)
           parts == [e \in 1 .. n |-> Packed(values[e])]
           flat == FlattenSeq(parts)
<1>1. n \in Nat /\ DOMAIN values = 1 .. n /\ values = Firsts(values, n)
  BY DEF Firsts
<1>2. parts \in [1 .. n -> Seq(Nat)] /\ \A e \in 1 .. n : parts[e] = Packed(values[e])
  <2>1. \A e \in 1 .. n : Packed(values[e]) \in Seq(Nat)
    BY <1>1, PackedType
  <2> QED
    BY <2>1
<1> HIDE DEF parts
<1>3. PICK at : Laid(flat, parts, n, at)
  BY <1>1, <1>2, Flattened
<1> HIDE DEF flat
<1> DEFINE State(e) == [ok |-> TRUE, offset |-> at[e], values |-> Firsts(values, e)]
           g == [e \in 0 .. n |-> State(e)]
<1>4. \A e \in 0 .. n : g[e] = State(e)
  OBVIOUS
<1>5. State(0) = [ok |-> TRUE, offset |-> 0, values |-> <<>>]
  BY <1>3 DEF Laid, Firsts
<1>6. ASSUME NEW e \in 1 .. n PROVE State(e) = NextString(flat, State(e - 1))
  <2>1. Piece(flat, parts, at, e) /\ flat \in Seq(Nat)
    BY <1>3 DEF Laid
  <2>2. parts[e] = Packed(values[e])
    BY <1>2
  <2>3. values[e] \in String /\ Len(values[e]) < Limit
    BY <1>1
  <2>4. NextString(flat, [ok |-> TRUE, offset |-> at[e - 1], values |-> Firsts(values, e - 1)])
          = [ok |-> TRUE, offset |-> at[e], values |-> Append(Firsts(values, e - 1), values[e])]
    <3>1. HoldsString(flat, at[e - 1], at[e], values[e])
      BY <2>1, <2>2, <2>3 DEF HoldsString, Piece
    <3>2. ReadOn(flat, at[e - 1], at[e], Firsts(values, e - 1), values[e])
      BY <3>1, NextStringRead
    <3> QED
      BY <3>2 DEF ReadOn
  <2>5. e - 1 \in Nat /\ e - 1 < n /\ (e - 1) + 1 = e
    BY <1>1
  <2>6. Append(Firsts(values, e - 1), values[(e - 1) + 1]) = Firsts(values, (e - 1) + 1)
    BY <2>5, OneMoreOfFirsts
  <2> QED
    BY <2>4, <2>5, <2>6
<1> HIDE DEF State
<1>7. ReadsStrings(g, flat, n)
  <2>1. ASSUME NEW e \in 0 .. n
        PROVE  g[e] = IF e = 0 THEN [ok |-> TRUE, offset |-> 0, values |-> <<>>]
                      ELSE NextString(flat, g[e - 1])
    <3>1. e # 0 => e \in 1 .. n /\ e - 1 \in 0 .. n
      BY <1>1
    <3> QED
      BY <1>4, <1>5, <1>6, <3>1
  <2>2. g = [e \in 0 .. n |-> g[e]]
    OBVIOUS
  <2> HIDE DEF g
  <2> QED
    BY <2>1, <2>2 DEF ReadsStrings
<1> HIDE DEF g
<1> DEFINE read == StringsOf(flat, n)
<1>8. ReadsStrings(read, flat, n)
  BY <1>7 DEF StringsOf
<1>9. DecodeStrings(flat, shape) = IF read[n].ok THEN read[n].values ELSE Bad
  <2> DEFINE count == IF Product(shape) > 0 THEN Product(shape) ELSE 0
  <2>1. DecodeStrings(flat, shape)
          = IF shape # <<>> /\ StringsOf(flat, count)[count].ok /\ Reshapes(shape, count)
            THEN StringsOf(flat, count)[count].values ELSE Bad
    BY DEF DecodeStrings, StringsOf, ReadsStrings
  <2>2. count = n
    BY <1>1
  <2>3. Reshapes(shape, n)
    OBVIOUS
  <2> HIDE DEF count, n
  <2> QED
    BY <2>1, <2>2, <2>3
<1> HIDE DEF read
<1> DEFINE T == {e \in 0 .. n : read[e] = State(e)}
<1>10. 0 \in T
  <2>1. 0 \in 0 .. n
    BY <1>1
  <2> QED
    BY <1>5, <1>8, <2>1 DEF ReadsStrings
<1>11. ASSUME NEW e \in 0 .. n - 1, e \in T PROVE e + 1 \in T
  <2>1. e + 1 \in 1 .. n /\ e + 1 \in 0 .. n /\ e + 1 # 0 /\ (e + 1) - 1 = e
    BY <1>1
  <2>2. read[e + 1] = NextString(flat, read[e])
    BY <1>8, <2>1 DEF ReadsStrings
  <2>3. State(e + 1) = NextString(flat, State(e))
    BY <1>6, <2>1
  <2> QED
    BY <1>11, <2>1, <2>2, <2>3
<1>12. n \in T
  <2> HIDE DEF T
  <2>1. \A e \in 0 .. n : e \in T
    BY <1>1, <1>10, <1>11, UpTo
  <2> QED
    BY <1>1, <2>1
<1>13. read[n].ok /\ read[n].values = values
  BY <1>1, <1>12 DEF State
<1>14. flat = FlattenSeq([e \in DOMAIN values |-> Packed(values[e])])
  BY <1>1 DEF flat, parts
<1> QED
  BY <1>9, <1>13, <1>14

-----------------------------------------------------------------------------
(* The inputs of a request.                                                *)

\* The parts of BuildBinary.
Chunk(input) == IF input.size = Absent THEN <<>> ELSE EncodeChunk(input, input.data)

Header(input) ==
    IF input.size = Absent THEN input
    ELSE [input EXCEPT !.size = Len(Chunk(input)), !.data = Absent]

\* Strings come back as text, numbers as they are.
AsRead(input) ==
    IF input.datatype = "BYTES" THEN Characters(input.data) ELSE input.data

Again(input) ==
    IF input.size = Absent THEN input
    ELSE [input EXCEPT !.size = Len(Chunk(input)), !.data = AsRead(input)]

\* Numbers, or strings of bytes or of characters, and an input with them in it.
AnyData == Seq(Number24) \cup Seq(Seq(Nat))
AnyInput == Inputs(AnyData)

\* Text is characters, and there are as many texts as strings.
LEMMA CharactersType ==
    ASSUME NEW strings \in Seq(String)
    PROVE  Characters(strings) \in Seq(Seq(Nat))
<1>1. \A bytes \in String : bytes \in Seq(Nat)
  BY StringType
<1>2. \A bytes \in String : Text(bytes) \in Seq(Nat)
  BY <1>1, Utf8Assumption DEF Text
<1>3. Len(strings) \in Nat /\ DOMAIN strings = 1 .. Len(strings)
      /\ \A e \in 1 .. Len(strings) : strings[e] \in String
  OBVIOUS
<1>4. \A e \in 1 .. Len(strings) : Text(strings[e]) \in Seq(Nat)
  BY <1>2, <1>3
<1> QED
  BY <1>3, <1>4 DEF Characters

\* Strings of bytes are data as well.
LEMMA StringsAreData == Seq(String) \subseteq AnyData
<1>1. String \subseteq Seq(Nat)
  BY StringType
<1>2. Seq(String) \subseteq Seq(Seq(Nat))
  BY <1>1, SeqSubset
<1> QED
  BY <1>2 DEF AnyData

\* What may be sent is an input, with the values of its datatype.
LEMMA SendableType ==
    ASSUME NEW input, Sendable(input)
    PROVE  /\ input \in AnyInput
           /\ DOMAIN input = {"name", "datatype", "shape", "size", "data"}
           /\ input.datatype = "BYTES" => input.data \in Seq(String)
           /\ input.datatype # "BYTES" => input.data \in Seq(Number24)
<1>1. CASE input.datatype = "BYTES"
  <2>1. input \in Inputs(Seq(String))
    BY <1>1 DEF Sendable
  <2> QED
    BY <1>1, <2>1, StringsAreData DEF Inputs, AnyInput
<1>2. CASE input.datatype # "BYTES"
  <2>1. input \in Inputs(Seq(Number24))
    BY <1>2 DEF Sendable
  <2> QED
    BY <1>2, <2>1 DEF Inputs, AnyInput, AnyData
<1> QED
  BY <1>1, <1>2

\* What a client packs into an input is what is decoded from it.
LEMMA ChunkRead ==
    ASSUME NEW input, Sendable(input), input.size # Absent,
           NEW header, header.datatype = input.datatype, header.shape = input.shape
    PROVE  /\ Chunk(input) \in Seq(Nat)
           /\ DecodeChunk(Chunk(input), header) = AsRead(input)
           /\ AsRead(input) # Bad /\ AsRead(input) \in AnyData
<1> DEFINE values == input.data
           n == Len(values)
           parts == [e \in DOMAIN values |->
                       IF input.datatype = "BYTES" THEN Packed(values[e])
                       ELSE Bytes(values[e], Width[input.datatype])]
<1>1. Chunk(input) = FlattenSeq(parts)
  BY DEF Chunk, EncodeChunk, Packed
<1>2. values # Bad /\ AsRead(input) # Bad /\ AsRead(input) \in AnyData
  <2>1. AsRead(input) \in AnyData
    BY SendableType, CharactersType DEF AsRead, AnyData
  <2>2. values \in AnyData
    BY SendableType, StringsAreData DEF AnyData
  <2> QED
    BY <2>1, <2>2, MarkAssumption DEF AnyData
<1>3. CASE input.datatype = "BYTES"
  <2>1. /\ values \in Seq(String) /\ header.shape # <<>>
        /\ Product(header.shape) = n /\ Reshapes(header.shape, n)
        /\ \A e \in DOMAIN values : Len(values[e]) < Limit
    BY <1>3, SendableType DEF Sendable
  <2>2. parts = [e \in DOMAIN values |-> Packed(values[e])]
    BY <1>3
  <2>3. DecodeStrings(FlattenSeq([e \in DOMAIN values |-> Packed(values[e])]), header.shape) = values
    <3> HIDE DEF values
    <3> QED
      BY <2>1, StringsRead
  <2>4. DecodeChunk(FlattenSeq(parts), header) = Characters(values)
    <3> HIDE DEF parts, values
    <3> QED
      BY <1>2, <1>3, <2>2, <2>3 DEF DecodeChunk
  <2>5. DOMAIN values = 1 .. n /\ n \in Nat
    BY <2>1
  <2>6. \A e \in 1 .. n : Packed(values[e]) \in Seq(Nat)
    <3>1. \A e \in 1 .. n : values[e] \in String /\ Len(values[e]) < Limit
      BY <2>1, <2>5
    <3> HIDE DEF values
    <3> QED
      BY <3>1, PackedType
  <2>7. FlattenSeq(parts) \in Seq(Nat)
    <3>1. parts \in [1 .. n -> Seq(Nat)]
      BY <2>2, <2>5, <2>6
    <3> HIDE DEF parts
    <3> QED
      BY <2>5, <3>1, Flattened DEF Laid
  <2> QED
    BY <1>1, <1>2, <1>3, <2>4, <2>7 DEF AsRead
<1>4. CASE input.datatype # "BYTES"
  <2> DEFINE w == Width[input.datatype]
  <2>1. /\ values \in Seq(Number24) /\ Reshapes(header.shape, n)
        /\ input.datatype \in DOMAIN Width /\ header.datatype = input.datatype
        /\ \A e \in DOMAIN values : Fits(values[e], w)
    BY <1>4, SendableType DEF Sendable
  <2>2. parts = [e \in DOMAIN values |-> Bytes(values[e], w)]
    BY <1>4
  <2>3. DecodeNumbers(FlattenSeq([e \in DOMAIN values |-> Bytes(values[e], w)]),
                      input.datatype, header.shape) = values
    <3> HIDE DEF values
    <3> QED
      BY <2>1, NumbersRead
  <2>4. DecodeChunk(FlattenSeq(parts), header) = values
    <3> HIDE DEF parts
    <3> QED
      BY <1>4, <2>1, <2>2, <2>3 DEF DecodeChunk
  <2>5. DOMAIN values = 1 .. n /\ n \in Nat
    BY <2>1
  <2>6. \A e \in 1 .. n : Bytes(values[e], w) \in Seq(Nat)
    <3>1. w \in Nat
      BY <2>1, WidthOfType DEF Widths
    <3> HIDE DEF w
    <3>2. \A e \in 1 .. n : values[e] \in Number24
      BY <2>1, <2>5
    <3> HIDE DEF values
    <3> QED
      BY <3>1, <3>2, BytesType
  <2>7. FlattenSeq(parts) \in Seq(Nat)
    <3>1. parts \in [1 .. n -> Seq(Nat)]
      BY <2>2, <2>5, <2>6
    <3> HIDE DEF parts
    <3> QED
      BY <2>5, <3>1, Flattened DEF Laid
  <2> QED
    BY <1>1, <1>2, <1>4, <2>4, <2>7 DEF AsRead
<1> QED
  BY <1>3, <1>4

\* The chunk of every input is bytes, and its header tells their number.
LEMMA Chunks ==
    ASSUME NEW input, Sendable(input)
    PROVE  /\ Chunk(input) \in Seq(Nat) /\ Len(Chunk(input)) \in Nat
           /\ Again(input) \in AnyInput /\ Header(input).datatype = input.datatype
           /\ input.size = Absent => /\ Header(input).size = Absent /\ Chunk(input) = <<>>
                                     /\ Header(input) = Again(input)
                                     /\ Again(input).data = input.data
           /\ input.size # Absent =>
                 /\ Again(input).data = AsRead(input)
                 /\ Header(input).size = Len(Chunk(input)) /\ Header(input).size # Absent
                 /\ SizeOK(Header(input).size)
                 /\ DecodeChunk(Chunk(input), Header(input)) = AsRead(input)
                 /\ AsRead(input) # Bad
                 /\ [Header(input) EXCEPT !.data = AsRead(input)] = Again(input)
<1>1. /\ input \in AnyInput
      /\ DOMAIN input = {"name", "datatype", "shape", "size", "data"}
  BY SendableType
<1>2. CASE input.size = Absent
  BY <1>1, <1>2 DEF Chunk, Header, Again
<1>3. CASE input.size # Absent
  <2> DEFINE n == Len(Chunk(input))
             read == AsRead(input)
             header == [input EXCEPT !.size = n, !.data = Absent]
  <2>1. Header(input) = header /\ Again(input) = [input EXCEPT !.size = n, !.data = read]
    BY <1>3 DEF Header, Again
  <2>2. header.size = n /\ header.datatype = input.datatype /\ header.shape = input.shape
    BY <1>1
  <2>3. /\ Chunk(input) \in Seq(Nat) /\ DecodeChunk(Chunk(input), header) = read
        /\ read # Bad /\ read \in AnyData
    <3> HIDE DEF header
    <3> QED
      BY <1>3, <2>2, ChunkRead
  <2>4. n \in Nat
    BY <2>3
  <2>5. n # Absent /\ SizeOK(n)
    BY <2>4, MarkAssumption DEF SizeOK
  <2> HIDE DEF n, read
  <2>6. [header EXCEPT !.data = read] = [input EXCEPT !.size = n, !.data = read]
    BY <1>1
  <2>7. /\ [input EXCEPT !.size = n, !.data = read] \in AnyInput
        /\ [input EXCEPT !.size = n, !.data = read].data = read
    BY <1>1, <2>3, <2>4 DEF AnyInput, Inputs
  <2> HIDE DEF header
  <2> QED
    BY <1>3, <2>1, <2>2, <2>3, <2>4, <2>5, <2>6, <2>7 DEF n, read
<1> QED
  BY <1>2, <1>3

\* One input more

\* A state of ParseBinary is its three fields.
Fields == {"ok", "offset", "inputs"}

Acc(a, before) == [ok |-> TRUE, offset |-> a, inputs |-> before]

\* The chunk of an input stands in the payload from a to b.
Stands(payload, a, b, input) ==
    /\ Sendable(input)
    /\ a \in Nat /\ b \in Nat /\ Len(payload) \in Nat
    /\ b = a + Len(Chunk(input)) /\ b <= Len(payload)
    /\ SubSeq(payload, a + 1, b) = Chunk(input)

\* Take goes on behind that chunk, with the input as it was sent.
TakenFrom(payload, a, b, before, input) ==
    Take(payload, Acc(a, before), Header(input)) = Acc(b, Append(before, Again(input)))

IsAcc(acc, a, before) ==
    /\ acc = [x \in Fields |-> acc[x]]
    /\ acc.ok = TRUE /\ acc.offset = a /\ acc.inputs = before

\* A record is told by its fields.
LEMMA AccFields ==
    ASSUME NEW a, NEW before
    PROVE  IsAcc(Acc(a, before), a, before)
<1>1. PICK p : p = Acc(a, before)
  OBVIOUS
<1>2. p = [x \in Fields |-> p[x]] /\ p.ok = TRUE /\ p.offset = a /\ p.inputs = before
  BY <1>1 DEF Acc, Fields
<1> QED
  BY <1>1, <1>2 DEF IsAcc

\* Two such records with the same fields are the same.
LEMMA AccIs ==
    ASSUME NEW acc, NEW a, NEW before, IsAcc(acc, a, before)
    PROVE  acc = Acc(a, before)
<1>1. IsAcc(Acc(a, before), a, before)
  BY AccFields
<1>2. PICK p : p = Acc(a, before)
  OBVIOUS
<1>3. \A x \in Fields : acc[x] = p[x]
  BY <1>1, <1>2 DEF Fields, IsAcc
<1>4. acc = [x \in Fields |-> acc[x]] /\ p = [x \in Fields |-> p[x]]
  BY <1>1, <1>2 DEF IsAcc
<1>5. acc = p
  BY <1>3, <1>4
<1> QED
  BY <1>2, <1>5

\* An input whose chunk stands in the payload is taken from it.
LEMMA TakeStanding ==
    ASSUME NEW payload, NEW a, NEW b, NEW input, Stands(payload, a, b, input), NEW before
    PROVE  TakenFrom(payload, a, b, before, input)
<1>1. /\ Sendable(input)
      /\ a \in Nat /\ b \in Nat /\ Len(payload) \in Nat
      /\ b = a + Len(Chunk(input)) /\ b <= Len(payload)
      /\ SubSeq(payload, a + 1, b) = Chunk(input)
  BY DEF Stands
<1> DEFINE header == Header(input)
<1>0. PICK acc : acc = Acc(a, before)
  OBVIOUS
<1>2. IsAcc(acc, a, before)
  BY <1>0, AccFields
<1>5. PICK next : next = Take(payload, acc, Header(input))
  OBVIOUS
<1>3. CASE input.size = Absent
  <2>1. header.size = Absent /\ header = Again(input) /\ Len(Chunk(input)) = 0
    BY <1>1, <1>3, Chunks
  <2>2. b = a
    BY <1>1, <2>1
  <2> HIDE DEF header
  <2>3. next = [acc EXCEPT !.inputs = Append(before, header)]
    BY <1>2, <1>5, <2>1 DEF Take, IsAcc, header
  <2>4. IsAcc(next, a, Append(before, header))
    BY <1>2, <2>3 DEF IsAcc, Fields
  <2>5. next = Acc(a, Append(before, header))
    BY <2>4, AccIs
  <2> QED
    BY <1>0, <1>5, <2>1, <2>2, <2>5 DEF TakenFrom
<1>4. CASE input.size # Absent
  <2>1. /\ header.size = Len(Chunk(input)) /\ header.size # Absent /\ SizeOK(header.size)
        /\ DecodeChunk(Chunk(input), header) = AsRead(input) /\ AsRead(input) # Bad
        /\ [header EXCEPT !.data = AsRead(input)] = Again(input)
    BY <1>1, <1>4, Chunks
  <2> HIDE DEF header
  <2>2. a + header.size = b /\ ~(b > Len(payload))
    BY <1>1, <2>1
  <2>3. DecodeChunk(SubSeq(payload, a + 1, b), header) = AsRead(input)
    BY <1>1, <2>1
  <2>4. next = [acc EXCEPT !.offset = b, !.inputs = Append(before, Again(input))]
    BY <1>2, <1>5, <2>1, <2>2, <2>3 DEF Take, IsAcc, header
  <2>5. IsAcc(next, b, Append(before, Again(input)))
    BY <1>2, <2>4 DEF IsAcc, Fields
  <2>6. next = Acc(b, Append(before, Again(input)))
    BY <2>5, AccIs
  <2> QED
    BY <1>0, <1>5, <2>6 DEF TakenFrom
<1> QED
  BY <1>3, <1>4

\* Whatever the payload is, an input that is taken ends inside it.
Taking(payload, acc, a) ==
    /\ DOMAIN acc = Fields /\ acc.ok \in BOOLEAN /\ Len(payload) \in Nat
    /\ acc.ok => acc.offset = a /\ a <= Len(payload)

\* Take keeps that for any payload, however short.
LEMMA TakeInside ==
    ASSUME NEW payload, NEW acc, NEW a \in Nat, Taking(payload, acc, a),
           NEW input, Sendable(input), NEW b, b = a + Len(Chunk(input))
    PROVE  Taking(payload, Take(payload, acc, Header(input)), b)
<1> DEFINE header == Header(input)
           values == DecodeChunk(SubSeq(payload, a + 1, b), header)
<1>1. /\ DOMAIN acc = Fields /\ acc.ok \in BOOLEAN /\ Len(payload) \in Nat
      /\ acc.ok => acc.offset = a /\ a <= Len(payload)
  BY DEF Taking
<1>0. PICK next : next = Take(payload, acc, Header(input))
  OBVIOUS
<1>2. Len(Chunk(input)) \in Nat
  BY Chunks
<1>3. CASE ~acc.ok
  BY <1>1, <1>3 DEF Take, Taking
<1>4. CASE acc.ok /\ input.size = Absent
  <2>1. header.size = Absent /\ Len(Chunk(input)) = 0
    BY <1>4, Chunks
  <2>2. b = a
    BY <2>1
  <2> HIDE DEF header
  <2>3. Take(payload, acc, header) = [acc EXCEPT !.inputs = Append(@, header)]
    BY <1>4, <2>1 DEF Take
  <2> QED
    BY <1>1, <1>4, <2>2, <2>3 DEF Taking, Fields, header
<1>5. CASE acc.ok /\ input.size # Absent
  <2>1. header.size = Len(Chunk(input)) /\ header.size # Absent /\ SizeOK(header.size)
    BY <1>5, Chunks
  <2>2. acc.offset + header.size = b
    BY <1>1, <1>5, <2>1
  <2> HIDE DEF header
  <2>3. next
          = IF b > Len(payload) \/ values = Bad THEN [acc EXCEPT !.ok = FALSE]
            ELSE [acc EXCEPT !.offset = b,
                             !.inputs = Append(@, [header EXCEPT !.data = values])]
    BY <1>0, <1>1, <1>5, <2>1, <2>2 DEF Take, header
  <2> HIDE DEF values
  <2>4. CASE b > Len(payload) \/ values = Bad
    BY <1>0, <1>1, <2>3, <2>4 DEF Taking, Fields
  <2>5. CASE ~(b > Len(payload) \/ values = Bad)
    <3>1. PICK after : next = [acc EXCEPT !.offset = b, !.inputs = after]
      BY <2>3, <2>5
    <3>2. DOMAIN next = Fields /\ next.ok /\ next.offset = b /\ next.ok \in BOOLEAN
      BY <1>1, <1>5, <3>1 DEF Fields
    <3>3. b <= Len(payload)
      BY <1>1, <1>2, <2>5
    <3> QED
      BY <1>0, <1>1, <3>2, <3>3 DEF Taking
  <2> QED
    BY <2>4, <2>5
<1> QED
  BY <1>1, <1>3, <1>4, <1>5

\* Before the first input, and the function of ParseBinary.
NothingRead == [ok |-> TRUE, offset |-> 0, inputs |-> <<>>]

ReadsInputs(f, headers, payload, n) ==
    f = [i \in 0 .. n |-> IF i = 0 THEN [ok |-> TRUE, offset |-> 0, inputs |-> <<>>]
                          ELSE Take(payload, f[i - 1], headers[i])]

InputsOf(headers, payload, n) == CHOOSE f : ReadsInputs(f, headers, payload, n)

\* The function of ParseBinary exists: it reads one input after the other.
LEMMA InputsRead ==
    ASSUME NEW n \in Nat, NEW headers, NEW payload
    PROVE  LET f == InputsOf(headers, payload, n)
           IN  /\ f[0] = Acc(0, <<>>)
               /\ \A i \in 1 .. n : f[i] = Take(payload, f[i - 1], headers[i])
<1> DEFINE T == {m \in Nat : \E f : ReadsInputs(f, headers, payload, m)}
<1>1. 0 \in T
  <2>1. PICK f : f = [i \in 0 .. 0 |-> NothingRead]
    OBVIOUS
  <2>2. ReadsInputs(f, headers, payload, 0)
    BY <2>1 DEF ReadsInputs, NothingRead
  <2> QED
    BY <2>2
<1>2. ASSUME NEW m \in 0 .. n - 1, m \in T PROVE m + 1 \in T
  <2>1. PICK f : ReadsInputs(f, headers, payload, m)
    BY <1>2
  <2>2. PICK last : last = Take(payload, f[m], headers[m + 1])
    OBVIOUS
  <2>3. PICK g : g = [i \in 0 .. m + 1 |-> IF i = m + 1 THEN last ELSE f[i]]
    OBVIOUS
  <2>4. g[m + 1] = last /\ \A i \in 0 .. m : g[i] = f[i]
    BY <2>3
  <2>5. \A i \in 0 .. m : f[i] = IF i = 0 THEN NothingRead ELSE Take(payload, f[i - 1], headers[i])
    BY <2>1 DEF ReadsInputs, NothingRead
  <2>6. ASSUME NEW i \in 0 .. m + 1
        PROVE  g[i] = IF i = 0 THEN NothingRead ELSE Take(payload, g[i - 1], headers[i])
    <3>1. CASE i \in 0 .. m
      <4>1. i # 0 => i - 1 \in 0 .. m
        BY <3>1
      <4>2. i # 0 => g[i - 1] = f[i - 1]
        BY <2>4, <4>1
      <4> QED
        BY <2>4, <2>5, <3>1, <4>2
    <3>2. CASE i = m + 1
      <4>1. i # 0 /\ i - 1 = m /\ m \in 0 .. m
        BY <3>2
      <4> QED
        BY <2>2, <2>4, <3>2, <4>1
    <3> QED
      BY <3>1, <3>2
  <2>7. ReadsInputs(g, headers, payload, m + 1)
    <3>1. g = [i \in 0 .. m + 1 |-> g[i]]
      BY <2>3
    <3> QED
      BY <2>6, <3>1 DEF ReadsInputs, NothingRead
  <2> QED
    BY <2>7
<1>3. n \in T
  <2> HIDE DEF T
  <2>1. \A m \in 0 .. n : m \in T
    BY <1>1, <1>2, UpTo
  <2> QED
    BY <2>1
<1>4. PICK f : f = InputsOf(headers, payload, n)
  OBVIOUS
<1>5. ReadsInputs(f, headers, payload, n)
  BY <1>3, <1>4 DEF InputsOf
<1>6. f[0] = NothingRead
  BY <1>5 DEF ReadsInputs, NothingRead
<1>7. ASSUME NEW i \in 1 .. n PROVE f[i] = Take(payload, f[i - 1], headers[i])
  <2>1. i \in 0 .. n /\ i # 0
    OBVIOUS
  <2> QED
    BY <1>5, <2>1 DEF ReadsInputs
<1> QED
  BY <1>4, <1>6, <1>7 DEF NothingRead, Acc

\* ParseBinary is the last value of that function.
LEMMA ParseBinaryIs ==
    ASSUME NEW n, NEW headers, Len(headers) = n, NEW payload
    PROVE  ParseBinary(headers, payload)
             = IF InputsOf(headers, payload, n)[n].ok
               THEN InputsOf(headers, payload, n)[n].inputs ELSE Bad
<1>1. ParseBinary(headers, payload)
        = IF InputsOf(headers, payload, Len(headers))[Len(headers)].ok
          THEN InputsOf(headers, payload, Len(headers))[Len(headers)].inputs ELSE Bad
  BY DEF ParseBinary, InputsOf, ReadsInputs
<1> QED
  BY <1>1

\* What a client may send.
Sending(ins, n) ==
    /\ n \in Nat /\ ins = [i \in 1 .. n |-> ins[i]] /\ Len(ins) = n
    /\ \A i \in 1 .. n : Sendable(ins[i])

\* BuildBinary lays the chunks one after the other, in the order of the headers.
LEMMA Built ==
    ASSUME NEW ins, NEW n, Sending(ins, n)
    PROVE  /\ BuildBinary(ins).framing = "binary" /\ BuildBinary(ins).headerLength = n
           /\ BuildBinary(ins).inputs = [i \in 1 .. n |-> Header(ins[i])]
           /\ Len(BuildBinary(ins).inputs) = n
           /\ \E at : Laid(BuildBinary(ins).payload, [i \in 1 .. n |-> Chunk(ins[i])], n, at)
<1>1. DOMAIN ins = 1 .. n /\ n \in Nat /\ Len(ins) = n /\ \A i \in 1 .. n : Sendable(ins[i])
  BY DEF Sending
<1>2. BuildBinary(ins).framing = "binary" /\ BuildBinary(ins).headerLength = n
  BY <1>1 DEF BuildBinary
<1>3. BuildBinary(ins).inputs = [i \in DOMAIN ins |-> Header(ins[i])]
  BY DEF BuildBinary, Header, Chunk
<1>4. BuildBinary(ins).payload = FlattenSeq([i \in DOMAIN ins |-> Chunk(ins[i])])
  BY DEF BuildBinary, Chunk
<1>5. PICK headers : headers = [i \in 1 .. n |-> Header(ins[i])]
  OBVIOUS
<1>6. Len(headers) = n
  BY <1>1, <1>5
<1>7. PICK parts : parts = [i \in 1 .. n |-> Chunk(ins[i])]
  OBVIOUS
<1>8. \A i \in 1 .. n : Chunk(ins[i]) \in Seq(Nat)
  BY <1>1, Chunks
<1>9. parts \in [1 .. n -> Seq(Nat)]
  BY <1>7, <1>8
<1>10. \E at : Laid(FlattenSeq(parts), parts, n, at)
  BY <1>1, <1>9, Flattened
<1> QED
  BY <1>1, <1>2, <1>3, <1>4, <1>5, <1>6, <1>7, <1>10

\* The inputs that are expected back.
AgainAll(ins, n) == [i \in 1 .. n |-> Again(ins[i])]

\* They grow by one.
LEMMA NextAgain ==
    ASSUME NEW ins, NEW m \in Nat
    PROVE  Append(AgainAll(ins, m), Again(ins[m + 1])) = AgainAll(ins, m + 1)
<1> DEFINE S == {Again(ins[i]) : i \in 1 .. m + 1}
<1>1. PICK s : s = AgainAll(ins, m)
  OBVIOUS
<1>2. PICK x : x = Again(ins[m + 1])
  OBVIOUS
<1>3. s \in Seq(S) /\ Len(s) = m /\ x \in S
  BY <1>1, <1>2 DEF AgainAll
<1>4. \A i \in 1 .. m : s[i] = Again(ins[i])
  BY <1>1 DEF AgainAll
<1> HIDE DEF S
<1>5. PICK t : t = Append(s, x)
  OBVIOUS
<1>6. t \in Seq(S) /\ Len(t) = m + 1 /\ t[m + 1] = x /\ \A i \in 1 .. m : t[i] = s[i]
  BY <1>3, <1>5
<1>7. t = [i \in 1 .. m + 1 |-> t[i]]
  BY <1>6
<1>8. ASSUME NEW i \in 1 .. m + 1 PROVE t[i] = Again(ins[i])
  <2>1. i \in 1 .. m \/ i = m + 1
    OBVIOUS
  <2> QED
    BY <1>2, <1>4, <1>6, <2>1
<1>9. t = AgainAll(ins, m + 1)
  BY <1>7, <1>8 DEF AgainAll
<1> QED
  BY <1>1, <1>2, <1>5, <1>9

\* A whole body gives every input with the data that was put into it.
LEMMA WholeRead ==
    ASSUME NEW ins, NEW n, Sending(ins, n)
    PROVE  ParseRequest(BuildBinary(ins)) = AgainAll(ins, n)
<1>1. PICK headers : headers = BuildBinary(ins).inputs
  OBVIOUS
<1>2. PICK payload : payload = BuildBinary(ins).payload
  OBVIOUS
<1>3. PICK parts : parts = [i \in 1 .. n |-> Chunk(ins[i])]
  OBVIOUS
<1>4. PICK at : Laid(payload, parts, n, at)
  BY <1>2, <1>3, Built
<1>5. /\ n \in Nat /\ Len(headers) = n /\ \A i \in 1 .. n : headers[i] = Header(ins[i])
      /\ \A i \in 1 .. n : Sendable(ins[i]) /\ parts[i] = Chunk(ins[i])
  <2>1. headers = [i \in 1 .. n |-> Header(ins[i])] /\ Len(headers) = n
    BY <1>1, Built
  <2>2. \A i \in 1 .. n : headers[i] = Header(ins[i])
    BY <2>1
  <2>3. \A i \in 1 .. n : parts[i] = Chunk(ins[i])
    BY <1>3
  <2> QED
    BY <2>1, <2>2, <2>3 DEF Sending
<1>6. PICK f : f = InputsOf(headers, payload, n)
  OBVIOUS
<1>7. f[0] = Acc(0, <<>>) /\ \A i \in 1 .. n : f[i] = Take(payload, f[i - 1], headers[i])
  BY <1>5, <1>6, InputsRead
<1>8. ASSUME NEW i \in 1 .. n, NEW before
      PROVE  Take(payload, Acc(at[i - 1], before), headers[i]) = Acc(at[i], Append(before, Again(ins[i])))
  <2>1. Piece(payload, parts, at, i) /\ Len(payload) \in Nat
    BY <1>4 DEF Laid
  <2>2. Stands(payload, at[i - 1], at[i], ins[i])
    BY <1>5, <2>1 DEF Piece, Stands
  <2>3. TakenFrom(payload, at[i - 1], at[i], before, ins[i])
    BY <2>2, TakeStanding
  <2> QED
    BY <1>5, <2>3 DEF TakenFrom
<1> DEFINE T == {m \in 0 .. n : f[m] = Acc(at[m], AgainAll(ins, m))}
<1>9. 0 \in T
  <2>1. at[0] = 0 /\ AgainAll(ins, 0) = <<>> /\ 0 \in 0 .. n
    BY <1>4, <1>5 DEF Laid, AgainAll
  <2> QED
    BY <1>7, <2>1
<1>10. ASSUME NEW m \in 0 .. n - 1, m \in T PROVE m + 1 \in T
  <2>1. m + 1 \in 1 .. n /\ m + 1 \in 0 .. n /\ (m + 1) - 1 = m /\ m \in Nat
    BY <1>5
  <2>2. f[m + 1] = Take(payload, f[m], headers[m + 1])
    BY <1>7, <2>1
  <2>3. f[m + 1] = Acc(at[m + 1], Append(AgainAll(ins, m), Again(ins[m + 1])))
    BY <1>8, <1>10, <2>1, <2>2
  <2>4. Append(AgainAll(ins, m), Again(ins[m + 1])) = AgainAll(ins, m + 1)
    BY <2>1, NextAgain
  <2> QED
    BY <2>1, <2>3, <2>4
<1>11. f[n] = Acc(at[n], AgainAll(ins, n))
  <2>1. \A m \in 0 .. n : m \in T
    <3> HIDE DEF T
    <3> QED
      BY <1>5, <1>9, <1>10, UpTo
  <2> QED
    BY <1>5, <2>1
<1>12. f[n].ok = TRUE /\ f[n].inputs = AgainAll(ins, n)
  <2>1. IsAcc(f[n], at[n], AgainAll(ins, n))
    BY <1>11, AccFields
  <2> QED
    BY <2>1 DEF IsAcc
<1>13. ParseBinary(headers, payload) = AgainAll(ins, n)
  BY <1>5, <1>6, <1>12, ParseBinaryIs
<1>14. ParseRequest(BuildBinary(ins)) = ParseBinary(headers, payload)
  BY <1>1, <1>2, <1>5, Built DEF ParseRequest
<1> QED
  BY <1>13, <1>14

\* A body that ends too early is refused.
LEMMA CutRefused ==
    ASSUME NEW ins, NEW n, Sending(ins, n), NEW body,
           NEW k \in 0 .. Len(BuildBinary(ins).payload) - 1,
           body = [BuildBinary(ins) EXCEPT !.payload = SubSeq(@, 1, k)]
    PROVE  ParseRequest(body) = Bad
<1>1. PICK headers : headers = BuildBinary(ins).inputs
  OBVIOUS
<1>2. PICK whole : whole = BuildBinary(ins).payload
  OBVIOUS
<1>3. PICK parts : parts = [i \in 1 .. n |-> Chunk(ins[i])]
  OBVIOUS
<1>4. PICK at : Laid(whole, parts, n, at)
  BY <1>2, <1>3, Built
<1>5. /\ n \in Nat /\ Len(headers) = n /\ \A i \in 1 .. n : headers[i] = Header(ins[i])
      /\ \A i \in 1 .. n : Sendable(ins[i]) /\ parts[i] = Chunk(ins[i])
  <2>1. headers = [i \in 1 .. n |-> Header(ins[i])] /\ Len(headers) = n
    BY <1>1, Built
  <2>2. \A i \in 1 .. n : headers[i] = Header(ins[i])
    BY <2>1
  <2>3. \A i \in 1 .. n : parts[i] = Chunk(ins[i])
    BY <1>3
  <2> QED
    BY <2>1, <2>2, <2>3 DEF Sending
<1>6. PICK payload : payload = SubSeq(whole, 1, k)
  OBVIOUS
<1>7. Len(payload) = k /\ k \in Nat /\ k < Len(whole) /\ Len(whole) \in Nat
  <2>1. whole \in Seq(Nat) /\ Len(whole) \in Nat
    BY <1>4 DEF Laid
  <2>2. k \in Nat /\ k < Len(whole)
    BY <1>2, <2>1
  <2>3. Len(SubSeq(whole, 1, k)) = k
    BY <2>1, <2>2, SubSeqProperties
  <2> QED
    BY <1>6, <2>1, <2>2, <2>3
<1>8. PICK f : f = InputsOf(headers, payload, n)
  OBVIOUS
<1>9. f[0] = Acc(0, <<>>) /\ \A i \in 1 .. n : f[i] = Take(payload, f[i - 1], headers[i])
  BY <1>5, <1>8, InputsRead
<1> DEFINE T == {m \in 0 .. n : Taking(payload, f[m], at[m])}
<1>10. 0 \in T
  <2>1. IsAcc(f[0], 0, <<>>)
    BY <1>9, AccFields
  <2>2. at[0] = 0 /\ 0 \in 0 .. n
    BY <1>4, <1>5 DEF Laid
  <2>3. DOMAIN f[0] = Fields /\ f[0].ok = TRUE /\ f[0].offset = 0
    BY <2>1 DEF IsAcc
  <2>4. 0 <= Len(payload) /\ Len(payload) \in Nat
    BY <1>7
  <2>5. Taking(payload, f[0], 0)
    BY <2>3, <2>4 DEF Taking
  <2> QED
    BY <2>2, <2>5
<1>11. ASSUME NEW m \in 0 .. n - 1, m \in T PROVE m + 1 \in T
  <2>1. m + 1 \in 1 .. n /\ m + 1 \in 0 .. n /\ (m + 1) - 1 = m /\ m \in Nat
    BY <1>5
  <2>2. f[m + 1] = Take(payload, f[m], Header(ins[m + 1]))
    BY <1>5, <1>9, <2>1
  <2>3. Piece(whole, parts, at, m + 1)
    BY <1>4, <2>1 DEF Laid
  <2>4. at[m] \in Nat /\ at[m + 1] = at[m] + Len(Chunk(ins[m + 1])) /\ Sendable(ins[m + 1])
    BY <1>5, <2>1, <2>3 DEF Piece
  <2>5. Taking(payload, f[m], at[m])
    BY <1>11
  <2>6. Taking(payload, Take(payload, f[m], Header(ins[m + 1])), at[m + 1])
    BY <2>4, <2>5, TakeInside
  <2> QED
    BY <2>1, <2>2, <2>6
<1>12. Taking(payload, f[n], at[n])
  <2>1. \A m \in 0 .. n : m \in T
    <3> HIDE DEF T
    <3> QED
      BY <1>5, <1>10, <1>11, UpTo
  <2> QED
    BY <1>5, <2>1
<1>13. ~f[n].ok
  <2>1. at[n] = Len(whole)
    BY <1>4 DEF Laid
  <2> QED
    BY <1>7, <1>12, <2>1 DEF Taking
<1>14. ParseBinary(headers, payload) = Bad
  BY <1>5, <1>8, <1>13, ParseBinaryIs
<1>15. /\ body.framing = "binary" /\ body.headerLength = n
       /\ body.inputs = headers /\ body.payload = payload
  <2>1. /\ DOMAIN BuildBinary(ins) = {"framing", "headerLength", "inputs", "payload"}
        /\ BuildBinary(ins).framing = "binary" /\ BuildBinary(ins).headerLength = n
    BY Built DEF BuildBinary
  <2> QED
    BY <1>1, <1>2, <1>6, <2>1
<1> QED
  BY <1>5, <1>14, <1>15 DEF ParseRequest

\* The request and what is read of it.

\* What ParseRequest returns for the requests that SentAssumption speaks of.
LEMMA SentRead ==
    ASSUME NEW r \in Requests, r.sent # Absent
    PROVE  IF r.short THEN ParseRequest(r.body) = Bad
           ELSE /\ ParseRequest(r.body) # Bad
                /\ DOMAIN ParseRequest(r.body) = DOMAIN r.sent
                /\ \A i \in DOMAIN r.sent : ParseRequest(r.body)[i].data = AsText(r, i)
<1>1. PICK n : n = Len(r.sent)
  OBVIOUS
<1>2. PICK ins : ins = Sent(r)
  OBVIOUS
<1>3. n \in Nat /\ DOMAIN r.sent = 1 .. n /\ \A i \in 1 .. n : Sendable(ins[i])
  BY <1>1, <1>2, SentAssumption
<1>4. ins = [i \in 1 .. n |-> [r.body.inputs[i] EXCEPT !.data = r.sent[i]]]
  BY <1>2, <1>3 DEF Sent
<1>5. Sending(ins, n)
  <2>1. ins = [i \in 1 .. n |-> ins[i]] /\ Len(ins) = n
    BY <1>3, <1>4
  <2> QED
    BY <1>3, <2>1 DEF Sending
<1>6. CASE r.short
  <2>1. PICK k \in 0 .. Len(BuildBinary(ins).payload) - 1 :
           r.body = [BuildBinary(ins) EXCEPT !.payload = SubSeq(@, 1, k)]
    BY <1>2, <1>6, SentAssumption
  <2> QED
    BY <1>5, <1>6, <2>1, CutRefused
<1>7. CASE ~r.short
  <2>1. \A i \in 1 .. n : ins[i] \in AnyInput /\ Again(ins[i]) \in AnyInput
    BY <1>3, Chunks, SendableType
  <2>2. \A i \in 1 .. n : ins[i].data = r.sent[i]
    <3> SUFFICES ASSUME NEW i \in 1 .. n PROVE ins[i].data = r.sent[i]
      OBVIOUS
    <3>1. ins[i] = [r.body.inputs[i] EXCEPT !.data = r.sent[i]]
      BY <1>4
    <3>2. "data" \in DOMAIN ins[i]
      BY <1>3, SendableType
    <3> QED
      BY <3>1, <3>2
  <2>3. r.body = BuildBinary(ins) \/ r.body = [framing |-> "json", inputs |-> ins]
    BY <1>2, <1>7, SentAssumption
  <2>4. CASE r.body = BuildBinary(ins)
    <3>1. ParseRequest(r.body) = AgainAll(ins, n)
      BY <1>5, <2>4, WholeRead
    <3>2. AgainAll(ins, n) \in Seq(AnyInput)
      BY <1>3, <2>1 DEF AgainAll
    <3>3. AgainAll(ins, n) # Bad
      BY <3>2, MarkAssumption DEF AnyInput, AnyData
    <3>4. ASSUME NEW i \in 1 .. n PROVE Again(ins[i]).data = AsText(r, i)
      <4>1. r.body.framing = "binary" /\ r.body.inputs[i] = Header(ins[i])
        <5>1. PICK body : body = BuildBinary(ins)
          OBVIOUS
        <5>2. /\ body.framing = "binary"
              /\ body.inputs = [j \in 1 .. n |-> Header(ins[j])]
          BY <1>5, <5>1, Built
        <5>3. body.inputs[i] = Header(ins[i])
          BY <5>2
        <5> QED
          BY <2>4, <5>1, <5>2, <5>3
      <4>2. Sendable(ins[i]) /\ ins[i].data = r.sent[i]
        BY <1>3, <2>2
      <4>3. /\ r.body.inputs[i].datatype = ins[i].datatype
            /\ r.body.inputs[i].size = Absent <=> ins[i].size = Absent
        BY <4>1, <4>2, Chunks
      <4>4. Again(ins[i]).data = IF ins[i].size = Absent THEN r.sent[i] ELSE AsRead(ins[i])
        BY <4>2, Chunks
      <4> QED
        BY <4>1, <4>2, <4>3, <4>4 DEF AsText, AsRead
    <3>5. \A i \in 1 .. n : AgainAll(ins, n)[i].data = AsText(r, i)
      BY <3>4 DEF AgainAll
    <3> QED
      BY <1>3, <1>7, <3>1, <3>3, <3>5 DEF AgainAll
  <2>5. CASE r.body = [framing |-> "json", inputs |-> ins]
    <3>1. ParseRequest(r.body) = ins
      BY <2>5 DEF ParseRequest
    <3>2. ins \in Seq(AnyInput)
      <4>1. ins = [i \in 1 .. n |-> ins[i]] /\ n \in Nat
        BY <1>3, <1>5 DEF Sending
      <4>2. \A i \in 1 .. n : ins[i] \in AnyInput
        BY <2>1
      <4> QED
        BY <4>1, <4>2
    <3>3. ins # Bad
      BY <3>2, MarkAssumption DEF AnyInput, AnyData
    <3>4. \A i \in 1 .. n : AsText(r, i) = r.sent[i]
      BY <2>5 DEF AsText
    <3> QED
      BY <1>3, <1>4, <1>7, <2>2, <3>1, <3>3, <3>4
  <2> QED
    BY <2>3, <2>4, <2>5
<1> QED
  BY <1>6, <1>7

\* NothingRead is read but the body.
BodyRead ==
    /\ request \in Requests
    /\ inputs # Absent => inputs = ParseRequest(request.body)

\* The inputs the gateway works with are the inputs the client sent, its strings
\* read as text.
THEOREM SentIsRead == Spec => []TensorsAsSent
<1>1. Init => BodyRead
  BY DEF Init, BodyRead
<1>2. ASSUME BodyRead, [Next]_vars PROVE BodyRead'
  <2>1. CASE Parse
    BY <1>2, <2>1 DEF BodyRead, Parse
  <2>2. CASE UNCHANGED <<request, inputs>>
    BY <1>2, <2>2 DEF BodyRead
  <2>3. ASSUME Next PROVE Parse \/ UNCHANGED <<request, inputs>>
    BY <2>3 DEF Next, UnknownModel, ReceiveRelay, ReceiveOpenAI, Decode, TimeOut,
         TransportFails, ModelErrs, ModelReplies, ModelRepliesOpenAI, Relay, Encode
  <2>4. CASE UNCHANGED vars
    BY <2>2, <2>4 DEF vars
  <2> QED
    BY <1>2, <2>1, <2>2, <2>3, <2>4
<1>3. BodyRead => TensorsAsSent
  <2> SUFFICES ASSUME BodyRead, inputs # Absent PROVE TensorsAsSent
    BY DEF TensorsAsSent
  <2>1. request \in Requests /\ inputs = ParseRequest(request.body)
    BY DEF BodyRead
  <2>2. request.short => request.sent # Absent
    BY <2>1, SentAssumption
  <2>3. request.sent # Absent =>
           IF request.short THEN inputs = Bad
           ELSE /\ inputs # Bad /\ DOMAIN inputs = DOMAIN request.sent
                /\ \A i \in DOMAIN request.sent : inputs[i].data = AsText(request, i)
    BY <2>1, SentRead
  <2> QED
    BY <2>2, <2>3 DEF TensorsAsSent
<1> QED
  BY <1>1, <1>2, <1>3, PTL DEF Spec

-----------------------------------------------------------------------------
(* Tokens from the beginning of others.                                    *)

\* p is the beginning of s.
Begins(p, s) == Len(p) <= Len(s) /\ \A i \in 1 .. Len(p) : p[i] = s[i]

\* The first n tokens.
LEMMA Heads ==
    ASSUME NEW s \in Seq(STRING), NEW n \in 0 .. Len(s)
    PROVE  LET p == SubSeq(s, 1, n)
           IN  p \in Seq(STRING) /\ Len(p) = n /\ Begins(p, s)
<1>1. Len(s) \in Nat /\ n \in Nat /\ n <= Len(s) /\ \A i \in 1 .. n : s[i] \in STRING
  BY LenProperties
<1>2. /\ SubSeq(s, 1, n) \in Seq(STRING)
      /\ Len(SubSeq(s, 1, n)) = IF 1 <= n THEN n - 1 + 1 ELSE 0
      /\ \A i \in 1 .. n - 1 + 1 : SubSeq(s, 1, n)[i] = s[1 + i - 1]
  BY <1>1, SubSeqProperties
<1> QED
  BY <1>1, <1>2 DEF Begins

\* What a text begins with is a subsequence of it.
LEMMA HeadIs ==
    ASSUME NEW s \in Seq(STRING), NEW p \in Seq(STRING), Begins(p, s)
    PROVE  p = SubSeq(s, 1, Len(p))
<1>1. Len(p) \in 0 .. Len(s)
  BY LenProperties DEF Begins
<1> DEFINE q == SubSeq(s, 1, Len(p))
<1>2. q \in Seq(STRING) /\ Len(q) = Len(p) /\ Begins(q, s)
  BY <1>1, Heads
<1>3. \A i \in 1 .. Len(p) : q[i] = p[i]
  BY <1>2 DEF Begins
<1> HIDE DEF q
<1>4. q = p
  BY <1>2, <1>3, SeqEqual
<1> QED
  BY <1>4 DEF q

\* Least, where there is one.
LEMMA LeastIs ==
    ASSUME NEW S \in SUBSET Int, NEW x \in S, \A y \in S : x <= y
    PROVE  Least(S) = x
<1>1. Least(S) \in S /\ \A y \in S : Least(S) <= y
  BY DEF Least
<1>2. Least(S) <= x /\ x <= Least(S) /\ Least(S) \in Int /\ x \in Int
  BY <1>1
<1> QED
  BY <1>2

\* A greatest number of a bounded set.
LEMMA GreatestOf ==
    ASSUME NEW n \in Nat, NEW S \in SUBSET (0 .. n), S # {}
    PROVE  Greatest(S) \in S /\ \A y \in S : y <= Greatest(S)
<1> DEFINE D == {n - y : y \in S}
<1>1. D \in SUBSET Nat /\ D # {}
  <2>1. \A y \in 0 .. n : n - y \in Nat
    OBVIOUS
  <2>2. \A y \in S : n - y \in Nat
    BY <2>1
  <2> QED
    BY <2>2
<1>2. PICK d \in D : \A z \in D : d <= z
  <2> HIDE DEF D
  <2> QED
    BY <1>1, LeastOf
<1>3. PICK x \in S : d = n - x
  BY <1>2
<1>4. ASSUME NEW y \in S PROVE y <= x
  <2>1. d <= n - y /\ y \in Int /\ x \in Int
    BY <1>2
  <2> QED
    BY <2>1, <1>3
<1> QED
  BY <1>4 DEF Greatest

-----------------------------------------------------------------------------
(* What the scan knows.                                                    *)

\* Values of the scan.
ScanState == [string : BOOLEAN, escape : BOOLEAN, depth : Int]

AtFirst == [string |-> FALSE, escape |-> FALSE, depth |-> 0]

\* The scan of a text, token by token: the recursive function exists.
LEMMA ScanTokenType ==
    ASSUME NEW was \in ScanState, NEW token, NEW open
    PROVE  ScanToken(was, token, open) \in ScanState
<1>1. was.string \in BOOLEAN /\ was.escape \in BOOLEAN /\ was.depth \in Int
  BY DEF ScanState
<1>2. CASE was.string
  <2>1. PICK escape \in BOOLEAN : escape = (~was.escape /\ token = "backslash")
    BY <1>1
  <2>2. PICK string \in BOOLEAN : string = (was.escape \/ token # "quote")
    BY <1>1
  <2>3. ScanToken(was, token, open) = [was EXCEPT !.escape = escape, !.string = string]
    BY <1>2, <2>1, <2>2 DEF ScanToken
  <2> QED
    BY <2>3 DEF ScanState
<1>3. CASE ~was.string
  <2>1. PICK string \in BOOLEAN : string = (token = "quote")
    OBVIOUS
  <2>2. PICK depth \in Int : depth = IF token = open THEN was.depth + 1
                                 ELSE IF token = Closer(open) THEN was.depth - 1 ELSE was.depth
    BY <1>1
  <2>3. ScanToken(was, token, open) = [was EXCEPT !.string = string, !.depth = depth]
    BY <1>3, <2>1, <2>2 DEF ScanToken
  <2> QED
    BY <2>3 DEF ScanState
<1> QED
  BY <1>2, <1>3

Scans(s, n, f) ==
    /\ f \in [1 .. n + 1 -> ScanState]
    /\ f[1] = AtFirst
    /\ \A i \in 1 .. n : f[i + 1] = ScanToken(f[i], s[i], s[1])

\* Scan is that function.
LEMMA ScanSteps ==
    ASSUME NEW s \in Seq(STRING), s # <<>>
    PROVE  Scans(s, Len(s), Scan(s, 1))
<1> DEFINE F(f) == [i \in 1 .. Len(s) + 1 |->
                       IF i = 1 THEN AtFirst ELSE ScanToken(f[i - 1], s[i - 1], s[1])]
           T == {n \in Nat : \E f : Scans(s, n, f)}
<1>1. Len(s) \in Nat
  BY LenProperties
<1>2. \A n \in 0 .. Len(s) : n \in T
  <2>1. 0 \in T
    <3>1. Scans(s, 0, [i \in 1 .. 1 |-> AtFirst])
      BY DEF Scans, AtFirst, ScanState
    <3> QED
      BY <3>1
  <2>2. ASSUME NEW n \in 0 .. Len(s) - 1, n \in T PROVE n + 1 \in T
    <3>1. PICK f : Scans(s, n, f)
      BY <2>2
    <3>2. PICK new : new = ScanToken(f[n + 1], s[n + 1], s[1])
      OBVIOUS
    <3>3. new \in ScanState
      BY <3>1, <3>2, ScanTokenType DEF Scans
    <3>4. PICK g : g = [i \in 1 .. (n + 1) + 1 |-> IF i <= n + 1 THEN f[i] ELSE new]
      OBVIOUS
    <3>5. g \in [1 .. (n + 1) + 1 -> ScanState]
      BY <3>1, <3>3, <3>4 DEF Scans
    <3>6. g[1] = AtFirst
      BY <3>1, <3>4 DEF Scans
    <3>7. ASSUME NEW i \in 1 .. n + 1 PROVE g[i + 1] = ScanToken(g[i], s[i], s[1])
      <4>1. g[i] = f[i]
        BY <3>4
      <4>2. CASE i = n + 1
        BY <4>1, <4>2, <3>2, <3>4
      <4>3. CASE i # n + 1
        <5>1. i \in 1 .. n /\ g[i + 1] = f[i + 1]
          BY <4>3, <3>4
        <5> QED
          BY <5>1, <4>1, <3>1 DEF Scans
      <4> QED
        BY <4>2, <4>3
    <3>8. Scans(s, n + 1, g)
      BY <3>5, <3>6, <3>7 DEF Scans
    <3> QED
      BY <3>8
  <2> HIDE DEF T
  <2> QED
    BY <1>1, <2>1, <2>2, UpTo
<1>3. PICK f : Scans(s, Len(s), f)
  BY <1>1, <1>2
<1>4. f = F(f)
  <2>1. \A i \in 1 .. Len(s) + 1 : f[i] = F(f)[i]
    <3> TAKE i \in 1 .. Len(s) + 1
    <3>1. CASE i = 1
      BY <3>1, <1>3 DEF Scans
    <3>2. CASE i # 1
      <4>1. i - 1 \in 1 .. Len(s) /\ (i - 1) + 1 = i
        BY <1>1, <3>2
      <4>2. f[(i - 1) + 1] = ScanToken(f[i - 1], s[i - 1], s[1])
        BY <1>3, <4>1 DEF Scans
      <4> QED
        BY <3>2, <4>1, <4>2
    <3> QED
      BY <3>1, <3>2
  <2>2. f = [i \in 1 .. Len(s) + 1 |-> f[i]]
    BY <1>3 DEF Scans
  <2> QED
    BY <2>1, <2>2
<1>5. Scan(s, 1) = CHOOSE g : g = F(g)
  BY DEF Scan, AtFirst
<1>6. PICK g : g = Scan(s, 1) /\ g = F(g)
  <2> HIDE DEF F
  <2> QED
    BY <1>4, <1>5
<1>7. g[1] = AtFirst
  BY <1>1, <1>6
<1>8. ASSUME NEW i \in 1 .. Len(s) PROVE g[i + 1] = ScanToken(g[i], s[i], s[1])
  <2>1. i + 1 \in 1 .. Len(s) + 1 /\ i + 1 # 1 /\ (i + 1) - 1 = i
    BY <1>1
  <2>2. F(g)[i + 1] = ScanToken(g[(i + 1) - 1], s[(i + 1) - 1], s[1])
    BY <2>1
  <2> HIDE DEF F
  <2> QED
    BY <2>1, <2>2, <1>6
<1>9. \A i \in 0 .. Len(s) : g[i + 1] \in ScanState
  <2> DEFINE K == {i \in Nat : g[i + 1] \in ScanState}
  <2>1. 0 \in K
    <3>1. AtFirst \in ScanState
      BY DEF AtFirst, ScanState
    <3> QED
      BY <3>1, <1>7
  <2>2. ASSUME NEW i \in 0 .. Len(s) - 1, i \in K PROVE i + 1 \in K
    <3>1. i + 1 \in 1 .. Len(s) /\ g[i + 1] \in ScanState
      BY <1>1, <2>2
    <3>2. g[(i + 1) + 1] \in ScanState
      BY <3>1, <1>8, ScanTokenType
    <3> QED
      BY <3>2
  <2>3. \A i \in 0 .. Len(s) : i \in K
    <3> HIDE DEF K
    <3> QED
      BY <1>1, <2>1, <2>2, UpTo
  <2> QED
    BY <2>3
<1>10. \A i \in 1 .. Len(s) + 1 : g[i] \in ScanState
  <2> TAKE i \in 1 .. Len(s) + 1
  <2>1. i - 1 \in 0 .. Len(s) /\ (i - 1) + 1 = i
    BY <1>1
  <2> QED
    BY <2>1, <1>9
<1>11. g \in [1 .. Len(s) + 1 -> ScanState]
  <2>1. g = [i \in 1 .. Len(s) + 1 |-> g[i]]
    BY <1>6
  <2> QED
    BY <2>1, <1>10
<1> QED
  BY <1>6, <1>7, <1>8, <1>11 DEF Scans

\* The scans of two texts agree as far as the texts do.
LEMMA SameScan ==
    ASSUME NEW s \in Seq(STRING), NEW p \in Seq(STRING), p # <<>>, Begins(p, s)
    PROVE  \A i \in 0 .. Len(p) : Scan(p, 1)[i + 1] = Scan(s, 1)[i + 1]
<1> DEFINE K == {i \in Nat : Scan(p, 1)[i + 1] = Scan(s, 1)[i + 1]}
<1>1. Len(p) \in Nat /\ Len(s) \in Nat /\ 1 \in 1 .. Len(p) /\ Len(p) <= Len(s)
  BY LenProperties, EmptySeq DEF Begins
<1>2. Scans(p, Len(p), Scan(p, 1)) /\ Scans(s, Len(s), Scan(s, 1))
  <2>1. s # <<>>
    BY <1>1
  <2> QED
    BY <2>1, ScanSteps
<1>3. 0 \in K
  BY <1>2 DEF Scans
<1>4. ASSUME NEW i \in 0 .. Len(p) - 1, i \in K PROVE i + 1 \in K
  <2>1. i + 1 \in 1 .. Len(p) /\ i + 1 \in 1 .. Len(s)
    BY <1>1
  <2>2. p[i + 1] = s[i + 1] /\ p[1] = s[1]
    BY <1>1, <2>1 DEF Begins
  <2>3. /\ Scan(p, 1)[(i + 1) + 1] = ScanToken(Scan(p, 1)[i + 1], p[i + 1], p[1])
        /\ Scan(s, 1)[(i + 1) + 1] = ScanToken(Scan(s, 1)[i + 1], s[i + 1], s[1])
    BY <1>2, <2>1 DEF Scans
  <2> QED
    BY <1>4, <2>2, <2>3
<1>5. \A i \in 0 .. Len(p) : i \in K
  <2> HIDE DEF K
  <2> QED
    BY <1>1, <1>3, <1>4, UpTo
<1> QED
  BY <1>5

-----------------------------------------------------------------------------
(* What is taken off the end.                                              *)

\* Tokens that are no bracket, and the kinds of brackets.
LEMMA OtherTokens ==
    /\ "quote" \notin Closers /\ "backslash" \notin Closers
    /\ "fence" \notin Closers /\ {"word", "number", "comma"} \cap Openers = {}
    /\ \A open \in Openers : Closer(open) \in Closers /\ Closer(open) \notin Openers
BY Zenon DEF Closers, Openers, Closer

\* Nothing of what goes at a time is a closing bracket.
LEMMA GarbageIs ==
    ASSUME NEW s \in Seq(STRING), NEW n \in 0 .. Len(s)
    PROVE  /\ Garbage(s, n) \in 0 .. 2 /\ Garbage(s, n) <= n
           /\ Garbage(s, n) # 0 => s[n] \notin Closers
           /\ Garbage(s, n) = 2 => s[n - 1] \notin Closers
<1>1. n \in Nat
  BY LenProperties
<1>2. CASE n > 1 /\ s[n] = "quote" /\ s[n - 1] = "backslash"
  BY <1>1, <1>2, OtherTokens DEF Garbage
<1>3. CASE /\ ~(n > 1 /\ s[n] = "quote" /\ s[n - 1] = "backslash")
           /\ \/ n > 1 /\ s[n] = "quote" /\ s[n - 1] \in Closers
              \/ n > 0 /\ s[n] = "backslash"
  <2>1. Garbage(s, n) = 1
    BY <1>3, OtherTokens DEF Garbage
  <2>2. s[n] \notin Closers /\ n >= 1
    BY <1>1, <1>3, OtherTokens
  <2> QED
    BY <2>1, <2>2, <1>1
<1>4. CASE /\ ~(n > 1 /\ s[n] = "quote" /\ s[n - 1] = "backslash")
           /\ ~ \/ n > 1 /\ s[n] = "quote" /\ s[n - 1] \in Closers
                \/ n > 0 /\ s[n] = "backslash"
  <2>1. Garbage(s, n) = 0
    BY <1>4, OtherTokens DEF Garbage
  <2> QED
    BY <2>1, <1>1
<1> QED
  BY <1>2, <1>3, <1>4

Keeps(s, n, f) ==
    /\ DOMAIN f = 0 .. n
    /\ \A m \in 0 .. n : f[m] = IF Garbage(s, m) = 0 THEN m ELSE f[m - Garbage(s, m)]

\* What is left is the beginning, and every closing bracket is left.
Spares(s, n, k) ==
    /\ k \in 0 .. n
    /\ \A j \in 1 .. n : s[j] \in Closers => j <= k

\* Taking garbage off the end spares the closing brackets.
LEMMA KeepsSpares ==
    ASSUME NEW s \in Seq(STRING), NEW f, Keeps(s, Len(s), f)
    PROVE  Spares(s, Len(s), f[Len(s)])
<1> DEFINE T == {n \in Nat : \A m \in 0 .. n : Spares(s, m, f[m])}
<1>1. Len(s) \in Nat
  BY LenProperties
<1>2. ASSUME NEW n \in 0 .. Len(s),
             \A m \in 0 .. n : m # n => Spares(s, m, f[m])
      PROVE  Spares(s, n, f[n])
  <2>1. PICK g : g = Garbage(s, n)
    OBVIOUS
  <2>2. /\ g \in 0 .. 2 /\ g <= n
        /\ g # 0 => s[n] \notin Closers
        /\ g = 2 => s[n - 1] \notin Closers
    BY <2>1, GarbageIs
  <2>0. n \in Nat /\ g \in Int
    BY <1>1, <2>2
  <2>3. f[n] = IF g = 0 THEN n ELSE f[n - g]
    BY <2>1 DEF Keeps
  <2>4. CASE g = 0
    <3>1. f[n] = n
      BY <2>3, <2>4
    <3> QED
      BY <3>1, <2>0 DEF Spares
  <2>5. CASE g # 0
    <3>1. n - g \in 0 .. n /\ n - g # n /\ f[n] = f[n - g]
      BY <2>0, <2>2, <2>3, <2>5
    <3>2. Spares(s, n - g, f[n])
      BY <3>1, <1>2
    <3>3. f[n] \in 0 .. n
      <4>1. f[n] \in 0 .. n - g
        BY <3>2 DEF Spares
      <4> QED
        BY <4>1, <2>0, <2>2
    <3>4. ASSUME NEW j \in 1 .. n, s[j] \in Closers PROVE j <= f[n]
      <4>1. j # n /\ (g = 2 => j # n - 1)
        BY <2>2, <2>5, <3>4
      <4>2. j \in 1 .. n - g
        BY <4>1, <2>0, <2>2, <2>5
      <4> QED
        BY <3>2, <3>4, <4>2 DEF Spares
    <3> QED
      BY <3>3, <3>4 DEF Spares
  <2> QED
    BY <2>4, <2>5
<1>3. 0 \in T
  <2>1. Spares(s, 0, f[0])
    <3>1. \A m \in 0 .. 0 : m = 0
      OBVIOUS
    <3> QED
      BY <1>1, <1>2, <3>1
  <2> QED
    BY <2>1
<1>4. ASSUME NEW n \in 0 .. Len(s) - 1, n \in T PROVE n + 1 \in T
  <2>1. \A m \in 0 .. n + 1 : m # n + 1 => Spares(s, m, f[m])
    <3>1. \A m \in 0 .. n + 1 : m # n + 1 => m \in 0 .. n
      OBVIOUS
    <3> QED
      BY <1>4, <3>1
  <2>2. n + 1 \in 0 .. Len(s)
    BY <1>1
  <2>3. Spares(s, n + 1, f[n + 1])
    BY <1>2, <2>1, <2>2
  <2> QED
    BY <2>1, <2>3
<1>5. \A n \in 0 .. Len(s) : n \in T
  <2> HIDE DEF T
  <2> QED
    BY <1>1, <1>3, <1>4, UpTo
<1> QED
  BY <1>1, <1>5

\* The recursive function of Strip exists, and spares the closing brackets.
LEMMA StripIs ==
    ASSUME NEW s \in Seq(STRING)
    PROVE  \E k : Spares(s, Len(s), k) /\ Strip(s) = SubSeq(s, 1, k)
<1> DEFINE F(f) == [n \in 0 .. Len(s) |->
                       IF Garbage(s, n) = 0 THEN n ELSE f[n - Garbage(s, n)]]
           T == {n \in Nat : \E f : Keeps(s, n, f)}
<1>1. Len(s) \in Nat
  BY LenProperties
<1>2. \A n \in 0 .. Len(s) : n \in T
  <2>1. 0 \in T
    <3>1. Garbage(s, 0) = 0
      BY DEF Garbage
    <3>2. Keeps(s, 0, [m \in 0 .. 0 |-> 0])
      BY <3>1 DEF Keeps
    <3> QED
      BY <3>2
  <2>2. ASSUME NEW n \in 0 .. Len(s) - 1, n \in T PROVE n + 1 \in T
    <3>1. PICK f : Keeps(s, n, f)
      BY <2>2
    <3>2. PICK g : g = Garbage(s, n + 1)
      OBVIOUS
    <3>3. g \in 0 .. 2 /\ g <= n + 1
      <4>1. n + 1 \in 0 .. Len(s)
        BY <1>1
      <4> QED
        BY <3>2, <4>1, GarbageIs
    <3>4. PICK h : h = [m \in 0 .. n + 1 |->
                          IF m <= n THEN f[m] ELSE IF g = 0 THEN n + 1 ELSE f[n + 1 - g]]
      OBVIOUS
    <3>5. ASSUME NEW m \in 0 .. n + 1
          PROVE  h[m] = IF Garbage(s, m) = 0 THEN m ELSE h[m - Garbage(s, m)]
      <4>1. CASE m = n + 1
        BY <3>2, <3>3, <3>4, <4>1
      <4>2. CASE m # n + 1
        <5>1. m \in 0 .. n /\ m \in 0 .. Len(s) /\ h[m] = f[m]
          BY <1>1, <3>4, <4>2
        <5>2. PICK d : d = Garbage(s, m)
          OBVIOUS
        <5>3. d \in 0 .. 2 /\ d <= m
          BY <5>1, <5>2, GarbageIs
        <5>4. f[m] = IF d = 0 THEN m ELSE f[m - d]
          BY <3>1, <5>1, <5>2 DEF Keeps
        <5>5. h[m - d] = f[m - d]
          BY <5>1, <5>3, <3>4
        <5> QED
          BY <5>1, <5>2, <5>4, <5>5
      <4> QED
        BY <4>1, <4>2
    <3>6. Keeps(s, n + 1, h)
      BY <3>4, <3>5 DEF Keeps
    <3> QED
      BY <3>6
  <2> HIDE DEF T
  <2> QED
    BY <1>1, <2>1, <2>2, UpTo
<1>3. PICK f : Keeps(s, Len(s), f)
  BY <1>1, <1>2
<1>4. \E f1 : f1 = F(f1)
  <2>1. PICK h : h = F(f)
    OBVIOUS
  <2>2. \A n \in 0 .. Len(s) : h[n] = f[n]
    BY <1>3, <2>1 DEF Keeps
  <2>3. h = F(h)
    <3>1. ASSUME NEW n \in 0 .. Len(s) PROVE F(h)[n] = h[n]
      <4>1. PICK d : d = Garbage(s, n)
        OBVIOUS
      <4>2. d \in 0 .. 2 /\ d <= n
        BY <4>1, GarbageIs
      <4>3. h[n - d] = f[n - d]
        BY <1>1, <2>2, <4>2
      <4>4. h[n] = IF d = 0 THEN n ELSE f[n - d]
        BY <2>1, <4>1
      <4> QED
        BY <4>1, <4>3, <4>4
    <3>2. h = [n \in 0 .. Len(s) |-> h[n]]
      BY <2>1
    <3> QED
      BY <3>1, <3>2
  <2> QED
    BY <2>3
<1>5. PICK g : g = (CHOOSE f1 : f1 = F(f1)) /\ g = F(g)
  <2> HIDE DEF F
  <2> QED
    BY <1>4
<1>6. Keeps(s, Len(s), g)
  BY <1>5 DEF Keeps
<1>7. Strip(s) = SubSeq(s, 1, g[Len(s)])
  BY <1>5 DEF Strip
<1> QED
  BY <1>6, <1>7, KeepsSpares

\* So does StripGarbage: ticks are no brackets.
LEMMA StripGarbageIs ==
    ASSUME NEW s \in Seq(STRING)
    PROVE  \E k : Spares(s, Len(s), k) /\ StripGarbage(s) = SubSeq(s, 1, k)
<1> DEFINE N == {0} \cup {i \in DOMAIN s : i \notin Where(s, {"fence"})}
           n == Greatest(N)
           p == SubSeq(s, 1, n)
<1>1. Len(s) \in Nat /\ DOMAIN s = 1 .. Len(s)
  BY LenProperties
<1>2. n \in N /\ \A j \in N : j <= n
  <2>1. N \in SUBSET (0 .. Len(s)) /\ N # {}
    BY <1>1
  <2> HIDE DEF N
  <2> QED
    BY <2>1, <1>1, GreatestOf
<1>3. n \in 0 .. Len(s)
  BY <1>1, <1>2
<1>4. p \in Seq(STRING) /\ Len(p) = n /\ Begins(p, s)
  <2> HIDE DEF n
  <2> QED
    BY <1>3, Heads
<1>5. PICK k : Spares(p, n, k) /\ Strip(p) = SubSeq(p, 1, k)
  <2> HIDE DEF p
  <2> QED
    BY <1>4, StripIs
<1>6. k \in 0 .. n /\ k \in 0 .. Len(s)
  <2>1. k \in 0 .. n
    BY <1>5 DEF Spares
  <2> HIDE DEF n
  <2> QED
    BY <2>1, <1>3, <1>1
<1>7. SubSeq(p, 1, k) = SubSeq(s, 1, k)
  <2>1. PICK q : q = SubSeq(p, 1, k)
    OBVIOUS
  <2> HIDE DEF p, n
  <2>2. q \in Seq(STRING) /\ Len(q) = k /\ Begins(q, p)
    BY <2>1, <1>4, <1>6, Heads
  <2>3. Begins(q, s)
    BY <1>4, <1>6, <2>2 DEF Begins
  <2>4. q = SubSeq(s, 1, Len(q))
    BY <2>2, <2>3, HeadIs
  <2> QED
    BY <2>1, <2>2, <2>4
<1>8. ASSUME NEW j \in 1 .. Len(s), s[j] \in Closers PROVE j <= k
  <2>1. j \in N
    BY <1>1, <1>8, OtherTokens DEF Where
  <2>2. j \in 1 .. n
    BY <2>1, <1>2, <1>3, <1>1
  <2>3. p[j] = s[j]
    BY <1>4, <2>2 DEF Begins
  <2> QED
    BY <1>5, <1>8, <2>2, <2>3 DEF Spares
<1>9. Spares(s, Len(s), k)
  BY <1>6, <1>8 DEF Spares
<1>10. StripGarbage(s) = Strip(p)
  BY DEF StripGarbage
<1> HIDE DEF p, n
<1> QED
  BY <1>5, <1>7, <1>9, <1>10

\* What is left, in terms of beginnings.
LEMMA StripKeeps ==
    ASSUME NEW s \in Seq(STRING)
    PROVE  LET p == StripGarbage(s)
           IN  /\ p \in Seq(STRING) /\ Begins(p, s)
               /\ \A j \in 1 .. Len(s) : s[j] \in Closers => j <= Len(p)
<1>1. PICK k : Spares(s, Len(s), k) /\ StripGarbage(s) = SubSeq(s, 1, k)
  BY StripGarbageIs
<1>2. k \in 0 .. Len(s)
  BY <1>1 DEF Spares
<1>3. SubSeq(s, 1, k) \in Seq(STRING) /\ Len(SubSeq(s, 1, k)) = k /\ Begins(SubSeq(s, 1, k), s)
  BY <1>2, Heads
<1> QED
  BY <1>1, <1>3 DEF Spares

-----------------------------------------------------------------------------
(* Values and their repairs.                                               *)

\* A value has a first token.
LEMMA WholeType ==
    ASSUME Grammar, NEW v \in Json
    PROVE  v \in Seq(STRING) /\ v # <<>> /\ Len(v) \in Nat /\ 1 <= Len(v)
<1>1. v \in Seq(STRING) /\ v # <<>>
  BY DEF Grammar
<1> QED
  BY <1>1, EmptySeq

\* No object or list is the beginning of another value.
LEMMA OnlyItself ==
    ASSUME Grammar, NEW v \in Json, NEW w \in Json, Whole(v) \/ Whole(w), Begins(w, v)
    PROVE  w = v
<1>1. /\ v \in Seq(STRING) /\ w \in Seq(STRING) /\ w # <<>>
      /\ Len(v) \in Nat /\ Len(w) \in Nat /\ 1 <= Len(w) /\ Len(w) <= Len(v)
  BY WholeType DEF Begins
<1>2. v[1] = w[1]
  BY <1>1 DEF Begins
<1>3. Whole(v) /\ Whole(w)
  BY <1>2 DEF Whole
<1>4. Scan(w, 1)[Len(w) + 1] = Scan(v, 1)[Len(w) + 1]
  BY <1>1, SameScan
<1>5. Scan(w, 1)[Len(w) + 1].depth = 0
  <2>1. Len(w) \in DOMAIN w
    BY <1>1, LenProperties
  <2> QED
    BY <1>3, <2>1 DEF Grammar
<1>6. Len(w) = Len(v)
  <2>1. Len(w) \in DOMAIN v
    BY <1>1, LenProperties
  <2> QED
    BY <1>3, <1>4, <1>5, <2>1 DEF Grammar
<1> QED
  BY <1>1, <1>6, SeqEqual DEF Begins

\* Balanced finds the object or the list that a text starts with.
LEMMA SlicedOut ==
    ASSUME Grammar, NEW v \in Json, Whole(v), NEW s \in Seq(STRING), Begins(v, s)
    PROVE  Balanced(s) = v
<1>1. /\ v \in Seq(STRING) /\ v # <<>> /\ Len(v) \in Nat /\ 1 <= Len(v)
      /\ Len(s) \in Nat /\ Len(v) <= Len(s) /\ DOMAIN s = 1 .. Len(s)
      /\ DOMAIN v = 1 .. Len(v)
  BY WholeType, LenProperties DEF Begins
<1>2. 1 \in Where(s, Openers) /\ \A i \in Where(s, Openers) : i \in Int /\ 1 <= i
  <2>1. s[1] = v[1] /\ v[1] \in Openers
    BY <1>1 DEF Begins, Whole
  <2> QED
    BY <1>1, <2>1 DEF Where
<1>3. Least(Where(s, Openers)) = 1
  <2>1. Where(s, Openers) \in SUBSET Int
    BY <1>2
  <2> QED
    BY <1>2, <2>1, LeastIs
<1> DEFINE ends == {i \in 1 .. Len(s) : Scan(s, 1)[i + 1].depth = 0}
<1>4. ASSUME NEW i \in 1 .. Len(v) PROVE Scan(s, 1)[i + 1].depth = 0 <=> i = Len(v)
  <2>1. Scan(v, 1)[i + 1] = Scan(s, 1)[i + 1]
    BY <1>1, SameScan
  <2>2. Scan(v, 1)[i + 1].depth = 0 <=> i = Len(v)
    BY <1>1 DEF Grammar
  <2> QED
    BY <2>1, <2>2
<1>5. Len(v) \in ends /\ \A i \in ends : Len(v) <= i
  <2>1. Len(v) \in 1 .. Len(v) /\ Len(v) \in 1 .. Len(s)
    BY <1>1
  <2>2. ASSUME NEW i \in ends PROVE Len(v) <= i
    <3>1. i \in 1 .. Len(s) /\ Scan(s, 1)[i + 1].depth = 0
      OBVIOUS
    <3>2. i \in 1 .. Len(v) => i = Len(v)
      BY <3>1, <1>4
    <3>3. i \in Int /\ 1 <= i /\ Len(v) \in Int
      BY <1>1, <3>1
    <3> HIDE DEF ends
    <3> QED
      BY <3>2, <3>3
  <2> QED
    BY <2>1, <2>2, <1>4
<1>6. Least(ends) = Len(v)
  <2>1. ends \in SUBSET Int
    BY <1>1
  <2> HIDE DEF ends
  <2> QED
    BY <1>5, <2>1, LeastIs
<1>7. Balanced(s) = SubSeq(s, 1, Len(v))
  <2>1. Balanced(s) = IF ends = {} THEN <<>> ELSE SubSeq(s, 1, Least(ends))
    BY <1>2, <1>3 DEF Balanced
  <2> HIDE DEF ends
  <2> QED
    BY <2>1, <1>5, <1>6
<1> QED
  BY <1>1, <1>7, HeadIs

\* Balanced finds nothing in an object or a list that breaks off.
LEMMA NeverClosed ==
    ASSUME Grammar, NEW v \in Json, Whole(v), NEW s \in Seq(STRING), s # <<>>,
           Begins(s, v), s # v
    PROVE  Balanced(s) = <<>>
<1>1. /\ v \in Seq(STRING) /\ Len(v) \in Nat /\ DOMAIN v = 1 .. Len(v)
      /\ Len(s) \in Nat /\ 1 <= Len(s) /\ Len(s) <= Len(v) /\ DOMAIN s = 1 .. Len(s)
  BY WholeType, EmptySeq, LenProperties DEF Begins
<1>2. Len(s) # Len(v)
  BY <1>1, SeqEqual DEF Begins
<1>3. 1 \in Where(s, Openers) /\ \A i \in Where(s, Openers) : i \in Int /\ 1 <= i
  <2>1. s[1] = v[1] /\ v[1] \in Openers
    BY <1>1 DEF Begins, Whole
  <2> QED
    BY <1>1, <2>1 DEF Where
<1>4. Least(Where(s, Openers)) = 1
  <2>1. Where(s, Openers) \in SUBSET Int
    BY <1>3
  <2> QED
    BY <1>3, <2>1, LeastIs
<1>5. ASSUME NEW i \in 1 .. Len(s) PROVE Scan(s, 1)[i + 1].depth # 0
  <2>0. i \in 0 .. Len(s) /\ i \in DOMAIN v /\ i # Len(v)
    <3>1. i \in Int /\ 1 <= i /\ i <= Len(s)
      BY <1>1
    <3>2. Len(s) \in Int /\ Len(v) \in Int /\ Len(s) <= Len(v)
      BY <1>1
    <3>3. i \in 0 .. Len(s) /\ i \in 1 .. Len(v) /\ i # Len(v)
      BY <1>2, <3>1, <3>2
    <3> QED
      BY <1>1, <3>3
  <2>1. Scan(s, 1)[i + 1] = Scan(v, 1)[i + 1]
    BY <1>1, <2>0, SameScan
  <2>2. Scan(v, 1)[i + 1].depth = 0 <=> i = Len(v)
    BY <2>0 DEF Grammar
  <2> QED
    BY <2>0, <2>1, <2>2
<1> QED
  BY <1>3, <1>4, <1>5 DEF Balanced

\* What Balanced finds is the beginning of what starts with a bracket.
LEMMA BalancedHead ==
    ASSUME NEW s \in Seq(STRING), s # <<>>, s[1] \in Openers
    PROVE  Balanced(s) \in Seq(STRING) /\ Begins(Balanced(s), s)
<1>1. Len(s) \in Nat /\ 1 <= Len(s) /\ DOMAIN s = 1 .. Len(s)
  BY EmptySeq, LenProperties
<1>2. 1 \in Where(s, Openers) /\ \A i \in Where(s, Openers) : i \in Int /\ 1 <= i
  BY <1>1 DEF Where
<1>3. Least(Where(s, Openers)) = 1
  <2>1. Where(s, Openers) \in SUBSET Int
    BY <1>2
  <2> QED
    BY <1>2, <2>1, LeastIs
<1> DEFINE ends == {i \in 1 .. Len(s) : Scan(s, 1)[i + 1].depth = 0}
<1>4. Balanced(s) = IF ends = {} THEN <<>> ELSE SubSeq(s, 1, Least(ends))
  BY <1>2, <1>3 DEF Balanced
<1>5. ends \in SUBSET (0 .. Len(s))
  BY <1>1
<1> HIDE DEF ends
<1>6. CASE ends = {}
  <2>1. <<>> \in Seq(STRING) /\ Len(<<>>) = 0
    BY EmptySeq
  <2> QED
    BY <1>1, <1>4, <1>6, <2>1 DEF Begins
<1>7. CASE ends # {}
  <2>1. ends \in SUBSET Nat
    BY <1>1, <1>5
  <2>2. Least(ends) \in ends
    BY <1>7, <2>1, LeastOf DEF Least
  <2> QED
    BY <1>4, <1>5, <1>7, <2>2, Heads
<1> QED
  BY <1>6, <1>7

\* The attempts of Repair, in their order.
LEMMA Attempts ==
    ASSUME NEW s
    PROVE  LET stripped == StripGarbage(s)
               balanced == Balanced(s)
               both == StripGarbage(balanced)
           IN  /\ s \in Json => Repair(s) = s
               /\ s \notin Json /\ stripped \in Json => Repair(s) = stripped
               /\ {s, stripped} \cap Json = {} /\ balanced \in Json => Repair(s) = balanced
               /\ {s, stripped, balanced} \cap Json = {} /\ both \in Json => Repair(s) = both
               /\ {s, stripped, balanced, both} \cap Json = {} => Repair(s) = Error
<1> DEFINE attempts == <<s, StripGarbage(s), Balanced(s), StripGarbage(Balanced(s))>>
           good == {i \in 1 .. 4 : attempts[i] \in Json}
<1>1. Repair(s) = IF good = {} THEN Error ELSE attempts[Least(good)]
  BY DEF Repair
<1>2. good \in SUBSET Int
  OBVIOUS
<1>3. ASSUME NEW i \in good, \A j \in good : i <= j PROVE Repair(s) = attempts[i]
  <2> HIDE DEF good, attempts
  <2> QED
    BY <1>1, <1>2, <1>3, LeastIs
<1>4. CASE attempts[1] \in Json
  <2>1. 1 \in good /\ \A j \in good : 1 <= j
    BY <1>4
  <2> QED
    BY <1>3, <1>4, <2>1
<1>5. CASE attempts[1] \notin Json /\ attempts[2] \in Json
  <2>1. 2 \in good /\ \A j \in good : 2 <= j
    BY <1>5
  <2> QED
    BY <1>3, <1>5, <2>1
<1>6. CASE attempts[1] \notin Json /\ attempts[2] \notin Json /\ attempts[3] \in Json
  <2>1. 3 \in good /\ \A j \in good : 3 <= j
    BY <1>6
  <2> QED
    BY <1>3, <1>6, <2>1
<1>7. CASE /\ attempts[1] \notin Json /\ attempts[2] \notin Json
           /\ attempts[3] \notin Json /\ attempts[4] \in Json
  <2>1. 4 \in good /\ \A j \in good : 4 <= j
    BY <1>7
  <2> QED
    BY <1>3, <1>7, <2>1
<1>8. CASE /\ attempts[1] \notin Json /\ attempts[2] \notin Json
           /\ attempts[3] \notin Json /\ attempts[4] \notin Json
  <2>1. good = {}
    BY <1>8
  <2> QED
    BY <1>1, <1>8, <2>1
<1> QED
  BY <1>4, <1>5, <1>6, <1>7, <1>8

\* An object or a list is read from what starts with it.
LEMMA ReadFromHead ==
    ASSUME Grammar, NEW v \in Json, Whole(v), NEW s \in Seq(STRING), Begins(v, s)
    PROVE  Repair(s) = v
<1>1. v \in Seq(STRING) /\ Len(v) \in Nat /\ 1 <= Len(v) /\ Len(s) \in Nat /\ Len(v) <= Len(s)
  BY WholeType, LenProperties DEF Begins
<1>2. PICK p : p = StripGarbage(s)
  OBVIOUS
<1>3. p \in Seq(STRING) /\ Begins(p, s) /\ Len(v) <= Len(p)
  <2>1. Len(v) \in 1 .. Len(s) /\ s[Len(v)] \in Closers
    <3>1. s[Len(v)] = v[Len(v)] /\ v[Len(v)] = Closer(v[1]) /\ v[1] \in Openers
      BY <1>1 DEF Begins, Grammar, Whole
    <3> QED
      BY <1>1, <3>1, OtherTokens
  <2> QED
    BY <2>1, <1>2, StripKeeps
<1>4. Begins(v, p)
  BY <1>1, <1>3 DEF Begins
<1>5. s \in Json => s = v
  BY OnlyItself
<1>6. p \in Json => p = v
  BY <1>4, OnlyItself
<1>7. Balanced(s) = v
  BY SlicedOut
<1> QED
  BY <1>2, <1>5, <1>6, <1>7, Attempts

\* From what starts with a bracket, nothing else is read than its beginning.
LEMMA ReadIsHead ==
    ASSUME NEW s \in Seq(STRING), s # <<>>, s[1] \in Openers, Repair(s) # Error
    PROVE  Repair(s) \in Json /\ Repair(s) \in Seq(STRING) /\ Begins(Repair(s), s)
<1>1. PICK p : p = StripGarbage(s)
  OBVIOUS
<1>2. PICK b : b = Balanced(s)
  OBVIOUS
<1>3. PICK q : q = StripGarbage(b)
  OBVIOUS
<1>4. p \in Seq(STRING) /\ Begins(p, s)
  BY <1>1, StripKeeps
<1>5. b \in Seq(STRING) /\ Begins(b, s)
  BY <1>2, BalancedHead
<1>6. q \in Seq(STRING) /\ Begins(q, b)
  BY <1>3, <1>5, StripKeeps
<1>7. Begins(q, s) /\ Begins(s, s)
  <2>1. Len(q) \in Nat /\ Len(b) \in Nat /\ Len(s) \in Nat
    BY <1>5, <1>6, LenProperties
  <2> QED
    BY <2>1, <1>5, <1>6 DEF Begins
<1>8. Repair(s) \in {s, p, b, q} \cap Json
  BY <1>1, <1>2, <1>3, Attempts
<1> QED
  BY <1>4, <1>5, <1>6, <1>7, <1>8

\* Nothing is read from an object or a list that breaks off.
LEMMA BrokenUnread ==
    ASSUME Grammar, NEW v \in Json, Whole(v), NEW s \in Seq(STRING), s # <<>>,
           Begins(s, v), s # v
    PROVE  Repair(s) = Error
<1>1. /\ v \in Seq(STRING) /\ Len(v) \in Nat
      /\ Len(s) \in Nat /\ 1 <= Len(s) /\ Len(s) <= Len(v)
  BY WholeType, EmptySeq, LenProperties DEF Begins
<1>2. s[1] \in Openers
  BY <1>1 DEF Begins, Whole
<1>3. SUFFICES ASSUME Repair(s) # Error PROVE FALSE
  OBVIOUS
<1>4. PICK w : w = Repair(s) /\ w \in Json /\ w \in Seq(STRING) /\ Begins(w, s)
  BY <1>2, <1>3, ReadIsHead
<1>5. Len(w) \in Nat
  BY <1>4, LenProperties
<1>6. Begins(w, v)
  BY <1>1, <1>4, <1>5 DEF Begins
<1>7. w = v
  BY <1>4, <1>6, OnlyItself
<1>8. Len(s) = Len(v)
  BY <1>1, <1>4, <1>7 DEF Begins
<1> QED
  BY <1>1, <1>8, SeqEqual DEF Begins

-----------------------------------------------------------------------------
(* What is read of a reply.                                                *)

\* The three ways of Extract.
LEMMA ExtractIs ==
    ASSUME NEW s, s # <<>>
    PROVE  /\ Cardinality(Where(s, {"fence"})) >= 2 => Extract(s) = Repair(Fenced(s))
           /\ ~(Cardinality(Where(s, {"fence"})) >= 2) /\ Starts(s) # {}
                => Extract(s) = Repair(Bracketed(s))
           /\ ~(Cardinality(Where(s, {"fence"})) >= 2) /\ Starts(s) = {}
                => Extract(s) = Repair(s)
BY Zenon DEF Extract

\* A part of a reply, and what it starts with.
LEMMA Part ==
    ASSUME NEW s \in Seq(STRING), NEW n \in 0 .. Len(s), NEW m \in n .. Len(s)
    PROVE  LET p == SubSeq(s, n + 1, m)
           IN  /\ p \in Seq(STRING) /\ Len(p) = m - n
               /\ \A k \in 1 .. m - n : p[k] = s[n + k]
<1>1. Len(s) \in Nat /\ \A i \in 1 .. Len(s) : s[i] \in STRING
  BY LenProperties
<1>2. n \in Nat /\ m \in Nat /\ n <= m /\ m <= Len(s)
  BY <1>1
<1>3. \A i \in n + 1 .. m : s[i] \in STRING
  BY <1>1, <1>2
<1>4. /\ SubSeq(s, n + 1, m) \in Seq(STRING)
      /\ Len(SubSeq(s, n + 1, m)) = IF n + 1 <= m THEN m - (n + 1) + 1 ELSE 0
      /\ \A k \in 1 .. m - (n + 1) + 1 : SubSeq(s, n + 1, m)[k] = s[(n + 1) + k - 1]
  <2>1. n + 1 \in Int /\ m \in Int
    BY <1>2
  <2> QED
    BY <2>1, <1>3, SubSeqProperties
<1> HIDE DEF SubSeq
<1>5. m - (n + 1) + 1 = m - n /\ \A k \in 1 .. m - n : (n + 1) + k - 1 = n + k
  BY <1>2
<1>6. (IF n + 1 <= m THEN m - (n + 1) + 1 ELSE 0) = m - n
  BY <1>2
<1> QED
  BY <1>4, <1>5, <1>6

\* HasAt, token by token.
LEMMA AtIs ==
    ASSUME NEW s \in Seq(STRING), NEW v \in Seq(STRING), NEW n \in Nat
    PROVE  HasAt(s, v, n) <=>
              n + Len(v) <= Len(s) /\ \A k \in 1 .. Len(v) : s[n + k] = v[k]
<1>1. Len(s) \in Nat /\ Len(v) \in Nat
  BY LenProperties
<1>2. SUFFICES ASSUME n + Len(v) <= Len(s)
               PROVE  SubSeq(s, n + 1, n + Len(v)) = v
                        <=> \A k \in 1 .. Len(v) : s[n + k] = v[k]
  BY DEF HasAt
<1>3. PICK p : p = SubSeq(s, n + 1, n + Len(v))
  OBVIOUS
<1>4. p \in Seq(STRING) /\ Len(p) = Len(v) /\ \A k \in 1 .. Len(v) : p[k] = s[n + k]
  <2>1. /\ n \in 0 .. Len(s) /\ n + Len(v) \in n .. Len(s)
        /\ (n + Len(v)) - n = Len(v)
    BY <1>1, <1>2
  <2> QED
    BY <1>3, <2>1, Part
<1> QED
  BY <1>3, <1>4, SeqEqual

\* Where a value stands, a part that starts there and goes on at least as far
\* starts with it.
LEMMA PartWith ==
    ASSUME NEW s \in Seq(STRING), NEW v \in Seq(STRING), NEW n \in Nat, HasAt(s, v, n),
           NEW m \in n + Len(v) .. Len(s)
    PROVE  SubSeq(s, n + 1, m) \in Seq(STRING) /\ Begins(v, SubSeq(s, n + 1, m))
<1>1. Len(s) \in Nat /\ Len(v) \in Nat
  BY LenProperties
<1>2. n + Len(v) <= Len(s) /\ \A k \in 1 .. Len(v) : s[n + k] = v[k]
  BY AtIs
<1>3. n \in 0 .. Len(s) /\ m \in n .. Len(s) /\ Len(v) <= m - n /\ m \in Int
  BY <1>1, <1>2
<1>4. PICK p : p = SubSeq(s, n + 1, m)
  OBVIOUS
<1>5. p \in Seq(STRING) /\ Len(p) = m - n /\ \A k \in 1 .. m - n : p[k] = s[n + k]
  BY <1>3, <1>4, Part
<1>6. \A k \in 1 .. Len(v) : k \in 1 .. m - n
  BY <1>1, <1>3
<1> QED
  BY <1>2, <1>3, <1>4, <1>5, <1>6 DEF Begins

\* Without a fence there are not two of them.
LEMMA NoFence ==
    ASSUME NEW s, Where(s, {"fence"}) = {}
    PROVE  ~(Cardinality(Where(s, {"fence"})) >= 2)
BY FS_EmptySet

\* With prose before it, the value is read to which the first bracket belongs.
LEMMA PlainRead ==
    ASSUME Grammar, NEW s \in Seq(STRING), NEW v \in Json, Whole(v), NEW n \in Nat,
           HasAt(s, v, n), Where(s, {"fence"}) = {},
           \A i \in 1 .. n : s[i] \in {"word", "number", "comma"}
    PROVE  Extract(s) = v
<1>1. /\ v \in Seq(STRING) /\ Len(v) \in Nat /\ 1 <= Len(v) /\ Len(s) \in Nat
      /\ DOMAIN s = 1 .. Len(s)
  BY WholeType, LenProperties
<1>2. n + Len(v) <= Len(s) /\ \A k \in 1 .. Len(v) : s[n + k] = v[k]
  BY <1>1, AtIs
<1>3. /\ n + 1 \in 1 .. Len(s) /\ s[n + 1] = v[1] /\ s[n + 1] \in Openers
      /\ n + Len(v) \in n + 1 .. Len(s) /\ s[n + Len(v)] = Closer(s[n + 1])
  <2>1. v[1] \in Openers /\ v[Len(v)] = Closer(v[1])
    BY DEF Whole, Grammar
  <2>2. 1 \in 1 .. Len(v) /\ Len(v) \in 1 .. Len(v)
    BY <1>1
  <2>3. s[n + 1] = v[1] /\ s[n + Len(v)] = v[Len(v)]
    BY <1>2, <2>2
  <2>4. n + 1 \in 1 .. Len(s) /\ n + Len(v) \in n + 1 .. Len(s)
    BY <1>1, <1>2
  <2> QED
    BY <2>1, <2>3, <2>4
<1>4. n + 1 \in Starts(s) /\ \A i \in Starts(s) : i \in Int /\ n + 1 <= i
  <2>1. n + 1 \in Starts(s)
    BY <1>1, <1>3 DEF Starts, Where
  <2>2. ASSUME NEW i \in Starts(s) PROVE i \in Int /\ n + 1 <= i
    <3>1. i \in 1 .. Len(s) /\ s[i] \in Openers
      BY <1>1 DEF Starts, Where
    <3>2. i \notin 1 .. n
      BY <3>1, OtherTokens
    <3> QED
      BY <3>1, <3>2
  <2> QED
    BY <2>1, <2>2
<1>5. Least(Starts(s)) = n + 1
  <2>1. Starts(s) \in SUBSET Int
    BY <1>4
  <2> QED
    BY <1>4, <2>1, LeastIs
<1> DEFINE W == Where(s, {Closer(s[n + 1])})
<1>6. Greatest(W) \in n + Len(v) .. Len(s)
  <2>1. W \in SUBSET (0 .. Len(s)) /\ n + Len(v) \in W
    BY <1>1, <1>3 DEF Where
  <2> HIDE DEF W
  <2>2. Greatest(W) \in W /\ n + Len(v) <= Greatest(W)
    BY <1>1, <2>1, GreatestOf
  <2>3. Greatest(W) \in 0 .. Len(s)
    BY <2>1, <2>2
  <2>4. n + Len(v) \in Int /\ Len(s) \in Int
    BY <1>1
  <2> QED
    BY <2>2, <2>3, <2>4
<1>7. Bracketed(s) = SubSeq(s, n + 1, Greatest(W))
  BY <1>5 DEF Bracketed
<1> HIDE DEF W
<1>8. Bracketed(s) \in Seq(STRING) /\ Begins(v, Bracketed(s))
  BY <1>1, <1>6, <1>7, PartWith
<1>9. Repair(Bracketed(s)) = v
  BY <1>8, ReadFromHead
<1>10. s # <<>>
  BY <1>1, <1>3, EmptySeq
<1> QED
  BY <1>4, <1>9, <1>10, NoFence, ExtractIs

\* In a fenced block, the value at its start is read.
LEMMA FencedRead ==
    ASSUME Grammar, NEW s \in Seq(STRING), NEW v \in Json, Whole(v), NEW n \in Nat,
           HasAt(s, v, n), Where(s, {"fence"}) \cap 1 .. n + Len(v) = {n},
           Where(s, {"fence"}) # {n}
    PROVE  Extract(s) = v
<1> DEFINE F == Where(s, {"fence"})
<1>1. /\ v \in Seq(STRING) /\ Len(v) \in Nat /\ 1 <= Len(v) /\ Len(s) \in Nat
      /\ F \in SUBSET (1 .. Len(s))
  BY WholeType, LenProperties DEF Where
<1>2. n + Len(v) <= Len(s)
  BY <1>1, AtIs
<1>3. F \cap 1 .. n + Len(v) = {n} /\ F # {n}
  OBVIOUS
<1> HIDE DEF F
<1>4. n \in F /\ n \in Nat /\ \A f \in F \ {n} : n + Len(v) < f /\ f <= Len(s) /\ f \in Nat
  BY <1>1, <1>3
<1>5. Least(F) = n
  <2>1. F \in SUBSET Int /\ \A f \in F : n <= f
    BY <1>1, <1>4
  <2> QED
    BY <1>4, <2>1, LeastIs
<1>6. PICK f : f = Least(F \ {n}) /\ f \in F \ {n}
  <2>1. F \ {n} \in SUBSET Nat /\ F \ {n} # {}
    BY <1>3, <1>4
  <2> QED
    BY <2>1, LeastOf DEF Least
<1>7. f \in Int /\ f - 1 \in n + Len(v) .. Len(s)
  BY <1>1, <1>2, <1>4, <1>6
<1>8. Fenced(s) = SubSeq(s, n + 1, f - 1)
  BY <1>5, <1>6 DEF Fenced, F
<1>9. Repair(Fenced(s)) = v
  <2>1. Fenced(s) \in Seq(STRING) /\ Begins(v, Fenced(s))
    BY <1>1, <1>7, <1>8, PartWith
  <2> QED
    BY <2>1, ReadFromHead
<1>10. Cardinality(F) >= 2
  <2>1. IsFiniteSet(1 .. Len(s)) /\ IsFiniteSet(F)
    <3>1. IsFiniteSet(1 .. Len(s))
      BY <1>1, FS_Interval
    <3> QED
      BY <1>1, <3>1, FS_Subset
  <2>2. Cardinality(F) \in Nat
    BY <2>1, FS_CardinalityType
  <2>3. Cardinality(F) # 0
    BY <2>1, <1>4, FS_EmptySet
  <2>4. Cardinality(F) # 1
    <3>1. \A x : F # {x}
      BY <1>4, <1>6
    <3> QED
      BY <2>1, <3>1, FS_Singleton
  <2> QED
    BY <2>2, <2>3, <2>4
<1>11. s # <<>>
  BY <1>1, <1>2, EmptySeq
<1> QED
  BY <1>9, <1>10, <1>11, ExtractIs DEF F

-----------------------------------------------------------------------------
(* A list that breaks off.                                                 *)

\* With one and other for "[" and "{".
LEMMA BrokenRead ==
    ASSUME Grammar, NEW one, NEW other, Openers = {one, other}, one # other,
           NEW list \in Json, list[1] = one,
           NEW s \in Seq(STRING), s # <<>>, HasAt(list, s, 0), s # list,
           Where(list, {"fence"}) = {},
           list[2] = other \/ Where(list, {other}) = {},
           Extract(s) # Error
    PROVE  HasAt(s, Extract(s), 1)
<1>1. /\ list \in Seq(STRING) /\ Len(list) \in Nat /\ DOMAIN list = 1 .. Len(list)
      /\ Len(s) \in Nat /\ 1 <= Len(s) /\ DOMAIN s = 1 .. Len(s)
  BY WholeType, EmptySeq, LenProperties
<1>2. Len(s) <= Len(list) /\ \A k \in 1 .. Len(s) : s[k] = list[k]
  <2>1. 0 + Len(s) <= Len(list) /\ \A k \in 1 .. Len(s) : list[0 + k] = s[k]
    BY <1>1, AtIs
  <2>2. \A k \in 1 .. Len(s) : 0 + k = k
    OBVIOUS
  <2> QED
    BY <1>1, <2>1, <2>2
<1>3. Whole(list) /\ s[1] = one
  BY <1>1, <1>2 DEF Whole
<1>4. Begins(s, list)
  BY <1>2 DEF Begins
<1>5. Where(s, {"fence"}) = {}
  BY <1>1, <1>2 DEF Where
<1>6. Starts(s) # {}
  <2>1. Repair(s) = Error
    BY <1>3, <1>4, BrokenUnread
  <2> QED
    BY <2>1, <1>5, NoFence, ExtractIs
<1>7. Extract(s) = Repair(Bracketed(s))
  BY <1>5, <1>6, NoFence, ExtractIs
<1>8. ASSUME NEW i \in Starts(s)
      PROVE  /\ i \in 1 .. Len(s) /\ s[i] \in Openers
             /\ \E j \in i .. Len(s) : s[j] = Closer(s[i])
  BY <1>1 DEF Starts, Where
<1>9. PICK start : start = Least(Starts(s)) /\ start \in Starts(s)
                   /\ \A i \in Starts(s) : start <= i
  <2>1. Starts(s) \in SUBSET Nat
    BY <1>8
  <2> QED
    BY <1>6, <2>1, LeastOf DEF Least
<1>10. start \in 1 .. Len(s) /\ s[start] \in Openers
  BY <1>8, <1>9
<1>11. PICK last \in start .. Len(s) : s[last] = Closer(s[start])
  BY <1>8, <1>9
<1>12. CASE s[start] = one
  <2>1. start = 1
    <3>1. 1 \in Starts(s)
      <4>1. 1 \in 1 .. Len(s) /\ s[1] \in Openers /\ last \in 1 .. Len(s)
            /\ s[last] = Closer(s[1])
        BY <1>1, <1>3, <1>10, <1>11, <1>12
      <4> QED
        BY <1>1, <4>1 DEF Starts, Where
    <3> QED
      BY <1>9, <1>10, <3>1
  <2>2. PICK end : end = Greatest(Where(s, {Closer(s[start])})) /\ end \in 1 .. Len(s)
    <3> DEFINE W == Where(s, {Closer(s[start])})
    <3>1. W \in SUBSET (0 .. Len(s)) /\ W # {} /\ W \in SUBSET (1 .. Len(s))
      <4>1. last \in 1 .. Len(s)
        BY <1>10, <1>11
      <4> QED
        BY <4>1, <1>1, <1>11 DEF Where
    <3> HIDE DEF W
    <3>2. Greatest(W) \in W
      BY <1>1, <3>1, GreatestOf
    <3>3. Greatest(W) \in 1 .. Len(s)
      BY <3>1, <3>2
    <3> QED
      BY <3>3 DEF W
  <2>3. PICK p : p = SubSeq(s, 1, end)
    OBVIOUS
  <2>4. p \in Seq(STRING) /\ Len(p) = end /\ Begins(p, s)
    <3>1. end \in 0 .. Len(s)
      BY <2>2
    <3> QED
      BY <2>3, <3>1, Heads
  <2>5. Begins(p, list) /\ p # <<>> /\ p # list
    <3>0. end \in Int /\ 1 <= end /\ end <= Len(s) /\ Len(p) = end
      BY <1>1, <2>2, <2>4
    <3>1. Begins(p, list) /\ p # <<>>
      <4>1. Len(p) <= Len(list) /\ Len(p) # 0
        BY <1>1, <1>2, <3>0
      <4>2. ASSUME NEW k \in 1 .. Len(p) PROVE p[k] = list[k]
        <5>1. k \in 1 .. Len(s)
          BY <1>1, <3>0
        <5> QED
          BY <1>2, <2>4, <5>1 DEF Begins
      <4> QED
        BY <4>1, <4>2, EmptySeq DEF Begins
    <3>2. ASSUME p = list PROVE FALSE
      <4>1. Len(s) = Len(list)
        <5>1. Len(list) <= Len(s) /\ Len(s) <= Len(list) /\ Len(s) \in Int /\ Len(list) \in Int
          BY <1>1, <1>2, <3>0, <3>2
        <5> QED
          BY <5>1
      <4> QED
        BY <1>1, <1>2, <4>1, SeqEqual
    <3> QED
      BY <3>1, <3>2
  <2>6. Repair(p) = Error
    BY <1>3, <2>4, <2>5, BrokenUnread
  <2>7. Bracketed(s) = p
    BY <1>9, <2>1, <2>2, <2>3 DEF Bracketed
  <2> QED
    BY <1>7, <2>6, <2>7
<1>13. CASE s[start] = other
  <2>1. list[2] = other
    <3>1. start \in 1 .. Len(list) /\ list[start] = other
      BY <1>1, <1>2, <1>10, <1>13
    <3>2. start \in Where(list, {other})
      BY <1>1, <3>1 DEF Where
    <3> QED
      BY <3>2
  <2>2. start # 1
    BY <1>3, <1>13
  <2>3. 2 \in 1 .. Len(s) /\ s[2] = other
    <3>1. 2 \in 1 .. Len(s)
      BY <1>1, <1>10, <2>2
    <3> QED
      BY <1>2, <2>1, <3>1
  <2>4. start = 2
    <3>1. last \in 2 .. Len(s) /\ s[last] = Closer(s[2])
      BY <1>1, <1>10, <1>11, <1>13, <2>2, <2>3
    <3>2. 2 \in Starts(s)
      BY <1>1, <2>3, <3>1 DEF Starts, Where
    <3> QED
      BY <1>9, <1>10, <2>2, <3>2
  <2>5. PICK end : end = Greatest(Where(s, {Closer(s[start])})) /\ end \in 2 .. Len(s)
    <3> DEFINE W == Where(s, {Closer(s[start])})
    <3>1. W \in SUBSET (0 .. Len(s)) /\ last \in W
      <4>1. last \in 1 .. Len(s)
        BY <1>10, <1>11
      <4> QED
        BY <4>1, <1>1, <1>11 DEF Where
    <3> HIDE DEF W
    <3>2. Greatest(W) \in W /\ last <= Greatest(W)
      BY <1>1, <3>1, GreatestOf
    <3>3. Greatest(W) \in 0 .. Len(s) /\ last \in Int /\ 2 <= last
      <4>1. last \in Int /\ 2 <= last
        <5>1. last \in 2 .. Len(s)
          BY <2>4, <1>11
        <5> QED
          BY <5>1, <1>1
      <4>2. Greatest(W) \in 0 .. Len(s)
        BY <3>1, <3>2
      <4> QED
        BY <4>1, <4>2
    <3>4. Greatest(W) \in 2 .. Len(s)
      BY <3>2, <3>3
    <3> QED
      BY <3>4 DEF W
  <2>6. PICK p : p = SubSeq(s, 2, end)
    OBVIOUS
  <2>7. p \in Seq(STRING) /\ Len(p) = end - 1 /\ \A k \in 1 .. end - 1 : p[k] = s[1 + k]
    <3>1. 1 \in 0 .. Len(s) /\ end \in 1 .. Len(s) /\ 1 + 1 = 2
      BY <1>1, <2>5
    <3> QED
      BY <2>6, <3>1, Part
  <2>8. p # <<>> /\ p[1] \in Openers
    <3>1. end \in Int /\ 2 <= end /\ end <= Len(s)
      BY <2>5
    <3>2. Len(p) # 0 /\ 1 \in 1 .. end - 1
      BY <2>7, <3>1
    <3>3. p[1] = s[1 + 1] /\ 1 + 1 = 2
      BY <2>7, <3>2
    <3> QED
      BY <2>3, <3>2, <3>3, EmptySeq
  <2>9. Bracketed(s) = p
    BY <1>9, <2>4, <2>5, <2>6 DEF Bracketed
  <2>10. PICK w : w = Extract(s) /\ w \in Seq(STRING) /\ Begins(w, p)
    BY <1>7, <2>7, <2>8, <2>9, ReadIsHead
  <2>11. Len(w) \in Nat /\ 1 + Len(w) <= Len(s) /\ \A k \in 1 .. Len(w) : s[1 + k] = w[k]
    <3>1. Len(w) \in Nat /\ end \in Int /\ end <= Len(s)
      BY <2>5, <2>10, LenProperties
    <3>2. Len(w) <= end - 1 /\ \A k \in 1 .. Len(w) : w[k] = p[k]
      BY <2>7, <2>10 DEF Begins
    <3>3. \A k \in 1 .. Len(w) : k \in 1 .. end - 1
      BY <3>1, <3>2
    <3> QED
      BY <1>1, <2>7, <3>1, <3>2, <3>3
  <2> QED
    BY <2>10, <2>11, AtIs
<1> QED
  BY <1>10, <1>12, <1>13

-----------------------------------------------------------------------------
(* The theorems about replies.                                             *)

Extracted == text \in Seq(STRING) /\ value \in {<<>>, Extract(text)}

\* The value is the one extracted from the text, once there is one.
LEMMA ExtractedOnly == ReplySpec => []Extracted
<1>1. ReplyInit => Extracted
  BY GrammarAssumption DEF ReplyInit, Extracted
<1>2. Extracted /\ [ReplyNext]_replyVars => Extracted'
  <2> HIDE DEF Extract
  <2> QED
    BY DEF Extracted, ReplyNext, ExtractJson, replyVars
<1> QED
  BY <1>1, <1>2, PTL DEF ReplySpec

\* An object or a list is read as it was written, whatever stands around it
\* (extract_json_from_text in parsers/base.py).
THEOREM WrappedRead == ReplySpec => []WrappedValueIsRead
<1>1. Extracted => WrappedValueIsRead
  <2> SUFFICES ASSUME Extracted, value # <<>>,
                      NEW v \in Json, Whole(v), NEW n \in 0 .. Len(text), HasAt(text, v, n),
                      \/ /\ Where(text, {"fence"}) = {}
                         /\ \A i \in 1 .. n : text[i] \in {"word", "number", "comma"}
                      \/ /\ Where(text, {"fence"}) \cap 1 .. n + Len(v) = {n}
                         /\ Where(text, {"fence"}) # {n}
               PROVE  value = v
    BY DEF WrappedValueIsRead
  <2>1. text \in Seq(STRING) /\ value = Extract(text) /\ n \in Nat
    BY LenProperties DEF Extracted
  <2> QED
    BY <2>1, GrammarAssumption, PlainRead, FencedRead
<1>2. ReplySpec => []Extracted
  BY ExtractedOnly
<1> QED
  BY <1>1, <1>2, PTL

\* Of a list that breaks off, its first item is read or nothing
\* (_loads_json_with_repair in parsers/base.py).
THEOREM HeadRead == ReplySpec => []BrokenListGivesItsHead
<1>1. Extracted => BrokenListGivesItsHead
  <2> DEFINE one == "["
             other == "{"
  <2>1. Openers = {one, other} /\ one # other
    BY Zenon DEF Openers
  <2>2. BrokenListGivesItsHead <=>
          (value \notin {<<>>, Error} /\ text # <<>> =>
             \A list \in {v \in Json : v[1] = one} :
                 /\ HasAt(list, text, 0) /\ text # list
                 /\ Where(list, {"fence"}) = {}
                 /\ list[2] = other \/ Where(list, {other}) = {}
                 => HasAt(text, value, 1))
    BY Zenon DEF BrokenListGivesItsHead
  <2> HIDE DEF one, other
  <2> SUFFICES ASSUME Extracted, value \notin {<<>>, Error}, text # <<>>,
                      NEW list \in Json, list[1] = one,
                      HasAt(list, text, 0), text # list, Where(list, {"fence"}) = {},
                      list[2] = other \/ Where(list, {other}) = {}
               PROVE  HasAt(text, value, 1)
    BY <2>2
  <2>3. text \in Seq(STRING) /\ value = Extract(text) /\ Extract(text) # Error
    BY DEF Extracted
  <2> QED
    BY <2>1, <2>3, GrammarAssumption, BrokenRead
<1>2. ReplySpec => []Extracted
  BY ExtractedOnly
<1> QED
  BY <1>1, <1>2, PTL

=============================================================================
