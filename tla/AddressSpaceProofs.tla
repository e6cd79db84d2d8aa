------------------------- MODULE AddressSpaceProofs -------------------------
(***************************************************************************)
(* What the operators of AddressSpace compute, for layouts of any length:  *)
(* where the elements of a layout lie, which pages it maps, and what the   *)
(* operations of VirtMapper make of a map of ranges and of the page tables *)
(* that agree with each other.  Module CapabilitiesProofs uses it.         *)
(***************************************************************************)
EXTENDS AddressSpace, WellFoundedInduction, FiniteSetTheorems, TLAPS

(* VirtLayoutElement, in a range: it has pages, and memory if it is mapped *)
(* or gives it back.                                                       *)
Elem ==
  {e \in [blk : Block \cup {NoBlock}, own : BOOLEAN, size : Nat \ {0}, flags : SUBSET {"r", "w"}] :
     e.own \/ e.flags # {} => e.blk \in Block}

-----------------------------------------------------------------------------
(* Recursion over the natural numbers.                                     *)

(* A set of natural numbers has a least one. *)
LEMMA Least ==
  ASSUME NEW T, T \subseteq Nat, T # {}
  PROVE  \E x \in T : \A y \in T : x <= y
<1>. DEFINE Rel == OpToRel(<, Nat)
<1>1. IsWellFoundedOn(Rel, Nat)
  BY NatLessThanWellFounded
<1>2. \A x, y \in Nat : y < x => <<y, x>> \in Rel
  BY DEF OpToRel
<1>. HIDE DEF Rel
<1>3. PICK x \in T : \A y \in T : ~ (<<y, x>> \in Rel)
  BY <1>1, WFMin
<1>4. \A y \in T : ~ (y < x)
  BY <1>2, <1>3
<1>. QED
  BY <1>4

(* The rounds of a loop over a variable of the values V. *)
Rounds(V, n) == [1 .. n -> [V -> V]]

(* What the variable has been after every round. *)
LoopFrom(v, V, n, F) ==
  \E g \in [0 .. n -> V] : g[0] = v /\ \A k \in 1 .. n : g[k] = F[k][g[k - 1]]

(* A loop of n rounds that starts with v, the k-th of which does F[k], has *)
(* a value after every round.                                              *)
LEMMA LoopValues ==
  ASSUME NEW V, NEW v \in V, NEW n \in Nat, NEW F \in Rounds(V, n)
  PROVE  LoopFrom(v, V, n, F)
<1>. USE DEF Rounds, LoopFrom
<1>. DEFINE Upto(m) == \E g \in [0 .. m -> V] : g[0] = v /\ \A k \in 1 .. m : g[k] = F[k][g[k - 1]]
            T == {m \in 0 .. n : ~ Upto(m)}
<1>0. n \in T \/ Upto(n)
  <2>. HIDE DEF Upto
  <2>. QED OBVIOUS
<1>. SUFFICES ASSUME T # {} PROVE FALSE
  BY <1>0
<1>1. T \subseteq Nat
  OBVIOUS
<1>2. PICK m \in T : \A y \in T : m <= y
  <2>. HIDE DEF T
  <2>. QED BY <1>1, Least
<1>3. Upto(0)
  <2>. DEFINE g == [k \in 0 .. 0 |-> v]
  <2>1. g \in [0 .. 0 -> V] /\ g[0] = v /\ \A k \in 1 .. 0 : g[k] = F[k][g[k - 1]]
    OBVIOUS
  <2>. HIDE DEF g
  <2>. QED BY <2>1
<1>4. m \in Nat /\ m # 0 /\ m <= n /\ m - 1 \in 0 .. n /\ m - 1 \notin T
  <2>1. m \in 0 .. n /\ ~ Upto(m)
    OBVIOUS
  <2>. HIDE DEF T, Upto
  <2>. QED BY <1>2, <1>3, <2>1
<1>5. Upto(m - 1)
  <2>. HIDE DEF Upto
  <2>. QED BY <1>4
<1>6. PICK g \in [0 .. m - 1 -> V] : g[0] = v /\ \A k \in 1 .. m - 1 : g[k] = F[k][g[k - 1]]
  BY <1>5
<1>. DEFINE h == [k \in 0 .. m |-> IF k = m THEN F[m][g[m - 1]] ELSE g[k]]
<1>7. F[m][g[m - 1]] \in V
  BY <1>4, <1>6
<1>8. h \in [0 .. m -> V] /\ h[0] = v
  BY <1>4, <1>6, <1>7
<1>9. ASSUME NEW k \in 1 .. m PROVE h[k] = F[k][h[k - 1]]
  <2>1. k - 1 \in 0 .. m - 1 /\ h[k - 1] = g[k - 1]
    BY <1>4
  <2>2. CASE k = m
    BY <1>4, <2>1, <2>2
  <2>3. CASE k # m
    BY <1>4, <1>6, <2>1, <2>3
  <2>. QED BY <2>2, <2>3
<1>10. Upto(m)
  <2>. HIDE DEF h
  <2>. QED BY <1>8, <1>9
<1>11. ~ Upto(m)
  <2>. HIDE DEF Upto
  <2>. QED BY <1>2
<1>. QED BY <1>10, <1>11

-----------------------------------------------------------------------------
(* Sizes.                                                                  *)

(* The loop that adds up the elements. *)
LEMMA OffsetsDef ==
  ASSUME NEW s \in Seq(Elem)
  PROVE  /\ Offsets(s) \in [0 .. Len(s) -> Nat] /\ Offsets(s)[0] = 0
         /\ \A i \in 1 .. Len(s) : Offsets(s)[i] = Offsets(s)[i - 1] + s[i].size
<1>. DEFINE n == Len(s)
            F == [k \in 1 .. n |-> [x \in Nat |-> x + s[k].size]]
            Sum(w) == w = [i \in 0 .. n |-> IF i = 0 THEN 0 ELSE w[i - 1] + s[i].size]
<1>1. n \in Nat /\ \A k \in 1 .. n : s[k].size \in Nat \ {0}
  BY DEF Elem
<1>2. F \in [1 .. n -> [Nat -> Nat]]
  BY <1>1
<1>3. \A k \in 1 .. n, x \in Nat : F[k][x] = x + s[k].size
  OBVIOUS
<1>. HIDE DEF F, n
<1>4. PICK g \in [0 .. n -> Nat] : g[0] = 0 /\ \A k \in 1 .. n : g[k] = F[k][g[k - 1]]
  <2>1. 0 \in Nat /\ n \in Nat /\ F \in Rounds(Nat, n)
    BY <1>1, <1>2 DEF Rounds
  <2>2. LoopFrom(0, Nat, n, F)
    BY ONLY <2>1, LoopValues
  <2>. QED BY <2>2 DEF LoopFrom
<1>5. ASSUME NEW k \in 1 .. n PROVE g[k] = g[k - 1] + s[k].size
  <2>1. g[k - 1] \in Nat
    BY <1>1, <1>4
  <2>. QED BY <1>3, <1>4, <2>1
<1>6. g = [i \in 0 .. n |-> IF i = 0 THEN 0 ELSE g[i - 1] + s[i].size]
  BY <1>4, <1>5
<1>7. Sum(g)
  BY <1>6
<1>8. Offsets(s) = CHOOSE w : Sum(w)
  BY DEF Offsets, n
<1>. HIDE DEF Sum
<1>9. Sum(Offsets(s))
  BY <1>7, <1>8
<1>. DEFINE w == Offsets(s)
<1>10. w = [i \in 0 .. n |-> IF i = 0 THEN 0 ELSE w[i - 1] + s[i].size]
  BY <1>9 DEF Sum
<1>. HIDE DEF w
<1>11. w[0] = 0 /\ \A i \in 1 .. n : w[i] = w[i - 1] + s[i].size
  BY <1>1, <1>10
<1>12. ASSUME NEW i \in 0 .. n PROVE w[i] \in Nat
  <2>. DEFINE T == {k \in 0 .. n : w[k] \notin Nat}
  <2>. SUFFICES ASSUME T # {} PROVE FALSE
    OBVIOUS
  <2>1. T \subseteq Nat
    OBVIOUS
  <2>2. PICK m \in T : \A y \in T : m <= y
    <3>. HIDE DEF T
    <3>. QED BY <2>1, Least
  <2>3. m \in 1 .. n /\ w[m] \notin Nat /\ m - 1 \notin T
    BY <1>11, <2>2
  <2>4. w[m - 1] \in Nat
    BY <1>1, <2>3
  <2>5. w[m] = w[m - 1] + s[m].size /\ s[m].size \in Nat
    BY <1>1, <1>11, <2>3
  <2>. HIDE DEF T
  <2>. QED BY <2>3, <2>4, <2>5
<1>13. w \in [0 .. n -> Nat]
  BY <1>10, <1>12
<1>. QED
  BY <1>11, <1>13 DEF w, n

(* The elements lie one behind the other. *)
LEMMA OffsetsOrder ==
  ASSUME NEW s \in Seq(Elem), NEW i \in 0 .. Len(s), NEW j \in 0 .. Len(s), i <= j
  PROVE  Offsets(s)[i] <= Offsets(s)[j]
<1>. DEFINE w == Offsets(s)
            n == Len(s)
            T == {k \in i .. n : ~ (w[i] <= w[k])}
<1>1. n \in Nat /\ \A k \in 1 .. n : s[k].size \in Nat
  BY DEF Elem
<1>2. w \in [0 .. n -> Nat] /\ \A k \in 1 .. n : w[k] = w[k - 1] + s[k].size
  BY OffsetsDef
<1>. HIDE DEF w, n
<1>. SUFFICES ASSUME T # {} PROVE FALSE
  BY DEF w, n
<1>3. T \subseteq Nat
  BY <1>1 DEF n
<1>4. PICK m \in T : \A y \in T : m <= y
  <2>. HIDE DEF T
  <2>. QED BY <1>3, Least
<1>5. m \in i .. n /\ m # i /\ m - 1 \in i .. n /\ m - 1 \notin T /\ i \in Nat /\ m \in 1 .. n
  <2>1. m \in i .. n /\ ~ (w[i] <= w[m]) /\ m - 1 \notin T
    BY <1>1, <1>4
  <2>2. i \in 0 .. n /\ w[i] \in Nat
    BY <1>2 DEF n
  <2>3. m # i
    BY ONLY <2>1, <2>2
  <2>. HIDE DEF T
  <2>4. m - 1 \in i .. n /\ i \in Nat /\ m \in 1 .. n
    BY ONLY <1>1, <2>1, <2>2, <2>3
  <2>. QED BY <2>1, <2>3, <2>4
<1>6. w[i] <= w[m - 1]
  BY <1>5
<1>7. w[m] = w[m - 1] + s[m].size /\ w[m - 1] \in Nat /\ s[m].size \in Nat /\ w[i] \in Nat
  BY <1>1, <1>2, <1>5
<1>. QED
  BY <1>4, <1>6, <1>7

(* Where an element lies depends on the ones before it only. *)
LEMMA OffsetsPrefix ==
  ASSUME NEW s \in Seq(Elem), NEW u \in Seq(Elem), Len(s) <= Len(u),
         \A i \in 1 .. Len(s) : u[i] = s[i]
  PROVE  \A i \in 0 .. Len(s) : Offsets(u)[i] = Offsets(s)[i]
<1>. DEFINE v == Offsets(s)
            w == Offsets(u)
            n == Len(s)
            T == {k \in 0 .. n : v[k] # w[k]}
<1>1. n \in Nat /\ Len(u) \in Nat /\ n <= Len(u)
  OBVIOUS
<1>2. v[0] = 0 /\ \A k \in 1 .. n : v[k] = v[k - 1] + s[k].size
  BY OffsetsDef
<1>3. w[0] = 0 /\ \A k \in 1 .. n : w[k] = w[k - 1] + u[k].size
  BY <1>1, OffsetsDef
<1>4. \A k \in 1 .. n : u[k] = s[k]
  OBVIOUS
<1>. SUFFICES ASSUME T # {} PROVE FALSE
  BY <1>1
<1>. HIDE DEF v, w, n
<1>5. T \subseteq Nat
  BY <1>1
<1>6. PICK m \in T : \A y \in T : m <= y
  <2>. HIDE DEF T
  <2>. QED BY <1>5, Least
<1>7. m \in 1 .. n /\ m - 1 \in 0 .. n /\ m - 1 \notin T
  BY <1>1, <1>2, <1>3, <1>6
<1>8. v[m - 1] = w[m - 1]
  BY <1>7
<1>. QED
  BY <1>2, <1>3, <1>4, <1>6, <1>7, <1>8

(* The size of a layout that is not empty is not zero, and one element     *)
(* more adds its size.                                                     *)
LEMMA SizeOf ==
  ASSUME NEW s \in Seq(Elem)
  PROVE  /\ Size(s) \in Nat /\ (s # <<>> => Size(s) > 0)
         /\ \A e \in Elem : Size(Append(s, e)) = Size(s) + e.size
<1>. DEFINE n == Len(s)
<1>1. n \in Nat /\ Offsets(s) \in [0 .. n -> Nat] /\ Offsets(s)[0] = 0
      /\ \A i \in 1 .. n : Offsets(s)[i] = Offsets(s)[i - 1] + s[i].size
  BY OffsetsDef
<1>2. Size(s) \in Nat
  BY <1>1 DEF Size
<1>3. ASSUME s # <<>> PROVE Size(s) > 0
  <2>1. n \in 1 .. n
    BY <1>3
  <2>2. Offsets(s)[n] = Offsets(s)[n - 1] + s[n].size
    BY <1>1, <2>1
  <2>3. Offsets(s)[n - 1] \in Nat
    BY <1>1, <2>1
  <2>4. s[n] \in Elem
    BY <2>1
  <2>5. s[n].size \in Nat \ {0}
    BY <2>4 DEF Elem
  <2>. QED BY <2>2, <2>3, <2>5 DEF Size
<1>4. ASSUME NEW e \in Elem PROVE Size(Append(s, e)) = Size(s) + e.size
  <2>. DEFINE u == Append(s, e)
  <2>1. u \in Seq(Elem) /\ Len(u) = n + 1 /\ u[n + 1] = e /\ \A i \in 1 .. Len(s) : u[i] = s[i]
    OBVIOUS
  <2>. HIDE DEF u
  <2>2. Offsets(u)[n] = Offsets(s)[n]
    BY <1>1, <2>1, OffsetsPrefix
  <2>3. Offsets(u)[n + 1] = Offsets(u)[n + 1 - 1] + u[n + 1].size
    <3>1. n + 1 \in 1 .. Len(u)
      BY <1>1, <2>1
    <3>. QED BY <2>1, <3>1, OffsetsDef
  <2>4. n + 1 - 1 = n
    BY <1>1
  <2>. QED
    BY <2>1, <2>2, <2>3, <2>4 DEF Size, u
<1>. QED
  BY <1>2, <1>3, <1>4

(* Layouts of no element and of one. *)
LEMMA SizeShort ==
  /\ Size(<<>>) = 0
  /\ \A e \in Elem : Size(<<e>>) = e.size
<1>1. <<>> \in Seq(Elem) /\ Len(<<>>) = 0
  OBVIOUS
<1>2. Size(<<>>) = 0
  BY <1>1, OffsetsDef DEF Size
<1>3. ASSUME NEW e \in Elem PROVE Size(<<e>>) = e.size
  <2>1. <<e>> = Append(<<>>, e) /\ e.size \in Nat
    BY DEF Elem
  <2>. DEFINE s == <<>>
  <2>2. s \in Seq(Elem) /\ Size(s) = 0 /\ <<e>> = Append(s, e)
    BY <1>1, <1>2, <2>1
  <2>. HIDE DEF s
  <2>3. Size(Append(s, e)) = Size(s) + e.size
    BY <2>2, SizeOf
  <2>4. Size(<<e>>) = Size(s) + e.size
    BY <2>2, <2>3, Zenon
  <2>. QED BY <2>1, <2>2, <2>4
<1>. QED
  BY <1>2, <1>3

(* A block has pages. *)
LEMMA AllocLenType ==
  ASSUME NEW n \in Nat
  PROVE  AllocLen(n) \in Nat \ {0}
<1>. DEFINE P == Nat \ {0}
            F == [k \in 1 .. n |-> [x \in P |-> IF x >= n THEN x ELSE 2 * x]]
            Loop(w) == w = [k \in 0 .. n |-> IF k = 0 THEN 1
                                             ELSE IF w[k - 1] >= n THEN w[k - 1] ELSE 2 * w[k - 1]]
<1>1. 1 \in P /\ F \in Rounds(P, n)
  BY DEF Rounds
<1>2. \A k \in 1 .. n, x \in P : F[k][x] = IF x >= n THEN x ELSE 2 * x
  OBVIOUS
<1>. HIDE DEF F, P
<1>3. LoopFrom(1, P, n, F)
  BY <1>1, LoopValues
<1>4. PICK g \in [0 .. n -> P] : g[0] = 1 /\ \A k \in 1 .. n : g[k] = F[k][g[k - 1]]
  BY <1>3 DEF LoopFrom
<1>5. \A k \in 1 .. n : g[k] = IF g[k - 1] >= n THEN g[k - 1] ELSE 2 * g[k - 1]
  BY <1>2, <1>4
<1>6. Loop(g)
  BY <1>4, <1>5
<1>7. AllocLen(n) = (CHOOSE w : Loop(w))[n]
  BY DEF AllocLen
<1>8. PICK w : Loop(w) /\ AllocLen(n) = w[n]
  <2>. HIDE DEF Loop
  <2>. QED BY <1>6, <1>7
<1>. DEFINE T == {k \in 0 .. n : w[k] \notin P}
<1>9. n \in 0 .. n /\ (w[n] \notin P => T # {})
  OBVIOUS
<1>. SUFFICES ASSUME T # {} PROVE FALSE
  <2>. HIDE DEF Loop, T
  <2>. QED BY <1>8, <1>9 DEF P
<1>10. w[0] = 1
  BY <1>8
<1>11. T \subseteq Nat
  OBVIOUS
<1>12. PICK m \in T : \A y \in T : m <= y
  <2>. HIDE DEF T
  <2>. QED BY <1>11, Least
<1>13. m \in 1 .. n /\ w[m] \notin P /\ m - 1 \in 0 .. n /\ m - 1 \notin T
  <2>1. m \in 0 .. n /\ w[m] \notin P
    OBVIOUS
  <2>2. m # 0
    BY <1>10, <2>1 DEF P
  <2>. HIDE DEF T
  <2>. QED BY <1>12, <2>1, <2>2
<1>14. w[m - 1] \in P /\ (w[m] = w[m - 1] \/ w[m] = 2 * w[m - 1])
  BY <1>8, <1>13
<1>. QED
  BY <1>13, <1>14 DEF P

-----------------------------------------------------------------------------
(* The pages of a layout.                                                  *)

(* The entry of page k of element i. *)
CellAt(s, a, i, k) ==
  [page |-> a + Offsets(s)[i - 1] + k, blk |-> s[i].blk, off |-> k, w |-> "w" \in s[i].flags]

(* What Cells collects. *)
LEMMA CellsDef ==
  ASSUME NEW s \in Seq(Elem), NEW a
  PROVE  /\ \A i \in 1 .. Len(s) : \A k \in 0 .. s[i].size - 1 :
              s[i].flags # {} => CellAt(s, a, i, k) \in Cells(s, a)
         /\ \A c \in Cells(s, a) : \E i \in 1 .. Len(s) : \E k \in 0 .. s[i].size - 1 :
              s[i].flags # {} /\ c = CellAt(s, a, i, k)
<1>1. DOMAIN s = 1 .. Len(s)
  OBVIOUS
<1>. QED
  BY <1>1 DEF Cells, CellAt

(* The entry of an element lies within the element, which lies within the  *)
(* range.                                                                  *)
LEMMA CellWithin ==
  ASSUME NEW s \in Seq(Elem), NEW a \in Nat, NEW i \in 1 .. Len(s), NEW k \in 0 .. s[i].size - 1
  PROVE  /\ Offsets(s)[i - 1] \in Nat /\ Offsets(s)[i] \in Nat
         /\ CellAt(s, a, i, k).page \in Nat
         /\ a + Offsets(s)[i - 1] <= CellAt(s, a, i, k).page
         /\ CellAt(s, a, i, k).page < a + Offsets(s)[i]
<1>1. s[i] \in Elem
  OBVIOUS
<1>2. s[i].size \in Nat
  BY <1>1 DEF Elem
<1>3. /\ Offsets(s) \in [0 .. Len(s) -> Nat] /\ Offsets(s)[i] = Offsets(s)[i - 1] + s[i].size
      /\ i \in 0 .. Len(s) /\ i - 1 \in 0 .. Len(s)
  BY OffsetsDef
<1>4. Offsets(s)[i - 1] \in Nat /\ Offsets(s)[i] \in Nat
  BY <1>3
<1>5. CellAt(s, a, i, k).page = a + Offsets(s)[i - 1] + k
  BY DEF CellAt
<1>. QED
  BY <1>2, <1>3, <1>4, <1>5

(* Every entry is for a page of the range, and has memory. *)
LEMMA CellsIn ==
  ASSUME NEW s \in Seq(Elem), NEW a \in Nat, NEW c \in Cells(s, a)
  PROVE  c.page \in Nat /\ a <= c.page /\ c.page < a + Size(s) /\ c.blk \in Block
<1>0. PICK i \in 1 .. Len(s) : \E k \in 0 .. s[i].size - 1 : s[i].flags # {} /\ c = CellAt(s, a, i, k)
  BY CellsDef
<1>1. PICK k \in 0 .. s[i].size - 1 : s[i].flags # {} /\ c = CellAt(s, a, i, k)
  BY <1>0
<1>2. Offsets(s)[i] <= Size(s)
  BY OffsetsOrder DEF Size
<1>3. /\ Offsets(s)[i - 1] \in Nat /\ Offsets(s)[i] \in Nat /\ Size(s) \in Nat
      /\ c.page \in Nat /\ a + Offsets(s)[i - 1] <= c.page /\ c.page < a + Offsets(s)[i]
  BY <1>1, CellWithin, SizeOf
<1>4. s[i] \in Elem
  OBVIOUS
<1>5. c.blk = s[i].blk
  BY <1>1 DEF CellAt
<1>6. c.blk \in Block
  BY <1>1, <1>4, <1>5 DEF Elem
<1>. QED
  BY <1>2, <1>3, <1>6

(* Every page has one entry. *)
LEMMA CellsOnce ==
  ASSUME NEW s \in Seq(Elem), NEW a \in Nat, NEW c \in Cells(s, a), NEW d \in Cells(s, a),
         c.page = d.page
  PROVE  c = d
<1>0. PICK i \in 1 .. Len(s), j \in 1 .. Len(s) :
        /\ \E k \in 0 .. s[i].size - 1 : c = CellAt(s, a, i, k)
        /\ \E l \in 0 .. s[j].size - 1 : d = CellAt(s, a, j, l)
  BY CellsDef
<1>1. PICK k \in 0 .. s[i].size - 1 : c = CellAt(s, a, i, k)
  BY <1>0
<1>2. PICK l \in 0 .. s[j].size - 1 : d = CellAt(s, a, j, l)
  BY <1>0
<1>3. /\ Offsets(s)[i - 1] \in Nat /\ Offsets(s)[i] \in Nat
      /\ c.page \in Nat /\ a + Offsets(s)[i - 1] <= c.page /\ c.page < a + Offsets(s)[i]
  BY <1>1, CellWithin
<1>4. /\ Offsets(s)[j - 1] \in Nat /\ Offsets(s)[j] \in Nat
      /\ d.page \in Nat /\ a + Offsets(s)[j - 1] <= d.page /\ d.page < a + Offsets(s)[j]
  BY <1>2, CellWithin
<1>5. i \in Nat /\ j \in Nat /\ i \in 0 .. Len(s) /\ j \in 0 .. Len(s)
      /\ i - 1 \in 0 .. Len(s) /\ j - 1 \in 0 .. Len(s)
  OBVIOUS
<1>6. CASE i < j
  <2>1. Offsets(s)[i] <= Offsets(s)[j - 1]
    BY <1>5, <1>6, OffsetsOrder
  <2>. QED BY ONLY <1>3, <1>4, <2>1, a \in Nat, c.page = d.page
<1>7. CASE j < i
  <2>1. Offsets(s)[j] <= Offsets(s)[i - 1]
    BY <1>5, <1>7, OffsetsOrder
  <2>. QED BY ONLY <1>3, <1>4, <2>1, a \in Nat, c.page = d.page
<1>8. CASE i = j
  <2>1. c.page = a + Offsets(s)[i - 1] + k /\ d.page = a + Offsets(s)[i - 1] + l
    BY <1>1, <1>2, <1>8 DEF CellAt
  <2>2. s[i] \in Elem /\ s[i].size \in Nat
    BY DEF Elem
  <2>3. k \in Nat /\ l \in Nat
    BY <1>8, <2>2
  <2>4. k = l
    <3>. DEFINE o == Offsets(s)[i - 1]
    <3>1. a \in Nat /\ o \in Nat /\ a + o + k = a + o + l
      BY <1>3, <2>1
    <3>. HIDE DEF o
    <3>. QED BY ONLY <2>3, <3>1
  <2>. QED BY <1>1, <1>2, <1>8, <2>4
<1>. QED
  BY <1>5, <1>6, <1>7, <1>8

(* One element more adds its pages at the end. *)
LEMMA CellsAppend ==
  ASSUME NEW s \in Seq(Elem), NEW a \in Nat, NEW e \in Elem
  PROVE  Cells(Append(s, e), a) = Cells(s, a) \cup Cells(<<e>>, a + Size(s))
<1>. DEFINE u == Append(s, e)
            o == <<e>>
            n == Len(s)
<1>1. /\ u \in Seq(Elem) /\ Len(u) = n + 1 /\ u[n + 1] = e /\ n \in Nat
      /\ \A i \in 1 .. Len(s) : u[i] = s[i]
  OBVIOUS
<1>2. o \in Seq(Elem) /\ Len(o) = 1 /\ o[1] = e
  OBVIOUS
<1>. HIDE DEF u, o
<1>3. \A i \in 0 .. n : Offsets(u)[i] = Offsets(s)[i]
  BY <1>1, OffsetsPrefix
<1>4. ASSUME NEW i \in 1 .. n, NEW k PROVE CellAt(u, a, i, k) = CellAt(s, a, i, k)
  <2>1. i - 1 \in 0 .. n /\ u[i] = s[i]
    BY <1>1
  <2>. QED BY <1>3, <2>1 DEF CellAt
<1>5. ASSUME NEW k \in 0 .. e.size - 1
      PROVE  CellAt(u, a, n + 1, k) = CellAt(o, a + Size(s), 1, k)
  <2>1. n + 1 - 1 = n /\ n \in 0 .. n
    BY <1>1
  <2>2. Offsets(u)[n + 1 - 1] = Size(s)
    BY <1>3, <2>1 DEF Size
  <2>3. Offsets(o)[1 - 1] = 0
    BY <1>2, OffsetsDef
  <2>4. k \in Nat /\ Size(s) \in Nat
    <3>1. e.size \in Nat /\ Size(s) \in Nat
      BY SizeOf DEF Elem
    <3>. QED BY <3>1
  <2>5. a + Size(s) + k = a + Size(s) + 0 + k
    BY <2>4
  <2>. QED BY <1>1, <1>2, <2>2, <2>3, <2>5 DEF CellAt
<1>6. ASSUME NEW c \in Cells(u, a) PROVE c \in Cells(s, a) \cup Cells(o, a + Size(s))
  <2>1. PICK i \in 1 .. Len(u) : \E k \in 0 .. u[i].size - 1 : u[i].flags # {} /\ c = CellAt(u, a, i, k)
    BY <1>1, CellsDef
  <2>2. PICK k \in 0 .. u[i].size - 1 : u[i].flags # {} /\ c = CellAt(u, a, i, k)
    BY <2>1
  <2>3. CASE i \in 1 .. n
    <3>1. u[i] = s[i] /\ c = CellAt(s, a, i, k)
      BY <1>1, <1>4, <2>2, <2>3
    <3>. QED BY <2>2, <2>3, <3>1, CellsDef
  <2>4. CASE i = n + 1
    <3>1. u[i] = e /\ 1 \in 1 .. Len(o) /\ c = CellAt(o, a + Size(s), 1, k)
      BY <1>1, <1>2, <1>5, <2>2, <2>4
    <3>. QED BY <1>2, <2>2, <3>1, CellsDef
  <2>. QED BY <1>1, <2>3, <2>4
<1>7. ASSUME NEW c \in Cells(s, a) PROVE c \in Cells(u, a)
  <2>1. PICK i \in 1 .. Len(s) : \E k \in 0 .. s[i].size - 1 : s[i].flags # {} /\ c = CellAt(s, a, i, k)
    BY CellsDef
  <2>2. PICK k \in 0 .. s[i].size - 1 : s[i].flags # {} /\ c = CellAt(s, a, i, k)
    BY <2>1
  <2>3. i \in 1 .. Len(u) /\ u[i] = s[i] /\ c = CellAt(u, a, i, k)
    BY <1>1, <1>4, <2>2
  <2>. QED BY <1>1, <2>2, <2>3, CellsDef
<1>8. ASSUME NEW c \in Cells(o, a + Size(s)) PROVE c \in Cells(u, a)
  <2>1. PICK i \in 1 .. Len(o) : \E k \in 0 .. o[i].size - 1 :
          o[i].flags # {} /\ c = CellAt(o, a + Size(s), i, k)
    BY <1>2, CellsDef
  <2>2. i = 1 /\ o[i] = e
    BY <1>2
  <2>3. PICK k \in 0 .. e.size - 1 : e.flags # {} /\ c = CellAt(o, a + Size(s), 1, k)
    BY <2>1, <2>2
  <2>4. n + 1 \in 1 .. Len(u) /\ u[n + 1] = e /\ c = CellAt(u, a, n + 1, k)
    BY <1>1, <1>5, <2>3
  <2>. QED BY <1>1, <2>3, <2>4, CellsDef
<1>9. Cells(u, a) = Cells(s, a) \cup Cells(o, a + Size(s))
  BY <1>6, <1>7, <1>8
<1>. QED
  BY <1>9 DEF u, o

(* No element, no pages. *)
LEMMA CellsEmpty ==
  ASSUME NEW a
  PROVE  Cells(<<>>, a) = {}
BY DEF Cells

(* What the pages p have at place i of the range at a. *)
Contents(p, a, i) == {<<c.blk, c.off>> : c \in {d \in p : d.page = a + i - 1}}

(* The contents of a layout are the same wherever it is mapped. *)
LEMMA ContentsMove ==
  ASSUME NEW s \in Seq(Elem), NEW a \in Nat, NEW b \in Nat, NEW i \in Nat
  PROVE  Contents(Cells(s, a), a, i) \subseteq Contents(Cells(s, b), b, i)
<1>. SUFFICES ASSUME NEW c \in Cells(s, a), c.page = a + i - 1
              PROVE  \E d \in Cells(s, b) : d.page = b + i - 1 /\ c.blk = d.blk /\ c.off = d.off
  BY DEF Contents
<1>1. PICK j \in 1 .. Len(s) : \E k \in 0 .. s[j].size - 1 : s[j].flags # {} /\ c = CellAt(s, a, j, k)
  BY CellsDef
<1>2. PICK k \in 0 .. s[j].size - 1 : s[j].flags # {} /\ c = CellAt(s, a, j, k)
  BY <1>1
<1>. DEFINE d == CellAt(s, b, j, k)
            o == Offsets(s)[j - 1]
<1>3. d \in Cells(s, b)
  BY <1>2, CellsDef
<1>4. c.page = a + o + k /\ d.page = b + o + k /\ c.blk = d.blk /\ c.off = d.off
  BY <1>2 DEF CellAt
<1>5. o \in Nat /\ k \in Int
  <2>1. s[j] \in Elem
    OBVIOUS
  <2>2. s[j].size \in Nat /\ o \in Nat
    BY <2>1, CellWithin DEF Elem
  <2>. QED BY <2>2
<1>. HIDE DEF o, d
<1>6. a + o + k = a + i - 1
  BY <1>4
<1>7. b + o + k = b + i - 1
  BY ONLY a \in Nat, b \in Nat, i \in Nat, <1>5, <1>6
<1>. QED
  BY <1>3, <1>4, <1>7

-----------------------------------------------------------------------------
(* Layouts.                                                                *)

Elems == Seq(Elem)

Layouts ==
  [data : Elems, que : Elems, dirty : Nat, clean : Nat,
   atype : {"VirtMem", "Protected", "Shared"}]

(* A layout of which nothing is mapped, and one of which all is. *)
Fresh(L) == L \in Layouts /\ L.data # <<>> /\ L.que = <<>> /\ L.dirty = 0 /\ L.clean = 0

Synced(L) ==
  /\ L \in Layouts /\ L.data # <<>> /\ L.que = <<>>
  /\ L.dirty = Len(L.data) /\ L.clean = Size(L.data)

(* Slices of a sequence that are all of it, nothing, or the last element. *)
LEMMA Slices ==
  ASSUME NEW s \in Seq(Elem)
  PROVE  /\ SubSeq(s, 1, Len(s)) = s /\ SubSeq(s, 1, 0) = <<>>
         /\ SubSeq(s, 0 + 1, Len(s)) = s /\ SubSeq(s, Len(s) + 1, Len(s)) = <<>>
         /\ s \o <<>> = s /\ Reverse(<<>>) = <<>>
         /\ \A e \in Elem : /\ SubSeq(Append(s, e), 1, Len(s)) = s
                            /\ SubSeq(Append(s, e), Len(s) + 1, Len(Append(s, e))) = <<e>>
<1>1. Len(s) \in Nat /\ 0 + 1 = 1
  OBVIOUS
<1>2. SubSeq(s, 1, Len(s)) = s /\ SubSeq(s, 1, 0) = <<>>
  OBVIOUS
<1>3. SubSeq(s, 0 + 1, Len(s)) = s
  BY <1>2
<1>4. SubSeq(s, Len(s) + 1, Len(s)) = <<>>
  OBVIOUS
<1>5. s \o <<>> = s
  OBVIOUS
<1>6. Reverse(<<>>) = <<>>
  BY DEF Reverse
<1>7. ASSUME NEW e \in Elem
      PROVE  /\ SubSeq(Append(s, e), 1, Len(s)) = s
             /\ SubSeq(Append(s, e), Len(s) + 1, Len(Append(s, e))) = <<e>>
  <2>. DEFINE u == Append(s, e)
              n == Len(s)
  <2>1. /\ u \in Seq(Elem) /\ Len(u) = n + 1 /\ u[n + 1] = e /\ n \in Nat
        /\ \A i \in 1 .. n : u[i] = s[i]
    OBVIOUS
  <2>. HIDE DEF u
  <2>2. SubSeq(u, 1, n) = s
    <3>. DEFINE v == SubSeq(u, 1, n)
    <3>1. v \in Seq(Elem) /\ Len(v) = n /\ \A i \in 1 .. n : v[i] = u[i]
      BY <2>1
    <3>. HIDE DEF v
    <3>2. v = s
      BY <2>1, <3>1
    <3>. QED BY <3>2 DEF v
  <2>3. SubSeq(u, n + 1, n + 1) = <<e>>
    <3>. DEFINE v == SubSeq(u, n + 1, n + 1)
    <3>1. v \in Seq(Elem) /\ Len(v) = 1 /\ v[1] = u[n + 1]
      BY <2>1
    <3>. HIDE DEF v
    <3>2. v = <<e>>
      BY <2>1, <3>1
    <3>. QED BY <3>2 DEF v
  <2>. QED BY <2>1, <2>2, <2>3 DEF u
<1>. QED
  BY <1>2, <1>3, <1>4, <1>5, <1>6, <1>7

(* Two layouts with the same fields are the same. *)
LEMMA SameLayout ==
  ASSUME NEW L \in Layouts, NEW M \in Layouts,
         M.data = L.data, M.que = L.que, M.dirty = L.dirty, M.clean = L.clean, M.atype = L.atype
  PROVE  M = L
BY DEF Layouts

(* A layout of which nothing is mapped: the iterator maps all of it from   *)
(* the start of the range on.                                              *)
LEMMA FreshMaps ==
  ASSUME NEW L, Fresh(L), NEW z, z.addr \in Nat
  PROVE  /\ IterUnmaps(L, z) = {} /\ IterMaps(L, z) = Cells(L.data, z.addr)
         /\ Synced(SyncMem(L)) /\ SyncMem(L).data = L.data /\ SyncMem(L).atype = L.atype
         /\ Mapped(SyncMem(L)) = L.data
<1>. DEFINE s == L.data
            M == SyncMem(L)
<1>1. s \in Seq(Elem) /\ s # <<>> /\ L.que = <<>> /\ L.dirty = 0 /\ L.clean = 0
  BY DEF Fresh, Layouts, Elems
<1>2. DirtySlice(L) = s
  BY <1>1, Slices DEF DirtySlice
<1>3. Size(<<>>) = 0 /\ Size(s) \in Nat
  BY <1>1, SizeShort, SizeOf
<1>4. IterStart(L, z) = z.addr
  BY <1>1, <1>3 DEF IterStart
<1>5. IterUnmaps(L, z) = {}
  BY <1>1, Slices, CellsEmpty DEF IterUnmaps, PagesOf
<1>6. IterMaps(L, z) = Cells(s, z.addr)
  BY <1>2, <1>4 DEF IterMaps
<1>7. /\ M \in Layouts /\ M.data = s /\ M.que = <<>> /\ M.dirty = Len(s) /\ M.clean = Size(s)
      /\ M.atype = L.atype
  <2>1. 0 + Size(s) - 0 = Size(s) /\ Len(s) \in Nat /\ <<>> \in Seq(Elem)
    BY <1>1, <1>3
  <2>2. L \in Layouts
    BY DEF Fresh
  <2>3. M = [L EXCEPT !.clean = Size(s), !.dirty = Len(s), !.que = <<>>]
    BY <1>1, <1>2, <1>3, <2>1 DEF SyncMem
  <2>. HIDE DEF M
  <2>4. <<>> \in Elems /\ Len(s) \in Nat /\ Size(s) \in Nat
    BY <1>3, <2>1 DEF Elems
  <2>. HIDE DEF s
  <2>5. M \in Layouts
    BY ONLY <2>2, <2>3, <2>4 DEF Layouts
  <2>6. M.data = L.data /\ M.que = <<>> /\ M.dirty = Len(s) /\ M.clean = Size(s) /\ M.atype = L.atype
    BY ONLY <2>2, <2>3, <2>4 DEF Layouts
  <2>. QED BY <2>5, <2>6 DEF s
<1>. HIDE DEF M
<1>8. Mapped(M) = s
  BY <1>1, <1>7, Slices DEF Mapped, CleanSlice
<1>9. Synced(M)
  BY <1>1, <1>7 DEF Synced
<1>. QED
  BY <1>5, <1>6, <1>7, <1>8, <1>9 DEF M

(* A layout of which all is mapped: the unmapper takes all of it away, and *)
(* it can be mapped again afterwards.                                      *)
LEMMA SyncedUnmaps ==
  ASSUME NEW L, Synced(L), NEW z
  PROVE  /\ Mapped(L) = L.data /\ SyncFrees(L) = {}
         /\ UnmapperUnmaps(L, z) = PagesOf(Cells(L.data, z.addr))
         /\ Fresh(MarkUnmapped(L)) /\ MarkUnmapped(L).data = L.data
         /\ MarkUnmapped(L).atype = L.atype
<1>. DEFINE s == L.data
<1>1. L \in Layouts /\ s \in Seq(Elem) /\ s # <<>> /\ L.que = <<>> /\ L.dirty = Len(s)
  BY DEF Synced, Layouts, Elems
<1>2. Mapped(L) = s
  BY <1>1, Slices DEF Mapped, CleanSlice
<1>3. SyncFrees(L) = {}
  BY <1>1 DEF SyncFrees, Owned, ToSet
<1>4. UnmapperUnmaps(L, z) = PagesOf(Cells(s, z.addr))
  BY <1>2 DEF UnmapperUnmaps, Mapped
<1>. DEFINE M == MarkUnmapped(L)
<1>5. M = [L EXCEPT !.dirty = 0, !.clean = 0, !.que = <<>>]
  BY DEF MarkUnmapped
<1>6. <<>> \in Elems /\ 0 \in Nat
  BY DEF Elems
<1>. HIDE DEF M
<1>7. /\ M \in Layouts /\ M.data = s /\ M.que = <<>> /\ M.dirty = 0 /\ M.clean = 0
      /\ M.atype = L.atype
  BY <1>1, <1>5, <1>6 DEF Layouts
<1>8. Fresh(M)
  BY <1>1, <1>7 DEF Fresh
<1>. QED
  BY <1>2, <1>3, <1>4, <1>7, <1>8 DEF M

(* realloc_func has pushed an element: the iterator maps it behind the     *)
(* ones that are mapped, and revert() takes it away again.                 *)
LEMMA PushedMaps ==
  ASSUME NEW L, Synced(L), NEW e \in Elem, NEW z, z.addr \in Nat
  PROVE  LET M == PushElement(L, e)
         IN /\ IterUnmaps(M, z) = {}
            /\ IterMaps(M, z) = Cells(<<e>>, z.addr + Size(L.data))
            /\ UnmapperUnmaps(M, z) = PagesOf(Cells(L.data, z.addr))
            /\ M.data = Append(L.data, e)
            /\ Synced(SyncMem(M)) /\ SyncMem(M).data = M.data /\ SyncMem(M).atype = L.atype
            /\ Fresh(MarkUnmapped(M)) /\ MarkUnmapped(M).data = M.data
            /\ MarkUnmapped(M).atype = L.atype
            /\ Revert(M) = L /\ RevertFrees(M) = Owned(<<e>>)
<1>. DEFINE s == L.data
            u == Append(s, e)
            M == PushElement(L, e)
<1>1. L \in Layouts /\ s \in Seq(Elem) /\ s # <<>> /\ L.que = <<>> /\ L.dirty = Len(s)
      /\ L.clean = Size(s)
  BY DEF Synced, Layouts, Elems
<1>2. u \in Seq(Elem) /\ u # <<>> /\ u \in Elems /\ Len(u) \in Nat /\ <<>> \in Elems
      /\ 0 \in Nat /\ s \in Elems
  BY <1>1 DEF Elems
<1>3. M = [L EXCEPT !.data = u]
  BY DEF PushElement
<1>. HIDE DEF M, u
<1>4. /\ M \in Layouts /\ M.data = u /\ M.que = <<>> /\ M.dirty = Len(s) /\ M.clean = Size(s)
      /\ M.atype = L.atype
  BY <1>1, <1>2, <1>3 DEF Layouts
<1>5. CleanSlice(M) = s /\ DirtySlice(M) = <<e>>
  BY <1>1, <1>4, Slices DEF CleanSlice, DirtySlice, u
<1>6. /\ Size(s) \in Nat /\ Size(<<>>) = 0 /\ Size(<<e>>) = e.size /\ e.size \in Nat
      /\ Size(u) \in Nat /\ Size(u) = Size(s) + e.size
  <2>1. Size(u) \in Nat /\ Size(s) \in Nat /\ Size(u) = Size(s) + e.size
    BY <1>1, <1>2, SizeOf DEF u
  <2>2. Size(<<>>) = 0 /\ Size(<<e>>) = e.size /\ e.size \in Nat
    BY SizeShort DEF Elem
  <2>. QED BY <2>1, <2>2
<1>7. IterStart(M, z) = z.addr + Size(s)
  BY <1>4, <1>6 DEF IterStart
<1>8. IterUnmaps(M, z) = {} /\ IterMaps(M, z) = Cells(<<e>>, z.addr + Size(s))
  BY <1>1, <1>4, <1>5, <1>7, Slices, CellsEmpty DEF IterUnmaps, IterMaps, PagesOf
<1>9. s \o Reverse(M.que) = s
  BY <1>1, <1>4, Slices
<1>10. UnmapperUnmaps(M, z) = PagesOf(Cells(s, z.addr))
  BY <1>5, <1>9 DEF UnmapperUnmaps
<1>11. Synced(SyncMem(M)) /\ SyncMem(M).data = u /\ SyncMem(M).atype = L.atype
  <2>. DEFINE N == SyncMem(M)
  <2>1. N = [M EXCEPT !.clean = Size(u), !.dirty = Len(u), !.que = <<>>]
    <3>1. M.clean + Size(DirtySlice(M)) - Size(M.que) = Size(u)
      BY <1>4, <1>5, <1>6
    <3>2. N = [M EXCEPT !.clean = M.clean + Size(DirtySlice(M)) - Size(M.que),
                        !.dirty = Len(M.data), !.que = <<>>]
      BY DEF SyncMem
    <3>. QED BY <1>4, <3>1, <3>2, Zenon
  <2>. HIDE DEF N
  <2>2. /\ N \in Layouts /\ N.data = M.data /\ N.que = <<>> /\ N.dirty = Len(u) /\ N.clean = Size(u)
        /\ N.atype = M.atype
    BY ONLY <1>2, <1>4, <1>6, <2>1 DEF Layouts
  <2>. QED BY <1>2, <1>4, <2>2 DEF Synced, N
<1>12. Fresh(MarkUnmapped(M)) /\ MarkUnmapped(M).data = u /\ MarkUnmapped(M).atype = L.atype
  <2>. DEFINE N == MarkUnmapped(M)
  <2>1. N = [M EXCEPT !.dirty = 0, !.clean = 0, !.que = <<>>]
    BY DEF MarkUnmapped
  <2>. HIDE DEF N
  <2>2. /\ N \in Layouts /\ N.data = M.data /\ N.que = <<>> /\ N.dirty = 0 /\ N.clean = 0
        /\ N.atype = M.atype
    BY ONLY <1>2, <1>4, <2>1 DEF Layouts
  <2>. QED BY <1>2, <1>4, <2>2 DEF Fresh, N
<1>13. Revert(M) = L
  <2>. DEFINE N == Revert(M)
  <2>1. N = [M EXCEPT !.data = s, !.que = <<>>]
    BY <1>5, <1>9 DEF Revert
  <2>. HIDE DEF N, s
  <2>2. /\ N \in Layouts /\ N.data = s /\ N.que = <<>> /\ N.dirty = M.dirty /\ N.clean = M.clean
        /\ N.atype = M.atype
    BY ONLY <1>2, <1>4, <2>1 DEF Layouts
  <2>3. N = L
    BY <1>1, <1>4, <2>2, SameLayout DEF s
  <2>. QED BY <2>3 DEF N
<1>14. RevertFrees(M) = Owned(<<e>>)
  BY <1>5 DEF RevertFrees
<1>. QED
  BY <1>4, <1>8, <1>10, <1>11, <1>12, <1>13, <1>14 DEF M, u

(* realloc_func has left the layout as it is: the iterator does nothing. *)
LEMMA UnchangedMaps ==
  ASSUME NEW L, Synced(L), NEW z, z.addr \in Nat
  PROVE  /\ IterUnmaps(L, z) = {} /\ IterMaps(L, z) = {}
         /\ SyncMem(L) = L /\ Revert(L) = L /\ RevertFrees(L) = {}
<1>. DEFINE s == L.data
<1>1. L \in Layouts /\ s \in Seq(Elem) /\ L.que = <<>> /\ L.dirty = Len(s) /\ L.clean = Size(s)
  BY DEF Synced, Layouts, Elems
<1>2. CleanSlice(L) = s /\ DirtySlice(L) = <<>> /\ s \o Reverse(L.que) = s
  BY <1>1, Slices DEF CleanSlice, DirtySlice
<1>3. Size(<<>>) = 0 /\ Size(s) \in Nat /\ Len(s) \in Nat /\ s \in Elems /\ <<>> \in Elems
  BY <1>1, SizeShort, SizeOf DEF Elems
<1>4. IterUnmaps(L, z) = {} /\ IterMaps(L, z) = {} /\ RevertFrees(L) = {}
  BY <1>1, <1>2, Slices, CellsEmpty DEF IterUnmaps, IterMaps, PagesOf, RevertFrees, Owned, ToSet
<1>5. SyncMem(L) = L
  <2>. DEFINE N == SyncMem(L)
  <2>1. N = [L EXCEPT !.clean = Size(s), !.dirty = Len(s), !.que = <<>>]
    <3>1. L.clean + Size(DirtySlice(L)) - Size(L.que) = Size(s)
      BY <1>1, <1>2, <1>3
    <3>2. N = [L EXCEPT !.clean = L.clean + Size(DirtySlice(L)) - Size(L.que),
                        !.dirty = Len(L.data), !.que = <<>>]
      BY DEF SyncMem
    <3>. QED BY <3>1, <3>2, Zenon
  <2>. HIDE DEF N, s
  <2>2. /\ N \in Layouts /\ N.data = L.data /\ N.que = <<>> /\ N.dirty = Len(s) /\ N.clean = Size(s)
        /\ N.atype = L.atype
    BY ONLY <1>1, <1>3, <2>1 DEF Layouts
  <2>3. N = L
    BY <1>1, <2>2, SameLayout
  <2>. QED BY <2>3 DEF N
<1>6. Revert(L) = L
  <2>. DEFINE N == Revert(L)
  <2>1. N = [L EXCEPT !.data = s, !.que = <<>>]
    BY <1>2 DEF Revert
  <2>. HIDE DEF N, s
  <2>2. /\ N \in Layouts /\ N.data = s /\ N.que = <<>> /\ N.dirty = L.dirty /\ N.clean = L.clean
        /\ N.atype = L.atype
    BY ONLY <1>1, <1>3, <2>1 DEF Layouts
  <2>3. N = L
    BY <1>1, <2>2, SameLayout DEF s
  <2>. QED BY <2>3 DEF N
<1>. QED
  BY <1>4, <1>5, <1>6

(* A finite set of numbers, bounded by n, has a greatest one. *)
LEMMA Greatest ==
  ASSUME NEW T, NEW n \in Nat, T \subseteq 0 .. n, T # {}
  PROVE  Max(T) \in T /\ \A y \in T : y <= Max(T)
<1>. DEFINE D == {n - x : x \in T}
<1>1. D \subseteq Nat /\ D # {}
  <2>1. \A x \in T : x \in 0 .. n
    OBVIOUS
  <2>2. \A x \in T : n - x \in Nat
    BY <2>1
  <2>3. PICK x \in T : TRUE
    OBVIOUS
  <2>4. n - x \in D
    OBVIOUS
  <2>. QED BY <2>2, <2>4
<1>2. PICK d \in D : \A y \in D : d <= y
  <2>. HIDE DEF D
  <2>. QED BY <1>1, Least
<1>3. PICK x \in T : d = n - x
  OBVIOUS
<1>4. ASSUME NEW y \in T PROVE x >= y
  <2>1. n - y \in D /\ x \in Nat /\ y \in Nat
    OBVIOUS
  <2>2. n - x <= n - y
    BY <1>2, <1>3, <2>1
  <2>. QED BY <2>1, <2>2
<1>. DEFINE m == Max(T)
<1>5. m \in T /\ \A y \in T : m >= y
  <2>1. \E w \in T : \A y \in T : w >= y
    BY <1>4
  <2>. QED BY <2>1 DEF Max
<1>6. \A y \in T : y \in Nat
  OBVIOUS
<1>. HIDE DEF m
<1>7. \A y \in T : y <= m
  BY <1>5, <1>6
<1>. QED
  BY <1>5, <1>7 DEF m

(* The layout L without its last k elements, which are in the queue. *)
Popped(L, k) ==
  LET n == Len(L.data)
  IN [data |-> SubSeq(L.data, 1, n - k), que |-> Reverse(SubSeq(L.data, n - k + 1, n)),
      dirty |-> n - k, clean |-> L.clean, atype |-> L.atype]

(* It is a layout. *)
LEMMA PoppedLayout ==
  ASSUME NEW L, Synced(L), NEW k \in 0 .. Len(L.data)
  PROVE  Popped(L, k) \in Layouts
<1>. DEFINE s == L.data
            n == Len(s)
            b == SubSeq(s, n - k + 1, n)
<1>1. s \in Seq(Elem) /\ n \in Nat /\ k \in Nat /\ n - k \in Nat /\ L \in Layouts
  BY DEF Synced, Layouts, Elems
<1>2. SubSeq(s, 1, n - k) \in Elems /\ b \in Seq(Elem)
  BY <1>1 DEF Elems
<1>. HIDE DEF b
<1>3. Reverse(b) \in Elems
  BY <1>2 DEF Reverse, Elems
<1>4. L.clean \in Nat /\ L.atype \in {"VirtMem", "Protected", "Shared"}
  BY <1>1 DEF Layouts
<1>. QED
  BY <1>1, <1>2, <1>3, <1>4 DEF Popped, Layouts, b

(* pop_delete of one element. *)
LEMMA PopOne ==
  ASSUME NEW L, Synced(L), NEW k \in 1 .. Len(L.data)
  PROVE  PopDelete(Popped(L, k - 1)) = Popped(L, k)
<1>. DEFINE s == L.data
            n == Len(s)
            M == Popped(L, k - 1)
            d == SubSeq(s, 1, n - k)
            q == Reverse(SubSeq(s, n - k + 1, n))
<1>1. s \in Seq(Elem) /\ n \in Nat /\ k \in 1 .. n /\ k \in Nat
  BY DEF Synced, Layouts, Elems
<1>2. n - (k - 1) = n - k + 1 /\ n - (k - 1) + 1 = n - k + 2
  BY <1>1
<1>3. /\ M.data = SubSeq(s, 1, n - k + 1) /\ M.que = Reverse(SubSeq(s, n - k + 2, n))
      /\ M.dirty = n - k + 1
  BY <1>2 DEF Popped
<1>. HIDE DEF M, s, n
<1>4. Len(M.data) = n - k + 1 /\ M.data \in Seq(Elem) /\ \A i \in 1 .. n - k + 1 : M.data[i] = s[i]
  BY <1>1, <1>3 DEF n
<1>5. Front(M.data) = d
  <2>1. Front(M.data) = SubSeq(M.data, 1, n - k)
    BY <1>1, <1>4 DEF Front
  <2>. DEFINE f == SubSeq(M.data, 1, n - k)
  <2>2. f \in Seq(Elem) /\ Len(f) = n - k /\ \A i \in 1 .. n - k : f[i] = s[i]
    BY <1>1, <1>4
  <2>3. d \in Seq(Elem) /\ Len(d) = n - k /\ \A i \in 1 .. n - k : d[i] = s[i]
    BY <1>1 DEF n
  <2>. HIDE DEF f, d
  <2>4. f = d
    BY <2>2, <2>3
  <2>. QED BY <2>1, <2>4 DEF f
<1>6. Last(M.data) = s[n - k + 1]
  BY <1>1, <1>4 DEF Last
<1>7. Append(M.que, s[n - k + 1]) = q
  <2>. DEFINE a == SubSeq(s, n - k + 2, n)
              b == SubSeq(s, n - k + 1, n)
              e == s[n - k + 1]
  <2>1. a \in Seq(Elem) /\ Len(a) = k - 1 /\ \A i \in 1 .. k - 1 : a[i] = s[n - k + 1 + i]
    BY <1>1 DEF n
  <2>2. b \in Seq(Elem) /\ Len(b) = k /\ \A i \in 1 .. k : b[i] = s[n - k + i]
    BY <1>1 DEF n
  <2>3. e \in Elem
    BY <1>1 DEF n
  <2>. HIDE DEF a, b
  <2>4. /\ Reverse(a) \in Seq(Elem) /\ Len(Reverse(a)) = k - 1
        /\ \A i \in 1 .. k - 1 : Reverse(a)[i] = a[k - i]
    BY <1>1, <2>1 DEF Reverse
  <2>5. /\ Reverse(b) \in Seq(Elem) /\ Len(Reverse(b)) = k
        /\ \A i \in 1 .. k : Reverse(b)[i] = b[k - i + 1]
    BY <1>1, <2>2 DEF Reverse
  <2>. DEFINE r == Append(Reverse(a), e)
  <2>6. r \in Seq(Elem) /\ Len(r) = k /\ r[k] = e /\ \A i \in 1 .. k - 1 : r[i] = Reverse(a)[i]
    BY <1>1, <2>3, <2>4
  <2>7. ASSUME NEW i \in 1 .. k PROVE r[i] = Reverse(b)[i]
    <3>1. Reverse(b)[i] = b[k - i + 1] /\ k - i + 1 \in 1 .. k
      BY <1>1, <2>5
    <3>2. b[k - i + 1] = s[n - k + (k - i + 1)]
      BY <2>2, <3>1
    <3>3. CASE i = k
      <4>1. n - k + (k - i + 1) = n - k + 1
        BY <1>1, <3>3
      <4>. QED BY <2>6, <3>1, <3>2, <3>3, <4>1
    <3>4. CASE i # k
      <4>1. i \in 1 .. k - 1 /\ k - i \in 1 .. k - 1
        BY <1>1, <3>4
      <4>2. r[i] = a[k - i]
        BY <2>4, <2>6, <4>1
      <4>3. a[k - i] = s[n - k + 1 + (k - i)]
        BY <2>1, <4>1
      <4>4. n - k + 1 + (k - i) = n - k + (k - i + 1)
        BY <1>1
      <4>. QED BY <3>1, <3>2, <4>2, <4>3, <4>4
    <3>. QED BY <3>3, <3>4
  <2>. HIDE DEF r
  <2>8. r = Reverse(b)
    BY <2>5, <2>6, <2>7
  <2>. QED BY <1>3, <2>8 DEF r, a, b
<1>. HIDE DEF d, q
<1>8. Len(d) = n - k
  BY <1>1 DEF d, n
<1>. DEFINE N == PopDelete(M)
            P == Popped(L, k)
<1>9. N = [M EXCEPT !.data = d, !.que = q, !.dirty = n - k]
  <2>1. Len(Front(M.data)) < M.dirty /\ Len(d) = Len(Front(M.data))
    BY <1>1, <1>3, <1>5, <1>8
  <2>2. N = [M EXCEPT !.data = Front(M.data), !.que = Append(M.que, Last(M.data)),
                      !.dirty = Len(Front(M.data))]
    BY <2>1 DEF PopDelete
  <2>. QED BY <1>5, <1>6, <1>7, <1>8, <2>2, Zenon
<1>10. M \in Layouts /\ P \in Layouts
  <2>1. k \in 0 .. Len(L.data) /\ k - 1 \in 0 .. Len(L.data)
    BY <1>1 DEF n, s
  <2>. QED BY <2>1, PoppedLayout DEF M
<1>11. /\ P.data = d /\ P.que = q /\ P.dirty = n - k /\ P.clean = L.clean /\ P.atype = L.atype
  BY DEF Popped, d, q, n, s
<1>12. M.clean = L.clean /\ M.atype = L.atype
  BY DEF M, Popped
<1>. HIDE DEF N, P
<1>13. d \in Elems /\ q \in Elems /\ n - k \in Nat
  BY <1>10, <1>11 DEF Layouts
<1>14. N \in Layouts /\ N.data = d /\ N.que = q /\ N.dirty = n - k /\ N.clean = M.clean
       /\ N.atype = M.atype
  BY ONLY <1>9, <1>10, <1>13 DEF Layouts
<1>15. N = P
  BY <1>10, <1>11, <1>12, <1>14, SameLayout
<1>. QED
  BY <1>15 DEF N, P, M

(* What was popped is still mapped, and will still be given back. *)
LEMMA PoppedMapped ==
  ASSUME NEW L, Synced(L), NEW k \in 0 .. Len(L.data)
  PROVE  Mapped(Popped(L, k)) = L.data /\ LayoutFrees(Popped(L, k)) = LayoutFrees(L)
<1>. DEFINE s == L.data
            n == Len(s)
            a == SubSeq(s, 1, n - k)
            b == SubSeq(s, n - k + 1, n)
            P == Popped(L, k)
<1>1. s \in Seq(Elem) /\ n \in Nat /\ k \in Nat /\ n - k \in Nat /\ L.que = <<>> /\ k \in 0 .. n
  BY DEF Synced, Layouts, Elems
<1>2. P.data = a /\ P.que = Reverse(b) /\ P.dirty = n - k
  BY DEF Popped
<1>. HIDE DEF P
<1>3. a \in Seq(Elem) /\ Len(a) = n - k /\ \A i \in 1 .. n - k : a[i] = s[i]
  BY <1>1
<1>4. b \in Seq(Elem) /\ Len(b) = k /\ \A i \in 1 .. k : b[i] = s[n - k + i]
  BY <1>1
<1>. HIDE DEF a, b, s, n
<1>5. SubSeq(a, 1, n - k) = a
  BY <1>3, Slices
<1>6. /\ Reverse(b) \in Seq(Elem) /\ Len(Reverse(b)) = k
      /\ \A i \in 1 .. k : Reverse(b)[i] = b[k - i + 1]
  BY <1>1, <1>4 DEF Reverse
<1>7. Reverse(Reverse(b)) = b
  <2>. DEFINE r == Reverse(b)
              t == Reverse(r)
  <2>0. r \in Seq(Elem) /\ Len(r) = k
    BY <1>6
  <2>. HIDE DEF r
  <2>1. t \in Seq(Elem) /\ Len(t) = k /\ \A i \in 1 .. k : t[i] = r[k - i + 1]
    BY <1>1, <2>0 DEF Reverse
  <2>2. ASSUME NEW i \in 1 .. k PROVE t[i] = b[i]
    <3>1. k - i + 1 \in 1 .. k /\ k - (k - i + 1) + 1 = i
      BY <1>1
    <3>2. r[k - i + 1] = b[k - (k - i + 1) + 1]
      BY <1>6, <3>1 DEF r
    <3>. QED BY <2>1, <3>1, <3>2
  <2>. HIDE DEF t
  <2>3. t = b
    BY <1>4, <2>1, <2>2
  <2>. QED BY <2>3 DEF r, t
<1>8. a \o b = s
  <2>. DEFINE c == a \o b
  <2>1. /\ c \in Seq(Elem) /\ Len(c) = n
        /\ \A i \in 1 .. n : c[i] = IF i <= n - k THEN a[i] ELSE b[i - (n - k)]
    <3>1. c \in Seq(Elem) /\ Len(c) = Len(a) + Len(b)
      BY <1>3, <1>4
    <3>2. \A i \in 1 .. Len(a) + Len(b) : c[i] = IF i <= Len(a) THEN a[i] ELSE b[i - Len(a)]
      BY <1>3, <1>4
    <3>3. Len(a) + Len(b) = n /\ Len(a) = n - k
      BY <1>1, <1>3, <1>4
    <3>. HIDE DEF c
    <3>. QED BY <3>1, <3>2, <3>3
  <2>. HIDE DEF c
  <2>2. ASSUME NEW i \in 1 .. n PROVE c[i] = s[i]
    <3>1. CASE i <= n - k
      BY <1>1, <1>3, <2>1, <3>1
    <3>2. CASE ~ (i <= n - k)
      <4>1. i - (n - k) \in 1 .. k /\ n - k + (i - (n - k)) = i
        BY <1>1, <3>2
      <4>2. b[i - (n - k)] = s[n - k + (i - (n - k))]
        BY <1>4, <4>1
      <4>. QED BY <2>1, <3>2, <4>1, <4>2
    <3>. QED BY <3>1, <3>2
  <2>3. c = s
    BY <1>1, <2>1, <2>2 DEF n
  <2>. QED BY <2>3 DEF c
<1>9. Mapped(P) = s
  BY <1>2, <1>5, <1>7, <1>8 DEF Mapped, CleanSlice
<1>10. ToSet(a) \cup ToSet(Reverse(b)) = ToSet(s)
  <2>1. ASSUME NEW i \in 1 .. n PROVE s[i] \in ToSet(a) \cup ToSet(Reverse(b))
    <3>1. CASE i <= n - k
      <4>1. i \in DOMAIN a /\ a[i] = s[i]
        BY <1>1, <1>3, <3>1
      <4>. QED BY <4>1 DEF ToSet
    <3>2. CASE ~ (i <= n - k)
      <4>. DEFINE j == n - i + 1
      <4>1. j \in 1 .. k /\ k - j + 1 \in 1 .. k /\ n - k + (k - j + 1) = i
        BY <1>1, <3>2
      <4>. HIDE DEF j
      <4>2. Reverse(b)[j] = s[i] /\ j \in DOMAIN Reverse(b)
        BY <1>4, <1>6, <4>1
      <4>. QED BY <4>2 DEF ToSet
    <3>. QED BY <3>1, <3>2
  <2>2. ASSUME NEW x \in ToSet(a) PROVE x \in ToSet(s)
    <3>1. PICK i \in 1 .. n - k : x = a[i]
      BY <1>3 DEF ToSet
    <3>2. i \in 1 .. n /\ x = s[i]
      BY <1>1, <1>3, <3>1
    <3>. QED BY <1>1, <3>2 DEF ToSet, n
  <2>3. ASSUME NEW x \in ToSet(Reverse(b)) PROVE x \in ToSet(s)
    <3>1. PICK i \in 1 .. k : x = Reverse(b)[i]
      BY <1>6 DEF ToSet
    <3>2. k - i + 1 \in 1 .. k /\ n - k + (k - i + 1) \in 1 .. n
      BY <1>1
    <3>3. x = s[n - k + (k - i + 1)]
      BY <1>4, <1>6, <3>1, <3>2
    <3>. QED BY <1>1, <3>2, <3>3 DEF ToSet, n
  <2>4. \A x \in ToSet(s) : \E i \in 1 .. n : x = s[i]
    BY <1>1 DEF ToSet, n
  <2>. QED BY <2>1, <2>2, <2>3, <2>4
<1>11. Owned(a) \cup Owned(Reverse(b)) = Owned(s)
  BY <1>10 DEF Owned
<1>12. Owned(<<>>) = {}
  BY DEF Owned, ToSet
<1>13. LayoutFrees(P) = LayoutFrees(L)
  BY <1>1, <1>2, <1>11, <1>12 DEF LayoutFrees, s
<1>. QED
  BY <1>9, <1>13 DEF P, s

(* realloc_func when the range shrinks. *)
LEMMA ShrunkMapped ==
  ASSUME NEW L, Synced(L), NEW m \in Nat, m < Size(L.data)
  PROVE  /\ Shrunk(L, m) \in Layouts /\ Mapped(Shrunk(L, m)) = L.data
         /\ Shrunk(L, m).atype = L.atype /\ LayoutFrees(Shrunk(L, m)) = LayoutFrees(L)
<1>. DEFINE s == L.data
            n == Len(s)
            drop(k) == Size(SubSeq(s, n - k + 1, n))
            ks == {k \in 0 .. n : drop(k) < Size(s) - m}
            Pops(w) == w = [k \in 0 .. n |-> IF k = 0 THEN L ELSE PopDelete(w[k - 1])]
<1>1. L \in Layouts /\ s \in Seq(Elem) /\ n \in Nat /\ L.que = <<>> /\ L.dirty = n
  BY DEF Synced, Layouts, Elems
<1>2. 0 \in ks
  <2>1. n - 0 + 1 = n + 1
    BY <1>1
  <2>2. SubSeq(s, n - 0 + 1, n) = <<>>
    BY <1>1, <2>1, Slices
  <2>3. drop(0) = 0 /\ Size(s) \in Nat
    BY <1>1, <2>2, SizeShort, SizeOf
  <2>. QED BY <1>1, <2>3
<1>3. ks \subseteq 0 .. n
  OBVIOUS
<1>. DEFINE k == Max(ks)
<1>4. k \in 0 .. n
  <2>. HIDE DEF ks
  <2>. QED BY <1>1, <1>2, <1>3, Greatest
<1>5. Popped(L, 0) = L
  <2>. DEFINE P == Popped(L, 0)
  <2>1. 0 \in 0 .. Len(L.data) /\ n - 0 = n /\ n - 0 + 1 = n + 1
    BY <1>1
  <2>2. P \in Layouts
    BY <2>1, PoppedLayout
  <2>3. /\ P.data = SubSeq(s, 1, n - 0) /\ P.que = Reverse(SubSeq(s, n - 0 + 1, n))
        /\ P.dirty = n - 0 /\ P.clean = L.clean /\ P.atype = L.atype
    BY DEF Popped
  <2>. HIDE DEF P
  <2>4. P.data = s /\ P.que = <<>> /\ P.dirty = n
    BY <1>1, <2>1, <2>3, Slices
  <2>5. P = L
    BY <1>1, <2>2, <2>3, <2>4, SameLayout
  <2>. QED BY <2>5 DEF P
<1>. DEFINE g == [j \in 0 .. n |-> Popped(L, j)]
<1>6. Pops(g)
  <2>1. \A j \in 0 .. n : j # 0 => PopDelete(g[j - 1]) = Popped(L, j)
    <3>. SUFFICES ASSUME NEW j \in 0 .. n, j # 0 PROVE PopDelete(g[j - 1]) = Popped(L, j)
      OBVIOUS
    <3>1. j \in 1 .. Len(L.data) /\ g[j - 1] = Popped(L, j - 1)
      BY <1>1
    <3>. QED BY <3>1, PopOne
  <2>. QED BY <1>5, <2>1
<1>. HIDE DEF g, ks
<1>7. Shrunk(L, m) = (CHOOSE w : Pops(w))[k]
  BY DEF Shrunk, ks
<1>8. PICK w : Pops(w) /\ Shrunk(L, m) = w[k]
  <2>. HIDE DEF Pops
  <2>. QED BY <1>6, <1>7
<1>9. w[k] = Popped(L, k)
  <2>. DEFINE T == {j \in 0 .. n : w[j] # Popped(L, j)}
  <2>. SUFFICES ASSUME T # {} PROVE FALSE
    BY <1>4
  <2>1. T \subseteq Nat
    OBVIOUS
  <2>2. PICK j \in T : \A y \in T : j <= y
    <3>. HIDE DEF T
    <3>. QED BY <2>1, Least
  <2>3. w[0] = L
    BY <1>1, <1>8
  <2>4. j \in 0 .. n /\ w[j] # Popped(L, j)
    OBVIOUS
  <2>5. j # 0
    BY <1>5, <2>3, <2>4
  <2>6. j \in 1 .. Len(L.data) /\ j - 1 \in 0 .. n /\ j - 1 \notin T
    <3>. HIDE DEF T
    <3>. QED BY <1>1, <2>2, <2>4, <2>5
  <2>7. w[j - 1] = Popped(L, j - 1)
    BY <2>6
  <2>8. w[j] = PopDelete(w[j - 1])
    BY <1>8, <2>4, <2>5
  <2>9. PopDelete(Popped(L, j - 1)) = Popped(L, j)
    BY <2>6, PopOne
  <2>. HIDE DEF T
  <2>. QED BY <2>4, <2>7, <2>8, <2>9
<1>. HIDE DEF k
<1>10. Popped(L, k).atype = L.atype
  BY DEF Popped
<1>. QED
  BY <1>4, <1>8, <1>9, <1>10, PoppedLayout, PoppedMapped

-----------------------------------------------------------------------------
(* Ranges.                                                                 *)

(* A range of pages that a process may have: page 0 is not part of it. *)
Ranges == {z \in [addr : Nat, size : Nat] : z.addr >= 1 /\ z.size >= 1 /\ End(z) <= MaxMap}

Apart(y, z) == End(y) <= z.addr \/ End(z) <= y.addr

(* The ranges of a map are apart. *)
Tiled(m) ==
  /\ DOMAIN m \subseteq Ranges
  /\ \A y, z \in DOMAIN m : y # z => Apart(y, z)

(* Different ranges of a map start at different pages, in the order in     *)
(* which they end.                                                         *)
LEMMA RangeOrder ==
  ASSUME NEW m, Tiled(m), NEW y \in DOMAIN m, NEW z \in DOMAIN m, y # z
  PROVE  /\ y.addr \in Nat /\ y.size \in Nat /\ End(y) \in Nat /\ y.addr < End(y)
         /\ z.addr \in Nat /\ z.size \in Nat /\ End(z) \in Nat /\ z.addr < End(z)
         /\ y.addr # z.addr /\ (y.addr < z.addr => End(y) <= z.addr)
<1>1. /\ y.addr \in Nat /\ y.size \in Nat /\ y.size >= 1 /\ End(y) = y.addr + y.size
      /\ z.addr \in Nat /\ z.size \in Nat /\ z.size >= 1 /\ End(z) = z.addr + z.size
  BY DEF Tiled, Ranges, End
<1>2. Apart(y, z)
  BY DEF Tiled
<1>. QED
  BY <1>1, <1>2 DEF Apart

(* The range above z in the order of the map, if there is one, tells that  *)
(* z ends before all of them.                                              *)
LEMMA AboveApart ==
  ASSUME Tiled(vmap), NEW z \in [addr : Nat, size : Nat], NEW x, FreeSpace(z, x),
         NEW y \in Zones, ~ Less(y, z)
  PROVE  End(z) <= y.addr
<1>. DEFINE U == {w \in Zones : ~ Less(w, z)}
            T == {w.addr : w \in U}
<1>1. \A w \in Zones : w.addr \in Nat /\ w.size \in Nat
  BY DEF Tiled, Ranges, Zones
<1>2. T \subseteq Nat /\ y.addr \in T
  BY <1>1
<1>3. PICK a \in T : \A b \in T : a <= b
  <2>. HIDE DEF T
  <2>. QED BY <1>2, Least
<1>4. PICK w \in U : a = w.addr
  OBVIOUS
<1>5. \A v \in U : w.addr <= v.addr
  BY <1>3, <1>4
<1>6. ASSUME NEW v \in Zones, ~ Less(v, z) PROVE ~ Less(v, w)
  <2>1. v \in U /\ w \in Zones /\ v \in Zones
    BY <1>6
  <2>2. CASE v = w
    BY <1>1, <2>1, <2>2 DEF Less
  <2>3. CASE v # w
    <3>1. v.addr # w.addr
      BY <2>1, <2>3, RangeOrder DEF Zones
    <3>. QED BY <1>1, <1>5, <2>1, <3>1 DEF Less
  <2>. QED BY <2>2, <2>3
<1>7. End(z) <= w.addr
  BY <1>6 DEF FreeSpace
<1>8. w.addr <= y.addr
  BY <1>5
<1>9. End(z) \in Nat /\ w.addr \in Nat /\ y.addr \in Nat
  BY <1>1 DEF End
<1>. QED
  BY <1>7, <1>8, <1>9

(* The same for the range below. *)
LEMMA BelowApart ==
  ASSUME Tiled(vmap), NEW z \in [addr : Nat, size : Nat], NEW x, FreeSpace(z, x),
         NEW y \in Zones \ x, Less(y, z)
  PROVE  End(y) <= z.addr
<1>. DEFINE U == {w \in Zones \ x : Less(w, z)}
            T == {MaxMap - w.addr : w \in U}
<1>1. \A w \in Zones : w.addr \in Nat /\ w.size \in Nat /\ MaxMap - w.addr \in Nat /\ End(w) \in Nat
                       /\ w.addr <= End(w)
  BY AddressSpaceConstants DEF Tiled, Ranges, Zones, End
<1>2. T \subseteq Nat /\ MaxMap - y.addr \in T
  BY <1>1
<1>3. PICK a \in T : \A b \in T : a <= b
  <2>. HIDE DEF T
  <2>. QED BY <1>2, Least
<1>4. PICK w \in U : a = MaxMap - w.addr
  OBVIOUS
<1>5. ASSUME NEW v \in U PROVE v.addr <= w.addr
  <2>1. MaxMap - w.addr <= MaxMap - v.addr
    BY <1>3, <1>4
  <2>2. w.addr \in Nat /\ v.addr \in Nat /\ MaxMap \in Nat
    BY <1>1, AddressSpaceConstants
  <2>. QED BY <2>1, <2>2
<1>6. ASSUME NEW v \in Zones \ x, Less(v, z) PROVE ~ Less(w, v)
  <2>1. v \in U /\ w \in Zones /\ v \in Zones
    BY <1>6
  <2>2. CASE v = w
    BY <1>1, <2>1, <2>2 DEF Less
  <2>3. CASE v # w
    <3>1. v.addr # w.addr
      BY <2>1, <2>3, RangeOrder DEF Zones
    <3>. QED BY <1>1, <1>5, <2>1, <3>1 DEF Less
  <2>. QED BY <2>2, <2>3
<1>7. End(w) <= z.addr
  BY <1>6 DEF FreeSpace
<1>8. y \in U /\ y \in Zones /\ w \in Zones
  OBVIOUS
<1>9. CASE y = w
  BY <1>7, <1>9
<1>10. CASE y # w
  <2>1. y.addr < w.addr /\ End(y) <= w.addr
    BY <1>1, <1>5, <1>8, <1>10, RangeOrder DEF Zones
  <2>2. w.addr <= End(w) /\ w.addr \in Nat /\ End(w) \in Nat /\ End(y) \in Nat /\ z.addr \in Nat
    BY <1>1, <1>8
  <2>. QED BY <1>7, <2>1, <2>2
<1>. QED
  BY <1>9, <1>10

(* free_space only accepts a range that is apart from all others: the      *)
(* tests of the two neighbours are enough.                                 *)
LEMMA FreeSpaceApart ==
  ASSUME Tiled(vmap), NEW z \in [addr : Nat, size : Nat], z.size >= 1, NEW x, FreeSpace(z, x)
  PROVE  z \in Ranges /\ \A y \in Zones \ x : Apart(y, z)
<1>1. \A y \in Zones \ x : Apart(y, z)
  BY AboveApart, BelowApart DEF Apart
<1>2. End(z) <= MaxMap
  <2>1. CASE \A y \in Zones : Less(y, z)
    BY <2>1 DEF FreeSpace
  <2>2. CASE \E y \in Zones : ~ Less(y, z)
    <3>1. PICK y \in Zones : ~ Less(y, z)
      BY <2>2
    <3>2. End(z) <= y.addr
      BY <3>1, AboveApart
    <3>3. y.addr \in Nat /\ y.size \in Nat /\ y.addr + y.size <= MaxMap /\ End(z) \in Nat /\ MaxMap \in Nat
      BY AddressSpaceConstants DEF Tiled, Ranges, Zones, End
    <3>. QED BY <3>2, <3>3
  <2>. QED BY <2>1, <2>2
<1>. QED
  BY <1>1, <1>2 DEF FreeSpace, Ranges

(* And find_range only finds such a range. *)
LEMMA FindRangeApart ==
  ASSUME Tiled(vmap), NEW n \in Nat, n >= 1, Candidates(n) # {}
  PROVE  /\ FindRange(n) \in Ranges /\ FindRange(n).size = n
         /\ \A y \in Zones : Apart(y, FindRange(n))
<1>. DEFINE C == Candidates(n)
            a == Min(C)
            z == FindRange(n)
<1>1. \A w \in Zones : w.addr \in Nat /\ w.size \in Nat /\ End(w) \in Nat /\ w.addr >= 1
                       /\ w.addr < End(w)
  BY DEF Tiled, Ranges, Zones, End
<1>2. C \subseteq Nat /\ C # {}
  BY <1>1 DEF Candidates
<1>3. a \in C
  <2>. HIDE DEF C
  <2>1. \E w \in C : \A y \in C : w <= y
    BY <1>2, Least
  <2>. QED BY <2>1 DEF Min
<1>4. /\ a \in Nat /\ (a = 1 \/ \E w \in Zones : a = End(w)) /\ Gap(a, n)
  BY <1>2, <1>3 DEF Candidates
<1>. HIDE DEF C, a
<1>5. z = [addr |-> a, size |-> n] /\ End(z) = a + n
  BY DEF FindRange, VirtRange, End, a, C
<1>6. a >= 1 /\ a + n <= MaxMap
  BY <1>1, <1>4, AddressSpaceConstants DEF Gap
<1>7. ASSUME NEW y \in Zones PROVE Apart(y, z)
  <2>1. CASE y.addr >= a
    BY <1>1, <1>4, <1>5, <2>1 DEF Gap, Apart
  <2>2. CASE y.addr < a
    <3>1. PICK w \in Zones : a = End(w)
      BY <1>1, <1>4, <2>2
    <3>2. CASE y = w
      BY <1>1, <1>4, <1>5, <3>1, <3>2 DEF Apart
    <3>3. CASE y # w
      <4>1. Apart(y, w)
        BY <3>3 DEF Tiled, Zones
      <4>. QED BY <1>1, <1>4, <1>5, <2>2, <3>1, <4>1 DEF Apart
    <3>. QED BY <3>2, <3>3
  <2>. QED BY <1>1, <1>4, <2>1, <2>2
<1>. HIDE DEF z
<1>. QED
  BY <1>4, <1>5, <1>6, <1>7 DEF Ranges, z

-----------------------------------------------------------------------------
(* A map of ranges and page tables that agree.                             *)

(* What the elements of every range have mapped is as large as the range. *)
Laid(m) ==
  \A z \in DOMAIN m :
    m[z] \in Layouts /\ Mapped(m[z]) \in Seq(Elem) /\ Size(Mapped(m[z])) = z.size

ZoneCells(m, z) == Cells(Mapped(m[z]), z.addr)
Table(m) == UNION {ZoneCells(m, z) : z \in DOMAIN m}

MapInv(m, p) == Tiled(m) /\ Laid(m) /\ p = Table(m)

(* The entries of a range are for its pages. *)
LEMMA ZoneCellIn ==
  ASSUME NEW m, Tiled(m), Laid(m), NEW z \in DOMAIN m, NEW c \in ZoneCells(m, z)
  PROVE  /\ c.page \in Nat /\ z.addr <= c.page /\ c.page < End(z) /\ c.blk \in Block
         /\ z.addr \in Nat /\ z.size \in Nat /\ z.addr >= 1 /\ End(z) = z.addr + z.size
         /\ End(z) <= MaxMap
<1>1. /\ z.addr \in Nat /\ z.size \in Nat /\ z.addr >= 1 /\ End(z) = z.addr + z.size /\ End(z) <= MaxMap
      /\ Mapped(m[z]) \in Seq(Elem) /\ Size(Mapped(m[z])) = z.size
  BY DEF Tiled, Ranges, Laid, End
<1>2. c \in Cells(Mapped(m[z]), z.addr)
  BY DEF ZoneCells
<1>. QED
  BY <1>1, <1>2, CellsIn

(* And the page of an entry tells the range that it belongs to. *)
LEMMA ZoneOfPage ==
  ASSUME NEW m, Tiled(m), Laid(m), NEW y \in DOMAIN m, NEW z \in Ranges,
         Apart(y, z) \/ (z \in DOMAIN m /\ y # z),
         NEW c \in ZoneCells(m, y)
  PROVE  ~ (z.addr <= c.page /\ c.page < End(z))
<1>1. Apart(y, z)
  BY DEF Tiled
<1>2. /\ c.page \in Nat /\ y.addr <= c.page /\ c.page < End(y) /\ y.addr \in Nat /\ End(y) = y.addr + y.size
      /\ y.size \in Nat
  BY ZoneCellIn
<1>3. z.addr \in Nat /\ z.size \in Nat /\ End(z) = z.addr + z.size
  BY DEF Ranges, End
<1>. QED
  BY <1>1, <1>2, <1>3 DEF Apart

(* The entries of the tables. *)
LEMMA TableCell ==
  ASSUME NEW m, NEW p, MapInv(m, p)
  PROVE  /\ \A c \in p : \E z \in DOMAIN m : c \in ZoneCells(m, z)
         /\ \A z \in DOMAIN m : ZoneCells(m, z) \subseteq p
BY DEF MapInv, Table

(* A page has one entry. *)
LEMMA TableOnce ==
  ASSUME NEW m, NEW p, MapInv(m, p), NEW c \in p, NEW d \in p, c.page = d.page
  PROVE  c = d
<1>1. PICK y \in DOMAIN m : c \in ZoneCells(m, y)
  BY TableCell
<1>2. PICK z \in DOMAIN m : d \in ZoneCells(m, z)
  BY TableCell
<1>3. Tiled(m) /\ Laid(m) /\ z \in Ranges
  BY DEF MapInv, Tiled
<1>4. z.addr <= d.page /\ d.page < End(z)
  BY <1>2, <1>3, ZoneCellIn
<1>5. y = z
  BY <1>1, <1>3, <1>4, ZoneOfPage
<1>6. Mapped(m[z]) \in Seq(Elem) /\ z.addr \in Nat
  BY <1>3 DEF Laid, Ranges
<1>. QED
  BY <1>1, <1>2, <1>5, <1>6, CellsOnce DEF ZoneCells

(* The tables have no more entries than pages. *)
LEMMA TableCardinality ==
  ASSUME NEW m, NEW p, MapInv(m, p)
  PROVE  Cardinality(PagesOf(p)) = Cardinality(p)
<1>. DEFINE S == PagesOf(p)
<1>1. S \subseteq 0 .. MaxMap
  <2>. SUFFICES ASSUME NEW c \in p PROVE c.page \in 0 .. MaxMap
    BY DEF PagesOf
  <2>1. PICK z \in DOMAIN m : c \in ZoneCells(m, z)
    BY TableCell
  <2>2. Tiled(m) /\ Laid(m)
    BY DEF MapInv
  <2>3. /\ c.page \in Nat /\ c.page < End(z) /\ z.addr \in Nat /\ z.size \in Nat
        /\ End(z) = z.addr + z.size /\ End(z) <= MaxMap
    BY <2>1, <2>2, ZoneCellIn
  <2>. QED BY <2>3, AddressSpaceConstants
<1>2. IsFiniteSet(0 .. MaxMap)
  <2>1. 0 \in Int /\ MaxMap \in Int
    BY AddressSpaceConstants
  <2>. QED BY <2>1, FS_Interval
<1>3. IsFiniteSet(S)
  BY <1>1, <1>2, FS_Subset
<1>. DEFINE g == [a \in S |-> CHOOSE c \in p : c.page = a]
<1>4. ASSUME NEW a \in S PROVE g[a] \in p /\ g[a].page = a
  <2>1. \E c \in p : c.page = a
    BY DEF PagesOf
  <2>. QED BY <2>1
<1>5. g \in Bijection(S, p)
  <2>1. g \in [S -> p]
    BY <1>4
  <2>2. \A a, b \in S : g[a] = g[b] => a = b
    BY <1>4
  <2>3. ASSUME NEW c \in p PROVE \E a \in S : g[a] = c
    <3>1. c.page \in S
      BY DEF PagesOf
    <3>2. g[c.page] \in p /\ g[c.page].page = c.page
      BY <1>4, <3>1
    <3>3. g[c.page] = c
      BY <3>2, TableOnce
    <3>. QED BY <3>1, <3>3
  <2>. HIDE DEF g, S
  <2>4. g \in Injection(S, p)
    BY <2>1, <2>2 DEF Injection, IsInjective
  <2>5. g \in Surjection(S, p)
    BY <2>1, <2>3 DEF Surjection
  <2>. QED BY <2>4, <2>5 DEF Bijection
<1>. HIDE DEF g, S
<1>6. ExistsBijection(S, p)
  BY <1>5 DEF ExistsBijection
<1>7. Cardinality(S) = Cardinality(p)
  BY <1>3, <1>6, FS_Bijection
<1>. QED
  BY <1>7 DEF S

(* A layout of which nothing is mapped gets a free range. *)
LEMMA AddZone ==
  ASSUME NEW m, NEW p, MapInv(m, p), NEW L, Fresh(L), NEW z \in Ranges,
         z.size = Size(L.data), \A y \in DOMAIN m : Apart(y, z)
  PROVE  /\ z \notin DOMAIN m
         /\ MapInv(WithZone(m, L, z), MapInternal(p, {}, IterMaps(L, z)))
         /\ MapInternal(p, IterUnmaps(L, z), IterMaps(L, z)) = MapInternal(p, {}, IterMaps(L, z))
         /\ MapInternal(p, {}, IterMaps(L, z)) = p \cup Cells(L.data, z.addr)
         /\ DOMAIN WithZone(m, L, z) = DOMAIN m \cup {z}
         /\ WithZone(m, L, z)[z] = SyncMem(L)
         /\ \A y \in DOMAIN m : WithZone(m, L, z)[y] = m[y]
<1>. DEFINE M == WithZone(m, L, z)
            C == Cells(L.data, z.addr)
<1>1. /\ z.addr \in Nat /\ z.size \in Nat /\ z.size >= 1 /\ z.addr >= 1
      /\ End(z) = z.addr + z.size /\ End(z) <= MaxMap
  BY DEF Ranges, End
<1>2. /\ IterUnmaps(L, z) = {} /\ IterMaps(L, z) = C
      /\ Synced(SyncMem(L)) /\ Mapped(SyncMem(L)) = L.data
  BY <1>1, FreshMaps
<1>3. z \notin DOMAIN m
  <2>. SUFFICES ASSUME z \in DOMAIN m PROVE FALSE
    OBVIOUS
  <2>1. Apart(z, z)
    OBVIOUS
  <2>. QED BY <1>1, <2>1 DEF Apart
<1>4. /\ DOMAIN M = DOMAIN m \cup {z} /\ M[z] = SyncMem(L)
      /\ \A y \in DOMAIN m : M[y] = m[y]
  BY <1>3 DEF WithZone
<1>5. MapInternal(p, {}, IterMaps(L, z)) = p \cup C
  BY <1>2 DEF MapInternal
<1>. HIDE DEF M
<1>6. Tiled(M)
  <2>1. DOMAIN M \subseteq Ranges
    BY <1>4 DEF MapInv, Tiled
  <2>2. ASSUME NEW x \in DOMAIN M, NEW y \in DOMAIN M, x # y PROVE Apart(x, y)
    BY <1>4, <2>2 DEF MapInv, Tiled, Apart
  <2>. QED BY <2>1, <2>2 DEF Tiled
<1>7. Laid(M)
  <2>1. SyncMem(L) \in Layouts /\ L.data \in Seq(Elem)
    BY <1>2 DEF Synced, Fresh, Layouts, Elems
  <2>2. M[z] \in Layouts /\ Mapped(M[z]) \in Seq(Elem) /\ Size(Mapped(M[z])) = z.size
    BY <1>2, <1>4, <2>1
  <2>. QED BY <1>4, <2>2 DEF Laid, MapInv
<1>8. p \cup C = Table(M)
  <2>1. \A y \in DOMAIN m : ZoneCells(M, y) = ZoneCells(m, y)
    BY <1>4 DEF ZoneCells
  <2>2. ZoneCells(M, z) = C
    BY <1>2, <1>4 DEF ZoneCells
  <2>3. p = Table(m)
    BY DEF MapInv
  <2>. HIDE DEF C
  <2>. QED BY <1>4, <2>1, <2>2, <2>3 DEF Table
<1>9. MapInv(M, p \cup C)
  BY <1>6, <1>7, <1>8 DEF MapInv
<1>. QED
  BY <1>2, <1>3, <1>4, <1>5, <1>9 DEF M

(* A range goes, with all of its pages and no other. *)
LEMMA RemoveZone ==
  ASSUME NEW m, NEW p, MapInv(m, p), NEW z \in DOMAIN m, Synced(m[z]), NEW U,
         U = PagesOf(Cells(m[z].data, z.addr))
  PROVE  /\ MapInv(WithoutZone(m, z), MapInternal(p, U, {}))
         /\ DOMAIN WithoutZone(m, z) = DOMAIN m \ {z}
         /\ \A y \in DOMAIN m \ {z} : WithoutZone(m, z)[y] = m[y]
<1>. DEFINE M == WithoutZone(m, z)
            q == MapInternal(p, U, {})
<1>1. DOMAIN M = DOMAIN m \ {z} /\ \A y \in DOMAIN m \ {z} : M[y] = m[y]
  BY DEF WithoutZone
<1>2. Tiled(m) /\ Laid(m) /\ z \in Ranges /\ p = Table(m)
  BY DEF MapInv, Tiled
<1>3. Mapped(m[z]) = m[z].data
  BY SyncedUnmaps
<1>4. q = {c \in p : c.page \notin U}
  BY DEF MapInternal
<1>. HIDE DEF M, q
<1>5. Tiled(M) /\ Laid(M)
  BY <1>1, <1>2 DEF Tiled, Laid
<1>6. \A y \in DOMAIN m \ {z} : ZoneCells(M, y) = ZoneCells(m, y)
  BY <1>1 DEF ZoneCells
<1>7. ASSUME NEW c \in ZoneCells(m, z) PROVE c.page \in U
  BY <1>3 DEF ZoneCells, PagesOf
<1>8. ASSUME NEW y \in DOMAIN m \ {z}, NEW c \in ZoneCells(m, y) PROVE c.page \notin U
  <2>. SUFFICES ASSUME c.page \in U PROVE FALSE
    OBVIOUS
  <2>1. PICK d \in ZoneCells(m, z) : d.page = c.page
    BY <1>3 DEF ZoneCells, PagesOf
  <2>2. z.addr <= c.page /\ c.page < End(z)
    BY <1>2, <2>1, ZoneCellIn
  <2>. QED BY <1>2, <2>2, ZoneOfPage
<1>9. q = Table(M)
  <2>1. ASSUME NEW c \in q PROVE c \in Table(M)
    <3>1. c \in p /\ c.page \notin U
      BY <1>4
    <3>2. PICK y \in DOMAIN m : c \in ZoneCells(m, y)
      BY <3>1, TableCell
    <3>3. y # z
      BY <1>7, <3>1, <3>2
    <3>. QED BY <1>1, <1>6, <3>2, <3>3 DEF Table
  <2>2. ASSUME NEW c \in Table(M) PROVE c \in q
    <3>1. PICK y \in DOMAIN m \ {z} : c \in ZoneCells(m, y)
      BY <1>1, <1>6 DEF Table
    <3>2. c \in p
      BY <3>1, TableCell
    <3>. QED BY <1>4, <1>8, <3>1, <3>2
  <2>. QED BY <2>1, <2>2
<1>10. MapInv(M, q)
  BY <1>5, <1>9 DEF MapInv
<1>. QED
  BY <1>1, <1>10 DEF M, q

(* A range moves: L is its layout with what realloc_func has pushed. *)
LEMMA MoveZone ==
  ASSUME NEW m, NEW p, MapInv(m, p), NEW z \in DOMAIN m, Synced(m[z]), NEW L,
         UnmapperUnmaps(L, z) = PagesOf(Cells(m[z].data, z.addr)), Fresh(MarkUnmapped(L)),
         NEW nz \in Ranges, nz.size = Size(MarkUnmapped(L).data),
         \A y \in DOMAIN m \ {z} : Apart(y, nz)
  PROVE  LET M == WithZone(WithoutZone(m, z), MarkUnmapped(L), nz)
         IN /\ MapInv(M, MapInternal(MapInternal(p, UnmapperUnmaps(L, z), {}), {},
                                     IterMaps(MarkUnmapped(L), nz)))
            /\ DOMAIN M = (DOMAIN m \ {z}) \cup {nz} /\ nz \notin DOMAIN m \ {z}
            /\ M[nz] = SyncMem(MarkUnmapped(L))
            /\ \A y \in DOMAIN m \ {z} : M[y] = m[y]
<1>. DEFINE m1 == WithoutZone(m, z)
            p1 == MapInternal(p, UnmapperUnmaps(L, z), {})
            N == MarkUnmapped(L)
<1>1. /\ MapInv(m1, p1) /\ DOMAIN m1 = DOMAIN m \ {z}
      /\ \A y \in DOMAIN m \ {z} : m1[y] = m[y]
  BY RemoveZone
<1>2. Fresh(N) /\ nz.size = Size(N.data)
  OBVIOUS
<1>. HIDE DEF m1, p1, N
<1>3. \A y \in DOMAIN m1 : Apart(y, nz)
  BY <1>1
<1>4. /\ nz \notin DOMAIN m1 /\ MapInv(WithZone(m1, N, nz), MapInternal(p1, {}, IterMaps(N, nz)))
      /\ DOMAIN WithZone(m1, N, nz) = DOMAIN m1 \cup {nz}
      /\ WithZone(m1, N, nz)[nz] = SyncMem(N)
      /\ \A y \in DOMAIN m1 : WithZone(m1, N, nz)[y] = m1[y]
  <2>1. MapInv(m1, p1)
    BY <1>1
  <2>. QED BY ONLY nz \in Ranges, <2>1, <1>2, <1>3, AddZone
<1>. QED
  BY <1>1, <1>4 DEF m1, p1, N

(* A range that grows where it is: to map what was pushed is the same as   *)
(* to unmap all of it and to map it again.                                 *)
LEMMA GrowInPlace ==
  ASSUME NEW m, NEW p, MapInv(m, p), NEW z \in DOMAIN m, Synced(m[z]), NEW e \in Elem,
         NEW nz \in Ranges, nz.addr = z.addr, NEW L, L = PushElement(m[z], e)
  PROVE  /\ MapInternal(p, IterUnmaps(L, nz), IterMaps(L, nz))
              = MapInternal(MapInternal(p, UnmapperUnmaps(L, z), {}), {},
                            IterMaps(MarkUnmapped(L), nz))
         /\ SyncMem(L) = SyncMem(MarkUnmapped(L))
<1>. DEFINE s == m[z].data
            a == z.addr
            C == Cells(s, a)
            E == Cells(<<e>>, a + Size(s))
            U == PagesOf(C)
            N == MarkUnmapped(L)
<1>1. a \in Nat /\ s \in Seq(Elem) /\ Mapped(m[z]) = s
  <2>1. z \in Ranges
    BY DEF MapInv, Tiled
  <2>2. s \in Seq(Elem)
    BY DEF Synced, Layouts, Elems
  <2>. QED BY <2>1, <2>2, SyncedUnmaps DEF Ranges
<1>2. /\ IterUnmaps(L, nz) = {} /\ IterMaps(L, nz) = E
      /\ UnmapperUnmaps(L, z) = U /\ L.data = Append(s, e)
      /\ Synced(SyncMem(L)) /\ SyncMem(L).data = L.data /\ SyncMem(L).atype = m[z].atype
      /\ Fresh(N) /\ N.data = L.data /\ N.atype = m[z].atype
  BY <1>1, PushedMaps
<1>3. /\ IterMaps(N, nz) = Cells(L.data, a) /\ Synced(SyncMem(N)) /\ SyncMem(N).data = L.data
      /\ SyncMem(N).atype = m[z].atype
  <2>. HIDE DEF N
  <2>1. nz.addr \in Nat /\ nz.addr = a
    BY <1>1
  <2>2. /\ IterMaps(N, nz) = Cells(N.data, nz.addr) /\ Synced(SyncMem(N))
        /\ SyncMem(N).data = N.data /\ SyncMem(N).atype = N.atype
    BY <1>2, <2>1, FreshMaps
  <2>. QED BY <1>2, <2>1, <2>2
<1>4. SyncMem(L) = SyncMem(N)
  <2>. DEFINE A == SyncMem(L)
              B == SyncMem(N)
  <2>1. Synced(A) /\ Synced(B) /\ A.data = B.data /\ A.atype = B.atype
    BY <1>2, <1>3
  <2>. HIDE DEF A, B
  <2>2. A \in Layouts /\ B \in Layouts /\ A.que = B.que /\ A.dirty = B.dirty /\ A.clean = B.clean
    BY <2>1 DEF Synced
  <2>3. A = B
    BY <2>1, <2>2, SameLayout
  <2>. QED BY <2>3 DEF A, B
<1>5. Cells(L.data, a) = C \cup E
  BY <1>1, <1>2, CellsAppend
<1>6. ASSUME NEW c \in p, c.page \in U PROVE c \in C
  <2>1. PICK d \in C : d.page = c.page
    BY <1>6 DEF PagesOf
  <2>2. d \in p
    BY <1>1, TableCell DEF ZoneCells
  <2>. QED BY <2>1, <2>2, TableOnce
<1>7. C \subseteq p
  BY <1>1, TableCell DEF ZoneCells
<1>8. MapInternal(p, {}, E) = p \cup E
  BY DEF MapInternal
<1>. HIDE DEF C, E, U, N
<1>9. MapInternal(MapInternal(p, U, {}), {}, C \cup E) = p \cup E
  BY <1>6, <1>7 DEF MapInternal
<1>10. /\ MapInternal(p, IterUnmaps(L, nz), IterMaps(L, nz)) = MapInternal(p, {}, E)
       /\ MapInternal(MapInternal(p, UnmapperUnmaps(L, z), {}), {}, IterMaps(N, nz))
            = MapInternal(MapInternal(p, U, {}), {}, C \cup E)
  BY <1>2, <1>3, <1>5
<1>. QED
  BY <1>4, <1>8, <1>9, <1>10 DEF N

-----------------------------------------------------------------------------
(* Regions.                                                                *)

(* The region of a range, from its layout alone. *)
Region(m, z) ==
  [addr |-> z.addr, pages |-> [i \in 1 .. z.size |-> Contents(ZoneCells(m, z), z.addr, i)]]

RegionsOf(m) == {Region(m, z) : z \in DOMAIN m}

(* What the tables have for a range is what its layout says. *)
LEMMA RegionTable ==
  ASSUME MapInv(vmap, pt)
  PROVE  {RegionOf(z) : z \in Zones} = RegionsOf(vmap)
<1>. SUFFICES ASSUME NEW z \in Zones PROVE RegionOf(z) = Region(vmap, z)
  BY DEF RegionsOf, Zones
<1>1. Tiled(vmap) /\ Laid(vmap) /\ z \in DOMAIN vmap /\ z \in Ranges
  BY DEF MapInv, Tiled, Zones
<1>2. z.addr \in Nat /\ z.size \in Nat /\ End(z) = z.addr + z.size
  BY <1>1 DEF Ranges, End
<1>3. ASSUME NEW i \in 1 .. z.size
      PROVE  Contents(pt, z.addr, i) = Contents(ZoneCells(vmap, z), z.addr, i)
  <2>1. ZoneCells(vmap, z) \subseteq pt
    BY <1>1, TableCell
  <2>2. ASSUME NEW c \in pt, c.page = z.addr + i - 1 PROVE c \in ZoneCells(vmap, z)
    <3>1. PICK y \in DOMAIN vmap : c \in ZoneCells(vmap, y)
      BY TableCell
    <3>2. z.addr <= c.page /\ c.page < End(z)
      BY <1>2, <2>2
    <3>3. y = z
      BY <1>1, <3>1, <3>2, ZoneOfPage
    <3>. QED BY <3>1, <3>3
  <2>. QED BY <2>1, <2>2 DEF Contents
<1>4. \A i \in 1 .. z.size :
        {<<c.blk, c.off>> : c \in {d \in pt : d.page = z.addr + i - 1}} = Contents(ZoneCells(vmap, z), z.addr, i)
  BY <1>3 DEF Contents
<1>. QED
  BY <1>4 DEF RegionOf, Region

(* A region is a run of pages that are apart from the ones of the others. *)
LEMMA RegionFits ==
  ASSUME NEW m, Tiled(m), NEW z \in DOMAIN m
  PROVE  /\ R!Fits(Region(m, z), {Region(m, y) : y \in DOMAIN m \ {z}})
         /\ Len(Region(m, z).pages) = z.size /\ Region(m, z).addr = z.addr
<1>1. \A y \in DOMAIN m : /\ Len(Region(m, y).pages) = y.size /\ Region(m, y).addr = y.addr
                          /\ R!Span(Region(m, y)) = y.addr .. y.addr + y.size - 1
  <2>. SUFFICES ASSUME NEW y \in DOMAIN m
                PROVE  /\ Len(Region(m, y).pages) = y.size /\ Region(m, y).addr = y.addr
                       /\ R!Span(Region(m, y)) = y.addr .. y.addr + y.size - 1
    OBVIOUS
  <2>1. y.size \in Nat
    BY DEF Tiled, Ranges
  <2>2. Len(Region(m, y).pages) = y.size /\ Region(m, y).addr = y.addr
    BY <2>1 DEF Region
  <2>. QED BY <2>2 DEF R!Span
<1>2. z.addr \in Nat /\ z.size \in Nat /\ z.addr >= 1 /\ z.size >= 1 /\ z.addr + z.size <= MaxMap
  BY DEF Tiled, Ranges, End
<1>3. ASSUME NEW y \in DOMAIN m \ {z}
      PROVE  (z.addr .. z.addr + z.size - 1) \cap (y.addr .. y.addr + y.size - 1) = {}
  <2>1. Apart(y, z) /\ y.addr \in Nat /\ y.size \in Nat
    BY DEF Tiled, Ranges
  <2>2. y.addr + y.size <= z.addr \/ z.addr + z.size <= y.addr
    BY <2>1 DEF Apart, End
  <2>. QED BY <1>2, <2>1, <2>2
<1>4. R!Fits(Region(m, z), {Region(m, y) : y \in DOMAIN m \ {z}})
  <2>. DEFINE r == Region(m, z)
  <2>1. Len(r.pages) > 0 /\ r.addr >= 1 /\ r.addr + Len(r.pages) <= MaxMap
    BY <1>1, <1>2
  <2>2. ASSUME NEW y \in DOMAIN m \ {z} PROVE R!Span(r) \cap R!Span(Region(m, y)) = {}
    <3>1. /\ R!Span(r) = z.addr .. z.addr + z.size - 1
          /\ R!Span(Region(m, y)) = y.addr .. y.addr + y.size - 1
      BY <1>1
    <3>. QED BY <1>3, <3>1
  <2>. HIDE DEF r
  <2>3. \A x \in {Region(m, y) : y \in DOMAIN m \ {z}} : R!Span(r) \cap R!Span(x) = {}
    BY <2>2
  <2>4. R!Fits(r, {Region(m, y) : y \in DOMAIN m \ {z}})
    BY <2>1, <2>3 DEF R!Fits
  <2>. QED BY <2>4 DEF r
<1>. QED
  BY <1>1, <1>4

(* Different ranges are different regions. *)
LEMMA RegionDistinct ==
  ASSUME NEW m, Tiled(m), NEW z \in DOMAIN m
  PROVE  {Region(m, y) : y \in DOMAIN m \ {z}} = RegionsOf(m) \ {Region(m, z)}
<1>1. ASSUME NEW y \in DOMAIN m \ {z} PROVE Region(m, y) # Region(m, z)
  <2>1. y.addr # z.addr
    BY RangeOrder
  <2>2. Region(m, y).addr = y.addr /\ Region(m, z).addr = z.addr
    BY DEF Region
  <2>. QED BY <2>1, <2>2
<1>. QED
  BY <1>1 DEF RegionsOf

(* A region appears. *)
LEMMA RegionMapped ==
  ASSUME NEW m, NEW n, Tiled(n), NEW z, z \notin DOMAIN m, DOMAIN n = DOMAIN m \cup {z},
         \A y \in DOMAIN m : n[y] = m[y]
  PROVE  /\ R!Fits(Region(n, z), RegionsOf(m)) /\ RegionsOf(n) = RegionsOf(m) \cup {Region(n, z)}
<1>1. \A y \in DOMAIN m : Region(n, y) = Region(m, y)
  BY DEF Region, ZoneCells
<1>2. {Region(n, y) : y \in DOMAIN n \ {z}} = RegionsOf(m)
  <2>1. DOMAIN n \ {z} = DOMAIN m
    OBVIOUS
  <2>. QED BY <1>1, <2>1 DEF RegionsOf
<1>3. RegionsOf(n) = RegionsOf(m) \cup {Region(n, z)}
  BY <1>1 DEF RegionsOf
<1>. QED
  BY <1>2, <1>3, RegionFits

(* A region disappears. *)
LEMMA RegionUnmapped ==
  ASSUME NEW m, Tiled(m), NEW n, NEW z \in DOMAIN m, DOMAIN n = DOMAIN m \ {z},
         \A y \in DOMAIN m \ {z} : n[y] = m[y]
  PROVE  RegionsOf(n) = RegionsOf(m) \ {Region(m, z)}
<1>1. \A y \in DOMAIN n : Region(n, y) = Region(m, y)
  BY DEF Region, ZoneCells
<1>2. RegionsOf(n) = {Region(m, y) : y \in DOMAIN m \ {z}}
  BY <1>1 DEF RegionsOf
<1>. QED
  BY <1>2, RegionDistinct

(* A region moves, or grows. *)
LEMMA RegionMoved ==
  ASSUME NEW m, Tiled(m), NEW n, Tiled(n), NEW z \in DOMAIN m, NEW nz, nz \notin DOMAIN m \ {z},
         DOMAIN n = (DOMAIN m \ {z}) \cup {nz}, \A y \in DOMAIN m \ {z} : n[y] = m[y]
  PROVE  /\ R!Fits(Region(n, nz), RegionsOf(m) \ {Region(m, z)})
         /\ RegionsOf(n) = (RegionsOf(m) \ {Region(m, z)}) \cup {Region(n, nz)}
<1>. DEFINE k == WithoutZone(m, z)
<1>1. DOMAIN k = DOMAIN m \ {z} /\ \A y \in DOMAIN m \ {z} : k[y] = m[y]
  BY DEF WithoutZone
<1>. HIDE DEF k
<1>2. RegionsOf(k) = RegionsOf(m) \ {Region(m, z)}
  BY <1>1, RegionUnmapped
<1>3. /\ R!Fits(Region(n, nz), RegionsOf(k)) /\ RegionsOf(n) = RegionsOf(k) \cup {Region(n, nz)}
  BY <1>1, RegionMapped
<1>. QED
  BY <1>2, <1>3

(* What is pushed to a layout leaves the contents of the pages before it   *)
(* as they are, wherever it is mapped.                                     *)
LEMMA ContentsKept ==
  ASSUME NEW s \in Seq(Elem), NEW a \in Nat, NEW b \in Nat, NEW i \in 1 .. Size(s)
  PROVE  /\ Contents(Cells(s, a), a, i) = Contents(Cells(s, b), b, i)
         /\ \A e \in Elem : Contents(Cells(Append(s, e), b), b, i) = Contents(Cells(s, a), a, i)
<1>1. i \in Nat /\ Size(s) \in Nat
  BY SizeOf
<1>2. Contents(Cells(s, a), a, i) = Contents(Cells(s, b), b, i)
  <2>1. Contents(Cells(s, a), a, i) \subseteq Contents(Cells(s, b), b, i)
    BY ONLY <1>1, s \in Seq(Elem), a \in Nat, b \in Nat, ContentsMove
  <2>2. Contents(Cells(s, b), b, i) \subseteq Contents(Cells(s, a), a, i)
    BY ONLY <1>1, s \in Seq(Elem), a \in Nat, b \in Nat, ContentsMove
  <2>. QED BY ONLY <2>1, <2>2
<1>3. ASSUME NEW e \in Elem
      PROVE  Contents(Cells(Append(s, e), b), b, i) = Contents(Cells(s, b), b, i)
  <2>. DEFINE o == <<e>>
  <2>1. Cells(Append(s, e), b) = Cells(s, b) \cup Cells(o, b + Size(s))
    BY CellsAppend
  <2>2. o \in Seq(Elem) /\ b + Size(s) \in Nat
    BY <1>1
  <2>. HIDE DEF o
  <2>3. ASSUME NEW c \in Cells(o, b + Size(s)) PROVE c.page # b + i - 1
    <3>1. c.page \in Nat /\ b + Size(s) <= c.page
      BY <2>2, CellsIn
    <3>. QED BY <1>1, <3>1
  <2>. QED BY <2>1, <2>3 DEF Contents
<1>. QED
  BY <1>2, <1>3
=============================================================================
