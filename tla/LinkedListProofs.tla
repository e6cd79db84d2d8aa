-------------------------- MODULE LinkedListProofs --------------------------
(***************************************************************************)
(* Proofs about module LinkedList, for any lists and any nodes.            *)
(***************************************************************************)
EXTENDS LinkedList, WellFoundedInduction, TLAPS

-----------------------------------------------------------------------------
(* The inductive invariant.                                                *)

ListHead == [start : Node \cup {Nil}, end : Node \cup {Nil}, len : Nat]

ListTypes ==
  /\ lst \in [List -> ListHead]
  /\ prev \in [Node -> Node \cup {Nil, Gone}]
  /\ next \in [Node -> Node \cup {Nil, Gone}]
  /\ content \in [List -> Seq(Node)]

(* A node is in one list, and there once. *)
Apart(c) ==
  \A l, m \in List : \A i \in 1 .. Len(c[l]), j \in 1 .. Len(c[m]) :
    c[l][i] = c[m][j] => l = m /\ i = j

(* f and b are the links along the sequence c. *)
Chain(c, f, b) ==
  \A i \in 1 .. Len(c) :
    /\ f[c[i]] = IF i = Len(c) THEN Nil ELSE c[i + 1]
    /\ b[c[i]] = IF i = 1 THEN Nil ELSE c[i - 1]

(* r is the head of a list with the nodes of c.  The start and the end of  *)
(* an empty list may be anything.                                          *)
Ends(c, r) == r.len = Len(c) /\ (Len(c) > 0 => r.start = c[1] /\ r.end = c[Len(c)])

LinkInv == Apart(content) /\ \A l \in List : Chain(content[l], next, prev) /\ Ends(content[l], lst[l])

(* What an iterator has left is a stretch of its list: the nodes that it   *)
(* gave out may be gone from both sides of it.                             *)
Ahead(k) ==
  /\ k + it.len <= Len(content[it.of])
  /\ \A j \in 1 .. it.len : content[it.of][k + j] = seen.want[Len(seen.front) + j]
  /\ it.len > 0 => it.start = content[it.of][k + 1] /\ it.end = content[it.of][k + it.len]

IterTypes ==
  /\ it \in [on : BOOLEAN, of : List \cup {Nil}, start : Node \cup {Nil, Gone},
            end : Node \cup {Nil, Gone}, len : Nat]
  /\ seen \in [want : Seq(Node), front : Seq(Node), back : Seq(Node)]

IterInv ==
  /\ IterTypes
  /\ it.on =>
       /\ it.of \in List
       /\ \A i, j \in 1 .. Len(seen.want) : seen.want[i] = seen.want[j] => i = j
       /\ \E k \in Nat : Ahead(k)

ListInv == ListTypes /\ LinkInv /\ IterInv /\ IterExact

-----------------------------------------------------------------------------
(* Sequences: what InsertAt and RemoveAt return.                           *)

(* InsertAt, which the history of every adding call uses, makes e element  *)
(* i and moves what was there and behind it by one.                        *)
LEMMA InsertedAt ==
  ASSUME NEW S, NEW s \in Seq(S), NEW e \in S, NEW i \in 1 .. Len(s) + 1
  PROVE  /\ InsertAt(s, i, e) \in Seq(S)
         /\ Len(InsertAt(s, i, e)) = Len(s) + 1
         /\ \A j \in 1 .. Len(s) + 1 :
              InsertAt(s, i, e)[j] = IF j < i THEN s[j] ELSE IF j = i THEN e ELSE s[j - 1]
<1>. DEFINE a == SubSeq(s, 1, i - 1)
            b == SubSeq(s, i, Len(s))
            m == a \o <<e>>
<1>1. a \in Seq(S) /\ Len(a) = i - 1 /\ \A j \in 1 .. i - 1 : a[j] = s[j]
  OBVIOUS
<1>2. b \in Seq(S) /\ Len(b) = Len(s) - i + 1 /\ \A j \in 1 .. Len(s) - i + 1 : b[j] = s[i + j - 1]
  OBVIOUS
<1>3. InsertAt(s, i, e) = m \o b
  BY DEF InsertAt
<1>. HIDE DEF a, b
<1>4. m \in Seq(S) /\ Len(m) = i /\ \A j \in 1 .. i : m[j] = IF j < i THEN s[j] ELSE e
  BY <1>1
<1>. HIDE DEF m
<1>5. m \o b \in Seq(S) /\ Len(m \o b) = Len(s) + 1
  BY <1>2, <1>4
<1>6. ASSUME NEW j \in 1 .. Len(s) + 1
      PROVE  (m \o b)[j] = IF j < i THEN s[j] ELSE IF j = i THEN e ELSE s[j - 1]
  <2>1. CASE j <= i
    BY <2>1, <1>2, <1>4
  <2>2. CASE j > i
    <3>1. (m \o b)[j] = b[j - i] /\ j - i \in 1 .. Len(s) - i + 1
      BY <2>2, <1>2, <1>4
    <3>2. b[j - i] = s[i + (j - i) - 1] /\ i + (j - i) - 1 = j - 1
      BY <3>1, <1>2
    <3>. QED BY <2>2, <3>1, <3>2
  <2>3. j <= i \/ j > i
    OBVIOUS
  <2>. QED BY <2>1, <2>2, <2>3
<1>. QED BY <1>3, <1>5, <1>6

(* Append inserts behind the last element. *)
LEMMA AppendInserts ==
  ASSUME NEW S, NEW s \in Seq(S), NEW e \in S
  PROVE  Append(s, e) = InsertAt(s, Len(s) + 1, e)
<1>. DEFINE d == InsertAt(s, Len(s) + 1, e)
<1>1. Len(s) \in Nat /\ Len(s) + 1 \in 1 .. Len(s) + 1
  OBVIOUS
<1>2. /\ d \in Seq(S) /\ Len(d) = Len(s) + 1
      /\ \A j \in 1 .. Len(s) + 1 :
           d[j] = IF j < Len(s) + 1 THEN s[j] ELSE IF j = Len(s) + 1 THEN e ELSE s[j - 1]
  <2>. HIDE DEF d
  <2>1. PICK i \in 1 .. Len(s) + 1 : i = Len(s) + 1
    BY <1>1
  <2>2. d = InsertAt(s, i, e)
    BY <2>1 DEF d
  <2>3. /\ InsertAt(s, i, e) \in Seq(S)
        /\ Len(InsertAt(s, i, e)) = Len(s) + 1
        /\ \A j \in 1 .. Len(s) + 1 :
             InsertAt(s, i, e)[j] = IF j < i THEN s[j] ELSE IF j = i THEN e ELSE s[j - 1]
    BY InsertedAt
  <2>. QED BY <2>1, <2>2, <2>3
<1>. HIDE DEF d
<1>3. ASSUME NEW j \in 1 .. Len(s) + 1 PROVE Append(s, e)[j] = d[j]
  BY <1>1, <1>2
<1>4. Append(s, e) \in Seq(S) /\ Len(Append(s, e)) = Len(s) + 1
  OBVIOUS
<1>5. Append(s, e) = d
  BY <1>2, <1>3, <1>4
<1>. QED BY <1>5 DEF d

(* RemoveAt, which the history of every removing call uses, drops element  *)
(* i and moves what is behind it by one.                                   *)
LEMMA RemovedAt ==
  ASSUME NEW S, NEW s \in Seq(S), NEW i \in 1 .. Len(s)
  PROVE  /\ RemoveAt(s, i) \in Seq(S)
         /\ Len(RemoveAt(s, i)) = Len(s) - 1
         /\ \A j \in 1 .. Len(s) - 1 : RemoveAt(s, i)[j] = IF j < i THEN s[j] ELSE s[j + 1]
<1>. DEFINE a == SubSeq(s, 1, i - 1)
            b == SubSeq(s, i + 1, Len(s))
<1>1. a \in Seq(S) /\ Len(a) = i - 1 /\ \A j \in 1 .. i - 1 : a[j] = s[j]
  OBVIOUS
<1>2. b \in Seq(S) /\ Len(b) = Len(s) - i /\ \A j \in 1 .. Len(s) - i : b[j] = s[i + j]
  <2>1. b \in Seq(S) /\ Len(b) = Len(s) - i
    OBVIOUS
  <2>2. ASSUME NEW j \in 1 .. Len(s) - i PROVE b[j] = s[i + j]
    <3>1. b[j] = s[(i + 1) + j - 1] /\ (i + 1) + j - 1 = i + j
      OBVIOUS
    <3>. QED BY <3>1
  <2>. QED BY <2>1, <2>2
<1>3. RemoveAt(s, i) = a \o b
  BY DEF RemoveAt
<1>. HIDE DEF a, b
<1>4. a \o b \in Seq(S) /\ Len(a \o b) = Len(s) - 1
  <2>1. Len(s) \in Nat /\ i \in Nat
    OBVIOUS
  <2>2. Len(a \o b) = (i - 1) + (Len(s) - i)
    <3>1. a \in Seq(S) /\ b \in Seq(S)
      BY <1>1, <1>2
    <3>2. Len(a \o b) = Len(a) + Len(b)
      BY ONLY <3>1
    <3>. QED BY <1>1, <1>2, <3>2
  <2>. QED BY <1>1, <1>2, <2>1, <2>2
<1>5. ASSUME NEW j \in 1 .. Len(s) - 1
      PROVE  (a \o b)[j] = IF j < i THEN s[j] ELSE s[j + 1]
  <2>1. CASE j < i
    BY <2>1, <1>1, <1>2
  <2>2. CASE j >= i
    <3>1. (a \o b)[j] = b[j - (i - 1)] /\ j - (i - 1) \in 1 .. Len(s) - i
      BY <2>2, <1>1, <1>2
    <3>2. b[j - (i - 1)] = s[i + (j - (i - 1))] /\ i + (j - (i - 1)) = j + 1
      BY <3>1, <1>2
    <3>. QED BY <2>2, <3>1, <3>2
  <2>3. j < i \/ j >= i
    OBVIOUS
  <2>. QED BY <2>1, <2>2, <2>3
<1>. QED BY <1>3, <1>4, <1>5

-----------------------------------------------------------------------------
(* get_node: following the links of a chain.                               *)

(* Every set of numbers that is not empty has a least one. *)
LEMMA LeastNat ==
  ASSUME NEW T, T \subseteq Nat, T # {}
  PROVE  \E x \in T : \A y \in T : x <= y
<1>. DEFINE R == OpToRel(<, Nat)
<1>1. IsWellFoundedOn(R, Nat)
  BY NatLessThanWellFounded
<1>2. \A x, y \in Nat : y < x => <<y, x>> \in R
  BY DEF OpToRel
<1>. HIDE DEF R
<1>3. PICK x \in T : \A y \in T : ~ (<<y, x>> \in R)
  BY <1>1, WFMin
<1>4. \A y \in T : ~ (y < x)
  BY <1>2, <1>3
<1>. QED BY <1>4

(* The loop of get_node: n steps along the links f from node v end where a *)
(* sequence g of nodes does that starts with v and is linked by f.         *)
LEMMA FollowValue ==
  ASSUME NEW f, NEW n \in Nat, NEW g,
         g = [k \in 0 .. n |-> g[k]],
         \A k \in 1 .. n : g[k] = f[g[k - 1]]
  PROVE  Follow(f, g[0], n) = g[n]
<1>. DEFINE Walk(w) == w = [k \in 0 .. n |-> IF k = 0 THEN g[0] ELSE f[w[k - 1]]]
<1>1. Walk(g)
  <2>1. ASSUME NEW k \in 0 .. n PROVE g[k] = IF k = 0 THEN g[0] ELSE f[g[k - 1]]
    <3>1. k = 0 \/ (k # 0 /\ k \in 1 .. n)
      BY ONLY n \in Nat, k \in 0 .. n
    <3>. QED BY <3>1
  <2>2. [k \in 0 .. n |-> g[k]] = [k \in 0 .. n |-> IF k = 0 THEN g[0] ELSE f[g[k - 1]]]
    BY <2>1, Zenon
  <2>. QED BY <2>2, Zenon
<1>2. ASSUME NEW w, Walk(w) PROVE w[n] = g[n]
  <2>. DEFINE T == {k \in 0 .. n : w[k] # g[k]}
  <2>. SUFFICES ASSUME T # {} PROVE FALSE
    OBVIOUS
  <2>1. T \subseteq Nat
    OBVIOUS
  <2>. HIDE DEF T
  <2>2. PICK k \in T : \A y \in T : k <= y
    BY <2>1, LeastNat
  <2>3. k \in 0 .. n /\ w[k] # g[k]
    BY DEF T
  <2>4. w[0] = g[0]
    BY <1>2
  <2>5. k # 0 /\ k - 1 \in 0 .. n /\ k - 1 \notin T
    BY <2>2, <2>3, <2>4
  <2>6. w[k - 1] = g[k - 1]
    BY <2>5 DEF T
  <2>7. w[k] = f[w[k - 1]]
    BY <1>2, <2>3, <2>5
  <2>8. g[k] = f[g[k - 1]]
    BY <2>3, <2>5
  <2>. QED BY <2>3, <2>6, <2>7, <2>8
<1>3. Follow(f, g[0], n) = (CHOOSE w : Walk(w))[n]
  BY DEF Follow
<1>. HIDE DEF Walk
<1>4. Walk(CHOOSE w : Walk(w))
  BY <1>1
<1>. QED BY <1>2, <1>3, <1>4

(* From either end of a chain the links lead to every node of it. *)
LEMMA ChainFollow ==
  ASSUME NEW c \in Seq(Node), NEW f, NEW b, Chain(c, f, b), NEW i \in 0 .. Len(c) - 1
  PROVE  Follow(f, c[1], i) = c[i + 1] /\ Follow(b, c[Len(c)], i) = c[Len(c) - i]
<1>. DEFINE g == [k \in 0 .. i |-> c[k + 1]]
            h == [k \in 0 .. i |-> c[Len(c) - k]]
<1>0. Len(c) \in Nat /\ i \in Nat
  OBVIOUS
<1>1. g = [k \in 0 .. i |-> g[k]] /\ h = [k \in 0 .. i |-> h[k]]
  OBVIOUS
<1>2. ASSUME NEW k \in 1 .. i
      PROVE  g[k] = f[g[k - 1]] /\ h[k] = b[h[k - 1]]
  <2>1. g[k - 1] = c[k] /\ h[k - 1] = c[Len(c) - k + 1]
    BY <1>0
  <2>2. k \in 1 .. Len(c) /\ k # Len(c) /\ Len(c) - k + 1 \in 1 .. Len(c) /\ Len(c) - k + 1 # 1
    BY <1>0
  <2>3. f[c[k]] = c[k + 1]
    BY <2>2 DEF Chain
  <2>4. b[c[Len(c) - k + 1]] = c[Len(c) - k + 1 - 1] /\ Len(c) - k + 1 - 1 = Len(c) - k
    BY <1>0, <2>2 DEF Chain
  <2>. QED BY <2>1, <2>3, <2>4
<1>3. g[0] = c[1] /\ g[i] = c[i + 1] /\ h[0] = c[Len(c)] /\ h[i] = c[Len(c) - i]
  BY <1>0
<1>. HIDE DEF g, h
<1>4. Follow(f, g[0], i) = g[i]
  <2>1. \A k \in 1 .. i : g[k] = f[g[k - 1]]
    BY <1>2
  <2>. QED BY <1>0, <1>1, <2>1, FollowValue
<1>5. Follow(b, h[0], i) = h[i]
  <2>1. \A k \in 1 .. i : h[k] = b[h[k - 1]]
    BY <1>2
  <2>. QED BY <1>0, <1>1, <2>1, FollowValue
<1>. QED BY <1>3, <1>4, <1>5

(* get_node finds the node of an index, from whichever end it starts. *)
LEMMA GetNodeExact ==
  ASSUME ListTypes, LinkInv, NEW l \in List, NEW i \in 0 .. Len(content[l]) - 1
  PROVE  GetNode(l, i) = content[l][i + 1]
<1>. DEFINE c == content[l]
<1>1. c \in Seq(Node) /\ Len(c) \in Nat /\ i \in Nat
  BY DEF ListTypes
<1>2. Chain(c, next, prev) /\ lst[l].len = Len(c) /\ lst[l].start = c[1] /\ lst[l].end = c[Len(c)]
  BY <1>1 DEF LinkInv, Ends
<1>3. i \in 0 .. Len(c) - 1
  OBVIOUS
<1>. HIDE DEF c
<1>4. Len(c) - i - 1 \in 0 .. Len(c) - 1 /\ Len(c) - (Len(c) - i - 1) = i + 1
  BY <1>1, <1>3
<1>5. Follow(next, c[1], i) = c[i + 1]
  BY <1>1, <1>2, <1>3, ChainFollow
<1>6. Follow(prev, c[Len(c)], Len(c) - i - 1) = c[Len(c) - (Len(c) - i - 1)]
  BY <1>1, <1>2, <1>4, ChainFollow
<1>. QED BY <1>2, <1>4, <1>5, <1>6 DEF GetNode, c

-----------------------------------------------------------------------------
(* What has to become of the links.                                        *)

(* v is now element i. *)
LEMMA ChainInsert ==
  ASSUME NEW c \in Seq(Node), NEW v \in Node, NEW i \in 1 .. Len(c) + 1,
         NEW f, NEW b, NEW ff, NEW bb, Chain(c, f, b),
         ff[v] = IF i = Len(c) + 1 THEN Nil ELSE c[i],
         bb[v] = IF i = 1 THEN Nil ELSE c[i - 1],
         \A j \in 1 .. Len(c) : ff[c[j]] = IF j = i - 1 THEN v ELSE f[c[j]],
         \A j \in 1 .. Len(c) : bb[c[j]] = IF j = i THEN v ELSE b[c[j]]
  PROVE  Chain(InsertAt(c, i, v), ff, bb)
<1>. DEFINE d == InsertAt(c, i, v)
            n == Len(c)
<1>0. n \in Nat /\ i \in Nat
  OBVIOUS
<1>1. Len(d) = n + 1
  BY InsertedAt
<1>2. \A j \in 1 .. n + 1 : d[j] = IF j < i THEN c[j] ELSE IF j = i THEN v ELSE c[j - 1]
  BY InsertedAt
<1>. HIDE DEF d
<1>3. SUFFICES ASSUME NEW j \in 1 .. n + 1
               PROVE  /\ ff[d[j]] = IF j = n + 1 THEN Nil ELSE d[j + 1]
                      /\ bb[d[j]] = IF j = 1 THEN Nil ELSE d[j - 1]
  BY <1>1 DEF Chain, d
<1>4. \A k \in 1 .. n : /\ f[c[k]] = IF k = n THEN Nil ELSE c[k + 1]
                        /\ b[c[k]] = IF k = 1 THEN Nil ELSE c[k - 1]
  BY DEF Chain
<1>. HIDE DEF n
<1>5. CASE j < i
  <2>1. d[j] = c[j] /\ j \in 1 .. n
    BY <1>0, <1>2, <1>5 DEF n
  <2>2. j # 1 => d[j - 1] = c[j - 1]
    BY <1>0, <1>2, <1>5
  <2>3. d[j + 1] = IF j = i - 1 THEN v ELSE c[j + 1]
    BY <1>0, <1>2, <1>5 DEF n
  <2>4. ff[c[j]] = IF j = i - 1 THEN v ELSE f[c[j]]
    BY <2>1 DEF n
  <2>5. bb[c[j]] = b[c[j]]
    BY <2>1, <1>0, <1>5 DEF n
  <2>6. j # n + 1 /\ (j = n => j = i - 1)
    BY <1>0, <1>5, <2>1 DEF n
  <2>7. f[c[j]] = IF j = n THEN Nil ELSE c[j + 1]
    BY <1>4, <2>1
  <2>8. b[c[j]] = IF j = 1 THEN Nil ELSE c[j - 1]
    BY <1>4, <2>1
  <2>. QED BY <2>1, <2>2, <2>3, <2>4, <2>5, <2>6, <2>7, <2>8
<1>6. CASE j = i
  <2>1. d[j] = v /\ (j # 1 => d[j - 1] = c[j - 1]) /\ (j # n + 1 => d[j + 1] = c[j])
    BY <1>0, <1>2, <1>6
  <2>. QED BY <2>1, <1>6 DEF n
<1>7. CASE j > i
  <2>1. d[j] = c[j - 1] /\ j - 1 \in 1 .. n /\ j # 1
    BY <1>0, <1>2, <1>7
  <2>2. d[j - 1] = IF j - 1 = i THEN v ELSE c[j - 2]
    BY <1>0, <1>2, <1>7
  <2>3. j # n + 1 => d[j + 1] = c[j]
    BY <1>0, <1>2, <1>7
  <2>4. ff[c[j - 1]] = f[c[j - 1]] /\ bb[c[j - 1]] = IF j - 1 = i THEN v ELSE b[c[j - 1]]
    BY <1>0, <1>7, <2>1 DEF n
  <2>5. f[c[j - 1]] = IF j = n + 1 THEN Nil ELSE c[j]
    BY <1>0, <1>4, <2>1
  <2>6. b[c[j - 1]] = IF j = 2 THEN Nil ELSE c[j - 2]
    BY <1>0, <1>4, <2>1
  <2>7. j # 2 \/ j - 1 = i
    BY <1>0, <1>7
  <2>. QED BY <2>1, <2>2, <2>3, <2>4, <2>5, <2>6, <2>7
<1>8. j < i \/ j = i \/ j > i
  BY <1>0
<1>. QED BY <1>5, <1>6, <1>7, <1>8

(* Element i is gone, and its neighbours have its links. *)
LEMMA ChainRemove ==
  ASSUME NEW c \in Seq(Node), NEW i \in 1 .. Len(c),
         NEW f, NEW b, NEW ff, NEW bb, Chain(c, f, b),
         \A j \in 1 .. Len(c) : j # i => ff[c[j]] = IF j = i - 1 THEN f[c[i]] ELSE f[c[j]],
         \A j \in 1 .. Len(c) : j # i => bb[c[j]] = IF j = i + 1 THEN b[c[i]] ELSE b[c[j]]
  PROVE  Chain(RemoveAt(c, i), ff, bb)
<1>. DEFINE d == RemoveAt(c, i)
            n == Len(c)
<1>0. n \in Nat /\ i \in Nat
  OBVIOUS
<1>1. Len(d) = n - 1
  BY RemovedAt
<1>2. \A j \in 1 .. n - 1 : d[j] = IF j < i THEN c[j] ELSE c[j + 1]
  BY RemovedAt
<1>. HIDE DEF d
<1>3. SUFFICES ASSUME NEW j \in 1 .. n - 1
               PROVE  /\ ff[d[j]] = IF j = n - 1 THEN Nil ELSE d[j + 1]
                      /\ bb[d[j]] = IF j = 1 THEN Nil ELSE d[j - 1]
  BY <1>1 DEF Chain, d
<1>4. \A k \in 1 .. n : /\ f[c[k]] = IF k = n THEN Nil ELSE c[k + 1]
                        /\ b[c[k]] = IF k = 1 THEN Nil ELSE c[k - 1]
  BY DEF Chain
<1>5. \A k \in 1 .. n : k # i => /\ ff[c[k]] = IF k = i - 1 THEN f[c[i]] ELSE f[c[k]]
                                 /\ bb[c[k]] = IF k = i + 1 THEN b[c[i]] ELSE b[c[k]]
  OBVIOUS
<1>6. i \in 1 .. n
  OBVIOUS
<1>. HIDE DEF n
<1>7. CASE j < i
  <2>1. d[j] = c[j] /\ j \in 1 .. n /\ j # i /\ j # i + 1 /\ j # n
    BY <1>0, <1>2, <1>6, <1>7
  <2>2. j # 1 => d[j - 1] = c[j - 1]
    BY <1>0, <1>2, <1>7
  <2>3. j # n - 1 => d[j + 1] = IF j = i - 1 THEN c[i + 1] ELSE c[j + 1]
    BY <1>0, <1>2, <1>7
  <2>4. ff[c[j]] = IF j = i - 1 THEN f[c[i]] ELSE f[c[j]]
    BY <1>5, <2>1
  <2>5. bb[c[j]] = b[c[j]]
    BY <1>5, <2>1
  <2>6. f[c[j]] = c[j + 1] /\ b[c[j]] = IF j = 1 THEN Nil ELSE c[j - 1]
    BY <1>4, <2>1
  <2>7. f[c[i]] = IF i = n THEN Nil ELSE c[i + 1]
    BY <1>4, <1>6
  <2>8. (j = i - 1 => (i = n <=> j = n - 1)) /\ (j # i - 1 => j # n - 1)
    BY <1>0, <1>6, <1>7
  <2>. QED BY <2>1, <2>2, <2>3, <2>4, <2>5, <2>6, <2>7, <2>8
<1>8. CASE j >= i
  <2>1. d[j] = c[j + 1] /\ j + 1 \in 1 .. n /\ j + 1 # i /\ j + 1 # i - 1 /\ j + 1 # 1
    BY <1>0, <1>2, <1>6, <1>8
  <2>2. j # 1 => d[j - 1] = IF j = i THEN c[i - 1] ELSE c[j]
    BY <1>0, <1>2, <1>8
  <2>3. j # n - 1 => d[j + 1] = c[j + 2]
    BY <1>0, <1>2, <1>8
  <2>4. ff[c[j + 1]] = f[c[j + 1]]
    BY <1>5, <2>1
  <2>5. bb[c[j + 1]] = IF j = i THEN b[c[i]] ELSE b[c[j + 1]]
    BY <1>0, <1>5, <2>1
  <2>6. f[c[j + 1]] = IF j = n - 1 THEN Nil ELSE c[j + 2]
    BY <1>0, <1>4, <2>1
  <2>7. b[c[j + 1]] = c[j]
    BY <1>0, <1>4, <2>1
  <2>8. b[c[i]] = IF i = 1 THEN Nil ELSE c[i - 1]
    BY <1>4, <1>6
  <2>9. j # i => j # 1
    BY <1>0, <1>6, <1>8
  <2>. QED BY <2>1, <2>2, <2>3, <2>4, <2>5, <2>6, <2>7, <2>8, <2>9
<1>9. j < i \/ j >= i
  BY <1>0
<1>. QED BY <1>7, <1>8, <1>9

(* v is now element i instead of what was. *)
LEMMA ChainReplace ==
  ASSUME NEW c \in Seq(Node), NEW v \in Node, NEW i \in 1 .. Len(c),
         NEW f, NEW b, NEW ff, NEW bb, Chain(c, f, b),
         ff[v] = f[c[i]], bb[v] = b[c[i]],
         \A j \in 1 .. Len(c) : j # i => ff[c[j]] = IF j = i - 1 THEN v ELSE f[c[j]],
         \A j \in 1 .. Len(c) : j # i => bb[c[j]] = IF j = i + 1 THEN v ELSE b[c[j]]
  PROVE  Chain([c EXCEPT ![i] = v], ff, bb)
<1>. DEFINE d == [c EXCEPT ![i] = v]
            n == Len(c)
<1>0. n \in Nat /\ i \in 1 .. n /\ i \in Nat
  OBVIOUS
<1>1. Len(d) = n
  OBVIOUS
<1>2. \A j \in 1 .. n : d[j] = IF j = i THEN v ELSE c[j]
  OBVIOUS
<1>. SUFFICES Chain(d, ff, bb)
  OBVIOUS
<1>. HIDE DEF d
<1>3. SUFFICES ASSUME NEW j \in 1 .. n
               PROVE  /\ ff[d[j]] = IF j = n THEN Nil ELSE d[j + 1]
                      /\ bb[d[j]] = IF j = 1 THEN Nil ELSE d[j - 1]
  BY <1>1 DEF Chain
<1>4. \A k \in 1 .. n : /\ f[c[k]] = IF k = n THEN Nil ELSE c[k + 1]
                        /\ b[c[k]] = IF k = 1 THEN Nil ELSE c[k - 1]
  BY DEF Chain
<1>5. \A k \in 1 .. n : k # i => /\ ff[c[k]] = IF k = i - 1 THEN v ELSE f[c[k]]
                                 /\ bb[c[k]] = IF k = i + 1 THEN v ELSE b[c[k]]
  OBVIOUS
<1>. HIDE DEF n
<1>6. j # n => d[j + 1] = IF j + 1 = i THEN v ELSE c[j + 1]
  BY <1>0, <1>2
<1>7. j # 1 => d[j - 1] = IF j - 1 = i THEN v ELSE c[j - 1]
  BY <1>0, <1>2
<1>8. CASE j = i
  BY <1>0, <1>2, <1>4, <1>6, <1>7, <1>8
<1>9. CASE j # i
  BY <1>0, <1>2, <1>4, <1>5, <1>6, <1>7, <1>9
<1>. QED BY <1>8, <1>9

-----------------------------------------------------------------------------
(* The calls of the owner.  LinksAdd, LinksRemove and LinksReplace say     *)
(* what the links and the head of list l should be after node v was put in *)
(* as element i, element i was taken out, and v has replaced it.           *)

LinksTyped ==
  /\ lst' \in [List -> ListHead]
  /\ next' \in [Node -> Node \cup {Nil, Gone}] /\ prev' \in [Node -> Node \cup {Nil, Gone}]

LinksAdd(c, l, v, i) ==
  /\ LinksTyped
  /\ next'[v] = IF i = Len(c) + 1 THEN Nil ELSE c[i]
  /\ prev'[v] = IF i = 1 THEN Nil ELSE c[i - 1]
  /\ \A w \in Node \ {v} : next'[w] = IF i > 1 /\ w = c[i - 1] THEN v ELSE next[w]
  /\ \A w \in Node \ {v} : prev'[w] = IF i <= Len(c) /\ w = c[i] THEN v ELSE prev[w]
  /\ \A m \in List \ {l} : lst'[m] = lst[m]
  /\ lst'[l].len = Len(c) + 1
  /\ lst'[l].start = IF i = 1 THEN v ELSE lst[l].start
  /\ lst'[l].end = IF i = Len(c) + 1 THEN v ELSE lst[l].end

LinksRemove(c, l, i) ==
  /\ LinksTyped
  /\ \A w \in Node \ {c[i]} : next'[w] = IF i > 1 /\ w = c[i - 1] THEN next[c[i]] ELSE next[w]
  /\ \A w \in Node \ {c[i]} : prev'[w] = IF i < Len(c) /\ w = c[i + 1] THEN prev[c[i]] ELSE prev[w]
  /\ \A m \in List \ {l} : lst'[m] = lst[m]
  /\ lst'[l].len = Len(c) - 1
  /\ Len(c) > 1 => lst'[l].start = IF i = 1 THEN c[2] ELSE lst[l].start
  /\ Len(c) > 1 => lst'[l].end = IF i = Len(c) THEN c[Len(c) - 1] ELSE lst[l].end

LinksReplace(c, l, v, i) ==
  /\ LinksTyped
  /\ next'[v] = next[c[i]] /\ prev'[v] = prev[c[i]]
  /\ \A w \in Node \ {v, c[i]} : next'[w] = IF i > 1 /\ w = c[i - 1] THEN v ELSE next[w]
  /\ \A w \in Node \ {v, c[i]} : prev'[w] = IF i < Len(c) /\ w = c[i + 1] THEN v ELSE prev[w]
  /\ \A m \in List \ {l} : lst'[m] = lst[m]
  /\ lst'[l].len = Len(c)
  /\ lst'[l].start = IF i = 1 THEN v ELSE lst[l].start
  /\ lst'[l].end = IF i = Len(c) THEN v ELSE lst[l].end

(* A list whose nodes keep their links stays a chain. *)
LEMMA ChainFrame ==
  ASSUME NEW c, NEW f, NEW b, NEW ff, NEW bb, Chain(c, f, b),
         \A i \in 1 .. Len(c) : ff[c[i]] = f[c[i]] /\ bb[c[i]] = b[c[i]]
  PROVE  Chain(c, ff, bb)
BY DEF Chain

(* A call that adds a node keeps the lists right. *)
LEMMA Added ==
  ASSUME ListTypes, LinkInv, NEW l \in List, NEW v \in Node, NEW i \in 1 .. Len(content[l]) + 1,
         Outside(v), content' = [content EXCEPT ![l] = InsertAt(@, i, v)], LinksAdd(content[l], l, v, i)
  PROVE  ListTypes' /\ LinkInv'
<1>. DEFINE c == content[l]
            d == InsertAt(c, i, v)
            n == Len(c)
<1>1. c \in Seq(Node) /\ n \in Nat /\ i \in Nat /\ i \in 1 .. n + 1
  BY DEF ListTypes
<1>2. d \in Seq(Node) /\ Len(d) = n + 1
  BY <1>1, InsertedAt
<1>3. \A j \in 1 .. n + 1 : d[j] = IF j < i THEN c[j] ELSE IF j = i THEN v ELSE c[j - 1]
  <2>. HIDE DEF c
  <2>. QED BY <1>1, InsertedAt
<1>4. content'[l] = d /\ \A m \in List \ {l} : content'[m] = content[m]
  BY DEF ListTypes
<1>5. content' \in [List -> Seq(Node)]
  BY <1>2 DEF ListTypes
<1>. HIDE DEF d
<1>6. /\ lst'[l].len = n + 1
      /\ lst'[l].start = IF i = 1 THEN v ELSE lst[l].start
      /\ lst'[l].end = IF i = n + 1 THEN v ELSE lst[l].end
  BY DEF LinksAdd
<1>7. ListTypes'
  BY <1>5, <1>6 DEF ListTypes, LinksTyped, LinksAdd
<1>8. \A m \in List \ {l} : lst'[m] = lst[m]
  BY DEF LinksAdd
<1>9. \A m \in List : \A j \in 1 .. Len(content[m]) : content[m][j] \in Node \ {v}
  <2>. SUFFICES ASSUME NEW m \in List, NEW j \in 1 .. Len(content[m])
                PROVE  content[m][j] \in Node \ {v}
    OBVIOUS
  <2>1. content[m] \in Seq(Node)
    BY DEF ListTypes
  <2>2. content[m][j] \in Node /\ j \in DOMAIN content[m]
    BY <2>1
  <2>. QED BY <2>2 DEF Outside, Range
<1>10. Apart(content')
  <2>. SUFFICES ASSUME NEW p \in List, NEW q \in List,
                       NEW x \in 1 .. Len(content'[p]), NEW y \in 1 .. Len(content'[q]),
                       content'[p][x] = content'[q][y]
                PROVE  p = q /\ x = y
    BY DEF Apart
  <2>. DEFINE Src(m, j) == IF m # l \/ j < i THEN j ELSE j - 1
  <2>1. ASSUME NEW m \in List, NEW j \in 1 .. Len(content'[m])
        PROVE  \/ m = l /\ j = i /\ content'[m][j] = v
               \/ (m # l \/ j # i) /\ Src(m, j) \in 1 .. Len(content[m]) /\ content'[m][j] = content[m][Src(m, j)]
    <3>1. CASE m # l
      BY <3>1, <1>4
    <3>2. CASE m = l
      <4>1. j \in 1 .. n + 1 /\ content'[m][j] = d[j]
        BY <3>2, <1>2, <1>4
      <4>2. d[j] = IF j < i THEN c[j] ELSE IF j = i THEN v ELSE c[j - 1]
        BY <1>3, <4>1
      <4>3. j < i => j \in 1 .. n
        BY <1>1, <4>1
      <4>4. j > i => j - 1 \in 1 .. n
        BY <1>1, <4>1
      <4>5. j < i \/ j = i \/ j > i
        BY <1>1, <4>1
      <4>. QED BY <3>2, <4>1, <4>2, <4>3, <4>4, <4>5, <1>1
    <3>. QED BY <3>1, <3>2
  <2>2. ASSUME Src(p, x) = Src(q, y), p = q, p # l \/ x # i, q # l \/ y # i PROVE x = y
    <3>1. x \in Nat /\ y \in Nat /\ x >= 1 /\ y >= 1
      BY <1>2, <1>4
    <3>. QED BY <1>1, <2>2, <3>1
  <2>3. CASE p = l /\ x = i
    BY <2>1, <2>3, <1>9
  <2>4. CASE q = l /\ y = i
    BY <2>1, <2>4, <1>9
  <2>5. CASE ~(p = l /\ x = i) /\ ~(q = l /\ y = i)
    <3>1. /\ Src(p, x) \in 1 .. Len(content[p]) /\ content'[p][x] = content[p][Src(p, x)]
          /\ Src(q, y) \in 1 .. Len(content[q]) /\ content'[q][y] = content[q][Src(q, y)]
      BY <2>1, <2>5
    <3>. HIDE DEF Src
    <3>2. p = q /\ Src(p, x) = Src(q, y)
      BY <3>1 DEF LinkInv, Apart
    <3>. QED BY <2>2, <2>5, <3>2
  <2>. QED BY <2>3, <2>4, <2>5
<1>11. ASSUME NEW m \in List PROVE Chain(content'[m], next', prev') /\ Ends(content'[m], lst'[m])
  <2>1. Chain(content[m], next, prev) /\ Ends(content[m], lst[m])
    BY DEF LinkInv
  <2>2. CASE m # l
    <3>1. content'[m] = content[m] /\ lst'[m] = lst[m]
      BY <1>4, <1>8, <2>2
    <3>2. ASSUME NEW j \in 1 .. Len(content[m])
          PROVE  next'[content[m][j]] = next[content[m][j]] /\ prev'[content[m][j]] = prev[content[m][j]]
      <4>1. content[m][j] \in Node \ {v}
        BY <1>9
      <4>2. \A k \in 1 .. n : content[m][j] # c[k]
        BY <2>2 DEF LinkInv, Apart
      <4>3. (i > 1 => i - 1 \in 1 .. n) /\ (i <= n => i \in 1 .. n)
        BY <1>1
      <4>. QED BY <4>1, <4>2, <4>3 DEF LinksAdd
    <3>. QED BY <2>1, <3>1, <3>2, ChainFrame
  <2>3. CASE m = l
    <3>1. ASSUME NEW j \in 1 .. n
          PROVE  /\ next'[c[j]] = IF j = i - 1 THEN v ELSE next[c[j]]
                 /\ prev'[c[j]] = IF j = i THEN v ELSE prev[c[j]]
      <4>1. c[j] \in Node \ {v}
        BY <1>9
      <4>2. i > 1 => (c[j] = c[i - 1] <=> j = i - 1)
        BY <1>1 DEF LinkInv, Apart
      <4>3. i <= n => (c[j] = c[i] <=> j = i)
        BY <1>1 DEF LinkInv, Apart
      <4>4. (j = i - 1 => i > 1) /\ (j = i => i <= n)
        BY <1>1
      <4>5. /\ next'[c[j]] = IF i > 1 /\ c[j] = c[i - 1] THEN v ELSE next[c[j]]
            /\ prev'[c[j]] = IF i <= n /\ c[j] = c[i] THEN v ELSE prev[c[j]]
        BY <4>1 DEF LinksAdd
      <4>. QED BY <4>2, <4>3, <4>4, <4>5
    <3>2. /\ next'[v] = IF i = n + 1 THEN Nil ELSE c[i]
          /\ prev'[v] = IF i = 1 THEN Nil ELSE c[i - 1]
      BY DEF LinksAdd
    <3>3. Chain(InsertAt(c, i, v), next', prev')
      BY <1>1, <2>1, <2>3, <3>1, <3>2, ChainInsert
    <3>4. Ends(d, lst'[l])
      <4>1. n > 0 => lst[l].start = c[1] /\ lst[l].end = c[n]
        BY <2>1, <2>3 DEF Ends
      <4>2. d[1] = (IF i = 1 THEN v ELSE c[1]) /\ d[n + 1] = IF i = n + 1 THEN v ELSE c[n]
        BY <1>1, <1>3
      <4>3. (i # 1 => n > 0) /\ (i # n + 1 => n > 0)
        BY <1>1
      <4>. QED BY <1>2, <1>6, <4>1, <4>2, <4>3 DEF Ends
    <3>. QED BY <1>4, <1>8, <2>3, <3>3, <3>4 DEF d
  <2>. QED BY <2>2, <2>3
<1>. QED BY <1>7, <1>10, <1>11 DEF LinkInv

(* A call that takes a node out keeps the lists right. *)
LEMMA Removed ==
  ASSUME ListTypes, LinkInv, NEW l \in List, NEW i \in 1 .. Len(content[l]),
         content' = [content EXCEPT ![l] = RemoveAt(@, i)], LinksRemove(content[l], l, i)
  PROVE  ListTypes' /\ LinkInv'
<1>. DEFINE c == content[l]
            d == RemoveAt(c, i)
            n == Len(c)
<1>1. c \in Seq(Node) /\ n \in Nat /\ i \in Nat /\ i \in 1 .. n
  BY DEF ListTypes
<1>2. d \in Seq(Node) /\ Len(d) = n - 1
  BY <1>1, RemovedAt
<1>3. \A j \in 1 .. n - 1 : d[j] = IF j < i THEN c[j] ELSE c[j + 1]
  <2>. HIDE DEF c
  <2>. QED BY <1>1, RemovedAt
<1>4. content'[l] = d /\ \A m \in List \ {l} : content'[m] = content[m]
  BY DEF ListTypes
<1>5. content' \in [List -> Seq(Node)]
  BY <1>2 DEF ListTypes
<1>. HIDE DEF d
<1>6. /\ lst'[l].len = n - 1
      /\ n > 1 => /\ lst'[l].start = IF i = 1 THEN c[2] ELSE lst[l].start
                  /\ lst'[l].end = IF i = n THEN c[n - 1] ELSE lst[l].end
  BY DEF LinksRemove
<1>7. ListTypes'
  BY <1>5, <1>6 DEF ListTypes, LinksTyped, LinksRemove
<1>8. \A m \in List \ {l} : lst'[m] = lst[m]
  BY DEF LinksRemove
<1>9. \A m \in List : \A j \in 1 .. Len(content[m]) : content[m][j] \in Node
  <2>. SUFFICES ASSUME NEW m \in List, NEW j \in 1 .. Len(content[m])
                PROVE  content[m][j] \in Node
    OBVIOUS
  <2>1. content[m] \in Seq(Node)
    BY DEF ListTypes
  <2>. QED BY <2>1
<1>10. Apart(content')
  <2>. SUFFICES ASSUME NEW p \in List, NEW q \in List,
                       NEW x \in 1 .. Len(content'[p]), NEW y \in 1 .. Len(content'[q]),
                       content'[p][x] = content'[q][y]
                PROVE  p = q /\ x = y
    BY DEF Apart
  <2>. DEFINE Src(m, j) == IF m # l \/ j < i THEN j ELSE j + 1
  <2>1. ASSUME NEW m \in List, NEW j \in 1 .. Len(content'[m])
        PROVE  Src(m, j) \in 1 .. Len(content[m]) /\ content'[m][j] = content[m][Src(m, j)]
    <3>1. CASE m # l
      BY <3>1, <1>4
    <3>2. CASE m = l
      <4>1. j \in 1 .. n - 1 /\ content'[m][j] = d[j]
        BY <3>2, <1>2, <1>4
      <4>2. d[j] = IF j < i THEN c[j] ELSE c[j + 1]
        BY <1>3, <4>1
      <4>3. j \in 1 .. n /\ j + 1 \in 1 .. n
        BY <1>1, <4>1
      <4>. QED BY <3>2, <4>1, <4>2, <4>3
    <3>. QED BY <3>1, <3>2
  <2>2. ASSUME Src(p, x) = Src(q, y), p = q PROVE x = y
    <3>1. x \in Nat /\ y \in Nat
      OBVIOUS
    <3>. QED BY <1>1, <2>2, <3>1
  <2>3. /\ Src(p, x) \in 1 .. Len(content[p]) /\ content'[p][x] = content[p][Src(p, x)]
        /\ Src(q, y) \in 1 .. Len(content[q]) /\ content'[q][y] = content[q][Src(q, y)]
    BY <2>1
  <2>. HIDE DEF Src
  <2>4. p = q /\ Src(p, x) = Src(q, y)
    BY <2>3 DEF LinkInv, Apart
  <2>. QED BY <2>2, <2>4
<1>11. ASSUME NEW m \in List PROVE Chain(content'[m], next', prev') /\ Ends(content'[m], lst'[m])
  <2>1. Chain(content[m], next, prev) /\ Ends(content[m], lst[m])
    BY DEF LinkInv
  <2>2. CASE m # l
    <3>1. content'[m] = content[m] /\ lst'[m] = lst[m]
      BY <1>4, <1>8, <2>2
    <3>2. ASSUME NEW j \in 1 .. Len(content[m])
          PROVE  next'[content[m][j]] = next[content[m][j]] /\ prev'[content[m][j]] = prev[content[m][j]]
      <4>1. content[m][j] \in Node
        BY <1>9
      <4>2. \A k \in 1 .. n : content[m][j] # c[k]
        BY <2>2 DEF LinkInv, Apart
      <4>3. (i > 1 => i - 1 \in 1 .. n) /\ (i < n => i + 1 \in 1 .. n) /\ i \in 1 .. n
        BY <1>1
      <4>. QED BY <4>1, <4>2, <4>3 DEF LinksRemove
    <3>. QED BY <2>1, <3>1, <3>2, ChainFrame
  <2>3. CASE m = l
    <3>1. ASSUME NEW j \in 1 .. n, j # i
          PROVE  /\ next'[c[j]] = IF j = i - 1 THEN next[c[i]] ELSE next[c[j]]
                 /\ prev'[c[j]] = IF j = i + 1 THEN prev[c[i]] ELSE prev[c[j]]
      <4>1. c[j] \in Node \ {c[i]}
        BY <1>1, <1>9, <3>1 DEF LinkInv, Apart
      <4>2. i > 1 => (c[j] = c[i - 1] <=> j = i - 1)
        BY <1>1 DEF LinkInv, Apart
      <4>3. i < n => (c[j] = c[i + 1] <=> j = i + 1)
        BY <1>1 DEF LinkInv, Apart
      <4>4. (j = i - 1 => i > 1) /\ (j = i + 1 => i < n)
        BY <1>1
      <4>5. /\ next'[c[j]] = IF i > 1 /\ c[j] = c[i - 1] THEN next[c[i]] ELSE next[c[j]]
            /\ prev'[c[j]] = IF i < n /\ c[j] = c[i + 1] THEN prev[c[i]] ELSE prev[c[j]]
        BY <4>1 DEF LinksRemove
      <4>. QED BY <4>2, <4>3, <4>4, <4>5
    <3>2. Chain(RemoveAt(c, i), next', prev')
      BY <1>1, <2>1, <2>3, <3>1, ChainRemove
    <3>3. Ends(d, lst'[l])
      <4>1. lst[l].start = c[1] /\ lst[l].end = c[n]
        BY <1>1, <2>1, <2>3 DEF Ends
      <4>2. n > 1 => d[1] = (IF i = 1 THEN c[2] ELSE c[1]) /\ d[n - 1] = IF i = n THEN c[n - 1] ELSE c[n]
        <5>. SUFFICES ASSUME n > 1
                      PROVE  d[1] = (IF i = 1 THEN c[2] ELSE c[1]) /\ d[n - 1] = IF i = n THEN c[n - 1] ELSE c[n]
          OBVIOUS
        <5>1. 1 \in 1 .. n - 1 /\ n - 1 \in 1 .. n - 1 /\ (1 < i <=> i # 1) /\ (n - 1 < i <=> i = n)
          BY <1>1
        <5>2. d[1] = IF 1 < i THEN c[1] ELSE c[1 + 1]
          BY <1>3, <5>1
        <5>3. d[n - 1] = IF n - 1 < i THEN c[n - 1] ELSE c[n - 1 + 1]
          BY <1>3, <5>1
        <5>4. 1 + 1 = 2 /\ n - 1 + 1 = n
          BY <1>1
        <5>. QED BY <5>1, <5>2, <5>3, <5>4
      <4>3. Len(d) > 0 => n > 1
        BY <1>1, <1>2
      <4>. QED BY <1>2, <1>6, <4>1, <4>2, <4>3 DEF Ends
    <3>. QED BY <1>4, <1>8, <2>3, <3>2, <3>3 DEF d
  <2>. QED BY <2>2, <2>3
<1>. QED BY <1>7, <1>10, <1>11 DEF LinkInv

(* update_node keeps the lists right. *)
LEMMA Replaced ==
  ASSUME ListTypes, LinkInv, NEW l \in List, NEW v \in Node, NEW i \in 1 .. Len(content[l]),
         Outside(v), content' = [content EXCEPT ![l][i] = v], LinksReplace(content[l], l, v, i)
  PROVE  ListTypes' /\ LinkInv'
<1>. DEFINE c == content[l]
            d == [c EXCEPT ![i] = v]
            n == Len(c)
<1>1. c \in Seq(Node) /\ n \in Nat /\ i \in Nat /\ i \in 1 .. n
  BY DEF ListTypes
<1>2. d \in Seq(Node) /\ Len(d) = n
  BY <1>1
<1>3. \A j \in 1 .. n : d[j] = IF j = i THEN v ELSE c[j]
  BY <1>1
<1>4. content'[l] = d /\ \A m \in List \ {l} : content'[m] = content[m]
  BY DEF ListTypes
<1>5. content' \in [List -> Seq(Node)]
  BY <1>2 DEF ListTypes
<1>. HIDE DEF d
<1>6. /\ lst'[l].len = n
      /\ lst'[l].start = IF i = 1 THEN v ELSE lst[l].start
      /\ lst'[l].end = IF i = n THEN v ELSE lst[l].end
  BY DEF LinksReplace
<1>7. ListTypes'
  BY <1>5, <1>6 DEF ListTypes, LinksTyped, LinksReplace
<1>8. \A m \in List \ {l} : lst'[m] = lst[m]
  BY DEF LinksReplace
<1>9. \A m \in List : \A j \in 1 .. Len(content[m]) : content[m][j] \in Node \ {v}
  <2>. SUFFICES ASSUME NEW m \in List, NEW j \in 1 .. Len(content[m])
                PROVE  content[m][j] \in Node \ {v}
    OBVIOUS
  <2>1. content[m] \in Seq(Node)
    BY DEF ListTypes
  <2>2. content[m][j] \in Node /\ j \in DOMAIN content[m]
    BY <2>1
  <2>. QED BY <2>2 DEF Outside, Range
<1>10. Apart(content')
  <2>. SUFFICES ASSUME NEW p \in List, NEW q \in List,
                       NEW x \in 1 .. Len(content'[p]), NEW y \in 1 .. Len(content'[q]),
                       content'[p][x] = content'[q][y]
                PROVE  p = q /\ x = y
    BY DEF Apart
  <2>1. ASSUME NEW m \in List, NEW j \in 1 .. Len(content'[m])
        PROVE  j \in 1 .. Len(content[m]) /\ content'[m][j] = IF m = l /\ j = i THEN v ELSE content[m][j]
    <3>1. CASE m # l
      BY <3>1, <1>4
    <3>2. CASE m = l
      BY <1>2, <1>3, <1>4, <3>2
    <3>. QED BY <3>1, <3>2
  <2>2. CASE p = l /\ x = i
    BY <2>1, <2>2, <1>9
  <2>3. CASE q = l /\ y = i
    BY <2>1, <2>3, <1>9
  <2>4. CASE ~(p = l /\ x = i) /\ ~(q = l /\ y = i)
    BY <2>1, <2>4 DEF LinkInv, Apart
  <2>. QED BY <2>2, <2>3, <2>4
<1>11. ASSUME NEW m \in List PROVE Chain(content'[m], next', prev') /\ Ends(content'[m], lst'[m])
  <2>1. Chain(content[m], next, prev) /\ Ends(content[m], lst[m])
    BY DEF LinkInv
  <2>2. CASE m # l
    <3>1. content'[m] = content[m] /\ lst'[m] = lst[m]
      BY <1>4, <1>8, <2>2
    <3>2. ASSUME NEW j \in 1 .. Len(content[m])
          PROVE  next'[content[m][j]] = next[content[m][j]] /\ prev'[content[m][j]] = prev[content[m][j]]
      <4>1. content[m][j] \in Node \ {v}
        BY <1>9
      <4>2. \A k \in 1 .. n : content[m][j] # c[k]
        BY <2>2 DEF LinkInv, Apart
      <4>3. (i > 1 => i - 1 \in 1 .. n) /\ (i < n => i + 1 \in 1 .. n) /\ i \in 1 .. n
        BY <1>1
      <4>. QED BY <4>1, <4>2, <4>3 DEF LinksReplace
    <3>. QED BY <2>1, <3>1, <3>2, ChainFrame
  <2>3. CASE m = l
    <3>1. ASSUME NEW j \in 1 .. n, j # i
          PROVE  /\ next'[c[j]] = IF j = i - 1 THEN v ELSE next[c[j]]
                 /\ prev'[c[j]] = IF j = i + 1 THEN v ELSE prev[c[j]]
      <4>1. c[j] \in Node \ {v, c[i]}
        BY <1>1, <1>9, <3>1 DEF LinkInv, Apart
      <4>2. i > 1 => (c[j] = c[i - 1] <=> j = i - 1)
        BY <1>1 DEF LinkInv, Apart
      <4>3. i < n => (c[j] = c[i + 1] <=> j = i + 1)
        BY <1>1 DEF LinkInv, Apart
      <4>4. (j = i - 1 => i > 1) /\ (j = i + 1 => i < n)
        BY <1>1
      <4>5. /\ next'[c[j]] = IF i > 1 /\ c[j] = c[i - 1] THEN v ELSE next[c[j]]
            /\ prev'[c[j]] = IF i < n /\ c[j] = c[i + 1] THEN v ELSE prev[c[j]]
        BY <4>1 DEF LinksReplace
      <4>. QED BY <4>2, <4>3, <4>4, <4>5
    <3>2. next'[v] = next[c[i]] /\ prev'[v] = prev[c[i]]
      BY DEF LinksReplace
    <3>3. Chain(d, next', prev')
      BY <1>1, <2>1, <2>3, <3>1, <3>2, ChainReplace DEF d
    <3>4. Ends(d, lst'[l])
      BY <1>1, <1>2, <1>3, <1>6, <2>1, <2>3 DEF Ends
    <3>. QED BY <1>4, <1>8, <2>3, <3>3, <3>4
  <2>. QED BY <2>2, <2>3
<1>. QED BY <1>7, <1>10, <1>11 DEF LinkInv

(* What the invariant says of one list. *)
LEMMA ListFacts ==
  ASSUME ListTypes, LinkInv, NEW l \in List
  PROVE  LET c == content[l]
         IN /\ c \in Seq(Node) /\ Len(c) \in Nat /\ lst[l].len = Len(c)
            /\ Len(c) > 0 => lst[l].start = c[1] /\ lst[l].end = c[Len(c)]
            /\ \A i \in 1 .. Len(c) : /\ c[i] \in Node
                                      /\ next[c[i]] = IF i = Len(c) THEN Nil ELSE c[i + 1]
                                      /\ prev[c[i]] = IF i = 1 THEN Nil ELSE c[i - 1]
            /\ \A i, j \in 1 .. Len(c) : c[i] = c[j] => i = j
<1>. DEFINE c == content[l]
<1>1. c \in Seq(Node) /\ Len(c) \in Nat /\ \A i \in 1 .. Len(c) : c[i] \in Node
  BY DEF ListTypes
<1>. QED BY <1>1 DEF LinkInv, Apart, Chain, Ends

(* A node outside all lists is none of the nodes of one. *)
LEMMA OutsideFacts ==
  ASSUME ListTypes, NEW l \in List, NEW v, Outside(v)
  PROVE  \A i \in 1 .. Len(content[l]) : content[l][i] # v
<1>1. DOMAIN content[l] = 1 .. Len(content[l])
  BY DEF ListTypes
<1>. QED BY <1>1 DEF Outside, Range

(* push puts the links of a node after the last one. *)
LEMMA PushLinks ==
  ASSUME ListTypes, LinkInv, NEW l \in List, NEW v \in Node, Outside(v), Push(l, v)
  PROVE  LinksAdd(content[l], l, v, Len(content[l]) + 1)
<1>. SUFFICES ASSUME NEW c, c = content[l], NEW n, n = Len(c)
              PROVE  LinksAdd(c, l, v, n + 1)
  OBVIOUS
<1>1. /\ n \in Nat /\ lst[l].len = n /\ (n > 0 => lst[l].end = c[n] /\ c[n] \in Node /\ c[n] # v)
      /\ n = 0 \/ n > 0
  BY ListFacts, OutsideFacts
<1>2. lst[l] \in ListHead
  BY DEF ListTypes
<1>3. /\ lst' \in [List -> ListHead] /\ \A m \in List \ {l} : lst'[m] = lst[m]
      /\ lst'[l].start = (IF n = 0 THEN v ELSE lst[l].start) /\ lst'[l].end = v /\ lst'[l].len = n + 1
  BY <1>1, <1>2 DEF Push, ListTypes, ListHead
<1>4. CASE n = 0
  <2>1. next' = [next EXCEPT ![v] = Nil] /\ prev' = [prev EXCEPT ![v] = Nil]
    BY <1>1, <1>4 DEF Push
  <2>2. \A w \in Node \ {v} : next'[w] = next[w] /\ prev'[w] = prev[w]
    BY <2>1 DEF ListTypes
  <2>3. /\ next'[v] = Nil /\ prev'[v] = Nil
        /\ next' \in [Node -> Node \cup {Nil, Gone}] /\ prev' \in [Node -> Node \cup {Nil, Gone}]
    BY <2>1 DEF ListTypes
  <2>. QED BY <1>1, <1>3, <1>4, <2>2, <2>3 DEF LinksAdd, LinksTyped
<1>5. CASE n > 0
  <2>0. lst[l].len # 0 /\ lst[l].end = c[n]
    BY <1>1, <1>5
  <2>1. next' = [next EXCEPT ![c[n]] = v, ![v] = Nil] /\ prev' = [prev EXCEPT ![v] = c[n]]
    BY <2>0 DEF Push
  <2>2. \A w \in Node \ {v} : next'[w] = (IF w = c[n] THEN v ELSE next[w]) /\ prev'[w] = prev[w]
    BY <1>1, <1>5, <2>1 DEF ListTypes
  <2>3. /\ next'[v] = Nil /\ prev'[v] = c[n]
        /\ next' \in [Node -> Node \cup {Nil, Gone}] /\ prev' \in [Node -> Node \cup {Nil, Gone}]
    BY <1>1, <1>5, <2>1 DEF ListTypes
  <2>4. n + 1 - 1 = n /\ n + 1 > 1 /\ ~(n + 1 <= n) /\ n + 1 # 1
    BY <1>1, <1>5
  <2>. QED BY <1>1, <1>3, <1>5, <2>2, <2>3, <2>4 DEF LinksAdd, LinksTyped
<1>. QED BY <1>1, <1>4, <1>5

(* push_front puts them before the first one. *)
LEMMA PushFrontLinks ==
  ASSUME ListTypes, LinkInv, NEW l \in List, NEW v \in Node, Outside(v), PushFront(l, v)
  PROVE  LinksAdd(content[l], l, v, 1)
<1>. SUFFICES ASSUME NEW c, c = content[l], NEW n, n = Len(c)
              PROVE  LinksAdd(c, l, v, 1)
  OBVIOUS
<1>1. /\ n \in Nat /\ lst[l].len = n /\ (n > 0 => lst[l].start = c[1] /\ c[1] \in Node /\ c[1] # v)
      /\ n = 0 \/ n > 0
  BY ListFacts, OutsideFacts
<1>2. lst[l] \in ListHead
  BY DEF ListTypes
<1>3. /\ lst' \in [List -> ListHead] /\ \A m \in List \ {l} : lst'[m] = lst[m]
      /\ lst'[l].end = (IF n = 0 THEN v ELSE lst[l].end) /\ lst'[l].start = v /\ lst'[l].len = n + 1
  BY <1>1, <1>2 DEF PushFront, ListTypes, ListHead
<1>4. CASE n = 0
  <2>1. next' = [next EXCEPT ![v] = Nil] /\ prev' = [prev EXCEPT ![v] = Nil]
    BY <1>1, <1>4 DEF PushFront
  <2>2. \A w \in Node \ {v} : next'[w] = next[w] /\ prev'[w] = prev[w]
    BY <2>1 DEF ListTypes
  <2>3. /\ next'[v] = Nil /\ prev'[v] = Nil
        /\ next' \in [Node -> Node \cup {Nil, Gone}] /\ prev' \in [Node -> Node \cup {Nil, Gone}]
    BY <2>1 DEF ListTypes
  <2>. QED BY <1>1, <1>3, <1>4, <2>2, <2>3 DEF LinksAdd, LinksTyped
<1>5. CASE n > 0
  <2>0. lst[l].len # 0 /\ lst[l].start = c[1]
    BY <1>1, <1>5
  <2>1. prev' = [prev EXCEPT ![c[1]] = v, ![v] = Nil] /\ next' = [next EXCEPT ![v] = c[1]]
    BY <2>0 DEF PushFront
  <2>2. \A w \in Node \ {v} : prev'[w] = (IF w = c[1] THEN v ELSE prev[w]) /\ next'[w] = next[w]
    BY <1>1, <1>5, <2>1 DEF ListTypes
  <2>3. /\ prev'[v] = Nil /\ next'[v] = c[1]
        /\ next' \in [Node -> Node \cup {Nil, Gone}] /\ prev' \in [Node -> Node \cup {Nil, Gone}]
    BY <1>1, <1>5, <2>1 DEF ListTypes
  <2>4. 1 # n + 1 /\ 1 <= n
    BY <1>1, <1>5
  <2>. QED BY <1>1, <1>3, <1>5, <2>2, <2>3, <2>4 DEF LinksAdd, LinksTyped
<1>. QED BY <1>1, <1>4, <1>5

(* pop takes the last node out of the links. *)
LEMMA PopLinks ==
  ASSUME ListTypes, LinkInv, NEW l \in List, Pop(l)
  PROVE  Len(content[l]) > 0 /\ LinksRemove(content[l], l, Len(content[l]))
<1>. SUFFICES ASSUME NEW c, c = content[l], NEW n, n = Len(c)
              PROVE  n > 0 /\ LinksRemove(c, l, n)
  OBVIOUS
<1>1. n \in Nat /\ n > 0 /\ lst[l].len = n /\ lst[l].end = c[n] /\ c[n] \in Node
  BY ListFacts DEF Pop
<1>2. n > 1 => prev[c[n]] = c[n - 1] /\ c[n - 1] \in Node /\ next[c[n]] = Nil /\ c[n - 1] # c[n]
  BY <1>1, ListFacts
<1>. DEFINE e == IF n > 1 THEN c[n - 1] ELSE lst[l].end
<1>3. lst[l] \in ListHead /\ lst' = [lst EXCEPT ![l] = [@ EXCEPT !.len = n - 1, !.end = e]] /\ e \in Node
  BY <1>1, <1>2 DEF Pop, ListTypes
<1>. HIDE DEF e
<1>4. /\ lst' \in [List -> ListHead] /\ \A m \in List \ {l} : lst'[m] = lst[m]
      /\ lst'[l].start = lst[l].start /\ lst'[l].end = e /\ lst'[l].len = n - 1
  <2>. DEFINE r == [lst[l] EXCEPT !.len = n - 1, !.end = e]
  <2>1. n - 1 \in Nat
    BY ONLY <1>1
  <2>2. r \in ListHead /\ r.start = lst[l].start /\ r.end = e /\ r.len = n - 1
    BY <1>3, <2>1 DEF ListHead
  <2>3. lst' = [lst EXCEPT ![l] = r]
    BY <1>3 DEF ListTypes
  <2>. HIDE DEF r
  <2>. QED BY <2>2, <2>3 DEF ListTypes
<1>5. CASE n = 1
  <2>1. next' = [next EXCEPT ![c[1]] = Gone] /\ prev' = [prev EXCEPT ![c[1]] = Gone]
    BY <1>1, <1>5 DEF Pop, Unlinked
  <2>2. \A w \in Node \ {c[1]} : next'[w] = next[w] /\ prev'[w] = prev[w]
    BY <2>1 DEF ListTypes
  <2>3. next' \in [Node -> Node \cup {Nil, Gone}] /\ prev' \in [Node -> Node \cup {Nil, Gone}]
    BY <2>1 DEF ListTypes
  <2>. QED BY <1>1, <1>4, <1>5, <2>2, <2>3 DEF LinksRemove, LinksTyped
<1>6. CASE n > 1
  <2>1. next' = [[next EXCEPT ![c[n - 1]] = Nil] EXCEPT ![c[n]] = Gone] /\ prev' = [prev EXCEPT ![c[n]] = Gone]
    BY <1>1, <1>2, <1>6 DEF Pop, Unlinked
  <2>2. \A w \in Node \ {c[n]} : next'[w] = (IF w = c[n - 1] THEN Nil ELSE next[w]) /\ prev'[w] = prev[w]
    BY <1>1, <1>2, <1>6, <2>1 DEF ListTypes
  <2>3. next' \in [Node -> Node \cup {Nil, Gone}] /\ prev' \in [Node -> Node \cup {Nil, Gone}]
    BY <1>1, <1>2, <1>6, <2>1 DEF ListTypes
  <2>4. n # 1 /\ ~(n < n)
    BY <1>1, <1>6
  <2>. QED BY <1>1, <1>2, <1>4, <1>6, <2>2, <2>3, <2>4 DEF LinksRemove, LinksTyped, e
<1>7. n = 1 \/ n > 1
  BY ONLY <1>1
<1>. QED BY <1>1, <1>5, <1>6, <1>7

(* pop_front takes the first one out. *)
LEMMA PopFrontLinks ==
  ASSUME ListTypes, LinkInv, NEW l \in List, PopFront(l)
  PROVE  Len(content[l]) > 0 /\ LinksRemove(content[l], l, 1)
<1>. SUFFICES ASSUME NEW c, c = content[l], NEW n, n = Len(c)
              PROVE  n > 0 /\ LinksRemove(c, l, 1)
  OBVIOUS
<1>1. n \in Nat /\ n > 0 /\ lst[l].len = n /\ lst[l].start = c[1] /\ c[1] \in Node
  BY ListFacts DEF PopFront
<1>2. n > 1 => next[c[1]] = c[2] /\ c[2] \in Node /\ prev[c[1]] = Nil /\ c[2] # c[1]
  BY <1>1, ListFacts
<1>. DEFINE e == IF n > 1 THEN c[2] ELSE lst[l].start
<1>3. lst[l] \in ListHead /\ lst' = [lst EXCEPT ![l] = [@ EXCEPT !.len = n - 1, !.start = e]] /\ e \in Node
  BY <1>1, <1>2 DEF PopFront, ListTypes
<1>. HIDE DEF e
<1>4. /\ lst' \in [List -> ListHead] /\ \A m \in List \ {l} : lst'[m] = lst[m]
      /\ lst'[l].end = lst[l].end /\ lst'[l].start = e /\ lst'[l].len = n - 1
  <2>. DEFINE r == [lst[l] EXCEPT !.len = n - 1, !.start = e]
  <2>1. n - 1 \in Nat
    BY ONLY <1>1
  <2>2. r \in ListHead /\ r.end = lst[l].end /\ r.start = e /\ r.len = n - 1
    BY <1>3, <2>1 DEF ListHead
  <2>3. lst' = [lst EXCEPT ![l] = r]
    BY <1>3 DEF ListTypes
  <2>. HIDE DEF r
  <2>. QED BY <2>2, <2>3 DEF ListTypes
<1>5. CASE n = 1
  <2>1. next' = [next EXCEPT ![c[1]] = Gone] /\ prev' = [prev EXCEPT ![c[1]] = Gone]
    BY <1>1, <1>5 DEF PopFront, Unlinked
  <2>2. \A w \in Node \ {c[1]} : next'[w] = next[w] /\ prev'[w] = prev[w]
    BY <2>1 DEF ListTypes
  <2>3. next' \in [Node -> Node \cup {Nil, Gone}] /\ prev' \in [Node -> Node \cup {Nil, Gone}]
    BY <2>1 DEF ListTypes
  <2>. QED BY <1>1, <1>4, <1>5, <2>2, <2>3 DEF LinksRemove, LinksTyped
<1>6. CASE n > 1
  <2>1. prev' = [[prev EXCEPT ![c[2]] = Nil] EXCEPT ![c[1]] = Gone] /\ next' = [next EXCEPT ![c[1]] = Gone]
    BY <1>1, <1>2, <1>6 DEF PopFront, Unlinked
  <2>2. \A w \in Node \ {c[1]} : prev'[w] = (IF w = c[2] THEN Nil ELSE prev[w]) /\ next'[w] = next[w]
    BY <1>1, <1>2, <1>6, <2>1 DEF ListTypes
  <2>3. next' \in [Node -> Node \cup {Nil, Gone}] /\ prev' \in [Node -> Node \cup {Nil, Gone}]
    BY <1>1, <1>2, <1>6, <2>1 DEF ListTypes
  <2>4. 1 # n /\ 1 < n /\ 1 + 1 = 2 /\ ~(1 > 1)
    BY ONLY <1>1, <1>6
  <2>. QED BY <1>1, <1>2, <1>4, <1>6, <2>2, <2>3, <2>4 DEF LinksRemove, LinksTyped, e
<1>7. n = 1 \/ n > 1
  BY ONLY <1>1
<1>. QED BY <1>1, <1>5, <1>6, <1>7

(* insert_before puts the links of a node before the i-th one. *)
LEMMA InsertBeforeLinks ==
  ASSUME ListTypes, LinkInv, NEW l \in List, NEW v \in Node, Outside(v),
         NEW i \in 1 .. Len(content[l]), InsertBefore(l, v, content[l][i])
  PROVE  LinksAdd(content[l], l, v, i)
<1>. SUFFICES ASSUME NEW c, c = content[l], NEW n, n = Len(c), NEW x, x = c[i], NEW p, p = prev[x]
              PROVE  LinksAdd(c, l, v, i)
  OBVIOUS
<1>1. /\ n \in Nat /\ i \in 1 .. n /\ i \in Nat /\ lst[l].len = n /\ lst[l].start = c[1]
      /\ x \in Node /\ x # v /\ p = IF i = 1 THEN Nil ELSE c[i - 1]
      /\ i # 1 => p \in Node /\ p # v /\ p # x
  BY ListFacts, OutsideFacts
<1>2. (p = Nil <=> i = 1) /\ p \in Node \cup {Nil}
  BY <1>1, ListConstants
<1>3. n + 1 \in Nat /\ i # n + 1 /\ i <= n /\ (i # 1 <=> i > 1)
  BY ONLY <1>1
<1>. DEFINE r == [lst[l] EXCEPT !.len = n + 1, !.start = IF p = Nil THEN v ELSE @]
<1>4. r \in ListHead /\ r.start = (IF i = 1 THEN v ELSE lst[l].start) /\ r.end = lst[l].end /\ r.len = n + 1
  BY <1>2, <1>3 DEF ListTypes, ListHead
<1>5. lst' = [lst EXCEPT ![l] = r]
  BY <1>1 DEF InsertBefore, ListTypes
<1>. HIDE DEF r
<1>6. /\ lst' \in [List -> ListHead] /\ \A m \in List \ {l} : lst'[m] = lst[m]
      /\ lst'[l].start = (IF i = 1 THEN v ELSE lst[l].start) /\ lst'[l].end = lst[l].end /\ lst'[l].len = n + 1
  BY <1>4, <1>5 DEF ListTypes
<1>7. /\ next' \in [Node -> Node \cup {Nil, Gone}] /\ next'[v] = x
      /\ \A w \in Node \ {v} : next'[w] = IF i > 1 /\ w = p THEN v ELSE next[w]
  <2>1. next' = IF p = Nil THEN [next EXCEPT ![v] = x] ELSE [next EXCEPT ![p] = v, ![v] = x]
    BY DEF InsertBefore
  <2>. QED BY <1>1, <1>2, <1>3, <2>1 DEF ListTypes
<1>8. /\ prev' \in [Node -> Node \cup {Nil, Gone}] /\ prev'[v] = p
      /\ \A w \in Node \ {v} : prev'[w] = IF w = x THEN v ELSE prev[w]
  <2>1. prev' = [prev EXCEPT ![v] = p, ![x] = v]
    BY DEF InsertBefore
  <2>. QED BY <1>1, <1>2, <2>1 DEF ListTypes
<1>. QED BY <1>1, <1>3, <1>6, <1>7, <1>8 DEF LinksAdd, LinksTyped

(* insert_after puts them after the i-th one. *)
LEMMA InsertAfterLinks ==
  ASSUME ListTypes, LinkInv, NEW l \in List, NEW v \in Node, Outside(v),
         NEW i \in 1 .. Len(content[l]), InsertAfter(l, v, content[l][i])
  PROVE  LinksAdd(content[l], l, v, i + 1)
<1>. SUFFICES ASSUME NEW c, c = content[l], NEW n, n = Len(c), NEW x, x = c[i], NEW s, s = next[x]
              PROVE  LinksAdd(c, l, v, i + 1)
  OBVIOUS
<1>1. /\ n \in Nat /\ i \in 1 .. n /\ i \in Nat /\ lst[l].len = n
      /\ x \in Node /\ x # v /\ s = IF i = n THEN Nil ELSE c[i + 1]
      /\ i # n => s \in Node /\ s # v /\ s # x
  BY ListFacts, OutsideFacts
<1>2. (s = Nil <=> i = n) /\ s \in Node \cup {Nil}
  BY <1>1, ListConstants
<1>3. /\ n + 1 \in Nat /\ i + 1 # 1 /\ i + 1 > 1 /\ i + 1 - 1 = i
      /\ (i = n <=> i + 1 = n + 1) /\ (i # n <=> i + 1 <= n)
  BY ONLY <1>1
<1>. DEFINE r == [lst[l] EXCEPT !.len = n + 1, !.end = IF s = Nil THEN v ELSE @]
<1>4. r \in ListHead /\ r.end = (IF i = n THEN v ELSE lst[l].end) /\ r.start = lst[l].start /\ r.len = n + 1
  BY <1>2, <1>3 DEF ListTypes, ListHead
<1>5. lst' = [lst EXCEPT ![l] = r]
  BY <1>1 DEF InsertAfter, ListTypes
<1>. HIDE DEF r
<1>6. /\ lst' \in [List -> ListHead] /\ \A m \in List \ {l} : lst'[m] = lst[m]
      /\ lst'[l].end = (IF i = n THEN v ELSE lst[l].end) /\ lst'[l].start = lst[l].start /\ lst'[l].len = n + 1
  BY <1>4, <1>5 DEF ListTypes
<1>7. /\ prev' \in [Node -> Node \cup {Nil, Gone}] /\ prev'[v] = x
      /\ \A w \in Node \ {v} : prev'[w] = IF i # n /\ w = s THEN v ELSE prev[w]
  <2>1. prev' = IF s = Nil THEN [prev EXCEPT ![v] = x] ELSE [prev EXCEPT ![s] = v, ![v] = x]
    BY DEF InsertAfter
  <2>. QED BY <1>1, <1>2, <2>1 DEF ListTypes
<1>8. /\ next' \in [Node -> Node \cup {Nil, Gone}] /\ next'[v] = s
      /\ \A w \in Node \ {v} : next'[w] = IF w = x THEN v ELSE next[w]
  <2>1. next' = [next EXCEPT ![v] = s, ![x] = v]
    BY DEF InsertAfter
  <2>. QED BY <1>1, <1>2, <2>1 DEF ListTypes
<1>. QED BY <1>1, <1>3, <1>6, <1>7, <1>8 DEF LinksAdd, LinksTyped

(* remove_node takes the i-th node out of the links. *)
LEMMA RemoveNodeLinks ==
  ASSUME ListTypes, LinkInv, NEW l \in List,
         NEW i \in 1 .. Len(content[l]), RemoveNode(l, content[l][i])
  PROVE  LinksRemove(content[l], l, i)
<1>. SUFFICES ASSUME NEW c, c = content[l], NEW n, n = Len(c),
                     NEW x, x = c[i], NEW p, p = prev[x], NEW s, s = next[x]
              PROVE  LinksRemove(c, l, i)
  OBVIOUS
<1>1. /\ n \in Nat /\ i \in 1 .. n /\ i \in Nat /\ lst[l].len = n /\ x \in Node
      /\ p = (IF i = 1 THEN Nil ELSE c[i - 1]) /\ s = (IF i = n THEN Nil ELSE c[i + 1])
      /\ i # 1 => p \in Node /\ p # x
      /\ i # n => s \in Node /\ s # x
  BY ListFacts
<1>2. (p = Nil <=> i = 1) /\ p \in Node \cup {Nil} /\ (s = Nil <=> i = n) /\ s \in Node \cup {Nil}
  BY <1>1, ListConstants
<1>3. n - 1 \in Nat /\ (i # 1 <=> i > 1) /\ (i # n <=> i < n) /\ 1 + 1 = 2
  BY ONLY <1>1
<1>. DEFINE r == [start |-> IF p = Nil THEN s ELSE lst[l].start,
                  end |-> IF s = Nil THEN p ELSE lst[l].end, len |-> n - 1]
<1>4. /\ r \in ListHead /\ r.start = (IF i = 1 THEN s ELSE lst[l].start)
      /\ r.end = (IF i = n THEN p ELSE lst[l].end) /\ r.len = n - 1
  BY <1>2, <1>3 DEF ListTypes, ListHead
<1>5. lst' = [lst EXCEPT ![l] = r]
  BY <1>1 DEF RemoveNode, ListTypes
<1>. HIDE DEF r
<1>6. /\ lst' \in [List -> ListHead] /\ \A m \in List \ {l} : lst'[m] = lst[m]
      /\ lst'[l].start = (IF i = 1 THEN s ELSE lst[l].start)
      /\ lst'[l].end = (IF i = n THEN p ELSE lst[l].end) /\ lst'[l].len = n - 1
  BY <1>4, <1>5 DEF ListTypes
<1>7. /\ next' \in [Node -> Node \cup {Nil, Gone}]
      /\ \A w \in Node \ {x} : next'[w] = IF i # 1 /\ w = p THEN s ELSE next[w]
  <2>1. next' = [IF p = Nil THEN next ELSE [next EXCEPT ![p] = s] EXCEPT ![x] = Gone]
    BY DEF RemoveNode, Unlinked
  <2>. QED BY <1>1, <1>2, <2>1 DEF ListTypes
<1>8. /\ prev' \in [Node -> Node \cup {Nil, Gone}]
      /\ \A w \in Node \ {x} : prev'[w] = IF i # n /\ w = s THEN p ELSE prev[w]
  <2>1. prev' = [IF s = Nil THEN prev ELSE [prev EXCEPT ![s] = p] EXCEPT ![x] = Gone]
    BY DEF RemoveNode, Unlinked
  <2>. QED BY <1>1, <1>2, <2>1 DEF ListTypes
<1>9. n > 1 => (i = 1 => s = c[2]) /\ (i = n => p = c[n - 1])
  BY <1>1, <1>3
<1>. QED BY <1>1, <1>3, <1>6, <1>7, <1>8, <1>9 DEF LinksRemove, LinksTyped

(* update_node puts a node where the i-th one was. *)
LEMMA UpdateNodeLinks ==
  ASSUME ListTypes, LinkInv, NEW l \in List, NEW v \in Node, Outside(v),
         NEW i \in 1 .. Len(content[l]), UpdateNode(l, content[l][i], v)
  PROVE  LinksReplace(content[l], l, v, i)
<1>. SUFFICES ASSUME NEW c, c = content[l], NEW n, n = Len(c),
                     NEW x, x = c[i], NEW p, p = prev[x], NEW s, s = next[x]
              PROVE  LinksReplace(c, l, v, i)
  OBVIOUS
<1>1. /\ n \in Nat /\ i \in 1 .. n /\ i \in Nat /\ lst[l].len = n /\ x \in Node /\ x # v
      /\ p = (IF i = 1 THEN Nil ELSE c[i - 1]) /\ s = (IF i = n THEN Nil ELSE c[i + 1])
      /\ i # 1 => p \in Node /\ p # x /\ p # v
      /\ i # n => s \in Node /\ s # x /\ s # v
  BY ListFacts, OutsideFacts
<1>2. (p = Nil <=> i = 1) /\ p \in Node \cup {Nil} /\ (s = Nil <=> i = n) /\ s \in Node \cup {Nil}
  BY <1>1, ListConstants
<1>3. (i # 1 <=> i > 1) /\ (i # n <=> i < n)
  BY ONLY <1>1
<1>. DEFINE r == [lst[l] EXCEPT !.start = IF p = Nil THEN v ELSE @, !.end = IF s = Nil THEN v ELSE @]
<1>4. /\ r \in ListHead /\ r.start = (IF i = 1 THEN v ELSE lst[l].start)
      /\ r.end = (IF i = n THEN v ELSE lst[l].end) /\ r.len = n
  BY <1>1, <1>2 DEF ListTypes, ListHead
<1>5. lst' = [lst EXCEPT ![l] = r]
  BY <1>1 DEF UpdateNode, ListTypes
<1>. HIDE DEF r
<1>6. /\ lst' \in [List -> ListHead] /\ \A m \in List \ {l} : lst'[m] = lst[m]
      /\ lst'[l].start = (IF i = 1 THEN v ELSE lst[l].start)
      /\ lst'[l].end = (IF i = n THEN v ELSE lst[l].end) /\ lst'[l].len = n
  BY <1>4, <1>5 DEF ListTypes
<1>7. /\ next' \in [Node -> Node \cup {Nil, Gone}] /\ next'[v] = s
      /\ \A w \in Node \ {x, v} : next'[w] = IF i # 1 /\ w = p THEN v ELSE next[w]
  <2>1. next' = [[IF p = Nil THEN next ELSE [next EXCEPT ![p] = v] EXCEPT ![v] = s] EXCEPT ![x] = Gone]
    BY DEF UpdateNode, Unlinked
  <2>. QED BY <1>1, <1>2, <2>1 DEF ListTypes
<1>8. /\ prev' \in [Node -> Node \cup {Nil, Gone}] /\ prev'[v] = p
      /\ \A w \in Node \ {x, v} : prev'[w] = IF i # n /\ w = s THEN v ELSE prev[w]
  <2>1. prev' = [[IF s = Nil THEN prev ELSE [prev EXCEPT ![s] = v] EXCEPT ![v] = p] EXCEPT ![x] = Gone]
    BY DEF UpdateNode, Unlinked
  <2>. QED BY <1>1, <1>2, <2>1 DEF ListTypes
<1>. QED BY <1>1, <1>3, <1>6, <1>7, <1>8 DEF LinksReplace, LinksTyped

-----------------------------------------------------------------------------
(* The calls.                                                              *)

(* A call whose links gain the node of its content keeps the lists. *)
LEMMA AddsKeeps ==
  ASSUME ListTypes, LinkInv, NEW l \in List, NEW v \in Node, NEW i \in 0 .. Len(content[l]),
         Adds(l, v, i), LinksAdd(content[l], l, v, i + 1)
  PROVE  ListTypes' /\ LinkInv'
<1>1. Len(content[l]) \in Nat /\ i + 1 \in 1 .. Len(content[l]) + 1
  BY ListFacts
<1>2. Outside(v) /\ content' = [content EXCEPT ![l] = InsertAt(@, i + 1, v)]
  BY DEF Adds
<1>. QED BY <1>1, <1>2, Added

(* A call whose links lose the node of its content keeps them. *)
LEMMA TakesKeeps ==
  ASSUME ListTypes, LinkInv, NEW l \in List, NEW i \in 0 .. Len(content[l]) - 1,
         Takes(l, i), LinksRemove(content[l], l, i + 1)
  PROVE  ListTypes' /\ LinkInv'
<1>1. Len(content[l]) \in Nat /\ i + 1 \in 1 .. Len(content[l])
  BY ListFacts
<1>2. content' = [content EXCEPT ![l] = RemoveAt(@, i + 1)]
  BY DEF Takes
<1>. QED BY <1>1, <1>2, Removed

(* push and push_front keep the lists. *)
LEMMA PushCalls ==
  ASSUME ListTypes, LinkInv, NEW l \in List, NEW v \in Node, CallPush(l, v) \/ CallPushFront(l, v)
  PROVE  ListTypes' /\ LinkInv'
<1>0. Len(content[l]) \in Nat /\ 0 \in 0 .. Len(content[l]) /\ Len(content[l]) \in 0 .. Len(content[l])
  BY ListFacts
<1>1. CASE CallPush(l, v)
  <2>1. Adds(l, v, Len(content[l])) /\ Outside(v) /\ Push(l, v)
    BY <1>1 DEF CallPush, Adds
  <2>. QED BY <1>0, <2>1, PushLinks, AddsKeeps
<1>2. CASE CallPushFront(l, v)
  <2>1. Adds(l, v, 0) /\ Outside(v) /\ PushFront(l, v)
    BY <1>2 DEF CallPushFront, Adds
  <2>2. LinksAdd(content[l], l, v, 0 + 1)
    BY <2>1, PushFrontLinks
  <2>. QED BY <1>0, <2>1, <2>2, AddsKeeps
<1>. QED BY <1>1, <1>2

(* pop and pop_front keep the lists. *)
LEMMA PopCalls ==
  ASSUME ListTypes, LinkInv, NEW l \in List, CallPop(l) \/ CallPopFront(l)
  PROVE  ListTypes' /\ LinkInv'
<1>0. Len(content[l]) \in Nat
  BY ListFacts
<1>1. CASE CallPop(l)
  <2>1. Takes(l, Len(content[l]) - 1) /\ Pop(l)
    BY <1>1 DEF CallPop
  <2>2. Len(content[l]) > 0 /\ LinksRemove(content[l], l, Len(content[l]))
    BY <2>1, PopLinks
  <2>3. Len(content[l]) - 1 \in 0 .. Len(content[l]) - 1 /\ Len(content[l]) - 1 + 1 = Len(content[l])
    BY <1>0, <2>2
  <2>4. LinksRemove(content[l], l, Len(content[l]) - 1 + 1)
    BY <2>2, <2>3
  <2>. QED BY <2>1, <2>3, <2>4, TakesKeeps
<1>2. CASE CallPopFront(l)
  <2>1. Takes(l, 0) /\ PopFront(l)
    BY <1>2 DEF CallPopFront
  <2>2. Len(content[l]) > 0 /\ LinksRemove(content[l], l, 0 + 1)
    BY <2>1, PopFrontLinks
  <2>3. 0 \in 0 .. Len(content[l]) - 1
    BY <1>0, <2>2
  <2>. QED BY <2>1, <2>2, <2>3, TakesKeeps
<1>. QED BY <1>1, <1>2

(* insert, insert_before and insert_after keep the lists. *)
LEMMA InsertCalls ==
  ASSUME ListTypes, LinkInv, NEW l \in List, NEW v \in Node,
         CallInsert(l, v) \/ CallInsertBefore(l, v) \/ CallInsertAfter(l, v)
  PROVE  ListTypes' /\ LinkInv'
<1>. DEFINE n == Len(content[l])
<1>0. n \in Nat /\ DOMAIN content[l] = 1 .. n /\ lst[l].len = n
  BY ListFacts
<1>. HIDE DEF n
<1>1. CASE CallInsert(l, v)
  <2>1. PICK i \in 0 .. n : Adds(l, v, i) /\ Insert(l, i, v)
    BY <1>1 DEF CallInsert, n
  <2>2. Outside(v)
    BY <2>1 DEF Adds
  <2>3. LinksAdd(content[l], l, v, i + 1)
    <3>1. CASE i = 0 /\ PushFront(l, v)
      BY <2>2, <3>1, PushFrontLinks
    <3>2. CASE i = n /\ Push(l, v)
      BY <2>2, <3>2, PushLinks DEF n
    <3>3. CASE i # 0 /\ i < n /\ InsertBefore(l, v, GetNode(l, i))
      <4>1. i \in 0 .. n - 1 /\ i + 1 \in 1 .. n
        BY ONLY <1>0, <2>1, <3>3
      <4>2. GetNode(l, i) = content[l][i + 1]
        BY <4>1, GetNodeExact DEF n
      <4>. QED BY <2>2, <3>3, <4>1, <4>2, InsertBeforeLinks DEF n
    <3>. QED BY <1>0, <2>1, <3>1, <3>2, <3>3 DEF Insert
  <2>. QED BY <2>1, <2>3, AddsKeeps DEF n
<1>2. CASE CallInsertBefore(l, v)
  <2>1. PICK i \in 1 .. n : Adds(l, v, i - 1) /\ InsertBefore(l, v, content[l][i])
    BY <1>0, <1>2 DEF CallInsertBefore
  <2>2. Outside(v) /\ i - 1 \in 0 .. n /\ i - 1 + 1 = i
    BY <1>0, <2>1 DEF Adds
  <2>3. LinksAdd(content[l], l, v, i - 1 + 1)
    BY <2>1, <2>2, InsertBeforeLinks DEF n
  <2>. QED BY <2>1, <2>2, <2>3, AddsKeeps DEF n
<1>3. CASE CallInsertAfter(l, v)
  <2>1. PICK i \in 1 .. n : Adds(l, v, i) /\ InsertAfter(l, v, content[l][i])
    BY <1>0, <1>3 DEF CallInsertAfter
  <2>2. Outside(v) /\ i \in 0 .. n
    BY <1>0, <2>1 DEF Adds
  <2>3. LinksAdd(content[l], l, v, i + 1)
    BY <2>1, <2>2, InsertAfterLinks DEF n
  <2>. QED BY <2>1, <2>2, <2>3, AddsKeeps DEF n
<1>. QED BY <1>1, <1>2, <1>3

(* remove and remove_node keep the lists. *)
LEMMA RemoveCalls ==
  ASSUME ListTypes, LinkInv, NEW l \in List, CallRemove(l) \/ CallRemoveNode(l)
  PROVE  ListTypes' /\ LinkInv'
<1>. DEFINE n == Len(content[l])
<1>0. n \in Nat /\ DOMAIN content[l] = 1 .. n /\ lst[l].len = n
  BY ListFacts
<1>. HIDE DEF n
<1>1. CASE CallRemove(l)
  <2>1. PICK i \in 0 .. n - 1 : Takes(l, i) /\ RemoveIndex(l, i)
    BY <1>1 DEF CallRemove, n
  <2>2. LinksRemove(content[l], l, i + 1)
    <3>1. CASE i = 0 /\ PopFront(l)
      BY <3>1, PopFrontLinks
    <3>2. CASE i = n - 1 /\ Pop(l)
      <4>1. LinksRemove(content[l], l, n)
        BY <3>2, PopLinks DEF n
      <4>2. i + 1 = n
        BY ONLY <1>0, <2>1, <3>2
      <4>. QED BY <4>1, <4>2
    <3>3. CASE i # 0 /\ i < n - 1 /\ RemoveNode(l, GetNode(l, i))
      <4>1. i + 1 \in 1 .. n
        BY ONLY <1>0, <2>1, <3>3
      <4>2. GetNode(l, i) = content[l][i + 1]
        BY <2>1, GetNodeExact DEF n
      <4>. QED BY <3>3, <4>1, <4>2, RemoveNodeLinks DEF n
    <3>. QED BY <1>0, <2>1, <3>1, <3>2, <3>3 DEF RemoveIndex
  <2>. QED BY <2>1, <2>2, TakesKeeps DEF n
<1>2. CASE CallRemoveNode(l)
  <2>1. PICK i \in 1 .. n : Takes(l, i - 1) /\ RemoveNode(l, content[l][i])
    BY <1>0, <1>2 DEF CallRemoveNode
  <2>2. i - 1 \in 0 .. n - 1 /\ i - 1 + 1 = i
    BY <1>0, <2>1
  <2>3. LinksRemove(content[l], l, i - 1 + 1)
    BY <2>1, <2>2, RemoveNodeLinks DEF n
  <2>. QED BY <2>1, <2>2, <2>3, TakesKeeps DEF n
<1>. QED BY <1>1, <1>2

(* update_node keeps the lists. *)
LEMMA UpdateCalls ==
  ASSUME ListTypes, LinkInv, NEW l \in List, NEW v \in Node, CallUpdateNode(l, v)
  PROVE  ListTypes' /\ LinkInv'
<1>1. DOMAIN content[l] = 1 .. Len(content[l])
  BY ListFacts
<1>2. PICK i \in 1 .. Len(content[l]) :
          UpdateNode(l, content[l][i], v) /\ content' = [content EXCEPT ![l][i] = v]
  BY <1>1 DEF CallUpdateNode
<1>3. Outside(v)
  BY DEF CallUpdateNode
<1>4. LinksReplace(content[l], l, v, i)
  BY <1>2, <1>3, UpdateNodeLinks
<1>. QED BY <1>2, <1>3, <1>4, Replaced

(* An iterator that is not there is not disturbed. *)
LEMMA NoIterKeeps ==
  ASSUME IterInv, ~it.on, UNCHANGED <<it, seen>>
  PROVE  IterInv' /\ IterExact'
BY DEF IterInv, IterTypes, IterExact

(* Every call outside an iteration keeps the invariant. *)
LEMMA CallsKeep ==
  ASSUME ListInv, NEW l \in List,
         \/ CallPop(l) \/ CallPopFront(l) \/ CallRemove(l) \/ CallRemoveNode(l)
         \/ \E v \in Node : \/ CallPush(l, v) \/ CallPushFront(l, v) \/ CallInsert(l, v)
                           \/ CallInsertBefore(l, v) \/ CallInsertAfter(l, v) \/ CallUpdateNode(l, v)
  PROVE  ListInv'
<1>1. ListTypes' /\ LinkInv'
  BY PushCalls, PopCalls, InsertCalls, RemoveCalls, UpdateCalls DEF ListInv
<1>2. ~it.on /\ UNCHANGED <<it, seen>>
  BY DEF CallPush, CallPushFront, CallPop, CallPopFront, CallInsert, CallInsertBefore,
         CallInsertAfter, CallRemove, CallRemoveNode, CallUpdateNode, Adds, Takes
<1>. QED BY <1>1, <1>2, NoIterKeeps DEF ListInv

-----------------------------------------------------------------------------
(* The iterators.                                                          *)

(* Steps of an iterator leave the lists alone. *)
LEMMA ListsFrame ==
  ASSUME ListTypes, LinkInv, UNCHANGED <<lst, prev, next, content>>
  PROVE  ListTypes' /\ LinkInv'
BY DEF ListTypes, LinkInv

(* The start of an iteration keeps the invariant. *)
LEMMA IterNewKeeps ==
  ASSUME ListInv, NEW l \in List, IterNew(l)
  PROVE  ListInv'
<1>1. ListTypes' /\ LinkInv'
  BY ListsFrame DEF ListInv, IterNew
<1>2. ListTypes /\ LinkInv /\ IterTypes
  BY DEF ListInv, IterInv
<1>. SUFFICES ASSUME NEW c, c = content[l], NEW n, n = Len(c)
              PROVE  IterInv' /\ IterExact'
  BY <1>1 DEF ListInv
<1>3. /\ c \in Seq(Node) /\ n \in Nat /\ lst[l].len = n
      /\ n > 0 => lst[l].start = c[1] /\ lst[l].end = c[n]
      /\ \A i, j \in 1 .. n : c[i] = c[j] => i = j
  BY <1>2, ListFacts
<1>4. /\ it' = [on |-> TRUE, of |-> l, start |-> lst[l].start, end |-> lst[l].end, len |-> n]
      /\ content'[l] = c
  BY <1>3 DEF IterNew
<1>5. seen' = [want |-> c, front |-> <<>>, back |-> <<>>]
  <2>1. seen' = [NothingSeen EXCEPT !.want = c]
    BY DEF IterNew
  <2>. QED BY <2>1 DEF NothingSeen
<1>6. IterTypes'
  <2>1. seen' \in [want : Seq(Node), front : Seq(Node), back : Seq(Node)]
    BY <1>3, <1>5
  <2>2. lst[l] \in ListHead
    BY <1>2 DEF ListTypes
  <2>. QED BY <1>3, <1>4, <2>1, <2>2 DEF IterTypes, ListHead
<1>7. seen'.want = c /\ seen'.front = <<>> /\ seen'.back = <<>>
  BY <1>5
<1>8. Len(seen'.front) = 0 /\ Len(seen'.back) = 0
  BY <1>7
<1>9. Ahead(0)'
  <2>1. 0 + n = n /\ 0 + 1 = 1 /\ \A j \in 1 .. n : 0 + j = j
    BY <1>3
  <2>2. it'.of = l /\ it'.len = n /\ it'.start = lst[l].start /\ it'.end = lst[l].end
    BY <1>4
  <2>. QED BY <1>3, <1>4, <1>7, <1>8, <2>1, <2>2 DEF Ahead
<1>10. IterInv'
  <2>1. \E k \in Nat : Ahead(k)'
    BY <1>9
  <2>2. it'.of = l
    BY <1>4
  <2>. QED BY <1>3, <1>6, <1>7, <2>1, <2>2 DEF IterInv
<1>11. IterExact'
  <2>1. it'.len = n /\ DOMAIN seen'.front = {} /\ DOMAIN seen'.back = {}
    BY <1>4, <1>7
  <2>2. 0 + 0 + n = Len(c)
    BY <1>3
  <2>. QED BY <1>7, <1>8, <2>1, <2>2 DEF IterExact
<1>. QED BY <1>10, <1>11

(* What the invariant says of a running iteration. *)
LEMMA IterFacts ==
  ASSUME ListInv, it.on, NEW k \in Nat, Ahead(k)
  PROVE  LET c == content[it.of]
             n == Len(c)
             m == it.len
             w == seen.want
             a == Len(seen.front)
             b == Len(seen.back)
         IN /\ it.of \in List /\ c \in Seq(Node) /\ n \in Nat /\ m \in Nat /\ k + m <= n
            /\ w \in Seq(Node) /\ a \in Nat /\ b \in Nat /\ Len(w) \in Nat /\ a + b + m = Len(w)
            /\ \A j \in 1 .. m : c[k + j] = w[a + j]
            /\ m > 0 => /\ it.start = c[k + 1] /\ it.start = w[a + 1] /\ it.start \in Node
                        /\ it.end = c[k + m] /\ it.end = w[a + m] /\ it.end \in Node
                        /\ next[it.start] = IF k + 1 = n THEN Nil ELSE c[k + 2]
                        /\ prev[it.end] = IF k + m = 1 THEN Nil ELSE c[k + m - 1]
<1>. SUFFICES ASSUME NEW l, l = it.of, NEW c, c = content[l], NEW n, n = Len(c), NEW m, m = it.len,
                     NEW w, w = seen.want, NEW a, a = Len(seen.front), NEW b, b = Len(seen.back)
              PROVE  /\ l \in List /\ c \in Seq(Node) /\ n \in Nat /\ m \in Nat /\ k + m <= n
                     /\ w \in Seq(Node) /\ a \in Nat /\ b \in Nat /\ Len(w) \in Nat /\ a + b + m = Len(w)
                     /\ \A j \in 1 .. m : c[k + j] = w[a + j]
                     /\ m > 0 => /\ it.start = c[k + 1] /\ it.start = w[a + 1] /\ it.start \in Node
                                 /\ it.end = c[k + m] /\ it.end = w[a + m] /\ it.end \in Node
                                 /\ next[it.start] = IF k + 1 = n THEN Nil ELSE c[k + 2]
                                 /\ prev[it.end] = IF k + m = 1 THEN Nil ELSE c[k + m - 1]
  BY Zenon
<1>1. l \in List /\ m \in Nat /\ ListTypes /\ LinkInv /\ IterTypes /\ IterExact
  BY DEF ListInv, IterInv, IterTypes
<1>2. /\ c \in Seq(Node) /\ n \in Nat
      /\ \A i \in 1 .. n : /\ c[i] \in Node
                           /\ next[c[i]] = IF i = n THEN Nil ELSE c[i + 1]
                           /\ prev[c[i]] = IF i = 1 THEN Nil ELSE c[i - 1]
  <2>1. content[l] \in Seq(Node) /\ Len(content[l]) \in Nat
    BY <1>1, ListFacts
  <2>2. ASSUME NEW i \in 1 .. Len(content[l])
        PROVE  /\ content[l][i] \in Node
               /\ next[content[l][i]] = IF i = Len(content[l]) THEN Nil ELSE content[l][i + 1]
               /\ prev[content[l][i]] = IF i = 1 THEN Nil ELSE content[l][i - 1]
    BY <1>1, ListFacts
  <2>. QED BY <2>1, <2>2
<1>3. /\ k + m <= n /\ \A j \in 1 .. m : c[k + j] = w[a + j]
      /\ m > 0 => it.start = c[k + 1] /\ it.end = c[k + m]
  BY DEF Ahead
<1>4. w \in Seq(Node) /\ a \in Nat /\ b \in Nat /\ Len(w) \in Nat
  BY <1>1 DEF IterTypes
<1>5. a + b + m = Len(w)
  BY <1>1 DEF IterExact
<1>6. ASSUME m > 0
      PROVE  /\ it.start = c[k + 1] /\ it.start = w[a + 1] /\ it.start \in Node
             /\ it.end = c[k + m] /\ it.end = w[a + m] /\ it.end \in Node
             /\ next[it.start] = IF k + 1 = n THEN Nil ELSE c[k + 2]
             /\ prev[it.end] = IF k + m = 1 THEN Nil ELSE c[k + m - 1]
  <2>1. 1 \in 1 .. m /\ m \in 1 .. m /\ k + 1 \in 1 .. n /\ k + m \in 1 .. n /\ k + 1 + 1 = k + 2
    BY ONLY <1>1, <1>2, <1>3, <1>6, k \in Nat
  <2>2. it.start = c[k + 1] /\ it.end = c[k + m]
    BY <1>3, <1>6
  <2>3. c[k + 1] = w[a + 1] /\ c[k + m] = w[a + m]
    BY <1>3, <2>1
  <2>4. c[k + 1] \in Node /\ next[c[k + 1]] = IF k + 1 = n THEN Nil ELSE c[k + 1 + 1]
    BY <1>2, <2>1
  <2>5. c[k + m] \in Node /\ prev[c[k + m]] = IF k + m = 1 THEN Nil ELSE c[k + m - 1]
    <3>1. PICK q \in 1 .. n : q = k + m
      BY <2>1
    <3>2. c[q] \in Node /\ prev[c[q]] = IF q = 1 THEN Nil ELSE c[q - 1]
      BY <1>2
    <3>3. c[k + m] = c[q] /\ k + m - 1 = q - 1 /\ (k + m = 1 <=> q = 1)
      BY <1>1, <1>2, <3>1
    <3>. QED BY <3>2, <3>3
  <2>. QED BY <2>1, <2>2, <2>3, <2>4, <2>5
<1>. QED BY <1>1, <1>2, <1>3, <1>4, <1>5, <1>6

(* So does a step of it from the front. *)
LEMMA IterNextKeeps ==
  ASSUME ListInv, IterNext
  PROVE  ListInv'
<1>1. ListTypes' /\ LinkInv'
  BY ListsFrame DEF ListInv, IterNext
<1>2. it.on /\ it.len > 0 /\ content' = content /\ IterTypes /\ IterExact /\ ListTypes
  BY DEF IterNext, ListInv, IterInv
<1>. SUFFICES ASSUME NEW k \in Nat, Ahead(k),
                     NEW l, l = it.of, NEW c, c = content[l], NEW n, n = Len(c), NEW m, m = it.len,
                     NEW w, w = seen.want, NEW a, a = Len(seen.front), NEW b, b = Len(seen.back)
              PROVE  IterInv' /\ IterExact'
  BY <1>1, <1>2 DEF ListInv, IterInv
<1>3. /\ l \in List /\ c \in Seq(Node) /\ n \in Nat /\ m \in Nat /\ m > 0 /\ k + m <= n
      /\ w \in Seq(Node) /\ a \in Nat /\ b \in Nat /\ Len(w) \in Nat /\ a + b + m = Len(w)
      /\ \A j \in 1 .. m : c[k + j] = w[a + j]
      /\ it.start = w[a + 1] /\ it.start \in Node /\ it.end = c[k + m]
      /\ next[it.start] = IF k + 1 = n THEN Nil ELSE c[k + 2]
  BY <1>2, IterFacts
<1>4. next[it.start] \in Node \cup {Nil, Gone} /\ m - 1 \in Nat
  <2>1. m - 1 \in Nat
    BY ONLY <1>3
  <2>. QED BY <1>2, <1>3, <2>1 DEF ListTypes
<1>5. it' = [it EXCEPT !.start = next[it.start], !.len = m - 1]
  BY <1>2 DEF IterNext, IterTypes
<1>6. seen' = [seen EXCEPT !.front = Append(seen.front, it.start)]
  BY <1>2 DEF IterNext, IterTypes
<1>7. /\ it'.on = it.on /\ it'.of = l /\ it'.end = it.end /\ it'.start = next[it.start] /\ it'.len = m - 1
      /\ seen'.want = w /\ seen'.back = seen.back /\ seen'.front = Append(seen.front, it.start)
      /\ IterTypes'
  <2>1. /\ it'.on = it.on /\ it'.of = l /\ it'.end = it.end /\ it'.start = next[it.start] /\ it'.len = m - 1
        /\ it' \in [on : BOOLEAN, of : List \cup {Nil}, start : Node \cup {Nil, Gone},
                   end : Node \cup {Nil, Gone}, len : Nat]
    BY <1>2, <1>4, <1>5 DEF IterTypes
  <2>2. seen.front \in Seq(Node) /\ Append(seen.front, it.start) \in Seq(Node)
    BY <1>2, <1>3 DEF IterTypes
  <2>3. /\ seen'.want = w /\ seen'.back = seen.back /\ seen'.front = Append(seen.front, it.start)
        /\ seen' \in [want : Seq(Node), front : Seq(Node), back : Seq(Node)]
    BY <1>2, <1>6, <2>2 DEF IterTypes
  <2>. QED BY <2>1, <2>3 DEF IterTypes
<1>8. seen.front \in Seq(Node) /\ seen.back \in Seq(Node)
  BY <1>2 DEF IterTypes
<1>9. /\ Len(seen'.front) = a + 1 /\ DOMAIN seen'.front = 1 .. a + 1
      /\ \A j \in 1 .. a : seen'.front[j] = seen.front[j]
      /\ seen'.front[a + 1] = it.start
  BY <1>3, <1>7, <1>8
<1>10. Ahead(k + 1)'
  <2>1. k + 1 + (m - 1) <= n /\ k + 1 + (m - 1) = k + m
    BY ONLY <1>3, k \in Nat
  <2>2. ASSUME NEW j \in 1 .. m - 1
        PROVE  c[k + 1 + j] = w[a + 1 + j]
    <3>1. j + 1 \in 1 .. m /\ k + (j + 1) = k + 1 + j /\ a + (j + 1) = a + 1 + j
      BY ONLY <1>3, k \in Nat, j \in 1 .. m - 1
    <3>. QED BY <1>3, <3>1
  <2>3. ASSUME m - 1 > 0 PROVE it'.start = c[k + 1 + 1]
    <3>1. k + 1 # n /\ k + 1 + 1 = k + 2
      BY ONLY <1>3, <2>3, k \in Nat
    <3>. QED BY <1>3, <1>7, <3>1
  <2>4. content'[it'.of] = c
    BY <1>2, <1>7
  <2>. QED BY <1>3, <1>7, <1>9, <2>1, <2>2, <2>3, <2>4 DEF Ahead
<1>11. IterInv'
  <2>1. \E q \in Nat : Ahead(q)'
    <3>1. k + 1 \in Nat
      OBVIOUS
    <3>. QED BY <1>10, <3>1
  <2>2. \A i, j \in 1 .. Len(w) : w[i] = w[j] => i = j
    BY <1>2 DEF IterInv, ListInv
  <2>. QED BY <1>3, <1>7, <2>1, <2>2 DEF IterInv
<1>12. IterExact'
  <2>1. /\ \A i \in 1 .. a : seen.front[i] = w[i]
        /\ \A i \in DOMAIN seen.back : seen.back[i] = w[Len(w) + 1 - i]
    BY <1>2, <1>8 DEF IterExact
  <2>2. ASSUME NEW i \in 1 .. a + 1 PROVE seen'.front[i] = w[i]
    <3>1. i \in 1 .. a \/ i = a + 1
      BY ONLY <1>3, i \in 1 .. a + 1
    <3>. QED BY <1>3, <1>9, <2>1, <3>1
  <2>3. a + 1 + b + (m - 1) = Len(w)
    BY ONLY <1>3
  <2>4. \A i \in DOMAIN seen'.front : seen'.front[i] = seen'.want[i]
    BY <1>7, <1>9, <2>2
  <2>5. \A i \in DOMAIN seen'.back : seen'.back[i] = seen'.want[Len(seen'.want) + 1 - i]
    BY <1>7, <2>1
  <2>6. Len(seen'.front) + Len(seen'.back) + it'.len = Len(seen'.want)
    BY <1>7, <1>9, <2>3
  <2>. QED BY <2>4, <2>5, <2>6 DEF IterExact
<1>. QED BY <1>11, <1>12

(* So does a step of it from the back. *)
LEMMA IterNextBackKeeps ==
  ASSUME ListInv, IterNextBack
  PROVE  ListInv'
<1>1. ListTypes' /\ LinkInv'
  BY ListsFrame DEF ListInv, IterNextBack
<1>2. it.on /\ it.len > 0 /\ content' = content /\ IterTypes /\ IterExact /\ ListTypes
  BY DEF IterNextBack, ListInv, IterInv
<1>. SUFFICES ASSUME NEW k \in Nat, Ahead(k),
                     NEW l, l = it.of, NEW c, c = content[l], NEW n, n = Len(c), NEW m, m = it.len,
                     NEW w, w = seen.want, NEW a, a = Len(seen.front), NEW b, b = Len(seen.back)
              PROVE  IterInv' /\ IterExact'
  BY <1>1, <1>2 DEF ListInv, IterInv
<1>3. /\ l \in List /\ c \in Seq(Node) /\ n \in Nat /\ m \in Nat /\ m > 0 /\ k + m <= n
      /\ w \in Seq(Node) /\ a \in Nat /\ b \in Nat /\ Len(w) \in Nat /\ a + b + m = Len(w)
      /\ \A j \in 1 .. m : c[k + j] = w[a + j]
      /\ it.start = c[k + 1] /\ it.end = w[a + m] /\ it.end \in Node
      /\ prev[it.end] = IF k + m = 1 THEN Nil ELSE c[k + m - 1]
  BY <1>2, IterFacts
<1>4. prev[it.end] \in Node \cup {Nil, Gone} /\ m - 1 \in Nat
  <2>1. m - 1 \in Nat
    BY ONLY <1>3
  <2>. QED BY <1>2, <1>3, <2>1 DEF ListTypes
<1>5. it' = [it EXCEPT !.end = prev[it.end], !.len = m - 1]
  BY <1>2 DEF IterNextBack, IterTypes
<1>6. seen' = [seen EXCEPT !.back = Append(seen.back, it.end)]
  BY <1>2 DEF IterNextBack, IterTypes
<1>7. /\ it'.on = it.on /\ it'.of = l /\ it'.start = it.start /\ it'.end = prev[it.end] /\ it'.len = m - 1
      /\ seen'.want = w /\ seen'.front = seen.front /\ seen'.back = Append(seen.back, it.end)
      /\ IterTypes'
  <2>1. /\ it'.on = it.on /\ it'.of = l /\ it'.start = it.start /\ it'.end = prev[it.end] /\ it'.len = m - 1
        /\ it' \in [on : BOOLEAN, of : List \cup {Nil}, start : Node \cup {Nil, Gone},
                   end : Node \cup {Nil, Gone}, len : Nat]
    BY <1>2, <1>4, <1>5 DEF IterTypes
  <2>2. seen.back \in Seq(Node) /\ Append(seen.back, it.end) \in Seq(Node)
    BY <1>2, <1>3 DEF IterTypes
  <2>3. /\ seen'.want = w /\ seen'.front = seen.front /\ seen'.back = Append(seen.back, it.end)
        /\ seen' \in [want : Seq(Node), front : Seq(Node), back : Seq(Node)]
    BY <1>2, <1>6, <2>2 DEF IterTypes
  <2>. QED BY <2>1, <2>3 DEF IterTypes
<1>8. seen.front \in Seq(Node) /\ seen.back \in Seq(Node)
  BY <1>2 DEF IterTypes
<1>9. /\ Len(seen'.back) = b + 1 /\ DOMAIN seen'.back = 1 .. b + 1
      /\ \A j \in 1 .. b : seen'.back[j] = seen.back[j]
      /\ seen'.back[b + 1] = it.end
  BY <1>3, <1>7, <1>8
<1>10. Ahead(k)'
  <2>1. k + (m - 1) <= n /\ k + (m - 1) = k + m - 1
    BY ONLY <1>3, k \in Nat
  <2>2. ASSUME NEW j \in 1 .. m - 1
        PROVE  c[k + j] = w[a + j]
    <3>1. j \in 1 .. m
      BY ONLY <1>3, j \in 1 .. m - 1
    <3>. QED BY <1>3, <3>1
  <2>3. ASSUME m - 1 > 0 PROVE it'.end = c[k + (m - 1)]
    <3>1. k + m # 1
      BY ONLY <1>3, <2>3, k \in Nat
    <3>. QED BY <1>3, <1>7, <2>1, <3>1
  <2>4. content'[it'.of] = c
    BY <1>2, <1>7
  <2>. QED BY <1>3, <1>7, <1>9, <2>1, <2>2, <2>3, <2>4 DEF Ahead
<1>11. IterInv'
  <2>1. \E q \in Nat : Ahead(q)'
    BY <1>10
  <2>2. \A i, j \in 1 .. Len(w) : w[i] = w[j] => i = j
    BY <1>2 DEF IterInv, ListInv
  <2>. QED BY <1>3, <1>7, <2>1, <2>2 DEF IterInv
<1>12. IterExact'
  <2>1. /\ \A i \in 1 .. b : seen.back[i] = w[Len(w) + 1 - i]
        /\ \A i \in DOMAIN seen.front : seen.front[i] = w[i]
    BY <1>2, <1>8 DEF IterExact
  <2>2. ASSUME NEW i \in 1 .. b + 1 PROVE seen'.back[i] = w[Len(w) + 1 - i]
    <3>1. (i \in 1 .. b \/ i = b + 1) /\ Len(w) + 1 - (b + 1) = a + m
      BY ONLY <1>3, i \in 1 .. b + 1
    <3>2. CASE i \in 1 .. b
      BY <1>9, <2>1, <3>2
    <3>3. CASE i = b + 1
      BY <1>3, <1>9, <3>1, <3>3
    <3>. QED BY <3>1, <3>2, <3>3
  <2>3. a + (b + 1) + (m - 1) = Len(w)
    BY ONLY <1>3
  <2>4. \A i \in DOMAIN seen'.front : seen'.front[i] = seen'.want[i]
    BY <1>7, <2>1
  <2>5. \A i \in DOMAIN seen'.back : seen'.back[i] = seen'.want[Len(seen'.want) + 1 - i]
    BY <1>7, <1>9, <2>2
  <2>6. Len(seen'.front) + Len(seen'.back) + it'.len = Len(seen'.want)
    BY <1>7, <1>9, <2>3
  <2>. QED BY <2>4, <2>5, <2>6 DEF IterExact
<1>. QED BY <1>11, <1>12

(* The body of the loop takes out a node that the iterator has given out:  *)
(* the stretch that is left stays in the list, and may move down by one.   *)
LEMMA BodyRemovesKeeps ==
  ASSUME ListInv, NEW v \in Node, BodyRemoves(v)
  PROVE  ListInv'
<1>1. it.on /\ it' = it /\ seen' = seen /\ ListTypes /\ LinkInv /\ IterTypes /\ IterExact
  BY DEF BodyRemoves, ListInv, IterInv
<1>. SUFFICES ASSUME NEW k \in Nat, Ahead(k),
                     NEW l, l = it.of, NEW c, c = content[l], NEW n, n = Len(c), NEW m, m = it.len,
                     NEW w, w = seen.want, NEW a, a = Len(seen.front), NEW b, b = Len(seen.back)
              PROVE  ListInv'
  BY <1>1 DEF ListInv, IterInv
<1>2. /\ l \in List /\ c \in Seq(Node) /\ n \in Nat /\ m \in Nat /\ k + m <= n
      /\ w \in Seq(Node) /\ a \in Nat /\ b \in Nat /\ Len(w) \in Nat /\ a + b + m = Len(w)
      /\ \A j \in 1 .. m : c[k + j] = w[a + j]
      /\ m > 0 => it.start = c[k + 1] /\ it.end = c[k + m]
  BY <1>1, IterFacts
<1>3. PICK i \in 1 .. n : c[i] = v /\ content' = [content EXCEPT ![l] = RemoveAt(@, i)]
  <2>1. PICK i \in DOMAIN content[it.of] :
            content[it.of][i] = v /\ content' = [content EXCEPT ![it.of] = RemoveAt(@, i)]
    BY DEF BodyRemoves
  <2>2. i \in 1 .. n
    BY <1>2, <2>1
  <2>3. c[i] = v /\ content' = [content EXCEPT ![l] = RemoveAt(@, i)]
    BY <2>1
  <2>. QED BY <2>2, <2>3
<1>4. RemoveNode(l, c[i])
  BY <1>3 DEF BodyRemoves
<1>5. ListTypes' /\ LinkInv'
  <2>1. LinksRemove(content[l], l, i)
    BY <1>1, <1>2, <1>3, <1>4, RemoveNodeLinks
  <2>. QED BY <1>1, <1>2, <1>3, <2>1, Removed
<1>6. \E q \in 1 .. Len(w) : v = w[q] /\ (q <= a \/ q > a + m)
  <2>1. seen.front \in Seq(Node) /\ seen.back \in Seq(Node)
    BY <1>1 DEF IterTypes
  <2>2. CASE seen.front # <<>> /\ v = Last(seen.front)
    <3>1. a \in 1 .. Len(w) /\ a \in DOMAIN seen.front
      <4>1. a # 0 /\ DOMAIN seen.front = 1 .. a
        BY <2>1, <2>2
      <4>. QED BY ONLY <1>2, <4>1
    <3>2. v = w[a]
      BY <1>1, <2>2, <3>1 DEF Last, IterExact
    <3>. QED BY <1>2, <3>1, <3>2
  <2>3. CASE seen.back # <<>> /\ v = Last(seen.back)
    <3>1. b \in DOMAIN seen.back /\ b > 0
      BY <1>2, <2>1, <2>3
    <3>2. v = w[Len(w) + 1 - b]
      BY <1>1, <2>3, <3>1 DEF Last, IterExact
    <3>3. Len(w) + 1 - b \in 1 .. Len(w) /\ Len(w) + 1 - b > a + m
      BY ONLY <1>2, <3>1
    <3>. QED BY <3>2, <3>3
  <2>. QED BY <2>2, <2>3 DEF BodyRemoves
<1>7. i <= k \/ i > k + m
  <2>. SUFFICES ASSUME i > k, i <= k + m PROVE FALSE
    BY <1>2
  <2>1. PICK j \in 1 .. m : i = k + j
    <3>1. i - k \in 1 .. m /\ i = k + (i - k)
      BY <1>2
    <3>. QED BY <3>1
  <2>2. PICK q \in 1 .. Len(w) : v = w[q] /\ (q <= a \/ q > a + m)
    BY <1>6
  <2>3. w[a + j] = w[q]
    BY <1>2, <1>3, <2>1, <2>2
  <2>4. a + j \in 1 .. Len(w) /\ a + j # q
    BY ONLY <1>2, <2>1, <2>2, j \in 1 .. m
  <2>5. \A x, y \in 1 .. Len(w) : w[x] = w[y] => x = y
    BY <1>1 DEF ListInv, IterInv
  <2>. QED BY <2>3, <2>4, <2>5
<1>. DEFINE d == RemoveAt(c, i)
<1>8. /\ Len(d) = n - 1 /\ \A j \in 1 .. n - 1 : d[j] = IF j < i THEN c[j] ELSE c[j + 1]
  <2>1. c \in Seq(Node) /\ i \in 1 .. Len(c)
    BY <1>2
  <2>2. /\ Len(RemoveAt(c, i)) = Len(c) - 1
        /\ \A j \in 1 .. Len(c) - 1 : RemoveAt(c, i)[j] = IF j < i THEN c[j] ELSE c[j + 1]
    BY ONLY <2>1, RemovedAt
  <2>3. Len(d) = Len(c) - 1 /\ \A j \in 1 .. Len(c) - 1 : d[j] = IF j < i THEN c[j] ELSE c[j + 1]
    BY <2>2
  <2>. HIDE DEF d
  <2>. QED BY <2>3
<1>9. content'[l] = d
  BY <1>1, <1>2, <1>3 DEF ListTypes
<1>. HIDE DEF d
<1>10. \E q \in Nat : Ahead(q)'
  <2>1. CASE i > k + m
    <3>1. k + m <= n - 1
      BY ONLY <1>2, <2>1, k \in Nat, i \in 1 .. n
    <3>2. ASSUME NEW j \in 1 .. m PROVE d[k + j] = c[k + j]
      <4>1. k + j \in 1 .. n - 1 /\ k + j < i
        BY ONLY <1>2, <2>1, k \in Nat, i \in 1 .. n, j \in 1 .. m
      <4>. QED BY <1>8, <4>1
    <3>3. m > 0 => d[k + 1] = c[k + 1] /\ d[k + m] = c[k + m]
      <4>1. m > 0 => 1 \in 1 .. m /\ m \in 1 .. m
        BY ONLY <1>2
      <4>. QED BY <3>2, <4>1
    <3>4. Ahead(k)'
      BY <1>1, <1>2, <1>8, <1>9, <3>1, <3>2, <3>3 DEF Ahead
    <3>. QED BY <3>4
  <2>2. CASE i <= k
    <3>0. k - 1 \in Nat
      BY ONLY <2>2, <1>2, k \in Nat, i \in 1 .. n
    <3>1. k - 1 + m <= n - 1
      BY ONLY <1>2, k \in Nat
    <3>2. ASSUME NEW j \in 1 .. m PROVE d[k - 1 + j] = c[k + j]
      <4>1. k - 1 + j \in 1 .. n - 1 /\ ~(k - 1 + j < i) /\ k - 1 + j + 1 = k + j
        BY ONLY <1>2, <2>2, k \in Nat, i \in 1 .. n, j \in 1 .. m
      <4>. QED BY <1>8, <4>1
    <3>3. m > 0 => d[k - 1 + 1] = c[k + 1] /\ d[k - 1 + m] = c[k + m]
      <4>1. m > 0 => 1 \in 1 .. m /\ m \in 1 .. m
        BY ONLY <1>2
      <4>. QED BY <3>2, <4>1
    <3>4. Ahead(k - 1)'
      BY <1>1, <1>2, <1>8, <1>9, <3>1, <3>2, <3>3 DEF Ahead
    <3>. QED BY <3>0, <3>4
  <2>. QED BY <1>7, <2>1, <2>2
<1>11. IterInv'
  BY <1>1, <1>10 DEF ListInv, IterInv, IterTypes
<1>12. IterExact'
  BY <1>1 DEF IterExact
<1>. QED BY <1>5, <1>11, <1>12 DEF ListInv

(* So does a push of the body of the loop onto another list. *)
LEMMA BodyPushesKeeps ==
  ASSUME ListInv, NEW l \in List, NEW v \in Node, BodyPushes(v, l)
  PROVE  ListInv'
<1>1. it.on /\ it' = it /\ seen' = seen /\ ListTypes /\ LinkInv /\ IterTypes /\ IterExact /\ it.of \in List
  BY DEF BodyPushes, ListInv, IterInv
<1>2. Outside(v) /\ l # it.of /\ Push(l, v) /\ content' = [content EXCEPT ![l] = Append(@, v)]
  BY DEF BodyPushes
<1>3. content[l] \in Seq(Node) /\ Len(content[l]) \in Nat
  BY <1>1, ListFacts
<1>4. Append(content[l], v) = InsertAt(content[l], Len(content[l]) + 1, v)
  BY <1>3, AppendInserts
<1>5. ListTypes' /\ LinkInv'
  <2>1. LinksAdd(content[l], l, v, Len(content[l]) + 1)
    BY <1>1, <1>2, PushLinks
  <2>2. content' = [content EXCEPT ![l] = InsertAt(@, Len(content[l]) + 1, v)]
    BY <1>2, <1>4
  <2>3. Len(content[l]) + 1 \in 1 .. Len(content[l]) + 1
    BY <1>3
  <2>. QED BY <1>1, <1>2, <2>1, <2>2, <2>3, Added
<1>6. content'[it.of] = content[it.of]
  BY <1>1, <1>2 DEF ListTypes
<1>7. IterInv'
  <2>1. PICK k \in Nat : Ahead(k)
    BY <1>1 DEF ListInv, IterInv
  <2>2. Ahead(k)'
    BY <1>1, <1>6, <2>1 DEF Ahead
  <2>3. \E q \in Nat : Ahead(q)'
    BY <2>2
  <2>. QED BY <1>1, <2>3 DEF ListInv, IterInv, IterTypes
<1>8. IterExact'
  BY <1>1 DEF IterExact
<1>. QED BY <1>5, <1>7, <1>8 DEF ListInv

(* So does the end of the iteration. *)
LEMMA IterDoneKeeps ==
  ASSUME ListInv, IterDone
  PROVE  ListInv'
<1>1. ListTypes' /\ LinkInv'
  BY ListsFrame DEF ListInv, IterDone
<1>2. it' = NoIter /\ seen' = NothingSeen
  BY DEF IterDone
<1>. QED BY <1>1, <1>2 DEF ListInv, IterInv, IterTypes, IterExact, NoIter, NothingSeen

-----------------------------------------------------------------------------

(* Every step of the owner of the lists keeps the invariant. *)
LEMMA ListStep ==
  ListInv /\ [ListNext]_listVars => ListInv'
<1>. SUFFICES ASSUME ListInv, [ListNext]_listVars PROVE ListInv'
  OBVIOUS
<1>1. CASE IterNext
  BY <1>1, IterNextKeeps
<1>2. CASE IterNextBack
  BY <1>2, IterNextBackKeeps
<1>3. CASE IterDone
  BY <1>3, IterDoneKeeps
<1>4. ASSUME NEW l \in List, CallPop(l) \/ CallPopFront(l) \/ CallRemove(l) \/ CallRemoveNode(l)
      PROVE  ListInv'
  BY <1>4, CallsKeep
<1>5. ASSUME NEW l \in List, IterNew(l) PROVE ListInv'
  BY <1>5, IterNewKeeps
<1>6. ASSUME NEW l \in List, NEW v \in Node,
             \/ CallPush(l, v) \/ CallPushFront(l, v) \/ CallInsert(l, v)
             \/ CallInsertBefore(l, v) \/ CallInsertAfter(l, v) \/ CallUpdateNode(l, v)
      PROVE  ListInv'
  BY <1>6, CallsKeep
<1>7. ASSUME NEW l \in List, NEW v \in Node, BodyPushes(v, l) PROVE ListInv'
  BY <1>7, BodyPushesKeeps
<1>8. ASSUME NEW v \in Node, BodyRemoves(v) PROVE ListInv'
  BY <1>8, BodyRemovesKeeps
<1>9. CASE UNCHANGED listVars
  BY <1>9 DEF listVars, ListInv, ListTypes, LinkInv, IterInv, IterTypes, IterExact, Ahead
<1>. QED BY <1>1, <1>2, <1>3, <1>4, <1>5, <1>6, <1>7, <1>8, <1>9 DEF ListNext

(* The links, the heads of the lists and the iterator are right in every   *)
(* reachable state.                                                        *)
THEOREM ListCorrect == ListSpec => []ListInv
<1>1. ListInit => ListInv
  <2>. SUFFICES ASSUME ListInit PROVE ListInv
    OBVIOUS
  <2>1. ListTypes
    BY DEF ListInit, ListTypes, ListHead
  <2>2. LinkInv
    BY DEF ListInit, LinkInv, Apart, Chain, Ends
  <2>3. IterInv /\ IterExact
    BY DEF ListInit, IterInv, IterTypes, IterExact, NoIter, NothingSeen
  <2>. QED BY <2>1, <2>2, <2>3 DEF ListInv
<1>. QED BY <1>1, ListStep, PTL DEF ListSpec

(* Whatever calls the owner makes, walking a list from its start, from its *)
(* end and by get at every index finds exactly the nodes that were put in  *)
(* and not taken out, in order, and len counts them.                       *)
THEOREM ListsExact == ListSpec => []ListExact
<1>1. ListInv => ListExact
  <2>. DEFINE Exact(l, c) ==
                /\ lst[l].len = Len(c)
                /\ \A i \in DOMAIN c : GetNode(l, i - 1) = c[i]
                /\ c # <<>> => /\ lst[l].start = Head(c) /\ lst[l].end = Last(c)
                               /\ prev[Head(c)] = Nil /\ next[Last(c)] = Nil
                /\ \A i \in 1 .. Len(c) - 1 : next[c[i]] = c[i + 1] /\ prev[c[i + 1]] = c[i]
  <2>. SUFFICES ASSUME ListInv, NEW l \in List PROVE Exact(l, content[l])
    BY DEF ListExact
  <2>. HIDE DEF Exact
  <2>. SUFFICES ASSUME NEW c, c = content[l], NEW n, n = Len(c) PROVE Exact(l, c)
    OBVIOUS
  <2>0. ListTypes /\ LinkInv
    BY DEF ListInv
  <2>1. /\ c \in Seq(Node) /\ n \in Nat /\ lst[l].len = n
        /\ n > 0 => lst[l].start = c[1] /\ lst[l].end = c[n]
    BY <2>0, ListFacts
  <2>2. ASSUME NEW i \in 1 .. n
        PROVE  /\ next[c[i]] = IF i = n THEN Nil ELSE c[i + 1]
               /\ prev[c[i]] = IF i = 1 THEN Nil ELSE c[i - 1]
    BY <2>0, ListFacts
  <2>3. ASSUME NEW i \in 1 .. n PROVE GetNode(l, i - 1) = c[i]
    <3>1. i - 1 \in 0 .. n - 1 /\ i - 1 + 1 = i
      BY <2>1
    <3>2. GetNode(l, i - 1) = content[l][i - 1 + 1]
      BY <2>0, <3>1, GetNodeExact
    <3>. QED BY <3>1, <3>2
  <2>4. ASSUME NEW i \in 1 .. n - 1 PROVE next[c[i]] = c[i + 1] /\ prev[c[i + 1]] = c[i]
    <3>1. i \in 1 .. n /\ i + 1 \in 1 .. n /\ i # n /\ i + 1 # 1 /\ i + 1 - 1 = i
      BY <2>1
    <3>. QED BY <2>2, <3>1
  <2>5. ASSUME c # <<>>
        PROVE  /\ lst[l].start = Head(c) /\ lst[l].end = Last(c)
               /\ prev[Head(c)] = Nil /\ next[Last(c)] = Nil
    <3>1. n > 0 /\ 1 \in 1 .. n /\ n \in 1 .. n /\ Head(c) = c[1] /\ Last(c) = c[n]
      BY <2>1, <2>5 DEF Last
    <3>. QED BY <2>1, <2>2, <3>1
  <2>6. DOMAIN c = 1 .. n
    BY <2>1
  <2>. QED BY <2>1, <2>3, <2>4, <2>5, <2>6 DEF Exact
<1>. QED BY <1>1, ListCorrect, PTL

(* An iteration gives out every node that was in the list at its start     *)
(* once and in order, from both ends in any mixture, although the body of  *)
(* the loop takes nodes it was given out of the list, or frees them.       *)
THEOREM IterationsExact == ListSpec => []IterExact
<1>1. ListInv => IterExact
  BY DEF ListInv
<1>. QED BY <1>1, ListCorrect, PTL
=============================================================================
