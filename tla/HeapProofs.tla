----------------------------- MODULE HeapProofs -----------------------------
(***************************************************************************)
(* Proofs about modules BuddyAlloc and Heap, for every memory map, page    *)
(* size, set of layouts and number of processors.                          *)
(***************************************************************************)
EXTENDS Heap, FiniteSetTheorems, WellFoundedInduction, TLAPS

-----------------------------------------------------------------------------
(* The inductive invariant.                                                *)

(* A tile is <<first, length>>.  Tiles cover an interval exactly once.     *)
Apart(s, t) == s[1] + s[2] <= t[1] \/ t[1] + t[2] <= s[1]
Covers(t, p) == t[1] <= p /\ p < t[1] + t[2]

Tiling(T, lo, hi) ==
  /\ \A t \in T : /\ t = <<t[1], t[2]>> /\ t[1] \in Nat /\ t[2] \in Nat \ {0}
                  /\ lo <= t[1] /\ t[1] + t[2] <= hi
  /\ \A s, t \in T : s = t \/ Apart(s, t)
  /\ \A p \in lo .. hi - 1 : \E t \in T : Covers(t, p)

(* BuddyAllocator: its free blocks and those in use, B, tile the zone; all *)
(* are aligned to their size.                                              *)
ListTiles(free, h) == UNION {{<<a, 2^o>> : a \in ToSet(free[o])} : o \in 0 .. h}
ListSum(free, h) == Sum([o \in 0 .. h |-> Len(free[o]) * 2^o], 0, h)
FreeTiles(z, Z) == ListTiles(Z.free, TopOrder[z])

ZoneInv(z, Z, B) ==
  /\ Z \in [free : [Order(z) -> Seq(Nat)], alloced : SUBSET Nat, space : Nat]
  /\ \A o \in Order(z) : IsInjective(Z.free[o]) /\ \A i \in DOMAIN Z.free[o] : Z.free[o][i] % 2^o = 0
  /\ \A b \in B : \E o \in Order(z) : b[2] = 2^o /\ b[1] % 2^o = 0
  /\ FreeTiles(z, Z) \cap B = {}
  /\ Tiling(FreeTiles(z, Z) \cup B, Start(z), MetaStart(z))
  /\ Z.alloced = {b[1] : b \in B}
  /\ Z.space = ListSum(Z.free, TopOrder[z])

PageTiles(z, owned) == {<<m.addr, 2^m.order>> : m \in {n \in owned : n.zindex = z}}

PagesOk(zs, owned) ==
  /\ owned \subseteq Allocation /\ zs = [z \in Zone |-> zs[z]]
  /\ \A z \in Zone : ZoneInv(z, zs[z], PageTiles(z, owned))

(* OwnedPages, and that nobody has a block that somebody else has. *)
Mems(o) == {o[c].mem : c \in Cpu} \ {NoMem}
ZoneMems(H) == {H[i].mem : i \in DOMAIN H}
Owned(h, o, H) == h \cup Mems(o) \cup ZoneMems(H)

Exclusive(h, o, H) ==
  /\ \A c \in Cpu : o[c].mem # NoMem =>
       /\ o[c].mem \notin h /\ o[c].mem \notin ZoneMems(H)
       /\ \A d \in Cpu : o[d].mem = o[c].mem => d = c
  /\ ZoneMems(H) \cap h = {}
  /\ \A i, j \in DOMAIN H : H[i].mem = H[j].mem => i = j

PageInv == PagesOk(zones, Owned(held, op, heap)) /\ Exclusive(held, op, heap)

(* HeapZone: behind the header the nodes and the blocks in use, U, tile    *)
(* the zone; all are aligned to Chunk, and no two nodes touch.             *)
NodeTiles(list) == {<<n.addr, n.size>> : n \in ToSet(list)}
NodeSum(list) == Sum([j \in DOMAIN list |-> list[j].size], 1, Len(list))
Sorted(list) == \A i, j \in DOMAIN list : i < j => list[i].addr + list[i].size < list[j].addr
HeapNode == [addr : Nat, size : Nat]

ListInv(Z, U) ==
  /\ Z.list \in Seq(HeapNode) /\ Z.space \in Nat
  /\ \A j \in DOMAIN Z.list : Z.list[j].addr % Chunk = 0 /\ Z.list[j].size % Chunk = 0
  /\ Sorted(Z.list)
  /\ \A u \in U : u[1] % Chunk = 0
  /\ NodeTiles(Z.list) \cap U = {}
  /\ Tiling(NodeTiles(Z.list) \cup U, Z.base + InitialChunk, Z.base + Z.len)
  /\ Z.space = NodeSum(Z.list)

HeapZone == [base : Nat, len : Nat, mem : Allocation, space : Nat, list : Seq(HeapNode)]

BlockTiles(Z, used) ==
  {<<b.addr, AlignUp(b.lay.size, Chunk)>> : b \in {d \in used : d.addr \in Bytes(Z.base, Z.len)}}

ZoneBytes(Z) == Z.base = Z.mem.addr * PageSize /\ Z.len = 2^Z.mem.order * PageSize

BlocksOk(H, used) ==
  /\ used \subseteq [addr : Nat, lay : Layouts]
  /\ \A b \in used : \E i \in DOMAIN H : b.addr \in Bytes(H[i].base, H[i].len)
  /\ \A b, d \in used : b.addr = d.addr => b = d

HeapOk(H, used) ==
  /\ H \in Seq(HeapZone)
  /\ \A i \in DOMAIN H : ZoneBytes(H[i]) /\ ListInv(H[i], BlockTiles(H[i], used))
  /\ BlocksOk(H, used)

HeapInv == HeapOk(heap, blocks)

(* A call of zm.alloc, and who waits for it. *)
OpType == [pc : {"idle", "first", "try", "done"}, user : {"none", "pages", "heap"},
           size : Nat, start : Zone, i : Zone, mem : Allocation \cup {NoMem}]

CallOk(c, o, l, w, b) ==
  /\ o.pc = "idle" => o = Idle
  /\ o.pc = "first" => o.i = o.start
  /\ o.pc # "done" => o.mem = NoMem
  /\ o.pc # "idle" => o.user # "none"
  /\ o.user = "heap" <=> l = c
  /\ o.user = "pages" => b = "up"
  /\ o.mem # NoMem => o.mem.order = GetOrder(o.size)
  /\ l = c => IF b = "up" THEN w \in Layouts /\ o.size = GrowSize(w)
              ELSE b = "heap" /\ o.size = InitialHeapSize

CallInv ==
  /\ op \in [Cpu -> OpType] /\ selnum \in Zone
  /\ lock \in Cpu \cup {NoCpu} /\ want \in [Cpu -> Layouts \cup {NoLayout}]
  /\ \A c \in Cpu : CallOk(c, op[c], lock, want[c], boot)

(* The zones between the two steps of init() that allocate, and the zones  *)
(* that the second of them has tried so far.                               *)
AfterApCode == [z \in Zone |-> IF z = 0 THEN OAllocAt(0, InitZone(0), ApPage, 0) ELSE InitZone(z)]
Tried(s, i) == IF s < i THEN s .. i - 1 ELSE (s .. NumZones - 1) \cup (0 .. i - 1)

BootInv ==
  /\ boot \in {"zones", "heap", "up"}
  /\ boot = "zones" => zones = [z \in Zone |-> InitZone(z)] /\ held = {}
  /\ boot # "up" => heap = << >> /\ blocks = {}
  /\ boot = "heap" =>
       /\ (\A c \in Cpu : op[c].mem = NoMem) => zones = AfterApCode
       /\ \A c \in Cpu :
            /\ op[c].pc = "done" => op[c].mem # NoMem
            /\ op[c].pc = "try" => \A z \in Tried(op[c].start, op[c].i) :
                                      Splittable(z, AfterApCode[z], GetOrder(InitialHeapSize)) = {}

Inv ==
  /\ CallInv /\ PageInv /\ HeapInv /\ BootInv
  /\ fault \in {"none", "borrow"}

-----------------------------------------------------------------------------
(* Numbers.                                                                *)

(* A set of natural numbers has a least one. *)
LEMMA Least ==
  ASSUME NEW T, T \subseteq Nat, T # {}
  PROVE  \E x \in T : \A y \in T : x <= y
<1>. DEFINE Rel == OpToRel(<, Nat)
<1>1. IsWellFoundedOn(Rel, Nat)
  BY NatLessThanWellFounded
<1>2. \A x, y \in Nat : y < x => <<y, x>> \in Rel
  BY DEF OpToRel
<1>. HIDE DEF Rel
<1>3. PICK x \in T : \A y \in T : ~ (<<y, x>> \in Rel)
  BY <1>1, WFMin
<1>4. \A y \in T : ~ (y < x)
  BY <1>2, <1>3
<1>. QED
  BY <1>4

(* A set of numbers that holds the first and with every number the next,   *)
(* up to n, holds n.                                                       *)
LEMMA Climb ==
  ASSUME NEW T, NEW lo \in Int, NEW n \in Int, lo <= n, lo \in T,
         \A k \in lo .. n - 1 : k \in T => k + 1 \in T
  PROVE  n \in T
<1>. DEFINE S == {k \in Nat : lo + k <= n /\ lo + k \notin T}
<1>. SUFFICES ASSUME n \notin T PROVE FALSE
  OBVIOUS
<1>1. S \subseteq Nat /\ n - lo \in S
  OBVIOUS
<1>2. PICK m \in S : \A y \in S : m <= y
  <2>. HIDE DEF S
  <2>. QED BY <1>1, Least
<1>3. m \in Nat /\ lo + m <= n /\ lo + m \notin T /\ m # 0
  OBVIOUS
<1>4. m - 1 \in Nat /\ m - 1 \notin S
  BY <1>2, <1>3
<1>5. lo + (m - 1) \in T /\ lo + (m - 1) \in lo .. n - 1
  BY <1>3, <1>4
<1>6. (lo + (m - 1)) + 1 \in T
  BY <1>5
<1>7. (lo + (m - 1)) + 1 = lo + m
  BY <1>3
<1>. QED
  BY <1>3, <1>6, <1>7

(* The sets of numbers up to n, and those with n + 1. *)
LEMMA PowerStep ==
  ASSUME NEW n \in Nat
  PROVE  2^n \in Nat /\ 2^(n + 1) = 2^n + 2^n
<1>. DEFINE A == SUBSET (1 .. n)
            C == SUBSET (1 .. n + 1)
            B == {x \in C : n + 1 \in x}
            f == [x \in A |-> x \cup {n + 1}]
<1>1. /\ IsFiniteSet(1 .. n) /\ Cardinality(1 .. n) = n
      /\ IsFiniteSet(1 .. n + 1) /\ Cardinality(1 .. n + 1) = n + 1
  <2>1. 1 \in Int /\ n \in Int /\ n + 1 \in Int
    OBVIOUS
  <2>2. IsFiniteSet(1 .. n) /\ Cardinality(1 .. n) = IF 1 > n THEN 0 ELSE n - 1 + 1
    BY ONLY <2>1, FS_Interval
  <2>3. IsFiniteSet(1 .. n + 1) /\ Cardinality(1 .. n + 1) = IF 1 > n + 1 THEN 0 ELSE (n + 1) - 1 + 1
    BY ONLY <2>1, FS_Interval
  <2>. QED BY <2>2, <2>3
<1>2. IsFiniteSet(A) /\ Cardinality(A) = 2^n
  BY <1>1, FS_SUBSET
<1>3. IsFiniteSet(C) /\ Cardinality(C) = 2^(n + 1)
  BY <1>1, FS_SUBSET
<1>4. C = A \cup B /\ A \cap B = {}
  <2>1. 1 .. n + 1 = (1 .. n) \cup {n + 1} /\ n + 1 \notin 1 .. n
    OBVIOUS
  <2>. QED BY <2>1
<1>5. f \in Bijection(A, B)
  <2>1. n + 1 \notin 1 .. n /\ 1 .. n + 1 = (1 .. n) \cup {n + 1}
    OBVIOUS
  <2>2. f \in [A -> B]
    BY <2>1
  <2>3. \A x, y \in A : f[x] = f[y] => x = y
    BY <2>1
  <2>4. ASSUME NEW y \in B PROVE \E x \in A : f[x] = y
    <3>1. y \ {n + 1} \in A
      BY <2>1
    <3>2. f[y \ {n + 1}] = y
      BY <2>1, <3>1
    <3>. QED BY <3>1, <3>2
  <2>5. DOMAIN f = A
    OBVIOUS
  <2>. HIDE DEF f, A, B
  <2>. QED BY <2>5, <2>2, <2>3, <2>4 DEF Bijection, Injection, Surjection, IsInjective
<1>. HIDE DEF A, B, C, f
<1>6. IsFiniteSet(B) /\ Cardinality(B) = Cardinality(A)
  <2>1. ExistsBijection(A, B)
    BY <1>5 DEF ExistsBijection
  <2>. QED BY ONLY <1>2, <2>1, FS_Bijection
<1>7. Cardinality(A) \in Nat
  BY <1>2, FS_CardinalityType
<1>8. Cardinality(A \cup B) = Cardinality(A) + Cardinality(B) - Cardinality(A \cap B)
  BY ONLY <1>2, <1>6, FS_Union
<1>9. Cardinality(A \cap B) = 0
  BY <1>4, FS_EmptySet
<1>. QED
  BY <1>2, <1>3, <1>4, <1>6, <1>7, <1>8, <1>9

(* Powers of two. *)
LEMMA Power ==
  ASSUME NEW n \in Nat
  PROVE  2^n \in Nat /\ 2^n > 0 /\ 2^0 = 1 /\ 2^(n + 1) = 2 * 2^n
<1>. DEFINE T == {k \in Nat : 2^k > 0}
<1>1. 2^0 = 1
  OBVIOUS
<1>2. 0 \in T
  BY <1>1
<1>3. \A k \in 0 .. n - 1 : k \in T => k + 1 \in T
  BY PowerStep
<1>. HIDE DEF T
<1>4. n \in T
  <2>1. 0 \in Int /\ n \in Int /\ 0 <= n
    OBVIOUS
  <2>. QED BY ONLY <1>2, <1>3, <2>1, Climb
<1>5. 2^n > 0
  BY <1>4 DEF T
<1>6. 2^n \in Nat /\ 2^(n + 1) = 2^n + 2^n
  BY PowerStep
<1>. QED
  BY <1>1, <1>5, <1>6

(* They grow, and each is at least twice the ones before. *)
LEMMA PowerOrder ==
  ASSUME NEW m \in Nat, NEW n \in Nat, m <= n
  PROVE  2^m <= 2^n /\ (m < n => 2 * 2^m <= 2^n)
<1>. DEFINE T == {k \in m .. n : 2^m <= 2^k}
            U == {k \in m + 1 .. n : 2 * 2^m <= 2^k}
<1>1. \A k \in Nat : 2^k \in Nat /\ 2^(k + 1) = 2 * 2^k
  BY Power
<1>2. 2^m <= 2^n
  <2>1. m \in T
    BY <1>1
  <2>2. \A k \in m .. n - 1 : k \in T => k + 1 \in T
    BY <1>1
  <2>. HIDE DEF T
  <2>3. n \in T
    BY <2>1, <2>2, Climb
  <2>. QED BY <2>3 DEF T
<1>3. ASSUME m < n PROVE 2 * 2^m <= 2^n
  <2>1. m + 1 \in U
    BY <1>1, <1>3
  <2>2. \A k \in m + 1 .. n - 1 : k \in U => k + 1 \in U
    BY <1>1
  <2>. HIDE DEF U
  <2>3. n \in U
    BY <1>3, <2>1, <2>2, Climb
  <2>. QED BY <2>3 DEF U
<1>. QED
  BY <1>2, <1>3

(* A larger power has a larger exponent. *)
LEMMA PowerLess ==
  ASSUME NEW m \in Nat, NEW n \in Nat
  PROVE  (2^m <= 2^n => m <= n) /\ (2^m < 2^n => m < n) /\ (2^m = 2^n => m = n)
<1>1. 2^m \in Nat /\ 2^n \in Nat /\ 2^m > 0 /\ 2^n > 0
  BY Power
<1>2. n < m => 2 * 2^n <= 2^m
  BY PowerOrder
<1>3. m < n => 2 * 2^m <= 2^n
  BY PowerOrder
<1>. QED
  BY <1>1, <1>2, <1>3

(* Products keep the order. *)
LEMMA TimesOrder ==
  ASSUME NEW a \in Nat, NEW b \in Int, NEW c \in Int, b <= c
  PROVE  a * b <= a * c
<1>1. c - b \in Nat
  OBVIOUS
<1>2. a * (c - b) >= 0
  BY <1>1
<1>3. a * (c - b) = a * c - a * b
  OBVIOUS
<1>. QED
  BY <1>2, <1>3

(* One time more, or less. *)
LEMMA TimesSteps ==
  ASSUME NEW a \in Nat, NEW b \in Nat
  PROVE  a * b \in Nat /\ (a + 1) * b = a * b + b /\ (a - 1) * b = a * b - b
OBVIOUS

(* What is won is the difference of two totals. *)
LEMMA Gain ==
  ASSUME NEW v, NEW w \in Nat, NEW p \in Int, NEW d \in Int, NEW e \in Int, v = w + p, p = d - e
  PROVE  v = w + d - e
OBVIOUS

(* A quotient and what is left. *)
LEMMA Division ==
  ASSUME NEW n \in Nat, NEW h \in Nat \ {0}
  PROVE  /\ n \div h \in Nat /\ n % h \in 0 .. h - 1
         /\ n = h * (n \div h) + (n % h)
OBVIOUS

(* They are the only ones. *)
LEMMA Remainder ==
  ASSUME NEW n \in Nat, NEW h \in Nat \ {0}, NEW k \in Nat,
         h * k <= n, n < h * (k + 1)
  PROVE  n % h = n - h * k /\ n \div h = k
<1>. DEFINE q == n \div h
<1>1. q \in Nat /\ n % h \in 0 .. h - 1 /\ n = h * q + (n % h)
  BY Division
<1>. HIDE DEF q
<1>2. ~ (q <= k - 1)
  <2>. SUFFICES ASSUME q + 1 <= k PROVE FALSE
    BY <1>1
  <2>1. h * (q + 1) <= h * k
    BY <1>1, TimesOrder
  <2>2. h * (q + 1) = h * q + h
    BY <1>1
  <2>. QED
    BY <1>1, <2>1, <2>2
<1>3. ~ (k + 1 <= q)
  <2>. SUFFICES ASSUME k + 1 <= q PROVE FALSE
    OBVIOUS
  <2>1. h * (k + 1) <= h * q
    BY <1>1, TimesOrder
  <2>. QED
    BY <1>1, <2>1
<1>4. q = k
  BY <1>1, <1>2, <1>3
<1>. QED
  BY <1>1, <1>4 DEF q

(* What is left over nothing is a multiple. *)
LEMMA Multiple ==
  ASSUME NEW n \in Nat, NEW d \in Nat \ {0}
  PROVE  /\ n % d = 0 => n = d * (n \div d) /\ n \div d \in Nat
         /\ \A k \in Nat : n = d * k => n % d = 0 /\ n \div d = k
<1>1. n % d = 0 => n = d * (n \div d) /\ n \div d \in Nat
  BY Division
<1>2. ASSUME NEW k \in Nat, n = d * k PROVE n % d = 0 /\ n \div d = k
  <2>1. d * (k + 1) = d * k + d /\ d * k \in Nat
    OBVIOUS
  <2>2. n % d = n - d * k /\ n \div d = k
    BY <1>2, <2>1, Remainder
  <2>. QED BY <1>2, <2>1, <2>2
<1>. QED
  BY <1>1, <1>2

(* Sums and differences of multiples are multiples, and they lie d apart.  *)
LEMMA Multiples ==
  ASSUME NEW a \in Nat, NEW b \in Nat, NEW d \in Nat \ {0}, a % d = 0, b % d = 0
  PROVE  /\ (a + b) % d = 0
         /\ b <= a => (a - b) % d = 0
         /\ b < a => b + d <= a
<1>. DEFINE p == a \div d
            q == b \div d
<1>1. p \in Nat /\ q \in Nat /\ a = d * p /\ b = d * q
  BY Multiple
<1>. HIDE DEF p, q
<1>2. (a + b) % d = 0
  <2>1. a + b = d * (p + q) /\ p + q \in Nat /\ a + b \in Nat
    BY <1>1
  <2>. QED BY <2>1, Multiple
<1>3. b < a => q + 1 <= p
  <2>. SUFFICES ASSUME p <= q PROVE a <= b
    BY <1>1
  <2>1. d * p <= d * q
    BY <1>1, TimesOrder
  <2>. QED BY <1>1, <2>1
<1>4. ASSUME b < a PROVE b + d <= a
  <2>1. d * (q + 1) <= d * p
    BY <1>1, <1>3, <1>4, TimesOrder
  <2>2. d * (q + 1) = d * q + d
    BY <1>1
  <2>. QED BY <1>1, <2>1, <2>2
<1>5. ASSUME b < a PROVE (a - b) % d = 0
  <2>1. a - b = d * (p - q) /\ p - q \in Nat /\ a - b \in Nat
    BY <1>1, <1>3, <1>5
  <2>. QED BY <2>1, Multiple
<1>6. b = a => (a - b) % d = 0
  <2>1. 0 = d * 0
    OBVIOUS
  <2>2. 0 % d = 0
    BY <2>1, Multiple
  <2>. QED BY <2>2
<1>. QED
  BY <1>2, <1>4, <1>5, <1>6

(* A product with a multiple is one. *)
LEMMA MultipleTimes ==
  ASSUME NEW a \in Nat, NEW b \in Nat, NEW d \in Nat \ {0}, a % d = 0
  PROVE  a * b \in Nat /\ (a * b) % d = 0 /\ (b * a) % d = 0
<1>. DEFINE p == a \div d
<1>1. p \in Nat /\ a = d * p
  BY Multiple
<1>. HIDE DEF p
<1>2. a * b = d * (p * b) /\ p * b \in Nat /\ a * b \in Nat /\ b * a = a * b
  BY <1>1
<1>. QED
  BY <1>2, Multiple

(* align_down gives the only multiple of d in the d numbers up to a. *)
LEMMA AlignDownIs ==
  ASSUME NEW a \in Nat, NEW d \in Nat \ {0}
  PROVE  /\ AlignDown(a, d) \in Nat /\ AlignDown(a, d) % d = 0
         /\ AlignDown(a, d) <= a /\ a < AlignDown(a, d) + d
         /\ \A m \in Nat : m % d = 0 /\ m <= a /\ a < m + d => m = AlignDown(a, d)
<1>. DEFINE q == a \div d
            x == AlignDown(a, d)
<1>1. q \in Nat /\ a % d \in 0 .. d - 1 /\ a = d * q + (a % d)
  BY Division
<1>2. x = d * q /\ x \in Nat
  BY <1>1 DEF AlignDown
<1>. HIDE DEF q
<1>3. x <= a /\ a < x + d
  BY <1>1 DEF AlignDown
<1>. HIDE DEF x
<1>4. x % d = 0
  BY <1>1, <1>2, Multiple
<1>5. ASSUME NEW m \in Nat, m % d = 0, m <= a, a < m + d PROVE m = x
  <2>1. m < x => m + d <= x
    BY <1>2, <1>4, <1>5, Multiples
  <2>2. x < m => x + d <= m
    BY <1>2, <1>4, <1>5, Multiples
  <2>. QED BY <1>2, <1>3, <1>5, <2>1, <2>2
<1>. QED
  BY <1>2, <1>3, <1>4, <1>5 DEF x

(* align_up gives the least multiple that is not below a. *)
LEMMA AlignUpIs ==
  ASSUME NEW a \in Nat, NEW d \in Nat \ {0}
  PROVE  /\ AlignUp(a, d) \in Nat /\ AlignUp(a, d) % d = 0
         /\ a <= AlignUp(a, d) /\ AlignUp(a, d) < a + d
         /\ \A m \in Nat : m % d = 0 /\ a <= m /\ m < a + d => m = AlignUp(a, d)
<1>. DEFINE b == a + d - 1
<1>1. b \in Nat
  OBVIOUS
<1>2. AlignUp(a, d) = AlignDown(b, d)
  BY DEF AlignUp
<1>3. /\ AlignDown(b, d) \in Nat /\ AlignDown(b, d) % d = 0
      /\ AlignDown(b, d) <= b /\ b < AlignDown(b, d) + d
      /\ \A m \in Nat : m % d = 0 /\ m <= b /\ b < m + d => m = AlignDown(b, d)
  <2>. HIDE DEF b
  <2>. QED BY <1>1, AlignDownIs
<1>. DEFINE x == AlignDown(b, d)
<1>. HIDE DEF x
<1>4. x \in Nat /\ x % d = 0 /\ x <= a + d - 1 /\ a + d - 1 < x + d
      /\ \A m \in Nat : m % d = 0 /\ m <= a + d - 1 /\ a + d - 1 < m + d => m = x
  BY <1>3 DEF x
<1>5. AlignUp(a, d) = x
  BY <1>2 DEF x
<1>. HIDE DEF b
<1>6. a <= x /\ x < a + d
  BY <1>4
<1>7. ASSUME NEW m \in Nat, m % d = 0, a <= m, m < a + d PROVE m = x
  <2>1. m <= a + d - 1 /\ a + d - 1 < m + d
    BY <1>7
  <2>. QED BY <1>4, <1>7, <2>1
<1>. QED
  BY <1>4, <1>5, <1>6, <1>7

(* A multiple of a power of two is one of each smaller power. *)
LEMMA PowerMultiple ==
  ASSUME NEW a \in Nat, NEW m \in Nat, NEW n \in Nat, m <= n, a % 2^n = 0
  PROVE  a % 2^m = 0
<1>. DEFINE T == {k \in m .. n : 2^k % 2^m = 0}
<1>1. \A k \in Nat : 2^k \in Nat \ {0} /\ 2^(k + 1) = 2^k + 2^k
  <2>1. \A k \in Nat : 2^k \in Nat /\ 2^k > 0 /\ 2^(k + 1) = 2 * 2^k
    BY Power
  <2>. QED BY <2>1
<1>2. m \in T
  <2>1. 2^m = 2^m * 1 /\ 1 \in Nat /\ 2^m \in Nat \ {0}
    BY <1>1
  <2>2. 2^m % 2^m = 0
    BY ONLY <2>1, Multiple
  <2>. QED BY <2>2
<1>3. ASSUME NEW k \in m .. n - 1, k \in T PROVE k + 1 \in T
  <2>1. k \in Nat /\ k + 1 \in m .. n /\ 2^k % 2^m = 0
    BY <1>3
  <2>2. 2^k \in Nat /\ 2^m \in Nat \ {0} /\ 2^(k + 1) = 2^k + 2^k
    BY <1>1, <2>1
  <2>3. (2^k + 2^k) % 2^m = 0
    BY ONLY <2>1, <2>2, Multiples
  <2>. QED BY <2>1, <2>2, <2>3
<1>. HIDE DEF T
<1>4. n \in T
  BY <1>2, <1>3, Climb
<1>5. 2^n % 2^m = 0
  BY <1>4 DEF T
<1>. DEFINE q == a \div 2^n
<1>6. q \in Nat /\ a = 2^n * q
  BY <1>1, Multiple
<1>. HIDE DEF q
<1>7. 2^n \in Nat /\ 2^m \in Nat \ {0}
  BY <1>1
<1>8. (2^n * q) % 2^m = 0
  BY ONLY <1>5, <1>6, <1>7, MultipleTimes
<1>. QED
  BY <1>6, <1>8

(* addr ^ size of a block that is aligned to its size: the other half of   *)
(* the block of twice the size.                                            *)
LEMMA BuddyIs ==
  ASSUME NEW a \in Nat, NEW o \in Nat, a % 2^o = 0
  PROVE  \/ /\ AlignDown(a, 2^(o + 1)) = a /\ a % 2^(o + 1) = 0
            /\ Buddy(a, o) = a + 2^o
         \/ /\ AlignDown(a, 2^(o + 1)) = a - 2^o /\ a % 2^(o + 1) # 0
            /\ Buddy(a, o) = a - 2^o /\ a - 2^o \in Nat
<1>. DEFINE d == 2^o
            q == a \div d
            h == q \div 2
<1>0. d \in Nat \ {0} /\ 2^(o + 1) = 2 * d
  <2>1. 2^o \in Nat /\ 2^o > 0 /\ 2^(o + 1) = 2 * 2^o
    BY Power
  <2>. QED BY <2>1
<1>. HIDE DEF d
<1>1. q \in Nat /\ a = d * q
  BY <1>0, Multiple DEF d
<1>2. Buddy(a, o) = IF q % 2 = 0 THEN a + d ELSE a - d
  BY DEF Buddy, d
<1>. HIDE DEF q
<1>3. h \in Nat /\ q = 2 * h + (q % 2) /\ q % 2 \in 0 .. 1
  BY <1>1, Division
<1>. HIDE DEF h
<1>4. 2 * d \in Nat \ {0} /\ (2 * d) * h \in Nat /\ d * (2 * h) = (2 * d) * h
  BY <1>0, <1>3
<1>5. CASE q % 2 = 0
  <2>1. a = (2 * d) * h
    BY <1>1, <1>3, <1>4, <1>5
  <2>2. a % (2 * d) = 0
    BY <1>3, <1>4, <2>1, Multiple
  <2>3. AlignDown(a, 2 * d) = a
    BY <2>2 DEF AlignDown
  <2>. QED BY <1>0, <1>2, <1>5, <2>2, <2>3 DEF d
<1>6. CASE q % 2 = 1
  <2>. DEFINE b == (2 * d) * h
  <2>1. a = b + d
    <3>1. d * (2 * h + 1) = d * (2 * h) + d
      BY <1>0, <1>3
    <3>. QED BY <1>1, <1>3, <1>4, <1>6, <3>1
  <2>2. b \in Nat /\ b % (2 * d) = 0
    BY <1>3, <1>4, Multiple
  <2>. HIDE DEF b
  <2>3. b <= a /\ a < b + 2 * d
    BY <1>0, <2>1, <2>2
  <2>4. b = AlignDown(a, 2 * d)
    BY <1>4, <2>2, <2>3, AlignDownIs
  <2>5. a % (2 * d) # 0
    BY <1>0, <1>4, <2>1, <2>2, <2>4 DEF AlignDown
  <2>6. b = a - d
    BY <1>0, <2>1, <2>2
  <2>. QED BY <1>0, <1>2, <1>6, <2>2, <2>4, <2>5, <2>6 DEF d
<1>. QED
  BY <1>3, <1>5, <1>6

(* The aligned blocks around a page, one twice the size of the other. *)
LEMMA Nested ==
  ASSUME NEW a \in Nat, NEW m \in Nat, NEW n \in Nat, m <= n
  PROVE  /\ AlignDown(a, 2^m) \in Nat /\ AlignDown(a, 2^n) \in Nat
         /\ AlignDown(a, 2^n) <= AlignDown(a, 2^m)
         /\ AlignDown(a, 2^m) + 2^m <= AlignDown(a, 2^n) + 2^n
         /\ AlignDown(AlignDown(a, 2^m), 2^n) = AlignDown(a, 2^n)
<1>. DEFINE x == AlignDown(a, 2^m)
            y == AlignDown(a, 2^n)
<1>1. 2^m \in Nat \ {0} /\ 2^n \in Nat \ {0}
  <2>1. 2^m \in Nat /\ 2^m > 0 /\ 2^n \in Nat /\ 2^n > 0
    BY Power
  <2>. QED BY <2>1
<1>2. x \in Nat /\ x % 2^m = 0 /\ x <= a /\ a < x + 2^m
  BY <1>1, AlignDownIs
<1>3. y \in Nat /\ y % 2^n = 0 /\ y <= a /\ a < y + 2^n
  BY <1>1, AlignDownIs
<1>. HIDE DEF x, y
<1>4. y % 2^m = 0
  BY <1>3, PowerMultiple
<1>5. y <= x
  <2>1. x < y => x + 2^m <= y
    BY <1>1, <1>2, <1>3, <1>4, Multiples
  <2>. QED BY <1>1, <1>2, <1>3, <2>1
<1>6. x + 2^m <= y + 2^n
  <2>1. 2^n \in Nat /\ 2^n = 2^n * 1 /\ 1 \in Nat
    BY <1>1
  <2>2. 2^n % 2^n = 0
    BY <1>1, <2>1, Multiple
  <2>3. 2^n % 2^m = 0
    BY <1>1, <2>2, PowerMultiple
  <2>4. (y + 2^n) % 2^m = 0
    BY ONLY <1>1, <1>3, <1>4, <2>1, <2>3, Multiples
  <2>. DEFINE w == y + 2^n
  <2>5. w \in Nat /\ w % 2^m = 0 /\ x < w
    BY <1>1, <1>2, <1>3, <2>1, <2>4
  <2>. HIDE DEF w
  <2>6. x + 2^m <= w
    BY <1>1, <1>2, <2>5, Multiples
  <2>. QED BY <2>6 DEF w
<1>7. y = AlignDown(x, 2^n)
  <2>1. x < y + 2^n
    BY <1>1, <1>2, <1>3, <1>6
  <2>. QED BY <1>1, <1>2, <1>3, <1>5, <2>1, AlignDownIs
<1>. QED
  BY <1>2, <1>3, <1>5, <1>6, <1>7 DEF x, y

-----------------------------------------------------------------------------
(* Tilings.                                                                *)

(* A single tile covers its own interval. *)
LEMMA TilingOne ==
  ASSUME NEW a \in Nat, NEW n \in Nat \ {0}
  PROVE  Tiling({<<a, n>>}, a, a + n)
BY DEF Tiling, Covers, Apart

(* Two intervals that meet. *)
LEMMA TilingJoin ==
  ASSUME NEW S, NEW T, NEW lo \in Nat, NEW mid \in Nat, NEW hi \in Nat,
         lo <= mid, mid <= hi, Tiling(S, lo, mid), Tiling(T, mid, hi)
  PROVE  Tiling(S \cup T, lo, hi) /\ S \cap T = {}
<1>. USE DEF Tiling
<1>1. \A t \in S : /\ t = <<t[1], t[2]>> /\ t[1] \in Nat /\ t[2] \in Nat \ {0}
                   /\ lo <= t[1] /\ t[1] + t[2] <= mid
  OBVIOUS
<1>2. \A t \in T : /\ t = <<t[1], t[2]>> /\ t[1] \in Nat /\ t[2] \in Nat \ {0}
                   /\ mid <= t[1] /\ t[1] + t[2] <= hi
  OBVIOUS
<1>3. \A t \in S \cup T : /\ t = <<t[1], t[2]>> /\ t[1] \in Nat /\ t[2] \in Nat \ {0}
                   /\ lo <= t[1] /\ t[1] + t[2] <= hi
  BY <1>1, <1>2
<1>4. \A s \in S, t \in T : Apart(s, t) /\ Apart(t, s) /\ s # t
  BY <1>1, <1>2 DEF Apart
<1>5. \A s, t \in S \cup T : s = t \/ Apart(s, t)
  BY <1>4
<1>6. \A p \in lo .. hi - 1 : \E t \in S \cup T : Covers(t, p)
  <2>. TAKE p \in lo .. hi - 1
  <2>1. p \in lo .. mid - 1 \/ p \in mid .. hi - 1
    OBVIOUS
  <2>. QED BY <2>1
<1>. QED
  BY <1>3, <1>4, <1>5, <1>6

(* A tile is replaced by tiles of the same place. *)
LEMMA TilingRefine ==
  ASSUME NEW T, NEW S, NEW lo \in Nat, NEW hi \in Nat, Tiling(T, lo, hi),
         NEW t \in T, Tiling(S, t[1], t[1] + t[2])
  PROVE  Tiling((T \ {t}) \cup S, lo, hi) /\ (T \ {t}) \cap S = {}
<1>. USE DEF Tiling
<1>1. \A s \in T : /\ s = <<s[1], s[2]>> /\ s[1] \in Nat /\ s[2] \in Nat \ {0}
                   /\ lo <= s[1] /\ s[1] + s[2] <= hi
  OBVIOUS
<1>2. \A s \in S : /\ s = <<s[1], s[2]>> /\ s[1] \in Nat /\ s[2] \in Nat \ {0}
                   /\ t[1] <= s[1] /\ s[1] + s[2] <= t[1] + t[2]
  OBVIOUS
<1>3. \A s \in (T \ {t}) \cup S : /\ s = <<s[1], s[2]>> /\ s[1] \in Nat /\ s[2] \in Nat \ {0}
                   /\ lo <= s[1] /\ s[1] + s[2] <= hi
  BY <1>1, <1>2
<1>4. \A s \in T \ {t}, r \in S : Apart(s, r) /\ Apart(r, s) /\ s # r
  <2>. TAKE s \in T \ {t}, r \in S
  <2>1. Apart(s, t)
    OBVIOUS
  <2>. QED BY <1>1, <1>2, <2>1 DEF Apart
<1>5. \A s, r \in (T \ {t}) \cup S : s = r \/ Apart(s, r)
  BY <1>4
<1>6. \A p \in lo .. hi - 1 : \E s \in (T \ {t}) \cup S : Covers(s, p)
  <2>. TAKE p \in lo .. hi - 1
  <2>1. PICK r \in T : Covers(r, p)
    OBVIOUS
  <2>2. CASE r = t
    <3>1. p \in t[1] .. (t[1] + t[2]) - 1
      BY <1>1, <2>1, <2>2 DEF Covers
    <3>. QED BY <3>1
  <2>. QED BY <2>1, <2>2
<1>. QED
  BY <1>3, <1>4, <1>5, <1>6

(* Two tiles that touch become one. *)
LEMMA TilingMerge ==
  ASSUME NEW T, NEW lo \in Nat, NEW hi \in Nat, Tiling(T, lo, hi),
         NEW s \in T, NEW t \in T, s[1] + s[2] = t[1],
         NEW m, m = <<s[1], s[2] + t[2]>>
  PROVE  Tiling((T \ {s, t}) \cup {m}, lo, hi) /\ m \notin T \ {s, t}
<1>. USE DEF Tiling
<1>1. \A r \in T : /\ r = <<r[1], r[2]>> /\ r[1] \in Nat /\ r[2] \in Nat \ {0}
                   /\ lo <= r[1] /\ r[1] + r[2] <= hi
  OBVIOUS
<1>2. /\ m = <<m[1], m[2]>> /\ m[1] = s[1] /\ m[2] = s[2] + t[2]
      /\ m[1] \in Nat /\ m[2] \in Nat \ {0} /\ lo <= m[1] /\ m[1] + m[2] <= hi
  BY <1>1
<1>3. \A r \in T \ {s, t} : Apart(r, m) /\ Apart(m, r) /\ r # m
  <2>. TAKE r \in T \ {s, t}
  <2>1. Apart(r, s) /\ Apart(r, t)
    OBVIOUS
  <2>2. r[1] \in Nat /\ r[2] \in Nat \ {0} /\ s[1] \in Nat /\ s[2] \in Nat \ {0} /\ t[2] \in Nat \ {0}
    BY <1>1
  <2>3. Apart(r, m) /\ Apart(m, r)
    BY ONLY <1>2, <2>1, <2>2, s[1] + s[2] = t[1] DEF Apart
  <2>. QED BY <1>2, <2>3 DEF Apart
<1>4. \A p \in lo .. hi - 1 : \E r \in (T \ {s, t}) \cup {m} : Covers(r, p)
  <2>. TAKE p \in lo .. hi - 1
  <2>1. PICK r \in T : Covers(r, p)
    OBVIOUS
  <2>2. CASE r = s \/ r = t
    <3>1. Covers(m, p)
      BY <1>1, <1>2, <2>1, <2>2 DEF Covers
    <3>. QED BY <3>1
  <2>. QED BY <2>1, <2>2
<1>5. \A r \in (T \ {s, t}) \cup {m} : /\ r = <<r[1], r[2]>> /\ r[1] \in Nat /\ r[2] \in Nat \ {0}
                   /\ lo <= r[1] /\ r[1] + r[2] <= hi
  BY <1>1, <1>2
<1>6. \A r, q \in (T \ {s, t}) \cup {m} : r = q \/ Apart(r, q)
  BY <1>3
<1>. QED
  BY <1>3, <1>4, <1>5, <1>6

(* Tiles with a common place are the same. *)
LEMMA TilingOnce ==
  ASSUME NEW T, NEW lo \in Nat, NEW hi \in Nat, Tiling(T, lo, hi),
         NEW s \in T, NEW t \in T, NEW p \in Nat, Covers(s, p), Covers(t, p)
  PROVE  s = t
<1>1. s = t \/ Apart(s, t)
  BY DEF Tiling
<1>2. s[1] \in Nat /\ s[2] \in Nat /\ t[1] \in Nat /\ t[2] \in Nat
  BY DEF Tiling
<1>. QED
  BY <1>1, <1>2 DEF Apart, Covers

(* What split_order and split_order_at make of the block of order t around *)
(* a: the block of order o at a, and the halves that do not hold it.       *)
Halves(a, o, t) == {<<Buddy(AlignDown(a, 2^j), j), 2^j>> : j \in o .. t - 1}
SplitTiles(a, o, t) == Halves(a, o, t) \cup {<<a, 2^o>>}

(* Around the block of order t there is one of order t + 1 with its buddy. *)
LEMMA SplitOnce ==
  ASSUME NEW a \in Nat, NEW t \in Nat, NEW S,
         Tiling(S, AlignDown(a, 2^t), AlignDown(a, 2^t) + 2^t)
  PROVE  Tiling(S \cup {<<Buddy(AlignDown(a, 2^t), t), 2^t>>},
                AlignDown(a, 2^(t + 1)), AlignDown(a, 2^(t + 1)) + 2^(t + 1))
<1>. DEFINE x == AlignDown(a, 2^t)
            y == AlignDown(a, 2^(t + 1))
            d == 2^t
            b == Buddy(x, t)
<1>1. d \in Nat \ {0} /\ 2^(t + 1) = d + d
  <2>1. 2^t \in Nat /\ 2^t > 0 /\ 2^(t + 1) = 2 * 2^t
    BY Power
  <2>. QED BY <2>1
<1>2. x \in Nat /\ x % 2^t = 0
  BY <1>1, AlignDownIs
<1>3. AlignDown(x, 2^(t + 1)) = y
  BY Nested
<1>4. \/ y = x /\ b = x + d
      \/ y = x - d /\ b = x - d /\ x - d \in Nat
  <2>. HIDE DEF x, y
  <2>. QED BY <1>2, <1>3, BuddyIs
<1>. HIDE DEF x, y, d, b
<1>5. Tiling(S, x, x + d)
  BY DEF x, d
<1>6. b \in Nat
  BY <1>1, <1>2, <1>4
<1>7. Tiling({<<b, d>>}, b, b + d)
  BY <1>1, <1>6, TilingOne
<1>8. CASE y = x /\ b = x + d
  <2>1. Tiling(S \cup {<<b, d>>}, x, b + d)
    BY <1>1, <1>2, <1>5, <1>6, <1>7, <1>8, TilingJoin
  <2>2. b + d = y + 2^(t + 1)
    BY <1>1, <1>2, <1>8
  <2>. QED BY <1>8, <2>1, <2>2 DEF x, y, d, b
<1>9. CASE y = x - d /\ b = x - d /\ x - d \in Nat
  <2>1. b + d = x /\ x + d \in Nat /\ b <= x /\ x <= x + d
    BY <1>1, <1>2, <1>9
  <2>2. Tiling({<<b, d>>}, b, x)
    BY <1>7, <2>1
  <2>3. Tiling({<<b, d>>} \cup S, b, x + d)
    BY ONLY <1>2, <1>5, <1>6, <2>1, <2>2, TilingJoin
  <2>4. x + d = y + 2^(t + 1)
    BY <1>1, <1>2, <1>9
  <2>5. {<<b, d>>} \cup S = S \cup {<<b, d>>} /\ b = y
    BY <1>9
  <2>6. Tiling(S \cup {<<b, d>>}, y, y + 2^(t + 1))
    BY <2>3, <2>4, <2>5
  <2>. QED BY <2>6 DEF x, y, d, b
<1>. QED
  BY <1>4, <1>8, <1>9

(* The parts tile the block, and the one at a is none of the halves. *)
LEMMA Splitting ==
  ASSUME NEW a \in Nat, NEW o \in Nat, NEW t \in Nat, o <= t, a % 2^o = 0
  PROVE  /\ Tiling(SplitTiles(a, o, t), AlignDown(a, 2^t), AlignDown(a, 2^t) + 2^t)
         /\ <<a, 2^o>> \notin Halves(a, o, t)
<1>. DEFINE Good(k) == Tiling(SplitTiles(a, o, k), AlignDown(a, 2^k), AlignDown(a, 2^k) + 2^k)
            T == {k \in o .. t : Good(k)}
<1>0. 2^o \in Nat \ {0}
  <2>1. 2^o \in Nat /\ 2^o > 0
    BY Power
  <2>. QED BY <2>1
<1>1. AlignDown(a, 2^o) = a
  BY DEF AlignDown
<1>2. o \in T
  <2>1. SplitTiles(a, o, o) = {<<a, 2^o>>}
    BY DEF SplitTiles, Halves
  <2>2. Tiling({<<a, 2^o>>}, a, a + 2^o)
    BY <1>0, TilingOne
  <2>. QED BY <1>1, <2>1, <2>2
<1>3. ASSUME NEW k \in o .. t - 1, k \in T PROVE k + 1 \in T
  <2>1. k \in Nat /\ k + 1 \in o .. t
    OBVIOUS
  <2>2. Good(k)
    BY <1>3
  <2>3. SplitTiles(a, o, k + 1) = SplitTiles(a, o, k) \cup {<<Buddy(AlignDown(a, 2^k), k), 2^k>>}
    <3>1. o .. (k + 1) - 1 = (o .. k - 1) \cup {k}
      BY <2>1
    <3>2. Halves(a, o, k + 1) = Halves(a, o, k) \cup {<<Buddy(AlignDown(a, 2^k), k), 2^k>>}
      BY <3>1 DEF Halves
    <3>. QED BY <3>2 DEF SplitTiles
  <2>4. Good(k + 1)
    BY <2>1, <2>2, <2>3, SplitOnce
  <2>. HIDE DEF Good
  <2>. QED BY <2>1, <2>4
<1>. HIDE DEF T
<1>4. t \in T
  BY <1>2, <1>3, Climb
<1>5. Good(t)
  BY <1>4 DEF T
<1>6. ASSUME <<a, 2^o>> \in Halves(a, o, t) PROVE FALSE
  <2>1. PICK j \in o .. t - 1 : <<a, 2^o>> = <<Buddy(AlignDown(a, 2^j), j), 2^j>>
    BY <1>6 DEF Halves
  <2>2. j \in Nat /\ 2^o = 2^j /\ a = Buddy(AlignDown(a, 2^j), j)
    BY <2>1
  <2>3. j = o
    BY <2>2, PowerLess
  <2>4. a = Buddy(a, o)
    BY <1>1, <2>2, <2>3
  <2>. QED BY <1>0, <2>4, BuddyIs
<1>. QED
  BY <1>5, <1>6

-----------------------------------------------------------------------------
(* Sums.                                                                   *)

(* P holds the running totals, and Terms says that there is something to   *)
(* add.                                                                    *)
Totals(P, f, lo, hi) ==
  /\ P \in [lo - 1 .. hi -> Nat] /\ P[lo - 1] = 0
  /\ \A k \in lo .. hi : P[k] = P[k - 1] + f[k]
Terms(f, lo, hi) == lo \in Int /\ hi \in Int /\ lo <= hi + 1 /\ \A k \in lo .. hi : f[k] \in Nat

(* Sum is the last of the running totals. *)
LEMMA SumDef ==
  ASSUME NEW f, NEW lo, NEW hi, Terms(f, lo, hi)
  PROVE  \E P : Totals(P, f, lo, hi) /\ Sum(f, lo, hi) = P[hi]
<1>. USE DEF Totals
<1>0. lo \in Int /\ hi \in Int /\ lo <= hi + 1 /\ \A k \in lo .. hi : f[k] \in Nat
  BY DEF Terms
<1>. DEFINE Upto(n) == \E P : Totals(P, f, lo, n)
            T == {n \in lo - 1 .. hi : Upto(n)}
<1>1. lo - 1 \in T
  <2>. DEFINE P == [k \in {lo - 1} |-> 0]
  <2>1. lo - 1 .. lo - 1 = {lo - 1} /\ lo .. lo - 1 = {}
    BY <1>0
  <2>2. P \in [lo - 1 .. lo - 1 -> Nat] /\ P[lo - 1] = 0 /\ \A k \in lo .. lo - 1 : P[k] = P[k - 1] + f[k]
    BY <1>0, <2>1
  <2>. HIDE DEF P
  <2>. QED BY <1>0, <2>2
<1>2. ASSUME NEW n \in lo - 1 .. hi - 1, n \in T PROVE n + 1 \in T
  <2>1. PICK P : Totals(P, f, lo, n)
    BY <1>2
  <2>2. n \in Int /\ n + 1 \in lo .. hi /\ n \in lo - 1 .. n /\ n + 1 \notin lo - 1 .. n
    BY <1>0
  <2>. DEFINE Q == [k \in lo - 1 .. n + 1 |-> IF k = n + 1 THEN P[n] + f[n + 1] ELSE P[k]]
  <2>3. P[n] \in Nat /\ f[n + 1] \in Nat
    BY <1>0, <2>1, <2>2
  <2>4. Q \in [lo - 1 .. n + 1 -> Nat]
    BY <1>0, <2>1, <2>2, <2>3
  <2>5. Q[lo - 1] = 0
    BY <1>0, <2>1, <2>2
  <2>6. ASSUME NEW k \in lo .. n + 1 PROVE Q[k] = Q[k - 1] + f[k]
    <3>1. CASE k = n + 1
      BY <1>0, <2>2, <3>1
    <3>2. CASE k # n + 1
      <4>1. k \in lo .. n /\ k - 1 \in lo - 1 .. n
        BY <1>0, <2>2, <3>2
      <4>. QED BY <1>0, <2>1, <2>2, <4>1
    <3>. QED BY <3>1, <3>2
  <2>. HIDE DEF Q
  <2>7. Upto(n + 1)
    BY <2>4, <2>5, <2>6
  <2>. HIDE DEF Upto
  <2>. QED BY <1>0, <2>2, <2>7
<1>. HIDE DEF T
<1>3. hi \in T
  BY <1>0, <1>1, <1>2, Climb
<1>4. PICK P : Totals(P, f, lo, hi)
  BY <1>3 DEF T
<1>. DEFINE Eq(w) == w = [k \in lo - 1 .. hi |-> IF k = lo - 1 THEN 0 ELSE w[k - 1] + f[k]]
            W == CHOOSE w : Eq(w)
<1>5. Eq(P)
  <2>1. ASSUME NEW k \in lo - 1 .. hi PROVE P[k] = IF k = lo - 1 THEN 0 ELSE P[k - 1] + f[k]
    <3>1. k = lo - 1 \/ k \in lo .. hi
      BY <1>0
    <3>. QED BY <1>0, <1>4, <3>1
  <2>. QED BY <1>4, <2>1
<1>6. Sum(f, lo, hi) = W[hi]
  BY DEF Sum
<1>7. Eq(W)
  <2>. HIDE DEF Eq
  <2>. QED BY <1>5
<1>. HIDE DEF W
<1>8. W[lo - 1] = 0 /\ \A k \in lo .. hi : W[k] = W[k - 1] + f[k]
  BY <1>0, <1>7
<1>. DEFINE U == {k \in lo - 1 .. hi : W[k] \in Nat}
<1>9. ASSUME NEW m \in lo - 1 .. hi PROVE W[m] \in Nat
  <2>1. lo - 1 \in U
    BY <1>0, <1>8
  <2>2. ASSUME NEW k \in lo - 1 .. m - 1, k \in U PROVE k + 1 \in U
    <3>1. k + 1 \in lo .. hi /\ (k + 1) - 1 = k /\ W[k] \in Nat
      BY <1>0, <2>2
    <3>2. W[k + 1] = W[k] + f[k + 1] /\ f[k + 1] \in Nat
      BY <1>0, <1>8, <3>1
    <3>. QED BY <1>0, <3>1, <3>2
  <2>. HIDE DEF U
  <2>3. m \in U
    BY <1>0, <2>1, <2>2, Climb
  <2>. QED BY <2>3 DEF U
<1>10. W \in [lo - 1 .. hi -> Nat]
  BY <1>7, <1>9
<1>11. Totals(W, f, lo, hi)
  BY <1>8, <1>10
<1>. QED
  BY <1>6, <1>11

(* g is f, from m to n, moved by d; Stepwise: and changed by the steps of  *)
(* D.                                                                      *)
Moved(f, g, m, n, d) == \A k \in m + 1 .. n : f[k] \in Nat /\ g[k + d] = f[k]
Stepwise(f, g, m, n, d, D) ==
  D \in [m .. n -> Int] /\ \A k \in m + 1 .. n : f[k] \in Nat /\ g[k + d] = f[k] + D[k] - D[k - 1]

(* Two sums whose terms differ by the steps of D. *)
LEMMA SumChange ==
  ASSUME NEW f, NEW lo \in Int, NEW hi \in Int, NEW P, Totals(P, f, lo, hi),
         NEW g, NEW la \in Int, NEW ha \in Int, NEW Q, Totals(Q, g, la, ha),
         NEW m \in lo - 1 .. hi, NEW n \in m .. hi, NEW d \in Int,
         m + d >= la - 1, n + d <= ha, NEW D, Stepwise(f, g, m, n, d, D),
         Q[m + d] = P[m] + D[m]
  PROVE  Q[n + d] = P[n] + D[n]
<1>. USE DEF Stepwise
<1>. DEFINE T == {k \in m .. n : Q[k + d] = P[k] + D[k]}
<1>1. m \in T /\ m \in Int /\ n \in Int /\ m <= n
  OBVIOUS
<1>2. ASSUME NEW k \in m .. n - 1, k \in T PROVE k + 1 \in T
  <2>1. k \in Int /\ k + 1 \in m + 1 .. n /\ k + 1 \in lo .. hi /\ (k + 1) - 1 = k /\ k \in lo - 1 .. hi
    OBVIOUS
  <2>2. (k + 1) + d \in la .. ha /\ ((k + 1) + d) - 1 = k + d /\ k + d \in la - 1 .. ha
    BY <2>1
  <2>3. P[k + 1] = P[k] + f[k + 1] /\ P[k] \in Nat
    BY <2>1 DEF Totals
  <2>4. Q[(k + 1) + d] = Q[k + d] + g[(k + 1) + d] /\ Q[k + d] \in Nat
    BY <2>2 DEF Totals
  <2>5. g[(k + 1) + d] = f[k + 1] + D[k + 1] - D[k] /\ f[k + 1] \in Nat /\ D[k + 1] \in Int /\ D[k] \in Int
    BY <2>1
  <2>6. Q[k + d] = P[k] + D[k]
    BY <1>2
  <2>7. Q[(k + 1) + d] = P[k + 1] + D[k + 1]
    BY ONLY <2>3, <2>4, <2>5, <2>6
  <2>. QED BY <2>1, <2>7
<1>. HIDE DEF T
<1>3. n \in T
  BY <1>1, <1>2, Climb
<1>. QED
  BY <1>3 DEF T

(* Two sums of the same terms. *)
LEMMA SumSame ==
  ASSUME NEW f, NEW lo \in Int, NEW hi \in Int, NEW P, Totals(P, f, lo, hi),
         NEW g, NEW la \in Int, NEW ha \in Int, NEW Q, Totals(Q, g, la, ha),
         NEW m \in lo - 1 .. hi, NEW n \in m .. hi, NEW d \in Int,
         m + d >= la - 1, n + d <= ha, Moved(f, g, m, n, d)
  PROVE  Q[n + d] - Q[m + d] = P[n] - P[m]
<1>. DEFINE e == Q[m + d] - P[m]
            D == [k \in m .. n |-> e]
<1>1. m \in Int /\ n \in Int /\ m + d \in la - 1 .. ha /\ n + d \in la - 1 .. ha /\ m \in lo - 1 .. hi /\ n \in lo - 1 .. hi
  OBVIOUS
<1>2. Q[m + d] \in Nat /\ P[m] \in Nat /\ Q[n + d] \in Nat /\ P[n] \in Nat
  BY <1>1 DEF Totals
<1>3. e \in Int /\ Q[m + d] = P[m] + e
  BY <1>2
<1>. HIDE DEF e
<1>4. D \in [m .. n -> Int] /\ D[m] = e /\ D[n] = e
  BY <1>1, <1>3
<1>5. \A k \in m + 1 .. n : f[k] \in Nat /\ g[k + d] = f[k] + D[k] - D[k - 1]
  <2>. TAKE k \in m + 1 .. n
  <2>1. k \in m .. n /\ k - 1 \in m .. n
    BY <1>1
  <2>2. D[k] = e /\ D[k - 1] = e
    BY <2>1
  <2>. QED BY <1>3, <2>2 DEF Moved
<1>. HIDE DEF D
<1>6. Q[n + d] = P[n] + D[n]
  <2>1. Stepwise(f, g, m, n, d, D)
    BY <1>4, <1>5 DEF Stepwise
  <2>2. Q[m + d] = P[m] + D[m]
    BY <1>3, <1>4
  <2>. QED BY <2>1, <2>2, SumChange
<1>. QED
  BY <1>2, <1>3, <1>4, <1>6

(* The sum is a number, and depends on nothing but the terms. *)
LEMMA SumEqual ==
  ASSUME NEW f, NEW g, NEW lo, NEW hi, Terms(f, lo, hi), \A k \in lo .. hi : g[k] = f[k]
  PROVE  Sum(f, lo, hi) \in Nat /\ Sum(g, lo, hi) = Sum(f, lo, hi)
<1>0. lo \in Int /\ hi \in Int /\ lo <= hi + 1 /\ \A k \in lo .. hi : f[k] \in Nat
  BY DEF Terms
<1>1. Terms(g, lo, hi)
  BY <1>0 DEF Terms
<1>2. PICK P : Totals(P, f, lo, hi) /\ Sum(f, lo, hi) = P[hi]
  BY SumDef
<1>3. PICK Q : Totals(Q, g, lo, hi) /\ Sum(g, lo, hi) = Q[hi]
  BY <1>1, SumDef
<1>4. P[hi] \in Nat /\ P[lo - 1] = 0 /\ Q[lo - 1] = 0 /\ Q[hi] \in Nat
  BY <1>0, <1>2, <1>3 DEF Totals
<1>5. Q[hi + 0] - Q[(lo - 1) + 0] = P[hi] - P[lo - 1]
  <2>1. lo - 1 \in lo - 1 .. hi /\ hi \in lo - 1 .. hi /\ 0 \in Int /\ (lo - 1) + 0 >= lo - 1 /\ hi + 0 <= hi
    BY <1>0
  <2>2. Moved(f, g, lo - 1, hi, 0)
    BY <1>0 DEF Moved
  <2>. QED BY ONLY <1>0, <1>2, <1>3, <2>1, <2>2, SumSame
<1>. QED
  BY <1>0, <1>2, <1>3, <1>4, <1>5

-----------------------------------------------------------------------------
(* The lists of free blocks.                                               *)

(* A part of a sequence. *)
LEMMA Slice ==
  ASSUME NEW S, NEW s \in Seq(S), NEW i \in 1 .. Len(s) + 1, NEW j \in i - 1 .. Len(s)
  PROVE  /\ SubSeq(s, i, j) \in Seq(S) /\ Len(SubSeq(s, i, j)) = j - i + 1
         /\ \A k \in 1 .. j - i + 1 : SubSeq(s, i, j)[k] = s[i + k - 1]
<1>1. SubSeq(s, i, j) \in Seq(S)
  OBVIOUS
<1>2. Len(SubSeq(s, i, j)) = j - i + 1
  OBVIOUS
<1>3. ASSUME NEW k \in 1 .. j - i + 1 PROVE SubSeq(s, i, j)[k] = s[i + k - 1]
  OBVIOUS
<1>. QED
  BY <1>1, <1>2, <1>3

(* One sequence behind another. *)
LEMMA Concat ==
  ASSUME NEW S, NEW u \in Seq(S), NEW v \in Seq(S)
  PROVE  /\ u \o v \in Seq(S) /\ Len(u \o v) = Len(u) + Len(v)
         /\ \A k \in 1 .. Len(u) : (u \o v)[k] = u[k]
         /\ \A k \in Len(u) + 1 .. Len(u) + Len(v) : (u \o v)[k] = v[k - Len(u)]
OBVIOUS

(* remove_node: what was behind the element moves up. *)
LEMMA RemovedAt ==
  ASSUME NEW S, NEW s \in Seq(S), NEW p \in 1 .. Len(s)
  PROVE  /\ RemoveAt(s, p) \in Seq(S) /\ Len(RemoveAt(s, p)) = Len(s) - 1
         /\ \A i \in 1 .. Len(s) - 1 : RemoveAt(s, p)[i] = IF i < p THEN s[i] ELSE s[i + 1]
<1>. DEFINE u == SubSeq(s, 1, p - 1)
            v == SubSeq(s, p + 1, Len(s))
            n == Len(s)
<1>0. n \in Nat /\ p \in 1 .. n
  OBVIOUS
<1>1. u \in Seq(S) /\ Len(u) = (p - 1) - 1 + 1 /\ \A i \in 1 .. (p - 1) - 1 + 1 : u[i] = s[1 + i - 1]
  <2>1. 1 \in 1 .. n + 1 /\ p - 1 \in 1 - 1 .. n
    BY <1>0
  <2>. QED BY <2>1, Slice
<1>2. v \in Seq(S) /\ Len(v) = n - (p + 1) + 1 /\ \A i \in 1 .. n - (p + 1) + 1 : v[i] = s[(p + 1) + i - 1]
  <2>1. p + 1 \in 1 .. n + 1 /\ n \in (p + 1) - 1 .. n
    BY <1>0
  <2>. QED BY <2>1, Slice
<1>3. RemoveAt(s, p) = u \o v
  BY DEF RemoveAt
<1>. HIDE DEF u, v, n
<1>4. /\ u \o v \in Seq(S) /\ Len(u \o v) = Len(u) + Len(v)
      /\ \A k \in 1 .. Len(u) : (u \o v)[k] = u[k]
      /\ \A k \in Len(u) + 1 .. Len(u) + Len(v) : (u \o v)[k] = v[k - Len(u)]
  BY <1>1, <1>2, Concat
<1>5. Len(u) = p - 1 /\ Len(v) = n - p /\ Len(u \o v) = n - 1
  BY <1>0, <1>1, <1>2, <1>4
<1>6. ASSUME NEW i \in 1 .. n - 1 PROVE (u \o v)[i] = IF i < p THEN s[i] ELSE s[i + 1]
  <2>1. CASE i < p
    <3>1. i \in 1 .. Len(u) /\ i \in 1 .. (p - 1) - 1 + 1 /\ 1 + i - 1 = i
      BY <1>0, <1>5, <2>1
    <3>. QED BY <1>1, <1>4, <2>1, <3>1
  <2>2. CASE ~ (i < p)
    <3>. DEFINE k == i - (p - 1)
    <3>1. /\ i \in Len(u) + 1 .. Len(u) + Len(v) /\ i - Len(u) = k
          /\ k \in 1 .. n - (p + 1) + 1 /\ (p + 1) + k - 1 = i + 1
      BY <1>0, <1>5, <2>2
    <3>. HIDE DEF k
    <3>2. (u \o v)[i] = v[k] /\ v[k] = s[(p + 1) + k - 1]
      BY <1>2, <1>4, <3>1
    <3>. QED BY <2>2, <3>1, <3>2
  <2>. QED BY <2>1, <2>2
<1>. QED
  BY <1>3, <1>4, <1>5, <1>6 DEF n

(* s has become r, with x in addition or without it. *)
Added(s, r, x) ==
  /\ r \in Seq(Nat) /\ IsInjective(r) /\ x \in Nat
  /\ x \notin ToSet(s) /\ ToSet(r) = ToSet(s) \cup {x} /\ Len(r) = Len(s) + 1
Removed(s, r, x) ==
  /\ r \in Seq(Nat) /\ IsInjective(r)
  /\ x \in ToSet(s) /\ ToSet(r) = ToSet(s) \ {x} /\ Len(r) = Len(s) - 1

(* push_front *)
LEMMA FrontAdded ==
  ASSUME NEW s \in Seq(Nat), IsInjective(s), NEW x \in Nat, x \notin ToSet(s)
  PROVE  Added(s, <<x>> \o s, x)
<1>. DEFINE r == <<x>> \o s
<1>1. r \in Seq(Nat) /\ Len(r) = Len(s) + 1 /\ DOMAIN r = 1 .. Len(s) + 1 /\ DOMAIN s = 1 .. Len(s)
  OBVIOUS
<1>2. r[1] = x /\ \A i \in 1 .. Len(s) : r[i + 1] = s[i]
  OBVIOUS
<1>. HIDE DEF r
<1>3. \A i \in 2 .. Len(s) + 1 : i - 1 \in 1 .. Len(s) /\ r[i] = s[i - 1]
  BY <1>2
<1>4. ToSet(r) = ToSet(s) \cup {x}
  <2>1. ASSUME NEW i \in 1 .. Len(s) + 1 PROVE r[i] \in ToSet(s) \cup {x}
    <3>1. i = 1 \/ i \in 2 .. Len(s) + 1
      OBVIOUS
    <3>. QED BY <1>1, <1>2, <1>3, <3>1 DEF ToSet
  <2>2. ASSUME NEW i \in 1 .. Len(s) PROVE s[i] \in ToSet(r)
    <3>1. i + 1 \in DOMAIN r /\ r[i + 1] = s[i]
      BY <1>1, <1>2
    <3>. QED BY <3>1 DEF ToSet
  <2>3. x \in ToSet(r)
    <3>1. 1 \in DOMAIN r /\ r[1] = x
      BY <1>1, <1>2
    <3>. QED BY <3>1 DEF ToSet
  <2>. QED BY <1>1, <2>1, <2>2, <2>3 DEF ToSet
<1>5. ASSUME NEW i \in DOMAIN r, NEW j \in DOMAIN r, r[i] = r[j] PROVE i = j
  <2>1. \A k \in 1 .. Len(s) : s[k] # x
    BY <1>1 DEF ToSet
  <2>2. (i = 1 \/ i \in 2 .. Len(s) + 1) /\ (j = 1 \/ j \in 2 .. Len(s) + 1)
    BY <1>1
  <2>3. CASE i \in 2 .. Len(s) + 1 /\ j \in 2 .. Len(s) + 1
    <3>1. s[i - 1] = s[j - 1] /\ i - 1 \in DOMAIN s /\ j - 1 \in DOMAIN s
      BY <1>1, <1>3, <1>5, <2>3
    <3>2. i - 1 = j - 1
      BY <3>1 DEF IsInjective
    <3>. QED BY <2>3, <3>2
  <2>. QED BY <1>2, <1>3, <1>5, <2>1, <2>2, <2>3
<1>. QED
  BY <1>1, <1>4, <1>5 DEF Added, IsInjective, r

(* push *)
LEMMA EndAdded ==
  ASSUME NEW s \in Seq(Nat), IsInjective(s), NEW x \in Nat, x \notin ToSet(s)
  PROVE  Added(s, Append(s, x), x)
<1>. DEFINE r == Append(s, x)
<1>1. r \in Seq(Nat) /\ Len(r) = Len(s) + 1 /\ DOMAIN r = 1 .. Len(s) + 1 /\ DOMAIN s = 1 .. Len(s)
  OBVIOUS
<1>2. r[Len(s) + 1] = x /\ \A i \in 1 .. Len(s) : r[i] = s[i]
  OBVIOUS
<1>. HIDE DEF r
<1>3. Len(s) \in Nat /\ \A i \in 1 .. Len(s) + 1 : i = Len(s) + 1 \/ i \in 1 .. Len(s)
  OBVIOUS
<1>4. ToSet(r) = ToSet(s) \cup {x}
  <2>1. ASSUME NEW i \in 1 .. Len(s) + 1 PROVE r[i] \in ToSet(s) \cup {x}
    BY <1>1, <1>2, <1>3 DEF ToSet
  <2>2. ASSUME NEW i \in 1 .. Len(s) PROVE s[i] \in ToSet(r)
    <3>1. i \in DOMAIN r /\ r[i] = s[i]
      BY <1>1, <1>2
    <3>. QED BY <3>1 DEF ToSet
  <2>3. x \in ToSet(r)
    <3>1. Len(s) + 1 \in DOMAIN r /\ r[Len(s) + 1] = x
      BY <1>1, <1>2, <1>3
    <3>. QED BY <3>1 DEF ToSet
  <2>. QED BY <1>1, <2>1, <2>2, <2>3 DEF ToSet
<1>5. ASSUME NEW i \in DOMAIN r, NEW j \in DOMAIN r, r[i] = r[j] PROVE i = j
  <2>1. \A k \in 1 .. Len(s) : s[k] # x
    BY <1>1 DEF ToSet
  <2>2. (i = Len(s) + 1 \/ i \in 1 .. Len(s)) /\ (j = Len(s) + 1 \/ j \in 1 .. Len(s))
    BY <1>1, <1>3
  <2>3. CASE i \in 1 .. Len(s) /\ j \in 1 .. Len(s)
    BY <1>1, <1>2, <1>5, <2>3 DEF IsInjective
  <2>. QED BY <1>2, <1>5, <2>1, <2>2, <2>3
<1>. QED
  BY <1>1, <1>4, <1>5 DEF Added, IsInjective, r

(* An element in the middle goes. *)
LEMMA PlaceRemoved ==
  ASSUME NEW s \in Seq(Nat), IsInjective(s), NEW p \in DOMAIN s
  PROVE  Removed(s, RemoveAt(s, p), s[p])
<1>. DEFINE r == RemoveAt(s, p)
            n == Len(s)
<1>1. n \in Nat /\ DOMAIN s = 1 .. n /\ p \in 1 .. n
  OBVIOUS
<1>2. /\ r \in Seq(Nat) /\ Len(r) = n - 1 /\ DOMAIN r = 1 .. n - 1
      /\ \A i \in 1 .. n - 1 : r[i] = IF i < p THEN s[i] ELSE s[i + 1]
  <2>1. r \in Seq(Nat) /\ Len(r) = n - 1 /\ \A i \in 1 .. n - 1 : r[i] = IF i < p THEN s[i] ELSE s[i + 1]
    BY <1>1, RemovedAt
  <2>. HIDE DEF r, n
  <2>. QED BY <1>1, <2>1
<1>. HIDE DEF r, n
<1>3. \A i, j \in 1 .. n : s[i] = s[j] => i = j
  BY <1>1 DEF IsInjective
<1>4. \A i \in 1 .. n - 1 : \E k \in 1 .. n : k # p /\ k = (IF i < p THEN i ELSE i + 1) /\ r[i] = s[k]
  BY <1>1, <1>2
<1>5. \A k \in 1 .. n : k # p => \E i \in 1 .. n - 1 : r[i] = s[k]
  <2>. SUFFICES ASSUME NEW k \in 1 .. n, k # p PROVE \E i \in 1 .. n - 1 : r[i] = s[k]
    OBVIOUS
  <2>1. CASE k < p
    <3>1. k \in 1 .. n - 1
      BY <1>1, <2>1
    <3>. QED BY <1>2, <2>1, <3>1
  <2>2. CASE ~ (k < p)
    <3>1. k - 1 \in 1 .. n - 1 /\ ~ (k - 1 < p) /\ (k - 1) + 1 = k
      BY <1>1, <2>2
    <3>. QED BY <1>2, <3>1
  <2>. QED BY <2>1, <2>2
<1>6. ToSet(r) = ToSet(s) \ {s[p]}
  <2>1. ToSet(r) = {r[i] : i \in 1 .. n - 1} /\ ToSet(s) = {s[i] : i \in 1 .. n}
    BY <1>1, <1>2 DEF ToSet
  <2>2. ASSUME NEW i \in 1 .. n - 1 PROVE r[i] \in ToSet(s) \ {s[p]}
    <3>1. PICK k \in 1 .. n : k # p /\ r[i] = s[k]
      BY <1>4
    <3>2. s[k] # s[p]
      BY <1>1, <1>3, <3>1
    <3>. QED BY <2>1, <3>1, <3>2
  <2>3. ASSUME NEW k \in 1 .. n, s[k] # s[p] PROVE s[k] \in ToSet(r)
    <3>1. PICK i \in 1 .. n - 1 : r[i] = s[k]
      BY <1>5, <2>3
    <3>. QED BY <2>1, <3>1
  <2>4. ToSet(r) \subseteq ToSet(s) \ {s[p]}
    BY <2>1, <2>2
  <2>5. ToSet(s) \ {s[p]} \subseteq ToSet(r)
    BY <2>1, <2>3
  <2>. QED BY <2>4, <2>5
<1>7. ASSUME NEW i \in 1 .. n - 1, NEW j \in 1 .. n - 1, r[i] = r[j] PROVE i = j
  <2>1. PICK k \in 1 .. n : k = (IF i < p THEN i ELSE i + 1) /\ r[i] = s[k]
    BY <1>4
  <2>2. PICK l \in 1 .. n : l = (IF j < p THEN j ELSE j + 1) /\ r[j] = s[l]
    BY <1>4
  <2>3. k = l
    BY <1>3, <1>7, <2>1, <2>2
  <2>. QED BY <1>1, <2>1, <2>2, <2>3
<1>8. s[p] \in ToSet(s)
  BY DEF ToSet
<1>9. IsInjective(r)
  BY <1>2, <1>7 DEF IsInjective
<1>. QED
  BY <1>2, <1>6, <1>8, <1>9 DEF Removed, r, n

(* remove_node *)
LEMMA NodeRemoved ==
  ASSUME NEW s \in Seq(Nat), IsInjective(s), NEW x \in ToSet(s)
  PROVE  Removed(s, Without(s, x), x)
<1>. DEFINE p == CHOOSE i \in DOMAIN s : s[i] = x
<1>1. p \in DOMAIN s /\ s[p] = x
  BY DEF ToSet
<1>2. Without(s, x) = RemoveAt(s, p)
  BY DEF Without
<1>. HIDE DEF p
<1>. QED
  BY <1>1, <1>2, PlaceRemoved

(* pop_front *)
LEMMA HeadRemoved ==
  ASSUME NEW s \in Seq(Nat), IsInjective(s), s # << >>
  PROVE  Removed(s, Tail(s), Head(s))
<1>1. 1 \in DOMAIN s /\ Head(s) = s[1]
  OBVIOUS
<1>2. Tail(s) = RemoveAt(s, 1)
  <2>1. SubSeq(s, 1, 1 - 1) = << >> /\ 1 + 1 = 2
    OBVIOUS
  <2>2. Tail(s) = SubSeq(s, 2, Len(s))
    OBVIOUS
  <2>3. SubSeq(s, 2, Len(s)) \in Seq(Nat)
    OBVIOUS
  <2>4. << >> \o SubSeq(s, 2, Len(s)) = SubSeq(s, 2, Len(s))
    BY <2>3
  <2>. QED BY <2>1, <2>2, <2>4 DEF RemoveAt
<1>. QED
  BY <1>1, <1>2, PlaceRemoved

(* olist: no list has a block twice. *)
Lists(N, h) == h \in Nat /\ N \in [0 .. h -> Seq(Nat)] /\ \A o \in 0 .. h : IsInjective(N[o])

(* The pages on each list. *)
PagesAt(N, h) == [o \in 0 .. h |-> Len(N[o]) * 2^o]

(* The tile of a block says on which list it is. *)
LEMMA TileListed ==
  ASSUME NEW N, NEW h, Lists(N, h), NEW o \in 0 .. h, NEW a
  PROVE  <<a, 2^o>> \in ListTiles(N, h) <=> a \in ToSet(N[o])
<1>1. ASSUME <<a, 2^o>> \in ListTiles(N, h) PROVE a \in ToSet(N[o])
  <2>1. PICK j \in 0 .. h : \E b \in ToSet(N[j]) : <<a, 2^o>> = <<b, 2^j>>
    BY <1>1 DEF ListTiles
  <2>2. PICK b \in ToSet(N[j]) : <<a, 2^o>> = <<b, 2^j>>
    BY <2>1
  <2>3. a = b /\ 2^o = 2^j
    BY <2>2
  <2>4. o \in Nat /\ j \in Nat
    BY DEF Lists
  <2>5. o = j
    BY <2>3, <2>4, PowerLess
  <2>. QED BY <2>2, <2>3, <2>5
<1>2. ASSUME a \in ToSet(N[o]) PROVE <<a, 2^o>> \in ListTiles(N, h)
  BY <1>2 DEF ListTiles
<1>. QED
  BY <1>1, <1>2

(* The lists hold numbers of pages. *)
LEMMA ListTerms ==
  ASSUME NEW N, NEW h, Lists(N, h)
  PROVE  /\ Terms(PagesAt(N, h), 0, h)
         /\ \A o \in 0 .. h : PagesAt(N, h)[o] = Len(N[o]) * 2^o /\ Len(N[o]) \in Nat /\ 2^o \in Nat
         /\ ListSum(N, h) = Sum(PagesAt(N, h), 0, h) /\ ListSum(N, h) \in Nat
<1>1. h \in Nat
  BY DEF Lists
<1>2. ASSUME NEW o \in 0 .. h
      PROVE  PagesAt(N, h)[o] = Len(N[o]) * 2^o /\ Len(N[o]) \in Nat /\ 2^o \in Nat
  <2>1. o \in Nat /\ N[o] \in Seq(Nat)
    BY DEF Lists
  <2>2. 2^o \in Nat
    BY <2>1, Power
  <2>. QED BY <2>1, <2>2 DEF PagesAt
<1>3. Terms(PagesAt(N, h), 0, h)
  <2>1. ASSUME NEW o \in 0 .. h PROVE PagesAt(N, h)[o] \in Nat
    <3>1. Len(N[o]) * 2^o \in Nat
      BY ONLY <1>2, TimesSteps
    <3>. QED BY <1>2, <3>1
  <2>. QED BY <1>1, <2>1 DEF Terms
<1>4. ListSum(N, h) = Sum(PagesAt(N, h), 0, h)
  BY DEF ListSum, PagesAt
<1>5. Sum(PagesAt(N, h), 0, h) \in Nat
  BY <1>3, SumEqual
<1>. QED
  BY <1>2, <1>3, <1>4, <1>5

(* The lists of two states, and a step for every order. *)
LEMMA ListSumChange ==
  ASSUME NEW N, NEW M, NEW h, Lists(N, h), Lists(M, h), NEW D \in [-1 .. h -> Int], D[-1] = 0,
         \A k \in 0 .. h : Len(M[k]) * 2^k = Len(N[k]) * 2^k + D[k] - D[k - 1]
  PROVE  ListSum(M, h) = ListSum(N, h) + D[h]
<1>. DEFINE f == PagesAt(N, h)
            g == PagesAt(M, h)
<1>0. h \in Nat
  BY DEF Lists
<1>1. /\ Terms(f, 0, h) /\ ListSum(N, h) = Sum(f, 0, h)
      /\ \A o \in 0 .. h : f[o] = Len(N[o]) * 2^o /\ Len(N[o]) \in Nat /\ 2^o \in Nat
  BY ListTerms
<1>2. /\ Terms(g, 0, h) /\ ListSum(M, h) = Sum(g, 0, h)
      /\ \A o \in 0 .. h : g[o] = Len(M[o]) * 2^o /\ Len(M[o]) \in Nat /\ 2^o \in Nat
  BY ListTerms
<1>. HIDE DEF f, g
<1>3. PICK P : Totals(P, f, 0, h) /\ Sum(f, 0, h) = P[h]
  BY <1>1, SumDef
<1>4. PICK Q : Totals(Q, g, 0, h) /\ Sum(g, 0, h) = Q[h]
  BY <1>2, SumDef
<1>5. Stepwise(f, g, -1, h, 0, D)
  <2>1. ASSUME NEW k \in (-1) + 1 .. h PROVE f[k] \in Nat /\ g[k + 0] = f[k] + D[k] - D[k - 1]
    <3>1. k \in 0 .. h /\ k + 0 = k
      BY <1>0
    <3>2. f[k] = Len(N[k]) * 2^k /\ g[k] = Len(M[k]) * 2^k /\ Len(N[k]) * 2^k \in Nat
      BY <1>1, <1>2, <3>1, TimesSteps
    <3>. QED BY <3>1, <3>2
  <2>. QED BY <2>1 DEF Stepwise
<1>6. P[-1] = 0 /\ Q[-1] = 0
  BY <1>3, <1>4 DEF Totals
<1>7. Q[h + 0] = P[h] + D[h]
  <2>1. -1 \in 0 - 1 .. h /\ h \in -1 .. h /\ 0 \in Int /\ (-1) + 0 >= 0 - 1 /\ h + 0 <= h /\ h \in Int
    BY <1>0
  <2>2. Q[(-1) + 0] = P[-1] + D[-1]
    BY <1>6
  <2>. QED BY ONLY <1>3, <1>4, <1>5, <2>1, <2>2, SumChange
<1>. QED
  BY <1>0, <1>1, <1>2, <1>3, <1>4, <1>7

(* A block of order o more. *)
OneMore(N, M, h, o, a) ==
  /\ Lists(N, h) /\ o \in 0 .. h /\ M \in [0 .. h -> Seq(Nat)]
  /\ Added(N[o], M[o], a) /\ \A j \in 0 .. h : j # o => M[j] = N[j]

(* A node pushed to the list of its order adds its tile and its pages. *)
LEMMA Pushed ==
  ASSUME NEW N, NEW M, NEW h, NEW o, NEW a, OneMore(N, M, h, o, a)
  PROVE  /\ Lists(M, h) /\ ListTiles(M, h) = ListTiles(N, h) \cup {<<a, 2^o>>}
         /\ ListSum(M, h) = ListSum(N, h) + 2^o
<1>. /\ Lists(N, h) /\ o \in 0 .. h /\ M \in [0 .. h -> Seq(Nat)]
     /\ Added(N[o], M[o], a) /\ \A j \in 0 .. h : j # o => M[j] = N[j]
  BY DEF OneMore
<1>1. Lists(M, h)
  BY DEF Lists, Added
<1>2. h \in Nat /\ 2^o \in Nat
  BY Power DEF Lists
<1>3. ListTiles(M, h) = ListTiles(N, h) \cup {<<a, 2^o>>}
  <2>1. ToSet(M[o]) = ToSet(N[o]) \cup {a}
    BY DEF Added
  <2>2. ASSUME NEW t \in ListTiles(M, h) PROVE t \in ListTiles(N, h) \cup {<<a, 2^o>>}
    <3>1. PICK j \in 0 .. h : t \in {<<b, 2^j>> : b \in ToSet(M[j])}
      BY DEF ListTiles
    <3>2. PICK b \in ToSet(M[j]) : t = <<b, 2^j>>
      BY <3>1
    <3>3. b \in ToSet(N[j]) \/ (j = o /\ b = a)
      BY <2>1, <3>2
    <3>. QED BY <3>2, <3>3 DEF ListTiles
  <2>3. ASSUME NEW t \in ListTiles(N, h) PROVE t \in ListTiles(M, h)
    <3>1. PICK j \in 0 .. h : t \in {<<b, 2^j>> : b \in ToSet(N[j])}
      BY DEF ListTiles
    <3>2. PICK b \in ToSet(N[j]) : t = <<b, 2^j>>
      BY <3>1
    <3>3. b \in ToSet(M[j])
      BY <2>1, <3>2
    <3>. QED BY <3>2, <3>3 DEF ListTiles
  <2>4. <<a, 2^o>> \in ListTiles(M, h)
    BY <2>1 DEF ListTiles
  <2>. QED BY <2>2, <2>3, <2>4
<1>. DEFINE D == [k \in -1 .. h |-> IF k < o THEN 0 ELSE 2^o]
<1>4. D \in [-1 .. h -> Int] /\ D[-1] = 0 /\ D[h] = 2^o
  BY <1>2
<1>5. ASSUME NEW k \in 0 .. h PROVE Len(M[k]) * 2^k = Len(N[k]) * 2^k + D[k] - D[k - 1]
  <2>1. k \in -1 .. h /\ k - 1 \in -1 .. h
    BY <1>2
  <2>2. Len(N[k]) \in Nat /\ 2^k \in Nat
    BY ListTerms
  <2>3. CASE k = o
    <3>1. D[k] = 2^k /\ D[k - 1] = 0
      BY <1>2, <2>1, <2>3
    <3>2. Len(M[k]) = Len(N[k]) + 1
      BY <2>3 DEF Added
    <3>3. (Len(N[k]) + 1) * 2^k = Len(N[k]) * 2^k + 2^k /\ Len(N[k]) * 2^k \in Nat
      BY ONLY <2>2, TimesSteps
    <3>. HIDE DEF D
    <3>4. Len(M[k]) * 2^k = Len(N[k]) * 2^k + 2^k
      BY <3>2, <3>3
    <3>5. 2^k \in Int /\ D[k] \in Int /\ D[k - 1] \in Int /\ 2^k = D[k] - D[k - 1]
      BY ONLY <2>2, <3>1
    <3>. QED BY ONLY <3>3, <3>4, <3>5, Gain
  <2>4. CASE k # o
    <3>1. D[k] = D[k - 1] /\ D[k] \in Int
      BY <1>2, <2>1, <2>4
    <3>2. Len(N[k]) * 2^k \in Nat /\ M[k] = N[k]
      BY <2>2, <2>4, TimesSteps
    <3>. HIDE DEF D
    <3>3. Len(M[k]) * 2^k = Len(N[k]) * 2^k + 0 /\ 0 \in Int /\ D[k - 1] \in Int /\ 0 = D[k] - D[k - 1]
      BY <3>1, <3>2
    <3>. QED BY ONLY <3>1, <3>2, <3>3, Gain
  <2>. QED BY <2>3, <2>4
<1>. HIDE DEF D
<1>6. ListSum(M, h) = ListSum(N, h) + D[h]
  BY <1>1, <1>4, <1>5, ListSumChange
<1>. QED
  BY <1>1, <1>3, <1>4, <1>6

(* The node at n of order t is split until one of order o goes. *)
OneSplit(N, M, h, o, t, n, X) ==
  /\ Lists(N, h) /\ t \in 0 .. h /\ o \in 0 .. t /\ M \in [0 .. h -> Seq(Nat)]
  /\ Removed(N[t], M[t], n)
  /\ \A j \in o .. t - 1 : Added(N[j], M[j], X[j])
  /\ \A j \in 0 .. h : j \notin o .. t => M[j] = N[j]

(* A split takes one node and adds the halves: the pages fall by the block's. *)
LEMMA Taken ==
  ASSUME NEW N, NEW M, NEW h, NEW o, NEW t, NEW n, NEW X, OneSplit(N, M, h, o, t, n, X)
  PROVE  /\ Lists(M, h)
         /\ ListTiles(M, h) = (ListTiles(N, h) \ {<<n, 2^t>>}) \cup {<<X[j], 2^j>> : j \in o .. t - 1}
         /\ ListSum(M, h) = ListSum(N, h) - 2^o
<1>. /\ Lists(N, h) /\ t \in 0 .. h /\ o \in 0 .. t /\ M \in [0 .. h -> Seq(Nat)]
     /\ Removed(N[t], M[t], n)
     /\ \A j \in o .. t - 1 : Added(N[j], M[j], X[j])
     /\ \A j \in 0 .. h : j \notin o .. t => M[j] = N[j]
  BY DEF OneSplit
<1>0. h \in Nat /\ t \in Nat /\ o \in Nat /\ t <= h /\ o <= t
  BY DEF Lists
<1>1. Lists(M, h)
  <2>1. ASSUME NEW j \in 0 .. h PROVE IsInjective(M[j])
    <3>1. j \in o .. t - 1 \/ j = t \/ j \notin o .. t
      BY <1>0
    <3>. QED BY <3>1 DEF Lists, Added, Removed
  <2>. QED BY <1>0, <2>1 DEF Lists
<1>2. ListTiles(M, h) = (ListTiles(N, h) \ {<<n, 2^t>>}) \cup {<<X[j], 2^j>> : j \in o .. t - 1}
  <2>1. ToSet(M[t]) = ToSet(N[t]) \ {n} /\ \A j \in o .. t - 1 : ToSet(M[j]) = ToSet(N[j]) \cup {X[j]}
    BY DEF Added, Removed
  <2>2. ASSUME NEW e \in ListTiles(M, h)
        PROVE  e \in (ListTiles(N, h) \ {<<n, 2^t>>}) \cup {<<X[j], 2^j>> : j \in o .. t - 1}
    <3>1. PICK j \in 0 .. h : e \in {<<b, 2^j>> : b \in ToSet(M[j])}
      BY DEF ListTiles
    <3>2. PICK b \in ToSet(M[j]) : e = <<b, 2^j>>
      BY <3>1
    <3>3. <<b, 2^j>> = <<n, 2^t>> => j = t /\ b = n
      <4>. SUFFICES ASSUME <<b, 2^j>> = <<n, 2^t>> PROVE j = t /\ b = n
        OBVIOUS
      <4>1. b = n /\ 2^j = 2^t
        OBVIOUS
      <4>. QED BY <1>0, <4>1, PowerLess
    <3>4. CASE j \in o .. t - 1
      <4>1. j # t
        BY <1>0, <3>4
      <4>2. CASE b \in ToSet(N[j])
        BY <3>2, <3>3, <4>1, <4>2 DEF ListTiles
      <4>3. CASE b = X[j]
        BY <3>2, <3>4, <4>3
      <4>. QED BY <2>1, <3>2, <3>4, <4>2, <4>3
    <3>5. CASE j \notin o .. t - 1
      <4>1. b \in ToSet(N[j]) /\ (j = t => b # n)
        <5>1. j = t \/ j \notin o .. t
          BY <1>0, <3>5
        <5>. QED BY <1>0, <2>1, <3>2, <5>1
      <4>2. <<b, 2^j>> \in ListTiles(N, h)
        BY <4>1 DEF ListTiles
      <4>. QED BY ONLY <3>2, <3>3, <4>1, <4>2
    <3>. QED BY <3>4, <3>5
  <2>3. ASSUME NEW e \in ListTiles(N, h), e # <<n, 2^t>> PROVE e \in ListTiles(M, h)
    <3>1. PICK j \in 0 .. h : e \in {<<b, 2^j>> : b \in ToSet(N[j])}
      BY DEF ListTiles
    <3>2. PICK b \in ToSet(N[j]) : e = <<b, 2^j>>
      BY <3>1
    <3>3. j \in o .. t - 1 \/ j = t \/ j \notin o .. t
      BY <1>0
    <3>4. b \in ToSet(M[j])
      BY <2>1, <2>3, <3>2, <3>3
    <3>5. <<b, 2^j>> \in ListTiles(M, h)
      BY <3>4 DEF ListTiles
    <3>. QED BY ONLY <3>2, <3>5
  <2>4. ASSUME NEW j \in o .. t - 1 PROVE <<X[j], 2^j>> \in ListTiles(M, h)
    <3>1. X[j] \in ToSet(M[j])
      BY <2>1
    <3>2. j \in 0 .. h
      BY <1>0
    <3>. QED BY <3>1, <3>2 DEF ListTiles
  <2>. QED BY <2>2, <2>3, <2>4
<1>. DEFINE D == [k \in -1 .. h |-> IF k < o THEN 0 ELSE IF k < t THEN 2^(k + 1) - 2^o ELSE -(2^o)]
<1>3. \A k \in Nat : 2^k \in Nat /\ 2^(k + 1) = 2 * 2^k
  BY Power
<1>4. D \in [-1 .. h -> Int] /\ D[-1] = 0 /\ D[h] = -(2^o)
  <2>1. ASSUME NEW k \in -1 .. h PROVE (IF k < o THEN 0 ELSE IF k < t THEN 2^(k + 1) - 2^o ELSE -(2^o)) \in Int
    <3>1. CASE k < o
      BY <3>1
    <3>2. CASE ~ (k < o)
      <4>1. k + 1 \in Nat /\ o \in Nat
        BY <1>0, <3>2
      <4>2. 2^(k + 1) \in Nat /\ 2^o \in Nat
        BY <1>3, <4>1
      <4>. QED BY <3>2, <4>2
    <3>. QED BY <3>1, <3>2
  <2>2. D \in [-1 .. h -> Int]
    BY <2>1
  <2>. QED BY <1>0, <2>2
<1>5. ASSUME NEW k \in 0 .. h PROVE Len(M[k]) * 2^k = Len(N[k]) * 2^k + D[k] - D[k - 1]
  <2>1. k \in Nat /\ k \in -1 .. h /\ k - 1 \in -1 .. h /\ (k - 1) + 1 = k
    BY <1>0
  <2>2. Len(N[k]) \in Nat /\ 2^k \in Nat /\ 2^o \in Nat /\ 2^(k + 1) = 2 * 2^k
    BY <1>0, <1>3, <2>1, ListTerms
  <2>3. CASE k \in o .. t - 1
    <3>1. D[k] = 2^(k + 1) - 2^o /\ D[k - 1] = IF k - 1 < o THEN 0 ELSE 2^k - 2^o
      BY <1>0, <2>1, <2>3
    <3>2. D[k - 1] = 2^k - 2^o
      <4>1. CASE k = o
        BY <1>0, <2>2, <3>1, <4>1
      <4>2. CASE k # o
        BY <1>0, <2>1, <2>3, <3>1, <4>2
      <4>. QED BY <4>1, <4>2
    <3>3. Len(M[k]) = Len(N[k]) + 1
      BY <2>3 DEF Added
    <3>4. (Len(N[k]) + 1) * 2^k = Len(N[k]) * 2^k + 2^k
      BY ONLY <2>2, TimesSteps
    <3>5. Len(N[k]) * 2^k \in Nat
      BY ONLY <2>2, TimesSteps
    <3>. DEFINE e == 2^k
    <3>. HIDE DEF D
    <3>6. D[k] \in Int /\ D[k - 1] \in Int /\ e = D[k] - D[k - 1] /\ e \in Int
      BY ONLY <2>2, <3>1, <3>2
    <3>7. Len(M[k]) * 2^k = Len(N[k]) * 2^k + e
      <4>. DEFINE w == Len(N[k]) * 2^k
      <4>1. w \in Nat /\ Len(M[k]) * 2^k = w + 2^k /\ 2^k \in Nat
        BY <2>2, <3>3, <3>4, <3>5
      <4>. HIDE DEF w
      <4>2. Len(M[k]) * 2^k = w + e
        BY <4>1
      <4>. QED BY <4>2 DEF w
    <3>. HIDE DEF e
    <3>. QED BY ONLY <3>5, <3>6, <3>7, Gain
  <2>4. CASE k = t
    <3>1. D[k] = -(2^o) /\ D[k - 1] = IF k - 1 < o THEN 0 ELSE 2^k - 2^o
      BY <1>0, <2>1, <2>4
    <3>2. D[k - 1] = 2^k - 2^o
      <4>1. CASE k = o
        BY <1>0, <2>2, <3>1, <4>1
      <4>2. CASE k # o
        BY <1>0, <2>1, <2>4, <3>1, <4>2
      <4>. QED BY <4>1, <4>2
    <3>3. Len(M[k]) = Len(N[k]) - 1
      BY <2>4 DEF Removed
    <3>4. (Len(N[k]) - 1) * 2^k = Len(N[k]) * 2^k - 2^k
      BY ONLY <2>2, TimesSteps
    <3>5. Len(N[k]) * 2^k \in Nat
      BY ONLY <2>2, TimesSteps
    <3>. DEFINE e == -(2^k)
    <3>. HIDE DEF D
    <3>6. D[k] \in Int /\ D[k - 1] \in Int /\ e = D[k] - D[k - 1] /\ e \in Int
      BY ONLY <2>2, <3>1, <3>2
    <3>7. Len(M[k]) * 2^k = Len(N[k]) * 2^k + e
      <4>. DEFINE w == Len(N[k]) * 2^k
      <4>1. w \in Nat /\ Len(M[k]) * 2^k = w - 2^k /\ 2^k \in Nat
        BY <2>2, <3>3, <3>4, <3>5
      <4>. HIDE DEF w
      <4>2. Len(M[k]) * 2^k = w + e
        BY <4>1
      <4>. QED BY <4>2 DEF w
    <3>. HIDE DEF e
    <3>. QED BY ONLY <3>5, <3>6, <3>7, Gain
  <2>5. CASE k \notin o .. t
    <3>1. D[k] = D[k - 1] /\ D[k] \in Int
      BY <1>0, <2>1, <2>2, <2>5
    <3>2. Len(N[k]) * 2^k \in Nat
      BY ONLY <2>2, TimesSteps
    <3>4. M[k] = N[k]
      BY <2>5
    <3>. HIDE DEF D
    <3>3. Len(M[k]) * 2^k = Len(N[k]) * 2^k + 0 /\ 0 \in Int /\ D[k - 1] \in Int /\ 0 = D[k] - D[k - 1]
      BY <3>1, <3>2, <3>4
    <3>. QED BY ONLY <3>1, <3>2, <3>3, Gain
  <2>6. k \in o .. t - 1 \/ k = t \/ k \notin o .. t
    BY <1>0
  <2>. QED BY <2>3, <2>4, <2>5, <2>6
<1>. HIDE DEF D
<1>6. ListSum(M, h) = ListSum(N, h) + D[h]
  BY <1>1, <1>4, <1>5, ListSumChange
<1>7. ListSum(N, h) \in Nat /\ 2^o \in Nat
  BY <1>0, <1>3, ListTerms
<1>. QED
  BY <1>1, <1>2, <1>4, <1>6, <1>7

-----------------------------------------------------------------------------
(* BuddyAllocator::new: the geometry of a zone and its first lists.        *)

(* The parameters of the page allocator, from ZoneAssumption. *)
LEMMA ZoneFacts ==
  /\ 0 \in Zone /\ NumZones \in Nat \ {0} /\ Zone \subseteq Nat /\ Zone = 0 .. NumZones - 1
  /\ MaxOrder \in Nat \ {0} /\ PageSize \in Nat \ {0} /\ ApPage \in Nat
  /\ \A z \in Zone : /\ Region[z][1] \in Nat /\ Region[z][2] \in Nat /\ Region[z][1] < Region[z][2]
                     /\ Region[z][2] - Region[z][1] < 2^MaxOrder
<1>1. NumZones \in Nat \ {0}
  BY ZoneAssumption DEF MaxZones
<1>. QED
  BY <1>1, ZoneAssumption DEF Zone

(* The bits of a zone take less than the zone. *)
LEMMA Geometry ==
  ASSUME NEW z \in Zone
  PROVE  /\ Start(z) \in Nat /\ MetaStart(z) \in Nat /\ Start(z) <= MetaStart(z)
         /\ MetaStart(z) < Region[z][2] /\ Start(z) = Region[z][1]
         /\ MetaStart(z) - Start(z) < 2^MaxOrder
<1>. DEFINE s == Region[z][1]
            e == Region[z][2]
            n == e - s
            q == n \div 8
            b == q + 1
            x == e * PageSize - b
            m == x \div PageSize
<1>1. s \in Nat /\ e \in Nat /\ s < e /\ n < 2^MaxOrder /\ PageSize \in Nat \ {0}
  BY ZoneFacts
<1>2. n \in Nat /\ n >= 1 /\ e = s + n
  BY <1>1
<1>3. Start(z) = s /\ MetaStart(z) = m
  BY DEF Start, MetaStart
<1>. HIDE DEF n, s, e
<1>4. q \in Nat /\ n = 8 * q + (n % 8) /\ n % 8 \in 0 .. 7
  BY <1>2, Division
<1>. HIDE DEF q
<1>5. b \in Nat /\ b >= 1 /\ b <= n
  BY <1>2, <1>4
<1>. HIDE DEF b
<1>6. n * 1 <= n * PageSize /\ n * PageSize \in Nat
  BY <1>1, <1>2, TimesOrder
<1>7. e * PageSize = s * PageSize + n * PageSize /\ s * PageSize \in Nat
  BY <1>1, <1>2
<1>. DEFINE u == s * PageSize
            v == n * PageSize
<1>8. u \in Nat /\ v \in Nat /\ n <= v /\ x = u + v - b
  <2>1. u \in Nat /\ v \in Nat
    BY <1>6, <1>7
  <2>2. n <= v
    <3>1. n * 1 = n
      BY <1>2
    <3>. QED BY <1>6, <3>1
  <2>3. x = u + v - b
    <3>1. e * PageSize = u + v
      BY <1>7
    <3>. DEFINE w == e * PageSize
    <3>. HIDE DEF u, v
    <3>2. w = u + v /\ x = w - b
      BY <3>1
    <3>. HIDE DEF w, x
    <3>. QED BY <1>5, <2>1, <3>2
  <2>. QED BY <2>1, <2>2, <2>3
<1>9. e * PageSize = u + v
  BY <1>7
<1>10. u = s * PageSize
  OBVIOUS
<1>. HIDE DEF u, v, x
<1>11. x \in Nat /\ u <= x /\ x < u + v
  BY <1>2, <1>5, <1>8
<1>12. m \in Nat /\ x = PageSize * m + (x % PageSize) /\ x % PageSize \in 0 .. PageSize - 1
  BY <1>1, <1>11, Division
<1>. HIDE DEF m
<1>13. s <= m
  <2>. SUFFICES ASSUME m + 1 <= s PROVE FALSE
    BY <1>1, <1>12
  <2>1. PageSize * (m + 1) <= PageSize * s
    BY <1>1, <1>12, TimesOrder
  <2>2. PageSize * (m + 1) = PageSize * m + PageSize /\ PageSize * s = u /\ PageSize * m \in Nat
    BY <1>1, <1>10, <1>12
  <2>. QED BY <1>1, <1>8, <1>11, <1>12, <2>1, <2>2
<1>14. m < e
  <2>. SUFFICES ASSUME e <= m PROVE FALSE
    BY <1>1, <1>12
  <2>1. PageSize * e <= PageSize * m
    BY <1>1, <1>12, TimesOrder
  <2>2. PageSize * e = u + v /\ PageSize * m \in Nat
    BY <1>1, <1>9, <1>12
  <2>. QED BY <1>1, <1>8, <1>11, <1>12, <2>1, <2>2
<1>15. m - s < 2^MaxOrder
  <2>1. MaxOrder \in Nat
    BY ZoneFacts
  <2>2. 2^MaxOrder \in Nat
    BY <2>1, Power
  <2>. QED BY <1>1, <1>2, <1>12, <1>14, <2>2
<1>. QED
  BY <1>1, <1>3, <1>12, <1>13, <1>14, <1>15 DEF s, e

(* A page is in one zone. *)
LEMMA OneZone ==
  ASSUME NEW y \in Zone, NEW z \in Zone, NEW a \in Nat, ContainsAddr(y, a), ContainsAddr(z, a)
  PROVE  y = z /\ ZoneOf(a) = z
<1>1. \A x, w \in Zone : ContainsAddr(x, a) /\ ContainsAddr(w, a) => x = w
  <2>. SUFFICES ASSUME NEW x \in Zone, NEW w \in Zone, ContainsAddr(x, a), ContainsAddr(w, a), x # w
                PROVE FALSE
    OBVIOUS
  <2>1. Region[x][2] <= Region[w][1] \/ Region[w][2] <= Region[x][1]
    BY ZoneAssumption
  <2>2. /\ Region[x][1] <= a /\ a < MetaStart(x) /\ MetaStart(x) \in Nat /\ MetaStart(x) < Region[x][2]
        /\ Region[w][1] <= a /\ a < MetaStart(w) /\ MetaStart(w) \in Nat /\ MetaStart(w) < Region[w][2]
    BY Geometry DEF ContainsAddr
  <2>3. Region[x][1] \in Nat /\ Region[x][2] \in Nat /\ Region[w][1] \in Nat /\ Region[w][2] \in Nat
    BY ZoneFacts
  <2>. QED BY <2>1, <2>2, <2>3
<1>2. ZoneOf(a) \in Zone /\ ContainsAddr(ZoneOf(a), a)
  BY DEF ZoneOf
<1>. QED
  BY <1>1, <1>2

(* init_orders places a block of one order at every address it comes to:   *)
(* the largest that is aligned and ends in the zone.                       *)
Placeable(z, a, o) == a % 2^o = 0 /\ a + 2^o <= MetaStart(z)

(* The order that init_orders chooses at a fits there, and the next one does not. *)
LEMMA InitOrderIs ==
  ASSUME NEW z \in Zone, NEW a \in Start(z) .. MetaStart(z) - 1
  PROVE  /\ InitOrder(z, a) \in 0 .. MaxOrder - 1
         /\ Placeable(z, a, InitOrder(z, a)) /\ ~ Placeable(z, a, InitOrder(z, a) + 1)
<1>. DEFINE T == {o \in Nat : ~ Placeable(z, a, o + 1)}
            Good(o) == Placeable(z, a, o) /\ ~ Placeable(z, a, o + 1)
<1>1. /\ Start(z) \in Nat /\ MetaStart(z) \in Nat /\ Start(z) <= MetaStart(z) /\ a \in Nat
      /\ MetaStart(z) - Start(z) < 2^MaxOrder /\ MaxOrder \in Nat \ {0}
  BY Geometry, ZoneFacts
<1>2. \A o \in Nat : Placeable(z, a, o) => o < MaxOrder
  <2>. SUFFICES ASSUME NEW o \in Nat, a + 2^o <= MetaStart(z) PROVE o < MaxOrder
    BY DEF Placeable
  <2>1. 2^o \in Nat /\ 2^MaxOrder \in Nat
    BY <1>1, Power
  <2>2. 2^o < 2^MaxOrder
    BY <1>1, <2>1
  <2>. QED BY <1>1, <2>2, PowerLess
<1>3. T \subseteq Nat /\ MaxOrder \in T
  <2>1. MaxOrder + 1 \in Nat /\ ~ (MaxOrder + 1 < MaxOrder)
    BY <1>1
  <2>. QED BY <1>1, <1>2, <2>1
<1>4. PICK m \in T : \A y \in T : m <= y
  <2>. HIDE DEF T
  <2>. QED BY <1>3, Least
<1>5. m \in Nat /\ ~ Placeable(z, a, m + 1)
  OBVIOUS
<1>6. Placeable(z, a, m)
  <2>1. CASE m = 0
    <3>1. 2^0 = 1
      OBVIOUS
    <3>2. a % 1 = 0
      <4>1. a = 1 * a
        BY <1>1
      <4>. QED BY <1>1, <4>1, Multiple
    <3>. QED BY <1>1, <2>1, <3>1, <3>2 DEF Placeable
  <2>2. CASE m # 0
    <3>1. m - 1 \in Nat /\ (m - 1) + 1 = m /\ m - 1 \notin T
      BY <1>4, <1>5, <2>2
    <3>. QED BY <3>1
  <2>. QED BY <2>1, <2>2
<1>7. m \in 0 .. MaxOrder - 1
  BY <1>1, <1>2, <1>5, <1>6
<1>8. InitOrder(z, a) = CHOOSE o \in 0 .. MaxOrder - 1 : Good(o)
  BY DEF InitOrder, Placeable
<1>9. Good(m)
  BY <1>5, <1>6
<1>. HIDE DEF Good
<1>10. InitOrder(z, a) \in 0 .. MaxOrder - 1 /\ Good(InitOrder(z, a))
  BY <1>7, <1>8, <1>9
<1>. QED
  BY <1>10 DEF Good

(* The lists N hold what init_orders places from a on. *)
Laid(z, a, N) ==
  /\ Lists(N, MaxOrder - 1)
  /\ \A o \in 0 .. MaxOrder - 1 : \A b \in ToSet(N[o]) : b \in a .. MetaStart(z) - 1 /\ InitOrder(z, b) = o
  /\ Tiling(ListTiles(N, MaxOrder - 1), a, MetaStart(z))
  /\ ListSum(N, MaxOrder - 1) = MetaStart(z) - a

(* Nothing is placed behind the end. *)
LEMMA LaidEmpty ==
  ASSUME NEW z \in Zone
  PROVE  Laid(z, MetaStart(z), [o \in 0 .. MaxOrder - 1 |-> << >>])
<1>. DEFINE N == [o \in 0 .. MaxOrder - 1 |-> << >>]
            h == MaxOrder - 1
<1>1. h \in Nat /\ MetaStart(z) \in Nat
  BY Geometry, ZoneFacts
<1>2. \A o \in 0 .. h : N[o] = << >> /\ ToSet(N[o]) = {} /\ IsInjective(N[o])
  BY DEF ToSet, IsInjective
<1>3. N \in [0 .. h -> Seq(Nat)]
  OBVIOUS
<1>. HIDE DEF N, h
<1>4. Lists(N, h)
  BY <1>1, <1>2, <1>3 DEF Lists
<1>5. ListTiles(N, h) = {}
  BY <1>2 DEF ListTiles
<1>6. Tiling(ListTiles(N, h), MetaStart(z), MetaStart(z))
  BY <1>1, <1>5 DEF Tiling
<1>7. ListSum(N, h) = 0
  <2>. DEFINE f == PagesAt(N, h)
  <2>1. /\ Terms(f, 0, h) /\ ListSum(N, h) = Sum(f, 0, h)
        /\ \A o \in 0 .. h : f[o] = Len(N[o]) * 2^o /\ 2^o \in Nat
    BY <1>4, ListTerms
  <2>. HIDE DEF f
  <2>2. PICK P : Totals(P, f, 0, h) /\ Sum(f, 0, h) = P[h]
    BY <2>1, SumDef
  <2>3. \A o \in 0 .. h : f[o] = 0
    <3>. TAKE o \in 0 .. h
    <3>1. Len(N[o]) = 0
      BY <1>2
    <3>2. 2^o \in Nat /\ f[o] = Len(N[o]) * 2^o
      BY <2>1
    <3>. QED BY <3>1, <3>2
  <2>. DEFINE T == {k \in -1 .. h : P[k] = 0}
  <2>4. -1 \in T
    BY <1>1, <2>2 DEF Totals
  <2>5. ASSUME NEW k \in -1 .. h - 1, k \in T PROVE k + 1 \in T
    <3>1. k + 1 \in 0 .. h /\ (k + 1) - 1 = k /\ P[k] = 0
      BY <1>1, <2>5
    <3>2. P[k + 1] = P[k] + f[k + 1] /\ f[k + 1] = 0
      BY <2>2, <2>3, <3>1 DEF Totals
    <3>. QED BY <1>1, <3>1, <3>2
  <2>. HIDE DEF T
  <2>6. h \in T
    BY <1>1, <2>4, <2>5, Climb
  <2>. QED BY <2>1, <2>2, <2>6 DEF T
<1>8. ListSum(N, h) = MetaStart(z) - MetaStart(z)
  BY <1>1, <1>7
<1>9. \A o \in 0 .. h : \A b \in ToSet(N[o]) : b \in MetaStart(z) .. MetaStart(z) - 1 /\ InitOrder(z, b) = o
  BY <1>2
<1>10. Laid(z, MetaStart(z), N)
  BY <1>4, <1>6, <1>8, <1>9 DEF Laid, h
<1>. QED
  BY <1>10 DEF N

(* One turn of the loop. *)
LEMMA LaidStep ==
  ASSUME NEW z \in Zone, NEW a \in Start(z) .. MetaStart(z) - 1, NEW N,
         Laid(z, a + 2^InitOrder(z, a), N)
  PROVE  Laid(z, a, [N EXCEPT ![InitOrder(z, a)] = <<a>> \o @])
<1>. DEFINE o == InitOrder(z, a)
            h == MaxOrder - 1
            b == a + 2^o
            M == [N EXCEPT ![o] = <<a>> \o @]
            e == MetaStart(z)
<1>1. o \in 0 .. h /\ Placeable(z, a, o)
  BY InitOrderIs
<1>2. h \in Nat /\ e \in Nat /\ a \in Nat /\ a < e
  BY Geometry, ZoneFacts
<1>. HIDE DEF h, e, o
<1>3. 2^o \in Nat \ {0}
  <2>1. 2^o \in Nat /\ 2^o > 0
    BY <1>1, <1>2, Power
  <2>. QED BY <2>1
<1>4. b \in Nat /\ a < b /\ b <= e
  BY <1>1, <1>2, <1>3 DEF Placeable, e
<1>. HIDE DEF b
<1>5. /\ Lists(N, h)
      /\ \A j \in 0 .. h : \A x \in ToSet(N[j]) : x \in b .. e - 1 /\ InitOrder(z, x) = j
      /\ Tiling(ListTiles(N, h), b, e)
      /\ ListSum(N, h) = e - b
  BY DEF Laid, h, e, b, o
<1>6. N \in [0 .. h -> Seq(Nat)] /\ N[o] \in Seq(Nat) /\ IsInjective(N[o])
  BY <1>1, <1>5 DEF Lists
<1>7. a \notin ToSet(N[o])
  BY <1>1, <1>2, <1>4, <1>5
<1>8. Added(N[o], <<a>> \o N[o], a)
  BY <1>2, <1>6, <1>7, FrontAdded
<1>9. M[o] = <<a>> \o N[o] /\ \A j \in 0 .. h : j # o => M[j] = N[j]
  BY <1>1, <1>6
<1>10. M \in [0 .. h -> Seq(Nat)]
  <2>1. <<a>> \o N[o] \in Seq(Nat)
    BY <1>8 DEF Added
  <2>. QED BY <1>1, <1>6, <2>1
<1>. HIDE DEF M
<1>11. /\ Lists(M, h) /\ ListTiles(M, h) = ListTiles(N, h) \cup {<<a, 2^o>>}
       /\ ListSum(M, h) = ListSum(N, h) + 2^o
  <2>1. Added(N[o], M[o], a)
    BY <1>8, <1>9
  <2>2. Lists(N, h) /\ \A j \in 0 .. h : j # o => M[j] = N[j]
    BY <1>5, <1>9
  <2>3. OneMore(N, M, h, o, a)
    BY ONLY <1>1, <1>10, <2>1, <2>2 DEF OneMore
  <2>. QED BY ONLY <2>3, Pushed
<1>12. Tiling(ListTiles(M, h), a, e)
  <2>1. Tiling({<<a, 2^o>>}, a, b)
    BY <1>2, <1>3, TilingOne DEF b
  <2>2. Tiling({<<a, 2^o>>} \cup ListTiles(N, h), a, e)
    <3>1. a <= b
      BY <1>2, <1>4
    <3>. QED BY <1>2, <1>4, <1>5, <2>1, <3>1, TilingJoin
  <2>3. {<<a, 2^o>>} \cup ListTiles(N, h) = ListTiles(M, h)
    BY <1>11
  <2>. QED BY <2>2, <2>3
<1>13. ASSUME NEW j \in 0 .. h, NEW x \in ToSet(M[j]) PROVE x \in a .. e - 1 /\ InitOrder(z, x) = j
  <2>1. CASE x \in ToSet(N[j])
    BY <1>2, <1>4, <1>5, <2>1
  <2>2. CASE j = o /\ x = a
    BY <1>2, <2>2 DEF o
  <2>3. x \in ToSet(N[j]) \/ (j = o /\ x = a)
    BY <1>8, <1>9 DEF Added
  <2>. QED BY <2>1, <2>2, <2>3
<1>14. ListSum(M, h) = e - a
  BY <1>2, <1>3, <1>4, <1>5, <1>11 DEF b
<1>15. Laid(z, a, M)
  BY <1>11, <1>12, <1>13, <1>14 DEF Laid, h, e
<1>. QED
  BY <1>15 DEF M, o

(* The loop of init_orders, from the end of the zone on. *)
FromEq(z, lo, w) ==
  w = [a \in lo .. MetaStart(z) |->
         IF a = MetaStart(z) THEN [o \in 0 .. MaxOrder - 1 |-> << >>]
         ELSE [w[a + 2^InitOrder(z, a)] EXCEPT ![InitOrder(z, a)] = <<a>> \o @]]

(* The next address is in the zone or its end. *)
LEMMA LaidNext ==
  ASSUME NEW z \in Zone, NEW a \in Start(z) .. MetaStart(z) - 1
  PROVE  a + 2^InitOrder(z, a) \in a + 1 .. MetaStart(z)
<1>. DEFINE o == InitOrder(z, a)
<1>1. o \in 0 .. MaxOrder - 1 /\ Placeable(z, a, o)
  BY InitOrderIs
<1>2. MaxOrder \in Nat /\ MetaStart(z) \in Nat /\ Start(z) \in Nat /\ a \in Nat
  BY Geometry, ZoneFacts
<1>. HIDE DEF o
<1>3. 2^o \in Nat /\ 2^o > 0
  BY <1>1, <1>2, Power
<1>4. a + 2^o <= MetaStart(z)
  BY <1>1 DEF Placeable
<1>5. a + 2^o \in a + 1 .. MetaStart(z)
  BY <1>2, <1>3, <1>4
<1>. QED
  BY <1>5 DEF o

(* It has a result, *)
LEMMA FromExists ==
  ASSUME NEW z \in Zone
  PROVE  \E w : FromEq(z, Start(z), w)
<1>. DEFINE e == MetaStart(z)
            s == Start(z)
            T == {n \in Nat : n <= e - s /\ \E w : FromEq(z, e - n, w)}
<1>1. s \in Nat /\ e \in Nat /\ s <= e
  BY Geometry
<1>2. 0 \in T
  <2>. DEFINE w == [a \in e .. e |-> [o \in 0 .. MaxOrder - 1 |-> << >>]]
  <2>1. \A a \in e .. e : a = e
    BY <1>1
  <2>2. FromEq(z, e - 0, w)
    <3>1. e - 0 = e
      BY <1>1
    <3>. QED BY <2>1, <3>1 DEF FromEq
  <2>. HIDE DEF w
  <2>. QED BY <1>1, <2>2
<1>3. ASSUME NEW n \in 0 .. (e - s) - 1, n \in T PROVE n + 1 \in T
  <2>. DEFINE a == e - (n + 1)
  <2>1. a \in s .. e - 1 /\ a \in Nat /\ e - n = a + 1 /\ n + 1 \in Nat /\ n + 1 <= e - s
    BY <1>1
  <2>2. PICK w : FromEq(z, a + 1, w)
    BY <1>3, <2>1
  <2>. HIDE DEF a
  <2>. DEFINE N == [w[a + 2^InitOrder(z, a)] EXCEPT ![InitOrder(z, a)] = <<a>> \o @]
              v == [x \in a .. e |-> IF x = a THEN N ELSE w[x]]
  <2>3. \A x \in s .. e - 1 : x + 2^InitOrder(z, x) \in x + 1 .. e
    BY LaidNext
  <2>4. ASSUME NEW x \in a .. e
        PROVE  v[x] = IF x = e THEN [o \in 0 .. MaxOrder - 1 |-> << >>]
                      ELSE [v[x + 2^InitOrder(z, x)] EXCEPT ![InitOrder(z, x)] = <<x>> \o @]
    <3>1. CASE x = e
      <4>1. x # a /\ x \in a + 1 .. e
        BY <1>1, <2>1, <3>1
      <4>2. v[x] = w[x]
        BY <4>1
      <4>. QED BY <2>2, <3>1, <4>1, <4>2 DEF FromEq
    <3>2. CASE x # e
      <4>. DEFINE y == x + 2^InitOrder(z, x)
      <4>1. x \in s .. e - 1
        BY <1>1, <2>1, <3>2
      <4>2. y \in x + 1 .. e
        BY <2>3, <4>1
      <4>. HIDE DEF y
      <4>3. y # a /\ y \in a .. e
        BY <1>1, <2>1, <4>1, <4>2
      <4>4. v[y] = w[y]
        BY <4>3
      <4>5. CASE x = a
        <5>1. v[x] = [w[y] EXCEPT ![InitOrder(z, x)] = <<x>> \o @]
          BY <4>5 DEF y
        <5>. QED BY <3>2, <4>4, <5>1 DEF y
      <4>6. CASE x # a
        <5>1. x \in a + 1 .. e
          BY <1>1, <2>1, <4>6
        <5>2. v[x] = w[x]
          BY <4>6
        <5>3. w[x] = [w[y] EXCEPT ![InitOrder(z, x)] = <<x>> \o @]
          BY <2>2, <3>2, <5>1 DEF FromEq, y
        <5>. QED BY <3>2, <4>4, <5>2, <5>3 DEF y
      <4>. QED BY <4>5, <4>6
    <3>. QED BY <3>1, <3>2
  <2>5. v = [x \in a .. e |-> v[x]]
    OBVIOUS
  <2>. HIDE DEF v
  <2>6. FromEq(z, a, v)
    BY <2>4, <2>5 DEF FromEq
  <2>. QED BY <2>1, <2>6 DEF a
<1>. HIDE DEF T
<1>4. e - s \in T
  BY <1>1, <1>2, <1>3, Climb
<1>5. e - (e - s) = s
  BY <1>1
<1>. QED
  BY <1>4, <1>5 DEF T

(* which is laid out from everywhere. *)
LEMMA FromLaid ==
  ASSUME NEW z \in Zone, NEW w, FromEq(z, Start(z), w)
  PROVE  Laid(z, Start(z), w[Start(z)])
<1>. DEFINE e == MetaStart(z)
            s == Start(z)
            T == {n \in Nat : n <= e - s /\ \A a \in e - n .. e : Laid(z, a, w[a])}
<1>1. s \in Nat /\ e \in Nat /\ s <= e
  BY Geometry
<1>2. 0 \in T
  <2>1. w[e] = [o \in 0 .. MaxOrder - 1 |-> << >>]
    BY <1>1 DEF FromEq
  <2>2. \A a \in e - 0 .. e : a = e
    BY <1>1
  <2>3. Laid(z, e, w[e])
    BY <2>1, LaidEmpty
  <2>. QED BY <1>1, <2>2, <2>3
<1>3. ASSUME NEW n \in 0 .. (e - s) - 1, n \in T PROVE n + 1 \in T
  <2>. DEFINE a == e - (n + 1)
  <2>1. a \in s .. e - 1 /\ a \in Nat /\ e - n = a + 1 /\ n + 1 \in Nat /\ n + 1 <= e - s
    BY <1>1
  <2>2. \A x \in a + 1 .. e : Laid(z, x, w[x])
    BY <1>3, <2>1
  <2>. HIDE DEF a
  <2>. DEFINE y == a + 2^InitOrder(z, a)
  <2>3. y \in a + 1 .. e
    BY <2>1, LaidNext
  <2>4. w[a] = [w[y] EXCEPT ![InitOrder(z, a)] = <<a>> \o @]
    <3>1. a \in s .. e /\ a # e
      BY <1>1, <2>1
    <3>2. w = [x \in s .. e |->
                 IF x = e THEN [o \in 0 .. MaxOrder - 1 |-> << >>]
                 ELSE [w[x + 2^InitOrder(z, x)] EXCEPT ![InitOrder(z, x)] = <<x>> \o @]]
      BY DEF FromEq
    <3>3. w[a] = IF a = e THEN [o \in 0 .. MaxOrder - 1 |-> << >>]
                 ELSE [w[a + 2^InitOrder(z, a)] EXCEPT ![InitOrder(z, a)] = <<a>> \o @]
      BY ONLY <3>1, <3>2
    <3>. QED BY ONLY <3>1, <3>3 DEF y
  <2>5. Laid(z, a, w[a])
    <3>1. Laid(z, a + 2^InitOrder(z, a), w[y])
      BY <2>2, <2>3
    <3>. HIDE DEF y
    <3>2. Laid(z, a, [w[y] EXCEPT ![InitOrder(z, a)] = <<a>> \o @])
      BY ONLY <2>1, <3>1, LaidStep, z \in Zone
    <3>. QED BY ONLY <2>4, <3>2
  <2>. HIDE DEF y
  <2>6. \A x \in a .. e : Laid(z, x, w[x])
    <3>. TAKE x \in a .. e
    <3>1. x = a \/ x \in a + 1 .. e
      BY <1>1, <2>1
    <3>. QED BY <2>2, <2>5, <3>1
  <2>. QED BY <2>1, <2>6 DEF a
<1>. HIDE DEF T
<1>4. e - s \in T
  BY <1>1, <1>2, <1>3, Climb
<1>5. s \in e - (e - s) .. e
  BY <1>1
<1>. QED
  BY <1>4, <1>5 DEF T

(* init_orders lays out the whole zone. *)
LEMMA InitLaid ==
  ASSUME NEW z \in Zone
  PROVE  Laid(z, Start(z), InitNodes[z])
<1>. DEFINE w == CHOOSE v : FromEq(z, Start(z), v)
<1>1. InitNodes[z] = w[Start(z)]
  BY DEF InitNodes, FromEq
<1>2. FromEq(z, Start(z), w)
  BY FromExists
<1>. HIDE DEF w
<1>. QED
  BY <1>1, <1>2, FromLaid

(* TopOrder is the last order with a list that new keeps; the lists above  *)
(* it are empty.                                                           *)
LEMMA TopOrderIs ==
  ASSUME NEW z \in Zone
  PROVE  /\ TopOrder[z] \in 0 .. MaxOrder - 1
         /\ \A o \in TopOrder[z] + 1 .. MaxOrder - 1 : InitNodes[z][o] = << >>
<1>. DEFINE N == InitNodes[z]
            h == MaxOrder - 1
            Good(m) == /\ m > 0 => N[m] # << >>
                       /\ \A o \in m + 1 .. h : N[o] = << >>
            T == {m \in Nat : \A o \in m + 1 .. h : N[o] = << >>}
<1>1. h \in Nat
  BY ZoneFacts
<1>2. TopOrder[z] = CHOOSE m \in 0 .. h : Good(m)
  BY DEF TopOrder
<1>. HIDE DEF N, h
<1>3. T \subseteq Nat /\ h \in T
  BY <1>1
<1>4. PICK m \in T : \A y \in T : m <= y
  <2>. HIDE DEF T
  <2>. QED BY <1>3, Least
<1>5. m \in 0 .. h
  BY <1>1, <1>3, <1>4
<1>6. Good(m)
  <2>. SUFFICES ASSUME m > 0, N[m] = << >> PROVE FALSE
    BY <1>4
  <2>1. m - 1 \in Nat /\ m - 1 \notin T
    BY <1>4, <1>5
  <2>2. ASSUME NEW o \in (m - 1) + 1 .. h PROVE N[o] = << >>
    <3>1. o = m \/ o \in m + 1 .. h
      BY <1>1, <1>5
    <3>. QED BY <1>4, <3>1
  <2>. QED BY <2>1, <2>2
<1>7. TopOrder[z] \in 0 .. h /\ Good(TopOrder[z])
  <2>. HIDE DEF Good
  <2>. QED BY <1>2, <1>5, <1>6
<1>. QED
  BY <1>7 DEF N, h

(* Terms that are 0 add nothing. *)
LEMMA SumTail ==
  ASSUME NEW f, NEW lo \in Int, NEW hi \in Int, NEW P, Totals(P, f, lo, hi),
         NEW m \in lo - 1 .. hi, \A k \in m + 1 .. hi : f[k] = 0
  PROVE  P[hi] = P[m]
<1>. DEFINE T == {k \in m .. hi : P[k] = P[m]}
<1>1. m \in T
  OBVIOUS
<1>2. ASSUME NEW k \in m .. hi - 1, k \in T PROVE k + 1 \in T
  <2>1. k + 1 \in lo .. hi /\ k + 1 \in m + 1 .. hi /\ (k + 1) - 1 = k /\ P[k] = P[m]
    BY <1>2
  <2>2. P[k + 1] = P[k] + f[k + 1] /\ f[k + 1] = 0
    BY <2>1 DEF Totals
  <2>3. P[k] \in Nat
    BY <2>1 DEF Totals
  <2>. QED BY <2>1, <2>2, <2>3
<1>. HIDE DEF T
<1>3. hi \in T
  <2>1. m \in Int /\ m <= hi
    OBVIOUS
  <2>. QED BY <1>1, <1>2, <2>1, Climb
<1>. QED
  BY <1>3 DEF T

(* The lists of a new zone hold what all lists hold. *)
LEMMA Trimmed ==
  ASSUME NEW N, NEW h, Lists(N, h), NEW t \in 0 .. h, \A o \in t + 1 .. h : N[o] = << >>,
         NEW F, F = [o \in 0 .. t |-> N[o]]
  PROVE  /\ Lists(F, t) /\ ListTiles(F, t) = ListTiles(N, h)
         /\ ListSum(F, t) = ListSum(N, h)
<1>1. h \in Nat /\ t \in Nat /\ t <= h /\ \A o \in 0 .. t : o \in 0 .. h /\ F[o] = N[o]
  BY DEF Lists
<1>2. Lists(F, t)
  BY <1>1 DEF Lists
<1>3. ListTiles(F, t) = ListTiles(N, h)
  <2>1. \A o \in 0 .. h : o \in 0 .. t \/ N[o] = << >>
    BY <1>1
  <2>2. ToSet(<< >>) = {}
    BY DEF ToSet
  <2>3. \A o \in 0 .. t : {<<a, 2^o>> : a \in ToSet(F[o])} = {<<a, 2^o>> : a \in ToSet(N[o])}
    BY <1>1
  <2>4. \A o \in 0 .. h : o \in 0 .. t \/ {<<a, 2^o>> : a \in ToSet(N[o])} = {}
    BY <2>1, <2>2
  <2>5. ListTiles(F, t) = UNION {{<<a, 2^o>> : a \in ToSet(N[o])} : o \in 0 .. t}
    BY <2>3 DEF ListTiles
  <2>6. ASSUME NEW e PROVE e \in ListTiles(N, h) <=> \E o \in 0 .. h : e \in {<<a, 2^o>> : a \in ToSet(N[o])}
    BY DEF ListTiles
  <2>7. ASSUME NEW e PROVE e \in ListTiles(F, t) <=> \E o \in 0 .. t : e \in {<<a, 2^o>> : a \in ToSet(N[o])}
    BY <2>5
  <2>. QED BY <1>1, <2>4, <2>6, <2>7
<1>4. ListSum(F, t) = ListSum(N, h)
  <2>. DEFINE f == PagesAt(N, h)
              g == PagesAt(F, t)
  <2>1. /\ Terms(f, 0, h) /\ ListSum(N, h) = Sum(f, 0, h)
        /\ \A o \in 0 .. h : f[o] = Len(N[o]) * 2^o /\ Len(N[o]) \in Nat /\ 2^o \in Nat
    BY ListTerms
  <2>2. /\ Terms(g, 0, t) /\ ListSum(F, t) = Sum(g, 0, t)
        /\ \A o \in 0 .. t : g[o] = Len(F[o]) * 2^o
    BY <1>2, ListTerms
  <2>. HIDE DEF f, g
  <2>3. PICK P : Totals(P, f, 0, h) /\ Sum(f, 0, h) = P[h]
    BY <2>1, SumDef
  <2>4. PICK Q : Totals(Q, g, 0, t) /\ Sum(g, 0, t) = Q[t]
    BY <2>2, SumDef
  <2>5. Moved(f, g, -1, t, 0)
    <3>. SUFFICES ASSUME NEW k \in -1 + 1 .. t PROVE f[k] \in Nat /\ g[k + 0] = f[k]
      BY DEF Moved
    <3>1. k \in 0 .. t /\ k + 0 = k /\ k \in 0 .. h
      BY <1>1
    <3>2. f[k] \in Nat
      BY <2>1, <3>1 DEF Terms
    <3>3. f[k] = Len(N[k]) * 2^k /\ g[k] = Len(F[k]) * 2^k /\ F[k] = N[k]
      BY <1>1, <2>1, <2>2, <3>1
    <3>4. g[k] = f[k]
      BY ONLY <3>3
    <3>. QED BY <3>1, <3>2, <3>4
  <2>6. Q[t + 0] - Q[-1 + 0] = P[t] - P[-1]
    <3>1. 0 \in Int /\ h \in Int /\ t \in Int /\ -1 \in 0 - 1 .. h /\ t \in -1 .. h /\ -1 + 0 >= 0 - 1 /\ t + 0 <= t
      BY <1>1
    <3>. QED BY ONLY <2>3, <2>4, <2>5, <3>1, SumSame
  <2>7. \A k \in t + 1 .. h : f[k] = 0
    <3>. TAKE k \in t + 1 .. h
    <3>1. k \in 0 .. h /\ N[k] = << >>
      BY <1>1
    <3>2. Len(N[k]) = 0
      BY <3>1
    <3>3. f[k] = Len(N[k]) * 2^k /\ 2^k \in Nat
      BY <2>1, <3>1
    <3>. QED BY <3>2, <3>3
  <2>8. P[h] = P[t]
    <3>1. 0 \in Int /\ h \in Int /\ t \in 0 - 1 .. h
      BY <1>1
    <3>. QED BY ONLY <2>3, <2>7, <3>1, SumTail
  <2>9. P[-1] = 0 /\ Q[-1] = 0 /\ P[t] \in Nat /\ Q[t] \in Nat
    BY <1>1, <2>3, <2>4 DEF Totals
  <2>10. t + 0 = t /\ -1 + 0 = -1
    BY <1>1
  <2>11. Q[t] = P[t]
    BY <2>6, <2>9, <2>10
  <2>. QED BY <2>1, <2>2, <2>3, <2>4, <2>8, <2>11
<1>. QED
  BY <1>2, <1>3, <1>4

(* The order of a zone. *)
LEMMA Orders ==
  ASSUME NEW z \in Zone
  PROVE  /\ TopOrder[z] \in Nat /\ TopOrder[z] < MaxOrder /\ Order(z) = 0 .. TopOrder[z]
         /\ Order(z) \subseteq 0 .. MaxOrder /\ 0 \in Order(z)
         /\ \A o \in Order(z) : o \in Nat /\ o <= TopOrder[z] /\ 2^o \in Nat \ {0}
<1>1. TopOrder[z] \in Nat /\ TopOrder[z] < MaxOrder /\ MaxOrder \in Nat
  BY TopOrderIs, ZoneFacts
<1>2. Order(z) = 0 .. TopOrder[z]
  BY DEF Order
<1>3. \A o \in Nat : 2^o \in Nat \ {0}
  <2>1. \A o \in Nat : 2^o \in Nat /\ 2^o > 0
    BY Power
  <2>. QED BY <2>1
<1>. QED
  BY <1>1, <1>2, <1>3

(* A list has an element where its set has one. *)
LEMMA Listed ==
  ASSUME NEW s \in Seq(Nat)
  PROVE  /\ \A i \in DOMAIN s : s[i] \in ToSet(s)
         /\ \A x \in ToSet(s) : x \in Nat /\ \E i \in DOMAIN s : s[i] = x
BY DEF ToSet

(* BuddyAllocator::new *)
LEMMA InitZoneInv ==
  ASSUME NEW z \in Zone
  PROVE  ZoneInv(z, InitZone(z), {})
<1>. DEFINE N == InitNodes[z]
            t == TopOrder[z]
            h == MaxOrder - 1
            F == [o \in Order(z) |-> N[o]]
            Z == InitZone(z)
<1>1. t \in 0 .. h /\ Order(z) = 0 .. t /\ \A o \in t + 1 .. h : N[o] = << >>
  BY TopOrderIs, Orders
<1>2. /\ Lists(N, h) /\ Tiling(ListTiles(N, h), Start(z), MetaStart(z))
      /\ \A o \in 0 .. h : \A b \in ToSet(N[o]) : b \in Start(z) .. MetaStart(z) - 1 /\ InitOrder(z, b) = o
      /\ ListSum(N, h) = MetaStart(z) - Start(z)
  BY InitLaid DEF Laid
<1>3. Z.free = F /\ Z.alloced = {} /\ Z.space = MetaStart(z) - Start(z)
      /\ Z = [free |-> F, alloced |-> {}, space |-> MetaStart(z) - Start(z)]
  BY DEF InitZone
<1>. HIDE DEF N, t, h, Z
<1>4. /\ Lists(F, t) /\ ListTiles(F, t) = ListTiles(N, h)
      /\ ListSum(F, t) = ListSum(N, h)
  BY <1>1, <1>2, Trimmed
<1>5. \A o \in 0 .. t : F[o] = N[o]
  BY <1>1
<1>. HIDE DEF F
<1>6. F \in [Order(z) -> Seq(Nat)] /\ \A o \in Order(z) : IsInjective(F[o]) /\ F[o] \in Seq(Nat)
  BY <1>1, <1>4 DEF Lists
<1>7. Start(z) \in Nat /\ MetaStart(z) \in Nat /\ Start(z) <= MetaStart(z)
  BY Geometry
<1>8. Z \in [free : [Order(z) -> Seq(Nat)], alloced : SUBSET Nat, space : Nat]
  <2>1. MetaStart(z) - Start(z) \in Nat
    BY <1>7
  <2>. QED BY <1>3, <1>6, <2>1
<1>9. ASSUME NEW o \in Order(z), NEW i \in DOMAIN F[o] PROVE F[o][i] % 2^o = 0
  <2>1. F[o][i] \in ToSet(F[o])
    BY <1>6, Listed
  <2>2. o \in 0 .. h /\ F[o] = N[o]
    <3>1. h \in Nat
      BY <1>2 DEF Lists
    <3>. QED BY <1>1, <1>5, <3>1
  <2>3. F[o][i] \in Start(z) .. MetaStart(z) - 1 /\ InitOrder(z, F[o][i]) = o
    BY <1>2, <2>1, <2>2
  <2>4. Placeable(z, F[o][i], InitOrder(z, F[o][i]))
    BY <2>3, InitOrderIs
  <2>. QED BY <2>3, <2>4 DEF Placeable
<1>10. FreeTiles(z, Z) = ListTiles(F, t)
  BY <1>3 DEF FreeTiles, t
<1>11. Tiling(FreeTiles(z, Z) \cup {}, Start(z), MetaStart(z))
  <2>1. FreeTiles(z, Z) \cup {} = ListTiles(N, h)
    BY <1>4, <1>10
  <2>. QED BY <1>2, <2>1
<1>12. Z.space = ListSum(Z.free, TopOrder[z])
  BY <1>2, <1>3, <1>4 DEF t
<1>13. Z.alloced = {b[1] : b \in {}}
  BY <1>3
<1>14. \A o \in Order(z) : IsInjective(Z.free[o]) /\ \A i \in DOMAIN Z.free[o] : Z.free[o][i] % 2^o = 0
  BY <1>3, <1>6, <1>9
<1>15. ZoneInv(z, Z, {})
  BY <1>8, <1>11, <1>12, <1>13, <1>14 DEF ZoneInv
<1>. QED
  BY <1>15 DEF Z

-----------------------------------------------------------------------------
(* What the operations of a BuddyAllocator do to its lists.                *)

(* The parts of ZoneInv. *)
LEMMA ZoneParts ==
  ASSUME NEW z \in Zone, NEW Z, NEW B, ZoneInv(z, Z, B)
  PROVE  /\ Lists(Z.free, TopOrder[z]) /\ Z.free \in [Order(z) -> Seq(Nat)]
         /\ \A o \in Order(z) : /\ Z.free[o] \in Seq(Nat) /\ IsInjective(Z.free[o])
                                /\ \A x \in ToSet(Z.free[o]) : x \in Nat /\ x % 2^o = 0
         /\ \A b \in B : \E o \in Order(z) : b[2] = 2^o /\ b[1] % 2^o = 0
         /\ Tiling(FreeTiles(z, Z) \cup B, Start(z), MetaStart(z))
         /\ FreeTiles(z, Z) \cap B = {} /\ FreeTiles(z, Z) = ListTiles(Z.free, TopOrder[z])
         /\ \A b \in B : /\ b = <<b[1], b[2]>> /\ b[1] \in Nat /\ b[2] \in Nat \ {0}
                         /\ Start(z) <= b[1] /\ b[1] + b[2] <= MetaStart(z)
         /\ \A b, c \in B : b = c \/ Apart(b, c)
<1>1. Z.free \in [Order(z) -> Seq(Nat)]
  BY DEF ZoneInv
<1>2. \A o \in Order(z) : Z.free[o] \in Seq(Nat) /\ IsInjective(Z.free[o])
  BY <1>1 DEF ZoneInv
<1>3. Lists(Z.free, TopOrder[z])
  BY <1>1, <1>2, Orders DEF Lists
<1>4. ASSUME NEW o \in Order(z), NEW x \in ToSet(Z.free[o]) PROVE x \in Nat /\ x % 2^o = 0
  <2>1. x \in Nat /\ \E i \in DOMAIN Z.free[o] : Z.free[o][i] = x
    BY <1>2, Listed
  <2>. QED BY <2>1 DEF ZoneInv
<1>5. /\ \A b \in B : \E o \in Order(z) : b[2] = 2^o /\ b[1] % 2^o = 0
      /\ Tiling(FreeTiles(z, Z) \cup B, Start(z), MetaStart(z))
      /\ FreeTiles(z, Z) \cap B = {}
  BY DEF ZoneInv
<1>6. FreeTiles(z, Z) = ListTiles(Z.free, TopOrder[z])
  BY DEF FreeTiles
<1>7. /\ \A b \in B : /\ b = <<b[1], b[2]>> /\ b[1] \in Nat /\ b[2] \in Nat \ {0}
                      /\ Start(z) <= b[1] /\ b[1] + b[2] <= MetaStart(z)
      /\ \A b, c \in B : b = c \/ Apart(b, c)
  BY <1>5 DEF Tiling
<1>. QED
  BY <1>1, <1>2, <1>3, <1>4, <1>5, <1>6, <1>7

(* The half that is left over when the block of order j + 1 around a is    *)
(* split.                                                                  *)
Half(a, j) == Buddy(AlignDown(a, 2^j), j)
HalvesOf(a, o, t) == [j \in o .. t - 1 |-> Half(a, j)]

(* A node of order t around a can be split down to (a, o). *)
Splits(z, Z, a, o, t) ==
  /\ t \in Order(z) /\ o \in 0 .. t /\ a \in Nat /\ a % 2^o = 0
  /\ AlignDown(a, 2^t) \in ToSet(Z.free[t])

(* The half that a split leaves is aligned to its size. *)
LEMMA HalfIs ==
  ASSUME NEW a \in Nat, NEW j \in Nat
  PROVE  Half(a, j) \in Nat /\ Half(a, j) % 2^j = 0
<1>. DEFINE b == AlignDown(a, 2^j)
<1>1. 2^j \in Nat \ {0}
  <2>1. 2^j \in Nat /\ 2^j > 0
    BY Power
  <2>. QED BY <2>1
<1>2. b \in Nat /\ b % 2^j = 0
  BY <1>1, AlignDownIs
<1>. HIDE DEF b
<1>3. Buddy(b, j) = b + 2^j \/ (Buddy(b, j) = b - 2^j /\ b - 2^j \in Nat)
  BY <1>2, BuddyIs
<1>4. 2^j % 2^j = 0
  <2>1. 2^j = 2^j * 1
    BY <1>1
  <2>. QED BY <1>1, <2>1, Multiple
<1>5. (b + 2^j) % 2^j = 0 /\ (2^j <= b => (b - 2^j) % 2^j = 0)
  BY <1>1, <1>2, <1>4, Multiples
<1>6. b - 2^j \in Nat => 2^j <= b
  BY <1>1, <1>2
<1>7. b + 2^j \in Nat
  BY <1>1, <1>2
<1>8. Buddy(b, j) \in Nat /\ Buddy(b, j) % 2^j = 0
  BY ONLY <1>3, <1>5, <1>6, <1>7
<1>. QED
  BY <1>8 DEF Half, b

(* Its parts tile the node that goes, and are not on the lists. *)
LEMMA SplitFresh ==
  ASSUME NEW z \in Zone, NEW Z, NEW B, ZoneInv(z, Z, B), NEW a, NEW o, NEW t, Splits(z, Z, a, o, t)
  PROVE  /\ Tiling(((FreeTiles(z, Z) \cup B) \ {<<AlignDown(a, 2^t), 2^t>>}) \cup SplitTiles(a, o, t),
                   Start(z), MetaStart(z))
         /\ ((FreeTiles(z, Z) \cup B) \ {<<AlignDown(a, 2^t), 2^t>>}) \cap SplitTiles(a, o, t) = {}
         /\ <<AlignDown(a, 2^t), 2^t>> \in FreeTiles(z, Z)
         /\ <<a, 2^o>> \notin Halves(a, o, t)
         /\ \A j \in o .. t - 1 : Half(a, j) \notin ToSet(Z.free[j])
<1>. DEFINE h == TopOrder[z]
            n == AlignDown(a, 2^t)
            b == <<n, 2^t>>
            S == SplitTiles(a, o, t)
            T == FreeTiles(z, Z) \cup B
<1>1. /\ t \in Order(z) /\ o \in 0 .. t /\ a \in Nat /\ a % 2^o = 0 /\ n \in ToSet(Z.free[t])
      /\ o \in Nat /\ t \in Nat /\ o <= t /\ t \in 0 .. h
  BY Orders DEF Splits
<1>2. /\ Lists(Z.free, h) /\ FreeTiles(z, Z) = ListTiles(Z.free, h)
      /\ Tiling(T, Start(z), MetaStart(z))
  BY ZoneParts
<1>3. b \in FreeTiles(z, Z)
  <2>1. b \in ListTiles(Z.free, h)
    BY ONLY <1>1, <1>2, TileListed
  <2>. QED BY <1>2, <2>1
<1>4. Tiling(S, n, n + 2^t) /\ <<a, 2^o>> \notin Halves(a, o, t)
  BY <1>1, Splitting
<1>5. b[1] = n /\ b[2] = 2^t /\ b \in T
  BY <1>3
<1>6. Start(z) \in Nat /\ MetaStart(z) \in Nat
  BY Geometry
<1>. HIDE DEF T, S, n
<1>7. Tiling((T \ {b}) \cup S, Start(z), MetaStart(z)) /\ (T \ {b}) \cap S = {}
  <2>1. Tiling(S, b[1], b[1] + b[2])
    BY <1>4, <1>5
  <2>. HIDE DEF b
  <2>. QED BY ONLY <1>2, <1>5, <1>6, <2>1, TilingRefine
<1>8. ASSUME NEW j \in o .. t - 1 PROVE Half(a, j) \notin ToSet(Z.free[j])
  <2>. SUFFICES ASSUME Half(a, j) \in ToSet(Z.free[j]) PROVE FALSE
    OBVIOUS
  <2>1. j \in 0 .. h /\ j \in Nat /\ j # t
    BY <1>1, Orders
  <2>2. <<Half(a, j), 2^j>> \in ListTiles(Z.free, h)
    BY ONLY <1>2, <2>1, TileListed, Half(a, j) \in ToSet(Z.free[j])
  <2>3. <<Half(a, j), 2^j>> \in T
    BY <1>2, <2>2 DEF T
  <2>4. <<Half(a, j), 2^j>> \in S
    BY DEF S, SplitTiles, Halves, Half
  <2>5. <<Half(a, j), 2^j>> # b
    <3>1. 2^j # 2^t
      BY <1>1, <2>1, PowerLess
    <3>. QED BY <3>1
  <2>. QED BY <1>7, <2>3, <2>4, <2>5
<1>. QED
  BY <1>3, <1>4, <1>7, <1>8 DEF T, S, n

(* The zone after a node has been split and its part at a taken. *)
TakenZone(Z, M, a, o) == [free |-> M, alloced |-> Z.alloced \cup {a}, space |-> Z.space - 2^o]

(* A split that hands out <<a, 2^o>> keeps the zone tiled. *)
LEMMA ZoneTaken ==
  ASSUME NEW z \in Zone, NEW Z, NEW B, ZoneInv(z, Z, B), NEW a, NEW o, NEW t, Splits(z, Z, a, o, t),
         NEW M, OneSplit(Z.free, M, TopOrder[z], o, t, AlignDown(a, 2^t), HalvesOf(a, o, t))
  PROVE  ZoneInv(z, TakenZone(Z, M, a, o), B \cup {<<a, 2^o>>}) /\ <<a, 2^o>> \notin B
<1>. DEFINE h == TopOrder[z]
            n == AlignDown(a, 2^t)
            b == <<n, 2^t>>
            F == FreeTiles(z, Z)
            W == TakenZone(Z, M, a, o)
            x == <<a, 2^o>>
            H == Halves(a, o, t)
<1>1. /\ t \in Order(z) /\ o \in 0 .. t /\ a \in Nat /\ a % 2^o = 0 /\ n \in ToSet(Z.free[t])
      /\ o \in Nat /\ t \in Nat /\ o <= t /\ t \in 0 .. h /\ o \in Order(z) /\ h \in Nat
  BY Orders DEF Splits
<1>2. /\ W.free = M /\ W.alloced = Z.alloced \cup {a} /\ W.space = Z.space - 2^o
      /\ W = [free |-> M, alloced |-> Z.alloced \cup {a}, space |-> Z.space - 2^o]
  BY DEF TakenZone
<1>3. /\ Lists(M, h) /\ ListSum(M, h) = ListSum(Z.free, h) - 2^o
      /\ ListTiles(M, h) = (ListTiles(Z.free, h) \ {b}) \cup {<<HalvesOf(a, o, t)[j], 2^j>> : j \in o .. t - 1}
  BY Taken
<1>4. FreeTiles(z, W) = (F \ {b}) \cup H
  <2>1. \A j \in o .. t - 1 : HalvesOf(a, o, t)[j] = Half(a, j)
    BY DEF HalvesOf
  <2>2. {<<HalvesOf(a, o, t)[j], 2^j>> : j \in o .. t - 1} = H
    BY <2>1 DEF Halves, Half
  <2>3. FreeTiles(z, W) = ListTiles(M, h) /\ F = ListTiles(Z.free, h)
    BY <1>2 DEF FreeTiles
  <2>. HIDE DEF H, F, W, b
  <2>. QED BY <1>3, <2>2, <2>3
<1>5. /\ Tiling(((F \cup B) \ {b}) \cup SplitTiles(a, o, t), Start(z), MetaStart(z))
      /\ ((F \cup B) \ {b}) \cap SplitTiles(a, o, t) = {}
      /\ b \in F /\ x \notin H
      /\ SplitTiles(a, o, t) = H \cup {x}
  BY SplitFresh DEF SplitTiles
<1>6. F \cap B = {} /\ b \notin B
  <2>1. F \cap B = {}
    BY ZoneParts
  <2>. HIDE DEF F, b
  <2>. QED BY <1>5, <2>1
<1>. HIDE DEF F, H, x, b, W
<1>7. FreeTiles(z, W) \cup (B \cup {x}) = ((F \cup B) \ {b}) \cup SplitTiles(a, o, t)
  BY <1>4, <1>5, <1>6
<1>8. FreeTiles(z, W) \cap (B \cup {x}) = {} /\ x \notin B
  BY <1>4, <1>5, <1>6
<1>9. M \in [Order(z) -> Seq(Nat)] /\ \A j \in Order(z) : IsInjective(M[j]) /\ M[j] \in Seq(Nat)
  BY <1>3, Orders DEF Lists
<1>10. ASSUME NEW j \in Order(z), NEW i \in DOMAIN M[j] PROVE M[j][i] % 2^j = 0
  <2>1. M[j][i] \in ToSet(M[j])
    BY <1>9, Listed
  <2>2. \A y \in ToSet(Z.free[j]) : y % 2^j = 0
    BY ZoneParts
  <2>3. j \in Nat /\ j \in 0 .. h /\ j <= h
    BY Orders
  <2>4. CASE j \in o .. t - 1
    <3>1. Added(Z.free[j], M[j], HalvesOf(a, o, t)[j])
      BY <2>4 DEF OneSplit
    <3>2. HalvesOf(a, o, t)[j] = Half(a, j)
      BY <2>4 DEF HalvesOf
    <3>3. M[j][i] \in ToSet(Z.free[j]) \/ M[j][i] = Half(a, j)
      BY <2>1, <3>1, <3>2 DEF Added
    <3>4. Half(a, j) % 2^j = 0
      BY <1>1, <2>3, HalfIs
    <3>. QED BY <2>2, <3>3, <3>4
  <2>5. CASE j = t
    <3>1. Removed(Z.free[t], M[t], n)
      BY DEF OneSplit
    <3>. QED BY <2>1, <2>2, <2>5, <3>1 DEF Removed
  <2>6. CASE j \notin o .. t
    <3>1. M[j] = Z.free[j]
      BY <2>3, <2>6 DEF OneSplit
    <3>. QED BY <2>1, <2>2, <3>1
  <2>7. j \in o .. t - 1 \/ j = t \/ j \notin o .. t
    BY <1>1, <2>3
  <2>. QED BY <2>4, <2>5, <2>6, <2>7
<1>11. Z.alloced \subseteq Nat /\ Z.alloced = {y[1] : y \in B} /\ Z.space = ListSum(Z.free, h)
  BY DEF ZoneInv
<1>12. W.space = ListSum(M, h) /\ W.space \in Nat
  <2>1. ListSum(M, h) \in Nat
    BY <1>3, ListTerms
  <2>. QED BY <1>2, <1>3, <1>11, <2>1
<1>13. W \in [free : [Order(z) -> Seq(Nat)], alloced : SUBSET Nat, space : Nat]
  BY <1>1, <1>2, <1>9, <1>11, <1>12
<1>14. W.alloced = {y[1] : y \in B \cup {x}}
  <2>1. x[1] = a
    BY DEF x
  <2>. QED BY <1>2, <1>11, <2>1
<1>15. \A y \in B \cup {x} : \E j \in Order(z) : y[2] = 2^j /\ y[1] % 2^j = 0
  <2>1. x[1] = a /\ x[2] = 2^o
    BY DEF x
  <2>2. \A y \in B : \E j \in Order(z) : y[2] = 2^j /\ y[1] % 2^j = 0
    BY ZoneParts
  <2>. QED BY <1>1, <2>1, <2>2
<1>16. Tiling(FreeTiles(z, W) \cup (B \cup {x}), Start(z), MetaStart(z))
  BY <1>5, <1>7
<1>17. \A j \in Order(z) : IsInjective(W.free[j]) /\ \A i \in DOMAIN W.free[j] : W.free[j][i] % 2^j = 0
  BY <1>2, <1>9, <1>10
<1>18. W.space = ListSum(W.free, TopOrder[z])
  BY <1>2, <1>12
<1>19. ZoneInv(z, W, B \cup {x})
  BY <1>8, <1>13, <1>14, <1>15, <1>16, <1>17, <1>18 DEF ZoneInv
<1>. QED
  BY <1>8, <1>19 DEF W, x

(* A block that the zone gives out is aligned and inside, and was not in   *)
(* use.                                                                    *)
Given(z, B, a, o) ==
  /\ o \in Order(z) /\ a \in Nat /\ a % 2^o = 0 /\ Start(z) <= a /\ a + 2^o <= MetaStart(z)
  /\ <<a, 2^o>> \notin B

(* What is in use in a tiled zone lies inside it. *)
LEMMA TakenInside ==
  ASSUME NEW z \in Zone, NEW W, NEW B, NEW a \in Nat, NEW o \in Order(z), a % 2^o = 0,
         ZoneInv(z, W, B \cup {<<a, 2^o>>}), <<a, 2^o>> \notin B
  PROVE  Given(z, B, a, o)
<1>. DEFINE x == <<a, 2^o>>
            C == B \cup {x}
<1>1. x \in C /\ x[1] = a /\ x[2] = 2^o /\ ZoneInv(z, W, C)
  OBVIOUS
<1>. HIDE DEF x, C
<1>2. Start(z) <= x[1] /\ x[1] + x[2] <= MetaStart(z)
  BY <1>1, ZoneParts
<1>. QED
  BY <1>1, <1>2 DEF Given

(* oalloc: the first node of the lowest order that has one is split. *)
LEMMA OAllocInv ==
  ASSUME NEW z \in Zone, NEW Z, NEW B, ZoneInv(z, Z, B), NEW o \in Nat, Splittable(z, Z, o) # {}
  PROVE  /\ ZoneInv(z, OAlloc(z, Z, o), B \cup {<<OAllocAddr(z, Z, o), 2^o>>})
         /\ Given(z, B, OAllocAddr(z, Z, o), o)
<1>. DEFINE K == Splittable(z, Z, o)
            k == SplitFrom(z, Z, o)
            a == OAllocAddr(z, Z, o)
            h == TopOrder[z]
            M == [j \in Order(z) |->
                    IF j = k THEN Tail(Z.free[j])
                    ELSE IF j \in o .. k - 1 THEN <<Buddy(a, j)>> \o Z.free[j]
                    ELSE Z.free[j]]
<1>1. /\ k \in Order(z) /\ k \in Nat /\ o <= k /\ Z.free[k] # << >> /\ Order(z) = 0 .. h
      /\ h \in Nat /\ 0 .. k \subseteq Order(z)
  <2>1. K \subseteq Nat /\ Order(z) = 0 .. h
    BY Orders DEF Splittable
  <2>2. \E x \in K : \A y \in K : x <= y
    <3>. HIDE DEF K
    <3>. QED BY <2>1, Least DEF K
  <2>3. k \in K
    BY <2>2 DEF SplitFrom
  <2>4. h \in Nat
    BY Orders
  <2>. HIDE DEF k, h
  <2>5. k \in Order(z) /\ k >= o /\ Z.free[k] # << >>
    BY <2>3 DEF Splittable
  <2>. QED BY <2>1, <2>4, <2>5
<1>2. /\ \A j \in Order(z) : /\ Z.free[j] \in Seq(Nat) /\ IsInjective(Z.free[j])
                             /\ \A x \in ToSet(Z.free[j]) : x \in Nat /\ x % 2^j = 0
      /\ Lists(Z.free, h)
  BY ZoneParts
<1>3. a = Head(Z.free[k])
  BY DEF OAllocAddr
<1>4. OAlloc(z, Z, o) = TakenZone(Z, M, a, o)
  BY <1>3 DEF OAlloc, TakenZone
<1>. HIDE DEF k, a
<1>5. Removed(Z.free[k], Tail(Z.free[k]), a)
  BY <1>1, <1>2, <1>3, HeadRemoved
<1>6. a \in ToSet(Z.free[k]) /\ a \in Nat /\ a % 2^k = 0
  <2>1. a \in ToSet(Z.free[k])
    BY <1>5 DEF Removed
  <2>. QED BY <1>1, <1>2, <2>1
<1>7. \A j \in 0 .. k : 2^j \in Nat \ {0} /\ a % 2^j = 0 /\ AlignDown(a, 2^j) = a
  <2>. TAKE j \in 0 .. k
  <2>1. 2^j \in Nat \ {0} /\ a % 2^j = 0
    BY <1>1, <1>6, PowerMultiple, Orders
  <2>2. AlignDown(a, 2^j) = a
    <3>1. a <= a /\ a < a + 2^j
      BY <1>6, <2>1
    <3>. QED BY <1>6, <2>1, <3>1, AlignDownIs
  <2>. QED BY <2>1, <2>2
<1>8. Splits(z, Z, a, o, k)
  <2>1. o \in 0 .. k /\ k \in 0 .. k
    BY <1>1
  <2>2. AlignDown(a, 2^k) = a /\ a % 2^o = 0
    BY <1>7, <2>1
  <2>. QED BY <1>1, <1>6, <2>1, <2>2 DEF Splits
<1>9. \A j \in o .. k - 1 : Half(a, j) \in Nat /\ Half(a, j) \notin ToSet(Z.free[j]) /\ Half(a, j) = Buddy(a, j)
  <2>. TAKE j \in o .. k - 1
  <2>1. Half(a, j) \notin ToSet(Z.free[j])
    BY <1>8, SplitFresh
  <2>2. j \in Nat /\ j \in 0 .. k
    BY <1>1
  <2>3. Half(a, j) \in Nat
    BY <1>6, <2>2, HalfIs
  <2>4. AlignDown(a, 2^j) = a
    BY <1>7, <2>2
  <2>5. Half(a, j) = Buddy(a, j)
    BY <2>4 DEF Half
  <2>. QED BY <2>1, <2>3, <2>5
<1>10. /\ M[k] = Tail(Z.free[k])
       /\ \A j \in o .. k - 1 : M[j] = <<Half(a, j)>> \o Z.free[j]
       /\ \A j \in Order(z) : j \notin o .. k => M[j] = Z.free[j]
  <2>1. \A j \in o .. k - 1 : j # k /\ j \in Order(z)
    BY <1>1
  <2>2. \A j \in Order(z) : j \notin o .. k => j # k /\ j \notin o .. k - 1
    BY <1>1
  <2>3. \A j \in o .. k - 1 : M[j] = <<Half(a, j)>> \o Z.free[j]
    BY <1>9, <2>1
  <2>. QED BY <1>1, <2>2, <2>3
<1>11. \A j \in o .. k - 1 : Added(Z.free[j], M[j], Half(a, j))
  <2>. TAKE j \in o .. k - 1
  <2>1. j \in Order(z)
    BY <1>1
  <2>. HIDE DEF M
  <2>2. Added(Z.free[j], <<Half(a, j)>> \o Z.free[j], Half(a, j))
    BY <1>2, <1>9, <2>1, FrontAdded
  <2>. QED BY <1>10, <2>2
<1>12. M \in [Order(z) -> Seq(Nat)]
  <2>1. ASSUME NEW j \in Order(z) PROVE M[j] \in Seq(Nat)
    <3>1. j \in o .. k - 1 \/ j = k \/ j \notin o .. k
      BY <1>1
    <3>2. M[k] \in Seq(Nat)
      BY <1>5, <1>10 DEF Removed
    <3>3. \A i \in o .. k - 1 : M[i] \in Seq(Nat)
      BY <1>11 DEF Added
    <3>. HIDE DEF M
    <3>. QED BY <1>2, <1>10, <3>1, <3>2, <3>3
  <2>. QED BY <2>1
<1>. HIDE DEF M
<1>13. OneSplit(Z.free, M, h, o, k, AlignDown(a, 2^k), HalvesOf(a, o, k))
  <2>1. AlignDown(a, 2^k) = a
    <3>1. k \in 0 .. k
      BY <1>1
    <3>. QED BY <1>7, <3>1
  <2>2. \A j \in o .. k - 1 : HalvesOf(a, o, k)[j] = Half(a, j)
    BY DEF HalvesOf
  <2>3. Removed(Z.free[k], M[k], AlignDown(a, 2^k))
    BY <1>5, <1>10, <2>1
  <2>4. \A j \in o .. k - 1 : Added(Z.free[j], M[j], HalvesOf(a, o, k)[j])
    BY <1>11, <2>2
  <2>5. k \in 0 .. h /\ o \in 0 .. k /\ M \in [0 .. h -> Seq(Nat)]
    BY <1>1, <1>12
  <2>6. \A j \in 0 .. h : j \notin o .. k => M[j] = Z.free[j]
    BY <1>1, <1>10
  <2>. QED BY <1>2, <2>3, <2>4, <2>5, <2>6 DEF OneSplit
<1>14. ZoneInv(z, TakenZone(Z, M, a, o), B \cup {<<a, 2^o>>}) /\ <<a, 2^o>> \notin B
  BY <1>8, <1>13, ZoneTaken
<1>15. o \in Order(z) /\ a % 2^o = 0
  BY <1>1, <1>7
<1>16. Given(z, B, a, o)
  BY <1>6, <1>14, <1>15, TakenInside
<1>. QED
  BY <1>4, <1>14, <1>16 DEF a

(* oalloc_at: a node of the zone around a is split towards a. *)
LEMMA OAllocAtInv ==
  ASSUME NEW z \in Zone, NEW Z, NEW B, ZoneInv(z, Z, B), NEW a \in Nat, NEW o \in Nat, a % 2^o = 0,
         SplitTop(z, Z, a, o) \in Order(z), o <= SplitTop(z, Z, a, o),
         AllocAtNode(z, Z, a, o).addr \in ToSet(Z.free[SplitTop(z, Z, a, o)])
  PROVE  /\ ZoneInv(z, OAllocAt(z, Z, a, o), B \cup {<<a, 2^o>>})
         /\ Given(z, B, a, o)
<1>. DEFINE k == SplitTop(z, Z, a, o)
            h == TopOrder[z]
            n == AlignDown(a, 2^k)
            M == [j \in Order(z) |->
                    IF j = k THEN Without(Z.free[j], n)
                    ELSE IF j \in o .. k - 1 THEN Append(Z.free[j], Half(a, j))
                    ELSE Z.free[j]]
<1>1. /\ k \in Order(z) /\ k \in Nat /\ o <= k /\ Order(z) = 0 .. h /\ o \in 0 .. k
      /\ h \in Nat /\ 0 .. k \subseteq Order(z)
  <2>1. k \in Order(z) /\ k \in Nat /\ o <= k /\ Order(z) = 0 .. h /\ h \in Nat
    BY Orders
  <2>. HIDE DEF k, h
  <2>. QED BY <2>1
<1>2. /\ \A j \in Order(z) : Z.free[j] \in Seq(Nat) /\ IsInjective(Z.free[j])
      /\ Lists(Z.free, h)
  BY ZoneParts
<1>3. /\ AllocAtNode(z, Z, a, o).addr = n /\ AllocAtNode(z, Z, a, o).order = k
      /\ n \in ToSet(Z.free[k])
  BY DEF AllocAtNode
<1>4. OAllocAt(z, Z, a, o) = TakenZone(Z, M, a, o)
  BY <1>3 DEF OAllocAt, TakenZone, Half
<1>. HIDE DEF k
<1>5. Removed(Z.free[k], Without(Z.free[k], n), n)
  BY <1>1, <1>2, <1>3, NodeRemoved
<1>8. Splits(z, Z, a, o, k)
  BY <1>1, <1>3 DEF Splits
<1>. HIDE DEF n
<1>9. \A j \in o .. k - 1 : Half(a, j) \in Nat /\ Half(a, j) \notin ToSet(Z.free[j])
  <2>. TAKE j \in o .. k - 1
  <2>1. Half(a, j) \notin ToSet(Z.free[j])
    BY <1>8, SplitFresh
  <2>2. j \in Nat
    BY <1>1
  <2>3. Half(a, j) \in Nat
    BY <2>2, HalfIs
  <2>. QED BY <2>1, <2>3
<1>10. /\ M[k] = Without(Z.free[k], n)
       /\ \A j \in o .. k - 1 : M[j] = Append(Z.free[j], Half(a, j))
       /\ \A j \in Order(z) : j \notin o .. k => M[j] = Z.free[j]
  <2>1. \A j \in o .. k - 1 : j # k /\ j \in Order(z)
    BY <1>1
  <2>2. \A j \in Order(z) : j \notin o .. k => j # k /\ j \notin o .. k - 1
    BY <1>1
  <2>3. \A j \in o .. k - 1 : M[j] = Append(Z.free[j], Half(a, j))
    BY <2>1
  <2>. QED BY <1>1, <2>2, <2>3
<1>11. \A j \in o .. k - 1 : Added(Z.free[j], M[j], Half(a, j))
  <2>. TAKE j \in o .. k - 1
  <2>1. j \in Order(z)
    BY <1>1
  <2>. HIDE DEF M
  <2>2. Added(Z.free[j], Append(Z.free[j], Half(a, j)), Half(a, j))
    BY <1>2, <1>9, <2>1, EndAdded
  <2>. QED BY <1>10, <2>2
<1>12. M \in [Order(z) -> Seq(Nat)]
  <2>1. ASSUME NEW j \in Order(z) PROVE M[j] \in Seq(Nat)
    <3>1. j \in o .. k - 1 \/ j = k \/ j \notin o .. k
      BY <1>1
    <3>2. M[k] \in Seq(Nat)
      BY <1>5, <1>10 DEF Removed
    <3>3. \A i \in o .. k - 1 : M[i] \in Seq(Nat)
      BY <1>11 DEF Added
    <3>. HIDE DEF M
    <3>. QED BY <1>2, <1>10, <3>1, <3>2, <3>3
  <2>. QED BY <2>1
<1>. HIDE DEF M
<1>13. OneSplit(Z.free, M, h, o, k, n, HalvesOf(a, o, k))
  <2>2. \A j \in o .. k - 1 : HalvesOf(a, o, k)[j] = Half(a, j)
    BY DEF HalvesOf
  <2>3. Removed(Z.free[k], M[k], n)
    BY <1>5, <1>10
  <2>4. \A j \in o .. k - 1 : Added(Z.free[j], M[j], HalvesOf(a, o, k)[j])
    BY <1>11, <2>2
  <2>5. k \in 0 .. h /\ o \in 0 .. k /\ M \in [0 .. h -> Seq(Nat)]
    BY <1>1, <1>12
  <2>6. \A j \in 0 .. h : j \notin o .. k => M[j] = Z.free[j]
    BY <1>1, <1>10
  <2>. QED BY <1>2, <2>3, <2>4, <2>5, <2>6 DEF OneSplit
<1>14. ZoneInv(z, TakenZone(Z, M, a, o), B \cup {<<a, 2^o>>}) /\ <<a, 2^o>> \notin B
  BY <1>8, <1>13, ZoneTaken DEF n
<1>15. o \in Order(z)
  BY <1>1
<1>16. Given(z, B, a, o)
  BY <1>14, <1>15, TakenInside
<1>. QED
  BY <1>4, <1>14, <1>16

(* insert_node joins nothing: a buddy above a block is above the start of  *)
(* the zone too.                                                           *)
LEMMA JoinsNothing ==
  ASSUME NEW z \in Zone, NEW Z, NEW a \in Nat, NEW o \in Order(z), Start(z) <= a
  PROVE  JoinOrder(z, Z, a, o) = o
<1>. DEFINE joins(j) == LET b == Buddy(a, j)
                        IN /\ j < TopOrder[z] /\ b > a /\ b <= Start(z) /\ b + 2^j <= MetaStart(z)
                           /\ ~IsAlloced(z, Z, b) /\ b \in ToSet(Z.free[j])
            Good(t) == (\A j \in o .. t - 1 : joins(j)) /\ ~joins(t)
            J == JoinOrder(z, Z, a, o)
<1>1. o \in Nat /\ TopOrder[z] \in Nat /\ o <= TopOrder[z] /\ Start(z) \in Nat
  BY Orders, Geometry
<1>2. J = CHOOSE t \in o .. TopOrder[z] : Good(t)
  BY DEF JoinOrder
<1>3. ASSUME NEW j \in Nat PROVE ~joins(j)
  <2>1. 2^j \in Nat
    BY Power
  <2>2. Buddy(a, j) \in Int
    BY <2>1 DEF Buddy
  <2>. DEFINE b == Buddy(a, j)
  <2>3. ~ (b > a /\ b <= Start(z))
    <3>. HIDE DEF b
    <3>1. b \in Int
      BY <2>2 DEF b
    <3>. QED BY <1>1, <3>1
  <2>. QED BY <2>3
<1>. HIDE DEF joins
<1>4. Good(o) /\ o \in o .. TopOrder[z]
  BY <1>1, <1>3
<1>5. J \in o .. TopOrder[z] /\ Good(J)
  <2>. HIDE DEF Good, J
  <2>. QED BY <1>2, <1>4
<1>6. J \in Nat /\ o <= J
  BY <1>1, <1>5
<1>. HIDE DEF J
<1>7. ASSUME J # o PROVE FALSE
  <2>1. o \in o .. J - 1
    BY <1>1, <1>6, <1>7
  <2>. QED BY <1>1, <1>3, <1>5, <2>1
<1>. QED
  BY <1>7 DEF J

(* dealloc *)
LEMMA DeallocInv ==
  ASSUME NEW z \in Zone, NEW Z, NEW B, ZoneInv(z, Z, B), NEW a \in Nat, NEW o \in Nat, <<a, 2^o>> \in B
  PROVE  ZoneInv(z, Dealloc(z, Z, a, o), B \ {<<a, 2^o>>})
<1>. DEFINE h == TopOrder[z]
            x == <<a, 2^o>>
            C == B \ {x}
            F == FreeTiles(z, Z)
            M == [j \in Order(z) |->
                    IF j = o THEN <<a>> \o Z.free[j]
                    ELSE IF j \in o .. o - 1 THEN Without(Z.free[j], Buddy(a, j))
                    ELSE Z.free[j]]
            W == [free |-> M, alloced |-> Z.alloced \ {a}, space |-> Z.space + 2^o]
<1>1. x[1] = a /\ x[2] = 2^o /\ x \in B
  OBVIOUS
<1>2. o \in Order(z) /\ a % 2^o = 0 /\ o \in 0 .. h /\ h \in Nat /\ Order(z) = 0 .. h
  <2>1. PICK p \in Order(z) : x[2] = 2^p /\ x[1] % 2^p = 0
    <3>1. \A b \in B : \E p \in Order(z) : b[2] = 2^p /\ b[1] % 2^p = 0
      BY ZoneParts
    <3>. HIDE DEF x
    <3>. QED BY <1>1, <3>1
  <2>2. p \in Nat /\ Order(z) = 0 .. h /\ h \in Nat
    BY Orders
  <2>3. o = p
    BY <1>1, <2>1, <2>2, PowerLess
  <2>. QED BY <1>1, <2>1, <2>2, <2>3
<1>3. Start(z) <= a
  <2>1. \A b \in B : Start(z) <= b[1]
    BY ZoneParts
  <2>. QED BY <1>1, <2>1
<1>4. /\ Z.free \in [Order(z) -> Seq(Nat)] /\ Z.alloced \in SUBSET Nat /\ Z.space \in Nat
      /\ Z = [free |-> Z.free, alloced |-> Z.alloced, space |-> Z.space]
      /\ Z.alloced = {y[1] : y \in B} /\ Z.space = ListSum(Z.free, h)
  <2>1. Z \in [free : [Order(z) -> Seq(Nat)], alloced : SUBSET Nat, space : Nat]
    BY DEF ZoneInv
  <2>. QED BY <2>1 DEF ZoneInv
<1>5. Dealloc(z, Z, a, o) = W
  <2>. DEFINE Y == [Z EXCEPT !.alloced = @ \ {a}, !.space = @ + 2^o]
  <2>1. Y = [free |-> Z.free, alloced |-> Z.alloced \ {a}, space |-> Z.space + 2^o] /\ Y.free = Z.free
    <3>. DEFINE f == Z.free
                s == Z.alloced
                n == Z.space
    <3>1. Z = [free |-> f, alloced |-> s, space |-> n] /\ s = Z.alloced /\ n = Z.space /\ f = Z.free
      BY <1>4
    <3>. HIDE DEF f, s, n
    <3>2. [Z EXCEPT !.alloced = s \ {a}, !.space = n + 2^o] = [free |-> f, alloced |-> s \ {a}, space |-> n + 2^o]
      <4>1. Z = [free |-> f, alloced |-> s, space |-> n]
        BY <3>1
      <4>. DEFINE V == [Z EXCEPT !.alloced = s \ {a}]
      <4>2. V = [free |-> f, alloced |-> s \ {a}, space |-> n]
        BY ONLY <4>1
      <4>. HIDE DEF V
      <4>3. [V EXCEPT !.space = n + 2^o] = [free |-> f, alloced |-> s \ {a}, space |-> n + 2^o]
        BY ONLY <4>2
      <4>. QED BY ONLY <4>3 DEF V
    <3>3. Y = [Z EXCEPT !.alloced = s \ {a}, !.space = n + 2^o]
      BY ONLY <3>1
    <3>. HIDE DEF Y
    <3>. QED BY ONLY <3>1, <3>2, <3>3
  <2>2. Dealloc(z, Z, a, o) = InsertNode(z, Y, a, o)
    BY DEF Dealloc
  <2>. HIDE DEF Y
  <2>3. JoinOrder(z, Y, a, o) = o
    BY <1>2, <1>3, JoinsNothing
  <2>4. InsertNode(z, Y, a, o) = [Y EXCEPT !.free = M]
    BY <2>1, <2>3 DEF InsertNode
  <2>. HIDE DEF M
  <2>5. [Y EXCEPT !.free = M] = W
    BY <2>1
  <2>. QED BY <2>2, <2>4, <2>5
<1>6. /\ Lists(Z.free, h) /\ F = ListTiles(Z.free, h) /\ Tiling(F \cup B, Start(z), MetaStart(z)) /\ F \cap B = {}
      /\ \A j \in Order(z) : Z.free[j] \in Seq(Nat) /\ IsInjective(Z.free[j])
  BY ZoneParts
<1>7. a \notin ToSet(Z.free[o])
  <2>. SUFFICES ASSUME a \in ToSet(Z.free[o]) PROVE FALSE
    OBVIOUS
  <2>1. x \in ListTiles(Z.free, h)
    BY ONLY <1>2, <1>6, TileListed, a \in ToSet(Z.free[o])
  <2>. QED BY <1>1, <1>6, <2>1
<1>8. Added(Z.free[o], <<a>> \o Z.free[o], a)
  BY <1>2, <1>6, <1>7, FrontAdded
<1>9. M[o] = <<a>> \o Z.free[o] /\ \A j \in Order(z) : j # o => M[j] = Z.free[j]
  <2>1. \A j \in Order(z) : j \notin o .. o - 1
    BY <1>2
  <2>. QED BY <1>2, <2>1
<1>10. M \in [Order(z) -> Seq(Nat)]
  <2>1. ASSUME NEW j \in Order(z) PROVE M[j] \in Seq(Nat)
    <3>. HIDE DEF M
    <3>1. <<a>> \o Z.free[o] \in Seq(Nat)
      BY <1>8 DEF Added
    <3>. QED BY <1>6, <1>9, <3>1
  <2>. QED BY <2>1
<1>11. W.free = M /\ W.alloced = Z.alloced \ {a} /\ W.space = Z.space + 2^o
  OBVIOUS
<1>12. W \in [free : [Order(z) -> Seq(Nat)], alloced : SUBSET Nat, space : Nat]
  <2>1. 2^o \in Nat
    BY Power
  <2>2. Z.space + 2^o \in Nat /\ Z.alloced \ {a} \in SUBSET Nat
    BY <1>4, <2>1
  <2>. HIDE DEF M
  <2>. QED BY <1>10, <2>2
<1>. HIDE DEF M, W
<1>13. /\ Lists(M, h) /\ ListTiles(M, h) = ListTiles(Z.free, h) \cup {x}
       /\ ListSum(M, h) = ListSum(Z.free, h) + 2^o
  <2>1. Added(Z.free[o], M[o], a)
    BY <1>8, <1>9
  <2>2. OneMore(Z.free, M, h, o, a)
    BY <1>2, <1>6, <1>9, <1>10, <2>1 DEF OneMore
  <2>. QED BY ONLY <2>2, Pushed
<1>14. FreeTiles(z, W) = F \cup {x}
  <2>1. FreeTiles(z, W) = ListTiles(M, h)
    BY <1>11 DEF FreeTiles
  <2>. QED BY <1>6, <1>13, <2>1
<1>. HIDE DEF F, x, C
<1>15. FreeTiles(z, W) \cup C = F \cup B /\ FreeTiles(z, W) \cap C = {}
  BY <1>1, <1>6, <1>14 DEF C
<1>16. W.alloced = {y[1] : y \in C}
  <2>1. ASSUME NEW y \in B, y[1] = a PROVE y = x
    <3>1. y[2] \in Nat \ {0} /\ x[2] \in Nat \ {0}
      BY <1>1, ZoneParts
    <3>2. y = x \/ Apart(y, x)
      BY <1>1, ZoneParts
    <3>. QED BY <1>1, <2>1, <3>1, <3>2 DEF Apart
  <2>. QED BY <1>1, <1>4, <1>11, <2>1 DEF C
<1>17. ASSUME NEW j \in Order(z), NEW i \in DOMAIN M[j] PROVE M[j][i] % 2^j = 0
  <2>1. M[j] \in Seq(Nat)
    BY <1>10
  <2>2. M[j][i] \in ToSet(M[j])
    BY <2>1, Listed
  <2>3. M[j][i] \in ToSet(Z.free[j]) \/ (j = o /\ M[j][i] = a)
    BY <1>8, <1>9, <2>2 DEF Added
  <2>4. \A y \in ToSet(Z.free[j]) : y % 2^j = 0
    BY ZoneParts
  <2>. QED BY <1>2, <2>3, <2>4
<1>18. \A j \in Order(z) : IsInjective(W.free[j]) /\ \A i \in DOMAIN W.free[j] : W.free[j][i] % 2^j = 0
  <2>1. \A j \in Order(z) : IsInjective(M[j])
    BY <1>2, <1>13 DEF Lists
  <2>. QED BY <1>11, <1>17, <2>1
<1>19. W.space = ListSum(W.free, TopOrder[z])
  BY <1>4, <1>11, <1>13
<1>20. \A y \in C : \E j \in Order(z) : y[2] = 2^j /\ y[1] % 2^j = 0
  <2>1. \A y \in B : \E j \in Order(z) : y[2] = 2^j /\ y[1] % 2^j = 0
    BY ZoneParts
  <2>. QED BY <2>1 DEF C
<1>21. Tiling(FreeTiles(z, W) \cup C, Start(z), MetaStart(z))
  BY <1>6, <1>15
<1>22. ZoneInv(z, W, C)
  BY <1>12, <1>15, <1>16, <1>18, <1>19, <1>20, <1>21 DEF ZoneInv
<1>. QED
  BY <1>5, <1>22 DEF C, x

(* Every page of a new zone is in a node, the one that init_orders placed. *)
LEMMA PlacedAt ==
  ASSUME NEW z \in Zone, NEW p \in Start(z) .. MetaStart(z) - 1
  PROVE  \E k \in Order(z) : /\ AlignDown(p, 2^k) \in ToSet(InitNodes[z][k])
                             /\ AlignDown(p, 2^k) \in Start(z) .. MetaStart(z) - 1
                             /\ InitOrder(z, AlignDown(p, 2^k)) = k
<1>. DEFINE N == InitNodes[z]
            h == MaxOrder - 1
<1>1. /\ Lists(N, h) /\ Tiling(ListTiles(N, h), Start(z), MetaStart(z))
      /\ \A o \in 0 .. h : \A b \in ToSet(N[o]) : b \in Start(z) .. MetaStart(z) - 1 /\ InitOrder(z, b) = o
  BY InitLaid DEF Laid
<1>2. /\ TopOrder[z] \in 0 .. h /\ Order(z) = 0 .. TopOrder[z] /\ h \in Nat
      /\ \A o \in TopOrder[z] + 1 .. h : N[o] = << >>
  BY <1>1, TopOrderIs, Orders DEF Lists
<1>. HIDE DEF N, h
<1>3. PICK t \in ListTiles(N, h) : Covers(t, p)
  BY <1>1 DEF Tiling
<1>4. PICK k \in 0 .. h : t \in {<<a, 2^k>> : a \in ToSet(N[k])}
  BY DEF ListTiles
<1>5. PICK a \in ToSet(N[k]) : t = <<a, 2^k>>
  BY <1>4
<1>6. a \in Start(z) .. MetaStart(z) - 1 /\ InitOrder(z, a) = k
  BY <1>1
<1>7. a % 2^k = 0
  BY <1>6, InitOrderIs DEF Placeable
<1>8. a \in Nat /\ p \in Nat /\ k \in Nat
  BY <1>2, <1>6, Geometry
<1>9. a <= p /\ p < a + 2^k
  BY <1>3, <1>5 DEF Covers
<1>10. a = AlignDown(p, 2^k)
  <2>1. 2^k \in Nat \ {0}
    <3>1. 2^k \in Nat /\ 2^k > 0
      BY <1>8, Power
    <3>. QED BY <3>1
  <2>. QED BY <1>7, <1>8, <1>9, <2>1, AlignDownIs
<1>11. k \in Order(z)
  <2>. SUFFICES ASSUME k \notin Order(z) PROVE FALSE
    OBVIOUS
  <2>1. k \in TopOrder[z] + 1 .. h
    BY <1>2, <1>8
  <2>2. N[k] = << >>
    BY <1>2, <2>1
  <2>. QED BY <2>2 DEF ToSet
<1>. QED
  BY <1>6, <1>10, <1>11 DEF N

(* The block of order k + 1 around a node of order k is not in the zone,   *)
(* or init_orders would have placed it.                                    *)
LEMMA PlacedLargest ==
  ASSUME NEW z \in Zone, NEW p \in Start(z) .. MetaStart(z) - 1, NEW k \in Order(z),
         AlignDown(p, 2^k) \in ToSet(InitNodes[z][k]),
         InitOrder(z, AlignDown(p, 2^k)) = k
  PROVE  ~ UContains(z, Buddy(AlignDown(p, 2^k), k), 2^k)
<1>. DEFINE a == AlignDown(p, 2^k)
            c == AlignDown(p, 2^(k + 1))
            s == Start(z)
            e == MetaStart(z)
            N == InitNodes[z]
            h == MaxOrder - 1
<1>. SUFFICES ASSUME UContains(z, Buddy(a, k), 2^k) PROVE FALSE
  OBVIOUS
<1>1. s \in Nat /\ e \in Nat /\ s <= e /\ k \in Nat /\ k + 1 \in Nat /\ p \in Nat
  BY Geometry, Orders
<1>2. 2^k \in Nat \ {0} /\ 2^(k + 1) \in Nat \ {0} /\ 2^(k + 1) = 2^k + 2^k
  <2>1. 2^k \in Nat /\ 2^k > 0 /\ 2^(k + 1) \in Nat /\ 2^(k + 1) = 2 * 2^k
    BY <1>1, Power
  <2>. QED BY <2>1
<1>3. a \in Nat /\ a % 2^k = 0 /\ a <= p /\ p < a + 2^k
  BY <1>1, <1>2, AlignDownIs
<1>4. c \in Nat /\ c % 2^(k + 1) = 0 /\ c <= p /\ p < c + 2^(k + 1)
  BY <1>1, <1>2, AlignDownIs
<1>5. /\ Lists(N, h) /\ Tiling(ListTiles(N, h), s, e)
      /\ \A o \in 0 .. h : \A b \in ToSet(N[o]) : b \in s .. e - 1 /\ InitOrder(z, b) = o
  BY InitLaid DEF Laid
<1>6. k \in 0 .. h /\ h \in Nat
  BY TopOrderIs, Orders, ZoneFacts
<1>7. a \in s .. e - 1
  BY <1>5, <1>6
<1>8. Placeable(z, a, k)
  BY <1>7, InitOrderIs
<1>9. AlignDown(a, 2^(k + 1)) = c
  <2>1. k <= k + 1
    BY <1>1
  <2>. QED BY <1>1, <2>1, Nested
<1>10. s <= c /\ c + 2^(k + 1) <= e
  <2>. DEFINE b == Buddy(a, k)
  <2>1. s <= b /\ b + 2^k <= e
    BY DEF UContains
  <2>2. (c = a /\ b = a + 2^k) \/ (c = a - 2^k /\ b = a - 2^k)
    BY <1>1, <1>3, <1>9, BuddyIs
  <2>3. a + 2^k <= e
    BY <1>8 DEF Placeable
  <2>. HIDE DEF a, b, c, s, e
  <2>. QED BY <1>1, <1>2, <1>3, <1>7, <2>1, <2>2, <2>3
<1>11. Placeable(z, c, k + 1)
  BY <1>4, <1>10 DEF Placeable
<1>12. c \in s .. e - 1
  BY <1>1, <1>2, <1>4, <1>10
<1>. HIDE DEF a, c, s, e, N, h
<1>13. PICK j \in Order(z) : /\ AlignDown(c, 2^j) \in ToSet(N[j])
                             /\ InitOrder(z, AlignDown(c, 2^j)) = j
  BY <1>12, PlacedAt DEF N, s, e
<1>14. j \in Nat /\ j \in 0 .. h
  BY <1>13, TopOrderIs, Orders, ZoneFacts DEF h
<1>15. 2^j \in Nat \ {0}
  <2>1. 2^j \in Nat /\ 2^j > 0
    BY <1>14, Power
  <2>. QED BY <2>1
<1>16. CASE j <= k
  <2>1. c % 2^j = 0 /\ c % 2^(j + 1) = 0
    <3>1. j + 1 \in Nat /\ j <= k + 1 /\ j + 1 <= k + 1
      BY <1>1, <1>14, <1>16
    <3>. QED BY <1>1, <1>4, <1>14, <3>1, PowerMultiple
  <2>2. AlignDown(c, 2^j) = c
    <3>1. c <= c /\ c < c + 2^j
      BY <1>4, <1>15
    <3>. QED BY <1>4, <1>15, <2>1, <3>1, AlignDownIs
  <2>3. ~ Placeable(z, c, j + 1)
    BY <1>12, <1>13, <2>2, InitOrderIs DEF s, e
  <2>4. 2^(j + 1) <= 2^(k + 1)
    <3>1. j + 1 \in Nat /\ j + 1 <= k + 1
      BY <1>1, <1>14, <1>16
    <3>. QED BY <1>1, <3>1, PowerOrder
  <2>5. 2^(j + 1) \in Nat
    <3>1. j + 1 \in Nat
      BY <1>14
    <3>. QED BY <3>1, Power
  <2>6. c + 2^(j + 1) <= e
    BY <1>1, <1>2, <1>4, <1>10, <2>4, <2>5
  <2>. QED BY <2>1, <2>3, <2>6 DEF Placeable, e
<1>17. CASE k + 1 <= j
  <2>. DEFINE b == AlignDown(c, 2^j)
  <2>1. b = AlignDown(p, 2^j) /\ b \in Nat /\ b <= c /\ c + 2^(k + 1) <= b + 2^j
    BY <1>1, <1>14, <1>17, Nested DEF c
  <2>2. <<b, 2^j>> \in ListTiles(N, h) /\ <<a, 2^k>> \in ListTiles(N, h)
    <3>1. b \in ToSet(N[j]) /\ a \in ToSet(N[k])
      BY <1>13 DEF a, N
    <3>. HIDE DEF b
    <3>. QED BY ONLY <1>5, <1>6, <1>14, <3>1, TileListed
  <2>. HIDE DEF b
  <2>3. Covers(<<b, 2^j>>, p) /\ Covers(<<a, 2^k>>, p)
    BY <1>1, <1>2, <1>3, <1>4, <1>15, <2>1 DEF Covers
  <2>4. <<b, 2^j>> = <<a, 2^k>>
    BY ONLY <1>1, <1>5, <2>2, <2>3, TilingOnce
  <2>5. 2^j = 2^k
    BY <2>4
  <2>6. j = k
    BY <1>1, <1>14, <2>5, PowerLess
  <2>. QED BY <1>1, <1>17, <2>6
<1>. QED
  BY <1>1, <1>14, <1>16, <1>17

(* A new zone has the page that oalloc_at is asked for, and split_order_at *)
(* finds the node that it is in.                                           *)
LEMMA FirstAllocAt ==
  ASSUME NEW z \in Zone, NEW p \in Nat, ContainsAddr(z, p)
  PROVE  LET Z == InitZone(z)
             t == SplitTop(z, Z, p, 0)
         IN /\ CanAllocAt(z, Z, p, 0)
            /\ t \in Order(z) /\ 0 <= t
            /\ AllocAtNode(z, Z, p, 0).addr \in ToSet(Z.free[t])
            /\ AllocAtNode(z, Z, p, 0).order = t
<1>. DEFINE Z == InitZone(z)
            s == Start(z)
            e == MetaStart(z)
            T == TopOrder[z]
            climbs(j) == LET b == Buddy(AlignDown(p, 2^j), j)
                         IN j < TopOrder[z] /\ UContains(z, b, 2^j) /\ ~IsAlloced(z, Z, b)
            Good(t) == (\A j \in 0 .. t - 1 : climbs(j)) /\ ~climbs(t)
            open(i) == LET b == Buddy(p, 0 + i)
                       IN b > p /\ b + 2^(0 + i) <= MetaStart(z) /\ ~IsAlloced(z, Z, b)
            Most(n) == (\A i \in 0 .. n - 1 : open(i)) /\ ~open(n)
            U == {n \in Nat : ~open(n)}
<1>1. s \in Nat /\ e \in Nat /\ s <= p /\ p < e /\ p \in s .. e - 1 /\ e - s < 2^MaxOrder /\ MaxOrder \in Nat
  BY Geometry, ZoneFacts DEF ContainsAddr
<1>2. Z.alloced = {} /\ Z.free = [o \in Order(z) |-> InitNodes[z][o]]
  BY DEF InitZone
<1>3. \A b : ~IsAlloced(z, Z, b)
  BY <1>2 DEF IsAlloced
<1>4. T \in Nat /\ Order(z) = 0 .. T /\ 0 \in Order(z)
  BY Orders
<1>5. PICK k \in Order(z) : /\ AlignDown(p, 2^k) \in ToSet(InitNodes[z][k])
                            /\ AlignDown(p, 2^k) \in Start(z) .. MetaStart(z) - 1
                            /\ InitOrder(z, AlignDown(p, 2^k)) = k
  BY <1>1, PlacedAt
<1>6. k \in Nat /\ k <= T
  BY <1>4
<1>7. ~climbs(k)
  BY <1>1, <1>5, PlacedLargest
<1>8. ASSUME NEW j \in 0 .. k - 1 PROVE climbs(j)
  <2>. DEFINE a == AlignDown(p, 2^k)
              b == AlignDown(p, 2^j)
              d == AlignDown(p, 2^(j + 1))
  <2>1. j \in Nat /\ j + 1 \in Nat /\ j + 1 <= k /\ j < T /\ j <= j + 1
    BY <1>4, <1>6
  <2>2. 2^j \in Nat \ {0} /\ 2^(j + 1) = 2^j + 2^j
    <3>1. 2^j \in Nat /\ 2^j > 0 /\ 2^(j + 1) = 2 * 2^j
      BY <2>1, Power
    <3>. QED BY <3>1
  <2>3. b \in Nat /\ b % 2^j = 0
    BY <2>2, AlignDownIs
  <2>4. /\ AlignDown(b, 2^(j + 1)) = d
        /\ a \in Nat /\ d \in Nat /\ a <= d /\ d + 2^(j + 1) <= a + 2^k
    <3>1. AlignDown(b, 2^(j + 1)) = d
      BY <2>1, Nested
    <3>2. a \in Nat /\ d \in Nat /\ a <= d /\ d + 2^(j + 1) <= a + 2^k
      BY <1>6, <2>1, Nested
    <3>. QED BY <3>1, <3>2
  <2>5. (d = b /\ Buddy(b, j) = b + 2^j) \/ (d = b - 2^j /\ Buddy(b, j) = b - 2^j)
    BY <2>1, <2>3, <2>4, BuddyIs
  <2>6. s <= a /\ a + 2^k <= e /\ 2^k \in Nat
    <3>1. Placeable(z, a, k)
      BY <1>5, InitOrderIs
    <3>2. 2^k \in Nat
      BY <1>6, Power
    <3>. QED BY <1>5, <3>1, <3>2 DEF Placeable
  <2>. DEFINE y == Buddy(b, j)
  <2>7. y >= s /\ y + 2^j <= e
    <3>. HIDE DEF a, b, d, y, s, e
    <3>1. (d = b /\ y = b + 2^j) \/ (d = b - 2^j /\ y = b - 2^j)
      BY <2>5 DEF y
    <3>. QED BY <1>1, <2>2, <2>3, <2>4, <2>6, <3>1
  <2>8. UContains(z, y, 2^j)
    BY <2>7 DEF UContains
  <2>. QED BY <1>3, <2>1, <2>8
<1>9. SplitTop(z, Z, p, 0) = CHOOSE t \in 0 .. T : Good(t)
  BY DEF SplitTop
<1>10. Good(k) /\ k \in 0 .. T
  BY <1>6, <1>7, <1>8
<1>. HIDE DEF climbs
<1>11. \A t \in 0 .. T : Good(t) => t = k
  <2>. SUFFICES ASSUME NEW t \in 0 .. T, Good(t), t # k PROVE FALSE
    OBVIOUS
  <2>1. t \in 0 .. k - 1 \/ k \in 0 .. t - 1
    BY <1>4, <1>6
  <2>. QED BY <1>10, <2>1
<1>12. SplitTop(z, Z, p, 0) = k
  <2>. HIDE DEF Good, T
  <2>. QED BY <1>9, <1>10, <1>11
<1>13. /\ AllocAtNode(z, Z, p, 0).addr = AlignDown(p, 2^k) /\ AllocAtNode(z, Z, p, 0).order = k
  BY <1>12 DEF AllocAtNode
<1>14. AlignDown(p, 2^k) \in ToSet(Z.free[k])
  BY <1>2, <1>5
<1>15. 0 <= ExpandCap(z, Z, p, 0)
  <2>1. ExpandCap(z, Z, p, 0) = CHOOSE n \in 0 .. MaxOrder : Most(n)
    BY DEF ExpandCap
  <2>2. ~open(MaxOrder)
    <3>. DEFINE b == Buddy(p, 0 + MaxOrder)
    <3>1. 0 + MaxOrder = MaxOrder
      BY <1>1
    <3>2. 2^MaxOrder \in Nat
      BY <1>1, Power
    <3>3. b \in Int
      BY <3>1, <3>2 DEF Buddy
    <3>4. ~ (b > p /\ b + 2^(0 + MaxOrder) <= e)
      <4>. HIDE DEF b, s, e
      <4>. QED BY <1>1, <3>1, <3>2, <3>3
    <3>. QED BY <3>4
  <2>. HIDE DEF open
  <2>3. U \subseteq Nat /\ MaxOrder \in U
    BY <1>1, <2>2
  <2>4. PICK n \in U : \A y \in U : n <= y
    <3>. HIDE DEF U
    <3>. QED BY <2>3, Least
  <2>5. n \in 0 .. MaxOrder
    BY <1>1, <2>3, <2>4
  <2>6. Most(n)
    <3>1. \A i \in 0 .. n - 1 : i \in Nat /\ ~ (n <= i)
      BY <2>5
    <3>. QED BY <2>4, <3>1
  <2>7. ExpandCap(z, Z, p, 0) \in 0 .. MaxOrder
    <3>. HIDE DEF Most
    <3>. QED BY <2>1, <2>5, <2>6
  <2>. QED BY <2>7
<1>16. UContains(z, p, 2^0)
  <2>1. 2^0 = 1
    OBVIOUS
  <2>. QED BY <1>1, <2>1 DEF UContains
<1>17. CanAllocAt(z, Z, p, 0)
  BY <1>3, <1>4, <1>15, <1>16 DEF CanAllocAt
<1>. QED
  BY <1>5, <1>6, <1>12, <1>13, <1>14, <1>17

-----------------------------------------------------------------------------
(* What the operations of a HeapZone do to its list.                       *)

(* r is s with the nodes lo + 1 .. hi replaced by those of E, at most one. *)
Spliced(s, r, lo, hi, E) ==
  /\ s \in Seq(HeapNode) /\ r \in Seq(HeapNode) /\ E \in Seq(HeapNode) /\ Len(E) <= 1
  /\ lo \in Nat /\ hi \in Nat /\ lo <= hi /\ hi <= Len(s)
  /\ Len(r) = lo + Len(E) + (Len(s) - hi)
  /\ \A j \in 1 .. lo : r[j] = s[j]
  /\ \A j \in 1 .. Len(E) : r[lo + j] = E[j]
  /\ \A j \in hi + 1 .. Len(s) : r[j - hi + lo + Len(E)] = s[j]

Tile(n) == <<n.addr, n.size>>

(* Where an element of r comes from. *)
LEMMA SplicedFrom ==
  ASSUME NEW s, NEW r, NEW lo, NEW hi, NEW E, Spliced(s, r, lo, hi, E), NEW i \in DOMAIN r
  PROVE  /\ i \in Nat
         /\ \/ i <= lo /\ i \in DOMAIN s /\ r[i] = s[i]
            \/ i = lo + 1 /\ 1 \in DOMAIN E /\ r[i] = E[1] /\ Len(E) = 1
            \/ /\ i > lo + Len(E) /\ i + hi - lo - Len(E) \in hi + 1 .. Len(s)
               /\ i + hi - lo - Len(E) \in DOMAIN s
               /\ r[i] = s[i + hi - lo - Len(E)]
<1>. DEFINE e == Len(E)
            n == Len(s)
            j == i + hi - lo - e
<1>1. /\ e \in Nat /\ n \in Nat /\ e <= 1 /\ lo \in Nat /\ hi \in Nat /\ lo <= hi /\ hi <= n
      /\ DOMAIN s = 1 .. n /\ DOMAIN E = 1 .. e /\ Len(r) = lo + e + (n - hi) /\ DOMAIN r = 1 .. Len(r)
  BY DEF Spliced
<1>2. i \in Nat /\ 1 <= i /\ i <= lo + e + (n - hi)
  BY <1>1
<1>3. CASE i <= lo
  <2>1. i \in 1 .. lo /\ i \in DOMAIN s
    BY <1>1, <1>2, <1>3
  <2>. QED BY <1>2, <1>3, <2>1 DEF Spliced
<1>4. CASE i > lo /\ i <= lo + e
  <2>1. i = lo + 1 /\ e = 1 /\ 1 \in DOMAIN E /\ 1 \in 1 .. e
    BY <1>1, <1>2, <1>4
  <2>2. r[lo + 1] = E[1]
    BY <2>1 DEF Spliced
  <2>. QED BY <1>2, <2>1, <2>2
<1>5. CASE i > lo + e
  <2>1. j \in hi + 1 .. n /\ j \in DOMAIN s /\ j - hi + lo + e = i
    BY <1>1, <1>2, <1>5
  <2>2. r[j - hi + lo + e] = s[j]
    BY <2>1 DEF Spliced
  <2>. QED BY <1>2, <1>5, <2>1, <2>2
<1>. QED
  BY <1>1, <1>2, <1>3, <1>4, <1>5

(* The nodes of a sorted list are apart, and none is there twice. *)
LEMMA SortedApart ==
  ASSUME NEW s \in Seq(HeapNode), Sorted(s), NEW i \in DOMAIN s, NEW j \in DOMAIN s, i # j
  PROVE  Tile(s[i]) # Tile(s[j]) /\ s[i].addr # s[j].addr
<1>1. s[i] \in HeapNode /\ s[j] \in HeapNode /\ i \in Nat /\ j \in Nat
  OBVIOUS
<1>2. s[i].addr \in Nat /\ s[j].addr \in Nat /\ s[i].size \in Nat /\ s[j].size \in Nat
  BY <1>1 DEF HeapNode
<1>3. s[i].addr + s[i].size < s[j].addr \/ s[j].addr + s[j].size < s[i].addr
  BY <1>1 DEF Sorted
<1>4. s[i].addr # s[j].addr
  BY <1>2, <1>3
<1>. QED
  BY <1>4 DEF Tile

(* Its tiles. *)
LEMMA NodeTile ==
  ASSUME NEW s \in Seq(HeapNode)
  PROVE  /\ NodeTiles(s) = {Tile(s[j]) : j \in DOMAIN s}
         /\ \A j \in DOMAIN s : Tile(s[j]) \in NodeTiles(s) /\ Tile(s[j])[1] = s[j].addr /\ Tile(s[j])[2] = s[j].size
BY DEF NodeTiles, ToSet, Tile

(* Replacing nodes lo + 1 .. hi by E replaces their tiles. *)
LEMMA SplicedTiles ==
  ASSUME NEW s, NEW r, NEW lo, NEW hi, NEW E, Spliced(s, r, lo, hi, E), Sorted(s)
  PROVE  NodeTiles(r) = (NodeTiles(s) \ {Tile(s[j]) : j \in lo + 1 .. hi}) \cup NodeTiles(E)
<1>. DEFINE G == {Tile(s[j]) : j \in lo + 1 .. hi}
<1>1. /\ s \in Seq(HeapNode) /\ r \in Seq(HeapNode) /\ E \in Seq(HeapNode) /\ Len(E) <= 1
      /\ lo \in Nat /\ hi \in Nat /\ lo <= hi /\ hi <= Len(s) /\ Len(s) \in Nat /\ Len(E) \in Nat
      /\ Len(r) = lo + Len(E) + (Len(s) - hi)
      /\ DOMAIN s = 1 .. Len(s) /\ DOMAIN r = 1 .. Len(r) /\ DOMAIN E = 1 .. Len(E)
  BY DEF Spliced
<1>2. \A j \in lo + 1 .. hi : j \in DOMAIN s
  BY <1>1
<1>3. NodeTiles(s) = {Tile(s[j]) : j \in DOMAIN s} /\ NodeTiles(r) = {Tile(r[j]) : j \in DOMAIN r}
      /\ NodeTiles(E) = {Tile(E[j]) : j \in DOMAIN E}
  BY <1>1, NodeTile
<1>4. ASSUME NEW j \in DOMAIN s, j \notin lo + 1 .. hi PROVE Tile(s[j]) \in NodeTiles(s) \ G
  <2>1. \A i \in lo + 1 .. hi : Tile(s[i]) # Tile(s[j])
    BY <1>1, <1>2, <1>4, SortedApart
  <2>. QED BY <1>3, <2>1
<1>5. ASSUME NEW i \in DOMAIN r PROVE Tile(r[i]) \in (NodeTiles(s) \ G) \cup NodeTiles(E)
  <2>. DEFINE j == i + hi - lo - Len(E)
  <2>1. /\ i \in Nat
        /\ \/ i <= lo /\ i \in DOMAIN s /\ r[i] = s[i]
           \/ 1 \in DOMAIN E /\ r[i] = E[1]
           \/ j \in hi + 1 .. Len(s) /\ j \in DOMAIN s /\ r[i] = s[j]
    BY SplicedFrom
  <2>. HIDE DEF j, G
  <2>2. CASE i <= lo /\ i \in DOMAIN s /\ r[i] = s[i]
    <3>1. i \notin lo + 1 .. hi
      BY <1>1, <2>1, <2>2
    <3>. QED BY <1>4, <2>2, <3>1
  <2>3. CASE 1 \in DOMAIN E /\ r[i] = E[1]
    BY <1>3, <2>3
  <2>4. CASE j \in hi + 1 .. Len(s) /\ j \in DOMAIN s /\ r[i] = s[j]
    <3>1. j \notin lo + 1 .. hi
      BY <1>1, <2>4
    <3>. QED BY <1>4, <2>4, <3>1
  <2>. QED BY <2>1, <2>2, <2>3, <2>4
<1>6. ASSUME NEW j \in DOMAIN s, j \notin lo + 1 .. hi PROVE Tile(s[j]) \in NodeTiles(r)
  <2>1. CASE j <= lo
    <3>1. j \in 1 .. lo /\ j \in DOMAIN r
      BY <1>1, <2>1
    <3>2. r[j] = s[j]
      BY <3>1 DEF Spliced
    <3>. QED BY <1>3, <3>1, <3>2
  <2>2. CASE j > hi
    <3>. DEFINE i == j - hi + lo + Len(E)
    <3>1. j \in hi + 1 .. Len(s) /\ i \in DOMAIN r
      BY <1>1, <2>2
    <3>2. r[i] = s[j]
      BY <3>1 DEF Spliced
    <3>. QED BY <1>3, <3>1, <3>2
  <2>. QED BY <1>1, <1>6, <2>1, <2>2
<1>7. ASSUME NEW j \in DOMAIN E PROVE Tile(E[j]) \in NodeTiles(r)
  <2>1. j \in 1 .. Len(E) /\ lo + j \in DOMAIN r
    BY <1>1
  <2>2. r[lo + j] = E[j]
    BY <2>1 DEF Spliced
  <2>. QED BY <1>3, <2>1, <2>2
<1>8. ASSUME NEW t \in NodeTiles(s) \ G PROVE t \in NodeTiles(r)
  <2>1. PICK j \in DOMAIN s : t = Tile(s[j])
    BY <1>3
  <2>2. j \notin lo + 1 .. hi
    BY <2>1
  <2>. QED BY <1>6, <2>1, <2>2
<1>. HIDE DEF G
<1>9. NodeTiles(r) = (NodeTiles(s) \ G) \cup NodeTiles(E)
  BY <1>3, <1>5, <1>7, <1>8
<1>. QED
  BY <1>9 DEF G

(* The new node lies between its neighbours. *)
Between(s, lo, hi, E) ==
  \A k \in DOMAIN E :
    /\ \A j \in 1 .. lo : s[j].addr + s[j].size < E[k].addr
    /\ \A j \in hi + 1 .. Len(s) : E[k].addr + E[k].size < s[j].addr

(* The list stays sorted when E fits between its neighbours. *)
LEMMA SplicedSorted ==
  ASSUME NEW s, NEW r, NEW lo, NEW hi, NEW E, Spliced(s, r, lo, hi, E), Sorted(s), Between(s, lo, hi, E)
  PROVE  Sorted(r)
<1>. SUFFICES ASSUME NEW i \in DOMAIN r, NEW k \in DOMAIN r, i < k
              PROVE  r[i].addr + r[i].size < r[k].addr
  BY DEF Sorted
<1>. DEFINE e == Len(E)
            x == i + hi - lo - e
            y == k + hi - lo - e
<1>1. /\ lo \in Nat /\ hi \in Nat /\ lo <= hi /\ e \in Nat /\ e <= 1 /\ DOMAIN s = 1 .. Len(s) /\ Len(s) \in Nat
      /\ hi <= Len(s)
  BY DEF Spliced
<1>2. /\ i \in Nat
      /\ \/ i <= lo /\ i \in DOMAIN s /\ r[i] = s[i]
         \/ i = lo + 1 /\ 1 \in DOMAIN E /\ r[i] = E[1] /\ e = 1
         \/ i > lo + e /\ x \in hi + 1 .. Len(s) /\ x \in DOMAIN s /\ r[i] = s[x]
  BY SplicedFrom
<1>3. /\ k \in Nat
      /\ \/ k <= lo /\ k \in DOMAIN s /\ r[k] = s[k]
         \/ k = lo + 1 /\ 1 \in DOMAIN E /\ r[k] = E[1] /\ e = 1
         \/ k > lo + e /\ y \in hi + 1 .. Len(s) /\ y \in DOMAIN s /\ r[k] = s[y]
  BY SplicedFrom
<1>4. x < y
  BY <1>1, <1>2, <1>3
<1>5. x \in Int /\ y \in Int
  BY <1>1, <1>2, <1>3
<1>. HIDE DEF e, x, y
<1>6. CASE i <= lo /\ i \in DOMAIN s /\ r[i] = s[i]
  <2>1. CASE k <= lo /\ k \in DOMAIN s /\ r[k] = s[k]
    BY <1>6, <2>1 DEF Sorted
  <2>2. CASE k = lo + 1 /\ 1 \in DOMAIN E /\ r[k] = E[1] /\ e = 1
    <3>1. i \in 1 .. lo
      BY <1>1, <1>6
    <3>. QED BY <1>6, <2>2, <3>1 DEF Between
  <2>3. CASE k > lo + e /\ y \in hi + 1 .. Len(s) /\ y \in DOMAIN s /\ r[k] = s[y]
    <3>1. i < y
      BY <1>1, <1>2, <1>6, <2>3
    <3>. QED BY <1>6, <2>3, <3>1 DEF Sorted
  <2>. QED BY <1>3, <2>1, <2>2, <2>3
<1>7. CASE i = lo + 1 /\ 1 \in DOMAIN E /\ r[i] = E[1] /\ e = 1
  <2>1. k > lo + e
    BY <1>1, <1>2, <1>3, <1>7
  <2>2. y \in hi + 1 .. Len(s) /\ y \in DOMAIN s /\ r[k] = s[y]
    BY <1>1, <1>3, <1>7, <2>1
  <2>. QED BY <1>7, <2>2 DEF Between
<1>8. CASE i > lo + e /\ x \in hi + 1 .. Len(s) /\ x \in DOMAIN s /\ r[i] = s[x]
  <2>1. k > lo + e /\ ~ (k <= lo) /\ ~ (k = lo + 1 /\ e = 1)
    BY <1>1, <1>2, <1>3, <1>8
  <2>2. y \in DOMAIN s /\ r[k] = s[y]
    BY <1>3, <2>1
  <2>. QED BY <1>4, <1>8, <2>2 DEF Sorted
<1>. QED
  BY <1>2, <1>6, <1>7, <1>8

(* The sizes of the nodes. *)
SizesOf(s) == [j \in DOMAIN s |-> s[j].size]
Weight(E) == IF Len(E) = 0 THEN 0 ELSE E[1].size

(* The sizes of the nodes are terms of a sum. *)
LEMMA NodeTerms ==
  ASSUME NEW s \in Seq(HeapNode)
  PROVE  /\ Terms(SizesOf(s), 1, Len(s)) /\ NodeSum(s) = Sum(SizesOf(s), 1, Len(s)) /\ NodeSum(s) \in Nat
         /\ \A j \in 1 .. Len(s) : /\ SizesOf(s)[j] = s[j].size /\ s[j].size \in Nat /\ s[j].addr \in Nat
                                   /\ s[j] \in HeapNode
<1>. DEFINE f == SizesOf(s)
            n == Len(s)
<1>1. n \in Nat /\ DOMAIN s = 1 .. n
  OBVIOUS
<1>2. \A j \in 1 .. n : s[j] \in HeapNode /\ s[j].size \in Nat /\ s[j].addr \in Nat
  <2>1. \A j \in 1 .. n : s[j] \in HeapNode
    BY <1>1
  <2>2. \A x \in HeapNode : x.size \in Nat /\ x.addr \in Nat
    BY DEF HeapNode
  <2>. QED BY <2>1, <2>2
<1>3. \A j \in 1 .. n : f[j] = s[j].size
  BY <1>1 DEF SizesOf
<1>4. NodeSum(s) = Sum(f, 1, n)
  BY DEF NodeSum, SizesOf
<1>. HIDE DEF f, n
<1>5. Terms(f, 1, n)
  BY <1>1, <1>2, <1>3 DEF Terms
<1>6. Sum(f, 1, n) \in Nat
  <2>1. \A k \in 1 .. n : f[k] = f[k]
    OBVIOUS
  <2>. QED BY ONLY <1>5, <2>1, SumEqual
<1>. QED
  BY <1>2, <1>3, <1>4, <1>5, <1>6 DEF f, n

(* What the list holds after nodes lo + 1 .. hi are replaced by E. *)
LEMMA SplicedSum ==
  ASSUME NEW s, NEW r, NEW lo, NEW hi, NEW E, Spliced(s, r, lo, hi, E),
         NEW P, Totals(P, SizesOf(s), 1, Len(s))
  PROVE  NodeSum(r) = P[Len(s)] - P[hi] + P[lo] + Weight(E)
<1>. DEFINE f == SizesOf(s)
            g == SizesOf(r)
            n == Len(s)
            m == Len(r)
            e == Len(E)
<1>1. /\ s \in Seq(HeapNode) /\ r \in Seq(HeapNode) /\ E \in Seq(HeapNode) /\ e <= 1
      /\ lo \in Nat /\ hi \in Nat /\ lo <= hi /\ hi <= n /\ n \in Nat /\ e \in Nat /\ m \in Nat
      /\ m = lo + e + (n - hi)
  BY DEF Spliced
<1>2. /\ \A j \in 1 .. n : f[j] = s[j].size /\ s[j].size \in Nat
      /\ Terms(g, 1, m) /\ NodeSum(r) = Sum(g, 1, m)
      /\ \A j \in 1 .. m : g[j] = r[j].size /\ r[j].size \in Nat
  BY <1>1, NodeTerms
<1>3. /\ \A j \in 1 .. lo : r[j] = s[j]
      /\ \A j \in 1 .. e : r[lo + j] = E[j]
      /\ \A j \in hi + 1 .. n : r[j - hi + lo + e] = s[j]
  BY DEF Spliced
<1>. HIDE DEF f, g, n, m
<1>4. PICK Q : Totals(Q, g, 1, m) /\ Sum(g, 1, m) = Q[m]
  BY <1>2, SumDef
<1>5. Totals(P, f, 1, n)
  BY DEF f, n
<1>6. Q[lo + 0] - Q[0 + 0] = P[lo] - P[0]
  <2>1. Moved(f, g, 0, lo, 0)
    <3>. SUFFICES ASSUME NEW k \in 0 + 1 .. lo PROVE f[k] \in Nat /\ g[k + 0] = f[k]
      BY DEF Moved
    <3>1. k + 0 = k /\ k \in 1 .. lo /\ k \in 1 .. n /\ k \in 1 .. m
      BY <1>1
    <3>. QED BY <1>2, <1>3, <3>1
  <2>2. 1 \in Int /\ n \in Int /\ m \in Int /\ 0 \in 1 - 1 .. n /\ lo \in 0 .. n /\ 0 \in Int /\ 0 + 0 >= 1 - 1 /\ lo + 0 <= m
    BY <1>1
  <2>. QED BY ONLY <1>4, <1>5, <2>1, <2>2, SumSame
<1>. DEFINE d == lo + e - hi
<1>7. Q[n + d] - Q[hi + d] = P[n] - P[hi]
  <2>1. Moved(f, g, hi, n, d)
    <3>. SUFFICES ASSUME NEW k \in hi + 1 .. n PROVE f[k] \in Nat /\ g[k + d] = f[k]
      BY DEF Moved
    <3>1. k + d = k - hi + lo + e /\ k \in 1 .. n /\ k + d \in 1 .. m
      BY <1>1
    <3>2. r[k + d] = s[k]
      BY <1>3, <3>1
    <3>. HIDE DEF d
    <3>. QED BY <1>2, <3>1, <3>2
  <2>2. /\ 1 \in Int /\ n \in Int /\ m \in Int /\ hi \in 1 - 1 .. n /\ n \in hi .. n /\ d \in Int
        /\ hi + d >= 1 - 1 /\ n + d <= m
    BY <1>1
  <2>. HIDE DEF d
  <2>. QED BY ONLY <1>4, <1>5, <2>1, <2>2, SumSame
<1>8. Q[lo + e] = Q[lo] + Weight(E)
  <2>1. CASE e = 0
    <3>1. lo \in 1 - 1 .. m /\ lo + 0 = lo
      BY <1>1
    <3>2. Q[lo] \in Nat
      BY <1>1, <1>4, <3>1 DEF Totals
    <3>. QED BY <2>1, <3>1, <3>2 DEF Weight
  <2>2. CASE e = 1
    <3>1. lo + 1 \in 1 .. m /\ (lo + 1) - 1 = lo
      BY <1>1, <2>2
    <3>2. Q[lo + 1] = Q[lo] + g[lo + 1]
      BY <1>4, <3>1 DEF Totals
    <3>3. g[lo + 1] = r[lo + 1].size /\ r[lo + 1] = E[1]
      BY <1>2, <1>3, <2>2, <3>1
    <3>. QED BY <2>2, <3>2, <3>3 DEF Weight
  <2>3. e = 0 \/ e = 1
    <3>. HIDE DEF e
    <3>. QED BY <1>1
  <2>. QED BY <2>1, <2>2, <2>3
<1>9. n + d = m /\ hi + d = lo + e /\ lo + 0 = lo /\ 0 + 0 = 0
  BY <1>1
<1>10. /\ Q[0] = 0 /\ P[0] = 0 /\ Q[m] \in Nat /\ Q[lo + e] \in Nat /\ Q[lo] \in Nat
       /\ P[n] \in Nat /\ P[hi] \in Nat /\ P[lo] \in Nat
  <2>1. /\ 1 - 1 = 0 /\ m \in 0 .. m /\ lo + e \in 0 .. m /\ lo \in 0 .. m
        /\ n \in 0 .. n /\ hi \in 0 .. n /\ lo \in 0 .. n
    BY <1>1
  <2>. QED BY <1>4, <1>5, <2>1 DEF Totals
<1>11. Weight(E) \in Nat
  <2>1. e = 0 \/ e = 1
    <3>. HIDE DEF e
    <3>. QED BY <1>1
  <2>2. e = 1 => E[1] \in HeapNode
    <3>. SUFFICES ASSUME e = 1 PROVE E[1] \in HeapNode
      OBVIOUS
    <3>1. 1 \in DOMAIN E
      BY <1>1
    <3>. QED BY <1>1, <3>1
  <2>3. \A x \in HeapNode : x.size \in Nat
    BY DEF HeapNode
  <2>. QED BY <2>1, <2>2, <2>3 DEF Weight
<1>12. Q[m] - Q[lo + e] = P[n] - P[hi]
  BY <1>7, <1>9
<1>13. Q[lo] = P[lo]
  BY <1>6, <1>9, <1>10
<1>14. Q[m] = P[n] - P[hi] + P[lo] + Weight(E)
  <2>. HIDE DEF e, d
  <2>. QED BY <1>8, <1>10, <1>11, <1>12, <1>13
<1>. QED
  BY <1>2, <1>4, <1>14 DEF n

(* The parts of ListInv. *)
LEMMA ListParts ==
  ASSUME NEW Z, NEW U, ListInv(Z, U)
  PROVE  /\ Z.list \in Seq(HeapNode) /\ Sorted(Z.list) /\ Z.space = NodeSum(Z.list)
         /\ Len(Z.list) \in Nat /\ DOMAIN Z.list = 1 .. Len(Z.list)
         /\ \A j \in DOMAIN Z.list :
              /\ Z.list[j] \in HeapNode /\ Z.list[j].addr \in Nat /\ Z.list[j].size \in Nat \ {0}
              /\ Z.list[j].addr % Chunk = 0 /\ Z.list[j].size % Chunk = 0
              /\ Tile(Z.list[j]) \in NodeTiles(Z.list) \cup U
              /\ Z.base + InitialChunk <= Z.list[j].addr /\ Z.list[j].addr + Z.list[j].size <= Z.base + Z.len
         /\ \A u \in U : /\ u = <<u[1], u[2]>> /\ u[1] \in Nat /\ u[2] \in Nat \ {0} /\ u[1] % Chunk = 0
                         /\ Z.base + InitialChunk <= u[1] /\ u[1] + u[2] <= Z.base + Z.len
         /\ NodeTiles(Z.list) \cap U = {}
         /\ Tiling(NodeTiles(Z.list) \cup U, Z.base + InitialChunk, Z.base + Z.len)
<1>. DEFINE s == Z.list
            T == NodeTiles(s) \cup U
<1>1. /\ s \in Seq(HeapNode) /\ Sorted(s) /\ Z.space = NodeSum(s)
      /\ \A j \in DOMAIN s : s[j].addr % Chunk = 0 /\ s[j].size % Chunk = 0
      /\ \A u \in U : u[1] % Chunk = 0
      /\ NodeTiles(s) \cap U = {}
      /\ Tiling(T, Z.base + InitialChunk, Z.base + Z.len)
  BY DEF ListInv
<1>2. Len(s) \in Nat /\ DOMAIN s = 1 .. Len(s)
  BY <1>1
<1>3. \A u \in T : /\ u = <<u[1], u[2]>> /\ u[1] \in Nat /\ u[2] \in Nat \ {0}
                   /\ Z.base + InitialChunk <= u[1] /\ u[1] + u[2] <= Z.base + Z.len
  BY <1>1 DEF Tiling
<1>4. ASSUME NEW j \in DOMAIN s
      PROVE  /\ s[j] \in HeapNode /\ s[j].addr \in Nat /\ s[j].size \in Nat \ {0}
             /\ Tile(s[j]) \in T
             /\ Z.base + InitialChunk <= s[j].addr /\ s[j].addr + s[j].size <= Z.base + Z.len
  <2>. HIDE DEF s
  <2>1. Tile(s[j]) \in NodeTiles(s) /\ Tile(s[j])[1] = s[j].addr /\ Tile(s[j])[2] = s[j].size
    BY <1>1, NodeTile
  <2>2. s[j] \in HeapNode
    BY <1>1
  <2>. QED BY <1>3, <2>1, <2>2
<1>. QED
  BY <1>1, <1>2, <1>3, <1>4

(* The constants of the heap. *)
LEMMA HeapFacts ==
  /\ Chunk \in Nat \ {0} /\ InitialChunk \in Nat /\ InitialChunk % Chunk = 0 /\ Chunk <= InitialChunk
  /\ PageSize \in Nat \ {0} /\ PageSize % Chunk = 0
  /\ InitialHeapSize \in Nat /\ InitialHeapSize > InitialChunk /\ HeapIncSize \in Nat
  /\ \A lay \in Layouts : /\ lay.size \in Nat \ {0} /\ lay.align \in 1 .. Chunk
                          /\ MaxOf(lay.align, Chunk) = Chunk /\ MaxOf(Chunk, lay.align) = Chunk
<1>1. /\ Chunk \in Nat \ {0} /\ InitialChunk \in Nat /\ InitialChunk % Chunk = 0 /\ InitialChunk > 0
      /\ PageSize \in Nat \ {0} /\ PageSize % Chunk = 0
      /\ InitialHeapSize \in Nat /\ InitialHeapSize > InitialChunk /\ HeapIncSize \in Nat
  BY HeapAssumption, ZoneFacts
<1>2. Chunk <= InitialChunk
  <2>1. 0 \in Nat /\ 0 % Chunk = 0
    BY <1>1
  <2>2. 0 < InitialChunk => 0 + Chunk <= InitialChunk
    BY <1>1, <2>1, Multiples
  <2>. QED BY <1>1, <2>2
<1>3. ASSUME NEW lay \in Layouts
      PROVE  /\ lay.size \in Nat \ {0} /\ lay.align \in 1 .. Chunk
             /\ MaxOf(lay.align, Chunk) = Chunk /\ MaxOf(Chunk, lay.align) = Chunk
  <2>1. lay \in [size : Nat \ {0}, align : 1 .. Chunk]
    BY HeapAssumption
  <2>2. lay.size \in Nat \ {0} /\ lay.align \in 1 .. Chunk
    BY <2>1
  <2>. QED BY <1>1, <2>2 DEF MaxOf
<1>. QED
  BY <1>1, <1>2, <1>3

(* What Node::resize cuts off is what dealloc will compute. *)
LEMMA CutIs ==
  ASSUME NEW n \in HeapNode, n.addr % Chunk = 0, n.size % Chunk = 0, NEW lay \in Layouts, Fits(n, lay)
  PROVE  /\ CutAt(n, lay) \in Nat /\ CutAt(n, lay) % Chunk = 0 /\ n.addr <= CutAt(n, lay)
         /\ AlignUp(lay.size, Chunk) \in Nat \ {0} /\ AlignUp(lay.size, Chunk) % Chunk = 0
         /\ CutAt(n, lay) + AlignUp(lay.size, Chunk) = n.addr + n.size
         /\ CutAt(n, lay) - n.addr \in Nat /\ (CutAt(n, lay) - n.addr) % Chunk = 0
         /\ CutAt(n, lay) - n.addr >= Chunk \/ CutAt(n, lay) = n.addr
<1>. DEFINE a == n.addr
            e == n.addr + n.size
            z == lay.size
            c == CutAt(n, lay)
            A == AlignUp(lay.size, Chunk)
<1>1. a \in Nat /\ n.size \in Nat /\ z \in Nat \ {0} /\ Chunk \in Nat \ {0}
  BY HeapFacts DEF HeapNode
<1>2. e \in Nat /\ e % Chunk = 0
  BY <1>1, Multiples
<1>3. c = AlignDown(e - z, Chunk)
  <2>1. MaxOf(lay.align, Chunk) = Chunk
    BY HeapFacts
  <2>2. c = AlignDown(e - z, MaxOf(lay.align, Chunk))
    <3>1. n.addr + n.size - lay.size = e - z
      BY <1>1
    <3>. HIDE DEF e, z
    <3>. QED BY ONLY <3>1 DEF CutAt
  <2>. HIDE DEF c, e, z
  <2>. QED BY ONLY <2>1, <2>2
<1>4. z <= n.size /\ c >= a
  BY DEF Fits
<1>5. e - z \in Nat
  BY <1>1, <1>4
<1>6. c \in Nat /\ c % Chunk = 0 /\ c <= e - z /\ e - z < c + Chunk
  BY <1>1, <1>3, <1>5, AlignDownIs
<1>. HIDE DEF c
<1>7. e - c \in Nat /\ (e - c) % Chunk = 0 /\ z <= e - c /\ e - c < z + Chunk
  <2>1. c <= e
    BY <1>1, <1>2, <1>6
  <2>2. (e - c) % Chunk = 0
    BY <1>1, <1>2, <1>6, <2>1, Multiples
  <2>. HIDE DEF e
  <2>. QED BY <1>1, <1>2, <1>6, <2>1, <2>2
<1>8. e - c = A
  <2>1. \A m \in Nat : m % Chunk = 0 /\ z <= m /\ m < z + Chunk => m = A
    <3>1. z \in Nat
      BY <1>1
    <3>. HIDE DEF z
    <3>. QED BY ONLY <1>1, <3>1, AlignUpIs DEF z
  <2>. HIDE DEF e, z, A
  <2>. QED BY ONLY <1>7, <2>1
<1>9. A \in Nat \ {0} /\ A % Chunk = 0
  BY <1>1, <1>7, <1>8
<1>10. c - a \in Nat /\ (c - a) % Chunk = 0 /\ (c - a >= Chunk \/ c = a)
  <2>1. a <= c
    BY <1>1, <1>4, <1>6
  <2>2. (c - a) % Chunk = 0 /\ (a < c => a + Chunk <= c)
    BY <1>1, <1>6, <2>1, Multiples
  <2>. HIDE DEF a
  <2>. QED BY <1>1, <1>6, <2>1, <2>2
<1>11. c + A = e
  <2>. HIDE DEF A, e
  <2>. QED BY <1>2, <1>6, <1>8
<1>. QED
  BY <1>4, <1>6, <1>9, <1>10, <1>11 DEF c

(* A zone with another list. *)
NewList(Z, r, v) == [Z EXCEPT !.list = r, !.space = v]

(* A zone with a new list and a new free_space. *)
LEMMA ZoneChanged ==
  ASSUME NEW Z \in HeapZone, NEW r \in Seq(HeapNode), NEW v \in Nat, NEW W, W = NewList(Z, r, v)
  PROVE  W \in HeapZone /\ W.list = r /\ W.space = v /\ W.base = Z.base /\ W.len = Z.len /\ W.mem = Z.mem
<1>. DEFINE V == [Z EXCEPT !.list = r]
<1>1. V \in HeapZone /\ V.list = r /\ V.base = Z.base /\ V.len = Z.len /\ V.mem = Z.mem
  BY DEF HeapZone
<1>3. W = [V EXCEPT !.space = v]
  BY DEF NewList
<1>. HIDE DEF V
<1>2. W \in HeapZone /\ W.list = r /\ W.space = v /\ W.base = V.base /\ W.len = V.len /\ W.mem = V.mem
  BY ONLY <1>1, <1>3, v \in Nat DEF HeapZone
<1>. QED
  BY <1>1, <1>2

(* The invariant of a zone whose list has been changed in one place. *)
Relisted(Z, r, lo, hi, E, V) ==
  /\ Spliced(Z.list, r, lo, hi, E) /\ Between(Z.list, lo, hi, E)
  /\ \A k \in DOMAIN E : E[k].addr % Chunk = 0 /\ E[k].size % Chunk = 0
  /\ \A u \in V : u[1] % Chunk = 0
  /\ NodeTiles(r) \cap V = {}
  /\ Tiling(NodeTiles(r) \cup V, Z.base + InitialChunk, Z.base + Z.len)

(* A relisted zone is tiled by its new nodes and blocks. *)
LEMMA ListChanged ==
  ASSUME NEW Z \in HeapZone, NEW U, ListInv(Z, U),
         NEW r, NEW lo, NEW hi, NEW E, NEW V, Relisted(Z, r, lo, hi, E, V),
         NEW v, v = NodeSum(r), NEW W, W = NewList(Z, r, v)
  PROVE  W \in HeapZone /\ ListInv(W, V) /\ W.base = Z.base /\ W.len = Z.len /\ W.mem = Z.mem
<1>. /\ Spliced(Z.list, r, lo, hi, E) /\ Between(Z.list, lo, hi, E)
     /\ \A k \in DOMAIN E : E[k].addr % Chunk = 0 /\ E[k].size % Chunk = 0
     /\ \A u \in V : u[1] % Chunk = 0
     /\ NodeTiles(r) \cap V = {}
     /\ Tiling(NodeTiles(r) \cup V, Z.base + InitialChunk, Z.base + Z.len)
  BY DEF Relisted
<1>1. r \in Seq(HeapNode) /\ Sorted(Z.list)
  BY ListParts DEF Spliced
<1>2. v \in Nat
  BY <1>1, NodeTerms
<1>3. W \in HeapZone /\ W.list = r /\ W.space = v /\ W.base = Z.base /\ W.len = Z.len /\ W.mem = Z.mem
  BY <1>1, <1>2, ZoneChanged
<1>4. Sorted(r)
  BY <1>1, SplicedSorted
<1>5. ASSUME NEW i \in DOMAIN r PROVE r[i].addr % Chunk = 0 /\ r[i].size % Chunk = 0
  <2>1. \/ i \in DOMAIN Z.list /\ r[i] = Z.list[i]
        \/ 1 \in DOMAIN E /\ r[i] = E[1]
        \/ \E j \in DOMAIN Z.list : r[i] = Z.list[j]
    BY SplicedFrom
  <2>2. \A j \in DOMAIN Z.list : Z.list[j].addr % Chunk = 0 /\ Z.list[j].size % Chunk = 0
    BY DEF ListInv
  <2>. QED BY <2>1, <2>2
<1>. QED
  BY <1>1, <1>2, <1>3, <1>4, <1>5 DEF ListInv

(* The tiles of a list of at most one node. *)
LEMMA FewTiles ==
  ASSUME NEW m \in HeapNode
  PROVE  /\ NodeTiles(<<m>>) = {Tile(m)} /\ NodeTiles(<< >>) = {}
         /\ <<m>> \in Seq(HeapNode) /\ << >> \in Seq(HeapNode) /\ Len(<<m>>) = 1 /\ Len(<< >>) = 0
         /\ Weight(<<m>>) = m.size /\ Weight(<< >>) = 0 /\ <<m>>[1] = m
         /\ DOMAIN <<m>> = {1} /\ DOMAIN << >> = {}
<1>1. ToSet(<<m>>) = {m} /\ ToSet(<< >>) = {}
  BY DEF ToSet
<1>2. NodeTiles(<<m>>) = {Tile(m)} /\ NodeTiles(<< >>) = {}
  BY <1>1 DEF NodeTiles, Tile
<1>3. /\ <<m>> \in Seq(HeapNode) /\ << >> \in Seq(HeapNode) /\ Len(<<m>>) = 1 /\ Len(<< >>) = 0 /\ <<m>>[1] = m
      /\ DOMAIN <<m>> = {1} /\ DOMAIN << >> = {}
  OBVIOUS
<1>4. Weight(<<m>>) = m.size /\ Weight(<< >>) = 0
  BY <1>3 DEF Weight
<1>. QED
  BY <1>2, <1>3, <1>4

(* The size of what is put in. *)
LEMMA WeightIs ==
  ASSUME NEW E \in Seq(HeapNode), Len(E) <= 1
  PROVE  Weight(E) \in Nat
<1>. DEFINE e == Len(E)
<1>1. e \in Nat /\ e <= 1 /\ DOMAIN E = 1 .. e
  OBVIOUS
<1>2. e # 0 => E[1] \in HeapNode
  <2>. HIDE DEF e
  <2>. QED BY <1>1
<1>3. \A x \in HeapNode : x.size \in Nat
  BY DEF HeapNode
<1>. QED
  BY <1>2, <1>3 DEF Weight

(* One node replaced, *)
LEMMA ReplacedOne ==
  ASSUME NEW s \in Seq(HeapNode), NEW i \in DOMAIN s, NEW m \in HeapNode
  PROVE  Spliced(s, [s EXCEPT ![i] = m], i - 1, i, <<m>>)
<1>. DEFINE r == [s EXCEPT ![i] = m]
            E == <<m>>
<1>1. Len(s) \in Nat /\ DOMAIN s = 1 .. Len(s) /\ i \in Nat /\ 1 <= i /\ i <= Len(s)
  OBVIOUS
<1>2. r \in Seq(HeapNode) /\ Len(r) = Len(s) /\ r[i] = m /\ \A j \in DOMAIN s : j # i => r[j] = s[j]
  OBVIOUS
<1>3. E \in Seq(HeapNode) /\ Len(E) = 1 /\ E[1] = m
  OBVIOUS
<1>. HIDE DEF r, E
<1>4. i - 1 \in Nat /\ i - 1 <= i /\ Len(r) = (i - 1) + Len(E) + (Len(s) - i)
  <2>1. i - 1 \in Nat /\ i - 1 <= i /\ Len(s) = (i - 1) + 1 + (Len(s) - i)
    BY <1>1
  <2>. QED BY <1>2, <1>3, <2>1
<1>5. \A j \in 1 .. i - 1 : r[j] = s[j]
  BY <1>1, <1>2
<1>6. \A j \in 1 .. Len(E) : r[(i - 1) + j] = E[j]
  <2>. TAKE j \in 1 .. Len(E)
  <2>1. j = 1 /\ (i - 1) + j = i
    BY <1>1, <1>3
  <2>. QED BY <1>2, <1>3, <2>1
<1>7. \A j \in i + 1 .. Len(s) : r[j - i + (i - 1) + Len(E)] = s[j]
  <2>. TAKE j \in i + 1 .. Len(s)
  <2>1. j - i + (i - 1) + Len(E) = j /\ j # i /\ j \in DOMAIN s
    BY <1>1, <1>3
  <2>. QED BY <1>2, <2>1
<1>8. Spliced(s, r, i - 1, i, E)
  <2>1. /\ s \in Seq(HeapNode) /\ r \in Seq(HeapNode) /\ E \in Seq(HeapNode) /\ Len(E) <= 1
        /\ i - 1 \in Nat /\ i \in Nat /\ i - 1 <= i /\ i <= Len(s)
    BY <1>1, <1>2, <1>3, <1>4
  <2>. QED BY ONLY <1>4, <1>5, <1>6, <1>7, <2>1, Zenon DEF Spliced
<1>. QED
  BY <1>8 DEF r, E

(* or taken out. *)
LEMMA RemovedOne ==
  ASSUME NEW s \in Seq(HeapNode), NEW i \in DOMAIN s
  PROVE  Spliced(s, RemoveAt(s, i), i - 1, i, << >>)
<1>. DEFINE r == RemoveAt(s, i)
            E == << >>
<1>1. Len(s) \in Nat /\ DOMAIN s = 1 .. Len(s) /\ i \in Nat /\ 1 <= i /\ i <= Len(s)
  OBVIOUS
<1>2. /\ r \in Seq(HeapNode) /\ Len(r) = Len(s) - 1
      /\ \A j \in 1 .. Len(s) - 1 : r[j] = IF j < i THEN s[j] ELSE s[j + 1]
  BY <1>1, RemovedAt
<1>3. E \in Seq(HeapNode) /\ Len(E) = 0
  OBVIOUS
<1>. HIDE DEF r, E
<1>4. i - 1 \in Nat /\ i - 1 <= i /\ Len(r) = (i - 1) + Len(E) + (Len(s) - i)
  BY <1>1, <1>2, <1>3
<1>5. \A j \in 1 .. i - 1 : r[j] = s[j]
  <2>. TAKE j \in 1 .. i - 1
  <2>1. j \in 1 .. Len(s) - 1 /\ j < i
    BY <1>1
  <2>. QED BY <1>2, <2>1
<1>6. \A j \in 1 .. Len(E) : r[(i - 1) + j] = E[j]
  BY <1>3
<1>7. \A j \in i + 1 .. Len(s) : r[j - i + (i - 1) + Len(E)] = s[j]
  <2>. TAKE j \in i + 1 .. Len(s)
  <2>1. j - i + (i - 1) + Len(E) = j - 1 /\ j - 1 \in 1 .. Len(s) - 1 /\ ~ (j - 1 < i) /\ (j - 1) + 1 = j
    BY <1>1, <1>3
  <2>. QED BY <1>2, <2>1
<1>8. Spliced(s, r, i - 1, i, E)
  <2>1. /\ s \in Seq(HeapNode) /\ r \in Seq(HeapNode) /\ E \in Seq(HeapNode) /\ Len(E) <= 1
        /\ i - 1 \in Nat /\ i \in Nat /\ i - 1 <= i /\ i <= Len(s)
    BY <1>1, <1>2, <1>3, <1>4
  <2>. QED BY ONLY <1>4, <1>5, <1>6, <1>7, <2>1, Zenon DEF Spliced
<1>. QED
  BY <1>8 DEF r, E

(* What that does to the tiles and the sum. *)
LEMMA OneGone ==
  ASSUME NEW s, NEW i, NEW r, NEW E, Spliced(s, r, i - 1, i, E), Sorted(s), i \in DOMAIN s
  PROVE  /\ NodeTiles(r) = (NodeTiles(s) \ {Tile(s[i])}) \cup NodeTiles(E)
         /\ NodeSum(r) = NodeSum(s) - s[i].size + Weight(E)
<1>1. s \in Seq(HeapNode) /\ Len(s) \in Nat /\ i \in 1 .. Len(s) /\ i \in Nat
  BY DEF Spliced
<1>2. NodeTiles(r) = (NodeTiles(s) \ {Tile(s[i])}) \cup NodeTiles(E)
  <2>1. (i - 1) + 1 .. i = {i}
    BY <1>1
  <2>2. {Tile(s[j]) : j \in (i - 1) + 1 .. i} = {Tile(s[i])}
    BY <2>1
  <2>. QED BY <2>2, SplicedTiles
<1>. DEFINE f == SizesOf(s)
            n == Len(s)
<1>3. Terms(f, 1, n) /\ NodeSum(s) = Sum(f, 1, n) /\ f[i] = s[i].size /\ s[i].size \in Nat
  BY <1>1, NodeTerms
<1>4. PICK P : Totals(P, f, 1, n) /\ Sum(f, 1, n) = P[n]
  <2>. HIDE DEF f, n
  <2>. QED BY <1>3, SumDef
<1>5. NodeSum(r) = P[n] - P[i] + P[i - 1] + Weight(E)
  BY <1>4, SplicedSum
<1>6. P[i] = P[i - 1] + f[i] /\ P[i - 1] \in Nat /\ P[n] \in Nat
  <2>1. i - 1 \in 1 - 1 .. n /\ n \in 1 - 1 .. n
    BY <1>1
  <2>. QED BY <1>1, <1>4, <2>1 DEF Totals
<1>7. Weight(E) \in Nat
  BY WeightIs DEF Spliced
<1>8. NodeSum(r) = NodeSum(s) - s[i].size + Weight(E)
  <2>. DEFINE w == Weight(E)
              x == s[i].size
              q == P[i - 1]
              y == P[n]
  <2>1. w \in Nat /\ x \in Nat /\ q \in Nat /\ y \in Nat /\ P[i] = q + x
        /\ NodeSum(r) = y - P[i] + q + w /\ NodeSum(s) = y
    BY <1>3, <1>4, <1>5, <1>6, <1>7
  <2>. HIDE DEF w, x, q, y
  <2>2. NodeSum(r) = NodeSum(s) - x + w
    BY <2>1
  <2>. QED BY <2>2 DEF x, w
<1>. QED
  BY <1>2, <1>8

(* HeapZone::alloc: the block that is cut off was free, and the rest stays *)
(* on the list.                                                            *)
LEMMA FirstFitIs ==
  ASSUME NEW Z, NEW lay, Z.list \in Seq(HeapNode), ZoneFits(Z, lay)
  PROVE  FirstFit(Z, lay) \in DOMAIN Z.list /\ Fits(Z.list[FirstFit(Z, lay)], lay)
<1>. DEFINE T == {i \in DOMAIN Z.list : Fits(Z.list[i], lay)}
            Good(i) == Fits(Z.list[i], lay) /\ \A j \in 1 .. i - 1 : ~Fits(Z.list[j], lay)
<1>1. T \subseteq Nat /\ T # {}
  BY DEF ZoneFits
<1>2. PICK m \in T : \A y \in T : m <= y
  <2>. HIDE DEF T
  <2>. QED BY <1>1, Least
<1>3. m \in DOMAIN Z.list /\ Fits(Z.list[m], lay) /\ DOMAIN Z.list = 1 .. Len(Z.list) /\ Len(Z.list) \in Nat
  OBVIOUS
<1>4. \A j \in 1 .. m - 1 : ~Fits(Z.list[j], lay)
  <2>. SUFFICES ASSUME NEW j \in 1 .. m - 1, Fits(Z.list[j], lay) PROVE FALSE
    OBVIOUS
  <2>1. j \in DOMAIN Z.list /\ ~ (m <= j)
    BY <1>3
  <2>. QED BY <1>2, <2>1
<1>5. Good(m)
  BY <1>3, <1>4
<1>6. FirstFit(Z, lay) = CHOOSE i \in DOMAIN Z.list : Good(i)
  BY DEF FirstFit
<1>. HIDE DEF Good
<1>7. FirstFit(Z, lay) \in DOMAIN Z.list /\ Good(FirstFit(Z, lay))
  BY <1>3, <1>5, <1>6
<1>. QED
  BY <1>7 DEF Good

(* HeapZone::alloc: the block it cuts off is in use, and the rest is tiled. *)
LEMMA ZoneAllocInv ==
  ASSUME NEW Z \in HeapZone, NEW U, ListInv(Z, U), NEW lay \in Layouts, ZoneFits(Z, lay)
  PROVE  LET W == ZoneAlloc(Z, lay)
             x == <<ZoneAllocAddr(Z, lay), AlignUp(lay.size, Chunk)>>
         IN W \in HeapZone /\ ListInv(W, U \cup {x}) /\ W.base = Z.base /\ W.len = Z.len /\ W.mem = Z.mem /\ x \notin U
<1>. DEFINE s == Z.list
            i == FirstFit(Z, lay)
            n == s[i]
            c == CutAt(n, lay)
            left == c - n.addr
            A == AlignUp(lay.size, Chunk)
            x == <<c, A>>
            W == ZoneAlloc(Z, lay)
            lo == Z.base + InitialChunk
            hi == Z.base + Z.len
            V == U \cup {x}
            t == Tile(n)
            T == NodeTiles(s) \cup U
<1>1. /\ s \in Seq(HeapNode) /\ Sorted(s) /\ Z.space = NodeSum(s) /\ Len(s) \in Nat /\ DOMAIN s = 1 .. Len(s)
      /\ NodeTiles(s) \cap U = {} /\ Tiling(T, lo, hi)
      /\ \A u \in U : u[1] % Chunk = 0
  BY ListParts
<1>2. i \in DOMAIN s /\ Fits(n, lay)
  BY <1>1, FirstFitIs
<1>3. /\ n \in HeapNode /\ n.addr \in Nat /\ n.size \in Nat \ {0}
      /\ n.addr % Chunk = 0 /\ n.size % Chunk = 0
  BY <1>2, ListParts
<1>4. /\ c \in Nat /\ c % Chunk = 0 /\ n.addr <= c /\ A \in Nat \ {0} /\ A % Chunk = 0
      /\ c + A = n.addr + n.size /\ left \in Nat /\ left % Chunk = 0 /\ (left >= Chunk \/ c = n.addr)
  BY <1>2, <1>3, CutIs
<1>5. ZoneAllocAddr(Z, lay) = c
  BY DEF ZoneAllocAddr
<1>6. W = IF left >= Chunk
          THEN [Z EXCEPT !.list[i].size = left, !.space = @ - n.size + left]
          ELSE [Z EXCEPT !.list = RemoveAt(@, i), !.space = @ - n.size]
  BY DEF ZoneAlloc
<1>7. lo \in Nat /\ hi \in Nat /\ Chunk \in Nat \ {0}
  BY HeapFacts DEF HeapZone
<1>8. t \in NodeTiles(s) /\ t \in T /\ t = <<n.addr, n.size>> /\ t[1] = n.addr /\ t[2] = n.size
  BY <1>1, <1>2, NodeTile DEF Tile
<1>9. \A u \in V : u[1] % Chunk = 0
  BY <1>1, <1>4
<1>10. CASE left >= Chunk
  <2>. DEFINE m == [addr |-> n.addr, size |-> left]
              r == [s EXCEPT ![i] = m]
              v == Z.space - n.size + left
              y == <<n.addr, left>>
  <2>1. m \in HeapNode /\ m.addr = n.addr /\ m.size = left /\ Tile(m) = y
    BY <1>3, <1>4 DEF HeapNode, Tile
  <2>2. W = NewList(Z, r, v)
    <3>1. [n EXCEPT !.size = left] = m
      BY <1>3 DEF HeapNode
    <3>2. W = [Z EXCEPT !.list = [s EXCEPT ![i] = [s[i] EXCEPT !.size = left]], !.space = v]
      BY <1>6, <1>10
    <3>. QED BY <3>1, <3>2 DEF NewList
  <2>3. Spliced(s, r, i - 1, i, <<m>>)
    BY <1>1, <1>2, <2>1, ReplacedOne
  <2>4. /\ NodeTiles(<<m>>) = {y} /\ Weight(<<m>>) = left /\ <<m>>[1] = m /\ DOMAIN <<m>> = {1}
    BY <2>1, FewTiles
  <2>. HIDE DEF r, m
  <2>5. NodeTiles(r) = (NodeTiles(s) \ {t}) \cup {y} /\ NodeSum(r) = NodeSum(s) - n.size + left
    BY <1>1, <1>2, <2>3, <2>4, OneGone
  <2>6. v = NodeSum(r)
    BY <1>1, <2>5
  <2>7. Between(s, i - 1, i, <<m>>)
    <3>. SUFFICES ASSUME NEW k \in DOMAIN <<m>>
                  PROVE  /\ \A j \in 1 .. i - 1 : s[j].addr + s[j].size < <<m>>[k].addr
                         /\ \A j \in i + 1 .. Len(s) : <<m>>[k].addr + <<m>>[k].size < s[j].addr
      BY DEF Between
    <3>1. <<m>>[k] = m
      BY <2>4
    <3>2. ASSUME NEW j \in 1 .. i - 1 PROVE s[j].addr + s[j].size < m.addr
      <4>1. j \in DOMAIN s /\ j < i
        BY <1>1, <1>2
      <4>2. s[j].addr + s[j].size < n.addr
        BY <1>1, <1>2, <4>1 DEF Sorted
      <4>. QED BY <2>1, <4>2
    <3>3. ASSUME NEW j \in i + 1 .. Len(s) PROVE m.addr + m.size < s[j].addr
      <4>1. j \in DOMAIN s /\ i < j
        BY <1>1, <1>2
      <4>2. n.addr + n.size < s[j].addr
        BY <1>1, <1>2, <4>1 DEF Sorted
      <4>3. s[j].addr \in Nat
        BY <4>1, ListParts
      <4>4. left <= n.size
        <5>. HIDE DEF n, c, A
        <5>. QED BY <1>3, <1>4
      <4>. HIDE DEF n, left
      <4>. QED BY <1>3, <1>4, <2>1, <4>2, <4>3, <4>4
    <3>. QED BY <3>1, <3>2, <3>3
  <2>8. Tiling({y, x}, t[1], t[1] + t[2]) /\ x # y
    <3>1. left \in Nat \ {0}
      BY <1>4, <1>7, <1>10
    <3>2. Tiling({y}, n.addr, n.addr + left)
      BY <1>3, <3>1, TilingOne
    <3>3. Tiling({x}, c, c + A)
      BY <1>4, TilingOne
    <3>4. n.addr + left = c
      <4>. HIDE DEF n, c
      <4>. QED BY <1>3, <1>4
    <3>5. c <= c + A /\ c + A \in Nat
      BY <1>4
    <3>. HIDE DEF n, c, A, left, x, y
    <3>6. Tiling({y} \cup {x}, n.addr, c + A) /\ {y} \cap {x} = {}
      BY ONLY <1>3, <1>4, <3>2, <3>3, <3>4, <3>5, TilingJoin
    <3>7. {y} \cup {x} = {y, x} /\ c + A = t[1] + t[2]
      BY <1>4, <1>8
    <3>. QED BY <1>8, <3>6, <3>7
  <2>. HIDE DEF x, y, T, t, lo, hi, s, n, left
  <2>9. Tiling((T \ {t}) \cup {y, x}, lo, hi) /\ (T \ {t}) \cap {y, x} = {}
    <3>. DEFINE S == {y, x}
    <3>1. Tiling(T, lo, hi) /\ Tiling(S, t[1], t[1] + t[2]) /\ t \in T /\ lo \in Nat /\ hi \in Nat
      BY <1>1, <1>7, <1>8, <2>8
    <3>. HIDE DEF S
    <3>2. Tiling((T \ {t}) \cup S, lo, hi) /\ (T \ {t}) \cap S = {}
      BY ONLY <3>1, TilingRefine
    <3>. QED BY <3>2 DEF S
  <2>10. NodeTiles(r) \cup V = (T \ {t}) \cup {y, x} /\ NodeTiles(r) \cap V = {} /\ x \notin U
    BY <1>1, <1>8, <2>5, <2>8, <2>9 DEF T
  <2>11. \A k \in DOMAIN <<m>> : <<m>>[k].addr % Chunk = 0 /\ <<m>>[k].size % Chunk = 0
    BY <1>3, <1>4, <2>1, <2>4
  <2>12. Tiling(NodeTiles(r) \cup V, Z.base + InitialChunk, Z.base + Z.len)
    BY <2>9, <2>10 DEF lo, hi
  <2>. HIDE DEF v, V, W
  <2>13. Spliced(Z.list, r, i - 1, i, <<m>>) /\ Between(Z.list, i - 1, i, <<m>>)
    BY <2>3, <2>7 DEF s
  <2>14. W \in HeapZone /\ ListInv(W, V) /\ W.base = Z.base /\ W.len = Z.len /\ W.mem = Z.mem
    <3>1. Relisted(Z, r, i - 1, i, <<m>>, V)
      BY <1>9, <2>10, <2>11, <2>12, <2>13 DEF Relisted
    <3>. QED BY <2>2, <2>6, <3>1, ListChanged
  <2>. QED BY <1>5, <2>10, <2>14 DEF W, V, x
<1>11. CASE ~ (left >= Chunk)
  <2>. DEFINE r == RemoveAt(s, i)
              v == Z.space - n.size
              E == << >>
  <2>1. c = n.addr /\ A = n.size /\ x = t
    <3>1. c = n.addr /\ A = n.size
      <4>. HIDE DEF n, c, A
      <4>. QED BY <1>3, <1>4, <1>11
    <3>. QED BY <1>8, <3>1
  <2>2. W = NewList(Z, r, v)
    BY <1>6, <1>11 DEF NewList
  <2>3. Spliced(s, r, i - 1, i, E)
    BY <1>1, <1>2, RemovedOne
  <2>4. NodeTiles(E) = {} /\ Weight(E) = 0 /\ DOMAIN E = {}
    BY <1>3, FewTiles
  <2>. HIDE DEF r, E
  <2>5. NodeTiles(r) = NodeTiles(s) \ {t} /\ NodeSum(r) = NodeSum(s) - n.size
    <3>1. NodeTiles(r) = (NodeTiles(s) \ {t}) \cup NodeTiles(E) /\ NodeSum(r) = NodeSum(s) - n.size + Weight(E)
      BY <1>1, <1>2, <2>3, OneGone
    <3>2. NodeSum(s) \in Nat
      BY <1>1, NodeTerms
    <3>. HIDE DEF n, s, t
    <3>. QED BY <1>3, <2>4, <3>1, <3>2
  <2>6. v = NodeSum(r)
    BY <1>1, <2>5
  <2>7. Between(s, i - 1, i, E)
    BY <2>4 DEF Between
  <2>. HIDE DEF x, T, t, lo, hi, s, n, left
  <2>8. NodeTiles(r) \cup V = T /\ NodeTiles(r) \cap V = {} /\ x \notin U
    BY <1>1, <1>8, <2>1, <2>5 DEF T
  <2>9. \A k \in DOMAIN E : E[k].addr % Chunk = 0 /\ E[k].size % Chunk = 0
    BY <2>4
  <2>10. Tiling(NodeTiles(r) \cup V, Z.base + InitialChunk, Z.base + Z.len)
    BY <1>1, <2>8 DEF lo, hi
  <2>. HIDE DEF v, V, W
  <2>11. Spliced(Z.list, r, i - 1, i, E) /\ Between(Z.list, i - 1, i, E)
    BY <2>3, <2>7 DEF s
  <2>12. W \in HeapZone /\ ListInv(W, V) /\ W.base = Z.base /\ W.len = Z.len /\ W.mem = Z.mem
    <3>1. Relisted(Z, r, i - 1, i, E, V)
      BY <1>9, <2>8, <2>9, <2>10, <2>11 DEF Relisted
    <3>. QED BY <2>2, <2>6, <3>1, ListChanged
  <2>. QED BY <1>5, <2>8, <2>12 DEF W, V, x
<1>. QED
  BY <1>10, <1>11

(* HeapZone::dealloc: get_prev_next_node finds the place of the block, *)
LEMMA NodesBelowIs ==
  ASSUME NEW s \in Seq(HeapNode), NEW a \in Nat
  PROVE  /\ NodesBelow(s, a) \in 0 .. Len(s)
         /\ \A j \in 1 .. NodesBelow(s, a) : s[j].addr <= a
         /\ NodesBelow(s, a) < Len(s) => s[NodesBelow(s, a) + 1].addr > a
<1>. DEFINE n == Len(s)
            Above(k) == k < n => s[k + 1].addr > a
            Good(k) == (\A j \in 1 .. k : s[j].addr <= a) /\ Above(k)
            T == {k \in Nat : Above(k)}
<1>1. n \in Nat /\ \A j \in 1 .. n : s[j].addr \in Nat
  BY NodeTerms
<1>2. NodesBelow(s, a) = CHOOSE k \in 0 .. n : Good(k)
  BY DEF NodesBelow
<1>. HIDE DEF n
<1>3. T \subseteq Nat /\ n \in T
  BY <1>1
<1>4. PICK m \in T : \A y \in T : m <= y
  <2>. HIDE DEF T
  <2>. QED BY <1>3, Least
<1>5. m \in 0 .. n /\ m \in Nat
  BY <1>1, <1>3, <1>4
<1>6. ASSUME NEW j \in 1 .. m PROVE s[j].addr <= a
  <2>1. j - 1 \in Nat /\ ~ (m <= j - 1) /\ (j - 1) + 1 = j /\ j \in 1 .. n
    BY <1>1, <1>5
  <2>2. j - 1 \notin T
    BY <1>4, <2>1
  <2>3. ~ (s[j].addr > a) /\ s[j].addr \in Nat
    BY <1>1, <2>1, <2>2
  <2>. QED BY <2>3
<1>7. Good(m)
  BY <1>4, <1>6
<1>. HIDE DEF Good
<1>8. NodesBelow(s, a) \in 0 .. n /\ Good(NodesBelow(s, a))
  BY <1>2, <1>5, <1>7
<1>. QED
  BY <1>8 DEF Good, n

(* and merging gives a list that ends in the node that holds it. *)
Joint(n, m) == [n EXCEPT !.size = @ + m.size]
Touches(n, m) == n.addr + n.size = m.addr
EndsIn(s, L, lo, m) ==
  /\ L \in Seq(HeapNode) /\ m \in HeapNode /\ lo \in Nat /\ Len(L) = lo + 1 /\ L[lo + 1] = m
  /\ \A j \in 1 .. lo : L[j] = s[j]

(* Node::merge joins two nodes that touch. *)
LEMMA JointIs ==
  ASSUME NEW n \in HeapNode, NEW m \in HeapNode
  PROVE  /\ Joint(n, m) \in HeapNode /\ Joint(n, m).addr = n.addr /\ Joint(n, m).size = n.size + m.size
         /\ Merge(n, m) = IF Touches(n, m) THEN <<Joint(n, m)>> ELSE <<n, m>>
         /\ n.addr \in Nat /\ n.size \in Nat /\ m.addr \in Nat /\ m.size \in Nat
<1>1. n.addr \in Nat /\ n.size \in Nat /\ m.addr \in Nat /\ m.size \in Nat
  BY DEF HeapNode
<1>2. n.size + m.size \in Nat
  BY <1>1
<1>3. Joint(n, m) \in HeapNode /\ Joint(n, m).addr = n.addr /\ Joint(n, m).size = n.size + m.size
  BY <1>2 DEF Joint, HeapNode
<1>4. Merge(n, m) = IF Touches(n, m) THEN <<Joint(n, m)>> ELSE <<n, m>>
  BY DEF Merge, Touches, Joint
<1>. QED
  BY <1>1, <1>3, <1>4

(* dealloc, first half: the freed block is merged with the node before it. *)
LEMMA MergedLeft ==
  ASSUME NEW s \in Seq(HeapNode), NEW k \in 0 .. Len(s), NEW c \in HeapNode,
         NEW below, below = SubSeq(s, 1, k),
         NEW L, L = IF below = << >> THEN <<c>> ELSE Front(below) \o Merge(Last(below), c)
  PROVE  IF k > 0 /\ Touches(s[k], c) THEN EndsIn(s, L, k - 1, Joint(s[k], c)) ELSE EndsIn(s, L, k, c)
<1>1. Len(s) \in Nat /\ k \in Nat /\ k <= Len(s)
  OBVIOUS
<1>2. below \in Seq(HeapNode) /\ Len(below) = k /\ \A j \in 1 .. k : below[j] = s[j]
  <2>1. 1 \in 1 .. Len(s) + 1 /\ k \in 1 - 1 .. Len(s) /\ k - 1 + 1 = k
    BY <1>1
  <2>2. /\ SubSeq(s, 1, k) \in Seq(HeapNode) /\ Len(SubSeq(s, 1, k)) = k - 1 + 1
        /\ \A j \in 1 .. k - 1 + 1 : SubSeq(s, 1, k)[j] = s[1 + j - 1]
    BY ONLY <2>1, Slice, s \in Seq(HeapNode)
  <2>3. \A j \in 1 .. k : 1 + j - 1 = j
    BY <1>1
  <2>. QED BY <2>1, <2>2, <2>3
<1>3. CASE k = 0
  <2>1. below = << >>
    BY <1>2, <1>3
  <2>2. L = <<c>>
    BY <2>1
  <2>3. L \in Seq(HeapNode) /\ Len(L) = 1 /\ L[1] = c
    BY ONLY <2>2, c \in HeapNode
  <2>4. EndsIn(s, L, 0, c)
    <3>1. 0 + 1 = 1 /\ 1 .. 0 = {} /\ 0 \in Nat
      OBVIOUS
    <3>. QED BY ONLY <2>3, <3>1, c \in HeapNode DEF EndsIn
  <2>. QED BY <1>3, <2>4
<1>4. CASE k > 0
  <2>. DEFINE F == Front(below)
              n == s[k]
              G == Merge(n, c)
  <2>1. below # << >> /\ Last(below) = n
    <3>1. k \in 1 .. k
      BY <1>1, <1>4
    <3>. QED BY <1>2, <1>4, <3>1 DEF Last
  <2>2. L = F \o G
    BY <2>1
  <2>3. F \in Seq(HeapNode) /\ Len(F) = k - 1 /\ \A j \in 1 .. k - 1 : F[j] = s[j]
    <3>1. 1 \in 1 .. Len(below) + 1 /\ k - 1 \in 1 - 1 .. Len(below) /\ k - 1 - 1 + 1 = k - 1
      BY <1>1, <1>2, <1>4
    <3>2. /\ SubSeq(below, 1, k - 1) \in Seq(HeapNode) /\ Len(SubSeq(below, 1, k - 1)) = k - 1 - 1 + 1
          /\ \A j \in 1 .. k - 1 - 1 + 1 : SubSeq(below, 1, k - 1)[j] = below[1 + j - 1]
      BY ONLY <1>2, <3>1, Slice
    <3>3. \A j \in 1 .. k - 1 : 1 + j - 1 = j /\ j \in 1 .. k
      BY <1>1
    <3>4. F = SubSeq(below, 1, k - 1)
      BY <1>2 DEF Front
    <3>. HIDE DEF F
    <3>. QED BY <1>2, <3>1, <3>2, <3>3, <3>4
  <2>4. n \in HeapNode
    BY <1>1, <1>4
  <2>5. Joint(n, c) \in HeapNode /\ G = IF Touches(n, c) THEN <<Joint(n, c)>> ELSE <<n, c>>
    BY <2>4, JointIs
  <2>. HIDE DEF F, n, G
  <2>6. CASE Touches(n, c)
    <3>1. G \in Seq(HeapNode) /\ Len(G) = 1 /\ G[1] = Joint(n, c)
      BY <2>5, <2>6
    <3>2. /\ F \o G \in Seq(HeapNode) /\ Len(F \o G) = (k - 1) + 1
          /\ \A j \in 1 .. k - 1 : (F \o G)[j] = F[j]
          /\ \A j \in (k - 1) + 1 .. (k - 1) + 1 : (F \o G)[j] = G[j - (k - 1)]
      <4>1. /\ F \o G \in Seq(HeapNode) /\ Len(F \o G) = Len(F) + Len(G)
            /\ \A j \in 1 .. Len(F) : (F \o G)[j] = F[j]
            /\ \A j \in Len(F) + 1 .. Len(F) + Len(G) : (F \o G)[j] = G[j - Len(F)]
        BY ONLY <2>3, <3>1, Concat
      <4>2. Len(F) = k - 1 /\ Len(G) = 1
        BY <2>3, <3>1
      <4>. QED BY ONLY <4>1, <4>2
    <3>3. (k - 1) + 1 = k /\ k - (k - 1) = 1 /\ k \in (k - 1) + 1 .. (k - 1) + 1 /\ k - 1 \in Nat
      BY <1>1, <1>4
    <3>4. EndsIn(s, L, k - 1, Joint(n, c))
      BY <2>2, <2>3, <2>5, <3>1, <3>2, <3>3 DEF EndsIn
    <3>. QED BY <1>4, <2>6, <3>4 DEF n
  <2>7. CASE ~ Touches(n, c)
    <3>1. G \in Seq(HeapNode) /\ Len(G) = 2 /\ G[1] = n /\ G[2] = c
      BY <2>4, <2>5, <2>7
    <3>2. /\ F \o G \in Seq(HeapNode) /\ Len(F \o G) = (k - 1) + 2
          /\ \A j \in 1 .. k - 1 : (F \o G)[j] = F[j]
          /\ \A j \in (k - 1) + 1 .. (k - 1) + 2 : (F \o G)[j] = G[j - (k - 1)]
      <4>1. /\ F \o G \in Seq(HeapNode) /\ Len(F \o G) = Len(F) + Len(G)
            /\ \A j \in 1 .. Len(F) : (F \o G)[j] = F[j]
            /\ \A j \in Len(F) + 1 .. Len(F) + Len(G) : (F \o G)[j] = G[j - Len(F)]
        BY ONLY <2>3, <3>1, Concat
      <4>2. Len(F) = k - 1 /\ Len(G) = 2
        BY <2>3, <3>1
      <4>. QED BY ONLY <4>1, <4>2
    <3>3. /\ (k - 1) + 2 = k + 1 /\ k - (k - 1) = 1 /\ (k + 1) - (k - 1) = 2
          /\ k \in (k - 1) + 1 .. (k - 1) + 2 /\ k + 1 \in (k - 1) + 1 .. (k - 1) + 2
      BY <1>1
    <3>4. L[k] = s[k] /\ L[k + 1] = c /\ Len(L) = k + 1
      BY <2>2, <3>1, <3>2, <3>3 DEF n
    <3>5. \A j \in 1 .. k : j = k \/ j \in 1 .. k - 1
      BY <1>1
    <3>6. \A j \in 1 .. k : L[j] = s[j]
      BY <2>2, <2>3, <3>2, <3>4, <3>5
    <3>7. EndsIn(s, L, k, c)
      BY <1>1, <2>2, <3>2, <3>4, <3>6 DEF EndsIn
    <3>. QED BY <2>7, <3>7 DEF n
  <2>. QED BY <2>6, <2>7
<1>5. k = 0 \/ k > 0
  BY <1>1
<1>. QED
  BY <1>3, <1>4, <1>5

(* Three lists, one behind the other. *)
LEMMA ConcatThree ==
  ASSUME NEW S, NEW F \in Seq(S), NEW G \in Seq(S), NEW H \in Seq(S), NEW r, r = F \o G \o H
  PROVE  /\ r \in Seq(S) /\ Len(r) = Len(F) + Len(G) + Len(H)
         /\ \A j \in 1 .. Len(F) : r[j] = F[j]
         /\ \A j \in 1 .. Len(G) : r[Len(F) + j] = G[j]
         /\ \A j \in 1 .. Len(H) : r[Len(F) + Len(G) + j] = H[j]
<1>. DEFINE K == F \o G
            f == Len(F)
            g == Len(G)
            h == Len(H)
<1>1. f \in Nat /\ g \in Nat /\ h \in Nat
  OBVIOUS
<1>2. /\ K \in Seq(S) /\ Len(K) = f + g
      /\ \A k \in 1 .. f : K[k] = F[k]
      /\ \A k \in f + 1 .. f + g : K[k] = G[k - f]
  BY Concat
<1>3. r = K \o H
  OBVIOUS
<1>. HIDE DEF K
<1>4. /\ r \in Seq(S) /\ Len(r) = Len(K) + h
      /\ \A k \in 1 .. Len(K) : r[k] = K[k]
      /\ \A k \in Len(K) + 1 .. Len(K) + h : r[k] = H[k - Len(K)]
  <2>1. K \in Seq(S)
    BY <1>2
  <2>2. /\ K \o H \in Seq(S) /\ Len(K \o H) = Len(K) + Len(H)
        /\ \A k \in 1 .. Len(K) : (K \o H)[k] = K[k]
        /\ \A k \in Len(K) + 1 .. Len(K) + Len(H) : (K \o H)[k] = H[k - Len(K)]
    BY ONLY <2>1, H \in Seq(S), Concat
  <2>. QED BY ONLY <1>3, <2>2 DEF h
<1>. HIDE DEF f, g, h
<1>5. \A j \in 1 .. f : r[j] = F[j]
  <2>. TAKE j \in 1 .. f
  <2>1. j \in 1 .. Len(K)
    BY <1>1, <1>2
  <2>. QED BY <1>2, <1>4, <2>1
<1>6. \A j \in 1 .. g : r[f + j] = G[j]
  <2>. TAKE j \in 1 .. g
  <2>1. f + j \in 1 .. Len(K) /\ f + j \in f + 1 .. f + g /\ (f + j) - f = j
    BY <1>1, <1>2
  <2>. QED BY <1>2, <1>4, <2>1
<1>7. \A j \in 1 .. h : r[f + g + j] = H[j]
  <2>. TAKE j \in 1 .. h
  <2>1. f + g + j \in Len(K) + 1 .. Len(K) + h /\ (f + g + j) - Len(K) = j
    BY <1>1, <1>2
  <2>. QED BY <1>4, <2>1
<1>. QED
  BY <1>2, <1>4, <1>5, <1>6, <1>7 DEF f, g, h

(* dealloc, second half: the result is merged with the node after it. *)
LEMMA MergedRight ==
  ASSUME NEW s \in Seq(HeapNode), NEW L, NEW lo, NEW m, EndsIn(s, L, lo, m),
         NEW k \in Nat, lo <= k, k <= Len(s), NEW above, above = SubSeq(s, k + 1, Len(s)),
         NEW r, r = IF above = << >> THEN L ELSE Front(L) \o Merge(Last(L), Head(above)) \o Tail(above)
  PROVE  IF k < Len(s) /\ Touches(m, s[k + 1])
         THEN Spliced(s, r, lo, k + 1, <<Joint(m, s[k + 1])>>)
         ELSE Spliced(s, r, lo, k, <<m>>)
<1>. DEFINE n == Len(s)
<1>1. n \in Nat /\ k \in Nat /\ k <= n /\ lo \in Nat /\ lo <= k
  BY DEF EndsIn
<1>2. above \in Seq(HeapNode) /\ Len(above) = n - k /\ \A j \in 1 .. n - k : above[j] = s[k + j]
  <2>1. k + 1 \in 1 .. n + 1 /\ n \in (k + 1) - 1 .. n /\ n - (k + 1) + 1 = n - k
    BY <1>1
  <2>2. /\ above \in Seq(HeapNode) /\ Len(above) = n - (k + 1) + 1
        /\ \A j \in 1 .. n - (k + 1) + 1 : above[j] = s[(k + 1) + j - 1]
    BY <2>1, Slice
  <2>3. \A j \in 1 .. n - k : (k + 1) + j - 1 = k + j
    BY <1>1
  <2>. QED BY <2>1, <2>2, <2>3
<1>3. L \in Seq(HeapNode) /\ m \in HeapNode /\ Len(L) = lo + 1 /\ L[lo + 1] = m /\ \A j \in 1 .. lo : L[j] = s[j]
  BY DEF EndsIn
<1>4. CASE k = n
  <2>1. above = << >>
    BY <1>1, <1>2, <1>4
  <2>2. r = L
    BY <2>1
  <2>3. <<m>> \in Seq(HeapNode) /\ Len(<<m>>) = 1 /\ <<m>>[1] = m
    BY <1>3
  <2>. DEFINE E == <<m>>
  <2>. HIDE DEF E, n
  <2>4. \A j \in 1 .. Len(E) : r[lo + j] = E[j]
    <3>. TAKE j \in 1 .. Len(E)
    <3>1. j = 1
      BY <2>3 DEF E
    <3>. QED BY <1>3, <2>2, <2>3, <3>1 DEF E
  <2>5. Len(r) = lo + Len(E) + (n - k) /\ Len(E) <= 1
    <3>1. Len(r) = lo + 1 /\ Len(E) = 1 /\ lo \in Nat /\ k \in Nat /\ n = k
      BY <1>1, <1>3, <1>4, <2>2, <2>3 DEF E
    <3>. QED BY ONLY <3>1
  <2>6. k + 1 .. n = {}
    BY <1>1, <1>4
  <2>7. Spliced(s, r, lo, k, E)
    BY <1>1, <1>3, <2>2, <2>3, <2>4, <2>5, <2>6 DEF Spliced, n, E
  <2>. QED BY <1>1, <1>4, <2>7 DEF n, E
<1>5. CASE k < n
  <2>. DEFINE F == Front(L)
              h == s[k + 1]
              G == Merge(m, h)
              H == Tail(above)
  <2>1. Last(L) = m
    BY <1>3 DEF Last
  <2>2. above # << >> /\ Head(above) = h
    <3>1. Len(above) # 0 /\ 1 \in 1 .. n - k
      BY <1>1, <1>2, <1>5
    <3>2. above # << >>
      BY <3>1
    <3>3. Head(above) = above[1] /\ above[1] = h
      BY <1>2, <3>1, <3>2
    <3>. QED BY <3>2, <3>3
  <2>3. H \in Seq(HeapNode) /\ Len(H) = n - k - 1 /\ \A j \in 1 .. n - k - 1 : H[j] = s[k + 1 + j]
    <3>1. H \in Seq(HeapNode) /\ Len(H) = Len(above) - 1 /\ \A j \in 1 .. Len(above) - 1 : H[j] = above[j + 1]
      BY <1>2, <2>2
    <3>2. \A j \in 1 .. n - k - 1 : j + 1 \in 1 .. n - k /\ k + (j + 1) = k + 1 + j
      BY <1>1
    <3>. HIDE DEF H
    <3>. QED BY <1>1, <1>2, <3>1, <3>2
  <2>4. F \in Seq(HeapNode) /\ Len(F) = lo /\ \A j \in 1 .. lo : F[j] = s[j]
    <3>1. 1 \in 1 .. Len(L) + 1 /\ lo \in 1 - 1 .. Len(L) /\ lo - 1 + 1 = lo /\ Len(L) - 1 = lo
      BY <1>1, <1>3
    <3>2. /\ SubSeq(L, 1, lo) \in Seq(HeapNode) /\ Len(SubSeq(L, 1, lo)) = lo - 1 + 1
          /\ \A j \in 1 .. lo - 1 + 1 : SubSeq(L, 1, lo)[j] = L[1 + j - 1]
      BY ONLY <1>3, <3>1, Slice
    <3>3. \A j \in 1 .. lo : 1 + j - 1 = j
      BY <1>1
    <3>4. F = SubSeq(L, 1, lo)
      BY <3>1 DEF Front
    <3>. HIDE DEF F
    <3>. QED BY <1>3, <3>1, <3>2, <3>3, <3>4
  <2>5. h \in HeapNode
    <3>1. k + 1 \in DOMAIN s
      BY <1>1, <1>5
    <3>. QED BY <3>1
  <2>6. Joint(m, h) \in HeapNode /\ G = IF Touches(m, h) THEN <<Joint(m, h)>> ELSE <<m, h>>
    BY <1>3, <2>5, JointIs
  <2>7. r = F \o G \o H
    BY <2>1, <2>2
  <2>. HIDE DEF F, G, H, h, n
  <2>8. CASE Touches(m, h)
    <3>. DEFINE E == <<Joint(m, h)>>
    <3>1. E \in Seq(HeapNode) /\ Len(E) = 1 /\ G = E
      BY <2>6, <2>8
    <3>. HIDE DEF E
    <3>2. /\ r \in Seq(HeapNode) /\ Len(r) = Len(F) + Len(E) + Len(H)
          /\ \A j \in 1 .. Len(F) : r[j] = F[j]
          /\ \A j \in 1 .. Len(E) : r[Len(F) + j] = E[j]
          /\ \A j \in 1 .. Len(H) : r[Len(F) + Len(E) + j] = H[j]
      <4>1. F \in Seq(HeapNode) /\ E \in Seq(HeapNode) /\ H \in Seq(HeapNode) /\ r = F \o E \o H
        BY ONLY <2>3, <2>4, <2>7, <3>1
      <4>. QED BY ONLY <4>1, ConcatThree
    <3>3. \A j \in 1 .. lo : r[j] = s[j]
      BY <2>4, <3>2
    <3>4. \A j \in (k + 1) + 1 .. n : r[j - (k + 1) + lo + Len(E)] = s[j]
      <4>. TAKE j \in (k + 1) + 1 .. n
      <4>. DEFINE i == j - (k + 1)
      <4>1. i \in 1 .. n - k - 1 /\ k + 1 + i = j /\ j - (k + 1) + lo + Len(E) = lo + Len(E) + i
        BY <1>1, <3>1
      <4>. HIDE DEF i
      <4>2. r[lo + Len(E) + i] = H[i] /\ H[i] = s[j]
        BY <2>3, <2>4, <3>2, <4>1
      <4>. QED BY <4>1, <4>2
    <3>5. /\ lo <= k + 1 /\ k + 1 <= n /\ k + 1 \in Nat /\ Len(E) <= 1
          /\ Len(r) = lo + Len(E) + (n - (k + 1))
      <4>1. Len(F) = lo /\ Len(H) = n - k - 1 /\ Len(E) = 1 /\ Len(r) = Len(F) + Len(E) + Len(H)
        BY <2>3, <2>4, <3>1, <3>2
      <4>. QED BY ONLY <1>1, <1>5, <4>1
    <3>6. \A j \in 1 .. Len(E) : r[lo + j] = E[j]
      BY <2>4, <3>2
    <3>7. Spliced(s, r, lo, k + 1, E)
      BY <1>1, <3>1, <3>2, <3>3, <3>4, <3>5, <3>6 DEF Spliced, n
    <3>. QED BY <1>5, <2>8, <3>7 DEF E, h, n
  <2>9. CASE ~ Touches(m, h)
    <3>. DEFINE E == <<m>>
    <3>1. /\ G \in Seq(HeapNode) /\ Len(G) = 2 /\ G[1] = m /\ G[2] = h
      BY <1>3, <2>5, <2>6, <2>9
    <3>2. E \in Seq(HeapNode) /\ Len(E) = 1 /\ E[1] = m
      BY <1>3
    <3>. HIDE DEF E
    <3>3. /\ r \in Seq(HeapNode) /\ Len(r) = Len(F) + Len(G) + Len(H)
          /\ \A j \in 1 .. Len(F) : r[j] = F[j]
          /\ \A j \in 1 .. Len(G) : r[Len(F) + j] = G[j]
          /\ \A j \in 1 .. Len(H) : r[Len(F) + Len(G) + j] = H[j]
      <4>1. F \in Seq(HeapNode) /\ G \in Seq(HeapNode) /\ H \in Seq(HeapNode)
        BY ONLY <2>3, <2>4, <3>1
      <4>. QED BY ONLY <4>1, <2>7, ConcatThree
    <3>4. \A j \in 1 .. lo : r[j] = s[j]
      BY <2>4, <3>3
    <3>5. r[lo + 1] = m /\ r[lo + 2] = h
      <4>1. 1 \in 1 .. Len(G) /\ 2 \in 1 .. Len(G)
        BY <3>1
      <4>. QED BY <2>4, <3>1, <3>3, <4>1
    <3>6. \A j \in k + 1 .. n : r[j - k + lo + Len(E)] = s[j]
      <4>. TAKE j \in k + 1 .. n
      <4>1. CASE j = k + 1
        <5>1. j - k + lo + Len(E) = lo + 2
          BY <1>1, <3>2, <4>1
        <5>. QED BY <3>5, <4>1, <5>1 DEF h
      <4>2. CASE j # k + 1
        <5>. DEFINE i == j - (k + 1)
        <5>1. i \in 1 .. n - k - 1 /\ k + 1 + i = j /\ j - k + lo + Len(E) = lo + 2 + i
          BY <1>1, <3>2, <4>2
        <5>. HIDE DEF i
        <5>2. r[lo + 2 + i] = H[i] /\ H[i] = s[j]
          BY <2>3, <2>4, <3>1, <3>3, <5>1
        <5>. QED BY <5>1, <5>2
      <4>. QED BY <4>1, <4>2
    <3>7. /\ Len(E) <= 1 /\ Len(r) = lo + Len(E) + (n - k)
      <4>1. /\ Len(F) = lo /\ Len(H) = n - k - 1 /\ Len(E) = 1 /\ Len(G) = 2
            /\ Len(r) = Len(F) + Len(G) + Len(H)
        BY <2>3, <2>4, <3>1, <3>2, <3>3
      <4>. QED BY ONLY <1>1, <1>5, <4>1
    <3>8. \A j \in 1 .. Len(E) : r[lo + j] = E[j]
      <4>. TAKE j \in 1 .. Len(E)
      <4>1. j = 1
        BY <3>2
      <4>. QED BY <3>2, <3>5, <4>1
    <3>9. Spliced(s, r, lo, k, E)
      BY <1>1, <3>2, <3>3, <3>4, <3>6, <3>7, <3>8 DEF Spliced, n
    <3>. QED BY <2>9, <3>9 DEF E, h, n
  <2>. QED BY <2>8, <2>9
<1>6. k = n \/ k < n
  BY <1>1
<1>. QED
  BY <1>4, <1>5, <1>6

(* Every node lies below or above a block that is in use. *)
LEMMA Around ==
  ASSUME NEW Z, NEW U, ListInv(Z, U), NEW u \in U, NEW k, k = NodesBelow(Z.list, u[1])
  PROVE  /\ k \in 0 .. Len(Z.list)
         /\ \A j \in 1 .. k : Z.list[j].addr + Z.list[j].size <= u[1]
         /\ \A j \in k + 1 .. Len(Z.list) : u[1] + u[2] <= Z.list[j].addr
<1>. DEFINE s == Z.list
            n == Len(s)
            T == NodeTiles(s) \cup U
<1>1. /\ s \in Seq(HeapNode) /\ Sorted(s) /\ n \in Nat /\ DOMAIN s = 1 .. n
      /\ u[1] \in Nat /\ u[2] \in Nat \ {0} /\ NodeTiles(s) \cap U = {}
      /\ Tiling(T, Z.base + InitialChunk, Z.base + Z.len)
  BY ListParts
<1>2. \A j \in 1 .. n : s[j].addr \in Nat /\ s[j].size \in Nat \ {0}
  BY <1>1, ListParts
<1>3. k \in 0 .. n /\ (\A j \in 1 .. k : s[j].addr <= u[1]) /\ (k < n => s[k + 1].addr > u[1])
  BY <1>1, NodesBelowIs
<1>4. ASSUME NEW j \in 1 .. n
      PROVE  s[j].addr + s[j].size <= u[1] \/ u[1] + u[2] <= s[j].addr
  <2>1. Tile(s[j]) \in NodeTiles(s) /\ Tile(s[j])[1] = s[j].addr /\ Tile(s[j])[2] = s[j].size
    BY <1>1, NodeTile
  <2>2. Tile(s[j]) \in T /\ u \in T /\ Tile(s[j]) # u
    BY <1>1, <2>1
  <2>3. Apart(Tile(s[j]), u)
    BY <1>1, <2>2 DEF Tiling
  <2>. QED BY <2>1, <2>3 DEF Apart
<1>5. ASSUME NEW j \in 1 .. k PROVE s[j].addr + s[j].size <= u[1]
  <2>1. j \in 1 .. n /\ s[j].addr <= u[1]
    BY <1>1, <1>3
  <2>. QED BY <1>1, <1>2, <1>4, <2>1
<1>6. ASSUME NEW j \in k + 1 .. n PROVE u[1] + u[2] <= s[j].addr
  <2>1. j \in 1 .. n /\ k + 1 \in 1 .. n /\ k < n /\ (j = k + 1 \/ k + 1 < j)
    BY <1>1, <1>3
  <2>2. s[k + 1].addr > u[1]
    BY <1>3, <2>1
  <2>3. k + 1 < j => s[k + 1].addr + s[k + 1].size < s[j].addr
    BY <1>1, <2>1 DEF Sorted
  <2>4. s[j].addr > u[1]
    BY <1>1, <1>2, <2>1, <2>2, <2>3
  <2>. QED BY <1>1, <1>2, <1>4, <2>1, <2>4
<1>. QED
  BY <1>3, <1>5, <1>6

(* The free block m has taken the place of the block u and of the nodes    *)
(* lo + 1 .. hi.                                                           *)
Gone(s, u, lo, hi) == {u} \cup {Tile(s[j]) : j \in lo + 1 .. hi}
Grown(Z, U, u, P, lo, hi, m) ==
  LET T == (NodeTiles(Z.list) \cup U) \ Gone(Z.list, u, lo, hi)
  IN /\ Tiling(T \cup {Tile(m)}, Z.base + InitialChunk, Z.base + Z.len) /\ Tile(m) \notin T
     /\ m \in HeapNode /\ m.addr % Chunk = 0 /\ m.size % Chunk = 0
     /\ lo \in Nat /\ hi \in Nat /\ lo <= hi /\ hi <= Len(Z.list)
     /\ m.size = P[hi] - P[lo] + u[2]

(* It begins as the block that is given back, *)
LEMMA GrownStart ==
  ASSUME NEW Z, NEW U, ListInv(Z, U), NEW c \in HeapNode, Tile(c) \in U, c.size % Chunk = 0,
         NEW P, Totals(P, SizesOf(Z.list), 1, Len(Z.list)), NEW k \in 0 .. Len(Z.list)
  PROVE  Grown(Z, U, Tile(c), P, k, k, c)
<1>. DEFINE s == Z.list
            u == Tile(c)
            T == (NodeTiles(s) \cup U) \ Gone(s, u, k, k)
<1>1. k \in Nat /\ k <= Len(s) /\ Len(s) \in Nat
  BY ListParts
<1>2. Gone(s, u, k, k) = {u}
  <2>1. k + 1 .. k = {}
    BY <1>1
  <2>. QED BY <2>1 DEF Gone
<1>3. Tiling(T \cup {u}, Z.base + InitialChunk, Z.base + Z.len) /\ u \notin T
  <2>1. T \cup {u} = NodeTiles(s) \cup U
    BY <1>2
  <2>. QED BY <1>2, <2>1, ListParts
<1>4. c.addr % Chunk = 0 /\ u[1] = c.addr /\ u[2] = c.size /\ c.size \in Nat
  <2>1. u[1] = c.addr /\ u[2] = c.size /\ c.size \in Nat
    BY DEF Tile, HeapNode
  <2>2. u[1] % Chunk = 0
    BY DEF ListInv
  <2>. QED BY <2>1, <2>2
<1>5. P[k] \in Nat
  BY <1>1 DEF Totals
<1>6. c.size = P[k] - P[k] + u[2]
  BY <1>4, <1>5
<1>. QED
  BY <1>1, <1>3, <1>4, <1>6 DEF Grown

(* and takes the node before it or the node behind it when they touch.     *)
LEMMA GrownDown ==
  ASSUME NEW Z \in HeapZone, NEW U, ListInv(Z, U), NEW u \in U, NEW P, Totals(P, SizesOf(Z.list), 1, Len(Z.list)),
         NEW k, NEW c, Grown(Z, U, u, P, k, k, c), k > 0, Touches(Z.list[k], c)
  PROVE  Grown(Z, U, u, P, k - 1, k, Joint(Z.list[k], c))
<1>. DEFINE s == Z.list
            p == s[k]
            m == Joint(p, c)
            lo == Z.base + InitialChunk
            hi == Z.base + Z.len
            T == (NodeTiles(s) \cup U) \ Gone(s, u, k, k)
            R == (NodeTiles(s) \cup U) \ Gone(s, u, k - 1, k)
<1>1. /\ Tiling(T \cup {Tile(c)}, lo, hi) /\ Tile(c) \notin T
      /\ c \in HeapNode /\ c.addr % Chunk = 0 /\ c.size % Chunk = 0
      /\ k \in Nat /\ k <= Len(s) /\ c.size = P[k] - P[k] + u[2]
  BY DEF Grown
<1>2. k \in DOMAIN s /\ s \in Seq(HeapNode) /\ Len(s) \in Nat /\ NodeTiles(s) \cap U = {} /\ u[2] \in Nat
  <2>1. s \in Seq(HeapNode) /\ Len(s) \in Nat /\ NodeTiles(s) \cap U = {} /\ u[2] \in Nat /\ DOMAIN s = 1 .. Len(s)
    BY ListParts
  <2>. QED BY <1>1, <2>1
<1>3. /\ p \in HeapNode /\ p.addr \in Nat /\ p.size \in Nat \ {0} /\ p.addr % Chunk = 0 /\ p.size % Chunk = 0
  BY <1>2, ListParts
<1>4. /\ m \in HeapNode /\ m.addr = p.addr /\ m.size = p.size + c.size
      /\ c.addr \in Nat /\ c.size \in Nat
  BY <1>1, <1>3, JointIs
<1>5. Tile(p) \in NodeTiles(s) /\ Tile(p)[1] = p.addr /\ Tile(p)[2] = p.size
  BY <1>2, NodeTile
<1>6. Tile(c)[1] = c.addr /\ Tile(c)[2] = c.size /\ Tile(m) = <<p.addr, p.size + c.size>>
  BY <1>4 DEF Tile
<1>7. Gone(s, u, k, k) = {u} /\ Gone(s, u, k - 1, k) = {u, Tile(p)}
  <2>1. k + 1 .. k = {} /\ (k - 1) + 1 .. k = {k}
    BY <1>1
  <2>. QED BY <2>1 DEF Gone
<1>8. Tile(p) \in T
  BY <1>2, <1>5, <1>7
<1>. DEFINE S == T \cup {Tile(c)}
<1>9. S \ {Tile(p), Tile(c)} = R
  BY <1>1, <1>7, <1>8
<1>10. Tile(p) \in S /\ Tile(c) \in S /\ Tiling(S, lo, hi)
  BY <1>1, <1>8
<1>11. lo \in Nat /\ hi \in Nat
  <2>1. Z.base \in Nat /\ Z.len \in Nat
    BY DEF HeapZone
  <2>2. InitialChunk \in Nat
    BY HeapFacts
  <2>. QED BY <2>1, <2>2
<1>. HIDE DEF S, R, T, m, lo, hi
<1>12. Tile(p)[1] + Tile(p)[2] = Tile(c)[1] /\ Tile(m) = <<Tile(p)[1], Tile(p)[2] + Tile(c)[2]>>
  BY <1>5, <1>6 DEF Touches
<1>13. Tiling((S \ {Tile(p), Tile(c)}) \cup {Tile(m)}, lo, hi) /\ Tile(m) \notin S \ {Tile(p), Tile(c)}
  BY ONLY <1>10, <1>11, <1>12, TilingMerge
<1>14. Tiling(R \cup {Tile(m)}, lo, hi) /\ Tile(m) \notin R
  BY <1>9, <1>13
<1>15. m.addr % Chunk = 0 /\ m.size % Chunk = 0
  <2>1. Chunk \in Nat \ {0} /\ p.size \in Nat /\ c.size \in Nat /\ p.size % Chunk = 0 /\ c.size % Chunk = 0
    BY <1>1, <1>3, <1>4, HeapFacts
  <2>2. (p.size + c.size) % Chunk = 0
    BY ONLY <2>1, Multiples
  <2>. QED BY <1>3, <1>4, <2>2
<1>16. m.size = P[k] - P[k - 1] + u[2]
  <2>1. P[k] = P[k - 1] + SizesOf(s)[k] /\ P[k - 1] \in Nat /\ SizesOf(s)[k] = p.size
    <3>1. k \in 1 .. Len(s) /\ k - 1 \in 1 - 1 .. Len(s)
      BY <1>1, <1>2
    <3>. QED BY <1>2, <3>1 DEF Totals, SizesOf
  <2>. QED BY <1>1, <1>2, <1>3, <1>4, <2>1
<1>17. k - 1 \in Nat /\ k - 1 <= k
  BY <1>1
<1>. QED
  BY <1>1, <1>4, <1>14, <1>15, <1>16, <1>17 DEF Grown, R, m, lo, hi

(* A freed block that has grown over the node above it. *)
LEMMA GrownUp ==
  ASSUME NEW Z \in HeapZone, NEW U, ListInv(Z, U), NEW u \in U, NEW P, Totals(P, SizesOf(Z.list), 1, Len(Z.list)),
         NEW l, NEW k, NEW c, Grown(Z, U, u, P, l, k, c), k < Len(Z.list), Touches(c, Z.list[k + 1])
  PROVE  Grown(Z, U, u, P, l, k + 1, Joint(c, Z.list[k + 1]))
<1>. DEFINE s == Z.list
            p == s[k + 1]
            m == Joint(c, p)
            lo == Z.base + InitialChunk
            hi == Z.base + Z.len
            T == (NodeTiles(s) \cup U) \ Gone(s, u, l, k)
            R == (NodeTiles(s) \cup U) \ Gone(s, u, l, k + 1)
<1>1. /\ Tiling(T \cup {Tile(c)}, lo, hi) /\ Tile(c) \notin T
      /\ c \in HeapNode /\ c.addr % Chunk = 0 /\ c.size % Chunk = 0
      /\ l \in Nat /\ l <= k /\ k \in Nat /\ k <= Len(s) /\ c.size = P[k] - P[l] + u[2]
  BY DEF Grown
<1>2. /\ k + 1 \in DOMAIN s /\ s \in Seq(HeapNode) /\ Len(s) \in Nat /\ NodeTiles(s) \cap U = {}
      /\ u[2] \in Nat /\ Sorted(s) /\ DOMAIN s = 1 .. Len(s)
  <2>1. /\ s \in Seq(HeapNode) /\ Len(s) \in Nat /\ NodeTiles(s) \cap U = {} /\ u[2] \in Nat
        /\ DOMAIN s = 1 .. Len(s) /\ Sorted(s)
    BY ListParts
  <2>. QED BY <1>1, <2>1
<1>3. /\ p \in HeapNode /\ p.addr \in Nat /\ p.size \in Nat \ {0} /\ p.addr % Chunk = 0 /\ p.size % Chunk = 0
  BY <1>2, ListParts
<1>4. /\ m \in HeapNode /\ m.addr = c.addr /\ m.size = c.size + p.size
      /\ c.addr \in Nat /\ c.size \in Nat
  BY <1>1, <1>3, JointIs
<1>5. Tile(p) \in NodeTiles(s) /\ Tile(p)[1] = p.addr /\ Tile(p)[2] = p.size
  BY <1>2, NodeTile
<1>6. Tile(c)[1] = c.addr /\ Tile(c)[2] = c.size /\ Tile(m) = <<c.addr, c.size + p.size>>
  BY <1>4 DEF Tile
<1>7. Gone(s, u, l, k + 1) = Gone(s, u, l, k) \cup {Tile(p)}
  <2>1. l + 1 .. k + 1 = (l + 1 .. k) \cup {k + 1}
    BY <1>1
  <2>. QED BY <2>1 DEF Gone
<1>8. Tile(p) \notin Gone(s, u, l, k)
  <2>1. Tile(p) # u
    BY <1>2, <1>5
  <2>2. \A j \in l + 1 .. k : j \in DOMAIN s /\ j # k + 1
    BY <1>1, <1>2
  <2>3. \A j \in l + 1 .. k : Tile(s[j]) # Tile(p)
    BY <1>2, <2>2, SortedApart
  <2>. QED BY <2>1, <2>3 DEF Gone
<1>9. Tile(p) \in T
  BY <1>5, <1>8
<1>. DEFINE S == T \cup {Tile(c)}
<1>10. S \ {Tile(c), Tile(p)} = R
  BY <1>1, <1>7, <1>9
<1>11. Tile(p) \in S /\ Tile(c) \in S /\ Tiling(S, lo, hi)
  BY <1>1, <1>9
<1>12. lo \in Nat /\ hi \in Nat
  <2>1. Z.base \in Nat /\ Z.len \in Nat
    BY DEF HeapZone
  <2>2. InitialChunk \in Nat
    BY HeapFacts
  <2>. QED BY <2>1, <2>2
<1>. HIDE DEF S, R, T, m, lo, hi
<1>13. Tile(c)[1] + Tile(c)[2] = Tile(p)[1] /\ Tile(m) = <<Tile(c)[1], Tile(c)[2] + Tile(p)[2]>>
  BY <1>5, <1>6 DEF Touches
<1>14. Tiling((S \ {Tile(c), Tile(p)}) \cup {Tile(m)}, lo, hi) /\ Tile(m) \notin S \ {Tile(c), Tile(p)}
  BY ONLY <1>11, <1>12, <1>13, TilingMerge
<1>15. Tiling(R \cup {Tile(m)}, lo, hi) /\ Tile(m) \notin R
  BY <1>10, <1>14
<1>16. m.addr % Chunk = 0 /\ m.size % Chunk = 0
  <2>1. Chunk \in Nat \ {0} /\ p.size \in Nat /\ c.size \in Nat /\ p.size % Chunk = 0 /\ c.size % Chunk = 0
    BY <1>1, <1>3, <1>4, HeapFacts
  <2>2. (c.size + p.size) % Chunk = 0
    BY ONLY <2>1, Multiples
  <2>. QED BY <1>1, <1>4, <2>2
<1>17. m.size = P[k + 1] - P[l] + u[2]
  <2>1. P[k + 1] = P[k] + p.size
    <3>1. k + 1 \in 1 .. Len(s) /\ (k + 1) - 1 = k
      BY <1>1, <1>2
    <3>2. P[k + 1] = P[(k + 1) - 1] + SizesOf(s)[k + 1] /\ SizesOf(s)[k + 1] = p.size
      BY <1>2, <3>1 DEF Totals, SizesOf
    <3>. QED BY <3>1, <3>2
  <2>2. P[k] \in Nat /\ P[l] \in Nat
    BY <1>1, <1>2 DEF Totals
  <2>3. /\ m.size = c.size + p.size /\ c.size = P[k] - P[l] + u[2] /\ p.size \in Nat /\ u[2] \in Nat
    BY <1>1, <1>2, <1>3, <1>4
  <2>. QED BY ONLY <2>1, <2>2, <2>3
<1>18. k + 1 \in Nat /\ l <= k + 1 /\ k + 1 <= Len(s)
  BY <1>1, <1>2
<1>. QED
  BY <1>1, <1>4, <1>15, <1>16, <1>17, <1>18 DEF Grown, R, m, lo, hi

(* The list with the grown block in place of what it has taken. *)
Regained(Z, U, u, P, lo, hi, m, r) ==
  /\ Totals(P, SizesOf(Z.list), 1, Len(Z.list)) /\ NodeSum(Z.list) = P[Len(Z.list)]
  /\ Grown(Z, U, u, P, lo, hi, m)
  /\ Spliced(Z.list, r, lo, hi, <<m>>) /\ Between(Z.list, lo, hi, <<m>>)

GivenBack(Z, U, u, W) ==
  W \in HeapZone /\ ListInv(W, U \ {u}) /\ W.base = Z.base /\ W.len = Z.len /\ W.mem = Z.mem

(* A freed block, grown as far as it goes, is a node of a tiled zone. *)
LEMMA GrownDone ==
  ASSUME NEW Z \in HeapZone, NEW U, ListInv(Z, U), NEW u \in U,
         NEW P, NEW lo, NEW hi, NEW m, NEW r, Regained(Z, U, u, P, lo, hi, m, r)
  PROVE  GivenBack(Z, U, u, NewList(Z, r, Z.space + u[2]))
<1>. DEFINE W == NewList(Z, r, Z.space + u[2])
            s == Z.list
            n == Len(s)
            V == U \ {u}
            E == <<m>>
            T == (NodeTiles(s) \cup U) \ Gone(s, u, lo, hi)
            G == {Tile(s[j]) : j \in lo + 1 .. hi}
<1>. /\ Totals(P, SizesOf(s), 1, n) /\ NodeSum(s) = P[n] /\ Grown(Z, U, u, P, lo, hi, m)
     /\ Spliced(s, r, lo, hi, <<m>>) /\ Between(s, lo, hi, <<m>>)
  BY DEF Regained
<1>1. /\ Tiling(T \cup {Tile(m)}, Z.base + InitialChunk, Z.base + Z.len) /\ Tile(m) \notin T
      /\ m \in HeapNode /\ m.addr % Chunk = 0 /\ m.size % Chunk = 0
      /\ lo \in Nat /\ hi \in Nat /\ lo <= hi /\ hi <= n /\ m.size = P[hi] - P[lo] + u[2]
  BY DEF Grown
<1>2. /\ s \in Seq(HeapNode) /\ n \in Nat /\ NodeTiles(s) \cap U = {} /\ u[2] \in Nat /\ Sorted(s)
      /\ DOMAIN s = 1 .. n /\ Z.space = NodeSum(s)
  BY ListParts
<1>3. \A v \in U : v[1] % Chunk = 0
  BY ListParts
<1>4. NodeTiles(E) = {Tile(m)} /\ Weight(E) = m.size /\ E[1] = m /\ DOMAIN E = {1}
  BY <1>1, FewTiles
<1>. HIDE DEF E
<1>5. NodeTiles(r) = (NodeTiles(s) \ G) \cup {Tile(m)}
  <2>1. Spliced(s, r, lo, hi, E)
    BY DEF E
  <2>2. NodeTiles(r) = (NodeTiles(s) \ G) \cup NodeTiles(E)
    BY ONLY <1>2, <2>1, SplicedTiles
  <2>. QED BY <1>4, <2>2
<1>6. G \subseteq NodeTiles(s)
  <2>1. \A j \in lo + 1 .. hi : j \in DOMAIN s
    BY <1>1, <1>2
  <2>. QED BY <1>2, <2>1, NodeTile
<1>7. T = (NodeTiles(s) \ G) \cup V
  <2>1. Gone(s, u, lo, hi) = {u} \cup G
    BY DEF Gone
  <2>. HIDE DEF G
  <2>. QED BY <1>2, <1>6, <2>1
<1>. HIDE DEF T, G
<1>8. NodeTiles(r) \cup V = T \cup {Tile(m)} /\ NodeTiles(r) \cap V = {}
  BY <1>1, <1>2, <1>5, <1>7
<1>9. NodeSum(r) = Z.space + u[2]
  <2>1. NodeSum(r) = P[n] - P[hi] + P[lo] + Weight(E)
    <3>1. Spliced(s, r, lo, hi, E)
      BY DEF E
    <3>. QED BY ONLY <3>1, SplicedSum, Totals(P, SizesOf(s), 1, n)
  <2>2. P[n] \in Nat /\ P[hi] \in Nat /\ P[lo] \in Nat
    <3>1. n \in 1 - 1 .. n /\ lo \in 1 - 1 .. n /\ hi \in 1 - 1 .. n
      BY ONLY <1>1, <1>2
    <3>2. P \in [1 - 1 .. n -> Nat]
      BY DEF Totals
    <3>. QED BY ONLY <3>1, <3>2
  <2>3. NodeSum(r) = P[n] + u[2]
    BY ONLY <1>1, <1>2, <1>4, <2>1, <2>2
  <2>. QED BY <1>2, <2>3
<1>10. Relisted(Z, r, lo, hi, E, V)
  <2>1. \A k \in DOMAIN E : E[k].addr % Chunk = 0 /\ E[k].size % Chunk = 0
    BY <1>1, <1>4
  <2>2. \A v \in V : v[1] % Chunk = 0
    BY <1>3
  <2>3. Spliced(Z.list, r, lo, hi, E) /\ Between(Z.list, lo, hi, E)
    BY DEF E
  <2>4. Tiling(NodeTiles(r) \cup V, Z.base + InitialChunk, Z.base + Z.len)
    BY <1>1, <1>8
  <2>. HIDE DEF V
  <2>. QED BY <1>8, <2>1, <2>2, <2>3, <2>4 DEF Relisted
<1>. DEFINE v == Z.space + u[2]
<1>11. v = NodeSum(r) /\ W = NewList(Z, r, v)
  BY <1>9
<1>. HIDE DEF v, V, s, n, W
<1>12. W \in HeapZone /\ ListInv(W, V) /\ W.base = Z.base /\ W.len = Z.len /\ W.mem = Z.mem
  BY <1>10, <1>11, ListChanged
<1>. QED
  BY <1>12 DEF V, W, GivenBack

(* HeapZone::dealloc: the block is free again, and no two nodes touch. *)
Neighbours(s, c, k) ==
  /\ s \in Seq(HeapNode) /\ Sorted(s) /\ c \in HeapNode /\ c.size > 0 /\ k \in 0 .. Len(s)
  /\ \A j \in DOMAIN s : s[j].size > 0
  /\ \A j \in 1 .. k : s[j].addr + s[j].size <= c.addr
  /\ \A j \in k + 1 .. Len(s) : c.addr + c.size <= s[j].addr

(* The nodes below a freed block end before it. *)
LEMMA BetweenBelow ==
  ASSUME NEW s, NEW c, NEW k, Neighbours(s, c, k), NEW lo \in {k - 1, k},
         lo = k - 1 => k > 0,
         NEW x \in Nat, x = IF lo = k THEN c.addr ELSE s[k].addr,
         lo = k /\ k > 0 => ~ Touches(s[k], c)
  PROVE  lo \in Nat /\ lo <= k /\ \A j \in 1 .. lo : s[j].addr + s[j].size < x
<1>. /\ s \in Seq(HeapNode) /\ Sorted(s) /\ c \in HeapNode /\ c.size > 0 /\ k \in 0 .. Len(s)
     /\ \A j \in DOMAIN s : s[j].size > 0
     /\ \A j \in 1 .. k : s[j].addr + s[j].size <= c.addr
  BY DEF Neighbours
<1>1. k \in Nat /\ lo \in Nat /\ lo <= k /\ Len(s) \in Nat /\ k <= Len(s)
  OBVIOUS
<1>2. \A j \in 1 .. Len(s) : j \in DOMAIN s /\ s[j].addr \in Nat /\ s[j].size \in Nat
  <2>1. \A j \in 1 .. Len(s) : j \in DOMAIN s /\ s[j] \in HeapNode
    OBVIOUS
  <2>. QED BY ONLY <2>1 DEF HeapNode
<1>3. ASSUME NEW j \in 1 .. lo PROVE s[j].addr + s[j].size < x
  <2>1. j \in 1 .. Len(s) /\ k \in 1 .. Len(s) /\ (j = k \/ j < k) /\ (lo = k \/ j < k) /\ j \in 1 .. k
    BY <1>1
  <2>2. j < k => s[j].addr + s[j].size < s[k].addr
    BY <1>2, <2>1 DEF Sorted
  <2>3. CASE lo = k
    <3>1. c.addr \in Nat /\ s[k].addr + s[k].size <= c.addr /\ s[k].size > 0 /\ s[k].addr + s[k].size # c.addr
      BY <1>1, <1>2, <2>1, <2>3 DEF Touches, HeapNode
    <3>2. s[j].addr \in Nat /\ s[j].size \in Nat /\ s[k].addr \in Nat /\ s[k].size \in Nat /\ x = c.addr
      BY <1>2, <2>1, <2>3
    <3>3. CASE j = k
      BY ONLY <3>1, <3>2, <3>3
    <3>4. CASE j < k
      BY ONLY <2>2, <3>1, <3>2, <3>4
    <3>. QED BY <2>1, <3>3, <3>4
  <2>4. CASE lo # k
    BY <2>1, <2>2, <2>4
  <2>. QED BY <2>3, <2>4
<1>. QED
  BY <1>1, <1>3

(* The nodes above a freed block begin after it. *)
LEMMA BetweenAbove ==
  ASSUME NEW s, NEW c, NEW k, Neighbours(s, c, k), NEW hi \in {k, k + 1},
         hi = k + 1 => k < Len(s),
         NEW x \in Nat, x = IF hi = k THEN c.addr + c.size ELSE s[k + 1].addr + s[k + 1].size,
         hi = k /\ k < Len(s) => x # s[k + 1].addr
  PROVE  hi \in Nat /\ k <= hi /\ hi <= Len(s) /\ \A j \in hi + 1 .. Len(s) : x < s[j].addr
<1>. /\ s \in Seq(HeapNode) /\ Sorted(s) /\ c \in HeapNode /\ c.size > 0 /\ k \in 0 .. Len(s)
     /\ \A j \in DOMAIN s : s[j].size > 0
     /\ \A j \in k + 1 .. Len(s) : c.addr + c.size <= s[j].addr
  BY DEF Neighbours
<1>1. k \in Nat /\ hi \in Nat /\ k <= hi /\ Len(s) \in Nat /\ hi <= Len(s)
  OBVIOUS
<1>2. \A j \in 1 .. Len(s) : j \in DOMAIN s /\ s[j].addr \in Nat /\ s[j].size \in Nat /\ s[j].size > 0
  <2>1. \A j \in 1 .. Len(s) : j \in DOMAIN s /\ s[j] \in HeapNode /\ s[j].size > 0
    OBVIOUS
  <2>. QED BY ONLY <2>1 DEF HeapNode
<1>3. ASSUME NEW j \in hi + 1 .. Len(s) PROVE x < s[j].addr
  <2>1. /\ j \in 1 .. Len(s) /\ k + 1 \in 1 .. Len(s) /\ (j = k + 1 \/ k + 1 < j) /\ (hi = k \/ k + 1 < j)
        /\ j \in k + 1 .. Len(s) /\ k < Len(s)
    BY <1>1
  <2>2. k + 1 < j => s[k + 1].addr + s[k + 1].size < s[j].addr
    BY <1>2, <2>1 DEF Sorted
  <2>3. CASE hi = k
    <3>1. x = c.addr + c.size /\ x <= s[j].addr /\ x # s[k + 1].addr /\ k + 1 \in k + 1 .. Len(s)
      BY <1>1, <2>1, <2>3
    <3>2. x <= s[k + 1].addr
      BY <3>1
    <3>. QED BY <1>2, <2>1, <2>2, <3>1, <3>2
  <2>4. CASE hi # k
    BY <2>1, <2>2, <2>4
  <2>. QED BY <2>3, <2>4
<1>. QED
  BY <1>1, <1>3

(* What dealloc leaves of the list: a node that holds the block and every  *)
(* neighbour that touches it.                                              *)
LeftPart(s, k, c) ==
  IF SubSeq(s, 1, k) = << >> THEN <<c>> ELSE Front(SubSeq(s, 1, k)) \o Merge(Last(SubSeq(s, 1, k)), c)
LeftGrown(Z, U, P, c, k, L, lo, m) ==
  /\ EndsIn(Z.list, L, lo, m) /\ Grown(Z, U, Tile(c), P, lo, k, m)
  /\ lo = k - 1 => k > 0
  /\ m.addr = IF lo = k THEN c.addr ELSE Z.list[k].addr
  /\ lo = k /\ k > 0 => ~ Touches(Z.list[k], c)
  /\ m.addr + m.size = c.addr + c.size

(* The freed block between its neighbours, merged to the left. *)
LEMMA MergedBoth ==
  ASSUME NEW Z \in HeapZone, NEW U, ListInv(Z, U), NEW c \in HeapNode, Tile(c) \in U, c.size % Chunk = 0,
         NEW P, Totals(P, SizesOf(Z.list), 1, Len(Z.list)),
         NEW k, k = NodesBelow(Z.list, c.addr),
         NEW L, L = LeftPart(Z.list, k, c)
  PROVE  /\ Neighbours(Z.list, c, k)
         /\ \E lo \in {k - 1, k}, m \in HeapNode : LeftGrown(Z, U, P, c, k, L, lo, m)
<1>. DEFINE s == Z.list
            u == Tile(c)
            p == s[k]
<1>1. u[1] = c.addr /\ u[2] = c.size /\ c.addr \in Nat /\ c.size \in Nat
  BY DEF Tile, HeapNode
<1>2. /\ k \in 0 .. Len(s) /\ \A j \in 1 .. k : s[j].addr + s[j].size <= u[1]
      /\ \A j \in k + 1 .. Len(s) : u[1] + u[2] <= s[j].addr
  BY <1>1, Around
<1>3. /\ s \in Seq(HeapNode) /\ Sorted(s) /\ u[2] \in Nat \ {0} /\ Len(s) \in Nat /\ DOMAIN s = 1 .. Len(s)
      /\ \A j \in DOMAIN s : s[j].size \in Nat \ {0} /\ s[j].addr \in Nat
  BY ListParts
<1>4. Neighbours(s, c, k)
  BY <1>1, <1>2, <1>3 DEF Neighbours
<1>5. Grown(Z, U, u, P, k, k, c)
  BY <1>2, GrownStart
<1>6. IF k > 0 /\ Touches(p, c) THEN EndsIn(s, L, k - 1, Joint(p, c)) ELSE EndsIn(s, L, k, c)
  BY <1>2, <1>3, MergedLeft DEF LeftPart
<1>. DEFINE Good(lo, m) == LeftGrown(Z, U, P, c, k, L, lo, m)
<1>7. CASE k > 0 /\ Touches(p, c)
  <2>1. p \in HeapNode
    BY <1>2, <1>3, <1>7
  <2>2. Joint(p, c) \in HeapNode /\ Joint(p, c).addr = p.addr /\ Joint(p, c).size = p.size + c.size
        /\ p.addr \in Nat /\ p.size \in Nat
    BY <2>1, JointIs
  <2>3. Grown(Z, U, u, P, k - 1, k, Joint(p, c))
    BY <1>5, <1>7, GrownDown
  <2>4. k - 1 # k
    BY <1>2
  <2>5. p.addr + (p.size + c.size) = c.addr + c.size
    BY <1>1, <1>7, <2>2 DEF Touches
  <2>6. Good(k - 1, Joint(p, c))
    BY <1>6, <1>7, <2>2, <2>3, <2>4, <2>5 DEF LeftGrown
  <2>. HIDE DEF Good
  <2>7. \E lo \in {k - 1, k}, m \in HeapNode : Good(lo, m)
    BY <2>2, <2>6
  <2>. QED BY <1>4, <2>7 DEF Good
<1>8. CASE ~ (k > 0 /\ Touches(p, c))
  <2>1. k # k - 1
    BY <1>2
  <2>2. Good(k, c)
    BY <1>5, <1>6, <1>8, <2>1 DEF LeftGrown
  <2>. HIDE DEF Good
  <2>3. \E lo \in {k - 1, k}, m \in HeapNode : Good(lo, m)
    BY <2>2
  <2>. QED BY <1>4, <2>3 DEF Good
<1>. QED
  BY <1>7, <1>8

(* One node between its neighbours. *)
LEMMA BetweenOne ==
  ASSUME NEW s, NEW lo, NEW hi, NEW m \in HeapNode,
         \A j \in 1 .. lo : s[j].addr + s[j].size < m.addr,
         \A j \in hi + 1 .. Len(s) : m.addr + m.size < s[j].addr
  PROVE  Between(s, lo, hi, <<m>>)
<1>. DEFINE E == <<m>>
<1>1. E[1] = m /\ DOMAIN E = {1}
  BY FewTiles
<1>. HIDE DEF E
<1>2. Between(s, lo, hi, E)
  BY <1>1 DEF Between
<1>. QED
  BY <1>2 DEF E

(* HeapZone::dealloc: the block is free again, and the zone stays tiled. *)
LEMMA ZoneDeallocInv ==
  ASSUME NEW Z \in HeapZone, NEW U, ListInv(Z, U), NEW a, NEW lay \in Layouts,
         NEW u \in U, u = <<a, AlignUp(lay.size, Chunk)>>, NEW W, W = ZoneDealloc(Z, a, lay)
  PROVE  W \in HeapZone /\ ListInv(W, U \ {u}) /\ W.base = Z.base /\ W.len = Z.len /\ W.mem = Z.mem
<1>. DEFINE s == Z.list
            A == AlignUp(lay.size, Chunk)
            c == [addr |-> a, size |-> A]
            k == NodesBelow(s, a)
            below == SubSeq(s, 1, k)
            above == SubSeq(s, k + 1, Len(s))
            L == IF below = << >> THEN <<c>> ELSE Front(below) \o Merge(Last(below), c)
            r == IF above = << >> THEN L ELSE Front(L) \o Merge(Last(L), Head(above)) \o Tail(above)
<1>1. FreedSize(lay) = A /\ A \in Nat /\ A % Chunk = 0
  BY HeapFacts, AlignUpIs DEF FreedSize
<1>2. a \in Nat /\ u[1] = a /\ u[2] = A
  <2>1. u[1] \in Nat
    BY ListParts
  <2>. HIDE DEF A
  <2>2. u = <<a, A>>
    BY DEF A
  <2>. QED BY ONLY <2>1, <2>2
<1>3. c \in HeapNode /\ c.addr = a /\ c.size = A /\ Tile(c) = u
  BY <1>1, <1>2 DEF HeapNode, Tile
<1>4. W = NewList(Z, r, Z.space + u[2])
  BY <1>1, <1>2 DEF ZoneDealloc, NewList
<1>5. s \in Seq(HeapNode) /\ Len(s) \in Nat /\ DOMAIN s = 1 .. Len(s) /\ Sorted(s)
  BY ListParts
<1>6. PICK P : Totals(P, SizesOf(s), 1, Len(s)) /\ NodeSum(s) = P[Len(s)]
  <2>1. Terms(SizesOf(s), 1, Len(s)) /\ NodeSum(s) = Sum(SizesOf(s), 1, Len(s))
    BY <1>5, NodeTerms
  <2>. QED BY <2>1, SumDef
<1>7. k = NodesBelow(s, c.addr) /\ c.size % Chunk = 0 /\ Tile(c) \in U
  BY <1>1, <1>3
<1>. HIDE DEF c, A
<1>0. /\ Z \in HeapZone /\ ListInv(Z, U) /\ u \in U
      /\ L = LeftPart(s, k, c)
  BY DEF LeftPart
<1>. DEFINE Y == L
            X == above
<1>10. Y = L /\ X = above /\ r = IF X = << >> THEN Y ELSE Front(Y) \o Merge(Last(Y), Head(X)) \o Tail(X)
  OBVIOUS
<1>. HIDE DEF k, L
<1>8. Neighbours(s, c, k) /\ \E lo \in {k - 1, k}, m \in HeapNode : LeftGrown(Z, U, P, c, k, L, lo, m)
  BY ONLY <1>0, <1>3, <1>6, <1>7, MergedBoth
<1>9. PICK lo \in {k - 1, k}, m \in HeapNode :
              /\ EndsIn(s, L, lo, m) /\ Grown(Z, U, Tile(c), P, lo, k, m)
              /\ lo = k - 1 => k > 0
              /\ m.addr = IF lo = k THEN c.addr ELSE s[k].addr
              /\ lo = k /\ k > 0 => ~ Touches(s[k], c)
              /\ m.addr + m.size = c.addr + c.size
  BY <1>8 DEF LeftGrown
<1>11. k \in 0 .. Len(s)
  BY <1>8 DEF Neighbours
<1>12. m.addr \in Nat /\ m.size \in Nat
  BY DEF HeapNode
<1>13. lo \in Nat /\ lo <= k /\ \A j \in 1 .. lo : s[j].addr + s[j].size < m.addr
  <2>. DEFINE x == m.addr
  <2>1. /\ x \in Nat /\ x = (IF lo = k THEN c.addr ELSE s[k].addr) /\ (lo = k - 1 => k > 0)
        /\ (lo = k /\ k > 0 => ~ Touches(s[k], c)) /\ lo \in {k - 1, k}
    BY <1>9, <1>12
  <2>. HIDE DEF x
  <2>2. lo \in Nat /\ lo <= k /\ \A j \in 1 .. lo : s[j].addr + s[j].size < x
    BY ONLY <1>8, <2>1, BetweenBelow
  <2>. QED BY <2>2 DEF x
<1>. HIDE DEF r, L, Y, X
<1>14. IF k < Len(s) /\ Touches(m, s[k + 1])
       THEN Spliced(s, r, lo, k + 1, <<Joint(m, s[k + 1])>>)
       ELSE Spliced(s, r, lo, k, <<m>>)
  <2>1. EndsIn(s, Y, lo, m) /\ k \in Nat /\ lo <= k /\ k <= Len(s)
    BY <1>5, <1>9, <1>10, <1>11, <1>13
  <2>. QED BY ONLY <1>5, <1>10, <2>1, MergedRight
<1>15. CASE k < Len(s) /\ Touches(m, s[k + 1])
  <2>. DEFINE n == s[k + 1]
              M == Joint(m, n)
  <2>1. n \in HeapNode
    BY <1>5, <1>11, <1>15
  <2>2. /\ M \in HeapNode /\ M.addr = m.addr /\ M.size = m.size + n.size
        /\ n.addr \in Nat /\ n.size \in Nat
    BY <2>1, JointIs
  <2>3. Grown(Z, U, u, P, lo, k + 1, M)
    BY <1>3, <1>6, <1>9, <1>15, GrownUp
  <2>4. Spliced(s, r, lo, k + 1, <<M>>)
    BY <1>14, <1>15
  <2>5. M.addr + M.size = n.addr + n.size /\ M.addr + M.size \in Nat
    BY <1>12, <1>15, <2>2 DEF Touches
  <2>. HIDE DEF M
  <2>6. \A j \in (k + 1) + 1 .. Len(s) : M.addr + M.size < s[j].addr
    <3>. DEFINE x == M.addr + M.size
                hi == k + 1
    <3>1. /\ x \in Nat /\ hi \in {k, k + 1} /\ (hi = k + 1 => k < Len(s)) /\ hi # k
          /\ x = (IF hi = k THEN c.addr + c.size ELSE s[k + 1].addr + s[k + 1].size)
      BY <1>11, <1>15, <2>5
    <3>. HIDE DEF x, hi
    <3>2. \A j \in hi + 1 .. Len(s) : x < s[j].addr
      BY ONLY <1>8, <3>1, BetweenAbove
    <3>. QED BY <3>2 DEF x, hi
  <2>7. Between(s, lo, k + 1, <<M>>)
    BY ONLY <1>13, <2>2, <2>6, BetweenOne
  <2>8. Regained(Z, U, u, P, lo, k + 1, M, r)
    BY ONLY <1>6, <2>3, <2>4, <2>7 DEF Regained
  <2>9. GivenBack(Z, U, u, NewList(Z, r, Z.space + u[2]))
    BY ONLY <1>0, <2>8, GrownDone
  <2>. QED BY <1>4, <2>9 DEF GivenBack
<1>16. CASE ~ (k < Len(s) /\ Touches(m, s[k + 1]))
  <2>1. Spliced(s, r, lo, k, <<m>>)
    BY <1>14, <1>16
  <2>2. \A j \in k + 1 .. Len(s) : m.addr + m.size < s[j].addr
    <3>. DEFINE x == m.addr + m.size
                hi == k
    <3>1. /\ x \in Nat /\ hi \in {k, k + 1} /\ (hi = k + 1 => k < Len(s))
          /\ x = (IF hi = k THEN c.addr + c.size ELSE s[k + 1].addr + s[k + 1].size)
          /\ (hi = k /\ k < Len(s) => x # s[k + 1].addr)
      BY <1>9, <1>11, <1>12, <1>16 DEF Touches
    <3>. HIDE DEF x, hi
    <3>2. \A j \in hi + 1 .. Len(s) : x < s[j].addr
      BY ONLY <1>8, <3>1, BetweenAbove
    <3>. QED BY <3>2 DEF x, hi
  <2>3. Between(s, lo, k, <<m>>)
    BY ONLY <1>13, <2>2, BetweenOne, m \in HeapNode
  <2>4. Grown(Z, U, u, P, lo, k, m)
    BY <1>3, <1>9
  <2>5. Regained(Z, U, u, P, lo, k, m, r)
    BY ONLY <1>6, <2>1, <2>3, <2>4 DEF Regained
  <2>6. GivenBack(Z, U, u, NewList(Z, r, Z.space + u[2]))
    BY ONLY <1>0, <2>5, GrownDone
  <2>. QED BY <1>4, <2>6 DEF GivenBack
<1>. QED
  BY <1>15, <1>16

-----------------------------------------------------------------------------
(* A new HeapZone.                                                         *)

(* A block of the order of a size holds that size. *)
LEMMA GetOrderIs ==
  ASSUME NEW size \in Nat
  PROVE  /\ GetOrder(size) \in 0 .. MaxOrder
         /\ GetOrder(size) < MaxOrder => size <= 2^GetOrder(size) * PageSize
<1>. DEFINE T == {o \in 0 .. MaxOrder : o < MaxOrder => size <= PageSize * 2^o}
            Good(o) == /\ o < MaxOrder => size <= PageSize * 2^o
                       /\ \A p \in 0 .. o - 1 : size > PageSize * 2^p
<1>1. MaxOrder \in Nat \ {0} /\ PageSize \in Nat \ {0}
  BY ZoneFacts
<1>2. T \subseteq Nat /\ MaxOrder \in T
  BY <1>1
<1>3. PICK o \in T : \A y \in T : o <= y
  <2>. HIDE DEF T
  <2>. QED BY <1>2, Least
<1>4. ASSUME NEW p \in 0 .. o - 1 PROVE size > PageSize * 2^p
  <2>1. p \in 0 .. MaxOrder /\ p < MaxOrder /\ p < o /\ p \in Nat
    BY <1>1, <1>3
  <2>2. p \notin T
    <3>1. o \in Nat
      BY <1>2, <1>3
    <3>. HIDE DEF T
    <3>. QED BY <1>3, <2>1, <3>1
  <2>3. 2^p \in Nat
    BY <2>1, Power
  <2>. DEFINE w == PageSize * 2^p
  <2>4. w \in Nat
    BY <1>1, <2>3
  <2>5. ~ (size <= w)
    BY <2>1, <2>2
  <2>. HIDE DEF w
  <2>6. size > w
    BY <2>4, <2>5
  <2>. QED BY <2>6 DEF w
<1>5. o \in 0 .. MaxOrder /\ Good(o)
  BY <1>3, <1>4
<1>. HIDE DEF Good
<1>6. GetOrder(size) = CHOOSE q \in 0 .. MaxOrder : Good(q)
  BY DEF GetOrder, Good
<1>7. GetOrder(size) \in 0 .. MaxOrder /\ Good(GetOrder(size))
  BY <1>5, <1>6
<1>. DEFINE g == GetOrder(size)
<1>8. ASSUME g < MaxOrder PROVE size <= 2^g * PageSize
  <2>1. size <= PageSize * 2^g
    BY <1>7, <1>8 DEF Good
  <2>2. g \in Nat
    BY <1>7
  <2>. HIDE DEF g
  <2>3. 2^g \in Nat
    BY <2>2, Power
  <2>4. PageSize * 2^g = 2^g * PageSize
    BY <1>1, <2>3
  <2>. QED BY <2>1, <2>4
<1>. QED
  BY <1>7, <1>8

(* What the heap asks for holds the header and the block. *)
LEMMA GrowSizeIs ==
  ASSUME NEW lay \in Layouts
  PROVE  GrowSize(lay) \in Nat /\ lay.size + Chunk + InitialChunk <= GrowSize(lay)
<1>. DEFINE x == lay.size + Chunk + InitialChunk
            y == MaxOf(HeapIncSize, x)
<1>1. x \in Nat /\ HeapIncSize \in Nat /\ MaxOf(lay.align, Chunk) = Chunk /\ PageSize \in Nat \ {0}
  BY HeapFacts
<1>2. GrowSize(lay) = AlignUp(y, PageSize)
  BY <1>1 DEF GrowSize
<1>. HIDE DEF x
<1>3. y \in Nat /\ x <= y
  BY <1>1 DEF MaxOf
<1>. HIDE DEF y
<1>4. AlignUp(y, PageSize) \in Nat /\ y <= AlignUp(y, PageSize)
  BY <1>1, <1>3, AlignUpIs
<1>5. x <= AlignUp(y, PageSize)
  BY <1>1, <1>3, <1>4
<1>. QED
  BY <1>2, <1>4, <1>5 DEF x

(* HeapZone::new *)
LEMMA NewZoneInv ==
  ASSUME NEW m \in Allocation, InitialChunk < 2^m.order * PageSize
  PROVE  NewZone(m) \in HeapZone /\ ZoneBytes(NewZone(m)) /\ ListInv(NewZone(m), {}) /\ NewZone(m).mem = m
<1>. DEFINE Z == NewZone(m)
            base == m.addr * PageSize
            len == 2^m.order * PageSize
            n == [addr |-> base + InitialChunk, size |-> len - InitialChunk]
            s == <<n>>
<1>1. /\ Chunk \in Nat \ {0} /\ InitialChunk \in Nat /\ InitialChunk % Chunk = 0
      /\ PageSize \in Nat \ {0} /\ PageSize % Chunk = 0
  BY HeapFacts
<1>2. m.addr \in Nat /\ m.order \in Nat /\ 2^m.order \in Nat
  <2>1. m.addr \in Nat /\ m.order \in Nat
    BY ZoneFacts DEF Allocation
  <2>. QED BY <2>1, Power
<1>3. base \in Nat /\ base % Chunk = 0 /\ len \in Nat /\ len % Chunk = 0
  <2>. DEFINE q == 2^m.order
              a == m.addr
  <2>1. q \in Nat /\ a \in Nat
    BY <1>2
  <2>. HIDE DEF q, a
  <2>2. a * PageSize \in Nat /\ (a * PageSize) % Chunk = 0 /\ q * PageSize \in Nat /\ (q * PageSize) % Chunk = 0
    <3>1. PageSize \in Nat /\ Chunk \in Nat \ {0} /\ PageSize % Chunk = 0
      BY <1>1
    <3>2. PageSize * a \in Nat /\ (a * PageSize) % Chunk = 0
      BY ONLY <2>1, <3>1, MultipleTimes
    <3>3. PageSize * q \in Nat /\ (q * PageSize) % Chunk = 0
      BY ONLY <2>1, <3>1, MultipleTimes
    <3>. QED BY ONLY <2>1, <3>1, <3>2, <3>3
  <2>. QED BY <2>2 DEF q, a
<1>4. InitialChunk < len
  OBVIOUS
<1>5. /\ Z.base = base /\ Z.len = len /\ Z.mem = m /\ Z.list = s /\ Z.space = len - InitialChunk
      /\ Z = [base |-> base, len |-> len, mem |-> m, list |-> s, space |-> len - InitialChunk]
  BY DEF NewZone
<1>6. ZoneBytes(Z)
  BY <1>5 DEF ZoneBytes
<1>. HIDE DEF base, len, Z
<1>7. len - InitialChunk \in Nat \ {0} /\ base + InitialChunk \in Nat
  BY <1>1, <1>3, <1>4
<1>8. (base + InitialChunk) % Chunk = 0 /\ (len - InitialChunk) % Chunk = 0
  <2>1. /\ Chunk \in Nat \ {0} /\ InitialChunk \in Nat /\ base \in Nat /\ len \in Nat
        /\ InitialChunk % Chunk = 0 /\ base % Chunk = 0 /\ len % Chunk = 0 /\ InitialChunk <= len
    BY <1>1, <1>3, <1>4
  <2>2. (base + InitialChunk) % Chunk = 0
    BY ONLY <2>1, Multiples
  <2>3. (len - InitialChunk) % Chunk = 0
    BY ONLY <2>1, Multiples
  <2>. QED BY <2>2, <2>3
<1>9. n \in HeapNode /\ n.addr = base + InitialChunk /\ n.size = len - InitialChunk
      /\ Tile(n) = <<base + InitialChunk, len - InitialChunk>>
  BY <1>7 DEF HeapNode, Tile
<1>. HIDE DEF n
<1>10. NodeTiles(s) = {Tile(n)} /\ s \in Seq(HeapNode) /\ Len(s) = 1 /\ s[1] = n /\ DOMAIN s = {1}
  BY <1>9, FewTiles
<1>. HIDE DEF s
<1>11. Z \in HeapZone
  BY <1>3, <1>5, <1>7, <1>10 DEF HeapZone
<1>12. Sorted(s)
  BY <1>10 DEF Sorted
<1>13. NodeSum(s) = n.size
  <2>1. Terms(SizesOf(s), 1, 1) /\ NodeSum(s) = Sum(SizesOf(s), 1, 1) /\ SizesOf(s)[1] = n.size /\ n.size \in Nat
    <3>1. 1 \in 1 .. Len(s)
      BY <1>10
    <3>. QED BY <1>10, <3>1, NodeTerms
  <2>2. PICK P : Totals(P, SizesOf(s), 1, 1) /\ Sum(SizesOf(s), 1, 1) = P[1]
    BY <2>1, SumDef
  <2>3. P[1] = P[1 - 1] + SizesOf(s)[1] /\ P[1 - 1] = 0
    BY <2>2 DEF Totals
  <2>. QED BY <2>1, <2>2, <2>3
<1>14. Tiling({Tile(n)}, Z.base + InitialChunk, Z.base + Z.len)
  <2>. DEFINE a == base + InitialChunk
              d == len - InitialChunk
  <2>1. a \in Nat /\ d \in Nat \ {0} /\ a + d = base + len
    BY <1>1, <1>3, <1>7
  <2>. HIDE DEF a, d
  <2>2. Tiling({<<a, d>>}, a, a + d)
    BY <2>1, TilingOne
  <2>. QED BY <1>5, <1>9, <2>1, <2>2 DEF a, d
<1>15. NodeTiles(s) \cup {} = {Tile(n)} /\ NodeTiles(s) \cap {} = {}
  BY <1>10
<1>16. \A j \in DOMAIN Z.list : Z.list[j].addr % Chunk = 0 /\ Z.list[j].size % Chunk = 0
  BY <1>5, <1>8, <1>9, <1>10
<1>17. ListInv(Z, {})
  BY <1>5, <1>7, <1>9, <1>10, <1>12, <1>13, <1>14, <1>15, <1>16 DEF ListInv
<1>. QED
  BY <1>5, <1>6, <1>11, <1>17 DEF Z

(* The zone that alloc has asked for has room for the block ("shouldn't    *)
(* fail now").                                                             *)
LEMMA NewZoneFits ==
  ASSUME NEW m \in Allocation, NEW lay \in Layouts,
         lay.size + Chunk + InitialChunk <= 2^m.order * PageSize
  PROVE  ZoneFits(NewZone(m), lay)
<1>. DEFINE Z == NewZone(m)
            base == m.addr * PageSize
            len == 2^m.order * PageSize
            n == [addr |-> base + InitialChunk, size |-> len - InitialChunk]
            s == <<n>>
<1>1. /\ Chunk \in Nat \ {0} /\ InitialChunk \in Nat /\ PageSize \in Nat \ {0}
      /\ lay.size \in Nat \ {0} /\ MaxOf(lay.align, Chunk) = Chunk
  BY HeapFacts
<1>2. base \in Nat /\ len \in Nat
  <2>1. m.addr \in Nat /\ m.order \in Nat
    BY ZoneFacts DEF Allocation
  <2>2. 2^m.order \in Nat
    BY <2>1, Power
  <2>. DEFINE q == 2^m.order
              a == m.addr
  <2>. HIDE DEF q, a
  <2>3. q * PageSize \in Nat /\ a * PageSize \in Nat
    BY <1>1, <2>1, <2>2, TimesSteps DEF q, a
  <2>. QED BY <2>3 DEF q, a
<1>3. lay.size + Chunk + InitialChunk <= len
  OBVIOUS
<1>4. Z.list = s /\ Z.space = len - InitialChunk
  BY DEF NewZone
<1>. HIDE DEF base, len, Z
<1>5. n.addr = base + InitialChunk /\ n.size = len - InitialChunk
  OBVIOUS
<1>. HIDE DEF n
<1>6. s[1] = n /\ 1 \in DOMAIN s
  OBVIOUS
<1>. DEFINE x == n.addr + n.size - lay.size
<1>7. x \in Nat /\ n.addr + Chunk <= x /\ n.addr \in Nat
  BY <1>1, <1>2, <1>3, <1>5
<1>8. CutAt(n, lay) = AlignDown(x, Chunk)
  BY <1>1 DEF CutAt
<1>. HIDE DEF x
<1>9. AlignDown(x, Chunk) \in Nat /\ x < AlignDown(x, Chunk) + Chunk
  BY <1>1, <1>7, AlignDownIs
<1>10. CutAt(n, lay) >= n.addr
  BY <1>1, <1>7, <1>8, <1>9
<1>11. lay.size <= n.size /\ lay.size <= Z.space
  BY <1>1, <1>2, <1>3, <1>4, <1>5
<1>. QED
  BY <1>4, <1>6, <1>10, <1>11 DEF ZoneFits, Fits, Z

-----------------------------------------------------------------------------
(* Pages and who owns them.                                                *)

MemTile(m) == <<m.addr, 2^m.order>>

(* The tile of a block says which one it is. *)
LEMMA MemTileIs ==
  ASSUME NEW m \in Allocation
  PROVE  /\ m.addr \in Nat /\ m.order \in Nat /\ m.zindex \in Zone /\ 2^m.order \in Nat \ {0} /\ m # NoMem
         /\ MemTile(m)[1] = m.addr /\ MemTile(m)[2] = 2^m.order
         /\ \A n \in Allocation : n.zindex = m.zindex /\ MemTile(n) = MemTile(m) => n = m
<1>1. m.addr \in Nat /\ m.order \in Nat /\ m.zindex \in Zone
  BY ZoneFacts DEF Allocation
<1>2. 2^m.order \in Nat \ {0}
  BY <1>1, Power
<1>3. m # NoMem
  <2>1. NoMem.order = -1
    BY DEF NoMem
  <2>. QED BY <1>1, <2>1
<1>4. ASSUME NEW n \in Allocation, n.zindex = m.zindex, MemTile(n) = MemTile(m) PROVE n = m
  <2>1. n.addr = m.addr /\ 2^n.order = 2^m.order
    BY <1>4 DEF MemTile
  <2>2. n.order \in Nat
    BY ZoneFacts DEF Allocation
  <2>3. n.order = m.order
    BY <1>1, <2>1, <2>2, PowerLess
  <2>4. /\ n = [addr |-> n.addr, order |-> n.order, zindex |-> n.zindex]
        /\ m = [addr |-> m.addr, order |-> m.order, zindex |-> m.zindex]
    BY DEF Allocation
  <2>. QED BY ONLY <1>4, <2>1, <2>3, <2>4
<1>. QED
  BY <1>1, <1>2, <1>3, <1>4 DEF MemTile

(* The tiles of a zone when one of its blocks is got or given back. *)
LEMMA OwnedTiles ==
  ASSUME NEW S, S \subseteq Allocation, NEW m \in Allocation
  PROVE  /\ PageTiles(m.zindex, S \cup {m}) = PageTiles(m.zindex, S) \cup {MemTile(m)}
         /\ PageTiles(m.zindex, S \ {m}) = PageTiles(m.zindex, S) \ {MemTile(m)}
         /\ MemTile(m) \in PageTiles(m.zindex, S) => m \in S
         /\ m \in S => MemTile(m) \in PageTiles(m.zindex, S)
<1>. DEFINE z == m.zindex
            F(T) == {k \in T : k.zindex = z}
<1>1. \A n \in F(S) : MemTile(n) = MemTile(m) => n = m
  BY MemTileIs
<1>2. \A T : PageTiles(z, T) = {MemTile(n) : n \in F(T)}
  BY DEF PageTiles, MemTile
<1>3. F(S \cup {m}) = F(S) \cup {m}
  OBVIOUS
<1>4. F(S \ {m}) = F(S) \ {m}
  OBVIOUS
<1>5. m \in F(S) <=> m \in S
  OBVIOUS
<1>. HIDE DEF F, z
<1>6. PageTiles(z, S \cup {m}) = PageTiles(z, S) \cup {MemTile(m)}
  <2>1. PageTiles(z, S \cup {m}) = {MemTile(n) : n \in F(S) \cup {m}}
    BY <1>2, <1>3, Zenon
  <2>2. PageTiles(z, S) = {MemTile(n) : n \in F(S)}
    BY <1>2
  <2>. QED BY ONLY <2>1, <2>2
<1>7. PageTiles(z, S \ {m}) = PageTiles(z, S) \ {MemTile(m)}
  BY <1>1, <1>2, <1>4
<1>8. MemTile(m) \in PageTiles(z, S) <=> m \in S
  BY <1>1, <1>2, <1>5
<1>. QED
  BY <1>6, <1>7, <1>8 DEF z

(* Those of the other zones stay. *)
LEMMA OtherTiles ==
  ASSUME NEW S, NEW m, NEW z, z # m.zindex
  PROVE  PageTiles(z, S \cup {m}) = PageTiles(z, S) /\ PageTiles(z, S \ {m}) = PageTiles(z, S)
<1>1. {k \in S \cup {m} : k.zindex = z} = {k \in S : k.zindex = z}
  OBVIOUS
<1>2. {k \in S \ {m} : k.zindex = z} = {k \in S : k.zindex = z}
  OBVIOUS
<1>. QED
  BY ONLY <1>1, <1>2 DEF PageTiles

(* A block is given out, and comes back. *)
LEMMA PagesGive ==
  ASSUME NEW zs, NEW S, PagesOk(zs, S), NEW m \in Allocation, NEW z, z = m.zindex, NEW W,
         ZoneInv(z, W, PageTiles(z, S) \cup {MemTile(m)})
  PROVE  PagesOk([zs EXCEPT ![z] = W], S \cup {m})
<1>1. S \subseteq Allocation /\ zs = [y \in Zone |-> zs[y]] /\ \A y \in Zone : ZoneInv(y, zs[y], PageTiles(y, S))
  BY DEF PagesOk
<1>. DEFINE ws == [zs EXCEPT ![z] = W]
<1>2. ws = [y \in Zone |-> ws[y]] /\ z \in Zone /\ ws[z] = W /\ \A y \in Zone : y # z => ws[y] = zs[y]
  BY <1>1, MemTileIs
<1>. HIDE DEF ws
<1>3. ASSUME NEW y \in Zone PROVE ZoneInv(y, ws[y], PageTiles(y, S \cup {m}))
  <2>1. CASE y = z
    <3>1. PageTiles(y, S \cup {m}) = PageTiles(y, S) \cup {MemTile(m)}
      BY <1>1, <2>1, OwnedTiles, m \in Allocation
    <3>. QED BY <1>2, <2>1, <3>1
  <2>2. CASE y # z
    <3>1. PageTiles(y, S \cup {m}) = PageTiles(y, S)
      BY <2>2, OtherTiles
    <3>. QED BY <1>1, <1>2, <2>2, <3>1
  <2>. QED BY <2>1, <2>2
<1>4. S \cup {m} \subseteq Allocation
  BY <1>1
<1>5. PagesOk(ws, S \cup {m})
  BY ONLY <1>2, <1>3, <1>4 DEF PagesOk
<1>. QED
  BY <1>5 DEF ws

(* A zone takes a block back. *)
LEMMA PagesFree ==
  ASSUME NEW zs, NEW S, PagesOk(zs, S), NEW m \in S, NEW z, z = m.zindex, NEW W,
         ZoneInv(z, W, PageTiles(z, S) \ {MemTile(m)})
  PROVE  PagesOk([zs EXCEPT ![z] = W], S \ {m})
<1>1. S \subseteq Allocation /\ zs = [y \in Zone |-> zs[y]] /\ \A y \in Zone : ZoneInv(y, zs[y], PageTiles(y, S))
  BY DEF PagesOk
<1>2. m \in Allocation
  BY <1>1
<1>. DEFINE ws == [zs EXCEPT ![z] = W]
<1>3. ws = [y \in Zone |-> ws[y]] /\ z \in Zone /\ ws[z] = W /\ \A y \in Zone : y # z => ws[y] = zs[y]
  BY <1>1, <1>2, MemTileIs
<1>. HIDE DEF ws
<1>4. ASSUME NEW y \in Zone PROVE ZoneInv(y, ws[y], PageTiles(y, S \ {m}))
  <2>1. CASE y = z
    <3>1. PageTiles(y, S \ {m}) = PageTiles(y, S) \ {MemTile(m)}
      BY <1>1, <1>2, <2>1, OwnedTiles
    <3>. QED BY <1>3, <2>1, <3>1
  <2>2. CASE y # z
    <3>1. PageTiles(y, S \ {m}) = PageTiles(y, S)
      BY <2>2, OtherTiles
    <3>. QED BY <1>1, <1>3, <2>2, <3>1
  <2>. QED BY <2>1, <2>2
<1>5. S \ {m} \subseteq Allocation
  BY <1>1
<1>6. PagesOk(ws, S \ {m})
  BY ONLY <1>3, <1>4, <1>5 DEF PagesOk
<1>. QED
  BY <1>6 DEF ws

(* An owned block lies inside of its zone, and what is owned is apart. *)
LEMMA OwnedBlock ==
  ASSUME NEW zs, NEW S, PagesOk(zs, S), NEW m \in S
  PROVE  /\ m \in Allocation /\ m.order \in Order(m.zindex) /\ m.order < MaxOrder
         /\ UContains(m.zindex, m.addr, 2^m.order) /\ ContainsAddr(m.zindex, m.addr)
         /\ IsAlloced(m.zindex, zs[m.zindex], m.addr)
         /\ ZoneOf(m.addr) = m.zindex
         /\ MemTile(m) \in PageTiles(m.zindex, S)
         /\ ZoneInv(m.zindex, zs[m.zindex], PageTiles(m.zindex, S))
<1>. DEFINE z == m.zindex
            B == PageTiles(z, S)
<1>1. S \subseteq Allocation /\ m \in Allocation
  BY DEF PagesOk
<1>2. /\ m.addr \in Nat /\ m.order \in Nat /\ z \in Zone /\ 2^m.order \in Nat \ {0}
      /\ MemTile(m)[1] = m.addr /\ MemTile(m)[2] = 2^m.order
  BY <1>1, MemTileIs
<1>3. ZoneInv(z, zs[z], B)
  BY <1>2 DEF PagesOk
<1>4. MemTile(m) \in B
  BY <1>1, <1>2, OwnedTiles
<1>. HIDE DEF B
<1>5. /\ Start(z) <= m.addr /\ m.addr + 2^m.order <= MetaStart(z)
      /\ \E o \in Order(z) : 2^m.order = 2^o
  <2>1. \A b \in B : \E o \in Order(z) : b[2] = 2^o /\ b[1] % 2^o = 0
    BY <1>2, <1>3, ZoneParts
  <2>2. \A b \in B : Start(z) <= b[1] /\ b[1] + b[2] <= MetaStart(z)
    BY <1>2, <1>3, ZoneParts
  <2>. QED BY ONLY <1>2, <1>4, <2>1, <2>2
<1>6. m.order \in Order(z) /\ m.order < MaxOrder
  <2>1. PICK o \in Order(z) : 2^m.order = 2^o
    BY <1>5
  <2>2. o \in Nat /\ o <= TopOrder[z] /\ TopOrder[z] < MaxOrder /\ TopOrder[z] \in Nat /\ MaxOrder \in Nat
    BY <1>2, Orders, ZoneFacts
  <2>3. m.order = o
    BY <1>2, <2>1, <2>2, PowerLess
  <2>. QED BY <2>2, <2>3
<1>7. UContains(z, m.addr, 2^m.order)
  BY <1>5 DEF UContains
<1>8. ContainsAddr(z, m.addr)
  <2>1. MetaStart(z) \in Nat
    BY <1>2, Geometry
  <2>. DEFINE w == 2^m.order
  <2>2. w \in Nat \ {0} /\ m.addr + w <= MetaStart(z)
    BY <1>2, <1>5
  <2>. HIDE DEF w
  <2>3. m.addr < MetaStart(z)
    BY <1>2, <2>1, <2>2
  <2>. QED BY <1>5, <2>3 DEF ContainsAddr
<1>9. IsAlloced(z, zs[z], m.addr)
  <2>1. zs[z].alloced = {b[1] : b \in B}
    BY <1>3 DEF ZoneInv
  <2>2. m.addr \in zs[z].alloced
    BY <1>2, <1>4, <2>1
  <2>. QED BY <1>8, <2>2 DEF IsAlloced
<1>10. ZoneOf(m.addr) = z
  BY <1>2, <1>8, OneZone
<1>. QED
  BY <1>1, <1>3, <1>4, <1>6, <1>7, <1>8, <1>9, <1>10 DEF B

(* Two blocks that are owned do not overlap, in one zone or in two. *)
LEMMA MemApart ==
  ASSUME NEW zs, NEW S, PagesOk(zs, S), NEW m \in S, NEW n \in S, m # n
  PROVE  m.addr + 2^m.order <= n.addr \/ n.addr + 2^n.order <= m.addr
<1>1. m \in Allocation /\ n \in Allocation /\ S \subseteq Allocation
  BY DEF PagesOk
<1>2. /\ m.addr \in Nat /\ m.order \in Nat /\ m.zindex \in Zone /\ 2^m.order \in Nat \ {0}
      /\ n.addr \in Nat /\ n.order \in Nat /\ n.zindex \in Zone /\ 2^n.order \in Nat \ {0}
      /\ MemTile(m)[1] = m.addr /\ MemTile(m)[2] = 2^m.order
      /\ MemTile(n)[1] = n.addr /\ MemTile(n)[2] = 2^n.order
  BY <1>1, MemTileIs
<1>3. CASE m.zindex = n.zindex
  <2>1. MemTile(m) # MemTile(n)
    BY <1>1, <1>3, MemTileIs
  <2>. DEFINE z == m.zindex
              B == PageTiles(z, S)
  <2>2. MemTile(m) \in B /\ MemTile(n) \in B /\ ZoneInv(z, zs[z], B)
    BY <1>3, OwnedBlock
  <2>. HIDE DEF B
  <2>3. \A b, c \in B : b = c \/ Apart(b, c)
    BY <1>2, <2>2, ZoneParts
  <2>4. Apart(MemTile(m), MemTile(n))
    BY <2>1, <2>2, <2>3
  <2>. QED BY <1>2, <2>4 DEF Apart
<1>4. CASE m.zindex # n.zindex
  <2>. DEFINE y == m.zindex
              z == n.zindex
              p == 2^m.order
              q == 2^n.order
  <2>1. Region[y][2] <= Region[z][1] \/ Region[z][2] <= Region[y][1]
    BY <1>2, <1>4, ZoneAssumption
  <2>2. /\ Start(y) = Region[y][1] /\ MetaStart(y) < Region[y][2] /\ Start(y) \in Nat /\ MetaStart(y) \in Nat
        /\ Start(z) = Region[z][1] /\ MetaStart(z) < Region[z][2] /\ Start(z) \in Nat /\ MetaStart(z) \in Nat
        /\ Region[y][2] \in Nat /\ Region[z][2] \in Nat
    BY <1>2, Geometry, ZoneFacts
  <2>3. Start(y) <= m.addr /\ m.addr + p <= MetaStart(y) /\ Start(z) <= n.addr /\ n.addr + q <= MetaStart(z)
    BY OwnedBlock DEF UContains
  <2>4. p \in Nat /\ q \in Nat /\ m.addr \in Nat /\ n.addr \in Nat
    BY <1>2
  <2>. HIDE DEF y, z, p, q
  <2>5. m.addr + p <= n.addr \/ n.addr + q <= m.addr
    BY ONLY <2>1, <2>2, <2>3, <2>4
  <2>. QED BY <2>5 DEF p, q
<1>. QED
  BY <1>3, <1>4

-----------------------------------------------------------------------------
(* The zones of the heap.                                                  *)

BytesApart(Y, Z) == Y.base + Y.len <= Z.base \/ Z.base + Z.len <= Y.base
ZonesApart(H) == \A i, j \in DOMAIN H : i # j => BytesApart(H[i], H[j])
ZoneBlock(Z) == Z \in HeapZone /\ ZoneBytes(Z)

(* Two heap zones from different blocks of pages have no byte in common. *)
LEMMA BlocksApart ==
  ASSUME NEW zs, NEW S, PagesOk(zs, S), NEW Y, NEW Z, ZoneBlock(Y), ZoneBlock(Z),
         Y.mem \in S, Z.mem \in S, Y.mem # Z.mem
  PROVE  BytesApart(Y, Z)
<1>. DEFINE m == Y.mem
            n == Z.mem
            p == 2^m.order
            q == 2^n.order
            a == m.addr
            b == n.addr
<1>1. m \in Allocation /\ n \in Allocation
  BY DEF ZoneBlock, HeapZone
<1>2. p \in Nat /\ q \in Nat /\ a \in Nat /\ b \in Nat /\ PageSize \in Nat
  BY <1>1, MemTileIs, ZoneFacts
<1>3. a + p <= b \/ b + q <= a
  BY MemApart
<1>4. Y.base = a * PageSize /\ Y.len = p * PageSize /\ Z.base = b * PageSize /\ Z.len = q * PageSize
  BY DEF ZoneBlock, ZoneBytes
<1>. HIDE DEF m, n, p, q, a, b
<1>5. CASE a + p <= b
  <2>1. PageSize * (a + p) <= PageSize * b
    BY <1>2, <1>5, TimesOrder
  <2>2. a * PageSize + p * PageSize <= b * PageSize
    BY <1>2, <2>1
  <2>. QED BY <1>4, <2>2 DEF BytesApart
<1>6. CASE b + q <= a
  <2>1. PageSize * (b + q) <= PageSize * a
    BY <1>2, <1>6, TimesOrder
  <2>2. b * PageSize + q * PageSize <= a * PageSize
    BY <1>2, <2>1
  <2>. QED BY <1>4, <2>2 DEF BytesApart
<1>. QED
  BY <1>3, <1>5, <1>6

(* Zones of the heap whose pages are different do not overlap. *)
LEMMA HeapApart ==
  ASSUME NEW zs, NEW S, PagesOk(zs, S), NEW H, NEW used, HeapOk(H, used), ZoneMems(H) \subseteq S,
         \A i, j \in DOMAIN H : H[i].mem = H[j].mem => i = j
  PROVE  ZonesApart(H)
<1>. SUFFICES ASSUME NEW i \in DOMAIN H, NEW j \in DOMAIN H, i # j PROVE BytesApart(H[i], H[j])
  BY DEF ZonesApart
<1>1. H[i].mem # H[j].mem /\ H[i].mem \in S /\ H[j].mem \in S
  BY DEF ZoneMems
<1>2. ZoneBlock(H[i]) /\ ZoneBlock(H[j])
  <2>1. H \in Seq(HeapZone) /\ ZoneBytes(H[i]) /\ ZoneBytes(H[j])
    BY DEF HeapOk
  <2>2. H[i] \in HeapZone /\ H[j] \in HeapZone
    BY <2>1
  <2>. QED BY <2>1, <2>2 DEF ZoneBlock
<1>. QED
  BY <1>1, <1>2, BlocksApart

(* Blocks that come and go. *)
LEMMA BlockTilesAdd ==
  ASSUME NEW Z, NEW used, NEW b, b.addr \in Bytes(Z.base, Z.len)
  PROVE  BlockTiles(Z, used \cup {b}) = BlockTiles(Z, used) \cup {<<b.addr, AlignUp(b.lay.size, Chunk)>>}
<1>. DEFINE F(T) == {d \in T : d.addr \in Bytes(Z.base, Z.len)}
            tile(d) == <<d.addr, AlignUp(d.lay.size, Chunk)>>
<1>1. \A T : BlockTiles(Z, T) = {tile(d) : d \in F(T)}
  BY DEF BlockTiles
<1>2. F(used \cup {b}) = F(used) \cup {b}
  OBVIOUS
<1>3. {tile(d) : d \in F(used) \cup {b}} = {tile(d) : d \in F(used)} \cup {tile(b)}
  OBVIOUS
<1>. HIDE DEF F, tile
<1>4. BlockTiles(Z, used \cup {b}) = {tile(d) : d \in F(used) \cup {b}}
  BY <1>1, <1>2, Zenon
<1>5. BlockTiles(Z, used) = {tile(d) : d \in F(used)}
  BY <1>1
<1>. QED
  BY <1>3, <1>4, <1>5 DEF tile

(* A block outside of a heap zone does not count there. *)
LEMMA BlockTilesElse ==
  ASSUME NEW Z, NEW used, NEW b, b.addr \notin Bytes(Z.base, Z.len)
  PROVE  BlockTiles(Z, used \cup {b}) = BlockTiles(Z, used) /\ BlockTiles(Z, used \ {b}) = BlockTiles(Z, used)
<1>1. {d \in used \cup {b} : d.addr \in Bytes(Z.base, Z.len)} = {d \in used : d.addr \in Bytes(Z.base, Z.len)}
  OBVIOUS
<1>2. {d \in used \ {b} : d.addr \in Bytes(Z.base, Z.len)} = {d \in used : d.addr \in Bytes(Z.base, Z.len)}
  OBVIOUS
<1>. QED
  BY ONLY <1>1, <1>2 DEF BlockTiles

(* A block of the zone that is freed leaves its tiles. *)
LEMMA BlockTilesRemove ==
  ASSUME NEW Z, NEW used, NEW b \in used, b.addr \in Bytes(Z.base, Z.len),
         \A c, d \in used : c.addr = d.addr => c = d
  PROVE  /\ BlockTiles(Z, used \ {b}) = BlockTiles(Z, used) \ {<<b.addr, AlignUp(b.lay.size, Chunk)>>}
         /\ <<b.addr, AlignUp(b.lay.size, Chunk)>> \in BlockTiles(Z, used)
<1>. DEFINE in == Bytes(Z.base, Z.len)
            F(T) == {d \in T : d.addr \in in}
            tile(d) == <<d.addr, AlignUp(d.lay.size, Chunk)>>
<1>1. \A T : BlockTiles(Z, T) = {tile(d) : d \in F(T)}
  BY DEF BlockTiles
<1>2. F(used \ {b}) = F(used) \ {b} /\ b \in F(used)
  OBVIOUS
<1>3. \A d \in F(used) : tile(d) = tile(b) => d = b
  OBVIOUS
<1>. HIDE DEF F, tile
<1>4. BlockTiles(Z, used \ {b}) = {tile(d) : d \in F(used) \ {b}}
  BY <1>1, <1>2, Zenon
<1>5. BlockTiles(Z, used) = {tile(d) : d \in F(used)}
  BY <1>1
<1>6. BlockTiles(Z, used \ {b}) = BlockTiles(Z, used) \ {tile(b)} /\ tile(b) \in BlockTiles(Z, used)
  BY <1>2, <1>3, <1>4, <1>5
<1>. QED
  BY <1>6 DEF tile

(* A zone of the heap changes, with the blocks that are cut from it. *)
SameBytes(W, Z) == W.base = Z.base /\ W.len = Z.len /\ W.mem = Z.mem

(* One zone of the heap changes, and the blocks in it. *)
LEMMA HeapChanged ==
  ASSUME NEW H, NEW used, HeapOk(H, used), NEW i \in DOMAIN H,
         NEW W \in HeapZone, SameBytes(W, H[i]), NEW now, ListInv(W, BlockTiles(H[i], now)), BlocksOk(H, now),
         \A j \in DOMAIN H : j # i => BlockTiles(H[j], now) = BlockTiles(H[j], used)
  PROVE  /\ HeapOk([H EXCEPT ![i] = W], now) /\ ZoneMems([H EXCEPT ![i] = W]) = ZoneMems(H)
         /\ DOMAIN [H EXCEPT ![i] = W] = DOMAIN H
         /\ \A j \in DOMAIN H : [H EXCEPT ![i] = W][j].mem = H[j].mem
<1>. DEFINE G == [H EXCEPT ![i] = W]
<1>1. /\ H \in Seq(HeapZone) /\ \A j \in DOMAIN H : ZoneBytes(H[j]) /\ ListInv(H[j], BlockTiles(H[j], used))
  BY DEF HeapOk
<1>2. G \in Seq(HeapZone) /\ DOMAIN G = DOMAIN H /\ G[i] = W /\ \A j \in DOMAIN H : j # i => G[j] = H[j]
  BY <1>1
<1>. HIDE DEF G
<1>3. \A j \in DOMAIN H : G[j].base = H[j].base /\ G[j].len = H[j].len /\ G[j].mem = H[j].mem
  BY <1>2 DEF SameBytes
<1>4. ASSUME NEW j \in DOMAIN H PROVE ZoneBytes(G[j]) /\ ListInv(G[j], BlockTiles(G[j], now))
  <2>1. ZoneBytes(G[j])
    BY <1>1, <1>3 DEF ZoneBytes
  <2>2. BlockTiles(G[j], now) = BlockTiles(H[j], now)
    BY <1>3 DEF BlockTiles
  <2>3. CASE j = i
    BY <1>2, <2>1, <2>2, <2>3
  <2>4. CASE j # i
    BY <1>1, <1>2, <2>1, <2>2, <2>4
  <2>. QED BY <2>3, <2>4
<1>5. BlocksOk(G, now)
  BY <1>2, <1>3 DEF BlocksOk
<1>6. HeapOk(G, now)
  BY <1>2, <1>4, <1>5 DEF HeapOk
<1>7. ZoneMems(G) = ZoneMems(H)
  BY <1>2, <1>3 DEF ZoneMems
<1>. QED
  BY <1>2, <1>3, <1>6, <1>7 DEF G

(* A byte is in one zone. *)
LEMMA OneHeapZone ==
  ASSUME NEW H, NEW used, HeapOk(H, used), ZonesApart(H), NEW i \in DOMAIN H, NEW j \in DOMAIN H, i # j,
         NEW a \in Bytes(H[i].base, H[i].len)
  PROVE  a \notin Bytes(H[j].base, H[j].len)
<1>1. H[i] \in HeapZone /\ H[j] \in HeapZone
  BY DEF HeapOk
<1>2. /\ H[i].base \in Nat /\ H[i].len \in Nat /\ H[j].base \in Nat /\ H[j].len \in Nat
  BY <1>1 DEF HeapZone
<1>3. H[i].base + H[i].len <= H[j].base \/ H[j].base + H[j].len <= H[i].base
  BY DEF ZonesApart, BytesApart
<1>. QED
  BY <1>2, <1>3 DEF Bytes

(* A block in use lies in its zone, behind the header. *)
LEMMA ZoneByte ==
  ASSUME NEW Z \in HeapZone, NEW U, ListInv(Z, U), NEW u \in U
  PROVE  u[1] \in Bytes(Z.base, Z.len) /\ Z.base + InitialChunk <= u[1] /\ u[1] + u[2] <= Z.base + Z.len
<1>1. u[1] \in Nat /\ u[2] \in Nat \ {0} /\ Z.base + InitialChunk <= u[1] /\ u[1] + u[2] <= Z.base + Z.len
  BY ListParts
<1>2. Z.base \in Nat /\ Z.len \in Nat
  BY DEF HeapZone
<1>3. InitialChunk \in Nat
  BY HeapFacts
<1>. QED
  BY <1>1, <1>2, <1>3 DEF Bytes

(* alloc, from a zone that has room. *)
LEMMA HeapAllocOk ==
  ASSUME NEW H, NEW used, HeapOk(H, used), ZonesApart(H), NEW i \in DOMAIN H,
         NEW lay \in Layouts, ZoneFits(H[i], lay),
         NEW b, b = NewBlock(ZoneAllocAddr(H[i], lay), lay), NEW W, W = ZoneAlloc(H[i], lay)
  PROVE  /\ HeapOk([H EXCEPT ![i] = W], used \cup {b}) /\ ZoneMems([H EXCEPT ![i] = W]) = ZoneMems(H)
         /\ DOMAIN [H EXCEPT ![i] = W] = DOMAIN H
         /\ \A j \in DOMAIN H : [H EXCEPT ![i] = W][j].mem = H[j].mem
         /\ b \notin used
<1>. DEFINE Z == H[i]
            A == AlignUp(lay.size, Chunk)
            x == <<b.addr, A>>
            U == BlockTiles(Z, used)
            now == used \cup {b}
<1>1. H \in Seq(HeapZone) /\ Z \in HeapZone /\ ListInv(Z, U) /\ BlocksOk(H, used)
  BY DEF HeapOk
<1>2. b.addr = ZoneAllocAddr(Z, lay) /\ b.lay = lay /\ b = [addr |-> b.addr, lay |-> b.lay]
  BY DEF NewBlock
<1>3. W \in HeapZone /\ ListInv(W, U \cup {x}) /\ W.base = Z.base /\ W.len = Z.len /\ W.mem = Z.mem /\ x \notin U
  BY <1>1, <1>2, ZoneAllocInv
<1>4. b.addr \in Bytes(Z.base, Z.len) /\ b.addr \in Nat /\ A \in Nat \ {0}
  <2>1. x[1] = b.addr /\ x[2] = A
    OBVIOUS
  <2>. HIDE DEF x
  <2>2. x[1] \in Bytes(W.base, W.len)
    BY <1>3, ZoneByte
  <2>3. x[1] \in Nat /\ x[2] \in Nat \ {0}
    <3>1. \A v \in U \cup {x} : v[1] \in Nat /\ v[2] \in Nat \ {0}
      BY <1>3, ListParts
    <3>. QED BY ONLY <3>1
  <2>. QED BY <1>3, <2>1, <2>2, <2>3
<1>5. \A j \in DOMAIN H : j # i => b.addr \notin Bytes(H[j].base, H[j].len)
  BY <1>4, OneHeapZone
<1>. HIDE DEF A, U
<1>6. BlockTiles(Z, now) = U \cup {x} /\ \A j \in DOMAIN H : j # i => BlockTiles(H[j], now) = BlockTiles(H[j], used)
  <2>1. BlockTiles(Z, now) = U \cup {x}
    <3>1. BlockTiles(Z, used \cup {b}) = BlockTiles(Z, used) \cup {<<b.addr, AlignUp(b.lay.size, Chunk)>>}
      <4>1. b.addr \in Bytes(Z.base, Z.len)
        BY <1>4
      <4>. HIDE DEF Z
      <4>. QED BY ONLY <4>1, BlockTilesAdd
    <3>. QED BY <1>2, <3>1 DEF A, U
  <2>2. ASSUME NEW j \in DOMAIN H, j # i PROVE BlockTiles(H[j], now) = BlockTiles(H[j], used)
    <3>1. b.addr \notin Bytes(H[j].base, H[j].len)
      BY <1>5, <2>2
    <3>. QED BY ONLY <3>1, BlockTilesElse
  <2>. HIDE DEF now
  <2>. QED BY <2>1, <2>2
<1>7. \A d \in used : d.addr # b.addr
  <2>. SUFFICES ASSUME NEW d \in used, d.addr = b.addr PROVE FALSE
    OBVIOUS
  <2>1. <<d.addr, AlignUp(d.lay.size, Chunk)>> \in U
    <3>1. \A c, e \in used : c.addr = e.addr => c = e
      BY <1>1 DEF BlocksOk
    <3>. QED BY <1>4, <3>1, BlockTilesRemove DEF U
  <2>. DEFINE y == <<d.addr, AlignUp(d.lay.size, Chunk)>>
  <2>2. y[1] = x[1] /\ x[1] = b.addr /\ x[2] = A
    OBVIOUS
  <2>. HIDE DEF x, y
  <2>3. y \in U \cup {x} /\ x \in U \cup {x} /\ y # x
    BY <1>3, <2>1 DEF y
  <2>4. Apart(y, x) /\ y[2] \in Nat \ {0}
    <3>1. \A u, v \in U \cup {x} : u = v \/ Apart(u, v)
      <4>1. \A u, v \in NodeTiles(W.list) \cup (U \cup {x}) : u = v \/ Apart(u, v)
        BY <1>3 DEF ListInv, Tiling
      <4>. QED BY <4>1
    <3>. QED BY <1>3, <2>3, <3>1, ListParts
  <2>. QED BY <1>4, <2>2, <2>4 DEF Apart
<1>8. BlocksOk(H, now)
  <2>1. now \subseteq [addr : Nat, lay : Layouts]
    BY <1>1, <1>2, <1>4 DEF BlocksOk
  <2>2. \A d \in now : \E j \in DOMAIN H : d.addr \in Bytes(H[j].base, H[j].len)
    BY <1>1, <1>4 DEF BlocksOk
  <2>3. \A d, e \in now : d.addr = e.addr => d = e
    BY <1>1, <1>7 DEF BlocksOk
  <2>. QED BY <2>1, <2>2, <2>3 DEF BlocksOk
<1>9. SameBytes(W, H[i]) /\ ListInv(W, BlockTiles(H[i], now))
  BY <1>3, <1>6 DEF SameBytes
<1>. HIDE DEF now, Z, x
<1>10. /\ HeapOk([H EXCEPT ![i] = W], now) /\ ZoneMems([H EXCEPT ![i] = W]) = ZoneMems(H)
       /\ DOMAIN [H EXCEPT ![i] = W] = DOMAIN H
       /\ \A j \in DOMAIN H : [H EXCEPT ![i] = W][j].mem = H[j].mem
  BY <1>3, <1>6, <1>8, <1>9, HeapChanged
<1>11. b \notin used
  BY <1>7
<1>. QED
  BY <1>10, <1>11 DEF now

(* dealloc finds the zone of a block: contains() has both bounds one chunk *)
(* up, which is less than the header.                                      *)
LEMMA HeapFinds ==
  ASSUME NEW H, NEW used, HeapOk(H, used), ZonesApart(H), NEW b \in used
  PROVE  /\ b.addr % Chunk = 0 /\ b.lay \in Layouts
         /\ \E i \in DOMAIN H :
              /\ b.addr \in Bytes(H[i].base, H[i].len)
              /\ \A j \in DOMAIN H : ZoneContains(H[j], b.addr, b.lay.size) <=> j = i
<1>1. H \in Seq(HeapZone) /\ BlocksOk(H, used) /\ \A j \in DOMAIN H : ListInv(H[j], BlockTiles(H[j], used))
  BY DEF HeapOk
<1>2. b.addr \in Nat /\ b.lay \in Layouts /\ \A c, d \in used : c.addr = d.addr => c = d
  BY <1>1 DEF BlocksOk
<1>3. PICK i \in DOMAIN H : b.addr \in Bytes(H[i].base, H[i].len)
  BY <1>1 DEF BlocksOk
<1>. DEFINE Z == H[i]
            A == AlignUp(b.lay.size, Chunk)
            u == <<b.addr, A>>
            U == BlockTiles(Z, used)
<1>4. u \in U /\ u[1] = b.addr /\ u[2] = A
  BY <1>2, <1>3, BlockTilesRemove
<1>5. b.lay.size \in Nat \ {0} /\ b.lay.size <= A /\ A \in Nat /\ Chunk \in Nat \ {0} /\ Chunk <= InitialChunk /\ InitialChunk \in Nat
  BY <1>2, HeapFacts, AlignUpIs
<1>6. Z \in HeapZone /\ ListInv(Z, U)
  BY <1>1
<1>. HIDE DEF u, U, A
<1>7. Z.base + InitialChunk <= b.addr /\ b.addr + A <= Z.base + Z.len
  BY <1>4, <1>6, ZoneByte
<1>8. b.addr % Chunk = 0
  <2>1. \A v \in U : v[1] % Chunk = 0
    BY <1>6 DEF ListInv
  <2>. QED BY <1>4, <2>1
<1>9. \A j \in DOMAIN H : H[j].base \in Nat /\ H[j].len \in Nat
  <2>1. \A j \in DOMAIN H : H[j] \in HeapZone
    BY <1>1
  <2>. QED BY <2>1 DEF HeapZone
<1>10. ZoneContains(H[i], b.addr, b.lay.size)
  BY <1>2, <1>5, <1>7, <1>9 DEF ZoneContains
<1>11. ASSUME NEW j \in DOMAIN H, j # i PROVE ~ ZoneContains(H[j], b.addr, b.lay.size)
  <2>1. H[i].base + H[i].len <= H[j].base \/ H[j].base + H[j].len <= H[i].base
    BY <1>11 DEF ZonesApart, BytesApart
  <2>. QED BY <1>2, <1>5, <1>7, <1>9, <2>1 DEF ZoneContains
<1>. QED
  BY <1>2, <1>3, <1>8, <1>10, <1>11

(* dealloc in the zone that the block lies in. *)
LEMMA HeapDeallocOk ==
  ASSUME NEW H, NEW used, HeapOk(H, used), ZonesApart(H), NEW b \in used, NEW i \in DOMAIN H,
         b.addr \in Bytes(H[i].base, H[i].len), NEW W, W = ZoneDealloc(H[i], b.addr, b.lay)
  PROVE  /\ HeapOk([H EXCEPT ![i] = W], used \ {b}) /\ ZoneMems([H EXCEPT ![i] = W]) = ZoneMems(H)
         /\ DOMAIN [H EXCEPT ![i] = W] = DOMAIN H
         /\ \A j \in DOMAIN H : [H EXCEPT ![i] = W][j].mem = H[j].mem
<1>. DEFINE Z == H[i]
            u == <<b.addr, AlignUp(b.lay.size, Chunk)>>
            U == BlockTiles(Z, used)
            now == used \ {b}
<1>1. H \in Seq(HeapZone) /\ Z \in HeapZone /\ ListInv(Z, U) /\ BlocksOk(H, used)
  BY DEF HeapOk
<1>2. b.lay \in Layouts /\ \A c, d \in used : c.addr = d.addr => c = d
  BY <1>1 DEF BlocksOk
<1>3. BlockTiles(Z, now) = U \ {u} /\ u \in U
  BY <1>2, BlockTilesRemove
<1>4. W \in HeapZone /\ ListInv(W, U \ {u}) /\ W.base = Z.base /\ W.len = Z.len /\ W.mem = Z.mem
  <2>. DEFINE a == b.addr
              lay == b.lay
  <2>1. /\ u = <<a, AlignUp(lay.size, Chunk)>> /\ W = ZoneDealloc(Z, a, lay) /\ lay \in Layouts
        /\ Z \in HeapZone /\ ListInv(Z, U) /\ u \in U
    BY <1>1, <1>2, <1>3
  <2>. HIDE DEF U, Z, u, a, lay
  <2>. QED BY ONLY <2>1, ZoneDeallocInv
<1>5. \A j \in DOMAIN H : j # i => BlockTiles(H[j], now) = BlockTiles(H[j], used)
  <2>1. \A j \in DOMAIN H : j # i => b.addr \notin Bytes(H[j].base, H[j].len)
    BY OneHeapZone
  <2>. QED BY <2>1, BlockTilesElse
<1>6. BlocksOk(H, now)
  BY <1>1 DEF BlocksOk
<1>7. SameBytes(W, H[i]) /\ ListInv(W, BlockTiles(H[i], now))
  BY <1>3, <1>4 DEF SameBytes
<1>. HIDE DEF now, Z, u
<1>8. /\ HeapOk([H EXCEPT ![i] = W], now) /\ ZoneMems([H EXCEPT ![i] = W]) = ZoneMems(H)
      /\ DOMAIN [H EXCEPT ![i] = W] = DOMAIN H
      /\ \A j \in DOMAIN H : [H EXCEPT ![i] = W][j].mem = H[j].mem
  BY <1>4, <1>5, <1>6, <1>7, HeapChanged
<1>. QED
  BY <1>8 DEF now

(* A zone is added at the end of the list. *)
Addable(zs, S, H, used, m) ==
  /\ PagesOk(zs, S) /\ HeapOk(H, used) /\ ZoneMems(H) \subseteq S
  /\ \A i, j \in DOMAIN H : H[i].mem = H[j].mem => i = j
  /\ m \in S /\ m \notin ZoneMems(H) /\ InitialChunk < 2^m.order * PageSize

WithZone(H, m) == Append(H, NewZone(m))

(* The list of zones with a new one. *)
LEMMA HeapAppendOk ==
  ASSUME NEW zs, NEW S, NEW H, NEW used, NEW m, Addable(zs, S, H, used, m)
  PROVE  /\ HeapOk(WithZone(H, m), used) /\ ZoneMems(WithZone(H, m)) = ZoneMems(H) \cup {m}
         /\ ZonesApart(WithZone(H, m))
         /\ \A i, j \in DOMAIN WithZone(H, m) : WithZone(H, m)[i].mem = WithZone(H, m)[j].mem => i = j
         /\ Len(H) \in Nat /\ Len(H) + 1 \in DOMAIN WithZone(H, m) /\ WithZone(H, m)[Len(H) + 1] = NewZone(m)
         /\ \A W \in HeapZone : Append(H, W) = [WithZone(H, m) EXCEPT ![Len(H) + 1] = W]
<1>. DEFINE Z == NewZone(m)
            n == Len(H)
            K == WithZone(H, m)
<1>. /\ PagesOk(zs, S) /\ HeapOk(H, used) /\ ZoneMems(H) \subseteq S
     /\ \A i, j \in DOMAIN H : H[i].mem = H[j].mem => i = j
     /\ m \in S /\ m \notin ZoneMems(H) /\ InitialChunk < 2^m.order * PageSize
  BY DEF Addable
<1>1. H \in Seq(HeapZone) /\ n \in Nat /\ DOMAIN H = 1 .. n /\ \A i \in DOMAIN H : H[i] \in HeapZone
  BY DEF HeapOk
<1>2. /\ BlocksOk(H, used)
      /\ \A i \in DOMAIN H : ZoneBytes(H[i]) /\ ListInv(H[i], BlockTiles(H[i], used))
  BY DEF HeapOk
<1>3. Z \in HeapZone /\ ZoneBytes(Z) /\ ListInv(Z, {}) /\ Z.mem = m
  <2>1. m \in Allocation
    BY DEF PagesOk
  <2>. QED BY <2>1, NewZoneInv
<1>0. K = Append(H, NewZone(m))
  BY DEF WithZone
<1>. HIDE DEF Z, n, K
<1>4. /\ K \in Seq(HeapZone) /\ DOMAIN K = 1 .. n + 1 /\ K[n + 1] = Z /\ \A i \in 1 .. n : K[i] = H[i]
      /\ \A W \in HeapZone : Append(H, W) = [K EXCEPT ![n + 1] = W]
  <2>1. K = Append(H, Z)
    BY <1>0 DEF Z
  <2>2. Len(H) = n
    BY DEF n
  <2>3. /\ K \in Seq(HeapZone) /\ Len(K) = n + 1 /\ K[n + 1] = Z /\ \A i \in 1 .. n : K[i] = H[i]
    BY <1>1, <1>3, <2>1, <2>2
  <2>4. ASSUME NEW W \in HeapZone PROVE Append(H, W) = [K EXCEPT ![n + 1] = W]
    <3>. DEFINE L == Append(H, W)
                M == [K EXCEPT ![n + 1] = W]
    <3>1. L \in Seq(HeapZone) /\ Len(L) = n + 1 /\ L[n + 1] = W /\ \A i \in 1 .. n : L[i] = H[i]
      BY <1>1, <2>2
    <3>2. M \in Seq(HeapZone) /\ Len(M) = n + 1 /\ M[n + 1] = W /\ \A i \in 1 .. n : M[i] = H[i]
      <4>1. n + 1 \in DOMAIN K /\ \A i \in 1 .. n : i \in DOMAIN K /\ i # n + 1
        BY <1>1, <2>3
      <4>2. M \in Seq(HeapZone) /\ Len(M) = Len(K)
        <5>1. K \in Seq(HeapZone) /\ W \in HeapZone /\ n + 1 \in DOMAIN K
          BY <2>3, <4>1
        <5>2. M \in Seq(HeapZone) /\ DOMAIN M = DOMAIN K
          BY ONLY <5>1
        <5>. HIDE DEF M
        <5>3. DOMAIN M = 1 .. Len(M) /\ DOMAIN K = 1 .. Len(K) /\ Len(M) \in Nat /\ Len(K) \in Nat
          BY ONLY <5>1, <5>2
        <5>. DEFINE x == Len(M)
                    y == Len(K)
        <5>4. 1 .. x = 1 .. y /\ x \in Nat /\ y \in Nat
          BY ONLY <5>2, <5>3
        <5>. HIDE DEF x, y
        <5>5. (y > x => y \in 1 .. y /\ y \notin 1 .. x) /\ (x > y => x \in 1 .. x /\ x \notin 1 .. y)
          BY ONLY <5>4
        <5>6. x = y
          BY ONLY <5>4, <5>5
        <5>. QED BY <5>2, <5>6 DEF x, y
      <4>3. M[n + 1] = W /\ \A i \in 1 .. n : M[i] = K[i]
        BY <4>1
      <4>. QED BY <2>3, <4>2, <4>3
    <3>. HIDE DEF L, M
    <3>3. \A i \in 1 .. n + 1 : i = n + 1 \/ i \in 1 .. n
      BY <1>1
    <3>4. \A i \in 1 .. n + 1 : L[i] = M[i]
      BY <3>1, <3>2, <3>3
    <3>5. L = M
      BY <3>1, <3>2, <3>4
    <3>. QED BY <3>5 DEF L, M
  <2>. QED BY <1>1, <2>3, <2>4
<1>5. \A i \in DOMAIN K : i \in 1 .. n \/ i = n + 1
  BY <1>1, <1>4
<1>6. \A i \in 1 .. n : H[i].mem # m /\ H[i].mem \in S
  BY <1>1 DEF ZoneMems
<1>7. \A i \in 1 .. n : BytesApart(H[i], Z)
  <2>. TAKE i \in 1 .. n
  <2>1. ZoneBlock(H[i]) /\ ZoneBlock(Z)
    BY <1>1, <1>2, <1>3 DEF ZoneBlock
  <2>2. H[i].mem # Z.mem /\ H[i].mem \in S /\ Z.mem \in S
    BY <1>3, <1>6
  <2>. QED BY <2>1, <2>2, BlocksApart
<1>8. \A b \in used : b.addr \notin Bytes(Z.base, Z.len)
  <2>. SUFFICES ASSUME NEW b \in used, b.addr \in Bytes(Z.base, Z.len) PROVE FALSE
    OBVIOUS
  <2>1. PICK i \in 1 .. n : b.addr \in Bytes(H[i].base, H[i].len)
    BY <1>1, <1>2 DEF BlocksOk
  <2>2. H[i].base \in Nat /\ H[i].len \in Nat /\ Z.base \in Nat /\ Z.len \in Nat
    BY <1>1, <1>3 DEF HeapZone
  <2>3. H[i].base + H[i].len <= Z.base \/ Z.base + Z.len <= H[i].base
    BY <1>7, <2>1 DEF BytesApart
  <2>4. /\ H[i].base <= b.addr /\ b.addr <= H[i].base + H[i].len - 1
        /\ Z.base <= b.addr /\ b.addr <= Z.base + Z.len - 1 /\ b.addr \in Int
    BY <2>1, <2>2 DEF Bytes
  <2>. QED BY ONLY <2>2, <2>3, <2>4
<1>9. BlockTiles(Z, used) = {}
  BY <1>8 DEF BlockTiles
<1>10. ASSUME NEW i \in DOMAIN K PROVE ZoneBytes(K[i]) /\ ListInv(K[i], BlockTiles(K[i], used))
  <2>1. CASE i \in 1 .. n
    BY <1>1, <1>2, <1>4, <2>1
  <2>2. CASE i = n + 1
    BY <1>3, <1>4, <1>9, <2>2
  <2>. QED BY <1>5, <2>1, <2>2
<1>11. BlocksOk(K, used)
  <2>1. \A i \in DOMAIN H : i \in DOMAIN K /\ K[i] = H[i]
    BY <1>1, <1>4
  <2>. QED BY <1>2, <2>1 DEF BlocksOk
<1>12. HeapOk(K, used)
  BY <1>4, <1>10, <1>11 DEF HeapOk
<1>13. ZoneMems(K) = ZoneMems(H) \cup {m}
  <2>1. DOMAIN K = (DOMAIN H) \cup {n + 1} /\ \A i \in DOMAIN H : K[i] = H[i]
    BY <1>1, <1>4
  <2>2. K[n + 1].mem = m
    BY <1>3, <1>4
  <2>. QED BY <2>1, <2>2 DEF ZoneMems
<1>14. \A i, j \in DOMAIN K : K[i].mem = K[j].mem => i = j
  <2>. SUFFICES ASSUME NEW i \in DOMAIN K, NEW j \in DOMAIN K, K[i].mem = K[j].mem PROVE i = j
    OBVIOUS
  <2>. QED BY <1>1, <1>3, <1>4, <1>5, <1>6
<1>15. ZonesApart(K)
  <2>1. ZoneMems(K) \subseteq S
    BY <1>13
  <2>. QED BY <1>12, <1>14, <2>1, HeapApart
<1>16. n \in Nat /\ n + 1 \in DOMAIN K
  BY <1>1, <1>4
<1>. QED
  BY <1>4, <1>12, <1>13, <1>14, <1>15, <1>16 DEF n, Z, K

(* alloc, from a zone that it has just added. *)
Growable(zs, S, H, used, m, lay) ==
  /\ PagesOk(zs, S) /\ HeapOk(H, used) /\ ZoneMems(H) \subseteq S
  /\ \A i, j \in DOMAIN H : H[i].mem = H[j].mem => i = j
  /\ m \in S /\ m \notin ZoneMems(H)
  /\ lay \in Layouts /\ lay.size + Chunk + InitialChunk <= 2^m.order * PageSize

GrowBlock(m, lay) == NewBlock(ZoneAllocAddr(NewZone(m), lay), lay)
GrowList(H, m, lay) == Append(H, ZoneAlloc(NewZone(m), lay))
GrowUsed(used, m, lay) == used \cup {GrowBlock(m, lay)}
MemsOnce(H) == \A i, j \in DOMAIN H : H[i].mem = H[j].mem => i = j

(* The new zone has room for the layout, and the block is cut from it. *)
LEMMA HeapGrowOk ==
  ASSUME NEW zs, NEW S, NEW H, NEW used, NEW m, NEW lay, Growable(zs, S, H, used, m, lay)
  PROVE  /\ HeapOk(GrowList(H, m, lay), GrowUsed(used, m, lay))
         /\ ZoneMems(GrowList(H, m, lay)) = ZoneMems(H) \cup {m}
         /\ MemsOnce(GrowList(H, m, lay))
         /\ ZoneFits(NewZone(m), lay) /\ GrowBlock(m, lay) \notin used
<1>0. /\ PagesOk(zs, S) /\ HeapOk(H, used) /\ ZoneMems(H) \subseteq S
      /\ \A i, j \in DOMAIN H : H[i].mem = H[j].mem => i = j
      /\ m \in S /\ m \notin ZoneMems(H)
      /\ lay \in Layouts /\ lay.size + Chunk + InitialChunk <= 2^m.order * PageSize
  BY DEF Growable
<1>. USE <1>0
<1>. DEFINE b == GrowBlock(m, lay)
            G == GrowList(H, m, lay)
            Z == NewZone(m)
            W == ZoneAlloc(Z, lay)
            K == Append(H, Z)
            k == Len(H) + 1
            len == 2^m.order * PageSize
<1>1. m \in Allocation
  BY DEF PagesOk
<1>2. ZoneFits(Z, lay)
  BY <1>1, NewZoneFits
<1>3. InitialChunk < len
  <2>1. lay.size \in Nat \ {0} /\ Chunk \in Nat /\ InitialChunk \in Nat
    BY HeapFacts
  <2>2. len \in Nat
    <3>1. 2^m.order \in Nat /\ PageSize \in Nat
      BY <1>1, MemTileIs, ZoneFacts
    <3>. DEFINE q == 2^m.order
    <3>. HIDE DEF q
    <3>2. q * PageSize \in Nat
      BY <3>1 DEF q
    <3>. QED BY <3>2 DEF q
  <2>3. lay.size + Chunk + InitialChunk <= len
    OBVIOUS
  <2>. HIDE DEF len
  <2>. QED BY <2>1, <2>2, <2>3
<1>4. W \in HeapZone
  <2>1. Z \in HeapZone /\ ListInv(Z, {})
    BY <1>1, <1>3, NewZoneInv
  <2>. QED BY <1>2, <2>1, ZoneAllocInv
<1>5. /\ HeapOk(K, used) /\ ZoneMems(K) = ZoneMems(H) \cup {m} /\ ZonesApart(K)
      /\ \A i, j \in DOMAIN K : K[i].mem = K[j].mem => i = j
      /\ k \in DOMAIN K /\ K[k] = Z
      /\ \A X \in HeapZone : Append(H, X) = [K EXCEPT ![k] = X]
  <2>1. Addable(zs, S, H, used, m)
    BY <1>3 DEF Addable
  <2>2. K = WithZone(H, m)
    BY DEF WithZone
  <2>. HIDE DEF K, Z
  <2>3. /\ HeapOk(WithZone(H, m), used) /\ ZoneMems(WithZone(H, m)) = ZoneMems(H) \cup {m}
        /\ ZonesApart(WithZone(H, m))
        /\ \A i, j \in DOMAIN WithZone(H, m) : WithZone(H, m)[i].mem = WithZone(H, m)[j].mem => i = j
        /\ Len(H) + 1 \in DOMAIN WithZone(H, m) /\ WithZone(H, m)[Len(H) + 1] = NewZone(m)
        /\ \A X \in HeapZone : Append(H, X) = [WithZone(H, m) EXCEPT ![Len(H) + 1] = X]
    BY ONLY <2>1, HeapAppendOk
  <2>. QED BY <2>2, <2>3 DEF Z
<1>. DEFINE M == [K EXCEPT ![k] = W]
<1>6. G = M
  BY <1>4, <1>5 DEF GrowList
<1>7. /\ b = NewBlock(ZoneAllocAddr(K[k], lay), lay) /\ W = ZoneAlloc(K[k], lay) /\ ZoneFits(K[k], lay)
  BY <1>2, <1>5 DEF GrowBlock
<1>. HIDE DEF K, k, W, Z, b, G
<1>8. /\ HeapOk(M, used \cup {b}) /\ ZoneMems(M) = ZoneMems(K) /\ DOMAIN M = DOMAIN K
      /\ \A j \in DOMAIN K : M[j].mem = K[j].mem
      /\ b \notin used
  <2>1. k \in DOMAIN K /\ lay \in Layouts /\ HeapOk(K, used) /\ ZonesApart(K)
    BY <1>5
  <2>. QED BY ONLY <1>7, <2>1, HeapAllocOk
<1>. HIDE DEF M
<1>9. \A i, j \in DOMAIN M : M[i].mem = M[j].mem => i = j
  BY <1>5, <1>8
<1>. QED
  BY <1>2, <1>5, <1>6, <1>8, <1>9 DEF Z, b, G, MemsOnce, GrowUsed

-----------------------------------------------------------------------------
(* A block of pages changes hands.                                         *)

OneMem(o, p, c, m) == c \in Cpu /\ p[c].mem = m /\ \A d \in Cpu : d # c => p[d].mem = o[d].mem

(* Nothing moves. *)
LEMMA MemsSame ==
  ASSUME NEW h, NEW o, NEW p, NEW H, NEW G, Exclusive(h, o, H),
         \A d \in Cpu : p[d].mem = o[d].mem, DOMAIN G = DOMAIN H, \A i \in DOMAIN H : G[i].mem = H[i].mem
  PROVE  Owned(h, p, G) = Owned(h, o, H) /\ Exclusive(h, p, G)
<1>1. Mems(p) = Mems(o) /\ ZoneMems(G) = ZoneMems(H)
  BY DEF Mems, ZoneMems
<1>2. Owned(h, p, G) = Owned(h, o, H)
  BY <1>1 DEF Owned
<1>3. /\ \A c \in Cpu : o[c].mem # NoMem =>
           /\ o[c].mem \notin h /\ o[c].mem \notin ZoneMems(H)
           /\ \A d \in Cpu : o[d].mem = o[c].mem => d = c
      /\ ZoneMems(H) \cap h = {}
      /\ \A i, j \in DOMAIN H : H[i].mem = H[j].mem => i = j
  BY DEF Exclusive
<1>4. /\ \A c \in Cpu : p[c].mem # NoMem =>
           /\ p[c].mem \notin h /\ p[c].mem \notin ZoneMems(G)
           /\ \A d \in Cpu : p[d].mem = p[c].mem => d = c
      /\ ZoneMems(G) \cap h = {}
      /\ \A i, j \in DOMAIN G : G[i].mem = G[j].mem => i = j
  BY <1>1, <1>3
<1>. QED
  BY <1>2, <1>4 DEF Exclusive

(* A call gets a block that nobody has. *)
LEMMA MemGot ==
  ASSUME NEW h, NEW o, NEW p, NEW H, Exclusive(h, o, H), NEW c, NEW m, OneMem(o, p, c, m),
         o[c].mem = NoMem, m # NoMem, m \notin Owned(h, o, H)
  PROVE  Owned(h, p, H) = Owned(h, o, H) \cup {m} /\ Exclusive(h, p, H)
<1>1. c \in Cpu /\ p[c].mem = m /\ \A d \in Cpu : d # c => p[d].mem = o[d].mem
  BY DEF OneMem
<1>2. Mems(p) = Mems(o) \cup {m}
  BY <1>1 DEF Mems
<1>3. /\ \A d \in Cpu : o[d].mem # NoMem =>
           /\ o[d].mem \notin h /\ o[d].mem \notin ZoneMems(H)
           /\ \A e \in Cpu : o[e].mem = o[d].mem => e = d
      /\ ZoneMems(H) \cap h = {}
      /\ \A i, j \in DOMAIN H : H[i].mem = H[j].mem => i = j
  BY DEF Exclusive
<1>4. m \notin h /\ m \notin ZoneMems(H) /\ \A d \in Cpu : o[d].mem # m
  BY DEF Owned, Mems
<1>5. ASSUME NEW d \in Cpu, p[d].mem # NoMem
      PROVE  /\ p[d].mem \notin h /\ p[d].mem \notin ZoneMems(H)
             /\ \A e \in Cpu : p[e].mem = p[d].mem => e = d
  <2>1. CASE d = c
    BY <1>1, <1>4, <2>1
  <2>2. CASE d # c
    BY <1>1, <1>3, <1>4, <1>5, <2>2
  <2>. QED BY <2>1, <2>2
<1>6. Exclusive(h, p, H)
  BY <1>3, <1>5 DEF Exclusive
<1>. QED
  BY <1>2, <1>6 DEF Owned

(* The caller or the heap takes it over. *)
LEMMA MemLeaves ==
  ASSUME NEW h, NEW o, NEW p, NEW H, Exclusive(h, o, H), NEW c, OneMem(o, p, c, NoMem)
  PROVE  /\ Mems(o) = IF o[c].mem = NoMem THEN Mems(p) ELSE Mems(p) \cup {o[c].mem}
         /\ \A d \in Cpu : p[d].mem # NoMem =>
              /\ p[d].mem # o[c].mem /\ p[d].mem \notin h /\ p[d].mem \notin ZoneMems(H)
              /\ \A e \in Cpu : p[e].mem = p[d].mem => e = d
         /\ o[c].mem # NoMem => o[c].mem \notin h /\ o[c].mem \notin ZoneMems(H)
<1>1. c \in Cpu /\ p[c].mem = NoMem /\ \A d \in Cpu : d # c => p[d].mem = o[d].mem
  BY DEF OneMem
<1>2. \A d \in Cpu : o[d].mem # NoMem =>
           /\ o[d].mem \notin h /\ o[d].mem \notin ZoneMems(H)
           /\ \A e \in Cpu : o[e].mem = o[d].mem => e = d
  BY DEF Exclusive
<1>3. Mems(o) = IF o[c].mem = NoMem THEN Mems(p) ELSE Mems(p) \cup {o[c].mem}
  BY <1>1 DEF Mems
<1>. QED
  BY <1>1, <1>2, <1>3

(* The caller of zm.alloc gets what the call has got. *)
LEMMA MemToHolder ==
  ASSUME NEW h, NEW o, NEW p, NEW H, Exclusive(h, o, H), NEW c, OneMem(o, p, c, NoMem), o[c].mem # NoMem
  PROVE  Owned(h \cup {o[c].mem}, p, H) = Owned(h, o, H) /\ Exclusive(h \cup {o[c].mem}, p, H)
<1>. DEFINE m == o[c].mem
<1>1. /\ Mems(o) = Mems(p) \cup {m} /\ m \notin h /\ m \notin ZoneMems(H)
      /\ \A d \in Cpu : p[d].mem # NoMem =>
           /\ p[d].mem # m /\ p[d].mem \notin h /\ p[d].mem \notin ZoneMems(H)
           /\ \A e \in Cpu : p[e].mem = p[d].mem => e = d
  <2>1. Exclusive(h, o, H) /\ OneMem(o, p, c, NoMem) /\ o[c].mem # NoMem
    OBVIOUS
  <2>2. /\ Mems(o) = IF o[c].mem = NoMem THEN Mems(p) ELSE Mems(p) \cup {o[c].mem}
        /\ \A d \in Cpu : p[d].mem # NoMem =>
              /\ p[d].mem # o[c].mem /\ p[d].mem \notin h /\ p[d].mem \notin ZoneMems(H)
              /\ \A e \in Cpu : p[e].mem = p[d].mem => e = d
        /\ o[c].mem # NoMem => o[c].mem \notin h /\ o[c].mem \notin ZoneMems(H)
    BY ONLY <2>1, MemLeaves
  <2>. QED BY ONLY <2>1, <2>2
<1>. HIDE DEF m
<1>2. ZoneMems(H) \cap h = {} /\ \A i, j \in DOMAIN H : H[i].mem = H[j].mem => i = j
  BY DEF Exclusive
<1>3. Exclusive(h \cup {m}, p, H)
  BY <1>1, <1>2 DEF Exclusive
<1>4. Owned(h \cup {m}, p, H) = Owned(h, o, H)
  BY <1>1 DEF Owned
<1>. QED
  BY <1>3, <1>4 DEF m

(* The heap gets what the call has got, as a new zone. *)
LEMMA MemToHeap ==
  ASSUME NEW h, NEW o, NEW p, NEW H, Exclusive(h, o, H), NEW c, OneMem(o, p, c, NoMem), o[c].mem # NoMem,
         NEW G, ZoneMems(G) = ZoneMems(H) \cup {o[c].mem}, \A i, j \in DOMAIN G : G[i].mem = G[j].mem => i = j
  PROVE  Owned(h, p, G) = Owned(h, o, H) /\ Exclusive(h, p, G)
<1>. DEFINE m == o[c].mem
<1>1. /\ Mems(o) = Mems(p) \cup {m} /\ m \notin h /\ m \notin ZoneMems(H)
      /\ \A d \in Cpu : p[d].mem # NoMem =>
           /\ p[d].mem # m /\ p[d].mem \notin h /\ p[d].mem \notin ZoneMems(H)
           /\ \A e \in Cpu : p[e].mem = p[d].mem => e = d
  <2>1. Exclusive(h, o, H) /\ OneMem(o, p, c, NoMem) /\ o[c].mem # NoMem
    OBVIOUS
  <2>2. /\ Mems(o) = IF o[c].mem = NoMem THEN Mems(p) ELSE Mems(p) \cup {o[c].mem}
        /\ \A d \in Cpu : p[d].mem # NoMem =>
              /\ p[d].mem # o[c].mem /\ p[d].mem \notin h /\ p[d].mem \notin ZoneMems(H)
              /\ \A e \in Cpu : p[e].mem = p[d].mem => e = d
        /\ o[c].mem # NoMem => o[c].mem \notin h /\ o[c].mem \notin ZoneMems(H)
    BY ONLY <2>1, MemLeaves
  <2>. QED BY ONLY <2>1, <2>2
<1>2. ZoneMems(G) = ZoneMems(H) \cup {m}
  OBVIOUS
<1>. HIDE DEF m
<1>3. ZoneMems(H) \cap h = {}
  BY DEF Exclusive
<1>4. Exclusive(h, p, G)
  BY <1>1, <1>2, <1>3 DEF Exclusive
<1>5. Owned(h, p, G) = Owned(h, o, H)
  BY <1>1, <1>2 DEF Owned
<1>. QED
  BY <1>4, <1>5

(* The holder gives it back. *)
LEMMA MemDropped ==
  ASSUME NEW h, NEW o, NEW H, Exclusive(h, o, H), NEW m \in h
  PROVE  Owned(h \ {m}, o, H) = Owned(h, o, H) \ {m} /\ Exclusive(h \ {m}, o, H)
<1>1. /\ \A c \in Cpu : o[c].mem # NoMem =>
           /\ o[c].mem \notin h /\ o[c].mem \notin ZoneMems(H)
           /\ \A d \in Cpu : o[d].mem = o[c].mem => d = c
      /\ ZoneMems(H) \cap h = {}
      /\ \A i, j \in DOMAIN H : H[i].mem = H[j].mem => i = j
  BY DEF Exclusive
<1>2. m \notin Mems(o) /\ m \notin ZoneMems(H)
  BY <1>1 DEF Mems
<1>3. Exclusive(h \ {m}, o, H)
  BY <1>1 DEF Exclusive
<1>. QED
  BY <1>2, <1>3 DEF Owned

-----------------------------------------------------------------------------
(* Calls of zm.alloc.                                                      *)

Calls(o, l, w, b) ==
  /\ o \in [Cpu -> OpType]
  /\ l \in Cpu \cup {NoCpu} /\ w \in [Cpu -> Layouts \cup {NoLayout}]
  /\ \A c \in Cpu : CallOk(c, o[c], l, w[c], b)

(* A call whose processor does not have the heap's lock does not notice that *)
(* somebody takes or drops it, nor that booting goes on.                     *)
LEMMA CallElse ==
  ASSUME NEW c \in Cpu, NEW r, NEW l, NEW w, NEW b, CallOk(c, r, l, w, b),
         l # c, NEW k, k # c, NEW v, NEW d, b = "up" => d = "up"
  PROVE  CallOk(c, r, k, v, d)
BY DEF CallOk

(* One processor's call changes, and possibly what belongs to it. *)
LEMMA CallChanged ==
  ASSUME NEW o, NEW l, NEW w, NEW b, Calls(o, l, w, b), NEW c \in Cpu, NEW r \in OpType,
         NEW k \in Cpu \cup {NoCpu}, NEW v \in Layouts \cup {NoLayout}, NEW d,
         CallOk(c, r, k, v, d), b = "up" => d = "up", k = l \/ (l \in {c, NoCpu} /\ k \in {c, NoCpu}),
         d = b \/ l \in {c, NoCpu}
  PROVE  Calls([o EXCEPT ![c] = r], k, [w EXCEPT ![c] = v], d)
<1>1. /\ o \in [Cpu -> OpType] /\ w \in [Cpu -> Layouts \cup {NoLayout}]
      /\ \A e \in Cpu : CallOk(e, o[e], l, w[e], b)
  BY DEF Calls
<1>. DEFINE p == [o EXCEPT ![c] = r]
            x == [w EXCEPT ![c] = v]
<1>2. p \in [Cpu -> OpType] /\ x \in [Cpu -> Layouts \cup {NoLayout}]
  BY <1>1
<1>3. p[c] = r /\ x[c] = v /\ \A e \in Cpu : e # c => p[e] = o[e] /\ x[e] = w[e]
  BY <1>1
<1>. HIDE DEF p, x
<1>4. ASSUME NEW e \in Cpu PROVE CallOk(e, p[e], k, x[e], d)
  <2>1. CASE e = c
    BY <1>3, <2>1
  <2>2. CASE e # c /\ k = l /\ d = b
    BY <1>1, <1>3, <2>2
  <2>3. CASE e # c /\ l \in {c, NoCpu} /\ k \in {c, NoCpu}
    <3>1. l # e /\ k # e
      BY <2>3, HeapAssumption
    <3>2. CallOk(e, o[e], l, w[e], b)
      BY <1>1
    <3>3. CallOk(e, o[e], k, w[e], d)
      BY ONLY <3>1, <3>2, CallElse, e \in Cpu, b = "up" => d = "up"
    <3>. QED BY <1>3, <2>3, <3>3
  <2>. QED BY <2>1, <2>2, <2>3
<1>5. Calls(p, k, x, d)
  BY <1>2, <1>4 DEF Calls
<1>. QED
  BY <1>5 DEF p, x

(* CallInv in terms of Calls. *)
LEMMA CallsAre == CallInv <=> Calls(op, lock, want, boot) /\ selnum \in Zone
BY DEF CallInv, Calls

(* Who is in a call while the machine starts. *)
LEMMA BootCalls ==
  ASSUME NEW o, NEW l, NEW w, NEW b, Calls(o, l, w, b)
  PROVE  /\ b = "zones" => \A c \in Cpu : o[c] = Idle
         /\ \A c \in Cpu : b # "up" /\ o[c].pc # "idle" =>
              /\ b = "heap" /\ l = c /\ o[c].user = "heap" /\ o[c].size = InitialHeapSize
              /\ \A d \in Cpu : d # c => o[d] = Idle
<1>1. \A c \in Cpu : CallOk(c, o[c], l, w[c], b) /\ o[c].user \in {"none", "pages", "heap"}
  BY DEF Calls, OpType
<1>2. ASSUME NEW c \in Cpu, b # "up"
      PROVE  /\ o[c].pc = "idle" => o[c] = Idle
             /\ l # c => o[c] = Idle
             /\ l = c => b = "heap" /\ o[c].user = "heap" /\ o[c].size = InitialHeapSize
             /\ o[c].pc # "idle" => l = c
  BY <1>1, <1>2 DEF CallOk
<1>. QED
  BY <1>2 DEF Idle

(* What a call has. *)
LEMMA CallFacts ==
  ASSUME NEW o, NEW l, NEW w, NEW b, Calls(o, l, w, b), NEW c \in Cpu
  PROVE  /\ o[c] \in OpType /\ CallOk(c, o[c], l, w[c], b)
         /\ o[c].mem \in Allocation \cup {NoMem} /\ o[c].i \in Zone /\ o[c].start \in Zone /\ o[c].size \in Nat
         /\ o[c].pc # "done" => o[c].mem = NoMem
         /\ o[c].pc = "idle" => o[c] = Idle /\ o[c].mem = NoMem /\ l # c
<1>1. o[c] \in OpType /\ CallOk(c, o[c], l, w[c], b)
  BY DEF Calls
<1>2. o[c].pc # "done" => o[c].mem = NoMem
  BY <1>1 DEF CallOk
<1>3. o[c].pc = "idle" => o[c] = Idle /\ o[c].mem = NoMem /\ l # c
  BY <1>1 DEF CallOk, Idle
<1>. QED
  BY <1>1, <1>2, <1>3 DEF OpType

-----------------------------------------------------------------------------
(* Init and the steps of the page allocator.                               *)

(* A step hands out one block or takes one back, of the pages and of the heap. *)
Moves(S, T) == T = S \/ (\E m : m \notin S /\ T = S \cup {m}) \/ (\E m \in S : T = S \ {m})
BlocksMove == Moves(Owned(held, op, heap), Owned(held', op', heap')) /\ Moves(blocks, blocks')

(* What Inv says, in terms of its parts. *)
LEMMA InvParts ==
  Inv <=> /\ Calls(op, lock, want, boot) /\ selnum \in Zone
          /\ PagesOk(zones, Owned(held, op, heap)) /\ Exclusive(held, op, heap)
          /\ HeapOk(heap, blocks) /\ BootInv /\ fault \in {"none", "borrow"}
BY CallsAre DEF Inv, PageInv, HeapInv

(* Nobody owns anything: there are no tiles. *)
LEMMA NoTiles == \A z \in Zone : PageTiles(z, {}) = {}
BY DEF PageTiles

(* In the beginning everything is free. *)
LEMMA InitInv == Init => Inv
<1>. SUFFICES ASSUME Init PROVE Inv
  OBVIOUS
<1>1. /\ zones = [z \in Zone |-> InitZone(z)] /\ selnum = 0 /\ held = {}
      /\ op = [c \in Cpu |-> Idle] /\ boot = "zones" /\ fault = "none"
      /\ heap = << >> /\ blocks = {} /\ lock = NoCpu /\ want = [c \in Cpu |-> NoLayout]
  BY DEF Init, PageInit
<1>2. 0 \in Zone
  BY ZoneFacts
<1>3. Idle \in OpType /\ Idle.mem = NoMem /\ Idle.pc = "idle" /\ Idle.user = "none"
  BY <1>2 DEF Idle, OpType
<1>4. ASSUME NEW c \in Cpu PROVE CallOk(c, op[c], lock, want[c], boot)
  <2>1. op[c] = Idle /\ lock # c
    BY <1>1, HeapAssumption
  <2>. QED BY <1>3, <2>1 DEF CallOk
<1>5. Calls(op, lock, want, boot)
  BY <1>1, <1>3, <1>4 DEF Calls
<1>6. \A c \in Cpu : op[c].mem = NoMem
  BY <1>1, <1>3
<1>7. Owned(held, op, heap) = {}
  BY <1>1, <1>6 DEF Owned, Mems, ZoneMems
<1>8. Exclusive(held, op, heap)
  BY <1>1, <1>6 DEF Exclusive, ZoneMems
<1>9. PagesOk(zones, {})
  <2>1. \A z \in Zone : ZoneInv(z, zones[z], PageTiles(z, {}))
    BY <1>1, NoTiles, InitZoneInv
  <2>2. zones = [z \in Zone |-> zones[z]]
    BY <1>1
  <2>. QED BY <2>1, <2>2 DEF PagesOk
<1>10. HeapOk(heap, blocks)
  BY <1>1 DEF HeapOk, BlocksOk
<1>11. BootInv
  BY <1>1 DEF BootInv
<1>. QED
  BY <1>1, <1>2, <1>5, <1>7, <1>8, <1>9, <1>10, <1>11, InvParts

(* The page of the AP code is there, and is found on its list. *)
LEMMA InvAllocApCode ==
  ASSUME Inv, AllocApCode, UNCHANGED heapVars
  PROVE  Inv' /\ BlocksMove
<1>1. /\ Calls(op, lock, want, boot) /\ selnum \in Zone
      /\ PagesOk(zones, Owned(held, op, heap)) /\ Exclusive(held, op, heap)
      /\ HeapOk(heap, blocks) /\ BootInv /\ fault \in {"none", "borrow"}
  BY InvParts
<1>2. /\ boot = "zones" /\ boot' = "heap" /\ selnum' = selnum /\ op' = op
      /\ heap' = heap /\ blocks' = blocks /\ lock' = lock /\ want' = want
  BY DEF AllocApCode, heapVars
<1>3. zones = [z \in Zone |-> InitZone(z)] /\ held = {} /\ heap = << >> /\ blocks = {}
  BY <1>1, <1>2 DEF BootInv
<1>4. \A c \in Cpu : op[c] = Idle /\ op[c].mem = NoMem /\ op[c].pc = "idle"
  <2>1. \A c \in Cpu : op[c] = Idle
    BY <1>1, <1>2, BootCalls
  <2>. QED BY <2>1 DEF Idle
<1>5. ContainsAddr(0, ApPage) /\ ApPage \in Nat /\ 0 \in Zone
  BY BootAssumption, ZoneFacts
<1>6. ZoneOf(ApPage) = 0
  BY <1>5, OneZone
<1>. DEFINE Z == InitZone(0)
            t == SplitTop(0, Z, ApPage, 0)
            m == [addr |-> ApPage, order |-> 0, zindex |-> 0]
            W == OAllocAt(0, Z, ApPage, 0)
<1>7. zones[0] = Z
  BY <1>3, <1>5
<1>8. /\ CanAllocAt(0, Z, ApPage, 0)
      /\ t \in Order(0) /\ 0 <= t
      /\ AllocAtNode(0, Z, ApPage, 0).addr \in ToSet(Z.free[t])
      /\ AllocAtNode(0, Z, ApPage, 0).order = t
  BY ONLY <1>5, FirstAllocAt
<1>9. /\ zones' = [zones EXCEPT ![0] = W] /\ held' = {m} /\ fault' = fault
  <2>. HIDE DEF Z
  <2>. QED BY <1>5, <1>6, <1>7, <1>8 DEF AllocApCode
<1>10. ZoneInv(0, W, {<<ApPage, 2^0>>})
  <2>1. ZoneInv(0, Z, {})
    BY <1>5, InitZoneInv
  <2>2. ApPage % 2^0 = 0 /\ 0 \in Nat
    BY <1>5, Power
  <2>. HIDE DEF Z
  <2>3. ZoneInv(0, W, {} \cup {<<ApPage, 2^0>>})
    BY <1>5, <1>8, <2>1, <2>2, OAllocAtInv
  <2>. QED BY <2>3
<1>11. m \in Allocation /\ m.zindex = 0 /\ MemTile(m) = <<ApPage, 2^0>> /\ m # NoMem
  BY <1>5, ZoneFacts DEF Allocation, MemTile, NoMem
<1>12. Owned(held, op, heap) = {}
  BY <1>3, <1>4 DEF Owned, Mems, ZoneMems
<1>. HIDE DEF m, W
<1>13. PagesOk(zones', {m})
  <2>1. PagesOk(zones, {}) /\ PageTiles(0, {}) = {}
    BY <1>1, <1>5, <1>12, NoTiles
  <2>2. ZoneInv(0, W, PageTiles(0, {}) \cup {MemTile(m)})
    BY <1>10, <1>11, <2>1
  <2>3. 0 = m.zindex /\ m \in Allocation
    BY <1>11
  <2>4. PagesOk([zones EXCEPT ![0] = W], {} \cup {m})
    BY ONLY <2>1, <2>2, <2>3, PagesGive
  <2>. QED BY <1>9, <2>4
<1>14. Owned(held, op, heap)' = {m}
  BY <1>2, <1>3, <1>4, <1>9 DEF Owned, Mems, ZoneMems
<1>15. Exclusive(held, op, heap)'
  BY <1>2, <1>3, <1>4 DEF Exclusive, ZoneMems
<1>16. Calls(op, lock, want, boot)'
  <2>1. ASSUME NEW c \in Cpu PROVE CallOk(c, op[c], lock, want[c], "heap")
    <3>1. CallOk(c, op[c], lock, want[c], boot) /\ op[c] = Idle
      BY <1>1, <1>4 DEF Calls
    <3>2. lock # c
      BY <3>1 DEF CallOk, Idle
    <3>. QED BY <3>1, <3>2 DEF CallOk, Idle
  <2>2. \A c \in Cpu : CallOk(c, op[c], lock, want[c], "heap")
    BY <2>1
  <2>. QED BY <1>1, <1>2, <2>2 DEF Calls
<1>17. zones' = AfterApCode
  BY <1>3, <1>5, <1>9 DEF AfterApCode, W
<1>18. BootInv'
  BY <1>2, <1>3, <1>4, <1>17 DEF BootInv
<1>19. HeapOk(heap, blocks)'
  BY <1>1, <1>2
<1>20. Inv'
  BY <1>1, <1>2, <1>9, <1>13, <1>14, <1>15, <1>16, <1>18, <1>19 DEF Inv, CallInv, PageInv, HeapInv, Calls
<1>. QED
  BY <1>20, <1>2, <1>11, <1>12, <1>14 DEF BlocksMove, Moves

(* A call begins. *)
Entered(user, size, s) == [pc |-> "first", user |-> user, size |-> size, start |-> s, i |-> s, mem |-> NoMem]

(* The record of a call that has just begun. *)
LEMMA EnterIs ==
  ASSUME NEW user \in {"pages", "heap"}, NEW size \in Nat, selnum \in Zone
  PROVE  /\ Entered(user, size, selnum) \in OpType /\ (selnum + 1) % NumZones \in Zone
         /\ Entered(user, size, selnum).pc = "first" /\ Entered(user, size, selnum).mem = NoMem
         /\ Entered(user, size, selnum).user = user /\ Entered(user, size, selnum).size = size
         /\ Entered(user, size, selnum).i = Entered(user, size, selnum).start
<1>1. selnum \in Zone /\ NumZones \in Nat \ {0} /\ Zone = 0 .. NumZones - 1
  BY ZoneFacts
<1>2. (selnum + 1) % NumZones \in Zone
  BY <1>1
<1>. QED
  BY <1>1, <1>2 DEF Entered, OpType

(* zm.alloc is called, for pages. *)
LEMMA InvAllocCall ==
  ASSUME Inv, NEW c \in Cpu, AllocCall(c), UNCHANGED heapVars
  PROVE  Inv' /\ BlocksMove
<1>1. /\ Calls(op, lock, want, boot) /\ selnum \in Zone
      /\ PagesOk(zones, Owned(held, op, heap)) /\ Exclusive(held, op, heap)
      /\ HeapOk(heap, blocks) /\ BootInv /\ fault \in {"none", "borrow"}
  BY InvParts
<1>2. PICK size \in Sizes : EnterAlloc(c, "pages", size)
  BY DEF AllocCall
<1>. DEFINE r == Entered("pages", size, selnum)
<1>3. /\ boot = "up" /\ op[c].pc = "idle" /\ zones' = zones /\ held' = held /\ boot' = boot /\ fault' = fault
      /\ heap' = heap /\ blocks' = blocks /\ lock' = lock /\ want' = want
      /\ op' = [op EXCEPT ![c] = r] /\ selnum' = (selnum + 1) % NumZones
  BY <1>2 DEF AllocCall, EnterAlloc, heapVars, Entered
<1>4. size \in Nat
  BY <1>2, ZoneAssumption
<1>5. /\ r \in OpType /\ selnum' \in Zone /\ r.pc = "first" /\ r.mem = NoMem /\ r.user = "pages" /\ r.i = r.start
  BY <1>1, <1>3, <1>4, EnterIs
<1>6. op \in [Cpu -> OpType] /\ want \in [Cpu -> Layouts \cup {NoLayout}] /\ lock \in Cpu \cup {NoCpu}
  BY <1>1 DEF Calls
<1>7. op[c].mem = NoMem /\ lock # c
  BY <1>1, <1>3, CallFacts
<1>. HIDE DEF r
<1>8. CallOk(c, r, lock, want[c], boot)
  BY <1>3, <1>5, <1>7 DEF CallOk
<1>9. Calls(op', lock, want, boot)
  <2>1. want = [want EXCEPT ![c] = want[c]] /\ want[c] \in Layouts \cup {NoLayout}
    BY <1>6
  <2>2. Calls([op EXCEPT ![c] = r], lock, [want EXCEPT ![c] = want[c]], boot)
    BY <1>1, <1>5, <1>6, <1>8, <2>1, CallChanged
  <2>. QED BY <1>3, <2>1, <2>2
<1>10. \A d \in Cpu : op'[d].mem = op[d].mem
  BY <1>3, <1>5, <1>6, <1>7
<1>11. Owned(held, op', heap) = Owned(held, op, heap) /\ Exclusive(held, op', heap)
  BY <1>1, <1>10, MemsSame
<1>12. BootInv'
  BY <1>1, <1>3 DEF BootInv
<1>13. Inv'
  BY <1>1, <1>3, <1>5, <1>9, <1>11, <1>12 DEF Inv, CallInv, PageInv, HeapInv, Calls
<1>. QED
  BY <1>13, <1>3, <1>11 DEF BlocksMove, Moves

(* The call's own record becomes r; its processor keeps the lock it has. *)
LEMMA CallStep ==
  ASSUME NEW o, NEW l, NEW w, NEW b, Calls(o, l, w, b), NEW c \in Cpu, NEW r \in OpType, CallOk(c, r, l, w[c], b)
  PROVE  /\ Calls([o EXCEPT ![c] = r], l, w, b)
         /\ OneMem(o, [o EXCEPT ![c] = r], c, r.mem)
         /\ [o EXCEPT ![c] = r][c] = r /\ \A d \in Cpu : d # c => [o EXCEPT ![c] = r][d] = o[d]
<1>1. o \in [Cpu -> OpType] /\ w \in [Cpu -> Layouts \cup {NoLayout}] /\ l \in Cpu \cup {NoCpu}
  BY DEF Calls
<1>2. w = [w EXCEPT ![c] = w[c]] /\ w[c] \in Layouts \cup {NoLayout}
  BY <1>1
<1>3. Calls([o EXCEPT ![c] = r], l, [w EXCEPT ![c] = w[c]], b)
  <2>1. /\ Calls(o, l, w, b) /\ c \in Cpu /\ r \in OpType /\ l \in Cpu \cup {NoCpu}
        /\ w[c] \in Layouts \cup {NoLayout} /\ CallOk(c, r, l, w[c], b) /\ (b = "up" => b = "up") /\ l = l /\ b = b
    BY <1>1, <1>2
  <2>. QED BY ONLY <2>1, CallChanged
<1>4. [o EXCEPT ![c] = r][c] = r /\ \A d \in Cpu : d # c => [o EXCEPT ![c] = r][d] = o[d]
  BY <1>1
<1>5. OneMem(o, [o EXCEPT ![c] = r], c, r.mem)
  BY <1>4 DEF OneMem
<1>6. Calls([o EXCEPT ![c] = r], l, w, b)
  BY <1>2, <1>3
<1>. QED
  BY <1>4, <1>5, <1>6

(* A call returns. *)
LEMMA InvAllocReturn ==
  ASSUME Inv, NEW c \in Cpu, AllocReturn(c), UNCHANGED heapVars
  PROVE  Inv' /\ BlocksMove
<1>1. /\ Calls(op, lock, want, boot) /\ selnum \in Zone
      /\ PagesOk(zones, Owned(held, op, heap)) /\ Exclusive(held, op, heap)
      /\ HeapOk(heap, blocks) /\ BootInv /\ fault \in {"none", "borrow"}
  BY InvParts
<1>2. /\ op[c].pc = "done" /\ op[c].user = "pages"
      /\ held' = (IF op[c].mem = NoMem THEN held ELSE held \cup {op[c].mem})
      /\ op' = [op EXCEPT ![c] = Idle]
      /\ zones' = zones /\ selnum' = selnum /\ boot' = boot /\ fault' = fault
      /\ heap' = heap /\ blocks' = blocks /\ lock' = lock /\ want' = want
  BY DEF AllocReturn, heapVars
<1>3. CallOk(c, op[c], lock, want[c], boot)
  BY <1>1, CallFacts
<1>4. boot = "up" /\ lock # c
  BY <1>2, <1>3 DEF CallOk
<1>5. Idle \in OpType /\ CallOk(c, Idle, lock, want[c], boot) /\ Idle.mem = NoMem
  BY <1>4, ZoneFacts DEF Idle, OpType, CallOk
<1>6. Calls(op', lock, want, boot) /\ OneMem(op, op', c, NoMem)
  <2>1. Calls(op, lock, want, boot) /\ Idle \in OpType /\ CallOk(c, Idle, lock, want[c], boot)
    BY <1>1, <1>5
  <2>2. Calls([op EXCEPT ![c] = Idle], lock, want, boot) /\ OneMem(op, [op EXCEPT ![c] = Idle], c, Idle.mem)
    BY ONLY <2>1, CallStep, c \in Cpu
  <2>. QED BY <1>2, <1>5, <2>2
<1>7. Owned(held', op', heap) = Owned(held, op, heap) /\ Exclusive(held', op', heap)
  <2>1. CASE op[c].mem = NoMem
    <3>1. \A d \in Cpu : op'[d].mem = op[d].mem
      BY <1>6, <2>1 DEF OneMem
    <3>2. Exclusive(held, op, heap) /\ \A i \in DOMAIN heap : heap[i].mem = heap[i].mem
      BY <1>1
    <3>3. Owned(held, op', heap) = Owned(held, op, heap) /\ Exclusive(held, op', heap)
      BY ONLY <3>1, <3>2, MemsSame, DOMAIN heap = DOMAIN heap
    <3>. QED BY <1>2, <2>1, <3>3
  <2>2. CASE op[c].mem # NoMem
    <3>1. held' = held \cup {op[c].mem}
      BY <1>2, <2>2
    <3>2. /\ Owned(held \cup {op[c].mem}, op', heap) = Owned(held, op, heap)
          /\ Exclusive(held \cup {op[c].mem}, op', heap)
      BY <1>1, <1>6, <2>2, MemToHolder
    <3>. QED BY <3>1, <3>2
  <2>. QED BY <2>1, <2>2
<1>8. BootInv'
  BY <1>1, <1>2, <1>4 DEF BootInv
<1>9. Inv'
  BY <1>1, <1>2, <1>6, <1>7, <1>8 DEF Inv, CallInv, PageInv, HeapInv, Calls
<1>. QED
  BY <1>9, <1>2, <1>7 DEF BlocksMove, Moves

(* The zones that a call has tried when it goes on to the next one. *)
LEMMA TriedNext ==
  ASSUME NEW s \in Zone, NEW i \in Zone
  PROVE  /\ Tried(s, s) = Zone /\ (i + 1) % NumZones \in Zone
         /\ Tried(s, (s + 1) % NumZones) = {s}
         /\ i # s => Tried(s, (i + 1) % NumZones) = Tried(s, i) \cup {i}
<1>1. NumZones \in Nat \ {0} /\ s \in 0 .. NumZones - 1 /\ i \in 0 .. NumZones - 1 /\ Zone = 0 .. NumZones - 1
  BY ZoneFacts
<1>2. \A k \in 0 .. NumZones - 1 : (k + 1) % NumZones = IF k = NumZones - 1 THEN 0 ELSE k + 1
  BY <1>1
<1>3. Tried(s, s) = Zone
  <2>1. Tried(s, s) = (s .. NumZones - 1) \cup (0 .. s - 1)
    BY <1>1 DEF Tried
  <2>2. (s .. NumZones - 1) \cup (0 .. s - 1) = 0 .. NumZones - 1
    BY <1>1
  <2>. QED BY <1>1, <2>1, <2>2
<1>4. Tried(s, (s + 1) % NumZones) = {s}
  BY <1>1, <1>2 DEF Tried
<1>5. i # s => Tried(s, (i + 1) % NumZones) = Tried(s, i) \cup {i}
  BY <1>1, <1>2 DEF Tried
<1>. QED
  BY <1>1, <1>2, <1>3, <1>4, <1>5

(* While the first zone of the heap is asked for, nothing but the AP code  *)
(* is in use.                                                              *)
LEMMA BootZones ==
  ASSUME Inv, boot = "heap", NEW c \in Cpu, op[c].pc \in {"first", "try"}
  PROVE  /\ zones = AfterApCode /\ op[c].size = InitialHeapSize
         /\ \A d \in Cpu : d # c => op[d] = Idle
<1>1. Calls(op, lock, want, boot) /\ BootInv
  BY InvParts
<1>2. op[c].size = InitialHeapSize /\ \A d \in Cpu : d # c => op[d] = Idle
  BY <1>1, BootCalls
<1>3. op[c].mem = NoMem
  BY <1>1, CallFacts
<1>4. \A d \in Cpu : op[d].mem = NoMem
  BY <1>2, <1>3 DEF Idle
<1>. QED
  BY <1>1, <1>2, <1>4 DEF BootInv

(* Some zone has pages for it. *)
LEMMA BootSplittable ==
  \E z \in Zone : Splittable(z, AfterApCode[z], GetOrder(InitialHeapSize)) # {}
<1>1. PICK z \in Zone :
        Splittable(z, IF z = 0 THEN OAllocAt(0, InitZone(0), ApPage, 0) ELSE InitZone(z), GetOrder(InitialHeapSize)) # {}
  BY BootAssumption
<1>2. AfterApCode[z] = IF z = 0 THEN OAllocAt(0, InitZone(0), ApPage, 0) ELSE InitZone(z)
  BY DEF AfterApCode
<1>. QED
  BY <1>1, <1>2

(* The loop has come round: every zone is full. *)
LEMMA InvRound ==
  ASSUME Inv, NEW c \in Cpu, op[c].pc = "try", op[c].i = op[c].start,
         op' = [op EXCEPT ![c].pc = "done"], UNCHANGED <<zones, selnum, held, boot, fault, heap, blocks, lock, want>>
  PROVE  Inv' /\ BlocksMove
<1>1. /\ Calls(op, lock, want, boot) /\ selnum \in Zone
      /\ PagesOk(zones, Owned(held, op, heap)) /\ Exclusive(held, op, heap)
      /\ HeapOk(heap, blocks) /\ BootInv /\ fault \in {"none", "borrow"}
  BY InvParts
<1>2. op[c] \in OpType /\ CallOk(c, op[c], lock, want[c], boot) /\ op[c].mem = NoMem
  BY <1>1, CallFacts
<1>3. boot # "heap"
  <2>1. SUFFICES ASSUME boot = "heap" PROVE FALSE
    OBVIOUS
  <2>2. zones = AfterApCode
    BY <2>1, BootZones
  <2>3. \A z \in Tried(op[c].start, op[c].i) : Splittable(z, AfterApCode[z], GetOrder(InitialHeapSize)) = {}
    BY <1>1, <2>1 DEF BootInv
  <2>4. Tried(op[c].start, op[c].i) = Zone
    BY <1>2, TriedNext DEF OpType
  <2>. QED BY <2>3, <2>4, BootSplittable
<1>4. boot = "up"
  BY <1>1, <1>3, BootCalls DEF BootInv
<1>. DEFINE r == [op[c] EXCEPT !.pc = "done"]
<1>5. r \in OpType /\ r.mem = NoMem /\ r.user = op[c].user /\ r.size = op[c].size /\ r.pc = "done"
  BY <1>2 DEF OpType
<1>6. op' = [op EXCEPT ![c] = r]
  OBVIOUS
<1>. HIDE DEF r
<1>7. CallOk(c, r, lock, want[c], boot)
  BY <1>2, <1>5 DEF CallOk
<1>8. Calls(op', lock, want, boot) /\ OneMem(op, op', c, NoMem)
  <2>1. Calls([op EXCEPT ![c] = r], lock, want, boot) /\ OneMem(op, [op EXCEPT ![c] = r], c, r.mem)
    BY ONLY <1>1, <1>5, <1>7, CallStep, c \in Cpu
  <2>. QED BY <1>5, <1>6, <2>1
<1>9. Owned(held, op', heap) = Owned(held, op, heap) /\ Exclusive(held, op', heap)
  <2>1. \A d \in Cpu : op'[d].mem = op[d].mem
    BY <1>2, <1>8 DEF OneMem
  <2>2. Exclusive(held, op, heap) /\ \A i \in DOMAIN heap : heap[i].mem = heap[i].mem
    BY <1>1
  <2>. QED BY ONLY <2>1, <2>2, MemsSame, DOMAIN heap = DOMAIN heap
<1>10. BootInv'
  BY <1>1, <1>4 DEF BootInv
<1>11. Inv'
  BY <1>1, <1>8, <1>9, <1>10 DEF Inv, CallInv, PageInv, HeapInv, Calls
<1>. QED
  BY <1>11, <1>9 DEF BlocksMove, Moves

(* What a turn of the loop makes of the call's record. *)
LEMMA RecordIs ==
  ASSUME NEW x \in OpType, NEW m, NEW n
  PROVE  /\ [[x EXCEPT !.pc = "done"] EXCEPT !.mem = m] =
              [pc |-> "done", user |-> x.user, size |-> x.size, start |-> x.start, i |-> x.i, mem |-> m]
         /\ [[x EXCEPT !.pc = "try"] EXCEPT !.i = n] =
              [pc |-> "try", user |-> x.user, size |-> x.size, start |-> x.start, i |-> n, mem |-> x.mem]
<1>1. x = [pc |-> x.pc, user |-> x.user, size |-> x.size, start |-> x.start, i |-> x.i, mem |-> x.mem]
  BY DEF OpType
<1>. DEFINE d == [x EXCEPT !.pc = "done"]
            t == [x EXCEPT !.pc = "try"]
<1>2. d = [pc |-> "done", user |-> x.user, size |-> x.size, start |-> x.start, i |-> x.i, mem |-> x.mem]
  BY <1>1
<1>3. t = [pc |-> "try", user |-> x.user, size |-> x.size, start |-> x.start, i |-> x.i, mem |-> x.mem]
  BY <1>1
<1>. HIDE DEF d, t
<1>4. [d EXCEPT !.mem = m] = [pc |-> "done", user |-> x.user, size |-> x.size, start |-> x.start, i |-> x.i, mem |-> m]
  BY ONLY <1>2
<1>5. [t EXCEPT !.i = n] = [pc |-> "try", user |-> x.user, size |-> x.size, start |-> x.start, i |-> n, mem |-> x.mem]
  BY ONLY <1>3
<1>. QED
  BY ONLY <1>4, <1>5 DEF d, t

(* The zone gives a block. *)
LEMMA InvTaken ==
  ASSUME Inv, NEW c \in Cpu, op[c].pc \in {"first", "try"}, NEW z \in Zone, NEW o, o = GetOrder(op[c].size),
         Splittable(z, zones[z], o) # {},
         zones' = [zones EXCEPT ![z] = OAlloc(z, zones[z], o)],
         op' = [op EXCEPT ![c].pc = "done",
                          ![c].mem = [addr |-> OAllocAddr(z, zones[z], o), order |-> o, zindex |-> z]],
         UNCHANGED <<selnum, held, boot, fault, heap, blocks, lock, want>>
  PROVE  Inv' /\ BlocksMove
<1>. DEFINE S == Owned(held, op, heap)
            a == OAllocAddr(z, zones[z], o)
            m == [addr |-> a, order |-> o, zindex |-> z]
            W == OAlloc(z, zones[z], o)
            r == [pc |-> "done", user |-> op[c].user, size |-> op[c].size, start |-> op[c].start,
                  i |-> op[c].i, mem |-> m]
<1>1. /\ Calls(op, lock, want, boot) /\ selnum \in Zone
      /\ PagesOk(zones, S) /\ Exclusive(held, op, heap)
      /\ HeapOk(heap, blocks) /\ BootInv /\ fault \in {"none", "borrow"}
  BY InvParts
<1>2. op[c] \in OpType /\ CallOk(c, op[c], lock, want[c], boot) /\ op[c].mem = NoMem
  BY <1>1, CallFacts
<1>3. o \in 0 .. MaxOrder /\ o \in Nat
  <2>1. op[c].size \in Nat
    BY <1>2 DEF OpType
  <2>2. GetOrder(op[c].size) \in 0 .. MaxOrder
    BY ONLY <2>1, GetOrderIs
  <2>. QED BY <2>2
<1>4. ZoneInv(z, W, PageTiles(z, S) \cup {<<a, 2^o>>}) /\ Given(z, PageTiles(z, S), a, o)
  <2>1. ZoneInv(z, zones[z], PageTiles(z, S))
    BY <1>1 DEF PagesOk
  <2>. HIDE DEF S
  <2>2. z \in Zone /\ o \in Nat /\ Splittable(z, zones[z], o) # {}
    BY <1>3
  <2>. QED BY ONLY <2>1, <2>2, OAllocInv
<1>5. m \in Allocation /\ m.zindex = z /\ m.order = o /\ MemTile(m) = <<a, 2^o>> /\ m # NoMem
  <2>1. a \in Nat
    BY <1>4 DEF Given
  <2>. HIDE DEF a
  <2>2. m \in Allocation
    BY <1>3, <2>1 DEF Allocation
  <2>. QED BY <2>2, MemTileIs DEF MemTile
<1>6. op' = [op EXCEPT ![c] = r]
  <2>2. op \in [Cpu -> OpType]
    BY <1>1 DEF Calls
  <2>. HIDE DEF m
  <2>3. op' = [op EXCEPT ![c].pc = "done", ![c].mem = m]
    BY DEF m
  <2>4. op' = [op EXCEPT ![c] = [[op[c] EXCEPT !.pc = "done"] EXCEPT !.mem = m]]
    BY <2>2, <2>3
  <2>5. [[op[c] EXCEPT !.pc = "done"] EXCEPT !.mem = m] = r
    BY <1>2, RecordIs
  <2>. QED BY <2>4, <2>5
<1>7. /\ r \in OpType /\ r.mem = m /\ r.user = op[c].user /\ r.size = op[c].size /\ r.pc = "done"
  <2>. HIDE DEF m
  <2>. QED BY <1>2, <1>5 DEF OpType
<1>8. m \notin S
  <2>1. MemTile(m) \notin PageTiles(z, S)
    BY <1>4, <1>5 DEF Given
  <2>2. S \subseteq Allocation
    BY <1>1 DEF PagesOk
  <2>. HIDE DEF S, m
  <2>3. m \in S => MemTile(m) \in PageTiles(m.zindex, S)
    BY ONLY <1>5, <2>2, OwnedTiles
  <2>. QED BY <1>5, <2>1, <2>3
<1>. HIDE DEF m, r, S, W, a
<1>9. CallOk(c, r, lock, want[c], boot)
  BY <1>2, <1>5, <1>7 DEF CallOk
<1>10. /\ Calls(op', lock, want, boot) /\ OneMem(op, op', c, m) /\ op'[c] = r
       /\ \A d \in Cpu : d # c => op'[d] = op[d]
  <2>1. /\ Calls([op EXCEPT ![c] = r], lock, want, boot) /\ OneMem(op, [op EXCEPT ![c] = r], c, r.mem)
        /\ [op EXCEPT ![c] = r][c] = r /\ \A d \in Cpu : d # c => [op EXCEPT ![c] = r][d] = op[d]
    BY ONLY <1>1, <1>7, <1>9, CallStep, c \in Cpu
  <2>. QED BY <1>6, <1>7, <2>1
<1>11. Owned(held, op', heap) = S \cup {m} /\ Exclusive(held, op', heap)
  <2>1. Exclusive(held, op, heap) /\ OneMem(op, op', c, m) /\ op[c].mem = NoMem /\ m # NoMem
        /\ m \notin Owned(held, op, heap)
    BY <1>1, <1>2, <1>5, <1>8, <1>10 DEF S
  <2>. QED BY ONLY <2>1, MemGot DEF S
<1>12. PagesOk(zones', S \cup {m})
  <2>1. PagesOk(zones, S) /\ m \in Allocation /\ z = m.zindex
        /\ ZoneInv(z, W, PageTiles(z, S) \cup {MemTile(m)})
    BY <1>1, <1>4, <1>5
  <2>2. PagesOk([zones EXCEPT ![z] = W], S \cup {m})
    BY ONLY <2>1, PagesGive
  <2>. QED BY <2>2 DEF W
<1>13. BootInv'
  <2>1. /\ boot \in {"zones", "heap", "up"} /\ boot' = boot
        /\ boot # "up" => heap' = << >> /\ blocks' = {}
    BY <1>1 DEF BootInv
  <2>2. boot # "zones"
    BY <1>1, BootCalls
  <2>3. ASSUME boot = "heap", NEW d \in Cpu
        PROVE  /\ op'[c].mem # NoMem
               /\ op'[d].pc = "done" => op'[d].mem # NoMem
               /\ op'[d].pc # "try"
    <3>1. d # c => op[d] = Idle
      BY <2>3, BootZones
    <3>2. Idle.pc = "idle"
      BY DEF Idle
    <3>3. op'[c].mem = m /\ m # NoMem /\ op'[c].pc = "done"
      BY <1>5, <1>7, <1>10
    <3>4. d # c => op'[d].pc = "idle"
      BY <1>10, <3>1, <3>2
    <3>. QED BY <3>3, <3>4
  <2>. QED BY <2>1, <2>2, <2>3 DEF BootInv
<1>14. Inv'
  BY <1>1, <1>10, <1>11, <1>12, <1>13 DEF Inv, CallInv, PageInv, HeapInv, Calls
<1>. QED
  BY <1>14, <1>8, <1>11 DEF BlocksMove, Moves, S

(* The zone is full, and the call goes on to the next one. *)
LEMMA InvNextZone ==
  ASSUME Inv, NEW c \in Cpu, op[c].pc \in {"first", "try"}, op[c].pc = "try" => op[c].i # op[c].start,
         NEW z, z = op[c].i, Splittable(z, zones[z], GetOrder(op[c].size)) = {},
         op' = [op EXCEPT ![c].pc = "try", ![c].i = (z + 1) % NumZones],
         UNCHANGED <<zones, selnum, held, boot, fault, heap, blocks, lock, want>>
  PROVE  Inv' /\ BlocksMove
<1>. DEFINE n == (z + 1) % NumZones
            r == [pc |-> "try", user |-> op[c].user, size |-> op[c].size, start |-> op[c].start,
                  i |-> n, mem |-> op[c].mem]
<1>1. /\ Calls(op, lock, want, boot) /\ selnum \in Zone
      /\ PagesOk(zones, Owned(held, op, heap)) /\ Exclusive(held, op, heap)
      /\ HeapOk(heap, blocks) /\ BootInv /\ fault \in {"none", "borrow"}
  BY InvParts
<1>2. /\ op[c] \in OpType /\ CallOk(c, op[c], lock, want[c], boot) /\ op[c].mem = NoMem
      /\ op[c].start \in Zone /\ z \in Zone
  BY <1>1, CallFacts
<1>3. n \in Zone
  BY <1>2, TriedNext
<1>. HIDE DEF n
<1>4. op' = [op EXCEPT ![c] = r]
  <2>2. op \in [Cpu -> OpType]
    BY <1>1 DEF Calls
  <2>3. op' = [op EXCEPT ![c].pc = "try", ![c].i = n]
    BY DEF n
  <2>4. op' = [op EXCEPT ![c] = [[op[c] EXCEPT !.pc = "try"] EXCEPT !.i = n]]
    BY <2>2, <2>3
  <2>5. [[op[c] EXCEPT !.pc = "try"] EXCEPT !.i = n] = r
    BY <1>2, RecordIs
  <2>. QED BY <2>4, <2>5
<1>5. /\ r \in OpType /\ r.mem = NoMem /\ r.user = op[c].user /\ r.size = op[c].size /\ r.pc = "try"
      /\ r.start = op[c].start /\ r.i = n
  BY <1>2, <1>3 DEF OpType
<1>. HIDE DEF r
<1>6. CallOk(c, r, lock, want[c], boot)
  BY <1>2, <1>5 DEF CallOk
<1>7. /\ Calls(op', lock, want, boot) /\ OneMem(op, op', c, NoMem) /\ op'[c] = r
      /\ \A d \in Cpu : d # c => op'[d] = op[d]
  <2>1. /\ Calls([op EXCEPT ![c] = r], lock, want, boot) /\ OneMem(op, [op EXCEPT ![c] = r], c, r.mem)
        /\ [op EXCEPT ![c] = r][c] = r /\ \A d \in Cpu : d # c => [op EXCEPT ![c] = r][d] = op[d]
    BY ONLY <1>1, <1>5, <1>6, CallStep, c \in Cpu
  <2>. QED BY <1>4, <1>5, <2>1
<1>8. Owned(held, op', heap) = Owned(held, op, heap) /\ Exclusive(held, op', heap)
  <2>1. \A d \in Cpu : op'[d].mem = op[d].mem
    BY <1>2, <1>7 DEF OneMem
  <2>2. Exclusive(held, op, heap) /\ \A i \in DOMAIN heap : heap[i].mem = heap[i].mem
    BY <1>1
  <2>. QED BY ONLY <2>1, <2>2, MemsSame, DOMAIN heap = DOMAIN heap
<1>9. ASSUME boot = "heap", NEW y \in Tried(op[c].start, n)
      PROVE  Splittable(y, AfterApCode[y], GetOrder(InitialHeapSize)) = {}
  <2>1. zones = AfterApCode /\ op[c].size = InitialHeapSize
    BY <1>9, BootZones
  <2>2. Splittable(z, AfterApCode[z], GetOrder(InitialHeapSize)) = {}
    BY <2>1
  <2>3. CASE op[c].pc = "first"
    <3>1. op[c].start = z
      BY <1>2, <2>3 DEF CallOk
    <3>2. Tried(z, n) = {z}
      BY <1>2, TriedNext DEF n
    <3>. QED BY <1>9, <2>2, <3>1, <3>2
  <2>4. CASE op[c].pc = "try"
    <3>1. z # op[c].start
      BY <2>4
    <3>2. Tried(op[c].start, n) = Tried(op[c].start, z) \cup {z}
      BY <1>2, <3>1, TriedNext DEF n
    <3>3. \A x \in Tried(op[c].start, z) : Splittable(x, AfterApCode[x], GetOrder(InitialHeapSize)) = {}
      BY <1>1, <1>9, <2>4 DEF BootInv
    <3>. QED BY <1>9, <2>2, <3>2, <3>3
  <2>. QED BY <2>3, <2>4
<1>10. BootInv'
  <2>1. /\ boot \in {"zones", "heap", "up"} /\ boot' = boot /\ zones' = zones
        /\ boot # "up" => heap' = << >> /\ blocks' = {}
    BY <1>1 DEF BootInv
  <2>2. boot # "zones"
    BY <1>1, BootCalls
  <2>3. boot = "heap" => zones' = AfterApCode
    BY BootZones
  <2>4. ASSUME boot = "heap", NEW d \in Cpu
        PROVE  /\ op'[d].pc # "done"
               /\ op'[d].pc = "try" => d = c
    <3>1. d # c => op[d] = Idle
      BY <2>4, BootZones
    <3>2. Idle.pc = "idle"
      BY DEF Idle
    <3>3. d # c => op'[d].pc = "idle"
      BY <1>7, <3>1, <3>2
    <3>. QED BY <1>5, <1>7, <3>3
  <2>5. ASSUME boot = "heap", NEW d \in Cpu, op'[d].pc = "try", NEW y \in Tried(op'[d].start, op'[d].i)
        PROVE  Splittable(y, AfterApCode[y], GetOrder(InitialHeapSize)) = {}
    <3>1. op'[d].start = op[c].start /\ op'[d].i = n
      BY <1>5, <1>7, <2>4, <2>5
    <3>. QED BY <1>9, <2>5, <3>1
  <2>. HIDE DEF n
  <2>. QED BY <2>1, <2>2, <2>3, <2>4, <2>5 DEF BootInv
<1>11. Inv'
  BY <1>1, <1>7, <1>8, <1>10 DEF Inv, CallInv, PageInv, HeapInv, Calls
<1>. QED
  BY <1>11, <1>8 DEF BlocksMove, Moves

(* A turn of the loop of allocer_action: the loop ends, or one of its zones gives or is full. *)
LEMMA InvTryZone ==
  ASSUME Inv, NEW c \in Cpu, TryZone(c), UNCHANGED heapVars
  PROVE  Inv' /\ BlocksMove
<1>. DEFINE z == op[c].i
            o == GetOrder(op[c].size)
<1>1. UNCHANGED <<selnum, held, boot, fault, heap, blocks, lock, want>> /\ op[c].pc \in {"first", "try"}
  BY DEF TryZone, heapVars
<1>2. CASE op[c].pc = "try" /\ z = op[c].start
  <2>1. op' = [op EXCEPT ![c].pc = "done"] /\ zones' = zones
    BY <1>2 DEF TryZone, AtEnd
  <2>. QED BY <1>1, <1>2, <2>1, InvRound
<1>3. CASE ~(op[c].pc = "try" /\ z = op[c].start) /\ Splittable(z, zones[z], o) # {}
  <2>1. /\ zones' = [zones EXCEPT ![z] = OAlloc(z, zones[z], o)]
        /\ op' = [op EXCEPT ![c].pc = "done",
                            ![c].mem = [addr |-> OAllocAddr(z, zones[z], o), order |-> o, zindex |-> z]]
    BY <1>3 DEF TryZone, AtEnd
  <2>2. z \in Zone
    BY InvParts, CallFacts
  <2>. QED BY <1>1, <1>3, <2>1, <2>2, InvTaken
<1>4. CASE ~(op[c].pc = "try" /\ z = op[c].start) /\ Splittable(z, zones[z], o) = {}
  <2>1. op' = [op EXCEPT ![c].pc = "try", ![c].i = (z + 1) % NumZones] /\ zones' = zones
    BY <1>4 DEF TryZone, AtEnd
  <2>. QED BY <1>1, <1>4, <2>1, InvNextZone
<1>. QED
  BY <1>2, <1>3, <1>4

(* Borrowing the zones, and the drop of the borrow, touch no block. *)
BorrowStep(c) ==
  BorrowToAlloc(c) \/ BorrowStore(c) \/ DropLoad(c) \/ DropStore(c) \/ (\E m \in held : BorrowToDealloc(c, m))

LEMMA InvBorrow ==
  ASSUME Inv, Running, NEW c \in Cpu, BorrowStep(c), UNCHANGED heapVars
  PROVE  Inv' /\ BlocksMove
<1>1. /\ zones' = zones /\ selnum' = selnum /\ held' = held /\ op' = op /\ boot' = boot
      /\ heap' = heap /\ blocks' = blocks /\ lock' = lock /\ want' = want
  BY DEF BorrowStep, BorrowToAlloc, BorrowStore, DropLoad, DropStore, BorrowToDealloc, BorrowLoad, heapVars
<1>2. fault' \in {"none", "borrow"}
  BY DEF Running, BorrowStep, BorrowToAlloc, BorrowStore, DropLoad, DropStore, BorrowToDealloc, BorrowLoad
<1>3. Inv'
  BY <1>1, <1>2 DEF Inv, CallInv, PageInv, HeapInv, BootInv
<1>4. BlocksMove
  BY <1>1 DEF BlocksMove, Moves
<1>. QED
  BY <1>3, <1>4

(* A block goes back to the zone that it came from. *)
LEMMA InvFreed ==
  ASSUME Inv, NEW m, m \in held, boot = "up", DeallocIn(m.zindex, m), held' = held \ {m},
         UNCHANGED <<selnum, op, boot, heap, blocks, lock, want>>
  PROVE  Inv' /\ BlocksMove
<1>. DEFINE S == Owned(held, op, heap)
            z == m.zindex
            W == Dealloc(z, zones[z], m.addr, m.order)
<1>1. /\ Calls(op, lock, want, boot) /\ selnum \in Zone
      /\ PagesOk(zones, S) /\ Exclusive(held, op, heap)
      /\ HeapOk(heap, blocks) /\ BootInv /\ fault \in {"none", "borrow"}
  BY InvParts
<1>2. m \in S
  BY DEF Owned
<1>. HIDE DEF S
<1>3. /\ m \in Allocation /\ UContains(z, m.addr, 2^m.order) /\ IsAlloced(z, zones[z], m.addr)
      /\ MemTile(m) \in PageTiles(z, S) /\ ZoneInv(z, zones[z], PageTiles(z, S))
  BY ONLY <1>1, <1>2, OwnedBlock
<1>4. zones' = [zones EXCEPT ![z] = W] /\ fault' = fault
  BY <1>3 DEF DeallocIn
<1>5. ZoneInv(z, W, PageTiles(z, S) \ {MemTile(m)})
  <2>1. z \in Zone /\ m.addr \in Nat /\ m.order \in Nat
    BY ONLY <1>3, MemTileIs
  <2>2. <<m.addr, 2^m.order>> \in PageTiles(z, S) /\ MemTile(m) = <<m.addr, 2^m.order>>
    BY <1>3 DEF MemTile
  <2>3. ZoneInv(z, W, PageTiles(z, S) \ {<<m.addr, 2^m.order>>})
    BY ONLY <1>3, <2>1, <2>2, DeallocInv
  <2>. QED BY <2>2, <2>3
<1>. HIDE DEF W
<1>6. PagesOk(zones', S \ {m})
  <2>1. PagesOk([zones EXCEPT ![z] = W], S \ {m})
    BY ONLY <1>1, <1>2, <1>5, PagesFree
  <2>. QED BY <1>4, <2>1
<1>7. Owned(held', op, heap) = S \ {m} /\ Exclusive(held', op, heap)
  <2>1. Exclusive(held, op, heap) /\ m \in held
    BY <1>1
  <2>2. Owned(held \ {m}, op, heap) = Owned(held, op, heap) \ {m} /\ Exclusive(held \ {m}, op, heap)
    BY ONLY <2>1, MemDropped
  <2>. QED BY <2>2 DEF S
<1>8. BootInv'
  BY <1>1 DEF BootInv
<1>9. Inv'
  BY <1>1, <1>4, <1>6, <1>7, <1>8 DEF Inv, CallInv, PageInv, HeapInv, Calls
<1>. QED
  BY <1>9, <1>2, <1>7 DEF BlocksMove, Moves, S

(* zm.dealloc goes to the zone that zindex names. *)
LEMMA InvDeallocCall ==
  ASSUME Inv, NEW c \in Cpu, NEW m \in held, DeallocCall(c, m), UNCHANGED heapVars
  PROVE  Inv' /\ BlocksMove
BY InvFreed DEF DeallocCall, heapVars

(* The zone that dealloc_frame finds is that of the block. *)
LEMMA InvDeallocFrame ==
  ASSUME Inv, NEW c \in Cpu, NEW m \in held, DeallocFrame(c, m), UNCHANGED heapVars
  PROVE  Inv' /\ BlocksMove
<1>. DEFINE S == Owned(held, op, heap)
<1>1. PagesOk(zones, S) /\ m \in S
  BY InvParts DEF Owned
<1>. HIDE DEF S
<1>2. m \in Allocation /\ UContains(m.zindex, m.addr, 2^m.order) /\ ZoneOf(m.addr) = m.zindex
  BY ONLY <1>1, OwnedBlock
<1>3. m.zindex \in Zone
  BY ONLY <1>2, MemTileIs
<1>4. m.order = 0 /\ 2^m.order = 1
  <2>1. m.order = 0
    BY DEF DeallocFrame
  <2>2. 2^0 = 1
    BY Power
  <2>. QED BY <2>1, <2>2
<1>5. \E z \in Zone : UContains(z, m.addr, 1)
  BY <1>2, <1>3, <1>4
<1>6. DeallocIn(m.zindex, m)
  BY <1>2, <1>5 DEF DeallocFrame
<1>. QED
  BY <1>6, InvFreed DEF DeallocFrame, heapVars

-----------------------------------------------------------------------------
(* The steps of the heap.                                                  *)

(* The boot processor asks for the first zone of the heap. *)
LEMMA InvHeapInit ==
  ASSUME Inv, NEW c \in Cpu, HeapInit(c)
  PROVE  Inv' /\ BlocksMove
<1>. DEFINE r == Entered("heap", InitialHeapSize, selnum)
<1>1. /\ Calls(op, lock, want, boot) /\ selnum \in Zone
      /\ PagesOk(zones, Owned(held, op, heap)) /\ Exclusive(held, op, heap)
      /\ HeapOk(heap, blocks) /\ BootInv /\ fault \in {"none", "borrow"}
  BY InvParts
<1>2. /\ boot = "heap" /\ op[c].pc = "idle" /\ lock = NoCpu
      /\ op' = [op EXCEPT ![c] = r] /\ selnum' = (selnum + 1) % NumZones /\ lock' = c
      /\ zones' = zones /\ held' = held /\ boot' = boot /\ fault' = fault
      /\ heap' = heap /\ blocks' = blocks /\ want' = want
  BY DEF HeapInit, EnterAlloc, Entered
<1>3. /\ r \in OpType /\ selnum' \in Zone /\ r.pc = "first" /\ r.mem = NoMem /\ r.user = "heap" /\ r.i = r.start
      /\ r.size = InitialHeapSize
  <2>1. InitialHeapSize \in Nat /\ "heap" \in {"pages", "heap"} /\ selnum \in Zone
    BY <1>1, HeapAssumption
  <2>. QED BY <1>2, <2>1, EnterIs
<1>. HIDE DEF r
<1>4. op \in [Cpu -> OpType] /\ want \in [Cpu -> Layouts \cup {NoLayout}] /\ want[c] \in Layouts \cup {NoLayout}
  BY <1>1 DEF Calls
<1>5. op[c].mem = NoMem
  BY <1>1, <1>2, CallFacts
<1>6. CallOk(c, r, c, want[c], boot)
  BY <1>2, <1>3 DEF CallOk
<1>7. Calls(op', c, want, boot)
  <2>1. want = [want EXCEPT ![c] = want[c]]
    BY <1>4
  <2>2. c \in Cpu \cup {NoCpu} /\ lock \in {c, NoCpu} /\ c \in {c, NoCpu} /\ boot = boot
        /\ (boot = "up" => boot = "up")
    BY <1>2
  <2>3. Calls([op EXCEPT ![c] = r], c, [want EXCEPT ![c] = want[c]], boot)
    BY ONLY <1>1, <1>3, <1>4, <1>6, <2>2, CallChanged, c \in Cpu
  <2>. QED BY <1>2, <2>1, <2>3
<1>8. op'[c] = r /\ \A d \in Cpu : d # c => op'[d] = op[d]
  BY <1>2, <1>4
<1>9. \A d \in Cpu : op'[d].mem = op[d].mem
  BY <1>3, <1>5, <1>8
<1>10. Owned(held, op', heap) = Owned(held, op, heap) /\ Exclusive(held, op', heap)
  <2>1. Exclusive(held, op, heap) /\ \A i \in DOMAIN heap : heap[i].mem = heap[i].mem
    BY <1>1
  <2>. QED BY ONLY <1>9, <2>1, MemsSame, DOMAIN heap = DOMAIN heap
<1>11. BootInv'
  <2>1. ASSUME NEW d \in Cpu PROVE op'[d].pc = "done" => op[d].pc = "done" /\ op'[d].mem = op[d].mem
    BY <1>3, <1>8, <1>9
  <2>2. ASSUME NEW d \in Cpu PROVE op'[d].pc = "try" => op'[d] = op[d]
    BY <1>3, <1>8
  <2>. QED BY <1>1, <1>2, <1>9, <2>1, <2>2 DEF BootInv
<1>12. Inv'
  BY <1>1, <1>2, <1>3, <1>7, <1>10, <1>11 DEF Inv, CallInv, PageInv, HeapInv, Calls
<1>. QED
  BY <1>12, <1>2, <1>10 DEF BlocksMove, Moves

(* The zones of the heap do not overlap. *)
LEMMA InvZonesApart ==
  ASSUME Inv
  PROVE  HeapOk(heap, blocks) /\ ZonesApart(heap) /\ ZoneMems(heap) \subseteq Owned(held, op, heap)
<1>1. /\ PagesOk(zones, Owned(held, op, heap)) /\ Exclusive(held, op, heap) /\ HeapOk(heap, blocks)
  BY InvParts
<1>2. \A i, j \in DOMAIN heap : heap[i].mem = heap[j].mem => i = j
  BY <1>1 DEF Exclusive
<1>3. ZoneMems(heap) \subseteq Owned(held, op, heap)
  BY DEF Owned
<1>4. ZonesApart(heap)
  BY ONLY <1>1, <1>2, <1>3, HeapApart
<1>. QED
  BY <1>1, <1>3, <1>4

(* The zones keep their pages, and only the blocks in them change. *)
LEMMA InvHeapOnly ==
  ASSUME Inv, boot = "up", HeapOk(heap', blocks'), Moves(blocks, blocks'), ZoneMems(heap') = ZoneMems(heap), DOMAIN heap' = DOMAIN heap,
         \A j \in DOMAIN heap : heap'[j].mem = heap[j].mem,
         UNCHANGED <<zones, selnum, held, op, boot, fault, lock, want>>
  PROVE  Inv' /\ BlocksMove
<1>1. /\ Calls(op, lock, want, boot) /\ selnum \in Zone
      /\ PagesOk(zones, Owned(held, op, heap)) /\ Exclusive(held, op, heap) /\ BootInv /\ fault \in {"none", "borrow"}
  BY InvParts
<1>2. Owned(held, op, heap') = Owned(held, op, heap) /\ Exclusive(held, op, heap')
  <2>1. \A d \in Cpu : op[d].mem = op[d].mem
    OBVIOUS
  <2>2. Exclusive(held, op, heap) /\ DOMAIN heap' = DOMAIN heap /\ \A j \in DOMAIN heap : heap'[j].mem = heap[j].mem
    BY <1>1
  <2>. QED BY ONLY <2>1, <2>2, MemsSame
<1>3. BootInv'
  BY <1>1 DEF BootInv
<1>4. Inv'
  BY <1>1, <1>2, <1>3 DEF Inv, CallInv, PageInv, HeapInv, Calls
<1>. QED
  BY <1>4, <1>2 DEF BlocksMove, Moves

(* A least one of the numbers up to n with a property, given as their set. *)
LEMMA FirstOf ==
  ASSUME NEW n \in Nat, NEW P, P \subseteq 1 .. n, P # {}
  PROVE  \E i \in P : \A k \in 1 .. i - 1 : k \notin P
<1>1. P \subseteq Nat /\ P # {}
  OBVIOUS
<1>2. PICK i \in P : \A y \in P : i <= y
  BY ONLY <1>1, Least
<1>. QED
  BY <1>1, <1>2

(* alloc takes from the first zone that has room, or asks for pages. *)
LEMMA InvHeapAlloc ==
  ASSUME Inv, NEW c \in Cpu, NEW lay \in Layouts, HeapAlloc(c, lay)
  PROVE  Inv' /\ BlocksMove
<1>1. /\ boot = "up" /\ op[c].pc = "idle" /\ lock = NoCpu
      /\ zones' = zones /\ held' = held /\ boot' = boot /\ fault' = fault
  BY DEF HeapAlloc
<1>2. CASE \E i \in DOMAIN heap : ZoneFits(heap[i], lay)
  <2>. DEFINE P == {j \in DOMAIN heap : ZoneFits(heap[j], lay)}
              First(j) == ZoneFits(heap[j], lay) /\ \A k \in 1 .. j - 1 : ~ZoneFits(heap[k], lay)
              i == CHOOSE j \in DOMAIN heap : First(j)
              b == NewBlock(ZoneAllocAddr(heap[i], lay), lay)
              W == ZoneAlloc(heap[i], lay)
  <2>1. HeapOk(heap, blocks) /\ ZonesApart(heap)
    BY InvZonesApart
  <2>2. heap \in Seq(HeapZone) /\ Len(heap) \in Nat /\ DOMAIN heap = 1 .. Len(heap)
    BY <2>1 DEF HeapOk
  <2>3. \E j \in DOMAIN heap : First(j)
    <3>1. P \subseteq 1 .. Len(heap) /\ P # {}
      BY <1>2, <2>2
    <3>2. PICK j \in P : \A k \in 1 .. j - 1 : k \notin P
      <4>. HIDE DEF P
      <4>. QED BY ONLY <2>2, <3>1, FirstOf
    <3>3. j \in 1 .. Len(heap) /\ \A k \in 1 .. j - 1 : k \in DOMAIN heap
      BY <2>2
    <3>. QED BY <3>2, <3>3
  <2>4. i \in DOMAIN heap /\ ZoneFits(heap[i], lay)
    BY <2>3
  <2>5. /\ heap' = [heap EXCEPT ![i] = W] /\ blocks' = blocks \cup {b}
        /\ UNCHANGED <<lock, want, op, selnum>>
    BY <1>2 DEF HeapAlloc
  <2>. HIDE DEF i
  <2>6. /\ HeapOk([heap EXCEPT ![i] = W], blocks \cup {b}) /\ ZoneMems([heap EXCEPT ![i] = W]) = ZoneMems(heap)
        /\ DOMAIN [heap EXCEPT ![i] = W] = DOMAIN heap
        /\ \A j \in DOMAIN heap : [heap EXCEPT ![i] = W][j].mem = heap[j].mem
        /\ b \notin blocks
    <3>1. b = NewBlock(ZoneAllocAddr(heap[i], lay), lay) /\ W = ZoneAlloc(heap[i], lay)
      OBVIOUS
    <3>. HIDE DEF b, W
    <3>. QED BY ONLY <2>1, <2>4, <3>1, HeapAllocOk, lay \in Layouts
  <2>. HIDE DEF b, W
  <2>7. Moves(blocks, blocks')
    BY <2>5, <2>6 DEF Moves
  <2>. QED BY <1>1, <2>5, <2>6, <2>7, InvHeapOnly
<1>3. CASE ~\E i \in DOMAIN heap : ZoneFits(heap[i], lay)
  <2>. DEFINE r == Entered("heap", GrowSize(lay), selnum)
  <2>1. /\ Calls(op, lock, want, boot) /\ selnum \in Zone
        /\ PagesOk(zones, Owned(held, op, heap)) /\ Exclusive(held, op, heap)
        /\ HeapOk(heap, blocks) /\ BootInv /\ fault \in {"none", "borrow"}
    BY InvParts
  <2>2. /\ op' = [op EXCEPT ![c] = r] /\ selnum' = (selnum + 1) % NumZones /\ lock' = c
        /\ want' = [want EXCEPT ![c] = lay] /\ heap' = heap /\ blocks' = blocks
    BY <1>3 DEF HeapAlloc, EnterAlloc, Entered
  <2>3. /\ r \in OpType /\ selnum' \in Zone /\ r.pc = "first" /\ r.mem = NoMem /\ r.user = "heap" /\ r.i = r.start
        /\ r.size = GrowSize(lay)
    <3>1. GrowSize(lay) \in Nat
      BY GrowSizeIs
    <3>2. "heap" \in {"pages", "heap"} /\ selnum \in Zone
      BY <2>1
    <3>. QED BY <2>2, <3>1, <3>2, EnterIs
  <2>. HIDE DEF r
  <2>4. op \in [Cpu -> OpType]
    BY <2>1 DEF Calls
  <2>5. op[c].mem = NoMem
    BY <1>1, <2>1, CallFacts
  <2>6. CallOk(c, r, c, lay, boot)
    BY <1>1, <2>3 DEF CallOk
  <2>7. Calls(op', c, want', boot)
    <3>1. c \in Cpu \cup {NoCpu} /\ lay \in Layouts \cup {NoLayout} /\ lock \in {c, NoCpu} /\ c \in {c, NoCpu}
          /\ boot = boot /\ (boot = "up" => boot = "up")
      BY <1>1
    <3>2. Calls([op EXCEPT ![c] = r], c, [want EXCEPT ![c] = lay], boot)
      BY ONLY <2>1, <2>3, <2>6, <3>1, CallChanged, c \in Cpu
    <3>. QED BY <2>2, <3>2
  <2>8. \A d \in Cpu : op'[d].mem = op[d].mem
    BY <2>2, <2>3, <2>4, <2>5
  <2>9. Owned(held, op', heap) = Owned(held, op, heap) /\ Exclusive(held, op', heap)
    <3>1. Exclusive(held, op, heap) /\ \A i \in DOMAIN heap : heap[i].mem = heap[i].mem
      BY <2>1
    <3>. QED BY ONLY <2>8, <3>1, MemsSame, DOMAIN heap = DOMAIN heap
  <2>10. BootInv'
    BY <1>1, <2>1, <2>2 DEF BootInv
  <2>11. Inv'
    BY <1>1, <2>1, <2>2, <2>3, <2>7, <2>9, <2>10 DEF Inv, CallInv, PageInv, HeapInv, Calls
  <2>. QED BY <1>1, <2>2, <2>9, <2>11 DEF BlocksMove, Moves
<1>. QED
  BY <1>2, <1>3

(* The pointer is found in the zone that it came from. *)
LEMMA InvHeapDealloc ==
  ASSUME Inv, NEW c \in Cpu, NEW b \in blocks, HeapDealloc(c, b)
  PROVE  Inv' /\ BlocksMove
<1>. DEFINE in(i) == ZoneContains(heap[i], b.addr, b.lay.size)
            First(j) == in(j) /\ \A k \in 1 .. j - 1 : ~in(k)
            f == CHOOSE j \in DOMAIN heap : First(j)
<1>1. HeapOk(heap, blocks) /\ ZonesApart(heap)
  BY InvZonesApart
<1>2. DOMAIN heap = 1 .. Len(heap) /\ Len(heap) \in Nat
  BY <1>1 DEF HeapOk
<1>3. /\ b.addr % Chunk = 0
      /\ \E i \in DOMAIN heap :
           /\ b.addr \in Bytes(heap[i].base, heap[i].len)
           /\ \A j \in DOMAIN heap : ZoneContains(heap[j], b.addr, b.lay.size) <=> j = i
  BY ONLY <1>1, HeapFinds, b \in blocks
<1>4. PICK i \in DOMAIN heap :
        b.addr \in Bytes(heap[i].base, heap[i].len) /\ \A j \in DOMAIN heap : in(j) <=> j = i
  BY <1>3
<1>5. f = i
  <2>1. First(i)
    BY <1>2, <1>4
  <2>2. f \in DOMAIN heap /\ First(f)
    BY <2>1
  <2>. QED BY <1>4, <2>2
<1>. DEFINE W == ZoneDealloc(heap[i], b.addr, b.lay)
<1>6. /\ boot = "up" /\ heap' = [heap EXCEPT ![i] = W] /\ fault' = fault /\ blocks' = blocks \ {b}
      /\ UNCHANGED <<zones, selnum, held, op, boot, lock, want>>
  <2>1. heap' = [heap EXCEPT ![f] = ZoneDealloc(@, b.addr, b.lay)] /\ UNCHANGED fault
    BY <1>3, <1>4 DEF HeapDealloc
  <2>2. /\ boot = "up" /\ blocks' = blocks \ {b} /\ UNCHANGED <<zones, selnum, held, op, boot, lock, want>>
    BY DEF HeapDealloc
  <2>. HIDE DEF f
  <2>. QED BY <1>5, <2>1, <2>2
<1>. HIDE DEF in, First, f
<1>7. /\ HeapOk([heap EXCEPT ![i] = W], blocks \ {b}) /\ ZoneMems([heap EXCEPT ![i] = W]) = ZoneMems(heap)
      /\ DOMAIN [heap EXCEPT ![i] = W] = DOMAIN heap
      /\ \A j \in DOMAIN heap : [heap EXCEPT ![i] = W][j].mem = heap[j].mem
  <2>1. W = ZoneDealloc(heap[i], b.addr, b.lay) /\ b.addr \in Bytes(heap[i].base, heap[i].len)
    BY <1>4
  <2>. HIDE DEF W
  <2>. QED BY ONLY <1>1, <2>1, HeapDeallocOk, b \in blocks, i \in DOMAIN heap
<1>. HIDE DEF W
<1>8. Moves(blocks, blocks')
  BY <1>6 DEF Moves
<1>. QED
  BY <1>6, <1>7, <1>8, InvHeapOnly

(* The pages that a call has got are nobody else's, and are as many as it  *)
(* asked for.                                                              *)
LEMMA GotPages ==
  ASSUME Inv, NEW c \in Cpu, op[c].mem # NoMem
  PROVE  /\ op[c].mem \in Owned(held, op, heap) /\ op[c].mem \notin ZoneMems(heap)
         /\ op[c].mem \in Allocation /\ op[c].size <= 2^op[c].mem.order * PageSize
         /\ 2^op[c].mem.order * PageSize \in Nat
<1>. DEFINE m == op[c].mem
            S == Owned(held, op, heap)
<1>1. /\ Calls(op, lock, want, boot) /\ PagesOk(zones, S) /\ Exclusive(held, op, heap)
  BY InvParts
<1>2. m \in S
  BY DEF Owned, Mems
<1>3. m \notin ZoneMems(heap)
  BY <1>1 DEF Exclusive
<1>4. m.order = GetOrder(op[c].size) /\ op[c].size \in Nat
  BY <1>1, CallFacts DEF CallOk
<1>. HIDE DEF S, m
<1>5. m \in Allocation /\ m.order < MaxOrder
  BY ONLY <1>1, <1>2, OwnedBlock
<1>6. GetOrder(op[c].size) < MaxOrder => op[c].size <= 2^GetOrder(op[c].size) * PageSize
  BY ONLY <1>4, GetOrderIs
<1>7. op[c].size <= 2^m.order * PageSize
  BY <1>4, <1>5, <1>6
<1>8. 2^m.order * PageSize \in Nat
  <2>1. 2^m.order \in Nat /\ PageSize \in Nat
    BY <1>5, MemTileIs, ZoneFacts
  <2>. QED BY <2>1
<1>. QED
  BY <1>2, <1>3, <1>5, <1>7, <1>8 DEF S, m

(* The call for the heap is over, with its pages on the list of zones. *)
LEMMA InvGrown ==
  ASSUME Inv, NEW c \in Cpu, op[c].pc = "done", op[c].user = "heap",
         op' = [op EXCEPT ![c] = Idle], lock' = NoCpu, want' = [want EXCEPT ![c] = NoLayout],
         boot' = "up", fault' = fault, UNCHANGED <<zones, selnum, held>>, HeapOk(heap', blocks'), Moves(blocks, blocks'),
         IF op[c].mem = NoMem THEN heap' = heap
         ELSE /\ ZoneMems(heap') = ZoneMems(heap) \cup {op[c].mem}
              /\ \A i, j \in DOMAIN heap' : heap'[i].mem = heap'[j].mem => i = j
  PROVE  Inv' /\ BlocksMove
<1>1. /\ Calls(op, lock, want, boot) /\ selnum \in Zone
      /\ PagesOk(zones, Owned(held, op, heap)) /\ Exclusive(held, op, heap)
      /\ HeapOk(heap, blocks) /\ BootInv /\ fault \in {"none", "borrow"}
  BY InvParts
<1>2. CallOk(c, op[c], lock, want[c], boot) /\ lock = c
  BY <1>1, CallFacts DEF CallOk
<1>3. Idle \in OpType /\ Idle.mem = NoMem
  BY ZoneFacts DEF Idle, OpType
<1>4. CallOk(c, Idle, NoCpu, NoLayout, "up")
  <2>1. NoCpu # c
    BY HeapAssumption
  <2>. QED BY <2>1 DEF CallOk, Idle
<1>5. Calls(op', lock', want', "up")
  <2>1. /\ NoCpu \in Cpu \cup {NoCpu} /\ NoLayout \in Layouts \cup {NoLayout}
        /\ lock \in {c, NoCpu} /\ NoCpu \in {c, NoCpu} /\ (boot = "up" => "up" = "up")
    BY <1>2
  <2>2. Calls([op EXCEPT ![c] = Idle], NoCpu, [want EXCEPT ![c] = NoLayout], "up")
    BY ONLY <1>1, <1>3, <1>4, <2>1, CallChanged, c \in Cpu
  <2>. QED BY <2>2
<1>6. OneMem(op, op', c, NoMem)
  <2>1. op \in [Cpu -> OpType]
    BY <1>1 DEF Calls
  <2>2. op'[c] = Idle /\ \A d \in Cpu : d # c => op'[d] = op[d]
    BY <2>1
  <2>. QED BY <1>3, <2>2 DEF OneMem
<1>7. Owned(held, op', heap') = Owned(held, op, heap) /\ Exclusive(held, op', heap')
  <2>1. CASE op[c].mem = NoMem
    <3>1. heap' = heap
      BY <2>1
    <3>2. \A d \in Cpu : op'[d].mem = op[d].mem
      BY <1>6, <2>1 DEF OneMem
    <3>3. Exclusive(held, op, heap) /\ \A i \in DOMAIN heap : heap[i].mem = heap[i].mem
      BY <1>1
    <3>4. Owned(held, op', heap) = Owned(held, op, heap) /\ Exclusive(held, op', heap)
      BY ONLY <3>2, <3>3, MemsSame, DOMAIN heap = DOMAIN heap
    <3>. QED BY <3>1, <3>4
  <2>2. CASE op[c].mem # NoMem
    <3>1. /\ ZoneMems(heap') = ZoneMems(heap) \cup {op[c].mem}
          /\ \A i, j \in DOMAIN heap' : heap'[i].mem = heap'[j].mem => i = j
      BY <2>2
    <3>2. Exclusive(held, op, heap)
      BY <1>1
    <3>. QED BY ONLY <1>6, <2>2, <3>1, <3>2, MemToHeap
  <2>. QED BY <2>1, <2>2
<1>8. BootInv'
  BY DEF BootInv
<1>9. Inv'
  BY <1>1, <1>5, <1>7, <1>8 DEF Inv, CallInv, PageInv, HeapInv, Calls
<1>. QED
  BY <1>9, <1>7 DEF BlocksMove, Moves

(* new or alloc goes on with the pages it has got, or without them. *)
LEMMA InvHeapGrow ==
  ASSUME Inv, NEW c \in Cpu, HeapGrow(c)
  PROVE  Inv' /\ BlocksMove
<1>. DEFINE m == op[c].mem
            lay == want[c]
            S == Owned(held, op, heap)
<1>1. /\ Calls(op, lock, want, boot) /\ PagesOk(zones, S) /\ Exclusive(held, op, heap)
      /\ HeapOk(heap, blocks) /\ BootInv
  BY InvParts
<1>2. /\ op[c].pc = "done" /\ op[c].user = "heap"
      /\ op' = [op EXCEPT ![c] = Idle] /\ lock' = NoCpu /\ want' = [want EXCEPT ![c] = NoLayout]
      /\ UNCHANGED <<zones, selnum, held>>
  BY DEF HeapGrow
<1>3. IF boot = "up" THEN lay \in Layouts /\ op[c].size = GrowSize(lay)
      ELSE boot = "heap" /\ op[c].size = InitialHeapSize
  <2>1. CallOk(c, op[c], lock, want[c], boot)
    BY <1>1, CallFacts
  <2>. QED BY <1>2, <2>1 DEF CallOk
<1>4. \A i, j \in DOMAIN heap : heap[i].mem = heap[j].mem => i = j
  BY <1>1 DEF Exclusive
<1>5. ZoneMems(heap) \subseteq S
  BY DEF Owned
<1>6. m # NoMem =>
        /\ m \in S /\ m \notin ZoneMems(heap)
        /\ m \in Allocation /\ op[c].size <= 2^m.order * PageSize
        /\ 2^m.order * PageSize \in Nat
  BY GotPages
<1>. HIDE DEF S
<1>7. CASE boot = "heap"
  <2>1. m # NoMem /\ heap = << >> /\ blocks = {}
    BY <1>1, <1>2, <1>7 DEF BootInv
  <2>2. heap' = <<NewZone(m)>> /\ fault' = fault /\ boot' = "up" /\ blocks' = blocks
    BY <1>7, <2>1 DEF HeapGrow
  <2>. HIDE DEF m
  <2>3. InitialChunk < 2^m.order * PageSize
    BY <1>3, <1>6, <1>7, <2>1, HeapAssumption
  <2>4. Addable(zones, S, heap, blocks, m)
    BY <1>1, <1>4, <1>5, <1>6, <2>1, <2>3 DEF Addable
  <2>5. /\ HeapOk(WithZone(heap, m), blocks) /\ ZoneMems(WithZone(heap, m)) = ZoneMems(heap) \cup {m}
        /\ \A i, j \in DOMAIN WithZone(heap, m) : WithZone(heap, m)[i].mem = WithZone(heap, m)[j].mem => i = j
    BY ONLY <2>4, HeapAppendOk
  <2>6. heap' = WithZone(heap, m)
    BY <2>1, <2>2 DEF WithZone
  <2>7. Moves(blocks, blocks')
    BY <2>2 DEF Moves
  <2>. QED BY <1>2, <2>1, <2>2, <2>5, <2>6, <2>7, InvGrown DEF m
<1>8. CASE boot = "up" /\ m = NoMem
  <2>1. UNCHANGED <<heap, blocks, fault>> /\ boot' = boot
    BY <1>8 DEF HeapGrow
  <2>2. Moves(blocks, blocks')
    BY <2>1 DEF Moves
  <2>. QED BY <1>1, <1>2, <1>8, <2>1, <2>2, InvGrown
<1>9. CASE boot = "up" /\ m # NoMem
  <2>. DEFINE G == GrowList(heap, m, lay)
              used == GrowUsed(blocks, m, lay)
  <2>. HIDE DEF m, lay
  <2>1. lay \in Layouts /\ lay.size + Chunk + InitialChunk <= 2^m.order * PageSize
    <3>1. lay \in Layouts /\ op[c].size = GrowSize(lay)
      BY <1>3, <1>9
    <3>2. GrowSize(lay) \in Nat /\ lay.size + Chunk + InitialChunk <= GrowSize(lay)
      BY ONLY <3>1, GrowSizeIs
    <3>3. lay.size \in Nat /\ Chunk \in Nat /\ InitialChunk \in Nat
      BY <3>1, HeapAssumption
    <3>. QED BY <1>6, <1>9, <3>1, <3>2, <3>3
  <2>2. /\ HeapOk(G, used) /\ ZoneMems(G) = ZoneMems(heap) \cup {m} /\ MemsOnce(G)
        /\ ZoneFits(NewZone(m), lay) /\ GrowBlock(m, lay) \notin blocks
    <3>1. Growable(zones, S, heap, blocks, m, lay)
      BY <1>1, <1>4, <1>5, <1>6, <1>9, <2>1 DEF Growable
    <3>. QED BY ONLY <3>1, HeapGrowOk
  <2>3. heap' = G /\ blocks' = used /\ fault' = fault /\ boot' = boot
    BY <1>9, <2>2 DEF HeapGrow, m, lay, GrowBlock, GrowList, GrowUsed
  <2>4. Moves(blocks, blocks')
    BY <2>2, <2>3 DEF Moves, GrowUsed
  <2>. HIDE DEF used, G
  <2>. QED BY <1>2, <1>9, <2>2, <2>3, <2>4, InvGrown DEF m, MemsOnce
<1>. QED
  BY <1>1, <1>3, <1>7, <1>8, <1>9

-----------------------------------------------------------------------------
(* Every step keeps the invariant.                                         *)

(* Every action keeps the invariant, and moves at most one block. *)
LEMMA NextInv ==
  ASSUME Inv, Next
  PROVE  Inv' /\ BlocksMove
<1>1. CASE AllocApCode /\ UNCHANGED heapVars
  BY <1>1, InvAllocApCode
<1>2. ASSUME NEW c \in Cpu, AllocCall(c), UNCHANGED heapVars
      PROVE  Inv' /\ BlocksMove
  BY <1>2, InvAllocCall
<1>3. ASSUME NEW c \in Cpu, TryZone(c), UNCHANGED heapVars
      PROVE  Inv' /\ BlocksMove
  BY <1>3, InvTryZone
<1>4. ASSUME NEW c \in Cpu, AllocReturn(c), UNCHANGED heapVars
      PROVE  Inv' /\ BlocksMove
  BY <1>4, InvAllocReturn
<1>5. ASSUME NEW c \in Cpu, NEW m \in held, DeallocCall(c, m), UNCHANGED heapVars
      PROVE  Inv' /\ BlocksMove
  BY <1>5, InvDeallocCall
<1>6. ASSUME NEW c \in Cpu, NEW m \in held, DeallocFrame(c, m), UNCHANGED heapVars
      PROVE  Inv' /\ BlocksMove
  BY <1>6, InvDeallocFrame
<1>7. ASSUME NEW c \in Cpu, HeapInit(c)
      PROVE  Inv' /\ BlocksMove
  BY <1>7, InvHeapInit
<1>8. ASSUME NEW c \in Cpu, NEW lay \in Layouts, HeapAlloc(c, lay)
      PROVE  Inv' /\ BlocksMove
  BY <1>8, InvHeapAlloc
<1>9. ASSUME NEW c \in Cpu, HeapGrow(c)
      PROVE  Inv' /\ BlocksMove
  BY <1>9, InvHeapGrow
<1>10. ASSUME NEW c \in Cpu, NEW b \in blocks, HeapDealloc(c, b)
      PROVE  Inv' /\ BlocksMove
  BY <1>10, InvHeapDealloc
<1>11. ASSUME NEW c \in Cpu, BorrowStep(c), UNCHANGED heapVars
       PROVE  Inv' /\ BlocksMove
  <2>1. Running
    BY DEF Next
  <2>. QED BY <1>11, <2>1, InvBorrow
<1>. QED
  BY <1>1, <1>2, <1>3, <1>4, <1>5, <1>6, <1>7, <1>8, <1>9, <1>10, <1>11 DEF Next, PageNext, BorrowStep

(* A step of nobody does too. *)
LEMMA StutterInv ==
  ASSUME Inv, UNCHANGED vars
  PROVE  Inv' /\ BlocksMove
<1>1. UNCHANGED <<zones, selnum, held, op, boot, fault, heap, blocks, lock, want>>
  BY DEF vars
<1>2. Inv'
  BY <1>1 DEF Inv, CallInv, PageInv, HeapInv, BootInv
<1>3. BlocksMove
  BY <1>1 DEF BlocksMove, Moves
<1>. QED
  BY <1>2, <1>3

(* Every reachable state satisfies the inductive invariant. *)
THEOREM HeapInvariant == Spec => []Inv
<1>1. Inv /\ [Next]_vars => Inv'
  BY NextInv, StutterInv
<1>. QED
  BY InitInv, <1>1, PTL DEF Spec

(* What is known of the borrows of the zones. *)
CellType == [pc : {"none", "loaded", "held", "used", "dropping"}, seen : Int, mem : Allocation \cup {NoMem}]
CellInv == borrows \in Int /\ cell \in [Cpu -> CellType]

(* A step leaves them alone, or uses a borrow, or is one of the borrow's   *)
(* own; only these can panic for a borrow.                                 *)
BorrowFaultsNot == fault' = "borrow" => fault = "borrow"

LEMMA CellSteps ==
  ASSUME [Next]_vars
  PROVE  \/ UNCHANGED cellVars /\ BorrowFaultsNot
         \/ \E c \in Cpu : UseBorrow(c) /\ BorrowFaultsNot
         \/ \E c \in Cpu : BorrowStep(c)
<1>1. CASE UNCHANGED vars
  BY <1>1 DEF vars, cellVars, BorrowFaultsNot
<1>2. CASE AllocApCode
  <2>1. UNCHANGED cellVars
    BY <1>2 DEF AllocApCode
  <2>2. fault' \in {"unwrap", "unlisted", fault}
    BY <1>2 DEF AllocApCode
  <2>. QED BY <2>1, <2>2 DEF BorrowFaultsNot
<1>3. ASSUME NEW c \in Cpu, AllocCall(c) \/ AllocReturn(c) \/ HeapInit(c) \/ HeapGrow(c)
      PROVE  UNCHANGED cellVars /\ BorrowFaultsNot
  <2>1. UNCHANGED cellVars
    BY <1>3 DEF AllocCall, AllocReturn, HeapInit, HeapGrow
  <2>2. fault' \in {"no heap", "new zone", fault}
    BY <1>3 DEF AllocCall, AllocReturn, HeapInit, HeapGrow
  <2>. QED BY <2>1, <2>2 DEF BorrowFaultsNot
<1>4. ASSUME NEW c \in Cpu, NEW lay \in Layouts, HeapAlloc(c, lay)
      PROVE  UNCHANGED cellVars /\ BorrowFaultsNot
  BY <1>4 DEF HeapAlloc, BorrowFaultsNot
<1>5. ASSUME NEW c \in Cpu, NEW b \in blocks, HeapDealloc(c, b)
      PROVE  UNCHANGED cellVars /\ BorrowFaultsNot
  <2>1. UNCHANGED cellVars
    BY <1>5 DEF HeapDealloc
  <2>2. fault' \in {"assert", "invalid pointer", fault}
    BY <1>5 DEF HeapDealloc
  <2>. QED BY <2>1, <2>2 DEF BorrowFaultsNot
<1>6. ASSUME NEW c \in Cpu, TryZone(c)
      PROVE  (UNCHANGED cellVars \/ UseBorrow(c)) /\ BorrowFaultsNot
  BY <1>6 DEF TryZone, BorrowFaultsNot
<1>7. ASSUME NEW c \in Cpu, NEW m \in held, DeallocCall(c, m) \/ DeallocFrame(c, m)
      PROVE  UseBorrow(c) /\ BorrowFaultsNot
  <2>1. fault' \in {"double free", fault}
    BY <1>7 DEF DeallocCall, DeallocFrame, DeallocIn
  <2>. QED BY <1>7, <2>1 DEF DeallocCall, DeallocFrame, BorrowFaultsNot
<1>. QED
  BY <1>1, <1>2, <1>3, <1>4, <1>5, <1>6, <1>7 DEF Next, PageNext, BorrowStep

LEMMA CellTypes ==
  ASSUME Inv, CellInv, [Next]_vars
  PROVE  CellInv'
<1>1. CASE UNCHANGED cellVars
  BY <1>1 DEF CellInv, cellVars
<1>2. ASSUME NEW c \in Cpu, UseBorrow(c)
      PROVE  CellInv'
  <2>1. borrows' = borrows /\ cell' = [cell EXCEPT ![c].pc = "used"]
    BY <1>2 DEF UseBorrow
  <2>. QED BY <2>1 DEF CellInv, CellType
<1>3. ASSUME NEW c \in Cpu, BorrowStep(c)
      PROVE  CellInv'
  <2>1. held \subseteq Allocation
    BY InvParts DEF PagesOk, Owned
  <2>2. ASSUME NEW m \in Allocation \cup {NoMem}, BorrowLoad(c, m)
        PROVE  CellInv'
    <3>1. borrows' = borrows /\ cell' = [cell EXCEPT ![c] = [pc |-> "loaded", seen |-> borrows, mem |-> m]]
      BY <2>2 DEF BorrowLoad
    <3>. QED BY <3>1 DEF CellInv, CellType
  <2>3. CASE BorrowToAlloc(c)
    BY <2>2, <2>3 DEF BorrowToAlloc
  <2>4. ASSUME NEW m \in held, BorrowToDealloc(c, m)
        PROVE  CellInv'
    BY <2>1, <2>2, <2>4 DEF BorrowToDealloc
  <2>5. CASE BorrowStore(c)
    BY <2>5 DEF BorrowStore, CellInv, CellType
  <2>6. CASE DropLoad(c)
    BY <2>6 DEF DropLoad, CellInv, CellType
  <2>7. CASE DropStore(c)
    BY <2>7 DEF DropStore, CellInv, CellType, NoBorrow
  <2>. QED BY <1>3, <2>3, <2>4, <2>5, <2>6, <2>7 DEF BorrowStep
<1>. QED
  BY <1>1, <1>2, <1>3, CellSteps

(* The types, which the code has by its declarations, and that an order    *)
(* never exceeds MAX_ORDER.                                                *)
THEOREM HeapTypes == Spec => []TypeOK
<1>1. Inv /\ CellInv => TypeOK
  <2>. SUFFICES ASSUME Inv, CellInv PROVE TypeOK
    OBVIOUS
  <2>1. /\ CallInv /\ PagesOk(zones, Owned(held, op, heap)) /\ HeapOk(heap, blocks)
        /\ boot \in {"zones", "heap", "up"}
    BY DEF Inv, PageInv, HeapInv, BootInv
  <2>2. /\ zones = [z \in Zone |-> zones[z]]
        /\ \A z \in Zone : zones[z] \in [free : [Order(z) -> Seq(Nat)], alloced : SUBSET Nat, space : Nat]
        /\ held \subseteq Allocation
    BY <2>1 DEF PagesOk, ZoneInv, Owned
  <2>3. DOMAIN zones = Zone
    BY <2>2
  <2>4. heap \in Seq(HeapZone) /\ blocks \subseteq [addr : Nat, lay : Layouts]
    BY <2>1 DEF HeapOk, BlocksOk
  <2>5. heap \in Seq([base : Nat, len : Nat, mem : Allocation, space : Nat, list : Seq([addr : Nat, size : Nat])])
    BY <2>4 DEF HeapZone, HeapNode
  <2>6. /\ op \in [Cpu -> [pc : {"idle", "first", "try", "done"}, user : {"none", "pages", "heap"},
                           size : Nat, start : Zone, i : Zone, mem : Allocation \cup {NoMem}]]
        /\ selnum \in Zone /\ lock \in Cpu \cup {NoCpu} /\ want \in [Cpu -> Layouts \cup {NoLayout}]
    BY <2>1 DEF CallInv, OpType
  <2>. QED BY <2>1, <2>2, <2>3, <2>4, <2>5, <2>6 DEF TypeOK, CellInv, CellType
<1>2. Init => CellInv
  BY DEF Init, PageInit, CellInv, CellType, NoBorrow
<1>3. Inv /\ CellInv /\ [Next]_vars => CellInv'
  BY CellTypes
<1>. QED
  BY <1>1, <1>2, <1>3, HeapInvariant, PTL DEF Spec

(* No panic and no assertion of either allocator is reached but the one of *)
(* a borrow of the zones: the AP code's page and the first heap zone are   *)
(* there at boot, no block is freed twice, every pointer is found in a     *)
(* zone, and alloc does not fail on the zone it has just added.            *)
THEOREM HeapOnlyBorrowFaults == Spec => []OnlyBorrowFaults
<1>1. Inv => OnlyBorrowFaults
  BY DEF Inv, OnlyBorrowFaults
<1>. QED
  BY <1>1, HeapInvariant, PTL

(* On one processor the count of the RefCell is what it should be: 1 from  *)
(* the store of a borrow to that of its drop, else 0.                      *)
CountExact ==
  \A c \in Cpu : /\ cell[c].pc \in {"none", "loaded", "held", "used", "dropping"}
                 /\ borrows = IF cell[c].pc \in {"none", "loaded"} THEN 0 ELSE 1
                 /\ cell[c].pc \in {"loaded", "dropping"} => cell[c].seen = borrows

(* A borrow cannot panic on a machine with one processor, so that there    *)
(* neither allocator ever panics: what can is the sharing of the count.    *)
THEOREM HeapNeverFaults ==
  ASSUME NEW k, Cpu = {k}, MaxBorrows > 0
  PROVE  Spec => []NeverFaults
<1>. DEFINE CInv == CellInv /\ CountExact /\ fault # "borrow"
<1>1. Init => CInv
  BY DEF Init, PageInit, CellInv, CellType, NoBorrow, CountExact
<1>2. Inv /\ CInv /\ [Next]_vars => CInv'
  <2>. SUFFICES ASSUME Inv, CInv, [Next]_vars PROVE CInv'
    OBVIOUS
  <2>1. CellInv'
    BY CellTypes
  <2>2. CASE UNCHANGED cellVars /\ BorrowFaultsNot
    BY <2>1, <2>2 DEF cellVars, CountExact, BorrowFaultsNot
  <2>3. ASSUME NEW c \in Cpu, UseBorrow(c), BorrowFaultsNot
        PROVE  CInv'
    <3>1. cell[c].pc = "held" /\ borrows' = borrows /\ cell' = [cell EXCEPT ![c].pc = "used"]
      BY <2>3 DEF UseBorrow
    <3>2. cell'[c].pc = "used" /\ borrows' = 1 /\ \A d \in Cpu : d = c
      BY <3>1 DEF CellInv, CellType, CountExact
    <3>. QED BY <2>1, <2>3, <3>2 DEF CountExact, BorrowFaultsNot
  <2>4. ASSUME NEW c \in Cpu, BorrowStep(c)
        PROVE  CInv'
    <3>1. \A d \in Cpu : d = c
      OBVIOUS
    <3>2. /\ borrows \in Int /\ cell[c].pc \in {"none", "loaded", "held", "used", "dropping"}
          /\ borrows = IF cell[c].pc \in {"none", "loaded"} THEN 0 ELSE 1
          /\ cell[c].pc \in {"loaded", "dropping"} => cell[c].seen = borrows
          /\ cell \in [Cpu -> CellType]
      BY DEF CellInv, CountExact
    <3>3. ASSUME NEW m, BorrowLoad(c, m)
          PROVE  CInv'
      <4>1. cell[c].pc = "none" /\ borrows' = borrows /\ fault' = fault
            /\ cell' = [cell EXCEPT ![c] = [pc |-> "loaded", seen |-> borrows, mem |-> m]]
        BY <3>3 DEF BorrowLoad
      <4>2. cell'[c].pc = "loaded" /\ cell'[c].seen = borrows
        BY <3>2, <4>1
      <4>. QED BY <2>1, <3>1, <3>2, <4>1, <4>2 DEF CountExact
    <3>4. CASE BorrowToAlloc(c) \/ \E m \in held : BorrowToDealloc(c, m)
      BY <3>3, <3>4 DEF BorrowToAlloc, BorrowToDealloc
    <3>5. CASE BorrowStore(c)
      <4>1. cell[c].pc = "loaded" /\ cell[c].seen + 1 = 1 /\ 1 \in 1 .. MaxBorrows
        BY <3>2, <3>5, ZoneAssumption DEF BorrowStore
      <4>2. borrows' = 1 /\ fault' = fault /\ cell' = [cell EXCEPT ![c].pc = "held"]
        BY <3>5, <4>1 DEF BorrowStore
      <4>3. cell'[c].pc = "held"
        BY <3>2, <4>2 DEF CellType
      <4>. QED BY <2>1, <3>1, <4>2, <4>3 DEF CountExact
    <3>6. CASE DropLoad(c)
      <4>1. /\ cell[c].pc = "used" /\ borrows' = borrows /\ fault' = fault
            /\ cell' = [cell EXCEPT ![c].pc = "dropping", ![c].seen = borrows]
        BY <3>6 DEF DropLoad
      <4>2. cell'[c].pc = "dropping" /\ cell'[c].seen = borrows
        BY <3>2, <4>1 DEF CellType
      <4>. QED BY <2>1, <3>1, <3>2, <4>1, <4>2 DEF CountExact
    <3>7. CASE DropStore(c)
      <4>1. cell[c].pc = "dropping" /\ borrows' = 0 /\ fault' = fault /\ cell' = [cell EXCEPT ![c] = NoBorrow]
        BY <3>2, <3>7 DEF DropStore
      <4>2. cell'[c].pc = "none"
        BY <3>2, <4>1 DEF NoBorrow
      <4>. QED BY <2>1, <3>1, <4>1, <4>2 DEF CountExact
    <3>. QED BY <2>4, <3>4, <3>5, <3>6, <3>7 DEF BorrowStep
  <2>. QED BY <2>2, <2>3, <2>4, CellSteps
<1>3. Inv /\ CInv => NeverFaults
  BY DEF Inv, NeverFaults
<1>. QED
  BY <1>1, <1>2, <1>3, HeapInvariant, PTL DEF Spec

(* free_space of a page zone and of a heap zone is what its lists hold. *)
THEOREM HeapSpaceExact == Spec => []SpaceExact
<1>1. Inv => SpaceExact
  <2>. SUFFICES ASSUME Inv PROVE SpaceExact
    OBVIOUS
  <2>1. PagesOk(zones, Owned(held, op, heap)) /\ HeapOk(heap, blocks)
    BY DEF Inv, PageInv, HeapInv
  <2>2. ASSUME NEW z \in Zone
        PROVE  zones[z].space = Sum([o \in Order(z) |-> Len(zones[z].free[o]) * 2^o], 0, TopOrder[z])
    <3>1. zones[z].space = ListSum(zones[z].free, TopOrder[z])
      BY <2>1 DEF PagesOk, ZoneInv
    <3>. QED BY <3>1 DEF ListSum, Order
  <2>3. ASSUME NEW i \in DOMAIN heap
        PROVE  heap[i].space = Sum([j \in DOMAIN heap[i].list |-> heap[i].list[j].size], 1, Len(heap[i].list))
    <3>1. heap[i].space = NodeSum(heap[i].list)
      BY <2>1 DEF HeapOk, ListInv
    <3>. QED BY <3>1 DEF NodeSum
  <2>. QED BY <2>2, <2>3 DEF SpaceExact
<1>. QED
  BY <1>1, HeapInvariant, PTL

-----------------------------------------------------------------------------
(* What the tilings say of single pages and bytes.                         *)

(* f gives every element of N its tile, and every tile of F has one. *)
Names(f, N, F) ==
  /\ \A n \in N : f[n] \in F
  /\ \A t \in F : \E n \in N : f[n] = t
  /\ \A m, n \in N : f[m] = f[n] => m = n

At(f, N, p) == {n \in N : Covers(f[n], p)}

(* A set of one element. *)
LEMMA CountOne ==
  ASSUME NEW X, NEW x \in X, \A y \in X : y = x
  PROVE  Cardinality(X) = 1
<1>1. X = {x}
  OBVIOUS
<1>. QED
  BY <1>1, FS_Singleton

(* And one of none. *)
LEMMA CountNone == Cardinality({}) = 0
BY FS_EmptySet

(* One tile covers p. *)
LEMMA CoverOnce ==
  ASSUME NEW T, NEW lo \in Int, NEW hi \in Int, Tiling(T, lo, hi), NEW p \in lo .. hi - 1
  PROVE  \E t \in T : Covers(t, p) /\ \A s \in T : Covers(s, p) => s = t
<1>1. PICK t \in T : Covers(t, p)
  BY DEF Tiling
<1>2. ASSUME NEW s \in T, Covers(s, p) PROVE s = t
  <2>1. s = t \/ Apart(s, t)
    BY DEF Tiling
  <2>2. s[1] \in Nat /\ s[2] \in Nat /\ t[1] \in Nat /\ t[2] \in Nat
    BY DEF Tiling
  <2>. QED BY <1>1, <1>2, <2>1, <2>2 DEF Covers, Apart
<1>. QED
  BY <1>1, <1>2

(* If a single tile covers p, one element has it, or none. *)
LEMMA NameCounts ==
  ASSUME NEW f, NEW N, NEW F, Names(f, N, F), NEW p, NEW t, Covers(t, p), \A s \in F : Covers(s, p) => s = t
  PROVE  Cardinality(At(f, N, p)) = IF t \in F THEN 1 ELSE 0
<1>1. CASE t \in F
  <2>1. PICK n \in N : f[n] = t
    BY <1>1 DEF Names
  <2>2. n \in At(f, N, p)
    BY <2>1 DEF At
  <2>3. \A m \in At(f, N, p) : m = n
    BY <2>1 DEF At, Names
  <2>4. Cardinality(At(f, N, p)) = 1
    BY ONLY <2>2, <2>3, CountOne
  <2>. QED BY <1>1, <2>4
<1>2. CASE t \notin F
  <2>1. At(f, N, p) = {}
    BY <1>2 DEF At, Names
  <2>. QED BY <1>2, <2>1, CountNone
<1>. QED
  BY <1>1, <1>2

(* It belongs to one element of N or of M. *)
LEMMA CoverCounts ==
  ASSUME NEW F, NEW B, F \cap B = {}, NEW lo \in Int, NEW hi \in Int, Tiling(F \cup B, lo, hi), NEW p \in lo .. hi - 1,
         NEW f, NEW N, Names(f, N, F), NEW g, NEW M, Names(g, M, B)
  PROVE  Cardinality(At(f, N, p)) + Cardinality(At(g, M, p)) = 1
<1>. DEFINE T == F \cup B
<1>1. Tiling(T, lo, hi)
  OBVIOUS
<1>2. \E t \in T : Covers(t, p) /\ \A s \in T : Covers(s, p) => s = t
  <2>. HIDE DEF T
  <2>. QED BY <1>1, CoverOnce
<1>3. PICK t \in T : Covers(t, p) /\ \A s \in T : Covers(s, p) => s = t
  BY <1>2
<1>4. (\A s \in F : Covers(s, p) => s = t) /\ (\A s \in B : Covers(s, p) => s = t)
  BY <1>3
<1>5. Cardinality(At(f, N, p)) = IF t \in F THEN 1 ELSE 0
  BY <1>3, <1>4, NameCounts
<1>6. Cardinality(At(g, M, p)) = IF t \in B THEN 1 ELSE 0
  BY <1>3, <1>4, NameCounts
<1>7. (t \in F /\ t \notin B) \/ (t \in B /\ t \notin F)
  BY <1>3
<1>. QED
  BY ONLY <1>5, <1>6, <1>7

(* A number in the interval of a tile. *)
LEMMA InTile ==
  ASSUME NEW a \in Int, NEW n \in Int, NEW p \in Int
  PROVE  p \in a .. a + n - 1 <=> Covers(<<a, n>>, p)
BY DEF Covers

(* No page is in two places or lost: each is in one free block or in one   *)
(* block that somebody has, through the splits of oalloc and oalloc_at,    *)
(* insert_node and dealloc; and the bits mark the blocks that are owned.   *)
THEOREM HeapPagesTile == Spec => []PagesTile
<1>. DEFINE S == Owned(held, op, heap)
<1>1. Inv => PagesTile
  <2>. SUFFICES ASSUME Inv, NEW z \in Zone PROVE Tiles(z, OwnedPages)
    BY DEF PagesTile
  <2>1. OwnedPages = S
    BY DEF OwnedPages, InFlight, Owned, Mems, ZoneMems
  <2>2. PagesOk(zones, S)
    BY DEF Inv, PageInv
  <2>. DEFINE mine == {m \in S : ContainsAddr(z, m.addr)}
              Z == zones[z]
              F == FreeTiles(z, Z)
              B == PageTiles(z, S)
              f == [n \in Nodes(z) |-> <<n.addr, 2^n.order>>]
              g == [m \in mine |-> MemTile(m)]
  <2>. HIDE DEF S
  <2>3. \A m \in S : m \in Allocation /\ ContainsAddr(m.zindex, m.addr) /\ m.zindex \in Zone /\ m.addr \in Nat
    <3>1. ASSUME NEW m \in S PROVE m \in Allocation /\ ContainsAddr(m.zindex, m.addr)
      BY ONLY <2>2, <3>1, OwnedBlock
    <3>. QED BY <3>1 DEF Allocation
  <2>4. mine = {m \in S : m.zindex = z}
    <3>1. \A m \in S : ContainsAddr(z, m.addr) => m.zindex = z
      BY <2>3, OneZone
    <3>. QED BY <2>3, <3>1
  <2>5. ZoneInv(z, Z, B)
    BY <2>2 DEF PagesOk
  <2>6. /\ \A o \in Order(z) : Z.free[o] \in Seq(Nat) /\ IsInjective(Z.free[o])
        /\ Tiling(F \cup B, Start(z), MetaStart(z)) /\ F \cap B = {} /\ F = ListTiles(Z.free, TopOrder[z])
        /\ Z.alloced = {b[1] : b \in B}
    <3>1. Z.alloced = {b[1] : b \in B}
      BY <2>5 DEF ZoneInv
    <3>. HIDE DEF B, F
    <3>2. ZoneInv(z, Z, B)
      BY <2>5
    <3>. QED BY <3>1, <3>2, ZoneParts DEF F
  <2>7. /\ Start(z) \in Nat /\ MetaStart(z) \in Nat
        /\ Order(z) = 0 .. TopOrder[z] /\ \A o \in Order(z) : o \in Nat /\ 2^o \in Nat \ {0}
    BY Geometry, Orders
  <2>8. \A n \in Nodes(z) : /\ n.order \in Order(z) /\ n.pos \in DOMAIN Z.free[n.order]
                            /\ n.addr = Z.free[n.order][n.pos] /\ n.addr \in Nat
                            /\ n = [addr |-> n.addr, order |-> n.order, pos |-> n.pos]
    BY <2>6 DEF Nodes
  <2>9. Names(f, Nodes(z), F)
    <3>1. ASSUME NEW n \in Nodes(z) PROVE f[n] \in F
      <4>1. n.addr \in ToSet(Z.free[n.order])
        BY <2>8 DEF ToSet
      <4>. QED BY <2>6, <2>7, <2>8, <4>1 DEF ListTiles
    <3>2. ASSUME NEW t \in F PROVE \E n \in Nodes(z) : f[n] = t
      <4>1. PICK o \in 0 .. TopOrder[z] : t \in {<<a, 2^o>> : a \in ToSet(Z.free[o])}
        BY <2>6 DEF ListTiles
      <4>2. PICK i \in DOMAIN Z.free[o] : t = <<Z.free[o][i], 2^o>>
        BY <4>1 DEF ToSet
      <4>. DEFINE n == [addr |-> Z.free[o][i], order |-> o, pos |-> i]
      <4>3. n \in Nodes(z)
        BY <2>7 DEF Nodes
      <4>. QED BY <4>2, <4>3
    <3>3. ASSUME NEW m \in Nodes(z), NEW n \in Nodes(z), f[m] = f[n] PROVE m = n
      <4>1. m.addr = n.addr /\ 2^m.order = 2^n.order
        BY <3>3
      <4>2. m.order = n.order
        BY <2>7, <2>8, <4>1, PowerLess
      <4>3. m.pos = n.pos
        BY <2>6, <2>8, <4>1, <4>2 DEF IsInjective
      <4>. QED BY <2>8, <4>1, <4>2, <4>3
    <3>. HIDE DEF f, F
    <3>. QED BY <3>1, <3>2, <3>3 DEF Names
  <2>10. Names(g, mine, B)
    <3>1. \A m \in mine : g[m] = MemTile(m) /\ g[m] \in B
      BY <2>4 DEF PageTiles, MemTile
    <3>2. \A t \in B : \E m \in mine : g[m] = t
      BY <2>4 DEF PageTiles, MemTile
    <3>3. ASSUME NEW m \in mine, NEW n \in mine, g[m] = g[n] PROVE m = n
      <4>1. m \in Allocation /\ n \in Allocation /\ m.zindex = z /\ n.zindex = z
        BY <2>3, <2>4
      <4>2. MemTile(m) = MemTile(n)
        BY <3>1, <3>3
      <4>. QED BY <4>1, <4>2, MemTileIs
    <3>. HIDE DEF g, mine, B
    <3>. QED BY <3>1, <3>2, <3>3 DEF Names
  <2>11. ASSUME NEW p \in Start(z) .. MetaStart(z) - 1
         PROVE  Cardinality({n \in Nodes(z) : p \in Pages(n)}) + Cardinality({m \in mine : p \in Pages(m)}) = 1
    <3>1. Cardinality(At(f, Nodes(z), p)) + Cardinality(At(g, mine, p)) = 1
      <4>1. Start(z) \in Int /\ MetaStart(z) \in Int
        BY <2>7
      <4>. HIDE DEF f, g, mine, F, B
      <4>. QED BY <2>6, <2>9, <2>10, <4>1, CoverCounts
    <3>2. p \in Int
      BY <2>7
    <3>3. At(f, Nodes(z), p) = {n \in Nodes(z) : p \in Pages(n)}
      <4>1. ASSUME NEW n \in Nodes(z) PROVE Covers(f[n], p) <=> p \in Pages(n)
        <5>1. n.addr \in Int /\ 2^n.order \in Int
          BY <2>7, <2>8
        <5>. QED BY <3>2, <5>1, InTile DEF Pages
      <4>. HIDE DEF f
      <4>. QED BY <4>1 DEF At
    <3>4. At(g, mine, p) = {m \in mine : p \in Pages(m)}
      <4>1. ASSUME NEW m \in mine PROVE Covers(g[m], p) <=> p \in Pages(m)
        <5>1. m.addr \in Int /\ 2^m.order \in Int
          BY <2>3, MemTileIs
        <5>2. g[m] = <<m.addr, 2^m.order>>
          BY DEF MemTile
        <5>. QED BY <3>2, <5>1, <5>2, InTile DEF Pages
      <4>. HIDE DEF g, mine
      <4>. QED BY <4>1 DEF At
    <3>. QED BY <3>1, <3>3, <3>4
  <2>12. Z.alloced = {m.addr : m \in mine}
    <3>1. \A b \in B : \E m \in mine : b[1] = m.addr
      BY <2>4 DEF PageTiles
    <3>2. \A m \in mine : MemTile(m) \in B /\ MemTile(m)[1] = m.addr
      BY <2>4 DEF PageTiles, MemTile
    <3>. HIDE DEF mine, B
    <3>. QED BY <2>6, <3>1, <3>2
  <2>. QED BY <2>1, <2>11, <2>12 DEF Tiles
<1>. QED
  BY <1>1, HeapInvariant, PTL

(* The header, the free nodes and the blocks in use cover a heap zone      *)
(* exactly once, and no two nodes touch: what dealloc computes from the    *)
(* layout is what alloc cut off, and a block goes back to its zone.        *)
THEOREM HeapZonesTile == Spec => []HeapTiles
<1>1. ASSUME Inv, NEW i \in DOMAIN heap
      PROVE  LET Z == heap[i]
                 inUse == {b \in blocks : b.addr \in Bytes(Z.base, Z.len)}
             IN /\ \A x \in Bytes(Z.base, Z.len) :
                     (IF x < Z.base + InitialChunk THEN 1 ELSE 0)
                       + Cardinality({j \in DOMAIN Z.list : x \in Bytes(Z.list[j].addr, Z.list[j].size)})
                       + Cardinality({b \in inUse : x \in Bytes(b.addr, AlignUp(b.lay.size, Chunk))}) = 1
                /\ \A j \in 1 .. Len(Z.list) - 1 : Z.list[j].addr + Z.list[j].size < Z.list[j + 1].addr
  <2>. DEFINE Z == heap[i]
              inUse == {b \in blocks : b.addr \in Bytes(Z.base, Z.len)}
              list == Z.list
              F == NodeTiles(list)
              B == BlockTiles(Z, blocks)
              lo == Z.base + InitialChunk
              hi == Z.base + Z.len
              f == [j \in DOMAIN list |-> <<list[j].addr, list[j].size>>]
              g == [b \in inUse |-> <<b.addr, AlignUp(b.lay.size, Chunk)>>]
  <2>1. HeapOk(heap, blocks) /\ ListInv(Z, B) /\ Z \in HeapZone
    BY <1>1, InvZonesApart DEF HeapOk
  <2>2. /\ Sorted(list) /\ Len(list) \in Nat /\ DOMAIN list = 1 .. Len(list)
        /\ \A j \in DOMAIN list : /\ list[j] \in HeapNode /\ list[j].addr \in Nat /\ list[j].size \in Nat \ {0}
                                  /\ lo <= list[j].addr /\ list[j].addr + list[j].size <= hi
        /\ F \cap B = {} /\ Tiling(F \cup B, lo, hi)
    <3>. HIDE DEF Z, B
    <3>1. ListInv(Z, B)
      BY <2>1
    <3>. QED BY <3>1, ListParts
  <2>3. Z.base \in Nat /\ Z.len \in Nat /\ InitialChunk \in Nat /\ lo \in Int /\ hi \in Int
    BY <2>1, HeapFacts DEF HeapZone
  <2>4. \A b \in blocks : b.addr \in Nat /\ b.lay \in Layouts /\ AlignUp(b.lay.size, Chunk) \in Nat
    <3>1. blocks \subseteq [addr : Nat, lay : Layouts]
      BY <2>1 DEF HeapOk, BlocksOk
    <3>2. \A lay \in Layouts : lay.size \in Nat /\ Chunk \in Nat \ {0}
      BY HeapFacts
    <3>3. \A lay \in Layouts : AlignUp(lay.size, Chunk) \in Nat
      BY <3>2, AlignUpIs
    <3>. QED BY <3>1, <3>3
  <2>5. \A b, d \in blocks : b.addr = d.addr => b = d
    BY <2>1 DEF HeapOk, BlocksOk
  <2>6. Names(f, DOMAIN list, F)
    <3>1. \A j \in DOMAIN list : f[j] \in F
      BY DEF NodeTiles, ToSet
    <3>2. \A t \in F : \E j \in DOMAIN list : f[j] = t
      BY DEF NodeTiles, ToSet
    <3>3. ASSUME NEW j \in DOMAIN list, NEW k \in DOMAIN list, f[j] = f[k] PROVE j = k
      <4>1. list[j].addr = list[k].addr
        BY <3>3
      <4>2. j \in Int /\ k \in Int
        BY <2>2
      <4>. HIDE DEF list
      <4>3. ~(j < k) /\ ~(k < j)
        BY <2>2, <4>1 DEF Sorted
      <4>. QED BY <4>2, <4>3
    <3>. HIDE DEF f, F, list
    <3>. QED BY <3>1, <3>2, <3>3 DEF Names
  <2>7. Names(g, inUse, B)
    <3>1. \A b \in inUse : g[b] \in B /\ g[b][1] = b.addr
      BY DEF BlockTiles
    <3>2. \A t \in B : \E b \in inUse : g[b] = t
      BY DEF BlockTiles
    <3>3. \A b, d \in inUse : g[b] = g[d] => b = d
      BY <2>5, <3>1
    <3>. HIDE DEF g, B, inUse
    <3>. QED BY <3>1, <3>2, <3>3 DEF Names
  <2>8. ASSUME NEW x \in Bytes(Z.base, Z.len)
        PROVE  (IF x < Z.base + InitialChunk THEN 1 ELSE 0)
                 + Cardinality({j \in DOMAIN list : x \in Bytes(list[j].addr, list[j].size)})
                 + Cardinality({b \in inUse : x \in Bytes(b.addr, AlignUp(b.lay.size, Chunk))}) = 1
    <3>1. x \in Int /\ Z.base <= x /\ x < hi
      BY <2>3 DEF Bytes
    <3>2. At(f, DOMAIN list, x) = {j \in DOMAIN list : x \in Bytes(list[j].addr, list[j].size)}
      <4>1. ASSUME NEW j \in DOMAIN list PROVE Covers(f[j], x) <=> x \in Bytes(list[j].addr, list[j].size)
        <5>1. list[j].addr \in Int /\ list[j].size \in Int
          BY <2>2
        <5>2. f[j] = <<list[j].addr, list[j].size>>
          OBVIOUS
        <5>. HIDE DEF f, list
        <5>. QED BY <3>1, <5>1, <5>2, InTile DEF Bytes
      <4>. HIDE DEF f, list
      <4>. QED BY <4>1 DEF At
    <3>3. At(g, inUse, x) = {b \in inUse : x \in Bytes(b.addr, AlignUp(b.lay.size, Chunk))}
      <4>1. ASSUME NEW b \in inUse PROVE Covers(g[b], x) <=> x \in Bytes(b.addr, AlignUp(b.lay.size, Chunk))
        <5>1. b.addr \in Int /\ AlignUp(b.lay.size, Chunk) \in Int
          BY <2>4
        <5>2. g[b] = <<b.addr, AlignUp(b.lay.size, Chunk)>>
          OBVIOUS
        <5>. HIDE DEF g, inUse
        <5>. QED BY <3>1, <5>1, <5>2, InTile DEF Bytes
      <4>. HIDE DEF g, inUse
      <4>. QED BY <4>1 DEF At
    <3>. DEFINE p == Cardinality(At(f, DOMAIN list, x))
                q == Cardinality(At(g, inUse, x))
    <3>4. CASE x < lo
      <4>1. \A t \in F \cup B : ~Covers(t, x)
        <5>1. \A t \in F \cup B : lo <= t[1] /\ t[1] \in Nat
          <6>. HIDE DEF F, B
          <6>. QED BY <2>2 DEF Tiling
        <5>. HIDE DEF F, B, lo
        <5>. QED BY <2>3, <3>1, <3>4, <5>1 DEF Covers
      <4>. HIDE DEF F, B, f, g, inUse, list
      <4>2. At(f, DOMAIN list, x) = {} /\ At(g, inUse, x) = {}
        BY <2>6, <2>7, <4>1 DEF At, Names
      <4>3. p = 0 /\ q = 0
        BY <4>2, CountNone
      <4>4. (IF x < lo THEN 1 ELSE 0) + p + q = 1
        BY ONLY <3>4, <4>3
      <4>. HIDE DEF lo, p, q
      <4>. QED BY <3>2, <3>3, <4>4 DEF lo, p, q
    <3>5. CASE ~(x < lo)
      <4>1. x \in lo .. hi - 1
        <5>. HIDE DEF lo, hi
        <5>. QED BY <2>3, <3>1, <3>5
      <4>. HIDE DEF F, B, f, g, inUse, list, lo, hi
      <4>2. p + q = 1
        BY <2>2, <2>3, <2>6, <2>7, <4>1, CoverCounts
      <4>3. p \in Int /\ q \in Int
        <5>1. \A t \in F \cup B : t[1] \in Nat /\ t[2] \in Nat
          BY <2>2 DEF Tiling
        <5>2. \E t \in F \cup B : Covers(t, x) /\ \A s \in F \cup B : Covers(s, x) => s = t
          <6>. DEFINE T == F \cup B
          <6>1. Tiling(T, lo, hi) /\ lo \in Int /\ hi \in Int
            BY <2>2, <2>3
          <6>. HIDE DEF T
          <6>2. \E t \in T : Covers(t, x) /\ \A s \in T : Covers(s, x) => s = t
            BY <4>1, <6>1, CoverOnce
          <6>. QED BY <6>2 DEF T
        <5>3. PICK t \in F \cup B : Covers(t, x) /\ \A s \in F \cup B : Covers(s, x) => s = t
          BY <5>2
        <5>4. (\A s \in F : Covers(s, x) => s = t) /\ (\A s \in B : Covers(s, x) => s = t)
          BY <5>3
        <5>5. p = (IF t \in F THEN 1 ELSE 0) /\ q = IF t \in B THEN 1 ELSE 0
          BY <2>6, <2>7, <5>3, <5>4, NameCounts
        <5>. QED BY <5>5
      <4>4. (IF x < lo THEN 1 ELSE 0) + p + q = 1
        <5>. HIDE DEF p, q
        <5>. QED BY ONLY <3>5, <4>2, <4>3
      <4>. HIDE DEF p, q
      <4>. QED BY <3>2, <3>3, <4>4 DEF p, q, lo, list, inUse
    <3>. QED BY <3>4, <3>5
  <2>9. ASSUME NEW j \in 1 .. Len(list) - 1
        PROVE  list[j].addr + list[j].size < list[j + 1].addr
    <3>1. j \in DOMAIN list /\ j + 1 \in DOMAIN list /\ j < j + 1
      BY <2>2
    <3>. HIDE DEF list
    <3>. QED BY <2>2, <3>1 DEF Sorted
  <2>. QED BY <2>8, <2>9
<1>2. Inv => HeapTiles
  BY <1>1 DEF HeapTiles
<1>. QED
  BY <1>2, HeapInvariant, PTL

-----------------------------------------------------------------------------
(* The allocators are stores of disjoint blocks.                           *)

Separate(b, c) == b.addr + b.len <= c.addr \/ c.addr + c.len <= b.addr

(* f gives the block that each element of S is. *)
Blockwise(f, S) ==
  \A m \in S : /\ f[m].addr \in Nat /\ f[m].len \in Nat \ {0}
               /\ \A n \in S : m # n => Separate(f[m], f[n])

Image(f, S) == {f[m] : m \in S}

StoreStep(K, L) ==
  \/ L = K
  \/ \E b \in L \ K : b.len > 0 /\ (\A c \in K : Separate(b, c)) /\ L = K \cup {b}
  \/ \E b \in K : L = K \ {b}

(* Handing out or taking back one element is a step of the store. *)
LEMMA MovesAreSteps ==
  ASSUME NEW f, NEW S, NEW T, Blockwise(f, S), Blockwise(f, T), Moves(S, T)
  PROVE  StoreStep(Image(f, S), Image(f, T))
<1>1. CASE T = S
  BY <1>1 DEF StoreStep
<1>2. ASSUME NEW m, m \notin S, T = S \cup {m}
      PROVE  StoreStep(Image(f, S), Image(f, T))
  <2>1. m \in T /\ \A n \in S : n \in T /\ n # m
    BY <1>2
  <2>2. f[m].addr \in Nat /\ f[m].len \in Nat \ {0} /\ \A n \in S : Separate(f[m], f[n])
    BY <2>1 DEF Blockwise
  <2>3. f[m] \notin Image(f, S)
    BY <2>2 DEF Image, Separate
  <2>4. Image(f, T) = Image(f, S) \cup {f[m]}
    BY <1>2 DEF Image
  <2>5. \A c \in Image(f, S) : Separate(f[m], c)
    BY <2>2 DEF Image
  <2>. QED BY <2>2, <2>3, <2>4, <2>5 DEF StoreStep
<1>3. ASSUME NEW m \in S, T = S \ {m}
      PROVE  StoreStep(Image(f, S), Image(f, T))
  <2>1. /\ f[m].addr \in Nat /\ f[m].len \in Nat \ {0}
        /\ \A n \in S : n # m => Separate(f[m], f[n])
    BY DEF Blockwise
  <2>2. \A n \in S : n # m => f[n] # f[m]
    BY <2>1 DEF Separate
  <2>3. Image(f, T) = Image(f, S) \ {f[m]}
    BY <1>3, <2>2 DEF Image
  <2>4. f[m] \in Image(f, S)
    BY DEF Image
  <2>. QED BY <2>3, <2>4 DEF StoreStep
<1>. QED
  BY <1>1, <1>2, <1>3 DEF Moves

PageBlock(m) == [addr |-> m.addr, len |-> 2^m.order]
HeapBlock(b) == [addr |-> b.addr, len |-> b.lay.size]

(* Owned blocks of pages are separate. *)
LEMMA PagesApart ==
  ASSUME NEW zs, NEW S, PagesOk(zs, S), NEW U, S \subseteq U
  PROVE  Blockwise([m \in U |-> PageBlock(m)], S)
<1>. DEFINE f == [m \in U |-> PageBlock(m)]
<1>1. \A m \in S : f[m].addr = m.addr /\ f[m].len = 2^m.order
  BY DEF PageBlock
<1>2. ASSUME NEW m \in S PROVE m.addr \in Nat /\ 2^m.order \in Nat \ {0}
  BY MemTileIs DEF PagesOk
<1>3. ASSUME NEW m \in S, NEW n \in S, m # n PROVE m.addr + 2^m.order <= n.addr \/ n.addr + 2^n.order <= m.addr
  BY <1>3, MemApart
<1>. HIDE DEF f
<1>4. Blockwise(f, S)
  BY <1>1, <1>2, <1>3 DEF Blockwise, Separate
<1>. QED
  BY <1>4 DEF f

(* Blocks of the heap in use do not overlap, in one zone or in two. *)
LEMMA BlocksDisjoint ==
  ASSUME NEW H, NEW used, HeapOk(H, used), ZonesApart(H), NEW b \in used, NEW d \in used, b # d
  PROVE  /\ b.addr \in Nat /\ b.lay.size \in Nat \ {0}
         /\ b.addr + b.lay.size <= d.addr \/ d.addr + d.lay.size <= b.addr
<1>. DEFINE s(x) == AlignUp(x.lay.size, Chunk)
            u(x) == <<x.addr, s(x)>>
<1>1. /\ \A x \in used : x.addr \in Nat /\ x.lay \in Layouts
      /\ \A x \in used : \E i \in DOMAIN H : x.addr \in Bytes(H[i].base, H[i].len)
      /\ \A x, y \in used : x.addr = y.addr => x = y
  BY DEF HeapOk, BlocksOk
<1>2. \A x \in used : x.lay.size \in Nat \ {0} /\ s(x) \in Nat /\ x.lay.size <= s(x)
  <2>1. \A lay \in Layouts : lay.size \in Nat \ {0} /\ Chunk \in Nat \ {0}
    BY HeapFacts
  <2>2. \A lay \in Layouts : AlignUp(lay.size, Chunk) \in Nat /\ lay.size <= AlignUp(lay.size, Chunk)
    BY <2>1, AlignUpIs
  <2>. QED BY <1>1, <2>1, <2>2
<1>3. ASSUME NEW x \in used, NEW i \in DOMAIN H, x.addr \in Bytes(H[i].base, H[i].len)
      PROVE  /\ u(x) \in BlockTiles(H[i], used) /\ H[i] \in HeapZone /\ ListInv(H[i], BlockTiles(H[i], used))
             /\ H[i].base <= x.addr /\ x.addr + s(x) <= H[i].base + H[i].len
             /\ H[i].base \in Nat /\ H[i].len \in Nat
  <2>1. u(x) \in BlockTiles(H[i], used)
    BY <1>3 DEF BlockTiles
  <2>2. H[i] \in HeapZone /\ ListInv(H[i], BlockTiles(H[i], used))
    BY DEF HeapOk
  <2>3. H[i].base \in Nat /\ H[i].len \in Nat
    BY <2>2 DEF HeapZone
  <2>4. u(x)[1] + u(x)[2] <= H[i].base + H[i].len
    <3>. HIDE DEF u
    <3>. QED BY <2>1, <2>2, ZoneByte
  <2>5. H[i].base <= x.addr
    BY <1>1, <1>3, <2>3 DEF Bytes
  <2>. QED BY <2>1, <2>2, <2>3, <2>4, <2>5
<1>4. PICK i \in DOMAIN H : b.addr \in Bytes(H[i].base, H[i].len)
  BY <1>1
<1>5. PICK j \in DOMAIN H : d.addr \in Bytes(H[j].base, H[j].len)
  BY <1>1
<1>6. b.addr + s(b) <= d.addr \/ d.addr + s(d) <= b.addr
  <2>1. CASE i = j
    <3>1. u(b) \in BlockTiles(H[i], used) /\ u(d) \in BlockTiles(H[i], used) /\ ListInv(H[i], BlockTiles(H[i], used))
      BY <1>3, <1>4, <1>5, <2>1
    <3>2. u(b) # u(d)
      BY <1>1
    <3>3. u(b)[1] = b.addr /\ u(b)[2] = s(b) /\ u(d)[1] = d.addr /\ u(d)[2] = s(d)
      OBVIOUS
    <3>. HIDE DEF u, s
    <3>4. Apart(u(b), u(d))
      BY <3>1, <3>2 DEF ListInv, Tiling
    <3>. QED BY <3>3, <3>4 DEF Apart
  <2>2. CASE i # j
    <3>1. BytesApart(H[i], H[j])
      BY <2>2 DEF ZonesApart
    <3>2. /\ H[i].base <= b.addr /\ b.addr + s(b) <= H[i].base + H[i].len
          /\ H[i].base \in Nat /\ H[i].len \in Nat
      BY <1>3, <1>4
    <3>3. /\ H[j].base <= d.addr /\ d.addr + s(d) <= H[j].base + H[j].len
          /\ H[j].base \in Nat /\ H[j].len \in Nat
      BY <1>3, <1>5
    <3>4. b.addr \in Nat /\ d.addr \in Nat /\ s(b) \in Nat /\ s(d) \in Nat
      BY <1>1, <1>2
    <3>. HIDE DEF s
    <3>. QED BY <3>1, <3>2, <3>3, <3>4 DEF BytesApart
  <2>. QED BY <2>1, <2>2
<1>. HIDE DEF s
<1>. QED
  BY <1>1, <1>2, <1>6

(* So they are separate blocks of a store. *)
LEMMA BlocksSeparate ==
  ASSUME NEW H, NEW used, HeapOk(H, used), ZonesApart(H), NEW U, used \subseteq U
  PROVE  Blockwise([b \in U |-> HeapBlock(b)], used)
<1>. DEFINE f == [b \in U |-> HeapBlock(b)]
<1>1. \A b \in used : f[b].addr = b.addr /\ f[b].len = b.lay.size
  BY DEF HeapBlock
<1>2. ASSUME NEW b \in used PROVE b.addr \in Nat /\ b.lay.size \in Nat \ {0}
  <2>1. b.addr \in Nat /\ b.lay \in Layouts
    BY DEF HeapOk, BlocksOk
  <2>. QED BY <2>1, HeapFacts
<1>3. ASSUME NEW b \in used, NEW d \in used, b # d
      PROVE  b.addr + b.lay.size <= d.addr \/ d.addr + d.lay.size <= b.addr
  BY <1>3, BlocksDisjoint
<1>. HIDE DEF f
<1>4. Blockwise(f, used)
  BY <1>1, <1>2, <1>3 DEF Blockwise, Separate
<1>. QED
  BY <1>4 DEF f

(* A step of either allocator is a step of the store, or none. *)
LEMMA PageStoreStep ==
  ASSUME Inv, Inv', BlocksMove
  PROVE  StoreStep({[addr |-> m.addr, len |-> 2^m.order] : m \in OwnedPages},
                   {[addr |-> m.addr, len |-> 2^m.order] : m \in OwnedPages'})
<1>. DEFINE S == Owned(held, op, heap)
            T == Owned(held', op', heap')
            U == S \cup T
            f == [m \in U |-> PageBlock(m)]
<1>1. OwnedPages = S /\ OwnedPages' = T
  BY DEF OwnedPages, InFlight, Owned, Mems, ZoneMems
<1>2. PagesOk(zones, S) /\ PagesOk(zones', T)
  BY DEF Inv, PageInv
<1>3. Blockwise([m \in U |-> PageBlock(m)], S) /\ Blockwise([m \in U |-> PageBlock(m)], T)
  <2>1. S \subseteq U /\ T \subseteq U
    OBVIOUS
  <2>. HIDE DEF S, T, U
  <2>2. Blockwise([m \in U |-> PageBlock(m)], S)
    BY ONLY <1>2, <2>1, PagesApart
  <2>3. Blockwise([m \in U |-> PageBlock(m)], T)
    BY ONLY <1>2, <2>1, PagesApart
  <2>. QED BY <2>2, <2>3
<1>4. Moves(S, T)
  BY DEF BlocksMove
<1>5. StoreStep(Image(f, S), Image(f, T))
  <2>1. Blockwise(f, S) /\ Blockwise(f, T)
    BY <1>3
  <2>. HIDE DEF f, S, T
  <2>. QED BY ONLY <1>4, <2>1, MovesAreSteps
<1>6. /\ Image(f, S) = {[addr |-> m.addr, len |-> 2^m.order] : m \in S}
      /\ Image(f, T) = {[addr |-> m.addr, len |-> 2^m.order] : m \in T}
  <2>1. \A m \in S : f[m] = [addr |-> m.addr, len |-> 2^m.order]
    BY DEF PageBlock
  <2>2. \A m \in T : f[m] = [addr |-> m.addr, len |-> 2^m.order]
    BY DEF PageBlock
  <2>. HIDE DEF f, S, T
  <2>. QED BY <2>1, <2>2, Zenon DEF Image
<1>. HIDE DEF S, T, f
<1>. QED
  BY <1>1, <1>5, <1>6

(* The same for the heap. *)
LEMMA HeapStoreStep ==
  ASSUME Inv, Inv', BlocksMove
  PROVE  StoreStep({[addr |-> b.addr, len |-> b.lay.size] : b \in blocks},
                   {[addr |-> b.addr, len |-> b.lay.size] : b \in blocks'})
<1>. DEFINE U == blocks \cup blocks'
            f == [b \in U |-> HeapBlock(b)]
<1>1. HeapOk(heap, blocks) /\ ZonesApart(heap)
  BY InvZonesApart
<1>2. HeapOk(heap', blocks') /\ ZonesApart(heap')
  <2>1. /\ PagesOk(zones', Owned(held', op', heap')) /\ Exclusive(held', op', heap') /\ HeapOk(heap', blocks')
    BY DEF Inv, PageInv, HeapInv
  <2>2. \A i, j \in DOMAIN heap' : heap'[i].mem = heap'[j].mem => i = j
    BY <2>1 DEF Exclusive
  <2>3. ZoneMems(heap') \subseteq Owned(held', op', heap')
    BY DEF Owned
  <2>4. ZonesApart(heap')
    BY ONLY <2>1, <2>2, <2>3, HeapApart
  <2>. QED BY <2>1, <2>4
<1>3. Blockwise([b \in U |-> HeapBlock(b)], blocks) /\ Blockwise([b \in U |-> HeapBlock(b)], blocks')
  <2>1. blocks \subseteq U /\ blocks' \subseteq U
    OBVIOUS
  <2>. HIDE DEF U
  <2>2. Blockwise([b \in U |-> HeapBlock(b)], blocks)
    BY ONLY <1>1, <2>1, BlocksSeparate
  <2>3. Blockwise([b \in U |-> HeapBlock(b)], blocks')
    BY ONLY <1>2, <2>1, BlocksSeparate
  <2>. QED BY <2>2, <2>3
<1>4. Moves(blocks, blocks')
  BY DEF BlocksMove
<1>5. StoreStep(Image(f, blocks), Image(f, blocks'))
  <2>1. Blockwise(f, blocks) /\ Blockwise(f, blocks')
    BY <1>3
  <2>. HIDE DEF f
  <2>. QED BY ONLY <1>4, <2>1, MovesAreSteps
<1>6. /\ Image(f, blocks) = {[addr |-> b.addr, len |-> b.lay.size] : b \in blocks}
      /\ Image(f, blocks') = {[addr |-> b.addr, len |-> b.lay.size] : b \in blocks'}
  <2>1. \A b \in blocks : f[b] = [addr |-> b.addr, len |-> b.lay.size]
    BY DEF HeapBlock
  <2>2. \A b \in blocks' : f[b] = [addr |-> b.addr, len |-> b.lay.size]
    BY DEF HeapBlock
  <2>. HIDE DEF f
  <2>. QED BY <2>1, <2>2, Zenon DEF Image
<1>. QED
  BY <1>5, <1>6

(* To their callers zm and the kernel's heap are stores of disjoint        *)
(* blocks: a step hands out one block that overlaps none in use, or takes  *)
(* one back, or neither.                                                   *)
THEOREM HeapRefinesBlocks == Spec => ImplementsBlocks
<1>. DEFINE P == {[addr |-> m.addr, len |-> 2^m.order] : m \in OwnedPages}
            B == {[addr |-> b.addr, len |-> b.lay.size] : b \in blocks}
<1>1. Init => PageStore!Init /\ HeapStore!Init
  <2>. SUFFICES ASSUME Init PROVE PageStore!Init /\ HeapStore!Init
    OBVIOUS
  <2>1. blocks = {} /\ heap = << >> /\ held = {} /\ \A c \in Cpu : op[c].mem = NoMem
    BY DEF Init, PageInit, Idle
  <2>2. OwnedPages = {}
    BY <2>1 DEF OwnedPages, InFlight
  <2>. QED BY <2>1, <2>2 DEF PageStore!Init, HeapStore!Init
<1>2. Inv /\ Inv' /\ [Next]_vars => [PageStore!Next]_({[addr |-> m.addr, len |-> 2^m.order] : m \in OwnedPages})
  <2>. SUFFICES ASSUME Inv, Inv', [Next]_vars PROVE [PageStore!Next]_P
    OBVIOUS
  <2>1. StoreStep(P, P')
    BY NextInv, StutterInv, PageStoreStep
  <2>. HIDE DEF P
  <2>2. CASE P' = P
    BY <2>2
  <2>3. CASE (\E b \in P' \ P : b.len > 0 /\ (\A c \in P : Separate(b, c)) /\ P' = P \cup {b})
             \/ \E b \in P : P' = P \ {b}
    BY <2>3 DEF P, Separate, PageStore!Next, PageStore!Allocate, PageStore!Free, PageStore!Disjoint
  <2>. QED BY <2>1, <2>2, <2>3 DEF StoreStep
<1>3. Inv /\ Inv' /\ [Next]_vars => [HeapStore!Next]_({[addr |-> b.addr, len |-> b.lay.size] : b \in blocks})
  <2>. SUFFICES ASSUME Inv, Inv', [Next]_vars PROVE [HeapStore!Next]_B
    OBVIOUS
  <2>1. StoreStep(B, B')
    BY NextInv, StutterInv, HeapStoreStep
  <2>. HIDE DEF B
  <2>2. CASE B' = B
    BY <2>2
  <2>3. CASE (\E b \in B' \ B : b.len > 0 /\ (\A c \in B : Separate(b, c)) /\ B' = B \cup {b})
             \/ \E b \in B : B' = B \ {b}
    BY <2>3 DEF B, Separate, HeapStore!Next, HeapStore!Allocate, HeapStore!Free, HeapStore!Disjoint
  <2>. QED BY <2>1, <2>2, <2>3 DEF StoreStep
<1>. QED
  BY <1>1, <1>2, <1>3, HeapInvariant, PTL DEF Spec, ImplementsBlocks, PageStore!Spec, HeapStore!Spec
=============================================================================
