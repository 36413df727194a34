---------------------------- MODULE KHeapProofs ----------------------------
(***************************************************************************)
(* Proofs about KHeap: the page counter is exact, the blocks of the heap   *)
(* tile its pages, and allocations never overlap each other, a header or   *)
(* a page of anyone else, as long as no merge has reached over one.        *)
(*                                                                         *)
(* The list is described by facts about a sequence of blocks h and the     *)
(* address t where the memory ends, so that they can be stated of the      *)
(* list while kfree is still rebuilding it (Joined, Coalesced).            *)
(***************************************************************************)
EXTENDS KHeap, ZerosLemmas

Blocks == [addr : Nat, size : Nat \ {0}, free : BOOLEAN]

(* Pages are handed out in order and never given back: Top is the last.    *)
Top   == TotalPages - 1 - free_pages
Limit == (Top + 1) * PageUnits

(* Where the block after block i begins: t after the last one. *)
Start(h, t, i) == IF i > Len(h) THEN t ELSE h[i].addr

(* The list is in the order of the addresses. *)
Chained(h, t) ==
  \A i \in 1 .. Len(h) :
    End(h[i]) <= t /\ \A j \in 1 .. i - 1 : End(h[j]) <= h[i].addr

Foreign(o, a, b) == \A u \in a .. b - 1 : PageOf(u) \in o
Reaches(o, b)    == \E u \in b.addr .. End(b) - 1 : PageOf(u) \in o

(* What lies between two blocks is someone else's; or a merge at or before *)
(* that place has reached over a page of someone else.                     *)
GapForeign(o, h, t, i) ==
  Foreign(o, End(h[i]), Start(h, t, i + 1)) \/ \E j \in 1 .. i : Reaches(o, h[j])

Listed(o, h, t) ==
  /\ h \in Seq(Blocks) /\ Len(h) > 0
  /\ h[1].addr = KernelPages * PageUnits
  /\ Chained(h, t)
  /\ \A i \in 1 .. Len(h) : GapForeign(o, h, t, i)

(* Free neighbours have a gap between them. *)
FreeApart(h) ==
  \A i \in 1 .. Len(h) - 1 : h[i].free /\ h[i + 1].free => End(h[i]) < h[i + 1].addr

Taken(h) == {h[i] : i \in {j \in 1 .. Len(h) : ~h[j].free}}

(* Every allocation has a block of its own that is not free. *)
Owned(hs, h) ==
  /\ \A a \in hs : \E b \in Taken(h) :
       b.addr + HdrUnits = a.ptr /\ a.size <= b.size /\ a.size \in Nat \ {0}
  /\ \A b \in Taken(h) : \E a \in hs : a.ptr = b.addr + HdrUnits
  /\ \A a, b \in hs : a.ptr = b.ptr => a = b

PagesInv ==
  /\ free_pages \in 0 .. TotalPages - 1 - KernelPages
  /\ used = 0 .. Top
  /\ others \subseteq KernelPages + 1 .. Top

ListInv == Listed(others, heap, Limit) /\ FreeApart(heap)

HeldInv ==
  held \subseteq [ptr : Nat, size : Nat] /\ Owned(held, heap)

ReqInv ==
  /\ req \in [want : 0 .. MaxRequest, cur : Nat \ {0}]
  /\ req.want = 0 => req = NoRequest

IInv == PagesInv /\ ListInv /\ HeldInv /\ ReqInv
-----------------------------------------------------------------------------
(* The constants are numbers, and a page has room for a header and more. *)
LEMMA ConstantFacts ==
  /\ TotalPages \in Nat \ {0} /\ WordPages \in Nat \ {0} /\ PageUnits \in Nat \ {0}
  /\ HdrUnits \in Nat \ {0} /\ KernelPages \in Nat \ {0}
  /\ KernelPages < TotalPages /\ HdrUnits < PageUnits
  /\ Others \in Nat /\ MaxRequest \in Nat
BY HeapAssumption

(* Multiplying by the size of a page keeps the order. *)
LEMMA PagesGrow ==
  ASSUME NEW a \in Nat, NEW b \in Nat, a <= b
  PROVE  /\ a * PageUnits \in Nat /\ b * PageUnits \in Nat
         /\ a * PageUnits <= b * PageUnits
         /\ (a + 1) * PageUnits = a * PageUnits + PageUnits
<1>1. PICK d \in Nat : b = a + d
  <2>1. b - a \in Nat /\ b = a + (b - a) OBVIOUS
  <2>. QED BY <2>1
<1>2. d * PageUnits \in Nat /\ a * PageUnits \in Nat BY ConstantFacts
<1>3. b * PageUnits = a * PageUnits + d * PageUnits BY <1>1, ConstantFacts
<1>4. (a + 1) * PageUnits = a * PageUnits + PageUnits BY ConstantFacts
<1>. QED BY <1>2, <1>3, <1>4

(* A unit lies in page k exactly when it lies between its first unit and   *)
(* the first unit of the next.                                             *)
LEMMA PageOfBounds ==
  ASSUME NEW u \in Nat, NEW k \in Nat
  PROVE  /\ PageOf(u) \in Nat
         /\ k * PageUnits <= u => k <= PageOf(u)
         /\ u < k * PageUnits => PageOf(u) < k
         /\ PageOf(u) * PageUnits <= u
<1>. DEFINE q == u \div PageUnits
<1>1. q \in Nat /\ q * PageUnits <= u /\ u < q * PageUnits + PageUnits
  BY ConstantFacts
<1>2. (q + 1) * PageUnits = q * PageUnits + PageUnits BY <1>1, PagesGrow
<1>. HIDE DEF q
<1>3. ASSUME k * PageUnits <= u PROVE k <= q
  <2>. SUFFICES ASSUME q + 1 <= k PROVE FALSE BY <1>1
  <2>1. (q + 1) * PageUnits <= k * PageUnits BY <1>1, PagesGrow
  <2>2. (q + 1) * PageUnits \in Nat /\ k * PageUnits \in Nat BY <1>1, PagesGrow
  <2>3. u < (q + 1) * PageUnits BY <1>1, <1>2
  <2>. QED BY <1>3, <2>1, <2>2, <2>3
<1>4. ASSUME u < k * PageUnits PROVE q < k
  <2>. SUFFICES ASSUME k <= q PROVE FALSE BY <1>1
  <2>1. k * PageUnits <= q * PageUnits BY <1>1, PagesGrow
  <2>2. q * PageUnits \in Nat /\ k * PageUnits \in Nat BY <1>1, PagesGrow
  <2>. QED BY <1>1, <1>4, <2>1, <2>2
<1>. QED BY <1>1, <1>3, <1>4 DEF PageOf, q

(* What a block is. *)
LEMMA BlockFacts ==
  ASSUME NEW b \in Blocks
  PROVE  /\ b.addr \in Nat /\ b.size \in Nat \ {0} /\ b.free \in BOOLEAN
         /\ End(b) \in Nat /\ End(b) = b.addr + HdrUnits + b.size
         /\ b.addr + HdrUnits < End(b) /\ b.addr < End(b)
<1>1. b.addr \in Nat /\ b.size \in Nat \ {0} /\ b.free \in BOOLEAN BY DEF Blocks
<1>. QED BY <1>1, ConstantFacts DEF End

(* A block that is built is a block. *)
LEMMA BlockBuilt ==
  ASSUME NEW a \in Nat, NEW n \in Nat \ {0}, NEW f \in BOOLEAN
  PROVE  /\ Block(a, n, f) \in Blocks
         /\ Block(a, n, f).addr = a /\ Block(a, n, f).size = n /\ Block(a, n, f).free = f
BY DEF Block, Blocks

(* g is h with its element i replaced by those of s. *)
HasInPlace(S, h, i, s, g) ==
  /\ g \in Seq(S) /\ Len(g) = Len(h) - 1 + Len(s)
  /\ \A k \in 1 .. Len(g) :
       g[k] = IF k < i THEN h[k]
              ELSE IF k < i + Len(s) THEN s[k - i + 1]
              ELSE h[k - Len(s) + 1]

(* A sequence put together of the elements before i, s and those after i. *)
LEMMA Spliced ==
  ASSUME NEW S, NEW h \in Seq(S), NEW i \in 1 .. Len(h), NEW s \in Seq(S)
  PROVE  HasInPlace(S, h, i, s, SubSeq(h, 1, i - 1) \o s \o SubSeq(h, i + 1, Len(h)))
<1>0. Len(h) \in Nat /\ Len(s) \in Nat BY LenProperties
<1>. DEFINE x == SubSeq(h, 1, i - 1)
            y == SubSeq(h, i + 1, Len(h))
<1>1. x \in Seq(S) /\ Len(x) = i - 1 /\ \A k \in 1 .. i - 1 : x[k] = h[k]
  BY <1>0, SubSeqProperties
<1>2. y \in Seq(S) /\ Len(y) = Len(h) - i /\ \A k \in 1 .. Len(h) - i : y[k] = h[k + i]
  BY <1>0, SubSeqProperties
<1>. HIDE DEF x, y
<1>3. PICK z \in Seq(S) : z = x \o s
  <2>1. x \o s \in Seq(S) BY <1>1, ConcatProperties, Zenon
  <2>. QED BY <2>1
<1>4. PICK m \in Nat, n \in Nat, j \in Nat :
        m = Len(s) /\ n = Len(h) /\ j = i /\ 1 <= j /\ j <= n
  BY <1>0
<1>5. Len(z) = j - 1 + m /\ \A k \in 1 .. j - 1 + m : z[k] = IF k < j THEN h[k] ELSE s[k - j + 1]
  <2>1. Len(z) = Len(x) + Len(s) BY <1>1, <1>3, ConcatProperties, Zenon
  <2>2. \A k \in 1 .. Len(x) + Len(s) :
          z[k] = IF k <= Len(x) THEN x[k] ELSE s[k - Len(x)]
    BY <1>1, <1>3, ConcatProperties, Zenon
  <2>3. \A k \in 1 .. j - 1 + m : z[k] = IF k <= j - 1 THEN x[k] ELSE s[k - (j - 1)]
    BY <1>1, <1>4, <2>2
  <2>4. \A k \in 1 .. j - 1 + m : (k <= j - 1 <=> k < j) /\ k - (j - 1) = k - j + 1
    BY <1>4
  <2>5. \A k \in 1 .. j - 1 + m : k <= j - 1 => x[k] = h[k] BY <1>1, <1>4
  <2>. QED BY <1>1, <1>4, <2>1, <2>3, <2>4, <2>5
<1>6. PICK g \in Seq(S) : g = z \o y
  <2>1. z \o y \in Seq(S) BY <1>2, ConcatProperties, Zenon
  <2>. QED BY <2>1
<1>7. /\ Len(g) = n - 1 + m
      /\ \A k \in 1 .. n - 1 + m : g[k] = IF k <= j - 1 + m THEN z[k] ELSE y[k - (j - 1 + m)]
  <2>1. Len(g) = Len(z) + Len(y) BY <1>2, <1>6, ConcatProperties, Zenon
  <2>2. \A k \in 1 .. Len(z) + Len(y) :
          g[k] = IF k <= Len(z) THEN z[k] ELSE y[k - Len(z)]
    BY <1>2, <1>6, ConcatProperties, Zenon
  <2>3. Len(z) + Len(y) = n - 1 + m BY <1>2, <1>4, <1>5
  <2>. QED BY <1>5, <2>1, <2>2, <2>3
<1>8. ASSUME NEW k \in 1 .. n - 1 + m
      PROVE  g[k] = IF k < j THEN h[k]
                    ELSE IF k < j + m THEN s[k - j + 1]
                    ELSE h[k - m + 1]
  <2>1. CASE k <= j - 1 + m
    <3>1. g[k] = z[k] /\ k \in 1 .. j - 1 + m BY <1>7, <2>1
    <3>2. k < j + m BY <1>4, <2>1
    <3>. QED BY <1>5, <3>1, <3>2
  <2>2. CASE j - 1 + m < k
    <3>0. k - (j - 1 + m) \in 1 .. n - j BY <1>4, <2>2
    <3>1. PICK l \in 1 .. n - j : l = k - (j - 1 + m) BY <3>0
    <3>2. g[k] = y[l] BY <1>4, <1>7, <2>2, <3>1
    <3>3. y[l] = h[l + j] BY <1>2, <1>4, <3>1
    <3>4. l + j = k - m + 1 /\ ~(k < j) /\ ~(k < j + m) BY <1>4, <2>2, <3>1
    <3>. QED BY <3>2, <3>3, <3>4
  <2>. QED BY <1>4, <2>1, <2>2
<1>9. g = SubSeq(h, 1, i - 1) \o s \o SubSeq(h, i + 1, Len(h)) BY <1>3, <1>6 DEF x, y
<1>10. /\ Len(g) = Len(h) - 1 + Len(s)
       /\ \A k \in 1 .. Len(g) :
            g[k] = IF k < i THEN h[k]
                   ELSE IF k < i + Len(s) THEN s[k - i + 1]
                   ELSE h[k - Len(s) + 1]
  BY <1>4, <1>7, <1>8
<1>. QED BY <1>9, <1>10 DEF HasInPlace

-----------------------------------------------------------------------------
(* A list keeps its elements: h[i] is a block, its neighbours are in order. *)
LEMMA ListedFacts ==
  ASSUME NEW o, NEW h, NEW t \in Nat, Listed(o, h, t)
  PROVE  /\ Len(h) \in Nat \ {0}
         /\ \A i \in 1 .. Len(h) :
              /\ h[i] \in Blocks /\ h[i].addr \in Nat /\ h[i].size \in Nat \ {0}
              /\ End(h[i]) \in Nat /\ h[i].addr + HdrUnits < End(h[i]) /\ End(h[i]) <= t
              /\ h[i].addr < End(h[i])
              /\ \A j \in 1 .. i - 1 : End(h[j]) <= h[i].addr
              /\ Start(h, t, i + 1) \in Nat /\ End(h[i]) <= Start(h, t, i + 1)
<1>1. h \in Seq(Blocks) /\ Len(h) \in Nat \ {0} /\ Chained(h, t) BY DEF Listed
<1>. SUFFICES ASSUME NEW i \in 1 .. Len(h)
              PROVE  /\ h[i] \in Blocks /\ h[i].addr \in Nat /\ h[i].size \in Nat \ {0}
                     /\ End(h[i]) \in Nat /\ h[i].addr + HdrUnits < End(h[i])
                     /\ h[i].addr < End(h[i])
                     /\ End(h[i]) <= t
                     /\ \A j \in 1 .. i - 1 : End(h[j]) <= h[i].addr
                     /\ Start(h, t, i + 1) \in Nat /\ End(h[i]) <= Start(h, t, i + 1)
  BY <1>1
<1>2. h[i] \in Blocks BY <1>1, ElementOfSeq, Zenon
<1>3. /\ h[i].addr \in Nat /\ h[i].size \in Nat \ {0}
      /\ End(h[i]) \in Nat /\ h[i].addr + HdrUnits < End(h[i]) /\ h[i].addr < End(h[i])
  BY <1>2, BlockFacts
<1>4. End(h[i]) <= t /\ \A j \in 1 .. i - 1 : End(h[j]) <= h[i].addr
  BY <1>1 DEF Chained
<1>5. Start(h, t, i + 1) \in Nat /\ End(h[i]) <= Start(h, t, i + 1)
  <2>1. CASE i = Len(h)
    <3>1. Start(h, t, i + 1) = t BY <1>1, <2>1 DEF Start
    <3>. QED BY <1>4, <3>1
  <2>2. CASE i # Len(h)
    <3>1. i + 1 \in 1 .. Len(h) /\ i \in 1 .. (i + 1) - 1 BY <1>1, <2>2
    <3>2. Start(h, t, i + 1) = h[i + 1].addr BY <3>1 DEF Start
    <3>3. h[i + 1].addr \in Nat
      <4>1. h[i + 1] \in Blocks BY <1>1, <3>1, ElementOfSeq, Zenon
      <4>. QED BY <4>1, BlockFacts
    <3>4. End(h[i]) <= h[i + 1].addr BY <1>1, <3>1 DEF Chained
    <3>. QED BY <3>2, <3>3, <3>4
  <2>. QED BY <2>1, <2>2
<1>. QED BY <1>2, <1>3, <1>4, <1>5

(* A list of which no block reaches over a foreign page leaves out nothing *)
(* but foreign pages.                                                      *)
LEMMA NothingLost ==
  ASSUME NEW o, NEW h, NEW t \in Nat, Listed(o, h, t),
         \A i \in 1 .. Len(h) : ~Reaches(o, h[i]),
         NEW u \in Nat, KernelPages * PageUnits <= u, u < t, PageOf(u) \notin o
  PROVE  \E i \in 1 .. Len(h) : h[i].addr <= u /\ u < End(h[i])
<1>. DEFINE A == {i \in 1 .. Len(h) : h[i].addr <= u}
<1>1. 1 \in A
  <2>1. 1 \in 1 .. Len(h) BY ListedFacts
  <2>. QED BY <2>1 DEF Listed
<1>2. \A i \in A : i <= Len(h) BY ListedFacts
<1>3. A \subseteq Nat /\ A # {} BY <1>1
<1>4. PICK i \in A : \A j \in A : j <= i
  <2>1. Len(h) \in Nat BY ListedFacts
  <2>. HIDE DEF A
  <2>. QED BY <1>2, <1>3, <2>1, NatHasGreatest
<1>5. i \in 1 .. Len(h) /\ h[i].addr <= u OBVIOUS
<1>6. u < Start(h, t, i + 1)
  <2>1. CASE i = Len(h) BY <1>5, <2>1, ListedFacts DEF Start
  <2>2. CASE i # Len(h)
    <3>1. i + 1 \in 1 .. Len(h) BY <1>5, <2>2, ListedFacts
    <3>2. i + 1 \notin A BY <1>4, <1>5
    <3>3. h[i + 1].addr \in Nat BY <3>1, ListedFacts
    <3>4. Start(h, t, i + 1) = h[i + 1].addr BY <3>1 DEF Start
    <3>. QED BY <3>1, <3>2, <3>3, <3>4
  <2>. QED BY <2>1, <2>2
<1>7. End(h[i]) \in Nat /\ Start(h, t, i + 1) \in Nat BY <1>5, ListedFacts
<1>8. GapForeign(o, h, t, i) BY <1>5 DEF Listed
<1>9. Foreign(o, End(h[i]), Start(h, t, i + 1)) BY <1>5, <1>8 DEF GapForeign
<1>10. ~(End(h[i]) <= u)
  <2>. SUFFICES ASSUME End(h[i]) <= u PROVE FALSE OBVIOUS
  <2>1. u \in End(h[i]) .. Start(h, t, i + 1) - 1 BY <1>6, <1>7
  <2>. QED BY <1>9, <2>1 DEF Foreign
<1>11. u < End(h[i]) BY <1>7, <1>10
<1>. QED BY <1>5, <1>11

(* The list of one page. *)
LEMMA FirstListed ==
  LET h == <<Block(KernelPages * PageUnits, PageUnits - HdrUnits, TRUE)>>
  IN  /\ Listed({}, h, (KernelPages + 1) * PageUnits)
      /\ FreeApart(h) /\ Taken(h) = {}
<1>. DEFINE a == KernelPages * PageUnits
            b == Block(a, PageUnits - HdrUnits, TRUE)
            t == (KernelPages + 1) * PageUnits
<1>1. a \in Nat /\ t = a + PageUnits /\ PageUnits - HdrUnits \in Nat \ {0}
  BY ConstantFacts, PagesGrow
<1>. HIDE DEF a, t
<1>2. b \in Blocks /\ b.addr = a /\ b.size = PageUnits - HdrUnits /\ b.free = TRUE
  BY <1>1, BlockBuilt
<1>. HIDE DEF b
<1>3. End(b) = t BY <1>1, <1>2, ConstantFacts DEF End
<1>. DEFINE h == <<b>>
<1>4. h \in Seq(Blocks) /\ Len(h) = 1 /\ h[1] = b BY <1>2
<1>. HIDE DEF h
<1>5. Chained(h, t) BY <1>1, <1>3, <1>4 DEF Chained
<1>6. GapForeign({}, h, t, 1)
  <2>1. Start(h, t, 2) = t BY <1>4 DEF Start
  <2>2. Foreign({}, t, t) BY <1>1, ConstantFacts DEF Foreign
  <2>. QED BY <1>3, <1>4, <2>1, <2>2 DEF GapForeign
<1>7. Listed({}, h, t) BY <1>2, <1>4, <1>5, <1>6 DEF Listed, a
<1>8. FreeApart(h) BY <1>4 DEF FreeApart
<1>9. Taken(h) = {} BY <1>2, <1>4 DEF Taken
<1>. QED BY <1>7, <1>8, <1>9 DEF h, b, a, t

-----------------------------------------------------------------------------
(* What a block covers is told by its address and its size. *)
LEMMA SameReach ==
  ASSUME NEW o, NEW b, NEW c, b.addr = c.addr, b.size = c.size
  PROVE  End(b) = End(c) /\ (Reaches(o, b) <=> Reaches(o, c))
<1>1. End(b) = End(c) BY DEF End
<1>. QED BY <1>1 DEF Reaches

(* Marking blocks free or taken leaves the list in order. *)
LEMMA SameShape ==
  ASSUME NEW o, NEW h, NEW t \in Nat, Listed(o, h, t),
         NEW g \in Seq(Blocks), Len(g) = Len(h),
         \A i \in 1 .. Len(h) : g[i].addr = h[i].addr /\ g[i].size = h[i].size
  PROVE  Listed(o, g, t) /\ \A i \in 1 .. Len(h) : End(g[i]) = End(h[i])
<1>1. \A i \in 1 .. Len(h) : End(g[i]) = End(h[i]) /\ (Reaches(o, g[i]) <=> Reaches(o, h[i]))
  BY SameReach
<1>2. Len(h) \in Nat \ {0} /\ 1 \in 1 .. Len(h) BY ListedFacts
<1>3. g[1].addr = KernelPages * PageUnits BY <1>2 DEF Listed
<1>4. Chained(g, t)
  <2>1. Chained(h, t) BY DEF Listed
  <2>2. ASSUME NEW i \in 1 .. Len(h)
        PROVE  End(g[i]) <= t /\ \A j \in 1 .. i - 1 : End(g[j]) <= g[i].addr
    <3>1. End(h[i]) <= t /\ \A j \in 1 .. i - 1 : End(h[j]) <= h[i].addr
      BY <2>1 DEF Chained
    <3>2. \A j \in 1 .. i - 1 : j \in 1 .. Len(h) BY <1>2
    <3>. QED BY <1>1, <3>1, <3>2
  <2>. QED BY <2>2 DEF Chained
<1>5. ASSUME NEW i \in 1 .. Len(h) PROVE GapForeign(o, g, t, i)
  <2>1. GapForeign(o, h, t, i) BY DEF Listed
  <2>2. Start(g, t, i + 1) = Start(h, t, i + 1)
    <3>1. i + 1 > Len(h) \/ i + 1 \in 1 .. Len(h) BY <1>2
    <3>. QED BY <3>1 DEF Start
  <2>3. \A j \in 1 .. i : j \in 1 .. Len(h) BY <1>2
  <2>. QED BY <1>1, <2>1, <2>2, <2>3 DEF GapForeign
<1>. QED BY <1>1, <1>2, <1>3, <1>4, <1>5 DEF Listed

(* The list g is the list h with the block A taken in it. *)
NowTaken(o, h, t, A, g) ==
  Listed(o, g, t) /\ FreeApart(g) /\ Taken(g) = Taken(h) \cup {A}

(* A block taken as a whole. *)
LEMMA TakenWhole ==
  ASSUME NEW o, NEW h, NEW t \in Nat, Listed(o, h, t), FreeApart(h),
         NEW i \in 1 .. Len(h), NEW A \in Blocks,
         A.addr = h[i].addr, A.size = h[i].size, A.free = FALSE, h[i].free = TRUE,
         NEW g \in Seq(Blocks), Len(g) = Len(h), g[i] = A,
         \A k \in 1 .. Len(h) : k # i => g[k] = h[k]
  PROVE  NowTaken(o, h, t, A, g)
<1>0. Len(h) \in Nat \ {0} BY ListedFacts
<1>1. Listed(o, g, t) /\ \A k \in 1 .. Len(h) : End(g[k]) = End(h[k]) BY SameShape
<1>2. FreeApart(g)
  <2>. SUFFICES ASSUME NEW k \in 1 .. Len(h) - 1, g[k].free, g[k + 1].free
                PROVE  End(g[k]) < g[k + 1].addr
    BY DEF FreeApart
  <2>1. k \in 1 .. Len(h) /\ k + 1 \in 1 .. Len(h) /\ k # i /\ k + 1 # i BY <1>0
  <2>. QED BY <2>1 DEF FreeApart
<1>3. Taken(g) \subseteq Taken(h) \cup {A} BY DEF Taken
<1>4. Taken(h) \cup {A} \subseteq Taken(g)
  <2>1. A \in Taken(g) BY DEF Taken
  <2>2. ASSUME NEW j \in 1 .. Len(h), ~h[j].free PROVE h[j] \in Taken(g)
    <3>1. j # i /\ g[j] = h[j] BY <2>2
    <3>. QED BY <2>2, <3>1 DEF Taken
  <2>. QED BY <2>1, <2>2 DEF Taken
<1>. QED BY <1>1, <1>2, <1>3, <1>4 DEF NowTaken

(* A block split in two: the first part taken, the second free. *)
LEMMA TakenSplit ==
  ASSUME NEW o, NEW h, NEW t \in Nat, Listed(o, h, t), FreeApart(h),
         NEW i \in 1 .. Len(h), NEW A \in Blocks, NEW B \in Blocks,
         A.addr = h[i].addr, End(A) = B.addr, End(B) = End(h[i]),
         A.free = FALSE, h[i].free = TRUE,
         NEW g \in Seq(Blocks), Len(g) = Len(h) + 1, g[i] = A, g[i + 1] = B, B.free = TRUE,
         \A k \in 1 .. i - 1 : g[k] = h[k],
         \A k \in i + 1 .. Len(h) : g[k + 1] = h[k]
  PROVE  NowTaken(o, h, t, A, g)
<1>0. Len(h) \in Nat \ {0} /\ i \in Nat /\ 1 <= i /\ i <= Len(h) BY ListedFacts
<1>1. /\ A.addr \in Nat /\ End(A) \in Nat /\ B.addr \in Nat /\ End(B) \in Nat
      /\ A.addr < End(A) /\ B.addr < End(B)
  BY BlockFacts
<1>2. \A k \in 1 .. Len(h) :
        /\ h[k].addr \in Nat /\ End(h[k]) \in Nat /\ End(h[k]) <= t /\ h[k].addr < End(h[k])
        /\ \A j \in 1 .. k - 1 : End(h[j]) <= h[k].addr
        /\ Start(h, t, k + 1) \in Nat /\ End(h[k]) <= Start(h, t, k + 1)
  BY ListedFacts
<1>3. \A k \in 1 .. Len(g) :
        \/ k < i /\ k \in 1 .. Len(h) /\ g[k] = h[k]
        \/ k = i \/ k = i + 1
        \/ k > i + 1 /\ k - 1 \in i + 1 .. Len(h) /\ g[k] = h[k - 1]
  <2>. SUFFICES ASSUME NEW k \in 1 .. Len(g), k > i + 1
                PROVE  k - 1 \in i + 1 .. Len(h) /\ g[k] = h[k - 1]
    BY <1>0
  <2>1. k - 1 \in i + 1 .. Len(h) /\ (k - 1) + 1 = k BY <1>0
  <2>2. g[(k - 1) + 1] = h[k - 1] BY <2>1
  <2>. QED BY <2>1, <2>2
<1>4. Chained(g, t)
  <2>. SUFFICES ASSUME NEW k \in 1 .. Len(g)
                PROVE  End(g[k]) <= t /\ \A j \in 1 .. k - 1 : End(g[j]) <= g[k].addr
    BY DEF Chained
  <2>1. CASE k < i
    <3>1. k \in 1 .. Len(h) /\ g[k] = h[k] /\ \A j \in 1 .. k - 1 : g[j] = h[j]
      BY <1>0, <2>1
    <3>. QED BY <1>2, <3>1
  <2>2. CASE k = i
    <3>1. \A j \in 1 .. i - 1 : End(g[j]) <= A.addr BY <1>0, <1>2
    <3>2. End(A) <= t BY <1>0, <1>1, <1>2
    <3>. QED BY <2>2, <3>1, <3>2
  <2>3. CASE k = i + 1
    <3>1. \A j \in 1 .. i - 1 : End(g[j]) <= A.addr /\ End(g[j]) \in Nat
      <4>. TAKE j \in 1 .. i - 1
      <4>1. j \in 1 .. Len(h) /\ g[j] = h[j] BY <1>0
      <4>. QED BY <1>0, <1>2, <4>1
    <3>2. \A j \in 1 .. i : End(g[j]) <= B.addr
      <4>. TAKE j \in 1 .. i
      <4>1. CASE j = i BY <1>1, <4>1
      <4>2. CASE j # i
        <5>1. j \in 1 .. i - 1 BY <1>0, <4>2
        <5>. QED BY <1>1, <3>1, <5>1
      <4>. QED BY <4>1, <4>2
    <3>3. End(B) <= t BY <1>0, <1>2
    <3>. QED BY <1>0, <2>3, <3>2, <3>3
  <2>4. CASE k > i + 1
    <3>1. PICK m \in i + 1 .. Len(h) : m = k - 1 /\ g[k] = h[m] BY <1>0, <1>3, <2>4
    <3>2. m \in 1 .. Len(h) /\ i \in 1 .. m - 1 /\ m - 1 \in Nat /\ k = m + 1 BY <1>0, <3>1
    <3>3. End(h[i]) <= h[m].addr BY <1>2, <3>2
    <3>4. \A j \in 1 .. k - 1 : End(g[j]) <= h[m].addr
      <4>. TAKE j \in 1 .. k - 1
      <4>0. j \in 1 .. Len(g) BY <1>0, <3>1
      <4>1. CASE j < i
        <5>1. j \in 1 .. i - 1 /\ j \in 1 .. m - 1 BY <1>0, <3>1, <4>1
        <5>2. g[j] = h[j] BY <5>1
        <5>. QED BY <1>2, <3>2, <5>1, <5>2
      <4>2. CASE j = i
        <5>1. h[m].addr \in Nat /\ End(h[i]) \in Nat BY <1>0, <1>2, <3>2
        <5>2. End(A) < End(B) /\ End(B) <= h[m].addr BY <1>1, <3>3
        <5>3. End(A) <= h[m].addr BY <1>1, <5>1, <5>2
        <5>. QED BY <4>2, <5>3
      <4>3. CASE j = i + 1 BY <3>3, <4>3
      <4>4. CASE j > i + 1
        <5>1. g[j] = h[j - 1] /\ j - 1 \in 1 .. m - 1 BY <1>0, <1>3, <3>1, <4>0, <4>4
        <5>. QED BY <1>2, <3>2, <5>1
      <4>. QED BY <1>0, <4>1, <4>2, <4>3, <4>4
    <3>. QED BY <1>2, <3>1, <3>2, <3>4
  <2>. QED BY <1>0, <2>1, <2>2, <2>3, <2>4
<1>5. \A j \in 1 .. i : Reaches(o, h[j]) => \E l \in 1 .. i + 1 : Reaches(o, g[l])
  <2>. SUFFICES ASSUME NEW j \in 1 .. i, Reaches(o, h[j])
                PROVE  \E l \in 1 .. i + 1 : Reaches(o, g[l])
    OBVIOUS
  <2>1. CASE j < i
    <3>1. g[j] = h[j] /\ j \in 1 .. i + 1 BY <1>0, <2>1
    <3>. QED BY <3>1
  <2>2. CASE j = i
    <3>1. PICK u \in h[i].addr .. End(h[i]) - 1 : PageOf(u) \in o BY <2>2 DEF Reaches
    <3>2. h[i].addr \in Int /\ End(h[i]) \in Int BY <1>2
    <3>3. u \in A.addr .. End(A) - 1 \/ u \in B.addr .. End(B) - 1 BY <1>1, <3>2
    <3>4. Reaches(o, A) \/ Reaches(o, B) BY <3>1, <3>3 DEF Reaches
    <3>5. i \in 1 .. i + 1 /\ i + 1 \in 1 .. i + 1 BY <1>0
    <3>. QED BY <3>4, <3>5
  <2>. QED BY <1>0, <2>1, <2>2
<1>6. ASSUME NEW k \in 1 .. Len(g) PROVE GapForeign(o, g, t, k)
  <2>1. CASE k < i
    <3>1. k \in 1 .. Len(h) /\ g[k] = h[k] /\ \A j \in 1 .. k : g[j] = h[j]
      <4>1. k \in 1 .. Len(h) /\ k \in 1 .. i - 1 BY <1>0, <2>1
      <4>2. \A j \in 1 .. k : j \in 1 .. i - 1 BY <1>0, <2>1
      <4>3. \A j \in 1 .. i - 1 : g[j] = h[j] OBVIOUS
      <4>. QED BY <4>1, <4>2, <4>3
    <3>2. GapForeign(o, h, t, k) BY <3>1 DEF Listed
    <3>3. Start(g, t, k + 1) = Start(h, t, k + 1)
      <4>1. ~(k + 1 > Len(g)) /\ ~(k + 1 > Len(h)) BY <1>0, <2>1
      <4>2. k + 1 = i \/ k + 1 \in 1 .. i - 1 BY <1>0, <2>1
      <4>3. g[k + 1].addr = h[k + 1].addr BY <4>2
      <4>. QED BY <4>1, <4>3 DEF Start
    <3>. QED BY <3>1, <3>2, <3>3 DEF GapForeign
  <2>2. CASE k = i
    <3>1. Start(g, t, i + 1) = B.addr BY <1>0 DEF Start
    <3>2. Foreign(o, End(A), B.addr) BY <1>1 DEF Foreign
    <3>. QED BY <2>2, <3>1, <3>2 DEF GapForeign
  <2>3. CASE k = i + 1
    <3>1. GapForeign(o, h, t, i) BY DEF Listed
    <3>2. Start(g, t, (i + 1) + 1) = Start(h, t, i + 1)
      <4>1. CASE i = Len(h) BY <1>0, <4>1 DEF Start
      <4>2. CASE i # Len(h)
        <5>1. i + 1 \in i + 1 .. Len(h) BY <1>0, <4>2
        <5>2. g[(i + 1) + 1] = h[i + 1] BY <5>1
        <5>. QED BY <1>0, <5>1, <5>2 DEF Start
      <4>. QED BY <4>1, <4>2
    <3>. QED BY <1>5, <2>3, <3>1, <3>2 DEF GapForeign
  <2>4. CASE k > i + 1
    <3>1. PICK m \in i + 1 .. Len(h) : m = k - 1 /\ g[k] = h[m] BY <1>0, <1>3, <2>4
    <3>2. m \in 1 .. Len(h) /\ k = m + 1 BY <1>0, <3>1
    <3>3. GapForeign(o, h, t, m) BY <3>2 DEF Listed
    <3>4. Start(g, t, k + 1) = Start(h, t, m + 1)
      <4>1. CASE m = Len(h) BY <1>0, <3>2, <4>1 DEF Start
      <4>2. CASE m # Len(h)
        <5>1. m + 1 \in i + 1 .. Len(h) BY <1>0, <3>1, <4>2
        <5>2. g[(m + 1) + 1] = h[m + 1] BY <5>1
        <5>. QED BY <1>0, <3>2, <5>1, <5>2 DEF Start
      <4>. QED BY <4>1, <4>2
    <3>5. ASSUME NEW j \in 1 .. m, Reaches(o, h[j]) PROVE \E l \in 1 .. k : Reaches(o, g[l])
      <4>1. CASE j <= i
        <5>1. PICK l \in 1 .. i + 1 : Reaches(o, g[l]) BY <1>5, <3>5, <4>1
        <5>2. l \in 1 .. k BY <1>0, <2>4
        <5>. QED BY <5>1, <5>2
      <4>2. CASE j > i
        <5>1. j \in i + 1 .. Len(h) /\ j + 1 \in 1 .. k BY <1>0, <3>2, <4>2
        <5>. QED BY <3>5, <5>1
      <4>. QED BY <1>0, <4>1, <4>2
    <3>. QED BY <3>1, <3>3, <3>4, <3>5 DEF GapForeign
  <2>. QED BY <1>0, <2>1, <2>2, <2>3, <2>4
<1>7. g[1].addr = KernelPages * PageUnits
  <2>1. h[1].addr = KernelPages * PageUnits BY DEF Listed
  <2>2. CASE i = 1 BY <2>1, <2>2
  <2>3. CASE i # 1
    <3>1. 1 \in 1 .. i - 1 BY <1>0, <2>3
    <3>. QED BY <2>1, <3>1
  <2>. QED BY <2>2, <2>3
<1>8. Listed(o, g, t) BY <1>0, <1>4, <1>6, <1>7 DEF Listed
<1>9. FreeApart(g)
  <2>. SUFFICES ASSUME NEW k \in 1 .. Len(g) - 1, g[k].free, g[k + 1].free
                PROVE  End(g[k]) < g[k + 1].addr
    BY DEF FreeApart
  <2>1. k # i /\ k + 1 # i OBVIOUS
  <2>2. CASE k < i
    <3>1. k \in 1 .. i - 1 /\ k + 1 \in 1 .. i - 1 /\ k \in 1 .. Len(h) - 1 BY <1>0, <2>1, <2>2
    <3>2. g[k] = h[k] /\ g[k + 1] = h[k + 1] BY <3>1
    <3>. QED BY <3>1, <3>2 DEF FreeApart
  <2>3. CASE k = i + 1
    <3>1. i + 1 \in i + 1 .. Len(h) /\ i \in 1 .. Len(h) - 1 BY <1>0, <2>3
    <3>2. g[k + 1] = h[i + 1] BY <2>3, <3>1
    <3>3. End(h[i]) < h[i + 1].addr BY <3>1, <3>2 DEF FreeApart
    <3>. QED BY <2>3, <3>2, <3>3
  <2>4. CASE k > i + 1
    <3>1. PICK m \in Nat : m = k - 1 BY <1>0, <2>4
    <3>2. m \in i + 1 .. Len(h) /\ m + 1 \in i + 1 .. Len(h) /\ m \in 1 .. Len(h) - 1 /\ k = m + 1
      BY <1>0, <2>4, <3>1
    <3>3. g[k] = h[m] /\ g[k + 1] = h[m + 1] BY <3>2
    <3>. QED BY <3>2, <3>3 DEF FreeApart
  <2>. QED BY <1>0, <2>1, <2>2, <2>3, <2>4
<1>10. Taken(g) \subseteq Taken(h) \cup {A}
  <2>. SUFFICES ASSUME NEW k \in 1 .. Len(g), ~g[k].free PROVE g[k] \in Taken(h) \cup {A}
    BY DEF Taken
  <2>1. CASE k < i BY <1>0, <1>3, <2>1 DEF Taken
  <2>2. CASE k > i + 1
    <3>1. k - 1 \in 1 .. Len(h) /\ g[k] = h[k - 1] BY <1>0, <1>3, <2>2
    <3>. QED BY <3>1 DEF Taken
  <2>3. CASE k = i BY <2>3
  <2>4. CASE k = i + 1 BY <2>4
  <2>. QED BY <1>0, <2>1, <2>2, <2>3, <2>4
<1>11. Taken(h) \cup {A} \subseteq Taken(g)
  <2>1. A \in Taken(g)
    <3>1. i \in 1 .. Len(g) BY <1>0
    <3>. QED BY <3>1 DEF Taken
  <2>2. ASSUME NEW j \in 1 .. Len(h), ~h[j].free PROVE h[j] \in Taken(g)
    <3>1. CASE j < i
      <4>1. j \in 1 .. Len(g) /\ g[j] = h[j] BY <1>0, <3>1
      <4>. QED BY <2>2, <4>1 DEF Taken
    <3>2. CASE j > i
      <4>1. j + 1 \in 1 .. Len(g) /\ g[j + 1] = h[j] BY <1>0, <3>2
      <4>. QED BY <2>2, <4>1 DEF Taken
    <3>. QED BY <1>0, <2>2, <3>1, <3>2
  <2>. QED BY <2>1, <2>2 DEF Taken
<1>. QED BY <1>8, <1>9, <1>10, <1>11 DEF NowTaken

-----------------------------------------------------------------------------
(* No block of the list that is free is followed by another. *)
NoFreePair(h) == \A i \in 1 .. Len(h) - 1 : ~(h[i].free /\ h[i + 1].free)

Over(o, h) == \E k \in 1 .. Len(h) : Reaches(o, h[k])

Merged(d, n, b) == [d EXCEPT ![n].size = @ + HdrUnits + b.size]

MergedInto(o, d, n, b, t, g) ==
  /\ Listed(o, g, t) /\ Len(g) = n /\ g[n].free = TRUE
  /\ \A k \in 1 .. n - 1 : g[k] = d[k]
  /\ Taken(g) = Taken(d)
  /\ Over(o, d) \/ Reaches(o, b) => Over(o, g)

AppendedTo(o, d, n, b, t, g) ==
  /\ Listed(o, g, t) /\ Len(g) = n + 1 /\ g[n + 1] = b
  /\ \A k \in 1 .. n : g[k] = d[k]
  /\ Taken(g) = Taken(d) \cup {c \in {b} : ~c.free}
  /\ Over(o, d) \/ Reaches(o, b) => Over(o, g)

(* The next block of the list, b, joins the last one of d: the result ends *)
(* where b does, or before it and over what lay between them.              *)
LEMMA MergedLast ==
  ASSUME NEW o, NEW d, NEW b \in Blocks, Listed(o, d, b.addr), NEW t \in Nat, End(b) <= t,
         Foreign(o, End(b), t) \/ Over(o, d) \/ Reaches(o, b),
         NEW n, n = Len(d), d[n].free, b.free, NEW g, g = Merged(d, n, b)
  PROVE  MergedInto(o, d, n, b, t, g)
<1>. DEFINE m == [d[n] EXCEPT !.size = @ + HdrUnits + b.size]
<1>0. b.addr \in Nat /\ b.size \in Nat \ {0} /\ End(b) \in Nat /\ b.addr < End(b)
      /\ End(b) = b.addr + HdrUnits + b.size
  BY BlockFacts
<1>1. n \in Nat \ {0} /\ n \in 1 .. n BY <1>0, ListedFacts
<1>2. \A k \in 1 .. n :
        /\ d[k] \in Blocks /\ d[k].addr \in Nat /\ d[k].size \in Nat \ {0}
        /\ End(d[k]) \in Nat /\ d[k].addr < End(d[k]) /\ End(d[k]) <= b.addr
        /\ End(d[k]) = d[k].addr + HdrUnits + d[k].size
        /\ \A j \in 1 .. k - 1 : End(d[j]) <= d[k].addr
  BY <1>0, ListedFacts DEF End
<1>3. d \in Seq(Blocks) BY DEF Listed
<1>4. /\ m \in Blocks /\ m.addr = d[n].addr /\ m.free = d[n].free
      /\ m.size = d[n].size + HdrUnits + b.size
  <2>1. d[n].size + HdrUnits + b.size \in Nat \ {0}
    <3>1. \A x, y, z \in Nat \ {0} : x + y + z \in Nat \ {0} OBVIOUS
    <3>2. d[n].size \in Nat \ {0} BY <1>1, <1>2
    <3>. QED BY <1>0, <3>1, <3>2, ConstantFacts
  <2>2. d[n] \in Blocks BY <1>1, <1>2
  <2>. QED BY <2>1, <2>2 DEF Blocks
<1>5. d[n].free = TRUE BY <1>1, <1>2 DEF Blocks
<1>6. g = [d EXCEPT ![n] = m] BY DEF Merged
<1>. HIDE DEF m
<1>7. g \in Seq(Blocks) /\ Len(g) = n /\ g[n] = m /\ \A k \in 1 .. n - 1 : g[k] = d[k]
  <2>0. n \in 1 .. Len(d) BY <1>1
  <2>1. /\ [d EXCEPT ![n] = m] \in Seq(Blocks)
        /\ Len([d EXCEPT ![n] = m]) = Len(d)
    BY <1>3, <1>4, <2>0, ExceptSeq
  <2>2. DOMAIN d = 1 .. n BY <1>3, LenProperties, Zenon
  <2>3. \A k \in 1 .. n - 1 : k # n /\ k \in 1 .. n BY <1>1
  <2>. QED BY <1>1, <1>6, <2>1, <2>2, <2>3
<1>8. /\ End(m) \in Nat /\ m.addr \in Nat /\ End(m) = End(d[n]) + HdrUnits + b.size
      /\ End(d[n]) < End(m) /\ End(m) <= End(b) /\ m.addr < End(m)
      /\ End(d[n]) = b.addr => End(m) = End(b)
  <2>1. End(m) = m.addr + HdrUnits + m.size BY DEF End
  <2>2. d[n] \in Blocks /\ End(d[n]) <= b.addr BY <1>1, <1>2
  <2>3. PICK x \in Nat, y \in Nat, e \in Nat : x = d[n].addr /\ y = d[n].size /\ e = End(d[n])
    BY <2>2, BlockFacts
  <2>4. e = x + HdrUnits + y BY <2>3 DEF End
  <2>5. PICK a \in Nat, z \in Nat, c \in Nat : a = b.addr /\ z = b.size /\ c = End(b)
    BY <1>0
  <2>6. c = a + HdrUnits + z /\ e <= a BY <1>0, <2>2, <2>3, <2>5
  <2>7. HdrUnits \in Nat /\ HdrUnits > 0 BY ConstantFacts
  <2>8. m.addr = x /\ m.size = y + HdrUnits + z BY <1>4, <2>3, <2>5
  <2>9. PICK r \in Nat : r = End(m) /\ r = e + HdrUnits + z
    <3>1. End(m) = x + HdrUnits + (y + HdrUnits + z) BY <2>1, <2>8
    <3>2. x + HdrUnits + (y + HdrUnits + z) = e + HdrUnits + z BY <2>4, <2>7
    <3>3. e + HdrUnits + z \in Nat BY <2>7
    <3>. QED BY <3>1, <3>2, <3>3
  <2>10. e < r /\ r <= c /\ x < r /\ (e = a => r = c) BY <2>4, <2>6, <2>7, <2>9
  <2>. QED BY <2>3, <2>5, <2>8, <2>9, <2>10
<1>9. Reaches(o, d[n]) => Reaches(o, m)
  <2>. SUFFICES ASSUME Reaches(o, d[n]) PROVE Reaches(o, m) OBVIOUS
  <2>1. PICK u \in d[n].addr .. End(d[n]) - 1 : PageOf(u) \in o BY DEF Reaches
  <2>2. u \in m.addr .. End(m) - 1 BY <1>1, <1>2, <1>4, <1>8
  <2>. QED BY <2>1, <2>2 DEF Reaches
<1>10. ASSUME NEW j \in 1 .. n, Reaches(o, d[j]) PROVE Reaches(o, g[j])
  <2>1. CASE j = n BY <1>7, <1>9, <1>10, <2>1
  <2>2. CASE j # n
    <3>1. j \in 1 .. n - 1 BY <1>1, <2>2
    <3>. QED BY <1>7, <1>10, <3>1
  <2>. QED BY <2>1, <2>2
<1>11. Over(o, d) => Over(o, g) BY <1>7, <1>10 DEF Over
<1>12. End(d[n]) = b.addr \/ Over(o, g)
  <2>1. GapForeign(o, d, b.addr, n) BY <1>1 DEF Listed
  <2>2. Start(d, b.addr, n + 1) = b.addr BY <1>1 DEF Start
  <2>3. CASE \E j \in 1 .. n : Reaches(o, d[j]) BY <1>11, <2>3 DEF Over
  <2>4. CASE Foreign(o, End(d[n]), b.addr) /\ End(d[n]) < b.addr
    <3>1. End(d[n]) \in End(d[n]) .. b.addr - 1 BY <1>0, <1>1, <1>2, <2>4
    <3>2. PageOf(End(d[n])) \in o BY <2>4, <3>1 DEF Foreign
    <3>3. End(d[n]) \in m.addr .. End(m) - 1 BY <1>1, <1>2, <1>4, <1>8
    <3>4. Reaches(o, g[n]) BY <1>7, <3>2, <3>3 DEF Reaches
    <3>. QED BY <1>1, <1>7, <3>4 DEF Over
  <2>5. End(d[n]) = b.addr \/ End(d[n]) < b.addr BY <1>0, <1>1, <1>2
  <2>. QED BY <2>1, <2>2, <2>3, <2>4, <2>5 DEF GapForeign
<1>13. Over(o, d) \/ Reaches(o, b) => Over(o, g)
  <2>. SUFFICES ASSUME Reaches(o, b), End(d[n]) = b.addr PROVE Over(o, g)
    BY <1>11, <1>12
  <2>1. PICK u \in b.addr .. End(b) - 1 : PageOf(u) \in o BY DEF Reaches
  <2>2. u \in m.addr .. End(m) - 1
    <3>1. m.addr <= b.addr /\ End(m) = End(b) BY <1>0, <1>1, <1>2, <1>4, <1>8
    <3>. QED BY <1>0, <1>8, <3>1
  <2>3. Reaches(o, g[n]) BY <1>7, <2>1, <2>2 DEF Reaches
  <2>. QED BY <1>1, <1>7, <2>3 DEF Over
<1>14. Chained(g, t)
  <2>. SUFFICES ASSUME NEW k \in 1 .. n
                PROVE  End(g[k]) <= t /\ \A j \in 1 .. k - 1 : End(g[j]) <= g[k].addr
    BY <1>7 DEF Chained
  <2>1. \A j \in 1 .. k - 1 : g[j] = d[j] BY <1>1, <1>7
  <2>2. g[k].addr = d[k].addr
    <3>1. CASE k = n BY <1>4, <1>7, <3>1
    <3>2. CASE k # n
      <4>1. k \in 1 .. n - 1 BY <1>1, <3>2
      <4>. QED BY <1>7, <4>1
    <3>. QED BY <3>1, <3>2
  <2>3. End(g[k]) <= t
    <3>1. CASE k = n BY <1>0, <1>7, <1>8, <3>1
    <3>2. CASE k # n
      <4>1. k \in 1 .. n - 1 BY <1>1, <3>2
      <4>. QED BY <1>0, <1>2, <1>7, <4>1
    <3>. QED BY <3>1, <3>2
  <2>. QED BY <1>2, <2>1, <2>2, <2>3
<1>15. ASSUME NEW k \in 1 .. n PROVE GapForeign(o, g, t, k)
  <2>1. CASE k = n
    <3>1. Start(g, t, n + 1) = t BY <1>1, <1>7 DEF Start
    <3>2. CASE Over(o, g) BY <1>7, <2>1, <3>2 DEF Over, GapForeign
    <3>3. CASE ~Over(o, g)
      <4>1. End(d[n]) = b.addr /\ Foreign(o, End(b), t) BY <1>12, <1>13, <3>3
      <4>2. Foreign(o, End(g[n]), t) BY <1>7, <1>8, <4>1
      <4>. QED BY <2>1, <3>1, <4>2 DEF GapForeign
    <3>. QED BY <3>2, <3>3
  <2>2. CASE k # n
    <3>1. k \in 1 .. n - 1 /\ k + 1 \in 1 .. n BY <1>1, <2>2
    <3>2. GapForeign(o, d, b.addr, k) BY DEF Listed
    <3>3. Start(g, t, k + 1) = Start(d, b.addr, k + 1)
      <4>1. g[k + 1].addr = d[k + 1].addr
        <5>1. CASE k + 1 = n BY <1>4, <1>7, <5>1
        <5>2. CASE k + 1 # n
          <6>1. k + 1 \in 1 .. n - 1 BY <1>1, <3>1, <5>2
          <6>. QED BY <1>7, <6>1
        <5>. QED BY <5>1, <5>2
      <4>2. ~(k + 1 > n) BY <3>1
      <4>. QED BY <1>7, <4>1, <4>2 DEF Start
    <3>4. \A j \in 1 .. k : j \in 1 .. n BY <1>1
    <3>5. g[k] = d[k] BY <1>7, <3>1
    <3>. QED BY <1>10, <3>2, <3>3, <3>4, <3>5 DEF GapForeign
  <2>. QED BY <2>1, <2>2
<1>16. g[1].addr = KernelPages * PageUnits
  <2>1. d[1].addr = KernelPages * PageUnits BY DEF Listed
  <2>2. CASE n = 1 BY <1>4, <1>7, <2>1, <2>2
  <2>3. CASE n # 1
    <3>1. 1 \in 1 .. n - 1 BY <1>1, <2>3
    <3>. QED BY <1>7, <2>1, <3>1
  <2>. QED BY <2>2, <2>3
<1>17. Listed(o, g, t) BY <1>1, <1>7, <1>14, <1>15, <1>16 DEF Listed
<1>18. Taken(g) = Taken(d)
  <2>1. ASSUME NEW k \in 1 .. n PROVE /\ ~g[k].free <=> ~d[k].free
                                      /\ ~g[k].free => g[k] = d[k]
    <3>1. CASE k = n BY <1>4, <1>5, <1>7, <3>1
    <3>2. CASE k # n
      <4>1. k \in 1 .. n - 1 BY <1>1, <3>2
      <4>. QED BY <1>7, <4>1
    <3>. QED BY <3>1, <3>2
  <2>. QED BY <1>7, <2>1 DEF Taken
<1>. QED BY <1>4, <1>5, <1>7, <1>13, <1>17, <1>18 DEF MergedInto

(* The next block of the list, b, is put at the end of d. *)
LEMMA AppendedLast ==
  ASSUME NEW o, NEW d, NEW b \in Blocks, Listed(o, d, b.addr), NEW t \in Nat, End(b) <= t,
         Foreign(o, End(b), t) \/ Over(o, d) \/ Reaches(o, b),
         NEW n, n = Len(d), NEW g, g = Append(d, b)
  PROVE  AppendedTo(o, d, n, b, t, g)
<1>0. b.addr \in Nat /\ End(b) \in Nat /\ b.addr < End(b) BY BlockFacts
<1>1. n \in Nat \ {0} /\ n \in 1 .. n BY <1>0, ListedFacts
<1>2. \A k \in 1 .. n :
        /\ d[k].addr \in Nat /\ End(d[k]) \in Nat /\ End(d[k]) <= b.addr
        /\ \A j \in 1 .. k - 1 : End(d[j]) <= d[k].addr
  BY <1>0, ListedFacts
<1>3. d \in Seq(Blocks) BY DEF Listed
<1>4. g \in Seq(Blocks)
  <2>1. Append(d, b) \in Seq(Blocks) BY <1>3, AppendProperties, Zenon
  <2>. QED BY <2>1
<1>5. Len(g) = n + 1 /\ g[n + 1] = b /\ \A k \in 1 .. n : g[k] = d[k]
  BY <1>3, AppendProperties
<1>6. \A k \in 1 .. n + 1 : k = n + 1 \/ k \in 1 .. n BY <1>1
<1>7. Chained(g, t)
  <2>. SUFFICES ASSUME NEW k \in 1 .. n + 1
                PROVE  End(g[k]) <= t /\ \A j \in 1 .. k - 1 : End(g[j]) <= g[k].addr
    BY <1>5 DEF Chained
  <2>1. \A j \in 1 .. k - 1 : g[j] = d[j] /\ j \in 1 .. n BY <1>1, <1>5
  <2>2. CASE k = n + 1
    <3>1. \A j \in 1 .. n : End(g[j]) <= b.addr BY <1>2, <1>5
    <3>. QED BY <1>5, <2>1, <2>2, <3>1
  <2>3. CASE k \in 1 .. n BY <1>0, <1>2, <1>5, <2>1, <2>3
  <2>. QED BY <1>6, <2>2, <2>3
<1>8. Over(o, d) \/ Reaches(o, b) => Over(o, g)
  <2>1. n + 1 \in 1 .. Len(g) /\ \A k \in 1 .. n : k \in 1 .. Len(g) BY <1>1, <1>5
  <2>. QED BY <1>5, <2>1 DEF Over
<1>9. ASSUME NEW k \in 1 .. n + 1 PROVE GapForeign(o, g, t, k)
  <2>1. CASE k = n + 1
    <3>1. Start(g, t, k + 1) = t BY <1>1, <1>5, <2>1 DEF Start
    <3>2. CASE Over(o, g) BY <1>5, <2>1, <3>2 DEF Over, GapForeign
    <3>3. CASE ~Over(o, g) BY <1>5, <1>8, <2>1, <3>1, <3>3 DEF GapForeign
    <3>. QED BY <3>2, <3>3
  <2>2. CASE k \in 1 .. n
    <3>1. GapForeign(o, d, b.addr, k) BY <2>2 DEF Listed
    <3>2. Start(g, t, k + 1) = Start(d, b.addr, k + 1)
      <4>1. CASE k = n BY <1>1, <1>5, <4>1 DEF Start
      <4>2. CASE k # n
        <5>1. k + 1 \in 1 .. n /\ ~(k + 1 > n) /\ ~(k + 1 > n + 1) BY <1>1, <2>2, <4>2
        <5>. QED BY <1>5, <5>1 DEF Start
      <4>. QED BY <4>1, <4>2
    <3>3. \A j \in 1 .. k : g[j] = d[j] BY <1>1, <1>5, <2>2
    <3>4. g[k] = d[k] BY <1>5, <2>2
    <3>. QED BY <3>1, <3>2, <3>3, <3>4 DEF GapForeign
  <2>. QED BY <1>6, <2>1, <2>2
<1>10. g[1].addr = KernelPages * PageUnits
  <2>1. 1 \in 1 .. n BY <1>1
  <2>. QED BY <1>5, <2>1 DEF Listed
<1>11. Listed(o, g, t) BY <1>1, <1>5, <1>7, <1>9, <1>10 DEF Listed
<1>12. Taken(g) = Taken(d) \cup {c \in {b} : ~c.free}
  <2>1. ASSUME NEW k \in 1 .. n + 1, ~g[k].free
        PROVE  g[k] \in Taken(d) \cup {c \in {b} : ~c.free}
    <3>1. CASE k = n + 1 BY <1>5, <2>1, <3>1
    <3>2. CASE k \in 1 .. n BY <1>5, <2>1, <3>2 DEF Taken
    <3>. QED BY <1>6, <3>1, <3>2
  <2>2. ASSUME NEW k \in 1 .. n, ~d[k].free PROVE d[k] \in Taken(g)
    <3>1. k \in 1 .. Len(g) /\ g[k] = d[k] BY <1>1, <1>5
    <3>. QED BY <2>2, <3>1 DEF Taken
  <2>3. ~b.free => b \in Taken(g)
    <3>1. n + 1 \in 1 .. Len(g) BY <1>1, <1>5
    <3>. QED BY <1>5, <3>1 DEF Taken
  <2>. QED BY <1>5, <2>1, <2>2, <2>3 DEF Taken
<1>. QED BY <1>5, <1>8, <1>11, <1>12 DEF AppendedTo

-----------------------------------------------------------------------------
(* kfree's walk adds the block b to what it has kept of the list, d. *)
LEMMA JoinedListed ==
  ASSUME NEW o, NEW d, NEW b \in Blocks, Listed(o, d, b.addr), NEW t \in Nat, End(b) <= t,
         Foreign(o, End(b), t) \/ Over(o, d) \/ Reaches(o, b), NoFreePair(d)
  PROVE  /\ Listed(o, Joined(d, b), t) /\ NoFreePair(Joined(d, b))
         /\ Taken(Joined(d, b)) = Taken(d) \cup {c \in {b} : ~c.free}
         /\ Over(o, d) \/ Reaches(o, b) => Over(o, Joined(d, b))
<1>0. b.addr \in Nat BY BlockFacts
<1>1. PICK n \in Nat \ {0} : n = Len(d) BY <1>0, ListedFacts
<1>2. CASE d[n].free /\ b.free
  <2>0. PICK g : g = Merged(d, n, b) OBVIOUS
  <2>1. Joined(d, b) = g BY <1>1, <1>2, <2>0 DEF Joined, Merged
  <2>2. /\ Listed(o, g, t) /\ Len(g) = n
        /\ \A k \in 1 .. n - 1 : g[k] = d[k]
        /\ g[n].free = TRUE
        /\ Taken(g) = Taken(d)
        /\ Over(o, d) \/ Reaches(o, b) => Over(o, g)
    <3>1. MergedInto(o, d, n, b, t, g) BY <1>1, <1>2, <2>0, MergedLast
    <3>. QED BY <3>1 DEF MergedInto
  <2>3. ASSUME NEW k \in 1 .. n - 1 PROVE ~(g[k].free /\ g[k + 1].free)
    <3>1. ~(d[k].free /\ d[k + 1].free) BY <1>1 DEF NoFreePair
    <3>2. CASE k = n - 1
      <4>1. k + 1 = n BY <1>1, <3>2
      <4>. QED BY <1>2, <2>2, <3>1, <4>1
    <3>3. CASE k # n - 1
      <4>1. k + 1 \in 1 .. n - 1 BY <1>1, <3>3
      <4>. QED BY <2>2, <3>1, <4>1
    <3>. QED BY <3>2, <3>3
  <2>4. NoFreePair(g) BY <1>1, <2>2, <2>3 DEF NoFreePair
  <2>. QED BY <1>2, <2>1, <2>2, <2>4
<1>3. CASE ~(d[n].free /\ b.free)
  <2>0. PICK g : g = Append(d, b) OBVIOUS
  <2>1. Joined(d, b) = g BY <1>1, <1>3, <2>0 DEF Joined
  <2>2. /\ Listed(o, g, t) /\ Len(g) = n + 1
        /\ g[n + 1] = b /\ \A k \in 1 .. n : g[k] = d[k]
        /\ Taken(g) = Taken(d) \cup {c \in {b} : ~c.free}
        /\ Over(o, d) \/ Reaches(o, b) => Over(o, g)
    <3>1. AppendedTo(o, d, n, b, t, g) BY <1>1, <2>0, AppendedLast
    <3>. QED BY <3>1 DEF AppendedTo
  <2>3. ASSUME NEW k \in 1 .. n PROVE ~(g[k].free /\ g[k + 1].free)
    <3>1. CASE k = n BY <1>3, <2>2, <3>1
    <3>2. CASE k # n
      <4>1. k \in 1 .. n - 1 /\ k + 1 \in 1 .. n BY <1>1, <3>2
      <4>. QED BY <1>1, <2>2, <4>1 DEF NoFreePair
    <3>. QED BY <3>1, <3>2
  <2>4. NoFreePair(g) BY <1>1, <2>2, <2>3 DEF NoFreePair
  <2>. QED BY <2>1, <2>2, <2>4
<1>. QED BY <1>2, <1>3

Kept(list, f) ==
  f = [n \in 0 .. Len(list) |-> IF n = 0 THEN <<>> ELSE Joined(f[n - 1], list[n])]

(* The recursion of Coalesced has a solution. *)
LEMMA KeptExists ==
  ASSUME NEW list, Len(list) \in Nat
  PROVE  \E f : Kept(list, f)
<1>. DEFINE Part(N, f) ==
              f = [n \in 0 .. N |-> IF n = 0 THEN <<>> ELSE Joined(f[n - 1], list[n])]
            G == {N \in Nat : \E f : Part(N, f)}
<1>1. 0 \in G
  <2>1. Part(0, [n \in 0 .. 0 |-> <<>>]) OBVIOUS
  <2>. QED BY <2>1
<1>2. ASSUME NEW N \in Nat, N \in G PROVE N + 1 \in G
  <2>1. PICK f : Part(N, f) BY <1>2
  <2>. DEFINE g == [n \in 0 .. N + 1 |->
                      IF n = N + 1 THEN Joined(f[N], list[N + 1]) ELSE f[n]]
  <2>2. \A n \in 0 .. N : g[n] = f[n] OBVIOUS
  <2>3. \A n \in 0 .. N + 1 :
          g[n] = IF n = 0 THEN <<>> ELSE Joined(g[n - 1], list[n])
    <3>. SUFFICES ASSUME NEW n \in 0 .. N + 1
                  PROVE  g[n] = IF n = 0 THEN <<>> ELSE Joined(g[n - 1], list[n])
      OBVIOUS
    <3>1. CASE n = N + 1 BY <2>2, <3>1
    <3>2. CASE n # N + 1
      <4>1. n \in 0 .. N /\ g[n] = f[n] BY <2>2, <3>2
      <4>2. f[n] = IF n = 0 THEN <<>> ELSE Joined(f[n - 1], list[n]) BY <2>1, <4>1
      <4>3. n # 0 => g[n - 1] = f[n - 1] BY <2>2, <4>1
      <4>. QED BY <4>1, <4>2, <4>3
    <3>. QED BY <3>1, <3>2
  <2>4. g = [n \in 0 .. N + 1 |-> g[n]] OBVIOUS
  <2>. HIDE DEF g
  <2>5. Part(N + 1, g) BY <2>3, <2>4
  <2>. HIDE DEF Part
  <2>. QED BY <2>5
<1>3. Nat \subseteq G
  <2>. HIDE DEF G
  <2>. QED BY <1>1, <1>2, NatSetInduction
<1>4. Len(list) \in G BY <1>3
<1>. QED BY <1>4 DEF Kept

(* Coalesced walks the list: after n blocks it has kept f[n]. *)
LEMMA CoalescedSteps ==
  ASSUME NEW list, Len(list) \in Nat
  PROVE  \E f : /\ f[0] = <<>> /\ Coalesced(list) = f[Len(list)]
                /\ \A n \in 1 .. Len(list) : f[n] = Joined(f[n - 1], list[n])
<1>. DEFINE g == CHOOSE f : Kept(list, f)
<1>1. Kept(list, g) BY KeptExists
<1>2. Coalesced(list) = g[Len(list)] BY DEF Coalesced, Kept
<1>. HIDE DEF g
<1>3. g[0] = <<>> /\ \A n \in 1 .. Len(list) : g[n] = Joined(g[n - 1], list[n])
  BY <1>1 DEF Kept
<1>. QED BY <1>2, <1>3

(* kfree's walk keeps the list in order, loses no block that is taken and  *)
(* leaves no two free blocks next to each other.                           *)
LEMMA CoalescedListed ==
  ASSUME NEW o, NEW list, NEW t \in Nat, Listed(o, list, t)
  PROVE  /\ Listed(o, Coalesced(list), t) /\ NoFreePair(Coalesced(list))
         /\ Taken(Coalesced(list)) = Taken(list)
<1>1. PICK N \in Nat \ {0} : N = Len(list) BY ListedFacts
<1>2. PICK f : /\ f[0] = <<>> /\ Coalesced(list) = f[N]
               /\ \A n \in 1 .. N : f[n] = Joined(f[n - 1], list[n])
  BY <1>1, CoalescedSteps
<1>3. \A n \in 1 .. N : list[n] \in Blocks /\ list[n].addr \in Nat /\ list[n].free \in BOOLEAN
  BY <1>1, ListedFacts, BlockFacts
<1>. DEFINE Lim(n) == Start(list, t, n + 1)
            Some(n) == \E i \in 1 .. n : Reaches(o, list[i])
            Good(n) == /\ Listed(o, f[n], Lim(n)) /\ NoFreePair(f[n])
                       /\ Taken(f[n]) = {list[i] : i \in {j \in 1 .. n : ~list[j].free}}
                       /\ Some(n) => Over(o, f[n])
            G == {n \in Nat : n + 1 <= N => Good(n + 1)}
<1>4. ASSUME NEW n \in 1 .. N
      PROVE  /\ End(list[n]) \in Nat /\ Lim(n) \in Nat /\ End(list[n]) <= Lim(n)
             /\ Foreign(o, End(list[n]), Lim(n)) \/ Some(n)
  <2>1. GapForeign(o, list, t, n) BY <1>1 DEF Listed
  <2>. QED BY <1>1, <2>1, ListedFacts DEF GapForeign
<1>5. 0 \in G
  <2>. SUFFICES Good(1) OBVIOUS
  <2>0. 1 \in 1 .. N BY <1>1
  <2>1. PICK b \in Blocks : b = list[1] BY <1>3, <2>0
  <2>2. f[1] = Joined(<<>>, b)
    <3>1. f[1] = Joined(f[1 - 1], list[1]) BY <1>2, <2>0
    <3>2. 1 - 1 = 0 OBVIOUS
    <3>. QED BY <1>2, <2>1, <3>1, <3>2
  <2>3. f[1] = <<b>> BY <2>2 DEF Joined
  <2>4. <<b>> \in Seq(Blocks) /\ Len(<<b>>) = 1 /\ <<b>>[1] = b OBVIOUS
  <2>5. PICK g \in Seq(Blocks) : g = f[1] /\ Len(g) = 1 /\ g[1] = b BY <2>3, <2>4
  <2>6. PICK l \in Nat : l = Lim(1) /\ End(b) <= l BY <1>4, <2>0, <2>1
  <2>7. Foreign(o, End(b), l) \/ Reaches(o, b)
    <3>1. Foreign(o, End(list[1]), Lim(1)) \/ Some(1) BY <1>4, <2>0
    <3>2. Some(1) => Reaches(o, list[1]) OBVIOUS
    <3>. QED BY <2>1, <2>6, <3>1, <3>2
  <2>8. b.addr = KernelPages * PageUnits BY <2>1 DEF Listed
  <2>9. Chained(g, l)
    <3>1. \A i \in 1 .. 1 : i = 1 /\ 1 .. i - 1 = {} OBVIOUS
    <3>. QED BY <2>5, <2>6, <3>1 DEF Chained
  <2>10. GapForeign(o, g, l, 1)
    <3>1. Start(g, l, 2) = l BY <2>5 DEF Start
    <3>2. 1 \in 1 .. 1 /\ 1 + 1 = 2 OBVIOUS
    <3>. QED BY <2>5, <2>7, <3>1, <3>2 DEF GapForeign
  <2>11. Listed(o, g, l)
    <3>1. \A i \in 1 .. Len(g) : i = 1 BY <2>5
    <3>. QED BY <2>5, <2>8, <2>9, <2>10, <3>1 DEF Listed
  <2>12. NoFreePair(g) BY <2>5 DEF NoFreePair
  <2>13. Taken(g) = {list[i] : i \in {j \in 1 .. 1 : ~list[j].free}}
    BY <2>1, <2>5 DEF Taken
  <2>14. Some(1) => Over(o, g)
    <3>1. Some(1) => Reaches(o, g[1]) BY <2>1, <2>5
    <3>2. 1 \in 1 .. Len(g) BY <2>5
    <3>. QED BY <3>1, <3>2 DEF Over
  <2>. QED BY <2>5, <2>6, <2>11, <2>12, <2>13, <2>14
<1>6. ASSUME NEW m \in Nat, m \in G PROVE m + 1 \in G
  <2>. SUFFICES ASSUME (m + 1) + 1 <= N PROVE Good((m + 1) + 1) OBVIOUS
  <2>1. PICK n \in Nat : n = m + 1 /\ n \in 1 .. N /\ n + 1 \in 1 .. N BY <1>1
  <2>2. Good(n) BY <1>6, <2>1
  <2>3. PICK b \in Blocks : b = list[n + 1] /\ b.free \in BOOLEAN BY <1>3, <2>1
  <2>4. Lim(n) = b.addr
    <3>1. ~(n + 1 > Len(list)) BY <1>1, <2>1
    <3>. QED BY <2>3, <3>1 DEF Start
  <2>5. PICK l \in Nat : l = Lim(n + 1) /\ End(b) <= l BY <1>4, <2>1, <2>3
  <2>6. Some(n + 1) <=> Some(n) \/ Reaches(o, b)
    <3>1. \A i \in 1 .. n + 1 : i \in 1 .. n \/ i = n + 1 OBVIOUS
    <3>2. n + 1 \in 1 .. n + 1 /\ \A i \in 1 .. n : i \in 1 .. n + 1 OBVIOUS
    <3>. QED BY <2>3, <3>1, <3>2
  <2>7. Foreign(o, End(b), l) \/ Some(n) \/ Reaches(o, b)
    <3>1. Foreign(o, End(list[n + 1]), Lim(n + 1)) \/ Some(n + 1) BY <1>4, <2>1
    <3>. HIDE DEF Some, Lim
    <3>. QED BY <2>3, <2>5, <2>6, <3>1
  <2>8. f[n + 1] = Joined(f[n], b)
    <3>1. f[n + 1] = Joined(f[(n + 1) - 1], list[n + 1]) BY <1>2, <2>1
    <3>2. (n + 1) - 1 = n OBVIOUS
    <3>. QED BY <2>3, <3>1, <3>2
  <2>9. PICK d : d = f[n] OBVIOUS
  <2>. HIDE DEF Some
  <2>10. /\ Listed(o, d, b.addr) /\ NoFreePair(d) /\ (Some(n) => Over(o, d))
         /\ Taken(d) = {list[i] : i \in {j \in 1 .. n : ~list[j].free}}
    BY <2>2, <2>4, <2>9
  <2>11. /\ Listed(o, Joined(d, b), l) /\ NoFreePair(Joined(d, b))
         /\ Taken(Joined(d, b)) = Taken(d) \cup {c \in {b} : ~c.free}
         /\ Over(o, d) \/ Reaches(o, b) => Over(o, Joined(d, b))
    BY <2>5, <2>7, <2>10, JoinedListed
  <2>12. {list[i] : i \in {j \in 1 .. n + 1 : ~list[j].free}}
         = {list[i] : i \in {j \in 1 .. n : ~list[j].free}} \cup {c \in {b} : ~c.free}
    <3>1. \A i \in 1 .. n + 1 : i \in 1 .. n \/ i = n + 1 OBVIOUS
    <3>2. n + 1 \in 1 .. n + 1 /\ \A i \in 1 .. n : i \in 1 .. n + 1 OBVIOUS
    <3>. QED BY <2>3, <3>1, <3>2
  <2>13. Good(n + 1)
    <3>. HIDE DEF Lim
    <3>. QED BY <2>5, <2>6, <2>8, <2>9, <2>10, <2>11, <2>12
  <2>. HIDE DEF Good
  <2>. QED BY <2>1, <2>13
<1>7. Nat \subseteq G
  <2>. HIDE DEF G
  <2>. QED BY <1>5, <1>6, NatSetInduction
<1>8. Good(N)
  <2>1. PICK m \in Nat : N = m + 1 BY N - 1 \in Nat /\ N = (N - 1) + 1
  <2>2. m \in G BY <1>7
  <2>. HIDE DEF Good
  <2>. QED BY <2>1, <2>2
<1>9. Lim(N) = t BY <1>1 DEF Start
<1>. QED BY <1>1, <1>2, <1>8, <1>9 DEF Taken

-----------------------------------------------------------------------------
(* heap_grow puts the next page, page p, at the end of the list. *)
LEMMA GrownListed ==
  ASSUME NEW o, NEW p \in Nat, Listed(o, heap, p * PageUnits), FreeApart(heap)
  PROVE  /\ Listed(o, Grown(p), (p + 1) * PageUnits) /\ FreeApart(Grown(p))
         /\ Taken(Grown(p)) = Taken(heap)
<1>. DEFINE blk == Block(p * PageUnits, PageUnits - HdrUnits, TRUE)
<1>1. PICK a \in Nat, t \in Nat :
        a = p * PageUnits /\ t = (p + 1) * PageUnits /\ t = a + PageUnits
  BY PagesGrow, ConstantFacts
<1>2. PageUnits - HdrUnits \in Nat \ {0} BY ConstantFacts
<1>3. PICK b \in Blocks : b = blk /\ b.addr = a /\ b.size = PageUnits - HdrUnits /\ b.free = TRUE
  BY <1>1, <1>2, BlockBuilt
<1>. HIDE DEF blk
<1>4. End(b) = t
  <2>1. End(b) = a + HdrUnits + (PageUnits - HdrUnits) BY <1>3 DEF End
  <2>. QED BY <1>1, <2>1, ConstantFacts
<1>5. PICK n \in Nat \ {0} : n = Len(heap) BY <1>1, ListedFacts
<1>6. End(heap[n]) \in Nat /\ End(heap[n]) <= a
  <2>1. n \in 1 .. Len(heap) BY <1>5
  <2>. QED BY <1>1, <2>1, ListedFacts
<1>7. Foreign(o, End(b), t) BY <1>1, <1>4 DEF Foreign
<1>8. Listed(o, heap, b.addr) /\ End(b) <= t
  <2>1. b.addr = p * PageUnits BY <1>1, <1>3
  <2>. QED BY <1>4, <2>1
<1>9. CASE heap[n].free /\ End(heap[n]) = a
  <2>0. PICK g : g = Merged(heap, n, b) OBVIOUS
  <2>1. Grown(p) = g
    <3>1. n > 0 /\ heap[n].free /\ End(heap[n]) = b.addr BY <1>3, <1>9
    <3>. QED BY <1>3, <1>5, <2>0, <3>1, Zenon DEF Grown, Merged, blk
  <2>2. MergedInto(o, heap, n, b, t, g)
    BY <1>3, <1>5, <1>7, <1>8, <1>9, <2>0, MergedLast
  <2>3. ASSUME NEW k \in 1 .. n - 1, g[k].free, g[k + 1].free PROVE End(g[k]) < g[k + 1].addr
    <3>1. CASE k + 1 = n
      <4>1. End(heap[k]) < heap[n].addr
        <5>1. k \in 1 .. Len(heap) - 1 /\ heap[k].free BY <1>5, <2>2, <2>3 DEF MergedInto
        <5>. QED BY <1>9, <3>1, <5>1 DEF FreeApart
      <4>2. g[n].addr = heap[n].addr
        <5>1. heap \in Seq(Blocks) /\ n \in DOMAIN heap BY <1>5 DEF Listed
        <5>2. heap[n] \in Blocks BY <5>1
        <5>3. g[n] = [heap[n] EXCEPT !.size = @ + HdrUnits + b.size]
          BY <2>0, <5>1 DEF Merged
        <5>. QED BY <5>2, <5>3 DEF Blocks
      <4>. QED BY <2>2, <3>1, <4>1, <4>2 DEF MergedInto
    <3>2. CASE k + 1 # n
      <4>1. k + 1 \in 1 .. n - 1 BY <1>5, <3>2
      <4>2. g[k] = heap[k] /\ g[k + 1] = heap[k + 1] BY <2>2, <4>1 DEF MergedInto
      <4>. QED BY <1>5, <2>3, <4>2 DEF FreeApart
    <3>. QED BY <3>1, <3>2
  <2>4. FreeApart(g) BY <1>5, <2>2, <2>3 DEF FreeApart, MergedInto
  <2>. QED BY <1>1, <2>1, <2>2, <2>4 DEF MergedInto
<1>10. CASE ~(heap[n].free /\ End(heap[n]) = a)
  <2>0. PICK g : g = Append(heap, b) OBVIOUS
  <2>1. Grown(p) = g
    <3>1. ~(n > 0 /\ heap[n].free /\ End(heap[n]) = b.addr) BY <1>3, <1>10
    <3>. QED BY <1>3, <1>5, <2>0, <3>1, Zenon DEF Grown, blk
  <2>2. AppendedTo(o, heap, n, b, t, g) BY <1>3, <1>5, <1>7, <1>8, <2>0, AppendedLast
  <2>3. ASSUME NEW k \in 1 .. n, g[k].free, g[k + 1].free PROVE End(g[k]) < g[k + 1].addr
    <3>1. CASE k = n
      <4>1. heap[n].free BY <2>2, <2>3, <3>1 DEF AppendedTo
      <4>2. End(heap[n]) < a BY <1>1, <1>6, <1>10, <4>1
      <4>. QED BY <1>3, <2>2, <3>1, <4>2 DEF AppendedTo
    <3>2. CASE k # n
      <4>1. k \in 1 .. n - 1 /\ k + 1 \in 1 .. n BY <1>5, <3>2
      <4>2. g[k] = heap[k] /\ g[k + 1] = heap[k + 1] BY <2>2, <4>1 DEF AppendedTo
      <4>. QED BY <1>5, <2>3, <4>1, <4>2 DEF FreeApart
    <3>. QED BY <3>1, <3>2
  <2>4. FreeApart(g)
    <3>1. Len(g) - 1 = n BY <1>5, <2>2 DEF AppendedTo
    <3>. QED BY <2>3, <3>1 DEF FreeApart
  <2>5. Taken(g) = Taken(heap) BY <1>3, <2>2 DEF AppendedTo
  <2>. QED BY <1>1, <2>1, <2>2, <2>4, <2>5 DEF AppendedTo
<1>. QED BY <1>9, <1>10 DEF HasInPlace

(* A page of someone else behind the list is a gap of someone else's. *)
LEMMA OtherListed ==
  ASSUME NEW o, NEW h, NEW p \in Nat, Listed(o, h, p * PageUnits)
  PROVE  Listed(o \cup {p}, h, (p + 1) * PageUnits)
<1>1. PICK a \in Nat, t \in Nat :
        a = p * PageUnits /\ t = (p + 1) * PageUnits /\ t = a + PageUnits
  BY PagesGrow, ConstantFacts
<1>2. a <= t BY <1>1, ConstantFacts
<1>3. PICK n \in Nat \ {0} : n = Len(h) BY <1>1, ListedFacts
<1>4. Chained(h, t)
  <2>1. \A i \in 1 .. n : End(h[i]) \in Nat /\ End(h[i]) <= a BY <1>1, <1>3, ListedFacts
  <2>2. \A i \in 1 .. n : \A j \in 1 .. i - 1 : End(h[j]) <= h[i].addr
    BY <1>1, <1>3, ListedFacts
  <2>. QED BY <1>2, <1>3, <2>1, <2>2 DEF Chained
<1>5. ASSUME NEW i \in 1 .. n PROVE GapForeign(o \cup {p}, h, t, i)
  <2>1. GapForeign(o, h, a, i) BY <1>1, <1>3 DEF Listed
  <2>2. \A j \in 1 .. i : Reaches(o, h[j]) => Reaches(o \cup {p}, h[j]) BY DEF Reaches
  <2>3. CASE \E j \in 1 .. i : Reaches(o, h[j]) BY <2>2, <2>3 DEF GapForeign
  <2>4. CASE Foreign(o, End(h[i]), Start(h, a, i + 1))
    <3>1. CASE i # n
      <4>1. ~(i + 1 > n) BY <1>3, <3>1
      <4>2. Start(h, a, i + 1) = Start(h, t, i + 1) BY <1>3, <4>1 DEF Start
      <4>. QED BY <2>4, <4>2 DEF Foreign, GapForeign
    <3>2. CASE i = n
      <4>1. Start(h, a, i + 1) = a /\ Start(h, t, i + 1) = t BY <1>3, <3>2 DEF Start
      <4>2. End(h[i]) \in Nat BY <1>1, <1>3, ListedFacts
      <4>3. ASSUME NEW u \in End(h[i]) .. t - 1 PROVE PageOf(u) \in o \cup {p}
        <5>1. CASE u < a
          <6>1. u \in End(h[i]) .. a - 1 BY <1>1, <4>2, <5>1
          <6>. QED BY <2>4, <4>1, <6>1 DEF Foreign
        <5>2. CASE a <= u
          <6>1. u \in Nat /\ p + 1 \in Nat /\ p * PageUnits <= u /\ u < (p + 1) * PageUnits
            BY <1>1, <4>2, <5>2
          <6>2. PageOf(u) \in Nat /\ p <= PageOf(u) /\ PageOf(u) < p + 1
            BY <6>1, PageOfBounds
          <6>3. PageOf(u) = p BY <6>2
          <6>. QED BY <6>3
        <5>. QED BY <1>1, <4>2, <5>1, <5>2
      <4>. QED BY <4>1, <4>3 DEF Foreign, GapForeign
    <3>. QED BY <3>1, <3>2
  <2>. QED BY <2>1, <2>3, <2>4 DEF GapForeign
<1>. QED BY <1>1, <1>3, <1>4, <1>5 DEF Listed

(* One more allocation, on a block that no other one has. *)
LEMMA OwnedTaken ==
  ASSUME NEW hs, NEW h, Owned(hs, h), NEW A, NEW w \in Nat \ {0}, w <= A.size, A.addr \in Nat,
         \A b \in Taken(h) : b.addr \in Nat /\ b.addr # A.addr,
         NEW g, Taken(g) = Taken(h) \cup {A}
  PROVE  Owned(hs \cup {[ptr |-> A.addr + HdrUnits, size |-> w]}, g)
<1>. DEFINE x == [ptr |-> A.addr + HdrUnits, size |-> w]
<1>1. x.ptr = A.addr + HdrUnits /\ x.size = w OBVIOUS
<1>. HIDE DEF x
<1>2. \A a \in hs : a.ptr # x.ptr
  <2>. SUFFICES ASSUME NEW a \in hs PROVE a.ptr # x.ptr OBVIOUS
  <2>1. PICK b \in Taken(h) : b.addr + HdrUnits = a.ptr BY DEF Owned
  <2>2. b.addr \in Nat /\ b.addr # A.addr OBVIOUS
  <2>. QED BY <1>1, <2>1, <2>2, ConstantFacts
<1>3. A \in Taken(g) /\ \A b \in Taken(h) : b \in Taken(g) OBVIOUS
<1>4. \A a \in hs \cup {x} : \E b \in Taken(g) :
        b.addr + HdrUnits = a.ptr /\ a.size <= b.size /\ a.size \in Nat \ {0}
  BY <1>1, <1>3 DEF Owned
<1>5. \A b \in Taken(g) : \E a \in hs \cup {x} : a.ptr = b.addr + HdrUnits
  BY <1>1 DEF Owned
<1>6. \A a, b \in hs \cup {x} : a.ptr = b.ptr => a = b
  BY <1>2 DEF Owned
<1>. QED BY <1>4, <1>5, <1>6 DEF Owned, x

(* One allocation less. *)
LEMMA OwnedFreed ==
  ASSUME NEW hs, NEW h, Owned(hs, h), NEW a \in hs,
         NEW g, Taken(g) = {b \in Taken(h) : b.addr + HdrUnits # a.ptr}
  PROVE  Owned(hs \ {a}, g)
<1>1. ASSUME NEW c \in hs \ {a}
      PROVE  \E b \in Taken(g) :
               b.addr + HdrUnits = c.ptr /\ c.size <= b.size /\ c.size \in Nat \ {0}
  <2>1. PICK b \in Taken(h) :
          b.addr + HdrUnits = c.ptr /\ c.size <= b.size /\ c.size \in Nat \ {0}
    BY DEF Owned
  <2>2. c.ptr # a.ptr BY DEF Owned
  <2>3. b \in Taken(g) BY <2>1, <2>2
  <2>. QED BY <2>1, <2>3
<1>2. ASSUME NEW b \in Taken(g) PROVE \E c \in hs \ {a} : c.ptr = b.addr + HdrUnits
  <2>1. b \in Taken(h) /\ b.addr + HdrUnits # a.ptr OBVIOUS
  <2>2. PICK c \in hs : c.ptr = b.addr + HdrUnits BY <2>1 DEF Owned
  <2>. QED BY <2>1, <2>2
<1>3. \A c, b \in hs \ {a} : c.ptr = b.ptr => c = b BY DEF Owned
<1>. QED BY <1>1, <1>2, <1>3 DEF Owned

-----------------------------------------------------------------------------
(* pmm_alloc hands out the page after the last one. *)
LEMMA NextPage ==
  ASSUME PagesInv, NEW p, pmm_alloc(p)
  PROVE  /\ p \in Nat /\ p = Top + 1 /\ p <= TotalPages - 1 /\ KernelPages < p
         /\ Top \in Nat /\ Top' = p /\ used' = 0 .. p
         /\ free_pages' \in 0 .. TotalPages - 1 - KernelPages
         /\ Limit = p * PageUnits /\ Limit' = (p + 1) * PageUnits
<1>1. /\ free_pages \in Nat /\ free_pages <= TotalPages - 1 - KernelPages
      /\ Top = TotalPages - 1 - free_pages /\ used = 0 .. Top
  BY DEF PagesInv, Top
<1>2. Top \in Nat /\ KernelPages <= Top /\ Top <= TotalPages - 1 BY <1>1, ConstantFacts
<1>3. PICK W \in Int : W = (TotalPages \div WordPages) * WordPages BY ConstantFacts
<1>4. /\ p \in 0 .. TotalPages - 1 /\ p \notin 0 .. Top /\ p < W
      /\ \A q \in 0 .. TotalPages - 1 : q \notin 0 .. Top /\ q < W => p <= q
  BY <1>1, <1>3 DEF pmm_alloc, FreeListed, Pages
<1>5. Top + 1 \in 0 .. TotalPages - 1 /\ Top + 1 \notin 0 .. Top /\ Top + 1 < W
  BY <1>2, <1>3, <1>4, ConstantFacts
<1>6. p = Top + 1 BY <1>2, <1>4, <1>5
<1>7. used' = used \cup {p} /\ free_pages' = free_pages - 1 BY DEF pmm_alloc
<1>8. p \in Nat /\ p <= TotalPages - 1 BY <1>4, ConstantFacts
<1>9. free_pages' \in 0 .. TotalPages - 1 - KernelPages
  BY <1>1, <1>2, <1>6, <1>7, <1>8, ConstantFacts
<1>10. Top' = p
  <2>1. Top' = TotalPages - 1 - (free_pages - 1) BY <1>7 DEF Top
  <2>. QED BY <1>1, <1>6, <2>1, ConstantFacts
<1>11. used' = 0 .. p
  <2>1. 0 .. p = 0 .. Top \cup {p} BY <1>2, <1>6
  <2>. QED BY <1>1, <1>7, <2>1
<1>12. Limit = p * PageUnits /\ Limit' = (p + 1) * PageUnits BY <1>6, <1>10 DEF Limit
<1>13. KernelPages < p BY <1>2, <1>6, ConstantFacts
<1>. QED BY <1>2, <1>6, <1>8, <1>9, <1>10, <1>11, <1>12, <1>13

(* The memory in use ends at a unit of the machine. *)
LEMMA LimitFacts ==
  ASSUME PagesInv
  PROVE  /\ Top \in Nat /\ KernelPages <= Top /\ Top <= TotalPages - 1
         /\ Limit \in Nat /\ Limit <= TotalPages * PageUnits
         /\ TotalPages * PageUnits \in Nat /\ KernelPages * PageUnits \in Nat
         /\ Limit = (Top + 1) * PageUnits
<1>1. Top \in Nat /\ KernelPages <= Top /\ Top <= TotalPages - 1
  BY ConstantFacts DEF PagesInv, Top
<1>2. Top + 1 \in Nat /\ TotalPages \in Nat /\ Top + 1 <= TotalPages BY <1>1, ConstantFacts
<1>3. /\ (Top + 1) * PageUnits \in Nat /\ TotalPages * PageUnits \in Nat
      /\ (Top + 1) * PageUnits <= TotalPages * PageUnits
  BY <1>2, PagesGrow
<1>4. KernelPages * PageUnits \in Nat BY ConstantFacts
<1>. QED BY <1>1, <1>3, <1>4 DEF Limit

(* A block that is taken lies apart from a free one. *)
LEMMA TakenElsewhere ==
  ASSUME NEW o, NEW h, NEW t \in Nat, Listed(o, h, t), NEW i \in 1 .. Len(h), h[i].free
  PROVE  \A b \in Taken(h) : b.addr \in Nat /\ b.addr # h[i].addr
<1>0. Len(h) \in Nat BY ListedFacts
<1>. SUFFICES ASSUME NEW j \in 1 .. Len(h), ~h[j].free
              PROVE  h[j].addr \in Nat /\ h[j].addr # h[i].addr
  BY DEF Taken
<1>1. /\ h[i].addr \in Nat /\ End(h[i]) \in Nat /\ h[i].addr < End(h[i])
      /\ h[j].addr \in Nat /\ End(h[j]) \in Nat /\ h[j].addr < End(h[j])
  BY ListedFacts
<1>2. i # j OBVIOUS
<1>3. CASE i < j
  <2>1. i \in 1 .. j - 1 BY <1>0, <1>3
  <2>2. End(h[i]) <= h[j].addr BY <2>1, ListedFacts
  <2>. QED BY <1>1, <2>2
<1>4. CASE j < i
  <2>1. j \in 1 .. i - 1 BY <1>0, <1>4
  <2>2. End(h[j]) <= h[i].addr BY <2>1, ListedFacts
  <2>. QED BY <1>1, <2>2
<1>. QED BY <1>0, <1>2, <1>3, <1>4

(* The invariant holds at boot. *)
LEMMA InitIInv == Init => IInv
<1>. SUFFICES ASSUME Init PROVE IInv OBVIOUS
<1>1. Top = KernelPages BY ConstantFacts DEF Init, Top
<1>2. PagesInv
  <2>1. free_pages \in 0 .. TotalPages - 1 - KernelPages BY ConstantFacts DEF Init
  <2>. QED BY <1>1, <2>1 DEF Init, PagesInv
<1>3. Limit = (KernelPages + 1) * PageUnits BY <1>1 DEF Limit
<1>4. /\ Listed(others, heap, Limit) /\ FreeApart(heap) /\ Taken(heap) = {}
  BY <1>3, FirstListed DEF Init
<1>5. HeldInv BY <1>4 DEF Init, HeldInv, Owned
<1>6. ReqInv BY ConstantFacts DEF Init, ReqInv, NoRequest
<1>. QED BY <1>2, <1>4, <1>5, <1>6 DEF IInv, ListInv

(* kmalloc takes a block, whole or split. *)
LEMMA TakeKeeps ==
  ASSUME IInv, kmalloc_take
  PROVE  IInv'
<1>1. UNCHANGED <<used, free_pages, others>> /\ req' = NoRequest BY DEF kmalloc_take
<1>2. PagesInv' /\ ReqInv'
  <2>1. PagesInv' BY <1>1 DEF IInv, PagesInv, Top
  <2>2. ReqInv' BY <1>1, ConstantFacts DEF ReqInv, NoRequest
  <2>. QED BY <2>1, <2>2
<1>3. PICK t \in Nat : t = Limit BY LimitFacts DEF IInv
<1>4. Limit' = t BY <1>1, <1>3 DEF Limit, Top
<1>5. Listed(others, heap, t) /\ FreeApart(heap) BY <1>3 DEF IInv, ListInv
<1>6. PICK i \in Fits :
        /\ heap' = SubSeq(heap, 1, i - 1) \o Split(heap[i]) \o SubSeq(heap, i + 1, Len(heap))
        /\ held' = held \cup {[ptr |-> heap[i].addr + HdrUnits, size |-> req.want]}
  BY DEF kmalloc_take
<1>7. PICK w \in Nat \ {0} : w = req.want
  <2>1. req.want \in Nat /\ req.want > 0 BY ConstantFacts DEF IInv, ReqInv, kmalloc_take
  <2>. QED BY <2>1
<1>8. PICK n \in Nat \ {0} : n = Len(heap) BY <1>5, ListedFacts
<1>9. i \in 1 .. n /\ heap[i].free /\ heap[i].size >= w
  <2>1. req.cur \in Nat \ {0} BY DEF IInv, ReqInv
  <2>2. i \in req.cur .. Len(heap) /\ heap[i].free /\ heap[i].size >= req.want BY DEF Fits
  <2>. QED BY <1>7, <1>8, <2>1, <2>2
<1>10. PICK b \in Blocks : b = heap[i] /\ b.free = TRUE
  <2>1. heap[i] \in Blocks BY <1>5, <1>8, <1>9, ListedFacts
  <2>. QED BY <1>9, <2>1 DEF Blocks
<1>11. PICK a \in Nat, z \in Nat \ {0} : a = b.addr /\ z = b.size /\ w <= z
  BY <1>9, <1>10, BlockFacts
<1>12. heap \in Seq(Blocks) BY <1>5 DEF Listed
<1>13. ASSUME NEW A \in Blocks, A.addr = a, w <= A.size, Taken(heap') = Taken(heap) \cup {A}
       PROVE  HeldInv'
  <2>1. \A c \in Taken(heap) : c.addr \in Nat /\ c.addr # A.addr
    BY <1>5, <1>8, <1>9, <1>10, <1>11, <1>13, TakenElsewhere
  <2>2. Owned(held, heap) BY DEF IInv, HeldInv
  <2>3. Owned(held \cup {[ptr |-> A.addr + HdrUnits, size |-> w]}, heap')
    BY <1>11, <1>13, <2>1, <2>2, OwnedTaken
  <2>4. held' = held \cup {[ptr |-> A.addr + HdrUnits, size |-> w]}
    BY <1>6, <1>7, <1>10, <1>11, <1>13
  <2>5. held' \subseteq [ptr : Nat, size : Nat]
    <3>1. A.addr + HdrUnits \in Nat BY <1>13, ConstantFacts
    <3>2. held \subseteq [ptr : Nat, size : Nat] BY DEF IInv, HeldInv
    <3>. QED BY <2>4, <3>1, <3>2
  <2>. QED BY <2>3, <2>4, <2>5 DEF HeldInv
<1>14. CASE z >= w + MinSplit
  <2>1. PICK r \in Nat \ {0} : r = z - w - HdrUnits
    <3>1. z - w - HdrUnits \in Nat \ {0} BY <1>14, ConstantFacts DEF MinSplit
    <3>. QED BY <3>1
  <2>2. a + HdrUnits + w \in Nat BY ConstantFacts
  <2>3. PICK A \in Blocks :
          A = Block(a, w, FALSE) /\ A.addr = a /\ A.size = w /\ A.free = FALSE
    <3>1. FALSE \in BOOLEAN OBVIOUS
    <3>2. /\ Block(a, w, FALSE) \in Blocks /\ Block(a, w, FALSE).addr = a
          /\ Block(a, w, FALSE).size = w /\ Block(a, w, FALSE).free = FALSE
      BY <3>1, BlockBuilt, Zenon
    <3>. QED BY <3>2
  <2>4. PICK B \in Blocks :
          /\ B = Block(a + HdrUnits + w, r, TRUE)
          /\ B.addr = a + HdrUnits + w /\ B.size = r /\ B.free = TRUE
    BY <2>2, BlockBuilt
  <2>5. Split(b) = <<A, B>> BY <1>7, <1>11, <1>14, <2>1, <2>3, <2>4 DEF Split
  <2>6. End(A) = B.addr /\ End(B) = End(b)
    <3>1. End(A) = a + HdrUnits + w BY <2>3 DEF End
    <3>2. End(B) = a + HdrUnits + w + HdrUnits + r BY <2>4 DEF End
    <3>3. End(b) = a + HdrUnits + z BY <1>11 DEF End
    <3>4. HdrUnits \in Nat BY ConstantFacts
    <3>5. a + HdrUnits + w + HdrUnits + r = a + HdrUnits + z BY <2>1, <3>4
    <3>. QED BY <2>4, <3>1, <3>2, <3>3, <3>5
  <2>7. <<A, B>> \in Seq(Blocks) /\ Len(<<A, B>>) = 2 /\ <<A, B>>[1] = A /\ <<A, B>>[2] = B
    OBVIOUS
  <2>8. PICK s \in Seq(Blocks) : s = <<A, B>> /\ Len(s) = 2 /\ s[1] = A /\ s[2] = B BY <2>7
  <2>9. PICK g : g = heap' OBVIOUS
  <2>10. g = SubSeq(heap, 1, i - 1) \o s \o SubSeq(heap, i + 1, Len(heap))
    BY <1>6, <1>10, <2>5, <2>8, <2>9
  <2>11. /\ g \in Seq(Blocks) /\ Len(g) = Len(heap) - 1 + Len(s)
         /\ \A k \in 1 .. Len(g) :
              g[k] = IF k < i THEN heap[k]
                     ELSE IF k < i + Len(s) THEN s[k - i + 1]
                     ELSE heap[k - Len(s) + 1]
    <3>1. i \in 1 .. Len(heap) BY <1>8, <1>9
    <3>2. HasInPlace(Blocks, heap, i, s, g) BY <1>12, <2>10, <3>1, Spliced, Zenon
    <3>. QED BY <3>2 DEF HasInPlace
  <2>12. /\ Len(g) = Len(heap) + 1
         /\ \A k \in 1 .. n + 1 :
              g[k] = IF k < i THEN heap[k] ELSE IF k < i + 2 THEN s[k - i + 1] ELSE heap[k - 2 + 1]
    BY <1>8, <2>8, <2>11
  <2>13. g[i] = A /\ g[i + 1] = B
    <3>1. i \in 1 .. n + 1 /\ ~(i < i) /\ i < i + 2 /\ i - i + 1 = 1 BY <1>9
    <3>2. i + 1 \in 1 .. n + 1 /\ ~(i + 1 < i) /\ i + 1 < i + 2 /\ (i + 1) - i + 1 = 2 BY <1>9
    <3>. QED BY <2>8, <2>12, <3>1, <3>2
  <2>14. \A k \in 1 .. i - 1 : g[k] = heap[k]
    <3>. TAKE k \in 1 .. i - 1
    <3>1. k \in 1 .. n + 1 /\ k < i BY <1>9
    <3>. QED BY <2>12, <3>1
  <2>15. \A k \in i + 1 .. n : g[k + 1] = heap[k]
    <3>. TAKE k \in i + 1 .. n
    <3>1. k + 1 \in 1 .. n + 1 /\ ~(k + 1 < i) /\ ~(k + 1 < i + 2) /\ (k + 1) - 2 + 1 = k
      BY <1>9
    <3>. QED BY <2>12, <3>1
  <2>16. Listed(others, g, t) /\ FreeApart(g) /\ Taken(g) = Taken(heap) \cup {A}
    <3>0. /\ A.addr = heap[i].addr /\ End(B) = End(heap[i]) /\ heap[i].free = TRUE
          /\ i \in 1 .. Len(heap) /\ \A k \in i + 1 .. Len(heap) : g[k + 1] = heap[k]
      BY <1>8, <1>9, <1>10, <1>11, <2>3, <2>6, <2>15
    <3>1. NowTaken(others, heap, t, A, g)
      BY <1>5, <2>3, <2>4, <2>6, <2>11, <2>12, <2>13, <2>14, <3>0,
       TakenSplit
    <3>. QED BY <3>1 DEF NowTaken
  <2>17. HeldInv'
    <3>1. w <= A.size
      <4>1. A.size = w BY <2>3
      <4>2. w <= w OBVIOUS
      <4>. QED BY <4>1, <4>2
    <3>. QED BY <1>13, <2>3, <2>9, <2>16, <3>1
  <2>18. ListInv' BY <1>1, <1>4, <2>9, <2>16 DEF ListInv
  <2>. QED BY <1>2, <2>17, <2>18 DEF IInv
<1>15. CASE ~(z >= w + MinSplit)
  <2>1. PICK A \in Blocks :
          A = [b EXCEPT !.free = FALSE] /\ A.addr = a /\ A.size = z /\ A.free = FALSE
    <3>1. [b EXCEPT !.free = FALSE] \in Blocks BY DEF Blocks
    <3>2. /\ [b EXCEPT !.free = FALSE].addr = a /\ [b EXCEPT !.free = FALSE].size = z
          /\ [b EXCEPT !.free = FALSE].free = FALSE
      BY <1>11 DEF Blocks
    <3>. QED BY <3>1, <3>2
  <2>2. Split(b) = <<A>> BY <1>7, <1>11, <1>15, <2>1 DEF Split
  <2>3. <<A>> \in Seq(Blocks) /\ Len(<<A>>) = 1 /\ <<A>>[1] = A OBVIOUS
  <2>4. PICK s \in Seq(Blocks) : s = <<A>> /\ Len(s) = 1 /\ s[1] = A BY <2>3
  <2>5. PICK g : g = heap' OBVIOUS
  <2>6. g = SubSeq(heap, 1, i - 1) \o s \o SubSeq(heap, i + 1, Len(heap))
    BY <1>6, <1>10, <2>2, <2>4, <2>5
  <2>7. /\ g \in Seq(Blocks) /\ Len(g) = Len(heap) - 1 + Len(s)
        /\ \A k \in 1 .. Len(g) :
             g[k] = IF k < i THEN heap[k]
                    ELSE IF k < i + Len(s) THEN s[k - i + 1]
                    ELSE heap[k - Len(s) + 1]
    <3>1. i \in 1 .. Len(heap) BY <1>8, <1>9
    <3>2. HasInPlace(Blocks, heap, i, s, g) BY <1>12, <2>6, <3>1, Spliced, Zenon
    <3>. QED BY <3>2 DEF HasInPlace
  <2>8. /\ Len(g) = Len(heap)
        /\ \A k \in 1 .. n :
             g[k] = IF k < i THEN heap[k] ELSE IF k < i + 1 THEN s[k - i + 1] ELSE heap[k - 1 + 1]
    BY <1>8, <2>4, <2>7
  <2>9. g[i] = A
    <3>1. i \in 1 .. n /\ ~(i < i) /\ i < i + 1 /\ i - i + 1 = 1 BY <1>9
    <3>. QED BY <2>4, <2>8, <3>1
  <2>10. \A k \in 1 .. n : k # i => g[k] = heap[k]
    <3>. SUFFICES ASSUME NEW k \in 1 .. n, k # i PROVE g[k] = heap[k] OBVIOUS
    <3>1. k < i \/ (~(k < i) /\ ~(k < i + 1)) BY <1>9
    <3>2. k - 1 + 1 = k OBVIOUS
    <3>. QED BY <2>8, <3>1, <3>2
  <2>11. Listed(others, g, t) /\ FreeApart(g) /\ Taken(g) = Taken(heap) \cup {A}
    <3>0. /\ A.addr = heap[i].addr /\ A.size = heap[i].size /\ heap[i].free = TRUE
          /\ i \in 1 .. Len(heap) /\ \A k \in 1 .. Len(heap) : k # i => g[k] = heap[k]
      BY <1>8, <1>9, <1>10, <1>11, <2>1, <2>10
    <3>1. NowTaken(others, heap, t, A, g)
      BY <1>5, <2>1, <2>7, <2>8, <2>9, <3>0, TakenWhole
    <3>. QED BY <3>1 DEF NowTaken
  <2>12. HeldInv' BY <1>11, <1>13, <2>1, <2>5, <2>11
  <2>13. ListInv' BY <1>1, <1>4, <2>5, <2>11 DEF ListInv
  <2>. QED BY <1>2, <2>12, <2>13 DEF IInv
<1>. QED BY <1>14, <1>15

(* kmalloc asks for one more page. *)
LEMMA GrowKeeps ==
  ASSUME IInv, kmalloc_grow
  PROVE  IInv'
<1>1. PICK p : pmm_alloc(p) /\ heap' = Grown(p)
  BY DEF kmalloc_grow
<1>2. req' = [req EXCEPT !.cur = Len(heap')] /\ held' = held /\ others' = others /\ req.want > 0
  BY DEF kmalloc_grow
<1>3. /\ p \in Nat /\ p = Top + 1 /\ Top \in Nat /\ Top' = p /\ used' = 0 .. p
      /\ free_pages' \in 0 .. TotalPages - 1 - KernelPages
      /\ Limit = p * PageUnits /\ Limit' = (p + 1) * PageUnits
  BY <1>1, NextPage DEF IInv
<1>4. PagesInv'
  <2>1. others \subseteq KernelPages + 1 .. Top BY DEF IInv, PagesInv
  <2>2. others \subseteq KernelPages + 1 .. p BY <1>3, <2>1, ConstantFacts
  <2>. QED BY <1>2, <1>3, <2>2 DEF PagesInv
<1>5. Listed(others, heap, p * PageUnits) /\ FreeApart(heap)
  BY <1>3 DEF IInv, ListInv
<1>6. PICK g : g = heap' OBVIOUS
<1>7. /\ Listed(others, g, (p + 1) * PageUnits) /\ FreeApart(g)
      /\ Taken(g) = Taken(heap)
  BY <1>1, <1>3, <1>5, <1>6, GrownListed
<1>8. ListInv' BY <1>2, <1>3, <1>6, <1>7 DEF ListInv
<1>9. HeldInv'
  <2>1. Owned(held, heap) /\ held \subseteq [ptr : Nat, size : Nat] BY DEF IInv, HeldInv
  <2>2. Owned(held, g) BY <1>7, <2>1 DEF Owned
  <2>. QED BY <1>2, <1>6, <2>1, <2>2 DEF HeldInv
<1>10. ReqInv'
  <2>1. Len(g) \in Nat \ {0} BY <1>7 DEF Listed
  <2>2. req \in [want : 0 .. MaxRequest, cur : Nat \ {0}] BY DEF IInv, ReqInv
  <2>3. PICK l \in Nat \ {0} : l = Len(g) BY <2>1
  <2>4. PICK r : r = [req EXCEPT !.cur = l] OBVIOUS
  <2>5. r \in [want : 0 .. MaxRequest, cur : Nat \ {0}] /\ r.want = req.want BY <2>2, <2>4
  <2>6. r.want # 0
    <3>1. req.want \in Int BY <2>2, ConstantFacts
    <3>. QED BY <1>2, <2>5, <3>1
  <2>7. req' = r BY <1>2, <1>6, <2>3, <2>4
  <2>. QED BY <2>5, <2>6, <2>7 DEF ReqInv
<1>. QED BY <1>4, <1>8, <1>9, <1>10 DEF IInv

(* The rest of the kernel takes a page. *)
LEMMA OtherKeeps ==
  ASSUME IInv, OtherPage
  PROVE  IInv'
<1>1. PICK p : pmm_alloc(p) /\ others' = others \cup {p} BY DEF OtherPage
<1>2. UNCHANGED <<heap, req, held>> BY DEF OtherPage
<1>3. /\ p \in Nat /\ p = Top + 1 /\ Top \in Nat /\ Top' = p /\ used' = 0 .. p /\ KernelPages < p
      /\ free_pages' \in 0 .. TotalPages - 1 - KernelPages
      /\ Limit = p * PageUnits /\ Limit' = (p + 1) * PageUnits
  BY <1>1, NextPage DEF IInv
<1>4. PagesInv'
  <2>1. others \subseteq KernelPages + 1 .. Top BY DEF IInv, PagesInv
  <2>2. others \cup {p} \subseteq KernelPages + 1 .. p BY <1>3, <2>1, ConstantFacts
  <2>. QED BY <1>1, <1>3, <2>2 DEF PagesInv
<1>5. Listed(others, heap, p * PageUnits) /\ FreeApart(heap) BY <1>3 DEF IInv, ListInv
<1>6. Listed(others', heap, (p + 1) * PageUnits) BY <1>1, <1>3, <1>5, OtherListed
<1>7. ListInv' BY <1>2, <1>3, <1>5, <1>6 DEF ListInv
<1>8. HeldInv' BY <1>2 DEF IInv, HeldInv
<1>9. ReqInv' BY <1>2 DEF IInv, ReqInv
<1>. QED BY <1>4, <1>7, <1>8, <1>9 DEF IInv

Freed(h, a) ==
  [i \in 1 .. Len(h) |->
     IF h[i].addr + HdrUnits = a.ptr THEN [h[i] EXCEPT !.free = TRUE] ELSE h[i]]

(* A block marked free is in its place, and taken no more. *)
LEMMA FreedListed ==
  ASSUME NEW o, NEW h, NEW t \in Nat, Listed(o, h, t), NEW a, NEW g, g = Freed(h, a)
  PROVE  /\ Listed(o, g, t)
         /\ Taken(g) = {b \in Taken(h) : b.addr + HdrUnits # a.ptr}
<1>1. PICK n \in Nat \ {0} : n = Len(h) BY ListedFacts
<1>2. \A i \in 1 .. n : h[i] \in Blocks BY <1>1, ListedFacts
<1>3. \A i \in 1 .. n :
        g[i] = IF h[i].addr + HdrUnits = a.ptr THEN [h[i] EXCEPT !.free = TRUE] ELSE h[i]
  BY <1>1 DEF Freed
<1>4. ASSUME NEW b \in Blocks
      PROVE  /\ [b EXCEPT !.free = TRUE] \in Blocks
             /\ [b EXCEPT !.free = TRUE].addr = b.addr
             /\ [b EXCEPT !.free = TRUE].size = b.size
             /\ [b EXCEPT !.free = TRUE].free = TRUE
  BY DEF Blocks
<1>5. \A i \in 1 .. n :
        /\ g[i] \in Blocks /\ g[i].addr = h[i].addr /\ g[i].size = h[i].size
        /\ h[i].addr + HdrUnits = a.ptr => g[i].free = TRUE
        /\ h[i].addr + HdrUnits # a.ptr => g[i] = h[i]
  BY <1>2, <1>3, <1>4
<1>6. g \in [1 .. n -> Blocks]
  <2>1. g = [i \in 1 .. n |-> g[i]] BY <1>1 DEF Freed
  <2>. QED BY <1>5, <2>1
<1>7. g \in Seq(Blocks) /\ Len(g) = n BY <1>6, FunctionIsSeq
<1>8. Listed(o, g, t) BY <1>1, <1>5, <1>7, SameShape
<1>9. \A i \in 1 .. n :
        ~g[i].free => ~h[i].free /\ g[i] = h[i] /\ h[i].addr + HdrUnits # a.ptr
  BY <1>5
<1>10. \A i \in 1 .. n :
        ~h[i].free /\ h[i].addr + HdrUnits # a.ptr => ~g[i].free /\ g[i] = h[i]
  BY <1>5
<1>11. Taken(g) = {b \in Taken(h) : b.addr + HdrUnits # a.ptr}
  BY <1>1, <1>7, <1>9, <1>10 DEF Taken
<1>. QED BY <1>8, <1>11

(* kfree gives a block back and joins the free ones. *)
LEMMA FreeKeeps ==
  ASSUME IInv, NEW a \in held, kfree(a)
  PROVE  IInv'
<1>1. /\ heap' = Coalesced(Freed(heap, a)) /\ held' = held \ {a}
      /\ UNCHANGED <<used, free_pages, req, others>>
  BY DEF kfree, Freed
<1>2. PICK t \in Nat : t = Limit BY LimitFacts DEF IInv
<1>3. Limit' = t BY <1>1, <1>2 DEF Limit, Top
<1>4. Listed(others, heap, t) BY <1>2 DEF IInv, ListInv
<1>5. PICK g : g = Freed(heap, a) OBVIOUS
<1>6. Listed(others, g, t) /\ Taken(g) = {b \in Taken(heap) : b.addr + HdrUnits # a.ptr}
  BY <1>4, <1>5, FreedListed
<1>7. PICK h : h = Coalesced(g) OBVIOUS
<1>8. Listed(others, h, t) /\ NoFreePair(h) /\ Taken(h) = Taken(g)
  BY <1>6, <1>7, CoalescedListed
<1>9. ListInv'
  <2>1. FreeApart(h) BY <1>8 DEF FreeApart, NoFreePair
  <2>. QED BY <1>1, <1>3, <1>5, <1>7, <1>8, <2>1 DEF ListInv
<1>10. HeldInv'
  <2>1. Owned(held, heap) /\ held \subseteq [ptr : Nat, size : Nat] BY DEF IInv, HeldInv
  <2>2. Owned(held \ {a}, h) BY <1>6, <1>8, <2>1, OwnedFreed
  <2>3. held \ {a} \subseteq [ptr : Nat, size : Nat] BY <2>1
  <2>. QED BY <1>1, <1>5, <1>7, <2>2, <2>3 DEF HeldInv
<1>11. PagesInv' BY <1>1 DEF IInv, PagesInv, Top
<1>12. ReqInv' BY <1>1 DEF IInv, ReqInv
<1>. QED BY <1>9, <1>10, <1>11, <1>12 DEF IInv

(* Every step keeps the invariant. *)
LEMMA NextIInv == IInv /\ [Next]_vars => IInv'
<1>. SUFFICES ASSUME IInv, [Next]_vars PROVE IInv' OBVIOUS
<1>1. ASSUME UNCHANGED <<used, free_pages, heap, held, others>>, ReqInv' PROVE IInv'
  BY <1>1 DEF IInv, PagesInv, ListInv, HeldInv, Top, Limit
<1>2. ASSUME NEW n \in 1 .. MaxRequest, kmalloc(n) PROVE IInv'
  <2>1. n \in 0 .. MaxRequest /\ n # 0 BY ConstantFacts
  <2>2. ReqInv' BY <1>2, <2>1 DEF kmalloc, ReqInv
  <2>. QED BY <1>1, <1>2, <2>2 DEF kmalloc
<1>3. CASE kmalloc_take BY <1>3, TakeKeeps
<1>4. CASE kmalloc_grow BY <1>4, GrowKeeps
<1>5. CASE kmalloc_fails
  <2>1. ReqInv' BY <1>5, ConstantFacts DEF kmalloc_fails, ReqInv, NoRequest
  <2>. QED BY <1>1, <1>5, <2>1 DEF kmalloc_fails
<1>6. ASSUME NEW a \in held, kfree(a) PROVE IInv' BY <1>6, FreeKeeps
<1>7. CASE OtherPage BY <1>7, OtherKeeps
<1>8. CASE UNCHANGED vars
  <2>1. ReqInv' BY <1>8 DEF vars, IInv, ReqInv
  <2>. QED BY <1>1, <1>8, <2>1 DEF vars
<1>. QED BY <1>2, <1>3, <1>4, <1>5, <1>6, <1>7, <1>8 DEF Next, Working

(* The list is in order, its gaps are someone else's pages unless a merge  *)
(* has reached over one, and every allocation has a block of its own, after *)
(* any sequence of kmalloc, kfree and pages taken by the rest of the kernel. *)
THEOREM HeapInvariant == Spec => []IInv
<1>1. Init => IInv BY InitIInv
<1>2. IInv /\ [Next]_vars => IInv' BY NextIInv
<1>. QED BY <1>1, <1>2, PTL DEF Spec
-----------------------------------------------------------------------------
(* The type invariant follows: what the list and the allocations hold are  *)
(* units of the machine's memory.                                          *)
LEMMA IInvTypeOK == IInv => TypeOK
<1>. SUFFICES ASSUME IInv PROVE TypeOK OBVIOUS
<1>1. /\ Top \in Nat /\ Top <= TotalPages - 1 /\ Limit \in Nat
      /\ Limit <= TotalPages * PageUnits /\ TotalPages * PageUnits \in Nat
  BY LimitFacts DEF IInv
<1>2. used = 0 .. Top /\ others \subseteq KernelPages + 1 .. Top /\ free_pages \in 0 .. TotalPages
  BY ConstantFacts DEF IInv, PagesInv
<1>3. used \subseteq Pages /\ others \subseteq used BY <1>1, <1>2, ConstantFacts DEF Pages
<1>4. PICK t \in Nat : t = Limit /\ Listed(others, heap, t) BY <1>1 DEF IInv, ListInv
<1>5. PICK n \in Nat \ {0} : n = Len(heap) BY <1>4, ListedFacts
<1>6. \A i \in 1 .. n :
        /\ heap[i] \in Blocks /\ heap[i].addr \in Units /\ heap[i].size \in Units
        /\ heap[i].addr + HdrUnits \in Units
  <2>. SUFFICES ASSUME NEW i \in 1 .. n
                PROVE  /\ heap[i] \in Blocks /\ heap[i].addr \in Units /\ heap[i].size \in Units
                       /\ heap[i].addr + HdrUnits \in Units
    OBVIOUS
  <2>1. heap[i] \in Blocks /\ End(heap[i]) <= t BY <1>4, <1>5, ListedFacts
  <2>2. PICK a \in Nat, z \in Nat, e \in Nat :
          a = heap[i].addr /\ z = heap[i].size /\ e = End(heap[i]) /\ e = a + HdrUnits + z
    BY <2>1, BlockFacts
  <2>3. e <= TotalPages * PageUnits BY <1>1, <1>4, <2>1, <2>2
  <2>4. PICK m \in Nat : m = TotalPages * PageUnits BY <1>1
  <2>5. HdrUnits \in Nat BY ConstantFacts
  <2>6. a \in 0 .. m /\ z \in 0 .. m /\ a + HdrUnits \in 0 .. m BY <2>2, <2>3, <2>4, <2>5
  <2>. QED BY <2>1, <2>2, <2>4, <2>6 DEF Units
<1>7. heap \in Seq([addr : Units, size : Units, free : BOOLEAN])
  <2>1. \A i \in 1 .. n : heap[i] \in [addr : Units, size : Units, free : BOOLEAN]
    BY <1>6 DEF Blocks
  <2>2. heap \in Seq(Blocks) BY <1>4 DEF Listed
  <2>3. heap = [i \in 1 .. n |-> heap[i]]
    <3>1. heap \in [1 .. n -> Blocks] BY <1>5, <2>2, LenProperties, Zenon
    <3>. QED BY <3>1
  <2>4. heap \in [1 .. n -> [addr : Units, size : Units, free : BOOLEAN]] BY <2>1, <2>3
  <2>. QED BY <2>4, FunctionIsSeq
<1>8. req \in [want : 0 .. MaxRequest, cur : Nat] BY DEF IInv, ReqInv
<1>9. held \subseteq [ptr : Units, size : Units]
  <2>. SUFFICES ASSUME NEW a \in held PROVE a \in [ptr : Units, size : Units] OBVIOUS
  <2>1. a \in [ptr : Nat, size : Nat] BY DEF IInv, HeldInv
  <2>2. PICK b \in Taken(heap) : b.addr + HdrUnits = a.ptr /\ a.size <= b.size
    BY DEF IInv, HeldInv, Owned
  <2>3. PICK i \in 1 .. n : b = heap[i] BY <1>5 DEF Taken
  <2>4. a.ptr \in Units /\ b.size \in Units BY <1>6, <2>2, <2>3
  <2>5. a.size \in Units BY <1>1, <2>1, <2>2, <2>4 DEF Units
  <2>. QED BY <2>1, <2>4, <2>5
<1>. QED BY <1>2, <1>3, <1>7, <1>8, <1>9 DEF TypeOK

(* The state of the allocator has its type throughout. *)
THEOREM HeapTypeCorrect == Spec => []TypeOK
BY HeapInvariant, IInvTypeOK, PTL

(* free_pages is the number of pages that are not marked used. *)
THEOREM FreeCounterExact == Spec => []FreePagesMatch
<1>1. IInv => FreePagesMatch
  <2>. SUFFICES ASSUME IInv PROVE FreePagesMatch OBVIOUS
  <2>1. Top \in Nat /\ Top <= TotalPages - 1 BY LimitFacts DEF IInv
  <2>2. used = 0 .. Top /\ free_pages \in Nat /\ Top = TotalPages - 1 - free_pages
    BY DEF IInv, PagesInv, Top
  <2>3. Pages \ used = Top + 1 .. TotalPages - 1 BY <2>1, <2>2, ConstantFacts DEF Pages
  <2>4. PICK x \in Int, y \in Int : x = Top + 1 /\ y = TotalPages - 1 BY <2>1, ConstantFacts
  <2>5. Cardinality(x .. y) = IF x > y THEN 0 ELSE y - x + 1 BY FS_Interval, Zenon
  <2>6. Cardinality(x .. y) = free_pages BY <2>1, <2>2, <2>4, <2>5, ConstantFacts
  <2>. QED BY <2>3, <2>4, <2>6 DEF FreePagesMatch
<1>. QED BY <1>1, HeapInvariant, PTL

(* No block reaches over a foreign page: the list says so. *)
LEMMA ContiguousFacts ==
  ASSUME BlocksContiguous
  PROVE  \A i \in 1 .. Len(heap) : ~Reaches(others, heap[i])
BY DEF BlocksContiguous, Reaches

(* A unit of a block lies in a page of the heap. *)
LEMMA BlockInPages ==
  ASSUME IInv, BlocksContiguous, NEW i \in 1 .. Len(heap),
         NEW u \in heap[i].addr .. End(heap[i]) - 1
  PROVE  PageOf(u) \in HeapPages
<1>1. /\ Top \in Nat /\ Limit \in Nat /\ Limit = (Top + 1) * PageUnits
      /\ KernelPages * PageUnits \in Nat
  BY LimitFacts DEF IInv
<1>2. Listed(others, heap, Limit) BY DEF IInv, ListInv
<1>3. /\ heap[i].addr \in Nat /\ End(heap[i]) \in Nat /\ End(heap[i]) <= Limit
      /\ \A j \in 1 .. i - 1 : End(heap[j]) <= heap[i].addr
  BY <1>1, <1>2, ListedFacts
<1>4. KernelPages * PageUnits <= heap[i].addr
  <2>1. heap[1].addr = KernelPages * PageUnits BY <1>2 DEF Listed
  <2>2. CASE i = 1 BY <1>1, <2>1, <2>2
  <2>3. CASE i # 1
    <3>1. Len(heap) \in Nat /\ 1 \in 1 .. Len(heap) BY <1>1, <1>2, ListedFacts
    <3>2. 1 \in 1 .. i - 1 BY <2>3, <3>1
    <3>3. End(heap[1]) <= heap[i].addr BY <1>3, <3>2
    <3>4. End(heap[1]) \in Nat /\ heap[1].addr \in Nat /\ heap[1].addr < End(heap[1])
      BY <1>1, <1>2, <3>1, ListedFacts
    <3>. QED BY <1>1, <1>3, <2>1, <3>3, <3>4
  <2>. QED BY <2>2, <2>3
<1>5. u \in Nat /\ KernelPages * PageUnits <= u /\ u < (Top + 1) * PageUnits
  BY <1>1, <1>3, <1>4
<1>6. Top + 1 \in Nat /\ KernelPages \in Nat BY <1>1, ConstantFacts
<1>7. PageOf(u) \in Nat /\ KernelPages <= PageOf(u) /\ PageOf(u) < Top + 1
  BY <1>5, <1>6, PageOfBounds
<1>8. PageOf(u) \notin others BY DEF BlocksContiguous
<1>9. PageOf(u) \in used BY <1>1, <1>7 DEF IInv, PagesInv
<1>. QED BY <1>6, <1>7, <1>8, <1>9 DEF HeapPages

(* Different blocks share no unit. *)
LEMMA BlocksApart ==
  ASSUME IInv, NEW i \in 1 .. Len(heap), NEW j \in 1 .. Len(heap),
         NEW u \in heap[i].addr .. End(heap[i]) - 1, u \in heap[j].addr .. End(heap[j]) - 1
  PROVE  i = j
<1>1. Limit \in Nat /\ Listed(others, heap, Limit) BY LimitFacts DEF IInv, ListInv
<1>2. /\ Len(heap) \in Nat
      /\ heap[i].addr \in Nat /\ End(heap[i]) \in Nat /\ heap[j].addr \in Nat /\ End(heap[j]) \in Nat
      /\ \A k \in 1 .. i - 1 : End(heap[k]) <= heap[i].addr
      /\ \A k \in 1 .. j - 1 : End(heap[k]) <= heap[j].addr
  BY <1>1, ListedFacts
<1>3. ~(i < j)
  <2>. SUFFICES ASSUME i < j PROVE FALSE OBVIOUS
  <2>1. i \in 1 .. j - 1 BY <1>2
  <2>2. End(heap[i]) <= heap[j].addr BY <1>2, <2>1
  <2>. QED BY <1>2, <2>2
<1>4. ~(j < i)
  <2>. SUFFICES ASSUME j < i PROVE FALSE OBVIOUS
  <2>1. j \in 1 .. i - 1 BY <1>2
  <2>2. End(heap[j]) <= heap[i].addr BY <1>2, <2>1
  <2>. QED BY <1>2, <2>2
<1>. QED BY <1>2, <1>3, <1>4

(* What kmalloc returned is the caller's alone until it is freed: inside   *)
(* the heap's pages, over no other allocation and no header, until kfree   *)
(* has merged over a foreign page.                                         *)
THEOREM AllocationsStayApart == Spec => []AllocationsApart
<1>1. IInv => AllocationsApart
  <2>. SUFFICES ASSUME IInv, BlocksContiguous, NEW a \in held
                PROVE  /\ \A u \in Span(a) : PageOf(u) \in HeapPages
                       /\ \A b \in held \ {a} : Span(a) \cap Span(b) = {}
                       /\ \A i \in 1 .. Len(heap) : Span(a) \cap Header(heap[i]) = {}
    BY DEF AllocationsApart
  <2>0. Limit \in Nat /\ Listed(others, heap, Limit) BY LimitFacts DEF IInv, ListInv
  <2>1. ASSUME NEW c \in held
        PROVE  \E i \in 1 .. Len(heap) :
                 /\ heap[i].addr + HdrUnits = c.ptr
                 /\ \A u \in Span(c) : /\ u \in heap[i].addr .. End(heap[i]) - 1
                                       /\ u \notin Header(heap[i])
    <3>1. PICK b \in Taken(heap) : b.addr + HdrUnits = c.ptr /\ c.size <= b.size
      BY DEF IInv, HeldInv, Owned
    <3>2. PICK i \in 1 .. Len(heap) : b = heap[i] BY DEF Taken
    <3>3. b \in Blocks BY <2>0, <3>2, ListedFacts
    <3>4. PICK x \in Nat, z \in Nat, e \in Nat :
            x = b.addr /\ z = b.size /\ e = End(b) /\ e = x + HdrUnits + z
      BY <3>3, BlockFacts
    <3>5. c.ptr \in Nat /\ c.size \in Nat BY DEF IInv, HeldInv
    <3>6. PICK p \in Nat, s \in Nat : p = c.ptr /\ s = c.size BY <3>5
    <3>7. p = x + HdrUnits /\ s <= z /\ HdrUnits \in Nat BY <3>1, <3>4, <3>6, ConstantFacts
    <3>8. Span(c) = p .. p + s - 1 BY <3>6 DEF Span
    <3>9. Header(b) = x .. x + HdrUnits - 1 BY <3>4 DEF Header
    <3>10. \A u \in p .. p + s - 1 : u \in x .. e - 1 /\ u \notin x .. x + HdrUnits - 1
      <4>. TAKE u \in p .. p + s - 1
      <4>1. PICK h \in Nat : h = HdrUnits BY <3>7
      <4>2. e = x + h + z /\ p = x + h /\ s <= z BY <3>4, <3>7, <4>1
      <4>3. u \in x .. e - 1 /\ u \notin x .. x + h - 1 BY <4>2
      <4>. QED BY <4>1, <4>3
    <3>. QED BY <3>1, <3>2, <3>4, <3>8, <3>9, <3>10
  <2>2. PICK i \in 1 .. Len(heap) :
          /\ heap[i].addr + HdrUnits = a.ptr
          /\ \A u \in Span(a) : /\ u \in heap[i].addr .. End(heap[i]) - 1
                                /\ u \notin Header(heap[i])
    BY <2>1
  <2>3. \A u \in Span(a) : PageOf(u) \in HeapPages BY <2>2, BlockInPages
  <2>4. ASSUME NEW b \in held \ {a}, NEW u \in Span(a), u \in Span(b) PROVE FALSE
    <3>1. PICK j \in 1 .. Len(heap) :
            /\ heap[j].addr + HdrUnits = b.ptr
            /\ \A v \in Span(b) : v \in heap[j].addr .. End(heap[j]) - 1
      BY <2>1
    <3>2. u \in heap[i].addr .. End(heap[i]) - 1 /\ u \in heap[j].addr .. End(heap[j]) - 1
      BY <2>2, <2>4, <3>1
    <3>3. i = j BY <3>2, BlocksApart
    <3>4. a.ptr = b.ptr BY <2>2, <3>1, <3>3
    <3>. QED BY <3>4 DEF IInv, HeldInv, Owned
  <2>5. ASSUME NEW j \in 1 .. Len(heap), NEW u \in Span(a), u \in Header(heap[j]) PROVE FALSE
    <3>1. heap[j] \in Blocks BY <2>0, ListedFacts
    <3>2. PICK x \in Nat, e \in Nat : x = heap[j].addr /\ e = End(heap[j]) /\ x + HdrUnits < e
      BY <3>1, BlockFacts
    <3>3. u \in x .. e - 1
      <4>1. u \in x .. x + HdrUnits - 1 BY <2>5, <3>2 DEF Header
      <4>. QED BY <3>2, <4>1, ConstantFacts
    <3>4. u \in heap[i].addr .. End(heap[i]) - 1 /\ u \in heap[j].addr .. End(heap[j]) - 1
      BY <2>2, <3>2, <3>3
    <3>5. i = j BY <3>4, BlocksApart
    <3>. QED BY <2>2, <2>5, <3>5
  <2>. QED BY <2>3, <2>4, <2>5
<1>. QED BY <1>1, HeapInvariant, PTL

(* No memory is lost by any sequence of calls: every unit of the heap's    *)
(* pages is in exactly one block, and one block is left when all is freed, *)
(* until kfree has merged over a foreign page.                             *)
THEOREM HeapStaysTiled == Spec => []HeapTiles
<1>1. ASSUME IInv, BlocksContiguous, NEW u \in Units, PageOf(u) \in HeapPages
      PROVE  Cardinality({i \in 1 .. Len(heap) : heap[i].addr <= u /\ u < End(heap[i])}) = 1
  <2>1. /\ Top \in Nat /\ Limit \in Nat /\ Limit = (Top + 1) * PageUnits
        /\ TotalPages * PageUnits \in Nat
    BY <1>1, LimitFacts DEF IInv
  <2>2. Listed(others, heap, Limit) BY <1>1 DEF IInv, ListInv
  <2>3. u \in Nat BY <2>1 DEF Units
  <2>4. PageOf(u) \in 0 .. Top /\ PageOf(u) \notin others /\ KernelPages <= PageOf(u)
    BY <1>1, <2>1, ConstantFacts DEF HeapPages, IInv, PagesInv
  <2>5. KernelPages * PageUnits <= u
    <3>1. PageOf(u) \in Nat /\ PageOf(u) * PageUnits <= u BY <2>3, PageOfBounds
    <3>2. KernelPages \in Nat BY ConstantFacts
    <3>3. /\ KernelPages * PageUnits <= PageOf(u) * PageUnits
          /\ KernelPages * PageUnits \in Nat /\ PageOf(u) * PageUnits \in Nat
      BY <2>4, <3>1, <3>2, PagesGrow
    <3>. QED BY <2>3, <3>1, <3>3
  <2>6. u < Limit
    <3>. SUFFICES ASSUME (Top + 1) * PageUnits <= u PROVE FALSE BY <2>1, <2>3
    <3>1. Top + 1 \in Nat BY <2>1
    <3>2. Top + 1 <= PageOf(u) BY <2>3, <3>1, PageOfBounds
    <3>. QED BY <2>1, <2>4, <3>2
  <2>7. \A i \in 1 .. Len(heap) : ~Reaches(others, heap[i]) BY <1>1, ContiguousFacts
  <2>8. PICK i \in 1 .. Len(heap) : heap[i].addr <= u /\ u < End(heap[i])
    BY <2>1, <2>2, <2>3, <2>4, <2>5, <2>6, <2>7, NothingLost
  <2>9. \A j \in 1 .. Len(heap) : heap[j].addr \in Nat /\ End(heap[j]) \in Nat
    BY <2>1, <2>2, ListedFacts
  <2>10. ASSUME NEW j \in 1 .. Len(heap), heap[j].addr <= u, u < End(heap[j]) PROVE j = i
    <3>1. u \in heap[i].addr .. End(heap[i]) - 1 BY <2>3, <2>8, <2>9
    <3>2. u \in heap[j].addr .. End(heap[j]) - 1 BY <2>3, <2>9, <2>10
    <3>. QED BY <1>1, <3>1, <3>2, BlocksApart
  <2>11. {j \in 1 .. Len(heap) : heap[j].addr <= u /\ u < End(heap[j])} = {i}
    BY <2>8, <2>10
  <2>. QED BY <2>11, FS_Singleton
<1>2. ASSUME IInv, held = {}, others = {} PROVE Len(heap) = 1
  <2>1. Limit \in Nat /\ Listed({}, heap, Limit) BY <1>2, LimitFacts DEF IInv, ListInv
  <2>2. Len(heap) \in Nat \ {0} BY <2>1, ListedFacts
  <2>. SUFFICES ASSUME Len(heap) # 1 PROVE FALSE OBVIOUS
  <2>3. 1 \in 1 .. Len(heap) /\ 2 \in 1 .. Len(heap) /\ 1 \in 1 .. Len(heap) - 1
    <3>1. PICK n \in Nat : n = Len(heap) /\ n # 0 /\ n # 1 BY <2>2
    <3>2. 1 \in 1 .. n /\ 2 \in 1 .. n /\ 1 \in 1 .. n - 1 BY <3>1
    <3>. QED BY <3>1, <3>2
  <2>4. Taken(heap) = {} BY <1>2 DEF IInv, HeldInv, Owned
  <2>5. heap[1].free /\ heap[1 + 1].free
    <3>1. \A i \in 1 .. Len(heap) : heap[i].free BY <2>4 DEF Taken
    <3>2. 1 + 1 = 2 OBVIOUS
    <3>. QED BY <2>3, <3>1, <3>2
  <2>6. End(heap[1]) < heap[2].addr BY <1>2, <2>3, <2>5 DEF IInv, ListInv, FreeApart
  <2>7. End(heap[1]) \in Nat /\ heap[2].addr \in Nat BY <2>1, <2>3, ListedFacts
  <2>8. GapForeign({}, heap, Limit, 1) BY <2>1, <2>3 DEF Listed
  <2>9. Start(heap, Limit, 1 + 1) = heap[2].addr BY <2>2, <2>3 DEF Start
  <2>10. Foreign({}, End(heap[1]), heap[2].addr) BY <2>8, <2>9 DEF GapForeign, Reaches
  <2>11. End(heap[1]) \in End(heap[1]) .. heap[2].addr - 1 BY <2>6, <2>7
  <2>. QED BY <2>10, <2>11 DEF Foreign
<1>3. IInv => HeapTiles BY <1>1, <1>2 DEF HeapTiles
<1>. QED BY <1>3, HeapInvariant, PTL
=============================================================================
