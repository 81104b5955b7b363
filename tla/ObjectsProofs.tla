--------------------------- MODULE ObjectsProofs ---------------------------
(***************************************************************************)
(* Proofs about the kernel heap and the handles of tasks, for any sizes of *)
(* pages and classes, any layouts and any number of tasks and handles.     *)
(***************************************************************************)
EXTENDS Objects, FiniteSetTheorems, WellFoundedInduction, TLAPS

Cl == DOMAIN Classes

(***************************************************************************)
(* The inductive invariant.  The heap is seen as a set of blocks, pairs of *)
(* an address and a size, whether they are free or hold a value: taking a  *)
(* block off a list, and putting the block of a box back, do not change    *)
(* that set; carving a page adds blocks, and dropping an Arc shrinks one.  *)
(* The operators take the free lists and the values as parameters, because *)
(* one allocation carves and then takes.                                   *)
(***************************************************************************)
IsBlock(f, lv, a, n) ==
  \/ \E c \in Cl : (\E i \in DOMAIN f[c] : f[c][i] = a) /\ n = Classes[c]
  \/ lv[a] # None /\ n = Classes[class(lv[a])]

Sizes == {Classes[c] : c \in Cl}

\* No address is twice in the lists, and none of them holds a value.
FreeOnce(f, lv) ==
  /\ \A c, d \in Cl : \A i \in DOMAIN f[c], j \in DOMAIN f[d] :
       f[c][i] = f[d][j] => c = d /\ i = j
  /\ \A c \in Cl : \A i \in DOMAIN f[c] : lv[f[c][i]] = None

\* Blocks are aligned to their size and below the next heap page.
Shape(f, lv, top) ==
  \A a \in Addr, n \in Sizes : IsBlock(f, lv, a, n) => a % n = 0 /\ a + n <= top

Apart(f, lv) ==
  \A a, b \in Addr, n, m \in Sizes :
    IsBlock(f, lv, a, n) /\ IsBlock(f, lv, b, m) /\ a # b => a + n <= b \/ b + m <= a

\* Every byte of a mapped page is in a block or lost, and no other byte is.
Covers(f, lv, gone, pages) ==
  \A x \in Nat :
    (x \in gone \/ \E a \in Addr, n \in Sizes : IsBlock(f, lv, a, n) /\ x \in Bytes(a, n))
      <=> \E p \in pages : x \in Bytes(p, PageSize)

\* Free lists f and values lv make up the heap below top.
HeapOK(f, lv, top, gone, pages) ==
  /\ f \in [Cl -> Seq(Addr)] /\ lv \in [Addr -> Layouts \cup {None}]
  /\ FreeOnce(f, lv) /\ Shape(f, lv, top) /\ Apart(f, lv) /\ Covers(f, lv, gone, pages)

HeapInv ==
  /\ HeapTypeOK
  /\ lost \subseteq Nat
  /\ ptr % PageSize = 0
  /\ HeapOK(free, live, ptr, lost, mapped)

IInv == HeapInv /\ RefsExact

-----------------------------------------------------------------------------
(* Numbers.                                                                *)

\* A set of numbers that is not empty has a least element.
LEMMA LeastNumber ==
  ASSUME NEW T, T \subseteq Nat, T # {}
  PROVE  \E x \in T : \A y \in T : x <= y
  <1>1. PICK x \in T : \A y \in T : ~(<<y, x>> \in OpToRel(<, Nat))
    BY WFMin, NatLessThanWellFounded
  <1>2. ASSUME NEW y \in T PROVE x <= y
    <2>1. x \in Nat /\ y \in Nat
      OBVIOUS
    <2>2. ~(y < x)
      BY <1>1, <2>1 DEF OpToRel
    <2> QED BY <2>1, <2>2
  <1> QED BY <1>2

\* Multiples and remainders.
LEMMA Multiple ==
  ASSUME NEW n \in Nat \ {0}, NEW x \in Nat
  PROVE  /\ x % n = 0 => \E k \in Nat : x = n * k
         /\ \A k \in Nat : x = n * k => x % n = 0
  <1>1. x = n * (x \div n) + (x % n) /\ (x % n) \in 0 .. n - 1 /\ x \div n \in Nat
    OBVIOUS
  <1>2. ASSUME NEW k \in Nat, x = n * k PROVE x % n = 0
    BY <1>2
  <1>3. x % n = 0 => x = n * (x \div n)
    BY <1>1
  <1> QED BY <1>1, <1>2, <1>3

\* A multiple of a multiple.
LEMMA MultipleTrans ==
  ASSUME NEW x \in Nat, NEW m \in Nat \ {0}, NEW n \in Nat \ {0}, x % m = 0, m % n = 0
  PROVE  x % n = 0
  <1>1. PICK k \in Nat : x = m * k
    BY Multiple
  <1>2. PICK j \in Nat : m = n * j
    BY Multiple
  <1>3. j * k \in Nat /\ x = n * (j * k)
    BY <1>1, <1>2
  <1> QED BY <1>3, Multiple

\* The next multiple is at least one step away.
LEMMA NextMultiple ==
  ASSUME NEW n \in Nat \ {0}, NEW j \in Nat, NEW k \in Nat, j < k
  PROVE  n * j + n <= n * k
  <1>1. PICK e \in Nat : k = j + 1 + e
    <2>1. k - (j + 1) \in Nat /\ k = j + 1 + (k - (j + 1))
      OBVIOUS
    <2> QED BY <2>1
  <1>2. n * k = n * j + n + n * e /\ n * e \in Nat /\ n * j \in Nat
    BY <1>1
  <1> QED BY <1>2

-----------------------------------------------------------------------------
(* Classes and layouts.                                                    *)

\* What the assumptions say of pages, addresses and classes.
LEMMA SizeFacts ==
  /\ PageSize \in Nat \ {0} /\ MaxPages \in Nat /\ MaxPages * PageSize \in Nat
  /\ Addr \subseteq Nat
  /\ Cl \subseteq Nat \ {0} /\ 1 \in Cl
  /\ \A c \in Cl : Classes[c] \in Nat \ {0} /\ PageSize % Classes[c] = 0
  /\ \A c \in Cl : Classes[c] % Classes[1] = 0 /\ Classes[1] <= Classes[c]
  /\ Sizes \subseteq Nat \ {0}
  /\ None \notin Addr /\ None \notin Layouts
  <1>1. PageSize \in Nat \ {0} /\ MaxPages \in Nat /\ MaxPages * PageSize \in Nat
    BY HeapAssumption
  <1>2. Addr \subseteq Nat
    BY <1>1 DEF Addr
  <1>3. \A c \in Cl : Classes[c] \in Nat \ {0} /\ PageSize % Classes[c] = 0
    BY HeapAssumption DEF Cl
  <1>4. Cl = 1 .. Len(Classes) /\ Len(Classes) \in Nat
    BY HeapAssumption DEF Cl
  <1>5. 1 \in Cl
    <2>1. PtrLayout \in Layouts
      BY DEF Layouts
    <2>2. PICK c \in Cl : TRUE
      BY <2>1, HeapAssumption DEF Cl
    <2> QED BY <2>2, <1>4
  <1>6. ASSUME NEW c \in Cl PROVE Classes[c] % Classes[1] = 0 /\ Classes[1] <= Classes[c]
    <2>1. CASE c = 1
      BY <2>1, <1>3, <1>5
    <2>2. CASE c # 1
      <3>1. 1 < c
        BY <2>2, <1>4
      <3>2. Classes[1] < Classes[c] /\ Classes[c] % Classes[1] = 0
        BY <3>1, <1>5, HeapAssumption DEF Cl
      <3> QED BY <3>2, <1>3, <1>5
    <2> QED BY <2>1, <2>2
  <1>7. Sizes \subseteq Nat \ {0}
    BY <1>3 DEF Sizes
  <1>8. None \notin Addr /\ None \notin Layouts
    BY HeapAssumption
  <1> QED BY <1>1, <1>2, <1>3, <1>4, <1>5, <1>6, <1>7, <1>8

\* SizeClass::fits finds a class for every layout.
LEMMA ClassFits ==
  ASSUME NEW l \in Layouts
  PROVE  /\ class(l) \in Cl /\ fits(class(l), l)
         /\ l.size <= Classes[class(l)]
         /\ Classes[class(l)] % l.align = 0
  <1> DEFINE T == {c \in Cl : fits(c, l)}
  <1>1. T \subseteq Nat /\ T # {}
    BY HeapAssumption DEF Cl
  <1>2. PICK c \in T : \A d \in T : c <= d
    BY <1>1, LeastNumber
  <1>3. c \in DOMAIN Classes /\ fits(c, l) /\ \A d \in DOMAIN Classes : d < c => ~fits(d, l)
    <2>1. ASSUME NEW d \in DOMAIN Classes, d < c PROVE ~fits(d, l)
      <3>1. d \in Nat /\ c \in Nat
        BY <1>1, HeapAssumption
      <3> QED BY <1>2, <2>1, <3>1 DEF Cl
    <2> QED BY <2>1 DEF Cl
  <1>4. class(l) \in DOMAIN Classes /\ fits(class(l), l)
    BY <1>3 DEF class
  <1>5. l.size \in Nat /\ l.align \in Nat /\ Classes[class(l)] \in Nat /\ Classes[class(l)] % l.align = 0
    BY <1>4, HeapAssumption
  <1> QED BY <1>4, <1>5 DEF fits, Cl

-----------------------------------------------------------------------------
(* What the operations of the allocator do to the blocks.                  *)

\* The size of a block is the size of a class.
LEMMA BlockSize ==
  ASSUME NEW f, NEW lv \in [Addr -> Layouts \cup {None}], NEW a \in Addr, NEW n, IsBlock(f, lv, a, n)
  PROVE  n \in Sizes /\ n \in Nat \ {0}
  BY ClassFits, SizeFacts DEF IsBlock, Sizes

\* One address is one block.
LEMMA OneBlock ==
  ASSUME NEW f, NEW lv, NEW a, NEW n, NEW m, FreeOnce(f, lv), IsBlock(f, lv, a, n), IsBlock(f, lv, a, m)
  PROVE  n = m
  BY DEF IsBlock, FreeOnce

\* alloc_uninitialized takes the first block off the list of class c for a value
\* with layout l: the blocks stay what they are.
LEMMA TakeBlock ==
  ASSUME NEW f, NEW lv, NEW top \in Nat, NEW gone, NEW pages, HeapOK(f, lv, top, gone, pages),
         NEW c \in Cl, NEW l \in Layouts, class(l) = c, f[c] # <<>>
  PROVE  /\ Head(f[c]) \in Addr /\ lv[Head(f[c])] = None
         /\ HeapOK([f EXCEPT ![c] = Tail(f[c])], [lv EXCEPT ![Head(f[c])] = l], top, gone, pages)
  <1> SUFFICES ASSUME f \in [Cl -> Seq(Addr)], lv \in [Addr -> Layouts \cup {None}],
                      FreeOnce(f, lv), Shape(f, lv, top), Apart(f, lv), Covers(f, lv, gone, pages),
                      NEW g, g = [f EXCEPT ![c] = Tail(f[c])],
                      NEW lw, lw = [lv EXCEPT ![Head(f[c])] = l]
               PROVE  Head(f[c]) \in Addr /\ lv[Head(f[c])] = None /\ HeapOK(g, lw, top, gone, pages)
    BY DEF HeapOK
  <1> DEFINE h == Head(f[c])
  <1>1. /\ f[c] \in Seq(Addr) /\ Len(f[c]) \in Nat /\ Len(f[c]) > 0 /\ 1 \in DOMAIN f[c] /\ h = f[c][1] /\ h \in Addr
        /\ DOMAIN f[c] = 1 .. Len(f[c])
    OBVIOUS
  <1>2. lv[h] = None
    BY <1>1 DEF FreeOnce
  <1>3. g \in [Cl -> Seq(Addr)] /\ lw \in [Addr -> Layouts \cup {None}]
    BY <1>1
  <1>4. \A d \in Cl : d # c => g[d] = f[d]
    OBVIOUS
  <1>5. g[c] = Tail(f[c]) /\ DOMAIN g[c] = 1 .. Len(f[c]) - 1
        /\ \A i \in DOMAIN g[c] : i + 1 \in DOMAIN f[c] /\ g[c][i] = f[c][i + 1] /\ i + 1 # 1
    BY <1>1
  <1>6. \A i \in DOMAIN f[c] : i # 1 => i - 1 \in DOMAIN g[c] /\ g[c][i - 1] = f[c][i]
    BY <1>1, <1>5
  <1>7. \A x \in Addr : lw[x] = IF x = h THEN l ELSE lv[x]
    BY <1>1
  <1> HIDE DEF h
  <1>8. FreeOnce(g, lw)
    <2>1. ASSUME NEW d \in Cl, NEW e \in Cl, NEW i \in DOMAIN g[d], NEW j \in DOMAIN g[e], g[d][i] = g[e][j]
          PROVE  d = e /\ i = j
      <3>1. CASE d = c /\ e = c
        <4>1. i + 1 = j + 1
          BY <2>1, <3>1, <1>5 DEF FreeOnce
        <4> QED BY <4>1, <3>1, <1>5
      <3>2. CASE d = c /\ e # c
        BY <2>1, <3>2, <1>4, <1>5 DEF FreeOnce
      <3>3. CASE d # c /\ e = c
        BY <2>1, <3>3, <1>4, <1>5 DEF FreeOnce
      <3>4. CASE d # c /\ e # c
        BY <2>1, <3>4, <1>4 DEF FreeOnce
      <3> QED BY <3>1, <3>2, <3>3, <3>4
    <2>2. ASSUME NEW d \in Cl, NEW i \in DOMAIN g[d] PROVE lw[g[d][i]] = None
      <3>1. g[d][i] \in Addr
        BY <1>3
      <3>2. CASE d = c
        <4>1. i + 1 \in DOMAIN f[c] /\ g[d][i] = f[c][i + 1] /\ i + 1 # 1
          BY <1>5, <3>2
        <4>2. f[c][i + 1] # h /\ lv[f[c][i + 1]] = None
          BY <4>1, <1>1 DEF FreeOnce
        <4> QED BY <4>1, <4>2, <3>1, <1>7
      <3>3. CASE d # c
        <4>1. g[d][i] = f[d][i] /\ i \in DOMAIN f[d]
          BY <3>3, <1>4
        <4>2. f[d][i] # h /\ lv[f[d][i]] = None
          BY <4>1, <3>3, <1>1 DEF FreeOnce
        <4> QED BY <4>1, <4>2, <3>1, <1>7
      <3> QED BY <3>2, <3>3
    <2> QED BY <2>1, <2>2 DEF FreeOnce
  <1>9. ASSUME NEW x \in Addr, NEW n PROVE IsBlock(g, lw, x, n) <=> IsBlock(f, lv, x, n)
    <2>1. CASE x = h
      <3>1. IsBlock(f, lv, h, Classes[c])
        BY <1>1 DEF IsBlock
      <3>2. lw[h] = l /\ l # None
        BY <1>1, <1>7, SizeFacts
      <3>3. IsBlock(g, lw, h, Classes[c])
        BY <3>2 DEF IsBlock
      <3> QED BY <2>1, <3>1, <3>3, <1>8, OneBlock
    <2>2. CASE x # h
      <3>1. lw[x] = lv[x]
        BY <2>2, <1>7
      <3>2. ASSUME NEW d \in Cl
            PROVE  (\E i \in DOMAIN g[d] : g[d][i] = x) <=> (\E i \in DOMAIN f[d] : f[d][i] = x)
        <4>1. CASE d = c
          <5>1. ASSUME NEW i \in DOMAIN g[c], g[c][i] = x PROVE \E k \in DOMAIN f[c] : f[c][k] = x
            BY <5>1, <1>5
          <5>2. ASSUME NEW i \in DOMAIN f[c], f[c][i] = x PROVE \E k \in DOMAIN g[c] : g[c][k] = x
            <6>1. i # 1
              BY <5>2, <2>2, <1>1
            <6> QED BY <6>1, <5>2, <1>6
          <5> QED BY <4>1, <5>1, <5>2
        <4>2. CASE d # c
          BY <4>2, <1>4
        <4> QED BY <4>1, <4>2
      <3> QED BY <3>1, <3>2 DEF IsBlock
    <2> QED BY <2>1, <2>2
  <1>10. Shape(g, lw, top)
    BY <1>9 DEF Shape
  <1>11. Apart(g, lw)
    BY <1>9 DEF Apart
  <1>12. Covers(g, lw, gone, pages)
    BY <1>9 DEF Covers
  <1> QED BY <1>1, <1>2, <1>3, <1>8, <1>10, <1>11, <1>12 DEF h, HeapOK

\* free_layout puts the block of the value at a on the list of class c, which may
\* be smaller than the block: then the rest of the block is lost.
LEMMA GiveBlock ==
  ASSUME NEW f, NEW lv, NEW top \in Nat, NEW gone, NEW pages, HeapOK(f, lv, top, gone, pages),
         NEW a \in Addr, lv[a] # None, NEW c \in Cl,
         Classes[c] <= Classes[class(lv[a])], Classes[class(lv[a])] % Classes[c] = 0
  PROVE  HeapOK([f EXCEPT ![c] = <<a>> \o f[c]], [lv EXCEPT ![a] = None], top,
                gone \cup (Bytes(a, Classes[class(lv[a])]) \ Bytes(a, Classes[c])), pages)
  <1> SUFFICES ASSUME f \in [Cl -> Seq(Addr)], lv \in [Addr -> Layouts \cup {None}],
                      FreeOnce(f, lv), Shape(f, lv, top), Apart(f, lv), Covers(f, lv, gone, pages),
                      NEW g, g = [f EXCEPT ![c] = <<a>> \o f[c]],
                      NEW lw, lw = [lv EXCEPT ![a] = None]
               PROVE  HeapOK(g, lw, top,
                             gone \cup (Bytes(a, Classes[class(lv[a])]) \ Bytes(a, Classes[c])), pages)
    BY DEF HeapOK
  <1> DEFINE s == Classes[class(lv[a])]
             r == Classes[c]
  <1>1. /\ f[c] \in Seq(Addr) /\ Len(f[c]) \in Nat /\ DOMAIN f[c] = 1 .. Len(f[c])
        /\ g \in [Cl -> Seq(Addr)] /\ lw \in [Addr -> Layouts \cup {None}]
    OBVIOUS
  <1>2. /\ DOMAIN g[c] = 1 .. Len(f[c]) + 1 /\ g[c][1] = a /\ 1 \in DOMAIN g[c]
        /\ \A i \in DOMAIN f[c] : i + 1 \in DOMAIN g[c] /\ g[c][i + 1] = f[c][i]
        /\ \A i \in DOMAIN g[c] : i # 1 => i - 1 \in DOMAIN f[c] /\ g[c][i] = f[c][i - 1]
    BY <1>1
  <1>3. \A d \in Cl : d # c => g[d] = f[d]
    OBVIOUS
  <1>4. \A x \in Addr : lw[x] = IF x = a THEN None ELSE lv[x]
    OBVIOUS
  <1>5. \A d \in Cl : \A i \in DOMAIN f[d] : f[d][i] # a /\ f[d][i] \in Addr
    BY DEF FreeOnce
  <1>6. FreeOnce(g, lw)
    <2>1. ASSUME NEW d \in Cl, NEW e \in Cl, NEW i \in DOMAIN g[d], NEW j \in DOMAIN g[e], g[d][i] = g[e][j]
          PROVE  d = e /\ i = j
      <3>1. CASE d = c /\ e = c
        <4>1. CASE i = 1 \/ j = 1
          BY <2>1, <3>1, <4>1, <1>2, <1>5
        <4>2. CASE i # 1 /\ j # 1
          <5>1. i - 1 = j - 1
            BY <2>1, <3>1, <4>2, <1>2 DEF FreeOnce
          <5> QED BY <5>1, <3>1, <1>2, <1>1
        <4> QED BY <4>1, <4>2
      <3>2. CASE d = c /\ e # c
        <4>1. j \in DOMAIN f[e] /\ g[e][j] = f[e][j]
          BY <3>2, <1>3
        <4>2. i # 1
          BY <4>1, <2>1, <3>2, <1>2, <1>5
        <4> QED BY <4>1, <4>2, <2>1, <3>2, <1>2 DEF FreeOnce
      <3>3. CASE d # c /\ e = c
        <4>1. i \in DOMAIN f[d] /\ g[d][i] = f[d][i]
          BY <3>3, <1>3
        <4>2. j # 1
          BY <4>1, <2>1, <3>3, <1>2, <1>5
        <4> QED BY <4>1, <4>2, <2>1, <3>3, <1>2 DEF FreeOnce
      <3>4. CASE d # c /\ e # c
        BY <2>1, <3>4, <1>3 DEF FreeOnce
      <3> QED BY <3>1, <3>2, <3>3, <3>4
    <2>2. ASSUME NEW d \in Cl, NEW i \in DOMAIN g[d] PROVE lw[g[d][i]] = None
      <3>1. g[d][i] = a \/ \E k \in DOMAIN f[d] : g[d][i] = f[d][k]
        BY <1>2, <1>3
      <3> QED BY <3>1, <1>4, <1>5 DEF FreeOnce
    <2> QED BY <2>1, <2>2 DEF FreeOnce
  <1>7. IsBlock(g, lw, a, r)
    BY <1>2 DEF IsBlock
  <1>8. IsBlock(f, lv, a, s) /\ s \in Sizes /\ r \in Sizes /\ s \in Nat \ {0} /\ r \in Nat \ {0} /\ r <= s /\ s % r = 0 /\ a \in Nat
    BY BlockSize, SizeFacts DEF IsBlock, Sizes
  <1>9. ASSUME NEW x \in Addr, NEW n, x # a PROVE IsBlock(g, lw, x, n) <=> IsBlock(f, lv, x, n)
    <2>1. lw[x] = lv[x]
      BY <1>4, <1>9
    <2>2. ASSUME NEW d \in Cl
          PROVE  (\E i \in DOMAIN g[d] : g[d][i] = x) <=> (\E i \in DOMAIN f[d] : f[d][i] = x)
      <3>1. CASE d = c
        <4>1. ASSUME NEW i \in DOMAIN g[c], g[c][i] = x PROVE \E k \in DOMAIN f[c] : f[c][k] = x
          <5>1. i # 1
            BY <4>1, <1>2, <1>9
          <5> QED BY <4>1, <5>1, <1>2
        <4>2. ASSUME NEW i \in DOMAIN f[c], f[c][i] = x PROVE \E k \in DOMAIN g[c] : g[c][k] = x
          BY <4>2, <1>2
        <4> QED BY <3>1, <4>1, <4>2
      <3>2. CASE d # c
        BY <3>2, <1>3
      <3> QED BY <3>1, <3>2
    <2> QED BY <2>1, <2>2 DEF IsBlock
  <1>10. \A n : IsBlock(g, lw, a, n) => n = r
    BY <1>6, <1>7, OneBlock
  <1>11. \A n : IsBlock(f, lv, a, n) => n = s
    BY <1>8, OneBlock
  <1> HIDE DEF s, r
  <1>12. Shape(g, lw, top)
    <2> SUFFICES ASSUME NEW x \in Addr, NEW n \in Sizes, IsBlock(g, lw, x, n) PROVE x % n = 0 /\ x + n <= top
      BY DEF Shape
    <2>1. CASE x = a
      <3>1. n = r /\ a % s = 0 /\ a + s <= top
        BY <2>1, <1>8, <1>10 DEF Shape
      <3>2. a % r = 0
        BY <3>1, <1>8, MultipleTrans
      <3> QED BY <3>1, <3>2, <2>1, <1>8
    <2>2. CASE x # a
      BY <2>2, <1>9 DEF Shape
    <2> QED BY <2>1, <2>2
  <1>13. Apart(g, lw)
    <2> SUFFICES ASSUME NEW x \in Addr, NEW y \in Addr, NEW n \in Sizes, NEW m \in Sizes,
                        IsBlock(g, lw, x, n), IsBlock(g, lw, y, m), x # y
                 PROVE  x + n <= y \/ y + m <= x
      BY DEF Apart
    <2>1. x \in Nat /\ y \in Nat /\ n \in Nat /\ m \in Nat
      BY SizeFacts
    <2>2. CASE x = a
      <3>1. n = r /\ IsBlock(f, lv, y, m)
        BY <2>2, <1>9, <1>10
      <3>2. a + s <= y \/ y + m <= a
        BY <3>1, <2>2, <1>8 DEF Apart
      <3> QED BY <3>1, <3>2, <2>1, <2>2, <1>8
    <2>3. CASE y = a
      <3>1. m = r /\ IsBlock(f, lv, x, n)
        BY <2>3, <1>9, <1>10
      <3>2. a + s <= x \/ x + n <= a
        BY <3>1, <2>3, <1>8 DEF Apart
      <3> QED BY <3>1, <3>2, <2>1, <2>3, <1>8
    <2>4. CASE x # a /\ y # a
      BY <2>4, <1>9 DEF Apart
    <2> QED BY <2>2, <2>3, <2>4
  <1>14. Covers(g, lw, gone \cup (Bytes(a, s) \ Bytes(a, r)), pages)
    <2> DEFINE G == gone \cup (Bytes(a, s) \ Bytes(a, r))
               Old(x) == \E b \in Addr, n \in Sizes : IsBlock(f, lv, b, n) /\ x \in Bytes(b, n)
               New(x) == \E b \in Addr, n \in Sizes : IsBlock(g, lw, b, n) /\ x \in Bytes(b, n)
    <2>1. Bytes(a, r) \subseteq Bytes(a, s)
      BY <1>8 DEF Bytes
    <2>2. ASSUME NEW x \in Nat, x \in gone \/ Old(x) PROVE x \in G \/ New(x)
      <3>1. CASE x \in gone
        BY <3>1
      <3>2. CASE Old(x)
        <4>1. PICK b \in Addr, n \in Sizes : IsBlock(f, lv, b, n) /\ x \in Bytes(b, n)
          BY <3>2
        <4>2. CASE b = a
          <5>1. x \in Bytes(a, s)
            BY <4>1, <4>2, <1>11
          <5>2. CASE x \in Bytes(a, r)
            BY <5>2, <1>7, <1>8
          <5>3. CASE x \notin Bytes(a, r)
            BY <5>1, <5>3
          <5> QED BY <5>2, <5>3
        <4>3. CASE b # a
          BY <4>1, <4>3, <1>9
        <4> QED BY <4>2, <4>3
      <3> QED BY <2>2, <3>1, <3>2
    <2>3. ASSUME NEW x \in Nat, x \in G \/ New(x) PROVE x \in gone \/ Old(x)
      <3>1. CASE x \in G
        BY <3>1, <1>8
      <3>2. CASE New(x)
        <4>1. PICK b \in Addr, n \in Sizes : IsBlock(g, lw, b, n) /\ x \in Bytes(b, n)
          BY <3>2
        <4>2. CASE b = a
          <5>1. x \in Bytes(a, s)
            BY <4>1, <4>2, <1>10, <2>1
          <5> QED BY <5>1, <1>8
        <4>3. CASE b # a
          BY <4>1, <4>3, <1>9
        <4> QED BY <4>2, <4>3
      <3> QED BY <2>3, <3>1, <3>2
    <2> QED BY <2>2, <2>3 DEF Covers
  <1> QED BY <1>1, <1>6, <1>12, <1>13, <1>14 DEF s, r, HeapOK

\* The pieces of a page of class c: they are in the page, apart, aligned, and all
\* of it.
LEMMA CarvedPieces ==
  ASSUME NEW c \in Cl, NEW top \in Addr, top % PageSize = 0,
         NEW q, q = Carved(top, Classes[c])
  PROVE  /\ top + PageSize <= MaxPages * PageSize
         /\ q \in Seq(Addr) /\ q # <<>>
         /\ \A i \in DOMAIN q : q[i] % Classes[c] = 0 /\ top <= q[i] /\ q[i] + Classes[c] <= top + PageSize
         /\ \A i, j \in DOMAIN q : i # j => q[i] + Classes[c] <= q[j] \/ q[j] + Classes[c] <= q[i]
         /\ \A x \in Nat : top <= x /\ x < top + PageSize =>
              \E i \in DOMAIN q : q[i] <= x /\ x < q[i] + Classes[c]
  <1> DEFINE s == Classes[c]
             N == PageSize \div s
  <1>1. s \in Nat \ {0} /\ PageSize \in Nat \ {0} /\ PageSize % s = 0 /\ top \in Nat /\ MaxPages \in Nat
        /\ MaxPages * PageSize \in Nat /\ top < MaxPages * PageSize
    BY SizeFacts DEF Addr
  <1>2. N \in Nat /\ PageSize = s * N
    BY <1>1
  <1>3. DOMAIN q = 1 .. N /\ Len(q) = N /\ \A i \in 1 .. N : q[i] = top + PageSize - i * s
    BY <1>2 DEF Carved
  <1> HIDE DEF s, N
  <1>4. N > 0
    <2>1. s * 0 = 0
      BY <1>1
    <2> QED BY <2>1, <1>1, <1>2
  <1>5. top + PageSize <= MaxPages * PageSize
    <2>1. PICK k \in Nat : top = PageSize * k
      BY <1>1, Multiple
    <2>2. k < MaxPages
      <3> SUFFICES ASSUME MaxPages <= k PROVE FALSE
        BY <1>1
      <3>1. MaxPages = k \/ MaxPages < k
        BY <1>1
      <3>2. MaxPages * PageSize = PageSize * MaxPages
        BY <1>1
      <3>3. CASE MaxPages < k
        <4>1. PageSize * MaxPages + PageSize <= PageSize * k
          BY <3>3, <1>1, NextMultiple
        <4> QED BY <4>1, <3>2, <2>1, <1>1
      <3> QED BY <3>1, <3>2, <3>3, <2>1, <1>1
    <2>3. PageSize * k + PageSize <= PageSize * MaxPages
      BY <2>2, <1>1, NextMultiple
    <2>4. PageSize * MaxPages = MaxPages * PageSize
      BY <1>1
    <2> QED BY <2>1, <2>3, <2>4
  <1>6. ASSUME NEW i \in 1 .. N PROVE q[i] = top + s * (N - i) /\ N - i \in Nat /\ N - i < N /\ s * (N - i) \in Nat
    <2>1. N - i \in Nat /\ N - i < N /\ i \in Nat
      BY <1>2
    <2>2. s * N = s * (N - i) + s * i /\ i * s = s * i /\ s * (N - i) \in Nat /\ s * i \in Nat
      BY <1>1, <1>2, <2>1
    <2> QED BY <2>1, <2>2, <1>1, <1>2, <1>3
  <1>7. ASSUME NEW i \in 1 .. N PROVE q[i] % s = 0 /\ top <= q[i] /\ q[i] + s <= top + PageSize /\ q[i] \in Nat
    <2>1. s * (N - i) + s <= s * N
      BY <1>1, <1>2, <1>6, NextMultiple
    <2>2. top <= q[i] /\ q[i] + s <= top + PageSize /\ q[i] \in Nat
      BY <2>1, <1>1, <1>2, <1>6
    <2>3. top % s = 0
      BY <1>1, MultipleTrans
    <2>4. PICK k \in Nat : top = s * k
      BY <2>3, <1>1, Multiple
    <2>5. k + (N - i) \in Nat /\ q[i] = s * (k + (N - i))
      BY <2>4, <1>1, <1>6
    <2>6. q[i] % s = 0
      BY <2>2, <2>5, <1>1, Multiple
    <2> QED BY <2>2, <2>6
  <1>8. q \in Seq(Addr) /\ q # <<>>
    <2>1. \A i \in 1 .. N : q[i] \in Addr
      BY <1>1, <1>5, <1>7 DEF Addr
    <2>2. q = [i \in 1 .. N |-> q[i]]
      BY DEF Carved, N, s
    <2>3. q \in Seq(Addr)
      BY <2>1, <2>2, <1>2
    <2> QED BY <2>3, <1>3, <1>4
  <1>9. ASSUME NEW i \in 1 .. N, NEW j \in 1 .. N, i < j PROVE q[j] + s <= q[i]
    <2>1. N - j < N - i
      BY <1>2, <1>9
    <2>2. s * (N - j) + s <= s * (N - i)
      BY <2>1, <1>1, <1>6, NextMultiple
    <2> QED BY <2>2, <1>1, <1>6
  <1>10. ASSUME NEW x \in Nat, top <= x, x < top + PageSize
         PROVE  \E i \in 1 .. N : q[i] <= x /\ x < q[i] + s
    <2> DEFINE y == x - top
               k == y \div s
    <2>1. y \in Nat /\ y < PageSize /\ x = top + y
      BY <1>1, <1>10
    <2>2. k \in Nat /\ y = s * k + (y % s) /\ (y % s) \in 0 .. s - 1
      BY <2>1, <1>1
    <2> HIDE DEF y, k
    <2>3. k < N
      <3> SUFFICES ASSUME N <= k PROVE FALSE
        BY <1>2, <2>2
      <3>1. s * N <= s * k
        <4>1. PICK e \in Nat : k = N + e
          <5>1. k - N \in Nat /\ k = N + (k - N)
            BY <1>2, <2>2
          <5> QED BY <5>1
        <4>2. s * k = s * N + s * e /\ s * e \in Nat /\ s * N \in Nat
          BY <4>1, <1>1, <1>2
        <4> QED BY <4>2
      <3> QED BY <3>1, <1>1, <1>2, <2>1, <2>2
    <2>4. N - k \in 1 .. N /\ N - (N - k) = k
      BY <1>2, <2>2, <2>3
    <2>5. q[N - k] = top + s * k
      BY <2>4, <1>6
    <2>6. s * k \in Nat
      BY <1>1, <2>2
    <2>7. q[N - k] <= x /\ x < q[N - k] + s
      BY <2>1, <2>2, <2>5, <2>6, <1>1
    <2> QED BY <2>4, <2>7
  <1>11. \A i, j \in 1 .. N : i # j => q[i] + s <= q[j] \/ q[j] + s <= q[i]
    <2>1. \A i, j \in 1 .. N : i # j => i < j \/ j < i
      BY <1>2
    <2> QED BY <2>1, <1>9
  <1> QED BY <1>3, <1>5, <1>7, <1>8, <1>10, <1>11 DEF s

\* alloc_uninitialized finds the list of class c empty and carves the next page.
LEMMA CarvePage ==
  ASSUME NEW f, NEW lv, NEW top \in Addr, NEW gone, NEW pages, HeapOK(f, lv, top, gone, pages),
         top % PageSize = 0, NEW c \in Cl, f[c] = <<>>
  PROVE  /\ Carved(top, Classes[c]) # <<>>
         /\ top + PageSize \in 0 .. MaxPages * PageSize /\ (top + PageSize) % PageSize = 0
         /\ HeapOK([f EXCEPT ![c] = Carved(top, Classes[c])], lv, top + PageSize, gone, pages \cup {top})
  <1> SUFFICES ASSUME f \in [Cl -> Seq(Addr)], lv \in [Addr -> Layouts \cup {None}],
                      FreeOnce(f, lv), Shape(f, lv, top), Apart(f, lv), Covers(f, lv, gone, pages),
                      NEW g, g = [f EXCEPT ![c] = Carved(top, Classes[c])]
               PROVE  /\ Carved(top, Classes[c]) # <<>>
                      /\ top + PageSize \in 0 .. MaxPages * PageSize /\ (top + PageSize) % PageSize = 0
                      /\ HeapOK(g, lv, top + PageSize, gone, pages \cup {top})
    BY DEF HeapOK
  <1> DEFINE s == Classes[c]
             q == Carved(top, s)
  <1>1. /\ top + PageSize <= MaxPages * PageSize
        /\ q \in Seq(Addr) /\ q # <<>>
        /\ \A i \in DOMAIN q : q[i] % s = 0 /\ top <= q[i] /\ q[i] + s <= top + PageSize
        /\ \A i, j \in DOMAIN q : i # j => q[i] + s <= q[j] \/ q[j] + s <= q[i]
        /\ \A x \in Nat : top <= x /\ x < top + PageSize =>
             \E i \in DOMAIN q : q[i] <= x /\ x < q[i] + s
    BY CarvedPieces
  <1>2. s \in Nat \ {0} /\ s \in Sizes /\ PageSize \in Nat \ {0} /\ top \in Nat
    BY SizeFacts DEF Sizes
  <1>3. g \in [Cl -> Seq(Addr)] /\ g[c] = q /\ \A d \in Cl : d # c => g[d] = f[d]
    BY <1>1
  <1> HIDE DEF q
  <1>4. \A i \in DOMAIN q : q[i] \in Addr /\ q[i] \in Nat
    <2>1. \A i \in DOMAIN q : q[i] \in Addr
      BY <1>1
    <2> QED BY <2>1, SizeFacts
  <1>5. ASSUME NEW x \in Addr, NEW n, IsBlock(f, lv, x, n) PROVE x + n <= top /\ x < top /\ x % n = 0 /\ n \in Nat \ {0} /\ x \in Nat
    <2>1. n \in Sizes /\ n \in Nat \ {0} /\ x \in Nat
      BY <1>5, BlockSize, SizeFacts
    <2>2. x + n <= top /\ x % n = 0
      BY <1>5, <2>1 DEF Shape
    <2> QED BY <2>1, <2>2, <1>2
  <1>6. \A d \in Cl : \A i \in DOMAIN f[d] : f[d][i] \in Addr /\ f[d][i] < top
    <2> SUFFICES ASSUME NEW d \in Cl, NEW i \in DOMAIN f[d] PROVE f[d][i] \in Addr /\ f[d][i] < top
      OBVIOUS
    <2>1. f[d][i] \in Addr
      OBVIOUS
    <2>2. IsBlock(f, lv, f[d][i], Classes[d])
      BY DEF IsBlock
    <2> QED BY <2>1, <2>2, <1>5
  <1>7. \A i \in DOMAIN q : lv[q[i]] = None
    <2> SUFFICES ASSUME NEW i \in DOMAIN q, lv[q[i]] # None PROVE FALSE
      OBVIOUS
    <2>1. IsBlock(f, lv, q[i], Classes[class(lv[q[i]])])
      BY DEF IsBlock
    <2>2. q[i] < top
      BY <2>1, <1>4, <1>5
    <2> QED BY <2>2, <1>1, <1>2, <1>4
  <1>8. FreeOnce(g, lv)
    <2>1. ASSUME NEW d \in Cl, NEW e \in Cl, NEW i \in DOMAIN g[d], NEW j \in DOMAIN g[e], g[d][i] = g[e][j]
          PROVE  d = e /\ i = j
      <3>1. CASE d = c /\ e = c
        <4>1. i \in DOMAIN q /\ j \in DOMAIN q /\ q[i] = q[j]
          BY <2>1, <3>1, <1>3
        <4>2. ~(q[i] + s <= q[j]) /\ ~(q[j] + s <= q[i])
          BY <4>1, <1>2, <1>4
        <4> QED BY <4>1, <4>2, <3>1, <1>1
      <3>2. CASE d = c /\ e # c
        <4>1. i \in DOMAIN q /\ j \in DOMAIN f[e] /\ q[i] = f[e][j]
          BY <2>1, <3>2, <1>3
        <4>2. f[e][j] < top /\ top <= q[i]
          BY <4>1, <1>1, <1>6
        <4> QED BY <4>1, <4>2, <1>2, <1>4
      <3>3. CASE d # c /\ e = c
        <4>1. j \in DOMAIN q /\ i \in DOMAIN f[d] /\ q[j] = f[d][i]
          BY <2>1, <3>3, <1>3
        <4>2. f[d][i] < top /\ top <= q[j]
          BY <4>1, <1>1, <1>6
        <4> QED BY <4>1, <4>2, <1>2, <1>4
      <3>4. CASE d # c /\ e # c
        BY <2>1, <3>4, <1>3 DEF FreeOnce
      <3> QED BY <3>1, <3>2, <3>3, <3>4
    <2>2. ASSUME NEW d \in Cl, NEW i \in DOMAIN g[d] PROVE lv[g[d][i]] = None
      BY <1>3, <1>7 DEF FreeOnce
    <2> QED BY <2>1, <2>2 DEF FreeOnce
  <1>9. ASSUME NEW x \in Addr, NEW n
        PROVE  IsBlock(g, lv, x, n) <=> IsBlock(f, lv, x, n) \/ (n = s /\ \E i \in DOMAIN q : q[i] = x)
    <2>1. \A d \in Cl : (\E i \in DOMAIN f[d] : f[d][i] = x) => d # c
      OBVIOUS
    <2> QED BY <2>1, <1>3 DEF IsBlock
  <1>10. Shape(g, lv, top + PageSize)
    <2> SUFFICES ASSUME NEW x \in Addr, NEW n \in Sizes, IsBlock(g, lv, x, n)
                 PROVE  x % n = 0 /\ x + n <= top + PageSize
      BY DEF Shape
    <2>1. CASE IsBlock(f, lv, x, n)
      BY <2>1, <1>2, <1>5
    <2>2. CASE n = s /\ \E i \in DOMAIN q : q[i] = x
      BY <2>2, <1>1
    <2> QED BY <2>1, <2>2, <1>9
  <1>11. Apart(g, lv)
    <2> SUFFICES ASSUME NEW x \in Addr, NEW y \in Addr, NEW n \in Sizes, NEW m \in Sizes,
                        IsBlock(g, lv, x, n), IsBlock(g, lv, y, m), x # y
                 PROVE  x + n <= y \/ y + m <= x
      BY DEF Apart
    <2>1. x \in Nat /\ y \in Nat /\ n \in Nat /\ m \in Nat
      BY SizeFacts
    <2>2. CASE IsBlock(f, lv, x, n) /\ IsBlock(f, lv, y, m)
      BY <2>2 DEF Apart
    <2>3. CASE IsBlock(f, lv, x, n) /\ \E i \in DOMAIN q : q[i] = y
      <3>1. x + n <= top /\ top <= y
        BY <2>3, <1>1, <1>5
      <3> QED BY <3>1, <2>1, <1>2
    <2>4. CASE IsBlock(f, lv, y, m) /\ \E i \in DOMAIN q : q[i] = x
      <3>1. y + m <= top /\ top <= x
        BY <2>4, <1>1, <1>5
      <3> QED BY <3>1, <2>1, <1>2
    <2>5. CASE n = s /\ m = s /\ (\E i \in DOMAIN q : q[i] = x) /\ (\E i \in DOMAIN q : q[i] = y)
      BY <2>5, <1>1
    <2> QED BY <2>2, <2>3, <2>4, <2>5, <1>9
  <1>12. Covers(g, lv, gone, pages \cup {top})
    <2> DEFINE Old(x) == \E b \in Addr, n \in Sizes : IsBlock(f, lv, b, n) /\ x \in Bytes(b, n)
               New(x) == \E b \in Addr, n \in Sizes : IsBlock(g, lv, b, n) /\ x \in Bytes(b, n)
    <2>1. ASSUME NEW x \in Nat PROVE New(x) <=> Old(x) \/ x \in Bytes(top, PageSize)
      <3>1. ASSUME Old(x) PROVE New(x)
        BY <3>1, <1>9
      <3>2. ASSUME x \in Bytes(top, PageSize) PROVE New(x)
        <4>1. top <= x /\ x < top + PageSize
          BY <3>2, <1>2 DEF Bytes
        <4>2. PICK i \in DOMAIN q : q[i] <= x /\ x < q[i] + s
          BY <4>1, <1>1
        <4>3. x \in Bytes(q[i], s) /\ q[i] \in Addr
          BY <4>2, <1>2, <1>4 DEF Bytes
        <4>4. IsBlock(g, lv, q[i], s)
          BY <4>3, <1>9
        <4> QED BY <4>3, <4>4, <1>2
      <3>3. ASSUME New(x) PROVE Old(x) \/ x \in Bytes(top, PageSize)
        <4>1. PICK b \in Addr, n \in Sizes : IsBlock(g, lv, b, n) /\ x \in Bytes(b, n)
          BY <3>3
        <4>2. CASE IsBlock(f, lv, b, n)
          BY <4>1, <4>2
        <4>3. CASE n = s /\ \E i \in DOMAIN q : q[i] = b
          <5>1. top <= b /\ b + s <= top + PageSize /\ b \in Nat
            BY <4>3, <1>1, <1>4
          <5>2. b <= x /\ x < b + s
            BY <4>1, <4>3, <5>1, <1>2 DEF Bytes
          <5>3. x \in Bytes(top, PageSize)
            BY <5>1, <5>2, <1>2 DEF Bytes
          <5> QED BY <5>3
        <4> QED BY <4>1, <4>2, <4>3, <1>9
      <3> QED BY <3>1, <3>2, <3>3
    <2>2. \A x \in Nat : (x \in gone \/ Old(x)) <=> \E p \in pages : x \in Bytes(p, PageSize)
      BY DEF Covers
    <2>3. \A x \in Nat : (x \in gone \/ New(x)) <=> \E p \in pages \cup {top} : x \in Bytes(p, PageSize)
      BY <2>1, <2>2
    <2> QED BY <2>3 DEF Covers
  <1>13. top + PageSize \in 0 .. MaxPages * PageSize /\ (top + PageSize) % PageSize = 0
    <2>1. PICK k \in Nat : top = PageSize * k
      BY <1>2, Multiple
    <2>2. k + 1 \in Nat /\ top + PageSize = PageSize * (k + 1) /\ top + PageSize \in Nat
      BY <2>1, <1>2
    <2>3. (top + PageSize) % PageSize = 0
      BY <2>2, <1>2, Multiple
    <2> QED BY <2>2, <2>3, <1>1, SizeFacts
  <1> QED BY <1>1, <1>3, <1>8, <1>10, <1>11, <1>12, <1>13 DEF q, HeapOK

-----------------------------------------------------------------------------
(* The operations of Heap preserve its invariant.                          *)

\* Allocator::alloc: the block was not in use.
LEMMA AllocInv ==
  ASSUME HeapInv, NEW a \in Addr, NEW l \in Layouts, AllocAt(a, l),
         live' = [live EXCEPT ![a] = l], UNCHANGED lost, refs' \in [Addr -> Nat]
  PROVE  HeapInv' /\ live[a] = None
  <1> DEFINE c == class(l)
             page == Carved(ptr, Classes[c])
             mid == [free EXCEPT ![c] = page]
  <1>1. /\ c \in Cl /\ free \in [Cl -> Seq(Addr)]
        /\ ptr \in Nat /\ ptr % PageSize = 0 /\ lost \subseteq Nat /\ mapped \subseteq Addr
        /\ ptr \in 0 .. MaxPages * PageSize
        /\ HeapOK(free, live, ptr, lost, mapped)
    BY ClassFits, SizeFacts DEF HeapInv, HeapTypeOK, Cl
  <1>2. CASE free[c] # <<>>
    <2>1. a = Head(free[c]) /\ free' = [free EXCEPT ![c] = Tail(free[c])] /\ UNCHANGED <<ptr, tables, mapped>>
      BY <1>2 DEF AllocAt, pageVars
    <2>2. live[a] = None /\ HeapOK(free', live', ptr, lost, mapped)
      BY <1>1, <1>2, <2>1, TakeBlock
    <2> QED BY <2>1, <2>2, <1>1 DEF HeapInv, HeapTypeOK, HeapOK, Cl
  <1>3. CASE free[c] = <<>>
    <2>1. a = Head(page) /\ free' = [free EXCEPT ![c] = Tail(page)] /\ ptr \in Addr
          /\ mapped' = mapped \cup {ptr} /\ ptr' = ptr + PageSize
      BY <1>3 DEF AllocAt, MapPage
    <2>2. /\ page # <<>>
          /\ ptr + PageSize \in 0 .. MaxPages * PageSize /\ (ptr + PageSize) % PageSize = 0
          /\ HeapOK(mid, live, ptr + PageSize, lost, mapped \cup {ptr})
      BY <1>1, <1>3, <2>1, CarvePage
    <2>3. mid[c] = page /\ ptr + PageSize \in Nat
      BY <1>1, <2>2, SizeFacts
    <2>4. free' = [mid EXCEPT ![c] = Tail(mid[c])]
      BY <1>1, <2>1, <2>3
    <2> HIDE DEF mid, page
    <2>5. /\ live[a] = None /\ HeapOK(free', live', ptr + PageSize, lost, mapped \cup {ptr})
      <3>1. mid[c] # <<>> /\ a = Head(mid[c]) /\ live' = [live EXCEPT ![Head(mid[c])] = l]
        BY <2>1, <2>2, <2>3
      <3>2. /\ live[Head(mid[c])] = None
            /\ HeapOK([mid EXCEPT ![c] = Tail(mid[c])], [live EXCEPT ![Head(mid[c])] = l],
                      ptr + PageSize, lost, mapped \cup {ptr})
        BY <1>1, <2>2, <2>3, <3>1, TakeBlock
      <3> QED BY <2>4, <3>1, <3>2
    <2> QED BY <2>1, <2>2, <2>3, <2>5, <1>1 DEF HeapInv, HeapTypeOK, HeapOK, Cl
  <1> QED BY <1>2, <1>3

\* An allocation that fails may skip the address of a page.
LEMMA AllocFailsInv ==
  ASSUME HeapInv, NEW l \in Layouts, AllocFails(l), UNCHANGED <<live, refs, lost>>
  PROVE  HeapInv'
  <1> DEFINE c == class(l)
  <1>1. /\ c \in Cl /\ ptr \in Nat /\ ptr % PageSize = 0 /\ PageSize \in Nat
        /\ HeapOK(free, live, ptr, lost, mapped)
        /\ free[c] = <<>> /\ UNCHANGED <<free, live, refs, lost, mapped>>
    BY ClassFits, SizeFacts DEF HeapInv, HeapTypeOK, Cl, AllocFails, MapPageFails, pageVars
  <1>2. CASE ptr' = ptr
    BY <1>1, <1>2 DEF HeapInv, HeapTypeOK
  <1>3. CASE ptr \in Addr /\ ptr' = ptr + PageSize
    <2>1. ptr' \in 0 .. MaxPages * PageSize /\ ptr' % PageSize = 0
      BY <1>1, <1>3, CarvePage
    <2>2. Shape(free, live, ptr')
      <3> SUFFICES ASSUME NEW x \in Addr, NEW n \in Sizes, IsBlock(free, live, x, n)
                   PROVE  x % n = 0 /\ x + n <= ptr'
        BY DEF Shape
      <3>1. x % n = 0 /\ x + n <= ptr /\ x \in Nat /\ n \in Nat
        BY <1>1, SizeFacts DEF HeapOK, Shape
      <3> QED BY <3>1, <1>1, <1>3
    <2>3. HeapOK(free', live', ptr', lost', mapped')
      BY <1>1, <2>2 DEF HeapOK
    <2> QED BY <1>1, <2>1, <2>3 DEF HeapInv, HeapTypeOK
  <1> QED BY <1>2, <1>3 DEF AllocFails, MapPageFails, pageVars

\* free_layout of the value at a into class c.
LEMMA FreeInv ==
  ASSUME HeapInv, NEW a \in Addr, live[a] # None, NEW c \in Cl,
         Classes[c] <= Classes[class(live[a])], Classes[class(live[a])] % Classes[c] = 0,
         free' = [free EXCEPT ![c] = <<a>> \o free[c]], live' = [live EXCEPT ![a] = None],
         lost' = lost \cup (BlockOf(a) \ Bytes(a, Classes[c])),
         UNCHANGED <<ptr, tables, mapped>>, refs' \in [Addr -> Nat]
  PROVE  HeapInv'
  <1>1. /\ live \in [Addr -> Layouts \cup {None}] /\ ptr \in Nat /\ lost \subseteq Nat
        /\ HeapOK(free, live, ptr, lost, mapped)
    BY SizeFacts, SMTT(30) DEF HeapInv, HeapTypeOK, Cl
  <1>2. HeapOK(free', live', ptr, lost', mapped)
    BY <1>1, GiveBlock DEF BlockOf
  <1>3. lost' \subseteq Nat
    <2>1. a \in Nat /\ Classes[class(live[a])] \in Nat
      BY <1>1, ClassFits, SizeFacts
    <2>2. BlockOf(a) \subseteq Nat
      BY <2>1 DEF BlockOf, Bytes
    <2> QED BY <2>2, <1>1
  <1> QED BY <1>2, <1>3 DEF HeapInv, HeapTypeOK, HeapOK, Cl

\* A box gives its whole block back.
LEMMA BoxDropInv ==
  ASSUME HeapInv, NEW a \in Addr, live[a] # None, FreeLayout(a, live[a]),
         live' = [live EXCEPT ![a] = None], UNCHANGED <<ptr, tables, mapped, refs, lost>>
  PROVE  HeapInv'
  <1> DEFINE c == class(live[a])
  <1>1. live[a] \in Layouts /\ refs \in [Addr -> Nat]
    BY DEF HeapInv, HeapTypeOK
  <1>2. c \in Cl /\ Classes[c] \in Nat \ {0}
    BY <1>1, ClassFits, SizeFacts
  <1>3. Classes[c] <= Classes[c] /\ Classes[c] % Classes[c] = 0
    BY <1>2
  <1>4. lost' = lost \cup (BlockOf(a) \ Bytes(a, Classes[c]))
    BY DEF BlockOf
  <1>5. free' = [free EXCEPT ![c] = <<a>> \o free[c]]
    BY DEF FreeLayout
  <1> QED BY <1>1, <1>2, <1>3, <1>4, <1>5, FreeInv

\* Arc::drop: the last one gives back as much as the block of a pointer.
LEMMA ArcDropFromInv ==
  ASSUME HeapInv, NEW r \in [Addr -> Nat], NEW a \in Addr, r[a] > 0, live[a] # None, ArcDropFrom(r, a)
  PROVE  HeapInv' /\ (\A b \in Addr : b # a => live'[b] = live[b]) /\ (r[a] # 1 => live' = live)
         /\ refs' = [r EXCEPT ![a] = r[a] - 1]
  <1>1. refs' = [r EXCEPT ![a] = r[a] - 1] /\ UNCHANGED <<ptr, tables, mapped>>
    BY DEF ArcDropFrom, pageVars
  <1>2. live \in [Addr -> Layouts \cup {None}] /\ live[a] \in Layouts
    BY DEF HeapInv, HeapTypeOK
  <1>3. refs' \in [Addr -> Nat]
    BY <1>1, <1>2
  <1>4. CASE r[a] = 1
    <2>1. class(PtrLayout) = 1
      BY HeapAssumption
    <2>2. /\ free' = [free EXCEPT ![1] = <<a>> \o free[1]] /\ live' = [live EXCEPT ![a] = None]
          /\ lost' = lost \cup (BlockOf(a) \ Bytes(a, Classes[1]))
      BY <1>4, <2>1 DEF ArcDropFrom, FreeLayout, DropLayout
    <2>3. class(live[a]) \in Cl
      BY <1>2, ClassFits
    <2>4. 1 \in Cl /\ Classes[1] <= Classes[class(live[a])] /\ Classes[class(live[a])] % Classes[1] = 0
      BY <2>3, SizeFacts
    <2>5. HeapInv'
      BY <1>1, <1>3, <2>2, <2>4, FreeInv
    <2> QED BY <1>1, <1>2, <1>4, <2>2, <2>5
  <1>5. CASE r[a] # 1
    <2>1. UNCHANGED <<free, live, lost>>
      BY <1>5 DEF ArcDropFrom
    <2> QED BY <2>1, <1>1, <1>3 DEF HeapInv, HeapTypeOK
  <1> QED BY <1>4, <1>5

\* The same with the counts as they are.
LEMMA ArcDropInv ==
  ASSUME HeapInv, NEW a \in Addr, refs[a] > 0, live[a] # None, ArcDrop(a)
  PROVE  HeapInv' /\ (\A b \in Addr : b # a => live'[b] = live[b]) /\ (refs[a] # 1 => live' = live)
         /\ refs' = [refs EXCEPT ![a] = refs[a] - 1]
  BY ArcDropFromInv DEF ArcDrop, HeapInv, HeapTypeOK

\* Arc::clone.
LEMMA ArcCloneInv ==
  ASSUME HeapInv, NEW a \in Addr, ArcClone(a)
  PROVE  HeapInv' /\ refs' = [refs EXCEPT ![a] = refs[a] + 1] /\ live' = live
  BY DEF ArcClone, pageVars, HeapInv, HeapTypeOK

-----------------------------------------------------------------------------
(* Counting references.                                                    *)

HandleRefs(hs, a) == {th \in Tasks \X Handle : hs[th[1]][th[2]] = a}
HeldRefs(hd, a) == {t \in Tasks : hd[t] = a}

\* The parts of RefsExact, for any handles, calls and lost references.
Counted(rc, hs, hd, lk) ==
  \A a \in Addr : rc[a] = Cardinality(HandleRefs(hs, a)) + Cardinality(HeldRefs(hd, a)) + lk[a]

Alive(rc, lv) == \A a \in Addr : rc[a] > 0 => lv[a] # None

HandleMaps == [Tasks -> [Handle -> Addr \cup {None}]]
HeldMaps == [Tasks -> Addr \cup {None}]
TablesOK ==
  /\ tabled \subseteq Tasks /\ miscounted \in [Tasks -> BOOLEAN]
  /\ dying \in Tasks \cup {None} /\ leaked \in [Addr -> Nat]

\* The tables hs and hv differ in one handle, which leads to v in hv.
OneHandle(hs, hv, t, h, v) ==
  \A u \in Tasks, k \in Handle : hv[u][k] = IF u = t /\ k = h THEN v ELSE hs[u][k]

\* hv has lost the handles at places of hs.
GoneAt(hs, hv, places) ==
  \A u \in Tasks, k \in Handle : hv[u][k] = IF <<u, k>> \in places THEN None ELSE hs[u][k]

\* The references to a at places.
RefsAt(hs, places, a) == Cardinality({th \in places : hs[th[1]][th[2]] = a})

\* What RefsExact is made of.
LEMMA RefsExactParts ==
  RefsExact <=> TypeOK /\ Counted(refs, handles, held, leaked) /\ Alive(refs, live)
  BY DEF RefsExact, Counted, Alive, HandleRefs, HeldRefs

\* The references to an object are finitely many.
LEMMA FiniteRefs ==
  ASSUME NEW hs, NEW hd, NEW a
  PROVE  /\ IsFiniteSet(HandleRefs(hs, a)) /\ Cardinality(HandleRefs(hs, a)) \in Nat
         /\ IsFiniteSet(HeldRefs(hd, a)) /\ Cardinality(HeldRefs(hd, a)) \in Nat
  <1>1. IsFiniteSet(Tasks) /\ IsFiniteSet(Handle)
    BY ObjectsAssumption, FS_Interval DEF Handle
  <1>2. IsFiniteSet(Tasks \X Handle)
    BY <1>1, FS_Product
  <1>3. IsFiniteSet(HandleRefs(hs, a))
    BY <1>2, FS_Subset DEF HandleRefs
  <1>4. IsFiniteSet(HeldRefs(hd, a))
    BY <1>1, FS_Subset DEF HeldRefs
  <1> QED BY <1>3, <1>4, FS_CardinalityType

\* A call that held nothing gets a reference to v.
LEMMA HoldCounts ==
  ASSUME NEW hd \in HeldMaps, NEW t \in Tasks, hd[t] = None, NEW v \in Addr, NEW a \in Addr
  PROVE  Cardinality(HeldRefs([hd EXCEPT ![t] = v], a))
           = Cardinality(HeldRefs(hd, a)) + (IF a = v THEN 1 ELSE 0)
  <1>1. t \notin HeldRefs(hd, a) /\ IsFiniteSet(HeldRefs(hd, a)) /\ Cardinality(HeldRefs(hd, a)) \in Nat
    BY SizeFacts, FiniteRefs, ZenonT(30) DEF HeldRefs
  <1>2. CASE a = v
    <2>1. HeldRefs([hd EXCEPT ![t] = v], a) = HeldRefs(hd, a) \cup {t}
      BY <1>2 DEF HeldRefs, HeldMaps
    <2> QED BY <1>1, <1>2, <2>1, FS_AddElement
  <1>3. CASE a # v
    <2>1. HeldRefs([hd EXCEPT ![t] = v], a) = HeldRefs(hd, a)
      BY <1>3, <1>1 DEF HeldRefs, HeldMaps
    <2> QED BY <1>1, <1>3, <2>1
  <1> QED BY <1>2, <1>3

\* A handle that was not in use gets a reference to v.
LEMMA HandleCounts ==
  ASSUME NEW hs, NEW hv, NEW t \in Tasks, NEW h \in Handle, hs[t][h] = None,
         NEW v \in Addr, NEW a \in Addr, OneHandle(hs, hv, t, h, v)
  PROVE  Cardinality(HandleRefs(hv, a)) = Cardinality(HandleRefs(hs, a)) + (IF a = v THEN 1 ELSE 0)
  <1>1. <<t, h>> \notin HandleRefs(hs, a) /\ IsFiniteSet(HandleRefs(hs, a))
        /\ Cardinality(HandleRefs(hs, a)) \in Nat
    <2>1. hs[<<t, h>>[1]][<<t, h>>[2]] # a
      BY SizeFacts
    <2>2. <<t, h>> \notin HandleRefs(hs, a)
      BY <2>1 DEF HandleRefs
    <2> QED BY <2>2, FiniteRefs
  <1>2. \A th \in Tasks \X Handle : hv[th[1]][th[2]] = IF th = <<t, h>> THEN v ELSE hs[th[1]][th[2]]
    <2> SUFFICES ASSUME NEW u \in Tasks, NEW k \in Handle
                 PROVE  hv[u][k] = IF u = t /\ k = h THEN v ELSE hs[u][k]
      OBVIOUS
    <2> QED BY DEF OneHandle
  <1>3. CASE a = v
    <2>1. HandleRefs(hv, a) = HandleRefs(hs, a) \cup {<<t, h>>}
      BY <1>2, <1>3 DEF HandleRefs
    <2> QED BY <1>1, <1>3, <2>1, FS_AddElement
  <1>4. CASE a # v
    <2>1. HandleRefs(hv, a) = HandleRefs(hs, a)
      BY <1>1, <1>2, <1>4 DEF HandleRefs
    <2> QED BY <1>1, <1>4, <2>1
  <1> QED BY <1>3, <1>4

\* An object that a call or a handle refers to has a count.
LEMMA CountedRefs ==
  ASSUME NEW rc, NEW hs, NEW hd, NEW lk \in [Addr -> Nat], Counted(rc, hs, hd, lk), NEW t \in Tasks, NEW a \in Addr,
         hd[t] = a \/ \E h \in Handle : hs[t][h] = a
  PROVE  rc[a] \in Nat /\ rc[a] > 0
  <1>1. /\ IsFiniteSet(HandleRefs(hs, a)) /\ Cardinality(HandleRefs(hs, a)) \in Nat
        /\ IsFiniteSet(HeldRefs(hd, a)) /\ Cardinality(HeldRefs(hd, a)) \in Nat
        /\ rc[a] = Cardinality(HandleRefs(hs, a)) + Cardinality(HeldRefs(hd, a)) + lk[a] /\ lk[a] \in Nat
    BY FiniteRefs DEF Counted
  <1>2. CASE hd[t] = a
    <2>1. HeldRefs(hd, a) # {}
      BY <1>2 DEF HeldRefs
    <2>2. Cardinality(HeldRefs(hd, a)) # 0
      BY <1>1, <2>1, FS_EmptySet
    <2> QED BY <1>1, <2>2
  <1>3. CASE \E h \in Handle : hs[t][h] = a
    <2>1. PICK h \in Handle : hs[t][h] = a
      BY <1>3
    <2>2. <<t, h>> \in HandleRefs(hs, a)
      BY <2>1 DEF HandleRefs
    <2>3. Cardinality(HandleRefs(hs, a)) # 0
      BY <1>1, <2>2, FS_EmptySet
    <2> QED BY <1>1, <2>3
  <1> QED BY <1>2, <1>3

\* Who refers to an object through what: the types that the steps below use.
LEMMA TypeFacts ==
  ASSUME IInv
  PROVE  /\ handles \in HandleMaps /\ held \in HeldMaps /\ refs \in [Addr -> Nat]
         /\ HeapInv /\ Counted(refs, handles, held, leaked) /\ Alive(refs, live)
         /\ live \in [Addr -> Layouts \cup {None}]
         /\ TablesOK /\ leaked \in [Addr -> Nat]
  BY RefsExactParts DEF IInv, TypeOK, HeapInv, HeapTypeOK, HandleMaps, HeldMaps, TablesOK

\* A step that leaves the tables alone.
LEMMA SameTables ==
  ASSUME IInv, UNCHANGED tableVars
  PROVE  TablesOK' /\ leaked' = leaked
  BY TypeFacts DEF tableVars, TablesOK

\* The invariant after a step, from its parts.
LEMMA PutTogether ==
  ASSUME HeapInv', handles' \in HandleMaps, held' \in HeldMaps,
         Counted(refs', handles', held', leaked'), Alive(refs', live'), TablesOK'
  PROVE  IInv'
  <1>1. TypeOK'
    BY DEF TypeOK, HeapInv, HandleMaps, HeldMaps, TablesOK
  <1> QED BY <1>1 DEF IInv, RefsExact, Counted, Alive, HandleRefs, HeldRefs

\* put: the new handle is not in use.
LEMMA NewIdUnused ==
  ASSUME NEW t \in Tasks, NEW h \in NewIds(t)
  PROVE  h \in Handle /\ handles[t][h] = None
  <1>1. h \in Handle /\ h \in Nat
    BY ObjectsAssumption DEF NewIds, Handle
  <1>2. h \notin Used(t)
    <2>1. CASE Used(t) = {}
      BY <2>1
    <2>2. CASE Used(t) # {}
      <3>1. \A g \in Used(t) : g < h
        BY <2>2 DEF NewIds
      <3> QED BY <1>1, <3>1
    <2> QED BY <2>1, <2>2
  <1> QED BY <1>1, <1>2 DEF Used

\* The handles at places are gone.
LEMMA LoseCounts ==
  ASSUME NEW hs, NEW hv, NEW places \in SUBSET (Tasks \X Handle), NEW a \in Addr,
         GoneAt(hs, hv, places)
  PROVE  /\ RefsAt(hs, places, a) \in Nat
         /\ Cardinality(HandleRefs(hs, a)) = Cardinality(HandleRefs(hv, a)) + RefsAt(hs, places, a)
  <1> DEFINE G == {th \in places : hs[th[1]][th[2]] = a}
  <1>1. G \subseteq HandleRefs(hs, a)
    BY DEF HandleRefs
  <1>2. IsFiniteSet(G) /\ Cardinality(G) \in Nat
    BY <1>1, FiniteRefs, FS_Subset, FS_CardinalityType
  <1>3. \A th \in Tasks \X Handle :
          hv[th[1]][th[2]] = IF th \in places THEN None ELSE hs[th[1]][th[2]]
    <2> SUFFICES ASSUME NEW u \in Tasks, NEW k \in Handle
                 PROVE  hv[u][k] = IF <<u, k>> \in places THEN None ELSE hs[u][k]
      OBVIOUS
    <2> QED BY DEF GoneAt
  <1>4. None # a
    BY SizeFacts
  <1>5. HandleRefs(hs, a) = HandleRefs(hv, a) \cup G /\ HandleRefs(hv, a) \cap G = {}
    BY <1>3, <1>4 DEF HandleRefs
  <1> HIDE DEF G
  <1>6. Cardinality(HandleRefs(hs, a)) = Cardinality(HandleRefs(hv, a)) + Cardinality(G) - 0
    BY <1>2, <1>5, FiniteRefs, FS_Union, FS_EmptySet
  <1>7. Cardinality(HandleRefs(hs, a)) = Cardinality(HandleRefs(hv, a)) + Cardinality(G)
    BY <1>2, <1>6, FiniteRefs
  <1> QED BY <1>2, <1>7 DEF G, RefsAt

-----------------------------------------------------------------------------
(* Each action preserves the invariant.                                    *)

\* Nothing is allocated and nothing has a handle.
LEMMA InitInv == Init => IInv
  <1> SUFFICES ASSUME Init PROVE IInv
    OBVIOUS
  <1>1. HeapTypeOK
    BY SizeFacts DEF Init, HeapInit, HeapTypeOK
  <1>2. ptr % PageSize = 0
    BY SizeFacts DEF Init, HeapInit
  <1>3. \A a, n : a \in Addr => ~IsBlock(free, live, a, n)
    BY DEF Init, HeapInit, IsBlock, Cl
  <1>4. FreeOnce(free, live)
    BY DEF Init, HeapInit, FreeOnce, Cl
  <1>5. HeapOK(free, live, ptr, lost, mapped)
    BY <1>1, <1>3, <1>4 DEF HeapOK, Shape, Apart, Covers, HeapTypeOK, Cl, Init, HeapInit
  <1>6. handles \in HandleMaps /\ held \in HeldMaps
    BY DEF Init, HandleMaps, HeldMaps
  <1>7. Counted(refs, handles, held, leaked) /\ Alive(refs, live)
    <2>1. ASSUME NEW a \in Addr PROVE HandleRefs(handles, a) = {} /\ HeldRefs(held, a) = {} /\ refs[a] = 0 /\ leaked[a] = 0
      BY SizeFacts DEF Init, HeapInit, HandleRefs, HeldRefs
    <2> QED BY <2>1, FS_EmptySet DEF Counted, Alive
  <1>8. TypeOK
    <2>1. /\ tabled \subseteq Tasks /\ miscounted \in [Tasks -> BOOLEAN]
          /\ dying \in Tasks \cup {None} /\ leaked \in [Addr -> Nat]
      BY DEF Init
    <2> QED BY <1>1, <1>6, <2>1 DEF TypeOK, HandleMaps, HeldMaps
  <1> QED BY <1>1, <1>2, <1>5, <1>7, <1>8, RefsExactParts DEF IInv, HeapInv, Init, HeapInit

\* ObjectRef::new.
LEMMA NewObjectInv ==
  ASSUME IInv, NEW t \in Tasks, NewObject(t)
  PROVE  IInv'
  <1>1. held[t] = None /\ UNCHANGED handles /\ leaked' = leaked /\ TablesOK'
    BY SameTables DEF NewObject
  <1>2. ASSUME NEW a \in Addr, ArcNewAt(a), held' = [held EXCEPT ![t] = a] PROVE IInv'
    <2>1. PICK l \in ArcLayouts : AllocAt(a, l) /\ live' = [live EXCEPT ![a] = l]
      BY <1>2 DEF ArcNewAt
    <2>2. l \in Layouts /\ refs' = [refs EXCEPT ![a] = 1] /\ UNCHANGED lost
      BY <1>2 DEF ArcNewAt, Layouts
    <2>3. refs' \in [Addr -> Nat]
      BY <2>2, TypeFacts
    <2>4. HeapInv' /\ live[a] = None
      BY <2>1, <2>2, <2>3, AllocInv, TypeFacts
    <2>5. refs[a] = 0
      BY <2>4, TypeFacts DEF Alive
    <2>6. held' \in HeldMaps
      BY <1>2, TypeFacts DEF HeldMaps
    <2>7. Alive(refs', live')
      <3>1. l # None
        BY <2>2, SizeFacts
      <3> QED BY <2>1, <2>2, <3>1, TypeFacts DEF Alive
    <2>8. Counted(refs', handles, held', leaked)
      <3> SUFFICES ASSUME NEW b \in Addr
                   PROVE  refs'[b] = Cardinality(HandleRefs(handles, b)) + Cardinality(HeldRefs(held', b)) + leaked[b]
        BY DEF Counted
      <3>1. Cardinality(HeldRefs(held', b)) = Cardinality(HeldRefs(held, b)) + (IF b = a THEN 1 ELSE 0)
        BY <1>1, <1>2, TypeFacts, HoldCounts
      <3>2. refs[b] = Cardinality(HandleRefs(handles, b)) + Cardinality(HeldRefs(held, b)) + leaked[b]
        BY TypeFacts DEF Counted
      <3>3. refs'[b] = refs[b] + (IF b = a THEN 1 ELSE 0)
        BY <2>2, <2>5, TypeFacts
      <3>4. Cardinality(HandleRefs(handles, b)) \in Nat /\ Cardinality(HeldRefs(held, b)) \in Nat /\ leaked[b] \in Nat
        BY FiniteRefs, TypeFacts DEF TablesOK
      <3> QED BY <3>1, <3>2, <3>3, <3>4
    <2> QED BY <1>1, <2>4, <2>6, <2>7, <2>8, TypeFacts, PutTogether
  <1>3. ASSUME ArcNewFails, UNCHANGED held PROVE IInv'
    <2>1. PICK l \in ArcLayouts : AllocFails(l)
      BY <1>3 DEF ArcNewFails
    <2>2. UNCHANGED <<live, refs, lost>> /\ l \in Layouts
      BY <1>3 DEF ArcNewFails, Layouts
    <2>3. HeapInv'
      BY <2>1, <2>2, AllocFailsInv, TypeFacts
    <2> QED BY <1>1, <1>3, <2>2, <2>3, TypeFacts, PutTogether
  <1> QED BY <1>2, <1>3 DEF NewObject

\* object::put.
LEMMA PutInv ==
  ASSUME IInv, NEW t \in Tasks, Put(t)
  PROVE  IInv'
  <1> DEFINE a == held[t]
  <1>0. PICK h \in NewIds(t) : handles' = [handles EXCEPT ![t][h] = a]
    BY DEF Put
  <1>1. /\ a # None /\ handles' = [handles EXCEPT ![t][h] = a] /\ ArcClone(a) /\ UNCHANGED held
        /\ leaked' = leaked /\ TablesOK'
    BY <1>0, TypeFacts DEF Put, TablesOK
  <1>2. a \in Addr
    BY <1>1, TypeFacts DEF HeldMaps
  <1>3. h \in Handle /\ handles[t][h] = None
    BY NewIdUnused
  <1>4. HeapInv' /\ refs' = [refs EXCEPT ![a] = refs[a] + 1] /\ live' = live
    BY <1>1, <1>2, ArcCloneInv, TypeFacts
  <1>5. handles' \in HandleMaps
    BY <1>1, <1>2, <1>3, TypeFacts DEF HandleMaps
  <1>6. Counted(refs', handles', held, leaked)
    <2> SUFFICES ASSUME NEW b \in Addr
                 PROVE  refs'[b] = Cardinality(HandleRefs(handles', b)) + Cardinality(HeldRefs(held, b)) + leaked[b]
      BY DEF Counted
    <2>1. Cardinality(HandleRefs(handles', b)) = Cardinality(HandleRefs(handles, b)) + (IF b = a THEN 1 ELSE 0)
      <3>1. OneHandle(handles, handles', t, h, a)
        BY <1>1, <1>3, TypeFacts DEF OneHandle, HandleMaps
      <3> QED BY <1>2, <1>3, <3>1, HandleCounts
    <2>2. refs[b] = Cardinality(HandleRefs(handles, b)) + Cardinality(HeldRefs(held, b)) + leaked[b]
      BY TypeFacts DEF Counted
    <2>3. refs'[b] = refs[b] + (IF b = a THEN 1 ELSE 0)
      BY <1>2, <1>4, TypeFacts
    <2>4. Cardinality(HandleRefs(handles, b)) \in Nat /\ Cardinality(HeldRefs(held, b)) \in Nat /\ leaked[b] \in Nat
      BY FiniteRefs, TypeFacts DEF TablesOK
    <2> QED BY <2>1, <2>2, <2>3, <2>4
  <1>7. Alive(refs', live')
    <2>1. refs[a] > 0
      BY <1>2, TypeFacts, CountedRefs
    <2> QED BY <2>1, <1>2, <1>4, TypeFacts DEF Alive
  <1> QED BY <1>1, <1>4, <1>5, <1>6, <1>7, TypeFacts, PutTogether

\* object::get.
LEMMA GetInv ==
  ASSUME IInv, NEW t \in Tasks, Get(t)
  PROVE  IInv'
  <1>1. PICK h \in Used(t) : held' = [held EXCEPT ![t] = handles[t][h]] /\ ArcClone(handles[t][h])
    BY DEF Get
  <1> DEFINE a == handles[t][h]
  <1>2. held[t] = None /\ UNCHANGED handles /\ leaked' = leaked /\ TablesOK'
    BY SameTables DEF Get
  <1>3. a \in Addr /\ h \in Handle
    BY TypeFacts DEF Used, HandleMaps
  <1>4. HeapInv' /\ refs' = [refs EXCEPT ![a] = refs[a] + 1] /\ live' = live
    BY <1>1, <1>3, ArcCloneInv, TypeFacts
  <1>5. held' \in HeldMaps
    BY <1>1, <1>3, TypeFacts DEF HeldMaps
  <1>6. Counted(refs', handles, held', leaked)
    <2> SUFFICES ASSUME NEW b \in Addr
                 PROVE  refs'[b] = Cardinality(HandleRefs(handles, b)) + Cardinality(HeldRefs(held', b)) + leaked[b]
      BY DEF Counted
    <2>1. Cardinality(HeldRefs(held', b)) = Cardinality(HeldRefs(held, b)) + (IF b = a THEN 1 ELSE 0)
      BY <1>1, <1>2, <1>3, TypeFacts, HoldCounts
    <2>2. refs[b] = Cardinality(HandleRefs(handles, b)) + Cardinality(HeldRefs(held, b)) + leaked[b]
      BY TypeFacts DEF Counted
    <2>3. refs'[b] = refs[b] + (IF b = a THEN 1 ELSE 0)
      BY <1>3, <1>4, TypeFacts
    <2>4. Cardinality(HandleRefs(handles, b)) \in Nat /\ Cardinality(HeldRefs(held, b)) \in Nat /\ leaked[b] \in Nat
      BY FiniteRefs, TypeFacts DEF TablesOK
    <2> QED BY <2>1, <2>2, <2>3, <2>4
  <1>7. Alive(refs', live')
    <2>1. refs[a] > 0
      BY <1>3, TypeFacts, CountedRefs
    <2> QED BY <2>1, <1>3, <1>4, TypeFacts DEF Alive
  <1> QED BY <1>2, <1>4, <1>5, <1>6, <1>7, TypeFacts, PutTogether

\* A reference to the object a is dropped: it was counted, and the count that is
\* left is that of the other references.
LEMMA DropCounts ==
  ASSUME IInv, NEW a \in Addr, refs[a] > 0, ArcDrop(a)
  PROVE  /\ HeapInv' /\ Alive(refs', live')
         /\ \A b \in Addr : refs[b] = refs'[b] + (IF b = a THEN 1 ELSE 0)
         /\ refs' \in [Addr -> Nat]
  <1>1. live[a] # None
    BY TypeFacts DEF Alive
  <1>2. HeapInv' /\ (\A b \in Addr : b # a => live'[b] = live[b]) /\ (refs[a] # 1 => live' = live)
        /\ refs' = [refs EXCEPT ![a] = refs[a] - 1]
    BY <1>1, ArcDropInv, TypeFacts
  <1>3. refs' \in [Addr -> Nat] /\ \A b \in Addr : refs[b] = refs'[b] + (IF b = a THEN 1 ELSE 0)
    BY <1>2, TypeFacts
  <1>4. ASSUME NEW b \in Addr, refs'[b] > 0 PROVE live'[b] # None
    <2>1. CASE b = a
      <3>1. refs[a] # 1
        BY <2>1, <1>3, <1>4
      <3> QED BY <2>1, <3>1, <1>1, <1>2
    <2>2. CASE b # a
      BY <2>2, <1>2, <1>3, <1>4, TypeFacts DEF Alive
    <2> QED BY <2>1, <2>2
  <1> QED BY <1>2, <1>3, <1>4 DEF Alive

\* A call returns and drops its reference.
LEMMA EndCallInv ==
  ASSUME IInv, NEW t \in Tasks, EndCall(t)
  PROVE  IInv'
  <1> DEFINE a == held[t]
  <1>1. a # None /\ ArcDrop(a) /\ held' = [held EXCEPT ![t] = None] /\ UNCHANGED handles
        /\ leaked' = leaked /\ TablesOK'
    BY SameTables DEF EndCall
  <1>2. a \in Addr
    BY <1>1, TypeFacts DEF HeldMaps
  <1>3. refs[a] > 0
    BY <1>2, TypeFacts, CountedRefs
  <1>4. /\ HeapInv' /\ Alive(refs', live') /\ refs' \in [Addr -> Nat]
        /\ \A b \in Addr : refs[b] = refs'[b] + (IF b = a THEN 1 ELSE 0)
    BY <1>1, <1>2, <1>3, DropCounts
  <1>5. held' \in HeldMaps /\ held'[t] = None /\ held = [held' EXCEPT ![t] = a]
    BY <1>1, TypeFacts DEF HeldMaps
  <1> HIDE DEF a
  <1>6. Counted(refs', handles, held', leaked)
    <2> SUFFICES ASSUME NEW b \in Addr
                 PROVE  refs'[b] = Cardinality(HandleRefs(handles, b)) + Cardinality(HeldRefs(held', b)) + leaked[b]
      BY DEF Counted
    <2>1. Cardinality(HeldRefs([held' EXCEPT ![t] = a], b))
            = Cardinality(HeldRefs(held', b)) + (IF b = a THEN 1 ELSE 0)
      BY <1>2, <1>5, HoldCounts
    <2>2. Cardinality(HeldRefs(held, b)) = Cardinality(HeldRefs(held', b)) + (IF b = a THEN 1 ELSE 0)
      BY <2>1, <1>5
    <2>3. refs[b] = Cardinality(HandleRefs(handles, b)) + Cardinality(HeldRefs(held, b)) + leaked[b]
      BY TypeFacts DEF Counted
    <2>4. refs[b] = refs'[b] + (IF b = a THEN 1 ELSE 0) /\ refs'[b] \in Nat
      BY <1>4
    <2>5. Cardinality(HandleRefs(handles, b)) \in Nat /\ Cardinality(HeldRefs(held', b)) \in Nat /\ leaked[b] \in Nat
      BY FiniteRefs, TypeFacts DEF TablesOK
    <2> QED BY <2>2, <2>3, <2>4, <2>5
  <1> QED BY <1>1, <1>4, <1>5, <1>6, TypeFacts, PutTogether

\* One handle is taken out of a table and its reference is dropped.
DropHandle(t, h) ==
  ArcDrop(handles[t][h]) /\ handles' = [handles EXCEPT ![t][h] = None] /\ UNCHANGED held

LEMMA DropHandleInv ==
  ASSUME IInv, NEW t \in Tasks, NEW h \in Used(t), DropHandle(t, h), leaked' = leaked, TablesOK'
  PROVE  IInv'
  <1> DEFINE a == handles[t][h]
  <1>1. ArcDrop(a) /\ handles' = [handles EXCEPT ![t][h] = None] /\ UNCHANGED held
    BY DEF DropHandle
  <1>2. a \in Addr /\ h \in Handle
    BY TypeFacts DEF Used, HandleMaps
  <1>3. refs[a] > 0
    BY <1>2, TypeFacts, CountedRefs
  <1>4. /\ HeapInv' /\ Alive(refs', live') /\ refs' \in [Addr -> Nat]
        /\ \A b \in Addr : refs[b] = refs'[b] + (IF b = a THEN 1 ELSE 0)
    BY <1>1, <1>2, <1>3, DropCounts
  <1>5. handles' \in HandleMaps /\ handles'[t][h] = None /\ OneHandle(handles', handles, t, h, a)
    BY <1>1, <1>2, TypeFacts DEF HandleMaps, OneHandle
  <1> HIDE DEF a
  <1>6. Counted(refs', handles', held, leaked)
    <2> SUFFICES ASSUME NEW b \in Addr
                 PROVE  refs'[b] = Cardinality(HandleRefs(handles', b)) + Cardinality(HeldRefs(held, b)) + leaked[b]
      BY DEF Counted
    <2>1. Cardinality(HandleRefs(handles, b)) = Cardinality(HandleRefs(handles', b)) + (IF b = a THEN 1 ELSE 0)
      BY <1>2, <1>5, HandleCounts
    <2>2. refs[b] = Cardinality(HandleRefs(handles, b)) + Cardinality(HeldRefs(held, b)) + leaked[b]
      BY TypeFacts DEF Counted
    <2>3. refs[b] = refs'[b] + (IF b = a THEN 1 ELSE 0) /\ refs'[b] \in Nat
      BY <1>4
    <2>4. Cardinality(HandleRefs(handles', b)) \in Nat /\ Cardinality(HeldRefs(held, b)) \in Nat /\ leaked[b] \in Nat
      BY FiniteRefs, TypeFacts DEF TablesOK
    <2> QED BY <2>1, <2>2, <2>3, <2>4
  <1> QED BY <1>1, <1>4, <1>5, <1>6, TypeFacts, PutTogether

\* object::release.
LEMMA ReleaseInv ==
  ASSUME IInv, NEW t \in Tasks, Release(t)
  PROVE  IInv'
  <1>1. PICK h \in Used(t) : ArcDrop(handles[t][h]) /\ handles' = [handles EXCEPT ![t][h] = None]
    BY DEF Release
  <1>2. UNCHANGED held /\ leaked' = leaked /\ TablesOK'
    BY SameTables DEF Release
  <1> QED BY <1>1, <1>2, DropHandleInv DEF DropHandle

\* A table is dropped.
LEMMA DropTableInv ==
  ASSUME IInv, dying # None, DropTable
  PROVE  IInv'
  <1>1. dying \in Tasks
    BY TypeFacts DEF TablesOK
  <1>2. UNCHANGED held /\ leaked' = leaked /\ UNCHANGED <<tabled, miscounted>>
    BY DEF DropTable
  <1>3. CASE Used(dying) = {}
    <2>1. dying' = None /\ UNCHANGED <<heapVars, handles>>
      BY <1>3 DEF DropTable
    <2>2. TablesOK'
      BY <1>2, <2>1, TypeFacts DEF TablesOK
    <2>3. HeapInv'
      BY <2>1, TypeFacts DEF heapVars, HeapInv, HeapTypeOK
    <2> QED BY <1>2, <2>1, <2>2, <2>3, TypeFacts, PutTogether DEF heapVars
  <1>4. CASE Used(dying) # {}
    <2>1. PICK h \in Used(dying) : /\ ArcDrop(handles[dying][h])
                                   /\ handles' = [handles EXCEPT ![dying][h] = None]
      BY <1>4 DEF DropTable
    <2>2. UNCHANGED dying
      BY <1>4 DEF DropTable
    <2>3. TablesOK'
      BY <1>2, <2>2, TypeFacts DEF TablesOK
    <2> QED BY <1>1, <1>2, <2>1, <2>3, DropHandleInv DEF DropHandle
  <1> QED BY <1>3, <1>4

\* A put that fails at a leaf.
LEMMA PutFailsInv ==
  ASSUME IInv, NEW t \in Tasks, PutFails(t)
  PROVE  IInv'
  <1>1. UNCHANGED <<heapVars, handles, held, leaked>>
    BY DEF PutFails
  <1>2. TablesOK'
    BY TypeFacts DEF PutFails, TablesOK
  <1>3. HeapInv'
    BY <1>1, TypeFacts DEF heapVars, HeapInv, HeapTypeOK
  <1> QED BY <1>1, <1>2, <1>3, TypeFacts, PutTogether DEF heapVars

\* A put that loses the greatest handles of the task.
LEMMA PutLosesInv ==
  ASSUME IInv, NEW t \in Tasks, PutLoses(t)
  PROVE  IInv'
  <1>1. PICK cut \in Used(t) :
          /\ handles' = [handles EXCEPT ![t] =
                           [h \in Handle |-> IF h >= cut THEN None ELSE handles[t][h]]]
          /\ leaked' = [a \in Addr |-> leaked[a] + (IF a = held[t] THEN 1 ELSE 0)
                                         + RefsIn({t} \X {h \in Handle : h > cut}, a)]
          /\ ArcDropFrom([refs EXCEPT ![held[t]] = @ + 1], handles[t][cut])
    BY DEF PutLoses
  <1> DEFINE d == held[t]
             m == handles[t][cut]
             cl == [refs EXCEPT ![d] = refs[d] + 1]
             hv == [handles EXCEPT ![t][cut] = None]
             places == {t} \X {h \in Handle : h > cut}
  <1>2. d \in Addr /\ m \in Addr /\ cut \in Handle /\ Handle \subseteq Nat
    BY TypeFacts, ObjectsAssumption, SMTT(30) DEF PutLoses, Used, HeldMaps, HandleMaps, Handle
  <1>3. refs[d] > 0 /\ refs[m] > 0
    BY <1>2, TypeFacts, CountedRefs
  <1>4. live[d] # None /\ live[m] # None
    BY <1>2, <1>3, TypeFacts DEF Alive
  <1>5. cl \in [Addr -> Nat] /\ \A b \in Addr : cl[b] = refs[b] + (IF b = d THEN 1 ELSE 0)
    BY <1>2, TypeFacts
  <1>6. UNCHANGED held /\ UNCHANGED <<tabled, dying>> /\ miscounted' = [miscounted EXCEPT ![t] = TRUE]
    BY DEF PutLoses
  <1>7. /\ leaked' = [b \in Addr |-> leaked[b] + (IF b = d THEN 1 ELSE 0) + RefsIn(places, b)]
        /\ ArcDropFrom(cl, m)
    BY <1>1
  <1>8. \A u \in Tasks, k \in Handle :
          handles'[u][k] = IF u = t /\ k >= cut THEN None ELSE handles[u][k]
    BY <1>1, TypeFacts DEF HandleMaps
  <1>9. handles' \in HandleMaps
    BY <1>1, <1>2, TypeFacts DEF HandleMaps
  <1>10. OneHandle(hv, handles, t, cut, m) /\ hv[t][cut] = None
    BY <1>2, TypeFacts DEF OneHandle, HandleMaps
  <1>11. \A u \in Tasks, k \in Handle : hv[u][k] = IF u = t /\ k = cut THEN None ELSE handles[u][k]
    BY <1>2, TypeFacts DEF HandleMaps
  <1>12. \A u \in Tasks, k \in Handle : <<u, k>> \in places <=> u = t /\ k > cut
    OBVIOUS
  <1>13. places \subseteq Tasks \X Handle
    OBVIOUS
  <1> HIDE DEF d, m, cl, hv, places
  <1>14. GoneAt(hv, handles', places)
    <2> SUFFICES ASSUME NEW u \in Tasks, NEW k \in Handle
                 PROVE  handles'[u][k] = IF <<u, k>> \in places THEN None ELSE hv[u][k]
      BY DEF GoneAt
    <2>1. handles'[u][k] = IF u = t /\ k >= cut THEN None ELSE handles[u][k]
      BY <1>8
    <2>2. hv[u][k] = IF u = t /\ k = cut THEN None ELSE handles[u][k]
      BY <1>11
    <2>3. <<u, k>> \in places <=> u = t /\ k > cut
      BY <1>12
    <2>4. k \in Nat /\ cut \in Nat
      BY <1>2
    <2> QED BY <2>1, <2>2, <2>3, <2>4
  <1>15. \A b \in Addr : RefsAt(hv, places, b) = RefsIn(places, b)
    <2>1. \A th \in places : hv[th[1]][th[2]] = handles[th[1]][th[2]]
      <3> SUFFICES ASSUME NEW u \in Tasks, NEW k \in Handle, <<u, k>> \in places
                   PROVE  hv[u][k] = handles[u][k]
        BY <1>13
      <3>1. k # cut
        BY <1>2, <1>12
      <3> QED BY <3>1, <1>11
    <2> QED BY <2>1 DEF RefsAt, RefsIn
  <1>16. /\ HeapInv' /\ (\A b \in Addr : b # m => live'[b] = live[b]) /\ (cl[m] # 1 => live' = live)
         /\ refs' = [cl EXCEPT ![m] = cl[m] - 1]
    <2>1. cl[m] > 0
      BY <1>2, <1>3, <1>5, TypeFacts
    <2> QED BY <2>1, <1>2, <1>4, <1>5, <1>7, TypeFacts, ArcDropFromInv
  <1>17. \A b \in Addr : refs'[b] \in Int /\ refs'[b] + (IF b = m THEN 1 ELSE 0) = refs[b] + (IF b = d THEN 1 ELSE 0)
    BY <1>2, <1>5, <1>16, TypeFacts
  <1>18. Alive(refs', live')
    <2> SUFFICES ASSUME NEW b \in Addr, refs'[b] > 0 PROVE live'[b] # None
      BY DEF Alive
    <2>1. CASE b = m
      <3>1. cl[m] # 1
        BY <2>1, <1>5, <1>16
      <3> QED BY <2>1, <3>1, <1>4, <1>16
    <2>2. CASE b # m /\ b = d
      BY <2>2, <1>4, <1>16
    <2>3. CASE b # m /\ b # d
      <3>1. refs[b] > 0
        BY <2>3, <1>17, TypeFacts
      <3> QED BY <2>3, <3>1, <1>16, TypeFacts DEF Alive
    <2> QED BY <2>1, <2>2, <2>3
  <1>19. ASSUME NEW b \in Addr
         PROVE  /\ RefsIn(places, b) \in Nat
                /\ Cardinality(HandleRefs(handles, b))
                     = Cardinality(HandleRefs(handles', b)) + RefsIn(places, b) + (IF b = m THEN 1 ELSE 0)
    <2>1. Cardinality(HandleRefs(handles, b)) = Cardinality(HandleRefs(hv, b)) + (IF b = m THEN 1 ELSE 0)
      <3>1. hv[t][cut] = None /\ OneHandle(hv, handles, t, cut, m) /\ cut \in Handle /\ m \in Addr
        BY <1>2, <1>10
      <3> QED BY ONLY <3>1, HandleCounts, t \in Tasks, b \in Addr
    <2>2. /\ RefsAt(hv, places, b) \in Nat
          /\ Cardinality(HandleRefs(hv, b)) = Cardinality(HandleRefs(handles', b)) + RefsAt(hv, places, b)
      BY <1>13, <1>14, LoseCounts
    <2>3. RefsIn(places, b) = RefsAt(hv, places, b)
      BY <1>15
    <2>4. Cardinality(HandleRefs(handles', b)) \in Nat
      BY FiniteRefs
    <2> QED BY <2>1, <2>2, <2>3, <2>4
  <1>20. leaked' \in [Addr -> Nat]
    BY <1>7, <1>19, TypeFacts
  <1>21. Counted(refs', handles', held, leaked')
    <2> SUFFICES ASSUME NEW b \in Addr
                 PROVE  refs'[b] = Cardinality(HandleRefs(handles', b)) + Cardinality(HeldRefs(held, b)) + leaked'[b]
      BY DEF Counted
    <2>1. refs[b] = Cardinality(HandleRefs(handles, b)) + Cardinality(HeldRefs(held, b)) + leaked[b]
      BY TypeFacts DEF Counted
    <2>2. leaked'[b] = leaked[b] + (IF b = d THEN 1 ELSE 0) + RefsIn(places, b)
      BY <1>7
    <2>3. /\ Cardinality(HandleRefs(handles', b)) \in Nat /\ Cardinality(HeldRefs(held, b)) \in Nat
          /\ leaked[b] \in Nat
      BY FiniteRefs, TypeFacts
    <2>4. /\ refs'[b] \in Int
          /\ refs'[b] + (IF b = m THEN 1 ELSE 0) = refs[b] + (IF b = d THEN 1 ELSE 0)
      BY <1>17
    <2>5. /\ RefsIn(places, b) \in Nat
          /\ Cardinality(HandleRefs(handles, b))
               = Cardinality(HandleRefs(handles', b)) + RefsIn(places, b) + (IF b = m THEN 1 ELSE 0)
      BY <1>19
    <2> QED BY <2>1, <2>2, <2>3, <2>4, <2>5
  <1>22. TablesOK'
    BY <1>6, <1>20, TypeFacts DEF TablesOK
  <1> QED BY <1>6, <1>9, <1>16, <1>18, <1>21, <1>22, TypeFacts, PutTogether

\* A put that loses the tables of the tasks with the greatest ids.
LEMMA PutLosesTablesInv ==
  ASSUME IInv, NEW t \in Tasks, PutLosesTables(t)
  PROVE  IInv'
  <1>1. PICK cut \in Tasks :
          /\ handles' = [u \in Tasks |-> IF u > cut THEN [h \in Handle |-> None] ELSE handles[u]]
          /\ leaked' = [a \in Addr |-> leaked[a] + RefsIn({u \in Tasks : u > cut} \X Handle, a)]
          /\ tabled' = {u \in tabled \cup {t} : u < cut}
          /\ miscounted' = [u \in Tasks |-> u < cut /\ miscounted[u]]
          /\ dying' = cut
    BY DEF PutLosesTables
  <1> DEFINE places == {u \in Tasks : u > cut} \X Handle
  <1>2. UNCHANGED <<heapVars, held>>
    BY DEF PutLosesTables
  <1>3. handles' \in HandleMaps
    BY <1>1, TypeFacts DEF HandleMaps
  <1>4. GoneAt(handles, handles', places)
    BY <1>1 DEF GoneAt
  <1>5. places \subseteq Tasks \X Handle
    OBVIOUS
  <1>6. leaked' = [b \in Addr |-> leaked[b] + RefsIn(places, b)]
    BY <1>1
  <1> HIDE DEF places
  <1>7. ASSUME NEW b \in Addr
        PROVE  /\ RefsIn(places, b) \in Nat
               /\ Cardinality(HandleRefs(handles, b)) = Cardinality(HandleRefs(handles', b)) + RefsIn(places, b)
    <2>1. /\ RefsAt(handles, places, b) \in Nat
          /\ Cardinality(HandleRefs(handles, b)) = Cardinality(HandleRefs(handles', b)) + RefsAt(handles, places, b)
      BY <1>4, <1>5, LoseCounts
    <2> QED BY <2>1 DEF RefsIn, RefsAt
  <1>8. leaked' \in [Addr -> Nat]
    BY <1>6, <1>7, TypeFacts
  <1>9. Counted(refs', handles', held', leaked')
    <2> SUFFICES ASSUME NEW b \in Addr
                 PROVE  refs[b] = Cardinality(HandleRefs(handles', b)) + Cardinality(HeldRefs(held, b)) + leaked'[b]
      BY <1>2 DEF Counted, heapVars
    <2>1. refs[b] = Cardinality(HandleRefs(handles, b)) + Cardinality(HeldRefs(held, b)) + leaked[b]
      BY TypeFacts DEF Counted
    <2>2. leaked'[b] = leaked[b] + RefsIn(places, b)
      BY <1>6
    <2>3. /\ Cardinality(HandleRefs(handles', b)) \in Nat /\ Cardinality(HeldRefs(held, b)) \in Nat
          /\ leaked[b] \in Nat
      BY FiniteRefs, TypeFacts
    <2> QED BY <2>1, <2>2, <2>3, <1>7
  <1>10. TablesOK'
    <2>1. tabled' \subseteq Tasks /\ dying' \in Tasks \cup {None}
      BY <1>1, TypeFacts DEF TablesOK
    <2>2. miscounted' \in [Tasks -> BOOLEAN]
      BY <1>1
    <2> QED BY <1>8, <2>1, <2>2 DEF TablesOK
  <1>11. HeapInv'
    BY <1>2, TypeFacts DEF heapVars, HeapInv, HeapTypeOK
  <1> QED BY <1>2, <1>3, <1>9, <1>10, <1>11, TypeFacts, PutTogether DEF heapVars

\* The boxes of the rest of the kernel.
LEMMA OtherBoxInv ==
  ASSUME IInv, OtherBox
  PROVE  IInv'
  <1>1. UNCHANGED <<handles, held>> /\ leaked' = leaked /\ TablesOK'
    BY SameTables DEF OtherBox
  <1>2. CASE BoxNew
    <2>1. PICK l \in BoxLayouts :
            \/ \E a \in Addr : AllocAt(a, l) /\ live' = [live EXCEPT ![a] = l]
            \/ AllocFails(l) /\ UNCHANGED live
      BY <1>2 DEF BoxNew
    <2>2. l \in Layouts /\ UNCHANGED <<refs, lost>>
      BY <1>2 DEF BoxNew, Layouts
    <2>3. ASSUME NEW a \in Addr, AllocAt(a, l), live' = [live EXCEPT ![a] = l] PROVE IInv'
      <3>1. HeapInv'
        BY <2>2, <2>3, AllocInv, TypeFacts
      <3>2. Alive(refs', live')
        BY <2>2, <2>3, SizeFacts, TypeFacts DEF Alive
      <3> QED BY <1>1, <2>2, <3>1, <3>2, TypeFacts, PutTogether
    <2>4. ASSUME AllocFails(l), UNCHANGED live PROVE IInv'
      <3>1. HeapInv'
        BY <2>2, <2>4, AllocFailsInv, TypeFacts
      <3> QED BY <1>1, <2>2, <2>4, <3>1, TypeFacts, PutTogether
    <2> QED BY <2>1, <2>3, <2>4
  <1>3. CASE BoxDrop
    <2>1. PICK a \in Boxes : FreeLayout(a, live[a]) /\ live' = [live EXCEPT ![a] = None]
      BY <1>3 DEF BoxDrop
    <2>2. a \in Addr /\ live[a] # None /\ refs[a] = 0 /\ UNCHANGED <<ptr, tables, mapped, refs, lost>>
      BY <1>3 DEF BoxDrop, Boxes, pageVars
    <2>3. HeapInv'
      BY <2>1, <2>2, BoxDropInv, TypeFacts
    <2>4. Alive(refs', live')
      BY <2>1, <2>2, TypeFacts DEF Alive
    <2> QED BY <1>1, <2>2, <2>3, <2>4, TypeFacts, PutTogether
  <1> QED BY <1>2, <1>3 DEF OtherBox

\* Every step preserves the invariant.
LEMMA NextInv == IInv /\ [Next]_vars => IInv'
  <1> SUFFICES ASSUME IInv, [Next]_vars PROVE IInv'
    OBVIOUS
  <1>1. CASE UNCHANGED vars
    <2>1. HeapInv'
      BY <1>1, TypeFacts DEF vars, heapVars, HeapInv, HeapTypeOK
    <2>2. UNCHANGED tableVars
      BY <1>1 DEF vars
    <2>3. leaked' = leaked /\ TablesOK'
      BY <2>2, SameTables
    <2> QED BY <1>1, <2>1, <2>3, TypeFacts, PutTogether DEF vars, heapVars
  <1>2. CASE Next
    BY <1>2, NewObjectInv, PutInv, PutFailsInv, PutLosesInv, PutLosesTablesInv, GetInv, EndCallInv,
       ReleaseInv, OtherBoxInv, DropTableInv DEF Next
  <1> QED BY <1>1, <1>2

-----------------------------------------------------------------------------
(* The properties.                                                         *)

\* The invariant holds in every reachable state.
THEOREM InvariantHolds == Spec => []IInv
  BY InitInv, NextInv, PTL DEF Spec

\* object.rs and arc.rs: the count of an object is the number of handles and of
\* calls that refer to it and of the references that inserts without memory lost,
\* and what is referred to is not freed.
THEOREM CountsAreExact == Spec => []RefsExact
  <1>1. IInv => RefsExact
    BY DEF IInv
  <1> QED BY <1>1, InvariantHolds, PTL

\* Blocks that are apart share no byte.
LEMMA ApartBytes ==
  ASSUME NEW a \in Nat, NEW b \in Nat, NEW n \in Nat, NEW m \in Nat, a + n <= b \/ b + m <= a
  PROVE  Bytes(a, n) \cap Bytes(b, m) = {}
  BY DEF Bytes

\* kalloc.rs: whatever was allocated, dropped and carved before, values, free
\* blocks and the bytes lost by dropping Arcs tile the mapped heap, and every value
\* has its size and its alignment.
THEOREM HeapStaysTiled == Spec => []HeapIsTiled
  <1>1. HeapInv => HeapIsTiled
    <2> SUFFICES ASSUME HeapInv PROVE HeapIsTiled
      OBVIOUS
    <2> DEFINE entry(e) == Bytes(free[e[1]][e[2]], Classes[e[1]])
               block(b) == Bytes(b[1], b[2])
    <2>1. /\ free \in [Cl -> Seq(Addr)] /\ live \in [Addr -> Layouts \cup {None}] /\ lost \subseteq Nat
          /\ mapped \subseteq Nat
          /\ FreeOnce(free, live) /\ Shape(free, live, ptr) /\ Apart(free, live)
          /\ Covers(free, live, lost, mapped)
      BY SizeFacts DEF HeapInv, HeapOK, HeapTypeOK
    <2>2. ASSUME NEW e \in FreeEntries
          PROVE  /\ e[1] \in Cl /\ e[2] \in DOMAIN free[e[1]] /\ e = <<e[1], e[2]>>
                 /\ free[e[1]][e[2]] \in Addr /\ free[e[1]][e[2]] \in Nat
                 /\ Classes[e[1]] \in Sizes /\ Classes[e[1]] \in Nat
                 /\ IsBlock(free, live, free[e[1]][e[2]], Classes[e[1]])
      <3>0. PICK c \in Cl : \E i \in DOMAIN free[c] : e = <<c, i>>
        BY DEF FreeEntries, Cl
      <3>1. PICK i \in DOMAIN free[c] : e = <<c, i>>
        BY <3>0
      <3>4. free[c] \in Seq(Addr)
        BY <2>1
      <3>6. free[c][i] \in Addr
        BY <3>4
      <3>5. free[c][i] \in Addr /\ free[c][i] \in Nat
        <4>1. Addr \subseteq Nat
          BY SizeFacts
        <4> QED BY <3>6, <4>1
      <3>2. free[c][i] \in Addr /\ free[c][i] \in Nat /\ Classes[c] \in Sizes /\ Classes[c] \in Nat
        BY <3>5, SizeFacts DEF Sizes
      <3>3. IsBlock(free, live, free[c][i], Classes[c])
        BY DEF IsBlock
      <3> QED BY <3>1, <3>2, <3>3
    <2>3. ASSUME NEW b \in LiveBlocks
          PROVE  /\ b = <<b[1], b[2]>> /\ b[1] \in Addr /\ b[1] \in Nat /\ b[2] \in Sizes /\ b[2] \in Nat
                 /\ live[b[1]] # None /\ b[2] = Classes[class(live[b[1]])]
                 /\ IsBlock(free, live, b[1], b[2])
      <3>1. PICK a \in Addr : live[a] # None /\ b = <<a, Classes[class(live[a])]>>
        BY DEF LiveBlocks
      <3>2. IsBlock(free, live, a, Classes[class(live[a])])
        BY <3>1 DEF IsBlock
      <3>3. Classes[class(live[a])] \in Sizes /\ Classes[class(live[a])] \in Nat /\ a \in Nat
        BY <2>1, <3>2, BlockSize, SizeFacts
      <3> QED BY <3>1, <3>2, <3>3
    <2>4. ValuesFit
      <3> SUFFICES ASSUME NEW a \in Addr, live[a] # None
                   PROVE  a % live[a].align = 0 /\ live[a].size <= Classes[class(live[a])]
        BY DEF ValuesFit
      <3> DEFINE n == Classes[class(live[a])]
      <3>1. live[a] \in Layouts /\ a \in Nat
        BY <2>1, SizeFacts
      <3>2. live[a].align \in Nat \ {0}
        BY <3>1, HeapAssumption
      <3>3. n % live[a].align = 0 /\ live[a].size <= n
        BY <3>1, ClassFits
      <3>4. IsBlock(free, live, a, n)
        BY DEF IsBlock
      <3>5. n \in Sizes /\ n \in Nat \ {0}
        BY <2>1, <3>4, BlockSize
      <3>6. a % n = 0
        BY <2>1, <3>4, <3>5 DEF Shape
      <3> HIDE DEF n
      <3>7. a % live[a].align = 0
        BY <3>1, <3>2, <3>3, <3>5, <3>6, MultipleTrans
      <3> QED BY <3>3, <3>7 DEF n
    <2>5. ASSUME NEW e \in FreeEntries, NEW f \in FreeEntries, e # f PROVE entry(e) \cap entry(f) = {}
      <3>1. free[e[1]][e[2]] # free[f[1]][f[2]]
        BY <2>1, <2>2, <2>5 DEF FreeOnce
      <3>2. \/ free[e[1]][e[2]] + Classes[e[1]] <= free[f[1]][f[2]]
            \/ free[f[1]][f[2]] + Classes[f[1]] <= free[e[1]][e[2]]
        BY <2>1, <2>2, <3>1 DEF Apart
      <3> QED BY <2>2, <3>2, ApartBytes
    <2>6. ASSUME NEW b \in LiveBlocks, NEW d \in LiveBlocks, b # d PROVE block(b) \cap block(d) = {}
      <3>1. b[1] # d[1]
        BY <2>3, <2>6
      <3>2. b[1] + b[2] <= d[1] \/ d[1] + d[2] <= b[1]
        BY <2>1, <2>3, <3>1 DEF Apart
      <3> QED BY <2>3, <3>2, ApartBytes
    <2>7. ASSUME NEW e \in FreeEntries, NEW b \in LiveBlocks PROVE entry(e) \cap block(b) = {}
      <3>1. free[e[1]][e[2]] # b[1]
        BY <2>1, <2>2, <2>3 DEF FreeOnce
      <3>2. \/ free[e[1]][e[2]] + Classes[e[1]] <= b[1]
            \/ b[1] + b[2] <= free[e[1]][e[2]]
        BY <2>1, <2>2, <2>3, <3>1 DEF Apart
      <3> QED BY <2>2, <2>3, <3>2, ApartBytes
    <2>8. (UNION {entry(e) : e \in FreeEntries}) \cup (UNION {block(b) : b \in LiveBlocks}) \cup lost
            = UNION {Bytes(p, PageSize) : p \in mapped}
      <3> DEFINE L == (UNION {entry(e) : e \in FreeEntries}) \cup (UNION {block(b) : b \in LiveBlocks}) \cup lost
                 R == UNION {Bytes(p, PageSize) : p \in mapped}
                 Old(x) == \E a \in Addr, n \in Sizes : IsBlock(free, live, a, n) /\ x \in Bytes(a, n)
      <3>1. \A a, n \in Nat : Bytes(a, n) \subseteq Nat
        BY DEF Bytes
      <3>4. ASSUME NEW x
            PROVE  x \in L <=> \/ x \in lost
                               \/ \E e \in FreeEntries : x \in entry(e)
                               \/ \E b \in LiveBlocks : x \in block(b)
        <4> HIDE DEF entry, block
        <4> QED BY DEF L
      <3> HIDE DEF L
      <3>2. ASSUME NEW x \in L PROVE x \in R
        <4>1. x \in Nat /\ (x \in lost \/ Old(x))
          <5>1. CASE x \in lost
            BY <5>1, <2>1
          <5>2. ASSUME NEW e \in FreeEntries, x \in entry(e) PROVE x \in Nat /\ Old(x)
            BY <5>2, <3>1, <2>2
          <5>3. ASSUME NEW b \in LiveBlocks, x \in block(b) PROVE x \in Nat /\ Old(x)
            BY <5>3, <3>1, <2>3
          <5> QED BY <3>4, <5>1, <5>2, <5>3
        <4>2. \E p \in mapped : x \in Bytes(p, PageSize)
          BY <4>1, <2>1 DEF Covers
        <4> QED BY <4>2
      <3>3. ASSUME NEW x \in R PROVE x \in L
        <4>1. PICK p \in mapped : x \in Bytes(p, PageSize)
          OBVIOUS
        <4>2. x \in Nat
          BY <4>1, <3>1, <2>1, SizeFacts
        <4>3. x \in lost \/ Old(x)
          BY <4>1, <4>2, <2>1 DEF Covers
        <4>4. CASE x \in lost
          BY <3>4, <4>4
        <4>5. CASE Old(x)
          <5>1. PICK a \in Addr, n \in Sizes : IsBlock(free, live, a, n) /\ x \in Bytes(a, n)
            BY <4>5
          <5>2. CASE \E c \in Cl : (\E i \in DOMAIN free[c] : free[c][i] = a) /\ n = Classes[c]
            <6>0. PICK c \in Cl : (\E i \in DOMAIN free[c] : free[c][i] = a) /\ n = Classes[c]
              BY <5>2
            <6>1. PICK i \in DOMAIN free[c] : free[c][i] = a /\ n = Classes[c]
              BY <6>0
            <6>2. <<c, i>> \in FreeEntries /\ entry(<<c, i>>) = Bytes(a, n)
              BY <6>1 DEF FreeEntries, Cl
            <6> QED BY <3>4, <5>1, <6>2
          <5>3. CASE live[a] # None /\ n = Classes[class(live[a])]
            <6>1. <<a, n>> \in LiveBlocks /\ block(<<a, n>>) = Bytes(a, n)
              BY <5>3 DEF LiveBlocks
            <6> QED BY <3>4, <5>1, <6>1
          <5> QED BY <5>1, <5>2, <5>3 DEF IsBlock
        <4> QED BY <4>3, <4>4, <4>5
      <3> QED BY <3>2, <3>3 DEF L
    <2> QED BY <2>4, <2>5, <2>6, <2>7, <2>8 DEF HeapIsTiled
  <1> QED BY <1>1, InvariantHolds, PTL DEF IInv

\* The ways in which the handle h of t may end.
Releases(t, h) ==
  Release(t) /\ \A u \in Tasks, g \in Handle : handles'[u][g] # handles[u][g] => u = t /\ g = h
Loses(t, h) ==
  \/ PutLoses(t) /\ \A g \in Handle : g >= h => handles'[t][g] = None
  \/ (\E u \in Tasks : PutLosesTables(u)) /\ \A g \in Handle : handles'[t][g] = None
  \/ dying = t
Keeps(t, h) ==
  \/ handles[t][h] \in {None, handles'[t][h]}
  \/ handles'[t][h] = None /\ (Releases(t, h) \/ Loses(t, h))

\* One handle g of u goes.
LEMMA OneHandleGone ==
  ASSUME IInv, NEW u \in Tasks, NEW g \in Used(u), handles' = [handles EXCEPT ![u][g] = None]
  PROVE  /\ g \in Handle /\ handles'[u][g] = None
         /\ \A t \in Tasks, h \in Handle : t # u \/ h # g => handles'[t][h] = handles[t][h]
  BY TypeFacts DEF Used, HandleMaps

\* object.rs: a handle leads to the same object until its task releases it, except
\* where an insert without memory loses it.
THEOREM HandlesAreStable == Spec => HandleKeepsObject
  <1> DEFINE AllKeep == \A t \in Tasks, h \in Handle : Keeps(t, h)
  <1>1. IInv /\ [Next]_vars => [AllKeep]_vars
    <2> SUFFICES ASSUME IInv, Next, NEW t \in Tasks, NEW h \in Handle PROVE Keeps(t, h)
      OBVIOUS
    <2>1. CASE UNCHANGED handles
      BY <2>1 DEF Keeps
    <2>2. ASSUME NEW u \in Tasks, Put(u) PROVE Keeps(t, h)
      <3>1. PICK g \in NewIds(u) : handles' = [handles EXCEPT ![u][g] = held[u]]
        BY <2>2 DEF Put
      <3>2. g \in Handle /\ handles[u][g] = None
        BY NewIdUnused
      <3>3. t # u \/ h # g => handles'[t][h] = handles[t][h]
        BY <3>1, TypeFacts DEF HandleMaps
      <3> QED BY <3>2, <3>3 DEF Keeps
    <2>3. ASSUME NEW u \in Tasks, Release(u) PROVE Keeps(t, h)
      <3>1. PICK g \in Used(u) : handles' = [handles EXCEPT ![u][g] = None]
        BY <2>3 DEF Release
      <3>2. /\ g \in Handle /\ handles'[u][g] = None
            /\ \A v \in Tasks, k \in Handle : v # u \/ k # g => handles'[v][k] = handles[v][k]
        BY <3>1, OneHandleGone
      <3>3. CASE t = u /\ h = g
        BY <3>2, <3>3, <2>3 DEF Keeps, Releases
      <3>4. CASE t # u \/ h # g
        BY <3>2, <3>4 DEF Keeps
      <3> QED BY <3>3, <3>4
    <2>4. ASSUME NEW u \in Tasks, PutLoses(u) PROVE Keeps(t, h)
      <3>1. PICK cut \in Used(u) : handles' = [handles EXCEPT ![u] =
                                     [k \in Handle |-> IF k >= cut THEN None ELSE handles[u][k]]]
        BY <2>4 DEF PutLoses
      <3>2. cut \in Nat /\ Handle \subseteq Nat
        BY ObjectsAssumption DEF Used, Handle
      <3>3. \A v \in Tasks, k \in Handle :
              handles'[v][k] = IF v = u /\ k >= cut THEN None ELSE handles[v][k]
        BY <3>1, TypeFacts DEF HandleMaps
      <3>4. CASE t = u /\ h >= cut
        <4>1. \A g \in Handle : g >= h => handles'[t][g] = None
          <5> SUFFICES ASSUME NEW g \in Handle, g >= h PROVE handles'[t][g] = None
            OBVIOUS
          <5>1. g >= cut
            BY <3>2, <3>4
          <5> QED BY <5>1, <3>3, <3>4
        <4>2. handles'[t][h] = None
          BY <3>3, <3>4
        <4> QED BY <4>1, <4>2, <3>4, <2>4 DEF Keeps, Loses
      <3>5. CASE ~(t = u /\ h >= cut)
        BY <3>3, <3>5 DEF Keeps
      <3> QED BY <3>4, <3>5
    <2>5. ASSUME NEW u \in Tasks, PutLosesTables(u) PROVE Keeps(t, h)
      <3>1. PICK cut \in Tasks : handles' = [v \in Tasks |-> IF v > cut THEN [k \in Handle |-> None] ELSE handles[v]]
        BY <2>5 DEF PutLosesTables
      <3>2. CASE t > cut
        <4>1. \A g \in Handle : handles'[t][g] = None
          BY <3>1, <3>2
        <4> QED BY <4>1, <2>5 DEF Keeps, Loses
      <3>3. CASE ~(t > cut)
        BY <3>1, <3>3 DEF Keeps
      <3> QED BY <3>2, <3>3
    <2>6. ASSUME dying # None, DropTable PROVE Keeps(t, h)
      <3>1. CASE Used(dying) = {}
        BY <3>1, <2>6, <2>1 DEF DropTable
      <3>2. CASE Used(dying) # {}
        <4>1. PICK g \in Used(dying) : handles' = [handles EXCEPT ![dying][g] = None]
          BY <3>2, <2>6 DEF DropTable
        <4>2. dying \in Tasks
          BY <2>6, TypeFacts DEF TablesOK
        <4>3. /\ g \in Handle /\ handles'[dying][g] = None
              /\ \A v \in Tasks, k \in Handle : v # dying \/ k # g => handles'[v][k] = handles[v][k]
          BY <4>1, <4>2, OneHandleGone
        <4>4. CASE t = dying /\ h = g
          BY <4>3, <4>4 DEF Keeps, Loses
        <4>5. CASE t # dying \/ h # g
          BY <4>3, <4>5 DEF Keeps
        <4> QED BY <4>4, <4>5
      <3> QED BY <3>1, <3>2
    <2>7. ASSUME NEW u \in Tasks, NewObject(u) \/ Get(u) \/ EndCall(u) \/ PutFails(u) PROVE UNCHANGED handles
      BY <2>7 DEF NewObject, Get, EndCall, PutFails
    <2>8. OtherBox => UNCHANGED handles
      BY DEF OtherBox
    <2> QED BY <2>1, <2>2, <2>3, <2>4, <2>5, <2>6, <2>7, <2>8 DEF Next
  <1>2. HandleKeepsObject <=> [][AllKeep]_vars
    <2> DEFINE Body == \A t \in Tasks, h \in Handle :
                         \/ handles[t][h] \in {None, handles'[t][h]}
                         \/ /\ handles'[t][h] = None
                            /\ \/ /\ Release(t)
                                  /\ \A u \in Tasks, g \in Handle :
                                       handles'[u][g] # handles[u][g] => u = t /\ g = h
                               \/ PutLoses(t) /\ \A g \in Handle : g >= h => handles'[t][g] = None
                               \/ (\E u \in Tasks : PutLosesTables(u)) /\ \A g \in Handle : handles'[t][g] = None
                               \/ dying = t
    <2>1. AllKeep <=> Body
      BY DEF Keeps, Releases, Loses
    <2> QED BY <2>1, PTL DEF HandleKeepsObject
  <1> QED BY <1>1, <1>2, InvariantHolds, PTL DEF Spec
=============================================================================
