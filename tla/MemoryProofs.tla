---------------------------- MODULE MemoryProofs ----------------------------
(***************************************************************************)
(* Proofs about physical pages and address spaces, for any regions, any    *)
(* virtual pages and page table paths, and any number of tasks.            *)
(***************************************************************************)
EXTENDS Memory, FiniteSetTheorems, TLAPS

(***************************************************************************)
(* The inductive invariant.  Its parts take the variables they speak of as *)
(* parameters, because most calls change only some of them.                *)
(***************************************************************************)

\* What alloc can hand out.
Listed(fr, p) == \E i \in DOMAIN fr : fr[i] = p
Fresh(bp, p) == \E i \in DOMAIN Regions : p \in bp[i] .. (Regions[i].end - 1)
Offers(fr, bp, p) == Listed(fr, p) \/ Fresh(bp, p)

\* Nothing is offered twice.
AllocatorOK(fr, bp) ==
  /\ fr \in Seq(Page)
  /\ bp \in [DOMAIN Regions -> Nat]
  /\ \A i \in DOMAIN Regions : Regions[i].begin <= bp[i]
  /\ \A i, j \in DOMAIN fr : fr[i] = fr[j] => i = j
  /\ \A p \in Page : ~(Listed(fr, p) /\ Fresh(bp, p))

\* The entries for p, those that alloc_page made, and how many there are.
IsEntry(en, c, v, p) == en[c][v] # None /\ en[c][v].page = p
OwnEntry(en, c, v, p) == IsEntry(en, c, v, p) /\ en[c][v].by = "alloc"
Owned(en, p) == \E c \in Pml4, v \in Virt : OwnEntry(en, c, v, p)
EntriesOf(en, p) == {cv \in Pml4 \X Virt : IsEntry(en, cv[1], cv[2], p)}
Count(en, p) == Cardinality(EntriesOf(en, p))
InTable(tb, p) == \E c \in Pml4, n \in Table : tb[c][n] = p

\* alloc_page maps a page once, and it is one page table of one page context.
UsedOnce(en, tb) ==
  /\ \A p \in Page : \A c, d \in Pml4, v, w \in Virt :
       OwnEntry(en, c, v, p) /\ OwnEntry(en, d, w, p) => c = d /\ v = w
  /\ \A p \in Page : \A c, d \in Pml4, n, m \in Table :
       tb[c][n] = p /\ tb[d][m] = p => c = d /\ n = m

\* A page has n references: e entries, l lost with tables, and one more for each of t,
\* s, k and h: it is a table, an object and cr3 keep it as PML4, it is held.  If it is
\* a table, a PML4 or offered (o) it is just that.  A page in the hand of alloc_page
\* (g) has no owner (w) yet.
PageOK(n, e, w, t, l, s, k, h, g, o) ==
  /\ o \/ t \/ s \/ k => e = 0 /\ l = 0 /\ ~h
  /\ o => ~t /\ ~s /\ ~k
  /\ t => ~s /\ ~k
  /\ g => ~w
  /\ n = e + One(t) + l + One(s) + One(k) + One(h)

PageAt(p) ==
  PageOK(rc[p], Count(entries, p), Owned(entries, p), InTable(tables, p), leaked[p],
         strong[p] > 0, cr3 = p, held = p, held = p /\ job.call = "alloc",
         Offers(free, bump, p))

PagesOK == \A p \in Page : PageAt(p)

\* The references to the object of page context c: k = 0 for the task itself, and
\* k > 0 for its handles.
Holders(hs, tc, c) ==
  {tk \in Tasks \X Nat : IF tk[2] = 0 THEN tc[tk[1]] = c ELSE tk[2] <= hs[tk[1]][c]}

HoldersOK ==
  \A c \in Pml4 : IsFiniteSet(Holders(handles, taskCtx, c))
                    /\ strong[c] = Cardinality(Holders(handles, taskCtx, c))

\* Where the kernel is, and what it has in hand.
JobOK ==
  /\ pc \in {"User", "Switch", "Dispatch", "Loop"} => held = None
  /\ pc \in {"Loop", "Map"} =>
       \A i, j \in DOMAIN job.todo : i # j => job.todo[i] # job.todo[j]
  /\ pc = "Map" => /\ held # None
                   /\ job.call \in {"alloc", "map_physical"}
                   /\ job.todo # <<>>

\* The parts: physical pages, and the call in progress with the TLB.
PhysInv == AllocatorOK(free, bump) /\ UsedOnce(entries, tables) /\ PagesOK
CallInv == JobOK /\ ValidationHolds /\ TlbCoherent

MemInv == TypeOK /\ PhysInv /\ HoldersOK /\ CallInv

-----------------------------------------------------------------------------
(* The allocator.                                                          *)

\* What the assumptions say of regions and pages.
LEMMA PageFacts ==
  /\ DOMAIN Regions \subseteq Nat
  /\ \A i \in DOMAIN Regions : Regions[i].begin \in Nat \ {0} /\ Regions[i].end \in Nat
  /\ \A i, j \in DOMAIN Regions : i < j => Regions[i].end <= Regions[j].begin
  /\ \A p : p \in Page <=> \E i \in DOMAIN Regions : p \in Regions[i].begin .. (Regions[i].end - 1)
  /\ Page \subseteq Nat /\ Page \subseteq Pml4 /\ BootCtx \in Pml4 /\ BootCtx \notin Page
  /\ None \notin Page /\ None \notin Pml4 /\ None \notin Hardware /\ None \notin Entry
  /\ Hardware \cap Page = {}
  <1>1. /\ DOMAIN Regions \subseteq Nat
        /\ \A i \in DOMAIN Regions : Regions[i].begin \in Nat \ {0} /\ Regions[i].end \in Nat
        /\ \A i, j \in DOMAIN Regions : i < j => Regions[i].end <= Regions[j].begin
    <2> DEFINE R == [begin: Nat \ {0}, end: Nat]
    <2>1. Regions \in Seq(R)
      BY MemoryAssumption
    <2>2. \A r \in R : r.begin \in Nat \ {0} /\ r.end \in Nat
      OBVIOUS
    <2> HIDE DEF R
    <2>3. DOMAIN Regions \subseteq Nat /\ \A i \in DOMAIN Regions : Regions[i] \in R
      BY <2>1
    <2> QED BY <2>2, <2>3, MemoryAssumption
  <1>2. \A p : p \in Page <=> \E i \in DOMAIN Regions : p \in Regions[i].begin .. (Regions[i].end - 1)
    BY DEF Page
  <1>3. Page \subseteq Nat
    BY <1>1, <1>2
  <1> QED BY <1>1, <1>2, <1>3, MemoryAssumption, NoneAssumption DEF Pml4

\* The first region with a page left is the only one.
LEMMA OneFirstOpen ==
  ASSUME bump \in [DOMAIN Regions -> Nat],
         NEW i \in DOMAIN Regions, NEW j \in DOMAIN Regions, FirstOpen(i), FirstOpen(j)
  PROVE  i = j
  BY PageFacts DEF FirstOpen

\* alloc returns a page that was offered, and from then on offers it no more.
LEMMA AllocOffers ==
  ASSUME AllocatorOK(free, bump), ~Exhausted
  PROVE  /\ Allocated \in Page /\ Offers(free, bump, Allocated)
         /\ AllocatorOK(FreeLeft, BumpLeft)
         /\ \A p \in Page : Offers(FreeLeft, BumpLeft, p) <=> Offers(free, bump, p) /\ p # Allocated
  <1>1. CASE free # <<>>
    <2>1. Allocated = Head(free) /\ FreeLeft = Tail(free)
      BY <1>1 DEF Allocated, FreeLeft
    <2>2. BumpLeft = bump
      BY <1>1 DEF BumpLeft, AllocatorOK
    <2>3. free \in Seq(Page) /\ \A i, j \in DOMAIN free : free[i] = free[j] => i = j
      BY DEF AllocatorOK
    <2>4. /\ Head(free) \in Page /\ Head(free) = free[1] /\ 1 \in DOMAIN free
          /\ Tail(free) \in Seq(Page) /\ DOMAIN Tail(free) = 1 .. (Len(free) - 1)
          /\ DOMAIN free = 1 .. Len(free) /\ Len(free) \in Nat
          /\ \A i \in DOMAIN Tail(free) : Tail(free)[i] = free[i + 1] /\ i + 1 \in DOMAIN free
      BY <1>1, <2>3
    <2>5. \A p : Listed(Tail(free), p) <=> Listed(free, p) /\ p # Head(free)
      <3> SUFFICES ASSUME NEW p PROVE Listed(Tail(free), p) <=> Listed(free, p) /\ p # Head(free)
        OBVIOUS
      <3>1. ASSUME NEW i \in DOMAIN Tail(free), Tail(free)[i] = p PROVE Listed(free, p) /\ p # Head(free)
        BY <2>3, <2>4, <3>1 DEF Listed
      <3>2. ASSUME NEW i \in DOMAIN free, free[i] = p, p # Head(free) PROVE Listed(Tail(free), p)
        <4>1. i # 1 /\ i - 1 \in DOMAIN Tail(free) /\ Tail(free)[i - 1] = free[i]
          BY <2>4, <3>2
        <4> QED BY <3>2, <4>1 DEF Listed
      <3> QED BY <3>1, <3>2 DEF Listed
    <2>6. \A i, j \in DOMAIN Tail(free) : Tail(free)[i] = Tail(free)[j] => i = j
      BY <2>3, <2>4
    <2>7. Listed(free, Head(free))
      BY <2>4 DEF Listed
    <2>8. AllocatorOK(Tail(free), bump)
      BY <2>4, <2>5, <2>6 DEF AllocatorOK
    <2>9. ~Fresh(bump, Head(free))
      BY <2>4, <2>7 DEF AllocatorOK
    <2> QED BY <2>1, <2>2, <2>4, <2>5, <2>7, <2>8, <2>9 DEF Offers
  <1>2. CASE free = <<>>
    <2>1. \E i \in DOMAIN Regions : FirstOpen(i)
      BY <1>2 DEF Exhausted
    <2> DEFINE r == CHOOSE i \in DOMAIN Regions : FirstOpen(i)
    <2>2. r \in DOMAIN Regions /\ FirstOpen(r)
      BY <2>1
    <2>3. Allocated = bump[r]
      BY <1>2 DEF Allocated
    <2> HIDE DEF r
    <2>4. /\ bump \in [DOMAIN Regions -> Nat]
          /\ \A i \in DOMAIN Regions : Regions[i].begin <= bump[i]
      BY DEF AllocatorOK
    <2>5. \A i \in DOMAIN Regions : FirstOpen(i) <=> i = r
      BY <2>2, <2>4, OneFirstOpen
    <2>6. BumpLeft = [i \in DOMAIN Regions |-> IF i = r THEN bump[i] + 1 ELSE bump[i]]
      BY <1>2, <2>5 DEF BumpLeft
    <2>7. FreeLeft = <<>>
      BY <1>2 DEF FreeLeft
    <2>8. \A p : ~Listed(<<>>, p)
      BY DEF Listed
    <2>9. bump[r] < Regions[r].end
      BY <2>2 DEF FirstOpen
    <2>10. bump[r] \in Regions[r].begin .. (Regions[r].end - 1) /\ bump[r] \in bump[r] .. (Regions[r].end - 1)
      BY <2>2, <2>4, <2>9, PageFacts
    <2>11. bump[r] \in Page /\ Fresh(bump, bump[r])
      BY <2>2, <2>10, PageFacts DEF Fresh
    <2>12. \A p \in Page : Fresh(BumpLeft, p) <=> Fresh(bump, p) /\ p # bump[r]
      <3> SUFFICES ASSUME NEW p \in Page PROVE Fresh(BumpLeft, p) <=> Fresh(bump, p) /\ p # bump[r]
        OBVIOUS
      <3>0. p \in Nat
        BY PageFacts
      <3>1. ASSUME NEW i \in DOMAIN Regions, p \in BumpLeft[i] .. (Regions[i].end - 1)
            PROVE  p \in bump[i] .. (Regions[i].end - 1) /\ p # bump[r]
        <4>1. CASE i = r
          BY <2>4, <2>6, <3>0, <3>1, <4>1, PageFacts
        <4>2. CASE i # r
          <5>1. BumpLeft[i] = bump[i]
            BY <2>6, <4>2
          <5>2. p \in bump[i] .. (Regions[i].end - 1)
            BY <3>1, <5>1
          <5>3. i < r \/ r < i
            BY <2>2, <4>2, PageFacts
          <5>4. i < r => Regions[i].end <= Regions[r].begin
            BY <2>2, PageFacts
          <5>5. r < i => Regions[r].end <= Regions[i].begin
            BY <2>2, PageFacts
          <5>6. /\ Regions[i].begin \in Nat /\ Regions[r].begin \in Nat /\ Regions[i].end \in Nat /\ Regions[r].end \in Nat
                /\ bump[i] \in Nat /\ bump[r] \in Nat /\ Regions[i].begin <= bump[i] /\ Regions[r].begin <= bump[r]
            BY <2>2, <2>4, PageFacts
          <5> QED BY <2>9, <3>0, <5>2, <5>3, <5>4, <5>5, <5>6
        <4> QED BY <4>1, <4>2
      <3>2. ASSUME NEW i \in DOMAIN Regions, p \in bump[i] .. (Regions[i].end - 1), p # bump[r]
            PROVE  p \in BumpLeft[i] .. (Regions[i].end - 1)
        BY <2>4, <2>6, <3>0, <3>2, PageFacts
      <3> QED BY <3>1, <3>2 DEF Fresh
    <2>13. BumpLeft \in [DOMAIN Regions -> Nat] /\ \A i \in DOMAIN Regions : Regions[i].begin <= BumpLeft[i]
      BY <2>2, <2>4, <2>6, PageFacts
    <2>14. AllocatorOK(<<>>, BumpLeft)
      BY <2>8, <2>13 DEF AllocatorOK
    <2> QED BY <1>2, <2>3, <2>7, <2>8, <2>11, <2>12, <2>14 DEF Offers
  <1> QED BY <1>1, <1>2

\* A page that was not offered is put at the head of the list.
LEMMA PushOffers ==
  ASSUME NEW fr, NEW bp, AllocatorOK(fr, bp), NEW p \in Page, ~Offers(fr, bp, p)
  PROVE  /\ AllocatorOK(<<p>> \o fr, bp)
         /\ \A q \in Page : Offers(<<p>> \o fr, bp, q) <=> Offers(fr, bp, q) \/ q = p
  <1> DEFINE g == <<p>> \o fr
  <1>1. fr \in Seq(Page)
    BY DEF AllocatorOK
  <1>2. /\ g \in Seq(Page) /\ DOMAIN g = 1 .. (Len(fr) + 1) /\ DOMAIN fr = 1 .. Len(fr) /\ Len(fr) \in Nat
        /\ g[1] = p /\ \A i \in DOMAIN fr : g[i + 1] = fr[i]
        /\ \A i \in DOMAIN g : i # 1 => i - 1 \in DOMAIN fr /\ g[i] = fr[i - 1]
    BY <1>1
  <1> HIDE DEF g
  <1>3. \A q : Listed(g, q) <=> Listed(fr, q) \/ q = p
    <2> SUFFICES ASSUME NEW q PROVE Listed(g, q) <=> Listed(fr, q) \/ q = p
      OBVIOUS
    <2>1. ASSUME NEW i \in DOMAIN g, g[i] = q PROVE Listed(fr, q) \/ q = p
      BY <1>2, <2>1 DEF Listed
    <2>2. ASSUME NEW i \in DOMAIN fr, fr[i] = q PROVE Listed(g, q)
      <3>1. i + 1 \in DOMAIN g /\ g[i + 1] = q
        BY <1>2, <2>2
      <3> QED BY <3>1 DEF Listed
    <2>3. Listed(g, p)
      <3>1. 1 \in DOMAIN g
        BY <1>2
      <3> QED BY <1>2, <3>1 DEF Listed
    <2> QED BY <2>1, <2>2, <2>3 DEF Listed
  <1>4. ASSUME NEW i \in DOMAIN g, NEW j \in DOMAIN g, g[i] = g[j] PROVE i = j
    <2>1. CASE i = 1 \/ j = 1
      <3>1. \A k \in DOMAIN fr : fr[k] # p
        BY DEF Offers, Listed
      <3> QED BY <1>2, <1>4, <2>1, <3>1
    <2>2. CASE i # 1 /\ j # 1
      <3>1. \A k, l \in DOMAIN fr : fr[k] = fr[l] => k = l
        BY DEF AllocatorOK
      <3>2. i - 1 = j - 1
        BY <1>2, <1>4, <2>2, <3>1
      <3> QED BY <1>2, <3>2
    <2> QED BY <2>1, <2>2
  <1>5. AllocatorOK(g, bp)
    <2>1. ~Fresh(bp, p)
      BY DEF Offers
    <2>2. \A q \in Page : ~(Listed(g, q) /\ Fresh(bp, q))
      BY <1>3, <2>1 DEF AllocatorOK
    <2> QED BY <1>2, <1>4, <2>2 DEF AllocatorOK
  <1> QED BY <1>3, <1>5 DEF Offers, g

-----------------------------------------------------------------------------
(* Entries and tables.                                                     *)

\* There are finitely many places for entries.
LEMMA FinitePlaces == IsFiniteSet(Pml4 \X Virt)
  <1>1. IsFiniteSet(Page)
    <2>1. CASE DOMAIN Regions = {}
      <3>1. Page = {}
        BY <2>1, PageFacts
      <3> QED BY <3>1, FS_EmptySet
    <2>2. CASE DOMAIN Regions # {}
      <3> DEFINE k == Len(Regions)
                 n == Regions[k].begin + Regions[k].end
      <3>1. k \in DOMAIN Regions /\ \A i \in DOMAIN Regions : i \in Nat /\ (i < k \/ i = k)
        BY <2>2, MemoryAssumption
      <3>2. /\ Regions[k].begin \in Nat /\ Regions[k].end \in Nat
            /\ \A i \in DOMAIN Regions : i < k => Regions[i].end <= Regions[k].begin
        BY <3>1, PageFacts
      <3> HIDE DEF k
      <3>3. ASSUME NEW p \in Page PROVE p <= n
        <4>1. PICK i \in DOMAIN Regions : p \in Regions[i].begin .. (Regions[i].end - 1)
          BY PageFacts
        <4>2. p \in Nat /\ Regions[i].end \in Nat /\ Regions[i].begin \in Nat
          BY PageFacts
        <4>3. p <= Regions[i].end
          BY <4>1, <4>2
        <4> QED BY <3>1, <3>2, <4>2, <4>3
      <3>4. Page \in SUBSET Nat /\ n \in Nat
        BY <3>2, PageFacts
      <3> HIDE DEF n
      <3> QED BY <3>3, <3>4, FS_BoundedSetOfNaturals
    <2> QED BY <2>1, <2>2
  <1>2. IsFiniteSet({BootCtx})
    BY FS_Singleton
  <1>3. IsFiniteSet(Pml4)
    BY <1>1, <1>2, FS_Union DEF Pml4
  <1>4. IsFiniteSet(Virt)
    BY MemoryAssumption
  <1> QED BY <1>3, <1>4, FS_Product

\* The number of entries for a page.
LEMMA CountFacts ==
  ASSUME NEW en, NEW p
  PROVE  /\ IsFiniteSet(EntriesOf(en, p)) /\ Count(en, p) \in Nat
         /\ Owned(en, p) => Count(en, p) > 0
         /\ \A c \in Pml4, v \in Virt : IsEntry(en, c, v, p) => Count(en, p) > 0
  <1>1. EntriesOf(en, p) \in SUBSET (Pml4 \X Virt)
    BY DEF EntriesOf
  <1>2. IsFiniteSet(EntriesOf(en, p))
    BY <1>1, FinitePlaces, FS_Subset
  <1>3. Count(en, p) \in Nat
    BY <1>2, FS_CardinalityType DEF Count
  <1>4. ASSUME NEW c \in Pml4, NEW v \in Virt, IsEntry(en, c, v, p) PROVE Count(en, p) > 0
    <2>1. <<c, v>> \in EntriesOf(en, p)
      BY <1>4 DEF EntriesOf
    <2>2. Count(en, p) # 0
      BY <1>2, <2>1, FS_EmptySet DEF Count
    <2> QED BY <1>3, <2>2
  <1> QED BY <1>2, <1>3, <1>4 DEF Owned, OwnEntry

\* The tables of en2 are those of en but for the place [c][v].
ButFor(en, en2, V, c, v) ==
  \A d \in Pml4, w \in V : d # c \/ w # v => en2[d][w] = en[d][w]

\* p has one entry more, made by that call, or one entry less; other pages have as
\* many as they had.
Gains(en, en2, p, call) ==
  \A q \in Page : /\ Count(en2, q) = IF q = p THEN Count(en, q) + 1 ELSE Count(en, q)
                  /\ Owned(en2, q) <=> Owned(en, q) \/ (q = p /\ call = "alloc")
Loses(en, en2, p) ==
  \A q \in Page : /\ Count(en2, q) = IF q = p THEN Count(en, q) - 1 ELSE Count(en, q)
                  /\ Owned(en2, q) => Owned(en, q)

\* page::map.
LEMMA MapUses ==
  ASSUME NEW en, NEW en2, NEW tb, UsedOnce(en, tb),
         NEW c \in Pml4, NEW v \in Virt, ButFor(en, en2, Virt, c, v),
         en[c][v] = None, NEW p, NEW call,
         en2[c][v] # None /\ en2[c][v].page = p /\ en2[c][v].by = call,
         p \in Page /\ call = "alloc" => ~Owned(en, p)
  PROVE  /\ UsedOnce(en2, tb)
         /\ Gains(en, en2, p, call)
  <1>1. ASSUME NEW q \in Page, NEW d \in Pml4, NEW w \in Virt
        PROVE  /\ IsEntry(en2, d, w, q) <=> IsEntry(en, d, w, q) \/ (d = c /\ w = v /\ q = p)
               /\ OwnEntry(en2, d, w, q) <=> OwnEntry(en, d, w, q) \/ (d = c /\ w = v /\ q = p /\ call = "alloc")
               /\ ~IsEntry(en, c, v, q)
    BY DEF ButFor, IsEntry, OwnEntry
  <1>2. ASSUME NEW q \in Page
        PROVE  /\ Count(en2, q) = IF q = p THEN Count(en, q) + 1 ELSE Count(en, q)
               /\ Owned(en2, q) <=> Owned(en, q) \/ (q = p /\ call = "alloc")
    <2>1. Owned(en2, q) <=> Owned(en, q) \/ (q = p /\ call = "alloc")
      BY <1>1 DEF Owned
    <2>2. CASE q = p
      <3>1. EntriesOf(en2, q) = EntriesOf(en, q) \cup {<<c, v>>}
        BY <1>1, <2>2 DEF EntriesOf
      <3>2. <<c, v>> \notin EntriesOf(en, q)
        BY <1>1 DEF EntriesOf
      <3>3. Cardinality(EntriesOf(en2, q)) = Cardinality(EntriesOf(en, q)) + 1
        BY <3>1, <3>2, CountFacts, FS_AddElement
      <3> QED BY <2>1, <2>2, <3>3 DEF Count
    <2>3. CASE q # p
      <3>1. EntriesOf(en2, q) = EntriesOf(en, q)
        BY <1>1, <2>3 DEF EntriesOf
      <3> QED BY <2>1, <2>3, <3>1 DEF Count
    <2> QED BY <2>2, <2>3
  <1>3. ASSUME NEW q \in Page, NEW d1 \in Pml4, NEW d2 \in Pml4, NEW w1 \in Virt, NEW w2 \in Virt,
               OwnEntry(en2, d1, w1, q), OwnEntry(en2, d2, w2, q)
        PROVE  d1 = d2 /\ w1 = w2
    <2>1. OwnEntry(en, d1, w1, q) \/ (d1 = c /\ w1 = v /\ q = p /\ call = "alloc")
      BY <1>1, <1>3
    <2>2. OwnEntry(en, d2, w2, q) \/ (d2 = c /\ w2 = v /\ q = p /\ call = "alloc")
      BY <1>1, <1>3
    <2>3. CASE OwnEntry(en, d1, w1, q) /\ OwnEntry(en, d2, w2, q)
      BY <2>3 DEF UsedOnce
    <2>4. q = p /\ call = "alloc" => ~OwnEntry(en, d1, w1, q) /\ ~OwnEntry(en, d2, w2, q)
      BY DEF Owned
    <2> QED BY <2>1, <2>2, <2>3, <2>4
  <1>4. Gains(en, en2, p, call)
    BY <1>2 DEF Gains
  <1> QED BY <1>3, <1>4 DEF UsedOnce

\* page::unmap.
LEMMA UnmapUses ==
  ASSUME NEW en, NEW en2, NEW tb, UsedOnce(en, tb),
         NEW c \in Pml4, NEW v \in Virt, ButFor(en, en2, Virt, c, v),
         NEW p, en[c][v] # None /\ en[c][v].page = p, en2[c][v] = None
  PROVE  /\ UsedOnce(en2, tb)
         /\ Loses(en, en2, p)
  <1>1. ASSUME NEW q \in Page, NEW d \in Pml4, NEW w \in Virt
        PROVE  /\ IsEntry(en2, d, w, q) <=> IsEntry(en, d, w, q) /\ ~(d = c /\ w = v)
               /\ OwnEntry(en2, d, w, q) => OwnEntry(en, d, w, q)
               /\ IsEntry(en, c, v, q) <=> q = p
    BY DEF ButFor, IsEntry, OwnEntry
  <1>2. ASSUME NEW q \in Page
        PROVE  /\ Count(en2, q) = IF q = p THEN Count(en, q) - 1 ELSE Count(en, q)
               /\ Owned(en2, q) => Owned(en, q)
    <2>1. Owned(en2, q) => Owned(en, q)
      BY <1>1 DEF Owned
    <2>2. EntriesOf(en2, q) = EntriesOf(en, q) \ {<<c, v>>}
      BY <1>1 DEF EntriesOf
    <2>3. <<c, v>> \in EntriesOf(en, q) <=> q = p
      BY <1>1 DEF EntriesOf
    <2>4. Cardinality(EntriesOf(en2, q))
            = IF q = p THEN Cardinality(EntriesOf(en, q)) - 1 ELSE Cardinality(EntriesOf(en, q))
      BY <2>2, <2>3, CountFacts, FS_RemoveElement
    <2> QED BY <2>1, <2>4 DEF Count
  <1>3. UsedOnce(en2, tb)
    BY <1>1 DEF UsedOnce
  <1>4. Loses(en, en2, p)
    BY <1>2 DEF Loses
  <1> QED BY <1>3, <1>4

\* A page that was no table becomes one.
LEMMA TableUses ==
  ASSUME NEW en, NEW tb, NEW tb2, UsedOnce(en, tb),
         NEW c \in Pml4, NEW n \in Table, ButFor(tb, tb2, Table, c, n),
         tb[c][n] = None, tb2[c][n] \in Page, ~InTable(tb, tb2[c][n])
  PROVE  /\ UsedOnce(en, tb2)
         /\ \A q \in Page : InTable(tb2, q) <=> InTable(tb, q) \/ q = tb2[c][n]
  <1>1. \A q \in Page : InTable(tb2, q) <=> InTable(tb, q) \/ q = tb2[c][n]
    BY PageFacts DEF InTable, ButFor
  <1>2. ASSUME NEW q \in Page, NEW d1 \in Pml4, NEW d2 \in Pml4, NEW m1 \in Table, NEW m2 \in Table,
               tb2[d1][m1] = q, tb2[d2][m2] = q
        PROVE  d1 = d2 /\ m1 = m2
    <2>1. tb[d1][m1] = q \/ (d1 = c /\ m1 = n)
      BY <1>2 DEF ButFor
    <2>2. tb[d2][m2] = q \/ (d2 = c /\ m2 = n)
      BY <1>2 DEF ButFor
    <2>3. CASE tb[d1][m1] = q /\ tb[d2][m2] = q
      BY <2>3 DEF UsedOnce
    <2>4. q = tb2[c][n] => tb[d1][m1] # q /\ tb[d2][m2] # q
      BY DEF InTable
    <2> QED BY <1>2, <2>1, <2>2, <2>3, <2>4
  <1> QED BY <1>1, <1>2 DEF UsedOnce

\* The size of a set that has at most one element.
LEMMA SizeOfOne ==
  ASSUME NEW S, \A x, y \in S : x = y
  PROVE  Cardinality(S) = One(\E x \in S : TRUE)
  <1>1. CASE S = {}
    BY <1>1, FS_EmptySet DEF One
  <1>2. ASSUME NEW x \in S PROVE Cardinality(S) = 1
    <2>1. S = {x}
      OBVIOUS
    <2> QED BY <2>1, FS_Singleton
  <1> QED BY <1>1, <1>2 DEF One

\* The page contexts other than c are as they were, and c has no entries and tables.
Cleared(en2, tb2, c) ==
  /\ \A d \in Pml4, w \in Virt : en2[d][w] = IF d = c THEN None ELSE entries[d][w]
  /\ \A d \in Pml4, n \in Table : tb2[d][n] = IF d = c THEN None ELSE tables[d][n]

\* What tables have lost of q, e entries and t tables.
Lost(en2, tb2, q, e, t) ==
  /\ e \in Nat /\ Count(entries, q) = Count(en2, q) + e
  /\ t \in {0, 1} /\ One(InTable(tables, q)) = One(InTable(tb2, q)) + t
  /\ Owned(en2, q) => Owned(entries, q)

Forgets(en2, tb2, c) ==
  \A q \in Page : \E e, t : Lost(en2, tb2, q, e, t) /\ UsesIn({c}, q) = e + t

\* Forgetting the tables of c: as often as a page was used by them it is lost.
LEMMA ClearUses ==
  ASSUME UsedOnce(entries, tables), NEW en2, NEW tb2, NEW c \in Pml4, Cleared(en2, tb2, c)
  PROVE  UsedOnce(en2, tb2) /\ Forgets(en2, tb2, c)
  <1>1. ASSUME NEW q \in Page, NEW d \in Pml4, NEW w \in Virt
        PROVE  /\ IsEntry(en2, d, w, q) <=> d # c /\ IsEntry(entries, d, w, q)
               /\ OwnEntry(en2, d, w, q) <=> d # c /\ OwnEntry(entries, d, w, q)
    BY DEF IsEntry, OwnEntry, Cleared
  <1>2. \A q \in Page, d \in Pml4, n \in Table : tb2[d][n] = q <=> d # c /\ tables[d][n] = q
    BY PageFacts DEF Cleared
  <1>3. UsedOnce(en2, tb2)
    BY <1>1, <1>2 DEF UsedOnce
  <1>4. ASSUME NEW q \in Page
        PROVE  \E e, t : Lost(en2, tb2, q, e, t) /\ UsesIn({c}, q) = e + t
    <2> DEFINE E == {cv \in {c} \X Virt : entries[cv[1]][cv[2]] # None /\ entries[cv[1]][cv[2]].page = q}
               T == {cn \in {c} \X Table : tables[cn[1]][cn[2]] = q}
    <2>1. \A x \in E : x \in EntriesOf(entries, q) /\ x[1] = c
      BY DEF EntriesOf, IsEntry
    <2>2. \A x \in EntriesOf(entries, q) : x[1] = c => x \in E
      BY DEF EntriesOf, IsEntry
    <2>3. \A x : x \in EntriesOf(en2, q) <=> x \in EntriesOf(entries, q) /\ x[1] # c
      BY <1>1 DEF EntriesOf
    <2>4. \A x \in T : x[1] = c /\ x[2] \in Table /\ x = <<x[1], x[2]>> /\ tables[c][x[2]] = q
      OBVIOUS
    <2>5. \A n \in Table : tables[c][n] = q => <<c, n>> \in T
      OBVIOUS
    <2>6. UsesIn({c}, q) = Cardinality(E) + Cardinality(T)
      BY DEF UsesIn
    <2> HIDE DEF E, T
    <2>7. EntriesOf(entries, q) = EntriesOf(en2, q) \cup E /\ EntriesOf(en2, q) \cap E = {}
      BY <2>1, <2>2, <2>3
    <2>8. IsFiniteSet(E) /\ Cardinality(E) \in Nat
      <3>1. E \in SUBSET EntriesOf(entries, q)
        BY <2>1
      <3> QED BY <3>1, CountFacts, FS_Subset, FS_CardinalityType
    <2>9. Count(entries, q) = Count(en2, q) + Cardinality(E)
      <3>1. Cardinality(EntriesOf(entries, q)) = Cardinality(EntriesOf(en2, q)) + Cardinality(E) - 0
        BY <2>7, <2>8, CountFacts, FS_Union, FS_EmptySet
      <3>2. Count(en2, q) \in Nat
        BY CountFacts
      <3> QED BY <2>8, <3>1, <3>2 DEF Count
    <2>10. \A x, y \in T : x = y
      BY <2>4 DEF UsedOnce
    <2>11. Cardinality(T) = One(\E x \in T : TRUE)
      BY <2>10, SizeOfOne
    <2>12. One(InTable(tables, q)) = One(InTable(tb2, q)) + One(\E x \in T : TRUE)
      <3>1. CASE \E x \in T : TRUE
        <4>1. PICK n \in Table : tables[c][n] = q
          BY <2>4, <3>1
        <4>2. InTable(tables, q) /\ ~InTable(tb2, q)
          BY <1>2, <4>1 DEF InTable, UsedOnce
        <4> QED BY <3>1, <4>2 DEF One
      <3>2. CASE ~\E x \in T : TRUE
        <4>1. InTable(tables, q) <=> InTable(tb2, q)
          <5>1. \A n \in Table : tables[c][n] # q
            BY <2>5, <3>2, Zenon
          <5>2. \A d \in Pml4, n \in Table : tables[d][n] = q <=> tb2[d][n] = q
            BY <1>2, <5>1, Zenon
          <5> QED BY <5>2, Zenon DEF InTable
        <4> QED BY <3>2, <4>1 DEF One
      <3> QED BY <3>1, <3>2
    <2>13. Owned(en2, q) => Owned(entries, q)
      BY <1>1 DEF Owned
    <2>14. One(\E x \in T : TRUE) \in {0, 1}
      BY DEF One
    <2>15. Lost(en2, tb2, q, Cardinality(E), Cardinality(T))
      BY <2>8, <2>9, <2>11, <2>12, <2>13, <2>14 DEF Lost
    <2> QED BY <2>6, <2>15
  <1> QED BY <1>3, <1>4 DEF Forgets

\* The size of the sets RefCountExact and PagesAreSeparate speak of.
LEMMA SizesOfPage ==
  ASSUME AllocatorOK(free, bump), UsedOnce(entries, tables), NEW p \in Page
  PROVE  /\ Cardinality({cn \in Pml4 \X Table : tables[cn[1]][cn[2]] = p}) = One(InTable(tables, p))
         /\ Offered(p) = One(Offers(free, bump, p))
         /\ Cardinality(EntriesBy("alloc", p)) = One(Owned(entries, p))
         /\ EntriesBy("map_physical", p) # {} => Count(entries, p) > 0
  <1> DEFINE A == EntriesBy("alloc", p)
             T == {cn \in Pml4 \X Table : tables[cn[1]][cn[2]] = p}
             L == {i \in DOMAIN free : free[i] = p}
             F == {i \in DOMAIN Regions : p \in bump[i] .. (Regions[i].end - 1)}
  <1>2. Cardinality(A) = One(Owned(entries, p))
    <2>1. \A x \in A : x[1] \in Pml4 /\ x[2] \in Virt /\ x = <<x[1], x[2]>> /\ OwnEntry(entries, x[1], x[2], p)
      BY DEF IsEntry, OwnEntry, EntriesBy
    <2>2. \A x, y \in A : x = y
      BY <2>1 DEF UsedOnce
    <2>3. \A c \in Pml4, v \in Virt : OwnEntry(entries, c, v, p) => <<c, v>> \in A
      BY DEF IsEntry, OwnEntry, EntriesBy
    <2> HIDE DEF A
    <2>4. (\E x \in A : TRUE) <=> Owned(entries, p)
      BY <2>1, <2>3 DEF Owned
    <2>5. Cardinality(A) = One(\E x \in A : TRUE)
      BY <2>2, SizeOfOne
    <2> QED BY <2>4, <2>5 DEF One
  <1>3. Cardinality(T) = One(InTable(tables, p))
    <2>1. \A x \in T : x[1] \in Pml4 /\ x[2] \in Table /\ x = <<x[1], x[2]>> /\ tables[x[1]][x[2]] = p
      OBVIOUS
    <2>2. \A x, y \in T : x = y
      BY <2>1 DEF UsedOnce
    <2>3. \A c \in Pml4, n \in Table : tables[c][n] = p => <<c, n>> \in T
      OBVIOUS
    <2>4. (\E x \in T : TRUE) <=> InTable(tables, p)
      BY <2>1, <2>3 DEF InTable
    <2> HIDE DEF T
    <2>5. Cardinality(T) = One(\E x \in T : TRUE)
      BY <2>2, SizeOfOne
    <2> QED BY <2>4, <2>5 DEF One
  <1>4. Cardinality(L) = One(Listed(free, p))
    <2>1. \A x, y \in L : x = y
      BY DEF AllocatorOK
    <2>2. (\E x \in L : TRUE) <=> Listed(free, p)
      BY DEF Listed
    <2> HIDE DEF L
    <2>3. Cardinality(L) = One(\E x \in L : TRUE)
      BY <2>1, SizeOfOne
    <2> QED BY <2>2, <2>3 DEF One
  <1>5. Cardinality(F) = One(Fresh(bump, p))
    <2>1. ASSUME NEW x \in F, NEW y \in F, x < y PROVE FALSE
      <3>1. /\ Regions[x].end \in Nat /\ Regions[y].begin \in Nat /\ Regions[y].end \in Nat
            /\ bump[x] \in Nat /\ bump[y] \in Nat /\ p \in Nat
            /\ Regions[y].begin <= bump[y] /\ Regions[x].end <= Regions[y].begin
        BY <2>1, PageFacts DEF AllocatorOK
      <3>2. p <= Regions[x].end - 1 /\ bump[y] <= p
        BY <3>1
      <3> QED BY <3>1, <3>2
    <2>2. \A x, y \in F : x = y
      <3>1. \A x \in F : x \in Nat
        BY PageFacts
      <3>2. \A x, y \in F : ~(x < y)
        BY <2>1
      <3> HIDE DEF F
      <3> QED BY ONLY <3>1, <3>2
    <2>3. (\E x \in F : TRUE) <=> Fresh(bump, p)
      BY DEF Fresh
    <2> HIDE DEF F
    <2>4. Cardinality(F) = One(\E x \in F : TRUE)
      BY <2>2, SizeOfOne
    <2> QED BY <2>3, <2>4 DEF One
  <1>6. ~(Listed(free, p) /\ Fresh(bump, p))
    BY DEF AllocatorOK
  <1>7. Offered(p) = Cardinality(L) + Cardinality(F)
    BY DEF Offered
  <1>8. ASSUME NEW x \in EntriesBy("map_physical", p) PROVE Count(entries, p) > 0
    <2>1. x[1] \in Pml4 /\ x[2] \in Virt /\ IsEntry(entries, x[1], x[2], p)
      BY DEF EntriesBy, IsEntry
    <2> QED BY <2>1, CountFacts
  <1> HIDE DEF A, T, L, F
  <1>9. Offered(p) = One(Offers(free, bump, p))
    BY <1>4, <1>5, <1>6, <1>7 DEF Offers, One
  <1> QED BY <1>2, <1>3, <1>8, <1>9 DEF A, T

-----------------------------------------------------------------------------
(* Roles of pages.                                                         *)

\* What the count of a page and its role say, whichever role it has.
LEMMA Roles ==
  ASSUME TypeOK, PagesOK, NEW p \in Page
  PROVE  /\ rc[p] \in Nat /\ leaked[p] \in Nat /\ Count(entries, p) \in Nat
         /\ Offers(free, bump, p) =>
              /\ rc[p] = 0 /\ Count(entries, p) = 0 /\ leaked[p] = 0 /\ ~Owned(entries, p)
              /\ ~(strong[p] > 0) /\ cr3 # p /\ held # p /\ ~InTable(tables, p)
         /\ held = p =>
              /\ rc[p] = Count(entries, p) + leaked[p] + 1
              /\ ~(strong[p] > 0) /\ cr3 # p /\ ~Offers(free, bump, p) /\ ~InTable(tables, p)
              /\ job.call = "alloc" => ~Owned(entries, p)
         /\ Count(entries, p) > 0 =>
              /\ rc[p] = Count(entries, p) + leaked[p] + One(held = p) /\ ~InTable(tables, p)
              /\ ~(strong[p] > 0) /\ cr3 # p /\ ~Offers(free, bump, p)
         /\ strong[p] > 0 \/ cr3 = p =>
              /\ Count(entries, p) = 0 /\ leaked[p] = 0 /\ ~InTable(tables, p)
              /\ rc[p] = One(strong[p] > 0) + One(cr3 = p)
              /\ held # p /\ ~Offers(free, bump, p)
  <1> DEFINE e == Count(entries, p)
             l == leaked[p]
             s == strong[p] > 0
             t == InTable(tables, p)
             o == Offers(free, bump, p)
             w == Owned(entries, p)
  <1>1. rc[p] \in Nat /\ l \in Nat /\ e \in Nat /\ (w => e > 0)
    BY CountFacts DEF TypeOK
  <1>2. PageOK(rc[p], e, w, t, l, s, cr3 = p, held = p, held = p /\ job.call = "alloc", o)
    BY DEF PagesOK, PageAt
  <1>3. (t => One(t) = 1) /\ (~t => One(t) = 0) /\ (~s => One(s) = 0) /\ (cr3 # p => One(cr3 = p) = 0)
    BY DEF One
  <1>4. (held = p => One(held = p) = 1) /\ (held # p => One(held = p) = 0)
    BY DEF One
  <1>5. One(s) \in Nat /\ One(cr3 = p) \in Nat /\ One(held = p) \in Nat /\ One(t) \in Nat
    BY DEF One
  <1> HIDE DEF e, l, s, t, o, w
  <1>6. /\ o \/ t \/ s \/ cr3 = p => e = 0 /\ l = 0 /\ ~(held = p)
        /\ o => ~t /\ ~s /\ cr3 # p
        /\ t => ~s /\ cr3 # p
        /\ held = p /\ job.call = "alloc" => ~w
        /\ rc[p] = e + One(t) + l + One(s) + One(cr3 = p) + One(held = p)
    BY <1>2 DEF PageOK
  <1>7. CASE o
    <2>1. e = 0 /\ l = 0 /\ held # p /\ ~t /\ ~s /\ cr3 # p
      BY <1>6, <1>7
    <2>2. rc[p] = 0 /\ ~w
      BY <1>1, <1>3, <1>4, <1>6, <2>1
    <2> QED BY <1>1, <1>7, <2>1, <2>2 DEF e, l, s, t, o, w
  <1>8. CASE ~o /\ (s \/ cr3 = p)
    <2>1. e = 0 /\ l = 0 /\ held # p /\ ~t
      BY <1>6, <1>8
    <2>2. rc[p] = One(s) + One(cr3 = p)
      BY <1>3, <1>4, <1>5, <1>6, <2>1
    <2> QED BY <1>1, <1>8, <2>1, <2>2 DEF e, l, s, t, o, w
  <1>9. CASE ~o /\ ~s /\ cr3 # p /\ t
    <2>1. e = 0 /\ l = 0 /\ held # p
      BY <1>6, <1>9
    <2> QED BY <1>1, <1>9, <2>1 DEF e, l, s, t, o, w
  <1>10. CASE ~o /\ ~s /\ cr3 # p /\ ~t
    <2>1. rc[p] = e + l + One(held = p)
      BY <1>1, <1>3, <1>5, <1>6, <1>10
    <2>2. held = p => rc[p] = e + l + 1
      BY <1>4, <2>1
    <2> QED BY <1>1, <1>6, <1>10, <2>1, <2>2 DEF e, l, s, t, o, w
  <1> QED BY <1>7, <1>8, <1>9, <1>10

\* Steps that leave pages, entries, tables and cr3 alone, and objects alive.
LEMMA SamePages ==
  ASSUME TypeOK, PhysInv, UNCHANGED <<free, bump, rc, entries, tables, cr3, leaked>>,
         \A p \in Page : held' = p <=> held = p,
         held = None \/ job'.call = job.call,
         \A p \in Page : strong'[p] > 0 <=> strong[p] > 0
  PROVE  PhysInv'
  <1>1. AllocatorOK(free', bump') /\ UsedOnce(entries', tables')
    BY DEF PhysInv
  <1>2. ASSUME NEW p \in Page PROVE PageAt(p)'
    <2>1. PageAt(p)
      BY DEF PhysInv, PagesOK
    <2>2. p # None
      BY PageFacts
    <2>3. (held' = p /\ job'.call = "alloc") <=> (held = p /\ job.call = "alloc")
      BY <2>2
    <2>4. (held' = p <=> held = p) /\ (strong'[p] > 0 <=> strong[p] > 0)
      OBVIOUS
    <2> QED BY <2>1, <2>3, <2>4 DEF PageAt, PageOK, One
  <1> QED BY <1>1, <1>2 DEF PhysInv, PagesOK

\* The references to the object of a page context keep it alive.
LEMMA HolderFacts ==
  ASSUME TypeOK, HoldersOK, NEW t \in Tasks, NEW c \in Pml4
  PROVE  /\ handles[t][c] > 0 => strong[c] > 0
         /\ taskCtx[t] = c => strong[c] > 0
         /\ strong[c] = 0 => handles[t][c] = 0 /\ taskCtx[t] # c
  <1> DEFINE S == Holders(handles, taskCtx, c)
  <1>1. IsFiniteSet(S) /\ strong[c] = Cardinality(S)
    BY DEF HoldersOK
  <1>2. handles[t][c] \in Nat /\ strong[c] \in Nat
    BY DEF TypeOK
  <1>3. S # {} => strong[c] > 0
    BY <1>1, <1>2, FS_EmptySet
  <1>4. handles[t][c] > 0 => <<t, handles[t][c]>> \in S
    BY <1>2 DEF Holders
  <1>5. taskCtx[t] = c => <<t, 0>> \in S
    BY DEF Holders
  <1> QED BY <1>2, <1>3, <1>4, <1>5

\* One reference more.
LEMMA OneMore ==
  ASSUME NEW S, NEW T, NEW x, IsFiniteSet(S), x \notin S, T = S \cup {x}
  PROVE  IsFiniteSet(T) /\ Cardinality(T) = Cardinality(S) + 1
  BY FS_AddElement

\* One reference less.
LEMMA OneLess ==
  ASSUME NEW S, NEW T, NEW x, IsFiniteSet(S), x \in S, T = S \ {x}
  PROVE  IsFiniteSet(T) /\ Cardinality(T) = Cardinality(S) - 1
  BY FS_RemoveElement

\* A page that has lost uses, the number l of lost ones now being l2.
StillUsed(en2, tb2, q, l, l2) ==
  /\ l2 \in Nat
  /\ Count(en2, q) + One(InTable(tb2, q)) + l2 = Count(entries, q) + One(InTable(tables, q)) + l
  /\ Count(entries, q) = 0 /\ l = 0 =>
       Count(en2, q) = 0 /\ (InTable(tb2, q) \/ ~InTable(tables, q) => l2 = 0)
  /\ InTable(tb2, q) => InTable(tables, q)

\* Losing e entries and t tables of a page leaves its other roles alone.
LEMMA LostPage ==
  ASSUME NEW q \in Page, NEW en2, NEW tb2, NEW e, NEW t, Lost(en2, tb2, q, e, t),
         NEW l \in Nat, NEW l2, l2 = l + e + t
  PROVE  StillUsed(en2, tb2, q, l, l2)
  <1> DEFINE c1 == Count(entries, q)
             c2 == Count(en2, q)
             t1 == InTable(tables, q)
             t2 == InTable(tb2, q)
             a == One(t1)
             b == One(t2)
  <1>1. c1 \in Nat /\ c2 \in Nat
    BY CountFacts
  <1>2. e \in Nat /\ c1 = c2 + e /\ t \in {0, 1} /\ a = b + t
    BY DEF Lost
  <1>3. a \in Nat /\ b \in Nat /\ (t1 => a = 1) /\ (~t1 => a = 0) /\ (t2 => b = 1) /\ (~t2 => b = 0)
    BY DEF One
  <1> HIDE DEF a, b, c1, c2, t1, t2
  <1>4. l2 \in Nat /\ c2 + b + l2 = c1 + a + l
    BY <1>1, <1>2, <1>3
  <1>5. t2 => t1 /\ t = 0
    BY <1>2, <1>3
  <1>6. ~t1 => t = 0
    BY <1>2, <1>3
  <1>7. c1 = 0 /\ l = 0 => c2 = 0 /\ (t2 \/ ~t1 => l2 = 0)
    BY <1>1, <1>2, <1>5, <1>6
  <1> QED BY <1>4, <1>5, <1>7 DEF StillUsed, a, b, c1, c2, t1, t2

\* What a page is but for its entries and tables, when nothing is held.
LEMMA PageStays ==
  ASSUME NEW q \in Page, StillUsed(entries', tables', q, leaked[q], leaked'[q]),
         leaked[q] \in Nat, held' # q,
         PageOK(rc'[q], Count(entries, q), Owned(entries, q), InTable(tables, q), leaked[q], strong'[q] > 0,
                cr3' = q, FALSE, FALSE, Offers(free', bump', q))
  PROVE  PageAt(q)'
  <1> DEFINE c1 == Count(entries, q)
             c2 == Count(entries', q)
             t1 == InTable(tables, q)
             t2 == InTable(tables', q)
             a == One(t1)
             b == One(t2)
             l == leaked[q]
             l2 == leaked'[q]
             x == One(strong'[q] > 0)
             y == One(cr3' = q)
             z == One(FALSE)
             s == strong'[q] > 0
             k == cr3' = q
             o == Offers(free', bump', q)
  <1>1. c1 \in Nat /\ c2 \in Nat /\ l \in Nat
    BY CountFacts
  <1>2. /\ l2 \in Nat /\ c2 + b + l2 = c1 + a + l
        /\ c1 = 0 /\ l = 0 => c2 = 0 /\ (t2 \/ ~t1 => l2 = 0)
        /\ t2 => t1
    BY DEF StillUsed
  <1>3. /\ o \/ t1 \/ s \/ k => c1 = 0 /\ l = 0
        /\ o => ~t1 /\ ~s /\ ~k
        /\ t1 => ~s /\ ~k
        /\ rc'[q] = c1 + a + l + x + y + z
    BY DEF PageOK
  <1>4. a \in Nat /\ b \in Nat /\ x \in Nat /\ y \in Nat /\ z \in Nat /\ z = One(held' = q)
    BY DEF One
  <1> HIDE DEF a, b, c1, c2, t1, t2, l, l2, x, y, z, s, k, o
  <1>5. rc'[q] = c2 + b + l2 + x + y + z
    <2>1. rc'[q] = c1 + a + l + x + y + z
      BY <1>3
    <2> QED BY <1>1, <1>2, <1>4, <2>1
  <1>6. /\ o \/ t2 \/ s \/ k => c2 = 0 /\ l2 = 0
        /\ o => ~t2 /\ ~s /\ ~k
        /\ t2 => ~s /\ ~k
    BY <1>2, <1>3
  <1> QED BY <1>4, <1>5, <1>6 DEF PageAt, PageOK, b, c2, t2, l2, x, y, s, k, o

\* Dropping a PageCtx: its reference is gone, its page is offered if that was the
\* Dropping a PageCtx: its reference is gone, its page is offered if that was the
\* last one, and pages its tables referred to stay used or become lost.
LEMMA DropCtxPages ==
  ASSUME TypeOK, PhysInv, NEW c \in Pml4, NEW r \in [Page -> Nat], DropCtx(r, c),
         LastRef(r, c) => ~Offers(free, bump, c),
         c \in Page => r[c] > 0
  PROVE  /\ AllocatorOK(free', bump') /\ UsedOnce(entries', tables')
         /\ free' \in Seq(Page) /\ bump' = bump /\ rc' \in [Page -> Nat]
         /\ leaked' \in [Page -> Nat]
         /\ entries' \in [Pml4 -> [Virt -> Entry \cup {None}]]
         /\ tables' \in [Pml4 -> [Table -> Page \cup {None}]]
         /\ \A q \in Page :
              /\ rc'[q] = IF q = c THEN r[q] - 1 ELSE r[q]
              /\ Offers(free', bump', q) <=> Offers(free, bump, q) \/ (q = c /\ r[c] = 1)
              /\ StillUsed(entries', tables', q, leaked[q], leaked'[q])
  <1>1. /\ AllocatorOK(free, bump) /\ UsedOnce(entries, tables) /\ free \in Seq(Page)
        /\ leaked \in [Page -> Nat]
        /\ entries \in [Pml4 -> [Virt -> Entry \cup {None}]]
        /\ tables \in [Pml4 -> [Table -> Page \cup {None}]]
    BY DEF PhysInv, TypeOK
  <1>2. DropPhys(r, c) /\ bump' = bump
    BY DEF DropCtx, DropPhys
  <1>3. rc' \in [Page -> Nat] /\ \A q \in Page : rc'[q] = IF q = c THEN r[q] - 1 ELSE r[q]
    <2>1. rc' = DecRef(r, c)
      BY <1>2 DEF DropPhys
    <2>2. CASE c \in Page
      <3>1. rc' = [r EXCEPT ![c] = r[c] - 1] /\ r[c] - 1 \in Nat
        BY <2>1, <2>2 DEF DecRef
      <3> QED BY <2>2, <3>1
    <2>3. CASE c \notin Page
      BY <2>1, <2>3 DEF DecRef
    <2> QED BY <2>2, <2>3
  <1>4. CASE LastRef(r, c)
    <2>1. c \in Page /\ r[c] = 1 /\ free' = <<c>> \o free
      BY <1>2, <1>4 DEF LastRef, DropPhys
    <2>2. /\ AllocatorOK(free', bump')
          /\ \A q \in Page : Offers(free', bump', q) <=> Offers(free, bump, q) \/ q = c
      BY <1>1, <1>2, <1>4, <2>1, PushOffers
    <2>3. /\ leaked' = [p \in Page |-> leaked[p] + UsesIn({c}, p)]
          /\ entries' = [entries EXCEPT ![c] = NoEntries]
          /\ tables' = [tables EXCEPT ![c] = NoTables]
      BY <1>4 DEF DropCtx
    <2>4. Cleared(entries', tables', c)
      <3>1. \A d \in Pml4, w \in Virt : entries'[d][w] = IF d = c THEN None ELSE entries[d][w]
        BY <1>1, <2>3 DEF NoEntries
      <3>2. \A d \in Pml4, n \in Table : tables'[d][n] = IF d = c THEN None ELSE tables[d][n]
        BY <1>1, <2>3 DEF NoTables
      <3> QED BY <3>1, <3>2 DEF Cleared
    <2>6. UsedOnce(entries', tables') /\ Forgets(entries', tables', c)
      <3>1. UsedOnce(entries, tables)
        BY <1>1
      <3> QED BY ONLY <2>4, <3>1, c \in Pml4, ClearUses
    <2>7. ASSUME NEW q \in Page
          PROVE  /\ leaked'[q] \in Nat
                 /\ StillUsed(entries', tables', q, leaked[q], leaked'[q])
      <3>1. PICK e, t : Lost(entries', tables', q, e, t) /\ UsesIn({c}, q) = e + t
        BY <2>6 DEF Forgets
      <3>2. e \in Nat /\ t \in Nat /\ leaked[q] \in Nat
        BY <1>1, <3>1 DEF Lost
      <3>3. leaked'[q] = leaked[q] + e + t
        BY <2>3, <3>1, <3>2
      <3>4. StillUsed(entries', tables', q, leaked[q], leaked'[q])
        BY ONLY <3>1, <3>2, <3>3, q \in Page, LostPage
      <3> QED BY <3>4 DEF StillUsed
    <2>8. leaked' \in [Page -> Nat]
      BY <2>3, <2>7
    <2>9. entries' \in [Pml4 -> [Virt -> Entry \cup {None}]]
      BY <1>1, <2>3 DEF NoEntries
    <2>10. tables' \in [Pml4 -> [Table -> Page \cup {None}]]
      BY <1>1, <2>3 DEF NoTables
    <2>11. free' \in Seq(Page)
      BY <2>2 DEF AllocatorOK
    <2> QED BY <1>2, <1>3, <2>1, <2>2, <2>6, <2>7, <2>8, <2>9, <2>10, <2>11
  <1>5. CASE ~LastRef(r, c)
    <2>1. free' = free /\ UNCHANGED <<leaked, entries, tables>>
      BY <1>2, <1>5 DEF DropPhys, DropCtx
    <2>2. \A q \in Page : ~(q = c /\ r[c] = 1)
      BY <1>5 DEF LastRef
    <2>3. ASSUME NEW q \in Page PROVE StillUsed(entries', tables', q, leaked[q], leaked'[q])
      <3>1. leaked[q] \in Nat
        BY <1>1
      <3> QED BY <2>1, <3>1 DEF StillUsed
    <2> QED BY <1>1, <1>2, <1>3, <2>1, <2>2, <2>3
  <1> QED BY <1>4, <1>5

\* set_ctx of a page context that an object keeps.
LEMMA SetCtxPages ==
  ASSUME TypeOK, PhysInv, NEW c \in Pml4, strong[c] > 0, SetCtx(c), UNCHANGED strong,
         held = None, held' = None
  PROVE  /\ PhysInv'
         /\ free' \in Seq(Page) /\ bump' = bump /\ rc' \in [Page -> Nat]
         /\ leaked' \in [Page -> Nat]
         /\ entries' \in [Pml4 -> [Virt -> Entry \cup {None}]]
         /\ tables' \in [Pml4 -> [Table -> Page \cup {None}]]
  <1> DEFINE r == IncRef(rc, c)
  <1>1. cr3' = c /\ DropCtx(r, cr3) /\ cr3 \in Pml4
    BY DEF SetCtx, TypeOK
  <1>2. r \in [Page -> Nat] /\ \A q \in Page : r[q] = IF q = c THEN rc[q] + 1 ELSE rc[q]
    <2>1. rc \in [Page -> Nat]
      BY DEF TypeOK
    <2> QED BY <2>1 DEF IncRef
  <1>3. cr3 \in Page => rc[cr3] = One(strong[cr3] > 0) + 1 /\ ~Offers(free, bump, cr3)
    BY Roles DEF PhysInv, One
  <1>4. cr3 \in Page => r[cr3] > 0
    BY <1>2, <1>3 DEF One
  <1> HIDE DEF r
  <1>5. /\ AllocatorOK(free', bump') /\ UsedOnce(entries', tables')
        /\ free' \in Seq(Page) /\ bump' = bump /\ rc' \in [Page -> Nat]
        /\ leaked' \in [Page -> Nat]
        /\ entries' \in [Pml4 -> [Virt -> Entry \cup {None}]]
        /\ tables' \in [Pml4 -> [Table -> Page \cup {None}]]
        /\ \A q \in Page :
              /\ rc'[q] = IF q = cr3 THEN r[q] - 1 ELSE r[q]
              /\ Offers(free', bump', q) <=> Offers(free, bump, q) \/ (q = cr3 /\ r[cr3] = 1)
              /\ StillUsed(entries', tables', q, leaked[q], leaked'[q])
    BY <1>1, <1>2, <1>3, <1>4, DropCtxPages DEF LastRef
  <1>6. ASSUME NEW q \in Page PROVE PageAt(q)'
    <2>1. PageAt(q) /\ leaked[q] \in Nat /\ rc[q] \in Nat /\ Count(entries, q) \in Nat
      BY Roles DEF PhysInv, PagesOK
    <2>2. StillUsed(entries', tables', q, leaked[q], leaked'[q]) /\ Count(entries', q) \in Nat
      BY <1>5, CountFacts
    <2>3. rc'[q] = IF q = cr3 THEN r[q] - 1 ELSE r[q]
      BY <1>5
    <2>4. Offers(free', bump', q) <=> Offers(free, bump, q) \/ (q = cr3 /\ r[cr3] = 1)
      BY <1>5
    <2>5. held # q /\ held' # q
      BY PageFacts
    <2>6. r[q] = IF q = c THEN rc[q] + 1 ELSE rc[q]
      BY <1>2
    <2>7. PageOK(rc'[q], Count(entries, q), Owned(entries, q), InTable(tables, q), leaked[q], strong'[q] > 0,
                 cr3' = q, FALSE, FALSE, Offers(free', bump', q))
      <3>1. PageOK(rc[q], Count(entries, q), Owned(entries, q), InTable(tables, q), leaked[q], strong[q] > 0,
                   cr3 = q, FALSE, FALSE, Offers(free, bump, q))
        BY <2>1, <2>5 DEF PageAt, PageOK, One
      <3>2. CASE q = cr3 /\ q = c
        <4>1. rc'[q] = rc[q] /\ cr3' = q /\ strong' = strong
          BY <1>1, <2>1, <2>3, <2>6, <3>2
        <4>2. rc[q] > 0
          BY <1>3, <3>2 DEF One
        <4>3. Offers(free', bump', q) <=> Offers(free, bump, q)
          BY <2>1, <2>4, <2>6, <3>2, <4>2
        <4> QED BY <3>1, <3>2, <4>1, <4>3 DEF PageOK, One
      <3>3. CASE q = cr3 /\ q # c
        BY <1>1, <2>1, <2>3, <2>4, <2>6, <3>1, <3>3 DEF PageOK, One
      <3>4. CASE q # cr3 /\ q = c
        BY <1>1, <2>1, <2>3, <2>4, <2>6, <3>1, <3>4 DEF PageOK, One
      <3>5. CASE q # cr3 /\ q # c
        BY <1>1, <2>1, <2>3, <2>4, <2>6, <3>1, <3>5 DEF PageOK, One
      <3> QED BY <3>2, <3>3, <3>4, <3>5
    <2> QED BY <2>1, <2>2, <2>5, <2>7, CountFacts, PageStays
  <1> QED BY <1>5, <1>6 DEF PhysInv, PagesOK

-----------------------------------------------------------------------------
(* The system call in progress.                                            *)

\* The rest of the pages a call has to treat.
LEMMA TailFacts ==
  ASSUME NEW S, NEW s \in Seq(S), s # <<>>
  PROVE  /\ Head(s) \in S /\ Tail(s) \in Seq(S) /\ Head(s) = s[1] /\ 1 \in DOMAIN s
         /\ \A i \in DOMAIN Tail(s) : i + 1 \in DOMAIN s /\ Tail(s)[i] = s[i + 1] /\ i + 1 # 1
         /\ \A i \in DOMAIN Tail(s) : i \in Nat
  OBVIOUS

\* Nothing to do is a job.
LEMMA NoJobType == NoJob \in Job
  <1>1. (CHOOSE f \in Flags : TRUE) \in Flags
    BY MemoryAssumption
  <1>2. <<>> \in Seq(Virt)
    OBVIOUS
  <1> QED BY <1>1, <1>2 DEF NoJob, Job

\* A call that returns.
LEMMA ReturnCall ==
  ASSUME Return PROVE CallInv' /\ job' \in Job /\ pc' = "Switch" /\ held' = None
  BY NoJobType DEF Return, CallInv, JobOK, ValidationHolds, TlbCoherent

\* The kernel stops.
LEMMA PanicCall ==
  ASSUME pc' \in {"Panic", "Exposed"} PROVE CallInv'
  BY DEF CallInv, JobOK, ValidationHolds, TlbCoherent

\* After a change of the entry of the first page of the call, the rest of its pages
\* are as they were validated.
LEMMA NextPage ==
  ASSUME TypeOK, CallInv, pc \in {"Loop", "Map"}, job.todo # <<>>,
         entries' \in [Pml4 -> [Virt -> Entry \cup {None}]],
         ButFor(entries, entries', Virt, cr3, Head(job.todo)), cr3' = cr3,
         job' = [job EXCEPT !.todo = Tail(job.todo)], pc' = "Loop", held' = None
  PROVE  CallInv' /\ job' \in Job
  <1>1. job \in Job /\ cr3 \in Pml4
    BY DEF TypeOK
  <1>2. /\ job.todo \in Seq(Virt) /\ job.call \in {"none", "alloc", "map_physical", "release", "modify"}
        /\ job.flags \in Flags \cup {Odd}
    BY <1>1 DEF Job
  <1> DEFINE s == job.todo
  <1>3. /\ Head(s) \in Virt /\ Tail(s) \in Seq(Virt) /\ Head(s) = s[1] /\ 1 \in DOMAIN s
        /\ \A i \in DOMAIN Tail(s) : i + 1 \in DOMAIN s /\ Tail(s)[i] = s[i + 1] /\ i + 1 # 1
        /\ \A i \in DOMAIN Tail(s) : i \in Nat
    BY <1>2, TailFacts
  <1>4. job' = [call |-> job.call, flags |-> job.flags, todo |-> Tail(s)]
    BY <1>1 DEF Job
  <1>5. job' \in Job
    BY <1>2, <1>3, <1>4 DEF Job
  <1>6. \A i, j \in DOMAIN s : i # j => s[i] # s[j]
    BY DEF CallInv, JobOK
  <1>7. job'.todo = Tail(s) /\ job'.call = job.call
    BY <1>4
  <1>8. \A i, j \in DOMAIN Tail(s) : i # j => Tail(s)[i] # Tail(s)[j]
    BY <1>3, <1>6
  <1>9. ASSUME NEW i \in DOMAIN Tail(s) PROVE entries'[cr3'][Tail(s)[i]] # None <=> job.call \in {"release", "modify"}
    <2>1. i + 1 \in DOMAIN s /\ s[i + 1] # s[1] /\ Tail(s)[i] = s[i + 1] /\ s[i + 1] \in Virt
      BY <1>2, <1>3, <1>6
    <2>2. entries'[cr3][s[i + 1]] = entries[cr3][s[i + 1]]
      BY <1>1, <1>3, <2>1 DEF ButFor
    <2>3. entries[cr3][s[i + 1]] # None <=> job.call \in {"release", "modify"}
      BY <2>1 DEF CallInv, ValidationHolds, Valid, Mapped
    <2> QED BY <2>1, <2>2, <2>3
  <1> HIDE DEF s
  <1>13. \A i, j \in DOMAIN job'.todo : i # j => job'.todo[i] # job'.todo[j]
    BY ONLY <1>7, <1>8
  <1>10. JobOK'
    BY <1>13, Zenon DEF JobOK
  <1>11. ValidationHolds'
    BY <1>7, <1>9 DEF ValidationHolds, Valid, Mapped
  <1>12. TlbCoherent'
    BY DEF TlbCoherent
  <1> QED BY <1>5, <1>10, <1>11, <1>12 DEF CallInv

\* The four calls on ranges of pages.
LEMMA StartInv ==
  ASSUME TypeOK, CallInv, NEW call \in {"alloc", "map_physical", "release", "modify"}, Start(call)
  PROVE  CallInv' /\ job' \in Job /\ pc' \in {"Loop", "Switch", "Panic"} /\ held' = None /\ held = None
  <1>1. held = None /\ UNCHANGED <<entries, cr3>> /\ job \in Job
    BY DEF Start, CallInv, JobOK, spaceVars, TypeOK
  <1> DEFINE Loops(r, f) ==
               /\ \A i \in DOMAIN r : Valid(call, r[i])
               /\ pc' = "Loop"
               /\ job' = [call |-> call, flags |-> f, todo |-> r]
               /\ UNCHANGED held
  <1>2. PICK r \in Ranges, f \in AskedFlags(call) : Loops(r, f) \/ Return \/ Panics
    BY DEF Start
  <1>3. CASE Loops(r, f)
    <2>1. pc' = "Loop" /\ job' = [call |-> call, flags |-> f, todo |-> r] /\ held' = None
      BY <1>1, <1>3
    <2>2. r \in Seq(Virt) /\ \A i, j \in DOMAIN r : i # j => r[i] # r[j]
      BY MemoryAssumption
    <2>3. job' \in Job
      BY <2>1, <2>2 DEF Job, AskedFlags
    <2>4. job'.todo = r /\ job'.call = call
      BY <2>1
    <2>5. JobOK'
      BY <2>1, <2>2, <2>4 DEF JobOK
    <2>6. ValidationHolds'
      BY <1>1, <1>3, <2>4 DEF ValidationHolds, Valid, Mapped
    <2>7. TlbCoherent'
      BY <2>1 DEF TlbCoherent
    <2> QED BY <1>1, <2>1, <2>3, <2>5, <2>6, <2>7 DEF CallInv
  <1>4. CASE Return
    BY <1>1, <1>4, ReturnCall
  <1>5. CASE Panics
    BY <1>1, <1>5, PanicCall DEF Panics
  <1> QED BY <1>2, <1>3, <1>4, <1>5

-----------------------------------------------------------------------------
(* Every action preserves the invariant.                                   *)

\* In the initial state nothing is used and every page is offered by its region.
LEMMA InitInv == Init => MemInv
  <1> SUFFICES ASSUME Init PROVE MemInv
    OBVIOUS
  <1>1. TypeOK
    <2>1. bump \in [DOMAIN Regions -> Nat]
      BY PageFacts DEF Init
    <2>2. /\ entries \in [Pml4 -> [Virt -> Entry \cup {None}]]
          /\ tables \in [Pml4 -> [Table -> Page \cup {None}]]
          /\ tlb \in [Virt -> Entry \cup {None}]
      BY DEF Init, NoEntries, NoTables
    <2>3. /\ free \in Seq(Page) /\ rc \in [Page -> Nat] /\ leaked \in [Page -> Nat]
          /\ cr3 \in Pml4 /\ strong \in [Pml4 -> Nat] /\ handles \in [Tasks -> [Pml4 -> Nat]]
      BY PageFacts DEF Init
    <2>4. /\ taskCtx \in [Tasks -> Pml4 \cup {None}] /\ current \in Tasks
          /\ pc = "Switch" /\ job \in Job /\ held = None
      BY PageFacts, MemoryAssumption, NoJobType DEF Init
    <2> QED BY <2>1, <2>2, <2>3, <2>4 DEF TypeOK
  <1>2. PhysInv
    <2>1. AllocatorOK(free, bump)
      BY PageFacts DEF Init, AllocatorOK, Listed
    <2>2. \A p, c \in Pml4, v \in Virt : ~IsEntry(entries, c, v, p) /\ ~OwnEntry(entries, c, v, p)
      BY DEF Init, NoEntries, IsEntry, OwnEntry
    <2>3. \A c \in Pml4, n \in Table : tables[c][n] = None
      BY DEF Init, NoTables
    <2>4. UsedOnce(entries, tables)
      BY <2>2, <2>3, PageFacts DEF UsedOnce
    <2>5. ASSUME NEW p \in Page PROVE PageAt(p)
      <3>1. ~Owned(entries, p) /\ ~InTable(tables, p)
        BY <2>2, <2>3, PageFacts DEF Owned, InTable
      <3>2. rc[p] = 0 /\ leaked[p] = 0 /\ ~(strong[p] > 0) /\ cr3 # p /\ held # p
        BY PageFacts DEF Init
      <3>3. Count(entries, p) = 0
        <4>1. EntriesOf(entries, p) = {}
          BY <2>2, PageFacts DEF EntriesOf
        <4> QED BY <4>1, FS_EmptySet DEF Count
      <3> QED BY <3>1, <3>2, <3>3 DEF PageAt, PageOK, One
    <2> QED BY <2>1, <2>4, <2>5 DEF PhysInv, PagesOK
  <1>3. HoldersOK
    <2> SUFFICES ASSUME NEW c \in Pml4
                 PROVE  /\ IsFiniteSet(Holders(handles, taskCtx, c))
                        /\ strong[c] = Cardinality(Holders(handles, taskCtx, c))
      BY DEF HoldersOK
    <2>1. CASE c = BootCtx
      <3>1. Holders(handles, taskCtx, c) = {<<InitTask, 0>>}
        BY <2>1, PageFacts, MemoryAssumption DEF Holders, Init
      <3>2. strong[c] = 1
        BY <2>1 DEF Init
      <3> QED BY <3>1, <3>2, FS_Singleton
    <2>2. CASE c # BootCtx
      <3>1. Holders(handles, taskCtx, c) = {}
        BY <2>2, PageFacts DEF Holders, Init
      <3>2. strong[c] = 0
        BY <2>2 DEF Init
      <3> QED BY <3>1, <3>2, FS_EmptySet
    <2> QED BY <2>1, <2>2
  <1>4. CallInv
    BY DEF CallInv, JobOK, ValidationHolds, TlbCoherent, Init
  <1> QED BY <1>1, <1>2, <1>3, <1>4 DEF MemInv

\* Steps that change neither pages nor objects.
LEMMA QuietInv ==
  ASSUME MemInv, UNCHANGED <<physVars, entries, tables, cr3, leaked, objectVars>>,
         \A p \in Page : held' = p <=> held = p, held = None \/ job'.call = job.call,
         tlb' \in [Virt -> Entry \cup {None}], job' \in Job,
         held' \in Page \cup Hardware \cup {None},
         pc' \in {"User", "Switch", "Dispatch", "Loop", "Map", "Panic", "Exposed"}, CallInv'
  PROVE  MemInv'
  <1>1. PhysInv'
    BY SamePages DEF MemInv, physVars, objectVars
  <1>2. TypeOK'
    BY DEF MemInv, TypeOK, physVars, objectVars
  <1>3. HoldersOK'
    BY DEF MemInv, HoldersOK, objectVars
  <1> QED BY <1>1, <1>2, <1>3 DEF MemInv

\* The steps of the processor and of calls that change no memory.
LEMMA OtherInv ==
  ASSUME MemInv, TlbFill \/ Trap \/ AllocPage \/ MapPhysicalMemory \/ ReleasePage \/ ModifyPage
                   \/ LoopEnds \/ LoopExposes \/ OtherCall
  PROVE  MemInv'
  <1>1. TypeOK /\ CallInv
    BY DEF MemInv
  <1>2. /\ tlb \in [Virt -> Entry \cup {None}] /\ job \in Job /\ cr3 \in Pml4
        /\ entries \in [Pml4 -> [Virt -> Entry \cup {None}]]
        /\ held \in Page \cup Hardware \cup {None}
        /\ pc \in {"User", "Switch", "Dispatch", "Loop", "Map", "Panic", "Exposed"}
    BY <1>1 DEF TypeOK
  <1>3. CASE TlbFill
    <2>1. UNCHANGED <<physVars, entries, tables, cr3, leaked, objectVars, pc, job, held>>
      BY <1>3 DEF TlbFill
    <2>2. PICK v \in CachedVirt : tlb' = [tlb EXCEPT ![v] = entries[cr3][v]]
      BY <1>3 DEF TlbFill
    <2>3. v \in Virt
      BY MemoryAssumption
    <2>4. tlb' \in [Virt -> Entry \cup {None}]
      BY <1>2, <2>2, <2>3
    <2>5. JobOK' /\ ValidationHolds'
      BY <1>1, <2>1 DEF CallInv, JobOK, ValidationHolds, Valid, Mapped
    <2>6. TlbCoherent'
      BY <1>1, <1>2, <2>1, <2>2, <2>3 DEF CallInv, TlbCoherent
    <2> QED BY <1>2, <2>1, <2>4, <2>5, <2>6, QuietInv DEF CallInv
  <1>4. CASE Trap
    <2>1. UNCHANGED <<physVars, spaceVars, objectVars, job, held>> /\ pc' = "Switch" /\ pc = "User"
      BY <1>4 DEF Trap
    <2>2. CallInv'
      BY <1>1, <2>1 DEF CallInv, JobOK, ValidationHolds, TlbCoherent
    <2> QED BY <1>2, <2>1, <2>2, QuietInv DEF spaceVars
  <1>5. ASSUME NEW call \in {"alloc", "map_physical", "release", "modify"}, Start(call) PROVE MemInv'
    <2>1. CallInv' /\ job' \in Job /\ pc' \in {"Loop", "Switch", "Panic"} /\ held' = None /\ held = None
      BY <1>1, <1>5, StartInv
    <2>2. UNCHANGED <<physVars, spaceVars, objectVars>>
      BY <1>5 DEF Start
    <2> QED BY <1>2, <2>1, <2>2, QuietInv DEF spaceVars
  <1>6. ASSUME Return, UNCHANGED <<physVars, spaceVars, objectVars>>, pc \in {"Loop", "Dispatch"} PROVE MemInv'
    <2>2. CallInv' /\ job' \in Job /\ pc' = "Switch" /\ held' = None
      BY <1>6, ReturnCall
    <2>3. held = None
      BY <1>1, <1>6 DEF CallInv, JobOK
    <2> QED BY <1>2, <1>6, <2>2, <2>3, QuietInv DEF spaceVars
  <1>7. ASSUME pc' \in {"Panic", "Exposed"}, UNCHANGED <<physVars, spaceVars, objectVars, job, held>> PROVE MemInv'
    <2>1. CallInv'
      BY <1>7, PanicCall
    <2> QED BY <1>2, <1>7, <2>1, QuietInv DEF spaceVars
  <1>8. CASE LoopEnds \/ LoopExposes \/ OtherCall
    BY <1>6, <1>7, <1>8 DEF LoopEnds, LoopExposes, OtherCall, Looping, Panics
  <1> QED BY <1>3, <1>4, <1>5, <1>8 DEF AllocPage, MapPhysicalMemory, ReleasePage, ModifyPage

\* Loading cr3: the switch to a task, and set_page_context.
LEMMA SetCtxInv ==
  ASSUME MemInv, Switch \/ SetPageContext PROVE MemInv'
  <1>1. TypeOK /\ PhysInv /\ HoldersOK /\ CallInv
    BY DEF MemInv
  <1>2. held = None
    BY <1>1 DEF CallInv, JobOK, Switch, SetPageContext
  <1>3. /\ UNCHANGED <<strong, handles, taskCtx>> /\ held' = None /\ current' \in Tasks
        /\ job' \in Job /\ pc' \in {"User", "Dispatch", "Switch"}
    <2>1. CASE Switch
      BY <1>1, <1>2, <2>1 DEF Switch, TypeOK
    <2>2. CASE SetPageContext
      BY <1>1, <2>2, ReturnCall DEF SetPageContext, TypeOK, objectVars
    <2> QED BY <2>1, <2>2
  <1>4. PICK c \in Pml4 : strong[c] > 0 /\ SetCtx(c)
    <2>1. CASE Switch
      <3>1. PICK t \in Tasks : taskCtx[t] # None /\ SetCtx(taskCtx[t])
        BY <2>1 DEF Switch
      <3>2. taskCtx[t] \in Pml4
        BY <1>1, <3>1 DEF TypeOK
      <3>3. strong[taskCtx[t]] > 0
        BY <1>1, <3>2, HolderFacts
      <3> QED BY <3>1, <3>2, <3>3
    <2>2. CASE SetPageContext
      <3>1. PICK c \in Pml4 : handles[current][c] > 0 /\ SetCtx(c)
        BY <2>2 DEF SetPageContext
      <3>2. strong[c] > 0
        BY <1>1, <3>1, HolderFacts DEF TypeOK
      <3> QED BY <3>1, <3>2
    <2> QED BY <2>1, <2>2
  <1>5. /\ PhysInv'
        /\ free' \in Seq(Page) /\ bump' = bump /\ rc' \in [Page -> Nat]
        /\ leaked' \in [Page -> Nat]
        /\ entries' \in [Pml4 -> [Virt -> Entry \cup {None}]]
        /\ tables' \in [Pml4 -> [Table -> Page \cup {None}]]
    BY <1>1, <1>2, <1>3, <1>4, SetCtxPages
  <1>6. cr3' = c /\ tlb' = NoEntries
    BY <1>4 DEF SetCtx
  <1>7. TypeOK'
    BY <1>1, <1>3, <1>5, <1>6 DEF TypeOK, NoEntries
  <1>8. HoldersOK'
    BY <1>1, <1>3 DEF HoldersOK
  <1>9. CallInv'
    <2>1. \A v \in Virt : tlb'[v] = None
      BY <1>6 DEF NoEntries
    <2> QED BY <1>3, <2>1 DEF CallInv, JobOK, ValidationHolds, TlbCoherent
  <1> QED BY <1>5, <1>7, <1>8, <1>9 DEF MemInv

\* alloc: the page it returns, its count and what is left.
LEMMA AllocPages ==
  ASSUME TypeOK, PhysInv, Alloc
  PROVE  /\ Allocated \in Page /\ Offers(free, bump, Allocated)
         /\ AllocatorOK(free', bump') /\ free' \in Seq(Page) /\ bump' \in [DOMAIN Regions -> Nat]
         /\ rc' \in [Page -> Nat]
         /\ \A q \in Page : /\ Offers(free', bump', q) <=> Offers(free, bump, q) /\ q # Allocated
                            /\ rc'[q] = IF q = Allocated THEN 1 ELSE rc[q]
  <1>1. ~Exhausted /\ free' = FreeLeft /\ bump' = BumpLeft /\ rc' = IncRef(rc, Allocated)
    BY DEF Alloc
  <1>2. /\ Allocated \in Page /\ Offers(free, bump, Allocated)
        /\ AllocatorOK(free', bump')
        /\ \A q \in Page : Offers(free', bump', q) <=> Offers(free, bump, q) /\ q # Allocated
    BY <1>1, AllocOffers DEF PhysInv
  <1>3. rc[Allocated] = 0 /\ rc \in [Page -> Nat]
    BY <1>2, Roles DEF PhysInv, TypeOK
  <1>4. rc' = [rc EXCEPT ![Allocated] = rc[Allocated] + 1]
    BY <1>1, <1>2 DEF IncRef
  <1>5. rc' \in [Page -> Nat] /\ \A q \in Page : rc'[q] = IF q = Allocated THEN 1 ELSE rc[q]
    BY <1>2, <1>3, <1>4
  <1> QED BY <1>2, <1>5 DEF AllocatorOK

\* The pages of alloc_page and of map_physical_memory.
LEMMA LoopGetsPage ==
  ASSUME MemInv, LoopAlloc \/ LoopPhysical PROVE MemInv'
  <1>1. TypeOK /\ PhysInv /\ HoldersOK /\ CallInv
    BY DEF MemInv
  <1>2. held = None /\ pc = "Loop" /\ job.todo # <<>> /\ UNCHANGED <<spaceVars, objectVars>>
    BY <1>1 DEF CallInv, JobOK, LoopAlloc, LoopPhysical, Looping
  <1>3. ASSUME pc' = "Map", job' = job, held' # None, job.call \in {"alloc", "map_physical"} PROVE CallInv'
    <2>1. JobOK'
      BY <1>1, <1>2, <1>3 DEF CallInv, JobOK
    <2>2. ValidationHolds'
      BY <1>1, <1>2, <1>3 DEF CallInv, ValidationHolds, Valid, Mapped, spaceVars
    <2> QED BY <1>3, <2>1, <2>2 DEF CallInv, TlbCoherent
  <1>4. CASE LoopAlloc /\ Alloc /\ held' = Allocated /\ pc' = "Map" /\ UNCHANGED job
    <2>1. /\ Allocated \in Page /\ Offers(free, bump, Allocated)
          /\ AllocatorOK(free', bump') /\ free' \in Seq(Page) /\ bump' \in [DOMAIN Regions -> Nat]
          /\ rc' \in [Page -> Nat]
          /\ \A q \in Page : /\ Offers(free', bump', q) <=> Offers(free, bump, q) /\ q # Allocated
                             /\ rc'[q] = IF q = Allocated THEN 1 ELSE rc[q]
      BY <1>1, <1>4, AllocPages
    <2>2. CallInv'
      BY <1>3, <1>4, <2>1, PageFacts DEF LoopAlloc, Looping
    <2>3. TypeOK'
      BY <1>1, <1>2, <1>4, <2>1 DEF TypeOK, spaceVars, objectVars
    <2>4. ASSUME NEW q \in Page PROVE PageAt(q)'
      <3>1. PageAt(q)
        BY <1>1 DEF PhysInv, PagesOK
      <3>2. UNCHANGED <<entries, tables, leaked, strong, cr3>>
        BY <1>2 DEF spaceVars, objectVars
      <3>3. held # q
        BY <1>2, PageFacts
      <3>4. CASE q = Allocated
        <4>1. /\ Count(entries, q) = 0 /\ leaked[q] = 0 /\ ~Owned(entries, q) /\ ~InTable(tables, q)
              /\ ~(strong[q] > 0) /\ cr3 # q
          BY <1>1, <2>1, <3>4, Roles DEF PhysInv
        <4>2. rc'[q] = 1 /\ held' = q /\ ~Offers(free', bump', q)
          BY <1>4, <2>1, <3>4
        <4> QED BY <3>2, <4>1, <4>2 DEF PageAt, PageOK, One
      <3>5. CASE q # Allocated
        <4>1. rc'[q] = rc[q] /\ held' # q /\ (Offers(free', bump', q) <=> Offers(free, bump, q))
          BY <1>4, <2>1, <3>5
        <4> QED BY <3>1, <3>2, <3>3, <4>1 DEF PageAt, PageOK, One
      <3> QED BY <3>4, <3>5
    <2>5. UsedOnce(entries', tables')
      BY <1>1, <1>2 DEF PhysInv, spaceVars
    <2>6. HoldersOK'
      BY <1>1, <1>2 DEF HoldersOK, objectVars
    <2> QED BY <2>1, <2>2, <2>3, <2>4, <2>5, <2>6 DEF MemInv, PhysInv, PagesOK
  <1>5. CASE LoopAlloc /\ Return /\ UNCHANGED physVars
    <2>1. CallInv' /\ job' \in Job /\ pc' = "Switch" /\ held' = None
      BY <1>5, ReturnCall
    <2>2. tlb' \in [Virt -> Entry \cup {None}]
      BY <1>1, <1>2 DEF TypeOK, spaceVars
    <2> QED BY <1>2, <1>5, <2>1, <2>2, QuietInv DEF spaceVars
  <1>6. CASE LoopPhysical
    <2>1. PICK p \in Page \cup Hardware : /\ p \in Page => ~KernelUses(p)
                                          /\ held' = p /\ rc' = IncRef(rc, p)
      BY <1>6 DEF LoopPhysical
    <2>2. UNCHANGED <<free, bump, job>> /\ pc' = "Map" /\ job.call = "map_physical"
      BY <1>6 DEF LoopPhysical, Looping
    <2>3. rc' \in [Page -> Nat] /\ \A q \in Page : rc'[q] = IF q = p THEN rc[q] + 1 ELSE rc[q]
      <3>1. rc \in [Page -> Nat]
        BY <1>1 DEF TypeOK
      <3> QED BY <2>1, <3>1 DEF IncRef
    <2>4. held' # None
      BY <2>1, PageFacts
    <2>5. CallInv'
      BY <1>3, <2>2, <2>4
    <2>6. TypeOK'
      BY <1>1, <1>2, <2>1, <2>2, <2>3 DEF TypeOK, spaceVars, objectVars
    <2>7. ASSUME NEW q \in Page PROVE PageAt(q)'
      <3>1. PageAt(q) /\ rc[q] \in Nat /\ Count(entries, q) \in Nat /\ leaked[q] \in Nat
        BY <1>1, Roles DEF PhysInv, PagesOK
      <3>2. UNCHANGED <<free, bump, entries, tables, leaked, strong, cr3, job>>
        BY <1>2, <2>2 DEF spaceVars, objectVars
      <3>3. held # q /\ ~(job'.call = "alloc")
        BY <1>2, <2>2, PageFacts
      <3>4. CASE q = p
        <4>1. ~Offers(free, bump, q)
          <5>1. Offered(q) = One(Offers(free, bump, q))
            BY <1>1, SizesOfPage DEF PhysInv
          <5>2. ~(Offered(q) > 0)
            BY <2>1, <3>4 DEF KernelUses
          <5> QED BY <5>1, <5>2 DEF One
        <4>2. ~(strong[q] > 0) /\ cr3 # q /\ ~InTable(tables, q)
          BY <2>1, <3>4 DEF KernelUses, IsPml4, InTable
        <4>3. rc'[q] = rc[q] + 1 /\ held' = q
          BY <2>1, <2>3, <3>4
        <4> QED BY <3>1, <3>2, <3>3, <4>1, <4>2, <4>3 DEF PageAt, PageOK, One
      <3>5. CASE q # p
        <4>1. rc'[q] = rc[q] /\ held' # q
          BY <2>1, <2>3, <3>5
        <4> QED BY <3>1, <3>2, <3>3, <4>1 DEF PageAt, PageOK, One
      <3> QED BY <3>4, <3>5
    <2>8. AllocatorOK(free', bump') /\ UsedOnce(entries', tables')
      BY <1>1, <1>2, <2>2 DEF PhysInv, spaceVars
    <2>9. HoldersOK'
      BY <1>1, <1>2 DEF HoldersOK, objectVars
    <2> QED BY <2>5, <2>6, <2>7, <2>8, <2>9 DEF MemInv, PhysInv, PagesOK
  <1> QED BY <1>4, <1>5, <1>6 DEF LoopAlloc

\* The first page of the call in progress.
LEMMA FirstPage ==
  ASSUME TypeOK, job.todo # <<>>
  PROVE  /\ job.todo \in Seq(Virt) /\ Head(job.todo) \in Virt
         /\ 1 \in DOMAIN job.todo /\ Head(job.todo) = job.todo[1]
         /\ job.flags \in Flags \cup {Odd} /\ cr3 \in Pml4
  <1>1. job.todo \in Seq(Virt) /\ job.flags \in Flags \cup {Odd} /\ cr3 \in Pml4
    BY DEF TypeOK, Job
  <1> QED BY <1>1, TailFacts

\* A new page table.
LEMMA MapTableInv ==
  ASSUME MemInv, MapTable PROVE MemInv'
  <1>1. TypeOK /\ PhysInv /\ HoldersOK /\ CallInv
    BY DEF MemInv
  <1>2. pc = "Map" /\ Alloc /\ UNCHANGED <<entries, tlb, cr3, leaked, objectVars, pc, job, held>>
    BY DEF MapTable
  <1>3. job.todo # <<>>
    BY <1>1, <1>2 DEF CallInv, JobOK
  <1> DEFINE v == Head(job.todo)
  <1>4. v \in Virt /\ cr3 \in Pml4
    BY <1>1, <1>3, FirstPage
  <1>5. PICK i \in DOMAIN Path[v] :
          /\ MissingTable(v, i)
          /\ tables' = [tables EXCEPT ![cr3][Path[v][i]] = Allocated]
    BY DEF MapTable
  <1> DEFINE n == Path[v][i]
  <1>6. n \in Table
    BY <1>4 DEF Table
  <1>7. tables[cr3][n] = None
    BY <1>5 DEF MissingTable
  <1> HIDE DEF n, v
  <1>8. /\ Allocated \in Page /\ Offers(free, bump, Allocated)
        /\ AllocatorOK(free', bump') /\ free' \in Seq(Page) /\ bump' \in [DOMAIN Regions -> Nat]
        /\ rc' \in [Page -> Nat]
        /\ \A q \in Page : /\ Offers(free', bump', q) <=> Offers(free, bump, q) /\ q # Allocated
                           /\ rc'[q] = IF q = Allocated THEN 1 ELSE rc[q]
    BY <1>1, <1>2, AllocPages
  <1>9. tables \in [Pml4 -> [Table -> Page \cup {None}]]
    BY <1>1 DEF TypeOK
  <1>10. tables' = [tables EXCEPT ![cr3][n] = Allocated]
    BY <1>5 DEF n
  <1>11. /\ tables' \in [Pml4 -> [Table -> Page \cup {None}]]
         /\ ButFor(tables, tables', Table, cr3, n) /\ tables'[cr3][n] = Allocated
    BY <1>4, <1>6, <1>8, <1>9, <1>10 DEF ButFor
  <1>12. ~InTable(tables, Allocated)
    BY <1>1, <1>8, Roles DEF PhysInv
  <1>13. /\ UsedOnce(entries, tables')
         /\ \A q \in Page : InTable(tables', q) <=> InTable(tables, q) \/ q = Allocated
    <2>1. tables'[cr3][n] \in Page /\ ~InTable(tables, tables'[cr3][n])
      BY <1>8, <1>11, <1>12
    <2>2. /\ UsedOnce(entries, tables')
          /\ \A q \in Page : InTable(tables', q) <=> InTable(tables, q) \/ q = tables'[cr3][n]
      <3>1. UsedOnce(entries, tables) /\ ButFor(tables, tables', Table, cr3, n)
        BY <1>1, <1>11 DEF PhysInv
      <3> QED BY ONLY <1>4, <1>6, <1>7, <2>1, <3>1, TableUses
    <2> QED BY <1>11, <2>2
  <1>14. ASSUME NEW q \in Page PROVE PageAt(q)'
    <2>1. PageAt(q)
      BY <1>1 DEF PhysInv, PagesOK
    <2>2. UNCHANGED <<entries, leaked, strong, cr3, held, job>>
      BY <1>2 DEF objectVars
    <2>3. CASE q = Allocated
      <3>1. /\ Count(entries, q) = 0 /\ leaked[q] = 0 /\ ~(strong[q] > 0) /\ cr3 # q /\ held # q
        BY <1>1, <1>8, <2>3, Roles DEF PhysInv
      <3>2. rc'[q] = 1 /\ ~Offers(free', bump', q) /\ InTable(tables', q)
        BY <1>8, <1>13, <2>3
      <3> QED BY <2>2, <3>1, <3>2 DEF PageAt, PageOK, One
    <2>4. CASE q # Allocated
      <3>1. rc'[q] = rc[q] /\ (Offers(free', bump', q) <=> Offers(free, bump, q))
        BY <1>8, <2>4
      <3>2. InTable(tables', q) <=> InTable(tables, q)
        BY <1>13, <2>4
      <3> QED BY <2>1, <2>2, <3>1, <3>2 DEF PageAt, PageOK, One
    <2> QED BY <2>3, <2>4
  <1>15. TypeOK'
    BY <1>1, <1>2, <1>8, <1>11 DEF TypeOK, objectVars
  <1>16. HoldersOK'
    BY <1>1, <1>2 DEF HoldersOK, objectVars
  <1>17. CallInv'
    BY <1>1, <1>2 DEF CallInv, JobOK, ValidationHolds, TlbCoherent, Valid, Mapped
  <1>18. UsedOnce(entries', tables')
    BY <1>2, <1>13
  <1> QED BY <1>8, <1>14, <1>15, <1>16, <1>17, <1>18 DEF MemInv, PhysInv, PagesOK

\* A Phys is dropped: if it was its page's only reference its page is offered.
LEMMA DropOne ==
  ASSUME TypeOK, PhysInv, NEW p \in Page \cup Hardware, DropPhys(rc, p),
         p \in Page => rc[p] > 0 /\ ~Offers(free, bump, p)
  PROVE  /\ AllocatorOK(free', bump') /\ free' \in Seq(Page) /\ bump' = bump
         /\ rc' \in [Page -> Nat]
         /\ \A q \in Page : /\ Offers(free', bump', q) <=> Offers(free, bump, q) \/ (q = p /\ rc[p] = 1)
                            /\ rc'[q] = IF q = p THEN rc[q] - 1 ELSE rc[q]
  <1>1. AllocatorOK(free, bump) /\ free \in Seq(Page) /\ rc \in [Page -> Nat]
    BY DEF PhysInv, TypeOK
  <1>2. bump' = bump
    BY DEF DropPhys
  <1>3. rc' \in [Page -> Nat] /\ \A q \in Page : rc'[q] = IF q = p THEN rc[q] - 1 ELSE rc[q]
    <2>1. CASE p \in Page
      <3>1. rc' = [rc EXCEPT ![p] = rc[p] - 1] /\ rc[p] - 1 \in Nat
        BY <1>1, <2>1 DEF DropPhys, DecRef
      <3> QED BY <1>1, <2>1, <3>1
    <2>2. CASE p \notin Page
      BY <1>1, <2>2 DEF DropPhys, DecRef
    <2> QED BY <2>1, <2>2
  <1>4. CASE LastRef(rc, p)
    <2>1. p \in Page /\ rc[p] = 1 /\ free' = <<p>> \o free
      BY <1>4 DEF DropPhys, LastRef
    <2>2. /\ AllocatorOK(free', bump')
          /\ \A q \in Page : Offers(free', bump', q) <=> Offers(free, bump, q) \/ q = p
      BY <1>1, <1>2, <2>1, PushOffers
    <2>3. free' \in Seq(Page)
      BY <2>2 DEF AllocatorOK
    <2> QED BY <1>2, <1>3, <2>1, <2>2, <2>3
  <1>5. CASE ~LastRef(rc, p)
    <2>1. free' = free
      BY <1>5 DEF DropPhys
    <2>2. \A q \in Page : ~(q = p /\ rc[p] = 1)
      BY <1>5 DEF LastRef
    <2> QED BY <1>1, <1>2, <1>3, <2>1, <2>2
  <1> QED BY <1>4, <1>5

\* A page table cannot be allocated, and the Phys is dropped.
LEMMA MapTableFailsInv ==
  ASSUME MemInv, MapTableFails PROVE MemInv'
  <1>1. TypeOK /\ PhysInv /\ HoldersOK /\ CallInv
    BY DEF MemInv
  <1>2. pc = "Map" /\ DropPhys(rc, held) /\ UNCHANGED <<spaceVars, objectVars>>
    BY DEF MapTableFails
  <1>3. held \in Page \cup Hardware
    BY <1>1, <1>2 DEF CallInv, JobOK, TypeOK
  <1>4. held \in Page => rc[held] > 0 /\ ~Offers(free, bump, held)
    BY <1>1, Roles DEF PhysInv
  <1>5. /\ AllocatorOK(free', bump') /\ free' \in Seq(Page) /\ bump' = bump
        /\ rc' \in [Page -> Nat]
        /\ \A q \in Page : /\ Offers(free', bump', q) <=> Offers(free, bump, q) \/ (q = held /\ rc[held] = 1)
                           /\ rc'[q] = IF q = held THEN rc[q] - 1 ELSE rc[q]
    BY <1>1, <1>2, <1>3, <1>4, DropOne
  <1>6. held' = None /\ job' \in Job /\ pc' \in {"Switch", "Panic"} /\ CallInv'
    <2>1. CASE Return
      BY <2>1, ReturnCall
    <2>2. CASE pc' = "Panic" /\ held' = None /\ UNCHANGED job
      BY <1>1, <2>2 DEF TypeOK, CallInv, JobOK, ValidationHolds, TlbCoherent
    <2> QED BY <2>1, <2>2 DEF MapTableFails
  <1>7. ASSUME NEW q \in Page PROVE PageAt(q)'
    <2>1. PageAt(q)
      BY <1>1 DEF PhysInv, PagesOK
    <2>2. UNCHANGED <<entries, tables, leaked, strong, cr3>> /\ held' # q
      BY <1>2, <1>6, PageFacts DEF spaceVars, objectVars
    <2>3. CASE q = held
      <3>1. /\ rc[q] = Count(entries, q) + leaked[q] + 1 /\ ~InTable(tables, q)
            /\ ~(strong[q] > 0) /\ cr3 # q /\ ~Offers(free, bump, q)
            /\ Count(entries, q) \in Nat /\ leaked[q] \in Nat
        BY <1>1, <2>3, Roles DEF PhysInv
      <3>2. rc'[q] = Count(entries, q) + leaked[q]
        BY <1>5, <2>3, <3>1
      <3>3. Offers(free', bump', q) => Count(entries, q) = 0 /\ leaked[q] = 0
        BY <1>5, <2>3, <3>1
      <3> QED BY <2>2, <3>1, <3>2, <3>3 DEF PageAt, PageOK, One
    <2>4. CASE q # held
      <3>1. rc'[q] = rc[q] /\ (Offers(free', bump', q) <=> Offers(free, bump, q))
        BY <1>5, <2>4
      <3> QED BY <2>1, <2>2, <2>4, <3>1 DEF PageAt, PageOK, One
    <2> QED BY <2>3, <2>4
  <1>8. TypeOK'
    BY <1>1, <1>2, <1>5, <1>6 DEF TypeOK, objectVars, spaceVars
  <1>9. HoldersOK'
    BY <1>1, <1>2 DEF HoldersOK, objectVars
  <1>10. UsedOnce(entries', tables')
    BY <1>1, <1>2 DEF PhysInv, spaceVars
  <1> QED BY <1>5, <1>6, <1>7, <1>8, <1>9, <1>10 DEF MemInv, PhysInv, PagesOK

\* page::map writes the entry: the Phys that was held is now in the table.
LEMMA MapEntryInv ==
  ASSUME MemInv, MapEntry PROVE MemInv'
  <1>1. TypeOK /\ PhysInv /\ HoldersOK /\ CallInv
    BY DEF MemInv
  <1> DEFINE v == Head(job.todo)
             x == [page |-> held, flags |-> job.flags, by |-> job.call]
  <1>2. pc = "Map" /\ UNCHANGED <<physVars, tables, cr3, leaked, objectVars>>
    BY DEF MapEntry
  <1>3. job.todo # <<>> /\ job.call \in {"alloc", "map_physical"} /\ held \in Page \cup Hardware
    BY <1>1, <1>2 DEF CallInv, JobOK, TypeOK
  <1>4. /\ v \in Virt /\ cr3 \in Pml4 /\ job.flags \in Flags \cup {Odd}
        /\ 1 \in DOMAIN job.todo /\ v = job.todo[1]
    BY <1>1, <1>3, FirstPage
  <1>5. entries[cr3][v] = None
    BY <1>1, <1>2, <1>3, <1>4 DEF CallInv, ValidationHolds, Valid, Mapped
  <1>6. /\ entries' = [entries EXCEPT ![cr3][v] = x]
        /\ tlb' = [tlb EXCEPT ![v] = None] /\ held' = None
        /\ job' = [job EXCEPT !.todo = Tail(job.todo)] /\ pc' = "Loop"
    BY <1>5 DEF MapEntry, Mapped
  <1>7. x \in Entry /\ x # None /\ x.page = held /\ x.by = job.call
    <2>1. x \in Entry
      BY <1>3, <1>4 DEF Entry
    <2> QED BY <2>1, PageFacts
  <1> HIDE DEF v, x
  <1>8. entries \in [Pml4 -> [Virt -> Entry \cup {None}]] /\ tlb \in [Virt -> Entry \cup {None}]
    BY <1>1 DEF TypeOK
  <1>9. /\ entries' \in [Pml4 -> [Virt -> Entry \cup {None}]] /\ tlb' \in [Virt -> Entry \cup {None}]
        /\ ButFor(entries, entries', Virt, cr3, v) /\ entries'[cr3][v] = x
    BY <1>4, <1>6, <1>7, <1>8 DEF ButFor
  <1>10. held \in Page /\ job.call = "alloc" => ~Owned(entries, held)
    BY <1>1, Roles DEF PhysInv
  <1>11. UsedOnce(entries', tables) /\ Gains(entries, entries', held, job.call)
    <2>1. entries'[cr3][v] # None /\ entries'[cr3][v].page = held /\ entries'[cr3][v].by = job.call
      BY <1>7, <1>9
    <2>2. UsedOnce(entries, tables) /\ ButFor(entries, entries', Virt, cr3, v)
      BY <1>1, <1>9 DEF PhysInv
    <2>3. v \in Virt /\ cr3 \in Pml4 /\ entries[cr3][v] = None
      BY <1>4, <1>5
    <2> QED BY ONLY <1>10, <2>1, <2>2, <2>3, MapUses
  <1>12. CallInv' /\ job' \in Job
    BY <1>1, <1>2, <1>3, <1>6, <1>9, NextPage DEF v
  <1>13. ASSUME NEW q \in Page PROVE PageAt(q)'
    <2>1. PageAt(q)
      BY <1>1 DEF PhysInv, PagesOK
    <2>2. UNCHANGED <<free, bump, rc, tables, leaked, strong, cr3>> /\ held' # q
      BY <1>2, <1>6, PageFacts DEF physVars, objectVars
    <2>3. /\ Count(entries', q) = IF q = held THEN Count(entries, q) + 1 ELSE Count(entries, q)
          /\ Owned(entries', q) <=> Owned(entries, q) \/ (q = held /\ job.call = "alloc")
      BY <1>11 DEF Gains
    <2>4. CASE q = held
      <3>1. /\ rc[q] = Count(entries, q) + leaked[q] + 1 /\ ~InTable(tables, q)
            /\ ~(strong[q] > 0) /\ cr3 # q /\ ~Offers(free, bump, q)
            /\ Count(entries, q) \in Nat /\ leaked[q] \in Nat
        BY <1>1, <2>4, Roles DEF PhysInv
      <3>2. rc[q] = Count(entries', q) + leaked[q] /\ Count(entries', q) \in Nat
        BY <2>3, <2>4, <3>1
      <3> QED BY <2>2, <3>1, <3>2 DEF PageAt, PageOK, One
    <2>5. CASE q # held
      BY <2>1, <2>2, <2>3, <2>5 DEF PageAt, PageOK, One
    <2> QED BY <2>4, <2>5
  <1>14. TypeOK'
    BY <1>1, <1>2, <1>6, <1>9, <1>12 DEF TypeOK, physVars, objectVars
  <1>15. HoldersOK'
    BY <1>1, <1>2 DEF HoldersOK, objectVars
  <1>16. AllocatorOK(free', bump') /\ UsedOnce(entries', tables')
    BY <1>1, <1>2, <1>11 DEF PhysInv, physVars
  <1> QED BY <1>12, <1>13, <1>14, <1>15, <1>16 DEF MemInv, PhysInv, PagesOK

\* page::unmap: the reference of the entry is dropped.
LEMMA LoopReleaseInv ==
  ASSUME MemInv, LoopRelease PROVE MemInv'
  <1>1. TypeOK /\ PhysInv /\ HoldersOK /\ CallInv
    BY DEF MemInv
  <1> DEFINE v == Head(job.todo)
             p == entries[cr3][v].page
  <1>2. /\ pc = "Loop" /\ job.call = "release" /\ job.todo # <<>>
        /\ UNCHANGED <<tables, cr3, leaked, objectVars>>
    BY DEF LoopRelease, Looping
  <1>3. held = None
    BY <1>1, <1>2 DEF CallInv, JobOK
  <1>4. v \in Virt /\ cr3 \in Pml4 /\ 1 \in DOMAIN job.todo /\ v = job.todo[1]
    BY <1>1, <1>2, FirstPage
  <1>5. entries[cr3][v] # None
    BY <1>1, <1>2, <1>4 DEF CallInv, ValidationHolds, Valid, Mapped
  <1>6. entries \in [Pml4 -> [Virt -> Entry \cup {None}]] /\ tlb \in [Virt -> Entry \cup {None}] /\ job \in Job
    BY <1>1 DEF TypeOK
  <1>7. p \in Page \cup Hardware
    <2>1. entries[cr3][v] \in Entry
      BY <1>4, <1>5, <1>6
    <2> QED BY <2>1 DEF Entry
  <1>8. CASE p = 0
    <2>1. pc' = "Panic" /\ UNCHANGED <<job, held, physVars, entries, tlb>>
      BY <1>8 DEF LoopRelease, Panics
    <2>2. CallInv'
      BY <2>1 DEF CallInv, JobOK, ValidationHolds, TlbCoherent
    <2> QED BY <1>2, <1>3, <1>6, <2>1, <2>2, QuietInv
  <1>9. CASE p # 0
    <2>1. /\ DropPhys(rc, p) /\ entries' = [entries EXCEPT ![cr3][v] = None]
          /\ tlb' = [tlb EXCEPT ![v] = None] /\ job' = [job EXCEPT !.todo = Tail(job.todo)]
          /\ UNCHANGED <<pc, held>>
      BY <1>9 DEF LoopRelease
    <2> HIDE DEF v
    <2>2. IsEntry(entries, cr3, v, p)
      BY <1>4, <1>5 DEF IsEntry
    <2>3. entries[cr3][v].page = p
      OBVIOUS
    <2> HIDE DEF p
    <2>4. p \in Page => /\ Count(entries, p) > 0 /\ rc[p] = Count(entries, p) + leaked[p] /\ ~InTable(tables, p)
                        /\ ~(strong[p] > 0) /\ cr3 # p /\ ~Offers(free, bump, p)
                        /\ Count(entries, p) \in Nat /\ leaked[p] \in Nat
      <3> SUFFICES ASSUME p \in Page
                   PROVE  /\ Count(entries, p) > 0 /\ rc[p] = Count(entries, p) + leaked[p] /\ ~InTable(tables, p)
                          /\ ~(strong[p] > 0) /\ cr3 # p /\ ~Offers(free, bump, p)
                          /\ Count(entries, p) \in Nat /\ leaked[p] \in Nat
        OBVIOUS
      <3>1. Count(entries, p) > 0
        BY <1>4, <2>2, CountFacts
      <3>2. /\ rc[p] = Count(entries, p) + leaked[p] + One(held = p) /\ ~InTable(tables, p)
            /\ ~(strong[p] > 0) /\ cr3 # p /\ ~Offers(free, bump, p)
            /\ Count(entries, p) \in Nat /\ leaked[p] \in Nat
        BY <1>1, <3>1, Roles DEF PhysInv
      <3>3. One(held = p) = 0
        BY <1>3, PageFacts DEF One
      <3> QED BY <3>1, <3>2, <3>3
    <2>5. /\ AllocatorOK(free', bump') /\ free' \in Seq(Page) /\ bump' = bump
          /\ rc' \in [Page -> Nat]
          /\ \A q \in Page : /\ Offers(free', bump', q) <=> Offers(free, bump, q) \/ (q = p /\ rc[p] = 1)
                             /\ rc'[q] = IF q = p THEN rc[q] - 1 ELSE rc[q]
      <3>1. p \in Page => rc[p] > 0 /\ ~Offers(free, bump, p)
        BY <2>4
      <3> QED BY <1>1, <1>7, <2>1, <3>1, DropOne
    <2>6. /\ entries' \in [Pml4 -> [Virt -> Entry \cup {None}]] /\ tlb' \in [Virt -> Entry \cup {None}]
          /\ ButFor(entries, entries', Virt, cr3, v) /\ entries'[cr3][v] = None
      BY <1>4, <1>6, <2>1 DEF ButFor
    <2>7. UsedOnce(entries', tables) /\ Loses(entries, entries', p)
      <3>1. UsedOnce(entries, tables) /\ ButFor(entries, entries', Virt, cr3, v)
        BY <1>1, <2>6 DEF PhysInv
      <3>2. /\ v \in Virt /\ cr3 \in Pml4 /\ entries[cr3][v] # None /\ entries[cr3][v].page = p
            /\ entries'[cr3][v] = None
        BY <1>4, <1>5, <2>3, <2>6
      <3> QED BY ONLY <3>1, <3>2, UnmapUses
    <2>8. CallInv' /\ job' \in Job
      BY <1>1, <1>2, <1>3, <2>1, <2>6, NextPage DEF v
    <2>9. ASSUME NEW q \in Page PROVE PageAt(q)'
      <3>1. PageAt(q)
        BY <1>1 DEF PhysInv, PagesOK
      <3>2. UNCHANGED <<tables, leaked, strong, cr3, held>> /\ held' # q
        BY <1>2, <1>3, <2>1, PageFacts DEF objectVars
      <3>3. /\ Count(entries', q) = IF q = p THEN Count(entries, q) - 1 ELSE Count(entries, q)
            /\ Owned(entries', q) => Owned(entries, q)
        BY <2>7 DEF Loses
      <3>4. CASE q = p
        <4>1. rc'[q] = Count(entries', q) + leaked[q]
          BY <2>4, <2>5, <3>3, <3>4
        <4>2. Offers(free', bump', q) => Count(entries', q) = 0 /\ leaked[q] = 0
          BY <2>4, <2>5, <3>3, <3>4
        <4>3. ~(strong'[q] > 0) /\ cr3' # q /\ ~InTable(tables', q)
          BY <2>4, <3>2, <3>4
        <4>4. leaked[q] \in Nat /\ Count(entries', q) \in Nat
          BY <2>4, <3>4, CountFacts
        <4> QED BY <3>2, <4>1, <4>2, <4>3, <4>4 DEF PageAt, PageOK, One
      <3>5. CASE q # p
        <4>1. rc'[q] = rc[q] /\ (Offers(free', bump', q) <=> Offers(free, bump, q))
          BY <2>5, <3>5
        <4> QED BY <3>1, <3>2, <3>3, <3>5, <4>1 DEF PageAt, PageOK, One
      <3> QED BY <3>4, <3>5
    <2>10. TypeOK'
      BY <1>1, <1>2, <2>1, <2>5, <2>6, <2>8 DEF TypeOK, objectVars
    <2>11. HoldersOK'
      BY <1>1, <1>2 DEF HoldersOK, objectVars
    <2>12. UsedOnce(entries', tables')
      BY <1>2, <2>7
    <2> QED BY <2>5, <2>8, <2>9, <2>10, <2>11, <2>12 DEF MemInv, PhysInv, PagesOK
  <1> QED BY <1>8, <1>9

\* page::modify changes no page.
LEMMA LoopModifyInv ==
  ASSUME MemInv, LoopModify PROVE MemInv'
  <1>1. TypeOK /\ PhysInv /\ HoldersOK /\ CallInv
    BY DEF MemInv
  <1> DEFINE v == Head(job.todo)
             x == [page |-> entries[cr3][v].page, flags |-> job.flags, by |-> entries[cr3][v].by]
  <1>2. /\ pc = "Loop" /\ job.call = "modify" /\ job.todo # <<>>
        /\ UNCHANGED <<physVars, tables, tlb, cr3, leaked, objectVars, pc, held>>
        /\ job' = [job EXCEPT !.todo = Tail(job.todo)]
        /\ entries' = [entries EXCEPT ![cr3][v].flags = job.flags]
    BY DEF LoopModify, Looping
  <1>3. held = None
    BY <1>1, <1>2 DEF CallInv, JobOK
  <1>4. v \in Virt /\ cr3 \in Pml4 /\ 1 \in DOMAIN job.todo /\ v = job.todo[1] /\ job.flags \in Flags \cup {Odd}
    BY <1>1, <1>2, FirstPage
  <1>5. entries[cr3][v] # None
    BY <1>1, <1>2, <1>4 DEF CallInv, ValidationHolds, Valid, Mapped
  <1>6. entries \in [Pml4 -> [Virt -> Entry \cup {None}]]
    BY <1>1 DEF TypeOK
  <1>7. entries[cr3][v] \in Entry
    BY <1>4, <1>5, <1>6
  <1>8. [entries[cr3][v] EXCEPT !.flags = job.flags] = x
    BY <1>7 DEF Entry
  <1>9. entries' = [entries EXCEPT ![cr3] = [entries[cr3] EXCEPT ![v] = x]]
    BY <1>2, <1>8
  <1>10. x \in Entry /\ x # None /\ x.page = entries[cr3][v].page /\ x.by = entries[cr3][v].by
    <2>1. x \in Entry
      BY <1>4, <1>7 DEF Entry
    <2> QED BY <2>1, PageFacts
  <1> HIDE DEF v, x
  <1>11. /\ entries' \in [Pml4 -> [Virt -> Entry \cup {None}]]
         /\ ButFor(entries, entries', Virt, cr3, v) /\ entries'[cr3][v] = x
    BY <1>4, <1>6, <1>9, <1>10 DEF ButFor
  <1>12. ASSUME NEW q, NEW c \in Pml4, NEW w \in Virt
         PROVE  /\ IsEntry(entries', c, w, q) <=> IsEntry(entries, c, w, q)
                /\ OwnEntry(entries', c, w, q) <=> OwnEntry(entries, c, w, q)
    <2>1. CASE c = cr3 /\ w = v
      BY <1>5, <1>10, <1>11, <2>1 DEF IsEntry, OwnEntry
    <2>2. CASE c # cr3 \/ w # v
      BY <1>11, <2>2 DEF IsEntry, OwnEntry, ButFor
    <2> QED BY <2>1, <2>2
  <1>13. /\ UsedOnce(entries', tables)
         /\ \A q \in Page : Count(entries', q) = Count(entries, q) /\ (Owned(entries', q) <=> Owned(entries, q))
    <2>1. UsedOnce(entries', tables)
      BY <1>1, <1>12 DEF PhysInv, UsedOnce
    <2>2. ASSUME NEW q \in Page PROVE EntriesOf(entries', q) = EntriesOf(entries, q)
      BY <1>12 DEF EntriesOf
    <2>3. \A q \in Page : Owned(entries', q) <=> Owned(entries, q)
      BY <1>12 DEF Owned
    <2> QED BY <2>1, <2>2, <2>3 DEF Count
  <1>14. CallInv' /\ job' \in Job
    BY <1>1, <1>2, <1>3, <1>11, NextPage DEF v
  <1>15. ASSUME NEW q \in Page PROVE PageAt(q)'
    <2>1. PageAt(q)
      BY <1>1 DEF PhysInv, PagesOK
    <2>2. UNCHANGED <<free, bump, rc, tables, leaked, strong, cr3, held>> /\ held # q
      BY <1>2, <1>3, PageFacts DEF physVars, objectVars
    <2> QED BY <1>13, <2>1, <2>2 DEF PageAt, PageOK, One
  <1>16. TypeOK'
    BY <1>1, <1>2, <1>11, <1>14 DEF TypeOK, physVars, objectVars
  <1>17. HoldersOK'
    BY <1>1, <1>2 DEF HoldersOK, objectVars
  <1>18. AllocatorOK(free', bump') /\ UsedOnce(entries', tables')
    BY <1>1, <1>2, <1>13 DEF PhysInv, physVars
  <1> QED BY <1>14, <1>15, <1>16, <1>17, <1>18 DEF MemInv, PhysInv, PagesOK

\* One handle more of task t to the object of c.
LEMMA MoreHandles ==
  ASSUME TypeOK, HoldersOK, NEW t \in Tasks, NEW c \in Pml4,
         handles' = [handles EXCEPT ![t][c] = handles[t][c] + 1],
         strong' = [strong EXCEPT ![c] = strong[c] + 1], UNCHANGED taskCtx
  PROVE  HoldersOK' /\ handles' \in [Tasks -> [Pml4 -> Nat]] /\ strong' \in [Pml4 -> Nat]
  <1>1. handles \in [Tasks -> [Pml4 -> Nat]] /\ strong \in [Pml4 -> Nat]
    BY DEF TypeOK
  <1>2. /\ handles' \in [Tasks -> [Pml4 -> Nat]]
        /\ \A u \in Tasks, d \in Pml4 :
             handles'[u][d] = IF u = t /\ d = c THEN handles[u][d] + 1 ELSE handles[u][d]
    BY <1>1
  <1>3. strong' \in [Pml4 -> Nat] /\ \A d \in Pml4 : strong'[d] = IF d = c THEN strong[d] + 1 ELSE strong[d]
    BY <1>1
  <1>4. ASSUME NEW d \in Pml4
        PROVE  /\ IsFiniteSet(Holders(handles', taskCtx', d))
               /\ strong'[d] = Cardinality(Holders(handles', taskCtx', d))
    <2> DEFINE S == Holders(handles, taskCtx, d)
               T == Holders(handles', taskCtx', d)
    <2>1. IsFiniteSet(S) /\ strong[d] = Cardinality(S)
      BY DEF HoldersOK
    <2>2. CASE d = c
      <3> DEFINE x == <<t, handles[t][c] + 1>>
      <3>0. handles[t][c] \in Nat
        BY <1>1
      <3>1. x \notin S
        BY <2>2, <3>0 DEF Holders
      <3>2. \A y : y \in T <=> y \in S \/ y = x
        BY <1>1, <1>2, <2>2, <3>0 DEF Holders
      <3> HIDE DEF S, T, x
      <3>3. T = S \cup {x}
        BY <3>2
      <3>4. IsFiniteSet(T) /\ Cardinality(T) = Cardinality(S) + 1
        BY <2>1, <3>1, <3>3, OneMore
      <3>5. strong'[d] = strong[d] + 1
        BY <1>3, <2>2
      <3> QED BY <2>1, <3>4, <3>5 DEF T
    <2>3. CASE d # c
      <3>1. T = S
        BY <1>2, <2>3 DEF Holders
      <3>2. strong'[d] = strong[d]
        BY <1>3, <2>3
      <3> QED BY <2>1, <3>1, <3>2
    <2> QED BY <2>2, <2>3
  <1> QED BY <1>2, <1>3, <1>4 DEF HoldersOK

\* One handle less.
LEMMA LessHandles ==
  ASSUME TypeOK, HoldersOK, NEW t \in Tasks, NEW c \in Pml4, handles[t][c] > 0,
         handles' = [handles EXCEPT ![t][c] = handles[t][c] - 1],
         strong' = [strong EXCEPT ![c] = strong[c] - 1], UNCHANGED taskCtx
  PROVE  HoldersOK' /\ handles' \in [Tasks -> [Pml4 -> Nat]] /\ strong' \in [Pml4 -> Nat]
  <1>1. handles \in [Tasks -> [Pml4 -> Nat]] /\ strong \in [Pml4 -> Nat]
    BY DEF TypeOK
  <1>2. strong[c] > 0
    BY HolderFacts
  <1>3. /\ handles' \in [Tasks -> [Pml4 -> Nat]]
        /\ \A u \in Tasks, d \in Pml4 :
             handles'[u][d] = IF u = t /\ d = c THEN handles[u][d] - 1 ELSE handles[u][d]
    BY <1>1
  <1>4. strong' \in [Pml4 -> Nat] /\ \A d \in Pml4 : strong'[d] = IF d = c THEN strong[d] - 1 ELSE strong[d]
    BY <1>1, <1>2
  <1>5. ASSUME NEW d \in Pml4
        PROVE  /\ IsFiniteSet(Holders(handles', taskCtx', d))
               /\ strong'[d] = Cardinality(Holders(handles', taskCtx', d))
    <2> DEFINE S == Holders(handles, taskCtx, d)
               T == Holders(handles', taskCtx', d)
    <2>1. IsFiniteSet(S) /\ strong[d] = Cardinality(S)
      BY DEF HoldersOK
    <2>2. CASE d = c
      <3> DEFINE x == <<t, handles[t][c]>>
      <3>0. handles[t][c] \in Nat /\ handles[t][c] > 0
        BY <1>1
      <3>1. x \in S
        BY <2>2, <3>0 DEF Holders
      <3>2. \A y : y \in T <=> y \in S /\ y # x
        BY <1>1, <1>3, <2>2, <3>0 DEF Holders
      <3> HIDE DEF S, T, x
      <3>3. T = S \ {x}
        BY <3>2
      <3>4. IsFiniteSet(T) /\ Cardinality(T) = Cardinality(S) - 1
        BY <2>1, <3>1, <3>3, OneLess
      <3>5. strong'[d] = strong[d] - 1
        BY <1>4, <2>2
      <3> QED BY <2>1, <3>4, <3>5 DEF T
    <2>3. CASE d # c
      <3>1. T = S
        BY <1>3, <2>3 DEF Holders
      <3>2. strong'[d] = strong[d]
        BY <1>4, <2>3
      <3> QED BY <2>1, <3>1, <3>2
    <2> QED BY <2>2, <2>3
  <1> QED BY <1>3, <1>4, <1>5 DEF HoldersOK

\* create_task: the new task is one reference more.
LEMMA MoreTasks ==
  ASSUME TypeOK, HoldersOK, NEW t \in Tasks, NEW c \in Pml4, taskCtx[t] = None,
         taskCtx' = [taskCtx EXCEPT ![t] = c],
         strong' = [strong EXCEPT ![c] = strong[c] + 1], UNCHANGED handles
  PROVE  HoldersOK' /\ taskCtx' \in [Tasks -> Pml4 \cup {None}] /\ strong' \in [Pml4 -> Nat]
  <1>1. taskCtx \in [Tasks -> Pml4 \cup {None}] /\ strong \in [Pml4 -> Nat]
    BY DEF TypeOK
  <1>2. /\ taskCtx' \in [Tasks -> Pml4 \cup {None}]
        /\ \A u \in Tasks : taskCtx'[u] = IF u = t THEN c ELSE taskCtx[u]
    BY <1>1
  <1>3. strong' \in [Pml4 -> Nat] /\ \A d \in Pml4 : strong'[d] = IF d = c THEN strong[d] + 1 ELSE strong[d]
    BY <1>1
  <1>4. ASSUME NEW d \in Pml4
        PROVE  /\ IsFiniteSet(Holders(handles', taskCtx', d))
               /\ strong'[d] = Cardinality(Holders(handles', taskCtx', d))
    <2> DEFINE S == Holders(handles, taskCtx, d)
               T == Holders(handles', taskCtx', d)
    <2>1. IsFiniteSet(S) /\ strong[d] = Cardinality(S)
      BY DEF HoldersOK
    <2>2. d # None
      BY PageFacts
    <2>3. CASE d = c
      <3> DEFINE x == <<t, 0>>
      <3>1. x \notin S
        BY <2>2 DEF Holders
      <3>2. \A y : y \in T <=> y \in S \/ y = x
        BY <1>1, <1>2, <2>3 DEF Holders
      <3> HIDE DEF S, T, x
      <3>3. T = S \cup {x}
        BY <3>2
      <3>4. IsFiniteSet(T) /\ Cardinality(T) = Cardinality(S) + 1
        BY <2>1, <3>1, <3>3, OneMore
      <3>5. strong'[d] = strong[d] + 1
        BY <1>3, <2>3
      <3> QED BY <2>1, <3>4, <3>5 DEF T
    <2>4. CASE d # c
      <3>1. T = S
        BY <1>2, <2>2, <2>4 DEF Holders
      <3>2. strong'[d] = strong[d]
        BY <1>3, <2>4
      <3> QED BY <2>1, <3>1, <3>2
    <2> QED BY <2>3, <2>4
  <1> QED BY <1>2, <1>3, <1>4 DEF HoldersOK

\* create_page_context.
LEMMA CreateContextInv ==
  ASSUME MemInv, CreatePageContext PROVE MemInv'
  <1>1. TypeOK /\ PhysInv /\ HoldersOK /\ CallInv
    BY DEF MemInv
  <1> DEFINE c == Allocated
  <1>2. /\ pc = "Dispatch" /\ Alloc /\ Return /\ UNCHANGED <<spaceVars, taskCtx, current>>
        /\ strong' = [strong EXCEPT ![c] = 1]
        /\ handles' = [handles EXCEPT ![current][c] = 1]
    BY DEF CreatePageContext
  <1>3. /\ c \in Page /\ Offers(free, bump, c)
        /\ AllocatorOK(free', bump') /\ free' \in Seq(Page) /\ bump' \in [DOMAIN Regions -> Nat]
        /\ rc' \in [Page -> Nat]
        /\ \A q \in Page : /\ Offers(free', bump', q) <=> Offers(free, bump, q) /\ q # c
                           /\ rc'[q] = IF q = c THEN 1 ELSE rc[q]
    BY <1>1, <1>2, AllocPages
  <1> HIDE DEF c
  <1>4. held = None /\ held' = None /\ job' \in Job /\ pc' = "Switch" /\ CallInv'
    BY <1>1, <1>2, ReturnCall DEF CallInv, JobOK
  <1>5. /\ Count(entries, c) = 0 /\ leaked[c] = 0 /\ ~Owned(entries, c) /\ ~InTable(tables, c)
        /\ ~(strong[c] > 0) /\ cr3 # c
    BY <1>1, <1>3, Roles DEF PhysInv
  <1>6. c \in Pml4 /\ current \in Tasks /\ strong \in [Pml4 -> Nat]
    BY <1>1, <1>3, PageFacts DEF TypeOK
  <1>7. strong[c] = 0
    BY <1>5, <1>6
  <1>8. handles[current][c] = 0
    BY <1>1, <1>6, <1>7, HolderFacts
  <1>9. /\ handles' = [handles EXCEPT ![current][c] = handles[current][c] + 1]
        /\ strong' = [strong EXCEPT ![c] = strong[c] + 1]
    BY <1>2, <1>7, <1>8
  <1>10. HoldersOK' /\ handles' \in [Tasks -> [Pml4 -> Nat]] /\ strong' \in [Pml4 -> Nat]
    BY <1>1, <1>2, <1>6, <1>9, MoreHandles
  <1>11. ASSUME NEW q \in Page PROVE PageAt(q)'
    <2>1. PageAt(q)
      BY <1>1 DEF PhysInv, PagesOK
    <2>2. UNCHANGED <<entries, tables, leaked, cr3, held>> /\ held' # q
      BY <1>2, <1>4, PageFacts DEF spaceVars
    <2>3. strong'[q] = IF q = c THEN 1 ELSE strong[q]
      BY <1>2, <1>6, PageFacts
    <2>4. CASE q = c
      <3>1. rc'[q] = 1 /\ ~Offers(free', bump', q)
        BY <1>3, <2>4
      <3> QED BY <1>5, <2>2, <2>3, <2>4, <3>1 DEF PageAt, PageOK, One
    <2>5. CASE q # c
      <3>1. rc'[q] = rc[q] /\ (Offers(free', bump', q) <=> Offers(free, bump, q))
        BY <1>3, <2>5
      <3> QED BY <2>1, <2>2, <2>3, <2>5, <3>1 DEF PageAt, PageOK, One
    <2> QED BY <2>4, <2>5
  <1>12. TypeOK'
    BY <1>1, <1>2, <1>3, <1>4, <1>10 DEF TypeOK, spaceVars
  <1>13. UsedOnce(entries', tables')
    BY <1>1, <1>2 DEF PhysInv, spaceVars
  <1> QED BY <1>3, <1>4, <1>10, <1>11, <1>12, <1>13 DEF MemInv, PhysInv, PagesOK

\* create_page_context that gives its page back.
LEMMA CreateContextFailsInv ==
  ASSUME MemInv, CreatePageContextFails PROVE MemInv'
  <1>1. TypeOK /\ PhysInv /\ HoldersOK /\ CallInv
    BY DEF MemInv
  <1>2. /\ pc = "Dispatch" /\ ~Exhausted /\ Return /\ UNCHANGED <<rc, spaceVars, objectVars>>
        /\ free' = <<Allocated>> \o FreeLeft /\ bump' = BumpLeft
    BY DEF CreatePageContextFails
  <1>3. held = None /\ held' = None /\ job' \in Job /\ pc' = "Switch" /\ CallInv'
    BY <1>1, <1>2, ReturnCall DEF CallInv, JobOK
  <1>4. /\ Allocated \in Page /\ Offers(free, bump, Allocated)
        /\ AllocatorOK(FreeLeft, BumpLeft)
        /\ \A p \in Page : Offers(FreeLeft, BumpLeft, p) <=> Offers(free, bump, p) /\ p # Allocated
    BY <1>1, <1>2, AllocOffers DEF PhysInv
  <1>5. /\ AllocatorOK(free', bump')
        /\ \A q \in Page : Offers(free', bump', q) <=> Offers(FreeLeft, BumpLeft, q) \/ q = Allocated
    BY <1>2, <1>4, PushOffers
  <1>6. \A q \in Page : Offers(free', bump', q) <=> Offers(free, bump, q)
    BY <1>4, <1>5
  <1>7. ASSUME NEW q \in Page PROVE PageAt(q)'
    <2>1. PageAt(q)
      BY <1>1 DEF PhysInv, PagesOK
    <2>2. UNCHANGED <<rc, entries, tables, leaked, cr3, strong, held>>
      BY <1>2, <1>3 DEF spaceVars, objectVars
    <2>3. held # q
      BY <1>3, PageFacts
    <2> QED BY <1>6, <2>1, <2>2, <2>3 DEF PageAt, PageOK, One
  <1>8. TypeOK'
    BY <1>1, <1>2, <1>3, <1>5 DEF TypeOK, AllocatorOK, spaceVars, objectVars
  <1>9. HoldersOK'
    BY <1>1, <1>2 DEF HoldersOK, objectVars
  <1>10. UsedOnce(entries', tables')
    BY <1>1, <1>2 DEF PhysInv, spaceVars
  <1> QED BY <1>3, <1>5, <1>7, <1>8, <1>9, <1>10 DEF MemInv, PhysInv, PagesOK

\* One reference more to the object of a page context that has one: clone_handle,
\* get_page_context and create_task.
LEMMA MoreReferencesInv ==
  ASSUME MemInv, CloneHandle \/ CreateTask PROVE MemInv'
  <1>1. TypeOK /\ PhysInv /\ HoldersOK /\ CallInv
    BY DEF MemInv
  <1>2. pc = "Dispatch" /\ Return /\ UNCHANGED <<physVars, spaceVars, current>>
    BY DEF CloneHandle, CreateTask
  <1>3. held = None /\ held' = None /\ job' \in Job /\ pc' = "Switch" /\ CallInv'
    BY <1>1, <1>2, ReturnCall DEF CallInv, JobOK
  <1>4. current \in Tasks /\ strong \in [Pml4 -> Nat]
    BY <1>1 DEF TypeOK
  <1>5. /\ HoldersOK' /\ strong' \in [Pml4 -> Nat] /\ handles' \in [Tasks -> [Pml4 -> Nat]]
        /\ taskCtx' \in [Tasks -> Pml4 \cup {None}]
        /\ \E c \in Pml4 : strong[c] > 0 /\ strong' = [strong EXCEPT ![c] = strong[c] + 1]
    <2>1. CASE CloneHandle
      <3>1. PICK c \in Pml4 : /\ handles[current][c] > 0 \/ c = taskCtx[current]
                              /\ strong' = [strong EXCEPT ![c] = strong[c] + 1]
                              /\ handles' = [handles EXCEPT ![current][c] = handles[current][c] + 1]
        BY <2>1 DEF CloneHandle
      <3>2. strong[c] > 0
        BY <1>1, <1>4, <3>1, HolderFacts
      <3>3. UNCHANGED taskCtx
        BY <2>1 DEF CloneHandle
      <3>4. HoldersOK' /\ handles' \in [Tasks -> [Pml4 -> Nat]] /\ strong' \in [Pml4 -> Nat]
        BY <1>1, <1>4, <3>1, <3>3, MoreHandles
      <3> QED BY <1>1, <3>1, <3>2, <3>3, <3>4 DEF TypeOK
    <2>2. CASE CreateTask
      <3>1. PICK c \in Pml4, t \in Tasks : /\ handles[current][c] > 0 /\ taskCtx[t] = None
                                           /\ taskCtx' = [taskCtx EXCEPT ![t] = c]
                                           /\ strong' = [strong EXCEPT ![c] = strong[c] + 1]
        BY <2>2 DEF CreateTask
      <3>2. strong[c] > 0
        BY <1>1, <1>4, <3>1, HolderFacts
      <3>3. UNCHANGED handles
        BY <2>2 DEF CreateTask
      <3>4. HoldersOK' /\ taskCtx' \in [Tasks -> Pml4 \cup {None}] /\ strong' \in [Pml4 -> Nat]
        BY <1>1, <3>1, <3>3, MoreTasks
      <3> QED BY <1>1, <3>1, <3>2, <3>3, <3>4 DEF TypeOK
    <2> QED BY <2>1, <2>2
  <1>6. \A p \in Page : strong'[p] > 0 <=> strong[p] > 0
    <2>1. PICK c \in Pml4 : strong[c] > 0 /\ strong' = [strong EXCEPT ![c] = strong[c] + 1]
      BY <1>5
    <2> QED BY <1>4, <2>1, PageFacts
  <1>7. PhysInv'
    BY <1>1, <1>2, <1>3, <1>6, SamePages DEF physVars, spaceVars
  <1>8. TypeOK'
    BY <1>1, <1>2, <1>3, <1>5 DEF TypeOK, physVars, spaceVars
  <1> QED BY <1>3, <1>5, <1>7, <1>8 DEF MemInv

\* release_handle.
LEMMA ReleaseHandleInv ==
  ASSUME MemInv, ReleaseHandle PROVE MemInv'
  <1>1. TypeOK /\ PhysInv /\ HoldersOK /\ CallInv
    BY DEF MemInv
  <1>2. pc = "Dispatch" /\ Return /\ UNCHANGED <<tlb, cr3, taskCtx, current>>
    BY DEF ReleaseHandle
  <1>3. held = None /\ held' = None /\ job' \in Job /\ pc' = "Switch" /\ CallInv'
    BY <1>1, <1>2, ReturnCall DEF CallInv, JobOK
  <1>4. current \in Tasks /\ strong \in [Pml4 -> Nat] /\ rc \in [Page -> Nat]
    BY <1>1 DEF TypeOK
  <1>5. PICK c \in Pml4 :
          /\ handles[current][c] > 0
          /\ handles' = [handles EXCEPT ![current][c] = handles[current][c] - 1]
          /\ strong' = [strong EXCEPT ![c] = strong[c] - 1]
          /\ IF strong[c] = 1 THEN DropCtx(rc, c)
                              ELSE UNCHANGED <<physVars, entries, tables, leaked>>
    BY DEF ReleaseHandle
  <1>6. strong[c] > 0
    BY <1>1, <1>4, <1>5, HolderFacts
  <1>7. HoldersOK' /\ handles' \in [Tasks -> [Pml4 -> Nat]] /\ strong' \in [Pml4 -> Nat]
    BY <1>1, <1>2, <1>4, <1>5, LessHandles
  <1>8. CASE strong[c] # 1
    <2>1. UNCHANGED <<physVars, entries, tables, leaked>>
      BY <1>5, <1>8
    <2>2. \A p \in Page : strong'[p] > 0 <=> strong[p] > 0
      BY <1>4, <1>5, <1>6, <1>8, PageFacts
    <2>3. PhysInv'
      BY <1>1, <1>2, <1>3, <2>1, <2>2, SamePages DEF physVars
    <2>4. TypeOK'
      BY <1>1, <1>2, <1>3, <1>7, <2>1 DEF TypeOK, physVars
    <2> QED BY <1>3, <1>7, <2>3, <2>4 DEF MemInv
  <1>9. CASE strong[c] = 1
    <2>1. DropCtx(rc, c)
      BY <1>5, <1>9
    <2>2. c \in Page => /\ rc[c] = One(strong[c] > 0) + One(cr3 = c) /\ ~Offers(free, bump, c)
      BY <1>1, <1>6, Roles DEF PhysInv
    <2>3. c \in Page => rc[c] > 0
      BY <1>6, <2>2 DEF One
    <2>4. /\ AllocatorOK(free', bump') /\ UsedOnce(entries', tables')
          /\ free' \in Seq(Page) /\ bump' = bump /\ rc' \in [Page -> Nat]
          /\ leaked' \in [Page -> Nat]
          /\ entries' \in [Pml4 -> [Virt -> Entry \cup {None}]]
          /\ tables' \in [Pml4 -> [Table -> Page \cup {None}]]
          /\ \A q \in Page :
               /\ rc'[q] = IF q = c THEN rc[q] - 1 ELSE rc[q]
               /\ Offers(free', bump', q) <=> Offers(free, bump, q) \/ (q = c /\ rc[c] = 1)
               /\ StillUsed(entries', tables', q, leaked[q], leaked'[q])
      BY <1>1, <1>4, <2>1, <2>2, <2>3, DropCtxPages DEF LastRef
    <2>5. ASSUME NEW q \in Page PROVE PageAt(q)'
      <3>1. PageAt(q) /\ leaked[q] \in Nat /\ rc[q] \in Nat /\ Count(entries, q) \in Nat
        BY <1>1, Roles DEF PhysInv, PagesOK
      <3>2. /\ rc'[q] = IF q = c THEN rc[q] - 1 ELSE rc[q]
            /\ StillUsed(entries', tables', q, leaked[q], leaked'[q])
            /\ Offers(free', bump', q) <=> Offers(free, bump, q) \/ (q = c /\ rc[c] = 1)
        BY <2>4
      <3>3. held # q /\ held' # q /\ cr3' = cr3
        BY <1>2, <1>3, PageFacts
      <3>4. strong'[q] = IF q = c THEN 0 ELSE strong[q]
        BY <1>4, <1>5, <1>9, PageFacts
      <3>5. PageOK(rc'[q], Count(entries, q), Owned(entries, q), InTable(tables, q), leaked[q], strong'[q] > 0,
                   cr3' = q, FALSE, FALSE, Offers(free', bump', q))
        <4>1. PageOK(rc[q], Count(entries, q), Owned(entries, q), InTable(tables, q), leaked[q], strong[q] > 0,
                     cr3 = q, FALSE, FALSE, Offers(free, bump, q))
          BY <3>1, <3>3 DEF PageAt, PageOK, One
        <4>2. CASE q = c
          BY <1>6, <3>1, <3>2, <3>3, <3>4, <4>1, <4>2 DEF PageOK, One
        <4>3. CASE q # c
          BY <3>2, <3>3, <3>4, <4>1, <4>3 DEF PageOK, One
        <4> QED BY <4>2, <4>3
      <3> QED BY <3>1, <3>2, <3>3, <3>5, PageStays
    <2>6. TypeOK'
      BY <1>1, <1>2, <1>3, <1>7, <2>4 DEF TypeOK
    <2> QED BY <1>3, <1>7, <2>4, <2>5, <2>6 DEF MemInv, PhysInv, PagesOK
  <1> QED BY <1>8, <1>9

\* Every step preserves the invariant.
LEMMA NextInv == MemInv /\ [Next]_vars => MemInv'
  <1> SUFFICES ASSUME MemInv, [Next]_vars PROVE MemInv'
    OBVIOUS
  <1>1. CASE UNCHANGED vars
    <2>1. CallInv'
      BY <1>1 DEF MemInv, CallInv, JobOK, ValidationHolds, TlbCoherent, Valid, Mapped, vars
    <2>2. TypeOK
      BY DEF MemInv
    <2> QED BY <1>1, <2>1, <2>2, QuietInv DEF vars, physVars, objectVars, TypeOK
  <1>2. CASE Halted
    BY <1>1, <1>2 DEF Halted
  <1> QED BY <1>1, <1>2, OtherInv, SetCtxInv, LoopGetsPage, LoopReleaseInv, LoopModifyInv, MapTableInv,
             MapTableFailsInv, MapEntryInv, CreateContextInv, CreateContextFailsInv,
             MoreReferencesInv, ReleaseHandleInv DEF Next

-----------------------------------------------------------------------------
(* The properties.                                                         *)

\* The invariant holds in every reachable state.
THEOREM InvariantHolds == Spec => []MemInv
  BY InitInv, NextInv, PTL DEF Spec

\* phys.rs: the count of a page is the number of Phys values for it, whichever
\* calls fail half way, until a program maps a page of the kernel itself.
THEOREM CountsAreExact == Spec => []RefCountExact
  <1>1. MemInv => RefCountExact
    <2> SUFFICES ASSUME MemInv, NEW p \in Page
                 PROVE  rc[p] = UsesIn(Pml4, p) + One(strong[p] > 0) + One(cr3 = p) + One(held = p) + leaked[p]
      BY DEF RefCountExact
    <2>1. TypeOK /\ PhysInv
      BY DEF MemInv
    <2>2. UsesIn(Pml4, p) = Count(entries, p) + One(InTable(tables, p))
      BY <2>1, SizesOfPage DEF PhysInv, UsesIn, Count, EntriesOf, IsEntry
    <2>3. rc[p] = Count(entries, p) + One(InTable(tables, p)) + leaked[p]
                    + One(strong[p] > 0) + One(cr3 = p) + One(held = p)
      BY <2>1 DEF PhysInv, PagesOK, PageAt, PageOK
    <2>4. leaked[p] \in Nat /\ Count(entries, p) \in Nat
      BY <2>1, CountFacts DEF TypeOK
    <2> QED BY <2>2, <2>3, <2>4 DEF One
  <1> QED BY <1>1, InvariantHolds, PTL

\* page.rs and phys.rs: every page has at most one role but for the entries that
\* map_physical_memory makes, which are for pages that are neither tables nor free,
\* until a program maps a page of the kernel itself.
THEOREM PagesStaySeparate == Spec => []PagesAreSeparate
  <1>1. MemInv => PagesAreSeparate
    <2> DEFINE tabled(p) == Cardinality({cn \in Pml4 \X Table : tables[cn[1]][cn[2]] = p})
               handed(p) == held = p /\ job.call = "alloc"
    <2> SUFFICES ASSUME MemInv, NEW p \in Page
                 PROVE  /\ Cardinality(EntriesBy("alloc", p)) + tabled(p) + One(IsPml4(p)) + One(handed(p))
                             + Offered(p) <= 1
                        /\ EntriesBy("map_physical", p) # {} => tabled(p) + One(IsPml4(p)) + Offered(p) = 0
      BY DEF PagesAreSeparate
    <2>1. TypeOK /\ PhysInv
      BY DEF MemInv
    <2>2. /\ tabled(p) = One(InTable(tables, p))
          /\ Offered(p) = One(Offers(free, bump, p))
          /\ Cardinality(EntriesBy("alloc", p)) = One(Owned(entries, p))
          /\ EntriesBy("map_physical", p) # {} => Count(entries, p) > 0
      BY <2>1, SizesOfPage DEF PhysInv
    <2>3. Owned(entries, p) => Count(entries, p) > 0
      BY CountFacts
    <2>4. PageAt(p)
      BY <2>1 DEF PhysInv, PagesOK
    <2> DEFINE m == IsPml4(p)
               t == InTable(tables, p)
               o == Offers(free, bump, p)
               w == Owned(entries, p)
               g == handed(p)
               e == Count(entries, p)
    <2>5. /\ o \/ t \/ m => e = 0 /\ ~g
          /\ o => ~t /\ ~m
          /\ t => ~m
          /\ g => ~w
      BY <2>4 DEF PageAt, PageOK, IsPml4
    <2>6. w => e > 0
      BY <2>3
    <2> HIDE DEF m, t, o, w, g, e
    <2>7. One(w) + One(t) + One(m) + One(g) + One(o) <= 1
      BY <2>5, <2>6 DEF One
    <2>8. e > 0 => One(t) + One(m) + One(o) = 0
      BY <2>5 DEF One
    <2> QED BY <2>2, <2>7, <2>8 DEF m, t, o, w, g, e
  <1> QED BY <1>1, InvariantHolds, PTL

\* syscall.rs: what was validated still holds when the loop of the call reaches the
\* page, so that the panics of alloc_page and modify_page are never reached.
THEOREM ValidationStaysTrue == Spec => []ValidationHolds
  <1>1. MemInv => ValidationHolds
    BY DEF MemInv, CallInv
  <1> QED BY <1>1, InvariantHolds, PTL

\* page.rs: user code never runs on a stale translation.
THEOREM TlbStaysCoherent == Spec => []TlbCoherent
  <1>1. MemInv => TlbCoherent
    BY DEF MemInv, CallInv
  <1> QED BY <1>1, InvariantHolds, PTL
=============================================================================
