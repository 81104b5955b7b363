------------------------- MODULE UserBuffersProofs -------------------------
(***************************************************************************)
(* Boot and UserBuffers for tables of any size, any memory map, any number *)
(* of tasks and all addresses and lengths: the kernel half is counted and  *)
(* shared, ranges are exact and borrowed buffers stay.                     *)
(***************************************************************************)
EXTENDS UserBuffers, Integers, FiniteSetTheorems, WellFoundedInduction, NaturalsInduction,
  SequenceTheorems, TLAPS

(***************************************************************************)
(* The inductive invariant.  Its parts take the fields of mem they speak   *)
(* of as parameters, because most steps change only some of them.          *)
(***************************************************************************)
Frames == 0 .. MaxPhys
UserSlots == Slots \ (KernelSlots \cup {Recursive})
EntryType == [phys: Nat, flags: SUBSET {"P", "W", "U"}]
Tabs == [Frames -> [Slots -> EntryType]]

MemType ==
  [tab: Tabs, rc: [Frames -> Int], counting: BOOLEAN, free: Seq(Nat), bump: Seq(Nat), cr3: Frames]

\* The regions are those of the memory map that were looked at: above the boundary,
\* disjoint, without VRAM.
IsRegion(mm, k, r) ==
  /\ mm[k].usable
  /\ r = [begin |-> ClippedBegin(mm[k]), end |-> mm[k].begin + mm[k].size]
  /\ HighBoundary <= r.end

RegionsOK ==
  /\ regions \in Seq([begin: Nat, end: Nat])
  /\ \A r \in DOMAIN regions : \E k \in DOMAIN memoryMap :
       /\ at.pc = "regions" => k <= at.i
       /\ IsRegion(memoryMap, k, regions[r])
  /\ \A r, q \in DOMAIN regions :
       r # q => regions[r].end <= regions[q].begin \/ regions[q].end <= regions[r].begin

\* What alloc can hand out, and that nothing is offered twice.
Listed(fr, p) == \E i \in DOMAIN fr : fr[i] = p
Fresh(bp, p) == \E r \in DOMAIN regions : bp[r] <= p /\ p < regions[r].end
Offered(fr, bp, p) == Listed(fr, p) \/ Fresh(bp, p)

AllocOK(fr, bp) ==
  /\ fr \in Seq(Nat) /\ bp \in Seq(Nat) /\ Len(bp) = Len(regions)
  /\ \A r \in DOMAIN regions : regions[r].begin <= bp[r]
  /\ \A i, j \in DOMAIN fr : fr[i] = fr[j] => i = j
  /\ \A p \in Nat : Listed(fr, p) => Known(p) /\ ~Fresh(bp, p)

\* The page tables of the contexts cs, and the places that refer to pages: the
\* entries of a PML4, those of the kernel half only in the first one, and all entries
\* of page tables.
IsTable(tb, cs, q) ==
  \E c \in cs, i \in Slots \ {Recursive} : tb[c][i] # NoEntry /\ tb[c][i].phys = q
IsCell(tb, cs, q, j) ==
  \/ q \in cs /\ j \in UserSlots
  \/ q = BootPml4 /\ j \in KernelSlots
  \/ IsTable(tb, cs, q) /\ j \in Slots
Used(tb, cs, p) == \E q \in Frames, j \in Slots : IsCell(tb, cs, q, j) /\ tb[q][j].phys = p

\* Pages that have one place at most.
Single(p) == Known(p) \/ p \in {BootPml4, KernelTable, IdentityTable}

ContextsOK(tb, cs) ==
  /\ cs \subseteq Frames /\ BootPml4 \in cs /\ \A c \in cs : c = BootPml4 \/ Known(c)
  /\ \A c \in cs : tb[c][Recursive] # NoEntry /\ tb[c][Recursive].phys = c
  /\ \A c \in cs, i \in KernelSlots : tb[c][i] = tb[BootPml4][i]

TablesOK(tb, cs) ==
  /\ \A c \in cs, i \in Slots \ {Recursive} : tb[c][i] = NoEntry \/ Single(tb[c][i].phys)
  /\ \A c \in cs : ~Used(tb, cs, c)

CellsOK(tb, cs) ==
  \A q, r \in Frames, j, k \in Slots :
    /\ IsCell(tb, cs, q, j) /\ IsCell(tb, cs, r, k)
    /\ tb[q][j].phys = tb[r][k].phys /\ Single(tb[q][j].phys)
    => q = r /\ j = k

One(b) == IF b THEN 1 ELSE 0

\* A page that is offered or in hand has no other role, and the counter of a page says
\* what it is used for; hs are the pages the running call has in hand.
PagesOK(s, cs, hs) ==
  \A p \in Frames : Known(p) =>
    /\ Offered(s.free, s.bump, p) => p \notin hs
    /\ Offered(s.free, s.bump, p) \/ p \in hs => p \notin cs /\ ~Used(s.tab, cs, p)
    /\ s.counting => s.rc[p] = One(Used(s.tab, cs, p)) + One(p \in cs) + One(p = s.cr3) + One(p \in hs)

PhysInv(s, cs, hs) ==
  /\ s \in MemType /\ s.cr3 \in cs
  /\ AllocOK(s.free, s.bump)
  /\ ContextsOK(s.tab, cs) /\ TablesOK(s.tab, cs) /\ CellsOK(s.tab, cs)
  /\ PagesOK(s, cs, hs)

\* The kernel half: what the first context translates an address to.
KernelEntry(tb, v) ==
  IF tb[BootPml4][Slot(v)] = NoEntry THEN NoEntry ELSE tb[tb[BootPml4][Slot(v)].phys][Index(v)]

KernelTop == WordPages - Fan

\* Behind the heap nothing is mapped, and the heap is mapped to pages of its own.
HeapOK(tb, top) ==
  /\ top \in Nat /\ top >= End
  /\ \A v \in top .. KernelTop - 1 : KernelEntry(tb, v) = NoEntry
  /\ \A v \in End .. top - 1 : v < KernelTop /\ Known(KernelEntry(tb, v).phys)

CountersMapped(tb) == \A p \in Frames : Known(p) => KernelEntry(tb, RcPage(p)) # NoEntry

Early == {"map_kernel", "phys_init", "regions"}
Booting == Early \cup {"counters", "vram", "main", "slots"}

\* How far the boot has got.
AtOK ==
  /\ at \in [pc: Booting \cup {"run", "panic"}, i: Nat, rax: EntryType]
  /\ memoryMap \in MemoryMaps
  /\ at.pc = "map_kernel" => at.i <= Len(Image) /\ at.rax.phys < HighBoundary
                               /\ at.rax.phys \notin {BootPml4, KernelTable, IdentityTable}
  /\ at.pc = "regions" => at.i <= Len(memoryMap)
  /\ at.pc \in {"map_kernel", "phys_init"} => regions = <<>>
  /\ at.pc = "vram" => at.i <= VramPages

PhaseOK ==
  /\ at.pc \in Early => \A q \in Frames, j \in Slots : mem.tab[q][j].phys < HighBoundary
  /\ at.pc \in Early => mem.tab[BootPml4][Slot(KERNEL_BASE)].phys = KernelTable
  /\ at.pc \in Booting => contexts = {BootPml4} /\ ptr = End /\ \A t \in Tasks : job[t] = NoJob
  /\ at.pc \in Booting \ {"slots"} => ~mem.counting
  /\ at.pc \in {"slots", "run"} => mem.counting
  /\ mem.counting \/ at.pc \in {"vram", "main"} => CountersMapped(mem.tab)
  /\ at.pc = "run" => \A i \in KernelSlots : mem.tab[BootPml4][i] # NoEntry

\* The tasks, and what they have borrowed.
TasksOK ==
  /\ ctx \in [Tasks -> contexts \cup {0}]
  /\ DOMAIN job = Tasks
  /\ \A t \in Tasks : /\ ctx[t] = 0 => job[t] = NoJob
                      /\ job[t].pages \subseteq 0 .. MAX_USER_PAGE - 1

Inv ==
  /\ AtOK /\ RegionsOK /\ PhysInv(mem, contexts, {}) /\ HeapOK(mem.tab, ptr) /\ PhaseOK
  /\ TasksOK /\ BorrowHolds

(***************************************************************************)
(* Numbers.                                                                *)
(***************************************************************************)
Half == Fan \div 2

\* A multiple of m plus a rest, divided again.
LEMMA DivMod ==
  ASSUME NEW a \in Nat, NEW m \in Nat \ {0}, NEW r \in Nat, r < m
  PROVE  (a * m + r) \div m = a /\ (a * m + r) % m = r
  OBVIOUS

\* Every number is a multiple and a rest.
LEMMA Divide ==
  ASSUME NEW i \in Nat, NEW m \in Nat \ {0}
  PROVE  /\ i \div m \in Nat /\ i % m \in 0 .. m - 1
         /\ i = (i \div m) * m + (i % m)
  OBVIOUS

\* Products of natural numbers are natural numbers.
LEMMA ProductIsNat ==
  ASSUME NEW a \in Nat, NEW b \in Nat
  PROVE  a * b \in Nat
  OBVIOUS

\* A larger factor makes a larger product.
LEMMA ProductOrder ==
  ASSUME NEW a \in Nat, NEW b \in Nat, NEW m \in Nat \ {0}
  PROVE  /\ a <= b <=> a * m <= b * m
         /\ a < b <=> a * m < b * m
         /\ a < b => a * m + m <= b * m
  OBVIOUS

\* Half of the entries of a PML4 translate the user half.
LEMMA Halves ==
  /\ Fan \in Nat \ {0} /\ Half \in Nat /\ Half >= 2 /\ Fan = 2 * Half
  /\ MAX_USER_PAGE = Half * Fan /\ MAX_USER_PAGE \in Nat
  <1>1. Fan \in Nat \ {0} /\ Half \in Nat /\ Half >= 2 /\ Fan = 2 * Half
    BY BootAssumption DEF Half
  <1>2. \A h \in Nat : ((2 * h) * (2 * h)) \div 2 = h * (2 * h)
    OBVIOUS
  <1>3. MAX_USER_PAGE = Half * Fan
    BY <1>1, <1>2 DEF MAX_USER_PAGE
  <1> QED BY <1>1, <1>3, ProductIsNat

\* The word has a number of tables that is a multiple of Fan; Rows of them come before
\* those that the last PML4 entries translate.
LEMMA Words ==
  \E rows \in Nat :
    /\ WordPages = (rows + Fan) * Fan
    /\ KERNEL_BASE = (rows + Half) * Fan
    /\ KernelTop = (rows + (Fan - 1)) * Fan
    /\ \A i \in Nat : i < Fan => (rows + i) % Fan = i
  <1>1. Fan \in Nat \ {0} /\ Half \in Nat /\ Half >= 2 /\ Fan = 2 * Half
    BY Halves
  <1>2. WordPages \in Nat \ {0} /\ WordPages % (Fan * Fan) = 0
    BY BootAssumption
  <1>3. Fan * Fan \in Nat \ {0}
    BY <1>1
  <1> DEFINE k == WordPages \div (Fan * Fan)
  <1>4. k \in Nat /\ WordPages = k * (Fan * Fan)
    <2>1. \A w \in Nat, m \in Nat \ {0} : w % m = 0 => w \div m \in Nat /\ w = (w \div m) * m
      BY Divide
    <2> QED BY <1>2, <1>3, <2>1
  <1>5. k # 0
    <2>1. \A m \in Nat : 0 * m = 0
      OBVIOUS
    <2> HIDE DEF k
    <2> QED BY <1>2, <1>3, <1>4, <2>1
  <1> HIDE DEF k
  <1> DEFINE rows == (k - 1) * Fan
  <1>6. rows \in Nat /\ k - 1 \in Nat
    BY <1>4, <1>5, <1>1, ProductIsNat
  <1>7. \A f, n \in Nat : n # 0 => n * (f * f) = ((n - 1) * f + f) * f
    OBVIOUS
  <1>8. WordPages = (rows + Fan) * Fan
    BY <1>1, <1>4, <1>5, <1>7
  <1>9. \A i \in Nat : i < Fan => (rows + i) % Fan = i
    BY <1>1, <1>6, DivMod
  <1> HIDE DEF rows
  <1>10. \A r, h, f \in Nat : f = 2 * h => (r + f) * f - h * f = (r + h) * f
    OBVIOUS
  <1>11. KERNEL_BASE = (rows + Half) * Fan
    BY <1>1, <1>6, <1>8, <1>10, Halves DEF KERNEL_BASE
  <1>12. \A r, f \in Nat : f # 0 => (r + f) * f - f = (r + (f - 1)) * f
    OBVIOUS
  <1>13. KernelTop = (rows + (Fan - 1)) * Fan
    BY <1>1, <1>6, <1>8, <1>12 DEF KernelTop
  <1> QED BY <1>6, <1>8, <1>9, <1>11, <1>13

\* The slots.
LEMMA SlotFacts ==
  /\ Recursive \in Slots /\ Recursive \notin KernelSlots /\ KernelSlots \subseteq Slots
  /\ UserSlots = 0 .. Half - 1 /\ KernelSlots = Half .. Fan - 2
  /\ UserSlots \cap KernelSlots = {} /\ 0 \in Slots /\ 0 \in UserSlots
  /\ Slots = UserSlots \cup KernelSlots \cup {Recursive}
  /\ Recursive \notin UserSlots /\ Half \in KernelSlots
  BY Halves DEF Slots, KernelSlots, Recursive, UserSlots, Half

\* Slot and index of an address.
LEMMA SlotIndexType ==
  ASSUME NEW v \in Nat
  PROVE  Slot(v) \in Slots /\ Index(v) \in Slots
  <1>1. v \div Fan \in Nat /\ v % Fan \in 0 .. Fan - 1
    BY Halves, Divide
  <1>2. (v \div Fan) % Fan \in 0 .. Fan - 1
    BY <1>1, Halves, Divide
  <1> QED BY <1>1, <1>2 DEF Slot, Index, Slots

\* A user address is translated by the lower half of a PML4.
LEMMA UserSlot ==
  ASSUME NEW v \in Nat, v < MAX_USER_PAGE
  PROVE  Slot(v) \in UserSlots
  <1> DEFINE q == v \div Fan
  <1>1. Fan \in Nat \ {0} /\ Half \in Nat /\ Fan = 2 * Half /\ v < Half * Fan
    BY Halves
  <1>2. q \in Nat /\ v % Fan \in 0 .. Fan - 1 /\ v = q * Fan + (v % Fan)
    BY <1>1, Divide
  <1> HIDE DEF q
  <1>3. q < Half
    <2>1. SUFFICES ASSUME Half <= q PROVE FALSE
      BY <1>1, <1>2
    <2>2. Half * Fan <= q * Fan
      BY <1>1, <1>2, <2>1, ProductOrder
    <2>3. Half * Fan \in Nat /\ q * Fan \in Nat
      BY <1>1, <1>2, ProductIsNat
    <2> QED BY <1>1, <1>2, <2>2, <2>3
  <1>4. q % Fan = q
    BY <1>1, <1>2, <1>3
  <1> QED BY <1>1, <1>2, <1>3, <1>4, SlotFacts DEF Slot, q

\* An address of the kernel half is rows of tables, the slot and the index.
LEMMA KernelAddress ==
  ASSUME NEW rows \in Nat, WordPages = (rows + Fan) * Fan, KERNEL_BASE = (rows + Half) * Fan,
         \A i \in Nat : i < Fan => (rows + i) % Fan = i,
         NEW v \in KERNEL_BASE .. WordPages - 1
  PROVE  /\ v \in Nat /\ v = (rows + Slot(v)) * Fan + Index(v)
         /\ Slot(v) \in Half .. Fan - 1 /\ Index(v) \in 0 .. Fan - 1
  <1>1. Fan \in Nat \ {0} /\ Half \in Nat /\ Fan = 2 * Half
    BY Halves
  <1>2. (rows + Half) * Fan \in Nat /\ (rows + Fan) * Fan \in Nat
    BY <1>1, ProductIsNat
  <1>3. v \in Nat /\ (rows + Half) * Fan <= v /\ v < (rows + Fan) * Fan
    BY <1>2
  <1> DEFINE q == v \div Fan
             r == v % Fan
  <1>4. q \in Nat /\ r \in 0 .. Fan - 1 /\ v = q * Fan + r
    BY <1>1, <1>3, Divide
  <1> HIDE DEF q, r
  <1>5. q * Fan \in Nat
    BY <1>1, <1>4, ProductIsNat
  <1>6. rows + Half <= q
    <2>1. SUFFICES ASSUME q < rows + Half PROVE FALSE
      BY <1>1, <1>4
    <2>2. q * Fan + Fan <= (rows + Half) * Fan
      BY <1>1, <1>4, <2>1, ProductOrder
    <2> QED BY <1>1, <1>2, <1>3, <1>4, <1>5, <2>2
  <1>7. q < rows + Fan
    <2>1. SUFFICES ASSUME rows + Fan <= q PROVE FALSE
      BY <1>1, <1>4
    <2>2. (rows + Fan) * Fan <= q * Fan
      BY <1>1, <1>4, <2>1, ProductOrder
    <2> QED BY <1>1, <1>2, <1>3, <1>4, <1>5, <2>2
  <1> DEFINE i == q - rows
  <1>8. i \in Nat /\ Half <= i /\ i < Fan /\ q = rows + i
    BY <1>1, <1>4, <1>6, <1>7
  <1> HIDE DEF i
  <1>9. q % Fan = i
    BY <1>8
  <1>10. Slot(v) = i /\ Index(v) = r
    BY <1>9 DEF Slot, Index, q, r
  <1> QED BY <1>1, <1>3, <1>4, <1>8, <1>10

\* No two addresses of the kernel half have the same slot and index, and below the
\* recursive entry the slot is one of the kernel's.
LEMMA KernelSlot ==
  /\ KERNEL_BASE \in Nat /\ KernelTop \in Nat /\ KERNEL_BASE < KernelTop /\ KernelTop < WordPages
  /\ MAX_USER_PAGE < KernelTop
  /\ \A v \in KERNEL_BASE .. WordPages - 1 : v \in Nat /\ (v < KernelTop => Slot(v) \in KernelSlots)
  /\ \A v, w \in KERNEL_BASE .. WordPages - 1 :
       Slot(v) = Slot(w) /\ Index(v) = Index(w) => v = w
  /\ Slot(WordPages - 1) = Recursive /\ Index(WordPages - 1) = Recursive
  /\ WordPages - 1 \in Nat
  <1>1. PICK rows \in Nat :
          /\ WordPages = (rows + Fan) * Fan
          /\ KERNEL_BASE = (rows + Half) * Fan
          /\ KernelTop = (rows + (Fan - 1)) * Fan
          /\ \A i \in Nat : i < Fan => (rows + i) % Fan = i
    BY Words
  <1>2. Fan \in Nat \ {0} /\ Half \in Nat /\ Half >= 2 /\ Fan = 2 * Half
    BY Halves
  <1>3. KERNEL_BASE \in Nat /\ KernelTop \in Nat /\ WordPages \in Nat
    BY <1>1, <1>2, ProductIsNat
  <1>4. KERNEL_BASE < KernelTop /\ KernelTop < WordPages
    BY <1>1, <1>2, ProductOrder
  <1>5. MAX_USER_PAGE < KernelTop
    BY <1>1, <1>2, ProductOrder, Halves
  <1>6. \A v \in KERNEL_BASE .. WordPages - 1 :
          /\ v \in Nat /\ v = (rows + Slot(v)) * Fan + Index(v)
          /\ Slot(v) \in Half .. Fan - 1 /\ Index(v) \in 0 .. Fan - 1
    BY <1>1, KernelAddress
  <1>7. ASSUME NEW v \in KERNEL_BASE .. WordPages - 1, v < KernelTop
        PROVE  Slot(v) \in KernelSlots
    <2>1. Slot(v) # Fan - 1
      <3>1. SUFFICES ASSUME Slot(v) = Fan - 1 PROVE FALSE
        OBVIOUS
      <3>2. v = KernelTop + Index(v) /\ Index(v) \in Nat /\ v \in Nat
        BY <1>1, <1>6, <3>1
      <3> QED BY <1>3, <1>7, <3>2
    <2> QED BY <1>2, <1>6, <2>1, SlotFacts, SMTT(30)
  <1>8. ASSUME NEW v \in KERNEL_BASE .. WordPages - 1, NEW w \in KERNEL_BASE .. WordPages - 1,
               Slot(v) = Slot(w), Index(v) = Index(w)
        PROVE  v = w
    BY <1>6, <1>8
  <1>9. Slot(WordPages - 1) = Recursive /\ Index(WordPages - 1) = Recursive
    <2> DEFINE q == rows + (Fan - 1)
               r == Fan - 1
    <2>1. q \in Nat /\ r \in Nat /\ r < Fan
      BY <1>2
    <2>2. WordPages - 1 = q * Fan + r
      <3>1. \A x, f \in Nat : f # 0 => (x + f) * f - 1 = (x + (f - 1)) * f + (f - 1)
        OBVIOUS
      <3> QED BY <1>1, <1>2, <3>1
    <2>3. q % Fan = Fan - 1
      BY <1>1, <1>2
    <2> HIDE DEF q, r
    <2>4. (q * Fan + r) \div Fan = q /\ (q * Fan + r) % Fan = r
      BY <1>2, <2>1, DivMod
    <2>5. (WordPages - 1) \div Fan = q /\ (WordPages - 1) % Fan = r
      BY <2>2, <2>4, Zenon
    <2> QED BY <2>3, <2>5 DEF Slot, Index, Recursive, r
  <1>10. WordPages - 1 \in Nat
    BY <1>3, <1>4
  <1>11. \A v \in KERNEL_BASE .. WordPages - 1 : v \in Nat /\ (v < KernelTop => Slot(v) \in KernelSlots)
    BY <1>6, <1>7
  <1>12. \A v, w \in KERNEL_BASE .. WordPages - 1 :
           Slot(v) = Slot(w) /\ Index(v) = Index(w) => v = w
    BY <1>8
  <1> QED BY <1>3, <1>4, <1>5, <1>9, <1>10, <1>11, <1>12

\* Where things are in memory and in the kernel half.
LEMMA Layout ==
  /\ MaxPhys \in Nat /\ HighBoundary \in Nat /\ HighBoundary >= 4 /\ HighBoundary <= MaxPhys
  /\ BootPml4 = 1 /\ KernelTable = 2 /\ IdentityTable = 3 /\ ImagePhys = 4
  /\ BootPml4 \in Frames /\ KernelTable \in Frames /\ IdentityTable \in Frames /\ 0 \in Frames
  /\ Vram \in Nat /\ PhysRc \in Nat /\ End \in Nat
  /\ KERNEL_BASE <= Vram /\ Vram + VramPages <= PhysRc /\ PhysRc < End
  /\ KERNEL_BASE + Len(Image) <= Vram
  /\ End + MaxPhys < KernelTop + HighBoundary /\ End < KernelTop
  <1>1. Len(Image) \in Nat /\ VramPages \in Nat /\ RcPerPage \in Nat \ {0}
    BY BootAssumption
  <1>2. MaxPhys \in Nat /\ HighBoundary <= MaxPhys /\ End + MaxPhys < WordPages - Fan + HighBoundary
    BY MapsAssumption
  <1>3. HighBoundary = 4 + Len(Image)
    BY DEF HighBoundary, ImagePhys
  <1>4. MaxPhys \div RcPerPage \in Nat
    BY <1>1, <1>2, Divide
  <1>5. KERNEL_BASE \in Nat /\ KernelTop \in Nat
    BY KernelSlot
  <1>6. Vram \in Nat /\ PhysRc \in Nat /\ End \in Nat /\ KERNEL_BASE <= Vram
          /\ Vram + VramPages <= PhysRc /\ PhysRc < End /\ KERNEL_BASE + Len(Image) <= Vram
    BY <1>1, <1>4, <1>5 DEF Vram, PhysRc, End
  <1>7. End + MaxPhys < KernelTop + HighBoundary
    BY <1>2 DEF KernelTop
  <1> QED BY <1>1, <1>2, <1>3, <1>5, <1>6, <1>7 DEF BootPml4, KernelTable, IdentityTable, ImagePhys, Frames

\* The counters are below the heap.
LEMMA RcPageIs ==
  ASSUME NEW p \in Frames
  PROVE  RcPage(p) \in Nat /\ KERNEL_BASE <= RcPage(p) /\ RcPage(p) < End /\ RcPage(p) < KernelTop
  <1>1. RcPerPage \in Nat \ {0} /\ p \in Nat /\ p <= MaxPhys /\ MaxPhys \in Nat
    BY BootAssumption, Layout DEF Frames
  <1> DEFINE x == p \div RcPerPage
             y == MaxPhys \div RcPerPage
  <1>2. /\ x \in Nat /\ p % RcPerPage \in 0 .. RcPerPage - 1 /\ p = x * RcPerPage + (p % RcPerPage)
        /\ y \in Nat /\ MaxPhys % RcPerPage \in 0 .. RcPerPage - 1
        /\ MaxPhys = y * RcPerPage + (MaxPhys % RcPerPage)
    BY <1>1, Divide
  <1> HIDE DEF x, y
  <1>3. x <= y
    <2>1. SUFFICES ASSUME y < x PROVE FALSE
      BY <1>2
    <2>2. y * RcPerPage + RcPerPage <= x * RcPerPage
      BY <1>1, <1>2, <2>1, ProductOrder
    <2>3. x * RcPerPage \in Nat /\ y * RcPerPage \in Nat
      BY <1>1, <1>2, ProductIsNat
    <2> QED BY <1>1, <1>2, <2>2, <2>3
  <1>4. RcPage(p) = PhysRc + x /\ End = PhysRc + y + 1
    BY DEF RcPage, End, x, y
  <1>5. PhysRc \in Nat /\ KERNEL_BASE \in Nat /\ KERNEL_BASE <= PhysRc /\ End < KernelTop /\ KernelTop \in Nat
    BY BootAssumption, Layout, KernelSlot
  <1> QED BY <1>2, <1>3, <1>4, <1>5

\* Induction over the natural numbers, for a set.
LEMMA SetInduction ==
  ASSUME NEW K, 0 \in K, \A k \in Nat : k \in K => k + 1 \in K
  PROVE  Nat \subseteq K
  <1> DEFINE R == OpToRel(<, Nat)
  <1>1. IsWellFoundedOn(R, Nat)
    BY NatLessThanWellFounded
  <1>2. \A x, y \in Nat : x < y => <<x, y>> \in R
    BY DEF OpToRel
  <1> HIDE DEF R
  <1>3. SUFFICES ASSUME Nat \ K # {} PROVE FALSE
    OBVIOUS
  <1>4. PICK x \in Nat \ K : \A y \in Nat \ K : ~ (<<y, x>> \in R)
    BY <1>1, <1>3, WFMin
  <1>5. x # 0 /\ x - 1 \in Nat /\ x - 1 < x /\ (x - 1) + 1 = x
    BY <1>4
  <1> QED BY <1>2, <1>4, <1>5

(***************************************************************************)
(* Ranges.  The numbers of a program are bytes, the range has pages.       *)
(***************************************************************************)

\* The limits, in bytes.
LEMMA Limits ==
  /\ PAGE_SIZE \in Nat \ {0} /\ WordPages \in Nat \ {0} /\ MAX_USER_PAGE \in Nat
  /\ MAX_USER_PAGE < WordPages
  /\ Word = WordPages * PAGE_SIZE /\ MAX_USER_ADDR = MAX_USER_PAGE * PAGE_SIZE
  /\ Word \in Nat \ {0} /\ MAX_USER_ADDR \in Nat /\ MAX_USER_ADDR < Word
  <1>1. PAGE_SIZE \in Nat \ {0} /\ WordPages \in Nat \ {0} /\ MAX_USER_PAGE \in Nat
    BY BuffersAssumption, BootAssumption, Halves
  <1>2. MAX_USER_PAGE < WordPages
    BY <1>1, KernelSlot
  <1>3. MAX_USER_PAGE * PAGE_SIZE < WordPages * PAGE_SIZE
    BY <1>1, <1>2, ProductOrder
  <1>4. MAX_USER_PAGE * PAGE_SIZE \in Nat /\ WordPages * PAGE_SIZE \in Nat
    BY <1>1, ProductIsNat
  <1> QED BY <1>1, <1>2, <1>3, <1>4 DEF Word, MAX_USER_ADDR

\* PageRange for a base of m pages: the limits apply to numbers of pages.
LEMMA AlignedRange ==
  ASSUME NEW m \in Nat, NEW n \in Nat, NEW b
  PROVE  LET r == PageRange(m * PAGE_SIZE, n, b)
         IN  /\ m + n <= MAX_USER_PAGE => r.err = ""
             /\ r.err = "" => /\ r.base = m /\ r.count = n /\ m <= MAX_USER_PAGE
                              /\ m + n <= MAX_USER_PAGE \/ WordPages <= m + n
             /\ r.err = "panic" => b = "debug" /\ WordPages <= m + n
  <1> DEFINE a == m * PAGE_SIZE
             l == n * PAGE_SIZE
             r == PageRange(a, n, b)
  <1>1. PAGE_SIZE \in Nat \ {0} /\ a \in Nat /\ l \in Nat
    BY Limits, ProductIsNat
  <1>2. a + l = (m + n) * PAGE_SIZE
    BY <1>1
  <1>3. /\ l >= Word <=> n >= WordPages
        /\ a > MAX_USER_ADDR <=> m > MAX_USER_PAGE
        /\ a + l >= Word <=> m + n >= WordPages
        /\ a + l > MAX_USER_ADDR <=> m + n > MAX_USER_PAGE
    <2>1. m + n \in Nat /\ WordPages \in Nat /\ MAX_USER_PAGE \in Nat
      BY Limits
    <2>2. WordPages <= n <=> WordPages * PAGE_SIZE <= n * PAGE_SIZE
      BY <1>1, <2>1, ProductOrder
    <2>3. MAX_USER_PAGE < m <=> MAX_USER_PAGE * PAGE_SIZE < m * PAGE_SIZE
      BY <1>1, <2>1, ProductOrder
    <2>4. WordPages <= m + n <=> WordPages * PAGE_SIZE <= (m + n) * PAGE_SIZE
      BY <1>1, <2>1, ProductOrder
    <2>5. MAX_USER_PAGE < m + n <=> MAX_USER_PAGE * PAGE_SIZE < (m + n) * PAGE_SIZE
      BY <1>1, <2>1, ProductOrder
    <2>6. Word = WordPages * PAGE_SIZE /\ MAX_USER_ADDR = MAX_USER_PAGE * PAGE_SIZE
            /\ Word \in Nat /\ MAX_USER_ADDR \in Nat
      BY Limits
    <2>7. (m + n) * PAGE_SIZE \in Nat
      BY <1>1, <2>1, ProductIsNat
    <2> HIDE DEF a, l
    <2>8. a = m * PAGE_SIZE /\ l = n * PAGE_SIZE
      BY DEF a, l
    <2> QED BY <1>1, <1>2, <2>1, <2>2, <2>3, <2>4, <2>5, <2>6, <2>7, <2>8
  <1>4. a % PAGE_SIZE = 0 /\ a \div PAGE_SIZE = m
    <2>1. (m * PAGE_SIZE + 0) \div PAGE_SIZE = m /\ (m * PAGE_SIZE + 0) % PAGE_SIZE = 0
      BY <1>1, DivMod
    <2> QED BY <1>1, <2>1
  <1>5. a + l < Word => (a + l) % Word = a + l
    BY <1>1, Limits
  <1>6. n * PAGE_SIZE = l
    OBVIOUS
  <1> HIDE DEF a, l
  <1>7. r = IF l >= Word THEN Err("MemoryExhausted")
            ELSE IF a % PAGE_SIZE # 0 \/ a > MAX_USER_ADDR THEN Err("BadPointer")
            ELSE IF a + l >= Word /\ b = "debug" THEN Err("panic")
            ELSE IF (a + l) % Word > MAX_USER_ADDR THEN Err("BadPointer")
            ELSE [err |-> "", base |-> a \div PAGE_SIZE, count |-> n]
    BY <1>6 DEF PageRange
  <1> HIDE DEF r
  <1>8. /\ Err("MemoryExhausted").err = "MemoryExhausted" /\ Err("BadPointer").err = "BadPointer"
        /\ Err("panic").err = "panic"
    BY DEF Err
  <1>9. m + n <= MAX_USER_PAGE => r.err = ""
    <2>1. SUFFICES ASSUME m + n <= MAX_USER_PAGE PROVE r.err = ""
      OBVIOUS
    <2>2. n < WordPages /\ m <= MAX_USER_PAGE /\ m + n < WordPages
      BY <2>1, Limits
    <2>3. ~(l >= Word) /\ ~(a > MAX_USER_ADDR) /\ ~(a + l >= Word) /\ ~(a + l > MAX_USER_ADDR)
      BY <1>3, <2>1, <2>2, Limits
    <2>4. (a + l) % Word = a + l
      BY <1>1, <1>5, <2>3, Limits
    <2> QED BY <1>4, <1>7, <2>3, <2>4
  <1>10. r.err = "" => /\ r.base = m /\ r.count = n /\ m <= MAX_USER_PAGE
                       /\ m + n <= MAX_USER_PAGE \/ WordPages <= m + n
    <2>1. SUFFICES ASSUME r.err = ""
                   PROVE  /\ r.base = m /\ r.count = n /\ m <= MAX_USER_PAGE
                          /\ m + n <= MAX_USER_PAGE \/ WordPages <= m + n
      OBVIOUS
    <2>2. ~(l >= Word) /\ ~(a > MAX_USER_ADDR) /\ ~((a + l) % Word > MAX_USER_ADDR)
            /\ r = [err |-> "", base |-> a \div PAGE_SIZE, count |-> n]
      BY <1>7, <1>8, <2>1
    <2>3. r.base = m /\ r.count = n
      BY <1>4, <2>2
    <2>4. m <= MAX_USER_PAGE
      <3>1. ~(m > MAX_USER_PAGE) /\ MAX_USER_PAGE \in Nat
        BY <1>3, <2>2, Limits, Zenon
      <3> QED BY <3>1
    <2>5. CASE a + l >= Word
      BY <1>3, <2>3, <2>4, <2>5, Limits
    <2>6. CASE ~(a + l >= Word)
      <3>1. a + l \in Nat /\ Word \in Nat /\ MAX_USER_PAGE \in Nat
        BY <1>1, Limits
      <3>2. a + l < Word
        BY <2>6, <3>1
      <3>3. ~(m + n > MAX_USER_PAGE)
        BY <1>3, <1>5, <2>2, <3>2, Zenon
      <3> QED BY <2>3, <2>4, <3>1, <3>3
    <2> QED BY <2>5, <2>6
  <1>11. r.err = "panic" => b = "debug" /\ WordPages <= m + n
    BY <1>3, <1>7, <1>8, Limits
  <1>12. PageRange(m * PAGE_SIZE, n, b) = r
    BY DEF r, a
  <1> QED BY <1>9, <1>10, <1>11, <1>12

\* A range with an error has none of the others.
LEMMA Unaligned ==
  ASSUME NEW a \in Nat, NEW n \in Nat, NEW b
  PROVE  /\ PageRange(a, n, b).err = "" => a % PAGE_SIZE = 0
         /\ PageRange(a, n, b).err = "panic" => a % PAGE_SIZE = 0
  BY DEF PageRange, Err

\* The pages of a range of m .. m + n - 1, and those of one that wraps around.
LEMMA RangePages ==
  ASSUME NEW m \in Nat, NEW n \in Nat, NEW r, r.base = m, r.count = n, m <= MAX_USER_PAGE
  PROVE  /\ m + n <= MAX_USER_PAGE =>
              /\ pages(r) = {p \in 0 .. WordPages - 1 : m <= p /\ p < m + n}
              /\ pages(r) \subseteq 0 .. MAX_USER_PAGE - 1
         /\ WordPages <= m + n => WordPages - 1 \in pages(r) /\ KernelTop - 1 \in pages(r)
  <1> DEFINE W == WordPages
  <1>1. W \in Nat \ {0} /\ MAX_USER_PAGE \in Nat /\ MAX_USER_PAGE < W
    BY Limits
  <1>2. KernelTop \in Nat /\ MAX_USER_PAGE < KernelTop /\ KernelTop < W
    BY KernelSlot
  <1> HIDE DEF W
  <1>3. pages(r) = {(m + i) % W : i \in 0 .. n - 1}
    BY DEF pages, W
  <1>4. \A x \in Nat : x < W => x % W = x
    BY <1>1
  <1>5. ASSUME NEW x \in Nat, x < W, m <= x, x < m + n PROVE x \in pages(r)
    <2>1. x - m \in 0 .. n - 1 /\ (m + (x - m)) % W = x
      BY <1>4, <1>5
    <2> QED BY <1>3, <2>1
  <1>6. ASSUME m + n <= MAX_USER_PAGE
        PROVE  /\ pages(r) = {p \in 0 .. W - 1 : m <= p /\ p < m + n}
               /\ pages(r) \subseteq 0 .. MAX_USER_PAGE - 1
    <2>1. ASSUME NEW x \in pages(r)
          PROVE  x \in 0 .. W - 1 /\ m <= x /\ x < m + n /\ x \in 0 .. MAX_USER_PAGE - 1
      <3>1. PICK i \in 0 .. n - 1 : x = (m + i) % W
        BY <1>3
      <3>2. m + i \in Nat /\ m + i < W
        BY <1>1, <1>6
      <3>3. x = m + i
        BY <1>4, <3>1, <3>2
      <3> QED BY <1>1, <1>6, <3>2, <3>3
    <2>2. \A x \in 0 .. W - 1 : m <= x /\ x < m + n => x \in pages(r)
      BY <1>1, <1>5
    <2> QED BY <2>1, <2>2
  <1>7. ASSUME W <= m + n PROVE W - 1 \in pages(r) /\ KernelTop - 1 \in pages(r)
    <2>1. W - 1 \in Nat /\ W - 1 < W /\ m <= W - 1 /\ W - 1 < m + n
      BY <1>1, <1>2, <1>7
    <2>2. KernelTop - 1 \in Nat /\ KernelTop - 1 < W /\ m <= KernelTop - 1 /\ KernelTop - 1 < m + n
      BY <1>1, <1>2, <1>7
    <2> QED BY <1>5, <2>1, <2>2
  <1> QED BY <1>6, <1>7 DEF W

\* containing rounds the address down and the end up, to whole pages.
LEMMA Containing ==
  ASSUME NEW a \in Nat, NEW n \in Nat, NEW b
  PROVE  \E m, k \in Nat :
           /\ m * PAGE_SIZE <= a /\ a < (m + 1) * PAGE_SIZE
           /\ a + n <= (m + k) * PAGE_SIZE
           /\ \A p \in Nat : m <= p => (p < m + k <=> p * PAGE_SIZE < a + n)
           /\ (m + k) * PAGE_SIZE < a + n + PAGE_SIZE
           /\ IF k * PAGE_SIZE >= Word THEN containing(a, n, b) = Err("MemoryExhausted")
              ELSE containing(a, n, b) = PageRange(m * PAGE_SIZE, k, b)
  <1> DEFINE S == PAGE_SIZE
             m == a \div S
             o == a % S
             x == n + o
             pad == IF x % S = 0 THEN 0 ELSE S - (x % S)
             k == (x + pad) \div S
  <1>1. S \in Nat \ {0}
    BY Limits
  <1>2. m \in Nat /\ o \in 0 .. S - 1 /\ a = m * S + o
    BY <1>1, Divide
  <1>3. x \in Nat
    BY <1>1, <1>2
  <1>4. k \in Nat /\ k * S = x + pad /\ pad \in 0 .. S - 1
    <2> DEFINE y == x \div S
               z == x % S
    <2>1. y \in Nat /\ z \in 0 .. S - 1 /\ x = y * S + z
      BY <1>1, <1>3, Divide
    <2>2. pad = IF z = 0 THEN 0 ELSE S - z
      OBVIOUS
    <2> HIDE DEF y, z, x, pad, S
    <2>3. y * S \in Nat
      BY <1>1, <2>1, ProductIsNat
    <2>4. CASE z = 0
      <3>1. x + pad = y * S + 0 /\ pad = 0
        BY <2>1, <2>2, <2>3, <2>4
      <3>2. (y * S + 0) \div S = y
        BY <1>1, <2>1, DivMod
      <3>3. k = y
        BY <3>1, <3>2
      <3> QED BY <1>1, <2>1, <2>3, <3>1, <3>3
    <2>5. CASE z # 0
      <3>1. x + pad = y * S + S /\ pad \in 0 .. S - 1
        BY <1>1, <2>1, <2>2, <2>3, <2>5
      <3>2. y * S + S = (y + 1) * S + 0
        BY <1>1, <2>1
      <3>3. ((y + 1) * S + 0) \div S = y + 1
        BY <1>1, <2>1, DivMod
      <3>4. k = y + 1
        BY <3>1, <3>2, <3>3
      <3>5. (y + 1) * S \in Nat
        BY <1>1, <2>1, ProductIsNat
      <3> QED BY <2>1, <3>1, <3>2, <3>4, <3>5
    <2> QED BY <2>4, <2>5
  <1>5. IF k * S >= Word THEN containing(a, n, b) = Err("MemoryExhausted")
        ELSE containing(a, n, b) = PageRange(m * S, k, b)
    <2>1. a - o = m * S
      <3>1. m * S \in Nat
        BY <1>1, <1>2, ProductIsNat
      <3> HIDE DEF m, o, S
      <3> QED BY <1>2, <3>1
    <2>2. containing(a, n, b) = IF x + pad >= Word THEN Err("MemoryExhausted")
                                ELSE PageRange(a - o, k, b)
      BY DEF containing
    <2> HIDE DEF m, o, S, x, pad, k
    <2> QED BY <1>4, <2>1, <2>2
  <1>6. pad < S /\ x = n + o /\ (pad = 0 \/ x # 0)
    <2>1. x = 0 => x % S = 0
      BY <1>1
    <2> QED BY <1>1, <1>3, <1>4, <2>1
  <1> HIDE DEF m, o, S, x, pad, k
  <1>7. m * S \in Nat /\ k * S \in Nat /\ (m + k) * S = m * S + k * S /\ (m + 1) * S = m * S + S
    BY <1>1, <1>2, <1>4, ProductIsNat
  <1>8. m * S <= a /\ a < (m + 1) * S /\ a + n <= (m + k) * S /\ (m + k) * S < a + n + S
    BY <1>1, <1>2, <1>3, <1>4, <1>6, <1>7
  <1>9. ASSUME NEW p \in Nat, m <= p PROVE p < m + k <=> p * S < a + n
    <2>1. PICK d \in Nat : p = m + d
      <3>1. p - m \in Nat /\ p = m + (p - m)
        BY <1>2, <1>9
      <3> QED BY <3>1
    <2>2. p * S = m * S + d * S /\ d * S \in Nat
      BY <1>1, <1>2, <2>1, ProductIsNat
    <2>3. p * S < a + n <=> d * S < x
      BY <1>2, <1>3, <1>6, <1>7, <2>2
    <2>4. CASE d < k
      <3>1. d * S + S <= k * S
        BY <1>1, <1>4, <2>4, ProductOrder
      <3>2. d * S < x
        BY <1>1, <1>3, <1>4, <1>6, <2>2, <3>1
      <3> QED BY <1>2, <1>4, <2>1, <2>3, <2>4, <3>2
    <2>5. CASE k <= d
      <3>1. k * S <= d * S
        BY <1>1, <1>4, <2>5, ProductOrder
      <3>2. ~(d * S < x)
        BY <1>1, <1>3, <1>4, <1>6, <1>7, <2>2, <3>1
      <3> QED BY <1>2, <1>4, <2>1, <2>3, <2>5, <3>2
    <2> QED BY <1>4, <2>4, <2>5
  <1> QED BY <1>2, <1>4, <1>5, <1>8, <1>9 DEF S

\* What is mapped at the two ends of the kernel half makes every range that has
\* wrapped around fail its validation.
NotWrapped(s) == is_mapped(s, WordPages - 1) /\ ~is_mapped(s, KernelTop - 1)

Validated(s, r) == validate_map(s, r, {}) \/ validate_available(s, r)

\* What RangesExact says of a range, and of a buffer.
PagesExact(s, a, n, b, r) ==
  /\ r.err = "" /\ Validated(s, r) =>
       /\ a % PAGE_SIZE = 0 /\ a + n * PAGE_SIZE <= MAX_USER_ADDR
       /\ pages(r) = {p \in 0 .. WordPages - 1 : p * PAGE_SIZE >= a /\ p * PAGE_SIZE < a + n * PAGE_SIZE}
  /\ a % PAGE_SIZE = 0 /\ a + n * PAGE_SIZE <= MAX_USER_ADDR => r.err = ""
  /\ r.err = "panic" => b = "debug" /\ a + (n + 1) * PAGE_SIZE >= Word
BufferExact(s, a, n, b, c) ==
  /\ c.err = "" /\ Validated(s, c) =>
       /\ pages(c) = {p \in 0 .. WordPages - 1 : p * PAGE_SIZE < a + n /\ a < (p + 1) * PAGE_SIZE}
       /\ a + n <= MAX_USER_ADDR
  /\ a + n <= MAX_USER_ADDR => c.err = ""
  /\ c.err = "panic" => b = "debug" /\ a + (n + 1) * PAGE_SIZE >= Word

\* PageRange: exactly the pages asked for, or none.
LEMMA RangeExact ==
  ASSUME NEW s, NotWrapped(s), NEW a \in Nat, NEW n \in Nat, NEW b
  PROVE  LET r == PageRange(a, n, b)
         IN  /\ PagesExact(s, a, n, b, r)
             /\ r.err = "" => r.base \in Nat /\ r.count \in Nat
             /\ r.err = "" /\ Validated(s, r) => r.base + r.count <= MAX_USER_PAGE
  <1> DEFINE S == PAGE_SIZE
             r == PageRange(a, n, b)
             m == a \div S
  <1>1. S \in Nat \ {0} /\ MAX_USER_PAGE \in Nat /\ WordPages \in Nat
    BY Limits
  <1>2. m \in Nat /\ a % S \in 0 .. S - 1 /\ a = m * S + (a % S)
    BY <1>1, Divide
  <1>3. m * S \in Nat /\ n * S \in Nat /\ (m + n) * S = m * S + n * S /\ (n + 1) * S = n * S + S
    BY <1>1, <1>2, ProductIsNat
  <1> HIDE DEF S, m, r
  <1>4. ASSUME a % S = 0
        PROVE  /\ a = m * S
               /\ m + n <= MAX_USER_PAGE => r.err = ""
               /\ r.err = "" => /\ r.base = m /\ r.count = n /\ m <= MAX_USER_PAGE
                                /\ m + n <= MAX_USER_PAGE \/ WordPages <= m + n
               /\ r.err = "panic" => b = "debug" /\ WordPages <= m + n
    <2>1. a = m * S
      BY <1>2, <1>3, <1>4
    <2>2. r = PageRange(m * PAGE_SIZE, n, b)
      BY <2>1 DEF r, S
    <2>3. LET q == PageRange(m * PAGE_SIZE, n, b)
          IN  /\ m + n <= MAX_USER_PAGE => q.err = ""
              /\ q.err = "" => /\ q.base = m /\ q.count = n /\ m <= MAX_USER_PAGE
                               /\ m + n <= MAX_USER_PAGE \/ WordPages <= m + n
              /\ q.err = "panic" => b = "debug" /\ WordPages <= m + n
      BY <1>2, AlignedRange
    <2> QED BY <2>1, <2>2, <2>3
  <1>5. /\ m + n <= MAX_USER_PAGE <=> (m + n) * S <= MAX_USER_ADDR
        /\ WordPages <= m + n <=> Word <= (m + n) * S
    <2>1. m + n \in Nat
      BY <1>2
    <2>2. /\ m + n <= MAX_USER_PAGE <=> (m + n) * S <= MAX_USER_PAGE * S
          /\ WordPages <= m + n <=> WordPages * S <= (m + n) * S
      BY <1>1, <2>1, ProductOrder
    <2> QED BY <2>2, Limits DEF S
  <1>6. r.err = "" \/ r.err = "panic" => a % S = 0
    BY Unaligned DEF r, S
  <1>7. ASSUME r.err = "", Validated(s, r)
        PROVE  /\ m + n <= MAX_USER_PAGE /\ r.base = m /\ r.count = n /\ m <= MAX_USER_PAGE
    <2>1. a % S = 0 /\ r.base = m /\ r.count = n /\ m <= MAX_USER_PAGE
            /\ (m + n <= MAX_USER_PAGE \/ WordPages <= m + n)
      BY <1>4, <1>6, <1>7
    <2>2. ASSUME WordPages <= m + n PROVE FALSE
      <3>1. WordPages - 1 \in pages(r) /\ KernelTop - 1 \in pages(r)
        BY <1>2, <2>1, <2>2, RangePages
      <3> QED BY <1>7, <3>1 DEF Validated, validate_map, validate_available, NotWrapped
    <2> QED BY <2>1, <2>2
  <1>8. ASSUME r.err = "", Validated(s, r)
        PROVE  /\ a % S = 0 /\ a + n * S <= MAX_USER_ADDR
               /\ pages(r) = {p \in 0 .. WordPages - 1 : p * S >= a /\ p * S < a + n * S}
               /\ r.base + r.count <= MAX_USER_PAGE
    <2>1. m + n <= MAX_USER_PAGE /\ r.base = m /\ r.count = n /\ a % S = 0 /\ a = m * S
            /\ m <= MAX_USER_PAGE
      BY <1>4, <1>6, <1>7, <1>8
    <2>2. pages(r) = {p \in 0 .. WordPages - 1 : m <= p /\ p < m + n}
      BY <1>2, <2>1, RangePages
    <2>3. ASSUME NEW p \in 0 .. WordPages - 1
          PROVE  (m <= p /\ p < m + n) <=> (p * S >= a /\ p * S < a + n * S)
      <3>1. p \in Nat
        BY <1>1
      <3>2. m <= p <=> m * S <= p * S
        BY <1>1, <1>2, <3>1, ProductOrder
      <3>3. p < m + n <=> p * S < (m + n) * S
        BY <1>1, <1>2, <3>1, ProductOrder
      <3>4. p * S \in Nat
        BY <1>1, <3>1, ProductIsNat
      <3> QED BY <1>3, <2>1, <3>2, <3>3, <3>4
    <2>4. a + n * S <= MAX_USER_ADDR
      BY <1>3, <1>5, <2>1
    <2> QED BY <2>1, <2>2, <2>3, <2>4
  <1>9. ASSUME a % S = 0, a + n * S <= MAX_USER_ADDR PROVE r.err = ""
    BY <1>3, <1>4, <1>5, <1>9
  <1>10. ASSUME r.err = "panic" PROVE b = "debug" /\ a + (n + 1) * S >= Word
    <2>1. b = "debug" /\ a = m * S /\ Word <= (m + n) * S
      BY <1>4, <1>5, <1>6, <1>10
    <2> QED BY <1>1, <1>3, <2>1, Limits
  <1>11. r.err = "" => r.base \in Nat /\ r.count \in Nat
    BY <1>2, <1>4, <1>6
  <1>12. PagesExact(s, a, n, b, r)
    BY <1>8, <1>9, <1>10 DEF PagesExact, S
  <1> QED BY <1>8, <1>11, <1>12 DEF r

\* containing: the pages that have a byte of the buffer.
LEMMA ContainingExact ==
  ASSUME NEW s, NotWrapped(s), NEW a \in Nat, NEW n \in Nat, NEW b
  PROVE  LET c == containing(a, n, b)
         IN  /\ BufferExact(s, a, n, b, c)
             /\ c.err = "" /\ Validated(s, c) => pages(c) \subseteq 0 .. MAX_USER_PAGE - 1
  <1> DEFINE S == PAGE_SIZE
             c == containing(a, n, b)
  <1>1. PICK m, k \in Nat :
           /\ m * PAGE_SIZE <= a /\ a < (m + 1) * PAGE_SIZE
           /\ a + n <= (m + k) * PAGE_SIZE
           /\ \A p \in Nat : m <= p => (p < m + k <=> p * PAGE_SIZE < a + n)
           /\ (m + k) * PAGE_SIZE < a + n + PAGE_SIZE
           /\ IF k * PAGE_SIZE >= Word THEN containing(a, n, b) = Err("MemoryExhausted")
              ELSE containing(a, n, b) = PageRange(m * PAGE_SIZE, k, b)
    BY Containing
  <1>2. S \in Nat \ {0} /\ MAX_USER_PAGE \in Nat /\ WordPages \in Nat /\ Word \in Nat
          /\ MAX_USER_ADDR \in Nat /\ MAX_USER_ADDR < Word
    BY Limits
  <1>3. m * S \in Nat /\ k * S \in Nat /\ (m + k) * S = m * S + k * S /\ (m + k) * S \in Nat
          /\ (n + 1) * S = n * S + S /\ n * S \in Nat /\ n <= n * S
    BY <1>2, ProductIsNat
  <1>4. /\ m + k <= MAX_USER_PAGE <=> (m + k) * S <= MAX_USER_ADDR
        /\ WordPages <= m + k <=> Word <= (m + k) * S
    <2>1. m + k \in Nat
      OBVIOUS
    <2>2. /\ m + k <= MAX_USER_PAGE <=> (m + k) * S <= MAX_USER_PAGE * S
          /\ WordPages <= m + k <=> WordPages * S <= (m + k) * S
      BY <1>2, <2>1, ProductOrder
    <2> QED BY <2>2, Limits
  <1> HIDE DEF S, c
  <1>5. /\ m * S <= a /\ a < (m + 1) * S /\ a + n <= (m + k) * S /\ (m + k) * S < a + n + S
        /\ \A p \in Nat : m <= p => (p < m + k <=> p * S < a + n)
        /\ k * S >= Word => c = Err("MemoryExhausted")
        /\ ~(k * S >= Word) => c = PageRange(m * S, k, b)
    BY <1>1 DEF S, c
  <1>6. Err("MemoryExhausted").err = "MemoryExhausted"
    BY DEF Err
  <1>7. c.err \in {"", "panic"} => c = PageRange(m * S, k, b)
    BY <1>5, <1>6
  <1>8. LET r == PageRange(m * S, k, b)
        IN  /\ m + k <= MAX_USER_PAGE => r.err = ""
            /\ r.err = "" => /\ r.base = m /\ r.count = k /\ m <= MAX_USER_PAGE
                             /\ m + k <= MAX_USER_PAGE \/ WordPages <= m + k
            /\ r.err = "panic" => b = "debug" /\ WordPages <= m + k
    BY AlignedRange DEF S
  <1>9. ASSUME c.err = "", Validated(s, c)
        PROVE  /\ pages(c) = {p \in 0 .. WordPages - 1 : p * S < a + n /\ a < (p + 1) * S}
               /\ a + n <= MAX_USER_ADDR
               /\ pages(c) \subseteq 0 .. MAX_USER_PAGE - 1
    <2>1. /\ c.base = m /\ c.count = k /\ m <= MAX_USER_PAGE
          /\ m + k <= MAX_USER_PAGE \/ WordPages <= m + k
      BY <1>7, <1>8, <1>9
    <2>2. ASSUME WordPages <= m + k PROVE FALSE
      <3>1. WordPages - 1 \in pages(c) /\ KernelTop - 1 \in pages(c)
        BY <2>1, <2>2, RangePages
      <3> QED BY <1>9, <3>1 DEF Validated, validate_map, validate_available, NotWrapped
    <2>3. m + k <= MAX_USER_PAGE
      BY <2>1, <2>2
    <2>4. /\ pages(c) = {p \in 0 .. WordPages - 1 : m <= p /\ p < m + k}
          /\ pages(c) \subseteq 0 .. MAX_USER_PAGE - 1
      BY <2>1, <2>3, RangePages
    <2>5. ASSUME NEW p \in 0 .. WordPages - 1
          PROVE  (m <= p /\ p < m + k) <=> (p * S < a + n /\ a < (p + 1) * S)
      <3>1. p \in Nat
        BY <1>2
      <3>2. a < (p + 1) * S <=> m <= p
        <4>1. (p + 1) * S \in Nat /\ (m + 1) * S \in Nat
          BY <1>2, <3>1, ProductIsNat
        <4>2. CASE m <= p
          <5>1. (m + 1) * S <= (p + 1) * S
            BY <1>2, <3>1, <4>2, ProductOrder
          <5> QED BY <1>5, <4>1, <4>2, <5>1
        <4>3. CASE p < m
          <5>1. (p + 1) * S <= m * S
            BY <1>2, <3>1, <4>3, ProductOrder
          <5> QED BY <1>3, <1>5, <3>1, <4>1, <4>3, <5>1
        <4> QED BY <3>1, <4>2, <4>3
      <3> QED BY <1>5, <3>1, <3>2
    <2>6. a + n <= MAX_USER_ADDR
      BY <1>2, <1>3, <1>4, <1>5, <2>3
    <2> QED BY <2>4, <2>5, <2>6
  <1>10. ASSUME a + n <= MAX_USER_ADDR PROVE c.err = ""
    <2>1. m + k <= MAX_USER_PAGE
      <3>1. SUFFICES ASSUME MAX_USER_PAGE < m + k PROVE FALSE
        BY <1>2
      <3>2. MAX_USER_PAGE * S + S <= (m + k) * S
        BY <1>2, <3>1, ProductOrder
      <3>3. MAX_USER_PAGE * S = MAX_USER_ADDR
        BY Limits DEF S
      <3> QED BY <1>2, <1>3, <1>5, <1>10, <3>2, <3>3
    <2>2. ~(k * S >= Word)
      BY <1>2, <1>3, <1>4, <2>1
    <2> QED BY <1>5, <1>8, <2>1, <2>2
  <1>11. ASSUME c.err = "panic" PROVE b = "debug" /\ a + (n + 1) * S >= Word
    <2>1. b = "debug" /\ Word <= (m + k) * S
      BY <1>4, <1>7, <1>8, <1>11
    <2> QED BY <1>2, <1>3, <1>5, <2>1
  <1>12. BufferExact(s, a, n, b, c)
    BY <1>9, <1>10, <1>11 DEF BufferExact, S
  <1> QED BY <1>9, <1>12 DEF c

(***************************************************************************)
(* The allocator.                                                          *)
(***************************************************************************)

\* What the regions of a memory map are after phys_init has clipped them.
Bounds ==
  /\ regions \in Seq([begin: Nat, end: Nat])
  /\ \A r \in DOMAIN regions :
       /\ HighBoundary <= regions[r].begin /\ regions[r].end <= MaxPhys
       /\ regions[r].end <= VramPhys \/ VramPhys + VramPages <= regions[r].begin
  /\ \A r, q \in DOMAIN regions :
       r # q => regions[r].end <= regions[q].begin \/ regions[q].end <= regions[r].begin

\* Elements of sequences.
LEMMA SeqElement ==
  ASSUME NEW S, NEW q \in Seq(S)
  PROVE  /\ DOMAIN q = 1 .. Len(q) /\ Len(q) \in Nat
         /\ \A k \in DOMAIN q : q[k] \in S
  OBVIOUS

\* A region of the memory map is inside memory, above the boundary, without VRAM.
LEMMA RegionBounds ==
  ASSUME NEW mm \in MemoryMaps, NEW k \in DOMAIN mm, NEW r, IsRegion(mm, k, r)
  PROVE  /\ r \in [begin: Nat, end: Nat]
         /\ HighBoundary <= r.begin /\ r.end <= MaxPhys /\ mm[k].begin <= r.begin
         /\ r.end = mm[k].begin + mm[k].size
         /\ r.end <= VramPhys \/ VramPhys + VramPages <= r.begin
  <1>1. /\ mm[k].usable /\ mm[k].begin \in Nat /\ mm[k].size \in Nat
        /\ mm[k].begin + mm[k].size <= MaxPhys
        /\ mm[k].begin + mm[k].size <= VramPhys \/ VramPhys + VramPages <= mm[k].begin
    <2>1. /\ mm \in Seq([begin: Nat, size: Nat, usable: BOOLEAN])
          /\ \A i \in DOMAIN mm : mm[i].usable =>
               /\ mm[i].begin + mm[i].size <= MaxPhys
               /\ mm[i].begin + mm[i].size <= VramPhys \/ VramPhys + VramPages <= mm[i].begin
      BY MapsAssumption
    <2>2. mm[k] \in [begin: Nat, size: Nat, usable: BOOLEAN]
      BY <2>1, SeqElement, Zenon
    <2>3. mm[k].usable
      BY DEF IsRegion
    <2> QED BY <2>1, <2>2, <2>3
  <1>2. HighBoundary \in Nat /\ VramPhys \in Nat /\ VramPages \in Nat
    BY Layout, MapsAssumption, BootAssumption
  <1>3. ClippedBegin(mm[k]) \in Nat /\ HighBoundary <= ClippedBegin(mm[k])
          /\ mm[k].begin <= ClippedBegin(mm[k])
    BY <1>1, <1>2 DEF ClippedBegin
  <1>4. r = [begin |-> ClippedBegin(mm[k]), end |-> mm[k].begin + mm[k].size]
    BY DEF IsRegion
  <1> QED BY <1>1, <1>2, <1>3, <1>4

\* So are all.
LEMMA AllBounds ==
  ASSUME AtOK, RegionsOK
  PROVE  Bounds
  <1>1. ASSUME NEW r \in DOMAIN regions
        PROVE  /\ HighBoundary <= regions[r].begin /\ regions[r].end <= MaxPhys
               /\ regions[r].end <= VramPhys \/ VramPhys + VramPages <= regions[r].begin
    <2>1. PICK k \in DOMAIN memoryMap : IsRegion(memoryMap, k, regions[r])
      BY DEF RegionsOK
    <2> QED BY <2>1, RegionBounds DEF AtOK
  <1> QED BY <1>1 DEF Bounds, RegionsOK

\* Pages that have a counter are above the boundary and not VRAM.
LEMMA KnownIs ==
  ASSUME Bounds, NEW p \in Nat, Known(p)
  PROVE  /\ p \in Frames /\ p >= HighBoundary /\ p # 0
         /\ p \notin {BootPml4, KernelTable, IdentityTable}
         /\ \A i \in 0 .. VramPages - 1 : p # VramPhys + i
  <1>1. PICK r \in DOMAIN regions : regions[r].begin <= p /\ p < regions[r].end
    BY DEF Known
  <1>2. /\ HighBoundary <= regions[r].begin /\ regions[r].end <= MaxPhys
        /\ regions[r].end <= VramPhys \/ VramPhys + VramPages <= regions[r].begin
        /\ regions[r].begin \in Nat /\ regions[r].end \in Nat
    <2>1. regions \in Seq([begin: Nat, end: Nat])
      BY DEF Bounds
    <2>2. regions[r] \in [begin: Nat, end: Nat]
      BY <1>1, <2>1, SeqElement, Zenon
    <2> QED BY <1>1, <2>2 DEF Bounds
  <1>3. VramPhys \in Nat /\ VramPages \in Nat
    BY MapsAssumption, BootAssumption
  <1> QED BY <1>1, <1>2, <1>3, Layout DEF Frames

\* The three pages of the boot are not among them, so what has one place at most is
\* a frame.
LEMMA SingleIs ==
  ASSUME Bounds, NEW p \in Nat, Single(p)
  PROVE  p \in Frames /\ p # 0
  BY KnownIs, Layout DEF Single

\* A set of numbers that is not empty has a least element.
LEMMA LeastNumber ==
  ASSUME NEW T, T \subseteq Nat, T # {}
  PROVE  \E x \in T : \A y \in T : x <= y
  <1>1. PICK x \in T : \A y \in T : ~(<<y, x>> \in OpToRel(<, Nat))
    BY WFMin, NatLessThanWellFounded
  <1>2. ASSUME NEW y \in T PROVE x <= y
    <2>1. x \in Nat /\ y \in Nat
      OBVIOUS
    <2>2. ~(y < x)
      BY <1>1, <2>1 DEF OpToRel
    <2> QED BY <2>1, <2>2
  <1> QED BY <1>2

\* The fields of mem.
LEMMA MemFields ==
  ASSUME NEW s \in MemType
  PROVE  /\ s.tab \in Tabs /\ s.rc \in [Frames -> Int] /\ s.counting \in BOOLEAN
         /\ s.free \in Seq(Nat) /\ s.bump \in Seq(Nat) /\ s.cr3 \in Frames
  BY DEF MemType

\* inc_ref changes one counter.
LEMMA AddRefIs ==
  ASSUME NEW s \in MemType, NEW p \in Nat, NEW n \in Int, Known(p) => p \in Frames
  PROVE  LET t == AddRef(s, p, n)
         IN  /\ t \in MemType
             /\ t.tab = s.tab /\ t.counting = s.counting /\ t.free = s.free
             /\ t.bump = s.bump /\ t.cr3 = s.cr3
             /\ t.rc = IF s.counting /\ Known(p) THEN [s.rc EXCEPT ![p] = @ + n] ELSE s.rc
  <1>1. CASE s.counting /\ Known(p)
    <2>1. AddRef(s, p, n) = [s EXCEPT !.rc = [s.rc EXCEPT ![p] = @ + n]]
      BY <1>1 DEF AddRef
    <2>2. [s.rc EXCEPT ![p] = @ + n] \in [Frames -> Int]
      BY <1>1, MemFields
    <2> QED BY <1>1, <2>1, <2>2 DEF MemType
  <1>2. CASE ~(s.counting /\ Known(p))
    BY <1>2 DEF AddRef
  <1> QED BY <1>1, <1>2

\* The first page of the free list.
LEMMA PopIs ==
  ASSUME NEW fr, NEW bp, AllocOK(fr, bp), fr # <<>>
  PROVE  /\ Head(fr) \in Nat /\ Known(Head(fr)) /\ Tail(fr) \in Seq(Nat)
         /\ Offered(fr, bp, Head(fr)) /\ AllocOK(Tail(fr), bp)
         /\ \A p \in Nat : Offered(Tail(fr), bp, p) <=> Offered(fr, bp, p) /\ p # Head(fr)
  <1>1. fr \in Seq(Nat) /\ \A i, j \in DOMAIN fr : fr[i] = fr[j] => i = j
    BY DEF AllocOK
  <1>2. /\ Len(fr) \in Nat \ {0} /\ DOMAIN fr = 1 .. Len(fr) /\ Head(fr) = fr[1] /\ Head(fr) \in Nat
        /\ Tail(fr) \in Seq(Nat) /\ DOMAIN Tail(fr) = 1 .. Len(fr) - 1
        /\ \A i \in DOMAIN Tail(fr) : Tail(fr)[i] = fr[i + 1]
    BY <1>1
  <1>3. Listed(fr, Head(fr))
    BY <1>2 DEF Listed
  <1>4. ASSUME NEW p \in Nat PROVE Listed(Tail(fr), p) <=> Listed(fr, p) /\ p # Head(fr)
    <2>1. ASSUME Listed(Tail(fr), p) PROVE Listed(fr, p) /\ p # Head(fr)
      <3>1. PICK i \in DOMAIN Tail(fr) : Tail(fr)[i] = p
        BY <2>1 DEF Listed
      <3>2. i + 1 \in DOMAIN fr /\ 1 \in DOMAIN fr /\ i + 1 # 1 /\ fr[i + 1] = p
        BY <1>2, <3>1
      <3> QED BY <1>1, <1>2, <3>2 DEF Listed
    <2>2. ASSUME Listed(fr, p), p # Head(fr) PROVE Listed(Tail(fr), p)
      <3>1. PICK i \in DOMAIN fr : fr[i] = p
        BY <2>2 DEF Listed
      <3>2. i - 1 \in DOMAIN Tail(fr) /\ Tail(fr)[i - 1] = p
        BY <1>2, <2>2, <3>1
      <3> QED BY <3>2 DEF Listed
    <2> QED BY <2>1, <2>2
  <1>5. \A p \in Nat : Listed(fr, p) => Known(p) /\ ~Fresh(bp, p)
    BY DEF AllocOK
  <1>6. \A i, j \in DOMAIN Tail(fr) : Tail(fr)[i] = Tail(fr)[j] => i = j
    BY <1>1, <1>2, SMTT(30)
  <1>7. AllocOK(Tail(fr), bp)
    BY <1>2, <1>4, <1>5, <1>6 DEF AllocOK
  <1>8. \A p \in Nat : Offered(Tail(fr), bp, p) <=> Offered(fr, bp, p) /\ p # Head(fr)
    BY <1>2, <1>3, <1>4, <1>5 DEF Offered
  <1> QED BY <1>2, <1>3, <1>5, <1>7, <1>8 DEF Offered

\* The next page of a region that has one.
LEMMA BumpIs ==
  ASSUME Bounds, NEW fr, NEW bp, AllocOK(fr, bp), fr = <<>>, NEW r \in DOMAIN regions,
         bp[r] < regions[r].end
  PROVE  LET up == [bp EXCEPT ![r] = @ + 1]
         IN  /\ bp[r] \in Nat /\ Known(bp[r]) /\ up \in Seq(Nat)
             /\ Offered(fr, bp, bp[r]) /\ AllocOK(fr, up)
             /\ \A p \in Nat : Offered(fr, up, p) <=> Offered(fr, bp, p) /\ p # bp[r]
  <1> DEFINE up == [bp EXCEPT ![r] = @ + 1]
  <1>1. bp \in Seq(Nat) /\ Len(bp) = Len(regions) /\ \A q \in DOMAIN regions : regions[q].begin <= bp[q]
    BY DEF AllocOK
  <1>2. regions \in Seq([begin: Nat, end: Nat])
    BY DEF Bounds
  <1>3. DOMAIN regions = 1 .. Len(regions) /\ \A q \in DOMAIN regions : regions[q] \in [begin: Nat, end: Nat]
    BY <1>2, SeqElement, Zenon
  <1>4. \A q \in DOMAIN regions : regions[q].begin \in Nat /\ regions[q].end \in Nat
    BY <1>3
  <1>5. DOMAIN bp = DOMAIN regions /\ \A q \in DOMAIN regions : bp[q] \in Nat
    BY <1>1, <1>3, SeqElement
  <1>6. up \in Seq(Nat) /\ Len(up) = Len(bp) /\ DOMAIN up = DOMAIN bp
    BY <1>1, <1>5
  <1>7. /\ up[r] = bp[r] + 1 /\ bp[r] \in Nat
        /\ \A q \in DOMAIN regions : q # r => up[q] = bp[q]
    BY <1>1, <1>5
  <1> HIDE DEF up
  <1>8. Known(bp[r]) /\ Fresh(bp, bp[r])
    BY <1>1, <1>7, SMTT(30) DEF Known, Fresh
  <1>9. \A p \in Nat : ~Listed(fr, p)
    BY DEF Listed
  <1>10. ASSUME NEW p \in Nat PROVE Fresh(up, p) <=> Fresh(bp, p) /\ p # bp[r]
    <2>1. ASSUME Fresh(up, p) PROVE Fresh(bp, p) /\ p # bp[r]
      <3>1. PICK q \in DOMAIN regions : up[q] <= p /\ p < regions[q].end
        BY <2>1 DEF Fresh
      <3>2. CASE q = r
        BY <1>4, <1>7, <3>1, <3>2 DEF Fresh
      <3>3. CASE q # r
        <4>1. bp[q] <= p /\ p < regions[q].end
          BY <1>7, <3>1, <3>3
        <4>2. regions[q].end <= regions[r].begin \/ regions[r].end <= regions[q].begin
          BY <3>3 DEF Bounds
        <4>3. regions[q].begin <= bp[q] /\ regions[r].begin <= bp[r] /\ bp[q] \in Nat
          BY <1>1, <1>5
        <4>4. p # bp[r]
          BY <1>4, <1>7, <4>1, <4>2, <4>3
        <4> QED BY <4>1, <4>4 DEF Fresh
      <3> QED BY <3>2, <3>3
    <2>2. ASSUME Fresh(bp, p), p # bp[r] PROVE Fresh(up, p)
      <3>1. PICK q \in DOMAIN regions : bp[q] <= p /\ p < regions[q].end
        BY <2>2 DEF Fresh
      <3>2. up[q] <= p
        BY <1>5, <1>7, <2>2, <3>1
      <3> QED BY <3>1, <3>2 DEF Fresh
    <2> QED BY <2>1, <2>2
  <1>11. \A q \in DOMAIN regions : regions[q].begin <= up[q]
    <2>1. ASSUME NEW q \in DOMAIN regions PROVE regions[q].begin <= up[q]
      <3>1. regions[q].begin \in Nat /\ bp[q] \in Nat /\ regions[q].begin <= bp[q]
        BY <1>1, <1>4, <1>5
      <3>2. up[q] = bp[q] \/ up[q] = bp[q] + 1
        BY <1>7
      <3> QED BY <3>1, <3>2
    <2> QED BY <2>1
  <1>12. AllocOK(fr, up)
    BY <1>1, <1>6, <1>9, <1>11 DEF AllocOK
  <1> QED BY <1>6, <1>7, <1>8, <1>9, <1>10, <1>12 DEF Offered, up

\* What alloc returns when it has changed s to t.
Allocated(s, t, p) ==
  /\ p \in Frames /\ p # 0 /\ Known(p) /\ Offered(s.free, s.bump, p)
  /\ t \in MemType /\ AllocOK(t.free, t.bump)
  /\ \A q \in Nat : Offered(t.free, t.bump, q) <=> Offered(s.free, s.bump, q) /\ q # p
  /\ t.tab = s.tab /\ t.counting = s.counting /\ t.cr3 = s.cr3
  /\ t.rc = IF s.counting THEN [s.rc EXCEPT ![p] = @ + 1] ELSE s.rc

\* alloc hands out a page that it offers, and does not offer it again.
LEMMA AllocIs ==
  ASSUME Bounds, NEW s \in MemType, AllocOK(s.free, s.bump)
  PROVE  LET a == alloc(s)
         IN  (a.page = 0 /\ a.s = s) \/ Allocated(s, a.s, a.page)
  <1> DEFINE a == alloc(s)
             open == {r \in DOMAIN regions : s.bump[r] < regions[r].end}
             first == CHOOSE r \in open : \A q \in open : r <= q
  <1>1. CASE s.free # <<>>
    <2> DEFINE u == [s EXCEPT !.free = Tail(@)]
               p == Head(s.free)
    <2>1. /\ p \in Nat /\ Known(p) /\ Tail(s.free) \in Seq(Nat)
          /\ Offered(s.free, s.bump, p) /\ AllocOK(Tail(s.free), s.bump)
          /\ \A q \in Nat : Offered(Tail(s.free), s.bump, q) <=> Offered(s.free, s.bump, q) /\ q # p
      BY <1>1, PopIs
    <2>2. p \in Frames /\ p # 0
      BY <2>1, KnownIs
    <2>3. /\ u \in MemType /\ u.free = Tail(s.free) /\ u.bump = s.bump /\ u.tab = s.tab
          /\ u.rc = s.rc /\ u.counting = s.counting /\ u.cr3 = s.cr3
      BY <2>1 DEF MemType
    <2>4. a.page = p /\ a.s = AddRef(u, p, 1)
      BY <1>1 DEF alloc
    <2> HIDE DEF a, u, p
    <2>5. LET t == AddRef(u, p, 1)
          IN  /\ t \in MemType
              /\ t.tab = u.tab /\ t.counting = u.counting /\ t.free = u.free
              /\ t.bump = u.bump /\ t.cr3 = u.cr3
              /\ t.rc = IF u.counting /\ Known(p) THEN [u.rc EXCEPT ![p] = @ + 1] ELSE u.rc
      BY <2>1, <2>2, <2>3, AddRefIs
    <2>6. Allocated(s, a.s, a.page)
      BY <2>1, <2>2, <2>3, <2>4, <2>5 DEF Allocated
    <2> QED BY <2>6 DEF a
  <1>2. CASE s.free = <<>> /\ open = {}
    BY <1>2 DEF alloc
  <1>3. CASE s.free = <<>> /\ open # {}
    <2>1. open \subseteq Nat
      BY SeqElement DEF Bounds
    <2>2. \E r \in open : \A q \in open : r <= q
      BY <1>3, <2>1, LeastNumber
    <2>3. first \in open
      BY <2>2
    <2> DEFINE u == [s EXCEPT !.bump[first] = @ + 1]
               p == s.bump[first]
               up == [s.bump EXCEPT ![first] = @ + 1]
    <2>4. first \in DOMAIN regions /\ s.bump[first] < regions[first].end
      BY <2>3
    <2>5. a.page = p /\ a.s = AddRef(u, p, 1)
      BY <1>3 DEF alloc
    <2> HIDE DEF first, a, open
    <2>6. /\ p \in Nat /\ Known(p) /\ up \in Seq(Nat)
          /\ Offered(s.free, s.bump, p) /\ AllocOK(s.free, up)
          /\ \A q \in Nat : Offered(s.free, up, q) <=> Offered(s.free, s.bump, q) /\ q # p
      BY <1>3, <2>4, BumpIs
    <2>7. p \in Frames /\ p # 0
      BY <2>6, KnownIs
    <2>8. /\ u \in MemType /\ u.free = s.free /\ u.bump = up /\ u.tab = s.tab
          /\ u.rc = s.rc /\ u.counting = s.counting /\ u.cr3 = s.cr3
      BY <2>6 DEF MemType
    <2> HIDE DEF u, p, up
    <2>9. LET t == AddRef(u, p, 1)
          IN  /\ t \in MemType
              /\ t.tab = u.tab /\ t.counting = u.counting /\ t.free = u.free
              /\ t.bump = u.bump /\ t.cr3 = u.cr3
              /\ t.rc = IF u.counting /\ Known(p) THEN [u.rc EXCEPT ![p] = @ + 1] ELSE u.rc
      BY <2>6, <2>7, <2>8, AddRefIs
    <2>10. Allocated(s, a.s, a.page)
      BY <2>5, <2>6, <2>7, <2>8, <2>9 DEF Allocated
    <2> QED BY <2>10 DEF a
  <1> QED BY <1>1, <1>2, <1>3

\* A page that goes back to the free list.
LEMMA PushIs ==
  ASSUME NEW fr, NEW bp, AllocOK(fr, bp), NEW p \in Nat, Known(p), ~Offered(fr, bp, p)
  PROVE  /\ <<p>> \o fr \in Seq(Nat) /\ AllocOK(<<p>> \o fr, bp)
         /\ \A q \in Nat : Offered(<<p>> \o fr, bp, q) <=> Offered(fr, bp, q) \/ q = p
  <1> DEFINE gr == <<p>> \o fr
  <1>1. fr \in Seq(Nat) /\ \A i, j \in DOMAIN fr : fr[i] = fr[j] => i = j
    BY DEF AllocOK
  <1>2. /\ Len(fr) \in Nat /\ DOMAIN fr = 1 .. Len(fr)
        /\ gr \in Seq(Nat) /\ DOMAIN gr = 1 .. Len(fr) + 1 /\ gr[1] = p
        /\ \A i \in 2 .. Len(fr) + 1 : gr[i] = fr[i - 1]
    BY <1>1
  <1> HIDE DEF gr
  <1>3. ASSUME NEW q \in Nat PROVE Listed(gr, q) <=> Listed(fr, q) \/ q = p
    <2>1. ASSUME Listed(gr, q) PROVE Listed(fr, q) \/ q = p
      <3>1. PICK i \in DOMAIN gr : gr[i] = q
        BY <2>1 DEF Listed
      <3>2. CASE i = 1
        BY <1>2, <3>1, <3>2
      <3>3. CASE i # 1
        <4>1. i \in 2 .. Len(fr) + 1 /\ i - 1 \in DOMAIN fr
          BY <1>2, <3>1, <3>3
        <4> QED BY <1>2, <3>1, <4>1 DEF Listed
      <3> QED BY <3>2, <3>3
    <2>2. ASSUME Listed(fr, q) PROVE Listed(gr, q)
      <3>1. PICK i \in DOMAIN fr : fr[i] = q
        BY <2>2 DEF Listed
      <3>2. i + 1 \in DOMAIN gr /\ i + 1 \in 2 .. Len(fr) + 1 /\ (i + 1) - 1 = i
        BY <1>2, <3>1
      <3> QED BY <1>2, <3>1, <3>2 DEF Listed
    <2>3. Listed(gr, p)
      BY <1>2 DEF Listed
    <2> QED BY <2>1, <2>2, <2>3
  <1>4. ASSUME NEW i \in DOMAIN gr, NEW j \in DOMAIN gr, gr[i] = gr[j] PROVE i = j
    <2>1. \A k \in 2 .. Len(fr) + 1 : k - 1 \in DOMAIN fr /\ gr[k] # p
      <3>1. \A k \in DOMAIN fr : fr[k] # p
        BY DEF Offered, Listed
      <3>2. \A k \in 2 .. Len(fr) + 1 : k - 1 \in DOMAIN fr
        BY <1>2
      <3> QED BY <1>2, <3>1, <3>2
    <2>2. CASE i = 1
      BY <1>2, <1>4, <2>1, <2>2
    <2>3. CASE i # 1
      <3>1. i \in 2 .. Len(fr) + 1
        BY <1>2, <2>3
      <3>2. j \in 2 .. Len(fr) + 1
        BY <1>2, <1>4, <2>1, <3>1
      <3>3. i - 1 \in DOMAIN fr /\ j - 1 \in DOMAIN fr /\ fr[i - 1] = fr[j - 1]
        BY <1>2, <1>4, <2>1, <3>1, <3>2
      <3>4. i - 1 = j - 1
        BY <1>1, <3>3
      <3> QED BY <1>2, <3>1, <3>2, <3>4
    <2> QED BY <2>2, <2>3
  <1>5. ~Fresh(bp, p) /\ \A q \in Nat : Listed(fr, q) => Known(q) /\ ~Fresh(bp, q)
    BY DEF Offered, AllocOK
  <1>6. AllocOK(gr, bp)
    <2>1. \A i, j \in DOMAIN gr : gr[i] = gr[j] => i = j
      BY <1>4
    <2> QED BY <1>2, <1>3, <1>5, <2>1 DEF AllocOK
  <1> QED BY <1>2, <1>3, <1>6 DEF Offered, gr

\* Drop of a counter that is not the last reference, of the last one, and of a page
\* that has no counter.
LEMMA DropIs ==
  ASSUME Bounds, NEW s \in MemType, AllocOK(s.free, s.bump), NEW p \in Nat,
         s.counting /\ Known(p) /\ s.rc[p] = 1 => ~Offered(s.free, s.bump, p)
  PROVE  LET t == Drop(s, p)
         IN  /\ t \in MemType /\ AllocOK(t.free, t.bump)
             /\ t.tab = s.tab /\ t.counting = s.counting /\ t.cr3 = s.cr3
             /\ t.rc = IF s.counting /\ Known(p) THEN [s.rc EXCEPT ![p] = @ - 1] ELSE s.rc
             /\ \A q \in Nat : Offered(t.free, t.bump, q) <=>
                  Offered(s.free, s.bump, q) \/ (q = p /\ s.counting /\ Known(p) /\ s.rc[p] = 1)
  <1> DEFINE t == Drop(s, p)
             less == [s EXCEPT !.rc[p] = @ - 1]
  <1>1. CASE ~s.counting \/ ~Known(p)
    BY <1>1 DEF Drop
  <1>2. ASSUME s.counting, Known(p)
        PROVE  /\ less \in MemType /\ less.tab = s.tab /\ less.counting = s.counting
               /\ less.cr3 = s.cr3 /\ less.rc = [s.rc EXCEPT ![p] = @ - 1]
               /\ less.free = s.free /\ less.bump = s.bump
    <2>1. p \in Frames
      BY <1>2, KnownIs
    <2>2. [s.rc EXCEPT ![p] = @ - 1] \in [Frames -> Int]
      BY <2>1, MemFields
    <2> QED BY <2>2 DEF MemType
  <1>3. CASE s.counting /\ Known(p) /\ s.rc[p] # 1
    <2>1. t = less
      BY <1>3 DEF Drop
    <2> HIDE DEF less, t
    <2>2. /\ t \in MemType /\ AllocOK(t.free, t.bump)
          /\ t.tab = s.tab /\ t.counting = s.counting /\ t.cr3 = s.cr3
          /\ t.rc = [s.rc EXCEPT ![p] = @ - 1] /\ t.free = s.free /\ t.bump = s.bump
      BY <1>2, <1>3, <2>1
    <2> QED BY <1>3, <2>2 DEF t
  <1>4. CASE s.counting /\ Known(p) /\ s.rc[p] = 1
    <2>1. t = [less EXCEPT !.free = <<p>> \o @]
      BY <1>4 DEF Drop
    <2> HIDE DEF less, t
    <2>2. /\ <<p>> \o s.free \in Seq(Nat) /\ AllocOK(<<p>> \o s.free, s.bump)
          /\ \A q \in Nat : Offered(<<p>> \o s.free, s.bump, q) <=> Offered(s.free, s.bump, q) \/ q = p
      BY <1>4, PushIs
    <2>3. /\ t \in MemType /\ t.free = <<p>> \o s.free /\ t.bump = s.bump /\ t.tab = s.tab
          /\ t.counting = s.counting /\ t.cr3 = s.cr3 /\ t.rc = [s.rc EXCEPT ![p] = @ - 1]
      BY <1>2, <1>4, <2>1, <2>2 DEF MemType
    <2> QED BY <1>4, <2>2, <2>3 DEF t
  <1> QED BY <1>1, <1>3, <1>4

(***************************************************************************)
(* Page tables.                                                            *)
(***************************************************************************)
TabOK(tb, cs) == tb \in Tabs /\ ContextsOK(tb, cs) /\ TablesOK(tb, cs) /\ CellsOK(tb, cs)

Lower == Slots \ {Recursive}

\* Tables in which something was written.
PutEntry(tb, q, j, e) == [tb EXCEPT ![q][j] = e]
PutTable(tb, c, i, e, p) == [tb EXCEPT ![c][i] = e, ![p] = NoTable]
PutContext(tb, p, row) == [tb EXCEPT ![p] = row]

\* What the PML4 d translates to.
Leaf(tb, d, i, j) == IF tb[d][i] = NoEntry THEN NoEntry ELSE tb[tb[d][i].phys][j]

\* Types of the entries.
LEMMA EntryIs ==
  ASSUME NEW tb \in Tabs, NEW q \in Frames
  PROVE  /\ tb[q] \in [Slots -> EntryType]
         /\ \A j \in Slots : tb[q][j] \in EntryType /\ tb[q][j].phys \in Nat
         /\ NoEntry \in EntryType /\ NoEntry.phys = 0 /\ NoTable \in [Slots -> EntryType]
         /\ \A j \in Slots : NoTable[j] = NoEntry
  BY DEF Tabs, EntryType, NoEntry, NoTable

\* Zero is no page that has one place at most.
LEMMA ZeroIs ==
  ASSUME Bounds
  PROVE  ~Single(0) /\ ~Known(0)
  BY KnownIs, Layout DEF Single

\* The contexts.
LEMMA ContextIs ==
  ASSUME Bounds, NEW tb, NEW cs, TabOK(tb, cs), NEW c \in cs
  PROVE  /\ c \in Frames /\ c \in Nat /\ Single(c) /\ c # 0 /\ ~Used(tb, cs, c)
         /\ tb[c][Recursive] # NoEntry /\ tb[c][Recursive].phys = c
         /\ \A i \in KernelSlots : tb[c][i] = tb[BootPml4][i]
         /\ BootPml4 \in cs
  <1>1. /\ cs \subseteq Frames /\ BootPml4 \in cs /\ (c = BootPml4 \/ Known(c)) /\ ~Used(tb, cs, c)
        /\ tb[c][Recursive] # NoEntry /\ tb[c][Recursive].phys = c
        /\ \A i \in KernelSlots : tb[c][i] = tb[BootPml4][i]
    BY DEF TabOK, ContextsOK, TablesOK
  <1>2. c \in Frames /\ c \in Nat
    BY <1>1, Layout DEF Frames
  <1>3. Single(c)
    BY <1>1 DEF Single
  <1> QED BY <1>1, <1>2, <1>3, SingleIs

\* The place of an entry of a PML4.
Home(c, i) == IF i \in KernelSlots THEN BootPml4 ELSE c

\* A page table is a frame, is used, and is no context.
LEMMA TableIs ==
  ASSUME Bounds, NEW tb, NEW cs, TabOK(tb, cs), NEW c \in cs, NEW i \in Lower,
         tb[c][i] # NoEntry
  PROVE  LET q == tb[c][i].phys
         IN  /\ q \in Frames /\ q # 0 /\ Single(q) /\ IsTable(tb, cs, q) /\ Used(tb, cs, q)
             /\ q \notin cs
             /\ Home(c, i) \in Frames /\ IsCell(tb, cs, Home(c, i), i) /\ tb[Home(c, i)][i] = tb[c][i]
  <1> DEFINE q == tb[c][i].phys
  <1>1. c \in Frames /\ BootPml4 \in cs /\ BootPml4 \in Frames /\ \A k \in KernelSlots : tb[c][k] = tb[BootPml4][k]
    BY ContextIs, Layout
  <1>2. q \in Nat /\ i \in Slots
    BY <1>1, EntryIs DEF TabOK, Lower
  <1>3. Single(q)
    BY DEF TabOK, TablesOK, Lower
  <1>4. q \in Frames /\ q # 0
    BY <1>2, <1>3, SingleIs
  <1>5. IsTable(tb, cs, q)
    BY DEF IsTable, Lower
  <1>6. Home(c, i) \in Frames /\ IsCell(tb, cs, Home(c, i), i) /\ tb[Home(c, i)][i] = tb[c][i]
    <2>1. CASE i \in KernelSlots
      BY <1>1, <2>1 DEF Home, IsCell
    <2>2. CASE i \notin KernelSlots
      <3>1. i \in UserSlots
        BY <2>2 DEF UserSlots, Lower
      <3> QED BY <1>1, <2>2, <3>1 DEF Home, IsCell
    <2> QED BY <2>1, <2>2
  <1>7. Used(tb, cs, q)
    BY <1>2, <1>6 DEF Used
  <1>8. q \notin cs
    BY <1>7 DEF TabOK, TablesOK
  <1> QED BY <1>3, <1>4, <1>5, <1>6, <1>7, <1>8

\* Every page table has a context and a slot.
LEMMA TableHas ==
  ASSUME NEW tb, NEW cs, NEW q, IsTable(tb, cs, q)
  PROVE  \E c \in cs, i \in Lower : tb[c][i] # NoEntry /\ tb[c][i].phys = q
  BY DEF IsTable, Lower

\* Two entries lead to the same table only if they are the same, or the same one of
\* the kernel half.
LEMMA TableUnique ==
  ASSUME Bounds, NEW tb, NEW cs, TabOK(tb, cs), NEW c \in cs, NEW d \in cs,
         NEW i \in Lower, NEW k \in Lower,
         tb[c][i] # NoEntry, tb[d][k] # NoEntry, tb[c][i].phys = tb[d][k].phys
  PROVE  i = k /\ (c = d \/ i \in KernelSlots)
  <1>1. /\ Single(tb[c][i].phys)
        /\ Home(c, i) \in Frames /\ IsCell(tb, cs, Home(c, i), i) /\ tb[Home(c, i)][i] = tb[c][i]
        /\ Home(d, k) \in Frames /\ IsCell(tb, cs, Home(d, k), k) /\ tb[Home(d, k)][k] = tb[d][k]
        /\ i \in Slots /\ k \in Slots
    BY TableIs DEF Lower
  <1>2. Home(c, i) = Home(d, k) /\ i = k
    <2>1. \A q, r \in Frames, j, l \in Slots :
            /\ IsCell(tb, cs, q, j) /\ IsCell(tb, cs, r, l)
            /\ tb[q][j].phys = tb[r][l].phys /\ Single(tb[q][j].phys)
            => q = r /\ j = l
      BY DEF TabOK, CellsOK
    <2> QED BY <1>1, <2>1
  <1> QED BY <1>2 DEF Home

\* A place is in a frame.
LEMMA CellIs ==
  ASSUME Bounds, NEW tb, NEW cs, TabOK(tb, cs), NEW q, NEW j, IsCell(tb, cs, q, j)
  PROVE  q \in Frames /\ j \in Slots /\ tb[q][j].phys \in Nat /\ Used(tb, cs, tb[q][j].phys)
  <1>1. q \in Frames /\ j \in Slots
    <2>1. CASE q \in cs /\ j \in UserSlots
      BY <2>1, ContextIs, SlotFacts
    <2>2. CASE q = BootPml4 /\ j \in KernelSlots
      BY <2>2, Layout, SlotFacts
    <2>3. CASE IsTable(tb, cs, q) /\ j \in Slots
      BY <2>3, TableHas, TableIs
    <2> QED BY <2>1, <2>2, <2>3 DEF IsCell
  <1> QED BY <1>1, EntryIs DEF Used, TabOK

\* An entry of a page table is written.  What it refers to is in no other place.
LEMMA LeafWrite ==
  ASSUME Bounds, NEW tb, NEW cs, TabOK(tb, cs), NEW c \in cs, NEW i \in Lower, tb[c][i] # NoEntry,
         NEW j \in Slots, NEW e \in EntryType, NEW q, q = tb[c][i].phys,
         Single(e.phys) => e.phys = tb[q][j].phys \/ (e.phys \notin cs /\ ~Used(tb, cs, e.phys))
  PROVE  LET new == PutEntry(tb, q, j, e)
         IN  /\ TabOK(new, cs)
             /\ \A p \in Nat : Single(p) =>
                  (Used(new, cs, p) <=> p = e.phys \/ (Used(tb, cs, p) /\ p # tb[q][j].phys))
             /\ \A d \in cs : new[d] = tb[d]
             /\ \A d \in cs, k \in Lower, l \in Slots :
                  Leaf(new, d, k, l) = IF k = i /\ l = j /\ (d = c \/ i \in KernelSlots) THEN e
                                       ELSE Leaf(tb, d, k, l)
  <1> DEFINE new == PutEntry(tb, q, j, e)
  <1>1. q \in Frames /\ q # 0 /\ Single(q) /\ IsTable(tb, cs, q) /\ q \notin cs
    BY TableIs
  <1>2. tb \in Tabs /\ cs \subseteq Frames
    BY DEF TabOK, ContextsOK
  <1>3. /\ new \in Tabs /\ new[q][j] = e /\ \A k \in Slots : k # j => new[q][k] = tb[q][k]
        /\ \A r \in Frames : r # q => new[r] = tb[r]
    BY <1>1, <1>2 DEF Tabs, PutEntry
  <1> HIDE DEF new
  <1>4. \A d \in cs : new[d] = tb[d]
    BY <1>1, <1>2, <1>3
  <1>5. \A r : IsTable(new, cs, r) <=> IsTable(tb, cs, r)
    BY <1>4 DEF IsTable
  <1>6. \A r, k : IsCell(new, cs, r, k) <=> IsCell(tb, cs, r, k)
    BY <1>5 DEF IsCell
  <1>7. IsCell(tb, cs, q, j)
    BY <1>1 DEF IsCell
  <1>8. \A r \in Frames, k \in Slots : new[r][k] = IF r = q /\ k = j THEN e ELSE tb[r][k]
    BY <1>3
  <1>9. \A r, s \in Frames, k, l \in Slots :
            /\ IsCell(tb, cs, r, k) /\ IsCell(tb, cs, s, l)
            /\ tb[r][k].phys = tb[s][l].phys /\ Single(tb[r][k].phys)
            => r = s /\ k = l
    BY DEF TabOK, CellsOK
  <1>10. ASSUME NEW p \in Nat, Single(p)
         PROVE  Used(new, cs, p) <=> p = e.phys \/ (Used(tb, cs, p) /\ p # tb[q][j].phys)
    <2>1. ASSUME Used(new, cs, p), p # e.phys PROVE Used(tb, cs, p) /\ p # tb[q][j].phys
      <3>1. PICK r \in Frames, k \in Slots : IsCell(tb, cs, r, k) /\ new[r][k].phys = p
        BY <1>6, <2>1 DEF Used
      <3>2. ~(r = q /\ k = j) /\ tb[r][k].phys = p
        BY <1>8, <2>1, <3>1
      <3> QED BY <1>1, <1>7, <1>9, <1>10, <3>1, <3>2 DEF Used
    <2>2. ASSUME p = e.phys PROVE Used(new, cs, p)
      BY <1>1, <1>3, <1>6, <1>7, <2>2 DEF Used
    <2>3. ASSUME Used(tb, cs, p), p # tb[q][j].phys PROVE Used(new, cs, p)
      <3>1. PICK r \in Frames, k \in Slots : IsCell(tb, cs, r, k) /\ tb[r][k].phys = p
        BY <2>3 DEF Used
      <3> QED BY <1>6, <1>8, <2>3, <3>1 DEF Used
    <2> QED BY <2>1, <2>2, <2>3
  <1>11. ContextsOK(new, cs)
    BY <1>4 DEF TabOK, ContextsOK
  <1>12. ASSUME NEW d \in cs PROVE ~Used(new, cs, d)
    <2>1. d \in Nat /\ Single(d) /\ ~Used(tb, cs, d)
      BY ContextIs
    <2>2. d # e.phys
      <3>1. ASSUME d = e.phys PROVE FALSE
        <4>1. d = tb[q][j].phys
          BY <2>1, <3>1
        <4> QED BY <1>1, <1>7, <2>1, <4>1 DEF Used
      <3> QED BY <3>1
    <2> QED BY <1>10, <2>1, <2>2
  <1>13. TablesOK(new, cs)
    BY <1>4, <1>12 DEF TabOK, TablesOK
  <1>14. CellsOK(new, cs)
    <2>1. ASSUME NEW r \in Frames, NEW s \in Frames, NEW k \in Slots, NEW l \in Slots,
                 IsCell(tb, cs, r, k), IsCell(tb, cs, s, l), new[r][k].phys = new[s][l].phys,
                 Single(new[r][k].phys)
          PROVE  r = s /\ k = l
      <3>1. ASSUME NEW x \in Frames, NEW y \in Slots, IsCell(tb, cs, x, y), tb[x][y].phys = e.phys,
                   Single(e.phys)
            PROVE  x = q /\ y = j
        <4>1. Used(tb, cs, e.phys)
          BY <3>1 DEF Used
        <4>2. e.phys = tb[q][j].phys
          BY <3>1, <4>1
        <4> QED BY <1>1, <1>7, <1>9, <3>1, <4>2
      <3>2. CASE (r = q /\ k = j) /\ (s = q /\ l = j)
        BY <3>2
      <3>3. CASE (r = q /\ k = j) /\ ~(s = q /\ l = j)
        BY <1>8, <2>1, <3>1, <3>3
      <3>4. CASE ~(r = q /\ k = j) /\ (s = q /\ l = j)
        BY <1>8, <2>1, <3>1, <3>4
      <3>5. CASE ~(r = q /\ k = j) /\ ~(s = q /\ l = j)
        BY <1>8, <1>9, <2>1, <3>5
      <3> QED BY <3>2, <3>3, <3>4, <3>5
    <2> QED BY <1>6, <2>1 DEF CellsOK
  <1>15. TabOK(new, cs)
    BY <1>3, <1>11, <1>13, <1>14 DEF TabOK
  <1>16. ASSUME NEW d \in cs, NEW k \in Lower, NEW l \in Slots
         PROVE  Leaf(new, d, k, l) = IF k = i /\ l = j /\ (d = c \/ i \in KernelSlots) THEN e
                                     ELSE Leaf(tb, d, k, l)
    <2>1. new[d][k] = tb[d][k]
      BY <1>4
    <2>2. CASE tb[d][k] = NoEntry
      <3>1. ~(k = i /\ (d = c \/ i \in KernelSlots))
        BY <2>2, ContextIs
      <3> QED BY <2>1, <2>2, <3>1 DEF Leaf
    <2>3. CASE tb[d][k] # NoEntry
      <3>1. tb[d][k].phys \in Frames
        BY <2>3, TableIs
      <3>2. tb[d][k].phys = q <=> k = i /\ (d = c \/ i \in KernelSlots)
        <4>1. ASSUME tb[d][k].phys = q PROVE k = i /\ (d = c \/ i \in KernelSlots)
          BY <2>3, <4>1, TableUnique
        <4>2. ASSUME k = i, d = c \/ i \in KernelSlots PROVE tb[d][k].phys = q
          BY <4>2, ContextIs
        <4> QED BY <4>1, <4>2
      <3> QED BY <1>8, <2>1, <2>3, <3>1, <3>2 DEF Leaf
    <2> QED BY <2>2, <2>3
  <1> QED BY <1>4, <1>10, <1>15, <1>16 DEF new

\* An empty entry of a PML4 gets a page table that is zeroed.  Nothing is mapped by it.
LEMMA TableWrite ==
  ASSUME Bounds, NEW tb, NEW cs, TabOK(tb, cs), NEW c \in cs, NEW i \in Lower, tb[c][i] = NoEntry,
         i \in KernelSlots => cs = {BootPml4},
         NEW p \in Nat, Known(p), p \notin cs, ~Used(tb, cs, p), NEW e \in EntryType, e.phys = p
  PROVE  LET new == PutTable(tb, c, i, e, p)
         IN  /\ TabOK(new, cs)
             /\ \A x \in Nat : Single(x) => (Used(new, cs, x) <=> x = p \/ Used(tb, cs, x))
             /\ new[c][i] = e /\ e # NoEntry
             /\ \A d \in cs, k \in Slots : (d # c \/ k # i) => new[d][k] = tb[d][k]
             /\ \A d \in cs, k \in Lower, l \in Slots : Leaf(new, d, k, l) = Leaf(tb, d, k, l)
  <1> DEFINE new == PutTable(tb, c, i, e, p)
  <1>1. /\ p \in Frames /\ p # 0 /\ Single(p) /\ p # BootPml4 /\ c \in Frames /\ c # p /\ i \in Slots
        /\ c # 0 /\ BootPml4 \in cs /\ cs \subseteq Frames /\ tb \in Tabs
    BY KnownIs, ContextIs DEF Single, Lower, TabOK, ContextsOK
  <1>2. /\ new \in Tabs /\ new[c][i] = e /\ \A k \in Slots : k # i => new[c][k] = tb[c][k]
        /\ new[p] = NoTable /\ \A r \in Frames : r # c /\ r # p => new[r] = tb[r]
    <2>1. NoTable \in [Slots -> EntryType]
      BY <1>1, EntryIs
    <2> QED BY <1>1, <2>1 DEF Tabs, PutTable
  <1> HIDE DEF new
  <1>3. e # NoEntry
    BY <1>1, EntryIs
  <1>4. \A k \in Slots : NoTable[k] = NoEntry /\ NoEntry.phys = 0
    BY <1>1, EntryIs
  <1>5. \A d \in cs, k \in Slots : (d # c \/ k # i) => new[d][k] = tb[d][k]
    BY <1>1, <1>2
  <1>6. ~IsTable(tb, cs, p)
    <2>1. SUFFICES ASSUME IsTable(tb, cs, p) PROVE FALSE
      OBVIOUS
    <2>2. PICK d \in cs, k \in Lower : tb[d][k] # NoEntry /\ tb[d][k].phys = p
      BY <2>1, TableHas
    <2> QED BY <2>2, TableIs
  <1>7. ASSUME NEW r PROVE IsTable(new, cs, r) <=> r = p \/ IsTable(tb, cs, r)
    <2>1. ASSUME IsTable(new, cs, r), r # p PROVE IsTable(tb, cs, r)
      <3>1. PICK d \in cs, k \in Lower : new[d][k] # NoEntry /\ new[d][k].phys = r
        BY <2>1, TableHas
      <3>2. k \in Slots /\ (d # c \/ k # i)
        BY <1>2, <2>1, <3>1 DEF Lower
      <3> QED BY <1>5, <3>1, <3>2 DEF IsTable, Lower
    <2>2. IsTable(new, cs, p)
      BY <1>2, <1>3 DEF IsTable, Lower
    <2>3. ASSUME IsTable(tb, cs, r) PROVE IsTable(new, cs, r)
      <3>1. PICK d \in cs, k \in Lower : tb[d][k] # NoEntry /\ tb[d][k].phys = r
        BY <2>3, TableHas
      <3>2. k \in Slots /\ (d # c \/ k # i)
        BY <3>1 DEF Lower
      <3> QED BY <1>5, <3>1, <3>2 DEF IsTable, Lower
    <2> QED BY <2>1, <2>2, <2>3
  <1>8. \A r, k : IsCell(new, cs, r, k) <=> (r = p /\ k \in Slots) \/ IsCell(tb, cs, r, k)
    BY <1>7 DEF IsCell
  <1>9. \A k : ~IsCell(tb, cs, p, k)
    BY <1>1, <1>6 DEF IsCell
  <1>10. \A r \in Frames, k \in Slots :
           new[r][k] = IF r = p THEN NoEntry ELSE IF r = c /\ k = i THEN e ELSE tb[r][k]
    BY <1>1, <1>2, <1>4
  <1>11. IsCell(tb, cs, c, i)
    <2>1. CASE i \in KernelSlots
      BY <2>1 DEF IsCell
    <2>2. CASE i \notin KernelSlots
      BY <2>2 DEF IsCell, UserSlots, Lower
    <2> QED BY <2>1, <2>2
  <1>12. ASSUME NEW x \in Nat, Single(x) PROVE Used(new, cs, x) <=> x = p \/ Used(tb, cs, x)
    <2>1. x # 0
      BY <1>12, ZeroIs
    <2>2. ASSUME Used(new, cs, x), x # p PROVE Used(tb, cs, x)
      <3>1. PICK r \in Frames, k \in Slots : IsCell(new, cs, r, k) /\ new[r][k].phys = x
        BY <2>2 DEF Used
      <3>2. r # p
        BY <1>4, <1>10, <2>1, <3>1
      <3>3. IsCell(tb, cs, r, k) /\ tb[r][k].phys = x
        BY <1>8, <1>10, <2>2, <3>1, <3>2
      <3> QED BY <3>3 DEF Used
    <2>3. Used(new, cs, p)
      BY <1>1, <1>2, <1>8, <1>11 DEF Used
    <2>4. ASSUME Used(tb, cs, x) PROVE Used(new, cs, x)
      <3>1. PICK r \in Frames, k \in Slots : IsCell(tb, cs, r, k) /\ tb[r][k].phys = x
        BY <2>4 DEF Used
      <3>2. r # p
        BY <1>9, <3>1
      <3>3. ~(r = c /\ k = i)
        BY <1>4, <2>1, <3>1
      <3>4. IsCell(new, cs, r, k) /\ new[r][k].phys = x
        BY <1>8, <1>10, <3>1, <3>2, <3>3
      <3> QED BY <3>4 DEF Used
    <2> QED BY <2>2, <2>3, <2>4
  <1>13. ContextsOK(new, cs)
    <2>1. \A d \in cs : new[d][Recursive] = tb[d][Recursive]
      BY <1>5, SlotFacts DEF Lower
    <2>2. ASSUME NEW d \in cs, NEW k \in KernelSlots PROVE new[d][k] = new[BootPml4][k]
      <3>1. k \in Slots /\ tb[d][k] = tb[BootPml4][k]
        BY ContextIs, SlotFacts
      <3>2. CASE k = i
        BY <1>1, <3>2
      <3>3. CASE k # i
        BY <1>1, <1>5, <3>1, <3>3
      <3> QED BY <3>2, <3>3
    <2> QED BY <2>1, <2>2 DEF TabOK, ContextsOK
  <1>14. TablesOK(new, cs)
    <2>1. ASSUME NEW d \in cs, NEW k \in Slots \ {Recursive}
          PROVE  new[d][k] = NoEntry \/ Single(new[d][k].phys)
      <3>1. tb[d][k] = NoEntry \/ Single(tb[d][k].phys)
        BY DEF TabOK, TablesOK
      <3> QED BY <1>1, <1>2, <1>5, <3>1
    <2>2. ASSUME NEW d \in cs PROVE ~Used(new, cs, d)
      BY <1>12, ContextIs
    <2> QED BY <2>1, <2>2 DEF TablesOK
  <1>15. CellsOK(new, cs)
    <2>1. ASSUME NEW r \in Frames, NEW s \in Frames, NEW k \in Slots, NEW l \in Slots,
                 IsCell(new, cs, r, k), IsCell(new, cs, s, l), new[r][k].phys = new[s][l].phys,
                 Single(new[r][k].phys)
          PROVE  r = s /\ k = l
      <3>1. ~Single(0)
        BY ZeroIs
      <3>2. r # p /\ s # p
        BY <1>4, <1>10, <2>1, <3>1
      <3>3. IsCell(tb, cs, r, k) /\ IsCell(tb, cs, s, l)
        BY <1>8, <2>1, <3>2
      <3>4. \A x \in Frames, y \in Slots : IsCell(tb, cs, x, y) => tb[x][y].phys # p
        BY DEF Used
      <3>5. CASE (r = c /\ k = i) /\ (s = c /\ l = i)
        BY <3>5
      <3>6. CASE (r = c /\ k = i) /\ ~(s = c /\ l = i)
        BY <1>10, <2>1, <3>2, <3>3, <3>4, <3>6
      <3>7. CASE ~(r = c /\ k = i) /\ (s = c /\ l = i)
        BY <1>10, <2>1, <3>2, <3>3, <3>4, <3>7
      <3>8. CASE ~(r = c /\ k = i) /\ ~(s = c /\ l = i)
        <4>1. new[r][k] = tb[r][k] /\ new[s][l] = tb[s][l]
          BY <1>10, <3>2, <3>8
        <4> QED BY <2>1, <3>3, <4>1 DEF TabOK, CellsOK
      <3> QED BY <3>5, <3>6, <3>7, <3>8
    <2> QED BY <2>1 DEF CellsOK
  <1>16. TabOK(new, cs)
    BY <1>2, <1>13, <1>14, <1>15 DEF TabOK
  <1>17. ASSUME NEW d \in cs, NEW k \in Lower, NEW l \in Slots PROVE Leaf(new, d, k, l) = Leaf(tb, d, k, l)
    <2>1. CASE d = c /\ k = i
      BY <1>1, <1>2, <1>3, <1>4, <2>1 DEF Leaf
    <2>2. CASE ~(d = c /\ k = i)
      <3>1. new[d][k] = tb[d][k]
        BY <1>5, <2>2 DEF Lower
      <3>2. CASE tb[d][k] = NoEntry
        BY <3>1, <3>2 DEF Leaf
      <3>3. CASE tb[d][k] # NoEntry
        <4>1. tb[d][k].phys \in Frames /\ tb[d][k].phys \notin cs /\ IsTable(tb, cs, tb[d][k].phys)
          BY <3>3, TableIs
        <4>2. new[tb[d][k].phys] = tb[tb[d][k].phys]
          BY <1>2, <1>6, <4>1
        <4> QED BY <3>1, <4>2 DEF Leaf
      <3> QED BY <3>2, <3>3
    <2> QED BY <2>1, <2>2
  <1> QED BY <1>2, <1>3, <1>5, <1>12, <1>16, <1>17 DEF new

\* A row of a new PML4 p, with the kernel half of another one.
IsPml4(tb, c, p, row) ==
  /\ row \in [Slots -> EntryType] /\ row[Recursive] # NoEntry /\ row[Recursive].phys = p
  /\ \A i \in KernelSlots : row[i] = tb[c][i]
  /\ \A i \in UserSlots : row[i] = NoEntry

\* A new PML4.
LEMMA ContextWrite ==
  ASSUME Bounds, NEW tb, NEW cs, TabOK(tb, cs), NEW c \in cs,
         NEW p \in Nat, Known(p), p \notin cs, ~Used(tb, cs, p),
         NEW row, IsPml4(tb, c, p, row)
  PROVE  LET new == PutContext(tb, p, row)
             all == cs \cup {p}
         IN  /\ TabOK(new, all)
             /\ \A x \in Nat : Single(x) => (Used(new, all, x) <=> Used(tb, cs, x))
             /\ \A d \in cs : new[d] = tb[d]
             /\ \A i \in KernelSlots : new[p][i] = tb[BootPml4][i]
             /\ \A d \in cs, k \in Lower, l \in Slots : Leaf(new, d, k, l) = Leaf(tb, d, k, l)
  <1> DEFINE new == PutContext(tb, p, row)
             all == cs \cup {p}
  <1>1. /\ p \in Frames /\ p # 0 /\ Single(p) /\ p # BootPml4
        /\ BootPml4 \in cs /\ cs \subseteq Frames /\ tb \in Tabs
    BY KnownIs, ContextIs DEF Single, TabOK, ContextsOK
  <1>0. /\ row \in [Slots -> EntryType] /\ row[Recursive] # NoEntry /\ row[Recursive].phys = p
        /\ \A i \in KernelSlots : row[i] = tb[c][i]
        /\ \A i \in UserSlots : row[i] = NoEntry
    BY DEF IsPml4
  <1>2. new \in Tabs /\ new[p] = row /\ \A r \in Frames : r # p => new[r] = tb[r]
    BY <1>0, <1>1 DEF Tabs, PutContext
  <1> HIDE DEF new
  <1>3. \A d \in cs : new[d] = tb[d]
    BY <1>1, <1>2
  <1>4. \A k \in KernelSlots : new[p][k] = tb[BootPml4][k] /\ k \in Lower
    BY <1>0, <1>2, ContextIs, SlotFacts DEF Lower
  <1>5. \A k \in UserSlots : new[p][k] = NoEntry /\ k \in Lower
    BY <1>0, <1>2, SlotFacts DEF Lower
  <1>6. Lower = UserSlots \cup KernelSlots
    BY SlotFacts DEF Lower
  <1>7. ASSUME NEW r PROVE IsTable(new, all, r) <=> IsTable(tb, cs, r)
    <2>1. ASSUME IsTable(new, all, r) PROVE IsTable(tb, cs, r)
      <3>1. PICK d \in all, k \in Lower : new[d][k] # NoEntry /\ new[d][k].phys = r
        BY <2>1, TableHas
      <3>2. CASE d = p
        <4>1. k \in KernelSlots
          BY <1>5, <1>6, <3>1, <3>2
        <4> QED BY <1>1, <1>4, <3>1, <3>2, <4>1 DEF IsTable, Lower
      <3>3. CASE d # p
        <4>1. d \in cs /\ new[d] = tb[d]
          BY <1>3, <3>1, <3>3
        <4> QED BY <3>1, <4>1 DEF IsTable, Lower
      <3> QED BY <3>2, <3>3
    <2>2. ASSUME IsTable(tb, cs, r) PROVE IsTable(new, all, r)
      <3>1. PICK d \in cs, k \in Lower : tb[d][k] # NoEntry /\ tb[d][k].phys = r
        BY <2>2, TableHas
      <3>2. d \in all /\ new[d] = tb[d]
        BY <1>3, <3>1
      <3> QED BY <3>1, <3>2 DEF IsTable, Lower
    <2> QED BY <2>1, <2>2
  <1>8. \A r, k : IsCell(new, all, r, k) <=> (r = p /\ k \in UserSlots) \/ IsCell(tb, cs, r, k)
    BY <1>7 DEF IsCell
  <1>9. ~IsTable(tb, cs, p)
    <2>1. SUFFICES ASSUME IsTable(tb, cs, p) PROVE FALSE
      OBVIOUS
    <2>2. PICK d \in cs, k \in Lower : tb[d][k] # NoEntry /\ tb[d][k].phys = p
      BY <2>1, TableHas
    <2> QED BY <2>2, TableIs
  <1>10. \A k : ~IsCell(tb, cs, p, k)
    BY <1>1, <1>9 DEF IsCell
  <1>11. NoEntry.phys = 0 /\ ~Single(0)
    BY <1>1, EntryIs, ZeroIs
  <1>12. ASSUME NEW r \in Frames, NEW k \in Slots, IsCell(new, all, r, k), Single(new[r][k].phys)
         PROVE  IsCell(tb, cs, r, k) /\ new[r][k] = tb[r][k] /\ r # p
    BY <1>2, <1>5, <1>8, <1>10, <1>11, <1>12
  <1>13. ASSUME NEW r \in Frames, NEW k \in Slots, IsCell(tb, cs, r, k)
         PROVE  IsCell(new, all, r, k) /\ new[r][k] = tb[r][k]
    BY <1>2, <1>8, <1>10, <1>13
  <1>14. ASSUME NEW x \in Nat, Single(x) PROVE Used(new, all, x) <=> Used(tb, cs, x)
    <2>1. ASSUME Used(new, all, x) PROVE Used(tb, cs, x)
      <3>1. PICK r \in Frames, k \in Slots : IsCell(new, all, r, k) /\ new[r][k].phys = x
        BY <2>1 DEF Used
      <3> QED BY <1>12, <1>14, <3>1 DEF Used
    <2>2. ASSUME Used(tb, cs, x) PROVE Used(new, all, x)
      <3>1. PICK r \in Frames, k \in Slots : IsCell(tb, cs, r, k) /\ tb[r][k].phys = x
        BY <2>2 DEF Used
      <3> QED BY <1>13, <3>1 DEF Used
    <2> QED BY <2>1, <2>2
  <1>15. ContextsOK(new, all)
    <2>1. all \subseteq Frames /\ BootPml4 \in all /\ \A d \in all : d = BootPml4 \/ Known(d)
      BY <1>1 DEF TabOK, ContextsOK
    <2>2. \A d \in all : new[d][Recursive] # NoEntry /\ new[d][Recursive].phys = d
      BY <1>0, <1>2, <1>3, ContextIs
    <2>3. ASSUME NEW d \in all, NEW k \in KernelSlots PROVE new[d][k] = new[BootPml4][k]
      BY <1>1, <1>3, <1>4, ContextIs
    <2> QED BY <2>1, <2>2, <2>3 DEF ContextsOK
  <1>16. TablesOK(new, all)
    <2>1. ASSUME NEW d \in cs, NEW k \in Slots \ {Recursive}
          PROVE  tb[d][k] = NoEntry \/ Single(tb[d][k].phys)
      BY DEF TabOK, TablesOK
    <2>2. ASSUME NEW d \in all, NEW k \in Slots \ {Recursive}
          PROVE  new[d][k] = NoEntry \/ Single(new[d][k].phys)
      <3>1. CASE d \in cs
        BY <1>3, <2>1, <3>1
      <3>2. CASE d = p
        <4>1. k \in UserSlots \/ k \in KernelSlots
          BY <1>6 DEF Lower
        <4> QED BY <1>1, <1>4, <1>5, <2>1, <3>2, <4>1
      <3> QED BY <3>1, <3>2
    <2>3. ASSUME NEW d \in all PROVE ~Used(new, all, d)
      BY <1>1, <1>14, ContextIs, ZenonT(60)
    <2> QED BY <2>2, <2>3 DEF TablesOK
  <1>17. CellsOK(new, all)
    <2>1. ASSUME NEW r \in Frames, NEW s \in Frames, NEW k \in Slots, NEW l \in Slots,
                 IsCell(new, all, r, k), IsCell(new, all, s, l), new[r][k].phys = new[s][l].phys,
                 Single(new[r][k].phys)
          PROVE  r = s /\ k = l
      <3>1. IsCell(tb, cs, r, k) /\ new[r][k] = tb[r][k]
        BY <1>12, <2>1
      <3>2. IsCell(tb, cs, s, l) /\ new[s][l] = tb[s][l]
        BY <1>12, <2>1
      <3> QED BY <2>1, <3>1, <3>2 DEF TabOK, CellsOK
    <2> QED BY <2>1 DEF CellsOK
  <1>18. TabOK(new, all)
    BY <1>2, <1>15, <1>16, <1>17 DEF TabOK
  <1>19. ASSUME NEW d \in cs, NEW k \in Lower, NEW l \in Slots PROVE Leaf(new, d, k, l) = Leaf(tb, d, k, l)
    <2>1. new[d][k] = tb[d][k]
      BY <1>3
    <2>2. CASE tb[d][k] = NoEntry
      BY <2>1, <2>2 DEF Leaf
    <2>3. CASE tb[d][k] # NoEntry
      <3>1. tb[d][k].phys \in Frames /\ IsTable(tb, cs, tb[d][k].phys)
        BY <2>3, TableIs
      <3>2. new[tb[d][k].phys] = tb[tb[d][k].phys]
        BY <1>2, <1>9, <3>1
      <3> QED BY <2>1, <3>2 DEF Leaf
    <2> QED BY <2>2, <2>3
  <1> QED BY <1>3, <1>4, <1>14, <1>18, <1>19 DEF new, all

(***************************************************************************)
(* Steps of the kernel on tables, counters and the free list.              *)
(***************************************************************************)

\* What a step does to the translation: nothing, or one address of context c.
SameLeaves(tb, new, cs) ==
  \A d \in cs, k \in Lower, l \in Slots : Leaf(new, d, k, l) = Leaf(tb, d, k, l)

OneLeaf(tb, new, cs, c, i, j, e) ==
  \A d \in cs, k \in Lower, l \in Slots :
    Leaf(new, d, k, l) = IF k = i /\ l = j /\ (d = c \/ i \in KernelSlots) THEN e
                         ELSE Leaf(tb, d, k, l)

\* No page table goes away.
Filled(tb, new, cs) == \A d \in cs, k \in Lower : tb[d][k] # NoEntry => new[d][k] # NoEntry

\* Entry j of the page table q, that slot i of context c refers to; and its writing.
EntryAt(s, cs, c, i, j, q) ==
  /\ c \in cs /\ i \in Lower /\ j \in Slots /\ s.tab[c][i] # NoEntry /\ q = s.tab[c][i].phys
SetCell(s, q, j, e) == [s EXCEPT !.tab[q][j] = e]

\* What the steps do besides: write an entry, add a page table or a context, load one.
Wrote(s, t, cs, c, i, j, e) ==
  /\ t.cr3 = s.cr3 /\ t.counting = s.counting
  /\ OneLeaf(s.tab, t.tab, cs, c, i, j, e) /\ Filled(s.tab, t.tab, cs)
Tabled(s, t, cs, c, i) ==
  /\ t.cr3 = s.cr3 /\ t.counting = s.counting
  /\ SameLeaves(s.tab, t.tab, cs) /\ Filled(s.tab, t.tab, cs)
  /\ t.tab[c][i] # NoEntry /\ t.tab[t.tab[c][i].phys] = NoTable
  /\ \A d \in cs, k \in Slots : (d # c \/ k # i) => t.tab[d][k] = s.tab[d][k]
Contexted(s, t, cs) ==
  /\ t.cr3 = s.cr3 /\ t.counting = s.counting
  /\ SameLeaves(s.tab, t.tab, cs) /\ \A d \in cs : t.tab[d] = s.tab[d]
Loaded(s, t, c) == t.tab = s.tab /\ t.cr3 = c /\ t.counting = s.counting

\* The invariant in terms of the tables.
LEMMA PhysIs ==
  ASSUME NEW s, NEW cs, NEW hs
  PROVE  PhysInv(s, cs, hs) <=>
           /\ s \in MemType /\ s.cr3 \in cs /\ AllocOK(s.free, s.bump) /\ TabOK(s.tab, cs)
           /\ PagesOK(s, cs, hs)
  BY DEF PhysInv, TabOK, MemType

\* What is offered has a counter.
LEMMA OfferedKnown ==
  ASSUME Bounds, NEW fr, NEW bp, AllocOK(fr, bp), NEW p \in Nat, Offered(fr, bp, p)
  PROVE  Known(p)
  <1>1. CASE Listed(fr, p)
    BY <1>1 DEF AllocOK
  <1>2. CASE Fresh(bp, p)
    <2>1. PICK r \in DOMAIN regions : bp[r] <= p /\ p < regions[r].end
      BY <1>2 DEF Fresh
    <2>2. regions \in Seq([begin: Nat, end: Nat]) /\ bp \in Seq(Nat) /\ Len(bp) = Len(regions)
      BY DEF AllocOK, Bounds
    <2>3. regions[r] \in [begin: Nat, end: Nat] /\ DOMAIN regions = 1 .. Len(regions)
      BY <2>2, SeqElement, Zenon
    <2>4. DOMAIN bp = DOMAIN regions /\ bp[r] \in Nat
      BY <2>2, <2>3, SeqElement
    <2>5. regions[r].begin <= bp[r] /\ regions[r].begin \in Nat
      BY <2>3 DEF AllocOK
    <2> QED BY <2>1, <2>4, <2>5 DEF Known
  <1> QED BY <1>1, <1>2 DEF Offered

\* A page that alloc has returned is in hand.
LEMMA AllocStep ==
  ASSUME Bounds, NEW s, NEW cs, NEW hs, PhysInv(s, cs, hs), NEW t, NEW p, Allocated(s, t, p)
  PROVE  /\ PhysInv(t, cs, hs \cup {p}) /\ p \notin hs /\ p \notin cs /\ ~Used(s.tab, cs, p)
         /\ Loaded(s, t, s.cr3)
  <1>1. /\ s \in MemType /\ s.cr3 \in cs /\ AllocOK(s.free, s.bump) /\ TabOK(s.tab, cs)
        /\ PagesOK(s, cs, hs)
    BY PhysIs
  <1>2. /\ p \in Frames /\ p # 0 /\ Known(p) /\ Offered(s.free, s.bump, p)
        /\ t \in MemType /\ AllocOK(t.free, t.bump)
        /\ \A q \in Nat : Offered(t.free, t.bump, q) <=> Offered(s.free, s.bump, q) /\ q # p
        /\ t.tab = s.tab /\ t.counting = s.counting /\ t.cr3 = s.cr3
        /\ t.rc = IF s.counting THEN [s.rc EXCEPT ![p] = @ + 1] ELSE s.rc
    BY DEF Allocated
  <1>3. p \notin hs /\ p \notin cs /\ ~Used(s.tab, cs, p) /\ p # s.cr3
    BY <1>1, <1>2 DEF PagesOK
  <1>4. ASSUME NEW x \in Frames, Known(x)
        PROVE  /\ Offered(t.free, t.bump, x) => x \notin hs \cup {p}
               /\ Offered(t.free, t.bump, x) \/ x \in hs \cup {p} => x \notin cs /\ ~Used(t.tab, cs, x)
               /\ t.counting => t.rc[x] = One(Used(t.tab, cs, x)) + One(x \in cs) + One(x = t.cr3)
                                            + One(x \in hs \cup {p})
    <2>1. x \in Nat
      BY <1>4 DEF Frames
    <2>2. /\ Offered(s.free, s.bump, x) => x \notin hs
          /\ Offered(s.free, s.bump, x) \/ x \in hs => x \notin cs /\ ~Used(s.tab, cs, x)
          /\ s.counting => s.rc[x] = One(Used(s.tab, cs, x)) + One(x \in cs) + One(x = s.cr3) + One(x \in hs)
      BY <1>1, <1>4 DEF PagesOK
    <2>3. Offered(t.free, t.bump, x) => Offered(s.free, s.bump, x) /\ x # p
      BY <1>2, <2>1
    <2>4. CASE x # p
      <3>1. t.rc[x] = s.rc[x]
        BY <1>1, <1>2, <2>4, MemFields
      <3>2. One(x \in hs \cup {p}) = One(x \in hs)
        BY <2>4
      <3> QED BY <1>2, <2>2, <2>3, <2>4, <3>1, <3>2
    <2>5. CASE x = p
      <3>1. s.counting => t.rc[p] = s.rc[p] + 1
        BY <1>1, <1>2, MemFields
      <3>2. One(x \in hs \cup {p}) = 1 /\ One(x \in hs) = 0 /\ One(x \in cs) = 0 /\ One(x = s.cr3) = 0
              /\ One(Used(s.tab, cs, x)) = 0
        BY <1>3, <2>5 DEF One
      <3> QED BY <1>2, <1>3, <2>2, <2>3, <2>5, <3>1, <3>2
    <2> QED BY <2>4, <2>5
  <1>5. PagesOK(t, cs, hs \cup {p})
    BY <1>4 DEF PagesOK
  <1> QED BY <1>1, <1>2, <1>3, <1>5, PhysIs DEF Loaded

\* A page in hand is given back.
LEMMA DropHeld ==
  ASSUME Bounds, NEW s, NEW cs, NEW hs, PhysInv(s, cs, hs), NEW p \in Nat,
         Known(p) => p \in hs
  PROVE  LET t == Drop(s, p)
         IN  PhysInv(t, cs, hs \ {p}) /\ Loaded(s, t, s.cr3)
  <1> DEFINE t == Drop(s, p)
  <1>1. /\ s \in MemType /\ s.cr3 \in cs /\ AllocOK(s.free, s.bump) /\ TabOK(s.tab, cs)
        /\ PagesOK(s, cs, hs)
    BY PhysIs
  <1>2. ASSUME Known(p) PROVE /\ p \in Frames /\ ~Offered(s.free, s.bump, p) /\ p \notin cs
                              /\ ~Used(s.tab, cs, p) /\ p # s.cr3 /\ (s.counting => s.rc[p] = 1)
    <2>1. p \in Frames /\ p \in hs
      BY <1>2, KnownIs
    <2>2. ~Offered(s.free, s.bump, p) /\ p \notin cs /\ ~Used(s.tab, cs, p) /\ p # s.cr3
      BY <1>1, <1>2, <2>1 DEF PagesOK
    <2>3. s.counting => s.rc[p] = One(Used(s.tab, cs, p)) + One(p \in cs) + One(p = s.cr3) + One(p \in hs)
      BY <1>1, <1>2, <2>1 DEF PagesOK
    <2>4. One(Used(s.tab, cs, p)) = 0 /\ One(p \in cs) = 0 /\ One(p = s.cr3) = 0 /\ One(p \in hs) = 1
      BY <2>1, <2>2 DEF One
    <2> QED BY <2>1, <2>2, <2>3, <2>4
  <1>3. /\ t \in MemType /\ AllocOK(t.free, t.bump)
        /\ t.tab = s.tab /\ t.counting = s.counting /\ t.cr3 = s.cr3
        /\ t.rc = IF s.counting /\ Known(p) THEN [s.rc EXCEPT ![p] = @ - 1] ELSE s.rc
        /\ \A q \in Nat : Offered(t.free, t.bump, q) <=>
             Offered(s.free, s.bump, q) \/ (q = p /\ s.counting /\ Known(p) /\ s.rc[p] = 1)
    BY <1>1, <1>2, DropIs
  <1> HIDE DEF t
  <1>4. ASSUME NEW x \in Frames, Known(x)
        PROVE  /\ Offered(t.free, t.bump, x) => x \notin hs \ {p}
               /\ Offered(t.free, t.bump, x) \/ x \in hs \ {p} => x \notin cs /\ ~Used(t.tab, cs, x)
               /\ t.counting => t.rc[x] = One(Used(t.tab, cs, x)) + One(x \in cs) + One(x = t.cr3)
                                            + One(x \in hs \ {p})
    <2>1. x \in Nat
      BY <1>4 DEF Frames
    <2>2. /\ Offered(s.free, s.bump, x) => x \notin hs
          /\ Offered(s.free, s.bump, x) \/ x \in hs => x \notin cs /\ ~Used(s.tab, cs, x)
          /\ s.counting => s.rc[x] = One(Used(s.tab, cs, x)) + One(x \in cs) + One(x = s.cr3) + One(x \in hs)
      BY <1>1, <1>4 DEF PagesOK
    <2>3. CASE x # p
      <3>1. t.rc[x] = s.rc[x] /\ (Offered(t.free, t.bump, x) => Offered(s.free, s.bump, x))
        BY <1>1, <1>3, <2>1, <2>3, MemFields
      <3>2. One(x \in hs \ {p}) = One(x \in hs)
        BY <2>3
      <3> QED BY <1>3, <2>2, <2>3, <3>1, <3>2
    <2>4. CASE x = p
      <3>1. s.counting => t.rc[p] = 0
        BY <1>1, <1>2, <1>3, <1>4, <2>4, MemFields
      <3>2. One(x \in hs \ {p}) = 0 /\ One(x \in cs) = 0 /\ One(x = s.cr3) = 0
              /\ One(Used(s.tab, cs, x)) = 0
        BY <1>2, <1>4, <2>4 DEF One
      <3> QED BY <1>2, <1>3, <1>4, <2>4, <3>1, <3>2
    <2> QED BY <2>3, <2>4
  <1>5. PagesOK(t, cs, hs \ {p})
    BY <1>4 DEF PagesOK
  <1> QED BY <1>1, <1>3, <1>5, PhysIs DEF t, Loaded

\* A page in hand, or one that has no counter, is mapped at an entry that was empty.
LEMMA MapStep ==
  ASSUME Bounds, NEW s, NEW cs, NEW hs, PhysInv(s, cs, hs),
         NEW c, NEW i, NEW j, NEW q, EntryAt(s, cs, c, i, j, q), s.tab[q][j] = NoEntry,
         NEW e \in EntryType, Single(e.phys) => e.phys \in hs /\ Known(e.phys)
  PROVE  LET t == SetCell(s, q, j, e)
         IN  PhysInv(t, cs, hs \ {e.phys}) /\ Wrote(s, t, cs, c, i, j, e)
  <1> DEFINE t == SetCell(s, q, j, e)
             new == PutEntry(s.tab, q, j, e)
             p == e.phys
  <1>0. c \in cs /\ i \in Lower /\ j \in Slots /\ s.tab[c][i] # NoEntry /\ q = s.tab[c][i].phys
    BY DEF EntryAt
  <1>1. /\ s \in MemType /\ s.cr3 \in cs /\ AllocOK(s.free, s.bump) /\ TabOK(s.tab, cs)
        /\ PagesOK(s, cs, hs)
    BY PhysIs
  <1>2. p \in Nat /\ NoEntry.phys = 0 /\ ~Single(0) /\ ~Known(0)
    BY ZeroIs DEF EntryType, NoEntry
  <1>3. ASSUME Single(p) PROVE /\ p \in Frames /\ Known(p) /\ p \notin cs /\ ~Used(s.tab, cs, p)
                               /\ p # s.cr3 /\ ~Offered(s.free, s.bump, p) /\ p \in hs
    <2>1. p \in Frames /\ p \in hs /\ Known(p)
      BY <1>2, <1>3, SingleIs
    <2> QED BY <1>1, <2>1 DEF PagesOK
  <1>4. /\ TabOK(new, cs)
        /\ \A x \in Nat : Single(x) =>
             (Used(new, cs, x) <=> x = e.phys \/ (Used(s.tab, cs, x) /\ x # s.tab[q][j].phys))
        /\ \A d \in cs : new[d] = s.tab[d]
        /\ \A d \in cs, k \in Lower, l \in Slots :
             Leaf(new, d, k, l) = IF k = i /\ l = j /\ (d = c \/ i \in KernelSlots) THEN e
                                  ELSE Leaf(s.tab, d, k, l)
    BY <1>0, <1>1, <1>3, LeafWrite
  <1>5. /\ t \in MemType /\ t.tab = new /\ t.rc = s.rc /\ t.counting = s.counting /\ t.free = s.free
        /\ t.bump = s.bump /\ t.cr3 = s.cr3
    <2>1. new \in Tabs
      BY <1>4 DEF TabOK
    <2> QED BY <1>1, <2>1 DEF MemType, PutEntry, SetCell
  <1> HIDE DEF t, new, p
  <1>6. ASSUME NEW x \in Frames, Known(x)
        PROVE  /\ Offered(t.free, t.bump, x) => x \notin hs \ {p}
               /\ Offered(t.free, t.bump, x) \/ x \in hs \ {p} => x \notin cs /\ ~Used(t.tab, cs, x)
               /\ t.counting => t.rc[x] = One(Used(t.tab, cs, x)) + One(x \in cs) + One(x = t.cr3)
                                            + One(x \in hs \ {p})
    <2>1. x \in Nat /\ Single(x) /\ x # 0
      BY <1>2, <1>6 DEF Frames, Single
    <2>2. /\ Offered(s.free, s.bump, x) => x \notin hs
          /\ Offered(s.free, s.bump, x) \/ x \in hs => x \notin cs /\ ~Used(s.tab, cs, x)
          /\ s.counting => s.rc[x] = One(Used(s.tab, cs, x)) + One(x \in cs) + One(x = s.cr3) + One(x \in hs)
      BY <1>1, <1>6 DEF PagesOK
    <2>3. Used(new, cs, x) <=> x = p \/ Used(s.tab, cs, x)
      BY <1>2, <1>4, <2>1 DEF p
    <2>4. CASE x # p
      <3>1. One(x \in hs \ {p}) = One(x \in hs) /\ One(Used(new, cs, x)) = One(Used(s.tab, cs, x))
        BY <2>3, <2>4 DEF One
      <3> QED BY <1>5, <2>2, <2>3, <2>4, <3>1
    <2>5. CASE x = p
      <3>1. Used(new, cs, x) /\ ~Used(s.tab, cs, x) /\ ~Offered(s.free, s.bump, x) /\ x \in hs
        BY <1>3, <2>1, <2>3, <2>5
      <3>2. One(x \in hs \ {p}) = 0 /\ One(x \in hs) = 1 /\ One(Used(new, cs, x)) = 1
              /\ One(Used(s.tab, cs, x)) = 0 /\ One(x \in cs) \in Nat /\ One(x = s.cr3) \in Nat
        BY <2>5, <3>1 DEF One
      <3>3. x \notin cs /\ (t.counting => t.rc[x] = One(x \in cs) + One(x = s.cr3) + 1)
        BY <1>5, <2>2, <3>1, <3>2
      <3>4. One(Used(t.tab, cs, x)) = 1 /\ One(x = t.cr3) = One(x = s.cr3) /\ x \notin hs \ {p}
        BY <1>5, <2>5, <3>1 DEF One
      <3>5. ~Offered(t.free, t.bump, x)
        BY <1>5, <3>1
      <3> QED BY <3>2, <3>3, <3>4, <3>5
    <2> QED BY <2>4, <2>5
  <1>7. PagesOK(t, cs, hs \ {p})
    BY <1>6 DEF PagesOK
  <1>8. PhysInv(t, cs, hs \ {p})
    BY <1>1, <1>4, <1>5, <1>7, PhysIs
  <1>9. OneLeaf(s.tab, t.tab, cs, c, i, j, e) /\ Filled(s.tab, t.tab, cs)
    BY <1>4, <1>5 DEF OneLeaf, Filled
  <1> QED BY <1>5, <1>8, <1>9 DEF t, p, Wrote

\* The flags of an entry change.
LEMMA ModifyStep ==
  ASSUME Bounds, NEW s, NEW cs, PhysInv(s, cs, {}),
         NEW c, NEW i, NEW j, NEW q, EntryAt(s, cs, c, i, j, q),
         NEW e \in EntryType, e.phys = s.tab[q][j].phys
  PROVE  LET t == SetCell(s, q, j, e)
         IN  PhysInv(t, cs, {}) /\ Wrote(s, t, cs, c, i, j, e)
  <1> DEFINE t == SetCell(s, q, j, e)
             new == PutEntry(s.tab, q, j, e)
  <1>0. c \in cs /\ i \in Lower /\ j \in Slots /\ s.tab[c][i] # NoEntry /\ q = s.tab[c][i].phys
    BY DEF EntryAt
  <1>1. /\ s \in MemType /\ s.cr3 \in cs /\ AllocOK(s.free, s.bump) /\ TabOK(s.tab, cs)
        /\ PagesOK(s, cs, {})
    BY PhysIs
  <1>2. q \in Frames /\ IsTable(s.tab, cs, q)
    BY <1>0, <1>1, TableIs
  <1>3. Used(s.tab, cs, e.phys)
    BY <1>0, <1>2 DEF Used, IsCell
  <1>4. /\ TabOK(new, cs)
        /\ \A x \in Nat : Single(x) =>
             (Used(new, cs, x) <=> x = e.phys \/ (Used(s.tab, cs, x) /\ x # s.tab[q][j].phys))
        /\ \A d \in cs : new[d] = s.tab[d]
        /\ \A d \in cs, k \in Lower, l \in Slots :
             Leaf(new, d, k, l) = IF k = i /\ l = j /\ (d = c \/ i \in KernelSlots) THEN e
                                  ELSE Leaf(s.tab, d, k, l)
    <2>1. PICK tb, f : tb = s.tab /\ f = e
      OBVIOUS
    <2>2. /\ TabOK(tb, cs) /\ c \in cs /\ i \in Lower /\ j \in Slots /\ tb[c][i] # NoEntry
          /\ q = tb[c][i].phys /\ f \in EntryType
      BY <1>0, <1>1, <2>1
    <2>3. Single(f.phys) => f.phys = tb[q][j].phys \/ (f.phys \notin cs /\ ~Used(tb, cs, f.phys))
      BY <2>1
    <2>4. LET put == PutEntry(tb, q, j, f)
          IN  /\ TabOK(put, cs)
              /\ \A x \in Nat : Single(x) =>
                   (Used(put, cs, x) <=> x = f.phys \/ (Used(tb, cs, x) /\ x # tb[q][j].phys))
              /\ \A d \in cs : put[d] = tb[d]
              /\ \A d \in cs, k \in Lower, l \in Slots :
                   Leaf(put, d, k, l) = IF k = i /\ l = j /\ (d = c \/ i \in KernelSlots) THEN f
                                        ELSE Leaf(tb, d, k, l)
      BY <2>2, <2>3, LeafWrite
    <2> QED BY <2>1, <2>4
  <1>5. /\ t \in MemType /\ t.tab = new /\ t.rc = s.rc /\ t.counting = s.counting /\ t.free = s.free
        /\ t.bump = s.bump /\ t.cr3 = s.cr3
    <2>1. new \in Tabs
      BY <1>4 DEF TabOK
    <2> QED BY <1>1, <2>1 DEF MemType, PutEntry, SetCell
  <1> HIDE DEF t, new
  <1>6. \A x \in Frames : Known(x) => (Used(new, cs, x) <=> Used(s.tab, cs, x))
    <2>1. ASSUME NEW x \in Frames, Known(x) PROVE Used(new, cs, x) <=> Used(s.tab, cs, x)
      <3>1. x \in Nat /\ Single(x)
        BY <2>1 DEF Single, Frames
      <3> QED BY <1>3, <1>4, <3>1
    <2> QED BY <2>1
  <1>7. PagesOK(t, cs, {})
    BY <1>1, <1>5, <1>6 DEF PagesOK, One
  <1>8. PhysInv(t, cs, {})
    BY <1>1, <1>4, <1>5, <1>7, PhysIs
  <1>9. OneLeaf(s.tab, t.tab, cs, c, i, j, e) /\ Filled(s.tab, t.tab, cs)
    BY <1>4, <1>5 DEF OneLeaf, Filled
  <1> QED BY <1>5, <1>8, <1>9 DEF t, Wrote

\* An entry is emptied, and its page given back.
LEMMA ReleaseStep ==
  ASSUME Bounds, NEW s, NEW cs, PhysInv(s, cs, {}),
         NEW c, NEW i, NEW j, NEW q, EntryAt(s, cs, c, i, j, q)
  PROVE  LET d == Drop(s, s.tab[q][j].phys)
             t == SetCell(d, q, j, NoEntry)
         IN  Loaded(s, d, s.cr3) /\ PhysInv(t, cs, {}) /\ Wrote(s, t, cs, c, i, j, NoEntry)
  <1> DEFINE p == s.tab[q][j].phys
             d == Drop(s, p)
             t == SetCell(d, q, j, NoEntry)
             new == PutEntry(s.tab, q, j, NoEntry)
  <1>0. c \in cs /\ i \in Lower /\ j \in Slots /\ s.tab[c][i] # NoEntry /\ q = s.tab[c][i].phys
    BY DEF EntryAt
  <1>1. /\ s \in MemType /\ s.cr3 \in cs /\ AllocOK(s.free, s.bump) /\ TabOK(s.tab, cs)
        /\ PagesOK(s, cs, {})
    BY PhysIs
  <1>2. q \in Frames /\ IsTable(s.tab, cs, q)
    BY <1>0, <1>1, TableIs
  <1>3. p \in Nat /\ Used(s.tab, cs, p)
    BY <1>0, <1>1, <1>2, EntryIs DEF Used, IsCell, TabOK
  <1>4. NoEntry \in EntryType /\ NoEntry.phys = 0 /\ ~Single(0) /\ ~Known(0)
    BY <1>0, <1>1, <1>2, EntryIs, ZeroIs DEF TabOK
  <1>5. /\ TabOK(new, cs)
        /\ \A x \in Nat : Single(x) =>
             (Used(new, cs, x) <=> x = NoEntry.phys \/ (Used(s.tab, cs, x) /\ x # s.tab[q][j].phys))
        /\ \A b \in cs : new[b] = s.tab[b]
        /\ \A b \in cs, k \in Lower, l \in Slots :
             Leaf(new, b, k, l) = IF k = i /\ l = j /\ (b = c \/ i \in KernelSlots) THEN NoEntry
                                  ELSE Leaf(s.tab, b, k, l)
    <2> HIDE DEF p, d, t, new
    <2> QED BY <1>0, <1>1, <1>4, LeafWrite DEF new
  <1>6. ASSUME Known(p) PROVE /\ p \in Frames /\ ~Offered(s.free, s.bump, p) /\ p \notin cs /\ p # s.cr3
                              /\ (s.counting => s.rc[p] = 1)
    <2>1. p \in Frames
      BY <1>3, <1>6, KnownIs
    <2>2. ~Offered(s.free, s.bump, p)
      BY <1>1, <1>3, <1>6, <2>1 DEF PagesOK
    <2>3. p \notin cs /\ p # s.cr3
      BY <1>1, <1>3 DEF TabOK, TablesOK
    <2>4. s.counting => s.rc[p] = One(Used(s.tab, cs, p)) + One(p \in cs) + One(p = s.cr3) + One(p \in {})
      BY <1>1, <1>6, <2>1 DEF PagesOK
    <2>5. One(Used(s.tab, cs, p)) = 1 /\ One(p \in cs) = 0 /\ One(p = s.cr3) = 0 /\ One(p \in {}) = 0
      BY <1>3, <2>3 DEF One
    <2> HIDE DEF p
    <2> QED BY <2>1, <2>2, <2>3, <2>4, <2>5
  <1>7. /\ d \in MemType /\ AllocOK(d.free, d.bump)
        /\ d.tab = s.tab /\ d.counting = s.counting /\ d.cr3 = s.cr3
        /\ d.rc = IF s.counting /\ Known(p) THEN [s.rc EXCEPT ![p] = @ - 1] ELSE s.rc
        /\ \A x \in Nat : Offered(d.free, d.bump, x) <=>
             Offered(s.free, s.bump, x) \/ (x = p /\ s.counting /\ Known(p) /\ s.rc[p] = 1)
    <2> HIDE DEF p
    <2> QED BY <1>1, <1>3, <1>6, DropIs
  <1> HIDE DEF d
  <1>8. /\ t \in MemType /\ t.tab = new /\ t.rc = d.rc /\ t.counting = d.counting /\ t.free = d.free
        /\ t.bump = d.bump /\ t.cr3 = d.cr3
    <2>1. new \in Tabs
      BY <1>5 DEF TabOK
    <2> QED BY <1>7, <2>1 DEF MemType, PutEntry, SetCell
  <1> HIDE DEF t, new, p
  <1>9. ASSUME NEW x \in Frames, Known(x)
        PROVE  /\ Offered(t.free, t.bump, x) => x \notin {}
               /\ Offered(t.free, t.bump, x) \/ x \in {} => x \notin cs /\ ~Used(t.tab, cs, x)
               /\ t.counting => t.rc[x] = One(Used(t.tab, cs, x)) + One(x \in cs) + One(x = t.cr3)
                                            + One(x \in {})
    <2>1. x \in Nat /\ Single(x) /\ x # 0
      BY <1>4, <1>9 DEF Frames, Single
    <2>2. /\ Offered(s.free, s.bump, x) => x \notin cs /\ ~Used(s.tab, cs, x)
          /\ s.counting => s.rc[x] = One(Used(s.tab, cs, x)) + One(x \in cs) + One(x = s.cr3) + One(x \in {})
      BY <1>1, <1>9 DEF PagesOK
    <2>3. Used(t.tab, cs, x) <=> Used(s.tab, cs, x) /\ x # p
      BY <1>4, <1>5, <1>8, <2>1 DEF p
    <2>4. One(x = t.cr3) = One(x = s.cr3)
      BY <1>7, <1>8
    <2>5. CASE x # p
      <3>1. One(Used(t.tab, cs, x)) = One(Used(s.tab, cs, x)) /\ t.rc[x] = s.rc[x]
        BY <1>1, <1>7, <1>8, <2>3, <2>5, MemFields DEF One
      <3>2. Offered(t.free, t.bump, x) => Offered(s.free, s.bump, x)
        BY <1>7, <1>8, <2>1, <2>5
      <3> QED BY <1>7, <1>8, <2>2, <2>3, <2>4, <3>1, <3>2
    <2>6. CASE x = p
      <3>1. s.counting => t.rc[x] = 0
        BY <1>1, <1>6, <1>7, <1>8, <1>9, <2>6, MemFields
      <3>2. One(Used(t.tab, cs, x)) = 0 /\ One(x \in cs) = 0 /\ One(x = s.cr3) = 0 /\ One(x \in {}) = 0
        BY <1>6, <1>9, <2>3, <2>6 DEF One
      <3> QED BY <1>6, <1>7, <1>8, <1>9, <2>3, <2>4, <2>6, <3>1, <3>2
    <2> QED BY <2>5, <2>6
  <1>10. PagesOK(t, cs, {})
    BY <1>9 DEF PagesOK
  <1>11. PhysInv(t, cs, {})
    BY <1>1, <1>5, <1>7, <1>8, <1>10, PhysIs
  <1>12. OneLeaf(s.tab, t.tab, cs, c, i, j, NoEntry) /\ Filled(s.tab, t.tab, cs)
    BY <1>5, <1>8 DEF OneLeaf, Filled
  <1> QED BY <1>7, <1>8, <1>11, <1>12 DEF t, d, p, Wrote, Loaded

\* Slot i of context c, empty, and a page in hand.
SlotAt(s, cs, hs, c, i, p) ==
  /\ c \in cs /\ i \in Lower /\ s.tab[c][i] = NoEntry /\ (i \in KernelSlots => cs = {BootPml4})
  /\ p \in Frames /\ Known(p) /\ p \in hs

\* A page in hand becomes a page table.
LEMMA TableStep ==
  ASSUME Bounds, NEW s, NEW cs, NEW hs, PhysInv(s, cs, hs), NEW c, NEW i, NEW p,
         SlotAt(s, cs, hs, c, i, p)
  PROVE  LET t == NewTable(s, c, i, p)
         IN  PhysInv(t, cs, hs \ {p}) /\ Tabled(s, t, cs, c, i)
  <1> DEFINE t == NewTable(s, c, i, p)
             e == Entry(p, {"P", "W", "U"})
             new == PutTable(s.tab, c, i, e, p)
  <1>0. /\ c \in cs /\ i \in Lower /\ s.tab[c][i] = NoEntry /\ (i \in KernelSlots => cs = {BootPml4})
        /\ p \in Frames /\ Known(p) /\ p \in hs
    BY DEF SlotAt
  <1>1. /\ s \in MemType /\ s.cr3 \in cs /\ AllocOK(s.free, s.bump) /\ TabOK(s.tab, cs)
        /\ PagesOK(s, cs, hs)
    BY PhysIs
  <1>2. p \in Nat /\ e \in EntryType /\ e.phys = p
    BY <1>0 DEF Entry, EntryType, Frames
  <1>3. p \notin cs /\ ~Used(s.tab, cs, p) /\ p # s.cr3 /\ ~Offered(s.free, s.bump, p)
    BY <1>0, <1>1 DEF PagesOK
  <1>4. /\ TabOK(new, cs)
        /\ \A x \in Nat : Single(x) => (Used(new, cs, x) <=> x = p \/ Used(s.tab, cs, x))
        /\ new[c][i] = e /\ e # NoEntry
        /\ \A d \in cs, k \in Slots : (d # c \/ k # i) => new[d][k] = s.tab[d][k]
        /\ \A d \in cs, k \in Lower, l \in Slots : Leaf(new, d, k, l) = Leaf(s.tab, d, k, l)
    <2> HIDE DEF t, e, new
    <2> QED BY <1>0, <1>1, <1>2, <1>3, TableWrite DEF new
  <1>5. /\ t \in MemType /\ t.tab = new /\ t.rc = s.rc /\ t.counting = s.counting /\ t.free = s.free
        /\ t.bump = s.bump /\ t.cr3 = s.cr3
    <2>1. new \in Tabs
      BY <1>4 DEF TabOK
    <2> QED BY <1>1, <2>1 DEF MemType, PutTable, NewTable
  <1>6. new[p] = NoTable
    BY <1>0, <1>1, <1>3, ContextIs DEF PutTable, TabOK, Tabs
  <1> HIDE DEF t, e, new
  <1>7. ASSUME NEW x \in Frames, Known(x)
        PROVE  /\ Offered(t.free, t.bump, x) => x \notin hs \ {p}
               /\ Offered(t.free, t.bump, x) \/ x \in hs \ {p} => x \notin cs /\ ~Used(t.tab, cs, x)
               /\ t.counting => t.rc[x] = One(Used(t.tab, cs, x)) + One(x \in cs) + One(x = t.cr3)
                                            + One(x \in hs \ {p})
    <2>1. x \in Nat /\ Single(x)
      BY <1>7 DEF Frames, Single
    <2>2. /\ Offered(s.free, s.bump, x) => x \notin hs
          /\ Offered(s.free, s.bump, x) \/ x \in hs => x \notin cs /\ ~Used(s.tab, cs, x)
          /\ s.counting => s.rc[x] = One(Used(s.tab, cs, x)) + One(x \in cs) + One(x = s.cr3) + One(x \in hs)
      BY <1>1, <1>7 DEF PagesOK
    <2>3. Used(t.tab, cs, x) <=> x = p \/ Used(s.tab, cs, x)
      BY <1>4, <1>5, <2>1
    <2>4. One(x = t.cr3) = One(x = s.cr3)
      BY <1>5
    <2>5. CASE x # p
      <3>1. One(x \in hs \ {p}) = One(x \in hs) /\ One(Used(t.tab, cs, x)) = One(Used(s.tab, cs, x))
        BY <2>3, <2>5 DEF One
      <3> QED BY <1>5, <2>2, <2>3, <2>4, <2>5, <3>1
    <2>6. CASE x = p
      <3>1. One(x \in hs \ {p}) = 0 /\ One(x \in hs) = 1 /\ One(Used(t.tab, cs, x)) = 1
              /\ One(Used(s.tab, cs, x)) = 0 /\ One(x \in cs) = 0 /\ One(x = s.cr3) = 0
        BY <1>0, <1>3, <2>3, <2>6 DEF One
      <3> QED BY <1>3, <1>5, <2>2, <2>4, <2>6, <3>1
    <2> QED BY <2>5, <2>6
  <1>8. PagesOK(t, cs, hs \ {p})
    BY <1>7 DEF PagesOK
  <1>9. PhysInv(t, cs, hs \ {p})
    BY <1>1, <1>4, <1>5, <1>8, PhysIs
  <1>10. SameLeaves(s.tab, t.tab, cs)
    BY <1>4, <1>5 DEF SameLeaves
  <1>11. Filled(s.tab, t.tab, cs)
    BY <1>0, <1>4, <1>5 DEF Filled, Lower
  <1>12. t.tab[c][i] # NoEntry /\ t.tab[t.tab[c][i].phys] = NoTable
    BY <1>2, <1>4, <1>5, <1>6
  <1> QED BY <1>4, <1>5, <1>9, <1>10, <1>11, <1>12 DEF t, Tabled

\* A page in hand becomes the PML4 of a context.
LEMMA ContextStep ==
  ASSUME Bounds, NEW s, NEW cs, PhysInv(s, cs, {}), NEW u, NEW p, Allocated(s, u, p)
  PROVE  LET t == [u EXCEPT !.tab[p] = NewPml4(u, p)]
         IN  PhysInv(t, cs \cup {p}, {}) /\ Contexted(s, t, cs) /\ p # 0 /\ p \notin cs
  <1> DEFINE t == [u EXCEPT !.tab[p] = NewPml4(u, p)]
             row == NewPml4(u, p)
             new == PutContext(u.tab, p, row)
             all == cs \cup {p}
  <1>1. /\ PhysInv(u, cs, {} \cup {p}) /\ p \notin cs /\ ~Used(s.tab, cs, p)
        /\ u.tab = s.tab /\ u.cr3 = s.cr3 /\ u.counting = s.counting
        /\ Known(p) /\ p \in Frames /\ p \in Nat /\ p # 0
    <2>1. /\ PhysInv(u, cs, {} \cup {p}) /\ p \notin cs /\ ~Used(s.tab, cs, p)
          /\ u.tab = s.tab /\ u.cr3 = s.cr3 /\ u.counting = s.counting
      BY AllocStep DEF Loaded
    <2>2. Known(p) /\ p \in Frames /\ p \in Nat /\ p # 0
      BY DEF Allocated, Frames
    <2> QED BY <2>1, <2>2
  <1>2. /\ u \in MemType /\ u.cr3 \in cs /\ AllocOK(u.free, u.bump) /\ TabOK(u.tab, cs)
        /\ PagesOK(u, cs, {p}) /\ u.cr3 \in Frames
    BY <1>1, PhysIs, ContextIs
  <1>3. /\ row \in [Slots -> EntryType] /\ row[Recursive] # NoEntry /\ row[Recursive].phys = p
        /\ \A i \in KernelSlots : row[i] = u.tab[u.cr3][i]
        /\ \A i \in UserSlots : row[i] = NoEntry
    <2>1. /\ Entry(p, {"P"}) \in EntryType /\ Entry(p, {"P"}).phys = p /\ NoEntry \in EntryType
          /\ NoEntry.phys = 0
      BY <1>1 DEF Entry, EntryType, NoEntry
    <2>2. \A i \in Slots : u.tab[u.cr3][i] \in EntryType
      BY <1>2, EntryIs DEF TabOK
    <2>3. /\ \A i \in KernelSlots : i \in Slots
          /\ \A i \in UserSlots : i \in Slots /\ i \notin KernelSlots /\ i # Recursive
          /\ Recursive \in Slots /\ Recursive \notin KernelSlots
      BY SlotFacts
    <2> HIDE DEF t, new
    <2>4. row = [i \in Slots |-> IF i \in KernelSlots THEN u.tab[u.cr3][i]
                                 ELSE IF i = Recursive THEN Entry(p, {"P"}) ELSE NoEntry]
      BY DEF NewPml4
    <2> HIDE DEF row
    <2>5. Entry(p, {"P"}) # NoEntry
      BY <1>1, <2>1
    <2> QED BY <2>1, <2>2, <2>3, <2>4, <2>5
  <1>4. /\ TabOK(new, all)
        /\ \A x \in Nat : Single(x) => (Used(new, all, x) <=> Used(u.tab, cs, x))
        /\ \A d \in cs : new[d] = u.tab[d]
        /\ \A d \in cs, k \in Lower, l \in Slots : Leaf(new, d, k, l) = Leaf(u.tab, d, k, l)
    <2> HIDE DEF t, row, new
    <2>1. ~Used(u.tab, cs, p)
      BY <1>1
    <2> DEFINE tb == u.tab
               c == u.cr3
    <2>2. TabOK(tb, cs) /\ c \in cs /\ IsPml4(tb, c, p, row) /\ ~Used(tb, cs, p)
      BY <1>2, <1>3, <2>1 DEF IsPml4
    <2>3. new = PutContext(tb, p, row)
      BY DEF new
    <2> HIDE DEF tb, c
    <2>4. LET w == PutContext(tb, p, row)
              v == cs \cup {p}
          IN  /\ TabOK(w, v)
              /\ \A x \in Nat : Single(x) => (Used(w, v, x) <=> Used(tb, cs, x))
              /\ \A d \in cs : w[d] = tb[d]
              /\ \A i \in KernelSlots : w[p][i] = tb[BootPml4][i]
              /\ \A d \in cs, k \in Lower, l \in Slots : Leaf(w, d, k, l) = Leaf(tb, d, k, l)
      BY <1>1, <2>2, ContextWrite
    <2> QED BY <2>3, <2>4 DEF tb
  <1>5. /\ t \in MemType /\ t.tab = new /\ t.rc = u.rc /\ t.counting = u.counting /\ t.free = u.free
        /\ t.bump = u.bump /\ t.cr3 = u.cr3
    <2>1. new \in Tabs
      BY <1>4 DEF TabOK
    <2> HIDE DEF row
    <2> QED BY <1>2, <2>1 DEF MemType, PutContext, row
  <1> HIDE DEF t, row, new
  <1>6. ASSUME NEW x \in Frames, Known(x)
        PROVE  /\ Offered(t.free, t.bump, x) => x \notin {}
               /\ Offered(t.free, t.bump, x) \/ x \in {} => x \notin all /\ ~Used(t.tab, all, x)
               /\ t.counting => t.rc[x] = One(Used(t.tab, all, x)) + One(x \in all) + One(x = t.cr3)
                                            + One(x \in {})
    <2>1. x \in Nat /\ Single(x)
      BY <1>6 DEF Frames, Single
    <2>2. /\ Offered(u.free, u.bump, x) => x \notin {p}
          /\ Offered(u.free, u.bump, x) \/ x \in {p} => x \notin cs /\ ~Used(u.tab, cs, x)
          /\ u.counting => u.rc[x] = One(Used(u.tab, cs, x)) + One(x \in cs) + One(x = u.cr3) + One(x \in {p})
      BY <1>2, <1>6 DEF PagesOK
    <2>3. Used(t.tab, all, x) <=> Used(u.tab, cs, x)
      BY <1>4, <1>5, <2>1
    <2>4. One(x = t.cr3) = One(x = u.cr3) /\ One(Used(t.tab, all, x)) = One(Used(u.tab, cs, x))
            /\ One(x \in {}) = 0
      BY <1>5, <2>3 DEF One
    <2>5. One(x \in all) = One(x \in cs) + One(x \in {p}) /\ One(x \in cs) \in Nat /\ One(x \in {p}) \in Nat
      BY <1>1 DEF One
    <2>6. One(x = u.cr3) \in Nat /\ One(Used(u.tab, cs, x)) \in Nat
      BY DEF One
    <2>7. t.counting => t.rc[x] = One(Used(t.tab, all, x)) + One(x \in all) + One(x = t.cr3) + One(x \in {})
      BY <1>5, <2>2, <2>4, <2>5, <2>6
    <2> QED BY <1>5, <2>2, <2>3, <2>7
  <1>7. PagesOK(t, all, {})
    BY <1>6 DEF PagesOK
  <1>8. PhysInv(t, all, {})
    BY <1>2, <1>4, <1>5, <1>7, PhysIs
  <1>9. SameLeaves(s.tab, t.tab, cs) /\ \A d \in cs : t.tab[d] = s.tab[d]
    BY <1>1, <1>4, <1>5 DEF SameLeaves
  <1> QED BY <1>1, <1>5, <1>8, <1>9 DEF t, Contexted

\* Another context is loaded.
LEMMA SetCtxStep ==
  ASSUME Bounds, NEW s, NEW cs, PhysInv(s, cs, {}), NEW c \in cs
  PROVE  LET t == set_ctx(s, c)
         IN  PhysInv(t, cs, {}) /\ Loaded(s, t, c)
  <1> DEFINE u == AddRef(s, c, 1)
             v == [u EXCEPT !.cr3 = c]
             o == s.cr3
             t == set_ctx(s, c)
  <1>1. /\ s \in MemType /\ o \in cs /\ AllocOK(s.free, s.bump) /\ TabOK(s.tab, cs)
        /\ PagesOK(s, cs, {})
    BY PhysIs
  <1>2. /\ c \in Frames /\ c \in Nat /\ ~Used(s.tab, cs, c)
        /\ o \in Frames /\ o \in Nat /\ ~Used(s.tab, cs, o)
    BY <1>1, ContextIs
  <1> HIDE DEF o
  <1>3. /\ u \in MemType
        /\ u.tab = s.tab /\ u.counting = s.counting /\ u.free = s.free
        /\ u.bump = s.bump /\ u.cr3 = s.cr3
        /\ u.rc = IF s.counting /\ Known(c) THEN [s.rc EXCEPT ![c] = @ + 1] ELSE s.rc
    <2>1. 1 \in Int
      OBVIOUS
    <2> QED BY <1>1, <1>2, <2>1, AddRefIs, Zenon
  <1> HIDE DEF u
  <1>4. /\ v \in MemType /\ v.tab = u.tab /\ v.counting = u.counting /\ v.free = u.free
        /\ v.bump = u.bump /\ v.cr3 = c /\ v.rc = u.rc
    BY <1>2, <1>3 DEF MemType
  <1>5. t = Drop(v, o)
    BY DEF set_ctx, u, o
  <1> HIDE DEF v, t
  <1>6. ASSUME NEW x \in Frames, Known(x), s.counting
        PROVE  /\ v.rc[x] = One(Used(s.tab, cs, x)) + One(x \in cs) + One(x = o) + One(x = c)
               /\ s.rc[x] \in Int /\ v.rc[x] \in Int
    <2>1. s.rc[x] = One(Used(s.tab, cs, x)) + One(x \in cs) + One(x = o) + One(x \in {})
      BY <1>1, <1>6 DEF PagesOK, o
    <2>2. v.rc[x] = s.rc[x] + One(x = c) /\ s.rc[x] \in Int /\ v.rc[x] \in Int
      <3>1. CASE x = c
        BY <1>1, <1>3, <1>4, <1>6, <3>1, MemFields DEF One
      <3>2. CASE x # c
        BY <1>1, <1>3, <1>4, <1>6, <3>2, MemFields DEF One
      <3> QED BY <3>1, <3>2
    <2>3. One(x \in {}) = 0 /\ One(x = c) \in Nat /\ One(Used(s.tab, cs, x)) \in Nat /\ One(x \in cs) \in Nat
            /\ One(x = o) \in Nat
      BY DEF One
    <2> QED BY <2>1, <2>2, <2>3
  <1>7. ASSUME s.counting, Known(o) PROVE v.rc[o] # 1
    <2>1. v.rc[o] = One(Used(s.tab, cs, o)) + One(o \in cs) + One(o = o) + One(o = c)
      BY <1>2, <1>6, <1>7
    <2>2. One(Used(s.tab, cs, o)) = 0 /\ One(o \in cs) = 1 /\ One(o = o) = 1 /\ One(o = c) \in Nat
      BY <1>1, <1>2 DEF One
    <2> QED BY <2>1, <2>2
  <1>8. /\ t \in MemType /\ AllocOK(t.free, t.bump)
        /\ t.tab = v.tab /\ t.counting = v.counting /\ t.cr3 = v.cr3
        /\ t.rc = IF v.counting /\ Known(o) THEN [v.rc EXCEPT ![o] = @ - 1] ELSE v.rc
        /\ \A q \in Nat : Offered(t.free, t.bump, q) <=>
             Offered(v.free, v.bump, q) \/ (q = o /\ v.counting /\ Known(o) /\ v.rc[o] = 1)
    <2>1. AllocOK(v.free, v.bump) /\ (v.counting /\ Known(o) /\ v.rc[o] = 1 => ~Offered(v.free, v.bump, o))
      BY <1>1, <1>3, <1>4, <1>7
    <2> QED BY <1>2, <1>4, <1>5, <2>1, DropIs
  <1>9. ASSUME NEW x \in Frames, Known(x)
        PROVE  /\ Offered(t.free, t.bump, x) => x \notin {}
               /\ Offered(t.free, t.bump, x) \/ x \in {} => x \notin cs /\ ~Used(t.tab, cs, x)
               /\ t.counting => t.rc[x] = One(Used(t.tab, cs, x)) + One(x \in cs) + One(x = t.cr3)
                                            + One(x \in {})
    <2>1. x \in Nat
      BY DEF Frames
    <2>2. Offered(s.free, s.bump, x) => x \notin cs /\ ~Used(s.tab, cs, x)
      BY <1>1, <1>9 DEF PagesOK
    <2>3. Offered(t.free, t.bump, x) => Offered(s.free, s.bump, x)
      BY <1>3, <1>4, <1>7, <1>8, <2>1
    <2>4. t.tab = s.tab /\ t.counting = s.counting /\ t.cr3 = c
      BY <1>3, <1>4, <1>8
    <2>5. ASSUME s.counting PROVE t.rc[x] = v.rc[x] - One(x = o)
      <3>1. v.rc \in [Frames -> Int]
        BY <1>4, MemFields
      <3>2. CASE x = o
        BY <1>3, <1>4, <1>8, <1>9, <2>5, <3>1, <3>2 DEF One
      <3>3. CASE x # o
        BY <1>3, <1>4, <1>8, <1>9, <2>5, <3>1, <3>3 DEF One
      <3> QED BY <3>2, <3>3
    <2>6. One(x \in {}) = 0 /\ One(x = c) \in Nat /\ One(Used(s.tab, cs, x)) \in Nat /\ One(x \in cs) \in Nat
            /\ One(x = o) \in Nat
      BY DEF One
    <2>7. s.counting => t.rc[x] = One(Used(s.tab, cs, x)) + One(x \in cs) + One(x = c) + One(x \in {})
      BY <1>6, <1>9, <2>5, <2>6
    <2> QED BY <2>2, <2>3, <2>4, <2>7
  <1>10. PagesOK(t, cs, {})
    BY <1>9 DEF PagesOK
  <1>11. PhysInv(t, cs, {})
    <2>1. t.tab = s.tab /\ t.cr3 = c
      BY <1>3, <1>4, <1>8
    <2> QED BY <1>1, <1>8, <1>10, <2>1, PhysIs
  <1> QED BY <1>3, <1>4, <1>8, <1>11 DEF t, Loaded

\* What page::map does: the page is mapped, or it is given back.
Mapped(s, t, cs, v, e, err) ==
  /\ t.cr3 = s.cr3 /\ t.counting = s.counting /\ Filled(s.tab, t.tab, cs)
  /\ IF err = "" THEN OneLeaf(s.tab, t.tab, cs, s.cr3, Slot(v), Index(v), e)
     ELSE SameLeaves(s.tab, t.tab, cs)
  /\ err = "AlreadyMapped" => Leaf(s.tab, s.cr3, Slot(v), Index(v)) # NoEntry
  /\ s.tab[s.cr3][Slot(v)] # NoEntry => err \in {"", "AlreadyMapped"}

\* map with a page table that is there.
LEMMA MapEntry ==
  ASSUME Bounds, NEW s, NEW cs, NEW hs, PhysInv(s, cs, hs), NEW v \in Nat, Slot(v) # Recursive,
         s.tab[s.cr3][Slot(v)] # NoEntry, NEW p \in Nat, NEW flags \in SUBSET {"P", "W", "U"},
         Single(p) => p \in hs /\ Known(p)
  PROVE  LET q == s.tab[s.cr3][Slot(v)].phys
             t == [s EXCEPT !.tab[q][Index(v)] = Entry(p, flags)]
             d == Drop(s, p)
         IN  /\ s.tab[q][Index(v)] = NoEntry =>
                  PhysInv(t, cs, hs \ {p}) /\ Mapped(s, t, cs, v, Entry(p, flags), "")
             /\ s.tab[q][Index(v)] # NoEntry =>
                  PhysInv(d, cs, hs \ {p}) /\ Mapped(s, d, cs, v, Entry(p, flags), "AlreadyMapped")
  <1> DEFINE q == s.tab[s.cr3][Slot(v)].phys
             t == [s EXCEPT !.tab[q][Index(v)] = Entry(p, flags)]
             d == Drop(s, p)
             e == Entry(p, flags)
             i == Slot(v)
             j == Index(v)
  <1>1. s.cr3 \in cs
    BY PhysIs
  <1>2. i \in Lower /\ j \in Slots
    BY SlotIndexType DEF Lower
  <1>3. e \in EntryType /\ e.phys = p
    BY DEF Entry, EntryType
  <1>4. ASSUME s.tab[q][Index(v)] = NoEntry
        PROVE  PhysInv(t, cs, hs \ {p}) /\ Mapped(s, t, cs, v, e, "")
    <2> HIDE DEF e, i, j, q
    <2>1. EntryAt(s, cs, s.cr3, i, j, q) /\ s.tab[q][j] = NoEntry
      BY <1>1, <1>2, <1>4 DEF EntryAt, i, j, q
    <2>2. t = SetCell(s, q, j, e)
      BY DEF e, j, SetCell
    <2> HIDE DEF t
    <2>3. PhysInv(t, cs, hs \ {e.phys}) /\ Wrote(s, t, cs, s.cr3, i, j, e)
      <3>1. Single(e.phys) => e.phys \in hs /\ Known(e.phys)
        BY <1>3
      <3> QED BY <1>3, <2>1, <2>2, <3>1, MapStep
    <2> QED BY <1>3, <2>3 DEF Mapped, Wrote, i, j
  <1>5. ASSUME s.tab[q][Index(v)] # NoEntry
        PROVE  PhysInv(d, cs, hs \ {p}) /\ Mapped(s, d, cs, v, e, "AlreadyMapped")
    <2>1. PhysInv(d, cs, hs \ {p}) /\ Loaded(s, d, s.cr3)
      BY DropHeld DEF Single
    <2>2. Leaf(s.tab, s.cr3, Slot(v), Index(v)) # NoEntry
      BY <1>5 DEF Leaf
    <2> HIDE DEF d, e
    <2> QED BY <2>1, <2>2 DEF Mapped, Loaded, SameLeaves, Filled
  <1> QED BY <1>4, <1>5

\* map.
LEMMA MapIs ==
  ASSUME Bounds, NEW s, NEW cs, NEW hs, PhysInv(s, cs, hs), NEW v \in Nat, Slot(v) # Recursive,
         Slot(v) \in KernelSlots /\ s.tab[s.cr3][Slot(v)] = NoEntry => cs = {BootPml4},
         NEW p \in Nat, NEW flags \in SUBSET {"P", "W", "U"}, Single(p) => p \in hs /\ Known(p)
  PROVE  LET m == map(s, p, v, flags)
         IN  PhysInv(m.s, cs, hs \ {p}) /\ Mapped(s, m.s, cs, v, Entry(p, flags), m.err)
  <1> DEFINE a == alloc(s)
             c == s.cr3
             i == Slot(v)
             j == Index(v)
             e == Entry(p, flags)
             m == map(s, p, v, flags)
             u == NewTable(a.s, c, i, a.page)
  <1>1. /\ s \in MemType /\ c \in cs /\ AllocOK(s.free, s.bump) /\ TabOK(s.tab, cs)
        /\ PagesOK(s, cs, hs)
    BY PhysIs
  <1>2. i \in Lower /\ j \in Slots
    BY SlotIndexType DEF Lower
  <1>3. CASE s.tab[c][i] # NoEntry
    <2>1. m = IF s.tab[s.tab[c][i].phys][j] # NoEntry THEN [s |-> Drop(s, p), err |-> "AlreadyMapped"]
              ELSE [s |-> [s EXCEPT !.tab[s.tab[c][i].phys][j] = e], err |-> ""]
      BY <1>3 DEF map, Pml4Entry, Pml1Entry
    <2>2. /\ s.tab[s.tab[c][i].phys][j] = NoEntry =>
               /\ PhysInv([s EXCEPT !.tab[s.tab[c][i].phys][j] = e], cs, hs \ {p})
               /\ Mapped(s, [s EXCEPT !.tab[s.tab[c][i].phys][j] = e], cs, v, e, "")
          /\ s.tab[s.tab[c][i].phys][j] # NoEntry =>
               PhysInv(Drop(s, p), cs, hs \ {p}) /\ Mapped(s, Drop(s, p), cs, v, e, "AlreadyMapped")
      BY <1>3, MapEntry
    <2> HIDE DEF m, e
    <2>3. CASE s.tab[s.tab[c][i].phys][j] = NoEntry
      <3>1. m.s = [s EXCEPT !.tab[s.tab[c][i].phys][j] = e] /\ m.err = ""
        BY <2>1, <2>3
      <3> QED BY <2>2, <2>3, <3>1 DEF m, e
    <2>4. CASE s.tab[s.tab[c][i].phys][j] # NoEntry
      <3>1. m.s = Drop(s, p) /\ m.err = "AlreadyMapped"
        BY <2>1, <2>4
      <3> QED BY <2>2, <2>4, <3>1 DEF m, e
    <2> QED BY <2>3, <2>4
  <1>4. CASE s.tab[c][i] = NoEntry /\ a.page = 0
    <2>1. m.s = Drop(s, p) /\ m.err = "CannotAllocatePageTable"
      BY <1>4 DEF map, Pml4Entry
    <2>2. LET d == Drop(s, p)
          IN  PhysInv(d, cs, hs \ {p}) /\ Loaded(s, d, s.cr3)
      BY DropHeld DEF Single
    <2> HIDE DEF m, e
    <2>3. Mapped(s, m.s, cs, v, e, m.err)
      BY <1>4, <2>1, <2>2 DEF Mapped, Loaded, SameLeaves, Filled
    <2> QED BY <2>1, <2>2, <2>3 DEF m, e
  <1>5. CASE s.tab[c][i] = NoEntry /\ a.page # 0
    <2>1. Allocated(s, a.s, a.page)
      BY <1>1, <1>5, AllocIs
    <2>2. PICK b, g : b = a.s /\ g = a.page
      OBVIOUS
    <2>3. m = IF u.tab[u.tab[u.cr3][i].phys][j] # NoEntry THEN [s |-> Drop(u, p), err |-> "AlreadyMapped"]
              ELSE [s |-> [u EXCEPT !.tab[u.tab[u.cr3][i].phys][j] = e], err |-> ""]
      BY <1>5 DEF map, Pml4Entry, Pml1Entry
    <2>4. u = NewTable(b, c, i, g) /\ Allocated(s, b, g)
      BY <2>1, <2>2
    <2> HIDE DEF a, u, i, j, c, m, e
    <2>5. /\ PhysInv(u, cs, (hs \cup {g}) \ {g}) /\ u.cr3 = b.cr3 /\ u.counting = b.counting
          /\ SameLeaves(b.tab, u.tab, cs) /\ Filled(b.tab, u.tab, cs)
          /\ u.tab[c][i] # NoEntry /\ u.tab[u.tab[c][i].phys] = NoTable
          /\ g \notin hs /\ b.tab = s.tab /\ b.cr3 = c /\ b.counting = s.counting
      <3>1. /\ PhysInv(b, cs, hs \cup {g}) /\ g \notin hs
            /\ b.tab = s.tab /\ b.cr3 = s.cr3 /\ b.counting = s.counting
        BY <2>4, AllocStep DEF Loaded
      <3>2. g \in Frames /\ Known(g) /\ g \in hs \cup {g}
        BY <2>4 DEF Allocated
      <3>3. b.tab[c][i] = NoEntry /\ (i \in KernelSlots => cs = {BootPml4})
        BY <1>5, <3>1 DEF i, c
      <3>4. /\ PhysInv(u, cs, (hs \cup {g}) \ {g}) /\ u.cr3 = b.cr3 /\ u.counting = b.counting
            /\ SameLeaves(b.tab, u.tab, cs) /\ Filled(b.tab, u.tab, cs)
            /\ u.tab[c][i] # NoEntry /\ u.tab[u.tab[c][i].phys] = NoTable
        <4>1. PICK both : both = hs \cup {g}
          OBVIOUS
        <4>2. SlotAt(b, cs, both, c, i, g) /\ PhysInv(b, cs, both)
          BY <1>1, <1>2, <3>1, <3>2, <3>3, <4>1 DEF SlotAt
        <4>3. PhysInv(u, cs, both \ {g}) /\ Tabled(b, u, cs, c, i)
          BY <2>4, <4>2, TableStep
        <4> QED BY <4>1, <4>3 DEF Tabled
      <3> QED BY <3>1, <3>4 DEF c
    <2>6. (hs \cup {g}) \ {g} = hs
      BY <2>5
    <2>7. PhysInv(u, cs, hs) /\ u.cr3 = c /\ u.counting = s.counting
          /\ SameLeaves(s.tab, u.tab, cs) /\ Filled(s.tab, u.tab, cs)
      BY <2>5, <2>6
    <2>8. u.tab[u.tab[c][i].phys][j] = NoEntry
      BY <1>2, <2>5 DEF NoTable
    <2> DEFINE w == [u EXCEPT !.tab[u.tab[c][i].phys][j] = e]
    <2>9. PhysInv(w, cs, hs \ {p}) /\ Mapped(u, w, cs, v, e, "")
      BY <2>5, <2>7, <2>8, MapEntry DEF i, j, e
    <2>10. m.s = w /\ m.err = ""
      BY <2>3, <2>7, <2>8
    <2> HIDE DEF w
    <2>11. Mapped(s, w, cs, v, e, "")
      <3>1. /\ w.cr3 = u.cr3 /\ w.counting = u.counting /\ Filled(u.tab, w.tab, cs)
            /\ OneLeaf(u.tab, w.tab, cs, u.cr3, i, j, e)
        BY <2>9 DEF Mapped, i, j
      <3>2. Filled(s.tab, w.tab, cs)
        BY <2>7, <3>1 DEF Filled
      <3>3. OneLeaf(s.tab, w.tab, cs, c, i, j, e)
        BY <2>7, <3>1 DEF OneLeaf, SameLeaves
      <3> QED BY <1>5, <2>7, <3>1, <3>2, <3>3 DEF Mapped, i, j, c
    <2> QED BY <2>9, <2>10, <2>11 DEF m, e
  <1> QED BY <1>3, <1>4, <1>5

(***************************************************************************)
(* The loops over the pages of a range.                                    *)
(***************************************************************************)

\* A step of a user page: it does not change what other contexts translate, nor the
\* kernel half.
Local(s, t, cs) ==
  /\ t.cr3 = s.cr3 /\ t.counting = s.counting /\ Filled(s.tab, t.tab, cs)
  /\ \A d \in cs, k \in Lower, l \in Slots :
       (d # s.cr3 \/ k \in KernelSlots) => Leaf(t.tab, d, k, l) = Leaf(s.tab, d, k, l)

\* The bodies of the loops.
AllocBody(s, r, flags, prev, i) ==
  IF i = 0 THEN [s |-> s, err |-> ""]
  ELSE IF prev.err # "" THEN prev
  ELSE IF alloc(prev.s).page = 0 THEN [s |-> alloc(prev.s).s, err |-> "MemoryExhausted"]
  ELSE map(alloc(prev.s).s, alloc(prev.s).page, (r.base + i - 1) % WordPages, flags)

ReleaseBody(s, r, prev, i) ==
  IF i = 0 THEN s
  ELSE SetEntry(Drop(prev, Pml1Entry(prev, (r.base + i - 1) % WordPages).phys),
                (r.base + i - 1) % WordPages, NoEntry)

ModifyBody(s, r, flags, prev, i) ==
  IF i = 0 THEN s
  ELSE SetEntry(prev, (r.base + i - 1) % WordPages,
                Entry(Pml1Entry(prev, (r.base + i - 1) % WordPages).phys, flags))

Body(kind, s, r, flags, prev, i) ==
  IF kind = "alloc" THEN AllocBody(s, r, flags, prev, i)
  ELSE IF kind = "release" THEN ReleaseBody(s, r, prev, i)
  ELSE ModifyBody(s, r, flags, prev, i)

IsLoop(kind, s, r, flags, f, n) == f = [i \in 0 .. n |-> Body(kind, s, r, flags, f[i - 1], i)]

\* The bodies look at the state before only after the first step.
LEMMA BodyStarts ==
  ASSUME NEW kind, NEW s, NEW r, NEW flags, NEW x, NEW y
  PROVE  Body(kind, s, r, flags, x, 0) = Body(kind, s, r, flags, y, 0)
  BY DEF Body, AllocBody, ReleaseBody, ModifyBody

\* The loops are defined.
LEMMA LoopExists ==
  ASSUME NEW kind, NEW s, NEW r, NEW flags, NEW n \in Nat
  PROVE  \E f : IsLoop(kind, s, r, flags, f, n)
  <1> DEFINE B(x, i) == Body(kind, s, r, flags, x, i)
             K == {k \in Nat : \E f : IsLoop(kind, s, r, flags, f, k)}
  <1>1. 0 \in K
    <2> DEFINE f == [i \in 0 .. 0 |-> B(0, 0)]
    <2>1. \A i \in 0 .. 0 : B(f[i - 1], i) = B(0, 0)
      BY BodyStarts
    <2>2. f = [i \in 0 .. 0 |-> B(f[i - 1], i)]
      <3> HIDE DEF B
      <3> QED BY <2>1
    <2> QED BY <2>2 DEF IsLoop
  <1>2. ASSUME NEW k \in Nat, k \in K PROVE k + 1 \in K
    <2>1. PICK f : IsLoop(kind, s, r, flags, f, k)
      BY <1>2
    <2> DEFINE g == [i \in 0 .. k + 1 |-> IF i <= k THEN f[i] ELSE B(f[k], k + 1)]
    <2>2. \A i \in 0 .. k : f[i] = B(f[i - 1], i)
      BY <2>1 DEF IsLoop
    <2> HIDE DEF B
    <2>3. ASSUME NEW i \in 0 .. k + 1 PROVE g[i] = B(g[i - 1], i)
      <3>1. CASE i = 0
        <4>1. g[i] = f[0] /\ f[0] = B(f[0 - 1], 0)
          BY <2>2, <3>1
        <4>2. B(f[0 - 1], 0) = B(g[i - 1], 0)
          BY BodyStarts DEF B
        <4> QED BY <3>1, <4>1, <4>2
      <3>2. CASE i # 0 /\ i <= k
        <4>1. g[i] = f[i] /\ i - 1 \in 0 .. k + 1 /\ g[i - 1] = f[i - 1] /\ i \in 0 .. k
          BY <3>2
        <4> HIDE DEF g
        <4> QED BY <2>2, <4>1
      <3>3. CASE i = k + 1
        <4>1. g[i] = B(f[k], k + 1) /\ g[i - 1] = f[k]
          BY <3>3
        <4> HIDE DEF g
        <4> QED BY <3>3, <4>1
      <3> QED BY <2>3, <3>1, <3>2, <3>3
    <2>4. g = [i \in 0 .. k + 1 |-> g[i]]
      OBVIOUS
    <2> HIDE DEF g
    <2>5. g = [i \in 0 .. k + 1 |-> B(g[i - 1], i)]
      BY <2>3, <2>4
    <2>6. IsLoop(kind, s, r, flags, g, k + 1)
      BY <2>5 DEF IsLoop, B
    <2> QED BY <2>6
  <1>3. \A k \in Nat : k \in K => k + 1 \in K
    BY <1>2
  <1> HIDE DEF K
  <1>4. Nat \subseteq K
    BY <1>1, <1>3, SetInduction
  <1> QED BY <1>4 DEF K

\* The three loops are such.
LEMMA LoopIs ==
  ASSUME NEW s, NEW r, NEW flags, r.count \in Nat
  PROVE  /\ \E f : IsLoop("alloc", s, r, flags, f, r.count) /\ AllocPages(s, r, flags) = f[r.count]
         /\ \E f : IsLoop("release", s, r, flags, f, r.count) /\ ReleasePages(s, r) = f[r.count]
         /\ \E f : IsLoop("modify", s, r, flags, f, r.count) /\ ModifyPages(s, r, flags) = f[r.count]
  <1>1. \E f : IsLoop("alloc", s, r, flags, f, r.count) /\ AllocPages(s, r, flags) = f[r.count]
    <2> DEFINE P(f) == f = [i \in 0 .. r.count |-> AllocBody(s, r, flags, f[i - 1], i)]
    <2>1. \A f : IsLoop("alloc", s, r, flags, f, r.count) <=> P(f)
      BY DEF IsLoop, Body
    <2>2. \E f : P(f)
      BY <2>1, LoopExists
    <2>3. P(CHOOSE f : P(f))
      <3> HIDE DEF P
      <3> QED BY <2>2
    <2>4. AllocPages(s, r, flags) = (CHOOSE f : P(f))[r.count]
      BY DEF AllocPages, AllocBody
    <2> HIDE DEF P
    <2> QED BY <2>1, <2>3, <2>4
  <1>2. \E f : IsLoop("release", s, r, flags, f, r.count) /\ ReleasePages(s, r) = f[r.count]
    <2> DEFINE P(f) == f = [i \in 0 .. r.count |-> ReleaseBody(s, r, f[i - 1], i)]
    <2>1. \A f : IsLoop("release", s, r, flags, f, r.count) <=> P(f)
      BY DEF IsLoop, Body
    <2>2. \E f : P(f)
      BY <2>1, LoopExists
    <2>3. P(CHOOSE f : P(f))
      <3> HIDE DEF P
      <3> QED BY <2>2
    <2>4. ReleasePages(s, r) = (CHOOSE f : P(f))[r.count]
      BY DEF ReleasePages, ReleaseBody
    <2> HIDE DEF P
    <2> QED BY <2>1, <2>3, <2>4
  <1>3. \E f : IsLoop("modify", s, r, flags, f, r.count) /\ ModifyPages(s, r, flags) = f[r.count]
    <2> DEFINE P(f) == f = [i \in 0 .. r.count |-> ModifyBody(s, r, flags, f[i - 1], i)]
    <2>1. \A f : IsLoop("modify", s, r, flags, f, r.count) <=> P(f)
      BY DEF IsLoop, Body
    <2>2. \E f : P(f)
      BY <2>1, LoopExists
    <2>3. P(CHOOSE f : P(f))
      <3> HIDE DEF P
      <3> QED BY <2>2
    <2>4. ModifyPages(s, r, flags) = (CHOOSE f : P(f))[r.count]
      BY DEF ModifyPages, ModifyBody
    <2> HIDE DEF P
    <2> QED BY <2>1, <2>3, <2>4
  <1> QED BY <1>1, <1>2, <1>3

\* Steps of user pages one after the other.
LEMMA LocalTrans ==
  ASSUME NEW s, NEW t, NEW u, NEW cs, Local(s, t, cs), Local(t, u, cs)
  PROVE  Local(s, u, cs)
  BY DEF Local, Filled

\* No step.
LEMMA LocalRefl ==
  ASSUME NEW s, NEW cs
  PROVE  Local(s, s, cs)
  BY DEF Local, Filled

\* alloc and map of one user page.
LEMMA AllocPage ==
  ASSUME Bounds, NEW s, NEW cs, PhysInv(s, cs, {}), NEW v \in Nat, v < MAX_USER_PAGE,
         NEW flags \in SUBSET {"P", "W", "U"}, alloc(s).page # 0
  PROVE  LET t == map(alloc(s).s, alloc(s).page, v, flags).s
         IN  PhysInv(t, cs, {}) /\ Local(s, t, cs)
  <1>1. PICK b, p : b = alloc(s).s /\ p = alloc(s).page
    OBVIOUS
  <1>2. Allocated(s, b, p)
    BY <1>1, AllocIs, PhysIs
  <1>3. PICK hs : hs = {} \cup {p}
    OBVIOUS
  <1>4. PhysInv(b, cs, hs) /\ Loaded(s, b, s.cr3)
    BY <1>2, <1>3, AllocStep
  <1>5. p \in Nat /\ p \in hs /\ Known(p) /\ hs \ {p} = {}
    BY <1>2, <1>3 DEF Allocated, Frames
  <1>6. Slot(v) # Recursive /\ Slot(v) \notin KernelSlots
    BY UserSlot, SlotFacts
  <1>7. PICK m : m = map(b, p, v, flags)
    OBVIOUS
  <1>8. PhysInv(m.s, cs, hs \ {p}) /\ Mapped(b, m.s, cs, v, Entry(p, flags), m.err)
    BY <1>4, <1>5, <1>6, <1>7, MapIs
  <1>9. PICK t : t = m.s
    OBVIOUS
  <1>10. PhysInv(t, cs, {})
    BY <1>5, <1>8, <1>9
  <1>11. Local(s, t, cs)
    <2>1. b.tab = s.tab /\ b.cr3 = s.cr3 /\ b.counting = s.counting
      BY <1>4 DEF Loaded
    <2>2. /\ t.cr3 = b.cr3 /\ t.counting = b.counting /\ Filled(b.tab, t.tab, cs)
          /\ OneLeaf(b.tab, t.tab, cs, b.cr3, Slot(v), Index(v), Entry(p, flags)) \/ SameLeaves(b.tab, t.tab, cs)
      BY <1>8, <1>9 DEF Mapped
    <2> QED BY <1>6, <2>1, <2>2 DEF Local, OneLeaf, SameLeaves
  <1> QED BY <1>1, <1>7, <1>9, <1>10, <1>11

\* One entry of the loaded context.
LEMMA UserEntry ==
  ASSUME Bounds, NEW s, NEW cs, PhysInv(s, cs, {}), NEW v \in Nat, v < MAX_USER_PAGE,
         Pml4Entry(s, v) # NoEntry
  PROVE  /\ EntryAt(s, cs, s.cr3, Slot(v), Index(v), Pml4Entry(s, v).phys)
         /\ Pml1Entry(s, v) = s.tab[Pml4Entry(s, v).phys][Index(v)]
         /\ Slot(v) \notin KernelSlots
         /\ Pml1Entry(s, v).phys \in Nat
  <1>1. Slot(v) \in Lower /\ Index(v) \in Slots /\ Slot(v) \notin KernelSlots
    BY UserSlot, SlotFacts, SlotIndexType DEF Lower
  <1>2. s.cr3 \in cs /\ TabOK(s.tab, cs)
    BY PhysIs
  <1>3. EntryAt(s, cs, s.cr3, Slot(v), Index(v), Pml4Entry(s, v).phys)
    BY <1>1, <1>2 DEF EntryAt, Pml4Entry
  <1>4. s.tab[s.cr3][Slot(v)].phys \in Frames
    BY <1>1, <1>2, TableIs DEF Pml4Entry
  <1>5. Pml1Entry(s, v).phys \in Nat
    BY <1>1, <1>2, <1>4, EntryIs DEF Pml1Entry, Pml4Entry, TabOK
  <1> QED BY <1>1, <1>3, <1>5 DEF Pml1Entry

\* What is written at a user page is local.
LEMMA WroteLocal ==
  ASSUME NEW s, NEW t, NEW cs, NEW i, i \notin KernelSlots, NEW j, NEW e,
         Wrote(s, t, cs, s.cr3, i, j, e)
  PROVE  Local(s, t, cs)
  BY DEF Wrote, Local, OneLeaf

\* release of one user page.
LEMMA ReleasePage ==
  ASSUME Bounds, NEW s, NEW cs, PhysInv(s, cs, {}), NEW v \in Nat, v < MAX_USER_PAGE,
         Pml4Entry(s, v) # NoEntry
  PROVE  LET t == SetEntry(Drop(s, Pml1Entry(s, v).phys), v, NoEntry)
         IN  PhysInv(t, cs, {}) /\ Local(s, t, cs)
  <1>1. PICK c, i, j, q : c = s.cr3 /\ i = Slot(v) /\ j = Index(v) /\ q = Pml4Entry(s, v).phys
    OBVIOUS
  <1>2. EntryAt(s, cs, c, i, j, q) /\ Pml1Entry(s, v) = s.tab[q][j] /\ i \notin KernelSlots
    BY <1>1, UserEntry
  <1>3. PICK d : d = Drop(s, s.tab[q][j].phys)
    OBVIOUS
  <1>4. PICK t : t = SetCell(d, q, j, NoEntry)
    OBVIOUS
  <1>5. Loaded(s, d, s.cr3) /\ PhysInv(t, cs, {}) /\ Wrote(s, t, cs, c, i, j, NoEntry)
    BY <1>2, <1>3, <1>4, ReleaseStep
  <1>6. Pml4Entry(d, v) = Pml4Entry(s, v)
    BY <1>5 DEF Loaded, Pml4Entry
  <1>7. SetEntry(d, v, NoEntry) = t
    BY <1>1, <1>4, <1>6 DEF SetEntry, SetCell
  <1>8. Local(s, t, cs)
    BY <1>1, <1>2, <1>5, WroteLocal
  <1> QED BY <1>2, <1>3, <1>5, <1>7, <1>8

\* modify of one user page.
LEMMA ModifyPage ==
  ASSUME Bounds, NEW s, NEW cs, PhysInv(s, cs, {}), NEW v \in Nat, v < MAX_USER_PAGE,
         Pml4Entry(s, v) # NoEntry, NEW flags \in SUBSET {"P", "W", "U"}
  PROVE  LET t == SetEntry(s, v, Entry(Pml1Entry(s, v).phys, flags))
         IN  PhysInv(t, cs, {}) /\ Local(s, t, cs)
  <1>1. PICK c, i, j, q, e : /\ c = s.cr3 /\ i = Slot(v) /\ j = Index(v) /\ q = Pml4Entry(s, v).phys
                             /\ e = Entry(Pml1Entry(s, v).phys, flags)
    OBVIOUS
  <1>2. /\ EntryAt(s, cs, c, i, j, q) /\ Pml1Entry(s, v) = s.tab[q][j] /\ i \notin KernelSlots
        /\ Pml1Entry(s, v).phys \in Nat
    BY <1>1, UserEntry
  <1>3. e \in EntryType /\ e.phys = s.tab[q][j].phys
    BY <1>1, <1>2 DEF Entry, EntryType
  <1>4. PICK t : t = SetCell(s, q, j, e)
    OBVIOUS
  <1>5. PhysInv(t, cs, {}) /\ Wrote(s, t, cs, c, i, j, e)
    BY <1>2, <1>3, <1>4, ModifyStep
  <1>6. SetEntry(s, v, e) = t
    BY <1>1, <1>4 DEF SetEntry, SetCell
  <1>7. Local(s, t, cs)
    BY <1>1, <1>2, <1>5, WroteLocal
  <1> QED BY <1>1, <1>5, <1>6, <1>7

\* The pages of a range of the user half.
LEMMA RangePage ==
  ASSUME NEW r, r.base \in Nat, r.count \in Nat, r.base + r.count <= MAX_USER_PAGE,
         NEW k \in Nat, k + 1 <= r.count
  PROVE  LET v == (r.base + (k + 1) - 1) % WordPages
         IN  v = r.base + k /\ v \in Nat /\ v < MAX_USER_PAGE
  <1>1. MAX_USER_PAGE \in Nat /\ WordPages \in Nat \ {0} /\ MAX_USER_PAGE < WordPages
    BY Limits
  <1>2. r.base + k \in Nat /\ r.base + k < MAX_USER_PAGE /\ r.base + (k + 1) - 1 = r.base + k
    BY <1>1
  <1>3. \A x, y \in Nat : x < y => x % y = x
    OBVIOUS
  <1> QED BY <1>1, <1>2, <1>3

\* A page table that a step does not take away.
LEMMA LocalFilled ==
  ASSUME Bounds, NEW s, NEW t, NEW cs, PhysInv(s, cs, {}), Local(s, t, cs),
         NEW v \in Nat, v < MAX_USER_PAGE, Pml4Entry(s, v) # NoEntry
  PROVE  Pml4Entry(t, v) # NoEntry
  <1>1. Slot(v) \in Lower /\ s.cr3 \in cs
    BY UserSlot, SlotFacts, PhysIs DEF Lower
  <1> QED BY <1>1 DEF Local, Filled, Pml4Entry

\* alloc_page.
LEMMA AllocPagesIs ==
  ASSUME Bounds, NEW s, NEW cs, PhysInv(s, cs, {}), NEW r, r.base \in Nat, r.count \in Nat,
         r.base + r.count <= MAX_USER_PAGE, NEW flags \in SUBSET {"P", "W", "U"}
  PROVE  LET t == AllocPages(s, r, flags).s
         IN  PhysInv(t, cs, {}) /\ Local(s, t, cs)
  <1>1. PICK f : IsLoop("alloc", s, r, flags, f, r.count) /\ AllocPages(s, r, flags) = f[r.count]
    BY LoopIs, ZenonT(60)
  <1>2. \A i \in 0 .. r.count : f[i] = AllocBody(s, r, flags, f[i - 1], i)
    BY <1>1 DEF IsLoop, Body
  <1> DEFINE K == {k \in Nat : k <= r.count => PhysInv(f[k].s, cs, {}) /\ Local(s, f[k].s, cs)}
  <1>3. 0 \in K
    <2>1. PICK y, z : y = f[0] /\ z = f[0 - 1]
      OBVIOUS
    <2>2. y = AllocBody(s, r, flags, z, 0)
      BY <1>2, <2>1
    <2>3. y.s = s
      BY <2>2 DEF AllocBody
    <2> QED BY <2>1, <2>3, LocalRefl
  <1>4. ASSUME NEW k \in Nat, k \in K, k + 1 <= r.count
        PROVE  PhysInv(f[k + 1].s, cs, {}) /\ Local(s, f[k + 1].s, cs)
    <2>1. PICK y, z, x, v, n : /\ y = f[k + 1] /\ z = f[k] /\ x = z.s
                               /\ n = k + 1 /\ v = (r.base + n - 1) % WordPages
      OBVIOUS
    <2>2. PhysInv(x, cs, {}) /\ Local(s, x, cs)
      BY <1>4, <2>1
    <2>3. v \in Nat /\ v < MAX_USER_PAGE /\ n \in Nat /\ n # 0
      BY <1>4, <2>1, RangePage
    <2>4. y = AllocBody(s, r, flags, z, n)
      <3>1. k + 1 \in 0 .. r.count /\ (k + 1) - 1 = k
        BY <1>4
      <3> QED BY <1>2, <2>1, <3>1
    <2>5. CASE z.err # ""
      <3>1. y = z
        BY <2>3, <2>4, <2>5 DEF AllocBody
      <3> QED BY <2>1, <2>2, <3>1
    <2>6. CASE z.err = "" /\ alloc(x).page = 0
      <3>1. x = z.s /\ alloc(z.s).page = 0
        BY <2>1, <2>6
      <3>2. y = [s |-> alloc(z.s).s, err |-> "MemoryExhausted"]
        BY <2>3, <2>4, <2>6, <3>1 DEF AllocBody
      <3>3. y.s = alloc(x).s
        BY <3>1, <3>2
      <3>4. alloc(x).s = x
        <4>1. (alloc(x).page = 0 /\ alloc(x).s = x) \/ Allocated(x, alloc(x).s, alloc(x).page)
          BY <2>2, AllocIs, PhysIs
        <4> QED BY <2>6, <4>1 DEF Allocated
      <3> QED BY <2>1, <2>2, <3>3, <3>4
    <2>7. CASE z.err = "" /\ alloc(x).page # 0
      <3>1. PICK t : t = map(alloc(x).s, alloc(x).page, v, flags).s
        OBVIOUS
      <3>2. y.s = t
        BY <2>1, <2>3, <2>4, <2>7, <3>1 DEF AllocBody
      <3>3. PhysInv(t, cs, {}) /\ Local(x, t, cs)
        BY <2>2, <2>3, <2>7, <3>1, AllocPage
      <3>4. Local(s, t, cs)
        BY <2>2, <3>3, LocalTrans
      <3> QED BY <2>1, <3>2, <3>3, <3>4
    <2> QED BY <2>5, <2>6, <2>7
  <1>5. \A k \in Nat : k \in K => k + 1 \in K
    BY <1>4
  <1>6. Nat \subseteq K
    <2> HIDE DEF K
    <2> QED BY <1>3, <1>5, SetInduction
  <1> QED BY <1>1, <1>6

\* release_page.
LEMMA ReleasePagesIs ==
  ASSUME Bounds, NEW s, NEW cs, PhysInv(s, cs, {}), NEW r, r.base \in Nat, r.count \in Nat,
         r.base + r.count <= MAX_USER_PAGE,
         \A k \in Nat : k < r.count => Pml4Entry(s, r.base + k) # NoEntry
  PROVE  LET t == ReleasePages(s, r)
         IN  PhysInv(t, cs, {}) /\ Local(s, t, cs)
  <1>1. PICK f : IsLoop("release", s, r, {}, f, r.count) /\ ReleasePages(s, r) = f[r.count]
    BY LoopIs
  <1>2. \A i \in 0 .. r.count : f[i] = ReleaseBody(s, r, f[i - 1], i)
    BY <1>1 DEF IsLoop, Body
  <1> DEFINE K == {k \in Nat : k <= r.count => PhysInv(f[k], cs, {}) /\ Local(s, f[k], cs)}
  <1>3. 0 \in K
    <2>1. f[0] = s
      BY <1>2 DEF ReleaseBody
    <2> QED BY <2>1, LocalRefl
  <1>4. ASSUME NEW k \in Nat, k \in K, k + 1 <= r.count
        PROVE  PhysInv(f[k + 1], cs, {}) /\ Local(s, f[k + 1], cs)
    <2>1. PICK x, v : x = f[k] /\ v = (r.base + (k + 1) - 1) % WordPages
      OBVIOUS
    <2>2. PhysInv(x, cs, {}) /\ Local(s, x, cs)
      BY <1>4, <2>1
    <2>3. v \in Nat /\ v < MAX_USER_PAGE /\ v = r.base + k
      BY <1>4, <2>1, RangePage
    <2>4. f[k + 1] = ReleaseBody(s, r, f[k], k + 1)
      <3>1. k + 1 \in 0 .. r.count /\ (k + 1) - 1 = k
        BY <1>4
      <3> QED BY <1>2, <3>1
    <2>5. Pml4Entry(s, v) # NoEntry
      BY <1>4, <2>3
    <2>6. Pml4Entry(x, v) # NoEntry
      BY <2>2, <2>3, <2>5, LocalFilled
    <2>7. PICK t : t = SetEntry(Drop(x, Pml1Entry(x, v).phys), v, NoEntry)
      OBVIOUS
    <2>8. f[k + 1] = t
      BY <2>1, <2>4, <2>7 DEF ReleaseBody
    <2>9. PhysInv(t, cs, {}) /\ Local(x, t, cs)
      BY <2>2, <2>3, <2>6, <2>7, ReleasePage
    <2>10. Local(s, t, cs)
      BY <2>2, <2>9, LocalTrans
    <2> QED BY <2>8, <2>9, <2>10
  <1>5. \A k \in Nat : k \in K => k + 1 \in K
    BY <1>4
  <1>6. Nat \subseteq K
    <2> HIDE DEF K
    <2> QED BY <1>3, <1>5, SetInduction
  <1> QED BY <1>1, <1>6

\* modify_page.
LEMMA ModifyPagesIs ==
  ASSUME Bounds, NEW s, NEW cs, PhysInv(s, cs, {}), NEW r, r.base \in Nat, r.count \in Nat,
         r.base + r.count <= MAX_USER_PAGE, NEW flags \in SUBSET {"P", "W", "U"},
         \A k \in Nat : k < r.count => Pml4Entry(s, r.base + k) # NoEntry
  PROVE  LET t == ModifyPages(s, r, flags)
         IN  PhysInv(t, cs, {}) /\ Local(s, t, cs)
  <1>1. PICK f : IsLoop("modify", s, r, flags, f, r.count) /\ ModifyPages(s, r, flags) = f[r.count]
    BY LoopIs, ZenonT(60)
  <1>2. \A i \in 0 .. r.count : f[i] = ModifyBody(s, r, flags, f[i - 1], i)
    BY <1>1 DEF IsLoop, Body
  <1> DEFINE K == {k \in Nat : k <= r.count => PhysInv(f[k], cs, {}) /\ Local(s, f[k], cs)}
  <1>3. 0 \in K
    <2>1. f[0] = s
      BY <1>2 DEF ModifyBody
    <2> QED BY <2>1, LocalRefl
  <1>4. ASSUME NEW k \in Nat, k \in K, k + 1 <= r.count
        PROVE  PhysInv(f[k + 1], cs, {}) /\ Local(s, f[k + 1], cs)
    <2>1. PICK x, v : x = f[k] /\ v = (r.base + (k + 1) - 1) % WordPages
      OBVIOUS
    <2>2. PhysInv(x, cs, {}) /\ Local(s, x, cs)
      BY <1>4, <2>1
    <2>3. v \in Nat /\ v < MAX_USER_PAGE /\ v = r.base + k
      BY <1>4, <2>1, RangePage
    <2>4. f[k + 1] = ModifyBody(s, r, flags, f[k], k + 1)
      <3>1. k + 1 \in 0 .. r.count /\ (k + 1) - 1 = k
        BY <1>4
      <3> QED BY <1>2, <3>1
    <2>5. Pml4Entry(s, v) # NoEntry
      BY <1>4, <2>3
    <2>6. Pml4Entry(x, v) # NoEntry
      BY <2>2, <2>3, <2>5, LocalFilled
    <2>7. PICK t : t = SetEntry(x, v, Entry(Pml1Entry(x, v).phys, flags))
      OBVIOUS
    <2>8. f[k + 1] = t
      BY <2>1, <2>4, <2>7 DEF ModifyBody
    <2>9. PhysInv(t, cs, {}) /\ Local(x, t, cs)
      BY <2>2, <2>3, <2>6, <2>7, ModifyPage
    <2>10. Local(s, t, cs)
      BY <2>2, <2>9, LocalTrans
    <2> QED BY <2>8, <2>9, <2>10
  <1>5. \A k \in Nat : k \in K => k + 1 \in K
    BY <1>4
  <1>6. Nat \subseteq K
    <2> HIDE DEF K
    <2> QED BY <1>3, <1>5, SetInduction
  <1> QED BY <1>1, <1>6

(***************************************************************************)
(* The kernel half.                                                        *)
(***************************************************************************)
SameKernel(tb, new) == \A v \in KERNEL_BASE .. KernelTop - 1 : KernelEntry(new, v) = KernelEntry(tb, v)
FullKernel(tb) == \A i \in KernelSlots : tb[BootPml4][i] # NoEntry

\* is_mapped, in terms of the translation.
LEMMA MappedIs ==
  ASSUME NEW s, NEW v
  PROVE  is_mapped(s, v) <=> Leaf(s.tab, s.cr3, Slot(v), Index(v)) # NoEntry
  BY DEF is_mapped, Leaf, Pml4Entry, Pml1Entry

\* The slots of kernel addresses.
LEMMA KernelRange ==
  ASSUME NEW v \in KERNEL_BASE .. KernelTop - 1
  PROVE  /\ v \in Nat /\ v \in KERNEL_BASE .. WordPages - 1 /\ Slot(v) \in KernelSlots
         /\ Slot(v) \in Lower /\ Index(v) \in Slots /\ Slot(v) # Recursive
  <1>1. v \in KERNEL_BASE .. WordPages - 1 /\ v \in Nat /\ v < KernelTop
    <2>1. KERNEL_BASE \in Nat /\ KernelTop \in Nat /\ KernelTop < WordPages /\ WordPages \in Nat
      BY KernelSlot, BootAssumption
    <2> QED BY <2>1
  <1>2. Slot(v) \in KernelSlots
    BY <1>1, KernelSlot
  <1> QED BY <1>1, <1>2, SlotFacts, SlotIndexType DEF Lower

\* All contexts translate kernel addresses as the first one.
LEMMA KernelLeaf ==
  ASSUME Bounds, NEW tb, NEW cs, TabOK(tb, cs), NEW c \in cs, NEW v \in KERNEL_BASE .. KernelTop - 1
  PROVE  Leaf(tb, c, Slot(v), Index(v)) = KernelEntry(tb, v)
  <1>1. tb[c][Slot(v)] = tb[BootPml4][Slot(v)]
    BY KernelRange, ContextIs
  <1> QED BY <1>1 DEF Leaf, KernelEntry

\* A kernel address is mapped in the context that is loaded if it is in the first one.
LEMMA KernelMapped ==
  ASSUME Bounds, NEW s, NEW cs, NEW hs, PhysInv(s, cs, hs), NEW v \in KERNEL_BASE .. KernelTop - 1
  PROVE  is_mapped(s, v) <=> KernelEntry(s.tab, v) # NoEntry
  <1>1. s.cr3 \in cs /\ TabOK(s.tab, cs)
    BY PhysIs
  <1> QED BY <1>1, KernelLeaf, MappedIs

\* Steps that do not change what kernel slots translate.
LEMMA KernelKept ==
  ASSUME NEW tb, NEW new, NEW cs, BootPml4 \in cs,
         \A k \in KernelSlots, l \in Slots : Leaf(new, BootPml4, k, l) = Leaf(tb, BootPml4, k, l)
  PROVE  SameKernel(tb, new)
  <1>1. ASSUME NEW v \in KERNEL_BASE .. KernelTop - 1 PROVE KernelEntry(new, v) = KernelEntry(tb, v)
    <2>1. Slot(v) \in KernelSlots /\ Index(v) \in Slots
      BY KernelRange
    <2>2. Leaf(new, BootPml4, Slot(v), Index(v)) = Leaf(tb, BootPml4, Slot(v), Index(v))
      BY <2>1
    <2> QED BY <2>2 DEF Leaf, KernelEntry
  <1> QED BY <1>1 DEF SameKernel

\* The heap and the counters are in the kernel half.
LEMMA SameKernelKeeps ==
  ASSUME NEW tb, NEW new, SameKernel(tb, new)
  PROVE  /\ \A top : HeapOK(tb, top) => HeapOK(new, top)
         /\ CountersMapped(tb) => CountersMapped(new)
  <1>1. KERNEL_BASE \in Nat /\ KernelTop \in Nat /\ End \in Nat /\ KERNEL_BASE <= End /\ End < KernelTop
    <2>1. Vram \in Nat /\ PhysRc \in Nat /\ KERNEL_BASE <= Vram /\ Vram + VramPages <= PhysRc /\ PhysRc < End
            /\ End \in Nat /\ End < KernelTop
      BY Layout
    <2> QED BY <2>1, KernelSlot, BootAssumption
  <1>2. ASSUME NEW top, HeapOK(tb, top) PROVE HeapOK(new, top)
    <2>1. /\ top \in Nat /\ top >= End
          /\ \A v \in top .. KernelTop - 1 : KernelEntry(tb, v) = NoEntry
          /\ \A v \in End .. top - 1 : v < KernelTop /\ Known(KernelEntry(tb, v).phys)
      BY <1>2 DEF HeapOK
    <2>2. ASSUME NEW v \in top .. KernelTop - 1 PROVE KernelEntry(new, v) = NoEntry
      <3>1. v \in KERNEL_BASE .. KernelTop - 1
        BY <1>1, <2>1
      <3> QED BY <2>1, <3>1 DEF SameKernel
    <2>3. ASSUME NEW v \in End .. top - 1 PROVE v < KernelTop /\ Known(KernelEntry(new, v).phys)
      <3>1. v \in KERNEL_BASE .. KernelTop - 1
        BY <1>1, <2>1
      <3>2. KernelEntry(new, v) = KernelEntry(tb, v)
        BY <3>1 DEF SameKernel
      <3> QED BY <2>1, <3>2
    <2> QED BY <2>1, <2>2, <2>3 DEF HeapOK
  <1>3. ASSUME CountersMapped(tb) PROVE CountersMapped(new)
    <2>1. ASSUME NEW p \in Frames, Known(p) PROVE KernelEntry(new, RcPage(p)) # NoEntry
      <3>1. RcPage(p) \in KERNEL_BASE .. KernelTop - 1
        BY <1>1, RcPageIs
      <3>2. KernelEntry(tb, RcPage(p)) # NoEntry
        BY <1>3, <2>1 DEF CountersMapped
      <3> QED BY <3>1, <3>2 DEF SameKernel
    <2> QED BY <2>1 DEF CountersMapped
  <1> QED BY <1>2, <1>3

\* Two kernel addresses are not mapped to the same page of the allocator.
LEMMA KernelUnique ==
  ASSUME Bounds, NEW tb, NEW cs, TabOK(tb, cs),
         NEW v \in KERNEL_BASE .. KernelTop - 1, NEW w \in KERNEL_BASE .. KernelTop - 1,
         Known(KernelEntry(tb, v).phys), KernelEntry(tb, v).phys = KernelEntry(tb, w).phys
  PROVE  v = w
  <1>1. BootPml4 \in cs
    BY DEF TabOK, ContextsOK
  <1>2. tb[BootPml4][Slot(v)] # NoEntry /\ tb[BootPml4][Slot(w)] # NoEntry
    <2>1. ~Known(NoEntry.phys)
      BY ZeroIs DEF NoEntry
    <2> QED BY <2>1 DEF KernelEntry
  <1>3. PICK q, r : q = tb[BootPml4][Slot(v)].phys /\ r = tb[BootPml4][Slot(w)].phys
    OBVIOUS
  <1>4. /\ Slot(v) \in Lower /\ Slot(w) \in Lower /\ Index(v) \in Slots /\ Index(w) \in Slots
        /\ v \in KERNEL_BASE .. WordPages - 1 /\ w \in KERNEL_BASE .. WordPages - 1
    BY KernelRange
  <1>5. q \in Frames /\ IsTable(tb, cs, q) /\ r \in Frames /\ IsTable(tb, cs, r)
    BY <1>1, <1>2, <1>3, <1>4, TableIs
  <1>6. KernelEntry(tb, v) = tb[q][Index(v)] /\ KernelEntry(tb, w) = tb[r][Index(w)]
    BY <1>2, <1>3 DEF KernelEntry
  <1>7. q = r /\ Index(v) = Index(w)
    <2>1. IsCell(tb, cs, q, Index(v)) /\ IsCell(tb, cs, r, Index(w))
      BY <1>4, <1>5 DEF IsCell
    <2>2. Single(tb[q][Index(v)].phys) /\ tb[q][Index(v)].phys = tb[r][Index(w)].phys
      BY <1>6 DEF Single
    <2> QED BY <1>4, <1>5, <2>1, <2>2 DEF TabOK, CellsOK
  <1>8. Slot(v) = Slot(w)
    <2>1. PICK i \in Lower, k \in Lower : i = Slot(v) /\ k = Slot(w)
      BY <1>4
    <2>2. tb[BootPml4][i] # NoEntry /\ tb[BootPml4][k] # NoEntry /\ tb[BootPml4][i].phys = tb[BootPml4][k].phys
      BY <1>2, <1>3, <1>7, <2>1
    <2>3. i = k
      BY <1>1, <2>2, TableUnique
    <2> QED BY <2>1, <2>3
  <1> QED BY <1>4, <1>7, <1>8, KernelSlot

\* The heap ends before the kernel half does: every page of it has a page of the
\* allocator.
LEMMA HeapBound ==
  ASSUME Bounds, NEW tb, NEW cs, TabOK(tb, cs), NEW top, HeapOK(tb, top)
  PROVE  top \in Nat /\ top < KernelTop /\ KERNEL_BASE <= top /\ KernelEntry(tb, top) = NoEntry
  <1>1. /\ KERNEL_BASE \in Nat /\ KernelTop \in Nat /\ End \in Nat /\ KERNEL_BASE <= End
        /\ MaxPhys \in Nat /\ HighBoundary \in Nat /\ End + MaxPhys < KernelTop + HighBoundary
        /\ HighBoundary <= MaxPhys
    <2>1. Vram \in Nat /\ PhysRc \in Nat /\ KERNEL_BASE <= Vram /\ Vram + VramPages <= PhysRc /\ PhysRc < End
            /\ End \in Nat
      BY Layout
    <2> QED BY <2>1, Layout, KernelSlot, BootAssumption
  <1>2. /\ top \in Nat /\ top >= End
        /\ \A v \in top .. KernelTop - 1 : KernelEntry(tb, v) = NoEntry
        /\ \A v \in End .. top - 1 : v < KernelTop /\ Known(KernelEntry(tb, v).phys)
    BY DEF HeapOK
  <1> DEFINE S == End .. top - 1
             T == HighBoundary .. MaxPhys - 1
             f == [v \in S |-> KernelEntry(tb, v).phys]
  <1>3. ASSUME NEW v \in S
        PROVE  /\ v \in KERNEL_BASE .. KernelTop - 1 /\ KernelEntry(tb, v).phys \in T
               /\ Known(KernelEntry(tb, v).phys)
    <2>1. v \in KERNEL_BASE .. KernelTop - 1 /\ Known(KernelEntry(tb, v).phys)
      BY <1>1, <1>2
    <2>2. KernelEntry(tb, v).phys \in Nat
      <3>1. BootPml4 \in cs
        BY DEF TabOK, ContextsOK
      <3>2. Slot(v) \in Lower /\ Index(v) \in Slots
        BY <2>1, KernelRange
      <3>3. CASE tb[BootPml4][Slot(v)] = NoEntry
        BY <3>3 DEF KernelEntry, NoEntry
      <3>4. CASE tb[BootPml4][Slot(v)] # NoEntry
        <4>1. tb[BootPml4][Slot(v)].phys \in Frames /\ tb \in Tabs
          BY <3>1, <3>2, <3>4, TableIs DEF TabOK
        <4> QED BY <3>2, <3>4, <4>1, EntryIs DEF KernelEntry
      <3> QED BY <3>3, <3>4
    <2>3. KernelEntry(tb, v).phys >= HighBoundary
      BY <2>1, <2>2, KnownIs
    <2>4. KernelEntry(tb, v).phys < MaxPhys
      <3>1. PICK p \in Nat : p = KernelEntry(tb, v).phys
        BY <2>2
      <3>2. PICK r \in DOMAIN regions : regions[r].begin <= p /\ p < regions[r].end
        BY <2>1, <3>1 DEF Known
      <3>3. regions[r].end <= MaxPhys /\ regions[r].end \in Nat
        <4>1. regions \in Seq([begin: Nat, end: Nat])
          BY DEF Bounds
        <4>2. regions[r] \in [begin: Nat, end: Nat]
          BY <4>1, SeqElement, Zenon
        <4> QED BY <4>2 DEF Bounds
      <3> QED BY <1>1, <3>1, <3>2, <3>3
    <2> QED BY <1>1, <2>1, <2>2, <2>3, <2>4
  <1>4. f \in Injection(S, T)
    <2>1. f \in [S -> T]
      BY <1>3
    <2>2. ASSUME NEW v \in S, NEW w \in S, f[v] = f[w] PROVE v = w
      BY <1>3, <2>2, KernelUnique
    <2> HIDE DEF f, S, T
    <2> QED BY <2>1, <2>2 DEF Injection, IsInjective
  <1>5. /\ IsFiniteSet(S) /\ Cardinality(S) = IF End > top - 1 THEN 0 ELSE (top - 1) - End + 1
        /\ IsFiniteSet(T)
        /\ Cardinality(T) = IF HighBoundary > MaxPhys - 1 THEN 0 ELSE (MaxPhys - 1) - HighBoundary + 1
    <2>1. End \in Int /\ top - 1 \in Int /\ HighBoundary \in Int /\ MaxPhys - 1 \in Int
      BY <1>1, <1>2
    <2> QED BY <2>1, FS_Interval
  <1>6. Cardinality(S) <= Cardinality(T)
    <2> HIDE DEF f, S, T
    <2> QED BY <1>4, <1>5, FS_Injection
  <1>7. top < KernelTop /\ KERNEL_BASE <= top
    <2> HIDE DEF S, T
    <2> QED BY <1>1, <1>2, <1>5, <1>6
  <1> QED BY <1>1, <1>2, <1>7

\* A range that has wrapped around fails its validation.
LEMMA WrapFails ==
  ASSUME Bounds, NEW s, NEW cs, NEW hs, PhysInv(s, cs, hs), NEW top, HeapOK(s.tab, top)
  PROVE  NotWrapped(s)
  <1>1. s.cr3 \in cs /\ TabOK(s.tab, cs)
    BY PhysIs
  <1>2. is_mapped(s, WordPages - 1)
    <2>1. s.tab[s.cr3][Recursive] # NoEntry /\ s.tab[s.cr3][Recursive].phys = s.cr3
      BY <1>1, ContextIs
    <2>2. Slot(WordPages - 1) = Recursive /\ Index(WordPages - 1) = Recursive
      BY KernelSlot
    <2> QED BY <2>1, <2>2 DEF is_mapped, Pml4Entry, Pml1Entry
  <1>3. ~is_mapped(s, KernelTop - 1)
    <2>1. top \in Nat /\ top < KernelTop /\ KERNEL_BASE <= top /\ KernelTop \in Nat /\ KERNEL_BASE \in Nat
      BY <1>1, HeapBound, KernelSlot
    <2>2. KernelTop - 1 \in KERNEL_BASE .. KernelTop - 1 /\ KernelTop - 1 \in top .. KernelTop - 1
      BY <2>1
    <2>3. KernelEntry(s.tab, KernelTop - 1) = NoEntry
      BY <2>2 DEF HeapOK
    <2> QED BY <2>2, <2>3, KernelMapped
  <1> QED BY <1>2, <1>3 DEF NotWrapped

(***************************************************************************)
(* Steps of the specification that leave the regions as they are.          *)
(***************************************************************************)

\* The parts of the invariant that have mem as a parameter.
LEMMA Steady ==
  ASSUME regions' = regions
  PROVE  /\ PhysInv(mem', contexts', {}) => PhysInv(mem, contexts, {})'
         /\ HeapOK(mem'.tab, ptr') => HeapOK(mem.tab, ptr)'
         /\ CountersMapped(mem'.tab) => CountersMapped(mem.tab)'
  <1>1. PhysInv(mem', contexts', {}) => PhysInv(mem, contexts, {})'
    BY DEF PhysInv, MemType, Tabs, EntryType, Frames, AllocOK, ContextsOK, TablesOK, CellsOK, PagesOK,
           Single, Known, Offered, Listed, Fresh, IsCell, IsTable, Used, One, UserSlots
  <1>2. HeapOK(mem'.tab, ptr') => HeapOK(mem.tab, ptr)'
    BY DEF HeapOK, KernelEntry, Known
  <1>3. CountersMapped(mem'.tab) => CountersMapped(mem.tab)'
    BY DEF CountersMapped, KernelEntry, Known
  <1> QED BY <1>1, <1>2, <1>3

\* A call of a task whose context is c: it changes the user half of c only.
CallStep(s, t, cs, c) ==
  /\ PhysInv(t, cs, {}) /\ t.cr3 = c /\ t.counting = s.counting /\ Filled(s.tab, t.tab, cs)
  /\ \A d \in cs, k \in Lower, l \in Slots :
       (d # c \/ k \in KernelSlots) => Leaf(t.tab, d, k, l) = Leaf(s.tab, d, k, l)

\* A buffer that is mapped in context c.
Holds(tb, c, j) ==
  \A p \in j.pages : /\ Leaf(tb, c, Slot(p), Index(p)) # NoEntry
                     /\ j.flags \subseteq Leaf(tb, c, Slot(p), Index(p)).flags

Alone(cx, t) == \A u \in Tasks \ {t} : cx[u] # cx[t]

Stay == memoryMap' = memoryMap /\ regions' = regions
Stopped == at' = [pc |-> "panic", i |-> 0, rax |-> NoEntry]

\* The context of the task is loaded.
LEMMA OnStep ==
  ASSUME Bounds, PhysInv(mem, contexts, {}), NEW t, ctx[t] \in contexts
  PROVE  PhysInv(On(t), contexts, {}) /\ Loaded(mem, On(t), ctx[t])
  BY SetCtxStep DEF On

\* What a call does after that.
LEMMA LocalCall ==
  ASSUME NEW s, NEW o, NEW t, NEW cs, NEW c, Loaded(s, o, c), PhysInv(t, cs, {}), Local(o, t, cs)
  PROVE  CallStep(s, t, cs, c)
  BY DEF Loaded, Local, CallStep

\* A call that does nothing else.
LEMMA OnlyLoaded ==
  ASSUME Bounds, PhysInv(mem, contexts, {}), NEW t, ctx[t] \in contexts
  PROVE  CallStep(mem, On(t), contexts, ctx[t])
  <1>1. PICK o : o = On(t)
    OBVIOUS
  <1>2. PhysInv(o, contexts, {}) /\ Loaded(mem, o, ctx[t])
    BY <1>1, OnStep
  <1>3. Local(o, o, contexts)
    BY LocalRefl
  <1> QED BY <1>1, <1>2, <1>3, LocalCall

\* The task has a context.
LEMMA TaskContext ==
  ASSUME TasksOK, NEW t \in Tasks, ctx[t] # 0
  PROVE  ctx[t] \in contexts
  BY DEF TasksOK

\* The kernel half after a call.
LEMMA CallKernel ==
  ASSUME NEW s, NEW t, NEW cs, NEW c, BootPml4 \in cs, CallStep(s, t, cs, c)
  PROVE  /\ SameKernel(s.tab, t.tab)
         /\ FullKernel(s.tab) => FullKernel(t.tab)
  <1>1. \A k \in KernelSlots : k \in Lower
    BY SlotFacts DEF Lower
  <1>2. \A k \in KernelSlots, l \in Slots : Leaf(t.tab, BootPml4, k, l) = Leaf(s.tab, BootPml4, k, l)
    BY <1>1 DEF CallStep
  <1>3. SameKernel(s.tab, t.tab)
    BY <1>2, KernelKept
  <1>4. FullKernel(s.tab) => FullKernel(t.tab)
    BY <1>1 DEF CallStep, Filled, FullKernel
  <1> QED BY <1>3, <1>4

\* The parts of the invariant that are about memory, after a call.
LEMMA CallMemory ==
  ASSUME Inv, at.pc = "run", Stay, at' = at \/ Stopped, ptr' = ptr, contexts' = contexts,
         NEW c, CallStep(mem, mem', contexts, c)
  PROVE  (AtOK /\ RegionsOK /\ PhysInv(mem, contexts, {}) /\ HeapOK(mem.tab, ptr) /\ PhaseOK)'
  <1>1. /\ AtOK /\ RegionsOK /\ PhysInv(mem, contexts, {}) /\ HeapOK(mem.tab, ptr) /\ PhaseOK
    BY DEF Inv
  <1>2. BootPml4 \in contexts
    BY <1>1 DEF PhysInv, ContextsOK
  <1>3. SameKernel(mem.tab, mem'.tab) /\ (FullKernel(mem.tab) => FullKernel(mem'.tab))
    BY <1>2, CallKernel
  <1>4. at'.pc \in {"run", "panic"} /\ (at' = at \/ Stopped)
    BY DEF Stopped
  <1>5. AtOK'
    <2>1. at' \in [pc: Booting \cup {"run", "panic"}, i: Nat, rax: EntryType]
      BY <1>1 DEF AtOK, Stopped, EntryType, NoEntry
    <2> QED BY <1>1, <1>4, <2>1 DEF AtOK, Stay, Booting, Early, EntryType
  <1>6. RegionsOK'
    BY <1>1, <1>4 DEF RegionsOK, Stay, IsRegion, ClippedBegin
  <1>7. PhysInv(mem, contexts, {})' /\ HeapOK(mem.tab, ptr)'
    <2>1. PhysInv(mem', contexts', {}) /\ HeapOK(mem'.tab, ptr')
      BY <1>1, <1>3, SameKernelKeeps DEF CallStep
    <2> QED BY <2>1, Steady DEF Stay
  <1>8. PhaseOK'
    <2>1. mem.counting /\ mem'.counting /\ CountersMapped(mem.tab) /\ FullKernel(mem.tab)
      BY <1>1 DEF PhaseOK, CallStep, FullKernel
    <2>2. CountersMapped(mem.tab)'
      BY <1>3, <2>1, SameKernelKeeps, Steady DEF Stay
    <2>3. FullKernel(mem'.tab)
      BY <1>3, <2>1
    <2> QED BY <1>4, <2>1, <2>2, <2>3 DEF PhaseOK, Early, Booting, FullKernel
  <1> QED BY <1>5, <1>6, <1>7, <1>8

\* What is borrowed, in terms of the translation.
LEMMA BorrowIs ==
  ASSUME PhysInv(mem, contexts, {})
  PROVE  BorrowHolds <=> \A t \in Tasks : Alone(ctx, t) => Holds(mem.tab, ctx[t], job[t])
  <1>1. mem \in MemType
    BY PhysIs
  <1>2. \A c : [mem EXCEPT !.cr3 = c].tab = mem.tab /\ [mem EXCEPT !.cr3 = c].cr3 = c
    BY <1>1 DEF MemType
  <1>3. ASSUME NEW t \in Tasks, NEW p
        PROVE  LET own == [mem EXCEPT !.cr3 = ctx[t]]
               IN  is_mapped(own, p) /\ job[t].flags \subseteq Pml1Entry(own, p).flags
                   <=> /\ Leaf(mem.tab, ctx[t], Slot(p), Index(p)) # NoEntry
                       /\ job[t].flags \subseteq Leaf(mem.tab, ctx[t], Slot(p), Index(p)).flags
    BY <1>2 DEF is_mapped, Leaf, Pml4Entry, Pml1Entry
  <1> QED BY <1>3 DEF BorrowHolds, Alone, Holds

\* The same after a step.
LEMMA BorrowIsNext ==
  ASSUME PhysInv(mem', contexts', {})
  PROVE  (\A t \in Tasks : Alone(ctx', t) => Holds(mem'.tab, ctx'[t], job'[t])) => BorrowHolds'
  <1>1. mem' \in MemType
    BY PhysIs
  <1>2. \A c : [mem' EXCEPT !.cr3 = c].tab = mem'.tab /\ [mem' EXCEPT !.cr3 = c].cr3 = c
    BY <1>1 DEF MemType
  <1>3. ASSUME NEW t \in Tasks, NEW p,
               Leaf(mem'.tab, ctx'[t], Slot(p), Index(p)) # NoEntry,
               job'[t].flags \subseteq Leaf(mem'.tab, ctx'[t], Slot(p), Index(p)).flags
        PROVE  (LET own == [mem EXCEPT !.cr3 = ctx[t]]
                IN  is_mapped(own, p) /\ job[t].flags \subseteq Pml1Entry(own, p).flags)'
    BY <1>2, <1>3 DEF is_mapped, Leaf, Pml4Entry, Pml1Entry
  <1> QED BY <1>3 DEF BorrowHolds, Alone, Holds

\* What tasks of other contexts have borrowed.
LEMMA HoldsKept ==
  ASSUME NEW s, NEW t, NEW cs, NEW c, CallStep(s, t, cs, c), NEW d \in cs, d # c,
         NEW j, j.pages \subseteq 0 .. MAX_USER_PAGE - 1, Holds(s.tab, d, j)
  PROVE  Holds(t.tab, d, j)
  <1>1. ASSUME NEW p \in j.pages
        PROVE  Leaf(t.tab, d, Slot(p), Index(p)) = Leaf(s.tab, d, Slot(p), Index(p))
    <2>1. p \in Nat /\ p < MAX_USER_PAGE
      BY Limits
    <2>2. Slot(p) \in Lower /\ Index(p) \in Slots
      BY <2>1, UserSlot, SlotIndexType, SlotFacts DEF Lower
    <2> QED BY <2>2 DEF CallStep
  <1> QED BY <1>1 DEF Holds

\* What a call of task t does to job: b is what the task has borrowed after it.
JobStep(t, b) ==
  /\ DOMAIN job' = Tasks /\ job'[t] = b /\ \A u \in Tasks : u # t => job'[u] = job[u]
  /\ b.pages \subseteq 0 .. MAX_USER_PAGE - 1

\* The tasks after a call: task t has borrowed what is mapped for it, the others have
\* what they had.
LEMMA CallTasks ==
  ASSUME Inv, NEW t \in Tasks, ctx[t] # 0, CallStep(mem, mem', contexts, ctx[t]),
         ctx' = ctx, contexts' = contexts,
         NEW b, JobStep(t, b), Holds(mem'.tab, ctx[t], b)
  PROVE  (TasksOK /\ BorrowHolds)'
  <1>1. TasksOK /\ PhysInv(mem, contexts, {}) /\ BorrowHolds
    BY DEF Inv
  <1>2. /\ ctx \in [Tasks -> contexts \cup {0}]
        /\ \A u \in Tasks : /\ ctx[u] = 0 => job[u] = NoJob
                            /\ job[u].pages \subseteq 0 .. MAX_USER_PAGE - 1
    BY <1>1 DEF TasksOK
  <1>3. TasksOK'
    <2>1. \A u \in Tasks : /\ ctx[u] = 0 => job'[u] = NoJob
                           /\ job'[u].pages \subseteq 0 .. MAX_USER_PAGE - 1
      BY <1>2 DEF JobStep
    <2> QED BY <1>2, <2>1 DEF TasksOK, JobStep
  <1>4. ASSUME NEW u \in Tasks, Alone(ctx, u) PROVE Holds(mem'.tab, ctx[u], job'[u])
    <2>1. CASE u = t
      BY <2>1 DEF JobStep
    <2>2. CASE u # t /\ ctx[u] = 0
      <3>1. job'[u].pages = {}
        BY <1>2, <2>2 DEF JobStep, NoJob
      <3> QED BY <3>1 DEF Holds
    <2>3. CASE u # t /\ ctx[u] # 0
      <3>1. ctx[u] \in contexts /\ ctx[u] # ctx[t] /\ job'[u] = job[u]
        BY <1>2, <1>4, <2>3 DEF Alone, JobStep
      <3>2. Holds(mem.tab, ctx[u], job[u])
        BY <1>1, <1>4, BorrowIs
      <3> QED BY <1>2, <3>1, <3>2, HoldsKept
    <2> QED BY <2>1, <2>2, <2>3
  <1>5. PhysInv(mem', contexts', {})
    BY DEF CallStep
  <1>6. BorrowHolds'
    BY <1>4, <1>5, BorrowIsNext
  <1> QED BY <1>3, <1>6

\* Calls that borrow nothing.
LEMMA NoJobStep ==
  ASSUME TasksOK, NEW t \in Tasks, job[t] = NoJob, job' = job, NEW tb, NEW c
  PROVE  JobStep(t, NoJob) /\ Holds(tb, c, NoJob)
  BY DEF JobStep, Holds, NoJob, TasksOK

\* A call of a task that is ready.
LEMMA PlainCall ==
  ASSUME Inv, NEW t \in Tasks, Ready(t), Stay, at' = at \/ Stopped,
         CallStep(mem, mem', contexts, ctx[t]),
         UNCHANGED <<ptr, ctx, contexts, job>>
  PROVE  Inv'
  <1>1. at.pc = "run" /\ ctx[t] # 0 /\ job[t] = NoJob
    BY DEF Ready, Pc
  <1>2. (AtOK /\ RegionsOK /\ PhysInv(mem, contexts, {}) /\ HeapOK(mem.tab, ptr) /\ PhaseOK)'
    BY <1>1, CallMemory
  <1>3. TasksOK
    BY DEF Inv
  <1>4. JobStep(t, NoJob) /\ Holds(mem'.tab, ctx[t], NoJob)
    BY <1>1, <1>3, NoJobStep
  <1>5. (TasksOK /\ BorrowHolds)'
    BY <1>1, <1>4, CallTasks
  <1> QED BY <1>2, <1>5 DEF Inv

\* What holds when a call starts.
LEMMA CallStarts ==
  ASSUME Inv, NEW t \in Tasks, Ready(t)
  PROVE  /\ Bounds /\ PhysInv(On(t), contexts, {}) /\ Loaded(mem, On(t), ctx[t])
         /\ CallStep(mem, On(t), contexts, ctx[t]) /\ NotWrapped(On(t)) /\ ctx[t] \in contexts
  <1>1. AtOK /\ RegionsOK /\ PhysInv(mem, contexts, {}) /\ HeapOK(mem.tab, ptr) /\ TasksOK
    BY DEF Inv
  <1>2. Bounds
    BY <1>1, AllBounds
  <1>3. ctx[t] \in contexts
    BY <1>1, TaskContext DEF Ready
  <1>4. PICK o : o = On(t)
    OBVIOUS
  <1>5. PhysInv(o, contexts, {}) /\ Loaded(mem, o, ctx[t]) /\ CallStep(mem, o, contexts, ctx[t])
    BY <1>1, <1>2, <1>3, <1>4, OnStep, OnlyLoaded
  <1>6. HeapOK(o.tab, ptr)
    BY <1>1, <1>5 DEF Loaded
  <1>7. NotWrapped(o)
    BY <1>2, <1>5, <1>6, WrapFails
  <1> QED BY <1>2, <1>3, <1>4, <1>5, <1>7

\* The kernel stops.
LEMMA StopKeeps ==
  ASSUME Inv, Stopped, UNCHANGED <<memoryMap, regions, mem, ptr, ctx, contexts, job>>
  PROVE  Inv'
  <1>1. /\ AtOK /\ RegionsOK /\ PhysInv(mem, contexts, {}) /\ HeapOK(mem.tab, ptr) /\ PhaseOK
        /\ TasksOK /\ BorrowHolds
    BY DEF Inv
  <1>2. at'.pc = "panic"
    BY DEF Stopped
  <1>3. AtOK'
    <2>1. at' \in [pc: Booting \cup {"run", "panic"}, i: Nat, rax: EntryType]
      BY DEF Stopped, EntryType, NoEntry
    <2> QED BY <1>1, <1>2, <2>1 DEF AtOK, Booting, Early, EntryType
  <1>4. RegionsOK'
    BY <1>1, <1>2 DEF RegionsOK, IsRegion, ClippedBegin
  <1>5. (PhysInv(mem, contexts, {}) /\ HeapOK(mem.tab, ptr))'
    BY <1>1, Steady
  <1>6. PhaseOK'
    <2>1. CountersMapped(mem.tab) => CountersMapped(mem.tab)'
      BY Steady
    <2> QED BY <1>1, <1>2, <2>1 DEF PhaseOK, Early, Booting
  <1>7. TasksOK'
    BY <1>1 DEF TasksOK
  <1>8. BorrowHolds'
    BY <1>1 DEF BorrowHolds, is_mapped, Pml4Entry, Pml1Entry
  <1> QED BY <1>3, <1>4, <1>5, <1>6, <1>7, <1>8 DEF Inv

\* The range of a call with an effect that is local.
LEMMA RangeCall ==
  ASSUME Inv, NEW t \in Tasks, Ready(t), NEW r, NEW valid, NEW effect,
         Call(t, r, valid, effect),
         r.err = "" /\ valid => PhysInv(effect, contexts, {}) /\ Local(On(t), effect, contexts)
  PROVE  Inv'
  <1>1. /\ PhysInv(On(t), contexts, {}) /\ Loaded(mem, On(t), ctx[t])
        /\ CallStep(mem, On(t), contexts, ctx[t])
    BY CallStarts
  <1>2. UNCHANGED <<memoryMap, regions, ptr, ctx, contexts, job>>
    BY DEF Call
  <1>3. CASE r.err = "panic"
    <2>1. Stopped /\ mem' = mem
      BY <1>3 DEF Call, Goto, Stopped
    <2> QED BY <1>2, <2>1, StopKeeps
  <1>4. CASE r.err # "panic"
    <2>1. at' = at /\ (mem' = On(t) \/ (r.err = "" /\ valid /\ mem' = effect))
      BY <1>4 DEF Call
    <2>2. CallStep(mem, mem', contexts, ctx[t])
      <3>1. CASE mem' = On(t)
        BY <1>1, <3>1
      <3>2. CASE r.err = "" /\ valid /\ mem' = effect
        <4>1. PhysInv(effect, contexts, {}) /\ Local(On(t), effect, contexts)
          BY <3>2
        <4> QED BY <1>1, <3>2, <4>1, LocalCall
      <3> QED BY <2>1, <3>1, <3>2
    <2> QED BY <1>2, <2>1, <2>2, PlainCall DEF Stay
  <1> QED BY <1>3, <1>4

\* Flags of user pages.
LEMMA UserFlagsIs ==
  ASSUME NEW w
  PROVE  UserFlags(w) \in SUBSET {"P", "W", "U"}
  BY DEF UserFlags

\* A range of a call that was neither refused nor failed its validation.
Accepted(s, a, n, b, r) == r = PageRange(a, n, b) /\ r.err = "" /\ Validated(s, r)

\* A range that has been validated is in the user half, and its tables are there.
LEMMA RangeIs ==
  ASSUME NEW s, NotWrapped(s), NEW a \in Nat, NEW n \in Nat, NEW b, NEW r, Accepted(s, a, n, b, r)
  PROVE  /\ r.base \in Nat /\ r.count \in Nat /\ r.base + r.count <= MAX_USER_PAGE
         /\ validate_map(s, r, {}) => \A k \in Nat : k < r.count => Pml4Entry(s, r.base + k) # NoEntry
  <1>1. r.base \in Nat /\ r.count \in Nat /\ r.base + r.count <= MAX_USER_PAGE
    BY RangeExact DEF Accepted
  <1>2. ASSUME NEW k \in Nat, k < r.count, validate_map(s, r, {})
        PROVE  Pml4Entry(s, r.base + k) # NoEntry
    <2>0. PICK base \in Nat, count \in Nat : base = r.base /\ count = r.count
      BY <1>1
    <2>1. (base + k) % WordPages = base + k
      <3>1. base + k \in Nat /\ base + k < WordPages /\ WordPages \in Nat
        BY <1>1, <1>2, <2>0, Limits
      <3> QED BY <3>1
    <2>2. r.base + k \in pages(r)
      <3>1. k \in 0 .. count - 1
        BY <1>2, <2>0
      <3> QED BY <2>0, <2>1, <3>1 DEF pages
    <2> QED BY <1>2, <2>2 DEF validate_map, is_mapped
  <1> QED BY <1>1, <1>2

\* alloc_page.
LEMMA AllocPageKeeps ==
  ASSUME Inv, NEW t \in Tasks, alloc_page(t)
  PROVE  Inv'
  <1>1. PICK a \in CallAddrs, n \in CallLens, b \in Builds, w \in BOOLEAN :
          LET r == PageRange(a, n, b)
          IN  Call(t, r, validate_available(On(t), r), AllocPages(On(t), r, UserFlags(w)).s)
    BY DEF alloc_page
  <1>2. a \in Nat /\ n \in Nat /\ Ready(t)
    BY BuffersAssumption DEF alloc_page
  <1>3. PICK r, o, e : r = PageRange(a, n, b) /\ o = On(t) /\ e = AllocPages(o, r, UserFlags(w)).s
    OBVIOUS
  <1>4. PICK valid \in BOOLEAN : valid <=> validate_available(o, r)
    OBVIOUS
  <1>5. Call(t, r, valid, e)
    BY <1>1, <1>3, <1>4 DEF Call
  <1>6. ASSUME r.err = "", valid PROVE PhysInv(e, contexts, {}) /\ Local(o, e, contexts)
    <2>1. Bounds /\ PhysInv(o, contexts, {}) /\ NotWrapped(o)
      BY <1>2, <1>3, CallStarts
    <2>2. r.base \in Nat /\ r.count \in Nat /\ r.base + r.count <= MAX_USER_PAGE
      BY <1>2, <1>3, <1>4, <1>6, <2>1, RangeIs DEF Accepted, Validated
    <2> QED BY <1>3, <2>1, <2>2, UserFlagsIs, AllocPagesIs
  <1> QED BY <1>2, <1>3, <1>5, <1>6, RangeCall

\* release_page.
LEMMA ReleasePageKeeps ==
  ASSUME Inv, NEW t \in Tasks, release_page(t)
  PROVE  Inv'
  <1>1. PICK a \in CallAddrs, n \in CallLens, b \in Builds :
          LET r == PageRange(a, n, b)
          IN  Call(t, r, validate_map(On(t), r, {}), ReleasePages(On(t), r))
    BY DEF release_page
  <1>2. a \in Nat /\ n \in Nat /\ Ready(t)
    BY BuffersAssumption DEF release_page
  <1>3. PICK r, o, e : r = PageRange(a, n, b) /\ o = On(t) /\ e = ReleasePages(o, r)
    OBVIOUS
  <1>4. PICK valid \in BOOLEAN : valid <=> validate_map(o, r, {})
    OBVIOUS
  <1>5. Call(t, r, valid, e)
    BY <1>1, <1>3, <1>4 DEF Call
  <1>6. ASSUME r.err = "", valid PROVE PhysInv(e, contexts, {}) /\ Local(o, e, contexts)
    <2>1. Bounds /\ PhysInv(o, contexts, {}) /\ NotWrapped(o)
      BY <1>2, <1>3, CallStarts
    <2>2. /\ r.base \in Nat /\ r.count \in Nat /\ r.base + r.count <= MAX_USER_PAGE
          /\ \A k \in Nat : k < r.count => Pml4Entry(o, r.base + k) # NoEntry
      BY <1>2, <1>3, <1>4, <1>6, <2>1, RangeIs DEF Accepted, Validated
    <2> QED BY <1>3, <2>1, <2>2, ReleasePagesIs
  <1> QED BY <1>2, <1>3, <1>5, <1>6, RangeCall

\* modify_page.
LEMMA ModifyPageKeeps ==
  ASSUME Inv, NEW t \in Tasks, modify_page(t)
  PROVE  Inv'
  <1>1. PICK a \in CallAddrs, n \in CallLens, b \in Builds, w \in BOOLEAN :
          LET r == PageRange(a, n, b)
          IN  Call(t, r, validate_map(On(t), r, {}), ModifyPages(On(t), r, UserFlags(w)))
    BY DEF modify_page
  <1>2. a \in Nat /\ n \in Nat /\ Ready(t)
    BY BuffersAssumption DEF modify_page
  <1>3. PICK r, o, e : r = PageRange(a, n, b) /\ o = On(t) /\ e = ModifyPages(o, r, UserFlags(w))
    OBVIOUS
  <1>4. PICK valid \in BOOLEAN : valid <=> validate_map(o, r, {})
    OBVIOUS
  <1>5. Call(t, r, valid, e)
    BY <1>1, <1>3, <1>4 DEF Call
  <1>6. ASSUME r.err = "", valid PROVE PhysInv(e, contexts, {}) /\ Local(o, e, contexts)
    <2>1. Bounds /\ PhysInv(o, contexts, {}) /\ NotWrapped(o)
      BY <1>2, <1>3, CallStarts
    <2>2. /\ r.base \in Nat /\ r.count \in Nat /\ r.base + r.count <= MAX_USER_PAGE
          /\ \A k \in Nat : k < r.count => Pml4Entry(o, r.base + k) # NoEntry
      BY <1>2, <1>3, <1>4, <1>6, <2>1, RangeIs DEF Accepted, Validated
    <2> QED BY <1>3, <2>1, <2>2, UserFlagsIs, ModifyPagesIs
  <1> QED BY <1>2, <1>3, <1>5, <1>6, RangeCall

\* read_stream and open_file.
LEMMA BorrowKeeps ==
  ASSUME Inv, NEW t \in Tasks, NEW flags, Borrow(t, flags)
  PROVE  Inv'
  <1>1. PICK a \in CallAddrs, n \in CallLens, b \in Builds :
          LET r == containing(a, n, b)
          IN  /\ IF r.err = "panic" THEN Goto("panic") /\ UNCHANGED mem
                 ELSE mem' = On(t) /\ UNCHANGED at
              /\ job' = IF r.err = "" /\ validate_map(On(t), r, flags) /\ n > 0
                        THEN [job EXCEPT ![t] = [pages |-> pages(r), flags |-> flags]] ELSE job
    BY DEF Borrow
  <1>2. /\ a \in Nat /\ n \in Nat /\ Ready(t)
        /\ UNCHANGED <<memoryMap, regions, ptr, ctx, contexts>>
    BY BuffersAssumption DEF Borrow
  <1>3. PICK r, o : r = containing(a, n, b) /\ o = On(t)
    OBVIOUS
  <1>4. /\ Bounds /\ NotWrapped(o) /\ CallStep(mem, o, contexts, ctx[t]) /\ Loaded(mem, o, ctx[t])
        /\ at.pc = "run" /\ ctx[t] # 0 /\ job[t] = NoJob /\ TasksOK
    BY <1>2, <1>3, CallStarts DEF Ready, Pc, Inv
  <1>5. CASE r.err = "panic"
    <2>1. Stopped /\ mem' = mem /\ job' = job
      BY <1>1, <1>3, <1>5 DEF Goto, Stopped
    <2> QED BY <1>2, <2>1, StopKeeps
  <1>6. CASE r.err # "panic" /\ ~(r.err = "" /\ validate_map(o, r, flags) /\ n > 0)
    <2>1. at' = at /\ mem' = o /\ job' = job
      BY <1>1, <1>3, <1>6
    <2> QED BY <1>2, <1>4, <2>1, PlainCall DEF Stay
  <1>7. CASE r.err = "" /\ validate_map(o, r, flags) /\ n > 0
    <2>1. PICK j : j = [pages |-> pages(r), flags |-> flags]
      OBVIOUS
    <2>2. at' = at /\ mem' = o /\ job' = [job EXCEPT ![t] = j]
      BY <1>1, <1>3, <1>7, <2>1
    <2>3. j.pages = pages(r) /\ j.flags = flags /\ pages(r) \subseteq 0 .. MAX_USER_PAGE - 1
      <3>1. Validated(o, r)
        BY <1>7 DEF Validated, validate_map
      <3> QED BY <1>2, <1>3, <1>4, <1>7, <2>1, <3>1, ContainingExact
    <2>4. JobStep(t, j)
      BY <1>4, <2>2, <2>3 DEF JobStep, TasksOK
    <2>5. Holds(mem'.tab, ctx[t], j)
      <3>1. o.cr3 = ctx[t]
        BY <1>4 DEF Loaded
      <3>2. \A p \in pages(r) : is_mapped(o, p) /\ flags \subseteq Pml1Entry(o, p).flags
        BY <1>7 DEF validate_map
      <3> QED BY <2>2, <2>3, <3>1, <3>2 DEF Holds, is_mapped, Pml4Entry, Pml1Entry, Leaf
    <2>6. (AtOK /\ RegionsOK /\ PhysInv(mem, contexts, {}) /\ HeapOK(mem.tab, ptr) /\ PhaseOK)'
      BY <1>2, <1>4, <2>2, CallMemory DEF Stay
    <2>7. (TasksOK /\ BorrowHolds)'
      BY <1>2, <1>4, <2>2, <2>4, <2>5, CallTasks
    <2> QED BY <2>6, <2>7 DEF Inv
  <1> QED BY <1>5, <1>6, <1>7

\* Finish.
LEMMA FinishKeeps ==
  ASSUME Inv, NEW t \in Tasks, Finish(t)
  PROVE  Inv'
  <1>1. /\ at.pc = "run" /\ mem' = On(t) /\ job' = [job EXCEPT ![t] = NoJob] /\ job[t] # NoJob
        /\ at' = at \/ Stopped
        /\ UNCHANGED <<memoryMap, regions, ptr, ctx, contexts>>
    BY DEF Finish, Pc, Goto, Stopped
  <1>2. AtOK /\ RegionsOK /\ PhysInv(mem, contexts, {}) /\ TasksOK
    BY DEF Inv
  <1>3. ctx[t] # 0 /\ ctx[t] \in contexts
    BY <1>1, <1>2, TaskContext DEF TasksOK
  <1>4. CallStep(mem, mem', contexts, ctx[t])
    BY <1>1, <1>2, <1>3, AllBounds, OnlyLoaded
  <1>5. JobStep(t, NoJob) /\ Holds(mem'.tab, ctx[t], NoJob)
    BY <1>1, <1>2 DEF JobStep, Holds, NoJob, TasksOK
  <1>6. (AtOK /\ RegionsOK /\ PhysInv(mem, contexts, {}) /\ HeapOK(mem.tab, ptr) /\ PhaseOK)'
    BY <1>1, <1>4, CallMemory DEF Stay
  <1>7. (TasksOK /\ BorrowHolds)'
    BY <1>1, <1>3, <1>4, <1>5, CallTasks
  <1> QED BY <1>6, <1>7 DEF Inv

\* create_task.
LEMMA CreateTaskKeeps ==
  ASSUME Inv, NEW t \in Tasks, create_task(t)
  PROVE  Inv'
  <1>1. /\ Ready(t) /\ mem' = On(t) /\ UNCHANGED <<memoryMap, at, regions, ptr, contexts, job>>
    BY DEF create_task
  <1>2. PICK u \in Tasks, c \in contexts : ctx[u] = 0 /\ ctx' = [ctx EXCEPT ![u] = c]
    BY DEF create_task
  <1>3. TasksOK /\ PhysInv(mem, contexts, {}) /\ BorrowHolds /\ at.pc = "run"
    BY <1>1 DEF Inv, Ready, Pc
  <1>4. CallStep(mem, mem', contexts, ctx[t]) /\ mem'.tab = mem.tab
    BY <1>1, CallStarts DEF Loaded
  <1>5. (AtOK /\ RegionsOK /\ PhysInv(mem, contexts, {}) /\ HeapOK(mem.tab, ptr) /\ PhaseOK)'
    BY <1>1, <1>3, <1>4, CallMemory DEF Stay
  <1>6. /\ ctx \in [Tasks -> contexts \cup {0}] /\ job[u] = NoJob /\ DOMAIN job = Tasks
        /\ \A x \in Tasks : /\ ctx[x] = 0 => job[x] = NoJob
                            /\ job[x].pages \subseteq 0 .. MAX_USER_PAGE - 1
    BY <1>2, <1>3 DEF TasksOK
  <1>7. ctx' \in [Tasks -> contexts \cup {0}] /\ ctx'[u] = c /\ \A x \in Tasks : x # u => ctx'[x] = ctx[x]
    BY <1>2, <1>6
  <1>8. TasksOK'
    <2>1. \A x \in Tasks : ctx'[x] = 0 => job[x] = NoJob
      BY <1>6, <1>7
    <2> QED BY <1>1, <1>6, <1>7, <2>1 DEF TasksOK
  <1>9. ASSUME NEW x \in Tasks, Alone(ctx', x) PROVE Holds(mem'.tab, ctx'[x], job'[x])
    <2>1. CASE job[x] = NoJob
      BY <1>1, <2>1 DEF Holds, NoJob
    <2>2. CASE job[x] # NoJob
      <3>1. x # u /\ ctx[x] # 0 /\ ctx'[x] = ctx[x]
        BY <1>6, <1>7, <2>2
      <3>2. ASSUME NEW y \in Tasks \ {x} PROVE ctx[y] # ctx[x]
        BY <1>2, <1>7, <1>9, <3>1 DEF Alone
      <3>3. Holds(mem.tab, ctx[x], job[x])
        BY <1>3, <3>2, BorrowIs DEF Alone
      <3> QED BY <1>1, <1>4, <3>1, <3>3
    <2> QED BY <2>1, <2>2
  <1>10. BorrowHolds'
    <2>1. PhysInv(mem', contexts', {})
      BY <1>1, <1>4 DEF CallStep
    <2> QED BY <1>9, <2>1, BorrowIsNext
  <1> QED BY <1>5, <1>8, <1>10 DEF Inv

\* The parts of the invariant that a step of the kernel, on no user page, has to show
\* for a task that is ready.
KernelStep(s, t, cs, all, top) ==
  /\ PhysInv(t, all, {}) /\ HeapOK(t.tab, top) /\ t.counting = s.counting
  /\ CountersMapped(t.tab) /\ FullKernel(t.tab) /\ cs \subseteq all
  /\ \A d \in cs, k \in UserSlots, l \in Slots : Leaf(t.tab, d, k, l) = Leaf(s.tab, d, k, l)

\* It keeps the invariant.
LEMMA KernelStepKeeps ==
  ASSUME Inv, at.pc = "run", KernelStep(mem, mem', contexts, contexts', ptr'),
         UNCHANGED <<memoryMap, at, regions, ctx, job>>
  PROVE  Inv'
  <1>1. AtOK /\ RegionsOK /\ PhysInv(mem, contexts, {}) /\ PhaseOK /\ TasksOK /\ BorrowHolds
    BY DEF Inv
  <1>2. AtOK'
    BY <1>1 DEF AtOK
  <1>3. RegionsOK'
    BY <1>1 DEF RegionsOK, IsRegion, ClippedBegin
  <1>4. (PhysInv(mem, contexts, {}) /\ HeapOK(mem.tab, ptr) /\ CountersMapped(mem.tab))'
    BY Steady DEF KernelStep
  <1>5. PhaseOK'
    <2>1. mem'.counting /\ FullKernel(mem'.tab)
      BY <1>1 DEF PhaseOK, KernelStep
    <2> QED BY <1>4, <2>1 DEF PhaseOK, Early, Booting, FullKernel
  <1>6. /\ ctx \in [Tasks -> contexts \cup {0}] /\ DOMAIN job = Tasks
        /\ \A x \in Tasks : /\ ctx[x] = 0 => job[x] = NoJob
                            /\ job[x].pages \subseteq 0 .. MAX_USER_PAGE - 1
    BY <1>1 DEF TasksOK
  <1>7. TasksOK'
    BY <1>6 DEF TasksOK, KernelStep
  <1>8. ASSUME NEW x \in Tasks, Alone(ctx', x) PROVE Holds(mem'.tab, ctx'[x], job'[x])
    <2>1. CASE job[x] = NoJob
      BY <2>1 DEF Holds, NoJob
    <2>2. CASE job[x] # NoJob
      <3>1. ctx[x] \in contexts
        BY <1>6, <2>2
      <3>2. Holds(mem.tab, ctx[x], job[x])
        BY <1>1, <1>8, BorrowIs DEF Alone
      <3>3. ASSUME NEW p \in job[x].pages
            PROVE  Leaf(mem'.tab, ctx[x], Slot(p), Index(p)) = Leaf(mem.tab, ctx[x], Slot(p), Index(p))
        <4>1. p \in Nat /\ p < MAX_USER_PAGE
          BY <1>6, Limits
        <4>2. Slot(p) \in UserSlots /\ Index(p) \in Slots
          BY <4>1, UserSlot, SlotIndexType
        <4> QED BY <3>1, <4>2 DEF KernelStep
      <3> QED BY <3>2, <3>3 DEF Holds
    <2> QED BY <2>1, <2>2
  <1>9. BorrowHolds'
    <2>1. PhysInv(mem', contexts', {})
      BY DEF KernelStep
    <2> QED BY <1>8, <2>1, BorrowIsNext
  <1> QED BY <1>2, <1>3, <1>4, <1>5, <1>7, <1>9 DEF Inv

\* create_page_context.
LEMMA CreateContextKeeps ==
  ASSUME Inv, NEW t \in Tasks, create_page_context(t)
  PROVE  Inv'
  <1>1. Ready(t) /\ UNCHANGED <<memoryMap, at, regions, ptr, ctx, job>>
    BY DEF create_page_context
  <1>2. PICK o, b, p : o = On(t) /\ b = alloc(o).s /\ p = alloc(o).page
    OBVIOUS
  <1>3. p # 0 /\ mem' = [b EXCEPT !.tab[p] = NewPml4(b, p)] /\ contexts' = contexts \cup {p}
    BY <1>2 DEF create_page_context
  <1>4. Bounds /\ PhysInv(o, contexts, {}) /\ Loaded(mem, o, ctx[t])
    BY <1>1, <1>2, CallStarts
  <1>5. Allocated(o, b, p)
    BY <1>2, <1>3, <1>4, AllocIs, PhysIs
  <1>6. PICK n : n = [b EXCEPT !.tab[p] = NewPml4(b, p)]
    OBVIOUS
  <1>7. PhysInv(n, contexts \cup {p}, {}) /\ Contexted(o, n, contexts)
    BY <1>4, <1>5, <1>6, ContextStep
  <1>8. HeapOK(mem.tab, ptr) /\ mem.counting /\ CountersMapped(mem.tab) /\ FullKernel(mem.tab)
        /\ at.pc = "run" /\ BootPml4 \in contexts
    BY <1>1 DEF Inv, PhaseOK, Ready, Pc, FullKernel, PhysInv, ContextsOK
  <1>9. /\ n.counting = mem.counting /\ SameLeaves(mem.tab, n.tab, contexts)
        /\ \A d \in contexts : n.tab[d] = mem.tab[d]
    BY <1>4, <1>7 DEF Loaded, Contexted
  <1>10. \A k \in UserSlots \cup KernelSlots : k \in Lower
    BY SlotFacts DEF Lower
  <1>11. SameKernel(mem.tab, n.tab)
    <2>1. \A k \in KernelSlots, l \in Slots : Leaf(n.tab, BootPml4, k, l) = Leaf(mem.tab, BootPml4, k, l)
      BY <1>8, <1>9, <1>10 DEF SameLeaves
    <2> QED BY <1>8, <2>1, KernelKept
  <1>12. HeapOK(n.tab, ptr) /\ CountersMapped(n.tab)
    BY <1>8, <1>11, SameKernelKeeps
  <1>13. FullKernel(n.tab)
    BY <1>8, <1>9 DEF FullKernel
  <1>14. \A d \in contexts, k \in UserSlots, l \in Slots : Leaf(n.tab, d, k, l) = Leaf(mem.tab, d, k, l)
    BY <1>9, <1>10 DEF SameLeaves
  <1>15. KernelStep(mem, n, contexts, contexts \cup {p}, ptr)
    BY <1>7, <1>9, <1>12, <1>13, <1>14 DEF KernelStep
  <1> QED BY <1>1, <1>3, <1>6, <1>8, <1>15, KernelStepKeeps

\* One kernel address gets a page.
LEMMA KernelOne ==
  ASSUME NEW tb, NEW new, NEW cs, BootPml4 \in cs, NEW c, NEW e, NEW v \in KERNEL_BASE .. KernelTop - 1,
         OneLeaf(tb, new, cs, c, Slot(v), Index(v), e)
  PROVE  \A w \in KERNEL_BASE .. KernelTop - 1 :
           KernelEntry(new, w) = IF w = v THEN e ELSE KernelEntry(tb, w)
  <1>1. ASSUME NEW w \in KERNEL_BASE .. KernelTop - 1
        PROVE  KernelEntry(new, w) = IF w = v THEN e ELSE KernelEntry(tb, w)
    <2>1. /\ Slot(v) \in KernelSlots /\ Slot(w) \in Lower /\ Index(w) \in Slots
          /\ v \in KERNEL_BASE .. WordPages - 1 /\ w \in KERNEL_BASE .. WordPages - 1
      BY KernelRange
    <2>2. Slot(w) = Slot(v) /\ Index(w) = Index(v) <=> w = v
      BY <2>1, KernelSlot
    <2>3. Leaf(new, BootPml4, Slot(w), Index(w)) =
            IF Slot(w) = Slot(v) /\ Index(w) = Index(v) THEN e ELSE Leaf(tb, BootPml4, Slot(w), Index(w))
      BY <2>1 DEF OneLeaf
    <2> QED BY <2>2, <2>3 DEF Leaf, KernelEntry
  <1> QED BY <1>1

\* The heap grows by a page.
LEMMA HeapOne ==
  ASSUME Bounds, NEW tb, NEW new, NEW cs, TabOK(tb, cs), NEW c, NEW e, NEW top, HeapOK(tb, top),
         OneLeaf(tb, new, cs, c, Slot(top), Index(top), e), Known(e.phys)
  PROVE  HeapOK(new, top + 1)
  <1>1. /\ top \in Nat /\ top < KernelTop /\ KERNEL_BASE <= top /\ KernelTop \in Nat /\ KERNEL_BASE \in Nat
        /\ End \in Nat /\ KERNEL_BASE <= End /\ End <= top /\ BootPml4 \in cs
    <2>1. Vram \in Nat /\ PhysRc \in Nat /\ KERNEL_BASE <= Vram /\ Vram + VramPages <= PhysRc /\ PhysRc < End
            /\ End \in Nat
      BY Layout
    <2>2. top \in Nat /\ top < KernelTop /\ KERNEL_BASE <= top
      BY HeapBound
    <2>3. KernelTop \in Nat /\ KERNEL_BASE \in Nat /\ VramPages \in Nat
      BY KernelSlot, BootAssumption
    <2>4. End <= top
      BY <2>1, <2>2 DEF HeapOK
    <2>5. KERNEL_BASE <= End
      BY <2>1, <2>3
    <2>6. BootPml4 \in cs
      BY DEF TabOK, ContextsOK
    <2> QED BY <2>1, <2>2, <2>3, <2>4, <2>5, <2>6
  <1>2. \A w \in KERNEL_BASE .. KernelTop - 1 :
          KernelEntry(new, w) = IF w = top THEN e ELSE KernelEntry(tb, w)
    <2>1. top \in KERNEL_BASE .. KernelTop - 1
      BY <1>1
    <2> QED BY <1>1, <2>1, KernelOne
  <1>3. ASSUME NEW w \in top + 1 .. KernelTop - 1 PROVE KernelEntry(new, w) = NoEntry
    <2>1. w \in KERNEL_BASE .. KernelTop - 1 /\ w # top /\ w \in top .. KernelTop - 1
      BY <1>1
    <2> QED BY <1>2, <2>1 DEF HeapOK
  <1>4. ASSUME NEW w \in End .. (top + 1) - 1 PROVE w < KernelTop /\ Known(KernelEntry(new, w).phys)
    <2>1. w \in KERNEL_BASE .. KernelTop - 1 /\ w < KernelTop
      BY <1>1
    <2>2. CASE w = top
      BY <1>2, <2>1, <2>2
    <2>3. CASE w # top
      <3>1. w \in End .. top - 1
        BY <1>1, <2>3
      <3> QED BY <1>2, <2>1, <2>3, <3>1 DEF HeapOK
    <2> QED BY <2>2, <2>3
  <1>5. top + 1 \in Nat /\ top + 1 >= End
    BY <1>1
  <1> QED BY <1>3, <1>4, <1>5 DEF HeapOK

\* Nothing is unmapped when one kernel address gets a page.
LEMMA CountersOne ==
  ASSUME NEW tb, NEW new, CountersMapped(tb), NEW v, NEW e, e # NoEntry,
         \A w \in KERNEL_BASE .. KernelTop - 1 :
           KernelEntry(new, w) = IF w = v THEN e ELSE KernelEntry(tb, w)
  PROVE  CountersMapped(new)
  <1>1. ASSUME NEW p \in Frames, Known(p) PROVE KernelEntry(new, RcPage(p)) # NoEntry
    <2>1. RcPage(p) \in KERNEL_BASE .. KernelTop - 1
      BY RcPageIs, KernelSlot
    <2>2. KernelEntry(tb, RcPage(p)) # NoEntry
      BY <1>1 DEF CountersMapped
    <2> QED BY <2>1, <2>2
  <1> QED BY <1>1 DEF CountersMapped

\* A page for a kernel address whose page table is there, and that is not mapped.
LEMMA KernelPage ==
  ASSUME Bounds, NEW s, NEW cs, PhysInv(s, cs, {}), NEW b, NEW p, Allocated(s, b, p), NEW top,
         HeapOK(s.tab, top), FullKernel(s.tab), CountersMapped(s.tab),
         NEW flags \in SUBSET {"P", "W", "U"}
  PROVE  LET m == map(b, p, top, flags)
         IN  KernelStep(s, m.s, cs, cs, top + 1) /\ m.err = ""
  <1>1. PICK m, t, e : m = map(b, p, top, flags) /\ t = m.s /\ e = Entry(p, flags)
    OBVIOUS
  <1>2. PICK hs : hs = {} \cup {p}
    OBVIOUS
  <1>3. PhysInv(b, cs, hs) /\ Loaded(s, b, s.cr3) /\ s.cr3 \in cs /\ TabOK(s.tab, cs) /\ BootPml4 \in cs
    <2>1. PhysInv(b, cs, hs) /\ Loaded(s, b, s.cr3)
      BY <1>2, AllocStep
    <2>2. s.cr3 \in cs /\ TabOK(s.tab, cs)
      BY PhysIs
    <2>3. BootPml4 \in cs
      BY <2>2 DEF TabOK, ContextsOK
    <2> QED BY <2>1, <2>2, <2>3
  <1>4. p \in Nat /\ p \in hs /\ Known(p) /\ hs \ {p} = {} /\ p # 0
    BY <1>2 DEF Allocated, Frames
  <1>5. top \in KERNEL_BASE .. KernelTop - 1 /\ KernelEntry(s.tab, top) = NoEntry
    BY <1>3, HeapBound, KernelSlot
  <1>6. top \in Nat /\ Slot(top) # Recursive /\ Slot(top) \in KernelSlots
    BY <1>5, KernelRange
  <1>7. b.tab[b.cr3][Slot(top)] # NoEntry
    <2>1. s.tab[s.cr3][Slot(top)] = s.tab[BootPml4][Slot(top)]
      BY <1>3, <1>6, ContextIs
    <2> QED BY <1>3, <1>6, <2>1 DEF Loaded, FullKernel
  <1>8. PhysInv(t, cs, hs \ {p}) /\ Mapped(b, t, cs, top, e, m.err)
    BY <1>1, <1>3, <1>4, <1>6, <1>7, MapIs
  <1>9. m.err = ""
    <2>1. Leaf(b.tab, b.cr3, Slot(top), Index(top)) = NoEntry
      BY <1>3, <1>5, KernelLeaf DEF Loaded
    <2> QED BY <1>7, <1>8, <2>1 DEF Mapped
  <1>10. /\ OneLeaf(s.tab, t.tab, cs, s.cr3, Slot(top), Index(top), e) /\ t.counting = s.counting
         /\ Filled(s.tab, t.tab, cs)
    BY <1>3, <1>8, <1>9 DEF Mapped, Loaded
  <1>11. e.phys = p /\ e # NoEntry
    BY <1>1, <1>4 DEF Entry, NoEntry
  <1>12. HeapOK(t.tab, top + 1)
    BY <1>3, <1>4, <1>10, <1>11, HeapOne
  <1>13. CountersMapped(t.tab)
    <2>1. PICK c, i, new : c = s.cr3 /\ i = s.tab /\ new = t.tab
      OBVIOUS
    <2>2. \A w \in KERNEL_BASE .. KernelTop - 1 :
            KernelEntry(new, w) = IF w = top THEN e ELSE KernelEntry(i, w)
      BY <1>3, <1>5, <1>10, <2>1, KernelOne
    <2>3. CountersMapped(i)
      BY <2>1
    <2>4. CountersMapped(new)
      BY <1>11, <2>2, <2>3, CountersOne
    <2> QED BY <2>1, <2>4
  <1>14. FullKernel(t.tab)
    BY <1>3, <1>10, SlotFacts DEF FullKernel, Filled, Lower
  <1>15. \A d \in cs, k \in UserSlots, l \in Slots : Leaf(t.tab, d, k, l) = Leaf(s.tab, d, k, l)
    BY <1>6, <1>10, SlotFacts DEF OneLeaf, Lower
  <1>16. KernelStep(s, t, cs, cs, top + 1)
    BY <1>4, <1>8, <1>10, <1>12, <1>13, <1>14, <1>15 DEF KernelStep
  <1> QED BY <1>1, <1>9, <1>16

\* kvirt's alloc in the middle of a call.
LEMMA HeapGrowsKeeps ==
  ASSUME Inv, NEW t \in Tasks, HeapGrows(t)
  PROVE  Inv'
  <1>1. Ready(t) /\ kvirt_alloc(On(t)) /\ UNCHANGED <<memoryMap, regions, ctx, contexts, job>>
    BY DEF HeapGrows
  <1>2. PICK o, b, p, m : /\ o = On(t) /\ b = alloc(o).s /\ p = alloc(o).page
                          /\ m = map(b, p, ptr, {"P", "W"})
    OBVIOUS
  <1>3. /\ IF p = 0 THEN mem' = o /\ UNCHANGED ptr ELSE mem' = m.s /\ ptr' = ptr + 1
        /\ IF p # 0 /\ m.err = "AlreadyMapped" THEN Goto("panic") ELSE UNCHANGED at
    BY <1>1, <1>2 DEF kvirt_alloc
  <1>4. /\ Bounds /\ PhysInv(o, contexts, {}) /\ Loaded(mem, o, ctx[t])
        /\ CallStep(mem, o, contexts, ctx[t])
    BY <1>1, <1>2, CallStarts
  <1>5. CASE p = 0
    <2>1. mem' = o /\ ptr' = ptr /\ at' = at
      BY <1>3, <1>5
    <2> QED BY <1>1, <1>4, <2>1, PlainCall DEF Stay
  <1>6. CASE p # 0
    <2>1. Allocated(o, b, p)
      BY <1>2, <1>4, <1>6, AllocIs, PhysIs
    <2>2. /\ HeapOK(o.tab, ptr) /\ CountersMapped(o.tab) /\ FullKernel(o.tab) /\ at.pc = "run"
      BY <1>1, <1>4 DEF Loaded, Inv, PhaseOK, FullKernel, Ready, Pc
    <2>3. {"P", "W"} \in SUBSET {"P", "W", "U"}
      OBVIOUS
    <2>4. KernelStep(o, m.s, contexts, contexts, ptr + 1) /\ m.err = ""
      <3>1. PICK flags, top, cs : /\ flags = {"P", "W"} /\ flags \in SUBSET {"P", "W", "U"}
                                 /\ top = ptr /\ cs = contexts
        BY <2>3
      <3>2. /\ m = map(b, p, top, flags) /\ PhysInv(o, cs, {}) /\ HeapOK(o.tab, top)
            /\ flags \in SUBSET {"P", "W", "U"}
        BY <1>2, <1>4, <2>2, <3>1
      <3>3. KernelStep(o, m.s, cs, cs, top + 1) /\ m.err = ""
        BY <1>4, <2>1, <2>2, <3>2, KernelPage, ZenonT(60)
      <3> QED BY <3>1, <3>3
    <2>5. mem' = m.s /\ ptr' = ptr + 1 /\ at' = at
      BY <1>3, <1>6, <2>4
    <2>6. KernelStep(mem, mem', contexts, contexts', ptr')
      BY <1>1, <1>4, <2>4, <2>5 DEF KernelStep, Loaded
    <2> QED BY <1>1, <2>2, <2>5, <2>6, KernelStepKeeps
  <1> QED BY <1>5, <1>6

\* Nothing happens.
LEMMA StutterKeeps ==
  ASSUME Inv, UNCHANGED vars
  PROVE  Inv'
  <1>1. /\ AtOK /\ RegionsOK /\ PhysInv(mem, contexts, {}) /\ HeapOK(mem.tab, ptr) /\ PhaseOK
        /\ TasksOK /\ BorrowHolds
    BY DEF Inv
  <1>2. UNCHANGED <<memoryMap, at, regions, mem, ptr, ctx, contexts, job>>
    BY DEF vars, bootVars
  <1>3. AtOK'
    BY <1>1, <1>2 DEF AtOK
  <1>4. RegionsOK'
    BY <1>1, <1>2 DEF RegionsOK, IsRegion, ClippedBegin
  <1>5. (PhysInv(mem, contexts, {}) /\ HeapOK(mem.tab, ptr))'
    BY <1>1, <1>2, Steady
  <1>6. PhaseOK'
    <2>1. CountersMapped(mem.tab) => CountersMapped(mem.tab)'
      BY <1>2, Steady
    <2> QED BY <1>1, <1>2, <2>1 DEF PhaseOK
  <1>7. TasksOK'
    BY <1>1, <1>2 DEF TasksOK
  <1>8. BorrowHolds'
    BY <1>1, <1>2 DEF BorrowHolds, is_mapped, Pml4Entry, Pml1Entry
  <1> QED BY <1>3, <1>4, <1>5, <1>6, <1>7, <1>8 DEF Inv

(***************************************************************************)
(* The boot.                                                               *)
(***************************************************************************)

\* Until the kernel runs there is one context, and no task has borrowed anything.
LEMMA BootKeeps ==
  ASSUME Inv, at.pc \in Booting, UNCHANGED <<ctx, contexts, job>>,
         (AtOK /\ RegionsOK /\ PhysInv(mem, contexts, {}) /\ HeapOK(mem.tab, ptr) /\ PhaseOK)'
  PROVE  Inv'
  <1>1. TasksOK /\ \A t \in Tasks : job[t] = NoJob
    BY DEF Inv, PhaseOK
  <1>2. TasksOK'
    BY <1>1 DEF TasksOK
  <1>3. \A t \in Tasks : job'[t].pages = {}
    BY <1>1 DEF NoJob
  <1>4. BorrowHolds'
    BY <1>3 DEF BorrowHolds
  <1> QED BY <1>2, <1>4 DEF Inv

\* What holds then.
LEMMA BootFacts ==
  ASSUME Inv, at.pc \in Booting
  PROVE  /\ AtOK /\ RegionsOK /\ Bounds /\ PhysInv(mem, contexts, {}) /\ HeapOK(mem.tab, End) /\ PhaseOK
         /\ contexts = {BootPml4} /\ ptr = End /\ mem.cr3 = BootPml4 /\ TabOK(mem.tab, contexts)
         /\ mem \in MemType
  <1>1. AtOK /\ RegionsOK /\ PhysInv(mem, contexts, {}) /\ HeapOK(mem.tab, ptr) /\ PhaseOK
    BY DEF Inv
  <1>2. contexts = {BootPml4} /\ ptr = End
    BY <1>1 DEF PhaseOK
  <1>3. mem.cr3 \in contexts /\ TabOK(mem.tab, contexts) /\ mem \in MemType
    BY <1>1, PhysIs
  <1> QED BY <1>1, <1>2, <1>3, AllBounds

\* The first pages of the kernel half are translated by its first table.
LEMMA KernelRow ==
  ASSUME NEW i \in Nat, i < Fan
  PROVE  Slot(KERNEL_BASE + i) = Half /\ Index(KERNEL_BASE + i) = i /\ KERNEL_BASE + i \in Nat
         /\ KERNEL_BASE + i \in KERNEL_BASE .. KernelTop - 1
  <1>1. PICK rows \in Nat : /\ KERNEL_BASE = (rows + Half) * Fan
                            /\ KernelTop = (rows + (Fan - 1)) * Fan
                            /\ \A k \in Nat : k < Fan => (rows + k) % Fan = k
    BY Words
  <1>2. Fan \in Nat \ {0} /\ Half \in Nat /\ Half < Fan - 1 /\ Half < Fan
    BY Halves
  <1>3. PICK m \in Nat : m = rows + Half
    BY <1>2
  <1>4. (m * Fan + i) \div Fan = m /\ (m * Fan + i) % Fan = i
    BY <1>2, DivMod
  <1>5. m % Fan = Half
    BY <1>1, <1>2, <1>3
  <1>6. m * Fan \in Nat /\ KERNEL_BASE = m * Fan
    BY <1>1, <1>2, <1>3, ProductIsNat
  <1>7. m * Fan + Fan <= KernelTop /\ KernelTop \in Nat
    <2>1. PICK k \in Nat : k = rows + (Fan - 1)
      BY <1>2
    <2>2. m < k
      BY <1>2, <1>3, <2>1
    <2>3. m * Fan + Fan <= k * Fan
      BY <1>2, <2>2, ProductOrder
    <2> QED BY <1>1, <2>1, <2>3, KernelSlot
  <1>8. KERNEL_BASE + i = m * Fan + i
    BY <1>6
  <1> QED BY <1>2, <1>4, <1>5, <1>6, <1>7, <1>8 DEF Slot, Index

\* The tables that the boot loader leaves.
BootTab(tb) ==
  /\ tb \in Tabs
  /\ tb[BootPml4][Recursive] # NoEntry /\ tb[BootPml4][Recursive].phys = BootPml4
  /\ tb[BootPml4][0] # NoEntry /\ tb[BootPml4][0].phys = IdentityTable
  /\ tb[BootPml4][Half] # NoEntry /\ tb[BootPml4][Half].phys = KernelTable
  /\ \A i \in Lower \ {0, Half} : tb[BootPml4][i] = NoEntry
  /\ \A q \in Frames \ {BootPml4}, j \in Slots : tb[q][j].phys = 0
  /\ \A j \in Slots : tb[KernelTable][j] = NoEntry

\* start.asm makes them.
LEMMA BootTabIs ==
  ASSUME BootInit
  PROVE  BootTab(mem.tab)
  <1>1. Slot(KERNEL_BASE) = Half
    <2>1. 0 \in Nat /\ 0 < Fan /\ KERNEL_BASE \in Nat
      BY Halves, KernelSlot
    <2>2. KERNEL_BASE + 0 = KERNEL_BASE
      BY <2>1
    <2> QED BY <2>1, <2>2, KernelRow
  <1>2. 0 \in Slots /\ Half \in Slots /\ Recursive \in Slots /\ Half # 0 /\ Half # Recursive /\ Recursive # 0
    BY SlotFacts, Halves
  <1>3. BootPml4 = 1 /\ KernelTable = 2 /\ IdentityTable = 3 /\ 1 \in Frames /\ 2 \in Frames /\ 3 \in Frames
    BY Layout
  <1>4. NoTable \in [Slots -> EntryType] /\ \A j \in Slots : NoTable[j] = NoEntry
    BY DEF NoTable, NoEntry, EntryType
  <1>5. PICK r, o, k, z :
          /\ r = Entry(BootPml4, {"P", "W"}) /\ o = Entry(IdentityTable, {"P", "W"})
          /\ k = Entry(KernelTable, {"P", "W"}) /\ z = Entry(0, {"P", "W"})
    OBVIOUS
  <1>6. /\ r \in EntryType /\ o \in EntryType /\ k \in EntryType /\ z \in EntryType
        /\ r.phys = 1 /\ o.phys = 3 /\ k.phys = 2 /\ z.phys = 0
        /\ r # NoEntry /\ o # NoEntry /\ k # NoEntry /\ NoEntry.phys = 0
    BY <1>3, <1>5 DEF Entry, EntryType, NoEntry
  <1>7. mem.tab = [[p \in Frames |-> NoTable] EXCEPT ![1][Recursive] = r, ![1][0] = o,
                                                     ![1][Half] = k, ![3][0] = z]
    BY <1>1, <1>3, <1>5 DEF BootInit, Frames
  <1>8. mem.tab = [p \in Frames |->
                     IF p = 1 THEN [NoTable EXCEPT ![Recursive] = r, ![0] = o, ![Half] = k]
                     ELSE IF p = 3 THEN [NoTable EXCEPT ![0] = z] ELSE NoTable]
    BY <1>3, <1>7
  <1>9. mem.tab \in Tabs
    <2>1. PICK x, y : x = [NoTable EXCEPT ![Recursive] = r, ![0] = o, ![Half] = k] /\ y = [NoTable EXCEPT ![0] = z]
      OBVIOUS
    <2>2. x \in [Slots -> EntryType] /\ y \in [Slots -> EntryType]
      BY <1>4, <1>6, <2>1
    <2>3. mem.tab = [p \in Frames |-> IF p = 1 THEN x ELSE IF p = 3 THEN y ELSE NoTable]
      BY <1>8, <2>1
    <2> QED BY <1>4, <2>2, <2>3 DEF Tabs
  <1>10. /\ mem.tab[1] = [NoTable EXCEPT ![Recursive] = r, ![0] = o, ![Half] = k]
         /\ mem.tab[2] = NoTable
         /\ \A q \in Frames \ {1} : mem.tab[q] = NoTable \/ mem.tab[q] = [NoTable EXCEPT ![0] = z]
    BY <1>3, <1>8
  <1>11. /\ mem.tab[1][Recursive] = r /\ mem.tab[1][0] = o /\ mem.tab[1][Half] = k
         /\ \A i \in Lower \ {0, Half} : mem.tab[1][i] = NoEntry
    BY <1>2, <1>4, <1>10 DEF Lower
  <1>12. \A q \in Frames \ {1}, j \in Slots : mem.tab[q][j].phys = 0
    BY <1>2, <1>4, <1>6, <1>10, ZenonT(60)
  <1> QED BY <1>3, <1>4, <1>6, <1>9, <1>10, <1>11, <1>12 DEF BootTab

\* They are in order.
LEMMA BootTabOK ==
  ASSUME NEW tb, BootTab(tb), regions = <<>>
  PROVE  /\ TabOK(tb, {BootPml4}) /\ HeapOK(tb, End)
         /\ \A q \in Frames, j \in Slots : tb[q][j].phys < HighBoundary
  <1> DEFINE cs == {BootPml4}
  <1>1. 0 \in Lower /\ Half \in Lower /\ Half \in KernelSlots /\ 0 # Half /\ Recursive \notin Lower
        /\ Slots = Lower \cup {Recursive} /\ KernelSlots \subseteq Lower /\ UserSlots \subseteq Lower
    BY SlotFacts, Halves DEF Lower
  <1>2. /\ BootPml4 = 1 /\ KernelTable = 2 /\ IdentityTable = 3 /\ 1 \in Frames /\ 2 \in Frames /\ 3 \in Frames
        /\ HighBoundary \in Nat /\ HighBoundary >= 4
    BY Layout
  <1>3. /\ tb[1][Recursive].phys = 1 /\ tb[1][0].phys = 3 /\ tb[1][Half].phys = 2
        /\ tb[1][Recursive] # NoEntry /\ tb[1][0] # NoEntry /\ tb[1][Half] # NoEntry
        /\ \A i \in Lower : i = 0 \/ i = Half \/ tb[1][i] = NoEntry
        /\ \A q \in Frames, j \in Slots : q # 1 => tb[q][j].phys = 0
        /\ tb \in Tabs /\ NoEntry.phys = 0
    BY <1>2 DEF BootTab, NoEntry
  <1>4. \A p : Single(p) <=> p \in {1, 2, 3}
    BY <1>2 DEF Single, Known
  <1>5. \A q : IsTable(tb, cs, q) <=> q \in {2, 3}
    BY <1>1, <1>2, <1>3 DEF IsTable, Lower
  <1>6. \A q, j : IsCell(tb, cs, q, j) <=> (q = 1 /\ j \in Lower) \/ (q \in {2, 3} /\ j \in Slots)
    <2>1. Lower = UserSlots \cup KernelSlots
      BY SlotFacts DEF Lower
    <2> QED BY <1>2, <1>5, <2>1 DEF IsCell
  <1>7. \A q \in Frames, j \in Slots : IsCell(tb, cs, q, j) /\ Single(tb[q][j].phys)
          => q = 1 /\ ((j = 0 /\ tb[q][j].phys = 3) \/ (j = Half /\ tb[q][j].phys = 2))
    BY <1>1, <1>3, <1>4, <1>6
  <1>8. CellsOK(tb, cs)
    BY <1>7 DEF CellsOK
  <1>9. ~Used(tb, cs, 1)
    <2>1. ASSUME NEW q \in Frames, NEW j \in Slots, IsCell(tb, cs, q, j), tb[q][j].phys = 1 PROVE FALSE
      BY <1>4, <1>7, <2>1
    <2> QED BY <2>1 DEF Used
  <1>10. TablesOK(tb, cs)
    BY <1>1, <1>2, <1>3, <1>4, <1>9 DEF TablesOK, Lower
  <1>11. ContextsOK(tb, cs)
    BY <1>2, <1>3 DEF ContextsOK
  <1>12. HeapOK(tb, End)
    <2>1. ASSUME NEW v \in End .. KernelTop - 1 PROVE KernelEntry(tb, v) = NoEntry
      <3>1. v \in KERNEL_BASE .. KernelTop - 1
        <4>1. Vram \in Nat /\ PhysRc \in Nat /\ KERNEL_BASE <= Vram /\ Vram + VramPages <= PhysRc
                /\ PhysRc < End /\ End \in Nat
          BY Layout
        <4> QED BY <4>1, KernelSlot, BootAssumption
      <3>2. Slot(v) \in Lower /\ Slot(v) # 0 /\ Index(v) \in Slots
        BY <3>1, KernelRange, SlotFacts
      <3>3. tb[2][Index(v)] = NoEntry
        BY <1>2, <3>2 DEF BootTab
      <3> QED BY <1>2, <1>3, <3>2, <3>3 DEF KernelEntry
    <2>2. End .. End - 1 = {} /\ End \in Nat
      BY Layout
    <2> QED BY <2>1, <2>2 DEF HeapOK
  <1>13. \A q \in Frames, j \in Slots : tb[q][j].phys < HighBoundary
    <2>1. ASSUME NEW q \in Frames, NEW j \in Slots PROVE tb[q][j].phys \in {0, 1, 2, 3}
      BY <1>1, <1>3
    <2> QED BY <1>2, <2>1
  <1> QED BY <1>3, <1>8, <1>10, <1>11, <1>12, <1>13 DEF TabOK

\* The first state.
LEMMA InitKeeps ==
  ASSUME Init
  PROVE  Inv
  <1>1. BootInit /\ contexts = {BootPml4} /\ job = [t \in Tasks |-> NoJob]
        /\ ctx = [t \in Tasks |-> IF t = FirstTask THEN BootPml4 ELSE 0]
    BY DEF Init
  <1>2. /\ regions = <<>> /\ ptr = End /\ at = [pc |-> "map_kernel", i |-> 0, rax |-> NoEntry]
        /\ memoryMap \in MemoryMaps /\ mem.counting = FALSE /\ mem.free = <<>> /\ mem.bump = <<>>
        /\ mem.cr3 = BootPml4 /\ mem.rc = [p \in Frames |-> 0]
    BY <1>1 DEF BootInit, Frames
  <1>3. BootTab(mem.tab)
    BY <1>1, BootTabIs
  <1>4. /\ TabOK(mem.tab, contexts) /\ HeapOK(mem.tab, ptr)
        /\ \A q \in Frames, j \in Slots : mem.tab[q][j].phys < HighBoundary
    BY <1>1, <1>2, <1>3, BootTabOK
  <1>5. mem \in MemType
    <2>1. PICK tb : tb = mem.tab
      OBVIOUS
    <2>2. tb \in Tabs /\ BootPml4 \in Frames
      BY <1>3, <2>1, Layout DEF BootTab
    <2>3. mem = [ tab |-> tb, rc |-> [p \in Frames |-> 0], counting |-> FALSE, free |-> <<>>,
                  bump |-> <<>>, cr3 |-> BootPml4 ]
      BY <1>1, <2>1 DEF BootInit, Frames
    <2> QED BY <2>2, <2>3 DEF MemType
  <1>6. PhysInv(mem, contexts, {})
    <2>1. AllocOK(mem.free, mem.bump)
      BY <1>2 DEF AllocOK, Listed, Fresh
    <2>2. PagesOK(mem, contexts, {})
      BY <1>2 DEF PagesOK, Known
    <2> QED BY <1>1, <1>2, <1>4, <1>5, <2>1, <2>2, PhysIs
  <1>7. AtOK
    <2>1. NoEntry \in EntryType /\ NoEntry.phys = 0 /\ Len(Image) \in Nat /\ HighBoundary \in Nat /\ HighBoundary >= 4
      BY Layout, BootAssumption DEF NoEntry, EntryType
    <2>2. BootPml4 # 0 /\ KernelTable # 0 /\ IdentityTable # 0
      BY Layout
    <2> QED BY <1>2, <2>1, <2>2 DEF AtOK, Booting, Early
  <1>8. RegionsOK
    BY <1>2 DEF RegionsOK
  <1>9. PhaseOK
    <2>1. Slot(KERNEL_BASE) = Half
      <3>1. 0 \in Nat /\ 0 < Fan /\ KERNEL_BASE \in Nat
        BY Halves, KernelSlot
      <3>2. KERNEL_BASE + 0 = KERNEL_BASE
        BY <3>1
      <3> QED BY <3>1, <3>2, KernelRow
    <2> QED BY <1>1, <1>2, <1>3, <1>4, <2>1 DEF PhaseOK, Early, Booting, BootTab
  <1>10. TasksOK
    BY <1>1 DEF TasksOK, NoJob
  <1>11. BorrowHolds
    BY <1>1 DEF BorrowHolds, NoJob
  <1> QED BY <1>4, <1>6, <1>7, <1>8, <1>9, <1>10, <1>11 DEF Inv

\* Below the heap the kernel maps what it wants.
LEMMA HeapBelow ==
  ASSUME NEW tb, NEW new, NEW cs, BootPml4 \in cs, NEW c, NEW e, NEW top, HeapOK(tb, top),
         NEW v \in KERNEL_BASE .. End - 1, OneLeaf(tb, new, cs, c, Slot(v), Index(v), e)
  PROVE  HeapOK(new, top)
  <1>1. KERNEL_BASE \in Nat /\ KernelTop \in Nat /\ End \in Nat /\ End < KernelTop /\ KERNEL_BASE <= End
    <2>1. Vram \in Nat /\ PhysRc \in Nat /\ KERNEL_BASE <= Vram /\ Vram + VramPages <= PhysRc /\ PhysRc < End
            /\ End \in Nat /\ End < KernelTop
      BY Layout
    <2> QED BY <2>1, KernelSlot, BootAssumption
  <1>2. v \in KERNEL_BASE .. KernelTop - 1
    BY <1>1
  <1>3. \A w \in KERNEL_BASE .. KernelTop - 1 :
          KernelEntry(new, w) = IF w = v THEN e ELSE KernelEntry(tb, w)
    BY <1>2, KernelOne
  <1>4. top \in Nat /\ top >= End
    BY DEF HeapOK
  <1>5. ASSUME NEW w \in top .. KernelTop - 1 PROVE KernelEntry(new, w) = NoEntry
    <2>1. w \in KERNEL_BASE .. KernelTop - 1 /\ w # v
      BY <1>1, <1>4
    <2> QED BY <1>3, <2>1 DEF HeapOK
  <1>6. ASSUME NEW w \in End .. top - 1 PROVE w < KernelTop /\ Known(KernelEntry(new, w).phys)
    <2>1. w < KernelTop
      BY DEF HeapOK
    <2>2. w \in KERNEL_BASE .. KernelTop - 1 /\ w # v
      BY <1>1, <1>4, <2>1
    <2> QED BY <1>3, <2>1, <2>2 DEF HeapOK
  <1> QED BY <1>4, <1>5, <1>6 DEF HeapOK

\* Entries are cleared.
Shrunk(tb, new, cs) ==
  /\ new \in Tabs
  /\ \A q \in Frames, j \in Slots : new[q][j] = tb[q][j] \/ new[q][j] = NoEntry
  /\ \A c \in cs : new[c][Recursive] = tb[c][Recursive]
  /\ \A c \in cs, i \in KernelSlots : new[c][i] = tb[c][i]

\* The tables stay in order.
LEMMA ShrunkOK ==
  ASSUME Bounds, NEW tb, NEW new, NEW cs, TabOK(tb, cs), Shrunk(tb, new, cs)
  PROVE  /\ TabOK(new, cs)
         /\ \A p \in Nat : p # 0 /\ Used(new, cs, p) => Used(tb, cs, p)
         /\ HeapOK(tb, End) => HeapOK(new, End)
  <1>1. /\ new \in Tabs /\ tb \in Tabs /\ cs \subseteq Frames
        /\ \A q \in Frames, j \in Slots : new[q][j] = tb[q][j] \/ new[q][j] = NoEntry
    BY DEF TabOK, Shrunk, ContextsOK
  <1>2. ASSUME NEW q, IsTable(new, cs, q) PROVE IsTable(tb, cs, q)
    BY <1>1, <1>2 DEF IsTable
  <1>3. ASSUME NEW q, NEW j, IsCell(new, cs, q, j) PROVE IsCell(tb, cs, q, j)
    BY <1>2, <1>3 DEF IsCell
  <1>4. NoEntry.phys = 0 /\ ~Single(0)
    BY ZeroIs DEF NoEntry
  <1>5. ASSUME NEW p \in Nat, p # 0, Used(new, cs, p) PROVE Used(tb, cs, p)
    <2>1. PICK q \in Frames, j \in Slots : IsCell(new, cs, q, j) /\ new[q][j].phys = p
      BY <1>5 DEF Used
    <2>2. tb[q][j].phys = p
      BY <1>1, <1>4, <1>5, <2>1
    <2> QED BY <1>3, <2>1, <2>2 DEF Used
  <1>6. CellsOK(new, cs)
    <2>1. ASSUME NEW q \in Frames, NEW r \in Frames, NEW j \in Slots, NEW k \in Slots,
                 IsCell(new, cs, q, j), IsCell(new, cs, r, k),
                 new[q][j].phys = new[r][k].phys, Single(new[q][j].phys)
          PROVE  q = r /\ j = k
      <3>1. new[q][j] = tb[q][j] /\ new[r][k] = tb[r][k]
        BY <1>1, <1>4, <2>1
      <3>2. IsCell(tb, cs, q, j) /\ IsCell(tb, cs, r, k)
        BY <1>3, <2>1
      <3> QED BY <2>1, <3>1, <3>2 DEF TabOK, CellsOK
    <2> QED BY <2>1 DEF CellsOK
  <1>7. ContextsOK(new, cs)
    BY DEF TabOK, ContextsOK, Shrunk
  <1>8. TablesOK(new, cs)
    <2>1. ASSUME NEW c \in cs PROVE ~Used(new, cs, c)
      BY <1>5, ContextIs
    <2>2. ASSUME NEW c \in cs, NEW i \in Slots \ {Recursive}
          PROVE  new[c][i] = NoEntry \/ Single(new[c][i].phys)
      BY <1>1 DEF TabOK, TablesOK
    <2> QED BY <2>1, <2>2 DEF TablesOK
  <1>9. ASSUME HeapOK(tb, End) PROVE HeapOK(new, End)
    <2>1. ASSUME NEW v \in End .. KernelTop - 1 PROVE KernelEntry(new, v) = NoEntry
      <3>1. v \in KERNEL_BASE .. KernelTop - 1
        <4>1. Vram \in Nat /\ PhysRc \in Nat /\ KERNEL_BASE <= Vram /\ Vram + VramPages <= PhysRc
                /\ PhysRc < End /\ End \in Nat
          BY Layout
        <4> QED BY <4>1, KernelSlot, BootAssumption
      <3>2. Slot(v) \in KernelSlots /\ Slot(v) \in Lower /\ Index(v) \in Slots
        BY <3>1, KernelRange
      <3>3. BootPml4 \in cs /\ new[BootPml4][Slot(v)] = tb[BootPml4][Slot(v)]
        BY <3>2 DEF TabOK, ContextsOK, Shrunk
      <3>4. KernelEntry(tb, v) = NoEntry
        BY <1>9 DEF HeapOK
      <3>5. CASE tb[BootPml4][Slot(v)] = NoEntry
        BY <3>3, <3>5 DEF KernelEntry
      <3>6. CASE tb[BootPml4][Slot(v)] # NoEntry
        <4>1. tb[BootPml4][Slot(v)].phys \in Frames
          BY <3>2, <3>3, <3>6, TableIs
        <4> QED BY <1>1, <3>2, <3>3, <3>4, <3>6, <4>1 DEF KernelEntry
      <3> QED BY <3>5, <3>6
    <2>2. End .. End - 1 = {} /\ End \in Nat
      BY Layout
    <2> QED BY <2>1, <2>2 DEF HeapOK
  <1> QED BY <1>1, <1>5, <1>6, <1>7, <1>8, <1>9 DEF TabOK

\* The entry of the kernel half that the kernel's first table is in.
LEMMA KernelTableAt ==
  ASSUME Inv, at.pc \in Early
  PROVE  /\ Slot(KERNEL_BASE) = Half /\ Half \in Lower
         /\ mem.tab[BootPml4][Half] # NoEntry /\ mem.tab[BootPml4][Half].phys = KernelTable
         /\ KernelTable \in Frames /\ KernelTable # BootPml4 /\ BootPml4 \in contexts
  <1>1. Slot(KERNEL_BASE) = Half
    <2>1. 0 \in Nat /\ 0 < Fan /\ KERNEL_BASE \in Nat
      BY Halves, KernelSlot
    <2>2. KERNEL_BASE + 0 = KERNEL_BASE
      BY <2>1
    <2> QED BY <2>1, <2>2, KernelRow
  <1>2. mem.tab[BootPml4][Half].phys = KernelTable
    BY <1>1 DEF Inv, PhaseOK
  <1>3. KernelTable # 0 /\ NoEntry.phys = 0 /\ KernelTable \in Frames /\ KernelTable # BootPml4
    BY Layout DEF NoEntry
  <1>4. Half \in Lower
    BY SlotFacts DEF Lower
  <1>5. BootPml4 \in contexts
    BY DEF Inv, PhysInv, ContextsOK
  <1> QED BY <1>1, <1>2, <1>3, <1>4, <1>5

\* Without regions there is nothing to count.
LEMMA NoRegions ==
  ASSUME regions = <<>>, NEW s \in MemType, NEW cs, s.cr3 \in cs, TabOK(s.tab, cs),
         AllocOK(s.free, s.bump)
  PROVE  PhysInv(s, cs, {})
  <1>1. PagesOK(s, cs, {})
    BY DEF PagesOK, Known
  <1> QED BY <1>1, PhysIs

\* map_kernel.
LEMMA MapKernelKeeps ==
  ASSUME Inv, map_kernel, UNCHANGED <<ctx, contexts, job>>
  PROVE  Inv'
  <1>1. /\ at.pc = "map_kernel" /\ at.i < Len(Image) /\ UNCHANGED <<memoryMap, regions, ptr>>
        /\ mem' = [mem EXCEPT !.tab[KernelTable][at.i] = at'.rax]
    BY DEF map_kernel, Pc
  <1>2. at.pc \in Early /\ at.pc \in Booting
    BY <1>1 DEF Early, Booting
  <1>3. /\ AtOK /\ RegionsOK /\ Bounds /\ PhysInv(mem, contexts, {}) /\ HeapOK(mem.tab, End) /\ PhaseOK
        /\ contexts = {BootPml4} /\ ptr = End /\ mem.cr3 = BootPml4 /\ TabOK(mem.tab, contexts)
        /\ mem \in MemType
    BY <1>2, BootFacts
  <1>4. PICK i, e : i = at.i /\ e = at'.rax
    OBVIOUS
  <1>5. /\ i \in Nat /\ i < Len(Image) /\ Len(Image) \in Nat /\ i < Fan /\ i \in Slots
        /\ at.rax \in EntryType /\ at.rax.phys < HighBoundary
        /\ at.rax.phys \notin {BootPml4, KernelTable, IdentityTable}
    <2>1. at \in [pc: Booting \cup {"run", "panic"}, i: Nat, rax: EntryType]
      BY <1>3 DEF AtOK
    <2>2. at.i \in Nat /\ at.rax \in EntryType
      BY <2>1
    <2>3. Len(Image) \in Nat /\ Len(Image) <= Fan /\ Fan \in Nat
      BY BootAssumption
    <2> QED BY <1>1, <1>3, <1>4, <2>2, <2>3 DEF AtOK, Slots
  <1>6. PICK k : k = Image[i + 1]
    OBVIOUS
  <1>7. at' = [at EXCEPT !.i = @ + 1, !.rax = IF k = "guard" THEN @
                  ELSE Entry(ImagePhys + i, IF k = "ro" THEN {"P"} ELSE {"P", "W"})]
    BY <1>4, <1>6 DEF map_kernel
  <1>8. PICK made : made = Entry(ImagePhys + i, IF k = "ro" THEN {"P"} ELSE {"P", "W"})
    OBVIOUS
  <1>9. made \in EntryType /\ made.phys < HighBoundary /\ made.phys \notin {BootPml4, KernelTable, IdentityTable}
    <2>1. made.phys = 4 + i /\ made \in EntryType
      BY <1>5, <1>8, Layout DEF Entry, EntryType
    <2> QED BY <1>5, <2>1, Layout DEF HighBoundary
  <1>10. at \in [pc: Booting \cup {"run", "panic"}, i: Nat, rax: EntryType]
    BY <1>3 DEF AtOK
  <1>11. at'.pc = "map_kernel" /\ at'.i = i + 1 /\ e = (IF k = "guard" THEN at.rax ELSE made)
    BY <1>1, <1>4, <1>7, <1>8, <1>10
  <1>12. e \in EntryType /\ e.phys < HighBoundary /\ e.phys \notin {BootPml4, KernelTable, IdentityTable}
    BY <1>5, <1>9, <1>11
  <1>13. at' \in [pc: Booting \cup {"run", "panic"}, i: Nat, rax: EntryType]
    <2>1. at' = [at EXCEPT !.i = i + 1, !.rax = e]
      BY <1>4, <1>7, <1>8, <1>10, <1>11
    <2>2. i + 1 \in Nat
      BY <1>5
    <2> QED BY <1>10, <1>12, <2>1, <2>2
  <1>14. AtOK'
    <2>1. i + 1 <= Len(Image)
      BY <1>5
    <2> QED BY <1>1, <1>3, <1>4, <1>11, <1>12, <1>13, <2>1 DEF AtOK
  <1>15. RegionsOK'
    BY <1>1, <1>3, <1>11 DEF RegionsOK, IsRegion, ClippedBegin
  <1>16. regions = <<>>
    BY <1>1, <1>3 DEF AtOK
  <1>17. PICK tb, new : tb = mem.tab /\ new = PutEntry(tb, KernelTable, i, e)
    OBVIOUS
  <1>18. /\ Half \in Lower /\ tb[BootPml4][Half] # NoEntry /\ tb[BootPml4][Half].phys = KernelTable
         /\ KernelTable \in Frames /\ KernelTable # BootPml4 /\ BootPml4 \in contexts
    BY <1>2, <1>17, KernelTableAt
  <1>19. ~Single(e.phys)
    BY <1>12, <1>16 DEF Single, Known
  <1>20. /\ TabOK(new, contexts) /\ \A d \in contexts : new[d] = tb[d]
         /\ OneLeaf(tb, new, contexts, BootPml4, Half, i, e)
    <2>1. PICK cs, q : cs = contexts /\ q = KernelTable
      OBVIOUS
    <2>2. TabOK(tb, cs) /\ BootPml4 \in cs /\ q = tb[BootPml4][Half].phys /\ new = PutEntry(tb, q, i, e)
      BY <1>3, <1>17, <1>18, <2>1
    <2>3. /\ TabOK(new, cs) /\ \A d \in cs : new[d] = tb[d]
          /\ \A d \in cs, x \in Lower, l \in Slots :
               Leaf(new, d, x, l) = IF x = Half /\ l = i /\ (d = BootPml4 \/ Half \in KernelSlots) THEN e
                                    ELSE Leaf(tb, d, x, l)
      BY <1>3, <1>5, <1>12, <1>18, <1>19, <2>2, LeafWrite
    <2> QED BY <2>1, <2>3 DEF OneLeaf
  <1>21. /\ mem' \in MemType /\ mem'.tab = new /\ mem'.cr3 = mem.cr3 /\ mem'.free = mem.free
         /\ mem'.bump = mem.bump /\ mem'.counting = mem.counting
    <2>1. new \in Tabs /\ mem' = [mem EXCEPT !.tab = new]
      BY <1>1, <1>3, <1>4, <1>17, <1>20 DEF TabOK, PutEntry
    <2> QED BY <1>3, <2>1 DEF MemType
  <1>22. PhysInv(mem', contexts', {})
    <2>1. AllocOK(mem.free, mem.bump)
      BY <1>3 DEF PhysInv
    <2> QED BY <1>3, <1>16, <1>20, <1>21, <2>1, NoRegions
  <1>23. HeapOK(mem'.tab, ptr')
    <2>1. PICK v : v = KERNEL_BASE + i
      OBVIOUS
    <2>2. v \in KERNEL_BASE .. End - 1
      <3>1. Vram \in Nat /\ PhysRc \in Nat /\ KERNEL_BASE + Len(Image) <= Vram /\ Vram + VramPages <= PhysRc
              /\ PhysRc < End /\ End \in Nat /\ KERNEL_BASE \in Nat /\ VramPages \in Nat
        BY Layout, KernelSlot, BootAssumption
      <3> QED BY <1>5, <2>1, <3>1
    <2>3. Slot(v) = Half /\ Index(v) = i
      BY <1>5, <2>1, KernelRow
    <2>4. OneLeaf(tb, new, contexts, BootPml4, Slot(v), Index(v), e)
      BY <1>20, <2>3
    <2>5. PICK cs, top : cs = contexts /\ top = End
      OBVIOUS
    <2>6. HeapOK(new, top)
      BY <1>3, <1>17, <1>18, <2>2, <2>4, <2>5, HeapBelow
    <2> QED BY <1>1, <1>3, <1>21, <2>5, <2>6
  <1>24. (PhysInv(mem, contexts, {}) /\ HeapOK(mem.tab, ptr))'
    BY <1>1, <1>22, <1>23, Steady
  <1>25. PhaseOK'
    <2>1. ASSUME NEW q \in Frames, NEW j \in Slots PROVE new[q][j].phys < HighBoundary
      <3>1. tb[q][j].phys < HighBoundary
        BY <1>2, <1>3, <1>17 DEF PhaseOK
      <3>2. tb \in Tabs
        BY <1>3, <1>17 DEF TabOK
      <3>3. new[q][j] = tb[q][j] \/ new[q][j] = e
        BY <1>17, <1>18, <3>2 DEF PutEntry, Tabs
      <3> QED BY <1>12, <3>1, <3>3
    <2>2. new[BootPml4][Slot(KERNEL_BASE)].phys = KernelTable
      BY <1>2, <1>17, <1>18, <1>20, KernelTableAt
    <2>3. ~mem.counting /\ \A t \in Tasks : job[t] = NoJob
      BY <1>1, <1>2, <1>3 DEF PhaseOK
    <2> QED BY <1>1, <1>3, <1>11, <1>21, <2>1, <2>2, <2>3 DEF PhaseOK, Early, Booting
  <1> QED BY <1>2, <1>14, <1>15, <1>24, <1>25, BootKeeps

\* The next part of the boot.
LEMMA GotoAt ==
  ASSUME AtOK, RegionsOK, Stay, NEW pc \in (Booting \cup {"run"}) \ {"map_kernel"}, Goto(pc),
         pc \in {"phys_init", "regions"} => regions = <<>>
  PROVE  AtOK' /\ RegionsOK' /\ at'.pc = pc
  <1>1. at' = [pc |-> pc, i |-> 0, rax |-> NoEntry]
    BY DEF Goto
  <1>2. at'.pc = pc /\ at'.i = 0
    BY <1>1
  <1>3. at' \in [pc: Booting \cup {"run", "panic"}, i: Nat, rax: EntryType]
    <2>1. NoEntry \in EntryType
      BY DEF NoEntry, EntryType
    <2> QED BY <1>1, <2>1
  <1>4. Len(memoryMap) \in Nat /\ VramPages \in Nat
    <2>1. memoryMap \in Seq([begin: Nat, size: Nat, usable: BOOLEAN])
      BY MapsAssumption DEF AtOK
    <2> QED BY <2>1, BootAssumption
  <1>5. AtOK'
    BY <1>2, <1>3, <1>4 DEF AtOK, Stay
  <1>6. RegionsOK'
    <2>1. CASE regions = <<>>
      BY <2>1 DEF RegionsOK, Stay
    <2>2. CASE pc # "regions"
      BY <1>2, <2>2 DEF RegionsOK, Stay, IsRegion, ClippedBegin
    <2> QED BY <2>1, <2>2
  <1> QED BY <1>2, <1>5, <1>6

\* higher_half.
LEMMA HigherHalfKeeps ==
  ASSUME Inv, higher_half, UNCHANGED <<ctx, contexts, job>>
  PROVE  Inv'
  <1>1. at.pc = "map_kernel" /\ Goto("phys_init") /\ UNCHANGED <<memoryMap, regions, mem, ptr>>
    BY DEF higher_half, Pc
  <1>2. at.pc \in Early /\ at.pc \in Booting
    BY <1>1 DEF Early, Booting
  <1>3. /\ AtOK /\ RegionsOK /\ PhysInv(mem, contexts, {}) /\ HeapOK(mem.tab, ptr) /\ PhaseOK
    BY DEF Inv
  <1>4. regions = <<>>
    BY <1>1, <1>3 DEF AtOK
  <1>5. AtOK' /\ RegionsOK' /\ at'.pc = "phys_init"
    <2>1. PICK pc \in (Booting \cup {"run"}) \ {"map_kernel"} : pc = "phys_init"
      BY DEF Booting, Early
    <2>2. Goto(pc)
      BY <1>1, <2>1
    <2>3. AtOK' /\ RegionsOK' /\ at'.pc = pc
      BY <1>1, <1>3, <1>4, <2>2, GotoAt DEF Stay
    <2> QED BY <2>1, <2>3
  <1>6. (PhysInv(mem, contexts, {}) /\ HeapOK(mem.tab, ptr))'
    BY <1>1, <1>3, Steady
  <1>7. PhaseOK'
    BY <1>1, <1>2, <1>3, <1>5 DEF PhaseOK, Early, Booting
  <1> QED BY <1>2, <1>5, <1>6, <1>7, BootKeeps

\* temp_reset.
LEMMA TempResetKeeps ==
  ASSUME Inv, TempReset, UNCHANGED <<ctx, contexts, job>>
  PROVE  Inv'
  <1>1. at.pc = "phys_init" /\ Goto("regions") /\ UNCHANGED <<memoryMap, regions, ptr>>
    BY DEF TempReset, Pc
  <1>2. at.pc \in Early /\ at.pc \in Booting
    BY <1>1 DEF Early, Booting
  <1>3. /\ AtOK /\ RegionsOK /\ Bounds /\ PhysInv(mem, contexts, {}) /\ HeapOK(mem.tab, End) /\ PhaseOK
        /\ contexts = {BootPml4} /\ ptr = End /\ mem.cr3 = BootPml4 /\ TabOK(mem.tab, contexts)
        /\ mem \in MemType
    BY <1>2, BootFacts
  <1>4. regions = <<>>
    BY <1>1, <1>3 DEF AtOK
  <1>5. AtOK' /\ RegionsOK' /\ at'.pc = "regions"
    <2>1. PICK pc \in (Booting \cup {"run"}) \ {"map_kernel"} : pc = "regions"
      BY DEF Booting, Early
    <2>2. Goto(pc)
      BY <1>1, <2>1
    <2>3. AtOK' /\ RegionsOK' /\ at'.pc = pc
      BY <1>1, <1>3, <1>4, <2>2, GotoAt DEF Stay
    <2> QED BY <2>1, <2>3
  <1>6. PICK tb, row, new :
          /\ tb = mem.tab
          /\ row = [i \in Slots |-> IF i < Len(Image) /\ Image[i + 1] = "temp" THEN NoEntry
                                    ELSE tb[KernelTable][i]]
          /\ new = [tb EXCEPT ![KernelTable] = row]
    OBVIOUS
  <1>7. mem' = [mem EXCEPT !.tab = new]
    BY <1>3, <1>6 DEF TempReset, MemType
  <1>8. /\ Slot(KERNEL_BASE) = Half /\ Half \in Lower /\ tb[BootPml4][Half].phys = KernelTable
        /\ KernelTable \in Frames /\ KernelTable # BootPml4 /\ BootPml4 \in Frames
    BY <1>2, <1>6, KernelTableAt, Layout
  <1>9. tb \in Tabs
    BY <1>3, <1>6 DEF TabOK
  <1>10. row \in [Slots -> EntryType] /\ \A j \in Slots : row[j] = tb[KernelTable][j] \/ row[j] = NoEntry
    BY <1>6, <1>8, <1>9, EntryIs
  <1>11. /\ new \in Tabs /\ new[BootPml4] = tb[BootPml4]
         /\ \A q \in Frames, j \in Slots : new[q][j] = tb[q][j] \/ new[q][j] = NoEntry
    BY <1>6, <1>8, <1>9, <1>10 DEF Tabs
  <1>12. Shrunk(tb, new, contexts)
    BY <1>3, <1>11 DEF Shrunk
  <1>13. TabOK(new, contexts) /\ HeapOK(new, End)
    BY <1>3, <1>6, <1>12, ShrunkOK
  <1>14. /\ mem' \in MemType /\ mem'.tab = new /\ mem'.cr3 = mem.cr3 /\ mem'.free = mem.free
         /\ mem'.bump = mem.bump /\ mem'.counting = mem.counting
    BY <1>3, <1>7, <1>11 DEF MemType
  <1>15. PhysInv(mem', contexts', {}) /\ HeapOK(mem'.tab, ptr')
    <2>1. AllocOK(mem.free, mem.bump)
      BY <1>3 DEF PhysInv
    <2> QED BY <1>1, <1>3, <1>4, <1>13, <1>14, <2>1, NoRegions
  <1>16. (PhysInv(mem, contexts, {}) /\ HeapOK(mem.tab, ptr))'
    BY <1>1, <1>15, Steady
  <1>17. PhaseOK'
    <2>1. ASSUME NEW q \in Frames, NEW j \in Slots PROVE new[q][j].phys < HighBoundary
      <3>1. tb[q][j].phys < HighBoundary
        BY <1>2, <1>3, <1>6 DEF PhaseOK
      <3>2. NoEntry.phys < HighBoundary
        BY Layout DEF NoEntry
      <3> QED BY <1>11, <3>1, <3>2
    <2>2. new[BootPml4][Slot(KERNEL_BASE)].phys = KernelTable
      BY <1>8, <1>11
    <2>3. ~mem.counting /\ \A t \in Tasks : job[t] = NoJob
      BY <1>1, <1>2, <1>3 DEF PhaseOK
    <2> QED BY <1>1, <1>3, <1>5, <1>14, <2>1, <2>2, <2>3 DEF PhaseOK, Early, Booting
  <1> QED BY <1>2, <1>5, <1>16, <1>17, BootKeeps

\* The end of the regions.
LEMMA RegionsDoneKeeps ==
  ASSUME Inv, RegionsDone, UNCHANGED <<ctx, contexts, job>>
  PROVE  Inv'
  <1>1. at.pc = "regions" /\ Goto("counters") /\ UNCHANGED <<memoryMap, regions, mem, ptr>>
    BY DEF RegionsDone, Pc
  <1>2. at.pc \in Early /\ at.pc \in Booting
    BY <1>1 DEF Early, Booting
  <1>3. /\ AtOK /\ RegionsOK /\ PhysInv(mem, contexts, {}) /\ HeapOK(mem.tab, ptr) /\ PhaseOK
    BY DEF Inv
  <1>4. AtOK' /\ RegionsOK' /\ at'.pc = "counters"
    <2>1. PICK pc \in (Booting \cup {"run"}) \ {"map_kernel"} : pc = "counters"
      BY DEF Booting, Early
    <2>2. Goto(pc)
      BY <1>1, <2>1
    <2>3. AtOK' /\ RegionsOK' /\ at'.pc = pc
      BY <1>1, <1>3, <2>1, <2>2, GotoAt DEF Stay
    <2> QED BY <2>1, <2>3
  <1>5. (PhysInv(mem, contexts, {}) /\ HeapOK(mem.tab, ptr))'
    BY <1>1, <1>3, Steady
  <1>6. PhaseOK'
    BY <1>1, <1>2, <1>3, <1>4 DEF PhaseOK, Early, Booting
  <1> QED BY <1>2, <1>4, <1>5, <1>6, BootKeeps

\* A sequence with one more element.
LEMMA AppendIs ==
  ASSUME NEW S, NEW q \in Seq(S), NEW x \in S
  PROVE  /\ Append(q, x) \in Seq(S) /\ Len(Append(q, x)) = Len(q) + 1 /\ Len(q) \in Nat
         /\ DOMAIN Append(q, x) = 1 .. Len(q) + 1 /\ DOMAIN q = 1 .. Len(q)
         /\ \A k \in 1 .. Len(q) : Append(q, x)[k] = q[k]
         /\ Append(q, x)[Len(q) + 1] = x
  OBVIOUS

\* The region n of the memory map, that is added.
NextRegion(n, r) ==
  /\ n \in DOMAIN memoryMap /\ IsRegion(memoryMap, n, r)
  /\ \A q \in DOMAIN regions : \E k \in DOMAIN memoryMap : k < n /\ IsRegion(memoryMap, k, regions[q])

\* It does not overlap the others.
LEMMA NextRegionIs ==
  ASSUME AtOK, RegionsOK, NEW n, NEW r, NextRegion(n, r)
  PROVE  /\ r \in [begin: Nat, end: Nat] /\ HighBoundary <= r.begin
         /\ \A q \in DOMAIN regions : regions[q].end <= r.begin \/ r.end <= regions[q].begin
  <1>1. PICK mm \in MemoryMaps : mm = memoryMap
    BY DEF AtOK
  <1>2. n \in DOMAIN mm /\ IsRegion(mm, n, r)
    BY <1>1 DEF NextRegion
  <1>3. /\ r \in [begin: Nat, end: Nat] /\ HighBoundary <= r.begin /\ mm[n].begin <= r.begin
        /\ r.end = mm[n].begin + mm[n].size
    BY <1>2, RegionBounds
  <1>4. mm \in Seq([begin: Nat, size: Nat, usable: BOOLEAN])
    BY MapsAssumption
  <1>5. DOMAIN mm \subseteq Nat
    BY <1>4
  <1>6. ASSUME NEW q \in DOMAIN regions
        PROVE  regions[q].end <= r.begin \/ r.end <= regions[q].begin
    <2>1. PICK k \in DOMAIN mm : k < n /\ IsRegion(mm, k, regions[q])
      BY <1>1 DEF NextRegion
    <2>2. /\ regions[q] \in [begin: Nat, end: Nat] /\ mm[k].begin <= regions[q].begin
          /\ regions[q].end = mm[k].begin + mm[k].size
      BY <2>1, RegionBounds
    <2>3. mm[n].usable /\ mm[k].usable /\ k # n
      BY <1>2, <1>5, <2>1 DEF IsRegion
    <2>4. mm[n].begin + mm[n].size <= mm[k].begin \/ mm[k].begin + mm[k].size <= mm[n].begin
      BY <1>2, <2>1, <2>3, MapsAssumption
    <2>5. mm[n] \in [begin: Nat, size: Nat, usable: BOOLEAN] /\ mm[k] \in [begin: Nat, size: Nat, usable: BOOLEAN]
      BY <1>2, <1>4, <2>1, SeqElement, Zenon
    <2>6. mm[n].begin \in Nat /\ mm[n].size \in Nat /\ mm[k].begin \in Nat /\ mm[k].size \in Nat
          /\ regions[q].begin \in Nat /\ regions[q].end \in Nat /\ r.begin \in Nat /\ r.end \in Nat
      BY <1>3, <2>2, <2>5
    <2> QED BY <1>3, <2>2, <2>4, <2>6
  <1> QED BY <1>3, <1>6

\* What the allocator offers then.
LEMMA AddAlloc ==
  ASSUME AtOK, RegionsOK, NEW n, NEW r, NextRegion(n, r), regions' = Append(regions, r),
         NEW fr, NEW bp, AllocOK(fr, bp), mem'.free = fr, mem'.bump = Append(bp, r.begin)
  PROVE  /\ AllocOK(mem.free, mem.bump)'
         /\ \A p \in Nat : Known(p)' <=> Known(p) \/ (r.begin <= p /\ p < r.end)
  <1>1. /\ r \in [begin: Nat, end: Nat] /\ HighBoundary <= r.begin
        /\ \A q \in DOMAIN regions : regions[q].end <= r.begin \/ r.end <= regions[q].begin
    BY NextRegionIs
  <1>2. regions \in Seq([begin: Nat, end: Nat]) /\ fr \in Seq(Nat) /\ bp \in Seq(Nat) /\ Len(bp) = Len(regions)
    BY DEF RegionsOK, AllocOK
  <1>3. PICK m \in Nat : m = Len(regions)
    BY <1>2
  <1>4. /\ regions' \in Seq([begin: Nat, end: Nat]) /\ Len(regions') = m + 1
        /\ DOMAIN regions' = 1 .. m + 1 /\ DOMAIN regions = 1 .. m
        /\ \A k \in 1 .. m : regions'[k] = regions[k]
        /\ regions'[m + 1] = r
    <2>1. PICK S : S = [begin: Nat, end: Nat]
      OBVIOUS
    <2>2. regions \in Seq(S) /\ r \in S
      BY <1>1, <1>2, <2>1
    <2>3. /\ Append(regions, r) \in Seq(S) /\ Len(Append(regions, r)) = Len(regions) + 1
          /\ DOMAIN Append(regions, r) = 1 .. Len(regions) + 1 /\ DOMAIN regions = 1 .. Len(regions)
          /\ \A k \in 1 .. Len(regions) : Append(regions, r)[k] = regions[k]
          /\ Append(regions, r)[Len(regions) + 1] = r
      BY <2>2, AppendIs
    <2> QED BY <1>3, <2>1, <2>3
  <1>5. PICK new : new = Append(bp, r.begin)
    OBVIOUS
  <1>6. /\ new \in Seq(Nat) /\ Len(new) = m + 1
        /\ \A k \in 1 .. m : new[k] = bp[k]
        /\ new[m + 1] = r.begin
    <2>1. r.begin \in Nat
      BY <1>1
    <2> QED BY <1>2, <1>3, <1>5, <2>1, AppendIs
  <1>7. ASSUME NEW p \in Nat
        PROVE  /\ Known(p)' <=> Known(p) \/ (r.begin <= p /\ p < r.end)
               /\ Fresh(new, p)' <=> Fresh(bp, p) \/ (r.begin <= p /\ p < r.end)
    <2>1. \A k : k \in DOMAIN regions' <=> k \in 1 .. m \/ k = m + 1
      BY <1>4
    <2>2. Known(p)' <=> Known(p) \/ (r.begin <= p /\ p < r.end)
      BY <1>4, <2>1 DEF Known
    <2>3. Fresh(new, p)' <=> Fresh(bp, p) \/ (r.begin <= p /\ p < r.end)
      BY <1>4, <1>6, <2>1 DEF Fresh
    <2> QED BY <2>2, <2>3
  <1>8. ASSUME NEW p \in Nat, Listed(fr, p) PROVE Known(p)' /\ ~Fresh(new, p)'
    <2>1. Known(p) /\ ~Fresh(bp, p)
      BY <1>8 DEF AllocOK
    <2>2. PICK q \in DOMAIN regions : regions[q].begin <= p /\ p < regions[q].end
      BY <2>1 DEF Known
    <2>3. regions[q] \in [begin: Nat, end: Nat]
      BY <1>2, <2>2, SeqElement, Zenon
    <2>4. ~(r.begin <= p /\ p < r.end)
      <3>1. regions[q].begin \in Nat /\ regions[q].end \in Nat /\ r.begin \in Nat /\ r.end \in Nat
        BY <1>1, <2>3
      <3> QED BY <1>1, <2>2, <3>1
    <2> QED BY <1>7, <2>1, <2>4
  <1>9. \A k \in DOMAIN regions' : regions'[k].begin <= new[k]
    <2>1. \A k \in 1 .. m : regions[k].begin <= bp[k]
      BY <1>4 DEF AllocOK
    <2>2. ASSUME NEW k \in DOMAIN regions' PROVE regions'[k].begin <= new[k]
      <3>1. CASE k \in 1 .. m
        BY <1>4, <1>6, <2>1, <3>1
      <3>2. CASE k = m + 1
        BY <1>1, <1>4, <1>6, <3>2
      <3> QED BY <1>4, <3>1, <3>2
    <2> QED BY <2>2
  <1>10. \A i, j \in DOMAIN fr : fr[i] = fr[j] => i = j
    BY DEF AllocOK
  <1>11. AllocOK(mem.free, mem.bump)'
    <2>1. mem'.free = fr /\ mem'.bump = new
      BY <1>5
    <2>2. Len(new) = Len(regions')
      BY <1>4, <1>6
    <2>3. \A p \in Nat : Listed(mem'.free, p) => Known(p)' /\ ~Fresh(mem.bump, p)'
      <3>1. ASSUME NEW p \in Nat, Listed(fr, p) PROVE ~Fresh(mem.bump, p)'
        BY <1>8, <2>1, <3>1 DEF Fresh
      <3> QED BY <1>8, <2>1, <3>1
    <2> QED BY <1>2, <1>6, <1>9, <1>10, <2>1, <2>2, <2>3 DEF AllocOK, Listed
  <1> QED BY <1>7, <1>11

\* A region of the BIOS.
LEMMA AddRegionKeeps ==
  ASSUME Inv, AddRegion, UNCHANGED <<ctx, contexts, job>>
  PROVE  Inv'
  <1>1. at.pc = "regions" /\ at.i < Len(memoryMap) /\ memoryMap' = memoryMap
    BY DEF AddRegion, Pc
  <1>2. at.pc \in Early /\ at.pc \in Booting
    BY <1>1 DEF Early, Booting
  <1>3. /\ AtOK /\ RegionsOK /\ Bounds /\ PhysInv(mem, contexts, {}) /\ HeapOK(mem.tab, End) /\ PhaseOK
        /\ contexts = {BootPml4} /\ ptr = End /\ mem.cr3 = BootPml4 /\ TabOK(mem.tab, contexts)
        /\ mem \in MemType
    BY <1>2, BootFacts
  <1>4. PICK n, x, e : n = at.i + 1 /\ x = memoryMap[n] /\ e = x.begin + x.size
    OBVIOUS
  <1>5. \/ Again /\ UNCHANGED <<regions, mem, ptr>>
        \/ Panic
        \/ /\ x.usable /\ ~(e < HighBoundary)
           /\ regions' = Append(regions, [begin |-> ClippedBegin(x), end |-> e])
           /\ mem' = [mem EXCEPT !.bump = Append(@, ClippedBegin(x))]
           /\ Again /\ UNCHANGED ptr
    BY <1>4 DEF AddRegion
  <1>6. /\ at \in [pc: Booting \cup {"run", "panic"}, i: Nat, rax: EntryType]
        /\ at.i \in Nat /\ n \in Nat /\ Len(memoryMap) \in Nat /\ n <= Len(memoryMap) /\ n \in DOMAIN memoryMap
        /\ x \in [begin: Nat, size: Nat, usable: BOOLEAN]
    <2>1. memoryMap \in Seq([begin: Nat, size: Nat, usable: BOOLEAN])
      BY <1>3, MapsAssumption DEF AtOK
    <2>2. at \in [pc: Booting \cup {"run", "panic"}, i: Nat, rax: EntryType]
      BY <1>3 DEF AtOK
    <2>3. at.i \in Nat
      BY <2>2
    <2>4. Len(memoryMap) \in Nat /\ DOMAIN memoryMap = 1 .. Len(memoryMap)
      BY <2>1
    <2>5. n \in Nat /\ n <= Len(memoryMap) /\ n \in DOMAIN memoryMap
      BY <1>1, <1>4, <2>3, <2>4
    <2>6. x \in [begin: Nat, size: Nat, usable: BOOLEAN]
      BY <1>4, <2>1, <2>5, SeqElement, Zenon
    <2> QED BY <2>2, <2>3, <2>4, <2>5, <2>6
  <1>7. ASSUME Again PROVE AtOK' /\ at'.pc = "regions" /\ at'.i = n
    <2>1. at' = [at EXCEPT !.i = n]
      BY <1>4, <1>6, <1>7 DEF Again
    <2>2. at' \in [pc: Booting \cup {"run", "panic"}, i: Nat, rax: EntryType] /\ at'.pc = "regions" /\ at'.i = n
      BY <1>1, <1>6, <2>1
    <2> QED BY <1>1, <1>3, <1>6, <2>2 DEF AtOK
  <1>8. CASE Panic
    <2>1. Stopped /\ UNCHANGED <<regions, mem, ptr>>
      BY <1>8 DEF Panic, Goto, Stopped
    <2> QED BY <1>1, <2>1, StopKeeps
  <1>9. CASE Again /\ UNCHANGED <<regions, mem, ptr>>
    <2>1. RegionsOK'
      <3>1. ASSUME NEW r \in DOMAIN regions
            PROVE  \E k \in DOMAIN memoryMap : k <= n /\ IsRegion(memoryMap, k, regions[r])
        <4>1. PICK k \in DOMAIN memoryMap : k <= at.i /\ IsRegion(memoryMap, k, regions[r])
          BY <1>1, <1>3 DEF RegionsOK
        <4>2. k \in Nat
          <5>1. memoryMap \in Seq([begin: Nat, size: Nat, usable: BOOLEAN])
            BY <1>3, MapsAssumption DEF AtOK
          <5> QED BY <4>1, <5>1
        <4> QED BY <1>4, <1>6, <4>1, <4>2
      <3> QED BY <1>1, <1>3, <1>7, <1>9, <3>1 DEF RegionsOK, IsRegion, ClippedBegin
    <2>2. (PhysInv(mem, contexts, {}) /\ HeapOK(mem.tab, ptr))'
      BY <1>3, <1>9, Steady
    <2>3. PhaseOK'
      BY <1>1, <1>2, <1>3, <1>7, <1>9 DEF PhaseOK, Early, Booting
    <2> QED BY <1>2, <1>7, <1>9, <2>1, <2>2, <2>3, BootKeeps
  <1>10. CASE /\ x.usable /\ ~(e < HighBoundary)
              /\ regions' = Append(regions, [begin |-> ClippedBegin(x), end |-> e])
              /\ mem' = [mem EXCEPT !.bump = Append(@, ClippedBegin(x))]
              /\ Again /\ UNCHANGED ptr
    <2>1. PICK r : r = [begin |-> ClippedBegin(x), end |-> e]
      OBVIOUS
    <2>2. regions' = Append(regions, r) /\ r.begin = ClippedBegin(x) /\ r.end = e
      BY <1>10, <2>1
    <2>3. IsRegion(memoryMap, n, r)
      <3>1. HighBoundary <= e
        <4>1. x.begin \in Nat /\ x.size \in Nat /\ HighBoundary \in Nat
          BY <1>6, Layout
        <4> QED BY <1>4, <1>10, <4>1
      <3> QED BY <1>4, <1>10, <2>1, <2>2, <3>1 DEF IsRegion
    <2>4. NextRegion(n, r)
      <3>1. ASSUME NEW q \in DOMAIN regions
            PROVE  \E k \in DOMAIN memoryMap : k < n /\ IsRegion(memoryMap, k, regions[q])
        <4>1. PICK k \in DOMAIN memoryMap : k <= at.i /\ IsRegion(memoryMap, k, regions[q])
          BY <1>1, <1>3 DEF RegionsOK
        <4>2. k \in Nat
          <5>1. memoryMap \in Seq([begin: Nat, size: Nat, usable: BOOLEAN])
            BY <1>3, MapsAssumption DEF AtOK
          <5> QED BY <4>1, <5>1
        <4> QED BY <1>4, <1>6, <4>1, <4>2
      <3> QED BY <1>6, <2>3, <3>1 DEF NextRegion
    <2>5. /\ r \in [begin: Nat, end: Nat] /\ HighBoundary <= r.begin
          /\ \A q \in DOMAIN regions : regions[q].end <= r.begin \/ r.end <= regions[q].begin
      BY <1>3, <2>4, NextRegionIs
    <2>6. PICK fr, bp, new : fr = mem.free /\ bp = mem.bump /\ new = Append(bp, r.begin)
      OBVIOUS
    <2>7. AllocOK(fr, bp) /\ new \in Seq(Nat)
      <3>1. AllocOK(fr, bp)
        BY <1>3, <2>6 DEF PhysInv
      <3>2. bp \in Seq(Nat) /\ r.begin \in Nat
        BY <2>5, <3>1 DEF AllocOK
      <3> QED BY <2>6, <3>1, <3>2, AppendIs
    <2>8. /\ mem' \in MemType /\ mem'.tab = mem.tab /\ mem'.free = fr /\ mem'.bump = new
          /\ mem'.counting = mem.counting /\ mem'.cr3 = mem.cr3
      <3>1. mem' = [mem EXCEPT !.bump = new]
        BY <1>3, <1>10, <2>2, <2>6
      <3> QED BY <1>3, <2>6, <2>7, <3>1 DEF MemType
    <2>9. /\ AllocOK(mem.free, mem.bump)'
          /\ \A p \in Nat : Known(p)' <=> Known(p) \/ (r.begin <= p /\ p < r.end)
      <3>1. mem'.free = fr /\ mem'.bump = Append(bp, r.begin)
        BY <2>6, <2>8
      <3> QED BY <1>3, <2>2, <2>4, <2>7, <3>1, AddAlloc
    <2>10. RegionsOK'
      <3>1. PICK S, m : S = [begin: Nat, end: Nat] /\ m = Len(regions)
        OBVIOUS
      <3>2. regions \in Seq(S) /\ r \in S
        BY <1>3, <2>5, <3>1 DEF RegionsOK
      <3>3. /\ regions' \in Seq(S) /\ DOMAIN regions' = 1 .. m + 1 /\ DOMAIN regions = 1 .. m
            /\ \A k \in 1 .. m : regions'[k] = regions[k]
            /\ regions'[m + 1] = r /\ m \in Nat
        BY <2>2, <3>1, <3>2, AppendIs
      <3>4. \A k \in DOMAIN regions' : k \in DOMAIN regions \/ k = m + 1
        BY <3>3
      <3>5. ASSUME NEW k \in DOMAIN regions'
            PROVE  \E l \in DOMAIN memoryMap : l <= n /\ IsRegion(memoryMap, l, regions'[k])
        <4>1. CASE k \in DOMAIN regions
          <5>1. PICK l \in DOMAIN memoryMap : l < n /\ IsRegion(memoryMap, l, regions[k])
            BY <2>4, <4>1 DEF NextRegion
          <5>2. l \in Nat
            <6>1. memoryMap \in Seq([begin: Nat, size: Nat, usable: BOOLEAN])
              BY <1>3, MapsAssumption DEF AtOK
            <6> QED BY <5>1, <6>1
          <5>3. l <= n /\ regions'[k] = regions[k]
            BY <1>6, <3>3, <4>1, <5>1, <5>2
          <5> QED BY <5>1, <5>3
        <4>2. CASE k = m + 1
          <5>1. n <= n
            BY <1>6
          <5> QED BY <1>6, <2>3, <3>3, <4>2, <5>1
        <4> QED BY <3>4, <4>1, <4>2
      <3>6. ASSUME NEW k \in DOMAIN regions', NEW l \in DOMAIN regions', k # l
            PROVE  regions'[k].end <= regions'[l].begin \/ regions'[l].end <= regions'[k].begin
        <4>1. CASE k \in DOMAIN regions /\ l \in DOMAIN regions
          BY <1>3, <3>3, <3>6, <4>1 DEF RegionsOK
        <4>2. CASE k = m + 1 /\ l \in DOMAIN regions
          BY <2>5, <3>3, <4>2
        <4>3. CASE k \in DOMAIN regions /\ l = m + 1
          BY <2>5, <3>3, <4>3
        <4> QED BY <3>4, <3>6, <4>1, <4>2, <4>3
      <3>7. \A k \in DOMAIN regions' : \E l \in DOMAIN memoryMap : l <= n /\ IsRegion(memoryMap, l, regions[k])'
        BY <1>1, <3>5 DEF IsRegion, ClippedBegin
      <3>8. regions' \in Seq([begin: Nat, end: Nat])
        BY <3>1, <3>3
      <3> QED BY <1>1, <1>7, <1>10, <3>6, <3>7, <3>8 DEF RegionsOK
    <2>11. \A q \in Frames, j \in Slots : mem.tab[q][j].phys \in Nat /\ mem.tab[q][j].phys < HighBoundary
      BY <1>2, <1>3, EntryIs DEF PhaseOK, TabOK
    <2>12. ASSUME NEW p \in Nat, Known(p)' PROVE p >= HighBoundary
      <3>1. CASE Known(p)
        BY <1>3, <3>1, KnownIs
      <3>2. CASE r.begin <= p
        <4>1. r.begin \in Nat /\ HighBoundary \in Nat
          BY <2>5, Layout
        <4> QED BY <2>5, <3>2, <4>1
      <3> QED BY <2>9, <2>12, <3>1, <3>2
    <2>13. \A p \in Nat : (p < HighBoundary => ~Known(p)') /\ (Known(p) => Known(p)')
      BY <2>9, <2>12, Layout
    <2>14. ASSUME NEW p \in Nat, p < HighBoundary PROVE Single(p)' <=> Single(p)
      <3>1. ~Known(p)' /\ ~Known(p)
        BY <2>13, <2>14
      <3> QED BY <3>1 DEF Single
    <2>15. mem'.tab = mem.tab /\ contexts' = contexts /\ mem'.cr3 \in contexts
      BY <1>3, <2>8
    <2>16. \A c \in contexts : c \in Frames /\ c < HighBoundary /\ c = BootPml4
      BY <1>3, Layout
    <2>17. ContextsOK(mem.tab, contexts)'
      <3>1. ContextsOK(mem.tab, contexts)
        BY <1>3 DEF TabOK
      <3> QED BY <2>15, <2>16, <3>1 DEF ContextsOK
    <2>18. TablesOK(mem.tab, contexts)'
      <3>1. ASSUME NEW c \in contexts, NEW i \in Slots \ {Recursive}
            PROVE  mem.tab[c][i] = NoEntry \/ \E p \in Nat : p = mem.tab[c][i].phys /\ Single(p)'
        <4>1. mem.tab[c][i] = NoEntry \/ Single(mem.tab[c][i].phys)
          BY <1>3 DEF TabOK, TablesOK
        <4>2. PICK p \in Nat : p = mem.tab[c][i].phys /\ p < HighBoundary
          BY <2>11, <2>16
        <4> QED BY <2>14, <4>1, <4>2
      <3>2. \A c \in contexts : ~Used(mem.tab, contexts, c)
        BY <1>3 DEF TabOK, TablesOK
      <3>3. \A c \in contexts : ~Used(mem'.tab, contexts', c)
        BY <2>15, <3>2
      <3> QED BY <2>15, <3>1, <3>3 DEF TablesOK, Single, Known
    <2>19. CellsOK(mem.tab, contexts)'
      <3>1. ASSUME NEW q \in Frames, NEW j \in Slots, NEW p, p = mem'.tab[q][j].phys, Single(p)'
            PROVE  Single(mem.tab[q][j].phys)
        <4>1. p \in Nat /\ p < HighBoundary /\ p = mem.tab[q][j].phys
          BY <2>11, <2>15, <3>1
        <4> QED BY <2>14, <3>1, <4>1
      <3>2. \A q, k \in Frames, j, l \in Slots :
              /\ IsCell(mem.tab, contexts, q, j) /\ IsCell(mem.tab, contexts, k, l)
              /\ mem.tab[q][j].phys = mem.tab[k][l].phys /\ Single(mem.tab[q][j].phys)
              => q = k /\ j = l
        BY <1>3 DEF TabOK, CellsOK
      <3>3. ASSUME NEW q \in Frames, NEW k \in Frames, NEW j \in Slots, NEW l \in Slots,
                   IsCell(mem'.tab, contexts', q, j), IsCell(mem'.tab, contexts', k, l),
                   mem'.tab[q][j].phys = mem'.tab[k][l].phys,
                   NEW p, p = mem'.tab[q][j].phys, Single(p)'
            PROVE  q = k /\ j = l
        BY <2>15, <3>1, <3>2, <3>3
      <3> QED BY <3>3 DEF CellsOK
    <2>20. PagesOK(mem, contexts, {})'
      <3>1. ~mem.counting
        BY <1>2, <1>1, <1>3 DEF PhaseOK, Booting, Early
      <3>2. ASSUME NEW p \in Frames, Known(p)' PROVE p \notin contexts' /\ ~Used(mem'.tab, contexts', p)
        <4>1. p \in Nat /\ p >= HighBoundary
          BY <2>12, <3>2 DEF Frames
        <4>2. p \notin contexts'
          BY <2>15, <2>16, <4>1, Layout
        <4>3. ~Used(mem.tab, contexts, p)
          BY <2>11, <4>1, Layout DEF Used
        <4> QED BY <2>15, <4>2, <4>3
      <3> QED BY <2>8, <3>1, <3>2 DEF PagesOK
    <2>21. PhysInv(mem, contexts, {})'
      BY <2>8, <2>9, <2>15, <2>17, <2>18, <2>19, <2>20 DEF PhysInv
    <2>22. HeapOK(mem.tab, ptr)'
      <3>1. ptr' = End /\ End .. End - 1 = {} /\ End \in Nat
        BY <1>3, <1>10, Layout
      <3>2. \A v \in End .. KernelTop - 1 : KernelEntry(mem.tab, v) = NoEntry
        BY <1>3 DEF HeapOK
      <3>3. \A v \in End .. KernelTop - 1 : KernelEntry(mem'.tab, v) = NoEntry
        BY <2>15, <3>2
      <3> QED BY <3>1, <3>3 DEF HeapOK
    <2>23. PhaseOK'
      BY <1>1, <1>2, <1>3, <1>7, <1>10, <2>8, <2>15 DEF PhaseOK, Early, Booting
    <2> QED BY <1>2, <1>7, <1>10, <2>10, <2>21, <2>22, <2>23, BootKeeps
  <1> QED BY <1>5, <1>8, <1>9, <1>10

\* While there is one context, page p is about to be mapped at v, below the heap.
MapsBelow(s, cs, hs, v, p) ==
  /\ cs = {BootPml4} /\ PhysInv(s, cs, hs) /\ HeapOK(s.tab, End) /\ v \in KERNEL_BASE .. End - 1
  /\ p \in Nat /\ p # 0 /\ (Single(p) => p \in hs /\ Known(p))

MappedBelow(s, t, cs, hs) ==
  /\ PhysInv(t, cs, hs) /\ HeapOK(t.tab, End) /\ t.counting = s.counting
  /\ CountersMapped(s.tab) => CountersMapped(t.tab)

\* map of a kernel address below the heap, while there is one context.
LEMMA BootMap ==
  ASSUME Bounds, NEW s, NEW hs, NEW cs, NEW v, NEW p, MapsBelow(s, cs, hs, v, p),
         NEW flags \in SUBSET {"P", "W", "U"}, NEW rest, rest = hs \ {p}, NEW m, m = map(s, p, v, flags)
  PROVE  MappedBelow(s, m.s, cs, rest)
  <1>0. /\ cs = {BootPml4} /\ PhysInv(s, cs, hs) /\ HeapOK(s.tab, End) /\ v \in KERNEL_BASE .. End - 1
        /\ p \in Nat /\ p # 0 /\ (Single(p) => p \in hs /\ Known(p))
    BY DEF MapsBelow
  <1>1. v \in KERNEL_BASE .. KernelTop - 1
    <2>1. KERNEL_BASE \in Nat /\ KernelTop \in Nat /\ End \in Nat /\ End < KernelTop
      BY Layout, KernelSlot
    <2> QED BY <1>0, <2>1
  <1>2. v \in Nat /\ Slot(v) # Recursive
    BY <1>1, KernelRange
  <1>3. PICK t, e : t = m.s /\ e = Entry(p, flags)
    OBVIOUS
  <1>4. PhysInv(t, cs, hs \ {p}) /\ Mapped(s, t, cs, v, e, m.err)
    BY <1>0, <1>2, <1>3, MapIs
  <1>5. BootPml4 \in cs /\ e # NoEntry
    BY <1>0, <1>3 DEF Entry, NoEntry
  <1>6. t.counting = s.counting
    BY <1>4 DEF Mapped
  <1>7. HeapOK(t.tab, End) /\ (CountersMapped(s.tab) => CountersMapped(t.tab))
    <2>1. PICK i, new, c, top : i = s.tab /\ new = t.tab /\ c = s.cr3 /\ top = End
      OBVIOUS
    <2>2. CASE OneLeaf(i, new, cs, c, Slot(v), Index(v), e)
      <3>1. HeapOK(new, top)
        BY <1>0, <1>5, <2>1, <2>2, HeapBelow
      <3>2. \A w \in KERNEL_BASE .. KernelTop - 1 :
              KernelEntry(new, w) = IF w = v THEN e ELSE KernelEntry(i, w)
        BY <1>1, <1>5, <2>2, KernelOne
      <3>3. CountersMapped(i) => CountersMapped(new)
        BY <1>5, <3>2, CountersOne
      <3> QED BY <2>1, <3>1, <3>3
    <2>3. CASE SameLeaves(i, new, cs)
      <3>1. \A k \in KernelSlots, l \in Slots : Leaf(new, BootPml4, k, l) = Leaf(i, BootPml4, k, l)
        BY <1>5, <2>3, SlotFacts DEF SameLeaves, Lower
      <3>2. SameKernel(i, new)
        BY <1>5, <3>1, KernelKept
      <3>3. HeapOK(new, top) /\ (CountersMapped(i) => CountersMapped(new))
        BY <1>0, <2>1, <3>2, SameKernelKeeps
      <3> QED BY <2>1, <3>3
    <2> QED BY <1>4, <2>1, <2>2, <2>3 DEF Mapped
  <1> QED BY <1>3, <1>4, <1>6, <1>7 DEF MappedBelow

\* A step of the boot on mem only.
LEMMA BootMemory ==
  ASSUME Inv, at.pc \in Booting \ Early, UNCHANGED <<memoryMap, regions, ptr, ctx, contexts, job>>,
         PhysInv(mem', contexts, {}), HeapOK(mem'.tab, End), (AtOK /\ RegionsOK)',
         at'.pc \in (Booting \cup {"run"}) \ Early,
         at'.pc \in Booting \ {"slots"} => ~mem'.counting,
         at'.pc \in {"slots", "run"} => mem'.counting,
         at'.pc # "counters" => CountersMapped(mem'.tab),
         at'.pc = "run" => FullKernel(mem'.tab)
  PROVE  Inv'
  <1>1. at.pc \in Booting /\ ptr = End /\ contexts = {BootPml4} /\ \A t \in Tasks : job[t] = NoJob
    BY DEF Inv, PhaseOK
  <1>2. (PhysInv(mem, contexts, {}) /\ HeapOK(mem.tab, ptr))'
    BY <1>1, Steady
  <1>3. at'.pc # "counters" => CountersMapped(mem.tab)'
    BY Steady
  <1>4. PhaseOK'
    BY <1>1, <1>3 DEF PhaseOK, Booting, Early, FullKernel
  <1> QED BY <1>1, <1>2, <1>4, BootKeeps

\* ensure_rc_page.
LEMMA EnsureRcPageKeeps ==
  ASSUME Inv, EnsureRcPage, UNCHANGED <<ctx, contexts, job>>
  PROVE  Inv'
  <1>1. at.pc = "counters" /\ memoryMap' = memoryMap
    BY DEF EnsureRcPage, Pc
  <1>2. at.pc \in Booting /\ at.pc \in Booting \ Early
    BY <1>1 DEF Early, Booting
  <1>3. /\ AtOK /\ RegionsOK /\ Bounds /\ PhysInv(mem, contexts, {}) /\ HeapOK(mem.tab, End) /\ PhaseOK
        /\ contexts = {BootPml4} /\ ptr = End /\ mem.cr3 = BootPml4 /\ TabOK(mem.tab, contexts)
        /\ mem \in MemType
    BY <1>2, BootFacts
  <1>4. PICK missing : missing = {p \in Counted : ~is_mapped(mem, RcPage(p))}
    OBVIOUS
  <1>5. PICK p, b, g, m : /\ p = (CHOOSE q \in missing : \A k \in missing : q <= k)
                          /\ b = alloc(mem).s /\ g = alloc(mem).page
                          /\ m = map(b, g, RcPage(p), {"P", "W"})
    OBVIOUS
  <1>6. IF missing = {} THEN Goto("vram") /\ UNCHANGED <<regions, mem, ptr>>
        ELSE IF g = 0 \/ m.err # "" THEN Panic
        ELSE mem' = m.s /\ UNCHANGED <<at, regions, ptr>>
    BY <1>4, <1>5 DEF EnsureRcPage
  <1>7. ~mem.counting
    BY <1>1, <1>3 DEF PhaseOK, Booting, Early
  <1>8. CASE missing = {}
    <2>1. Goto("vram") /\ UNCHANGED <<regions, mem, ptr>>
      BY <1>6, <1>8
    <2>2. AtOK' /\ RegionsOK' /\ at'.pc = "vram"
      <3>1. PICK pc \in (Booting \cup {"run"}) \ {"map_kernel"} : pc = "vram"
        BY DEF Booting, Early
      <3>2. Goto(pc)
        BY <2>1, <3>1
      <3>3. AtOK' /\ RegionsOK' /\ at'.pc = pc
        BY <1>1, <1>3, <2>1, <3>1, <3>2, GotoAt DEF Stay
      <3> QED BY <3>1, <3>3
    <2>3. CountersMapped(mem.tab)
      <3>1. ASSUME NEW x \in Frames, Known(x) PROVE KernelEntry(mem.tab, RcPage(x)) # NoEntry
        <4>1. is_mapped(mem, RcPage(x))
          BY <1>4, <1>8, <3>1 DEF Counted, Frames
        <4>2. PICK v, cs : v = RcPage(x) /\ cs = contexts
          OBVIOUS
        <4>3. v \in KERNEL_BASE .. KernelTop - 1
          BY <4>2, RcPageIs, KernelSlot
        <4> QED BY <1>3, <4>1, <4>2, <4>3, KernelMapped
      <3> QED BY <3>1 DEF CountersMapped
    <2> QED BY <1>1, <1>2, <1>3, <1>7, <2>1, <2>2, <2>3, BootMemory DEF Booting, Early
  <1>9. CASE Panic
    <2>1. Stopped /\ UNCHANGED <<regions, mem, ptr>>
      BY <1>9 DEF Panic, Goto, Stopped
    <2> QED BY <1>1, <2>1, StopKeeps
  <1>10. CASE missing # {} /\ g # 0 /\ mem' = m.s /\ UNCHANGED <<at, regions, ptr>>
    <2>1. p \in Frames
      <3>1. missing \subseteq Nat /\ missing \subseteq Frames
        BY <1>4 DEF Counted, Frames
      <3>2. \E q \in missing : \A k \in missing : q <= k
        BY <1>10, <3>1, LeastNumber
      <3>3. p \in missing
        BY <1>5, <3>2
      <3> QED BY <3>1, <3>3
    <2>2. Allocated(mem, b, g)
      BY <1>3, <1>5, <1>10, AllocIs, PhysIs
    <2>3. PICK cs, hs, s, v : cs = contexts /\ hs = {} \cup {g} /\ s = mem /\ v = RcPage(p)
      OBVIOUS
    <2>4. PhysInv(b, cs, hs) /\ Loaded(s, b, s.cr3)
      BY <1>3, <2>2, <2>3, AllocStep
    <2>5. g \in Nat /\ g \in hs /\ Known(g) /\ hs \ {g} = {}
      BY <2>2, <2>3 DEF Allocated, Frames
    <2>6. v \in KERNEL_BASE .. End - 1
      BY <2>1, <2>3, RcPageIs, KernelSlot, Layout, SMTT(30)
    <2>7. PICK flags \in SUBSET {"P", "W", "U"} : flags = {"P", "W"}
      OBVIOUS
    <2>8. HeapOK(b.tab, End) /\ b.counting = mem.counting /\ m = map(b, g, v, flags) /\ cs = {BootPml4}
      BY <1>3, <1>5, <2>3, <2>4, <2>7 DEF Loaded
    <2>9. PhysInv(m.s, cs, {}) /\ HeapOK(m.s.tab, End) /\ m.s.counting = b.counting
      <3>1. PICK rest : rest = hs \ {g}
        OBVIOUS
      <3>2. MapsBelow(b, cs, hs, v, g)
        BY <1>10, <2>4, <2>5, <2>6, <2>8 DEF MapsBelow
      <3>3. MappedBelow(b, m.s, cs, rest)
        BY <1>3, <2>8, <3>1, <3>2, BootMap
      <3>4. rest = {}
        BY <2>5, <3>1
      <3> QED BY <3>3, <3>4 DEF MappedBelow
    <2>10. AtOK' /\ RegionsOK'
      BY <1>1, <1>3, <1>10 DEF AtOK, RegionsOK, IsRegion, ClippedBegin
    <2>11. /\ PhysInv(mem', contexts, {}) /\ HeapOK(mem'.tab, End) /\ ~mem'.counting /\ at'.pc = "counters"
      BY <1>1, <1>7, <1>10, <2>3, <2>8, <2>9
    <2> QED BY <1>1, <1>2, <1>10, <2>10, <2>11, BootMemory DEF Booting, Early
  <1> QED BY <1>6, <1>8, <1>9, <1>10

\* A page of VRAM.
LEMMA MapVramKeeps ==
  ASSUME Inv, MapVram, UNCHANGED <<ctx, contexts, job>>
  PROVE  Inv'
  <1>1. at.pc = "vram" /\ memoryMap' = memoryMap /\ at.i < VramPages
    BY DEF MapVram, Pc
  <1>2. at.pc \in Booting /\ at.pc \in Booting \ Early
    BY <1>1 DEF Early, Booting
  <1>3. /\ AtOK /\ RegionsOK /\ Bounds /\ PhysInv(mem, contexts, {}) /\ HeapOK(mem.tab, End) /\ PhaseOK
        /\ contexts = {BootPml4} /\ ptr = End /\ mem.cr3 = BootPml4 /\ TabOK(mem.tab, contexts)
        /\ mem \in MemType
    BY <1>2, BootFacts
  <1>4. PICK p, v, m : /\ p = VramPhys + at.i /\ v = Vram + at.i
                       /\ m = map(mem, p, v, {"P", "W"})
    OBVIOUS
  <1>5. IF m.err # "" THEN Panic ELSE mem' = m.s /\ Again /\ UNCHANGED <<regions, ptr>>
    BY <1>4 DEF MapVram
  <1>6. ~mem.counting /\ CountersMapped(mem.tab)
    BY <1>1, <1>3 DEF PhaseOK, Booting, Early
  <1>7. CASE Panic
    <2>1. Stopped /\ UNCHANGED <<regions, mem, ptr>>
      BY <1>7 DEF Panic, Goto, Stopped
    <2> QED BY <1>1, <2>1, StopKeeps
  <1>8. CASE mem' = m.s /\ Again /\ UNCHANGED <<regions, ptr>>
    <2>1. at \in [pc: Booting \cup {"run", "panic"}, i: Nat, rax: EntryType]
      BY <1>3 DEF AtOK
    <2>2. PICK i \in Nat : i = at.i
      BY <2>1
    <2>3. /\ i < VramPages /\ VramPages \in Nat /\ VramPhys \in Nat /\ VramPhys > IdentityTable
          /\ Vram \in Nat /\ KERNEL_BASE \in Nat /\ KERNEL_BASE <= Vram /\ PhysRc \in Nat
          /\ Vram + VramPages <= PhysRc /\ PhysRc < End /\ End \in Nat
      BY <1>1, <2>2, Layout, KernelSlot, BootAssumption, MapsAssumption
    <2>4. p \in Nat /\ p # 0 /\ p \notin {BootPml4, KernelTable, IdentityTable} /\ v \in KERNEL_BASE .. End - 1
      <3>1. IdentityTable = 3 /\ KernelTable = 2 /\ BootPml4 = 1
        BY Layout
      <3>2. p = VramPhys + i /\ v = Vram + i
        BY <1>4, <2>2
      <3>3. p \in Nat /\ p > 3
        BY <2>3, <3>1, <3>2
      <3>4. v \in KERNEL_BASE .. End - 1
        BY <2>3, <3>2
      <3> QED BY <3>1, <3>3, <3>4
    <2>5. ~Known(p)
      <3>1. i \in 0 .. VramPages - 1
        BY <2>3
      <3> QED BY <1>3, <1>4, <2>2, <2>4, <3>1, KnownIs
    <2>6. PICK flags, cs, hs, s : /\ flags = {"P", "W"} /\ flags \in SUBSET {"P", "W", "U"}
                                   /\ cs = contexts /\ hs = {} /\ s = mem
      OBVIOUS
    <2>7. /\ ~Single(p) /\ PhysInv(s, cs, hs) /\ HeapOK(s.tab, End) /\ cs = {BootPml4}
          /\ m = map(s, p, v, flags) /\ flags \in SUBSET {"P", "W", "U"}
      BY <1>3, <1>4, <2>4, <2>5, <2>6 DEF Single
    <2>8. PICK rest : rest = hs \ {p}
      OBVIOUS
    <2>9. MappedBelow(s, m.s, cs, rest) /\ rest = {}
      <3>1. MapsBelow(s, cs, hs, v, p)
        BY <2>4, <2>7 DEF MapsBelow
      <3>2. MappedBelow(s, m.s, cs, rest)
        BY <1>3, <2>7, <2>8, <3>1, BootMap
      <3> QED BY <2>6, <2>8, <3>2
    <2>10. /\ PhysInv(mem', contexts, {}) /\ HeapOK(mem'.tab, End) /\ ~mem'.counting
           /\ CountersMapped(mem'.tab)
      BY <1>6, <1>8, <2>6, <2>9 DEF MappedBelow
    <2>11. at' = [at EXCEPT !.i = i + 1]
      BY <1>8, <2>1, <2>2 DEF Again
    <2>12. at'.pc = "vram" /\ at'.i = i + 1 /\ at' \in [pc: Booting \cup {"run", "panic"}, i: Nat, rax: EntryType]
      BY <1>1, <2>1, <2>11
    <2>13. AtOK'
      BY <1>1, <1>3, <2>3, <2>12 DEF AtOK
    <2>14. RegionsOK'
      BY <1>1, <1>3, <1>8, <2>12 DEF RegionsOK, IsRegion, ClippedBegin
    <2> QED BY <1>1, <1>2, <1>8, <2>10, <2>12, <2>13, <2>14, BootMemory DEF Booting, Early
  <1> QED BY <1>5, <1>7, <1>8

\* start.asm: unmap low memory.
LEMMA UnmapLowKeeps ==
  ASSUME Inv, UnmapLow, UNCHANGED <<ctx, contexts, job>>
  PROVE  Inv'
  <1>1. /\ at.pc = "vram" /\ UNCHANGED <<memoryMap, regions, ptr>> /\ Goto("main")
        /\ mem' = [mem EXCEPT !.tab[BootPml4][0] = NoEntry]
    BY DEF UnmapLow, Pc
  <1>2. at.pc \in Booting /\ at.pc \in Booting \ Early
    BY <1>1 DEF Early, Booting
  <1>3. /\ AtOK /\ RegionsOK /\ Bounds /\ PhysInv(mem, contexts, {}) /\ HeapOK(mem.tab, End) /\ PhaseOK
        /\ contexts = {BootPml4} /\ ptr = End /\ mem.cr3 = BootPml4 /\ TabOK(mem.tab, contexts)
        /\ mem \in MemType
    BY <1>2, BootFacts
  <1>4. ~mem.counting /\ CountersMapped(mem.tab)
    BY <1>1, <1>3 DEF PhaseOK, Booting, Early
  <1>5. PICK s, cs, tb, new, t : /\ s = mem /\ cs = contexts /\ tb = s.tab /\ t = mem'
                                 /\ new = [tb EXCEPT ![BootPml4][0] = NoEntry]
    OBVIOUS
  <1>6. /\ s \in MemType /\ tb \in Tabs /\ tb[BootPml4] \in [Slots -> EntryType] /\ BootPml4 \in Frames
        /\ 0 \in Slots /\ NoEntry \in EntryType /\ PhysInv(s, cs, {}) /\ HeapOK(tb, End)
        /\ cs = {BootPml4} /\ TabOK(tb, cs) /\ Bounds
    BY <1>3, <1>5, MemFields, EntryIs, SlotFacts, Layout
  <1>7. /\ new \in Tabs /\ \A q \in Frames : q # BootPml4 => new[q] = tb[q]
        /\ \A j \in Slots : j # 0 => new[BootPml4][j] = tb[BootPml4][j]
        /\ new[BootPml4][0] = NoEntry
    BY <1>5, <1>6 DEF Tabs
  <1>8. /\ t \in MemType /\ t.tab = new /\ t.rc = s.rc /\ t.counting = s.counting /\ t.free = s.free
        /\ t.bump = s.bump /\ t.cr3 = s.cr3
    BY <1>1, <1>5, <1>6, <1>7 DEF MemType
  <1>9. Shrunk(tb, new, cs)
    <2>1. 0 \notin KernelSlots /\ 0 # Recursive /\ Recursive \in Slots /\ KernelSlots \subseteq Slots
      BY SlotFacts
    <2>2. \A q \in Frames, j \in Slots : new[q][j] = tb[q][j] \/ new[q][j] = NoEntry
      BY <1>7
    <2>3. /\ \A c \in cs : new[c][Recursive] = tb[c][Recursive]
          /\ \A c \in cs, i \in KernelSlots : new[c][i] = tb[c][i]
      BY <1>6, <1>7, <2>1
    <2> QED BY <1>7, <2>2, <2>3 DEF Shrunk
  <1>10. /\ TabOK(new, cs) /\ HeapOK(new, End)
         /\ \A p \in Nat : p # 0 /\ Used(new, cs, p) => Used(tb, cs, p)
    BY <1>6, <1>9, ShrunkOK
  <1>11. CountersMapped(new)
    <2>1. ASSUME NEW v \in KERNEL_BASE .. KernelTop - 1
          PROVE  KernelEntry(new, v) = KernelEntry(tb, v)
      <3>1. Slot(v) \in KernelSlots /\ Slot(v) \in Lower /\ Slot(v) \in Slots /\ Slot(v) # 0
        BY KernelRange, SlotFacts
      <3>2. new[BootPml4][Slot(v)] = tb[BootPml4][Slot(v)]
        BY <1>7, <3>1
      <3>3. CASE tb[BootPml4][Slot(v)] = NoEntry
        BY <3>2, <3>3 DEF KernelEntry
      <3>4. CASE tb[BootPml4][Slot(v)] # NoEntry
        <4>1. BootPml4 \in cs
          BY <1>6
        <4>2. tb[BootPml4][Slot(v)].phys \in Frames /\ tb[BootPml4][Slot(v)].phys \notin cs
          BY <1>6, <3>1, <3>4, <4>1, TableIs
        <4>3. new[tb[BootPml4][Slot(v)].phys] = tb[tb[BootPml4][Slot(v)].phys]
          BY <1>6, <1>7, <4>2
        <4> QED BY <3>2, <4>3 DEF KernelEntry
      <3> QED BY <3>3, <3>4
    <2>2. SameKernel(tb, new)
      BY <2>1 DEF SameKernel
    <2>3. CountersMapped(tb)
      BY <1>4, <1>5
    <2> QED BY <2>2, <2>3, SameKernelKeeps
  <1>12. PagesOK(t, cs, {})
    <2>1. ~t.counting
      BY <1>4, <1>5, <1>8
    <2>2. ASSUME NEW p \in Frames, Known(p), Offered(t.free, t.bump, p)
          PROVE  p \notin cs /\ ~Used(t.tab, cs, p)
      <3>1. p \in Nat
        BY Layout DEF Frames
      <3>2. p # 0
        BY <1>6, <2>2, <3>1, KnownIs
      <3>3. p \notin cs /\ ~Used(tb, cs, p)
        BY <1>5, <1>6, <1>8, <2>2 DEF PhysInv, PagesOK
      <3> QED BY <1>8, <1>10, <3>1, <3>2, <3>3
    <2> QED BY <2>1, <2>2 DEF PagesOK
  <1>13. PhysInv(t, cs, {})
    BY <1>6, <1>8, <1>10, <1>12, PhysIs
  <1>14. AtOK' /\ RegionsOK' /\ at'.pc = "main"
    <2>1. PICK pc \in (Booting \cup {"run"}) \ {"map_kernel"} : pc = "main"
      BY DEF Booting, Early
    <2>2. Goto(pc)
      BY <1>1, <2>1
    <2>3. AtOK' /\ RegionsOK' /\ at'.pc = pc
      BY <1>1, <1>3, <2>1, <2>2, GotoAt DEF Stay
    <2> QED BY <2>1, <2>3
  <1>15. PhysInv(mem', contexts, {}) /\ HeapOK(mem'.tab, End) /\ ~mem'.counting /\ CountersMapped(mem'.tab)
    BY <1>4, <1>5, <1>8, <1>10, <1>11, <1>13
  <1> QED BY <1>1, <1>2, <1>14, <1>15, BootMemory DEF Booting, Early

\* A set whose elements are all the same one.
LEMMA AtMostOne ==
  ASSUME NEW X, \A x, y \in X : x = y
  PROVE  Cardinality(X) = One(X # {})
  <1>1. CASE X = {}
    BY <1>1, FS_EmptySet DEF One
  <1>2. CASE X # {}
    <2>1. PICK x : x \in X
      BY <1>2
    <2>2. X = {x}
      BY <2>1
    <2> QED BY <1>2, <2>2, FS_Singleton DEF One
  <1> QED BY <1>1, <1>2

\* The entries among S of the first PML4, and those of their tables, that name p.
SlotsIn(tb, S) == {k \in S : tb[BootPml4][k].phys # 0}
TableUses(tb, S, p) == {i \in SlotsIn(tb, S) : tb[BootPml4][i].phys = p}
PageUses(tb, S, p) == {ij \in SlotsIn(tb, S) \X Slots : tb[tb[BootPml4][ij[1]].phys][ij[2]].phys = p}

\* The cells those entries are.
LEMMA SlotCell ==
  ASSUME Bounds, NEW tb, NEW cs, TabOK(tb, cs), NEW S, S \subseteq Lower, NEW i \in SlotsIn(tb, S)
  PROVE  /\ i \in Lower /\ i \in Slots /\ tb[BootPml4][i] # NoEntry /\ BootPml4 \in Frames
         /\ IsCell(tb, cs, BootPml4, i) /\ tb[BootPml4][i].phys \in Frames
         /\ tb[BootPml4][i].phys # BootPml4
         /\ \A j \in Slots : IsCell(tb, cs, tb[BootPml4][i].phys, j)
  <1>1. i \in Lower /\ tb[BootPml4][i].phys # 0
    BY DEF SlotsIn
  <1>2. tb[BootPml4][i] # NoEntry
    BY <1>1 DEF NoEntry
  <1>3. BootPml4 \in cs
    BY DEF TabOK, ContextsOK
  <1>4. LET q == tb[BootPml4][i].phys
        IN  /\ q \in Frames /\ q \notin cs /\ IsTable(tb, cs, q)
            /\ Home(BootPml4, i) \in Frames /\ IsCell(tb, cs, Home(BootPml4, i), i)
    BY <1>1, <1>2, <1>3, TableIs
  <1>5. Home(BootPml4, i) = BootPml4
    BY DEF Home
  <1> QED BY <1>1, <1>2, <1>3, <1>4, <1>5 DEF Lower, IsCell

\* Each page is named once at most, and a named page is a used one.
LEMMA CountIs ==
  ASSUME Bounds, NEW tb, NEW cs, TabOK(tb, cs), NEW S, S \subseteq Lower, NEW p \in Nat, Known(p),
         NEW A, A = TableUses(tb, S, p), NEW B, B = PageUses(tb, S, p)
  PROVE  /\ Cardinality(A) + Cardinality(B) = One(A # {} \/ B # {})
         /\ Cardinality(A) \in Nat /\ Cardinality(B) \in Nat
         /\ A # {} \/ B # {} => Used(tb, cs, p)
         /\ cs = {BootPml4} /\ S = Lower /\ Used(tb, cs, p) => A # {} \/ B # {}
  <1>1. p # 0 /\ Single(p)
    BY KnownIs DEF Single
  <1>2. ASSUME NEW q \in Frames, NEW r \in Frames, NEW j \in Slots, NEW k \in Slots,
               IsCell(tb, cs, q, j), IsCell(tb, cs, r, k), tb[q][j].phys = p, tb[r][k].phys = p
        PROVE  q = r /\ j = k
    BY <1>1, <1>2 DEF TabOK, CellsOK
  <1>3. \A i, k \in A : i = k
    <2> SUFFICES ASSUME NEW i \in A, NEW k \in A PROVE i = k
      OBVIOUS
    <2>1. i \in SlotsIn(tb, S) /\ k \in SlotsIn(tb, S) /\ tb[BootPml4][i].phys = p /\ tb[BootPml4][k].phys = p
      BY DEF TableUses
    <2>2. i \in Slots /\ k \in Slots /\ BootPml4 \in Frames /\ IsCell(tb, cs, BootPml4, i) /\ IsCell(tb, cs, BootPml4, k)
      BY <2>1, SlotCell
    <2> QED BY <1>2, <2>1, <2>2
  <1>4. ASSUME NEW x \in B
        PROVE  LET q == tb[BootPml4][x[1]].phys
               IN  /\ x = <<x[1], x[2]>> /\ x[1] \in SlotsIn(tb, S) /\ x[2] \in Slots /\ q \in Frames
                   /\ IsCell(tb, cs, q, x[2]) /\ tb[q][x[2]].phys = p /\ q # BootPml4
    <2>1. x \in SlotsIn(tb, S) \X Slots /\ tb[tb[BootPml4][x[1]].phys][x[2]].phys = p
      BY DEF PageUses
    <2>2. x = <<x[1], x[2]>> /\ x[1] \in SlotsIn(tb, S) /\ x[2] \in Slots
      BY <2>1
    <2> QED BY <2>1, <2>2, SlotCell
  <1>5. \A x, y \in B : x = y
    <2> SUFFICES ASSUME NEW x \in B, NEW y \in B PROVE x = y
      OBVIOUS
    <2>1. PICK i, j, k, l : i = x[1] /\ j = x[2] /\ k = y[1] /\ l = y[2]
      OBVIOUS
    <2>2. /\ x = <<i, j>> /\ i \in SlotsIn(tb, S) /\ j \in Slots /\ tb[BootPml4][i].phys \in Frames
          /\ IsCell(tb, cs, tb[BootPml4][i].phys, j) /\ tb[tb[BootPml4][i].phys][j].phys = p
      BY <1>4, <2>1
    <2>3. /\ y = <<k, l>> /\ k \in SlotsIn(tb, S) /\ l \in Slots /\ tb[BootPml4][k].phys \in Frames
          /\ IsCell(tb, cs, tb[BootPml4][k].phys, l) /\ tb[tb[BootPml4][k].phys][l].phys = p
      BY <1>4, <2>1
    <2>4. tb[BootPml4][i].phys = tb[BootPml4][k].phys /\ j = l
      BY <1>2, <2>2, <2>3
    <2>5. i \in Lower /\ k \in Lower /\ tb[BootPml4][i] # NoEntry /\ tb[BootPml4][k] # NoEntry
      BY <2>2, <2>3, SlotCell
    <2>6. BootPml4 \in cs
      BY DEF TabOK, ContextsOK
    <2>7. i = k
      BY <2>4, <2>5, <2>6, TableUnique
    <2> QED BY <2>2, <2>3, <2>4, <2>7
  <1>6. ~(A # {} /\ B # {})
    <2> SUFFICES ASSUME NEW i \in A, NEW x \in B PROVE FALSE
      OBVIOUS
    <2>1. i \in SlotsIn(tb, S) /\ tb[BootPml4][i].phys = p
      BY DEF TableUses
    <2>2. i \in Slots /\ BootPml4 \in Frames /\ IsCell(tb, cs, BootPml4, i)
      BY <2>1, SlotCell
    <2>3. PICK q, j : q = tb[BootPml4][x[1]].phys /\ j = x[2]
      OBVIOUS
    <2>4. q \in Frames /\ j \in Slots /\ IsCell(tb, cs, q, j) /\ tb[q][j].phys = p /\ q # BootPml4
      BY <1>4, <2>3
    <2> QED BY <1>2, <2>1, <2>2, <2>4
  <1>7. /\ Cardinality(A) + Cardinality(B) = One(A # {} \/ B # {})
        /\ Cardinality(A) \in Nat /\ Cardinality(B) \in Nat
    <2>1. Cardinality(A) = One(A # {}) /\ Cardinality(B) = One(B # {})
      BY <1>3, <1>5, AtMostOne
    <2> QED BY <1>6, <2>1 DEF One
  <1>8. ASSUME A # {} \/ B # {} PROVE Used(tb, cs, p)
    <2>1. CASE A # {}
      <3>1. PICK i \in A : TRUE
        BY <2>1
      <3>2. i \in SlotsIn(tb, S) /\ tb[BootPml4][i].phys = p
        BY <3>1 DEF TableUses
      <3> QED BY <3>2, SlotCell DEF Used
    <2>2. CASE B # {}
      <3>1. PICK x \in B : TRUE
        BY <2>2
      <3> QED BY <1>4, <3>1 DEF Used
    <2> QED BY <1>8, <2>1, <2>2
  <1>9. ASSUME cs = {BootPml4}, S = Lower, Used(tb, cs, p) PROVE A # {} \/ B # {}
    <2>1. PICK q \in Frames, j \in Slots : IsCell(tb, cs, q, j) /\ tb[q][j].phys = p
      BY <1>9 DEF Used
    <2>2. CASE ~IsTable(tb, cs, q)
      <3>1. q = BootPml4 /\ j \in Lower
        BY <1>9, <2>1, <2>2, SlotFacts DEF IsCell, Lower
      <3>2. j \in A
        BY <1>1, <1>9, <2>1, <3>1 DEF TableUses, SlotsIn
      <3> QED BY <3>2
    <2>3. CASE IsTable(tb, cs, q)
      <3>1. PICK c \in cs, i \in Lower : tb[c][i] # NoEntry /\ tb[c][i].phys = q
        BY <2>3, TableHas
      <3>2. c = BootPml4
        BY <1>9, <3>1
      <3>3. q # 0
        BY <3>1, TableIs
      <3>4. <<i, j>> \in B
        BY <1>9, <2>1, <3>1, <3>2, <3>3 DEF PageUses, SlotsIn
      <3> QED BY <3>4
    <2> QED BY <2>2, <2>3
  <1> QED BY <1>7, <1>8, <1>9

\* each_phys names a page once, or not at all.
LEMMA EachPhysIs ==
  ASSUME Bounds, NEW s, NEW cs, TabOK(s.tab, cs), cs = {BootPml4}, s.cr3 = BootPml4,
         NEW p \in Nat, Known(p)
  PROVE  each_phys(s, p) = One(Used(s.tab, cs, p)) /\ p # BootPml4
  <1>1. p # BootPml4
    BY KnownIs
  <1>2. PICK A, B, tb : tb = s.tab /\ A = TableUses(tb, Lower, p) /\ B = PageUses(tb, Lower, p)
    OBVIOUS
  <1>3. /\ Cardinality(A) + Cardinality(B) = One(A # {} \/ B # {})
        /\ Cardinality(A) \in Nat /\ Cardinality(B) \in Nat
        /\ A # {} \/ B # {} => Used(tb, cs, p)
        /\ cs = {BootPml4} /\ Lower = Lower /\ Used(tb, cs, p) => A # {} \/ B # {}
    <2>1. PICK S : S = Lower
      OBVIOUS
    <2> QED BY <1>2, <2>1, CountIs
  <1>4. /\ A = {i \in {k \in Slots \ {Recursive} : s.tab[s.cr3][k].phys # 0} : s.tab[s.cr3][i].phys = p}
        /\ B = {ij \in {k \in Slots \ {Recursive} : s.tab[s.cr3][k].phys # 0} \X Slots :
                  s.tab[s.tab[s.cr3][ij[1]].phys][ij[2]].phys = p}
    BY <1>2 DEF TableUses, PageUses, SlotsIn, Lower
  <1>5. each_phys(s, p) = 0 + Cardinality(A) + Cardinality(B)
    BY <1>1, <1>4 DEF each_phys
  <1>6. Cardinality(A) + Cardinality(B) = One(Used(s.tab, cs, p))
    BY <1>2, <1>3 DEF One
  <1> QED BY <1>1, <1>3, <1>5, <1>6

\* init_ref_counts.
LEMMA InitRefCountsKeeps ==
  ASSUME Inv, init_ref_counts, UNCHANGED <<ctx, contexts, job>>
  PROVE  Inv'
  <1>1. /\ at.pc = "main" /\ UNCHANGED <<memoryMap, regions, ptr>> /\ Goto("slots")
        /\ mem' = [mem EXCEPT !.rc = [p \in 0 .. MaxPhys |-> IF Known(p) THEN each_phys(mem, p) ELSE 0],
                              !.counting = TRUE]
    BY DEF init_ref_counts, Pc
  <1>2. at.pc \in Booting /\ at.pc \in Booting \ Early
    BY <1>1 DEF Early, Booting
  <1>3. /\ AtOK /\ RegionsOK /\ Bounds /\ PhysInv(mem, contexts, {}) /\ HeapOK(mem.tab, End) /\ PhaseOK
        /\ contexts = {BootPml4} /\ ptr = End /\ mem.cr3 = BootPml4 /\ TabOK(mem.tab, contexts)
        /\ mem \in MemType
    BY <1>2, BootFacts
  <1>4. CountersMapped(mem.tab)
    BY <1>1, <1>3 DEF PhaseOK, Booting, Early
  <1>5. PICK s, cs, t, rc : /\ s = mem /\ cs = contexts /\ t = mem'
                            /\ rc = [p \in 0 .. MaxPhys |-> IF Known(p) THEN each_phys(s, p) ELSE 0]
    OBVIOUS
  <1>6. /\ s \in MemType /\ Bounds /\ PhysInv(s, cs, {}) /\ TabOK(s.tab, cs) /\ cs = {BootPml4}
        /\ s.cr3 = BootPml4
    BY <1>3, <1>5
  <1>7. ASSUME NEW p \in Frames, Known(p)
        PROVE  rc[p] = One(Used(s.tab, cs, p)) /\ p \notin cs /\ p # s.cr3
    <2>1. p \in Nat
      BY Layout DEF Frames
    <2>2. each_phys(s, p) = One(Used(s.tab, cs, p)) /\ p # BootPml4
      BY <1>6, <1>7, <2>1, EachPhysIs
    <2> QED BY <1>5, <1>6, <1>7, <2>2 DEF Frames
  <1>8. rc \in [Frames -> Int]
    <2>1. ASSUME NEW p \in Frames PROVE rc[p] \in Int
      <3>1. CASE Known(p)
        BY <1>7, <3>1 DEF One
      <3>2. CASE ~Known(p)
        BY <1>5, <3>2 DEF Frames
      <3> QED BY <3>1, <3>2
    <2> QED BY <1>5, <2>1 DEF Frames
  <1>9. /\ t \in MemType /\ t.tab = s.tab /\ t.rc = rc /\ t.counting = TRUE /\ t.free = s.free
        /\ t.bump = s.bump /\ t.cr3 = s.cr3
    <2>1. t = [s EXCEPT !.rc = rc, !.counting = TRUE]
      BY <1>1, <1>5
    <2> QED BY <1>6, <1>8, <2>1 DEF MemType
  <1>10. PagesOK(t, cs, {})
    <2>1. ASSUME NEW p \in Frames, Known(p)
          PROVE  t.rc[p] = One(Used(t.tab, cs, p)) + One(p \in cs) + One(p = t.cr3) + One(p \in {})
      <3>1. t.rc[p] = One(Used(t.tab, cs, p)) /\ p \notin cs /\ p # t.cr3
        BY <1>7, <1>9, <2>1
      <3> QED BY <3>1 DEF One
    <2>2. ASSUME NEW p \in Frames, Known(p), Offered(t.free, t.bump, p)
          PROVE  p \notin cs /\ ~Used(t.tab, cs, p)
      BY <1>6, <1>9, <2>2 DEF PhysInv, PagesOK
    <2> QED BY <2>1, <2>2 DEF PagesOK
  <1>11. PhysInv(t, cs, {})
    BY <1>6, <1>9, <1>10 DEF PhysInv
  <1>12. AtOK' /\ RegionsOK' /\ at'.pc = "slots"
    <2>1. PICK pc \in (Booting \cup {"run"}) \ {"map_kernel"} : pc = "slots"
      BY DEF Booting, Early
    <2>2. Goto(pc)
      BY <1>1, <2>1
    <2>3. AtOK' /\ RegionsOK' /\ at'.pc = pc
      BY <1>1, <1>3, <2>1, <2>2, GotoAt DEF Stay
    <2> QED BY <2>1, <2>3
  <1>13. PhysInv(mem', contexts, {}) /\ HeapOK(mem'.tab, End) /\ mem'.counting /\ CountersMapped(mem'.tab)
    BY <1>3, <1>4, <1>5, <1>9, <1>11
  <1> QED BY <1>1, <1>2, <1>12, <1>13, BootMemory DEF Booting, Early

\* init_kernel_pml4_entries.
LEMMA InitKernelKeeps ==
  ASSUME Inv, init_kernel_pml4_entries, UNCHANGED <<ctx, contexts, job>>
  PROVE  Inv'
  <1>1. at.pc = "slots" /\ memoryMap' = memoryMap
    BY DEF init_kernel_pml4_entries, Pc
  <1>2. at.pc \in Booting /\ at.pc \in Booting \ Early
    BY <1>1 DEF Early, Booting
  <1>3. /\ AtOK /\ RegionsOK /\ Bounds /\ PhysInv(mem, contexts, {}) /\ HeapOK(mem.tab, End) /\ PhaseOK
        /\ contexts = {BootPml4} /\ ptr = End /\ mem.cr3 = BootPml4 /\ TabOK(mem.tab, contexts)
        /\ mem \in MemType
    BY <1>2, BootFacts
  <1>4. mem.counting /\ CountersMapped(mem.tab)
    BY <1>1, <1>3 DEF PhaseOK, Booting, Early
  <1>5. PICK empty : empty = {i \in KernelSlots : mem.tab[mem.cr3][i] = NoEntry}
    OBVIOUS
  <1>6. PICK i, b, g, m : /\ i = (CHOOSE k \in empty : \A j \in empty : k <= j)
                          /\ b = alloc(mem).s /\ g = alloc(mem).page
                          /\ m = NewTable(b, mem.cr3, i, g)
    OBVIOUS
  <1>7. IF empty = {} THEN Goto("run") /\ UNCHANGED <<regions, mem, ptr>>
        ELSE IF g = 0 THEN Panic
        ELSE mem' = m /\ UNCHANGED <<at, regions, ptr>>
    BY <1>5, <1>6 DEF init_kernel_pml4_entries
  <1>8. CASE empty = {}
    <2>1. Goto("run") /\ UNCHANGED <<regions, mem, ptr>>
      BY <1>7, <1>8
    <2>2. AtOK' /\ RegionsOK' /\ at'.pc = "run"
      <3>1. PICK pc \in (Booting \cup {"run"}) \ {"map_kernel"} : pc = "run"
        OBVIOUS
      <3>2. Goto(pc)
        BY <2>1, <3>1
      <3>3. AtOK' /\ RegionsOK' /\ at'.pc = pc
        BY <1>1, <1>3, <2>1, <3>1, <3>2, GotoAt DEF Stay
      <3> QED BY <3>1, <3>3
    <2>3. FullKernel(mem.tab)
      BY <1>3, <1>5, <1>8 DEF FullKernel
    <2>4. /\ PhysInv(mem', contexts, {}) /\ HeapOK(mem'.tab, End) /\ mem'.counting
          /\ CountersMapped(mem'.tab) /\ FullKernel(mem'.tab)
      BY <1>3, <1>4, <2>1, <2>3
    <2> QED BY <1>1, <1>2, <2>1, <2>2, <2>4, BootMemory DEF Booting, Early
  <1>9. CASE Panic
    <2>1. Stopped /\ UNCHANGED <<regions, mem, ptr>>
      BY <1>9 DEF Panic, Goto, Stopped
    <2> QED BY <1>1, <2>1, StopKeeps
  <1>10. CASE empty # {} /\ g # 0 /\ mem' = m /\ UNCHANGED <<at, regions, ptr>>
    <2>1. i \in KernelSlots /\ mem.tab[BootPml4][i] = NoEntry
      <3>1. empty \subseteq Nat
        BY <1>5, SlotFacts, Halves DEF KernelSlots
      <3>2. \E q \in empty : \A k \in empty : q <= k
        BY <1>10, <3>1, LeastNumber
      <3>3. i \in empty
        BY <1>6, <3>2
      <3> QED BY <1>3, <1>5, <3>3
    <2>2. Allocated(mem, b, g)
      BY <1>3, <1>6, <1>10, AllocIs, PhysIs
    <2>3. PICK cs, hs, s, c : cs = contexts /\ hs = {} \cup {g} /\ s = mem /\ c = mem.cr3
      OBVIOUS
    <2>4. PhysInv(b, cs, hs) /\ Loaded(s, b, s.cr3)
      BY <1>3, <2>2, <2>3, AllocStep
    <2>5. SlotAt(b, cs, hs, c, i, g)
      <3>1. g \in Frames /\ Known(g) /\ g \in hs
        BY <2>2, <2>3 DEF Allocated
      <3>2. c \in cs /\ i \in Lower /\ b.tab[c][i] = NoEntry /\ cs = {BootPml4}
        BY <1>3, <2>1, <2>3, <2>4, SlotFacts DEF Loaded, Lower
      <3> QED BY <3>1, <3>2 DEF SlotAt
    <2>6. PICK rest : rest = hs \ {g}
      OBVIOUS
    <2>7. PhysInv(m, cs, rest) /\ Tabled(b, m, cs, c, i)
      <3>1. m = NewTable(b, c, i, g)
        BY <1>6, <2>3
      <3> QED BY <1>3, <2>4, <2>5, <2>6, <3>1, TableStep
    <2>8. rest = {}
      BY <2>3, <2>6
    <2>9. HeapOK(m.tab, End) /\ CountersMapped(m.tab) /\ m.counting
      <3>1. PICK tb, new : tb = mem.tab /\ new = m.tab
        OBVIOUS
      <3>2. b.tab = tb /\ b.counting = mem.counting
        BY <2>3, <2>4, <3>1 DEF Loaded
      <3>3. SameLeaves(tb, new, cs) /\ m.counting = b.counting
        BY <2>7, <3>1, <3>2 DEF Tabled
      <3>4. BootPml4 \in cs
        BY <1>3, <2>3
      <3>5. \A k \in KernelSlots, l \in Slots : Leaf(new, BootPml4, k, l) = Leaf(tb, BootPml4, k, l)
        BY <3>3, <3>4, SlotFacts DEF SameLeaves, Lower
      <3>6. SameKernel(tb, new)
        BY <3>4, <3>5, KernelKept
      <3>7. HeapOK(tb, End) /\ CountersMapped(tb)
        BY <1>3, <1>4, <3>1
      <3>8. HeapOK(new, End) /\ CountersMapped(new)
        BY <3>6, <3>7, SameKernelKeeps
      <3> QED BY <1>4, <3>1, <3>2, <3>3, <3>8
    <2>10. AtOK' /\ RegionsOK'
      BY <1>1, <1>3, <1>10 DEF AtOK, RegionsOK, IsRegion, ClippedBegin
    <2>11. /\ PhysInv(mem', contexts, {}) /\ HeapOK(mem'.tab, End) /\ mem'.counting /\ at'.pc = "slots"
           /\ CountersMapped(mem'.tab)
      BY <1>1, <1>10, <2>3, <2>7, <2>8, <2>9
    <2> QED BY <1>1, <1>2, <1>10, <2>10, <2>11, BootMemory DEF Booting, Early
  <1> QED BY <1>7, <1>8, <1>9, <1>10

\* A step of the boot.
LEMMA BootNextKeeps ==
  ASSUME Inv, BootNext, UNCHANGED <<ctx, contexts, job>>
  PROVE  Inv'
  <1>1. CASE map_kernel
    BY <1>1, MapKernelKeeps
  <1>2. CASE higher_half
    BY <1>2, HigherHalfKeeps
  <1>3. CASE TempReset
    BY <1>3, TempResetKeeps
  <1>4. CASE AddRegion
    BY <1>4, AddRegionKeeps
  <1>5. CASE RegionsDone
    BY <1>5, RegionsDoneKeeps
  <1>6. CASE EnsureRcPage
    BY <1>6, EnsureRcPageKeeps
  <1>7. CASE MapVram
    BY <1>7, MapVramKeeps
  <1>8. CASE UnmapLow
    BY <1>8, UnmapLowKeeps
  <1>9. CASE init_ref_counts
    BY <1>9, InitRefCountsKeeps
  <1>10. CASE init_kernel_pml4_entries
    BY <1>10, InitKernelKeeps
  <1> QED BY <1>1, <1>2, <1>3, <1>4, <1>5, <1>6, <1>7, <1>8, <1>9, <1>10 DEF BootNext

\* The invariant is inductive: every step of the start and of every call keeps it.
LEMMA NextKeeps ==
  ASSUME Inv, [Next]_vars
  PROVE  Inv'
  <1>1. CASE BootNext /\ UNCHANGED <<ctx, contexts, job>>
    BY <1>1, BootNextKeeps
  <1>2. ASSUME NEW t \in Tasks, alloc_page(t) PROVE Inv'
    BY <1>2, AllocPageKeeps
  <1>3. ASSUME NEW t \in Tasks, release_page(t) PROVE Inv'
    BY <1>3, ReleasePageKeeps
  <1>4. ASSUME NEW t \in Tasks, modify_page(t) PROVE Inv'
    BY <1>4, ModifyPageKeeps
  <1>5. ASSUME NEW t \in Tasks, read_stream(t) PROVE Inv'
    BY <1>5, BorrowKeeps DEF read_stream
  <1>6. ASSUME NEW t \in Tasks, open_file(t) PROVE Inv'
    BY <1>6, BorrowKeeps DEF open_file
  <1>7. ASSUME NEW t \in Tasks, Finish(t) PROVE Inv'
    BY <1>7, FinishKeeps
  <1>8. ASSUME NEW t \in Tasks, create_page_context(t) PROVE Inv'
    BY <1>8, CreateContextKeeps
  <1>9. ASSUME NEW t \in Tasks, create_task(t) PROVE Inv'
    BY <1>9, CreateTaskKeeps
  <1>10. ASSUME NEW t \in Tasks, HeapGrows(t) PROVE Inv'
    BY <1>10, HeapGrowsKeeps
  <1>11. CASE Halted
    BY <1>11, StutterKeeps DEF Halted
  <1>12. CASE UNCHANGED vars
    BY <1>12, StutterKeeps
  <1> QED BY <1>1, <1>2, <1>3, <1>4, <1>5, <1>6, <1>7, <1>8, <1>9, <1>10, <1>11, <1>12 DEF Next

\* What the invariant says of the counters, of the kernel half and of ranges.
LEMMA CountedIs ==
  ASSUME Inv
  PROVE  KernelPagesCounted
  <1>1. /\ Bounds /\ PhysInv(mem, contexts, {}) /\ mem \in MemType /\ mem.cr3 \in contexts
        /\ AllocOK(mem.free, mem.bump) /\ TabOK(mem.tab, contexts) /\ PagesOK(mem, contexts, {})
    BY AllBounds, PhysIs DEF Inv
  <1>2. PICK tb, cs, fr, bp : tb = mem.tab /\ cs = contexts /\ fr = mem.free /\ bp = mem.bump
    OBVIOUS
  <1>3. SUFFICES ASSUME mem.counting, NEW r \in DOMAIN regions,
                        NEW p \in regions[r].begin .. regions[r].end - 1,
                        NEW A, A = TableUses(tb, KernelSlots, p), NEW B, B = PageUses(tb, KernelSlots, p)
                 PROVE  /\ is_mapped(mem, RcPage(p)) /\ p >= HighBoundary
                        /\ Cardinality(A) + Cardinality(B) > 0 =>
                             /\ mem.rc[p] = Cardinality(A) + Cardinality(B)
                             /\ p < mem.bump[r] /\ \A k \in DOMAIN mem.free : mem.free[k] # p
    BY <1>2, ZenonT(60) DEF KernelPagesCounted, TableUses, PageUses, SlotsIn
  <1>4. p \in Nat /\ Known(p) /\ p < regions[r].end /\ regions[r].begin <= p
    <2>1. regions[r] \in [begin: Nat, end: Nat]
      <3>1. regions \in Seq([begin: Nat, end: Nat])
        BY <1>1 DEF Bounds
      <3> QED BY <3>1, SeqElement
    <2>2. PICK b \in Nat, e \in Nat : b = regions[r].begin /\ e = regions[r].end
      BY <2>1
    <2>3. p \in b .. e - 1
      BY <2>2
    <2>4. p \in Nat /\ b <= p /\ p < e
      BY <2>3
    <2> QED BY <2>2, <2>4 DEF Known
  <1>5. p \in Frames /\ p >= HighBoundary
    BY <1>1, <1>4, KnownIs
  <1>6. is_mapped(mem, RcPage(p))
    <2>1. CountersMapped(mem.tab)
      BY <1>3 DEF Inv, PhaseOK
    <2>2. KernelEntry(mem.tab, RcPage(p)) # NoEntry
      BY <1>4, <1>5, <2>1 DEF CountersMapped
    <2>3. PICK v : v = RcPage(p)
      OBVIOUS
    <2>4. v \in KERNEL_BASE .. KernelTop - 1
      BY <1>5, <2>3, RcPageIs, KernelSlot
    <2> QED BY <1>1, <2>2, <2>3, <2>4, KernelMapped
  <1>7. ASSUME Cardinality(A) + Cardinality(B) > 0
        PROVE  /\ mem.rc[p] = Cardinality(A) + Cardinality(B)
               /\ p < mem.bump[r] /\ \A k \in DOMAIN mem.free : mem.free[k] # p
    <2>1. PICK S : S = KernelSlots
      OBVIOUS
    <2>2. S \subseteq Lower
      BY <2>1, SlotFacts DEF Lower
    <2>3. /\ Cardinality(A) + Cardinality(B) = One(A # {} \/ B # {})
          /\ A # {} \/ B # {} => Used(tb, cs, p)
      <3>1. TabOK(tb, cs)
        BY <1>1, <1>2
      <3> QED BY <1>1, <1>3, <1>4, <2>1, <2>2, <3>1, CountIs
    <2>4. Cardinality(A) + Cardinality(B) = 1 /\ Used(tb, cs, p)
      BY <1>7, <2>3 DEF One
    <2>5. p \notin cs /\ p # mem.cr3
      <3>1. \A c \in cs : ~Used(tb, cs, c)
        BY <1>1, <1>2 DEF TabOK, TablesOK
      <3> QED BY <1>1, <1>2, <2>4, <3>1
    <2>6. mem.rc[p] = One(Used(tb, cs, p)) + One(p \in cs) + One(p = mem.cr3) + One(p \in {})
      BY <1>1, <1>2, <1>3, <1>4, <1>5 DEF PagesOK
    <2>7. mem.rc[p] = 1
      BY <2>4, <2>5, <2>6 DEF One
    <2>8. ~Offered(fr, bp, p)
      BY <1>1, <1>2, <1>4, <1>5, <2>4 DEF PagesOK
    <2>9. \A k \in DOMAIN fr : fr[k] # p
      BY <2>8 DEF Offered, Listed
    <2>10. ~(bp[r] <= p /\ p < regions[r].end)
      BY <2>8 DEF Offered, Fresh
    <2>11. bp[r] \in Nat
      <3>1. bp \in Seq(Nat) /\ Len(bp) = Len(regions) /\ regions \in Seq([begin: Nat, end: Nat])
        BY <1>1, <1>2 DEF AllocOK, Bounds
      <3>2. r \in DOMAIN bp
        BY <3>1, SeqElement
      <3> QED BY <3>1, <3>2, SeqElement
    <2>12. p < bp[r]
      BY <1>4, <2>10, <2>11
    <2> QED BY <1>2, <2>4, <2>7, <2>9, <2>12
  <1> QED BY <1>5, <1>6, <1>7

\* From the invariant to the ranges that are accepted.
LEMMA RangesAre ==
  ASSUME Inv
  PROVE  RangesExact
  <1>1. NotWrapped(mem)
    BY AllBounds, WrapFails DEF Inv
  <1>2. ASSUME NEW a \in Addrs, NEW n \in Lens, NEW b \in Builds
        PROVE  PagesExact(mem, a, n, b, PageRange(a, n, b)) /\ BufferExact(mem, a, n, b, containing(a, n, b))
    <2>1. a \in Nat /\ n \in Nat
      BY BuffersAssumption
    <2> QED BY <1>1, <2>1, RangeExact, ContainingExact
  <1> DEFINE Asked(a, n) == {p \in 0 .. WordPages - 1 : p * PAGE_SIZE < a + n /\ a < (p + 1) * PAGE_SIZE}
             Aligned(a, n) == {p \in 0 .. WordPages - 1 : p * PAGE_SIZE >= a /\ p * PAGE_SIZE < a + n * PAGE_SIZE}
             Fits(a, n) == a % PAGE_SIZE = 0 /\ a + n * PAGE_SIZE <= MAX_USER_ADDR
             Ends(a, n) == a + n <= MAX_USER_ADDR
             Over(a, n) == a + (n + 1) * PAGE_SIZE >= Word
  <1>3. SUFFICES ASSUME NEW a \in Addrs, NEW n \in Lens, NEW b \in Builds
                 PROVE  LET r == PageRange(a, n, b)
                            c == containing(a, n, b)
                        IN  /\ r.err = "" /\ (validate_map(mem, r, {}) \/ validate_available(mem, r)) =>
                                 Fits(a, n) /\ pages(r) = Aligned(a, n)
                            /\ Fits(a, n) => r.err = ""
                            /\ c.err = "" /\ validate_map(mem, c, {}) => pages(c) = Asked(a, n) /\ Ends(a, n)
                            /\ Ends(a, n) => c.err = ""
                            /\ "panic" \in {r.err, c.err} => b = "debug" /\ Over(a, n)
    BY Zenon DEF RangesExact
  <1>4. PICK r, c : r = PageRange(a, n, b) /\ c = containing(a, n, b)
    OBVIOUS
  <1>5. /\ r.err = "" /\ Validated(mem, r) => Fits(a, n) /\ pages(r) = Aligned(a, n)
        /\ Fits(a, n) => r.err = ""
        /\ r.err = "panic" => b = "debug" /\ Over(a, n)
        /\ c.err = "" /\ Validated(mem, c) => pages(c) = Asked(a, n) /\ Ends(a, n)
        /\ Ends(a, n) => c.err = ""
        /\ c.err = "panic" => b = "debug" /\ Over(a, n)
    <2>1. PagesExact(mem, a, n, b, r) /\ BufferExact(mem, a, n, b, c)
      BY <1>2, <1>4
    <2> QED BY <2>1, Zenon DEF PagesExact, BufferExact
  <1> HIDE DEF Asked, Aligned, Fits, Ends, Over
  <1> QED BY <1>4, <1>5 DEF Validated

-----------------------------------------------------------------------------
(* The theorems.                                                           *)

\* The inductive invariant holds: tables are trees that share only the kernel half,
\* a page has one place at most, and counters and free list agree with the tables.
THEOREM Invariant == Spec => []Inv
  <1>1. Init => Inv
    BY InitKeeps
  <1>2. Inv /\ [Next]_vars => Inv'
    BY NextKeeps
  <1> QED BY <1>1, <1>2, PTL DEF Spec

\* Whatever the memory map and the size of the tables: from main on the counter of
\* every page the allocator can return is mapped in the context that is loaded, a page
\* the kernel half uses is counted exactly and is never handed out again.
THEOREM CountersExact == Spec => []KernelPagesCounted
  <1>1. Inv => KernelPagesCounted
    BY CountedIs
  <1> QED BY <1>1, Invariant, PTL

\* All page contexts have the kernel half of the first one, without an empty entry, so
\* that what the kernel maps while it serves one task is mapped for all.
THEOREM SharedKernel == Spec => []KernelHalfShared
  <1>1. Inv => KernelHalfShared
    <2> SUFFICES ASSUME Inv, Pc("run"), NEW c \in contexts, NEW i \in KernelSlots
                 PROVE  mem.tab[c][i] = mem.tab[BootPml4][i] /\ mem.tab[c][i] # NoEntry
      BY DEF KernelHalfShared
    <2>1. ContextsOK(mem.tab, contexts)
      BY DEF Inv, PhysInv
    <2>2. mem.tab[c][i] = mem.tab[BootPml4][i]
      BY <2>1 DEF ContextsOK
    <2>3. mem.tab[BootPml4][i] # NoEntry
      BY DEF Inv, PhaseOK, Pc
    <2> QED BY <2>2, <2>3
  <1> QED BY <1>1, Invariant, PTL

\* For all addresses and lengths and in both builds, a range that is accepted and
\* validated is exactly what was asked for, in the user half.
THEOREM ExactRanges == Spec => []RangesExact
  <1>1. Inv => RangesExact
    BY RangesAre
  <1> QED BY <1>1, Invariant, PTL

\* A buffer that a waiting call has borrowed stays mapped as it was validated, for any
\* number of tasks, if no other task has the same page context.
THEOREM BorrowedStays == Spec => []BorrowHolds
  <1>1. Inv => BorrowHolds
    BY DEF Inv
  <1> QED BY <1>1, Invariant, PTL
=============================================================================
