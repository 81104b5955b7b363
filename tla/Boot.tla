------------------------------- MODULE Boot -------------------------------
(***************************************************************************)
(* Start of CrabOS: the page tables of kernel/src/start.asm, phys_init,    *)
(* console_init, main's init_ref_counts and init_kernel_pml4_entries; and  *)
(* what they are for afterwards: the kernel half of the address space,     *)
(* that page contexts share, and the reference counts.                     *)
(*                                                                         *)
(* A physical page is a number, an address is a number of pages, and two   *)
(* levels of tables of Fan entries stand for the four of 512.  The last    *)
(* entry of a PML4 is the PML4.  As in the code the upper bits of an       *)
(* address are not looked at when it is translated.                        *)
(***************************************************************************)
EXTENDS Naturals, Sequences, FiniteSets

CONSTANTS
  Fan,              \* entries of a table
  WordPages,        \* pages that a 64 bit address can name
  Image,            \* the kernel's pages, from KERNEL_BASE: kinds "ro", "rw", "temp", "guard"
  VramPages,        \* pages of VRAM, and where it is
  VramPhys,
  RcPerPage,        \* counters in a page
  MemoryMaps,       \* what the BIOS may report: sequences of [begin, size, usable]
  MaxRegions        \* capacity of PHYS_REGIONS

\* Physical memory below the boundary: page 0, the boot PML4, the tables of the
\* kernel and of the identity map, the image.
BootPml4 == 1
KernelTable == 2
IdentityTable == 3
ImagePhys == 4
HighBoundary == ImagePhys + Len(Image)

Slots == 0 .. Fan - 1
KernelSlots == (Fan \div 2) .. (Fan - 2)
Recursive == Fan - 1

MAX_USER_PAGE == (Fan * Fan) \div 2
KERNEL_BASE == WordPages - MAX_USER_PAGE
Vram == KERNEL_BASE + Len(Image)
PhysRc == Vram + VramPages

ASSUME BootAssumption ==
  /\ Fan \in Nat /\ Fan >= 4 /\ Fan % 2 = 0
  /\ WordPages \in Nat \ {0} /\ WordPages % (Fan * Fan) = 0
  /\ Image \in Seq({"ro", "rw", "temp", "guard"}) /\ VramPages \in Nat
  /\ Len(Image) + VramPages <= Fan
  /\ RcPerPage \in Nat \ {0}

VARIABLES
  memoryMap,        \* the BIOS's
  at,               \* how far the start has got: [pc, i], and a register: rax
  regions,          \* PHYS_REGIONS: [begin, end]
  mem,              \* [tab, rc, counting, free, bump, cr3]
  ptr               \* the next page of kvirt's ALLOCATOR

bootVars == <<memoryMap, at, regions, mem, ptr>>

MaxPhys ==
  LET ends == UNION {{mm[i].begin + mm[i].size : i \in DOMAIN mm} : mm \in MemoryMaps}
  IN  CHOOSE n \in ends : \A k \in ends : k <= n

End == PhysRc + (MaxPhys \div RcPerPage) + 1

\* Regions of memory do not overlap, and VRAM is in none of them; the kernel half, up
\* to its recursive entry, has room for all pages above the boundary.
ASSUME MapsAssumption ==
  /\ MaxPhys \in Nat /\ HighBoundary <= MaxPhys
  /\ VramPhys \in Nat /\ VramPhys > IdentityTable
  /\ \A mm \in MemoryMaps :
       /\ mm \in Seq([begin: Nat, size: Nat, usable: BOOLEAN])
       /\ \A i \in DOMAIN mm : mm[i].usable =>
            /\ mm[i].begin + mm[i].size <= MaxPhys
            /\ mm[i].begin + mm[i].size <= VramPhys \/ VramPhys + VramPages <= mm[i].begin
            /\ \A j \in DOMAIN mm : mm[j].usable /\ i # j =>
                 mm[i].begin + mm[i].size <= mm[j].begin \/ mm[j].begin + mm[j].size <= mm[i].begin
  /\ End + MaxPhys < WordPages - Fan + HighBoundary

-----------------------------------------------------------------------------
(* Tables.                                                                 *)

NoEntry == [phys |-> 0, flags |-> {}]
Entry(p, flags) == [phys |-> p, flags |-> flags]
NoTable == [i \in Slots |-> NoEntry]

\* pml4_entry .. pml1_entry.
Slot(virt) == (virt \div Fan) % Fan
Index(virt) == virt % Fan

Pml4Entry(s, virt) == s.tab[s.cr3][Slot(virt)]
Pml1Entry(s, virt) == s.tab[Pml4Entry(s, virt).phys][Index(virt)]

is_mapped(s, virt) == Pml4Entry(s, virt) # NoEntry /\ Pml1Entry(s, virt) # NoEntry

-----------------------------------------------------------------------------
(* phys.rs: a result is [s, page], with page 0 for MemoryExhausted.        *)

Known(p) == \E r \in DOMAIN regions : regions[r].begin <= p /\ p < regions[r].end

AddRef(s, p, n) == IF s.counting /\ Known(p) THEN [s EXCEPT !.rc[p] = @ + n] ELSE s

alloc(s) ==
  LET open == {r \in DOMAIN regions : s.bump[r] < regions[r].end}
      first == CHOOSE r \in open : \A q \in open : r <= q
  IN  IF s.free # <<>>
      THEN [s |-> AddRef([s EXCEPT !.free = Tail(@)], Head(s.free), 1), page |-> Head(s.free)]
      ELSE IF open = {} THEN [s |-> s, page |-> 0]
      ELSE [s |-> AddRef([s EXCEPT !.bump[first] = @ + 1], s.bump[first], 1), page |-> s.bump[first]]

\* Drop for Phys.
Drop(s, p) ==
  LET less == [s EXCEPT !.rc[p] = @ - 1]
  IN  IF ~s.counting \/ ~Known(p) THEN s
      ELSE IF s.rc[p] = 1 THEN [less EXCEPT !.free = <<p>> \o @] ELSE less

\* A new page table, from a page that is zeroed.
NewTable(s, pml4, slot, p) ==
  [s EXCEPT !.tab[pml4][slot] = Entry(p, {"P", "W", "U"}), !.tab[p] = NoTable]

\* page::map: the error is "CannotAllocatePageTable", "AlreadyMapped" or "".
map(s, p, virt, flags) ==
  LET a == alloc(s)
      needs == Pml4Entry(s, virt) = NoEntry
      t == IF needs THEN NewTable(a.s, s.cr3, Slot(virt), a.page) ELSE s
  IN  IF needs /\ a.page = 0 THEN [s |-> Drop(s, p), err |-> "CannotAllocatePageTable"]
      ELSE IF Pml1Entry(t, virt) # NoEntry THEN [s |-> Drop(t, p), err |-> "AlreadyMapped"]
      ELSE [s |-> [t EXCEPT !.tab[Pml4Entry(t, virt).phys][Index(virt)] = Entry(p, flags)], err |-> ""]

-----------------------------------------------------------------------------
(* start.asm.                                                              *)

BootInit ==
  /\ memoryMap \in MemoryMaps
  /\ at = [pc |-> "map_kernel", i |-> 0, rax |-> NoEntry]
  /\ regions = <<>>
  /\ mem = [ tab |-> [[p \in 0 .. MaxPhys |-> NoTable] EXCEPT
                        ![BootPml4][Recursive] = Entry(BootPml4, {"P", "W"}),
                        ![BootPml4][0] = Entry(IdentityTable, {"P", "W"}),
                        ![BootPml4][Slot(KERNEL_BASE)] = Entry(KernelTable, {"P", "W"}),
                        ![IdentityTable][0] = Entry(0, {"P", "W"})],
             rc |-> [p \in 0 .. MaxPhys |-> 0],
             counting |-> FALSE,
             free |-> <<>>,
             bump |-> <<>>,
             cr3 |-> BootPml4 ]
  /\ ptr = End

Pc(pc) == at.pc = pc
Goto(pc) == at' = [pc |-> pc, i |-> 0, rax |-> NoEntry]
Again == at' = [at EXCEPT !.i = @ + 1]

\* expect: the kernel stops.
Panic ==
  /\ Goto("panic")
  /\ UNCHANGED <<regions, mem, ptr>>

\* One page of the kernel.  For the guard the loop jumps over what makes an entry, to
\* the store of rax.
map_kernel ==
  /\ Pc("map_kernel") /\ at.i < Len(Image)
  /\ LET kind == Image[at.i + 1]
         made == Entry(ImagePhys + at.i, IF kind = "ro" THEN {"P"} ELSE {"P", "W"})
     IN  at' = [at EXCEPT !.i = @ + 1, !.rax = IF kind = "guard" THEN @ ELSE made]
  /\ mem' = [mem EXCEPT !.tab[KernelTable][at.i] = at'.rax]
  /\ UNCHANGED <<memoryMap, regions, ptr>>

higher_half ==
  /\ Pc("map_kernel") /\ at.i = Len(Image)
  /\ Goto("phys_init")
  /\ UNCHANGED <<memoryMap, regions, mem, ptr>>

-----------------------------------------------------------------------------
(* phys_init.                                                              *)

\* page::temp_reset.
TempReset ==
  /\ Pc("phys_init")
  /\ mem' = [mem EXCEPT !.tab[KernelTable] =
               [i \in Slots |-> IF i < Len(Image) /\ Image[i + 1] = "temp" THEN NoEntry ELSE @[i]]]
  /\ Goto("regions")
  /\ UNCHANGED <<memoryMap, regions, ptr>>

ClippedBegin(region) == IF region.begin < HighBoundary THEN HighBoundary ELSE region.begin

\* One region of the BIOS.  The push panics when the array is full.
AddRegion ==
  /\ Pc("regions") /\ at.i < Len(memoryMap)
  /\ LET region == memoryMap[at.i + 1]
         end == region.begin + region.size
     IN  IF ~region.usable \/ end < HighBoundary
         THEN Again /\ UNCHANGED <<regions, mem, ptr>>
         ELSE IF Len(regions) = MaxRegions THEN Panic
         ELSE /\ regions' = Append(regions, [begin |-> ClippedBegin(region), end |-> end])
              /\ mem' = [mem EXCEPT !.bump = Append(@, ClippedBegin(region))]
              /\ Again
              /\ UNCHANGED ptr
  /\ UNCHANGED memoryMap

RegionsDone ==
  /\ Pc("regions") /\ at.i = Len(memoryMap)
  /\ Goto("counters")
  /\ UNCHANGED <<memoryMap, regions, mem, ptr>>

RcPage(p) == PhysRc + (p \div RcPerPage)

\* The pages ensure_rc_page is called for; below the boundary it does nothing.
Counted == {p \in 0 .. MaxPhys : Known(p)}

\* ensure_rc_page, for the next page whose counter is not mapped.
EnsureRcPage ==
  /\ Pc("counters")
  /\ LET missing == {p \in Counted : ~is_mapped(mem, RcPage(p))}
         p == CHOOSE q \in missing : \A k \in missing : q <= k
         a == alloc(mem)
         m == map(a.s, a.page, RcPage(p), {"P", "W"})
     IN  IF missing = {} THEN Goto("vram") /\ UNCHANGED <<regions, mem, ptr>>
         ELSE IF a.page = 0 \/ m.err # "" THEN Panic
         ELSE mem' = m.s /\ UNCHANGED <<at, regions, ptr>>
  /\ UNCHANGED memoryMap

-----------------------------------------------------------------------------
(* console_init and main.                                                  *)

MapVram ==
  /\ Pc("vram") /\ at.i < VramPages
  /\ LET m == map(mem, VramPhys + at.i, Vram + at.i, {"P", "W"})
     IN  IF m.err # "" THEN Panic
         ELSE mem' = m.s /\ Again /\ UNCHANGED <<regions, ptr>>
  /\ UNCHANGED memoryMap

\* start.asm: unmap low memory.
UnmapLow ==
  /\ Pc("vram") /\ at.i = VramPages
  /\ mem' = [mem EXCEPT !.tab[BootPml4][0] = NoEntry]
  /\ Goto("main")
  /\ UNCHANGED <<memoryMap, regions, ptr>>

\* Mutant: only the tables are counted.
BugTablesOnly(s, p) == Cardinality({i \in Slots \ {Recursive} : s.tab[s.cr3][i].phys = p})

\* each_phys: how often it names p (the PML4 twice, with that of init_ref_counts).
each_phys(s, p) ==
  LET slots == {i \in Slots \ {Recursive} : s.tab[s.cr3][i].phys # 0}
  IN  (IF s.cr3 = p THEN 2 ELSE 0)
        + Cardinality({i \in slots : s.tab[s.cr3][i].phys = p})
        + Cardinality({ij \in slots \X Slots : s.tab[s.tab[s.cr3][ij[1]].phys][ij[2]].phys = p})

init_ref_counts ==
  /\ Pc("main")
  /\ mem' = [mem EXCEPT !.rc = [p \in 0 .. MaxPhys |-> IF Known(p) THEN each_phys(mem, p) ELSE 0],
                        !.counting = TRUE]
  /\ Goto("slots")
  /\ UNCHANGED <<memoryMap, regions, ptr>>

\* One empty entry of the kernel half after the other.
init_kernel_pml4_entries ==
  /\ Pc("slots")
  /\ LET empty == {i \in KernelSlots : mem.tab[mem.cr3][i] = NoEntry}
         i == CHOOSE k \in empty : \A j \in empty : k <= j
         a == alloc(mem)
     IN  IF empty = {} THEN Goto("run") /\ UNCHANGED <<regions, mem, ptr>>
         ELSE IF a.page = 0 THEN Panic
         ELSE /\ mem' = NewTable(a.s, mem.cr3, i, a.page)
              /\ UNCHANGED <<at, regions, ptr>>
  /\ UNCHANGED memoryMap

BootNext ==
  \/ map_kernel \/ higher_half \/ TempReset \/ AddRegion \/ RegionsDone \/ EnsureRcPage
  \/ MapVram \/ UnmapLow \/ init_ref_counts \/ init_kernel_pml4_entries

-----------------------------------------------------------------------------
(* Afterwards: kvirt and page contexts.                                    *)

\* kvirt's alloc: the address stays taken when page::map fails.
kvirt_alloc(s) ==
  LET a == alloc(s)
      m == map(a.s, a.page, ptr, {"P", "W"})
  IN  /\ IF a.page = 0 THEN mem' = s /\ UNCHANGED ptr ELSE mem' = m.s /\ ptr' = ptr + 1
      /\ IF a.page # 0 /\ m.err = "AlreadyMapped" THEN Goto("panic") ELSE UNCHANGED at

\* Mutant: the last entry of the kernel half is not copied.
BugCopyLess(s, p) ==
  [i \in Slots |-> IF i \in KernelSlots \ {Fan - 2} THEN s.tab[s.cr3][i]
                   ELSE IF i = Recursive THEN Entry(p, {"P"}) ELSE NoEntry]

\* PageCtx::new: the entries of the new PML4.
NewPml4(s, p) ==
  [i \in Slots |-> IF i \in KernelSlots THEN s.tab[s.cr3][i]
                   ELSE IF i = Recursive THEN Entry(p, {"P"}) ELSE NoEntry]

set_ctx(s, ctx) == Drop([AddRef(s, ctx, 1) EXCEPT !.cr3 = ctx], s.cr3)

-----------------------------------------------------------------------------
(* Properties.                                                             *)

\* From main on every page the allocator can return has its counter mapped, in the
\* context that is loaded; the counters say how often the kernel half uses a page; and
\* a page the kernel half uses is neither free nor still to be handed out.
KernelPagesCounted ==
  mem.counting =>
    LET kslots == {i \in KernelSlots : mem.tab[BootPml4][i].phys # 0}
        uses(p) == Cardinality({i \in kslots : mem.tab[BootPml4][i].phys = p})
                     + Cardinality({ij \in kslots \X Slots :
                                      mem.tab[mem.tab[BootPml4][ij[1]].phys][ij[2]].phys = p})
    IN  \A r \in DOMAIN regions : \A p \in regions[r].begin .. regions[r].end - 1 :
          /\ is_mapped(mem, RcPage(p))
          /\ p >= HighBoundary
          /\ uses(p) > 0 => /\ mem.rc[p] = uses(p)
                            /\ p < mem.bump[r]
                            /\ \A k \in DOMAIN mem.free : mem.free[k] # p

\* start.asm, "don't map stack guard": a kernel that runs off its stack faults.
StackGuardFaults ==
  ~Pc("map_kernel") =>
    \A i \in DOMAIN Image : Image[i] = "guard" => ~is_mapped(mem, KERNEL_BASE + i - 1)
=============================================================================
