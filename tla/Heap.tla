-------------------------------- MODULE Heap --------------------------------
(***************************************************************************)
(* The kernel heap of CrabOS: the pages of kernel/src/mem/kvirt.rs, the    *)
(* size classes of kernel/src/mem/kalloc.rs and the reference counted      *)
(* blocks of kernel/src/sync/arc.rs.  Objects puts the handles of tasks on *)
(* top and has the next-state relation.                                    *)
(*                                                                         *)
(* An address is a number of bytes from the first heap page.  kvirt never  *)
(* gets a page back (nothing calls free_page), so pages are only taken     *)
(* from the end.  The levels of page tables are one level here.  The rest  *)
(* of the kernel takes and returns physical pages at all times, so that    *)
(* any allocation of one may fail.                                         *)
(***************************************************************************)
EXTENDS Naturals, Sequences, FiniteSets

CONSTANTS
  PageSize,     \* PAGE_SIZE
  Classes,      \* Allocator::classes: the block sizes, in increasing order
  TablePages,   \* the number of heap pages one page table maps
  MaxPages,     \* bound: heap pages that are tried
  BoxLayouts,   \* layouts of values in a Box
  ArcLayouts,   \* layouts of ArcObjects
  PtrLayout,    \* layout of a NonNull<ArcObject>
  MaxBoxes,     \* bound: boxes at a time
  None

Addr == 0 .. MaxPages * PageSize - 1
Layouts == BoxLayouts \cup ArcLayouts \cup {PtrLayout}

\* SizeClass::fits and Allocator::class: the first class that fits.
fits(c, l) == Classes[c] >= l.size /\ Classes[c] >= l.align
class(l) == CHOOSE c \in DOMAIN Classes :
              fits(c, l) /\ \A d \in DOMAIN Classes : d < c => ~fits(d, l)

\* Sizes and alignments are powers of two: the larger is a multiple of the smaller.
ASSUME HeapAssumption ==
  /\ PageSize \in Nat \ {0} /\ MaxPages \in Nat
  /\ Classes \in Seq(Nat \ {0})
  /\ \A c \in DOMAIN Classes : PageSize % Classes[c] = 0
  /\ \A c, d \in DOMAIN Classes : c < d => Classes[c] < Classes[d] /\ Classes[d] % Classes[c] = 0
  /\ \A l \in Layouts : /\ l.size \in Nat /\ l.align \in Nat \ {0}
                        /\ \E c \in DOMAIN Classes : fits(c, l)
                        /\ \A c \in DOMAIN Classes : fits(c, l) => Classes[c] % l.align = 0
  /\ class(PtrLayout) = 1
  /\ None \notin Addr /\ None \notin Layouts

VARIABLES
  ptr,          \* PageAllocatorInner::ptr
  tables,       \* the page tables that exist
  mapped,       \* the heap pages that are mapped
  free,         \* free[c]: the list of free blocks of class c
  live,         \* live[a]: the layout of the value at a, None if there is none
  refs,         \* refs[a]: ArcObject::ref_count; 0 if a holds no Arc
  lost          \* history: bytes no block has any more

pageVars == <<ptr, tables, mapped>>
heapVars == <<ptr, tables, mapped, free, live, refs, lost>>

HeapInit ==
  /\ ptr = 0
  /\ tables = {}
  /\ mapped = {}
  /\ free = [c \in DOMAIN Classes |-> <<>>]
  /\ live = [a \in Addr |-> None]
  /\ refs = [a \in Addr |-> 0]
  /\ lost = {}

-----------------------------------------------------------------------------
(* PageAllocator::alloc.                                                   *)

TableOf(p) == p \div (PageSize * TablePages)
NeedsTable == TableOf(ptr) \notin tables

\* A page and, if it is missing, the table for it are taken and mapped.
MapPage ==
  /\ ptr \in Addr
  /\ tables' = tables \cup {TableOf(ptr)}
  /\ mapped' = mapped \cup {ptr}
  /\ ptr' = ptr + PageSize

\* There is no page, or there is one and no second for the table: then the page
\* is given back, and the address it was meant for is skipped.
MapPageFails ==
  \/ UNCHANGED pageVars
  \/ /\ ptr \in Addr /\ NeedsTable
     /\ ptr' = ptr + PageSize
     /\ UNCHANGED <<tables, mapped>>

-----------------------------------------------------------------------------
(* SizeClass and Allocator.                                                *)

\* add_free of every block of a page: the last one is the first of the list.
Carved(page, size) == [i \in 1 .. PageSize \div size |-> page + PageSize - i * size]

\* A block for layout l is at a.
AllocAt(a, l) ==
  LET c == class(l)
      blocks == IF free[c] # <<>> THEN free[c] ELSE Carved(ptr, Classes[c])
  IN  /\ IF free[c] # <<>> THEN UNCHANGED pageVars ELSE MapPage
      /\ a = Head(blocks)
      /\ free' = [free EXCEPT ![c] = Tail(blocks)]

AllocFails(l) ==
  /\ free[class(l)] = <<>>
  /\ MapPageFails
  /\ UNCHANGED free

\* Mutant: the block goes to the largest class.
BugFreeLargest(a, l) == free' = [free EXCEPT ![Len(Classes)] = <<a>> \o @]

\* free_layout puts the block at a on the list of the class of l.
FreeLayout(a, l) == free' = [free EXCEPT ![class(l)] = <<a>> \o @]

\* Layout::for_value(&self.ptr) in Arc::drop: the layout of the pointer.
DropLayout(a) == PtrLayout

-----------------------------------------------------------------------------
(* Box and Arc.                                                            *)

Bytes(a, n) == a .. a + n - 1
BlockOf(a) == Bytes(a, Classes[class(live[a])])

Boxes == {a \in Addr : live[a] # None /\ refs[a] = 0}

BoxNew ==
  /\ Cardinality(Boxes) < MaxBoxes
  /\ \E l \in BoxLayouts :
       \/ \E a \in Addr : AllocAt(a, l) /\ live' = [live EXCEPT ![a] = l]
       \/ AllocFails(l) /\ UNCHANGED live
  /\ UNCHANGED <<refs, lost>>

BoxDrop ==
  /\ \E a \in Boxes : /\ FreeLayout(a, live[a])
                      /\ live' = [live EXCEPT ![a] = None]
  /\ UNCHANGED <<pageVars, refs, lost>>

\* Arc::new at a with one reference.
ArcNewAt(a) ==
  /\ \E l \in ArcLayouts : AllocAt(a, l) /\ live' = [live EXCEPT ![a] = l]
  /\ refs' = [refs EXCEPT ![a] = 1]
  /\ UNCHANGED lost

ArcNewFails ==
  /\ \E l \in ArcLayouts : AllocFails(l)
  /\ UNCHANGED <<live, refs, lost>>

ArcClone(a) ==
  /\ refs' = [refs EXCEPT ![a] = @ + 1]
  /\ UNCHANGED <<pageVars, free, live, lost>>

\* Arc::drop when the counts are r: the last one frees the block, as a block for a
\* pointer.
ArcDropFrom(r, a) ==
  /\ refs' = [r EXCEPT ![a] = @ - 1]
  /\ IF r[a] = 1
     THEN /\ FreeLayout(a, DropLayout(a))
          /\ live' = [live EXCEPT ![a] = None]
          /\ lost' = lost \cup (BlockOf(a) \ Bytes(a, Classes[class(PtrLayout)]))
     ELSE UNCHANGED <<free, live, lost>>
  /\ UNCHANGED pageVars

ArcDrop(a) == ArcDropFrom(refs, a)

-----------------------------------------------------------------------------
(* Properties.                                                             *)

HeapTypeOK ==
  /\ ptr \in 0 .. MaxPages * PageSize
  /\ mapped \subseteq Addr
  /\ free \in [DOMAIN Classes -> Seq(Addr)]
  /\ live \in [Addr -> Layouts \cup {None}]
  /\ refs \in [Addr -> Nat]

\* The blocks there are: <<address, size>> of values and of free list entries.
LiveBlocks == {<<a, Classes[class(live[a])]>> : a \in {b \in Addr : live[b] # None}}
FreeEntries == UNION {{<<c, i>> : i \in DOMAIN free[c]} : c \in DOMAIN Classes}

\* A value has the size and the alignment its layout asks for, inside its block.
ValuesFit ==
  \A a \in Addr :
    live[a] # None =>
      a % live[a].align = 0 /\ live[a].size <= Classes[class(live[a])]

\* The blocks of values, the free blocks and the bytes lost by dropping an Arc
\* tile the mapped heap: whatever was allocated, dropped and carved before, no
\* byte belongs to two of them.  (A block changes its class when an Arc is
\* dropped, and lists are threaded through the blocks.)  And every value fits its
\* block, with its alignment.
HeapIsTiled ==
  LET entry(e) == Bytes(free[e[1]][e[2]], Classes[e[1]])
      block(b) == Bytes(b[1], b[2])
  IN  /\ ValuesFit
      /\ \A e, f \in FreeEntries : e # f => entry(e) \cap entry(f) = {}
      /\ \A b, d \in LiveBlocks : b # d => block(b) \cap block(d) = {}
      /\ \A e \in FreeEntries, b \in LiveBlocks : entry(e) \cap block(b) = {}
      /\ (UNION {entry(e) : e \in FreeEntries}) \cup (UNION {block(b) : b \in LiveBlocks}) \cup lost
           = UNION {Bytes(p, PageSize) : p \in mapped}
=============================================================================
