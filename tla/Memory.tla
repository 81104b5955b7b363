------------------------------- MODULE Memory -------------------------------
(***************************************************************************)
(* Physical pages and address spaces of CrabOS: kernel/src/mem/phys.rs,    *)
(* kernel/src/mem/page.rs and the system calls of kernel/src/syscall.rs    *)
(* that change them.                                                       *)
(*                                                                         *)
(* A page context is named by the physical page of its PML4.  Every Phys   *)
(* value owns one reference of its page: a page table entry, cr3, the      *)
(* PageCtx inside a kernel object, or a local variable of the kernel       *)
(* (held).  A page whose count drops to zero goes to the free list.        *)
(*                                                                         *)
(* System calls run with interrupts disabled, one after another; their     *)
(* loops take one step per page so that every intermediate state is        *)
(* checked.  Scheduler shows that a call is dispatched in the page context *)
(* of its task: here Switch establishes it.                                *)
(***************************************************************************)
EXTENDS Naturals, Sequences, FiniteSets

CONSTANTS
  Regions,      \* PHYS_REGIONS: a sequence of [begin, end) page numbers
  BootCtx,      \* PML4 of the boot page context, outside all regions
  Hardware,     \* pages of devices, outside all regions
  Virt,         \* user pages (virtual page numbers)
  Path,         \* Path[v]: the PML3, PML2 and PML1 table that map v
  Flags,        \* page flags a program may ask for
  Odd,          \* flags that PageFlags does not know: bits 8 to 11
  CachedVirt,   \* bound: the pages whose cached translations are followed
  Ranges,       \* the page ranges programs ask for, as sequences of pages
  Tasks, InitTask,
  MaxRefs,      \* bound: references to one page context object
  None          \* no page, no entry, no task

Page == UNION {Regions[i].begin .. (Regions[i].end - 1) : i \in DOMAIN Regions}
Pml4 == Page \cup {BootCtx}
Table == UNION {{Path[v][i] : i \in DOMAIN Path[v]} : v \in Virt}

ASSUME MemoryAssumption ==
  /\ Regions \in Seq([begin: Nat \ {0}, end: Nat])
  /\ \A i, j \in DOMAIN Regions :
       i < j => Regions[i].end <= Regions[j].begin
  /\ Hardware \subseteq Nat /\ Hardware \cap Page = {}
  /\ BootCtx \in Nat \ Page
  /\ Ranges \subseteq Seq(Virt)
  /\ \A r \in Ranges : \A i, j \in DOMAIN r : i # j => r[i] # r[j]
  /\ Flags # {} /\ Odd \notin Flags
  /\ IsFiniteSet(Virt)
  /\ CachedVirt \subseteq Virt
  /\ InitTask \in Tasks
  /\ MaxRefs \in Nat

\* A last level page table entry: the page and its flags, and (for the properties
\* only) which call has made it.
Entry == [page: Page \cup Hardware, flags: Flags \cup {Odd}, by: {"alloc", "map_physical"}]

ASSUME NoneAssumption == None \notin Entry \cup Page \cup Hardware \cup {BootCtx}

\* The system call in progress: the pages it has still to treat, the flags and
\* the physical address it was given, and the Phys it holds (None: no Phys).
Job == [call: {"none", "alloc", "map_physical", "release", "modify"},
        flags: Flags \cup {Odd}, todo: Seq(Virt)]

NoJob == [call |-> "none", flags |-> CHOOSE f \in Flags : TRUE, todo |-> <<>>]

VARIABLES
  free,         \* the list that starts at NEXT_FREE_PHYS
  bump,         \* PHYS_BUMP_ALLOC: the next fresh page of each region
  rc,           \* reference count of each page
  entries,      \* entries[c][v]: the PML1 entry of v in page context c
  tables,       \* tables[c][n]: the page of table n in page context c
  tlb,          \* translations the processor has cached
  cr3,
  strong,       \* strong[c]: reference count of the object that holds c
  handles,      \* handles[t][c]: number of handles task t has to that object
  taskCtx,      \* taskCtx[t]: page_ctx of task t, None if there is no task t
  current,      \* CURRENT_TASK
  pc,           \* where the processor is
  job,          \* the system call in progress
  held,         \* the Phys in the local variable phys of that call
  leaked        \* number of references lost with the tables of a freed PML4

physVars == <<free, bump, rc>>
spaceVars == <<entries, tables, tlb, cr3, leaked>>
objectVars == <<strong, handles, taskCtx, current>>
vars == <<free, bump, rc, entries, tables, tlb, cr3, strong, handles, taskCtx,
          current, pc, job, held, leaked>>

\* The types.
TypeOK ==
  /\ free \in Seq(Page)
  /\ bump \in [DOMAIN Regions -> Nat]
  /\ rc \in [Page -> Nat]
  /\ entries \in [Pml4 -> [Virt -> Entry \cup {None}]]
  /\ tables \in [Pml4 -> [Table -> Page \cup {None}]]
  /\ tlb \in [Virt -> Entry \cup {None}]
  /\ cr3 \in Pml4
  /\ strong \in [Pml4 -> Nat]
  /\ handles \in [Tasks -> [Pml4 -> Nat]]
  /\ taskCtx \in [Tasks -> Pml4 \cup {None}]
  /\ current \in Tasks
  /\ pc \in {"User", "Switch", "Dispatch", "Loop", "Map", "Panic", "Exposed"}
  /\ job \in Job
  /\ held \in Page \cup Hardware \cup {None}
  /\ leaked \in [Page -> Nat]

NoEntries == [v \in Virt |-> None]
NoTables == [n \in Table |-> None]

\* The init task runs in the boot page context and has mapped nothing yet.
Init ==
  /\ free = <<>>
  /\ bump = [i \in DOMAIN Regions |-> Regions[i].begin]
  /\ rc = [p \in Page |-> 0]
  /\ entries = [c \in Pml4 |-> NoEntries]
  /\ tables = [c \in Pml4 |-> NoTables]
  /\ tlb = NoEntries
  /\ cr3 = BootCtx
  /\ strong = [c \in Pml4 |-> IF c = BootCtx THEN 1 ELSE 0]
  /\ handles = [t \in Tasks |-> [c \in Pml4 |-> 0]]
  /\ taskCtx = [t \in Tasks |-> IF t = InitTask THEN BootCtx ELSE None]
  /\ current = InitTask
  /\ pc = "Switch"
  /\ job = NoJob
  /\ held = None
  /\ leaked = [p \in Page |-> 0]

-----------------------------------------------------------------------------
(* phys.rs.                                                                *)

\* alloc_new: the first region with a page left.
FirstOpen(i) ==
  /\ bump[i] < Regions[i].end
  /\ \A j \in DOMAIN Regions : j < i => bump[j] >= Regions[j].end

\* The page alloc returns, from the free list if it can, and what is left.
Exhausted == free = <<>> /\ \A i \in DOMAIN Regions : ~FirstOpen(i)

Allocated ==
  IF free # <<>> THEN Head(free) ELSE bump[CHOOSE i \in DOMAIN Regions : FirstOpen(i)]

\* Mutant: the head stays on the list.
BugHeadStays == free

FreeLeft == IF free # <<>> THEN Tail(free) ELSE <<>>

BumpLeft ==
  [i \in DOMAIN Regions |->
     IF free = <<>> /\ FirstOpen(i) THEN bump[i] + 1 ELSE bump[i]]

\* inc_ref and dec_ref on counts r; pages outside the regions have no count.
IncRef(r, p) == IF p \in Page THEN [r EXCEPT ![p] = @ + 1] ELSE r
DecRef(r, p) == IF p \in Page THEN [r EXCEPT ![p] = @ - 1] ELSE r

Alloc ==
  /\ ~Exhausted
  /\ free' = FreeLeft
  /\ bump' = BumpLeft
  /\ rc' = IncRef(rc, Allocated)

\* Dropping a Phys whose counts are r frees its page.
LastRef(r, p) == p \in Page /\ r[p] = 1

\* Drop for Phys, with counts r.
DropPhys(r, p) ==
  /\ rc' = DecRef(r, p)
  /\ free' = IF LastRef(r, p) THEN <<p>> \o free ELSE free
  /\ UNCHANGED bump

\* How often p is referred to by the tables of the page contexts in C.
UsesIn(C, p) ==
  Cardinality({cv \in C \X Virt :
                 entries[cv[1]][cv[2]] # None /\ entries[cv[1]][cv[2]].page = p})
    + Cardinality({cn \in C \X Table : tables[cn[1]][cn[2]] = p})

\* Drop for PageCtx, with counts r.  When the PML4 goes to the free list nobody
\* walks its tables: what they refer to is never released.
DropCtx(r, c) ==
  /\ DropPhys(r, c)
  /\ IF LastRef(r, c)
     THEN /\ leaked' = [p \in Page |-> leaked[p] + UsesIn({c}, p)]
          /\ entries' = [entries EXCEPT ![c] = NoEntries]
          /\ tables' = [tables EXCEPT ![c] = NoTables]
     ELSE UNCHANGED <<leaked, entries, tables>>

\* Mutant: cr3 is not loaded when the context stays the same.
BugLazySetCtx(c) ==
  /\ cr3' = c
  /\ tlb' = IF c = cr3 THEN tlb ELSE NoEntries
  /\ DropCtx(IncRef(rc, c), cr3)

\* page::set_ctx with a clone of the PageCtx c: the reference of the clone goes
\* to cr3, and that of the old cr3 is dropped.  Loading cr3 flushes the TLB.
SetCtx(c) ==
  /\ cr3' = c
  /\ tlb' = NoEntries
  /\ DropCtx(IncRef(rc, c), cr3)

-----------------------------------------------------------------------------
(* User mode, the processor and the scheduler.                             *)

\* The processor may cache a translation of the current tables at any time.
TlbFill ==
  /\ pc \notin {"Panic", "Exposed"}
  /\ \E v \in CachedVirt : /\ entries[cr3][v] # None
                           /\ tlb' = [tlb EXCEPT ![v] = entries[cr3][v]]
  /\ UNCHANGED <<physVars, entries, tables, cr3, leaked, objectVars, pc, job, held>>

\* A trap or the timer enters the kernel.
Trap ==
  /\ pc = "User"
  /\ pc' = "Switch"
  /\ UNCHANGED <<physVars, spaceVars, objectVars, job, held>>

\* task::switch has chosen task t and then returns to it or dispatches its call.
Switch ==
  /\ pc = "Switch"
  /\ \E t \in Tasks : /\ taskCtx[t] # None
                      /\ current' = t
                      /\ SetCtx(taskCtx[t])
  /\ pc' \in {"User", "Dispatch"}
  /\ UNCHANGED <<strong, handles, taskCtx, job, held>>

Return ==
  /\ pc' = "Switch"
  /\ job' = NoJob
  /\ held' = None

Panics ==
  /\ pc' = "Panic"
  /\ UNCHANGED <<job, held>>

Halted ==
  /\ pc \in {"Panic", "Exposed"}
  /\ UNCHANGED vars

-----------------------------------------------------------------------------
(* alloc_page, map_physical_memory, release_page and modify_page.          *)

Mapped(v) == entries[cr3][v] # None

\* validate_map for the calls that change mappings, validate_available for those
\* that make them.
Valid(call, v) == Mapped(v) <=> call \in {"release", "modify"}

\* PmlEntry::flags panics on the entry of v.
OddEntry(v) == Mapped(v) /\ entries[cr3][v].flags = Odd

\* The flags the entries of a call get.  map_physical_memory adds the low bits of
\* the physical address it is given, whatever they are.
AskedFlags(call) == IF call = "map_physical" THEN Flags \cup {Odd} ELSE Flags

\* Mutant: only the first page of the range is validated.
BugValidateFirst(call) ==
  /\ pc = "Dispatch"
  /\ \E r \in Ranges, f \in AskedFlags(call) :
       IF \A i \in DOMAIN r : i = 1 => Valid(call, r[i])
       THEN /\ pc' = "Loop"
            /\ job' = [call |-> call, flags |-> f, todo |-> r]
            /\ UNCHANGED held
       ELSE Return
  /\ UNCHANGED <<physVars, spaceVars, objectVars>>

\* The range is valid and the call starts its loop, or it returns an error; validate_map
\* looks at the flags of one page after the other.
Start(call) ==
  /\ pc = "Dispatch"
  /\ \E r \in Ranges, f \in AskedFlags(call) :
       \/ /\ \A i \in DOMAIN r : Valid(call, r[i]) /\ ~OddEntry(r[i])
          /\ pc' = "Loop"
          /\ job' = [call |-> call, flags |-> f, todo |-> r]
          /\ UNCHANGED held
       \/ /\ \E i \in DOMAIN r : /\ ~Valid(call, r[i])
                                 /\ \A j \in DOMAIN r : j < i => ~OddEntry(r[j])
          /\ Return
       \/ /\ call \in {"release", "modify"}
          /\ \E i \in DOMAIN r : /\ OddEntry(r[i])
                                 /\ \A j \in DOMAIN r : j < i => Valid(call, r[j])
          /\ Panics
  /\ UNCHANGED <<physVars, spaceVars, objectVars>>

AllocPage == Start("alloc")
MapPhysicalMemory == Start("map_physical")
ReleasePage == Start("release")
ModifyPage == Start("modify")

LoopEnds ==
  /\ pc = "Loop"
  /\ job.todo = <<>>
  /\ Return
  /\ UNCHANGED <<physVars, spaceVars, objectVars>>

Looping(call) == pc = "Loop" /\ job.call = call /\ job.todo # <<>>

\* alloc_page: phys::alloc for the next page, or MemoryExhausted; the pages
\* mapped so far stay mapped.
LoopAlloc ==
  /\ Looping("alloc")
  /\ \/ /\ Alloc
        /\ held' = Allocated
        /\ pc' = "Map"
        /\ UNCHANGED job
     \/ /\ Exhausted
        /\ Return
        /\ UNCHANGED physVars
  /\ UNCHANGED <<spaceVars, objectVars>>

\* How often alloc may still hand out p: from the free list or as a fresh page.
Offered(p) ==
  Cardinality({i \in DOMAIN free : free[i] = p})
    + Cardinality({i \in DOMAIN Regions : p \in bump[i] .. (Regions[i].end - 1)})

\* A page is the PML4 of a context that an object or cr3 keeps alive.
IsPml4(p) == strong[p] > 0 \/ cr3 = p

\* The kernel itself uses page p: to link the free list, or as a table.
KernelUses(p) ==
  Offered(p) > 0 \/ IsPml4(p) \/ \E c \in Pml4, n \in Table : tables[c][n] = p

\* map_physical_memory: Phys::new for the next page, a page of a device or any page
\* that programs have mapped; there is no check.
LoopPhysical ==
  /\ Looping("map_physical")
  /\ \E p \in Page \cup Hardware : /\ p \in Page => ~KernelUses(p)
                                   /\ held' = p
                                   /\ rc' = IncRef(rc, p)
  /\ pc' = "Map"
  /\ UNCHANGED <<free, bump, spaceVars, objectVars, job>>

\* Or one of the kernel's own: the program can change what the kernel keeps there
\* ("all bets are off anyway"), and nothing is followed further.
LoopExposes ==
  /\ Looping("map_physical")
  /\ \E p \in Pml4 : KernelUses(p)
  /\ pc' = "Exposed"
  /\ UNCHANGED <<physVars, spaceVars, objectVars, job, held>>

\* The first table on the path to v that does not exist.
MissingTable(v, i) ==
  /\ tables[cr3][Path[v][i]] = None
  /\ \A j \in DOMAIN Path[v] : j < i => tables[cr3][Path[v][j]] # None

\* page::map allocates a missing page table.
MapTable ==
  /\ pc = "Map"
  /\ Alloc
  /\ \E i \in DOMAIN Path[Head(job.todo)] :
       /\ MissingTable(Head(job.todo), i)
       /\ tables' = [tables EXCEPT ![cr3][Path[Head(job.todo)][i]] = Allocated]
  /\ UNCHANGED <<entries, tlb, cr3, leaked, objectVars, pc, job, held>>

\* Mutant: the Phys is forgotten.
BugForgetPhys ==
  /\ pc = "Map"
  /\ \E i \in DOMAIN Path[Head(job.todo)] : MissingTable(Head(job.todo), i)
  /\ Exhausted
  /\ IF job.call = "alloc"
     THEN Return
     ELSE pc' = "Panic" /\ held' = None /\ UNCHANGED job
  /\ UNCHANGED <<physVars, spaceVars, objectVars>>

\* It cannot: the Phys is dropped, and alloc_page returns MemoryExhausted while
\* map_physical_memory panics.
MapTableFails ==
  /\ pc = "Map"
  /\ \E i \in DOMAIN Path[Head(job.todo)] : MissingTable(Head(job.todo), i)
  /\ Exhausted
  /\ DropPhys(rc, held)
  /\ IF job.call = "alloc"
     THEN Return
     ELSE pc' = "Panic" /\ held' = None /\ UNCHANGED job
  /\ UNCHANGED <<spaceVars, objectVars>>

\* page::map writes the entry, or finds one and the caller panics.
MapEntry ==
  /\ pc = "Map"
  /\ LET v == Head(job.todo) IN
     /\ \A i \in DOMAIN Path[v] : tables[cr3][Path[v][i]] # None
     /\ IF Mapped(v)
        THEN /\ Panics
             /\ UNCHANGED <<entries, tlb>>
        ELSE /\ entries' = [entries EXCEPT ![cr3][v] =
                              [page |-> held, flags |-> job.flags, by |-> job.call]]
             /\ tlb' = [tlb EXCEPT ![v] = None]
             /\ held' = None
             /\ job' = [job EXCEPT !.todo = Tail(@)]
             /\ pc' = "Loop"
  /\ UNCHANGED <<physVars, tables, cr3, leaked, objectVars>>

\* page::unmap.  An entry for physical page 0 looks unmapped to raw_phys, and
\* release_page panics.
LoopRelease ==
  /\ Looping("release")
  /\ LET v == Head(job.todo) IN
     IF entries[cr3][v].page = 0
     THEN /\ Panics
          /\ UNCHANGED <<physVars, entries, tlb>>
     ELSE /\ DropPhys(rc, entries[cr3][v].page)
          /\ entries' = [entries EXCEPT ![cr3][v] = None]
          /\ tlb' = [tlb EXCEPT ![v] = None]
          /\ job' = [job EXCEPT !.todo = Tail(@)]
          /\ UNCHANGED <<pc, held>>
  /\ UNCHANGED <<tables, cr3, leaked, objectVars>>

\* page::modify: only the flags change, and there is no invlpg.
LoopModify ==
  /\ Looping("modify")
  /\ entries' = [entries EXCEPT ![cr3][Head(job.todo)].flags = job.flags]
  /\ job' = [job EXCEPT !.todo = Tail(@)]
  /\ UNCHANGED <<physVars, tables, tlb, cr3, leaked, objectVars, pc, held>>

-----------------------------------------------------------------------------
(* The calls on page context objects.                                      *)

\* create_page_context: PageCtx::new, Object::new and object::put.
CreatePageContext ==
  /\ pc = "Dispatch"
  /\ Alloc
  /\ strong' = [strong EXCEPT ![Allocated] = 1]
  /\ handles' = [handles EXCEPT ![current][Allocated] = 1]
  /\ Return
  /\ UNCHANGED <<spaceVars, taskCtx, current>>

\* Object::new or object::put finds the heap exhausted, and the new PageCtx is
\* dropped again.
CreatePageContextFails ==
  /\ pc = "Dispatch"
  /\ ~Exhausted
  /\ free' = <<Allocated>> \o FreeLeft
  /\ bump' = BumpLeft
  /\ Return
  /\ UNCHANGED <<rc, spaceVars, objectVars>>

\* clone_handle, and get_page_context for the task's own page context.
CloneHandle ==
  /\ pc = "Dispatch"
  /\ \E c \in Pml4 :
       /\ handles[current][c] > 0 \/ c = taskCtx[current]
       /\ strong[c] < MaxRefs
       /\ strong' = [strong EXCEPT ![c] = @ + 1]
       /\ handles' = [handles EXCEPT ![current][c] = @ + 1]
  /\ Return
  /\ UNCHANGED <<physVars, spaceVars, taskCtx, current>>

\* release_handle: the last reference drops the object and its PageCtx.
ReleaseHandle ==
  /\ pc = "Dispatch"
  /\ \E c \in Pml4 :
       /\ handles[current][c] > 0
       /\ handles' = [handles EXCEPT ![current][c] = @ - 1]
       /\ strong' = [strong EXCEPT ![c] = @ - 1]
       /\ IF strong[c] = 1 THEN DropCtx(rc, c)
                           ELSE UNCHANGED <<physVars, entries, tables, leaked>>
  /\ Return
  /\ UNCHANGED <<tlb, cr3, taskCtx, current>>

\* set_page_context changes cr3, until the next switch.
SetPageContext ==
  /\ pc = "Dispatch"
  /\ \E c \in Pml4 : handles[current][c] > 0 /\ SetCtx(c)
  /\ Return
  /\ UNCHANGED objectVars

\* create_task: the new task keeps a reference to the object.
CreateTask ==
  /\ pc = "Dispatch"
  /\ \E c \in Pml4, t \in Tasks :
       /\ handles[current][c] > 0
       /\ strong[c] < MaxRefs
       /\ taskCtx[t] = None
       /\ taskCtx' = [taskCtx EXCEPT ![t] = c]
       /\ strong' = [strong EXCEPT ![c] = @ + 1]
  /\ Return
  /\ UNCHANGED <<physVars, spaceVars, handles, current>>

\* Any call that fails without having changed memory, or that does not use it; one
\* that borrows memory of the program panics at odd flags.
OtherCall ==
  /\ pc = "Dispatch"
  /\ Return \/ ((\E v \in Virt : OddEntry(v)) /\ Panics)
  /\ UNCHANGED <<physVars, spaceVars, objectVars>>

-----------------------------------------------------------------------------
Next ==
  \/ TlbFill
  \/ Trap
  \/ Switch
  \/ AllocPage
  \/ MapPhysicalMemory
  \/ ReleasePage
  \/ ModifyPage
  \/ LoopEnds
  \/ LoopAlloc
  \/ LoopPhysical
  \/ LoopExposes
  \/ LoopRelease
  \/ LoopModify
  \/ MapTable
  \/ MapTableFails
  \/ MapEntry
  \/ CreatePageContext
  \/ CreatePageContextFails
  \/ CloneHandle
  \/ ReleaseHandle
  \/ SetPageContext
  \/ CreateTask
  \/ OtherCall
  \/ Halted

Spec == Init /\ [][Next]_vars

-----------------------------------------------------------------------------
(* Properties.                                                             *)

One(b) == IF b THEN 1 ELSE 0

\* The reference count of a page is the number of Phys values for it: entries,
\* tables, objects, cr3, the local variable of the running call, and those that
\* were lost with the tables of a freed PML4.  No sequence of calls, failing
\* half way or not, drops a reference twice or forgets to take one.
RefCountExact ==
  \A p \in Page :
    rc[p] = UsesIn(Pml4, p) + One(strong[p] > 0) + One(cr3 = p) + One(held = p) + leaked[p]

\* The entries for p that the call of that name made.
EntriesBy(call, p) ==
  {cv \in Pml4 \X Virt : /\ entries[cv[1]][cv[2]] # None
                         /\ entries[cv[1]][cv[2]].page = p
                         /\ entries[cv[1]][cv[2]].by = call}

\* Every page has at most one role: mapped once by alloc_page, one table of one
\* context, a PML4, in the hand of alloc_page, or offered once by the allocator, so
\* that address spaces are disjoint and what is free is unused, although calls fail
\* between any two pages or levels of tables.  The exception is what
\* map_physical_memory maps: any number of further entries for a page, which then
\* is neither a table nor free until the last of them is gone.  (A program that maps
\* a page of the kernel itself ends all of this: LoopExposes.)
PagesAreSeparate ==
  \A p \in Page :
    LET tabled == Cardinality({cn \in Pml4 \X Table : tables[cn[1]][cn[2]] = p})
        handed == held = p /\ job.call = "alloc"
    IN  /\ Cardinality(EntriesBy("alloc", p)) + tabled + One(IsPml4(p)) + One(handed) + Offered(p) <= 1
        /\ EntriesBy("map_physical", p) # {} => tabled + One(IsPml4(p)) + Offered(p) = 0

\* User code never runs on a stale translation, although modify_page does not
\* invalidate: the switch that precedes user mode always loads cr3.
TlbCoherent ==
  pc = "User" => \A v \in Virt : tlb[v] # None => tlb[v] = entries[cr3][v]

\* What validate_available and validate_map have established still holds when
\* the loop reaches the page: "AlreadyMapped error should never happen" in
\* alloc_page, and checked_pml1_entry finds the entry in release and modify.
ValidationHolds ==
  pc \in {"Loop", "Map"} =>
    \A i \in DOMAIN job.todo : Valid(job.call, job.todo[i])
=============================================================================
