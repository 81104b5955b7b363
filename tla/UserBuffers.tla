---------------------------- MODULE UserBuffers ----------------------------
(***************************************************************************)
(* What programs hand to the kernel: kernel/src/mem/user.rs and the calls  *)
(* of kernel/src/syscall.rs that use it, on the address space that Boot    *)
(* has set up.  The arithmetic is that of the code: a word is WordPages    *)
(* pages long, checked_mul and checked_add fail beyond it, and a plain     *)
(* addition panics in a debug build and wraps around in a release build.   *)
(* Page contexts are made by programs and tasks are made in them; the      *)
(* kernel's heap grows in whichever context is loaded.                     *)
(***************************************************************************)
EXTENDS Boot

CONSTANTS
  Tasks,
  FirstTask,
  PAGE_SIZE,
  Builds,               \* "debug", "release"
  Addrs, Lens,          \* numbers that programs pass: to every check of a range
  CallAddrs, CallLens   \* and to the calls

ASSUME BuffersAssumption ==
  /\ PAGE_SIZE \in Nat \ {0}
  /\ Addrs \subseteq Nat /\ Lens \subseteq Nat /\ CallAddrs \subseteq Nat /\ CallLens \subseteq Nat

VARIABLES
  ctx,          \* page_ctx of every task, 0 before it is made
  contexts,     \* the PML4s of all page contexts
  job           \* the buffer a task has borrowed while its call waits: [pages, flags]

vars == <<bootVars, ctx, contexts, job>>

NoJob == [pages |-> {}, flags |-> {}]

Init ==
  /\ BootInit
  /\ ctx = [t \in Tasks |-> IF t = FirstTask THEN BootPml4 ELSE 0]
  /\ contexts = {BootPml4}
  /\ job = [t \in Tasks |-> NoJob]

-----------------------------------------------------------------------------
(* user.rs: a range is [err, base, count].                                 *)

Word == WordPages * PAGE_SIZE
MAX_USER_ADDR == MAX_USER_PAGE * PAGE_SIZE

Err(e) == [err |-> e, base |-> 0, count |-> 0]

\* Mutant: the end of the range is not looked at.
BugBaseOnly(base, n, build) ==
  IF n * PAGE_SIZE >= Word THEN Err("MemoryExhausted")
  ELSE IF base % PAGE_SIZE # 0 \/ base > MAX_USER_ADDR THEN Err("BadPointer")
  ELSE [err |-> "", base |-> base \div PAGE_SIZE, count |-> n]

PageRange(base, n, build) ==
  LET sum == base + n * PAGE_SIZE
  IN  IF n * PAGE_SIZE >= Word THEN Err("MemoryExhausted")
      ELSE IF base % PAGE_SIZE # 0 \/ base > MAX_USER_ADDR THEN Err("BadPointer")
      ELSE IF sum >= Word /\ build = "debug" THEN Err("panic")
      ELSE IF sum % Word > MAX_USER_ADDR THEN Err("BadPointer")
      ELSE [err |-> "", base |-> base \div PAGE_SIZE, count |-> n]

containing(start, len, build) ==
  LET offset == start % PAGE_SIZE
      extended == len + offset
      padded == extended + (IF extended % PAGE_SIZE = 0 THEN 0
                            ELSE PAGE_SIZE - (extended % PAGE_SIZE))
  IN  IF padded >= Word THEN Err("MemoryExhausted")
      ELSE PageRange(start - offset, padded \div PAGE_SIZE, build)

pages(r) == {(r.base + i) % WordPages : i \in 0 .. r.count - 1}

validate_map(s, r, flags) ==
  \A p \in pages(r) : is_mapped(s, p) /\ flags \subseteq Pml1Entry(s, p).flags

validate_available(s, r) == \A p \in pages(r) : ~is_mapped(s, p)

-----------------------------------------------------------------------------
(* The calls.                                                              *)

\* Mutant: the context of the task is not loaded.
BugStaysInCtx(t) == mem

\* task::switch loads the context of the task it polls.
On(t) == set_ctx(mem, ctx[t])

Ready(t) == Pc("run") /\ ctx[t] # 0 /\ job[t] = NoJob

\* The loops over the pages of a range, up to the first error.
AllocPages(s, r, flags) ==
  LET after[i \in 0 .. r.count] ==
        LET prev == after[i - 1]
            a == alloc(prev.s)
        IN  IF i = 0 THEN [s |-> s, err |-> ""]
            ELSE IF prev.err # "" THEN prev
            ELSE IF a.page = 0 THEN [s |-> a.s, err |-> "MemoryExhausted"]
            ELSE map(a.s, a.page, (r.base + i - 1) % WordPages, flags)
  IN  after[r.count]

SetEntry(s, virt, e) == [s EXCEPT !.tab[Pml4Entry(s, virt).phys][Index(virt)] = e]

ReleasePages(s, r) ==
  LET after[i \in 0 .. r.count] ==
        LET prev == after[i - 1]
            virt == (r.base + i - 1) % WordPages
        IN  IF i = 0 THEN s
            ELSE SetEntry(Drop(prev, Pml1Entry(prev, virt).phys), virt, NoEntry)
  IN  after[r.count]

ModifyPages(s, r, flags) ==
  LET after[i \in 0 .. r.count] ==
        LET prev == after[i - 1]
            virt == (r.base + i - 1) % WordPages
        IN  IF i = 0 THEN s
            ELSE SetEntry(prev, virt, Entry(Pml1Entry(prev, virt).phys, flags))
  IN  after[r.count]

\* A call on the range r: it panics, it is refused, or it has the effect.
Call(t, r, valid, effect) ==
  /\ IF r.err = "panic" THEN Goto("panic") /\ UNCHANGED mem
     ELSE mem' = (IF r.err = "" /\ valid THEN effect ELSE On(t)) /\ UNCHANGED at
  /\ UNCHANGED <<memoryMap, regions, ptr, ctx, contexts, job>>

UserFlags(w) == IF w THEN {"P", "U", "W"} ELSE {"P", "U"}

\* The range of a call: its address and number of pages from the program.
alloc_page(t) ==
  /\ Ready(t)
  /\ \E a \in CallAddrs, n \in CallLens, b \in Builds, w \in BOOLEAN :
       LET r == PageRange(a, n, b)
       IN  Call(t, r, validate_available(On(t), r), AllocPages(On(t), r, UserFlags(w)).s)

release_page(t) ==
  /\ Ready(t)
  /\ \E a \in CallAddrs, n \in CallLens, b \in Builds :
       LET r == PageRange(a, n, b)
       IN  Call(t, r, validate_map(On(t), r, {}), ReleasePages(On(t), r))

modify_page(t) ==
  /\ Ready(t)
  /\ \E a \in CallAddrs, n \in CallLens, b \in Builds, w \in BOOLEAN :
       LET r == PageRange(a, n, b)
       IN  Call(t, r, validate_map(On(t), r, {}), ModifyPages(On(t), r, UserFlags(w)))

\* borrow_slice and borrow_slice_mut, in calls that wait before they use the buffer:
\* open_file for the disk, read_stream for a key or the disk.
Borrow(t, flags) ==
  /\ Ready(t)
  /\ \E a \in CallAddrs, n \in CallLens, b \in Builds :
       LET r == containing(a, n, b)
       IN  /\ IF r.err = "panic" THEN Goto("panic") /\ UNCHANGED mem
              ELSE mem' = On(t) /\ UNCHANGED at
           /\ job' = IF r.err = "" /\ validate_map(On(t), r, flags) /\ n > 0
                     THEN [job EXCEPT ![t] = [pages |-> pages(r), flags |-> flags]] ELSE job
  /\ UNCHANGED <<memoryMap, regions, ptr, ctx, contexts>>

read_stream(t) == Borrow(t, {"W"})
open_file(t) == Borrow(t, {})

\* The call goes on after its await and uses the buffer: the kernel faults on a page
\* that is not there any more.
Finish(t) ==
  /\ Pc("run") /\ job[t] # NoJob
  /\ mem' = On(t)
  /\ job' = [job EXCEPT ![t] = NoJob]
  /\ \E p \in job[t].pages : IF is_mapped(mem', p) THEN UNCHANGED at ELSE Goto("panic")
  /\ UNCHANGED <<memoryMap, regions, ptr, ctx, contexts>>

\* create_page_context.
create_page_context(t) ==
  /\ Ready(t)
  /\ LET a == alloc(On(t))
     IN  /\ a.page # 0
         /\ mem' = [a.s EXCEPT !.tab[a.page] = NewPml4(a.s, a.page)]
         /\ contexts' = contexts \cup {a.page}
  /\ UNCHANGED <<memoryMap, at, regions, ptr, ctx, job>>

create_task(t) ==
  /\ Ready(t)
  /\ \E u \in Tasks, c \in contexts : ctx[u] = 0 /\ ctx' = [ctx EXCEPT ![u] = c]
  /\ mem' = On(t)
  /\ UNCHANGED <<memoryMap, at, regions, ptr, contexts, job>>

\* The heap takes a page from kvirt in the middle of some call.
HeapGrows(t) ==
  /\ Ready(t)
  /\ kvirt_alloc(On(t))
  /\ UNCHANGED <<memoryMap, regions, ctx, contexts, job>>

Halted ==
  /\ Pc("panic")
  /\ UNCHANGED vars

Next ==
  \/ BootNext /\ UNCHANGED <<ctx, contexts, job>>
  \/ \E t \in Tasks :
       \/ alloc_page(t) \/ release_page(t) \/ modify_page(t)
       \/ read_stream(t) \/ open_file(t) \/ Finish(t)
       \/ create_page_context(t) \/ create_task(t) \/ HeapGrows(t)
  \/ Halted

Spec == Init /\ [][Next]_vars

-----------------------------------------------------------------------------
(* Properties.                                                             *)

\* A call acts on exactly the pages that were asked for, all of them in the user half,
\* whatever the numbers: a range that is accepted and validated has not wrapped around
\* the end of the address space, and no range of the user half is refused.  Only the
\* overflow of a debug build panics, and an empty buffer inside a page counts as that
\* page.  That a range that has wrapped fails the validation is due to what Boot maps
\* in the kernel half, and what it does not.
RangesExact ==
  Pc("run") =>
    \A a \in Addrs, n \in Lens, b \in Builds :
      LET r == PageRange(a, n, b)
          c == containing(a, n, b)
          asked == {p \in 0 .. WordPages - 1 : p * PAGE_SIZE < a + n /\ a < (p + 1) * PAGE_SIZE}
      IN  /\ r.err = "" /\ (validate_map(mem, r, {}) \/ validate_available(mem, r)) =>
               /\ a % PAGE_SIZE = 0 /\ a + n * PAGE_SIZE <= MAX_USER_ADDR
               /\ pages(r) = {p \in 0 .. WordPages - 1 : p * PAGE_SIZE >= a
                                                         /\ p * PAGE_SIZE < a + n * PAGE_SIZE}
          /\ a % PAGE_SIZE = 0 /\ a + n * PAGE_SIZE <= MAX_USER_ADDR => r.err = ""
          /\ c.err = "" /\ validate_map(mem, c, {}) =>
               pages(c) = asked /\ a + n <= MAX_USER_ADDR
          /\ a + n <= MAX_USER_ADDR => c.err = ""
          /\ "panic" \in {r.err, c.err} => b = "debug" /\ a + (n + 1) * PAGE_SIZE >= Word

\* Every page context has the kernel half of the first one, with no entry of it empty:
\* what the kernel maps in one context, while it serves one task, is mapped in all.
KernelHalfShared ==
  Pc("run") =>
    \A c \in contexts, i \in KernelSlots :
      mem.tab[c][i] = mem.tab[BootPml4][i] /\ mem.tab[c][i] # NoEntry

\* While a call waits the buffer it has borrowed stays mapped as it was validated,
\* provided that no other task has the same page context: the critical section that
\* the call holds meanwhile keeps nobody from running.
BorrowHolds ==
  \A t \in Tasks :
    (\A u \in Tasks \ {t} : ctx[u] # ctx[t]) =>
      \A p \in job[t].pages :
        LET own == [mem EXCEPT !.cr3 = ctx[t]]
        IN  is_mapped(own, p) /\ job[t].flags \subseteq Pml1Entry(own, p).flags
=============================================================================
