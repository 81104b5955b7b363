---------------------------- MODULE KernelLocks ----------------------------
(***************************************************************************)
(* Critical sections and the mutex of CrabOS (kernel/src/critical.rs,      *)
(* kernel/src/sync/mutex.rs) on one processor with interrupts: which       *)
(* mutexes the paths through the kernel lock and in which order their      *)
(* guards go, with the timer and the keyboard coming in wherever the       *)
(* interrupt flag and the controller let them (kernel/src/interrupt.rs     *)
(* enables interrupts first of all).                                       *)
(*                                                                         *)
(* A path is a sequence of steps on the flag and the mutexes; what it does *)
(* besides is in the other modules.  A guard saves the flag when it is     *)
(* made and gives it back when it is dropped, so that a path has a stack   *)
(* of saved flags.  Where the code branches, a path is any of several.     *)
(***************************************************************************)
EXTENDS Console

CONSTANTS
  KbdCap,       \* capacity of the keyboard buffer
  Buffers,      \* what programs write to the console
  Message,      \* a line that println prints
  MaxTraps      \* bound: traps on the kernel stack

ASSUME TextAssumption == Message \in Seq(Bytes) /\ Buffers \subseteq Seq(Bytes)

VARIABLES
  stack,        \* the traps on it, the innermost first: [irq, code, saved]
  flag,         \* the interrupt flag
  locked,       \* the mutexes with locked = true
  irr,          \* interrupts the controller has been asked for
  isr,          \* interrupts it has delivered and not been acknowledged for
  keys,         \* number of scancodes in BUFF
  panicked      \* "recursive mutex lock!": the panic handler halts, interrupts off

vars == <<consoleVars, stack, flag, locked, irr, isr, keys, panicked>>

-----------------------------------------------------------------------------
(* The steps of a path.                                                    *)

Step(op, arg) == [op |-> op, arg |-> arg]

\* critical::begin reads the flag, then clears it; the drop sets it again if it
\* was set.
begin == <<Step("save", ""), Step("cli", "")>>
end == <<Step("restore", "")>>
section(body) == begin \o body \o end

\* Mutex::lock begins a critical section and takes the mutex or panics.
lock(m) == begin \o <<Step("take", m)>>

\* Mutant: the critical section ends before the mutex is free.
BugDropOrder(m) == end \o <<Step("clear", m)>>

\* The Drop of a MutexGuard, then that of the Critical it has as a field.
drop(m) == <<Step("clear", m)>> \o end

With(m, body) == lock(m) \o body \o drop(m)

println == With("CONSOLE", <<Step("print", "")>>)

-----------------------------------------------------------------------------
(* What the paths lock.                                                    *)

\* page::temp_map in a critical section: it panics if the page is in use.
temp_map == section(<<Step("take", "temp_page"), Step("clear", "temp_page")>>)

\* phys::alloc from the free list, fresh, or of no page; and Drop for Phys.
alloc_freelist == With("NEXT_FREE_PHYS", temp_map)
alloc_new == With("NEXT_FREE_PHYS", <<>>) \o With("PHYS_BUMP_ALLOC", temp_map)
exhausted == With("NEXT_FREE_PHYS", <<>>) \o With("PHYS_BUMP_ALLOC", <<>>)
drop_phys == With("NEXT_FREE_PHYS", temp_map)

\* page::map, with one page table to allocate; without memory it drops its page.
page_map == section(alloc_new)
map_fails == section(exhausted \o drop_phys)

\* kvirt::alloc_page, and the ways in which it fails.
new_page == With("kvirt ALLOCATOR", <<>>) \o alloc_freelist \o With("kvirt ALLOCATOR", <<>>)
alloc_page == new_page \o page_map
alloc_page_fails == {With("kvirt ALLOCATOR", <<>>) \o exhausted, new_page \o map_fails}

\* The heap calls it with its own lock held, when the size class has no free block.
dealloc == With("ALLOCATOR", <<>>)
heap_alloc == {With("ALLOCATOR", <<>>), With("ALLOCATOR", alloc_page)}
heap_fails == {With("ALLOCATOR", x) : x \in alloc_page_fails}

\* kalloc::alloc, of Arc::new, when it fails: its guard is a temporary, so that the
\* value is dropped with the lock held.
kalloc_fails(value) == {With("ALLOCATOR", x \o value) : x \in alloc_page_fails}

\* task::current, and what asks for it with TASKS locked.
current == With("CURRENT_TASK", <<>>)
get_page_ctx == With("TASKS", current)

\* spawn: a box and three maps, whose inserts allocate.  TASK_FUTURES is locked before
\* the Arc for it is made.
spawn == {h \o With("TASK_STATES", h) \o With("TASK_FUTURES", h \o h) \o With("TASKS", h) : h \in heap_alloc}

\* spawn rolls back: what it removes is dropped with the map locked.
roll_back(future) == With("TASKS", <<>>) \o With("TASK_FUTURES", future) \o With("TASK_STATES", dealloc)

\* The box, then each insert fails: the future is dropped, its Arc with it once it has
\* one.  If the Arc fails, the box is freed with ALLOCATOR locked.
spawn_fails ==
  heap_fails
    \cup {dealloc \o With("TASK_STATES", x) \o dealloc \o roll_back(<<>>) : x \in heap_fails}
    \cup {dealloc \o With("TASK_STATES", dealloc) \o With("TASK_FUTURES", x) : x \in kalloc_fails(dealloc)}
    \cup {dealloc \o With("TASK_STATES", dealloc)
            \o With("TASK_FUTURES", dealloc \o x \o dealloc \o dealloc) \o roll_back(<<>>) : x \in heap_fails}
    \cup {dealloc \o With("TASK_STATES", dealloc) \o With("TASK_FUTURES", dealloc \o dealloc)
            \o With("TASKS", x) \o roll_back(dealloc \o dealloc) : x \in heap_fails}

\* object::get, object::put, and a put without memory, which drops the reference.
get == current \o With("TASK_HANDLES", <<>>)
put == {current \o With("TASK_HANDLES", h) : h \in heap_alloc}
put_fails(object) == {current \o With("TASK_HANDLES", x \o object) : x \in heap_fails}

\* Object::new of a page context: when it fails, and when put drops the last reference
\* to it, the page of the context is freed.
create_page_context ==
  LET ctx == alloc_freelist \o temp_map
  IN  {exhausted} \cup {ctx \o x : x \in kalloc_fails(drop_phys)}
        \cup {ctx \o dealloc \o p : p \in put \cup put_fails(drop_phys \o dealloc)}

\* Calls on pages: all of the work is in a critical section.
page_calls ==
  {println \o section(w) : w \in {alloc_freelist \o page_map, alloc_freelist \o map_fails, exhausted,
                                  page_map, println \o drop_phys}}

\* read_sectors, with the channel locked until the drive has answered.
disk(drive) == With("io", <<Step("wait", drive)>>)

\* Filesystem::open: sectors, a DirEntry for each entry, and most are dropped again.
\* The file has the last reference to its own: if ObjectRef::new fails, the DirEntry
\* is freed with ALLOCATOR locked.
open_file ==
  LET entry == get_page_ctx \o disk("drive")
      opened == entry \o dealloc \o println \o dealloc
  IN  {println \o section(w) : w \in {entry \o x : x \in heap_fails}
                                 \cup {opened \o x : x \in kalloc_fails(dealloc)}
                                 \cup {opened \o dealloc \o p : p \in put \cup put_fails(<<>>)}}

\* File::read of a file: the lock of its seek pushes a waker; the drop of that guard
\* frees it and wakes the task.
read_file ==
  {get \o section(w) : w \in heap_fails \cup {h \o disk("drive") \o dealloc \o With("TASK_STATES", <<>>)
                                                : h \in heap_alloc}}

\* File::read and write of the console.  A read that has to wait leaves its Critical in
\* the future; the flag was clear before it, so that to end it changes nothing.
read_console == get \o section(With("BUFF", <<Step("pop", "")>>))
write_console(buf) == get \o section(With("CONSOLE", <<Step("write", buf), Step("writing", "")>>))

\* dispatch0: the system calls.
Calls ==
  page_calls \cup open_file \cup read_file \cup {read_console} \cup {write_console(b) : b \in Buffers}
    \cup create_page_context
    \cup {get \o p : p \in put \cup put_fails(<<>>)}                \* clone_handle
    \cup {current \o With("TASK_HANDLES", dealloc) \o drop_phys \o dealloc}   \* release_handle
    \cup {get \o drop_phys}                                         \* set_page_context
    \cup {get_page_ctx \o p : p \in put \cup put_fails(<<>>)}       \* get_page_context
    \cup {get \o get_page_ctx \o s : s \in spawn \cup spawn_fails}  \* create_task

\* A poll of a task: TaskResume::poll, and if there is a call, run after it.
resume == With("TASK_STATES", <<>>)
Polls == {resume, resume \o <<Step("call", "")>> \o resume \o resume}

\* task::switch: save_current_task, then work items until one is user code.
save_current_task == current \o With("TASK_STATES", <<>>)
switch == save_current_task \o <<Step("loop", "")>>

found(work) == With("TASKS", With("TASK_STATES", work))
set_ctx == current \o With("TASKS", <<>>) \o drop_phys

\* The mutex around the future is locked during the poll.
kernel_item(poll) == found(With("TASK_FUTURES", <<>>)) \o set_ctx \o With("future", poll)
user_item == found(<<>>) \o set_ctx
WorkItems == {user_item, kernel_item(<<Step("poll", "")>>) \o <<Step("loop", "")>>}

\* task::start: the poll of the first task detects the drive and loads init from it.
start(drive) ==
  current \o kernel_item(println \o disk(drive) \o get_page_ctx \o alloc_new \o page_map
                           \o With("TASK_HANDLES", dealloc) \o resume) \o user_item

\* Mutant: the controller is acknowledged before the handler has run.
BugEarlyEoi == <<Step("sti", ""), Step("eoi", "")>> \o With("BUFF", <<Step("push", "")>>)

\* interrupt: the keyboard, the timer from user mode and from the kernel, a call.
keyboard_interrupt == <<Step("sti", "")>> \o With("BUFF", <<Step("push", "")>>) \o <<Step("eoi", "")>>
pit_user == <<Step("sti", "")>> \o switch \o <<Step("eoi", "")>>
pit_kernel == <<Step("sti", ""), Step("eoi", "")>>
dispatch_syscall == <<Step("sti", "")>> \o current \o With("TASK_STATES", <<>>) \o switch

-----------------------------------------------------------------------------
(* The processor.                                                          *)

\* main has called start, with interrupts off; there may be no drive.
Init ==
  /\ ConsoleInit
  /\ \E drive \in {"drive", "no drive"} :
       stack = <<[irq |-> 2, code |-> start(drive), saved |-> <<>>]>>
  /\ flag = FALSE
  /\ locked = {}
  /\ irr = {} /\ isr = {}
  /\ keys = 0
  /\ panicked = FALSE

\* The processor clears the flag at a trap; irq 2 stands for a system call, and for start.
Enter(irq, code) ==
  /\ Len(stack) < MaxTraps
  /\ stack' = <<[irq |-> irq, code |-> code, saved |-> <<>>]>> \o stack
  /\ flag' = FALSE

At(op) == ~panicked /\ stack # <<>> /\ stack[1].code # <<>> /\ stack[1].code[1].op = op
Arg == stack[1].code[1].arg

\* The path goes on with the steps code, and the flags saved so far are saved.
Go(code, saved) == stack' = [stack EXCEPT ![1].code = code, ![1].saved = saved]
After == Tail(stack[1].code)

SaveFlag ==
  /\ At("save")
  /\ Go(After, <<flag>> \o stack[1].saved)
  /\ UNCHANGED <<consoleVars, flag, locked, irr, isr, keys, panicked>>

SetFlag ==
  /\ \/ /\ At("cli")
        /\ flag' = FALSE
        /\ Go(After, stack[1].saved)
     \/ /\ At("sti")
        /\ flag' = TRUE
        /\ Go(After, stack[1].saved)
     \/ /\ At("restore")
        /\ flag' = (flag \/ stack[1].saved[1])
        /\ Go(After, Tail(stack[1].saved))
  /\ UNCHANGED <<consoleVars, locked, irr, isr, keys, panicked>>

Take ==
  /\ At("take")
  /\ IF Arg \in locked
     THEN /\ panicked' = TRUE
          /\ flag' = FALSE
          /\ UNCHANGED <<stack, locked>>
     ELSE /\ locked' = locked \cup {Arg}
          /\ Go(After, stack[1].saved)
          /\ UNCHANGED <<flag, panicked>>
  /\ UNCHANGED <<consoleVars, irr, isr, keys>>

Clear ==
  /\ At("clear")
  /\ locked' = locked \ {Arg}
  /\ Go(After, stack[1].saved)
  /\ UNCHANGED <<consoleVars, flag, irr, isr, keys, panicked>>

\* The next work item, what a poll does, and which call it serves.
Choose ==
  /\ \/ At("loop") /\ \E w \in WorkItems : Go(w \o After, stack[1].saved)
     \/ At("poll") /\ \E p \in Polls : Go(p \o After, stack[1].saved)
     \/ At("call") /\ \E c \in Calls : Go(c \o After, stack[1].saved)
  /\ UNCHANGED <<consoleVars, flag, locked, irr, isr, keys, panicked>>

\* BUFF, from its two ends: a full buffer prints a message with BUFF locked.
Push ==
  /\ At("push")
  /\ IF keys = KbdCap
     THEN Go(println \o After, stack[1].saved) /\ UNCHANGED keys
     ELSE Go(After, stack[1].saved) /\ keys' = keys + 1
  /\ UNCHANGED <<consoleVars, flag, locked, irr, isr, panicked>>

Pop ==
  /\ At("pop")
  /\ keys' = IF keys = 0 THEN 0 ELSE keys - 1
  /\ Go(After, stack[1].saved)
  /\ UNCHANGED <<consoleVars, flag, locked, irr, isr, panicked>>

\* println and File::write, with CONSOLE locked.
Printing ==
  /\ \/ /\ At("print")
        /\ Show(Message)
        /\ Go(After, stack[1].saved)
        /\ UNCHANGED out
     \/ /\ At("write")
        /\ out' = [buf |-> Arg, idx |-> 0, first |-> TRUE]
        /\ Go(After, stack[1].saved)
        /\ UNCHANGED <<screen, lines>>
     \/ /\ At("writing")
        /\ WritePart
        /\ UNCHANGED stack
     \/ /\ At("writing")
        /\ WriteDone
        /\ Go(After, stack[1].saved)
  /\ UNCHANGED <<flag, locked, irr, isr, keys, panicked>>

\* wait_command: a drive answers; without one the status is read for ever.
Wait ==
  /\ At("wait")
  /\ IF Arg = "drive" THEN Go(After, stack[1].saved) ELSE UNCHANGED stack
  /\ UNCHANGED <<consoleVars, flag, locked, irr, isr, keys, panicked>>

\* A nonspecific end of interrupt: it is for the most urgent one in service.
Eoi ==
  /\ At("eoi")
  /\ isr' = {i \in isr : \E j \in isr : j < i}
  /\ Go(After, stack[1].saved)
  /\ UNCHANGED <<consoleVars, flag, locked, irr, keys, panicked>>

\* iretq: only code with the flag set was interrupted.
Iret ==
  /\ ~panicked /\ stack # <<>> /\ stack[1].code = <<>>
  /\ stack' = Tail(stack)
  /\ flag' = TRUE
  /\ UNCHANGED <<consoleVars, locked, irr, isr, keys, panicked>>

-----------------------------------------------------------------------------
(* Interrupts and system calls.                                            *)

\* A device raises its line: 0 is the timer, 1 the keyboard.
Raise ==
  /\ \E i \in {0, 1} : i \notin irr /\ irr' = irr \cup {i}
  /\ UNCHANGED <<consoleVars, stack, flag, locked, isr, keys, panicked>>

\* The controller delivers what is more urgent than all it has in service.
Deliver(i, code) ==
  /\ ~panicked /\ flag
  /\ i \in irr /\ \A j \in isr : i < j
  /\ irr' = irr \ {i}
  /\ isr' = isr \cup {i}
  /\ Enter(i, code)
  /\ UNCHANGED <<consoleVars, locked, keys, panicked>>

PitInterrupt == Deliver(0, IF stack = <<>> THEN pit_user ELSE pit_kernel)
KeyboardInterrupt == Deliver(1, keyboard_interrupt)

Syscall ==
  /\ stack = <<>>
  /\ Enter(2, dispatch_syscall)
  /\ UNCHANGED <<consoleVars, locked, irr, isr, keys, panicked>>

Kernel == SaveFlag \/ SetFlag \/ Take \/ Clear \/ Choose \/ Push \/ Pop \/ Printing \/ Wait \/ Eoi \/ Iret

\* The panic handler has printed its message and halts.
Halt == panicked /\ UNCHANGED vars

Next == Kernel \/ Raise \/ PitInterrupt \/ KeyboardInterrupt \/ Syscall \/ Halt

Spec == Init /\ [][Next]_vars
FairSpec == Spec /\ WF_vars(Kernel)

-----------------------------------------------------------------------------
(* Properties.                                                             *)

\* The mutexes that are locked where kalloc::alloc drops a value that owns a block:
\* in open_file, and in spawn.
Recursive == {{"future", "ALLOCATOR"}, {"future", "TASK_FUTURES", "ALLOCATOR"}}

\* "recursive mutex lock!" happens only when the heap has no memory for the Arc of a
\* new task's future or of an opened file: kalloc::alloc drops that value, which frees
\* blocks of its own, with ALLOCATOR locked.  No other path locks a mutex it has, and
\* because every guard keeps the interrupt flag clear until its mutex is free, and an
\* inner guard does not set it, a handler never finds a mutex locked.
NoRecursiveLock ==
  /\ panicked => Arg = "ALLOCATOR" /\ locked \in Recursive
  /\ locked # {} => ~flag

\* The controller is told of the right interrupt at the right time: although interrupt
\* enables interrupts at once and acknowledges without a number, what is in service is
\* what the unfinished handlers on the stack are for, and none of them was entered
\* again inside itself.  Handlers that have acknowledged may pile up before iretq.
HandlersNest ==
  LET unfinished == {n \in DOMAIN stack : stack[n].code # <<>>}
  IN  /\ isr = {stack[n].irq : n \in unfinished} \ {2}
      /\ \A m, n \in unfinished : m < n => stack[m].irq < stack[n].irq

\* start waits for a drive that is not there.
NoDrive == At("wait") /\ Arg = "no drive"

\* The kernel never keeps interrupts off for ever, but for a write whose buffer ends
\* inside a character, for which utf8_valid_parts returns empty parts without end, and
\* for the first read when there is no drive.  A panic keeps them off on purpose.
InterruptsComeBack == ~flag ~> (flag \/ panicked \/ Truncated(out.buf) \/ NoDrive)
=============================================================================
