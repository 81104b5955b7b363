----------------------------- MODULE Scheduler -----------------------------
(***************************************************************************)
(* The task scheduler and trap handling of CrabOS: kernel/src/task.rs, the *)
(* trap entry of kernel/src/interrupt.rs, the part of kernel/src/syscall.rs *)
(* that changes scheduler state, and the keyboard buffer of                *)
(* kernel/src/device/keyboard.rs.                                          *)
(*                                                                         *)
(* One processor runs everything.  The kernel is entered from user mode by *)
(* the timer (IRQ 0) or a system call, and task::switch then polls one     *)
(* task future after another until it finds a task to return to.  A poll   *)
(* runs under the lock of its future, that is with interrupts disabled, so *)
(* it is one atomic step.  Between polls interrupts are enabled (unless    *)
(* IRQ 0 is still in service, which masks IRQ 1), so the keyboard handler  *)
(* interleaves there and in user mode.                                     *)
(***************************************************************************)
EXTENDS Naturals, Sequences, FiniteSets

CONSTANTS
  MaxTaskId,    \* bound: number of task ids NEXT_TASK_ID may hand out
  PageCtx,      \* page contexts (PML4 tables)
  BootCtx,      \* the page context the processor boots with
  Pc,           \* abstract user registers other than rax
  Results,      \* abstract values a system call returns in rax
  KbdCap,       \* capacity of the keyboard buffer (32 in the code)
  MaxKeys,      \* bound: number of key presses
  Calls,        \* the system calls the programs make
  SplitKeeps,   \* entries of a map that its left half keeps in a split: at least B, 6
  SplitLoses    \* entries that leave it: at least B - 1, 5

ASSUME SchedAssumption ==
  /\ MaxTaskId \in Nat \ {0}
  /\ BootCtx \in PageCtx
  /\ Pc # {}
  /\ Results # {}
  /\ KbdCap \in Nat \ {0}
  /\ MaxKeys \in Nat
  /\ SplitKeeps \in Nat \ {0}
  /\ SplitLoses \in Nat
  /\ Calls \subseteq {"Other", "SetPageContext", "CreateTask", "ReadStream", "Exit"}

TaskId == 1..MaxTaskId

InitTask == 1

NoTask == 0     \* CURRENT_TASK = None, which find_next_work_item reads as 0

NoCtx == "no entry"

ASSUME NoCtxAssumption == NoCtx \notin PageCtx

(***************************************************************************)
(* The system call a program asks for is in rax, and so is its result.     *)
(* "Other" stands for every call that neither blocks nor changes scheduler *)
(* state; "Exit" for the calls that panic (exit, write_stream to a FAT     *)
(* file).  rax values outside Calls make dispatch0 return BadSyscall.      *)
(***************************************************************************)
Rax == Calls \cup Results

Frame == [pc: Pc, rax: Rax]

Blank == CHOOSE f \in Frame : TRUE

\* TaskState, with "Absent" for an id that is not in TASK_STATES.  Sleep is
\* declared by the code and never stored.
TaskState == [kind: {"Absent", "SyscallEntry", "Wake", "User"}, frame: Frame]

\* The suspension points of a task's future, with its TaskRun::trap_frame:
\* not yet polled, in TaskResume, or in keyboard::read_scancode.
TaskFuture == [at: {"Absent", "Start", "TaskResume", "ReadScancode"}, frame: Frame]

NoState == [kind |-> "Absent", frame |-> Blank]
NoFuture == [at |-> "Absent", frame |-> Blank]

VARIABLES
  tasks,        \* TASKS: the page_ctx of each task, or NoCtx
  states,       \* TASK_STATES
  futures,      \* TASK_FUTURES
  current,      \* CURRENT_TASK
  nextId,       \* NEXT_TASK_ID
  cr3,          \* the page context the processor uses
  frame,        \* user mode: the registers; kernel mode: the TrapFrame
  kpc,          \* where the processor is
  trap,         \* why the kernel was entered: "Start", "Pit" or "Syscall"
  prev,         \* previous_task_id of switch
  work,         \* the WorkItem switch has chosen
  kbd,          \* BUFF, the scancodes not yet read
  keys,         \* number of keys pressed so far: key i has scancode i
  lastRead,     \* the last scancode delivered to a program
  lost          \* history: the ids of which a spawn that ran out of memory has left
                \* the entries in some of the three maps only

taskVars == <<tasks, states, futures, nextId, lost>>
switchVars == <<frame, kpc, trap, prev, work>>
kbdVars == <<kbd, keys, lastRead>>
vars == <<tasks, states, futures, current, nextId, cr3, frame, kpc, trap,
          prev, work, kbd, keys, lastRead, lost>>

\* WorkItem; "Kernel" stands for the future of the current task.
WorkItem == [kind: {"Kernel", "User"}, frame: Frame]
NoWork == [kind |-> "Kernel", frame |-> Blank]

\* Every variable of the scheduler has its type, whatever system calls, timer and
\* keyboard do, and push_back never overfills the keyboard buffer.
TypeOK ==
  /\ tasks \in [TaskId -> PageCtx \cup {NoCtx}]
  /\ states \in [TaskId -> TaskState]
  /\ futures \in [TaskId -> TaskFuture]
  /\ current \in TaskId \cup {NoTask}
  /\ nextId \in 1..(MaxTaskId + 1)
  /\ cr3 \in PageCtx
  /\ frame \in Frame
  /\ kpc \in {"User", "Save", "Find", "Run", "Panic", "Fault"}
  /\ trap \in {"Start", "Pit", "Syscall"}
  /\ prev \in TaskId \cup {NoTask}
  /\ work \in WorkItem
  /\ kbd \in Seq(1..MaxKeys) /\ Len(kbd) <= KbdCap
  /\ keys \in 0..MaxKeys
  /\ lastRead \in 0..MaxKeys
  /\ lost \subseteq TaskId

\* main() has spawned the init task and calls task::start.
Init ==
  /\ tasks = [t \in TaskId |-> IF t = InitTask THEN BootCtx ELSE NoCtx]
  /\ \E f \in Frame :
       /\ states = [t \in TaskId |-> IF t = InitTask
                                     THEN [kind |-> "Wake", frame |-> Blank]
                                     ELSE NoState]
       /\ futures = [t \in TaskId |-> IF t = InitTask
                                      THEN [at |-> "Start", frame |-> f]
                                      ELSE NoFuture]
  /\ current = NoTask
  /\ nextId = 2
  /\ cr3 = BootCtx
  /\ frame = Blank
  /\ kpc = "Save"
  /\ trap = "Start"
  /\ prev = NoTask
  /\ work = NoWork
  /\ kbd = <<>>
  /\ keys = 0
  /\ lastRead = 0
  /\ lost = {}

-----------------------------------------------------------------------------
(* User mode.                                                              *)

UserStep ==
  /\ kpc = "User"
  /\ \E f \in Frame : frame' = f
  /\ UNCHANGED <<taskVars, current, cr3, kpc, trap, prev, work, kbdVars>>

\* IRQ 0 from user mode: interrupt() calls task::switch.  IRQ 0 from kernel
\* mode does nothing, so it is not a step of this specification.
PitInterrupt ==
  /\ kpc = "User"
  /\ kpc' = "Save"
  /\ trap' = "Pit"
  /\ UNCHANGED <<taskVars, current, cr3, frame, prev, work, kbdVars>>

\* int from user mode: interrupt() calls task::dispatch_syscall.
DispatchSyscall ==
  /\ kpc = "User"
  /\ IF current \in TaskId /\ states[current].kind = "User"
     THEN /\ states' = [states EXCEPT ![current] =
                          [kind |-> "SyscallEntry", frame |-> frame]]
          /\ kpc' = "Save"
     ELSE /\ kpc' = "Panic"
          /\ UNCHANGED states
  /\ trap' = "Syscall"
  /\ UNCHANGED <<tasks, futures, nextId, lost, current, cr3, frame, prev, work,
                 kbdVars>>

\* A page fault or any other CPU exception ends in a panic, with the registers of
\* the program still in the frame (programs that never end the kernel by Exit do
\* not end it this way either).
CpuException ==
  /\ "Exit" \in Calls
  /\ kpc = "User"
  /\ kpc' = "Fault"
  /\ UNCHANGED <<taskVars, current, cr3, frame, trap, prev, work, kbdVars>>

\* The panic handler never returns.
Halted ==
  /\ kpc \in {"Panic", "Fault"}
  /\ UNCHANGED vars

-----------------------------------------------------------------------------
(* The keyboard: IRQ 1 is accepted when interrupts are enabled and IRQ 0   *)
(* is not in service.  interrupt() of keyboard.rs drops the scancode when  *)
(* the buffer is full.                                                     *)

InterruptsOn ==
  \/ kpc = "User"
  \/ kpc \in {"Save", "Find", "Run"} /\ trap = "Syscall"

\* Mutant: the newest scancode in front.
BugPushFront(k) == IF Len(kbd) < KbdCap THEN <<k>> \o kbd ELSE kbd

PushBack(k) == IF Len(kbd) < KbdCap THEN Append(kbd, k) ELSE kbd

\* Mutant: the interrupt also wakes the init task, whatever it is doing.
BugWakingInterrupt ==
  /\ keys < MaxKeys
  /\ InterruptsOn
  /\ keys' = keys + 1
  /\ kbd' = PushBack(keys + 1)
  /\ states' = [states EXCEPT ![InitTask] = [kind |-> "Wake", frame |-> Blank]]
  /\ UNCHANGED <<tasks, futures, nextId, lost, current, cr3, switchVars, lastRead>>

KeyboardInterrupt ==
  /\ keys < MaxKeys
  /\ InterruptsOn
  /\ keys' = keys + 1
  /\ kbd' = PushBack(keys + 1)
  /\ UNCHANGED <<taskVars, current, cr3, switchVars, lastRead>>

-----------------------------------------------------------------------------
(* task::switch.                                                           *)

\* Mutant: the registers are saved in every state.
BugSaveAlways ==
  /\ kpc = "Save"
  /\ states' = IF current # NoTask
               THEN [states EXCEPT ![current] = [kind |-> "User", frame |-> frame]]
               ELSE states
  /\ prev' = current
  /\ kpc' = "Find"
  /\ UNCHANGED <<tasks, futures, nextId, lost, current, cr3, frame, trap, work,
                 kbdVars>>

SaveCurrentTask ==
  /\ kpc = "Save"
  /\ states' = IF current # NoTask /\ states[current].kind = "User"
               THEN [states EXCEPT ![current].frame = frame]
               ELSE states
  /\ prev' = current
  /\ kpc' = IF current # NoTask /\ states[current].kind = "Absent" THEN "Panic" ELSE "Find"
  /\ UNCHANGED <<tasks, futures, nextId, lost, current, cr3, frame, trap, work,
                 kbdVars>>

Present(t) == tasks[t] # NoCtx

\* Mutants: wrap around to the greatest id; stay with a task in user state.
BugWrapToLast(t, p) ==
  /\ Present(t)
  /\ \/ /\ t > p
        /\ \A u \in TaskId : Present(u) /\ u > p => t <= u
     \/ \A u \in TaskId : Present(u) => u <= p /\ u <= t

BugKeepRunning(t, p) ==
  /\ Present(t)
  /\ IF p # NoTask /\ Present(p) /\ states[p].kind = "User"
     THEN t = p
     ELSE \/ /\ t > p
             /\ \A u \in TaskId : Present(u) /\ u > p => t <= u
          \/ /\ \A u \in TaskId : Present(u) => u <= p
             /\ \A u \in TaskId : Present(u) => t <= u

\* Task t comes next after p: the least id above p, and the least id of all
\* when there is none above p.
IsNext(t, p) ==
  /\ Present(t)
  /\ \/ /\ t > p
        /\ \A u \in TaskId : Present(u) /\ u > p => t <= u
     \/ /\ \A u \in TaskId : Present(u) => u <= p
        /\ \A u \in TaskId : Present(u) => t <= u

\* The entries that find_next_work_item expects of task t are there.
HasEntries(t) ==
  /\ states[t].kind # "Absent"
  /\ states[t].kind # "User" => futures[t].at # "Absent"

\* Mutant: no set_ctx when the task stays the same.
BugNoCtxForSameTask ==
  /\ kpc = "Find"
  /\ \E t \in TaskId :
       /\ IsNext(t, prev)
       /\ HasEntries(t)
       /\ current' = t
       /\ cr3' = IF t = current THEN cr3 ELSE tasks[t]
       /\ work' = IF states[t].kind = "User"
                  THEN [kind |-> "User", frame |-> states[t].frame]
                  ELSE NoWork
  /\ kpc' = "Run"
  /\ UNCHANGED <<taskVars, frame, trap, prev, kbdVars>>

\* find_next_work_item, the store to CURRENT_TASK and page::set_ctx.
FindNextWorkItem ==
  /\ kpc = "Find"
  /\ \E t \in TaskId :
       /\ IsNext(t, prev)
       /\ HasEntries(t)
       /\ current' = t
       /\ cr3' = tasks[t]
       /\ work' = IF states[t].kind = "User"
                  THEN [kind |-> "User", frame |-> states[t].frame]
                  ELSE NoWork
  /\ kpc' = "Run"
  /\ UNCHANGED <<taskVars, frame, trap, prev, kbdVars>>

\* An entry of the next task is missing: "id not in TASK_STATES", or "id not in
\* TASK_FUTURES".
FindPanics ==
  /\ kpc = "Find"
  /\ \E t \in TaskId : IsNext(t, prev) /\ ~HasEntries(t)
  /\ kpc' = "Panic"
  /\ UNCHANGED <<taskVars, current, cr3, frame, trap, prev, work, kbdVars>>

\* WorkItem::User: load the frame and return; interrupt() then acknowledges
\* the IRQ, if one was in service, and irets.  The locals of switch are gone.
ReturnToUser ==
  /\ kpc = "Run"
  /\ work.kind = "User"
  /\ frame' = work.frame
  /\ kpc' = "User"
  /\ prev' = NoTask
  /\ work' = NoWork
  /\ UNCHANGED <<taskVars, current, cr3, trap, kbdVars>>

\* Mutant: previous_task_id is not advanced.
BugSamePrevious ==
  /\ kpc' = "Find"
  /\ UNCHANGED <<prev, current, frame, trap, work>>

\* A poll returns Pending: the task state stays as the poll left it.
Pending ==
  /\ prev' = current
  /\ kpc' = "Find"
  /\ UNCHANGED <<current, frame, trap, work>>

Polling(at) ==
  /\ kpc = "Run"
  /\ work.kind = "Kernel"
  /\ futures[current].at = at

\* TaskRun::run with trap frame f, then the first poll of its TaskResume.
\* A future that is polled while its entry of TASK_FUTURES is lost lives on in
\* switch until the poll ends, and is not seen any more.
RunTask(m, t, f) == [m EXCEPT ![t] = [kind |-> "User", frame |-> f]]
AwaitTrap(m, t, f) ==
  IF m[t] = NoFuture THEN m ELSE [m EXCEPT ![t] = [at |-> "TaskResume", frame |-> f]]

\* First poll of a task: its closure calls setup and run_loop.
PollStart ==
  /\ Polling("Start")
  /\ states' = RunTask(states, current, futures[current].frame)
  /\ futures' = AwaitTrap(futures, current, futures[current].frame)
  /\ Pending
  /\ UNCHANGED <<tasks, nextId, lost, cr3, kbdVars>>

-----------------------------------------------------------------------------
(* syscall::dispatch for the current task.  Each action ends in run(), in  *)
(* the same poll, unless the call blocks.                                  *)

\* syscall::dispatch stores the result r in the trap frame f and run_loop
\* calls run again; sm and fm are the maps as the call left them.
Finish(sm, fm, f, r) ==
  LET g == [f EXCEPT !.rax = r] IN
  /\ states' = RunTask(sm, current, g)
  /\ futures' = AwaitTrap(fm, current, g)
  /\ Pending

\* TaskResume::poll finds SyscallEntry and hands its frame to dispatch, which
\* decodes rax.  (In state Wake it would return Pending and the trap would be
\* lost; TrapNotLost below says that this state is never polled.)
Dispatching(call) ==
  /\ Polling("TaskResume")
  /\ states[current].kind = "SyscallEntry"
  /\ states[current].frame.rax = call

SyscallOther ==
  /\ \E call \in {"Other"} \cup Results : Dispatching(call)
  /\ \E r \in Results : Finish(states, futures, states[current].frame, r)
  /\ UNCHANGED <<tasks, nextId, lost, cr3, kbdVars>>

\* set_page_context changes cr3 and not the task's page_ctx; with a bad handle
\* it changes nothing.
SyscallSetPageContext ==
  /\ Dispatching("SetPageContext")
  /\ \E c \in PageCtx : cr3' = c
  /\ \E r \in Results : Finish(states, futures, states[current].frame, r)
  /\ UNCHANGED <<tasks, nextId, lost, kbdVars>>

SyscallExit ==
  /\ Dispatching("Exit")
  /\ kpc' = "Panic"
  /\ UNCHANGED <<taskVars, current, cr3, frame, trap, prev, work, kbdVars>>

\* The allocations of task::spawn, in order: Box::new, TASK_STATES.insert,
\* Arc::new, TASK_FUTURES.insert, TASKS.insert.
SpawnAllocs == 5
ArcAlloc == 3

\* An insert that finds a full leaf splits it, and so on upwards; when there is no
\* memory for a node above the leaf, BTreeMap::insert has already cut off the
\* right half, which includes the new id, and loses it.  Ids only grow, so what
\* goes is every id from some id on (see BTreeMap.InsertFails).
SplitsAt(ids, cut) ==
  /\ cut \in ids
  /\ Cardinality({t \in ids : t < cut}) >= SplitKeeps
  /\ Cardinality({t \in ids : t >= cut}) >= SplitLoses

\* The ids in the map that allocation n is for.
IdsAt(n) ==
  {t \in TaskId : \/ n = 2 /\ states[t].kind # "Absent"
                  \/ n = 4 /\ futures[t].at # "Absent"
                  \/ n = 5 /\ Present(t)}

\* A map after spawn has tried to insert v under id as its n-th allocation.
\* Allocation number failed is the first that fails; SpawnAllocs + 1 if none
\* does.  The insert that fails loses the ids from cut on: only id itself if it
\* could not split a leaf.
Inserted(m, id, v, none, n, failed, cut) ==
  [t \in TaskId |-> IF n = failed /\ t >= cut THEN none
                   ELSE IF n < failed /\ t = id THEN v
                   ELSE m[t]]

\* Mutant: nothing is removed.
BugNoRollback(m, id, v, none, n, failed, cut) ==
  Inserted(m, id, v, none, n, failed, cut)

\* The insert and, when some allocation of spawn has failed, the removal of id.
SpawnInsert(m, id, v, none, n, failed, cut) ==
  [t \in TaskId |-> IF t = id /\ failed <= SpawnAllocs THEN none
                   ELSE Inserted(m, id, v, none, n, failed, cut)[t]]

\* The kernel panics in the poll of the current task.
PollPanics ==
  /\ kpc' = "Panic"
  /\ UNCHANGED <<current, frame, trap, prev, work>>

\* create_task in page context c, with initial frame f: task::spawn for id.  A
\* caller that has lost its own state panics in run().
SpawnTask(id, c, f, failed, cut) ==
  LET sm == SpawnInsert(states, id, [kind |-> "Wake", frame |-> Blank], NoState, 2, failed, cut)
      fm == SpawnInsert(futures, id, [at |-> "Start", frame |-> f], NoFuture, 4, failed, cut)
  IN  /\ tasks' = SpawnInsert(tasks, id, c, NoCtx, 5, failed, cut)
      /\ lost' = lost \cup {t \in IdsAt(failed) : t >= cut}
      /\ \/ /\ sm[current] # NoState
            /\ \E r \in Results : Finish(sm, fm, states[current].frame, r)
         \/ /\ sm[current] = NoState
            /\ states' = sm /\ futures' = fm
            /\ PollPanics

SyscallCreateTask ==
  /\ Dispatching("CreateTask")
  /\ nextId \in TaskId
  /\ nextId' = nextId + 1
  /\ \E c \in PageCtx, f \in Frame,
        failed \in (1..(SpawnAllocs + 1)) \ {ArcAlloc}, cut \in TaskId :
       /\ cut = nextId \/ SplitsAt(IdsAt(failed), cut)
       /\ SpawnTask(nextId, c, f, failed, cut)
  /\ UNCHANGED <<cr3, kbdVars>>

\* Arc::new fails: kalloc::alloc drops the boxed future while it holds ALLOCATOR,
\* the Box takes ALLOCATOR to free its memory, and the lock panics.  The new id
\* stays in TASK_STATES.
SyscallCreateTaskPanics ==
  /\ Dispatching("CreateTask")
  /\ nextId \in TaskId
  /\ nextId' = nextId + 1
  /\ states' = [states EXCEPT ![nextId] = [kind |-> "Wake", frame |-> Blank]]
  /\ lost' = lost \cup {nextId}
  /\ PollPanics
  /\ UNCHANGED <<tasks, futures, cr3, kbdVars>>

\* create_task with a handle that is not a page context; also the only outcome
\* once the bound MaxTaskId is reached.
SyscallCreateTaskFails ==
  /\ Dispatching("CreateTask")
  /\ \E r \in Results : Finish(states, futures, states[current].frame, r)
  /\ UNCHANGED <<tasks, nextId, lost, cr3, kbdVars>>

\* read_scancode: take the oldest scancode, and return from the read_stream
\* that was called with frame f.
ReadScancode(f) ==
  /\ kbd # <<>>
  /\ lastRead' = Head(kbd)
  /\ kbd' = Tail(kbd)
  /\ \E r \in Results : Finish(states, futures, f, r)
  /\ UNCHANGED <<tasks, nextId, lost, cr3, keys>>

\* No scancode: read_scancode returns Pending and is polled again later.
AwaitScancode(f) ==
  /\ kbd = <<>>
  /\ futures' = [futures EXCEPT ![current] = [at |-> "ReadScancode", frame |-> f]]
  /\ Pending
  /\ UNCHANGED <<tasks, states, nextId, lost, cr3, kbdVars>>

\* read_stream on the console.  main() gives the console to the init task, and
\* no call passes a handle on to another task.
SyscallReadStream ==
  /\ Dispatching("ReadStream")
  /\ current = InitTask
  /\ \/ ReadScancode(states[current].frame)
     \/ AwaitScancode(states[current].frame)

\* read_stream with a handle that is not the console, or a bad buffer.
SyscallReadStreamFails ==
  /\ Dispatching("ReadStream")
  /\ \E r \in Results : Finish(states, futures, states[current].frame, r)
  /\ UNCHANGED <<tasks, nextId, lost, cr3, kbdVars>>

\* A later poll of a blocked read_stream.
PollReadScancode ==
  /\ Polling("ReadScancode")
  /\ \/ ReadScancode(futures[current].frame)
     \/ AwaitScancode(futures[current].frame)

-----------------------------------------------------------------------------
Poll ==
  \/ PollStart
  \/ SyscallOther
  \/ SyscallSetPageContext
  \/ SyscallExit
  \/ SyscallCreateTask
  \/ SyscallCreateTaskPanics
  \/ SyscallCreateTaskFails
  \/ SyscallReadStream
  \/ SyscallReadStreamFails
  \/ PollReadScancode

Kernel ==
  \/ SaveCurrentTask
  \/ FindNextWorkItem
  \/ FindPanics
  \/ ReturnToUser
  \/ Poll

Next ==
  \/ UserStep
  \/ PitInterrupt
  \/ DispatchSyscall
  \/ CpuException
  \/ Halted
  \/ KeyboardInterrupt
  \/ Kernel

Spec == Init /\ [][Next]_vars

(***************************************************************************)
(* Fairness: the processor keeps executing kernel code, and the PIT, which *)
(* device/pit.rs programs as a periodic timer, eventually interrupts user  *)
(* mode.  Nothing is assumed of programs or of the keyboard.               *)
(***************************************************************************)
FairSpec == Spec /\ WF_vars(Kernel) /\ WF_vars(PitInterrupt)

-----------------------------------------------------------------------------
(* Safety.                                                                 *)

\* The three maps that task::spawn fills one after another hold the same ids:
\* what a failing allocation interrupts is rolled back completely.  The exception
\* is the ids in lost, the newest ones, whose entries in one map went with the
\* right half of a node (or stayed behind in a panic); the init task is never
\* one of them.
MapsAgree ==
  /\ \A t \in TaskId \ lost :
       /\ Present(t) <=> states[t].kind # "Absent"
       /\ Present(t) <=> futures[t].at # "Absent"
  /\ InitTask \notin lost

\* User instructions execute only for a task whose state is User, and in the
\* address space of that task's own page_ctx, whatever set_page_context did.
UserContext ==
  kpc = "User" =>
    /\ current \in TaskId
    /\ states[current].kind = "User"
    /\ cr3 = tasks[current]

\* dispatch of a system call works on the caller's address space: when a future
\* is about to be polled, cr3 is that task's page_ctx.
PollContext ==
  kpc = "Run" => cr3 = tasks[current]

\* Whatever set_page_context did to cr3 in between, user code and every poll of a
\* task run in the page context of that task.
ContextIsOwn == UserContext /\ PollContext

\* TaskResume is only ever waiting in state User or SyscallEntry, and a blocked
\* read keeps its SyscallEntry: no wake-up has replaced the state by Wake, after
\* which TaskResume::poll would return Pending for ever.  Only a task that is in
\* lost may have no state any more.
TrapNotLost ==
  \A t \in TaskId \ lost :
    /\ futures[t].at = "TaskResume" => states[t].kind \in {"User", "SyscallEntry"}
    /\ futures[t].at = "ReadScancode" =>
         states[t].kind = "SyscallEntry" /\ states[t].frame = futures[t].frame

\* Scancodes reach the reader in the order of the key presses and never twice, and
\* the buffer, which drops what does not fit, never exceeds its capacity.
KeysInOrder ==
  /\ Len(kbd) <= KbdCap
  /\ \A i \in 1..Len(kbd) : lastRead < kbd[i] /\ kbd[i] <= keys
  /\ \A i, j \in 1..Len(kbd) : i < j => kbd[i] < kbd[j]

-----------------------------------------------------------------------------
(* Refinement: every task has a processor of its own.                      *)

PhaseOf(t) ==
  CASE \/ states[t].kind = "Absent"
       \/ states[t].kind = "Wake" /\ futures[t].at = "Absent" -> "absent"
    [] states[t].kind = "SyscallEntry" -> "call"
    [] OTHER -> "user"

\* Where the registers of task t are.
RegsOf(t) ==
  IF states[t].kind = "User" /\ current = t /\ kpc \in {"User", "Save", "Fault"}
  THEN frame
  ELSE IF states[t].kind \in {"User", "SyscallEntry"} THEN states[t].frame
  ELSE IF states[t].kind = "Wake" THEN futures[t].frame
  ELSE Blank

Virtual == INSTANCE VirtualCpus WITH
  phase <- [t \in TaskId |-> PhaseOf(t)],
  regs <- [t \in TaskId |-> RegsOf(t)],
  running <- IF kpc = "User" THEN current ELSE NoTask

\* task::switch is transparent: saving, polling and restoring never mix, lose or
\* replay the registers of a task, and no system call returns twice.  A task that
\* is not the init task may vanish, in a create_task that runs out of memory.
EveryTaskHasItsOwnCpu == Virtual!Spec

-----------------------------------------------------------------------------
(* Liveness.                                                               *)

\* The kernel has panicked because a spawn ran out of memory (programs that do not
\* exit and raise no exception have no other way to end it).
OutOfMemory == kpc = "Panic" /\ lost # {}

\* A timer interrupt always gets back to user mode, with no help from the
\* keyboard, whose IRQ stays masked until then: some task state is User.
PitSwitchReturns ==
  (kpc = "Save" /\ trap = "Pit") ~> (kpc = "User" \/ OutOfMemory)

\* Round robin starves nobody: a task in user state gets the processor, unless a
\* spawn out of memory loses its entries or ends the kernel first.
EveryTaskRuns ==
  \A t \in TaskId :
    (states[t].kind = "User") ~> ((kpc = "User" /\ current = t) \/ t \in lost \/ OutOfMemory)

\* The init task, the only one with a console, blocked in read_stream gets a
\* scancode that has arrived, although nothing wakes it: every switch polls it.
KeyIsDelivered ==
  (futures[InitTask].at = "ReadScancode" /\ kbd # <<>>)
    ~> (states[InitTask].kind = "User" \/ OutOfMemory)
=============================================================================
