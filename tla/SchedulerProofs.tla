-------------------------- MODULE SchedulerProofs --------------------------
(***************************************************************************)
(* Proofs about Scheduler, for every number of tasks, page contexts,       *)
(* register values and key presses.                                        *)
(***************************************************************************)
EXTENDS Scheduler, FiniteSetTheorems, TLAPS

(***************************************************************************)
(* The inductive invariant.  MapsAgree and the other properties are not    *)
(* inductive alone: that a spawned id is unused (FreshIds), that a future  *)
(* and the state of its task fit together and that a task in lost has not  *)
(* got all of its entries (EntriesFit), and what switch has established    *)
(* when it is about to poll or to return (ProcessorFit) is needed as well. *)
(***************************************************************************)
FreshIds ==
  /\ \A t \in TaskId : t >= nextId =>
       /\ tasks[t] = NoCtx /\ states[t] = NoState /\ futures[t] = NoFuture
       /\ t \notin lost
  /\ InitTask \notin lost
  /\ Present(InitTask)

\* The entries of one id in TASKS, TASK_STATES and TASK_FUTURES fit together; gone
\* says whether the id is in lost.
EntryFits(c, s, f, gone) ==
  /\ s = NoState \/ s.kind # "Absent"
  /\ f = NoFuture \/ f.at # "Absent"
  /\ IF gone THEN c = NoCtx \/ s = NoState \/ f = NoFuture
     ELSE (c = NoCtx <=> s = NoState) /\ (c = NoCtx <=> f = NoFuture)
  /\ s # NoState =>
       /\ f.at = "Start" => s.kind = "Wake"
       /\ f.at = "TaskResume" => s.kind \in {"User", "SyscallEntry"}
       /\ f.at = "ReadScancode" => s.kind = "SyscallEntry" /\ s.frame = f.frame

EntriesFit == \A t \in TaskId : EntryFits(tasks[t], states[t], futures[t], t \in lost)

ProcessorFit ==
  /\ kpc = "Save" /\ current # NoTask => states[current].kind # "Absent"
  /\ kpc = "User" =>
       /\ current # NoTask
       /\ states[current].kind = "User"
       /\ cr3 = tasks[current]
  /\ kpc = "Run" =>
       /\ current # NoTask
       /\ Present(current)
       /\ cr3 = tasks[current]
       /\ states[current].kind = "User" =>
            work = [kind |-> "User", frame |-> states[current].frame]
       /\ states[current].kind # "User" =>
            work.kind = "Kernel" /\ states[current].kind # "Absent"

IInv == TypeOK /\ EntriesFit /\ FreshIds /\ ProcessorFit

-----------------------------------------------------------------------------
(* Facts about the definitions.                                            *)

\* The init task has an id, ids are natural numbers and NoTask is none of them.
LEMMA IdFacts ==
  /\ InitTask \in TaskId
  /\ NoTask \notin TaskId
  /\ TaskId \subseteq Nat
  BY SchedAssumption DEF InitTask, TaskId, NoTask

\* The frame a new task starts with is a frame.
LEMMA BlankIsFrame == Blank \in Frame
  <1>1. PICK p \in Pc, r \in Results : TRUE
    BY SchedAssumption
  <1>2. [pc |-> p, rax |-> r] \in Frame
    BY DEF Frame, Rax
  <1> QED
    BY <1>2 DEF Blank

\* What the maps hold for an absent task has the type of an entry.
LEMMA DefaultTypes ==
  /\ NoState \in TaskState
  /\ NoFuture \in TaskFuture
  /\ NoWork \in WorkItem
  BY BlankIsFrame DEF NoState, NoFuture, NoWork, TaskState, TaskFuture, WorkItem

\* Writing a result into a frame keeps it a frame.
LEMMA ResultFrame ==
  ASSUME NEW f \in Frame, NEW r \in Results
  PROVE  [f EXCEPT !.rax = r] \in Frame
  BY DEF Frame, Rax

-----------------------------------------------------------------------------
\* After boot there is the init task alone, in all three maps.
LEMMA InitInv == Init => IInv
  <1> SUFFICES ASSUME Init PROVE IInv
    OBVIOUS
  <1>1. TypeOK
    BY IdFacts, BlankIsFrame, DefaultTypes, SchedAssumption
    DEF Init, TypeOK, TaskId, TaskState, TaskFuture, NoTask, InitTask
  <1>2. EntriesFit /\ FreshIds /\ ProcessorFit
    BY IdFacts, NoCtxAssumption, SchedAssumption
    DEF Init, EntriesFit, EntryFits, FreshIds, ProcessorFit, Present, NoState,
        NoFuture, TaskId, InitTask, NoTask
  <1> QED
    BY <1>1, <1>2 DEF IInv

-----------------------------------------------------------------------------
(* One lemma per step that changes what the invariant is about.            *)

\* A step of user code, the timer, a key, an exception and a halted kernel keep the
\* invariant.
LEMMA UserSteps ==
  ASSUME IInv, UserStep \/ PitInterrupt \/ CpuException \/ Halted \/ KeyboardInterrupt
  PROVE  IInv'
  <1> USE DEF IInv
  <1>1. CASE UserStep
    BY <1>1 DEF UserStep, TypeOK, EntriesFit, EntryFits, FreshIds, ProcessorFit,
      Present, taskVars, kbdVars
  <1>2. CASE PitInterrupt
    BY <1>2 DEF PitInterrupt, TypeOK, EntriesFit, EntryFits, FreshIds, ProcessorFit,
      Present, taskVars, kbdVars
  <1>3. CASE CpuException
    BY <1>3 DEF CpuException, TypeOK, EntriesFit, EntryFits, FreshIds, ProcessorFit,
      Present, taskVars, kbdVars
  <1>4. CASE Halted
    BY <1>4 DEF Halted, TypeOK, EntriesFit, EntryFits, FreshIds, ProcessorFit,
      Present, vars
  <1>5. CASE KeyboardInterrupt
    <2>1. keys + 1 \in 1..MaxKeys /\ keys' \in 0..MaxKeys
      BY <1>5, SchedAssumption DEF KeyboardInterrupt, TypeOK
    <2>2. kbd' \in Seq(1..MaxKeys) /\ Len(kbd') <= KbdCap
      <3> DEFINE K == 1..MaxKeys
      <3>1. kbd \in Seq(K) /\ keys + 1 \in K /\ Len(kbd) <= KbdCap /\ KbdCap \in Nat
        BY <2>1, SchedAssumption DEF TypeOK
      <3>2. kbd' = IF Len(kbd) < KbdCap THEN Append(kbd, keys + 1) ELSE kbd
        BY <1>5 DEF KeyboardInterrupt, PushBack
      <3> HIDE DEF K
      <3>3. kbd' \in Seq(K) /\ Len(kbd') <= KbdCap
        BY <3>1, <3>2
      <3> QED
        BY <3>3 DEF K
    <2> QED
      BY <1>5, <2>1, <2>2 DEF KeyboardInterrupt, TypeOK, EntriesFit, EntryFits, FreshIds, ProcessorFit, Present, taskVars, switchVars
  <1> QED
    BY <1>1, <1>2, <1>3, <1>4, <1>5

\* dispatch_syscall saves the frame and leaves the state SyscallEntry.
LEMMA DispatchSyscallInv ==
  ASSUME IInv, DispatchSyscall
  PROVE  IInv'
  <1> USE DEF IInv
  <1>1. /\ current \in TaskId
        /\ states[current].kind = "User"
        /\ states' = [states EXCEPT ![current] =
                        [kind |-> "SyscallEntry", frame |-> frame]]
        /\ kpc' = "Save"
    BY DEF DispatchSyscall, TypeOK, ProcessorFit
  <1>2. TypeOK'
    BY <1>1 DEF DispatchSyscall, TypeOK, TaskState, kbdVars
  <1>3. FreshIds'
    <2>1. states[current] # NoState
      BY <1>1 DEF NoState
    <2> QED
      BY <1>1, <2>1, IdFacts DEF DispatchSyscall, TypeOK, FreshIds, Present
  <1>4. EntriesFit'
    BY <1>1 DEF DispatchSyscall, TypeOK, EntriesFit, EntryFits, NoState
  <1>5. ProcessorFit'
    BY <1>1 DEF DispatchSyscall, TypeOK, ProcessorFit, Present
  <1> QED
    BY <1>2, <1>3, <1>4, <1>5

\* The start of switch: the registers of a preempted task go to its state.
LEMMA SaveCurrentTaskInv ==
  ASSUME IInv, SaveCurrentTask
  PROVE  IInv'
  <1> USE DEF IInv
  <1>1. /\ states' \in [TaskId -> TaskState]
        /\ \A t \in TaskId : states'[t].kind = states[t].kind
        /\ \A t \in TaskId : states[t].kind # "User" => states'[t] = states[t]
    BY DEF SaveCurrentTask, TypeOK, TaskState
  <1>2. TypeOK'
    BY <1>1 DEF SaveCurrentTask, TypeOK, kbdVars
  <1>3. FreshIds'
    <2>1. ASSUME NEW t \in TaskId, states[t] = NoState
          PROVE  states'[t] = NoState
      <3>1. states[t].kind # "User"
        BY <2>1 DEF NoState
      <3> QED
        BY <1>1, <2>1, <3>1
    <2> QED
      BY <2>1 DEF SaveCurrentTask, FreshIds, Present
  <1>4. EntriesFit'
    BY <1>1 DEF SaveCurrentTask, EntriesFit, EntryFits, NoState
  <1>5. ProcessorFit'
    BY <1>1 DEF SaveCurrentTask, TypeOK, ProcessorFit, Present
  <1> QED
    BY <1>2, <1>3, <1>4, <1>5

\* switch chooses a task that is present and can be polled, and loads its context.
LEMMA FindNextWorkItemInv ==
  ASSUME IInv, FindNextWorkItem
  PROVE  IInv'
  <1> USE DEF IInv
  <1>1. PICK t \in TaskId :
          /\ Present(t)
          /\ states[t].kind # "Absent"
          /\ current' = t
          /\ cr3' = tasks[t]
          /\ work' = IF states[t].kind = "User"
                     THEN [kind |-> "User", frame |-> states[t].frame]
                     ELSE NoWork
    BY DEF FindNextWorkItem, IsNext, HasEntries
  <1>2. TypeOK'
    BY <1>1, DefaultTypes
    DEF FindNextWorkItem, TypeOK, TaskState, WorkItem, Present, taskVars, kbdVars
  <1>3. EntriesFit' /\ FreshIds'
    BY DEF FindNextWorkItem, EntriesFit, EntryFits, FreshIds, Present, taskVars
  <1>4. ProcessorFit'
    BY <1>1, IdFacts DEF FindNextWorkItem, ProcessorFit, Present, NoWork, taskVars
  <1> QED
    BY <1>2, <1>3, <1>4

\* A panic of find_next_work_item changes nothing else.
LEMMA FindPanicsInv ==
  ASSUME IInv, FindPanics
  PROVE  IInv'
  BY DEF FindPanics, IInv, TypeOK, EntriesFit, EntryFits, FreshIds, ProcessorFit,
    Present, taskVars, kbdVars

\* A poll that finds a preempted task returns to its user code in its context.
LEMMA ReturnToUserInv ==
  ASSUME IInv, ReturnToUser
  PROVE  IInv'
  <1> USE DEF IInv
  <1>1. TypeOK'
    BY DefaultTypes DEF ReturnToUser, TypeOK, WorkItem, taskVars, kbdVars
  <1>2. EntriesFit' /\ FreshIds'
    BY DEF ReturnToUser, EntriesFit, EntryFits, FreshIds, Present, taskVars
  <1>3. ProcessorFit'
    BY DEF ReturnToUser, ProcessorFit, Present, taskVars
  <1> QED
    BY <1>1, <1>2, <1>3

-----------------------------------------------------------------------------
(* The polls.                                                              *)

\* The task switch polls is present, not in user state, and not lost.
LEMMA PolledTask ==
  ASSUME IInv, NEW at, Polling(at)
  PROVE  /\ current \in TaskId
         /\ Present(current)
         /\ states[current].kind # "User"
         /\ states[current] # NoState
         /\ at # "Absent" => futures[current] # NoFuture /\ current \notin lost
  <1>1. /\ current \in TaskId
        /\ Present(current)
        /\ states[current].kind # "User"
        /\ states[current].kind # "Absent"
        /\ futures[current].at = at
    BY DEF IInv, TypeOK, ProcessorFit, Polling
  <1>2. states[current] # NoState /\ (at # "Absent" => futures[current] # NoFuture)
    BY <1>1 DEF NoState, NoFuture
  <1> QED
    BY <1>1, <1>2 DEF IInv, EntriesFit, EntryFits, Present

\* A poll that ends in run() with frame f, from maps that fit together.
LEMMA RunTaskInv ==
  ASSUME IInv,
         NEW t \in TaskId, NEW f \in Frame,
         NEW sm \in [TaskId -> TaskState], NEW fm \in [TaskId -> TaskFuture],
         tasks' \in [TaskId -> PageCtx \cup {NoCtx}],
         nextId' \in 1..(MaxTaskId + 1), cr3' \in PageCtx, lost' \subseteq TaskId,
         kbd' \in Seq(1..MaxKeys) /\ Len(kbd') <= KbdCap,
         keys' \in 0..MaxKeys, lastRead' \in 0..MaxKeys,
         current = t,
         IF t \in lost' THEN tasks'[t] = NoCtx \/ fm[t] = NoFuture
                        ELSE tasks'[t] # NoCtx /\ fm[t] # NoFuture,
         \A u \in TaskId : u # t => EntryFits(tasks'[u], sm[u], fm[u], u \in lost'),
         FreshIds',
         states' = RunTask(sm, t, f), futures' = AwaitTrap(fm, t, f),
         Pending
  PROVE  IInv'
  <1>1. /\ states' \in [TaskId -> TaskState]
        /\ futures' \in [TaskId -> TaskFuture]
        /\ states'[t] = [kind |-> "User", frame |-> f]
        /\ futures'[t] = IF fm[t] = NoFuture THEN NoFuture
                         ELSE [at |-> "TaskResume", frame |-> f]
        /\ \A u \in TaskId : u # t => states'[u] = sm[u] /\ futures'[u] = fm[u]
    BY DEF RunTask, AwaitTrap, TaskState, TaskFuture
  <1>2. TypeOK'
    BY <1>1 DEF IInv, TypeOK, Pending
  <1>3. EntryFits(tasks'[t], states'[t], futures'[t], t \in lost')
    BY <1>1 DEF EntryFits, NoState, NoFuture
  <1>4. EntriesFit'
    BY <1>1, <1>3 DEF EntriesFit
  <1>5. ProcessorFit'
    BY DEF Pending, ProcessorFit, Present
  <1> QED
    BY <1>2, <1>3, <1>4, <1>5 DEF IInv

\* The common case: the call changed neither TASKS nor the other maps.
LEMMA FinishInv ==
  ASSUME IInv, NEW f \in Frame, NEW r \in Results,
         NEW at, Polling(at),
         Finish(states, futures, f, r),
         at # "Absent",
         UNCHANGED <<tasks, nextId, lost>>, cr3' \in PageCtx,
         kbd' \in Seq(1..MaxKeys) /\ Len(kbd') <= KbdCap,
         keys' \in 0..MaxKeys, lastRead' \in 0..MaxKeys
  PROVE  IInv'
  <1> DEFINE g == [f EXCEPT !.rax = r]
  <1>1. g \in Frame
    BY ResultFrame
  <1>2. /\ current \in TaskId /\ Present(current)
        /\ current \notin lost /\ futures[current] # NoFuture
        /\ states[current] # NoState
    BY PolledTask
  <1>3. states' = RunTask(states, current, g) /\ futures' = AwaitTrap(futures, current, g) /\ Pending
    BY DEF Finish
  <1>4. FreshIds'
    BY <1>2, <1>3 DEF IInv, TypeOK, FreshIds, Present, RunTask, AwaitTrap
  <1> HIDE DEF g
  <1>5. \A u \in TaskId : u # current =>
           EntryFits(tasks'[u], states[u], futures[u], u \in lost')
    BY DEF IInv, EntriesFit
  <1>6. /\ tasks' \in [TaskId -> PageCtx \cup {NoCtx}]
        /\ nextId' \in 1..(MaxTaskId + 1)
        /\ states \in [TaskId -> TaskState]
        /\ futures \in [TaskId -> TaskFuture]
        /\ tasks'[current] # NoCtx
        /\ lost' \subseteq TaskId
    BY <1>2 DEF IInv, TypeOK, Present
  <1> QED
    BY <1>1, <1>2, <1>3, <1>4, <1>5, <1>6, RunTaskInv

\* The first poll of a new task resumes it with the frame it was created with.
LEMMA PollStartInv ==
  ASSUME IInv, PollStart
  PROVE  IInv'
  <1> DEFINE f == futures[current].frame
  <1>1. /\ current \in TaskId /\ Present(current)
        /\ current \notin lost /\ futures[current] # NoFuture
        /\ states[current] # NoState
    BY PolledTask DEF PollStart
  <1>2. /\ f \in Frame
        /\ tasks' \in [TaskId -> PageCtx \cup {NoCtx}]
        /\ nextId' \in 1..(MaxTaskId + 1)
        /\ cr3' \in PageCtx
        /\ kbd' \in Seq(1..MaxKeys) /\ Len(kbd') <= KbdCap
        /\ keys' \in 0..MaxKeys
        /\ lastRead' \in 0..MaxKeys
        /\ states \in [TaskId -> TaskState]
        /\ futures \in [TaskId -> TaskFuture]
        /\ tasks'[current] # NoCtx
        /\ lost' = lost /\ lost \subseteq TaskId
    BY <1>1 DEF PollStart, IInv, TypeOK, TaskFuture, Present, kbdVars
  <1>3. \A u \in TaskId : u # current =>
           EntryFits(tasks'[u], states[u], futures[u], u \in lost')
    BY DEF PollStart, IInv, EntriesFit
  <1>4. FreshIds'
    BY <1>1 DEF PollStart, IInv, TypeOK, FreshIds, Present, RunTask, AwaitTrap
  <1>5. states' = RunTask(states, current, f) /\ futures' = AwaitTrap(futures, current, f) /\ Pending
    BY DEF PollStart
  <1> HIDE DEF f
  <1> QED
    BY <1>1, <1>2, <1>3, <1>4, <1>5, RunTaskInv

\* The calls that return in the poll that dispatches them and create no task.
LEMMA ShortCallInv ==
  ASSUME IInv,
         \/ SyscallOther
         \/ SyscallSetPageContext
         \/ SyscallCreateTaskFails
         \/ SyscallReadStreamFails
  PROVE  IInv'
  <1>1. Polling("TaskResume")
    BY DEF SyscallOther, SyscallSetPageContext, SyscallCreateTaskFails,
      SyscallReadStreamFails, Dispatching
  <1>2. states[current].frame \in Frame
    BY <1>1, PolledTask DEF IInv, TypeOK, TaskState
  <1>3. PICK r \in Results : Finish(states, futures, states[current].frame, r)
    BY DEF SyscallOther, SyscallSetPageContext, SyscallCreateTaskFails,
      SyscallReadStreamFails
  <1>4. UNCHANGED <<tasks, nextId, lost, kbd, keys, lastRead>> /\ cr3' \in PageCtx
    BY DEF SyscallOther, SyscallSetPageContext, SyscallCreateTaskFails,
      SyscallReadStreamFails, kbdVars, IInv, TypeOK
  <1> QED
    BY <1>1, <1>2, <1>3, <1>4, FinishInv DEF IInv, TypeOK

\* exit removes the task from all three maps.
LEMMA SyscallExitInv ==
  ASSUME IInv, SyscallExit
  PROVE  IInv'
  BY DEF SyscallExit, IInv, TypeOK, EntriesFit, EntryFits, FreshIds, ProcessorFit,
    Present, taskVars, kbdVars

\* A waiting read that finds a scancode returns it to its task.
LEMMA ReadScancodeInv ==
  ASSUME IInv, NEW f \in Frame, NEW at, Polling(at), at # "Absent", ReadScancode(f)
  PROVE  IInv'
  <1> DEFINE K == 1..MaxKeys
  <1>1. PICK r \in Results : Finish(states, futures, f, r)
    BY DEF ReadScancode
  <1>2. kbd \in Seq(K) /\ kbd # <<>> /\ Len(kbd) <= KbdCap
    BY DEF IInv, TypeOK, ReadScancode
  <1>3. Head(kbd) \in K /\ Tail(kbd) \in Seq(K) /\ Len(Tail(kbd)) <= KbdCap
    <2> HIDE DEF K
    <2> QED BY <1>2, SchedAssumption
  <1>4. /\ kbd' \in Seq(1..MaxKeys) /\ Len(kbd') <= KbdCap
        /\ keys' \in 0..MaxKeys
        /\ lastRead' \in 0..MaxKeys
    BY <1>3, SchedAssumption DEF ReadScancode, IInv, TypeOK
  <1> QED
    BY <1>1, <1>4, FinishInv DEF ReadScancode, IInv, TypeOK

\* A read that finds the buffer empty stays in the future of its task.
LEMMA AwaitScancodeInv ==
  ASSUME IInv, NEW f \in Frame, NEW at, Polling(at), at # "Absent", AwaitScancode(f),
         states[current].kind = "SyscallEntry", states[current].frame = f
  PROVE  IInv'
  <1>1. /\ current \in TaskId /\ Present(current)
        /\ current \notin lost /\ futures[current] # NoFuture
        /\ states[current] # NoState
    BY PolledTask
  <1>2. /\ futures' \in [TaskId -> TaskFuture]
        /\ futures'[current] = [at |-> "ReadScancode", frame |-> f]
        /\ \A u \in TaskId : u # current => futures'[u] = futures[u]
    BY <1>1 DEF AwaitScancode, IInv, TypeOK, TaskFuture
  <1>3. TypeOK'
    BY <1>1, <1>2 DEF AwaitScancode, Pending, IInv, TypeOK, kbdVars
  <1>4. EntryFits(tasks[current], states[current], futures'[current], current \in lost)
    BY <1>1, <1>2 DEF EntryFits, Present, NoFuture
  <1>5. EntriesFit'
    BY <1>2, <1>4 DEF AwaitScancode, IInv, EntriesFit
  <1>6. FreshIds' /\ ProcessorFit'
    BY <1>1, <1>2 DEF AwaitScancode, Pending, IInv, FreshIds, ProcessorFit, Present
  <1> QED
    BY <1>3, <1>5, <1>6 DEF IInv

\* read_stream, and each later poll of it, returns or leaves the task waiting for a
\* scancode.
LEMMA ReadStreamInv ==
  ASSUME IInv, SyscallReadStream \/ PollReadScancode
  PROVE  IInv'
  <1>1. CASE SyscallReadStream
    <2>1. /\ Polling("TaskResume")
          /\ states[current].kind = "SyscallEntry"
          /\ \/ ReadScancode(states[current].frame)
             \/ AwaitScancode(states[current].frame)
      BY <1>1 DEF SyscallReadStream, Dispatching
    <2>2. states[current].frame \in Frame
      BY <2>1, PolledTask DEF IInv, TypeOK, TaskState
    <2> QED
      BY <2>1, <2>2, ReadScancodeInv, AwaitScancodeInv
  <1>2. CASE PollReadScancode
    <2>1. /\ Polling("ReadScancode")
          /\ \/ ReadScancode(futures[current].frame)
             \/ AwaitScancode(futures[current].frame)
      BY <1>2 DEF PollReadScancode
    <2>2. /\ futures[current].frame \in Frame
          /\ states[current].kind = "SyscallEntry"
          /\ states[current].frame = futures[current].frame
      BY <2>1, PolledTask DEF IInv, TypeOK, TaskFuture, EntriesFit, EntryFits, Polling
    <2> QED
      BY <2>1, <2>2, ReadScancodeInv, AwaitScancodeInv
  <1> QED
    BY <1>1, <1>2

\* A failed split leaves the init task alone: the left half keeps some id, and the
\* init task has the least.
LEMMA SplitSparesInit ==
  ASSUME NEW ids \in SUBSET TaskId, NEW cut \in TaskId, SplitsAt(ids, cut)
  PROVE  cut > InitTask
  <1>1. {t \in ids : t < cut} # {}
    <2>1. Cardinality({t \in ids : t < cut}) >= SplitKeeps
      BY DEF SplitsAt
    <2>2. ~(0 >= SplitKeeps)
      BY SchedAssumption
    <2> QED
      BY <2>1, <2>2, FS_EmptySet
  <1>2. PICK t \in TaskId : t < cut
    BY <1>1
  <1> QED
    BY <1>2 DEF TaskId, InitTask

(***************************************************************************)
(* The entries of the three maps after the inserts of spawn and its        *)
(* rollback: ok says that no allocation failed.                            *)
(***************************************************************************)
\* The entry e of id u in a map: lost, of the new id, or as it was.
Entry(e, u, v, none, ok, gone) ==
  IF u = nextId THEN IF ok THEN v ELSE none ELSE IF gone THEN none ELSE e

\* Wake and Start are what spawn inserts.
WakeState == [kind |-> "Wake", frame |-> Blank]
StartAt(f) == [at |-> "Start", frame |-> f]

\* What the spawn of a create_task does to the maps; S, F and T are the ids that
\* are lost from TASK_STATES, TASK_FUTURES and TASKS.
SpawnMaps(tm, sm, fm, c, f, ok, S, F, T) ==
  /\ tm \in [TaskId -> PageCtx \cup {NoCtx}]
  /\ sm \in [TaskId -> TaskState] /\ fm \in [TaskId -> TaskFuture]
  /\ \A u \in TaskId :
       /\ tm[u] = Entry(tasks[u], u, c, NoCtx, ok, u \in T)
       /\ sm[u] = Entry(states[u], u, WakeState, NoState, ok, u \in S)
       /\ fm[u] = Entry(futures[u], u, StartAt(f), NoFuture, ok, u \in F)
  /\ InitTask \notin S \cup F \cup T
  /\ ok => S \cup F \cup T = {}
  /\ \A u \in S \cup F \cup T : u \in TaskId /\ u < nextId

LEMMA CreateTaskMaps ==
  ASSUME IInv, SyscallCreateTask
  PROVE  \E sm \in [TaskId -> TaskState], fm \in [TaskId -> TaskFuture],
              c \in PageCtx, f \in Frame, ok \in BOOLEAN :
         \E S, F, T \in SUBSET TaskId :
           /\ SpawnMaps(tasks', sm, fm, c, f, ok, S, F, T)
           /\ lost' = lost \cup S \cup F \cup T
           /\ \/ sm[current] # NoState /\ \E r \in Results : Finish(sm, fm, states[current].frame, r)
              \/ sm[current] = NoState /\ states' = sm /\ futures' = fm /\ PollPanics
  <1>1. PICK c \in PageCtx, f \in Frame,
             failed \in (1..(SpawnAllocs + 1)) \ {ArcAlloc}, cut \in TaskId :
          /\ cut = nextId \/ SplitsAt(IdsAt(failed), cut)
          /\ SpawnTask(nextId, c, f, failed, cut)
    BY DEF SyscallCreateTask
  <1> DEFINE sm == SpawnInsert(states, nextId, WakeState, NoState, 2, failed, cut)
             fm == SpawnInsert(futures, nextId, StartAt(f), NoFuture, 4, failed, cut)
             tm == SpawnInsert(tasks, nextId, c, NoCtx, 5, failed, cut)
             ok == failed > SpawnAllocs
             S == {t \in TaskId : failed = 2 /\ states[t] # NoState /\ t >= cut}
             F == {t \in TaskId : failed = 4 /\ futures[t] # NoFuture /\ t >= cut}
             T == {t \in TaskId : failed = 5 /\ tasks[t] # NoCtx /\ t >= cut}
  <1>2. /\ tasks' = tm
        /\ lost' = lost \cup {t \in IdsAt(failed) : t >= cut}
        /\ \/ sm[current] # NoState /\ \E r \in Results : Finish(sm, fm, states[current].frame, r)
           \/ sm[current] = NoState /\ states' = sm /\ futures' = fm /\ PollPanics
    BY <1>1 DEF SpawnTask, WakeState, StartAt
  <1>3. /\ tasks \in [TaskId -> PageCtx \cup {NoCtx}]
        /\ states \in [TaskId -> TaskState]
        /\ futures \in [TaskId -> TaskFuture]
        /\ nextId \in TaskId /\ nextId \in Nat
        /\ tasks[nextId] = NoCtx /\ states[nextId] = NoState /\ futures[nextId] = NoFuture
        /\ failed \in 1..6 /\ cut \in Nat
    BY IdFacts DEF IInv, TypeOK, FreshIds, SyscallCreateTask, SpawnAllocs
  <1>4. \A t \in TaskId : (states[t].kind = "Absent" <=> states[t] = NoState)
                        /\ (futures[t].at = "Absent" <=> futures[t] = NoFuture)
    BY DEF IInv, EntriesFit, EntryFits, NoState, NoFuture
  <1>5. InitTask < cut
    <2>1. IdsAt(failed) \subseteq TaskId
      BY DEF IdsAt
    <2>2. InitTask # nextId /\ nextId >= InitTask
      BY <1>3, IdFacts DEF IInv, FreshIds, Present, TaskId, InitTask
    <2> QED
      BY <1>1, <1>3, <2>1, <2>2, SplitSparesInit, IdFacts
  <1>6. {t \in IdsAt(failed) : t >= cut} = S \cup F \cup T
    BY <1>4 DEF IdsAt, Present
  <1>7. WakeState \in TaskState /\ StartAt(f) \in TaskFuture
    BY BlankIsFrame DEF TaskState, TaskFuture, WakeState, StartAt
  <1>8. \A t \in TaskId : t >= cut => t \in Nat
    BY IdFacts
  <1> DEFINE w == WakeState
             st == StartAt(f)
  <1> HIDE DEF w, st
  <1>9. ASSUME NEW u \in TaskId
        PROVE  /\ tm[u] = Entry(tasks[u], u, c, NoCtx, ok, u \in T)
               /\ sm[u] = Entry(states[u], u, WakeState, NoState, ok, u \in S)
               /\ fm[u] = Entry(futures[u], u, StartAt(f), NoFuture, ok, u \in F)
    <2>1. tm[u] = Entry(tasks[u], u, c, NoCtx, ok, u \in T)
      BY <1>3 DEF SpawnInsert, Inserted, Entry, SpawnAllocs
    <2>2. sm[u] = Entry(states[u], u, WakeState, NoState, ok, u \in S)
      BY <1>3 DEF SpawnInsert, Inserted, Entry, SpawnAllocs
    <2>3. fm[u] = Entry(futures[u], u, StartAt(f), NoFuture, ok, u \in F)
      BY <1>3 DEF SpawnInsert, Inserted, Entry, SpawnAllocs
    <2> QED
      BY <2>1, <2>2, <2>3
  <1>10. /\ tm = [u \in TaskId |-> tm[u]] /\ sm = [u \in TaskId |-> sm[u]]
         /\ fm = [u \in TaskId |-> fm[u]]
    BY DEF SpawnInsert
  <1>11. InitTask \notin S \cup F \cup T
    BY <1>3, <1>5, IdFacts
  <1>12. \A u \in S \cup F \cup T : u \in TaskId /\ u < nextId
    BY <1>3, IdFacts DEF IInv, FreshIds
  <1>13. /\ S \in SUBSET TaskId /\ F \in SUBSET TaskId /\ T \in SUBSET TaskId
         /\ ok \in BOOLEAN
         /\ ok => S \cup F \cup T = {}
    BY <1>3 DEF SpawnAllocs
  <1> HIDE DEF sm, fm, tm, ok, S, F, T
  <1>14. /\ tm \in [TaskId -> PageCtx \cup {NoCtx}]
         /\ sm \in [TaskId -> TaskState] /\ fm \in [TaskId -> TaskFuture]
    BY <1>3, <1>7, <1>9, <1>10, DefaultTypes DEF Entry
  <1>15. SpawnMaps(tm, sm, fm, c, f, ok, S, F, T)
    BY <1>9, <1>11, <1>12, <1>13, <1>14 DEF SpawnMaps
  <1>16. lost' = lost \cup S \cup F \cup T
    BY <1>2, <1>6
  <1>17. \/ sm[current] # NoState /\ \E r \in Results : Finish(sm, fm, states[current].frame, r)
         \/ sm[current] = NoState /\ states' = sm /\ futures' = fm /\ PollPanics
    BY <1>2
  <1>18. tasks' = tm
    BY <1>2
  <1> /\ sm \in [TaskId -> TaskState] /\ fm \in [TaskId -> TaskFuture] /\ ok \in BOOLEAN
      /\ S \in SUBSET TaskId /\ F \in SUBSET TaskId /\ T \in SUBSET TaskId
    BY <1>13, <1>14
  <1> WITNESS sm \in [TaskId -> TaskState], fm \in [TaskId -> TaskFuture],
              c \in PageCtx, f \in Frame, ok \in BOOLEAN
  <1> WITNESS S \in SUBSET TaskId, F \in SUBSET TaskId, T \in SUBSET TaskId
  <1> QED
    BY <1>15, <1>16, <1>17, <1>18

\* After the inserts and the rollback the entries of every id fit together.
LEMMA SpawnMapsFit ==
  ASSUME IInv, NEW tm, NEW sm, NEW fm, NEW c \in PageCtx, NEW f \in Frame,
         NEW ok \in BOOLEAN, NEW S, NEW F, NEW T,
         SpawnMaps(tm, sm, fm, c, f, ok, S, F, T), nextId \in TaskId,
         NEW u \in TaskId
  PROVE  EntryFits(tm[u], sm[u], fm[u], u \in lost \cup S \cup F \cup T)
  <1>1. EntryFits(tasks[u], states[u], futures[u], u \in lost)
    BY DEF IInv, EntriesFit
  <1>2. /\ tm[u] = Entry(tasks[u], u, c, NoCtx, ok, u \in T)
        /\ sm[u] = Entry(states[u], u, WakeState, NoState, ok, u \in S)
        /\ fm[u] = Entry(futures[u], u, StartAt(f), NoFuture, ok, u \in F)
    BY DEF SpawnMaps
  <1>3. CASE u = nextId
    <2>1. u \notin lost \cup S \cup F \cup T
      BY <1>3, IdFacts DEF SpawnMaps, IInv, FreshIds
    <2>2. c # NoCtx /\ WakeState # NoState /\ StartAt(f) # NoFuture
      BY NoCtxAssumption DEF WakeState, StartAt, NoState, NoFuture
    <2> QED
      BY <1>2, <1>3, <2>1, <2>2 DEF Entry, EntryFits, WakeState, StartAt, NoState, NoFuture
  <1>4. CASE u # nextId
    <2>1. CASE u \in S \cup F \cup T
      BY <1>1, <1>2, <1>4, <2>1 DEF Entry, EntryFits, NoFuture
    <2>2. CASE u \notin S \cup F \cup T
      BY <1>1, <1>2, <1>4, <2>2 DEF Entry
    <2> QED
      BY <2>1, <2>2
  <1> QED
    BY <1>3, <1>4

\* create_task keeps the invariant, whichever of its allocations fails and
\* whatever goes with it.
LEMMA CreateTaskInv ==
  ASSUME IInv, SyscallCreateTask
  PROVE  IInv'
  <1>1. PICK sm \in [TaskId -> TaskState], fm \in [TaskId -> TaskFuture],
              c \in PageCtx, f \in Frame, ok \in BOOLEAN :
         \E S, F, T \in SUBSET TaskId :
           /\ SpawnMaps(tasks', sm, fm, c, f, ok, S, F, T)
           /\ lost' = lost \cup S \cup F \cup T
           /\ \/ sm[current] # NoState /\ \E r \in Results : Finish(sm, fm, states[current].frame, r)
              \/ sm[current] = NoState /\ states' = sm /\ futures' = fm /\ PollPanics
    BY CreateTaskMaps
  <1>2. PICK S \in SUBSET TaskId, F \in SUBSET TaskId, T \in SUBSET TaskId :
           /\ SpawnMaps(tasks', sm, fm, c, f, ok, S, F, T)
           /\ lost' = lost \cup S \cup F \cup T
    BY <1>1
  <1>3. /\ nextId \in TaskId /\ nextId' = nextId + 1
        /\ cr3' \in PageCtx
        /\ kbd' \in Seq(1..MaxKeys) /\ Len(kbd') <= KbdCap
        /\ keys' \in 0..MaxKeys
        /\ lastRead' \in 0..MaxKeys
        /\ Polling("TaskResume")
    BY DEF SyscallCreateTask, Dispatching, IInv, TypeOK, kbdVars
  <1>4. /\ current \in TaskId /\ Present(current)
        /\ current \notin lost /\ futures[current] # NoFuture /\ states[current] # NoState
        /\ states[current].frame \in Frame
        /\ current # nextId
    <2>1. /\ current \in TaskId /\ Present(current)
          /\ current \notin lost /\ futures[current] # NoFuture /\ states[current] # NoState
      BY <1>3, PolledTask
    <2> QED
      BY <2>1, <1>3, IdFacts DEF IInv, TypeOK, TaskState, FreshIds
  <1>5. nextId' \in 1..(MaxTaskId + 1) /\ lost' \subseteq TaskId
    BY <1>2, <1>3, SchedAssumption DEF TaskId, IInv, TypeOK
  <1>6. /\ tasks' \in [TaskId -> PageCtx \cup {NoCtx}]
        /\ sm \in [TaskId -> TaskState] /\ fm \in [TaskId -> TaskFuture]
    BY <1>2 DEF SpawnMaps
  <1>7. \A u \in TaskId : EntryFits(tasks'[u], sm[u], fm[u], u \in lost')
    BY <1>2, <1>3, SpawnMapsFit
  <1>8. /\ \A t \in TaskId : t >= nextId' =>
             tasks'[t] = NoCtx /\ sm[t] = NoState /\ fm[t] = NoFuture /\ t \notin lost'
        /\ InitTask \notin lost' /\ tasks'[InitTask] # NoCtx
    <2>1. ASSUME NEW t \in TaskId, t >= nextId'
          PROVE  tasks'[t] = NoCtx /\ sm[t] = NoState /\ fm[t] = NoFuture /\ t \notin lost'
      <3>1. t >= nextId /\ t # nextId
        BY <1>3, <2>1, IdFacts
      <3>2. tasks[t] = NoCtx /\ states[t] = NoState /\ futures[t] = NoFuture /\ t \notin lost
        BY <3>1 DEF IInv, FreshIds
      <3>3. tasks'[t] = NoCtx /\ sm[t] = NoState /\ fm[t] = NoFuture
        BY <1>2, <3>1, <3>2 DEF SpawnMaps, Entry
      <3>4. t \notin lost'
        BY <1>2, <1>3, <3>1, <3>2, IdFacts DEF SpawnMaps
      <3> QED
        BY <3>3, <3>4
    <2>2. InitTask \notin lost'
      BY <1>2 DEF SpawnMaps, IInv, FreshIds
    <2>3. tasks'[InitTask] # NoCtx
      <3>1. InitTask \notin T /\ tasks[InitTask] # NoCtx
        BY <1>2 DEF SpawnMaps, IInv, FreshIds, Present
      <3>2. InitTask # nextId
        BY <3>1, IdFacts, <1>3 DEF IInv, FreshIds
      <3>3. tasks'[InitTask] = Entry(tasks[InitTask], InitTask, c, NoCtx, ok, InitTask \in T)
        BY <1>2, IdFacts DEF SpawnMaps
      <3> QED
        BY <3>1, <3>2, <3>3 DEF Entry
    <2> QED
      BY <2>1, <2>2, <2>3
  <1>9. CASE sm[current] # NoState /\ \E r \in Results : Finish(sm, fm, states[current].frame, r)
    <2>1. PICK r \in Results : Finish(sm, fm, states[current].frame, r)
      BY <1>9
    <2> DEFINE g == [states[current].frame EXCEPT !.rax = r]
    <2>2. g \in Frame
      BY <1>4, ResultFrame
    <2>3. states' = RunTask(sm, current, g) /\ futures' = AwaitTrap(fm, current, g) /\ Pending
      BY <2>1 DEF Finish
    <2> HIDE DEF g
    <2>4. FreshIds'
      <3>1. \A t \in TaskId : t >= nextId' => t # current
        BY <1>3, <1>4, IdFacts DEF IInv, FreshIds
      <3>2. \A t \in TaskId : t # current => states'[t] = sm[t] /\ futures'[t] = fm[t]
        BY <1>4, <1>6, <2>3 DEF RunTask, AwaitTrap
      <3> QED
        BY <1>8, <3>1, <3>2 DEF FreshIds, Present
    <2>5. IF current \in lost' THEN tasks'[current] = NoCtx \/ fm[current] = NoFuture
                               ELSE tasks'[current] # NoCtx /\ fm[current] # NoFuture
      BY <1>4, <1>7, <1>9 DEF EntryFits
    <2> QED
      BY <1>3, <1>4, <1>5, <1>6, <1>7, <2>2, <2>3, <2>4, <2>5, RunTaskInv
  <1>10. CASE states' = sm /\ futures' = fm /\ PollPanics
    <2>1. TypeOK'
      BY <1>3, <1>5, <1>6, <1>10 DEF PollPanics, IInv, TypeOK
    <2>2. EntriesFit' /\ FreshIds'
      BY <1>7, <1>8, <1>10 DEF EntriesFit, FreshIds, Present
    <2>3. ProcessorFit'
      BY <1>10 DEF PollPanics, ProcessorFit
    <2> QED
      BY <2>1, <2>2, <2>3 DEF IInv
  <1> QED
    BY <1>1, <1>9, <1>10

\* A panic in Arc::new leaves the new id in TASK_STATES alone, and nothing runs any
\* more.
LEMMA CreateTaskPanicsInv ==
  ASSUME IInv, SyscallCreateTaskPanics
  PROVE  IInv'
  <1>1. /\ nextId \in TaskId /\ nextId' = nextId + 1
        /\ states' = [states EXCEPT ![nextId] = WakeState]
        /\ lost' = lost \cup {nextId}
        /\ PollPanics
        /\ UNCHANGED <<tasks, futures, cr3, kbd, keys, lastRead>>
    BY DEF SyscallCreateTaskPanics, WakeState, kbdVars
  <1>2. /\ WakeState \in TaskState
        /\ tasks[nextId] = NoCtx /\ futures[nextId] = NoFuture
        /\ InitTask # nextId
    BY <1>1, BlankIsFrame, IdFacts DEF WakeState, TaskState, IInv, FreshIds, Present
  <1>3. TypeOK'
    BY <1>1, <1>2, SchedAssumption DEF PollPanics, IInv, TypeOK, TaskId
  <1>4. EntriesFit'
    <2>1. \A t \in TaskId \ {nextId} : EntryFits(tasks'[t], states'[t], futures'[t], t \in lost')
      BY <1>1 DEF IInv, TypeOK, EntriesFit
    <2>2. EntryFits(tasks'[nextId], states'[nextId], futures'[nextId], nextId \in lost')
      BY <1>1, <1>2 DEF IInv, TypeOK, EntryFits, WakeState, NoState, NoFuture
    <2> QED
      BY <2>1, <2>2 DEF EntriesFit
  <1>5. FreshIds'
    BY <1>1, <1>2, IdFacts DEF IInv, TypeOK, FreshIds, Present
  <1>6. ProcessorFit'
    BY <1>1 DEF PollPanics, ProcessorFit
  <1> QED
    BY <1>3, <1>4, <1>5, <1>6 DEF IInv

-----------------------------------------------------------------------------
\* The invariant is inductive.
LEMMA NextInv == IInv /\ [Next]_vars => IInv'
  <1> SUFFICES ASSUME IInv, [Next]_vars PROVE IInv'
    OBVIOUS
  <1>1. CASE UserStep \/ PitInterrupt \/ CpuException \/ Halted \/ KeyboardInterrupt
    BY <1>1, UserSteps
  <1>2. CASE DispatchSyscall
    BY <1>2, DispatchSyscallInv
  <1>3. CASE SaveCurrentTask
    BY <1>3, SaveCurrentTaskInv
  <1>4. CASE FindNextWorkItem
    BY <1>4, FindNextWorkItemInv
  <1>5. CASE ReturnToUser \/ FindPanics
    BY <1>5, ReturnToUserInv, FindPanicsInv
  <1>6. CASE Poll
    BY <1>6, PollStartInv, ShortCallInv, SyscallExitInv, CreateTaskInv,
      CreateTaskPanicsInv, ReadStreamInv
    DEF Poll
  <1>7. CASE UNCHANGED vars
    BY <1>7 DEF vars, IInv, TypeOK, EntriesFit, EntryFits, FreshIds, ProcessorFit, Present
  <1> QED
    BY <1>1, <1>2, <1>3, <1>4, <1>5, <1>6, <1>7 DEF Next, Kernel

\* The inductive invariant holds in every state the kernel reaches.
THEOREM Invariance == Spec => []IInv
  BY InitInv, NextInv, PTL DEF Spec

\* Every variable keeps its type; in particular the keyboard buffer never holds
\* more than KbdCap scancodes.
THEOREM TypeCorrect == Spec => []TypeOK
  BY Invariance, PTL DEF IInv

\* task::spawn keeps TASKS, TASK_STATES and TASK_FUTURES in agreement whichever
\* of its allocations fails, up to the ids that a failed split has lost and the
\* id whose spawn panicked.
THEOREM SpawnKeepsMapsAgreeing == Spec => []MapsAgree
  <1>1. IInv => MapsAgree
    BY DEF IInv, EntriesFit, EntryFits, FreshIds, MapsAgree, Present, NoState, NoFuture
  <1> QED
    BY <1>1, Invariance, PTL

\* User code executes only for a task in state User and in its own page_ctx.
THEOREM UserRunsInItsContext == Spec => []UserContext
  <1>1. IInv => UserContext
    BY DEF IInv, TypeOK, ProcessorFit, UserContext
  <1> QED
    BY <1>1, Invariance, PTL

\* A future is polled in the page_ctx of its own task.
THEOREM PolledInItsContext == Spec => []PollContext
  <1>1. IInv => PollContext
    BY DEF IInv, ProcessorFit, PollContext
  <1> QED
    BY <1>1, Invariance, PTL

\* Both together: what the run of the scheduler checks.
THEOREM TasksKeepTheirContext == Spec => []ContextIsOwn
  <1>1. UserContext /\ PollContext => ContextIsOwn
    BY DEF ContextIsOwn
  <1> QED
    BY <1>1, UserRunsInItsContext, PolledInItsContext, PTL

\* No wake-up overwrites the saved frame or the pending trap of a task.
THEOREM NoTrapIsLost == Spec => []TrapNotLost
  <1>1. IInv => TrapNotLost
    BY DEF IInv, EntriesFit, EntryFits, TrapNotLost, NoFuture
  <1> QED
    BY <1>1, Invariance, PTL

-----------------------------------------------------------------------------
(* The keyboard buffer.                                                    *)

\* KeysInOrder alone is not inductive: with an empty buffer it does not say that
\* the last scancode read is of a key that was pressed.
KeysInv == KeysInOrder /\ lastRead <= keys

\* The interrupt handler puts a scancode that is greater than all before it at
\* the end, or drops it.
LEMMA PushKeepsOrder ==
  ASSUME TypeOK, KeysInv, KeyboardInterrupt
  PROVE  KeysInv'
  <1>1. /\ kbd \in Seq(1..MaxKeys) /\ Len(kbd) \in Nat /\ keys \in Nat /\ lastRead \in Nat
        /\ \A i \in 1..Len(kbd) : kbd[i] \in Nat
    BY SchedAssumption DEF TypeOK
  <1>2. keys' = keys + 1 /\ lastRead' = lastRead /\ kbd' = PushBack(keys + 1)
    BY DEF KeyboardInterrupt
  <1>3. CASE Len(kbd) < KbdCap
    <2>1. /\ Len(kbd') = Len(kbd) + 1 /\ kbd'[Len(kbd) + 1] = keys + 1
          /\ \A i \in 1..Len(kbd) : kbd'[i] = kbd[i]
      BY <1>1, <1>2, <1>3 DEF PushBack
    <2>2. lastRead < keys + 1
      BY <1>1 DEF KeysInv
    <2>3. ASSUME NEW i \in 1..Len(kbd') PROVE lastRead < kbd'[i] /\ kbd'[i] <= keys + 1
      BY <1>1, <2>1, <2>2, <2>3 DEF KeysInv, KeysInOrder
    <2>4. ASSUME NEW i \in 1..Len(kbd'), NEW j \in 1..Len(kbd'), i < j PROVE kbd'[i] < kbd'[j]
      <3>1. i \in 1..Len(kbd)
        BY <1>1, <2>1, <2>4
      <3>2. CASE j = Len(kbd) + 1
        BY <1>1, <2>1, <3>1, <3>2 DEF KeysInv, KeysInOrder
      <3>3. CASE j # Len(kbd) + 1
        <4>1. j \in 1..Len(kbd)
          BY <1>1, <2>1, <3>3
        <4> QED
          BY <2>1, <2>4, <3>1, <4>1 DEF KeysInv, KeysInOrder
      <3> QED
        BY <3>2, <3>3
    <2>5. Len(kbd') <= KbdCap
      BY <1>1, <1>3, <2>1, SchedAssumption
    <2>6. lastRead' <= keys'
      BY <1>1, <1>2, <2>2
    <2> QED
      BY <1>2, <2>3, <2>4, <2>5, <2>6 DEF KeysInv, KeysInOrder
  <1>4. CASE ~(Len(kbd) < KbdCap)
    <2>1. kbd' = kbd
      BY <1>2, <1>4 DEF PushBack
    <2>2. ASSUME NEW i \in 1..Len(kbd) PROVE lastRead < kbd[i] /\ kbd[i] <= keys + 1
      BY <1>1, <2>2 DEF KeysInv, KeysInOrder
    <2>3. lastRead' <= keys'
      BY <1>1, <1>2 DEF KeysInv
    <2> QED
      BY <1>2, <2>1, <2>2, <2>3 DEF KeysInv, KeysInOrder
  <1> QED
    BY <1>3, <1>4

\* The reader takes the least scancode, from the front.
LEMMA ReadKeepsOrder ==
  ASSUME TypeOK, KeysInv, kbd # <<>>, lastRead' = Head(kbd), kbd' = Tail(kbd), UNCHANGED keys
  PROVE  KeysInv'
  <1>1. /\ kbd \in Seq(1..MaxKeys) /\ Len(kbd) \in Nat /\ Len(kbd) > 0
        /\ KbdCap \in Nat
    BY SchedAssumption DEF TypeOK
  <1>2. /\ Len(kbd') = Len(kbd) - 1 /\ lastRead' = kbd[1]
        /\ \A i \in 1..Len(kbd') : i + 1 \in 1..Len(kbd) /\ kbd'[i] = kbd[i + 1]
    BY <1>1
  <1>3. Len(kbd') <= KbdCap
    BY <1>1, <1>2 DEF KeysInv, KeysInOrder
  <1>4. ASSUME NEW i \in 1..Len(kbd') PROVE lastRead' < kbd'[i] /\ kbd'[i] <= keys'
    <2>1. 1 \in 1..Len(kbd) /\ 1 < i + 1
      BY <1>1
    <2> QED
      BY <1>2, <2>1 DEF KeysInv, KeysInOrder
  <1>5. ASSUME NEW i \in 1..Len(kbd'), NEW j \in 1..Len(kbd'), i < j PROVE kbd'[i] < kbd'[j]
    <2>1. i + 1 < j + 1
      BY <1>5
    <2> QED
      BY <1>2, <2>1 DEF KeysInv, KeysInOrder
  <1>6. lastRead' <= keys'
    <2>1. 1 \in 1..Len(kbd)
      BY <1>1
    <2> QED
      BY <1>2, <2>1 DEF KeysInv, KeysInOrder
  <1> QED
    BY <1>3, <1>4, <1>5, <1>6 DEF KeysInv, KeysInOrder

\* keyboard.rs: programs read the scancodes in the order of the key presses, none
\* twice, and the buffer stays within its capacity.
THEOREM KeysArriveInOrder == Spec => []KeysInOrder
  <1>1. Init => KeysInv
    BY SchedAssumption DEF Init, KeysInv, KeysInOrder
  <1>2. TypeOK /\ KeysInv /\ [Next]_vars => KeysInv'
    <2> SUFFICES ASSUME TypeOK, KeysInv, [Next]_vars PROVE KeysInv'
      OBVIOUS
    <2>1. CASE UNCHANGED kbdVars
      BY <2>1 DEF kbdVars, KeysInv, KeysInOrder
    <2>2. CASE KeyboardInterrupt
      BY <2>2, PushKeepsOrder
    <2>3. ASSUME NEW f, ReadScancode(f) PROVE KeysInv'
      BY <2>3, ReadKeepsOrder DEF ReadScancode
    <2>4. ASSUME NEW f, AwaitScancode(f) PROVE KeysInv'
      BY <2>4, <2>1 DEF AwaitScancode
    <2>5. CASE SyscallReadStream \/ PollReadScancode
      BY <2>3, <2>4, <2>5 DEF SyscallReadStream, PollReadScancode
    <2>6. CASE UserStep \/ PitInterrupt \/ DispatchSyscall \/ CpuException \/ Halted \/ UNCHANGED vars
      BY <2>1, <2>6 DEF UserStep, PitInterrupt, DispatchSyscall, CpuException, Halted, vars, kbdVars
    <2>7. CASE SaveCurrentTask \/ FindNextWorkItem \/ FindPanics \/ ReturnToUser \/ PollStart
      BY <2>1, <2>7 DEF SaveCurrentTask, FindNextWorkItem, FindPanics, ReturnToUser, PollStart
    <2>8. CASE SyscallOther \/ SyscallSetPageContext \/ SyscallExit \/ SyscallCreateTask
               \/ SyscallCreateTaskPanics \/ SyscallCreateTaskFails \/ SyscallReadStreamFails
      BY <2>1, <2>8 DEF SyscallOther, SyscallSetPageContext, SyscallExit, SyscallCreateTask,
        SyscallCreateTaskPanics, SyscallCreateTaskFails, SyscallReadStreamFails
    <2> QED
      BY <2>2, <2>5, <2>6, <2>7, <2>8 DEF Next, Kernel, Poll
  <1>3. KeysInv => KeysInOrder
    BY DEF KeysInv
  <1> QED
    BY <1>1, <1>2, <1>3, TypeCorrect, PTL DEF Spec

-----------------------------------------------------------------------------
(* The refinement: each step of the scheduler is a step of VirtualCpus or  *)
(* leaves what VirtualCpus sees unchanged.                                 *)

\* The steps by which user code runs, is interrupted or traps.
LEMMA UserRefines ==
  ASSUME IInv, UserStep \/ PitInterrupt \/ CpuException \/ Halted \/ KeyboardInterrupt
  PROVE  [Virtual!Next]_(Virtual!vars)
  <1>1. CASE UserStep
    <2>1. current \in TaskId /\ states[current].kind = "User" /\ kpc = "User"
      BY <1>1 DEF UserStep, IInv, TypeOK, ProcessorFit
    <2>2. PICK f \in Frame : frame' = f
      BY <1>1 DEF UserStep
    <2>3. UNCHANGED <<states, futures, current, kpc>>
      BY <1>1 DEF UserStep, taskVars
    <2>4. \A t \in TaskId : PhaseOf(t)' = PhaseOf(t)
      BY <2>3 DEF PhaseOf
    <2>5. \A t \in TaskId : RegsOf(t)' = IF t = current THEN f ELSE RegsOf(t)
      BY <2>1, <2>2, <2>3 DEF RegsOf
    <2>6. Virtual!Execute(current)
      BY <2>1, <2>2, <2>3, <2>4, <2>5 DEF Virtual!Execute, Virtual!Frame, Frame
    <2> QED
      BY <2>1, <2>6 DEF Virtual!Next
  <1>2. CASE PitInterrupt \/ CpuException
    <2>1. \A t \in TaskId : PhaseOf(t)' = PhaseOf(t) /\ RegsOf(t)' = RegsOf(t)
      BY <1>2 DEF PitInterrupt, CpuException, PhaseOf, RegsOf, taskVars
    <2>2. Virtual!Preempt
      BY <1>2, <2>1 DEF PitInterrupt, CpuException, Virtual!Preempt, Virtual!Nobody, NoTask
    <2> QED
      BY <2>2 DEF Virtual!Next
  <1>3. CASE Halted \/ KeyboardInterrupt
    <2>1. UNCHANGED <<states, futures, current, frame, kpc>>
      BY <1>3 DEF Halted, KeyboardInterrupt, vars, taskVars, switchVars
    <2>2. \A t \in TaskId : PhaseOf(t)' = PhaseOf(t) /\ RegsOf(t)' = RegsOf(t)
      BY <2>1 DEF PhaseOf, RegsOf
    <2> QED
      BY <2>1, <2>2 DEF Virtual!vars
  <1> QED
    BY <1>1, <1>2, <1>3

\* The trap of a system call is the abstract task entering its call.
LEMMA DispatchRefines ==
  ASSUME IInv, DispatchSyscall
  PROVE  Virtual!Next
  <1>1. /\ current \in TaskId
        /\ states[current].kind = "User"
        /\ states' = [states EXCEPT ![current] =
                        [kind |-> "SyscallEntry", frame |-> frame]]
        /\ kpc = "User" /\ kpc' = "Save"
        /\ UNCHANGED <<futures, current, frame>>
        /\ states \in [TaskId -> TaskState]
    BY DEF DispatchSyscall, IInv, TypeOK, ProcessorFit
  <1>2. \A t \in TaskId : RegsOf(t)' = RegsOf(t)
    BY <1>1 DEF RegsOf
  <1>3. PhaseOf(current) = "user"
    BY <1>1 DEF PhaseOf
  <1>4. \A t \in TaskId : PhaseOf(t)' = IF t = current THEN "call" ELSE PhaseOf(t)
    BY <1>1 DEF PhaseOf
  <1>5. Virtual!Call(current)
    BY <1>1, <1>2, <1>3, <1>4 DEF Virtual!Call, Virtual!Nobody, NoTask
  <1> QED
    BY <1>1, <1>5 DEF Virtual!Next

\* Saving the registers, choosing the next task and switching cr3 are not seen,
\* and loading a frame gives the task the processor with its own registers.
LEMMA SwitchRefines ==
  ASSUME IInv, SaveCurrentTask \/ FindNextWorkItem \/ FindPanics \/ ReturnToUser
  PROVE  [Virtual!Next]_(Virtual!vars)
  <1>1. CASE SaveCurrentTask
    <2>1. /\ states \in [TaskId -> TaskState]
          /\ kpc = "Save" /\ kpc' = "Find"
          /\ UNCHANGED <<futures, current, frame>>
          /\ states' = IF current # NoTask /\ states[current].kind = "User"
                       THEN [states EXCEPT ![current].frame = frame]
                       ELSE states
          /\ current \in TaskId \cup {NoTask}
      BY <1>1 DEF SaveCurrentTask, IInv, TypeOK, ProcessorFit
    <2>2. \A t \in TaskId : states'[t].kind = states[t].kind
      BY <2>1 DEF TaskState
    <2>3. \A t \in TaskId : PhaseOf(t)' = PhaseOf(t)
      BY <2>1, <2>2 DEF PhaseOf
    <2>4. \A t \in TaskId : RegsOf(t)' = RegsOf(t)
      BY <2>1, <2>2, IdFacts DEF RegsOf, TaskState
    <2> QED
      BY <2>1, <2>3, <2>4 DEF Virtual!vars
  <1>2. CASE FindNextWorkItem \/ FindPanics
    <2>1. kpc = "Find" /\ kpc' \in {"Run", "Panic"} /\ UNCHANGED <<states, futures>>
      BY <1>2 DEF FindNextWorkItem, FindPanics, taskVars
    <2>2. \A t \in TaskId : PhaseOf(t)' = PhaseOf(t) /\ RegsOf(t)' = RegsOf(t)
      BY <2>1 DEF PhaseOf, RegsOf
    <2> QED
      BY <2>1, <2>2 DEF Virtual!vars
  <1>3. CASE ReturnToUser
    <2>1. /\ kpc = "Run" /\ kpc' = "User"
          /\ UNCHANGED <<states, futures, current>>
          /\ current \in TaskId
          /\ states[current].kind = "User"
          /\ frame' = states[current].frame
      BY <1>3 DEF ReturnToUser, taskVars, IInv, TypeOK, ProcessorFit
    <2>2. \A t \in TaskId : PhaseOf(t)' = PhaseOf(t) /\ RegsOf(t)' = RegsOf(t)
      BY <2>1 DEF PhaseOf, RegsOf
    <2>3. PhaseOf(current) = "user"
      BY <2>1 DEF PhaseOf
    <2>4. Virtual!Run(current)
      BY <2>1, <2>2, <2>3 DEF Virtual!Run, Virtual!Nobody, NoTask
    <2> QED
      BY <2>1, <2>4 DEF Virtual!Next
  <1> QED
    BY <1>1, <1>2, <1>3

\* A poll in which a system call returns, having changed the entries of no other
\* task.
LEMMA FinishRefines ==
  ASSUME IInv, NEW at, Polling(at), at # "Absent", NEW r \in Results,
         states[current].kind = "SyscallEntry",
         Finish(states, futures, states[current].frame, r)
  PROVE  Virtual!Next
  <1> DEFINE g == [states[current].frame EXCEPT !.rax = r]
  <1>1. /\ current \in TaskId
        /\ kpc = "Run" /\ kpc' = "Find" /\ UNCHANGED current
        /\ states \in [TaskId -> TaskState] /\ futures \in [TaskId -> TaskFuture]
    BY PolledTask DEF Finish, Pending, Polling, IInv, TypeOK
  <1>2. /\ states' = [states EXCEPT ![current] = [kind |-> "User", frame |-> g]]
        /\ futures' = [futures EXCEPT ![current] = [at |-> "TaskResume", frame |-> g]]
    <2>1. futures[current] # NoFuture
      BY PolledTask
    <2> QED
      BY <2>1 DEF Finish, RunTask, AwaitTrap
  <1> HIDE DEF g
  <1>3. PhaseOf(current) = "call" /\ RegsOf(current) = states[current].frame
    BY <1>1 DEF PhaseOf, RegsOf
  <1>4. \A t \in TaskId : PhaseOf(t)' = IF t = current THEN "user" ELSE PhaseOf(t)
    BY <1>1, <1>2 DEF PhaseOf
  <1>5. \A t \in TaskId : RegsOf(t)' = IF t = current THEN g ELSE RegsOf(t)
    BY <1>1, <1>2 DEF RegsOf
  <1>6. Virtual!Return(current, r)
    BY <1>1, <1>3, <1>4, <1>5 DEF Virtual!Return, Virtual!Nobody, NoTask, g
  <1> QED
    BY <1>1, <1>6 DEF Virtual!Next

\* create_task: the caller's call returns and, if spawn succeeded, a task that
\* did not exist has come into being with its initial registers; if it failed,
\* the tasks whose entries are lost are gone.
LEMMA CreateTaskRefines ==
  ASSUME IInv, SyscallCreateTask
  PROVE  Virtual!Next
  <1>1. PICK sm \in [TaskId -> TaskState], fm \in [TaskId -> TaskFuture],
              c \in PageCtx, f \in Frame, ok \in BOOLEAN :
         \E S, F, T \in SUBSET TaskId :
           /\ SpawnMaps(tasks', sm, fm, c, f, ok, S, F, T)
           /\ lost' = lost \cup S \cup F \cup T
           /\ \/ sm[current] # NoState /\ \E r \in Results : Finish(sm, fm, states[current].frame, r)
              \/ sm[current] = NoState /\ states' = sm /\ futures' = fm /\ PollPanics
    BY CreateTaskMaps
  <1>2. PICK S \in SUBSET TaskId, F \in SUBSET TaskId, T \in SUBSET TaskId :
           SpawnMaps(tasks', sm, fm, c, f, ok, S, F, T)
    BY <1>1
  <1>0. PICK n : n = nextId
    OBVIOUS
  <1>3. /\ n = nextId /\ n \in TaskId /\ kpc = "Run"
        /\ Polling("TaskResume") /\ states[current].kind = "SyscallEntry"
    BY <1>0 DEF SyscallCreateTask, Dispatching, Polling
  <1>4. /\ current \in TaskId /\ current # n
        /\ states[n] = NoState
        /\ states \in [TaskId -> TaskState] /\ futures \in [TaskId -> TaskFuture]
    <2>1. current \in TaskId /\ states[current] # NoState
      BY <1>3, PolledTask
    <2> QED
      BY <1>3, <2>1, IdFacts DEF IInv, TypeOK, FreshIds
  <1>5. /\ sm \in [TaskId -> TaskState] /\ fm \in [TaskId -> TaskFuture]
        /\ \A u \in TaskId :
             /\ sm[u] = Entry(states[u], u, WakeState, NoState, ok, u \in S)
             /\ fm[u] = Entry(futures[u], u, StartAt(f), NoFuture, ok, u \in F)
    BY <1>2 DEF SpawnMaps
  <1>6. /\ PhaseOf(current) = "call" /\ RegsOf(current) = states[current].frame
        /\ PhaseOf(n) = "absent"
    BY <1>3, <1>4 DEF PhaseOf, RegsOf, NoState
  <1>7. \A t \in TaskId : (states[t].kind = "Absent" <=> states[t] = NoState)
                        /\ (futures[t].at = "Absent" <=> futures[t] = NoFuture)
    BY DEF IInv, EntriesFit, EntryFits, NoState, NoFuture
  <1> DEFINE gone == {u \in TaskId : sm[u] = NoState \/ (sm[u].kind = "Wake" /\ fm[u] = NoFuture)}
  <1>8. InitTask \notin gone
    <2>1. /\ Present(InitTask) /\ InitTask \notin lost /\ InitTask \in TaskId
          /\ InitTask \notin S \cup F /\ InitTask # n
      BY <1>2, <1>3, IdFacts DEF IInv, FreshIds, SpawnMaps, Present
    <2>2. states[InitTask] # NoState /\ futures[InitTask] # NoFuture
      BY <2>1 DEF IInv, EntriesFit, EntryFits, Present
    <2> QED
      BY <1>3, <1>5, <2>1, <2>2 DEF Entry
  \* The tasks that stay, other than the caller and the new one, are not touched.
  <1>9. ASSUME NEW u \in TaskId, u # current, u # n, u \notin gone,
               states'[u] = sm[u], futures'[u] = fm[u]
        PROVE  PhaseOf(u)' = PhaseOf(u) /\ RegsOf(u)' = RegsOf(u)
    <2>1. CASE current' = current /\ kpc' # "User"
      <3>1. sm[u] = states[u] /\ states[u] # NoState
        BY <1>3, <1>5, <1>9 DEF Entry
      <3>2. states[u].kind = "Wake" => fm[u] = futures[u] /\ fm[u] # NoFuture
        BY <1>3, <1>5, <1>9, <3>1 DEF Entry
      <3>3. states[u].kind # "Absent" /\ (states[u].kind = "Wake" => futures[u].at # "Absent")
        BY <1>7, <3>1, <3>2
      <3> QED
        BY <1>9, <2>1, <3>1, <3>2, <3>3, <1>3 DEF PhaseOf, RegsOf
    <2>2. current' = current /\ kpc' # "User"
      BY <1>1 DEF Finish, Pending, PollPanics
    <2> QED
      BY <2>1, <2>2
  \* The ids that are not there afterwards.
  <1>10. ASSUME NEW u \in gone, states'[u] = sm[u], futures'[u] = fm[u]
         PROVE  PhaseOf(u)' = "absent" /\ RegsOf(u)' = Blank
    BY <1>10 DEF PhaseOf, RegsOf, NoState, NoFuture
  <1>11. Blank \in Virtual!Frame /\ f \in Virtual!Frame /\ gone \in SUBSET TaskId
    BY BlankIsFrame DEF Frame, Virtual!Frame
  <1> HIDE DEF gone
  <1>12. CASE sm[current] # NoState /\ \E r \in Results : Finish(sm, fm, states[current].frame, r)
    <2>1. PICK r \in Results : Finish(sm, fm, states[current].frame, r)
      BY <1>12
    <2> DEFINE g == [states[current].frame EXCEPT !.rax = r]
    <2>2. /\ states' = RunTask(sm, current, g) /\ futures' = AwaitTrap(fm, current, g)
          /\ kpc' = "Find" /\ UNCHANGED current
      BY <2>1 DEF Finish, Pending
    <2> HIDE DEF g
    <2>3. /\ states'[current] = [kind |-> "User", frame |-> g]
          /\ \A u \in TaskId : u # current => states'[u] = sm[u] /\ futures'[u] = fm[u]
      BY <1>4, <1>5, <2>2 DEF RunTask, AwaitTrap
    <2>4. PhaseOf(current)' = "user" /\ RegsOf(current)' = g
      BY <2>2, <2>3 DEF PhaseOf, RegsOf
    <2>5. current \notin gone
      <3>1. sm[current] = states[current]
        BY <1>3, <1>4, <1>5, <1>12 DEF Entry
      <3> QED
        BY <1>3, <1>12, <3>1 DEF gone
    <2>6. CASE ok
      <3>1. sm[n] = WakeState /\ fm[n] = StartAt(f)
        BY <1>3, <1>5, <2>6 DEF Entry
      <3>2. PhaseOf(n)' = "user" /\ RegsOf(n)' = f
        BY <1>3, <1>4, <2>2, <2>3, <3>1 DEF PhaseOf, RegsOf, WakeState, StartAt
      <3>3. S = {} /\ F = {}
        BY <2>6, <1>2 DEF SpawnMaps
      <3>4. \A u \in TaskId : u # current /\ u # n =>
              states'[u] = states[u] /\ futures'[u] = futures[u]
        BY <1>3, <1>5, <2>3, <3>3 DEF Entry
      <3>5. \A u \in TaskId : u # current /\ u # n =>
              PhaseOf(u)' = PhaseOf(u) /\ RegsOf(u)' = RegsOf(u)
        <4> SUFFICES ASSUME NEW u \in TaskId, u # current, u # n
                     PROVE  PhaseOf(u)' = PhaseOf(u) /\ RegsOf(u)' = RegsOf(u)
          OBVIOUS
        <4> QED
          BY <3>4, <2>2 DEF PhaseOf, RegsOf
      <3>6. Virtual!Spawn(current, r, n, f)
        BY <1>3, <1>4, <1>6, <2>2, <2>4, <3>2, <3>5 DEF Virtual!Spawn, Virtual!Nobody, NoTask, g
      <3> QED
        BY <1>3, <1>4, <1>11, <3>6 DEF Virtual!Next
    <2>7. CASE ~ok
      <3>1. n \in gone
        BY <1>3, <1>5, <2>7 DEF Entry, gone
      <3>2. \A u \in TaskId :
              /\ PhaseOf(u)' = IF u \in gone THEN "absent"
                               ELSE IF u = current THEN "user" ELSE PhaseOf(u)
              /\ RegsOf(u)' = IF u \in gone THEN Blank
                              ELSE IF u = current THEN g ELSE RegsOf(u)
        <4> SUFFICES ASSUME NEW u \in TaskId
                     PROVE  /\ PhaseOf(u)' = IF u \in gone THEN "absent"
                                             ELSE IF u = current THEN "user" ELSE PhaseOf(u)
                            /\ RegsOf(u)' = IF u \in gone THEN Blank
                                            ELSE IF u = current THEN g ELSE RegsOf(u)
          OBVIOUS
        <4>1. CASE u \in gone
          BY <1>10, <2>3, <2>5, <4>1
        <4>2. CASE u = current
          BY <2>2, <2>4, <2>5, <4>2
        <4>3. CASE u \notin gone /\ u # current
          BY <1>9, <2>3, <3>1, <4>3
        <4> QED
          BY <4>1, <4>2, <4>3
      <3>3. Virtual!Lose(current, r, gone, Blank)
        BY <1>3, <1>4, <1>6, <1>8, <2>2, <3>2 DEF Virtual!Lose, Virtual!Nobody, NoTask, g
      <3> QED
        BY <1>4, <1>11, <3>3 DEF Virtual!Next
    <2> QED
      BY <2>6, <2>7
  <1>13. CASE sm[current] = NoState /\ states' = sm /\ futures' = fm /\ PollPanics
    <2>1. kpc' = "Panic" /\ UNCHANGED current /\ current \in gone
      BY <1>4, <1>13 DEF PollPanics, gone
    <2>2. ~ok
      <3>1. states[current] # NoState
        BY <1>3 DEF NoState
      <3>2. ASSUME ok PROVE FALSE
        <4>1. S = {}
          BY <1>2, <3>2 DEF SpawnMaps
        <4> QED
          BY <1>3, <1>4, <1>5, <1>13, <3>1, <4>1 DEF Entry
      <3> QED
        BY <3>2
    <2>3. n \in gone
      BY <1>3, <1>5, <2>2 DEF Entry, gone
    <2>4. \A u \in TaskId :
            /\ PhaseOf(u)' = IF u \in gone THEN "absent" ELSE PhaseOf(u)
            /\ RegsOf(u)' = IF u \in gone THEN Blank ELSE RegsOf(u)
      BY <1>9, <1>10, <1>13, <2>1, <2>3
    <2>5. PICK r \in Results : TRUE
      BY SchedAssumption
    <2>6. Virtual!Lose(current, r, gone, Blank)
      BY <1>3, <1>4, <1>6, <1>8, <2>1, <2>4 DEF Virtual!Lose, Virtual!Nobody, NoTask
    <2> QED
      BY <1>4, <1>11, <2>5, <2>6 DEF Virtual!Next
  <1> QED
    BY <1>1, <1>12, <1>13

\* Every poll of a future is a step of VirtualCpus or is not seen.
LEMMA PollRefines ==
  ASSUME IInv, Poll
  PROVE  [Virtual!Next]_(Virtual!vars)
  <1>1. CASE PollStart
    <2> DEFINE f == futures[current].frame
    <2>1. /\ current \in TaskId /\ futures[current].at = "Start"
          /\ kpc = "Run" /\ kpc' = "Find" /\ UNCHANGED current
          /\ states \in [TaskId -> TaskState] /\ futures \in [TaskId -> TaskFuture]
      BY <1>1, PolledTask DEF PollStart, Pending, Polling, IInv, TypeOK
    <2>2. states[current].kind = "Wake"
      <3>1. states[current] # NoState
        BY <1>1, PolledTask DEF PollStart
      <3> QED
        BY <2>1, <3>1 DEF IInv, EntriesFit, EntryFits
    <2>3. /\ states' = [states EXCEPT ![current] = [kind |-> "User", frame |-> f]]
          /\ futures' = [futures EXCEPT ![current] = [at |-> "TaskResume", frame |-> f]]
      <3>1. futures[current] # NoFuture
        BY <1>1, PolledTask DEF PollStart
      <3> QED
        BY <1>1, <3>1 DEF PollStart, RunTask, AwaitTrap
    <2>4. \A t \in TaskId : PhaseOf(t)' = PhaseOf(t) /\ RegsOf(t)' = RegsOf(t)
      BY <2>1, <2>2, <2>3 DEF PhaseOf, RegsOf
    <2> QED
      BY <2>1, <2>4 DEF Virtual!vars
  <1>2. CASE SyscallOther \/ SyscallSetPageContext \/ SyscallCreateTaskFails \/ SyscallReadStreamFails
    <2>1. Polling("TaskResume") /\ states[current].kind = "SyscallEntry"
      BY <1>2 DEF SyscallOther, SyscallSetPageContext, SyscallCreateTaskFails,
        SyscallReadStreamFails, Dispatching
    <2>2. PICK r \in Results : Finish(states, futures, states[current].frame, r)
      BY <1>2 DEF SyscallOther, SyscallSetPageContext, SyscallCreateTaskFails,
        SyscallReadStreamFails
    <2> QED
      BY <2>1, <2>2, FinishRefines
  <1>3. CASE SyscallExit
    <2>1. /\ kpc = "Run" /\ kpc' = "Panic" /\ current \in TaskId
          /\ UNCHANGED <<states, futures, current>>
          /\ states[current].kind = "SyscallEntry"
      BY <1>3, PolledTask DEF SyscallExit, Dispatching, Polling, taskVars
    <2>2. \A t \in TaskId : PhaseOf(t)' = PhaseOf(t) /\ RegsOf(t)' = RegsOf(t)
      BY <2>1 DEF PhaseOf, RegsOf
    <2> QED
      BY <2>1, <2>2 DEF Virtual!vars
  <1>4. CASE SyscallCreateTask
    BY <1>4, CreateTaskRefines
  <1>6. CASE SyscallCreateTaskPanics
    <2>0. PICK n : n = nextId
      OBVIOUS
    <2>1. /\ kpc = "Run" /\ kpc' = "Panic" /\ UNCHANGED <<current, futures>>
          /\ states' = [states EXCEPT ![n] = WakeState]
          /\ n \in TaskId
          /\ states[n] = NoState /\ futures[n] = NoFuture
          /\ states \in [TaskId -> TaskState]
      BY <1>6, <2>0, IdFacts DEF SyscallCreateTaskPanics, PollPanics, Dispatching, Polling, WakeState,
        IInv, TypeOK, FreshIds
    <2>2. PhaseOf(n)' = PhaseOf(n) /\ RegsOf(n)' = RegsOf(n)
      BY <2>1 DEF PhaseOf, RegsOf, WakeState, NoState, NoFuture
    <2>3. \A t \in TaskId : t # n => PhaseOf(t)' = PhaseOf(t) /\ RegsOf(t)' = RegsOf(t)
      BY <2>1 DEF PhaseOf, RegsOf
    <2> QED
      BY <2>1, <2>2, <2>3 DEF Virtual!vars
  <1>5. CASE SyscallReadStream \/ PollReadScancode
    <2>1. PICK at \in {"TaskResume", "ReadScancode"} :
            /\ Polling(at)
            /\ states[current].kind = "SyscallEntry"
            /\ \/ ReadScancode(states[current].frame)
               \/ AwaitScancode(states[current].frame)
      <3>1. CASE SyscallReadStream
        BY <3>1 DEF SyscallReadStream, Dispatching
      <3>2. CASE PollReadScancode
        <4>1. Polling("ReadScancode") /\ current \in TaskId /\ states[current] # NoState
          BY <3>2, PolledTask DEF PollReadScancode
        <4>2. states[current].kind = "SyscallEntry" /\ states[current].frame = futures[current].frame
          BY <4>1 DEF IInv, EntriesFit, EntryFits, Polling
        <4> QED
          BY <3>2, <4>1, <4>2 DEF PollReadScancode
      <3> QED
        BY <1>5, <3>1, <3>2
    <2>2. CASE ReadScancode(states[current].frame)
      BY <2>1, <2>2, FinishRefines DEF ReadScancode
    <2>3. CASE AwaitScancode(states[current].frame)
      <3>1. /\ kpc = "Run" /\ kpc' = "Find" /\ current \in TaskId
            /\ UNCHANGED <<states, current>>
            /\ \A t \in TaskId : t # current => futures'[t] = futures[t]
        BY <2>1, <2>3, PolledTask DEF AwaitScancode, Polling, Pending, IInv, TypeOK
      <3>2. \A t \in TaskId : PhaseOf(t)' = PhaseOf(t) /\ RegsOf(t)' = RegsOf(t)
        BY <2>1, <3>1 DEF PhaseOf, RegsOf
      <3> QED
        BY <3>1, <3>2 DEF Virtual!vars
    <2> QED
      BY <2>1, <2>2, <2>3
  <1> QED
    BY <1>1, <1>2, <1>3, <1>4, <1>5, <1>6 DEF Poll

\* task::switch is transparent to every task: the scheduler implements a machine
\* in which each task has a processor of its own.
THEOREM SchedulerImplementsVirtualCpus == Spec => EveryTaskHasItsOwnCpu
  <1>1. Init => Virtual!Init
    <2> SUFFICES ASSUME Init PROVE Virtual!Init
      OBVIOUS
    <2>1. IInv
      BY InitInv
    <2>2. \A t \in TaskId : RegsOf(t) \in Virtual!Frame
      BY <2>1, BlankIsFrame DEF RegsOf, IInv, TypeOK, TaskState, TaskFuture, Frame, Virtual!Frame
    <2>3. \A t \in TaskId : PhaseOf(t) = IF t = InitTask THEN "user" ELSE "absent"
      BY DEF Init, PhaseOf, NoState
    <2>4. kpc # "User"
      BY DEF Init
    <2> QED
      BY <2>2, <2>3, <2>4 DEF Virtual!Init, Virtual!Nobody, NoTask
  <1>2. IInv /\ [Next]_vars => [Virtual!Next]_(Virtual!vars)
    <2> SUFFICES ASSUME IInv, [Next]_vars PROVE [Virtual!Next]_(Virtual!vars)
      OBVIOUS
    <2>1. CASE UNCHANGED vars
      <3>1. UNCHANGED <<states, futures, current, frame, kpc>>
        BY <2>1 DEF vars
      <3>2. \A t \in TaskId : PhaseOf(t)' = PhaseOf(t) /\ RegsOf(t)' = RegsOf(t)
        BY <3>1 DEF PhaseOf, RegsOf
      <3> QED
        BY <3>1, <3>2 DEF Virtual!vars
    <2> QED
      BY <2>1, UserRefines, DispatchRefines, SwitchRefines, PollRefines DEF Next, Kernel
  <1> QED
    BY <1>1, <1>2, Invariance, PTL DEF Spec, EveryTaskHasItsOwnCpu, Virtual!Spec
=============================================================================
