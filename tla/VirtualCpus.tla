---------------------------- MODULE VirtualCpus ----------------------------
(***************************************************************************)
(* What the scheduler of kernel/src/task.rs promises to user programs:     *)
(* every task has a processor of its own.  A task's registers change only  *)
(* by the instructions the task itself executes and, while it is in a      *)
(* system call, by the one result that call returns in rax.  Which other   *)
(* tasks run in between, and how often the timer interrupts, cannot be     *)
(* seen.  Only running out of memory can: the kernel may then lose tasks,  *)
(* but never the registers of one that it keeps.                           *)
(***************************************************************************)
CONSTANTS
  TaskId,       \* identifiers of tasks
  InitTask,     \* the task main() spawns
  Pc, Rax,      \* values of the abstract registers: see Frame
  Results       \* the values of rax that a system call returns

Frame == [pc: Pc, rax: Rax]

Nobody == 0     \* no task is executing user instructions

VARIABLES
  phase,        \* phase[t]: absent, in user mode, or in a system call
  regs,         \* regs[t]: the registers task t sees when it next executes
  running       \* the task executing user instructions, or Nobody

vars == <<phase, regs, running>>

Init ==
  /\ phase = [t \in TaskId |-> IF t = InitTask THEN "user" ELSE "absent"]
  /\ regs \in [TaskId -> Frame]
  /\ running = Nobody

\* The task that has the processor executes instructions.
Execute(t) ==
  /\ running = t
  /\ \E f \in Frame : regs' = [regs EXCEPT ![t] = f]
  /\ UNCHANGED <<phase, running>>

\* The task loses the processor; its registers stay as they are.
Preempt ==
  /\ running' = Nobody
  /\ UNCHANGED <<phase, regs>>

\* A task that is not in a system call gets the processor.
Run(t) ==
  /\ running = Nobody
  /\ phase[t] = "user"
  /\ running' = t
  /\ UNCHANGED <<phase, regs>>

\* The executing task enters a system call.
Call(t) ==
  /\ running = t
  /\ phase[t] = "user"
  /\ phase' = [phase EXCEPT ![t] = "call"]
  /\ running' = Nobody
  /\ UNCHANGED regs

\* The system call of task t returns r.
Return(t, r) ==
  /\ running = Nobody
  /\ phase[t] = "call"
  /\ phase' = [phase EXCEPT ![t] = "user"]
  /\ regs' = [regs EXCEPT ![t].rax = r]
  /\ UNCHANGED running

\* The system call of task t returns r and has created task u, which starts
\* with registers f.
Spawn(t, r, u, f) ==
  /\ running = Nobody
  /\ phase[t] = "call"
  /\ phase[u] = "absent"
  /\ phase' = [phase EXCEPT ![t] = "user", ![u] = "user"]
  /\ regs' = [regs EXCEPT ![t].rax = r, ![u] = f]
  /\ UNCHANGED running

\* The system call of task t runs out of memory, and the kernel loses the tasks in
\* gone with it.  t itself returns r, if it is not one of them.
Lose(t, r, gone, f) ==
  /\ running = Nobody
  /\ phase[t] = "call"
  /\ InitTask \notin gone
  /\ phase' = [u \in TaskId |-> IF u \in gone THEN "absent"
                               ELSE IF u = t THEN "user" ELSE phase[u]]
  /\ regs' = [u \in TaskId |-> IF u \in gone THEN f
                              ELSE IF u = t THEN [regs[u] EXCEPT !.rax = r] ELSE regs[u]]
  /\ UNCHANGED running

Next ==
  \/ Preempt
  \/ \E t \in TaskId : Execute(t) \/ Run(t) \/ Call(t)
  \/ \E t \in TaskId, r \in Results : Return(t, r)
  \/ \E t, u \in TaskId, r \in Results, f \in Frame : Spawn(t, r, u, f)
  \/ \E t \in TaskId, r \in Results, gone \in SUBSET TaskId, f \in Frame :
       Lose(t, r, gone, f)

Spec == Init /\ [][Next]_vars
=============================================================================
