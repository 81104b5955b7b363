----------------------------- MODULE AsyncMutex -----------------------------
(***************************************************************************)
(* The mutex that suspends its waiters, kernel/src/sync/async_mutex.rs,    *)
(* with the lock free list of wakers behind it,                            *)
(* kernel/src/util/atomic_list.rs.                                         *)
(*                                                                         *)
(* Every atomic operation is one step and the steps of all tasks           *)
(* interleave: that is what the unsafe impl Sync of both types promises to *)
(* survive.  The kernel itself runs a poll with interrupts disabled on one *)
(* processor; those behaviours are the ones in which overlapped stays      *)
(* FALSE.  List items are heap blocks, and the allocator may hand out a    *)
(* freed block again at once.                                              *)
(***************************************************************************)

CONSTANTS
  Tasks,
  Blocks,       \* heap blocks that can hold an Item; when none is free an
                \* allocation fails
  Null

ASSUME NullAssumption == Null \notin Blocks

VARIABLES
  locked,       \* AsyncMutex::locked
  head,         \* AtomicList::head
  item,         \* item[b]: the waker in block b, which names a task
  next,         \* next[b]: Item::next of block b
  free,         \* blocks that are not allocated
  own,          \* own[t]: the block push_front of t has not published yet
  seen,         \* seen[t]: the head push_front of t has loaded
  iter,         \* iter[t]: AtomicListIter::head of the drop in progress
  pc,           \* where each task is
  woken,        \* tasks whose waker was called since they were last polled
  overlapped,   \* history: two tasks have been inside lock or drop at once
  gaveUp,       \* history: a lock returned MemoryExhausted while a waker of its
                \* task, from this or an earlier lock, was still in a list
  stray         \* history: a task that was not using the mutex was woken

vars == <<locked, head, item, next, free, own, seen, iter, pc, woken, overlapped,
          gaveUp, stray>>
listVars == <<head, item, next, free>>

Init ==
  /\ locked = FALSE
  /\ head = Null
  /\ \E t \in Tasks : item = [b \in Blocks |-> t]
  /\ next = [b \in Blocks |-> Null]
  /\ free = Blocks
  /\ own = [t \in Tasks |-> Null]
  /\ seen = [t \in Tasks |-> Null]
  /\ iter = [t \in Tasks |-> Null]
  /\ pc = [t \in Tasks |-> "out"]
  /\ woken = {}
  /\ overlapped = FALSE
  /\ gaveUp = FALSE
  /\ stray = FALSE

Inside == {"alloc", "load", "cas", "swap", "take", "wake"}

Goto(t, p) ==
  /\ pc' = [pc EXCEPT ![t] = p]
  /\ overlapped' = (overlapped \/ (p \in Inside /\ \E u \in Tasks \ {t} : pc[u] \in Inside))

-----------------------------------------------------------------------------
(* lock.                                                                   *)

\* The future is polled for the first time.
Lock(t) ==
  /\ pc[t] = "out"
  /\ Goto(t, "alloc")
  /\ UNCHANGED <<locked, listVars, own, seen, iter, woken, gaveUp, stray>>

\* It is polled again: because its waker was called, or for no reason, which a
\* future must put up with and the scheduler of this kernel does all the time.
Poll(t) ==
  /\ pc[t] = "asleep"
  /\ woken' = woken \ {t}
  /\ Goto(t, "alloc")
  /\ UNCHANGED <<locked, listVars, own, seen, iter, gaveUp, stray>>

\* push_front: Box::new of the item, or MemoryExhausted, which lock returns.  No
\* block is free then, so every item is that of a waker somebody still has.
PushAlloc(t) ==
  /\ pc[t] = "alloc"
  /\ IF free = {}
     THEN /\ Goto(t, "out")
          /\ gaveUp' = (gaveUp \/ \E b \in Blocks : item[b] = t)
          /\ UNCHANGED <<listVars, own>>
     ELSE /\ \E b \in free :
               /\ free' = free \ {b}
               /\ own' = [own EXCEPT ![t] = b]
               /\ item' = [item EXCEPT ![b] = t]
               /\ next' = [next EXCEPT ![b] = Null]
          /\ Goto(t, "load")
          /\ UNCHANGED <<head, gaveUp>>
  /\ UNCHANGED <<locked, seen, iter, woken, stray>>

\* The head is loaded and stored in the item nobody else can see yet.
PushLoad(t) ==
  /\ pc[t] = "load"
  /\ seen' = [seen EXCEPT ![t] = head]
  /\ next' = [next EXCEPT ![own[t]] = head]
  /\ Goto(t, "cas")
  /\ UNCHANGED <<locked, head, item, free, own, iter, woken, gaveUp, stray>>

\* Mutant: a failed exchange is not repeated.
BugNoRetry(t) ==
  /\ pc[t] = "cas"
  /\ head' = IF head = seen[t] THEN own[t] ELSE head
  /\ own' = [own EXCEPT ![t] = Null]
  /\ Goto(t, "swap")
  /\ UNCHANGED <<locked, item, next, free, seen, iter, woken, gaveUp, stray>>

\* compare_and_swap of the head, and another round if it has changed.
PushCas(t) ==
  /\ pc[t] = "cas"
  /\ IF head = seen[t]
     THEN /\ head' = own[t]
          /\ own' = [own EXCEPT ![t] = Null]
          /\ Goto(t, "swap")
     ELSE /\ Goto(t, "load")
          /\ UNCHANGED <<head, own>>
  /\ seen' = [seen EXCEPT ![t] = Null]
  /\ UNCHANGED <<locked, item, next, free, iter, woken, gaveUp, stray>>

\* Mutant: a task that was woken takes it that the mutex is free.
BugTrustWake(t) ==
  /\ pc[t] = "swap"
  /\ locked' = TRUE
  /\ Goto(t, IF locked /\ t \notin woken THEN "asleep" ELSE "in")
  /\ UNCHANGED <<listVars, own, seen, iter, woken, gaveUp, stray>>

\* locked.swap(true): the mutex is ours, with our waker left in the list, or the
\* poll is Pending.
Swap(t) ==
  /\ pc[t] = "swap"
  /\ locked' = TRUE
  /\ Goto(t, IF locked THEN "asleep" ELSE "in")
  /\ UNCHANGED <<listVars, own, seen, iter, woken, gaveUp, stray>>

-----------------------------------------------------------------------------
(* Drop for AsyncMutexGuard.                                               *)

Unlock(t) ==
  /\ pc[t] = "in"
  /\ locked' = FALSE
  /\ Goto(t, "take")
  /\ UNCHANGED <<listVars, own, seen, iter, woken, gaveUp, stray>>

\* Mutant: the list is read and not emptied.
BugLoadHead(t) ==
  /\ pc[t] = "take"
  /\ iter' = [iter EXCEPT ![t] = head]
  /\ Goto(t, "wake")
  /\ UNCHANGED <<locked, listVars, own, seen, woken, gaveUp, stray>>

\* Mutant: a list with nothing but the task's own waker is not taken.
BugSkipOwn(t) ==
  /\ pc[t] = "take"
  /\ IF head # Null /\ item[head] = t /\ next[head] = Null
     THEN Goto(t, "out") /\ UNCHANGED <<iter, head>>
     ELSE Goto(t, "wake") /\ iter' = [iter EXCEPT ![t] = head] /\ head' = Null
  /\ UNCHANGED <<locked, item, next, free, own, seen, woken, gaveUp, stray>>

\* take_iter: the whole list is taken in one exchange.
TakeIter(t) ==
  /\ pc[t] = "take"
  /\ iter' = [iter EXCEPT ![t] = head]
  /\ head' = Null
  /\ Goto(t, "wake")
  /\ UNCHANGED <<locked, item, next, free, own, seen, woken, gaveUp, stray>>

\* Mutant: the wakers are dropped and not called.
BugDropWaker(t) ==
  /\ pc[t] = "wake"
  /\ IF iter[t] = Null
     THEN /\ Goto(t, "out")
          /\ UNCHANGED <<free, iter, woken, stray>>
     ELSE /\ iter' = [iter EXCEPT ![t] = next[iter[t]]]
          /\ free' = free \cup {iter[t]}
          /\ UNCHANGED <<pc, overlapped, woken, stray>>
  /\ UNCHANGED <<locked, head, item, next, own, seen, gaveUp>>

\* AtomicListIter::next and Waker::wake, until the list is used up.
WakeNext(t) ==
  /\ pc[t] = "wake"
  /\ IF iter[t] = Null
     THEN /\ Goto(t, "out")
          /\ UNCHANGED <<free, iter, woken, stray>>
     ELSE /\ iter' = [iter EXCEPT ![t] = next[iter[t]]]
          /\ free' = free \cup {iter[t]}
          /\ woken' = woken \cup {item[iter[t]]}
          /\ stray' = (stray \/ pc[item[iter[t]]] = "out")
          /\ UNCHANGED <<pc, overlapped>>
  /\ UNCHANGED <<locked, head, item, next, own, seen, gaveUp>>

Step(t) ==
  \/ PushAlloc(t) \/ PushLoad(t) \/ PushCas(t) \/ Swap(t)
  \/ Unlock(t) \/ TakeIter(t) \/ WakeNext(t)

Next == \E t \in Tasks : Lock(t) \/ Poll(t) \/ Step(t)

Spec == Init /\ [][Next]_vars

\* Tasks inside lock and drop keep running and a guard is dropped some time; a
\* suspended task is polled again if it was woken, and need not be otherwise.
FairSpec ==
  /\ Spec
  /\ \A t \in Tasks : WF_vars(Step(t)) /\ WF_vars(t \in woken /\ Poll(t))

-----------------------------------------------------------------------------
(* Properties.                                                             *)

\* The blocks that are reached from h along nx: those in every set of blocks that
\* holds h, unless h is Null, and is closed under nx.
Closed(nx, S) == \A b \in S : nx[b] \in S \cup {Null}
Reach(nx, h) ==
  {b \in Blocks : \A S \in SUBSET Blocks : Closed(nx, S) /\ h \in S \cup {Null} => b \in S}

\* The blocks of the list that starts at h.
Chain(h) == Reach(next, h)

\* The types.
TypeOK ==
  /\ locked \in BOOLEAN
  /\ head \in Blocks \cup {Null}
  /\ item \in [Blocks -> Tasks]
  /\ next \in [Blocks -> Blocks \cup {Null}]
  /\ free \subseteq Blocks
  /\ own \in [Tasks -> Blocks \cup {Null}]
  /\ seen \in [Tasks -> Blocks \cup {Null}]
  /\ iter \in [Tasks -> Blocks \cup {Null}]
  /\ pc \in [Tasks -> Inside \cup {"out", "in", "asleep"}]
  /\ woken \subseteq Tasks

\* Two tasks never have the guard at once, and the flag says whether one has it.
MutualExclusion ==
  /\ \A t, u \in Tasks : pc[t] = "in" /\ pc[u] = "in" => t = u
  /\ locked <=> \E t \in Tasks : pc[t] = "in"

\* However pushes, a take and the reuse of freed blocks interleave (the exchange
\* of push_front compares addresses), each allocated item is in exactly one place:
\* the list, one iterator or the hands of the task that is about to push it.
ListIsSound ==
  LET Place(p) == IF p \in Tasks THEN Chain(iter[p]) \cup ({own[p]} \ {Null}) ELSE Chain(head)
  IN  /\ \A t \in Tasks : own[t] # Null <=> pc[t] \in {"load", "cas"}
      /\ \A t \in Tasks : Chain(iter[t]) \cap Chain(head) = {} /\ own[t] \notin Chain(head)
      /\ \A t, u \in Tasks : t # u => Place(t) \cap Place(u) = {}
      /\ Blocks \ free = Chain(head) \cup UNION {Place(t) : t \in Tasks}

\* A suspended task whose waker was not called yet has a waker that will be: one a
\* drop has taken, or one in the list while somebody holds the mutex or has just
\* released it and not yet looked at the list.  (lock pushes before it swaps
\* and drop releases before it takes.)
NoLostWakeup ==
  \A t \in Tasks :
    pc[t] = "asleep" /\ t \notin woken =>
      \/ \E u \in Tasks : \E b \in Chain(iter[u]) : item[b] = t
      \/ /\ \E b \in Chain(head) : item[b] = t
         /\ locked \/ \E u \in Tasks : pc[u] = "take"

\* When polls and drops do not overlap, as in this kernel, and no task has given up
\* a lock for lack of memory with a waker of it left in the list (by this or by an
\* earlier lock: nothing takes it out), only tasks that wait for the mutex or hold
\* it are woken: task_waker_wake replaces the state of a
\* task without looking at it, and would destroy the registers of a task that has
\* returned to user mode.
WakesOnlyWaiters == stray => overlapped \/ gaveUp

\* A task that waits for the mutex is woken some time.
EverySleeperWakes == \A t \in Tasks : pc[t] = "asleep" ~> pc[t] # "asleep"
=============================================================================
