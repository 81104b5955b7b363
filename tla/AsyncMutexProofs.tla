-------------------------- MODULE AsyncMutexProofs --------------------------
(***************************************************************************)
(* AsyncMutex for any number of tasks and of blocks for their wakers,      *)
(* whatever the interleaving of the atomic operations: mutual exclusion,   *)
(* and then the lock free list of wakers, that no wakeup is lost and that  *)
(* nobody else is woken.                                                   *)
(***************************************************************************)
EXTENDS AsyncMutex, TLAPS

\* The part of the types the argument needs: the list plays no role in it.
FlagType ==
  /\ locked \in BOOLEAN
  /\ pc \in [Tasks -> Inside \cup {"out", "in", "asleep"}]

IInv == FlagType /\ MutualExclusion

\* A task that neither gets nor returns the guard leaves the flag alone.
Bystander(t) ==
  /\ locked' = locked
  /\ pc[t] # "in"
  /\ \/ pc' = pc
     \/ \E p \in (Inside \cup {"out", "asleep"}) : pc' = [pc EXCEPT ![t] = p]

\* Such a step of one task preserves the invariant.
LEMMA BystanderSafe ==
  ASSUME NEW t \in Tasks, IInv, Bystander(t)
  PROVE  IInv'
  <1>1. CASE pc' = pc
    BY <1>1 DEF IInv, FlagType, MutualExclusion, Bystander
  <1>2. CASE \E p \in (Inside \cup {"out", "asleep"}) : pc' = [pc EXCEPT ![t] = p]
    <2>1. PICK p \in Inside \cup {"out", "asleep"} : pc' = [pc EXCEPT ![t] = p]
      BY <1>2
    <2>2. p # "in"
      BY DEF Inside
    <2>3. \A u \in Tasks : pc'[u] = "in" <=> pc[u] = "in"
      BY <2>1, <2>2 DEF IInv, FlagType, Bystander
    <2>4. FlagType'
      BY <2>1 DEF IInv, FlagType, Bystander
    <2>5. MutualExclusion'
      BY <2>3 DEF IInv, MutualExclusion, Bystander
    <2> QED BY <2>4, <2>5 DEF IInv
  <1> QED BY <1>1, <1>2 DEF Bystander

\* Every operation but the exchange of lock and the store of drop is such a step:
\* pushing, taking and waking touch only the list.
LEMMA ListStepsAreBystanders ==
  ASSUME NEW t \in Tasks,
         \/ Lock(t) \/ Poll(t) \/ PushAlloc(t) \/ PushLoad(t) \/ PushCas(t)
         \/ TakeIter(t) \/ WakeNext(t)
  PROVE  Bystander(t)
  <1>1. CASE Lock(t)
    BY <1>1 DEF Lock, Goto, Bystander, Inside
  <1>2. CASE Poll(t)
    BY <1>2 DEF Poll, Goto, Bystander, Inside
  <1>3. CASE PushAlloc(t)
    BY <1>3 DEF PushAlloc, Goto, Bystander, Inside
  <1>4. CASE PushLoad(t)
    BY <1>4 DEF PushLoad, Goto, Bystander, Inside
  <1>5. CASE PushCas(t)
    BY <1>5 DEF PushCas, Goto, Bystander, Inside
  <1>6. CASE TakeIter(t)
    BY <1>6 DEF TakeIter, Goto, Bystander, Inside
  <1>7. CASE WakeNext(t)
    BY <1>7 DEF WakeNext, Goto, Bystander, Inside
  <1> QED BY <1>1, <1>2, <1>3, <1>4, <1>5, <1>6, <1>7

\* locked.swap(true) gives the guard to one task only: the one that found the flag
\* clear, when nobody is inside.
LEMMA SwapSafe ==
  ASSUME NEW t \in Tasks, IInv, Swap(t)
  PROVE  IInv'
  <1>1. CASE locked
    <2>1. Bystander(t)
      BY <1>1 DEF Swap, Goto, Bystander, IInv, FlagType
    <2> QED BY <2>1, BystanderSafe
  <1>2. CASE ~locked
    <2>1. locked' = TRUE /\ pc' = [pc EXCEPT ![t] = "in"]
      BY <1>2 DEF Swap, Goto
    <2>2. \A u \in Tasks : pc[u] # "in"
      BY <1>2 DEF IInv, MutualExclusion
    <2>3. \A u \in Tasks : pc'[u] = "in" <=> u = t
      BY <2>1, <2>2 DEF IInv, FlagType
    <2>4. FlagType'
      BY <2>1 DEF IInv, FlagType
    <2> QED BY <2>1, <2>3, <2>4 DEF IInv, MutualExclusion
  <1> QED BY <1>1, <1>2

\* The store of drop is made by the only task inside, so the flag is clear when
\* nobody is.
LEMMA UnlockSafe ==
  ASSUME NEW t \in Tasks, IInv, Unlock(t)
  PROVE  IInv'
  <1>1. locked' = FALSE /\ pc' = [pc EXCEPT ![t] = "take"] /\ pc[t] = "in"
    BY DEF Unlock, Goto
  <1>2. \A u \in Tasks : pc'[u] # "in"
    BY <1>1 DEF IInv, FlagType, MutualExclusion
  <1>3. FlagType'
    BY <1>1 DEF IInv, FlagType, Inside
  <1> QED BY <1>1, <1>2, <1>3 DEF IInv, MutualExclusion

\* The guard of the AsyncMutex is held by one task at a time, and locked says
\* whether it is held, for any number of tasks, in every interleaving of the atomic
\* operations of lock and drop.
THEOREM Exclusion == Spec => []MutualExclusion
  <1>1. Init => IInv
    BY DEF Init, IInv, FlagType, MutualExclusion
  <1>2. IInv /\ [Next]_vars => IInv'
    <2> SUFFICES ASSUME IInv, [Next]_vars PROVE IInv'
      OBVIOUS
    <2>1. CASE UNCHANGED vars
      BY <2>1 DEF vars, IInv, FlagType, MutualExclusion
    <2>2. CASE Next
      <3>1. PICK t \in Tasks : Lock(t) \/ Poll(t) \/ Step(t)
        BY <2>2 DEF Next
      <3>2. CASE Swap(t)
        BY <3>2, SwapSafe
      <3>3. CASE Unlock(t)
        BY <3>3, UnlockSafe
      <3>4. CASE ~Swap(t) /\ ~Unlock(t)
        BY <3>1, <3>4, ListStepsAreBystanders, BystanderSafe DEF Step
      <3> QED BY <3>2, <3>3, <3>4
    <2> QED BY <2>1, <2>2
  <1>3. IInv => MutualExclusion
    BY DEF IInv
  <1> QED BY <1>1, <1>2, <1>3, PTL DEF Spec

-----------------------------------------------------------------------------
(***************************************************************************)
(* The list of wakers.  A list is the least set of blocks that holds its   *)
(* first block and is closed under next; these lemmas are what the         *)
(* operations need of it.                                                  *)
(***************************************************************************)
NextType == [Blocks -> Blocks \cup {Null}]

\* A list is a set of blocks that holds its first block and is closed.
LEMMA ReachClosed ==
  ASSUME NEW nx \in NextType, NEW h \in Blocks \cup {Null}
  PROVE  /\ Reach(nx, h) \subseteq Blocks
         /\ Closed(nx, Reach(nx, h))
         /\ h \in Reach(nx, h) \cup {Null}
  <1>1. Reach(nx, h) \subseteq Blocks
    BY DEF Reach
  <1>2. h \in Reach(nx, h) \cup {Null}
    BY NullAssumption DEF Reach
  <1>3. ASSUME NEW b \in Reach(nx, h), nx[b] # Null PROVE nx[b] \in Reach(nx, h)
    <2>1. b \in Blocks /\ nx[b] \in Blocks
      BY <1>3 DEF Reach, NextType
    <2>2. ASSUME NEW S \in SUBSET Blocks, Closed(nx, S), h \in S \cup {Null} PROVE nx[b] \in S
      <3>1. b \in S
        BY <2>2 DEF Reach
      <3> QED BY <1>3, <2>2, <3>1 DEF Closed
    <2> QED BY <2>1, <2>2 DEF Reach
  <1> QED BY <1>1, <1>2, <1>3 DEF Closed

\* It is the least one.
LEMMA ReachLeast ==
  ASSUME NEW nx, NEW h, NEW S \in SUBSET Blocks, Closed(nx, S), h \in S \cup {Null}
  PROVE  Reach(nx, h) \subseteq S
  BY DEF Reach

\* The empty list.
LEMMA ReachNull ==
  ASSUME NEW nx
  PROVE  Reach(nx, Null) = {}
  <1>1. {} \in SUBSET Blocks /\ Closed(nx, {}) /\ Null \in {} \cup {Null}
    BY DEF Closed
  <1>2. Reach(nx, Null) \subseteq {}
    BY <1>1, ReachLeast
  <1> QED BY <1>2

\* A list is its first block and the list after it.
LEMMA ReachStep ==
  ASSUME NEW nx \in NextType, NEW h \in Blocks
  PROVE  Reach(nx, h) = {h} \cup Reach(nx, nx[h])
  <1> DEFINE R == Reach(nx, h)
             Q == Reach(nx, nx[h])
  <1>1. nx[h] \in Blocks \cup {Null} /\ h # Null
    BY NullAssumption DEF NextType
  <1>2. R \subseteq Blocks /\ Closed(nx, R) /\ h \in R
    BY <1>1, ReachClosed
  <1>3. Q \subseteq Blocks /\ Closed(nx, Q) /\ nx[h] \in Q \cup {Null}
    BY <1>1, ReachClosed
  <1> HIDE DEF R, Q
  <1>4. nx[h] \in R \cup {Null}
    BY <1>2 DEF Closed
  <1>5. Q \subseteq R
    BY <1>2, <1>4, ReachLeast DEF Q
  <1>6. {h} \cup Q \in SUBSET Blocks /\ Closed(nx, {h} \cup Q) /\ h \in {h} \cup Q
    BY <1>3 DEF Closed
  <1>7. R \subseteq {h} \cup Q
    BY <1>6, ReachLeast DEF R
  <1> QED BY <1>2, <1>5, <1>7 DEF R, Q

\* What follows a block of a list is in the list.
LEMMA ReachRest ==
  ASSUME NEW nx \in NextType, NEW h \in Blocks \cup {Null}, NEW b \in Reach(nx, h)
  PROVE  Reach(nx, nx[b]) \subseteq Reach(nx, h)
  <1>1. Reach(nx, h) \in SUBSET Blocks /\ Closed(nx, Reach(nx, h))
    BY ReachClosed
  <1>2. nx[b] \in Reach(nx, h) \cup {Null}
    BY <1>1 DEF Closed
  <1> QED BY <1>1, <1>2, ReachLeast

\* A list does not change when the blocks outside it do.
LEMMA ReachFrame ==
  ASSUME NEW nx \in NextType, NEW nx2 \in NextType, NEW h \in Blocks \cup {Null},
         \A b \in Reach(nx, h) : nx2[b] = nx[b]
  PROVE  Reach(nx2, h) = Reach(nx, h)
  <1> DEFINE R == Reach(nx, h)
             Q == Reach(nx2, h)
  <1>1. R \subseteq Blocks /\ Closed(nx, R) /\ h \in R \cup {Null}
    BY ReachClosed
  <1>2. Q \subseteq Blocks /\ Closed(nx2, Q) /\ h \in Q \cup {Null}
    BY ReachClosed
  <1>3. Closed(nx2, R)
    BY <1>1 DEF Closed
  <1>4. Q \subseteq R
    BY <1>1, <1>3, ReachLeast
  <1>5. \A b \in R : nx2[b] = nx[b]
    OBVIOUS
  <1> HIDE DEF R, Q
  <1>6. Closed(nx, Q)
    BY <1>2, <1>4, <1>5 DEF Closed
  <1>7. R \subseteq Q
    BY <1>2, <1>6, ReachLeast DEF R
  <1> QED BY <1>4, <1>7 DEF R, Q

(***************************************************************************)
(* The inductive invariant of the list.  H and I are the blocks of the     *)
(* list and of the iterators.  No block of a list comes after itself:      *)
(* without that, the block an iterator frees might be one it has still to  *)
(* visit.                                                                  *)
(***************************************************************************)
H == Chain(head)
I == [t \in Tasks |-> Chain(iter[t])]

\* Every block is in one place.
OnePlace(hs, is, fr, ow) ==
  /\ hs \cap fr = {}
  /\ \A t \in Tasks : is[t] \cap fr = {} /\ is[t] \cap hs = {}
  /\ \A t, u \in Tasks : t # u => is[t] \cap is[u] = {}
  /\ \A t \in Tasks : ow[t] # Null => /\ ow[t] \notin fr /\ ow[t] \notin hs
                                      /\ \A u \in Tasks : ow[t] \notin is[u]
  /\ \A t, u \in Tasks : ow[t] # Null /\ ow[t] = ow[u] => t = u
  /\ \A b \in Blocks : b \in fr \/ b \in hs \/ \E t \in Tasks : b \in is[t] \/ ow[t] = b

NoCycle(nx, S) == \A b \in S : b \notin Reach(nx, nx[b])

\* What a task has in hand.
HandsOK ==
  /\ \A t \in Tasks : own[t] # Null <=> pc[t] \in {"load", "cas"}
  /\ \A t \in Tasks : own[t] # Null => item[own[t]] = t
  /\ \A t \in Tasks : pc[t] = "cas" => next[own[t]] = seen[t]
  /\ \A t \in Tasks : iter[t] # Null => pc[t] = "wake"

ListInv ==
  /\ TypeOK
  /\ HandsOK
  /\ OnePlace(H, I, free, own)
  /\ NoCycle(next, H) /\ \A t \in Tasks : NoCycle(next, I[t])

\* A task that is about to swap has its waker in the list or was woken since: the
\* case that NoLostWakeup does not speak of.
WakeInv ==
  \A t \in Tasks :
    pc[t] \in {"swap", "asleep"} /\ t \notin woken =>
      \/ \E u \in Tasks : \E b \in I[u] : item[b] = t
      \/ /\ \E b \in H : item[b] = t
         /\ pc[t] = "swap" \/ locked \/ \E u \in Tasks : pc[u] = "take"

\* Without overlaps the list is empty while a drop calls wakers, and a task with a
\* waker anywhere is using the mutex.
StrayInv ==
  ~overlapped /\ ~gaveUp =>
    /\ ~stray
    /\ \A t, u \in Tasks : pc[t] \in Inside /\ pc[u] \in Inside => t = u
    /\ \A t \in Tasks : pc[t] = "wake" => head = Null
    /\ \A b \in H : pc[item[b]] # "out"
    /\ \A t \in Tasks : \A b \in I[t] : pc[item[b]] # "out"

MutexInv == ListInv /\ WakeInv /\ StrayInv

\* The sets are sets of blocks.
LEMMA ListFacts ==
  ASSUME TypeOK
  PROVE  /\ H \subseteq Blocks /\ I \in [Tasks -> SUBSET Blocks]
         /\ \A t \in Tasks : I[t] = Reach(next, iter[t])
         /\ next \in NextType
         /\ head \in Blocks \cup {Null} /\ \A t \in Tasks : iter[t] \in Blocks \cup {Null}
  <1>1. /\ next \in NextType /\ head \in Blocks \cup {Null}
        /\ \A t \in Tasks : iter[t] \in Blocks \cup {Null}
    BY DEF TypeOK, NextType
  <1>2. \A t \in Tasks : I[t] = Reach(next, iter[t]) /\ I[t] \subseteq Blocks
    BY <1>1, ReachClosed DEF I, Chain
  <1>3. H \subseteq Blocks
    BY <1>1, ReachClosed DEF H, Chain
  <1>4. I \in [Tasks -> SUBSET Blocks]
    BY <1>2 DEF I
  <1> QED BY <1>1, <1>2, <1>3, <1>4

\* A step that leaves the links alone.
LEMMA SameLists ==
  ASSUME UNCHANGED <<head, next, iter>>
  PROVE  H' = H /\ I' = I
  BY DEF H, I, Chain, Reach, Closed

\* A step that changes the link of a block that is in no list.
LEMMA LinkOutside ==
  ASSUME ListInv, NEW b \in Blocks, next' \in NextType, UNCHANGED <<head, iter>>,
         \A c \in Blocks : c # b => next'[c] = next[c],
         b \notin H, \A t \in Tasks : b \notin I[t]
  PROVE  /\ H' = H /\ I' = I
         /\ NoCycle(next', H) /\ \A t \in Tasks : NoCycle(next', I[t])
  <1>1. TypeOK
    BY DEF ListInv
  <1>2. /\ H \subseteq Blocks /\ I \in [Tasks -> SUBSET Blocks]
        /\ \A t \in Tasks : I[t] = Reach(next, iter[t])
        /\ next \in NextType
        /\ head \in Blocks \cup {Null} /\ \A t \in Tasks : iter[t] \in Blocks \cup {Null}
    BY <1>1, ListFacts
  <1>3. ASSUME NEW h \in Blocks \cup {Null}, b \notin Reach(next, h)
        PROVE  Reach(next', h) = Reach(next, h)
    <2>1. \A c \in Reach(next, h) : next'[c] = next[c]
      BY <1>2, <1>3, ReachClosed
    <2> QED BY <1>2, <2>1, ReachFrame
  <1>4. H = Reach(next, head) /\ H' = Reach(next', head)
    BY DEF H, Chain
  <1>5. H' = H
    BY <1>2, <1>3, <1>4
  <1>6. \A t \in Tasks : Reach(next', iter[t]) = Reach(next, iter[t])
    BY <1>2, <1>3
  <1>7. I' = I
    <2>1. I' = [t \in Tasks |-> Reach(next', iter[t])] /\ I = [t \in Tasks |-> Reach(next, iter[t])]
      BY DEF I, Chain
    <2> QED BY <1>6, <2>1
  <1>8. ASSUME NEW h \in Blocks \cup {Null}, b \notin Reach(next, h), NoCycle(next, Reach(next, h))
        PROVE  NoCycle(next', Reach(next, h))
    <2> SUFFICES ASSUME NEW c \in Reach(next, h) PROVE c \notin Reach(next', next'[c])
      BY DEF NoCycle
    <2>1. c \in Blocks /\ c # b /\ next'[c] = next[c] /\ next[c] \in Blocks \cup {Null}
      BY <1>2, <1>8, ReachClosed DEF NextType
    <2>2. Reach(next, next[c]) \subseteq Reach(next, h)
      BY <1>2, ReachRest
    <2>3. Reach(next', next[c]) = Reach(next, next[c])
      BY <1>3, <1>8, <2>1, <2>2
    <2> QED BY <1>8, <2>1, <2>3 DEF NoCycle
  <1>9. NoCycle(next', H)
    BY <1>2, <1>4, <1>8 DEF ListInv
  <1>10. ASSUME NEW t \in Tasks PROVE NoCycle(next', I[t])
    BY <1>2, <1>8 DEF ListInv
  <1> QED BY <1>5, <1>7, <1>9, <1>10

-----------------------------------------------------------------------------
(* The types and the hands, one step per operation.                        *)

Acts(t) == Lock(t) \/ Poll(t) \/ Step(t)

\* Every operation keeps the types.
LEMMA TypeSafe ==
  ASSUME NEW t \in Tasks, TypeOK, HandsOK, Acts(t)
  PROVE  TypeOK'
  <1>1. CASE Lock(t)
    BY <1>1 DEF Lock, Goto, TypeOK, Inside, listVars
  <1>2. CASE Poll(t)
    BY <1>2 DEF Poll, Goto, TypeOK, Inside, listVars
  <1>3. CASE PushAlloc(t)
    <2>1. CASE free = {}
      BY <1>3, <2>1 DEF PushAlloc, Goto, TypeOK, Inside, listVars
    <2>2. CASE free # {}
      <3>1. PICK b \in free :
              /\ free' = free \ {b}
              /\ own' = [own EXCEPT ![t] = b]
              /\ item' = [item EXCEPT ![b] = t]
              /\ next' = [next EXCEPT ![b] = Null]
        BY <1>3, <2>2 DEF PushAlloc
      <3>2. pc' = [pc EXCEPT ![t] = "load"] /\ UNCHANGED <<head, locked, seen, iter, woken>>
        BY <1>3, <2>2 DEF PushAlloc, Goto
      <3> QED BY <3>1, <3>2 DEF TypeOK, Inside
    <2> QED BY <2>1, <2>2
  <1>4. CASE PushLoad(t)
    <2>1. own[t] \in Blocks
      BY <1>4 DEF PushLoad, TypeOK, HandsOK
    <2> QED BY <1>4, <2>1 DEF PushLoad, Goto, TypeOK, Inside
  <1>5. CASE PushCas(t)
    BY <1>5 DEF PushCas, Goto, TypeOK, Inside
  <1>6. CASE Swap(t)
    BY <1>6 DEF Swap, Goto, TypeOK, Inside, listVars
  <1>7. CASE Unlock(t)
    BY <1>7 DEF Unlock, Goto, TypeOK, Inside, listVars
  <1>8. CASE TakeIter(t)
    BY <1>8 DEF TakeIter, Goto, TypeOK, Inside
  <1>9. CASE WakeNext(t)
    <2>1. CASE iter[t] = Null
      BY <1>9, <2>1 DEF WakeNext, Goto, TypeOK, Inside
    <2>2. CASE iter[t] # Null
      <3>1. iter[t] \in Blocks /\ next[iter[t]] \in Blocks \cup {Null} /\ item[iter[t]] \in Tasks
        BY <2>2 DEF TypeOK
      <3> QED BY <1>9, <2>2, <3>1 DEF WakeNext, TypeOK
    <2> QED BY <2>1, <2>2
  <1> QED BY <1>1, <1>2, <1>3, <1>4, <1>5, <1>6, <1>7, <1>8, <1>9 DEF Acts, Step

\* Every operation keeps what the tasks have in hand: a block that is allocated or
\* linked is in the hands of one task only.
LEMMA HandsSafe ==
  ASSUME NEW t \in Tasks, ListInv, Acts(t)
  PROVE  HandsOK'
  <1>0. TypeOK /\ HandsOK /\ OnePlace(H, I, free, own)
    BY DEF ListInv
  <1>1. CASE Lock(t)
    BY <1>0, <1>1 DEF Lock, Goto, TypeOK, HandsOK, listVars
  <1>2. CASE Poll(t)
    BY <1>0, <1>2 DEF Poll, Goto, TypeOK, HandsOK, listVars
  <1>3. CASE PushAlloc(t)
    <2>1. CASE free = {}
      BY <1>0, <1>3, <2>1 DEF PushAlloc, Goto, TypeOK, HandsOK, listVars
    <2>2. CASE free # {}
      <3>1. PICK b \in free :
              /\ free' = free \ {b}
              /\ own' = [own EXCEPT ![t] = b]
              /\ item' = [item EXCEPT ![b] = t]
              /\ next' = [next EXCEPT ![b] = Null]
        BY <1>3, <2>2 DEF PushAlloc
      <3>2. pc' = [pc EXCEPT ![t] = "load"] /\ UNCHANGED <<seen, iter>> /\ pc[t] = "alloc"
        BY <1>3, <2>2 DEF PushAlloc, Goto
      <3>3. b \in Blocks /\ b # Null
        BY <1>0, NullAssumption DEF TypeOK
      <3>4. \A u \in Tasks : own[u] # b
        BY <1>0, <3>3 DEF OnePlace
      <3> QED BY <1>0, <3>1, <3>2, <3>3, <3>4 DEF TypeOK, HandsOK
    <2> QED BY <2>1, <2>2
  <1>4. CASE PushLoad(t)
    <2>1. own[t] \in Blocks /\ own[t] # Null
      BY <1>0, <1>4, NullAssumption DEF PushLoad, TypeOK, HandsOK
    <2>2. \A u \in Tasks : u # t => own[u] # own[t]
      BY <1>0, <2>1 DEF OnePlace
    <2> QED BY <1>0, <1>4, <2>1, <2>2 DEF PushLoad, Goto, TypeOK, HandsOK
  <1>5. CASE PushCas(t)
    BY <1>0, <1>5 DEF PushCas, Goto, TypeOK, HandsOK
  <1>6. CASE Swap(t)
    BY <1>0, <1>6 DEF Swap, Goto, TypeOK, HandsOK, listVars
  <1>7. CASE Unlock(t)
    BY <1>0, <1>7 DEF Unlock, Goto, TypeOK, HandsOK, listVars
  <1>8. CASE TakeIter(t)
    BY <1>0, <1>8 DEF TakeIter, Goto, TypeOK, HandsOK
  <1>9. CASE WakeNext(t)
    <2>1. CASE iter[t] = Null
      BY <1>0, <1>9, <2>1 DEF WakeNext, Goto, TypeOK, HandsOK
    <2>2. CASE iter[t] # Null
      BY <1>0, <1>9, <2>2 DEF WakeNext, TypeOK, HandsOK
    <2> QED BY <2>1, <2>2
  <1> QED BY <1>1, <1>2, <1>3, <1>4, <1>5, <1>6, <1>7, <1>8, <1>9 DEF Acts, Step

-----------------------------------------------------------------------------
(* What each operation does to the lists.                                  *)

\* The operations that leave the list alone.
LEMMA QuietList ==
  ASSUME ListInv, TypeOK', HandsOK', UNCHANGED <<head, next, iter, free, own>>
  PROVE  ListInv' /\ H' = H /\ I' = I
  <1>1. H' = H /\ I' = I
    BY SameLists
  <1>2. OnePlace(H', I', free', own')
    BY <1>1 DEF ListInv
  <1>3. NoCycle(next', H') /\ \A t \in Tasks : NoCycle(next', I'[t])
    BY <1>1 DEF ListInv
  <1> QED BY <1>1, <1>2, <1>3 DEF ListInv

\* Box::new takes a block that is in no list.
LEMMA AllocList ==
  ASSUME NEW t \in Tasks, ListInv, TypeOK', HandsOK', PushAlloc(t), NEW b \in free,
         free' = free \ {b}, own' = [own EXCEPT ![t] = b], next' = [next EXCEPT ![b] = Null],
         UNCHANGED <<head, iter>>
  PROVE  ListInv' /\ H' = H /\ I' = I
  <1>0. TypeOK /\ HandsOK /\ OnePlace(H, I, free, own)
    BY DEF ListInv
  <1>1. b \in Blocks /\ b # Null /\ own[t] = Null
    BY <1>0, NullAssumption DEF TypeOK, HandsOK, PushAlloc
  <1>2. b \notin H /\ \A u \in Tasks : b \notin I[u]
    BY <1>0 DEF OnePlace
  <1>3. next' \in NextType /\ \A c \in Blocks : c # b => next'[c] = next[c]
    BY <1>0 DEF TypeOK, NextType
  <1>4. /\ H' = H /\ I' = I
        /\ NoCycle(next', H) /\ \A u \in Tasks : NoCycle(next', I[u])
    BY ONLY ListInv, <1>1, <1>2, <1>3, UNCHANGED <<head, iter>>, LinkOutside
  <1>5. \A u \in Tasks : own[u] # b
    BY <1>0, <1>1 DEF OnePlace
  <1>6. \A u \in Tasks : own'[u] = IF u = t THEN b ELSE own[u]
    BY <1>0 DEF TypeOK
  <1>7. OnePlace(H, I, free', own')
    <2> SUFFICES ASSUME NEW u \in Tasks, NEW v \in Tasks, NEW c \in Blocks
        PROVE  /\ own'[u] # Null => /\ own'[u] \notin free' /\ own'[u] \notin H
                                    /\ own'[u] \notin I[v]
               /\ own'[u] # Null /\ own'[u] = own'[v] => u = v
               /\ c \in free' \/ c \in H \/ \E w \in Tasks : c \in I[w] \/ own'[w] = c
      BY <1>0 DEF OnePlace
    <2>1. own'[u] # Null => own'[u] \notin free' /\ own'[u] \notin H /\ own'[u] \notin I[v]
      BY <1>0, <1>2, <1>6 DEF OnePlace
    <2>2. own'[u] # Null /\ own'[u] = own'[v] => u = v
      BY <1>0, <1>5, <1>6 DEF OnePlace
    <2>3. c \in free' \/ c \in H \/ \E w \in Tasks : c \in I[w] \/ own'[w] = c
      <3>1. CASE c = b
        BY <1>6, <3>1
      <3>2. CASE c # b
        <4>1. c \in free \/ c \in H \/ \E w \in Tasks : c \in I[w] \/ own[w] = c
          BY <1>0 DEF OnePlace
        <4>2. CASE c \in free
          BY <3>2, <4>2
        <4>3. CASE \E w \in Tasks : c \in I[w] \/ own[w] = c
          <5>1. PICK w \in Tasks : c \in I[w] \/ own[w] = c
            BY <4>3
          <5>2. c # Null
            BY NullAssumption
          <5>3. c \in I[w] \/ own'[w] = c
            BY <1>1, <1>6, <5>1, <5>2
          <5> QED BY <5>3
        <4> QED BY <4>1, <4>2, <4>3
      <3> QED BY <3>1, <3>2
    <2> QED BY <2>1, <2>2, <2>3
  <1> QED BY <1>4, <1>7 DEF ListInv

\* push_front links the block it has in hand.
LEMMA LoadList ==
  ASSUME NEW t \in Tasks, ListInv, TypeOK', HandsOK', PushLoad(t)
  PROVE  ListInv' /\ H' = H /\ I' = I
  <1>0. TypeOK /\ HandsOK /\ OnePlace(H, I, free, own)
    BY DEF ListInv
  <1> DEFINE b == own[t]
  <1>1. b \in Blocks /\ b # Null
    BY <1>0, NullAssumption DEF TypeOK, HandsOK, PushLoad
  <1>2. b \notin H /\ \A u \in Tasks : b \notin I[u]
    BY <1>0, <1>1 DEF OnePlace
  <1>3. next' \in NextType /\ \A c \in Blocks : c # b => next'[c] = next[c]
    BY <1>0 DEF TypeOK, NextType, PushLoad
  <1>x. UNCHANGED <<head, iter, free, own>>
    BY DEF PushLoad
  <1> HIDE DEF b
  <1>4. /\ H' = H /\ I' = I
        /\ NoCycle(next', H) /\ \A u \in Tasks : NoCycle(next', I[u])
    BY ONLY ListInv, <1>1, <1>2, <1>3, <1>x, LinkOutside
  <1>7. OnePlace(H, I, free', own')
    BY <1>0, <1>x
  <1> QED BY <1>4, <1>7 DEF ListInv

\* The exchange of push_front puts the block in hand before the list.
LEMMA CasList ==
  ASSUME NEW t \in Tasks, ListInv, TypeOK', HandsOK', PushCas(t), head = seen[t]
  PROVE  ListInv' /\ H' = {own[t]} \cup H /\ I' = I
  <1>0. TypeOK /\ HandsOK /\ OnePlace(H, I, free, own)
    BY DEF ListInv
  <1> DEFINE b == own[t]
  <1>1. b \in Blocks /\ b # Null /\ next[b] = head
    BY <1>0, NullAssumption DEF TypeOK, HandsOK, PushCas
  <1>2. /\ H \subseteq Blocks /\ I \in [Tasks -> SUBSET Blocks]
        /\ \A u \in Tasks : I[u] = Reach(next, iter[u])
        /\ next \in NextType
    BY <1>0, ListFacts
  <1>3. UNCHANGED <<next, iter, free>> /\ head' = b /\ own' = [own EXCEPT ![t] = Null]
    BY DEF PushCas
  <1>4. H = Reach(next, head) /\ H' = Reach(next, b)
    BY <1>3 DEF H, Chain, Reach, Closed
  <1>5. H' = {b} \cup H
    BY <1>1, <1>2, <1>4, ReachStep
  <1>6. I' = I
    BY <1>3 DEF I, Chain, Reach, Closed
  <1>7. b \notin H /\ b \notin free /\ \A u \in Tasks : b \notin I[u] /\ (u # t => own[u] # b)
    BY <1>0, <1>1 DEF OnePlace
  <1>8. \A u \in Tasks : own'[u] = IF u = t THEN Null ELSE own[u]
    BY <1>0, <1>3 DEF TypeOK
  <1>9. NoCycle(next, {b} \cup H)
    BY <1>1, <1>4, <1>7 DEF ListInv, NoCycle
  <1>10. NoCycle(next', H') /\ \A u \in Tasks : NoCycle(next', I'[u])
    BY <1>3, <1>5, <1>6, <1>9 DEF ListInv
  <1>b. own[t] = b
    OBVIOUS
  <1> HIDE DEF b
  <1>11. OnePlace({b} \cup H, I, free, own')
    BY <1>0, <1>1, <1>7, <1>8, <1>b DEF OnePlace
  <1>12. OnePlace(H', I', free', own')
    BY <1>3, <1>5, <1>6, <1>11
  <1> QED BY <1>b, <1>5, <1>6, <1>10, <1>12 DEF ListInv

\* take_iter moves the list to an iterator that was used up.
LEMMA TakeList ==
  ASSUME NEW t \in Tasks, ListInv, TypeOK', HandsOK', TakeIter(t)
  PROVE  ListInv' /\ H' = {} /\ I' = [I EXCEPT ![t] = H] /\ I[t] = {}
  <1>0. TypeOK /\ HandsOK /\ OnePlace(H, I, free, own)
    BY DEF ListInv
  <1>1. UNCHANGED <<next, own, free>> /\ head' = Null /\ iter' = [iter EXCEPT ![t] = head]
    BY DEF TakeIter
  <1>2. /\ H \subseteq Blocks /\ I \in [Tasks -> SUBSET Blocks]
        /\ \A u \in Tasks : I[u] = Reach(next, iter[u])
        /\ next \in NextType
    BY <1>0, ListFacts
  <1>3. iter[t] = Null
    BY <1>0 DEF HandsOK, TakeIter
  <1>4. I[t] = {}
    BY <1>2, <1>3, ReachNull
  <1>5. H' = {}
    BY <1>1, ReachNull DEF H, Chain
  <1>6. I' = [u \in Tasks |-> Reach(next', iter'[u])]
    BY DEF I, Chain
  <1>7. \A u \in Tasks : iter'[u] = IF u = t THEN head ELSE iter[u]
    BY <1>0, <1>1 DEF TypeOK
  <1>8. H = Reach(next, head)
    BY DEF H, Chain
  <1>9. \A u \in Tasks : I'[u] = IF u = t THEN H ELSE I[u]
    BY <1>1, <1>2, <1>6, <1>7, <1>8
  <1>10. I' = [I EXCEPT ![t] = H]
    BY <1>2, <1>6, <1>9
  <1>11. OnePlace({}, I', free, own)
    BY <1>0, <1>4, <1>9 DEF OnePlace
  <1>12. NoCycle(next', H') /\ \A u \in Tasks : NoCycle(next', I'[u])
    BY <1>1, <1>5, <1>9 DEF ListInv, NoCycle
  <1> QED BY <1>1, <1>4, <1>5, <1>10, <1>11, <1>12 DEF ListInv

\* AtomicListIter::next frees the first block of the iterator's list, and only
\* that one: the block is not reached again.
LEMMA WakeList ==
  ASSUME NEW t \in Tasks, ListInv, TypeOK', HandsOK', WakeNext(t), iter[t] # Null
  PROVE  ListInv' /\ H' = H /\ iter[t] \in I[t] /\ I' = [I EXCEPT ![t] = I[t] \ {iter[t]}]
  <1>0. TypeOK /\ HandsOK /\ OnePlace(H, I, free, own)
    BY DEF ListInv
  <1> DEFINE a == iter[t]
  <1>1. /\ UNCHANGED <<next, own, head>> /\ free' = free \cup {a}
        /\ iter' = [iter EXCEPT ![t] = next[a]]
    BY DEF WakeNext
  <1>2. /\ H \subseteq Blocks /\ I \in [Tasks -> SUBSET Blocks]
        /\ \A u \in Tasks : I[u] = Reach(next, iter[u])
        /\ next \in NextType
    BY <1>0, ListFacts
  <1>3. a \in Blocks
    BY <1>0 DEF TypeOK
  <1>4. I[t] = {a} \cup Reach(next, next[a])
    BY <1>2, <1>3, ReachStep
  <1>5. a \notin Reach(next, next[a])
    BY <1>4 DEF ListInv, NoCycle
  <1>6. I' = [u \in Tasks |-> Reach(next', iter'[u])]
    BY DEF I, Chain
  <1>7. \A u \in Tasks : iter'[u] = IF u = t THEN next[a] ELSE iter[u]
    BY <1>0, <1>1 DEF TypeOK
  <1>a. a = iter[t]
    OBVIOUS
  <1> HIDE DEF a
  <1>8. \A u \in Tasks : I'[u] = IF u = t THEN I[t] \ {a} ELSE I[u]
    BY <1>1, <1>2, <1>4, <1>5, <1>6, <1>7
  <1>9. I' = [I EXCEPT ![t] = I[t] \ {a}]
    BY <1>2, <1>6, <1>8
  <1>10. H' = H
    BY <1>1 DEF H, Chain, Reach, Closed
  <1>11. a \in I[t]
    BY <1>4
  <1>12. OnePlace(H, I', free', own)
    BY <1>0, <1>1, <1>8, <1>11 DEF OnePlace
  <1>13. NoCycle(next, H) /\ \A u \in Tasks : NoCycle(next, I'[u])
    BY <1>8 DEF ListInv, NoCycle
  <1> QED BY <1>a, <1>1, <1>9, <1>10, <1>11, <1>12, <1>13 DEF ListInv

-----------------------------------------------------------------------------
(* The wakers.                                                             *)

\* t has a waker that will be called.
Awaited(t) ==
  \/ \E u \in Tasks : \E b \in I[u] : item[b] = t
  \/ /\ \E b \in H : item[b] = t
     /\ pc[t] = "swap" \/ locked \/ \E u \in Tasks : pc[u] = "take"

\* An operation that leaves the lists and the flag alone and takes its task to a
\* place where it does not wait.
LEMMA WakeQuiet ==
  ASSUME NEW t \in Tasks, TypeOK, WakeInv, H' = H, I' = I, locked' = locked,
         \A b \in Blocks : b \in H \/ (\E u \in Tasks : b \in I[u]) => item'[b] = item[b],
         woken \ {t} \subseteq woken',
         NEW p \in {"alloc", "load", "cas", "out"}, pc' = [pc EXCEPT ![t] = p],
         pc[t] # "take"
  PROVE  WakeInv'
  <1>1. \A u \in Tasks : pc'[u] = IF u = t THEN p ELSE pc[u]
    BY DEF TypeOK
  <1>2. H \subseteq Blocks /\ I \in [Tasks -> SUBSET Blocks]
    BY ListFacts
  <1>3. ASSUME NEW u \in Tasks, pc'[u] \in {"swap", "asleep"}, u \notin woken' PROVE Awaited(u)'
    <2>1. u # t /\ pc[u] \in {"swap", "asleep"} /\ u \notin woken
      BY <1>1, <1>3
    <2>2. CASE \E v \in Tasks : \E b \in I[v] : item[b] = u
      <3>1. PICK v \in Tasks : \E b \in I[v] : item[b] = u
        BY <2>2
      <3>2. PICK b \in I[v] : item[b] = u
        BY <3>1
      <3>3. b \in I'[v] /\ item'[b] = u
        BY <1>2, <3>2
      <3> QED BY <3>3 DEF Awaited
    <2>3. CASE /\ \E b \in H : item[b] = u
               /\ pc[u] = "swap" \/ locked \/ \E v \in Tasks : pc[v] = "take"
      <3>1. PICK b \in H : item[b] = u
        BY <2>3
      <3>2. b \in H' /\ item'[b] = u
        BY <1>2, <3>1
      <3>3. pc'[u] = "swap" \/ locked' \/ \E v \in Tasks : pc'[v] = "take"
        BY <1>1, <2>1, <2>3
      <3> QED BY <3>2, <3>3 DEF Awaited
    <2> QED BY <2>1, <2>2, <2>3 DEF WakeInv
  <1> QED BY <1>3 DEF WakeInv, Awaited

\* Without overlaps: an operation that leaves the lists alone and does not go out.
LEMMA StrayQuiet ==
  ASSUME NEW t \in Tasks, TypeOK, StrayInv, H' = H, I' = I, head' = head, stray' = stray,
         ~overlapped' => ~overlapped, ~gaveUp' => ~gaveUp,
         \A b \in Blocks : b \in H \/ (\E u \in Tasks : b \in I[u]) => item'[b] = item[b],
         NEW p \in (Inside \ {"wake"}) \cup {"in", "asleep"}, pc' = [pc EXCEPT ![t] = p],
         ~overlapped' => (p \in Inside => \A u \in Tasks \ {t} : pc[u] \notin Inside)
  PROVE  StrayInv'
  <1>1. \A u \in Tasks : pc'[u] = IF u = t THEN p ELSE pc[u]
    BY DEF TypeOK
  <1>2. H \subseteq Blocks /\ I \in [Tasks -> SUBSET Blocks]
    BY ListFacts
  <1>3. p # "wake" /\ p # "out"
    BY DEF Inside
  <1> SUFFICES ASSUME ~overlapped', ~gaveUp'
      PROVE  /\ ~stray'
             /\ \A u, v \in Tasks : pc'[u] \in Inside /\ pc'[v] \in Inside => u = v
             /\ \A u \in Tasks : pc'[u] = "wake" => head' = Null
             /\ \A b \in H' : pc'[item'[b]] # "out"
             /\ \A u \in Tasks : \A b \in I'[u] : pc'[item'[b]] # "out"
    BY DEF StrayInv
  <1>4. /\ ~stray
        /\ \A u, v \in Tasks : pc[u] \in Inside /\ pc[v] \in Inside => u = v
        /\ \A u \in Tasks : pc[u] = "wake" => head = Null
        /\ \A b \in H : pc[item[b]] # "out"
        /\ \A u \in Tasks : \A b \in I[u] : pc[item[b]] # "out"
    BY DEF StrayInv
  <1>5. ~stray'
    BY <1>4
  <1>6. \A u, v \in Tasks : pc'[u] \in Inside /\ pc'[v] \in Inside => u = v
    BY <1>1, <1>4
  <1>7. \A u \in Tasks : pc'[u] = "wake" => head' = Null
    BY <1>1, <1>3, <1>4
  <1>8. \A b \in Blocks : item[b] \in Tasks
    BY DEF TypeOK
  <1>9. \A b \in H' : pc'[item'[b]] # "out"
    BY <1>1, <1>2, <1>3, <1>4, <1>8
  <1>10. ASSUME NEW u \in Tasks, NEW b \in I'[u] PROVE pc'[item'[b]] # "out"
    <2>1. b \in I[u] /\ b \in Blocks
      BY <1>2
    <2>2. item'[b] = item[b] /\ pc[item[b]] # "out" /\ item[b] \in Tasks
      BY <1>4, <1>8, <2>1
    <2> QED BY <1>1, <1>3, <2>2
  <1> QED BY <1>5, <1>6, <1>7, <1>9, <1>10

\* What Goto says about overlaps.
LEMMA GotoFacts ==
  ASSUME NEW t \in Tasks, NEW p, Goto(t, p), ~overlapped'
  PROVE  ~overlapped /\ (p \in Inside => \A u \in Tasks \ {t} : pc[u] \notin Inside)
  BY Zenon DEF Goto

\* lock, another poll and the load of push_front touch no list.
LEMMA PlainSafe ==
  ASSUME NEW t \in Tasks, MutexInv, TypeOK', HandsOK',
         Lock(t) \/ Poll(t) \/ PushLoad(t)
  PROVE  MutexInv'
  <1>0. ListInv /\ WakeInv /\ StrayInv /\ TypeOK
    BY DEF MutexInv, ListInv
  <1>1. PICK p \in {"alloc", "cas"} : Goto(t, p) /\ pc' = [pc EXCEPT ![t] = p]
    BY DEF Lock, Poll, PushLoad, Goto
  <1>2. UNCHANGED <<locked, head, item, iter, stray, gaveUp>> /\ woken \ {t} \subseteq woken'
    BY DEF Lock, Poll, PushLoad, listVars
  <1>3. pc[t] # "take"
    BY DEF Lock, Poll, PushLoad
  <1>4. ListInv' /\ H' = H /\ I' = I
    <2>1. CASE PushLoad(t)
      BY <1>0, <2>1, LoadList
    <2>2. CASE Lock(t) \/ Poll(t)
      <3>1. UNCHANGED <<head, next, iter, free, own>>
        BY <2>2 DEF Lock, Poll, listVars
      <3> QED BY <1>0, <3>1, QuietList
    <2> QED BY <2>1, <2>2
  <1>5. \A b \in Blocks : b \in H \/ (\E u \in Tasks : b \in I[u]) => item'[b] = item[b]
    BY <1>2
  <1>6. WakeInv'
    BY <1>0, <1>1, <1>2, <1>3, <1>4, <1>5, WakeQuiet
  <1>7. ~overlapped' => ~overlapped /\ (p \in Inside => \A u \in Tasks \ {t} : pc[u] \notin Inside)
    BY <1>1, GotoFacts
  <1>8. p \in (Inside \ {"wake"}) \cup {"in", "asleep"}
    BY <1>1 DEF Inside
  <1>9. StrayInv'
    BY <1>0, <1>1, <1>2, <1>4, <1>5, <1>7, <1>8, StrayQuiet
  <1> QED BY <1>4, <1>6, <1>9 DEF MutexInv

\* Box::new fails, and the task goes out without a waker left behind unless it had
\* waited before, or it gives the task a block.
LEMMA AllocSafe ==
  ASSUME NEW t \in Tasks, MutexInv, TypeOK', HandsOK', PushAlloc(t)
  PROVE  MutexInv'
  <1>0. ListInv /\ WakeInv /\ StrayInv /\ TypeOK /\ OnePlace(H, I, free, own) /\ HandsOK
    BY DEF MutexInv, ListInv
  <1>1. UNCHANGED <<locked, head, iter, stray, woken>> /\ pc[t] = "alloc"
    BY DEF PushAlloc, listVars
  <1>2. CASE free = {}
    <2>1. /\ UNCHANGED <<item, next, free, own>> /\ Goto(t, "out") /\ pc' = [pc EXCEPT ![t] = "out"]
          /\ gaveUp' = (gaveUp \/ \E b \in Blocks : item[b] = t)
      BY <1>2 DEF PushAlloc, Goto, listVars
    <2>2. ListInv' /\ H' = H /\ I' = I
      BY <1>0, <1>1, <2>1, QuietList
    <2>3. \A b \in Blocks : b \in H \/ (\E u \in Tasks : b \in I[u]) => item'[b] = item[b]
      BY <2>1
    <2>4. WakeInv'
      BY <1>0, <1>1, <2>1, <2>2, <2>3, WakeQuiet
    <2>5. StrayInv'
      <3> SUFFICES ASSUME ~overlapped', ~gaveUp'
          PROVE  /\ ~stray'
                 /\ \A u, v \in Tasks : pc'[u] \in Inside /\ pc'[v] \in Inside => u = v
                 /\ \A u \in Tasks : pc'[u] = "wake" => head' = Null
                 /\ \A b \in H' : pc'[item'[b]] # "out"
                 /\ \A u \in Tasks : \A b \in I'[u] : pc'[item'[b]] # "out"
        BY DEF StrayInv
      <3>1. ~overlapped
        BY <2>1, GotoFacts
      <3>2. ~gaveUp /\ \A b \in Blocks : item[b] # t
        BY Zenon, <2>1
      <3>3. /\ ~stray
            /\ \A u, v \in Tasks : pc[u] \in Inside /\ pc[v] \in Inside => u = v
            /\ \A u \in Tasks : pc[u] = "wake" => head = Null
            /\ \A b \in H : pc[item[b]] # "out"
            /\ \A u \in Tasks : \A b \in I[u] : pc[item[b]] # "out"
        BY <1>0, <3>1, <3>2 DEF StrayInv
      <3>4. \A u \in Tasks : pc'[u] = IF u = t THEN "out" ELSE pc[u]
        BY <1>0, <2>1 DEF TypeOK
      <3>5. H \subseteq Blocks /\ I \in [Tasks -> SUBSET Blocks]
        BY <1>0, ListFacts
      <3>6. \A b \in Blocks : item[b] \in Tasks
        BY <1>0 DEF TypeOK
      <3>7. \A u, v \in Tasks : pc'[u] \in Inside /\ pc'[v] \in Inside => u = v
        BY <3>3, <3>4 DEF Inside
      <3>8. \A b \in Blocks : pc[item[b]] # "out" => pc'[item'[b]] # "out"
        BY <2>1, <3>2, <3>4, <3>6
      <3>9. \A b \in H' : pc'[item'[b]] # "out"
        BY <2>2, <3>3, <3>5, <3>8
      <3>10. ASSUME NEW u \in Tasks, NEW b \in I'[u] PROVE pc'[item'[b]] # "out"
        BY <2>2, <3>3, <3>5, <3>8
      <3>11. \A u \in Tasks : pc'[u] = "wake" => head' = Null
        BY <1>1, <3>3, <3>4
      <3> QED BY <1>1, <3>3, <3>7, <3>9, <3>10, <3>11
    <2> QED BY <2>2, <2>4, <2>5 DEF MutexInv
  <1>3. CASE free # {}
    <2>1. PICK b \in free :
            /\ free' = free \ {b}
            /\ own' = [own EXCEPT ![t] = b]
            /\ item' = [item EXCEPT ![b] = t]
            /\ next' = [next EXCEPT ![b] = Null]
      BY <1>3 DEF PushAlloc
    <2>2. Goto(t, "load") /\ pc' = [pc EXCEPT ![t] = "load"] /\ gaveUp' = gaveUp
      BY <1>3 DEF PushAlloc, Goto
    <2>3. ListInv' /\ H' = H /\ I' = I
      BY <1>0, <1>1, <2>1, AllocList
    <2>4. \A c \in Blocks : c \in H \/ (\E u \in Tasks : c \in I[u]) => item'[c] = item[c]
      <3>1. b \notin H /\ \A u \in Tasks : b \notin I[u]
        BY <1>0, <2>1 DEF OnePlace
      <3> QED BY <1>0, <2>1, <3>1 DEF TypeOK
    <2>5. WakeInv'
      BY <1>0, <1>1, <2>2, <2>3, <2>4, WakeQuiet
    <2>6. ~overlapped' => ~overlapped /\ ("load" \in Inside => \A u \in Tasks \ {t} : pc[u] \notin Inside)
      BY <2>2, GotoFacts
    <2>7. "load" \in (Inside \ {"wake"}) \cup {"in", "asleep"}
      BY DEF Inside
    <2>8. StrayInv'
      BY <1>0, <1>1, <2>2, <2>3, <2>4, <2>6, <2>7, StrayQuiet
    <2> QED BY <2>3, <2>5, <2>8 DEF MutexInv
  <1> QED BY <1>2, <1>3

\* A successful exchange puts the waker in the list before the task looks at the
\* flag.
LEMMA CasSafe ==
  ASSUME NEW t \in Tasks, MutexInv, TypeOK', HandsOK', PushCas(t)
  PROVE  MutexInv'
  <1>0. ListInv /\ WakeInv /\ StrayInv /\ TypeOK /\ HandsOK
    BY DEF MutexInv, ListInv
  <1>1. UNCHANGED <<locked, item, next, free, iter, woken, gaveUp, stray>> /\ pc[t] = "cas"
    BY DEF PushCas
  <1>2. H \subseteq Blocks /\ I \in [Tasks -> SUBSET Blocks]
    BY <1>0, ListFacts
  <1>3. CASE head # seen[t]
    <2>1. Goto(t, "load") /\ pc' = [pc EXCEPT ![t] = "load"] /\ UNCHANGED <<head, own>>
      BY <1>3 DEF PushCas, Goto
    <2>2. ListInv' /\ H' = H /\ I' = I
      BY <1>0, <1>1, <2>1, QuietList
    <2>3. \A b \in Blocks : b \in H \/ (\E u \in Tasks : b \in I[u]) => item'[b] = item[b]
      BY <1>1
    <2>4. WakeInv'
      BY <1>0, <1>1, <2>1, <2>2, <2>3, WakeQuiet
    <2>5. ~overlapped' => ~overlapped /\ ("load" \in Inside => \A u \in Tasks \ {t} : pc[u] \notin Inside)
      BY <2>1, GotoFacts
    <2>6. "load" \in (Inside \ {"wake"}) \cup {"in", "asleep"}
      BY DEF Inside
    <2>7. StrayInv'
      BY <1>0, <1>1, <2>1, <2>2, <2>3, <2>5, <2>6, StrayQuiet
    <2> QED BY <2>2, <2>4, <2>7 DEF MutexInv
  <1>4. CASE head = seen[t]
    <2> DEFINE o == own[t]
    <2>1. Goto(t, "swap") /\ pc' = [pc EXCEPT ![t] = "swap"]
      BY <1>4 DEF PushCas, Goto
    <2>2. ListInv' /\ H' = {o} \cup H /\ I' = I
      BY <1>0, <1>4, CasList
    <2>3. o \in Blocks /\ item[o] = t
      BY <1>0, <1>1 DEF TypeOK, HandsOK
    <2>4. \A u \in Tasks : pc'[u] = IF u = t THEN "swap" ELSE pc[u]
      BY <1>0, <2>1 DEF TypeOK
    <2> HIDE DEF o
    <2>5. WakeInv'
      <3> SUFFICES ASSUME NEW u \in Tasks, pc'[u] \in {"swap", "asleep"}, u \notin woken'
          PROVE  Awaited(u)'
        BY DEF WakeInv, Awaited
      <3>1. CASE u = t
        BY <1>1, <2>2, <2>3, <2>4, <3>1 DEF Awaited
      <3>2. CASE u # t
        <4>1. Awaited(u)
          BY <1>0, <1>1, <2>4, <3>2 DEF WakeInv, Awaited
        <4>2. (\E v \in Tasks : pc[v] = "take") => \E v \in Tasks : pc'[v] = "take"
          BY <1>1, <2>4
        <4>3. (\E c \in H : item[c] = u) => \E c \in H' : item'[c] = u
          BY <1>1, <2>2
        <4>4. (\E v \in Tasks : \E c \in I[v] : item[c] = u) => \E v \in Tasks : \E c \in I'[v] : item'[c] = u
          BY <1>1, <2>2
        <4> QED BY <1>1, <2>4, <3>2, <4>1, <4>2, <4>3, <4>4 DEF Awaited
      <3> QED BY <3>1, <3>2
    <2>6. StrayInv'
      <3> SUFFICES ASSUME ~overlapped', ~gaveUp'
          PROVE  /\ ~stray'
                 /\ \A u, v \in Tasks : pc'[u] \in Inside /\ pc'[v] \in Inside => u = v
                 /\ \A u \in Tasks : pc'[u] = "wake" => head' = Null
                 /\ \A b \in H' : pc'[item'[b]] # "out"
                 /\ \A u \in Tasks : \A b \in I'[u] : pc'[item'[b]] # "out"
        BY DEF StrayInv
      <3>1. ~overlapped /\ \A u \in Tasks \ {t} : pc[u] \notin Inside
        BY <2>1, GotoFacts DEF Inside
      <3>3. /\ ~stray
            /\ \A u, v \in Tasks : pc[u] \in Inside /\ pc[v] \in Inside => u = v
            /\ \A u \in Tasks : pc[u] = "wake" => head = Null
            /\ \A b \in H : pc[item[b]] # "out"
            /\ \A u \in Tasks : \A b \in I[u] : pc[item[b]] # "out"
        BY <1>0, <1>1, <3>1 DEF StrayInv
      <3>4. \A c \in Blocks : item[c] \in Tasks
        BY <1>0 DEF TypeOK
      <3>5. \A c \in {o} \cup H : pc'[item[c]] # "out"
        BY <1>2, <2>3, <2>4, <3>3, <3>4
      <3>6. \A u \in Tasks : \A c \in I[u] : pc'[item[c]] # "out"
        BY <1>2, <2>4, <3>3, <3>4
      <3>7. \A u, v \in Tasks : pc'[u] \in Inside /\ pc'[v] \in Inside => u = v
        BY <2>4, <3>1
      <3>8. \A u \in Tasks : pc'[u] # "wake"
        BY <2>4, <3>1 DEF Inside
      <3> QED BY <1>1, <2>2, <3>3, <3>5, <3>6, <3>7, <3>8
    <2> QED BY <2>2, <2>5, <2>6 DEF MutexInv
  <1> QED BY <1>3, <1>4

\* The exchange and the store of the flag: a task that finds the mutex taken goes
\* to sleep while somebody has it, and whoever clears the flag has still to look
\* at the list.
LEMMA FlagSafe ==
  ASSUME NEW t \in Tasks, MutexInv, TypeOK', HandsOK', Swap(t) \/ Unlock(t)
  PROVE  MutexInv'
  <1>0. ListInv /\ WakeInv /\ StrayInv /\ TypeOK
    BY DEF MutexInv, ListInv
  <1>1. UNCHANGED <<head, item, next, free, own, iter, woken, gaveUp, stray>> /\ pc[t] \in {"swap", "in"}
    BY DEF Swap, Unlock, listVars
  <1>2. ListInv' /\ H' = H /\ I' = I
    BY <1>0, <1>1, QuietList
  <1>3. PICK p \in {"asleep", "in", "take"} : /\ Goto(t, p) /\ pc' = [pc EXCEPT ![t] = p]
                                              /\ locked' \/ p = "take"
    <2>1. CASE Swap(t) /\ locked
      BY <2>1 DEF Swap, Goto
    <2>2. CASE Swap(t) /\ ~locked
      BY <2>2 DEF Swap, Goto
    <2>3. CASE Unlock(t)
      BY <2>3 DEF Unlock, Goto
    <2> QED BY <2>1, <2>2, <2>3
  <1>4. \A u \in Tasks : pc'[u] = IF u = t THEN p ELSE pc[u]
    BY <1>0, <1>3 DEF TypeOK
  <1>5. WakeInv'
    <2> SUFFICES ASSUME NEW u \in Tasks, pc'[u] \in {"swap", "asleep"}, u \notin woken'
        PROVE  Awaited(u)'
      BY DEF WakeInv, Awaited
    <2>1. pc[u] \in {"swap", "asleep"}
      <3>1. CASE u = t
        <4>1. p = "asleep"
          BY <1>3, <1>4, <3>1
        <4>2. Swap(t)
          BY <1>0, <1>3, <4>1 DEF Unlock, Goto, TypeOK
        <4> QED BY <3>1, <4>2 DEF Swap
      <3>2. CASE u # t
        BY <1>4, <3>2
      <3> QED BY <3>1, <3>2
    <2>2. Awaited(u)
      BY <1>0, <1>1, <2>1 DEF WakeInv, Awaited
    <2>3. locked' \/ \E v \in Tasks : pc'[v] = "take"
      BY <1>3, <1>4
    <2>4. (\E c \in H : item[c] = u) => \E c \in H' : item'[c] = u
      BY <1>1, <1>2
    <2>5. (\E v \in Tasks : \E c \in I[v] : item[c] = u) => \E v \in Tasks : \E c \in I'[v] : item'[c] = u
      BY <1>1, <1>2
    <2> QED BY <2>2, <2>3, <2>4, <2>5 DEF Awaited
  <1>6. ~overlapped' => ~overlapped /\ (p \in Inside => \A u \in Tasks \ {t} : pc[u] \notin Inside)
    BY <1>3, GotoFacts
  <1>7. p \in (Inside \ {"wake"}) \cup {"in", "asleep"}
    BY <1>3 DEF Inside
  <1>8. \A b \in Blocks : b \in H \/ (\E u \in Tasks : b \in I[u]) => item'[b] = item[b]
    BY <1>1
  <1>9. StrayInv'
    BY <1>0, <1>1, <1>2, <1>3, <1>6, <1>7, <1>8, StrayQuiet
  <1> QED BY <1>2, <1>5, <1>9 DEF MutexInv

\* take_iter: every waker of the list is now in the hands of a drop.
LEMMA TakeSafe ==
  ASSUME NEW t \in Tasks, MutexInv, TypeOK', HandsOK', TakeIter(t)
  PROVE  MutexInv'
  <1>0. ListInv /\ WakeInv /\ StrayInv /\ TypeOK
    BY DEF MutexInv, ListInv
  <1>1. /\ UNCHANGED <<locked, item, woken, gaveUp, stray>> /\ head' = Null
        /\ Goto(t, "wake") /\ pc' = [pc EXCEPT ![t] = "wake"] /\ pc[t] = "take"
    BY DEF TakeIter, Goto
  <1>2. ListInv' /\ H' = {} /\ I' = [I EXCEPT ![t] = H] /\ I[t] = {}
    BY <1>0, TakeList
  <1>3. H \subseteq Blocks /\ I \in [Tasks -> SUBSET Blocks]
    BY <1>0, ListFacts
  <1>4. \A u \in Tasks : pc'[u] = IF u = t THEN "wake" ELSE pc[u]
    BY <1>0, <1>1 DEF TypeOK
  <1>5. \A u \in Tasks : I'[u] = IF u = t THEN H ELSE I[u]
    BY <1>2, <1>3
  <1>6. WakeInv'
    <2> SUFFICES ASSUME NEW u \in Tasks, pc'[u] \in {"swap", "asleep"}, u \notin woken'
        PROVE  Awaited(u)'
      BY DEF WakeInv, Awaited
    <2>1. Awaited(u)
      BY <1>0, <1>1, <1>4 DEF WakeInv, Awaited
    <2>2. CASE \E v \in Tasks : \E b \in I[v] : item[b] = u
      <3>1. PICK v \in Tasks : \E b \in I[v] : item[b] = u
        BY <2>2
      <3>2. v # t
        BY <1>2, <3>1
      <3> QED BY <1>1, <1>5, <3>1, <3>2 DEF Awaited
    <2>3. CASE \E b \in H : item[b] = u
      BY <1>1, <1>5, <2>3 DEF Awaited
    <2> QED BY <2>1, <2>2, <2>3 DEF Awaited
  <1>7. StrayInv'
    <2> SUFFICES ASSUME ~overlapped', ~gaveUp'
        PROVE  /\ ~stray'
               /\ \A u, v \in Tasks : pc'[u] \in Inside /\ pc'[v] \in Inside => u = v
               /\ \A u \in Tasks : pc'[u] = "wake" => head' = Null
               /\ \A b \in H' : pc'[item'[b]] # "out"
               /\ \A u \in Tasks : \A b \in I'[u] : pc'[item'[b]] # "out"
      BY DEF StrayInv
    <2>1. ~overlapped /\ \A u \in Tasks \ {t} : pc[u] \notin Inside
      BY <1>1, GotoFacts DEF Inside
    <2>3. /\ ~stray
          /\ \A u, v \in Tasks : pc[u] \in Inside /\ pc[v] \in Inside => u = v
          /\ \A u \in Tasks : pc[u] = "wake" => head = Null
          /\ \A b \in H : pc[item[b]] # "out"
          /\ \A u \in Tasks : \A b \in I[u] : pc[item[b]] # "out"
      BY <1>0, <1>1, <2>1 DEF StrayInv
    <2>4. \A c \in Blocks : item[c] \in Tasks
      BY <1>0 DEF TypeOK
    <2>5. \A c \in Blocks : pc[item[c]] # "out" => pc'[item'[c]] # "out"
      BY <1>1, <1>4, <2>4
    <2>6. ASSUME NEW u \in Tasks, NEW c \in I'[u] PROVE pc'[item'[c]] # "out"
      BY <1>3, <1>5, <2>3, <2>5
    <2>7. \A u, v \in Tasks : pc'[u] \in Inside /\ pc'[v] \in Inside => u = v
      BY <1>4, <2>1
    <2> QED BY <1>1, <1>2, <2>3, <2>6, <2>7
  <1> QED BY <1>2, <1>6, <1>7 DEF MutexInv

\* The next waker is called, or there is none left.
LEMMA WakeSafe ==
  ASSUME NEW t \in Tasks, MutexInv, TypeOK', HandsOK', WakeNext(t)
  PROVE  MutexInv'
  <1>0. ListInv /\ WakeInv /\ StrayInv /\ TypeOK /\ HandsOK
    BY DEF MutexInv, ListInv
  <1>1. UNCHANGED <<locked, head, item, next, own, gaveUp>> /\ pc[t] = "wake"
    BY DEF WakeNext
  <1>2. /\ H \subseteq Blocks /\ I \in [Tasks -> SUBSET Blocks]
        /\ \A u \in Tasks : I[u] = Reach(next, iter[u])
    BY <1>0, ListFacts
  <1>3. \A c \in Blocks : item[c] \in Tasks
    BY <1>0 DEF TypeOK
  <1>4. CASE iter[t] = Null
    <2>1. /\ Goto(t, "out") /\ pc' = [pc EXCEPT ![t] = "out"]
          /\ UNCHANGED <<free, iter, woken, stray>>
      BY <1>4 DEF WakeNext, Goto
    <2>2. ListInv' /\ H' = H /\ I' = I
      BY <1>0, <1>1, <2>1, QuietList
    <2>3. \A b \in Blocks : b \in H \/ (\E u \in Tasks : b \in I[u]) => item'[b] = item[b]
      BY <1>1
    <2>4. WakeInv'
      BY <1>0, <1>1, <2>1, <2>2, <2>3, WakeQuiet
    <2>5. StrayInv'
      <3> SUFFICES ASSUME ~overlapped', ~gaveUp'
          PROVE  /\ ~stray'
                 /\ \A u, v \in Tasks : pc'[u] \in Inside /\ pc'[v] \in Inside => u = v
                 /\ \A u \in Tasks : pc'[u] = "wake" => head' = Null
                 /\ \A b \in H' : pc'[item'[b]] # "out"
                 /\ \A u \in Tasks : \A b \in I'[u] : pc'[item'[b]] # "out"
        BY DEF StrayInv
      <3>1. ~overlapped
        BY <2>1, GotoFacts
      <3>3. /\ ~stray
            /\ \A u, v \in Tasks : pc[u] \in Inside /\ pc[v] \in Inside => u = v
            /\ \A u \in Tasks : pc[u] = "wake" => head = Null
            /\ \A b \in H : pc[item[b]] # "out"
            /\ \A u \in Tasks : \A b \in I[u] : pc[item[b]] # "out"
        BY <1>0, <1>1, <3>1 DEF StrayInv
      <3>4. H = {}
        <4>1. head = Null
          BY <1>1, <3>3
        <4> QED BY <4>1, ReachNull DEF H, Chain
      <3>5. \A u \in Tasks : I[u] = {}
        <4>1. \A u \in Tasks : iter[u] = Null
          BY <1>0, <1>1, <1>4, <3>3 DEF HandsOK, Inside
        <4> QED BY <1>2, <4>1, ReachNull
      <3>6. \A u \in Tasks : pc'[u] = IF u = t THEN "out" ELSE pc[u]
        BY <1>0, <2>1 DEF TypeOK
      <3>7. \A u, v \in Tasks : pc'[u] \in Inside /\ pc'[v] \in Inside => u = v
        BY <3>3, <3>6 DEF Inside
      <3>8. \A u \in Tasks : pc'[u] = "wake" => head' = Null
        BY <1>1, <3>3, <3>6
      <3> QED BY <2>1, <2>2, <3>3, <3>4, <3>5, <3>7, <3>8
    <2> QED BY <2>2, <2>4, <2>5 DEF MutexInv
  <1>5. CASE iter[t] # Null
    <2> DEFINE a == iter[t]
    <2>1. /\ UNCHANGED <<pc, overlapped>> /\ woken' = woken \cup {item[a]}
          /\ stray' = (stray \/ pc[item[a]] = "out")
      BY <1>5 DEF WakeNext
    <2>2. ListInv' /\ H' = H /\ a \in I[t] /\ I' = [I EXCEPT ![t] = I[t] \ {a}]
      BY <1>0, <1>5, WakeList
    <2> HIDE DEF a
    <2>3. \A u \in Tasks : I'[u] = IF u = t THEN I[t] \ {a} ELSE I[u]
      BY <1>2, <2>2
    <2>4. WakeInv'
      <3> SUFFICES ASSUME NEW u \in Tasks, pc'[u] \in {"swap", "asleep"}, u \notin woken'
          PROVE  Awaited(u)'
        BY DEF WakeInv, Awaited
      <3>1. Awaited(u) /\ u # item[a]
        BY <1>0, <2>1 DEF WakeInv, Awaited
      <3>2. CASE \E v \in Tasks : \E b \in I[v] : item[b] = u
        <4>1. PICK v \in Tasks : \E b \in I[v] : item[b] = u
          BY <3>2
        <4>2. PICK b \in I[v] : item[b] = u
          BY <4>1
        <4>3. b # a /\ b \in I'[v] /\ item'[b] = u
          BY <1>1, <2>3, <3>1, <4>2
        <4> QED BY <4>3 DEF Awaited
      <3>3. CASE /\ \E b \in H : item[b] = u
                 /\ pc[u] = "swap" \/ locked \/ \E v \in Tasks : pc[v] = "take"
        BY <1>1, <2>1, <2>2, <3>3 DEF Awaited
      <3> QED BY <3>1, <3>2, <3>3 DEF Awaited
    <2>5. StrayInv'
      <3> SUFFICES ASSUME ~overlapped', ~gaveUp'
          PROVE  /\ ~stray'
                 /\ \A u, v \in Tasks : pc'[u] \in Inside /\ pc'[v] \in Inside => u = v
                 /\ \A u \in Tasks : pc'[u] = "wake" => head' = Null
                 /\ \A b \in H' : pc'[item'[b]] # "out"
                 /\ \A u \in Tasks : \A b \in I'[u] : pc'[item'[b]] # "out"
        BY DEF StrayInv
      <3>1. ~overlapped
        BY <2>1
      <3>3. /\ ~stray
            /\ \A u, v \in Tasks : pc[u] \in Inside /\ pc[v] \in Inside => u = v
            /\ \A u \in Tasks : pc[u] = "wake" => head = Null
            /\ \A b \in H : pc[item[b]] # "out"
            /\ \A u \in Tasks : \A b \in I[u] : pc[item[b]] # "out"
        BY <1>0, <1>1, <3>1 DEF StrayInv
      <3>4. pc[item[a]] # "out"
        BY <2>2, <3>3
      <3>5. ~stray'
        BY Zenon, <2>1, <3>3, <3>4
      <3>6. \A u \in Tasks : \A b \in I'[u] : pc'[item'[b]] # "out"
        BY <1>1, <2>1, <2>3, <3>3
      <3> QED BY <1>1, <2>1, <2>2, <3>3, <3>5, <3>6
    <2> QED BY <2>2, <2>4, <2>5 DEF MutexInv
  <1> QED BY <1>4, <1>5

-----------------------------------------------------------------------------
(* The invariant, and what it says.                                        *)

\* The mutex starts free, with an empty list.
LEMMA MutexInit ==
  ASSUME Init
  PROVE  MutexInv
  <1>1. TypeOK /\ HandsOK
    BY DEF Init, TypeOK, HandsOK, Inside
  <1>2. H = {} /\ \A t \in Tasks : I[t] = {}
    BY <1>1, ReachNull, ListFacts DEF Init, H, Chain
  <1>3. OnePlace(H, I, free, own)
    BY <1>2 DEF Init, OnePlace
  <1>4. NoCycle(next, H) /\ \A t \in Tasks : NoCycle(next, I[t])
    BY <1>2 DEF NoCycle
  <1>5. WakeInv
    BY DEF Init, WakeInv
  <1>6. StrayInv
    BY <1>2 DEF Init, StrayInv, Inside
  <1> QED BY <1>1, <1>3, <1>4, <1>5, <1>6 DEF MutexInv, ListInv

\* Every step preserves the invariant.
LEMMA MutexStep ==
  ASSUME MutexInv, [Next]_vars
  PROVE  MutexInv'
  <1>1. CASE UNCHANGED vars
    <2>1. H' = H /\ I' = I
      BY <1>1, SameLists DEF vars
    <2>2. ListInv'
      BY <1>1, <2>1 DEF vars, MutexInv, ListInv, TypeOK, HandsOK
    <2>3. WakeInv'
      BY <1>1, <2>1 DEF vars, MutexInv, WakeInv
    <2>4. StrayInv'
      BY <1>1, <2>1 DEF vars, MutexInv, StrayInv
    <2> QED BY <2>2, <2>3, <2>4 DEF MutexInv
  <1>2. CASE Next
    <2>1. PICK t \in Tasks : Acts(t)
      BY <1>2 DEF Next, Acts
    <2>2. TypeOK'
      BY <2>1, TypeSafe DEF MutexInv, ListInv
    <2>3. HandsOK'
      BY <2>1, HandsSafe DEF MutexInv
    <2> QED BY <2>1, <2>2, <2>3, PlainSafe, AllocSafe, CasSafe, FlagSafe, TakeSafe, WakeSafe
            DEF Acts, Step
  <1> QED BY <1>1, <1>2

\* The inductive invariant holds.
THEOREM MutexInvariant == Spec => []MutexInv
  <1>1. Init => MutexInv
    BY MutexInit
  <1>2. MutexInv /\ [Next]_vars => MutexInv'
    BY MutexStep
  <1> QED BY <1>1, <1>2, PTL DEF Spec

\* However the pushes, takes and reuses of freed blocks by any number of tasks
\* interleave, every allocated Item is in the list, in one iterator or in the hands
\* of the one task that pushes it: the exchange of push_front compares addresses, and
\* a block that was freed and pushed again between its load and its exchange does no harm.
THEOREM ListStaysSound == Spec => []ListIsSound
  <1>1. MutexInv => ListIsSound
    <2> SUFFICES ASSUME MutexInv PROVE ListIsSound
      OBVIOUS
    <2> DEFINE P(p) == IF p \in Tasks THEN Chain(iter[p]) \cup ({own[p]} \ {Null}) ELSE Chain(head)
    <2>0. TypeOK /\ HandsOK /\ OnePlace(H, I, free, own)
      BY DEF MutexInv, ListInv
    <2>1. /\ H \subseteq Blocks /\ I \in [Tasks -> SUBSET Blocks]
          /\ H = Chain(head) /\ \A t \in Tasks : I[t] = Chain(iter[t])
      BY <2>0, ListFacts DEF H, I
    <2>2. \A t \in Tasks : P(t) = I[t] \cup ({own[t]} \ {Null})
      BY <2>1
    <2>3. \A t \in Tasks : own[t] # Null <=> pc[t] \in {"load", "cas"}
      BY <2>0 DEF HandsOK
    <2>4. \A t \in Tasks : I[t] \cap H = {} /\ own[t] \notin H
      <3>1. Null \notin H
        BY <2>1, NullAssumption
      <3> QED BY <2>0, <3>1 DEF OnePlace
    <2>5. \A t, u \in Tasks : t # u => P(t) \cap P(u) = {}
      <3> SUFFICES ASSUME NEW t \in Tasks, NEW u \in Tasks, t # u PROVE P(t) \cap P(u) = {}
        OBVIOUS
      <3> HIDE DEF P
      <3> QED BY <2>0, <2>2 DEF OnePlace
    <2>6. Blocks \ free = H \cup UNION {P(t) : t \in Tasks}
      <3>1. ASSUME NEW b \in Blocks, b \notin free, b \notin H PROVE \E t \in Tasks : b \in P(t)
        <4>1. PICK t \in Tasks : b \in I[t] \/ own[t] = b
          BY <2>0, <3>1 DEF OnePlace
        <4>2. b # Null
          BY NullAssumption
        <4> HIDE DEF P
        <4> QED BY <2>2, <4>1, <4>2
      <3>2. ASSUME NEW t \in Tasks, NEW b \in P(t) PROVE b \in Blocks /\ b \notin free
        <4>1. b \in I[t] \/ (b = own[t] /\ own[t] # Null)
          BY <2>2
        <4>2. own[t] \in Blocks \cup {Null} /\ I[t] \subseteq Blocks
          BY <2>0, <2>1 DEF TypeOK
        <4> QED BY <2>0, <4>1, <4>2 DEF OnePlace
      <3>3. H \cap free = {}
        BY <2>0 DEF OnePlace
      <3> HIDE DEF P
      <3> QED BY <2>1, <3>1, <3>2, <3>3
    <2> QED BY <2>1, <2>3, <2>4, <2>5, <2>6 DEF ListIsSound
  <1> QED BY <1>1, MutexInvariant, PTL

\* No wakeup is lost: a suspended task that was not woken has its waker with a drop
\* that will call it, or in the list while somebody holds the mutex or has still to
\* take the list after releasing it.
THEOREM WakeupsAreNotLost == Spec => []NoLostWakeup
  <1>1. MutexInv => NoLostWakeup
    <2> SUFFICES ASSUME MutexInv, NEW t \in Tasks, pc[t] = "asleep", t \notin woken
        PROVE  \/ \E u \in Tasks : \E b \in Chain(iter[u]) : item[b] = t
               \/ /\ \E b \in Chain(head) : item[b] = t
                  /\ locked \/ \E u \in Tasks : pc[u] = "take"
      BY DEF NoLostWakeup
    <2>1. H = Chain(head) /\ \A u \in Tasks : I[u] = Chain(iter[u])
      BY DEF H, I
    <2> QED BY <2>1 DEF MutexInv, WakeInv
  <1> QED BY <1>1, MutexInvariant, PTL

\* As long as polls and drops do not overlap, as on this kernel's one processor,
\* and no waiter has given up for lack of memory, a drop never wakes a task that has
\* nothing to do with the mutex.
THEOREM OnlyWaitersAreWoken == Spec => []WakesOnlyWaiters
  <1>1. MutexInv => WakesOnlyWaiters
    BY DEF MutexInv, StrayInv, WakesOnlyWaiters
  <1> QED BY <1>1, MutexInvariant, PTL
=============================================================================
