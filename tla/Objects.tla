------------------------------ MODULE Objects ------------------------------
(***************************************************************************)
(* The handles of tasks, kernel/src/object.rs, over reference counted      *)
(* objects in the kernel heap (module Heap).                               *)
(*                                                                         *)
(* A system call that creates an object or looks one up has an ObjectRef   *)
(* of its own (held) until it returns; a call that waits keeps it for as   *)
(* long as it waits, while other tasks run.  The rest of the kernel        *)
(* allocates and frees boxes at the same time.                             *)
(*                                                                         *)
(* A table is a BTreeMap.  When put has no memory for a node above a leaf, *)
(* the entries from some key on are cut off and lost: the reference of the *)
(* first of them is dropped, the others are never dropped, because a Root  *)
(* has no destructor (see BTreeMap.InsertFails).                           *)
(***************************************************************************)
EXTENDS Heap

CONSTANTS
  Tasks,        \* task ids
  MaxHandle,    \* bound: the handles of a task
  SplitKeeps,   \* entries of a map that its left half keeps in a split: at least B, 6
  SplitLoses,   \* entries that leave it: at least B - 1, 5
  MaxLeaks      \* bound: lost references to one object

ASSUME ObjectsAssumption ==
  /\ IsFiniteSet(Tasks) /\ Tasks \subseteq Nat
  /\ MaxHandle \in Nat /\ SplitKeeps \in Nat /\ SplitLoses \in Nat /\ MaxLeaks \in Nat

Handle == 1 .. MaxHandle

VARIABLES
  handles,      \* TASK_HANDLES: handles[t][h] is the object, None if h is unused
  tabled,       \* the tasks that have a table in TASK_HANDLES
  miscounted,   \* miscounted[t]: the length of the table exceeds its entries
  dying,        \* the task whose table has left TASK_HANDLES and is being dropped
  held,         \* held[t]: the ObjectRef of the call of t in progress
  leaked        \* history: leaked[a], the references to a that are lost

tableVars == <<tabled, miscounted, dying, leaked>>
vars == <<heapVars, handles, held, tableVars>>

Init ==
  /\ HeapInit
  /\ handles = [t \in Tasks |-> [h \in Handle |-> None]]
  /\ tabled = {}
  /\ miscounted = [t \in Tasks |-> FALSE]
  /\ dying = None
  /\ held = [t \in Tasks |-> None]
  /\ leaked = [a \in Addr |-> 0]

\* open_file, create_page_context: ObjectRef::new.  When there is no memory for a
\* file, the drop of the file stops the kernel (NoRecursiveLock in KernelLocks);
\* here as for a page context the call fails, and more can happen afterwards.
NewObject(t) ==
  /\ held[t] = None
  /\ \/ \E a \in Addr : ArcNewAt(a) /\ held' = [held EXCEPT ![t] = a]
     \/ ArcNewFails /\ UNCHANGED held
  /\ UNCHANGED <<handles, tableVars>>

Used(t) == {h \in Handle : handles[t][h] # None}

\* Mutant: the next handle is the number of handles plus one.
BugCountHandles(t) == {h \in Handle : h = Cardinality(Used(t)) + 1}

\* put: one more than the greatest handle of the task.  An empty table with a
\* length above 0 makes keys().rev() read in front of the leaf: any number (a debug
\* build panics instead, and nothing more happens).
NewIds(t) ==
  {h \in Handle : IF Used(t) = {} THEN h = 1 \/ miscounted[t]
                  ELSE h - 1 \in Used(t) /\ \A g \in Used(t) : g < h}

\* object::put of a clone of the reference.
Put(t) ==
  /\ held[t] # None
  /\ \E h \in NewIds(t) : handles' = [handles EXCEPT ![t][h] = held[t]]
  /\ ArcClone(held[t])
  /\ tabled' = tabled \cup {t}
  /\ UNCHANGED <<held, miscounted, dying, leaked>>

\* There is no memory to split a full leaf of the table: only the length is wrong
\* afterwards, and the clone is dropped again.
PutFails(t) ==
  /\ held[t] # None
  /\ Cardinality(Used(t)) >= SplitKeeps + SplitLoses
  /\ miscounted' = [miscounted EXCEPT ![t] = TRUE]
  /\ UNCHANGED <<heapVars, handles, held, tabled, dying, leaked>>

\* The keys from cut on can be cut off by splits.
SplitsAt(keys, cut) ==
  /\ cut \in keys
  /\ Cardinality({k \in keys : k < cut}) >= SplitKeeps
  /\ Cardinality({k \in keys : k >= cut}) >= SplitLoses

\* How many of the handles at places refer to a.
RefsIn(places, a) == Cardinality({th \in places : handles[th[1]][th[2]] = a})

\* The leaf was split and there is no memory above it.  The reference at the cut is
\* dropped; those behind it and the clone, which has the greatest number, are lost.
PutLoses(t) ==
  /\ held[t] # None
  /\ \E cut \in Used(t) :
       /\ SplitsAt(Used(t), cut)
       /\ handles' = [handles EXCEPT ![t] =
                        [h \in Handle |-> IF h >= cut THEN None ELSE handles[t][h]]]
       /\ leaked' = [a \in Addr |-> leaked[a] + (IF a = held[t] THEN 1 ELSE 0)
                                      + RefsIn({t} \X {h \in Handle : h > cut}, a)]
       /\ ArcDropFrom([refs EXCEPT ![held[t]] = @ + 1], handles[t][cut])
  /\ \A a \in Addr : leaked'[a] <= MaxLeaks
  /\ miscounted' = [miscounted EXCEPT ![t] = TRUE]
  /\ UNCHANGED <<held, tabled, dying>>

\* The same for the insert of a table for t in TASK_HANDLES, where the new key may
\* be on either side of the cut: the table at the cut is dropped, with all of its
\* references (see DropTable); those behind it are lost.  (Dropping a table with a
\* wrong length runs off its end: a panic in debug builds, after which nothing
\* happens, and not followed further here.)
PutLosesTables(t) ==
  /\ held[t] # None
  /\ t \notin tabled
  /\ \E cut \in Tasks :
       /\ SplitsAt(tabled, cut) /\ ~miscounted[cut]
       /\ handles' = [u \in Tasks |-> IF u > cut THEN [h \in Handle |-> None] ELSE handles[u]]
       /\ leaked' = [a \in Addr |-> leaked[a] + RefsIn({u \in Tasks : u > cut} \X Handle, a)]
       /\ tabled' = {u \in tabled \cup {t} : u < cut}
       /\ miscounted' = [u \in Tasks |-> u < cut /\ miscounted[u]]
       /\ dying' = cut
  /\ \A a \in Addr : leaked'[a] <= MaxLeaks
  /\ UNCHANGED <<heapVars, held>>

\* One step of dropping a table.  TASK_HANDLES is locked: nothing else happens.
DropTable ==
  /\ IF Used(dying) = {}
     THEN dying' = None /\ UNCHANGED <<heapVars, handles>>
     ELSE /\ \E h \in Used(dying) : /\ \A g \in Used(dying) : h <= g
                                    /\ ArcDrop(handles[dying][h])
                                    /\ handles' = [handles EXCEPT ![dying][h] = None]
          /\ UNCHANGED dying
  /\ UNCHANGED <<held, tabled, miscounted, leaked>>

\* object::get: a clone of the object of the handle.
Get(t) ==
  /\ held[t] = None
  /\ \E h \in Used(t) : /\ held' = [held EXCEPT ![t] = handles[t][h]]
                        /\ ArcClone(handles[t][h])
  /\ UNCHANGED <<handles, tableVars>>

\* The call returns: when it is done, with WrongObjectKind, or after put has failed
\* (a put that had no memory for a first node has changed nothing).
EndCall(t) ==
  /\ held[t] # None
  /\ ArcDrop(held[t])
  /\ held' = [held EXCEPT ![t] = None]
  /\ UNCHANGED <<handles, tableVars>>

\* Mutant: the object is dropped while its handle stays.
BugKeepHandle(t) ==
  /\ held[t] = None
  /\ \E h \in Used(t) : ArcDrop(handles[t][h])
  /\ UNCHANGED <<handles, held, tableVars>>

\* object::release, and the reference it returns is dropped.
Release(t) ==
  /\ held[t] = None
  /\ \E h \in Used(t) : /\ ArcDrop(handles[t][h])
                        /\ handles' = [handles EXCEPT ![t][h] = None]
  /\ UNCHANGED <<held, tableVars>>

OtherBox == (BoxNew \/ BoxDrop) /\ UNCHANGED <<handles, held, tableVars>>

Next ==
  \/ \E t \in Tasks :
       /\ dying = None
       /\ \/ NewObject(t)
          \/ Put(t) \/ PutFails(t) \/ PutLoses(t) \/ PutLosesTables(t)
          \/ Get(t) \/ EndCall(t) \/ Release(t)
  \/ dying = None /\ OtherBox
  \/ dying # None /\ DropTable

Spec == Init /\ [][Next]_vars

-----------------------------------------------------------------------------
(* Properties.                                                             *)

\* Every variable has its type.
TypeOK ==
  /\ HeapTypeOK
  /\ handles \in [Tasks -> [Handle -> Addr \cup {None}]]
  /\ held \in [Tasks -> Addr \cup {None}]
  /\ tabled \subseteq Tasks
  /\ miscounted \in [Tasks -> BOOLEAN]
  /\ dying \in Tasks \cup {None}
  /\ leaked \in [Addr -> Nat]

\* The state has its type, and the count of an object is the number of handles and
\* of calls that refer to it and of the references that inserts without memory have
\* lost: nothing refers to a freed block, and without such an insert no object
\* outlives its references.
RefsExact ==
  TypeOK /\ \A a \in Addr :
    /\ refs[a] = Cardinality({th \in Tasks \X Handle : handles[th[1]][th[2]] = a})
                   + Cardinality({t \in Tasks : held[t] = a}) + leaked[a]
    /\ refs[a] > 0 => live[a] # None

\* A handle leads to the same object until its own task releases it, and a release
\* takes one handle: put never gives out a number in use.  The exception is an
\* insert that runs out of memory: the greatest handles of the task, or all handles
\* of the tasks with the greatest ids, are gone, and their numbers are given out
\* again; even then no handle changes from one object to another in a step.
HandleKeepsObject ==
  [][\A t \in Tasks, h \in Handle :
       \/ handles[t][h] \in {None, handles'[t][h]}
       \/ /\ handles'[t][h] = None
          /\ \/ /\ Release(t)
                /\ \A u \in Tasks, g \in Handle :
                     handles'[u][g] # handles[u][g] => u = t /\ g = h
             \/ PutLoses(t) /\ \A g \in Handle : g >= h => handles'[t][g] = None
             \/ (\E u \in Tasks : PutLosesTables(u)) /\ \A g \in Handle : handles'[t][g] = None
             \/ dying = t]_vars
=============================================================================
