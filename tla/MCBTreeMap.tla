----------------------------- MODULE MCBTreeMap -----------------------------
(***************************************************************************)
(* BTreeBulk for TLC with the node size of the code.  A tree of three      *)
(* levels has a hundred keys, so the calls follow a script that builds and *)
(* takes down such trees; after it come SpareCalls calls of any kind with  *)
(* any key of the script's set, in which memory may run out.               *)
(***************************************************************************)
EXTENDS BTreeBulk

CONSTANTS
  Scripts,      \* scripts to run
  SpareCalls,   \* bound: the calls after a script
  SmallMap      \* bound: the keys of a map that is consumed later than at once

VARIABLES
  script,       \* the script
  pos,          \* the calls of it that were made
  spare         \* the calls after it that are left

mcVars == <<bulkVars, script, pos, spare>>

MCInit ==
  /\ BulkInit
  /\ script \in Scripts
  /\ pos = 0
  /\ spare = SpareCalls

Made(kind, key) ==
  \/ kind \in {"get", "insert", "remove"} /\ Call(kind, key) /\ UNCHANGED other
  \/ kind = "split_off" /\ SplitOff(key)
  \/ kind = "clone" /\ Clone
  \/ kind = "append" /\ (AppendSwaps \/ AppendBegins)
  \/ kind = "drop" /\ IntoIter(kind)

\* The next call of the script.
Scripted ==
  /\ pos < Len(script.calls)
  /\ pos' = pos + 1
  /\ Made(script.calls[pos + 1][1], script.calls[pos + 1][2])
  /\ UNCHANGED <<script, spare>>

AfterScript ==
  /\ pos = Len(script.calls) /\ spare > 0
  /\ spare' = spare - 1
  /\ \E kind \in {"get", "insert", "remove"}, key \in script.near : Call(kind, key)
  /\ UNCHANGED <<other, script, pos>>

\* The last call splits or consumes the map.
LastCall ==
  /\ pos = Len(script.calls) /\ spare > 0
  /\ (spare = SpareCalls /\ failed = None) \/ Cardinality(expected) <= SmallMap
  /\ spare' = 0
  /\ \/ \E kind \in {"into", "drop"} : IntoIter(kind)
     \/ \E key \in script.near : SplitOff(key)
  /\ UNCHANGED <<script, pos>>

\* Memory runs out in one of the last calls, in the script or after it.
RunsOut ==
  /\ BulkFails
  /\ pos >= Len(script.calls) - script.after
  /\ UNCHANGED <<script, pos, spare>>

\* All calls were made, or the map cannot be used any more.
AtEnd == Ended /\ (op = Idle => spare = 0) /\ UNCHANGED mcVars

MCNext ==
  \/ Scripted
  \/ AfterScript
  \/ LastCall
  \/ BulkStep /\ UNCHANGED <<script, pos, spare>>
  \/ RunsOut
  \/ AtEnd

MCSpec == MCInit /\ [][MCNext]_mcVars

\* The iterators of the trees that the scripts built return the keys that are there,
\* in order, from both ends, and stop where these meet.
IteratorsExact ==
  /\ DrainInOrder
  /\ op = Idle /\ root # None /\ pos = Len(script.calls) /\ spare = SpareCalls /\ failed = None =>
       LET bounds == {Unbounded} \cup {Included(k) : k \in script.ends} \cup {Excluded(k) : k \in script.ends}
       IN  IterExact /\ \A lo, hi \in bounds : RangeExact(lo, hi)

MCKey == 1 .. 261
Up(kind, n) == [i \in 1 .. n |-> <<kind, 2 * i>>]
Down(kind, n) == [i \in 1 .. n |-> <<kind, 2 * (n + 1 - i)>>]
Spread(kind, n, by) == [i \in 1 .. n |-> <<kind, 2 * ((i * by) % n) + 2>>]
Odd(kind, n) == [i \in 1 .. n |-> <<kind, 2 * i - 1>>]

\* An empty map; one level about to become two; two levels about to become three;
\* three levels with a large right and a large left half, and a mixed one, taken
\* down until nodes of both kinds were merged and have taken keys on both sides.
MCScripts == {
  [calls |-> <<>>, near |-> {1, 2, 3}, ends |-> {}, after |-> 0],
  [calls |-> Up("insert", 11), near |-> {1, 2, 3, 8, 12, 14, 15, 22, 23}, ends |-> {1, 2, 13, 22}, after |-> 0],
  [calls |-> Up("insert", 88), near |-> {1, 2, 14, 84, 85, 98, 99, 175, 176, 177}, ends |-> {2, 14, 85, 98}, after |-> 0],
  [calls |-> Up("insert", 95), near |-> {1, 2, 16, 83, 84, 98, 99, 189, 190, 191}, ends |-> {84, 98, 99}, after |-> 0],
  [calls |-> Up("insert", 130) \o Up("remove", 60), near |-> {1, 121, 122, 130, 200, 260}, ends |-> {122, 200}, after |-> 0],
  [calls |-> Down("insert", 107) \o Down("remove", 60), near |-> {1, 2, 50, 93, 94}, ends |-> {2, 51, 94}, after |-> 0],
  [calls |-> Spread("insert", 109, 40) \o Spread("remove", 109, 17), near |-> {1, 2}, ends |-> {}, after |-> 0],
  \* Maps that are split, copied and joined.
  [calls |-> <<<<"get", 1>>, <<"clone", 0>>, <<"split_off", 1>>>> \o Up("insert", 30) \o <<<<"clone", 0>>>> \o Odd("insert", 3) \o <<<<"append", 0>>>>,
   near |-> {1, 2, 47, 60}, ends |-> {3, 24, 60}, after |-> 0],
  [calls |-> Down("insert", 100) \o <<<<"split_off", 70>>, <<"drop", 0>>, <<"append", 0>>>>,
   near |-> {1, 80, 81, 199}, ends |-> {80, 81}, after |-> 0],
  [calls |-> Up("insert", 80) \o <<<<"clone", 0>>>> \o Odd("insert", 75) \o <<<<"append", 0>>>>,
   near |-> {1, 74, 134, 155}, ends |-> {24, 134}, after |-> 0],
  \* Eight calls after an append in which memory may run out.
  [calls |-> Up("insert", 8) \o <<<<"clone", 0>>>> \o Odd("insert", 4) \o <<<<"append", 0>>>>
               \o Odd("remove", 4) \o Up("remove", 4),
   near |-> {10, 16}, ends |-> {}, after |-> 8] }
=============================================================================
