----------------------------- MODULE BTreeBulk ------------------------------
(***************************************************************************)
(* The iterators of a B-tree map and the operations on whole maps, in      *)
(* btree/map.rs and btree/node.rs: range, into_iter, the drop of a map,    *)
(* clone, split_off and append.  The scheduler finds the next task with    *)
(* range, a handle is numbered after the last of keys(), and the table of  *)
(* a task that ends is dropped.                                            *)
(*                                                                         *)
(* A handle is a node and the number of one of its edges.  Iteration is a  *)
(* pure operator; taking a map apart, which frees its nodes on the way,    *)
(* and append are loops of actions.  The other operations borrow the maps  *)
(* they change and are single steps.                                       *)
(***************************************************************************)
EXTENDS BTreeMap

VARIABLE other    \* a second map, with the keys that should be in it

bulkVars == <<vars, other>>

EmptyMap == [root |-> None, height |-> 0, length |-> 0, keys |-> {}]

BulkInit == Init /\ other = EmptyMap

MIN_LEN == B - 1

-----------------------------------------------------------------------------
(* Handles and iterators, ns being the nodes.                              *)

LastLeaf(ns, n) ==
  LET down[d \in 0 .. MaxHeight] ==
        IF d = 0 THEN n
        ELSE IF ns[down[d - 1]].edges = <<>> THEN down[d - 1]
        ELSE Last(ns[down[d - 1]].edges)
  IN  down[MaxHeight]

first_leaf_edge(ns, n) == [node |-> FirstLeaf(ns, n), idx |-> 1]
last_leaf_edge(ns, n) == [node |-> LastLeaf(ns, n), idx |-> Len(ns[LastLeaf(ns, n)].keys) + 1]

\* right_kv at the front of an iterator, left_kv at its back.
HasKv(ns, h, end) == IF end = "front" THEN h.idx <= Len(ns[h.node].keys) ELSE h.idx > 1

Ascend(ns, h) ==
  IF ns[h.node].parent = None THEN None
  ELSE [node |-> ns[h.node].parent, idx |-> ns[h.node].parent_idx]

\* The handles that next_unchecked goes through, from the leaf up to one with a
\* key; beyond the last key of the tree there is none.
Climb(ns, h, end) ==
  [d \in 0 .. MaxHeight + 1 |->
     LET at[e \in 0 .. d] ==
           IF e = 0 THEN h
           ELSE LET below == at[e - 1]
                IN  IF below = None \/ HasKv(ns, below, end) THEN below ELSE Ascend(ns, below)
     IN  at[d]]

\* The handle behind the key that h is at.
AfterKv(ns, h, end) ==
  CASE ns[h.node].edges = <<>> -> [h EXCEPT !.idx = IF end = "front" THEN @ + 1 ELSE @ - 1]
    [] ns[h.node].edges # <<>> /\ end = "front" -> first_leaf_edge(ns, ns[h.node].edges[h.idx + 1])
    [] OTHER -> last_leaf_edge(ns, ns[h.node].edges[h.idx - 1])

\* next_unchecked and next_back_unchecked: the key, the new handle, and the nodes
\* that were left.
NextUnchecked(ns, h, end) ==
  LET climb == Climb(ns, h, end)
      kv == climb[MaxHeight + 1]
  IN  [key    |-> ns[kv.node].keys[IF end = "front" THEN kv.idx ELSE kv.idx - 1],
       handle |-> AfterKv(ns, kv, end),
       left   |-> {climb[d].node : d \in {e \in DOMAIN climb : ~HasKv(ns, climb[e], end)}}]

\* A bound of a range is a kind and a key, None for Unbounded.
Included(k) == [kind |-> "included", key |-> k]
Excluded(k) == [kind |-> "excluded", key |-> k]
Unbounded == [kind |-> "unbounded", key |-> None]

KeyAt(n, i) == IF i <= Len(nodes[n].keys) THEN nodes[n].keys[i] ELSE None

\* The edges of range_search at one level; found says whether the key of the
\* bound was in a node above, so that all that is below is on one side of it.
MinEdge(n, bound, found) ==
  CASE bound = Unbounded -> 1
    [] bound # Unbounded /\ found -> IF bound.kind = "included" THEN Len(nodes[n].keys) + 1 ELSE 1
    [] OTHER -> LET i == SearchLinear(n, bound.key)
                IN  IF KeyAt(n, i) = bound.key /\ bound.kind = "excluded" THEN i + 1 ELSE i

\* Mutant: below the end of the range everything is taken.
BugMaxEdge(n, bound, found) ==
  CASE bound = Unbounded \/ found -> Len(nodes[n].keys) + 1
    [] OTHER -> LET i == SearchLinear(n, bound.key)
                IN  IF KeyAt(n, i) = bound.key /\ bound.kind = "included" THEN i + 1 ELSE i

MaxEdge(n, bound, found) ==
  CASE bound = Unbounded -> Len(nodes[n].keys) + 1
    [] bound # Unbounded /\ found -> IF bound.kind = "included" THEN 1 ELSE Len(nodes[n].keys) + 1
    [] OTHER -> LET i == SearchLinear(n, bound.key)
                IN  IF KeyAt(n, i) = bound.key /\ bound.kind = "included" THEN i + 1 ELSE i

\* "Panics if range start > end.  Panics if range start == end and both bounds
\* are Excluded."
RangePanics(lo, hi) ==
  /\ lo # Unbounded /\ hi # Unbounded
  /\ lo.key > hi.key \/ (lo.key = hi.key /\ lo.kind = "excluded" /\ hi.kind = "excluded")

\* range_search: one level after the other for both ends of the range, or None
\* where it panics because the ends cross at the level where they part.
range_search(lo, hi) ==
  LET edge(min, max, minFound, maxFound, diverged) ==
        LET i == MinEdge(min, lo, minFound)
            j == MaxEdge(max, hi, maxFound)
        IN  [front |-> [node |-> min, idx |-> i], back |-> [node |-> max, idx |-> j],
             minFound |-> minFound \/ (lo # Unbounded /\ lo.key \in Range(nodes[min].keys)),
             maxFound |-> maxFound \/ (hi # Unbounded /\ hi.key \in Range(nodes[max].keys)),
             diverged |-> diverged \/ i # j, crossed |-> ~diverged /\ j < i]
      child(h) == nodes[h.node].edges[h.idx]
      level[d \in 0 .. height] ==
        IF d = 0 THEN edge(root, root, FALSE, FALSE, FALSE)
        ELSE LET up == level[d - 1]
             IN  edge(child(up.front), child(up.back), up.minFound, up.maxFound, up.diverged)
  IN  IF RangePanics(lo, hi) \/ \E d \in 0 .. height : level[d].crossed THEN None
      ELSE [front |-> level[height].front, back |-> level[height].back]

-----------------------------------------------------------------------------
(* into_iter and the drop of a map.                                        *)

into_iter(r, len) ==
  [front  |-> IF r = None THEN None ELSE first_leaf_edge(nodes, r),
   back   |-> IF r = None THEN None ELSE last_leaf_edge(nodes, r),
   length |-> len]

\* iter, iter_mut and keys look at the same places and stop by the length too.
iter == into_iter(root, length)
IterNext(it, end) == IF it.length = 0 THEN None ELSE NextUnchecked(nodes, it[end], end).key

Freed(ns, dead) == [n \in Node |-> IF n \in dead THEN None ELSE ns[n]]

\* IntoIter::next and next_back, for an iterator with keys left: what it takes, the
\* iterator after it and the nodes without those it deallocated.
IntoNext(ns, it, end) ==
  LET s == NextUnchecked(ns, it[end], end)
  IN  [key |-> s.key, it |-> [it EXCEPT ![end] = s.handle, !.length = @ - 1], ns |-> Freed(ns, s.left)]

\* The map is consumed, by a loop over it or because it goes out of scope.
IntoIter(at) ==
  /\ op = Idle
  /\ op' = [at |-> at, it |-> into_iter(root, length), then |-> <<>>, key |-> None, end |-> "front"]
  /\ root' = None /\ height' = 0 /\ length' = 0
  /\ UNCHANGED <<nodes, expected, failed, other>>

\* The loop takes keys from either end; a drop takes the rest from the front.
IntoTake(end) ==
  /\ op.at = "into" \/ (op.at = "drop" /\ end = "front")
  /\ op.it.length > 0 /\ op.it.front # op.it.back
  /\ LET s == IntoNext(nodes, op.it, end)
     IN  /\ nodes' = s.ns
         /\ op' = [op EXCEPT !.it = s.it, !.key = s.key, !.end = end]
         /\ expected' = expected \ {s.key}
  /\ UNCHANGED <<root, height, length, failed, other>>

\* The ends have met and the length still promises a key: the code takes a key a
\* second time, reads a node that it freed, or goes up from the root, with
\* unwrap_unchecked.  Nothing is known of what follows.
IntoTakesTooMuch ==
  /\ op.at \in {"into", "drop"}
  /\ op.it.length > 0 /\ op.it.front = op.it.back
  /\ op' = [at |-> "undefined"]
  /\ UNCHANGED <<nodes, root, height, length, expected, failed, other>>

\* The loop ends, perhaps early: the iterator is dropped.
IntoDropped ==
  /\ op.at = "into"
  /\ op' = [op EXCEPT !.at = "drop"]
  /\ UNCHANGED <<nodes, root, height, length, expected, failed, other>>

\* deallocate_and_ascend from the leaf at the front up to the root, None for the
\* shared empty root.
Spine(ns, h) ==
  IF h = None THEN {}
  ELSE LET at[d \in 0 .. MaxHeight] ==
             IF d = 0 THEN h ELSE IF at[d - 1] = None THEN None ELSE Ascend(ns, at[d - 1])
       IN  {at[d].node : d \in {e \in 0 .. MaxHeight : at[e] # None}}

\* Mutant: only the leaf is freed.
BugDropEnds ==
  /\ op.at = "drop" /\ op.it.length = 0
  /\ nodes' = Freed(nodes, IF op.it.front = None THEN {} ELSE {op.it.front.node})
  /\ op' = IF op.then = <<>> THEN Idle ELSE [op EXCEPT !.it = Head(op.then), !.then = Tail(op.then)]
  /\ UNCHANGED <<root, height, length, expected, failed, other>>

DropEnds ==
  /\ op.at = "drop" /\ op.it.length = 0
  /\ nodes' = Freed(nodes, Spine(nodes, op.it.front))
  /\ op' = IF op.then = <<>> THEN Idle ELSE [op EXCEPT !.it = Head(op.then), !.then = Tail(op.then)]
  /\ UNCHANGED <<root, height, length, expected, failed, other>>

-----------------------------------------------------------------------------
(* clone and split_off.                                                    *)

Free == {n \in Node : nodes[n] = None}
InOrder(S) == IF S = {} THEN <<>> ELSE SelectSeq([i \in 1 .. Max(S) + 1 |-> i - 1], LAMBDA k : k \in S)

\* The nodes of the tree at r, level by level.
Levels(ns, r) ==
  FoldLeft(LAMBDA levels, d : Append(levels, UNION {Range(ns[m].edges) : m \in Last(levels)}),
           <<{r} \ {None}>>, [d \in 1 .. MaxHeight |-> d])
NodesOf(ns, r) == UNION Range(Levels(ns, r))

\* dfs of recalc_length.
KeyCount(ns, r) == MapThenSumSet(LAMBDA n : Len(ns[n].keys), NodesOf(ns, r))

\* clone_subtree: every node of the tree at r again, with new nodes.  Where there
\* is no memory for one, the nodes so far are dropped.
Cloned(r) ==
  LET old == InOrder(NodesOf(nodes, r))
      new == InOrder(Free)
      of(n) == new[CHOOSE i \in DOMAIN old : old[i] = n]
      copy(n) == [keys |-> nodes[n].keys, edges |-> [i \in DOMAIN nodes[n].edges |-> of(nodes[n].edges[i])],
                  parent |-> IF n = r THEN None ELSE of(nodes[n].parent), parent_idx |-> nodes[n].parent_idx]
  IN  [ns   |-> [n \in Node |-> IF \E i \in DOMAIN old : new[i] = n
                                THEN copy(old[CHOOSE i \in DOMAIN old : new[i] = n])
                                ELSE nodes[n]],
       root |-> of(r)]

Clone ==
  /\ op = Idle /\ other.root = None
  /\ IF length = 0 THEN UNCHANGED <<nodes, other>>
     ELSE /\ nodes' = Cloned(root).ns
          /\ other' = [root |-> Cloned(root).root, height |-> height,
                       length |-> KeyCount(nodes, root), keys |-> expected]
  /\ UNCHANGED <<root, height, length, op, expected, failed>>

\* new_leaf and h times push_level: nodes without keys, each the only child of the
\* next.
EmptyLevels(ns, new, h) ==
  [n \in Node |->
     IF \E d \in 0 .. h : new[d + 1] = n
     THEN LET d == CHOOSE e \in 0 .. h : new[e + 1] = n
          IN  [keys |-> <<>>, edges |-> IF d = 0 THEN <<>> ELSE <<new[d]>>,
               parent |-> IF d = h THEN None ELSE new[d + 2], parent_idx |-> IF d = h THEN 0 ELSE 1]
     ELSE ns[n]]

\* Some of the edges of a node; a leaf has none.
Slice(edges, i, j) == IF edges = <<>> THEN <<>> ELSE SubSeq(edges, i, j)

\* move_suffix: what is right of edge i of l goes to r, which has an edge only.
MoveSuffix(ns, l, i, r) ==
  LET moved == [ns EXCEPT ![l].keys = SubSeq(@, 1, i - 1), ![l].edges = Slice(@, 1, i),
                          ![r].keys = SubSeq(ns[l].keys, i, Len(ns[l].keys)),
                          ![r].edges = @ \o Slice(ns[l].edges, i + 1, Len(ns[l].edges))]
  IN  Linked(moved, r, 2 .. Len(moved[r].edges))

\* bulk_steal_left and bulk_steal_right: count keys with the edges outside of them
\* go from one child to the other, through the key of p between them.
BulkStealLeft(ns, p, i, count) ==
  LET l == ns[p].edges[i]
      r == ns[p].edges[i + 1]
      stays == Len(ns[l].keys) - count
      moved == [ns EXCEPT ![l].keys = SubSeq(@, 1, stays),
                          ![l].edges = Slice(@, 1, stays + 1),
                          ![p].keys[i] = ns[l].keys[stays + 1],
                          ![r].keys = SubSeq(ns[l].keys, stays + 2, Len(ns[l].keys)) \o <<ns[p].keys[i]>> \o @,
                          ![r].edges = Slice(ns[l].edges, stays + 2, Len(ns[l].edges)) \o @]
  IN  Linked(moved, r, DOMAIN moved[r].edges)

BulkStealRight(ns, p, i, count) ==
  LET l == ns[p].edges[i]
      r == ns[p].edges[i + 1]
      moved == [ns EXCEPT ![l].keys = @ \o <<ns[p].keys[i]>> \o SubSeq(ns[r].keys, 1, count - 1),
                          ![l].edges = @ \o Slice(ns[r].edges, 1, count),
                          ![p].keys[i] = ns[r].keys[count],
                          ![r].keys = SubSeq(@, count + 1, Len(@)),
                          ![r].edges = Slice(@, count + 1, Len(@))]
  IN  Linked(Linked(moved, l, DOMAIN moved[l].edges), r, DOMAIN moved[r].edges)

fix_top(m) ==
  LET popped[d \in 0 .. MaxHeight] ==
        IF d = 0 THEN m
        ELSE LET q == popped[d - 1]
             IN  IF q.height = 0 \/ q.ns[q.root].keys # <<>> THEN q ELSE PoppedLevel(q)
  IN  popped[MaxHeight]

\* One level of fix_right_border or fix_left_border: the child at the border of p
\* is merged with its sibling or gets keys from it.
FixChild(ns, p, side) ==
  LET i == IF side = "right" THEN Len(ns[p].keys) ELSE 1
      len == Len(ns[ns[p].edges[IF side = "right" THEN i + 1 ELSE i]].keys)
  IN  CASE can_merge(ns, p, i) -> Merge(ns, p, i)
        [] ~can_merge(ns, p, i) /\ len >= MIN_LEN + 1 -> ns
        [] OTHER -> IF side = "right" THEN BulkStealLeft(ns, p, i, MIN_LEN + 1 - len)
                    ELSE BulkStealRight(ns, p, i, MIN_LEN + 1 - len)

FixBorder(m, side) ==
  LET top == fix_top(m)
      fixed[d \in 0 .. top.height] ==
        IF d = 0 THEN [ns |-> top.ns, cur |-> top.root]
        ELSE LET up == fixed[d - 1]
                 ns == FixChild(up.ns, up.cur, side)
             IN  [ns |-> ns, cur |-> IF side = "right" THEN Last(ns[up.cur].edges) ELSE Head(ns[up.cur].edges)]
  IN  fix_top([top EXCEPT !.ns = fixed[top.height].ns])

\* The path to the key is split level by level.
SplitPath(key, right) ==
  LET split[d \in 0 .. height] ==
        LET up == split[d - 1]
            l == IF d = 0 THEN root ELSE up.child
            r == right[height - d + 1]
            i == SearchLinear(l, key)
            ns == MoveSuffix(IF d = 0 THEN EmptyLevels(nodes, right, height) ELSE up.ns, l, i, r)
        IN  [ns |-> ns, child |-> IF d = height THEN None ELSE nodes[l].edges[i]]
  IN  split[height].ns

\* split_off, where the right map becomes other.  Its nodes are allocated before
\* anything is moved, and freed again if there is no memory for one.
SplitOff(key) ==
  /\ op = Idle /\ other.root = None
  /\ IF length = 0 THEN UNCHANGED <<nodes, root, height, length, expected, other>>
     ELSE LET new == InOrder(Free)
              l == FixBorder([ns |-> SplitPath(key, new), root |-> root, height |-> height], "right")
              r == FixBorder([ns |-> l.ns, root |-> new[height + 1], height |-> height], "left")
              left == IF l.height < r.height THEN KeyCount(r.ns, l.root) ELSE length - KeyCount(r.ns, r.root)
          IN  /\ nodes' = r.ns
              /\ root' = l.root /\ height' = l.height /\ length' = left
              /\ expected' = {k \in expected : k < key}
              /\ other' = [root |-> r.root, height |-> r.height, length |-> length - left,
                           keys |-> {k \in expected : k >= key}]
  /\ UNCHANGED <<op, failed>>

-----------------------------------------------------------------------------
(* append: both maps are taken apart and one is built from their keys.     *)

\* "Do we have to append anything at all?"  "We can just swap self and other."
AppendSwaps ==
  /\ op = Idle /\ length = 0 /\ other.length > 0
  /\ root' = other.root /\ height' = other.height /\ length' = other.length /\ expected' = other.keys
  /\ other' = [root |-> root, height |-> height, length |-> length, keys |-> expected]
  /\ UNCHANGED <<nodes, op, failed>>

\* The iterators of both maps; what they are at is known only when it is looked at.
AppendBegins ==
  /\ op = Idle /\ length > 0 /\ other.length > 0
  /\ LET taken(r, len) == [it |-> into_iter(r, len), peeked |-> None]
     IN  op' = [at |-> "append", left |-> taken(root, length), right |-> taken(other.root, other.length)]
  /\ root' = None /\ height' = 0 /\ length' = 0
  /\ expected' = expected \cup other.keys
  /\ other' = EmptyMap
  /\ UNCHANGED <<nodes, failed>>

\* Peekable::peek, which takes the next key out of a tree; MergeIter::next looks at
\* the left map first.
Looked(p) == p.peeked # None \/ p.it.length = 0

AppendPeek(side) ==
  /\ op.at = "append" /\ root # None
  /\ ~Looked(op[side]) /\ (side = "right" => Looked(op.left))
  /\ LET s == IntoNext(nodes, op[side].it, "front")
     IN  nodes' = s.ns /\ op' = [op EXCEPT ![side] = [it |-> s.it, peeked |-> s.key]]
  /\ UNCHANGED <<root, height, length, expected, failed, other>>

BothLooked == op.at = "append" /\ root # None /\ Looked(op.left) /\ Looked(op.right)

\* MergeIter::next: the side whose key comes first; of two keys that are equal, that
\* of the left map is dropped.
Taken(side) ==
  LET k == op[side].peeked
      o == op[IF side = "left" THEN "right" ELSE "left"].peeked
  IN  k # None /\ (o = None \/ k <= o)

NextKey == IF Taken("right") THEN op.right.peeked ELSE op.left.peeked

Advanced(side) == IF Taken(side) THEN [op[side] EXCEPT !.peeked = None] ELSE op[side]

\* ensure_root_is_owned of the map that was taken.
AppendRoot ==
  /\ op.at = "append" /\ root = None
  /\ nodes' = [nodes EXCEPT ![New] = LeafNode(<<>>)]
  /\ root' = New
  /\ UNCHANGED <<height, length, op, expected, failed, other>>

\* The first node with room above the last leaf, None where only a new root has it.
OpenNode ==
  LET up[d \in 0 .. MaxHeight] ==
        IF d = 0 THEN LastLeaf(nodes, root)
        ELSE LET n == up[d - 1]
             IN  IF n = None \/ HasRoom(n) THEN n ELSE nodes[n].parent
  IN  up[MaxHeight]

\* The level of a node, counted from the leaves.
HeightOf(n) == LET levels == Levels(nodes, root) IN CHOOSE d \in 0 .. height : n \in levels[height - d + 1]

\* push_level without a key.
WithNewRoot(new) == Linked([nodes EXCEPT ![new] = [LeafNode(<<>>) EXCEPT !.edges = <<root>>]], new, {1})

\* One round of from_sorted_iter, where the last leaf has room.
AppendToLeaf ==
  /\ BothLooked /\ NextKey # None /\ OpenNode = LastLeaf(nodes, root)
  /\ nodes' = PushBack(nodes, OpenNode, NextKey, None)
  /\ op' = [op EXCEPT !.left = Advanced("left"), !.right = Advanced("right")]
  /\ length' = length + 1
  /\ UNCHANGED <<root, height, expected, failed, other>>

\* The key goes into a node above the leaf, with a tree of nodes without keys to its
\* right that is as high as its siblings.
AppendToInternal ==
  /\ BothLooked /\ NextKey # None /\ OpenNode \notin {None, LastLeaf(nodes, root)}
  /\ LET new == InOrder(Free)
         h == HeightOf(OpenNode)
     IN  nodes' = PushBack(EmptyLevels(nodes, new, h - 1), OpenNode, NextKey, new[h])
  /\ op' = [op EXCEPT !.left = Advanced("left"), !.right = Advanced("right")]
  /\ length' = length + 1
  /\ UNCHANGED <<root, height, expected, failed, other>>

\* There is none with room: push_level, and the key goes into the new root.
AppendRaises ==
  /\ BothLooked /\ NextKey # None /\ OpenNode = None
  /\ nodes' = WithNewRoot(New)
  /\ root' = New
  /\ height' = height + 1
  /\ UNCHANGED <<length, op, expected, failed, other>>

\* There is no memory for a node: n levels of the tree that waits for its parent
\* were built, and have no destructor.  The key is dropped, then the iterators with
\* all the keys they still have.
AppendFails(n) ==
  /\ BothLooked /\ NextKey # None /\ OpenNode # LastLeaf(nodes, root)
  /\ IF OpenNode = None THEN n = 0 ELSE n < HeightOf(OpenNode)
  /\ nodes' = IF n = 0 THEN nodes ELSE EmptyLevels(nodes, InOrder(Free), n - 1)
  /\ expected' = expected \ {op.left.peeked, op.right.peeked}
  /\ op' = [at |-> "drop", it |-> op.left.it, then |-> <<op.right.it>>, key |-> None, end |-> "front"]
  /\ failed' = "append"
  /\ UNCHANGED <<root, height, length, other>>

AppendFailsAtOnce ==
  /\ op.at = "append" /\ root = None
  /\ op' = [at |-> "drop", it |-> op.left.it, then |-> <<op.right.it>>, key |-> None, end |-> "front"]
  /\ failed' = "append"
  /\ UNCHANGED <<nodes, root, height, length, expected, other>>

\* fix_right_edge: the last child of every level gets its keys from its sibling.
FixRightEdge(ns) ==
  LET fixed[d \in 0 .. height] ==
        IF d = 0 THEN [ns |-> ns, cur |-> root]
        ELSE LET up == fixed[d - 1]
                 len == Len(up.ns[Last(up.ns[up.cur].edges)].keys)
                 stolen == IF len >= MIN_LEN THEN up.ns
                           ELSE BulkStealLeft(up.ns, up.cur, Len(up.ns[up.cur].keys), MIN_LEN - len)
             IN  [ns |-> stolen, cur |-> Last(stolen[up.cur].edges)]
  IN  fixed[height].ns

\* The keys are used up: what is left of the old trees is freed, and the right edge
\* fixed.
AppendEnds ==
  /\ BothLooked /\ NextKey = None
  /\ nodes' = FixRightEdge(Freed(nodes, Spine(nodes, op.left.it.front) \cup Spine(nodes, op.right.it.front)))
  /\ op' = Idle
  /\ UNCHANGED <<root, height, length, expected, failed, other>>

BulkStep ==
  \/ Step /\ UNCHANGED other
  \/ \E end \in {"front", "back"} : IntoTake(end)
  \/ IntoTakesTooMuch
  \/ IntoDropped \/ DropEnds
  \/ AppendRoot \/ AppendToLeaf \/ AppendToInternal \/ AppendRaises \/ AppendEnds
  \/ \E side \in {"left", "right"} : AppendPeek(side)
  \/ FillPanics /\ UNCHANGED other
BulkFails ==
  \/ Fails /\ UNCHANGED other
  \/ AppendFailsAtOnce
  \/ \E n \in 0 .. MaxHeight : AppendFails(n)

-----------------------------------------------------------------------------
(* Properties.                                                             *)

Ended == op.at \in {"idle", "panic", "undefined"}

\* The tree of one depth below r: node.rs, "Trees must have uniform depth/height".
\* Every node has one edge more than keys, hangs where its parent and parent_idx
\* say, has no more keys than the debug assertions of insert_fit, push and merge
\* allow, and has a key if it is not the root (RemoveKv and Fill rely on it without
\* a check).  The keys of a leaf are in order, and a key above the leaves is between
\* its neighbours, the last key left and the first key right of it.
WellFormed(r, h) ==
  r = None \/
    LET levels == Levels(nodes, r)
        rightEdge == IF failed = "append" THEN Spine(nodes, last_leaf_edge(nodes, r)) ELSE {}
    IN  /\ nodes[r].parent = None
        /\ \A d \in 0 .. MaxHeight : \A n \in levels[d + 1] :
             LET keys == nodes[n].keys
                 edges == nodes[n].edges
             IN  /\ d <= h
                 /\ Len(edges) = IF d = h THEN 0 ELSE Len(keys) + 1
                 /\ Len(keys) <= CAPACITY
                 /\ keys = <<>> => n \in {r} \cup rightEdge
                 /\ \A i \in DOMAIN edges : nodes[edges[i]].parent = n /\ nodes[edges[i]].parent_idx = i
                 /\ \A i \in DOMAIN keys :
                      IF d = h THEN i > 1 => keys[i - 1] < keys[i]
                      ELSE /\ Last(nodes[LastLeaf(nodes, edges[i])].keys) < keys[i]
                           /\ keys[i] < Head(nodes[FirstLeaf(nodes, edges[i + 1])].keys)

\* Between calls both maps are search trees whose nodes hang where they should,
\* whatever was split, merged, stolen or moved; only a failed append leaves nodes
\* without keys, on the right edge.
TreeShape ==
  /\ height \in 0 .. MaxHeight /\ length \in Nat /\ expected \subseteq Key
  /\ op = Idle => WellFormed(root, height) /\ WellFormed(other.root, other.height)

KeysOf(r) == UNION {Range(nodes[n].keys) : n \in NodesOf(nodes, r)}

\* Between calls the maps have the keys that were inserted, not removed and not moved
\* to the other one, but for those that a failed call dropped, and without a failure
\* their lengths are right and every node that was allocated is in one of them: drop,
\* into_iter, append and split_off neither leak a node nor free one twice.
HoldsTheKeys ==
  op = Idle =>
    /\ KeysOf(root) = expected /\ KeysOf(other.root) = other.keys
    /\ failed = None =>
         /\ length = Cardinality(expected) /\ other.length = Cardinality(other.keys)
         /\ {n \in Node : nodes[n] # None} = NodesOf(nodes, root) \cup NodesOf(nodes, other.root)

\* len, "the number of elements in the map", is too large after a failed insert, and
\* the iterators that consume a map trust it.  An iterator leaves the tree only after a failed insert, whose key is counted and
\* not there, and remove_kv finds a parent without keys, which it calls unreachable,
\* only after a failed append.
BreaksOnlyAfterFailure ==
  /\ op.at = "undefined" => failed = "insert"
  /\ op.at = "panic" => failed = "append"

\* What a range promises: the keys of the map between its bounds, in order.
Within(lo, hi) ==
  {k \in expected :
     /\ lo = Unbounded \/ lo.key < k \/ (lo.kind = "included" /\ lo.key = k)
     /\ hi = Unbounded \/ k < hi.key \/ (hi.kind = "included" /\ hi.key = k)}

\* The handle from which the key k is taken.
HandleAt(k, end) ==
  LET n == CHOOSE m \in NodesOf(nodes, root) : k \in Range(nodes[m].keys)
      i == CHOOSE j \in DOMAIN nodes[n].keys : nodes[n].keys[j] = k
  IN  [node |-> n, idx |-> IF end = "front" THEN i ELSE i + 1]

\* range panics where its documentation says and nowhere else; from the front and
\* from the back it returns the keys between its bounds in order, and front and
\* back are the same handle exactly when all keys were returned, however many of
\* them at which end.
RangeExact(lo, hi) ==
  LET r == range_search(lo, hi)
      want == InOrder(Within(lo, hi))
      n == Len(want)
      fronts == [i \in 0 .. n |-> IF i = 0 THEN r.front ELSE AfterKv(nodes, HandleAt(want[i], "front"), "front")]
      backs == [i \in 0 .. n |-> IF i = n THEN r.back ELSE AfterKv(nodes, HandleAt(want[i + 1], "back"), "back")]
  IN  IF RangePanics(lo, hi) THEN r = None
      ELSE /\ \A i \in 1 .. n : /\ NextUnchecked(nodes, fronts[i - 1], "front").key = want[i]
                                /\ NextUnchecked(nodes, backs[i], "back").key = want[i]
           /\ fronts = backs
           /\ Cardinality({fronts[i] : i \in 0 .. n}) = n + 1

\* iter is the range without bounds, and its length lets it stop where that ends;
\* object::put takes the greatest handle from the back of it.
IterExact ==
  LET r == range_search(Unbounded, Unbounded)
  IN  /\ iter = [front |-> r.front, back |-> r.back, length |-> Cardinality(expected)]
      /\ IterNext(iter, "back") = IF expected = {} THEN None ELSE Max(expected)

\* Of a map that is consumed each end gives the least and the greatest key left.
DrainInOrder ==
  op.at = "into" /\ op.key # None =>
    \A k \in expected : IF op.end = "front" THEN op.key < k ELSE k < op.key
=============================================================================
