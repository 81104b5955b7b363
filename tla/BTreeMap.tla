------------------------------ MODULE BTreeMap ------------------------------
(***************************************************************************)
(* alloc_collections/src/btree, the map in which the kernel keeps tasks    *)
(* and handles: the B-tree of the standard library changed so that         *)
(* insert reports when there is no memory for a node.                      *)
(*                                                                         *)
(* Nodes refer to their children and, by parent and parent_idx, to the     *)
(* place they hang at.  An operation is a loop that goes down to a leaf    *)
(* and up again as far as the change reaches; a step of it is an action.   *)
(* A value moves with its key and is left out, indices count from one, and *)
(* a new node gets the smallest unused identity.                           *)
(***************************************************************************)
EXTENDS Naturals, Sequences, FiniteSets, SequencesExt

CONSTANTS
  B,            \* node::B
  Key,          \* the keys, numbers
  Node,         \* identities of nodes, numbers
  MaxHeight,    \* bound: height of the tree, for the operators that walk it
  None

CAPACITY == 2 * B - 1

\* The right half of a split has B - 2 keys, and the only place a node without
\* keys may be is the root: a node must survive a merge of two of its children.
ASSUME BTreeAssumption ==
  /\ B \in Nat /\ B >= 4
  /\ Key \subseteq Nat /\ Node \subseteq Nat
  /\ None \notin Key \cup Node

VARIABLES
  nodes,        \* nodes[n]: the node, None if n is not allocated
  root,         \* BTreeMap::root, None for EMPTY_ROOT_NODE
  height,       \* Root::height
  length,       \* BTreeMap::length
  op,           \* the call in progress
  expected,     \* the keys there should be
  failed        \* history: the call in which an allocation failed, None if none did

vars == <<nodes, root, height, length, op, expected, failed>>

Idle == [at |-> "idle"]
LeafNode(keys) == [keys |-> keys, edges |-> <<>>, parent |-> None, parent_idx |-> 0]

Init ==
  /\ nodes = [n \in Node |-> None]
  /\ root = None
  /\ height = 0
  /\ length = 0
  /\ op = Idle
  /\ expected = {}
  /\ failed = None

New == CHOOSE n \in Node : nodes[n] = None /\ \A m \in Node : nodes[m] = None => n <= m

-----------------------------------------------------------------------------
(* Operations on nodes, ns being the nodes before them.                    *)

\* correct_parent_link of the edges is of n.
Linked(ns, n, is) ==
  [m \in Node |->
     IF \E i \in is : ns[n].edges[i] = m
     THEN [ns[m] EXCEPT !.parent = n,
                        !.parent_idx = CHOOSE i \in is : ns[n].edges[i] = m]
     ELSE ns[m]]

\* insert_fit at edge i of n; edge is None in a leaf.
InsertFit(ns, n, i, key, edge) ==
  LET keyed == [ns EXCEPT ![n].keys = InsertAt(@, i, key)]
  IN  IF edge = None THEN keyed
      ELSE Linked([keyed EXCEPT ![n].edges = InsertAt(@, i + 1, edge)],
                  n, i + 1 .. Len(ns[n].edges) + 1)

\* split of n at its key B + 1: what is to the right of it goes to the new node.
SplitNode(ns, n, new) ==
  LET k == ns[n].keys
      e == ns[n].edges
      right == [LeafNode(SubSeq(k, B + 2, Len(k))) EXCEPT !.edges = SubSeq(e, B + 2, Len(e))]
      both == [ns EXCEPT ![n].keys = SubSeq(k, 1, B),
                         ![n].edges = SubSeq(e, 1, IF e = <<>> THEN 0 ELSE B + 1),
                         ![new] = right]
  IN  Linked(both, new, DOMAIN right.edges)

\* insert into the full node n.
InsertSplit(ns, n, i, key, edge, new) ==
  IF i <= B + 1
  THEN InsertFit(SplitNode(ns, n, new), n, i, key, edge)
  ELSE InsertFit(SplitNode(ns, n, new), new, i - (B + 1), key, edge)

\* merge of the children of p on both sides of its key i.
Merge(ns, p, i) ==
  LET l == ns[p].edges[i]
      r == ns[p].edges[i + 1]
      below == Linked([ns EXCEPT ![l].keys = @ \o <<ns[p].keys[i]>> \o ns[r].keys,
                                 ![l].edges = @ \o ns[r].edges],
                      l, Len(ns[l].edges) + 1 .. Len(ns[l].edges) + Len(ns[r].edges))
      above == [below EXCEPT ![p].keys = RemoveAt(@, i), ![p].edges = RemoveAt(@, i + 1)]
  IN  [Linked(above, p, i + 1 .. Len(ns[p].keys)) EXCEPT ![r] = None]

\* push and push_front: a key with the edge outside of it, None in a leaf.
PushBack(ns, n, key, edge) ==
  LET keyed == [ns EXCEPT ![n].keys = Append(@, key)]
  IN  IF edge = None THEN keyed
      ELSE Linked([keyed EXCEPT ![n].edges = Append(@, edge)], n, {Len(ns[n].edges) + 1})

PushFront(ns, n, key, edge) ==
  LET keyed == [ns EXCEPT ![n].keys = <<key>> \o @]
  IN  IF edge = None THEN keyed
      ELSE Linked([keyed EXCEPT ![n].edges = <<edge>> \o @], n, 1 .. Len(ns[n].edges) + 1)

LastEdge(ns, n) == IF ns[n].edges = <<>> THEN None ELSE Last(ns[n].edges)
FirstEdge(ns, n) == IF ns[n].edges = <<>> THEN None ELSE Head(ns[n].edges)

\* pop and pop_front: the nodes without the last or first key and the edge
\* outside of it, whose parent is cleared.
Pop(ns, n) ==
  LET keyed == [ns EXCEPT ![n].keys = Front(@)]
  IN  IF ns[n].edges = <<>> THEN keyed
      ELSE [keyed EXCEPT ![n].edges = Front(@), ![LastEdge(ns, n)].parent = None]

\* Mutant: the edges that are left keep their old indices.
BugPopFront(ns, n) ==
  LET keyed == [ns EXCEPT ![n].keys = Tail(@)]
  IN  IF ns[n].edges = <<>> THEN keyed
      ELSE [keyed EXCEPT ![n].edges = Tail(@), ![FirstEdge(ns, n)].parent = None]

PopFront(ns, n) ==
  LET keyed == [ns EXCEPT ![n].keys = Tail(@)]
  IN  IF ns[n].edges = <<>> THEN keyed
      ELSE Linked([keyed EXCEPT ![n].edges = Tail(@), ![FirstEdge(ns, n)].parent = None],
                  n, 1 .. Len(ns[n].edges) - 1)

\* steal_left: the last key of the left child goes to p and the key of p to the
\* right child, with the last edge.
StealLeft(ns, p, i) ==
  LET l == ns[p].edges[i]
      r == ns[p].edges[i + 1]
      taken == [Pop(ns, l) EXCEPT ![p].keys[i] = Last(ns[l].keys)]
  IN  PushFront(taken, r, ns[p].keys[i], LastEdge(ns, l))

\* steal_right: the first key of the right child goes to p and the key of p to
\* the left child, with the first edge.
StealRight(ns, p, i) ==
  LET l == ns[p].edges[i]
      r == ns[p].edges[i + 1]
      taken == [PopFront(ns, r) EXCEPT ![p].keys[i] = Head(ns[r].keys)]
  IN  PushBack(taken, l, ns[p].keys[i], FirstEdge(ns, r))

-----------------------------------------------------------------------------
(* The calls.                                                              *)

\* The call ends; e are the keys that there should be now.
Done(e) == op' = Idle /\ expected' = e

\* search_linear: the first key that is not less than key, or the last edge.
SearchLinear(n, key) ==
  CHOOSE i \in 1 .. Len(nodes[n].keys) + 1 :
    /\ \A j \in 1 .. i - 1 : nodes[n].keys[j] < key
    /\ i <= Len(nodes[n].keys) => nodes[n].keys[i] >= key

Search(kind, key, n) == [at |-> "search", kind |-> kind, key |-> key, node |-> n, height |-> height]

\* get, remove and insert; insert first replaces the shared empty root.
Call(kind, key) ==
  /\ op = Idle
  /\ IF root # None
     THEN op' = Search(kind, key, root) /\ UNCHANGED <<nodes, root, expected>>
     ELSE IF kind = "insert"
     THEN /\ nodes' = [nodes EXCEPT ![New] = LeafNode(<<>>)]
          /\ root' = New
          /\ op' = Search(kind, key, New)
          /\ UNCHANGED expected
     ELSE Done(expected) /\ UNCHANGED <<nodes, root>>
  /\ UNCHANGED <<height, length, failed>>

\* ensure_root_is_owned fails, before anything is changed.
InsertFailsAtOnce ==
  /\ op = Idle /\ root = None
  /\ failed' = "insert"
  /\ UNCHANGED <<nodes, root, height, length, op, expected>>

\* The search goes on in the child at edge i.
GoDown(i) == [op EXCEPT !.node = nodes[op.node].edges[i], !.height = @ - 1]

\* One level of search_tree.
Descend ==
  /\ op.at = "search"
  /\ LET i == SearchLinear(op.node, op.key)
         k == nodes[op.node].keys
         found == i <= Len(k) /\ k[i] = op.key
     IN  CASE found /\ op.kind = "remove" ->
                op' = [at |-> "remove", node |-> op.node, idx |-> i, key |-> op.key, height |-> op.height]
                /\ UNCHANGED expected
           [] found /\ op.kind # "remove" -> Done(expected)
           [] ~found /\ op.height > 0 ->
                op' = GoDown(i)
                /\ UNCHANGED expected
           [] ~found /\ op.height = 0 /\ op.kind = "insert" ->
                op' = [at |-> "insert", node |-> op.node, idx |-> i, ins |-> op.key, edge |-> None, key |-> op.key]
                /\ UNCHANGED expected
           [] OTHER -> Done(expected \ {op.key})
  /\ UNCHANGED <<nodes, root, height, length, failed>>

\* VacantEntry::insert counts the key before anything can fail, at the leaf.
Counted == IF op.edge = None THEN length + 1 ELSE length

HasRoom(n) == Len(nodes[n].keys) < CAPACITY

\* The key, and the edge to its right, fit into the node.
Fits ==
  /\ op.at = "insert" /\ HasRoom(op.node)
  /\ nodes' = InsertFit(nodes, op.node, op.idx, op.ins, op.edge)
  /\ length' = Counted
  /\ Done(expected \cup {op.key})
  /\ UNCHANGED <<root, height, failed>>

\* ascend: the node hangs at an edge of another one.
HasParent(n) == nodes[n].parent # None

\* The node is split and the middle key goes up, or needs a new root.
Splits ==
  /\ op.at = "insert" /\ ~HasRoom(op.node)
  /\ nodes' = InsertSplit(nodes, op.node, op.idx, op.ins, op.edge, New)
  /\ length' = Counted
  /\ LET up == [op EXCEPT !.ins = nodes[op.node].keys[B + 1], !.edge = New]
         n == nodes[op.node]
     IN  op' = IF HasParent(op.node)
               THEN [up EXCEPT !.node = n.parent, !.idx = n.parent_idx]
               ELSE [up EXCEPT !.at = "push"]
  /\ UNCHANGED <<root, height, expected, failed>>

\* push_level: the old root becomes the only child of a new one, which gets the
\* middle key and the right half.
PushLevel ==
  /\ op.at = "push"
  /\ LET top == [LeafNode(<<>>) EXCEPT !.edges = <<root>>]
     IN  nodes' = PushBack(Linked([nodes EXCEPT ![New] = top], New, {1}), New, op.ins, op.edge)
  /\ root' = New
  /\ height' = height + 1
  /\ Done(expected \cup {op.key})
  /\ UNCHANGED <<length, failed>>

\* The keys in and below a node; leaves are at most MaxHeight below it.
KeysBelow(ns, n) ==
  LET keysOf(m) == {ns[m].keys[i] : i \in DOMAIN ns[m].keys}
      edgesOf(m) == {ns[m].edges[i] : i \in DOMAIN ns[m].edges}
      level[d \in 0 .. MaxHeight] == IF d = 0 THEN {n} ELSE UNION {edgesOf(m) : m \in level[d - 1]}
  IN  UNION {keysOf(m) : m \in UNION {level[d] : d \in 0 .. MaxHeight}}

\* There is no memory for the node that the insert needs.  Above the leaf, the
\* key and the value on their way up are dropped, and the edge with them is a bare
\* pointer: the half it leads to is gone, with everything in it.
InsertFails ==
  /\ op.at = "push" \/ (op.at = "insert" /\ ~HasRoom(op.node))
  /\ length' = Counted
  /\ failed' = "insert"
  /\ Done(IF op.edge = None THEN expected
          ELSE (expected \cup {op.key}) \ ({op.ins} \cup KeysBelow(nodes, op.edge)))
  /\ UNCHANGED <<nodes, root, height>>

\* first_leaf_edge, its leaf: down the first edges as long as there are any.
FirstLeaf(ns, n) ==
  LET down[d \in 0 .. MaxHeight] ==
        IF d = 0 THEN n
        ELSE IF ns[down[d - 1]].edges = <<>> THEN down[d - 1]
        ELSE Head(ns[down[d - 1]].edges)
  IN  down[MaxHeight]

\* The key of an internal node is replaced by the next one, which is in a leaf.
RemoveKv ==
  /\ op.at = "remove"
  /\ LET leaf == IF op.height = 0 THEN op.node
                 ELSE FirstLeaf(nodes, nodes[op.node].edges[op.idx + 1])
     IN  /\ nodes' = IF op.height = 0
                     THEN [nodes EXCEPT ![leaf].keys = RemoveAt(@, op.idx)]
                     ELSE [nodes EXCEPT ![op.node].keys[op.idx] = Head(nodes[leaf].keys),
                                        ![leaf].keys = Tail(@)]
         /\ op' = [at |-> "fill", node |-> leaf, key |-> op.key]
  /\ length' = length - 1
  /\ UNCHANGED <<root, height, expected, failed>>

Underfull(n) == Len(nodes[n].keys) < CAPACITY \div 2

\* The loop of remove_kv ends: the node has enough keys or is the root.
FillEnds ==
  /\ op.at = "fill"
  /\ ~(Underfull(op.node) /\ HasParent(op.node))
  /\ Done(expected \ {op.key})
  /\ UNCHANGED <<nodes, root, height, length, failed>>

can_merge(ns, p, i) ==
  Len(ns[ns[p].edges[i]].keys) + Len(ns[ns[p].edges[i + 1]].keys) + 1 <= CAPACITY

\* left_kv, or right_kv if there is none: the key beside the edge to n.
HasLeft(n) == nodes[n].parent_idx > 1
KvBeside(n) == IF HasLeft(n) THEN nodes[n].parent_idx - 1 ELSE 1

\* Mutant: the key to the right is not looked at.
BugOnlyChild(n) == nodes[n].parent_idx = 1

\* EmptyParent: the parent of n has no key beside it.
OnlyChild(n) == nodes[nodes[n].parent].keys = <<>>

\* pop_level: the first child of the root is the new root.
PoppedLevel(m) ==
  LET top == m.ns[m.root].edges[1]
  IN  [ns |-> [m.ns EXCEPT ![top].parent = None, ![m.root] = None], root |-> top, height |-> m.height - 1]

PopLevel(ns) ==
  LET m == PoppedLevel([ns |-> ns, root |-> root, height |-> height])
  IN  nodes' = m.ns /\ root' = m.root /\ height' = m.height

\* handle_underfull_node: with the left sibling, or the right one if there is
\* none, a merge if both fit into one node and else one key is taken.
Fill ==
  /\ op.at = "fill" /\ Underfull(op.node) /\ HasParent(op.node) /\ ~OnlyChild(op.node)
  /\ LET p == nodes[op.node].parent
         i == KvBeside(op.node)
         merged == Merge(nodes, p, i)
     IN  IF ~can_merge(nodes, p, i)
         THEN /\ nodes' = IF HasLeft(op.node) THEN StealLeft(nodes, p, i) ELSE StealRight(nodes, p, i)
              /\ Done(expected \ {op.key})
              /\ UNCHANGED <<root, height>>
         ELSE IF merged[p].keys = <<>>
         THEN PopLevel(merged) /\ Done(expected \ {op.key})
         ELSE /\ nodes' = merged
              /\ op' = [op EXCEPT !.node = p]
              /\ UNCHANGED <<root, height, expected>>
  /\ UNCHANGED <<length, failed>>

\* remove_kv calls this unreachable.
FillPanics ==
  /\ op.at = "fill" /\ Underfull(op.node) /\ HasParent(op.node) /\ OnlyChild(op.node)
  /\ op' = [at |-> "panic"]
  /\ UNCHANGED <<nodes, root, height, length, expected, failed>>

Step == Descend \/ Fits \/ Splits \/ PushLevel \/ RemoveKv \/ FillEnds \/ Fill
Fails == InsertFailsAtOnce \/ InsertFails
=============================================================================
