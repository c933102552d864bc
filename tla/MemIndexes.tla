----------------------------- MODULE MemIndexes -----------------------------
(***************************************************************************)
(* The in-memory implementations of Index: BPlusTreeIndex, HashIndex and   *)
(* BitmapIndex, over the typed, composite keys of IndexKey.                *)
(*                                                                         *)
(* An index is a value: a tree is a table of nodes, where 0 is the null    *)
(* pointer, and the other two are a map from keys to their rids.           *)
(***************************************************************************)
EXTENDS Expressions

CONSTANT Order     \* keys a node of the tree may hold (order_, 64 by default)

ASSUME OrderAssumption == Order \in Nat \ {0, 1}

-----------------------------------------------------------------------------
(* IndexKey.                                                               *)

NumComponent(n) == [is_str |-> FALSE, num |-> n, str |-> <<>>]
StrComponent(s) == [is_str |-> TRUE, num |-> 0, str |-> s]

ComponentLess(v, w) ==
  IF v.is_str # w.is_str THEN ~ v.is_str
  ELSE IF v.is_str THEN StrLess(v.str, w.str) ELSE v.num < w.num

\* By components, the shorter key first.
KeyLess(k, l) ==
  \E n \in 0 .. Len(l) - 1 :
    /\ n <= Len(k) /\ SubSeq(k, 1, n) = SubSeq(l, 1, n)
    /\ n = Len(k) \/ ComponentLess(k[n + 1], l[n + 1])

KeyLeq(k, l) == k = l \/ KeyLess(k, l)

\* std::upper_bound, as a number of keys.
UpperBound(keys, key) == Cardinality({i \in DOMAIN keys : KeyLeq(keys[i], key)})
LowerBound(keys, key) == Cardinality({i \in DOMAIN keys : KeyLess(keys[i], key)})

\* rids without the first occurrence of rid.
DropFirst(rids, rid) ==
  IF Contains(rids, rid) THEN RemoveAt(rids, SelectInSeq(rids, LAMBDA r : r = rid)) ELSE rids

-----------------------------------------------------------------------------
(* BPlusTreeIndex.                                                         *)

Leaf(keys, rids, next, parent) ==
  [leaf |-> TRUE, keys |-> keys, rids |-> rids, kids |-> <<>>, next |-> next, parent |-> parent]
Inner(keys, kids, parent) ==
  [leaf |-> FALSE, keys |-> keys, rids |-> <<>>, kids |-> kids, next |-> 0, parent |-> parent]

EmptyTree == [nodes |-> <<Leaf(<<>>, <<>>, 0, 0)>>, root |-> 1]

RECURSIVE DescendFrom(_, _, _)
DescendFrom(nodes, n, key) ==
  IF nodes[n].leaf THEN n
  ELSE DescendFrom(nodes, nodes[n].kids[UpperBound(nodes[n].keys, key) + 1], key)

FindLeaf(tree, key) == DescendFrom(tree.nodes, tree.root, key)

\* right is new and has no parent yet.
RECURSIVE InsertIntoParent(_, _, _, _)

\* Mutant of SplitInternal: the children moved keep their parent.
SplitInternalOrphans(tree, n) ==
  LET node == tree.nodes[n]
      mid == Len(node.keys) \div 2
      sibling == Len(tree.nodes) + 1
      moved == SubSeq(node.kids, mid + 2, Len(node.kids))
  IN  InsertIntoParent(
        [tree EXCEPT
           !.nodes = Append([@ EXCEPT ![n].keys = SubSeq(@, 1, mid),
                                      ![n].kids = SubSeq(@, 1, mid + 1)],
                            Inner(SubSeq(node.keys, mid + 2, Len(node.keys)), moved, 0))],
        n, node.keys[mid + 1], sibling)

SplitInternal(tree, n) ==
  LET node == tree.nodes[n]
      mid == Len(node.keys) \div 2
      sibling == Len(tree.nodes) + 1
      moved == SubSeq(node.kids, mid + 2, Len(node.kids))
      kept == [i \in DOMAIN tree.nodes |->
                 IF i = n THEN [node EXCEPT !.keys = SubSeq(@, 1, mid),
                                            !.kids = SubSeq(@, 1, mid + 1)]
                 ELSE IF Contains(moved, i) THEN [tree.nodes[i] EXCEPT !.parent = sibling]
                 ELSE tree.nodes[i]]
  IN  InsertIntoParent(
        [tree EXCEPT !.nodes =
           Append(kept, Inner(SubSeq(node.keys, mid + 2, Len(node.keys)), moved, 0))],
        n, node.keys[mid + 1], sibling)

InsertIntoParent(tree, left, key, right) ==
  IF left = tree.root
  THEN LET new == Len(tree.nodes) + 1
       IN  [nodes |-> Append([tree.nodes EXCEPT ![left].parent = new, ![right].parent = new],
                             Inner(<<key>>, <<left, right>>, 0)),
            root |-> new]
  ELSE LET parent == tree.nodes[left].parent
           pos == UpperBound(tree.nodes[parent].keys, key)
           grown == [tree EXCEPT !.nodes[right].parent = parent,
                                 !.nodes[parent].keys = InsertAt(@, pos + 1, key),
                                 !.nodes[parent].kids = InsertAt(@, pos + 2, right)]
       IN  IF Len(grown.nodes[parent].keys) > Order THEN SplitInternal(grown, parent) ELSE grown

SplitLeaf(tree, n) ==
  LET leaf == tree.nodes[n]
      mid == Len(leaf.keys) \div 2
      sibling == Len(tree.nodes) + 1
      up == leaf.keys[mid + 1]
  IN  InsertIntoParent(
        [tree EXCEPT !.nodes =
           Append([@ EXCEPT ![n] = [leaf EXCEPT !.keys = SubSeq(@, 1, mid),
                                                !.rids = SubSeq(@, 1, mid),
                                                !.next = sibling]],
                  Leaf(SubSeq(leaf.keys, mid + 1, Len(leaf.keys)),
                       SubSeq(leaf.rids, mid + 1, Len(leaf.rids)), leaf.next, 0))],
        n, up, sibling)

\* A key that is there gets one more rid.
TreeInsert(tree, key, rid) ==
  LET n == FindLeaf(tree, key)
      pos == LowerBound(tree.nodes[n].keys, key) + 1
      present == Contains(tree.nodes[n].keys, key)
      put == IF present
             THEN [tree EXCEPT !.nodes[n].rids[pos] = Append(@, rid)]
             ELSE [tree EXCEPT !.nodes[n].keys = InsertAt(@, pos, key),
                               !.nodes[n].rids = InsertAt(@, pos, <<rid>>)]
  IN  IF Len(put.nodes[n].keys) > Order THEN SplitLeaf(put, n) ELSE put

\* Nodes are never merged.
TreeErase(tree, key, rid) ==
  LET n == FindLeaf(tree, key)
      pos == LowerBound(tree.nodes[n].keys, key) + 1
      left == DropFirst(tree.nodes[n].rids[pos], rid)
  IN  IF ~ Contains(tree.nodes[n].keys, key) THEN tree
      ELSE IF left # <<>> THEN [tree EXCEPT !.nodes[n].rids[pos] = left]
      ELSE [tree EXCEPT !.nodes[n].keys = RemoveAt(@, pos), !.nodes[n].rids = RemoveAt(@, pos)]

TreeFind(tree, key) ==
  LET leaf == tree.nodes[FindLeaf(tree, key)]
  IN  IF Contains(leaf.keys, key) THEN leaf.rids[LowerBound(leaf.keys, key) + 1] ELSE <<>>

\* The entries <<key, rid>> of a leaf and of those that follow it in the chain.
RECURSIVE ChainFrom(_, _)
ChainFrom(nodes, n) ==
  IF n = 0 THEN <<>>
  ELSE Concat([i \in DOMAIN nodes[n].keys |->
                 [j \in DOMAIN nodes[n].rids[i] |-> <<nodes[n].keys[i], nodes[n].rids[i][j]>>]])
       \o ChainFrom(nodes, nodes[n].next)

\* From the leaf of lo, past smaller keys, until the first key above hi.
TreeRange(tree, lo, hi) ==
  LET chain == ChainFrom(tree.nodes, FindLeaf(tree, lo))
      stop == SelectInSeq(chain, LAMBDA e : KeyLeq(lo, e[1]) /\ KeyLess(hi, e[1]))
      upto == IF stop = 0 THEN chain ELSE SubSeq(chain, 1, stop - 1)
      hits == SelectSeq(upto, LAMBDA e : KeyLeq(lo, e[1]))
  IN  [i \in DOMAIN hits |-> hits[i][2]]

RECURSIVE Leftmost(_, _)
Leftmost(nodes, n) == IF nodes[n].leaf THEN n ELSE Leftmost(nodes, nodes[n].kids[1])

TreeScanAll(tree) == ChainFrom(tree.nodes, Leftmost(tree.nodes, tree.root))

-----------------------------------------------------------------------------
(* HashIndex and BitmapIndex: a map from keys to rids.                     *)

EmptyMap == [k \in {} |-> <<>>]

MapFind(map, key) == IF key \in DOMAIN map THEN map[key] ELSE <<>>

MapPut(map, key, rids) ==
  [k \in {l \in DOMAIN map \cup {key} : l # key \/ rids # <<>>} |->
     IF k = key THEN rids ELSE map[k]]

MapInsert(map, key, rid) == MapPut(map, key, Append(MapFind(map, key), rid))
MapErase(map, key, rid) == MapPut(map, key, DropFirst(MapFind(map, key), rid))

\* The entries of these keys, in the order of the keys.
MapEntries(map, keys) ==
  Concat([i \in DOMAIN keys |-> [j \in DOMAIN map[keys[i]] |-> <<keys[i], map[keys[i]][j]>>]])

\* BitmapIndex keeps a std::map, by ascending key.
BitmapRange(map, lo, hi) ==
  LET inside == {k \in DOMAIN map : KeyLeq(lo, k) /\ KeyLeq(k, hi)}
      hits == MapEntries(map, SetToSortSeq(inside, KeyLess))
  IN  [i \in DOMAIN hits |-> hits[i][2]]

BitmapScanAll(map) == MapEntries(map, SetToSortSeq(DOMAIN map, KeyLess))

\* HashIndex keeps a std::unordered_map: its keys come in an order nobody knows.
HashScanAll(map) ==
  MapEntries(map, FoldSet(LAMBDA k, keys : Append(keys, k), <<>>, DOMAIN map))

-----------------------------------------------------------------------------
(* The interface Index, and IndexFactory.                                  *)

Kinds == {"tree", "hash", "bitmap"}

NewIndex(kind) == [kind |-> kind, body |-> IF kind = "tree" THEN EmptyTree ELSE EmptyMap]

IndexInsert(ix, key, rid) ==
  [ix EXCEPT !.body = IF ix.kind = "tree" THEN TreeInsert(@, key, rid) ELSE MapInsert(@, key, rid)]
IndexErase(ix, key, rid) ==
  [ix EXCEPT !.body = IF ix.kind = "tree" THEN TreeErase(@, key, rid) ELSE MapErase(@, key, rid)]
IndexFind(ix, key) ==
  IF ix.kind = "tree" THEN TreeFind(ix.body, key) ELSE MapFind(ix.body, key)
IndexScanAll(ix) ==
  CASE ix.kind = "tree" -> TreeScanAll(ix.body)
    [] ix.kind = "bitmap" -> BitmapScanAll(ix.body)
    [] ix.kind = "hash" -> HashScanAll(ix.body)

\* HashIndex::Range throws; the scans ask first.
SupportsRange(ix) == ix.kind # "hash"
IndexRange(ix, lo, hi) ==
  IF ix.kind = "tree" THEN TreeRange(ix.body, lo, hi) ELSE BitmapRange(ix.body, lo, hi)
=============================================================================
