------------------------------ MODULE DiskBTree ------------------------------
(***************************************************************************)
(* DiskBPlusTreeIndex: a B+ tree whose nodes are pages of the table's      *)
(* file.  A node is a record: in a leaf, vals[i] is the RID stored with    *)
(* keys[i]; in an inner node, vals are the pages of the children, one more *)
(* than keys, and keys[i] separates vals[i] from vals[i + 1].  The byte    *)
(* layout of a page is left out, and so are the pins, which every routine  *)
(* returns before it ends.  The tree keeps nothing outside its pages but   *)
(* the number of the root page, which never changes.                       *)
(*                                                                         *)
(* One thread uses the index at a time (the catalog calls it with its      *)
(* mutex held, the shell runs one statement at a time), so Insert and      *)
(* Erase are one action each, all the splits and merges included.          *)
(***************************************************************************)
EXTENDS Integers, SequencesExt

CONSTANTS
  Kinds,      \* the indexes to consider; see below
  Copies,     \* how many rows there are with each key
  MaxSame,    \* how many of them may be in the index at a time
  MaxPages,   \* bound: pages of the tree
  NoPage      \* -1

\* An index is over the columns of its key, and these decide which keys there are,
\* how many entries fit into a leaf page and how many separators into an inner one.
ASSUME TreeAssumption ==
  /\ \A x \in Kinds : /\ x.keys \subseteq Int
                      /\ x.leafSlots \in Nat /\ x.leafSlots >= 3
                      /\ x.internalSlots \in Nat /\ x.internalSlots >= 3
  /\ {Copies, MaxSame, MaxPages} \subseteq Nat \ {0}
  /\ NoPage \notin Nat

VARIABLE
  kind,    \* which index this is; never changes
  nodes    \* the node in each page that belongs to the tree

vars == <<kind, nodes>>

Root == 0

LeafCapacity == kind.leafSlots - 1
InternalCapacity == kind.internalSlots - 1

\* The RID <<k, c>> is that of the row with key k and number c.
Rids == kind.keys \X (1 .. Copies)
Pairs == {<<r[1], r>> : r \in Rids}

Leaf(keys, vals, next) == [leaf |-> TRUE, keys |-> keys, vals |-> vals, next |-> next]
Inner(keys, vals) == [leaf |-> FALSE, keys |-> keys, vals |-> vals, next |-> NoPage]

\* AllocNode hands out a page that is not in the tree.  The code never uses the
\* page of a merged leaf again; here its number stands for the next new page.
NewPage(t) == CHOOSE p \in 0 .. 2 * MaxPages :
                p \notin DOMAIN t /\ \A q \in 0 .. p - 1 : q \in DOMAIN t

\* t with node n in page p.
Put(t, p, n) == [q \in DOMAIN t \cup {p} |-> IF q = p THEN n ELSE t[q]]

-----------------------------------------------------------------------------
\* Descent and search.

\* How many keys come before the first that is greater than k.
Position(ks, k) ==
  LET i == SelectInSeq(ks, LAMBDA x : k < x) IN IF i = 0 THEN Len(ks) ELSE i - 1

ChildFor(n, k) == n.vals[Position(n.keys, k) + 1]

\* The pages from p on along next.
Path(next, p) ==
  LET from[q \in DOMAIN next] ==
        <<q>> \o (IF next[q] = NoPage THEN <<>> ELSE from[next[q]])
  IN  from[p]

\* The way from the root to the leaf that key k belongs to.
WayTo(t, k) ==
  Path([p \in DOMAIN t |-> IF t[p].leaf THEN NoPage ELSE ChildFor(t[p], k)], Root)

FindLeafPage(t, k) == Last(WayTo(t, k))

\* The parent of target, looked for along the way to hint only.
FindParent(t, target, hint) ==
  LET way == WayTo(t, hint)
      i == SelectInSeq(way, LAMBDA p : p = target)
  IN  IF i <= 1 THEN NoPage ELSE way[i - 1]

\* next_leaf of every page, and the leaves from p on along it.
NextLeaf(t) == [q \in DOMAIN t |-> t[q].next]
Chain(t, p) == Path(NextLeaf(t), p)

\* The pairs of one leaf, and those from leaf p on along next_leaf.
EntriesOf(n) == [i \in 1 .. Len(n.keys) |-> <<n.keys[i], n.vals[i]>>]

EntriesFrom(t, p) ==
  LET from[q \in DOMAIN t] ==
        EntriesOf(t[q]) \o (IF t[q].next = NoPage THEN <<>> ELSE from[t[q].next])
  IN  from[p]

FirstLeaf(t) ==
  LET down[p \in DOMAIN t] == IF t[p].leaf THEN p ELSE down[t[p].vals[1]] IN down[Root]

ScanAll(t) == EntriesFrom(t, FirstLeaf(t))

\* The entries from the leaf of lo on, those below lo skipped, up to the first
\* above hi; the keys ascend along the chain.  Range of the code; Find(k) is the
\* case lo = hi = k.
Between(t, lo, hi) ==
  LET all == EntriesFrom(t, FindLeafPage(t, lo))
      first == SelectInSeq(all, LAMBDA e : lo <= e[1])
      after == SelectInSeq(all, LAMBDA e : hi < e[1])
  IN  IF first = 0 THEN <<>>
      ELSE SubSeq(all, first, IF after = 0 THEN Len(all) ELSE after - 1)

-----------------------------------------------------------------------------
(* Insertion.  A split is [tree, left, key, right]: page left of tree has  *)
(* given its upper half to the new page right, which starts at key, and    *)
(* the parent does not know yet; left is NoPage when there is nothing to   *)
(* tell.                                                                   *)

Whole(t) == [tree |-> t, left |-> NoPage, key |-> 0, right |-> NoPage]

InsertIntoLeaf(t, p, k, r) ==
  LET pos == Position(t[p].keys, k) + 1
  IN  [t EXCEPT ![p].keys = InsertAt(@, pos, k), ![p].vals = InsertAt(@, pos, r)]

\* The first half and the rest of a sequence.
Low(s, mid) == SubSeq(s, 1, mid)
High(s, mid) == SubSeq(s, mid + 1, Len(s))

\* Mutant of SplitLeaf: the new leaf ends the chain.
SplitLeafEndsChain(t, p) ==
  LET n == t[p]   mid == Len(n.keys) \div 2   sib == NewPage(t)
  IN  [tree |-> Put([t EXCEPT ![p] = Leaf(Low(n.keys, mid), Low(n.vals, mid), sib)], sib,
                    Leaf(High(n.keys, mid), High(n.vals, mid), NoPage)),
       left |-> p, key |-> n.keys[mid + 1], right |-> sib]

SplitLeaf(t, p) ==
  LET n == t[p]   mid == Len(n.keys) \div 2   sib == NewPage(t)
  IN  [tree |-> Put([t EXCEPT ![p] = Leaf(Low(n.keys, mid), Low(n.vals, mid), sib)], sib,
                    Leaf(High(n.keys, mid), High(n.vals, mid), n.next)),
       left |-> p, key |-> n.keys[mid + 1], right |-> sib]

\* The middle key goes up, the keys and children after it to the new page.
SplitInternal(t, p) ==
  LET n == t[p]   mid == Len(n.keys) \div 2   sib == NewPage(t)
  IN  [tree |-> Put([t EXCEPT ![p] = Inner(Low(n.keys, mid), Low(n.vals, mid + 1))], sib,
                    Inner(High(n.keys, mid + 1), High(n.vals, mid + 1))),
       left |-> p, key |-> n.keys[mid + 1], right |-> sib]

\* The root keeps its page: its node moves to a new one.
LiftRoot(s) ==
  LET p == NewPage(s.tree)
  IN  Whole(Put([s.tree EXCEPT ![Root] = Inner(<<s.key>>, <<p, s.right>>)],
                p, s.tree[Root]))

\* Mutant of InsertIntoParent: the new child goes before the split one.
InsertIntoParentBefore(s) ==
  IF s.left = NoPage THEN s
  ELSE IF s.left = Root THEN LiftRoot(s)
  ELSE LET p == FindParent(s.tree, s.left, s.key)
           i == SelectInSeq(s.tree[p].vals, LAMBDA c : c = s.left)
           t == [s.tree EXCEPT ![p].keys = InsertAt(@, i, s.key),
                               ![p].vals = InsertAt(@, i, s.right)]
       IN  IF p = NoPage THEN Whole(s.tree)
           ELSE IF Len(t[p].keys) > InternalCapacity THEN SplitInternal(t, p)
           ELSE Whole(t)

\* The separator and the new page enter the parent.  If the parent is not found
\* (-1), the code fetches page -1 of the file, which cannot be read or written:
\* the tree stays without the new child.
InsertIntoParent(s) ==
  IF s.left = NoPage THEN s
  ELSE IF s.left = Root THEN LiftRoot(s)
  ELSE LET p == FindParent(s.tree, s.left, s.key)
           i == SelectInSeq(s.tree[p].vals, LAMBDA c : c = s.left)
           t == [s.tree EXCEPT ![p].keys = InsertAt(@, i, s.key),
                               ![p].vals = InsertAt(@, i + 1, s.right)]
       IN  IF p = NoPage THEN Whole(s.tree)
           ELSE IF Len(t[p].keys) > InternalCapacity THEN SplitInternal(t, p)
           ELSE Whole(t)

\* InsertIntoParent and SplitInternal call each other up to the root.
Climb(s) ==
  LET up[i \in 0 .. MaxPages] == IF i = 0 THEN s ELSE InsertIntoParent(up[i - 1])
  IN  up[MaxPages].tree

Inserted(t, k, r) ==
  LET p == FindLeafPage(t, k)
      u == InsertIntoLeaf(t, p, k, r)
  IN  IF Len(t[p].keys) < LeafCapacity THEN u ELSE Climb(SplitLeaf(u, p))

-----------------------------------------------------------------------------
\* Removal.

MinKeys == LeafCapacity \div 2

\* Mutant of Borrow: the separator still admits the entry to the right leaf.
BorrowKeepsSeparator(t, parent, i, p, right) ==
  LET n == t[p]   r == t[right]
  IN  [t EXCEPT ![p] = Leaf(Append(n.keys, Head(r.keys)), Append(n.vals, Head(r.vals)), n.next),
                ![right] = Leaf(Tail(r.keys), Tail(r.vals), r.next)]

\* The first entry of the leaf right becomes the last of the leaf p; i is the
\* position of p in its parent.
Borrow(t, parent, i, p, right) ==
  LET n == t[p]   r == t[right]
  IN  [t EXCEPT ![p] = Leaf(Append(n.keys, Head(r.keys)), Append(n.vals, Head(r.vals)), n.next),
                ![right] = Leaf(Tail(r.keys), Tail(r.vals), r.next),
                ![parent].keys[i] = r.keys[2]]

\* Mutant of Merge: the parent loses the child and keeps its separator.
MergeKeepsSeparator(t, parent, i, p, right) ==
  LET n == t[p]   r == t[right]
      u == [t EXCEPT ![p] = Leaf(n.keys \o r.keys, n.vals \o r.vals, r.next),
                     ![parent].vals = RemoveAt(@, i + 1)]
  IN  Restrict(u, DOMAIN t \ {right})

\* The leaf right is emptied into the leaf p and leaves the tree.
Merge(t, parent, i, p, right) ==
  LET n == t[p]   r == t[right]
      u == [t EXCEPT ![p] = Leaf(n.keys \o r.keys, n.vals \o r.vals, r.next),
                     ![parent].keys = RemoveAt(@, i),
                     ![parent].vals = RemoveAt(@, i + 1)]
  IN  Restrict(u, DOMAIN t \ {right})

\* Mutant of RebalanceLeaf: a leaf merges with a neighbour that could lend.
RebalanceLeafMerges(t, p, hint) ==
  LET right == t[p].next
      parent == FindParent(t, p, hint)
      i == SelectInSeq(t[parent].vals, LAMBDA c : c = p)
  IN  IF Len(t[p].keys) >= MinKeys \/ right = NoPage \/ parent = NoPage THEN t
      ELSE IF i = Len(t[parent].vals) \/ t[parent].vals[i + 1] # right THEN t
      ELSE Merge(t, parent, i, p, right)

\* A leaf with too few entries takes one from its right neighbour, or all of
\* them; only if both have the same parent.
RebalanceLeaf(t, p, hint) ==
  LET right == t[p].next
      parent == FindParent(t, p, hint)
      i == SelectInSeq(t[parent].vals, LAMBDA c : c = p)
  IN  IF Len(t[p].keys) >= MinKeys \/ right = NoPage \/ parent = NoPage THEN t
      ELSE IF i = Len(t[parent].vals) \/ t[parent].vals[i + 1] # right THEN t
      ELSE IF Len(t[right].keys) > MinKeys THEN Borrow(t, parent, i, p, right)
      ELSE Merge(t, parent, i, p, right)

\* The pair is looked for from the leaf of its key on, up to the first leaf with a
\* greater key.
Erased(t, k, r) ==
  LET chain == Chain(t, FindLeafPage(t, k))
      pairs(p) == EntriesOf(t[p])
      n == SelectInSeq(chain, LAMBDA p : \/ Contains(pairs(p), <<k, r>>)
                                         \/ \E i \in DOMAIN t[p].keys : k < t[p].keys[i])
  IN  IF n = 0 \/ ~Contains(pairs(chain[n]), <<k, r>>) THEN t
      ELSE LET p == chain[n]
               i == SelectInSeq(pairs(p), LAMBDA e : e = <<k, r>>)
               u == [t EXCEPT ![p].keys = RemoveAt(@, i), ![p].vals = RemoveAt(@, i)]
           IN  IF p = Root THEN u ELSE RebalanceLeaf(u, p, k)

-----------------------------------------------------------------------------
Stored(t) == ToSet(ScanAll(t))

\* A new row enters the index.  A row is indexed once.
Insert(k, r) ==
  /\ LET stored == Stored(nodes)
     IN  /\ <<k, r>> \notin stored
         /\ Cardinality({e \in stored : e[1] = k}) < MaxSame
  /\ nodes' = Inserted(nodes, k, r)
  /\ Cardinality(DOMAIN nodes') <= MaxPages
  /\ UNCHANGED kind

\* A row leaves the index, or is not in it.
Erase(k, r) == /\ nodes' = Erased(nodes, k, r)
               /\ UNCHANGED kind

\* The constructor.
Init == /\ kind \in Kinds
        /\ nodes = [p \in {Root} |-> Leaf(<<>>, <<>>, NoPage)]

Next == \E e \in Pairs : Insert(e[1], e[2]) \/ Erase(e[1], e[2])

Spec == Init /\ [][Next]_vars

-----------------------------------------------------------------------------
\* Properties.

Pages == 0 .. MaxPages - 1

TypeOK ==
  /\ DOMAIN nodes \subseteq Pages /\ Root \in DOMAIN nodes
  /\ \A p \in DOMAIN nodes :
       LET n == nodes[p]
       IN  /\ n.leaf \in BOOLEAN /\ n.keys \in Seq(kind.keys)
           /\ n.next \in DOMAIN nodes \cup {NoPage}
           /\ IF n.leaf THEN n.vals \in Seq(Rids) /\ Len(n.vals) = Len(n.keys)
              ELSE n.vals \in Seq(DOMAIN nodes \ {Root}) /\ Len(n.vals) = Len(n.keys) + 1

\* The tree implements an ordered set of pairs: an Insert or Erase, with all its
\* splits, loans and merges, changes what ScanAll returns by the one pair.
Abstract == INSTANCE OrderedIndex WITH pairs <- Pairs, entries <- Stored(nodes)
IndexSpec == Abstract!Spec

\* Find and Range answer exactly, from every key to every other.
LookupExact ==
  LET stored == Stored(nodes)
  IN  \A lo, hi \in kind.keys : Abstract!Answers(stored, Between(nodes, lo, hi), lo, hi)

\* The leaves from left to right under page p.
LeavesUnder(t, p) ==
  LET under[q \in DOMAIN t] ==
        IF t[q].leaf THEN <<q>>
        ELSE FlattenSeq([i \in DOMAIN t[q].vals |-> under[t[q].vals[i]]])
  IN  under[p]

\* The two ways through the leaves agree: the chain that scans follow visits the
\* leaves the descent can reach, in their order, each once.
ChainIsTree ==
  LET leaves == LeavesUnder(nodes, Root)
  IN  /\ Chain(nodes, FirstLeaf(nodes)) = leaves
      /\ Cardinality(ToSet(leaves)) = Len(leaves)

\* Between calls every node leaves the slot free that an insertion needs before it
\* splits the node, the one the comment in Insert wonders about.
WithinCapacity ==
  \A p \in DOMAIN nodes :
    Len(nodes[p].keys) <= IF nodes[p].leaf THEN LeafCapacity ELSE InternalCapacity
=============================================================================
