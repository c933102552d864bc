---------------------------- MODULE OrderedIndex ----------------------------
(***************************************************************************)
(* What the interface Index promises of an index that supports range       *)
(* queries: a set of (key, rid) pairs that Insert extends and Erase        *)
(* shrinks by one pair, and that queries read in key order.  There are no  *)
(* nodes and no pages.  DiskBTree implements this specification.           *)
(***************************************************************************)
EXTENDS Integers, FiniteSets, Sequences

VARIABLES
  pairs,     \* the pairs that can be in the index; never changes
  entries    \* those that are

Init == entries = {}

Insert(e) == entries' = entries \cup {e}

\* Erasing a pair that is not there changes nothing.
Erase(e) == entries' = entries \ {e}

Next == \E e \in pairs : Insert(e) \/ Erase(e)

Spec == Init /\ [][Next]_entries

\* Is seq an answer of an index with the pairs in stored to Range(lo, hi)?  Every
\* pair of the closed interval, once, by ascending key.
Answers(stored, seq, lo, hi) ==
  LET got == {seq[i] : i \in 1 .. Len(seq)}
  IN  /\ got = {e \in stored : lo <= e[1] /\ e[1] <= hi}
      /\ Cardinality(got) = Len(seq)
      /\ \A i \in 2 .. Len(seq) : seq[i - 1][1] <= seq[i][1]
=============================================================================
