----------------------------- MODULE MCDiskBTree -----------------------------
(* DiskBTree with small nodes: Tall has three levels and splits inner nodes  *)
(* below the root, Wide merges leaves that hold entries.                     *)
EXTENDS DiskBTree

Index(n, slots) == [keys |-> 1 .. n, leafSlots |-> slots, internalSlots |-> 3]

TallAndWide == {Index(7, 3), Index(9, 5)}
Small == {Index(2, 4)}
MCNoPage == -1
=============================================================================
