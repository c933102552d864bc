------------------------------ MODULE PageStore ------------------------------
(***************************************************************************)
(* What the buffer pool promises: numbered pages per table that hold what  *)
(* was last written to them.  There are no frames, no cache and no disk.   *)
(* BufferPool implements this specification.                               *)
(*                                                                         *)
(* The promise is not kept for the pages in lost.  A page is lost for one  *)
(* of three reasons: it is handed out a second time, which happens only to *)
(* miscounted pages; a file write fails; or the holder of a lost page      *)
(* overwrites another one.  Where every counter is restored, no table is   *)
(* read before it has a page and no write fails (Unwritable is empty),     *)
(* lost stays empty.                                                       *)
(***************************************************************************)
EXTENDS Integers, FiniteSets

CONSTANTS Tables, MaxPages, MaxVersions, Refs, Deletable, NoPage, NoRef,
          RestoredTables, FetchedEmpty, Unwritable

PageIds == Tables \X (0 .. MaxPages - 1)

VARIABLES
  allocated,  \* the pages the tables' counters know of
  store,      \* what each holds; Nothing: not allocated, deleted, or lost
  open,       \* the page each reference holds, NoRef when it holds none
  lost        \* the pages that need not hold what was written to them

vars == <<allocated, store, open, lost>>

Nothing == [of |-> NoPage, ver |-> 0]

Init == /\ allocated = {}
        /\ store = [p \in PageIds |-> Nothing]
        /\ open = [r \in Refs |-> NoRef]
        /\ lost = {}

PageCount(t) == Cardinality({p \in allocated : p[1] = t})

\* The pages that can be in use though no counter counts them.
Miscounted(p) == \/ p[1] \notin RestoredTables
                 \/ p[1] \in FetchedEmpty /\ p[2] = 0

\* At most the pages of S are lost, the others hold what s gives them.
Loses(S, s) == /\ lost \subseteq lost' /\ lost' \subseteq lost \cup S
               /\ store' = [p \in PageIds |-> IF p \in lost' THEN Nothing ELSE s[p]]

\* A new page is the next of its table.  If it is in use already, it is lost.
Allocate(r, t) ==
  LET p == <<t, PageCount(t)>>
  IN  /\ open[r] = NoRef /\ p \in PageIds
      /\ allocated' = allocated \cup {p}
      /\ Loses(Unwritable \cup (IF Miscounted(p) THEN {p} ELSE {}),
               [store EXCEPT ![p] = [of |-> p, ver |-> 0]])
      /\ store[p] # Nothing => p \in lost'
      /\ open' = [open EXCEPT ![r] = p]

Open(r, p) == /\ open[r] = NoRef /\ (p \in allocated \/ Miscounted(p))
              /\ Loses(Unwritable, store)
              /\ open' = [open EXCEPT ![r] = p]
              /\ UNCHANGED allocated

Modify(r) == LET p == open[r] IN
             /\ p # NoRef /\ p \notin lost
             /\ store[p].ver < MaxVersions
             /\ store' = [store EXCEPT ![p] = [of |-> p, ver |-> @.ver + 1]]
             /\ UNCHANGED <<allocated, open, lost>>

\* Who holds a lost page can write into the memory of one other page.
Overwrite(r, q) == /\ open[r] # NoRef /\ open[r] \in lost
                   /\ Loses({q}, store)
                   /\ UNCHANGED <<allocated, open>>

Close(r) == /\ open' = [open EXCEPT ![r] = NoRef]
            /\ UNCHANGED <<allocated, store, lost>>

\* Only a page that nobody holds can be deleted.
Delete(p) == /\ p \in Deletable /\ (p \in lost \/ \A r \in Refs : open[r] # p)
             /\ store' = [store EXCEPT ![p] = Nothing]
             /\ UNCHANGED <<allocated, open, lost>>

\* Not a call: something is written to a file, and that can fail.
Flush == Loses(Unwritable, store) /\ UNCHANGED <<allocated, open>>

\* A restart forgets who holds what, and the counters it does not restore.
Restart == /\ open' = [r \in Refs |-> NoRef]
           /\ allocated' = {p \in allocated : p[1] \in RestoredTables}
           /\ Loses(Unwritable, store)

Next == \/ \E r \in Refs : \/ \E t \in Tables : Allocate(r, t)
                           \/ \E p \in PageIds : Open(r, p) \/ Overwrite(r, p)
                           \/ Modify(r) \/ Close(r)
        \/ \E p \in PageIds : Delete(p)
        \/ Flush \/ Restart

Spec == Init /\ [][Next]_vars
=============================================================================
