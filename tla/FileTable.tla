------------------------------ MODULE FileTable ------------------------------
(***************************************************************************)
(* LRUTableManager with its FileLruManager: at most Capacity table files   *)
(* are open at a time.  Acquire returns the descriptor of a table's file   *)
(* and pins its frame, Release unpins it; when a frame is needed for       *)
(* another table, the frame unpinned longest ago is taken.                 *)
(*                                                                         *)
(* Acquire and Release hold mutex_ throughout, so each is one action.  Two *)
(* calls in the middle of Acquire can fail: create_directories, when the   *)
(* frame is off its list and no map holds it yet, and the open() of the    *)
(* file (no descriptor left, no permission), after the maps have been      *)
(* changed and before the descriptor has been stored.                      *)
(***************************************************************************)
EXTENDS Integers, FiniteSets, SequencesExt

CONSTANTS
  Tables,
  Capacity,    \* frames for open files
  Users,       \* callers between Acquire and Release, each for one table
  OpenFails,   \* can creating the data directory, or open(), fail?
  NoTable, NoFrame, NoFile   \* sentinels

Frames == 0 .. Capacity - 1

ASSUME FileAssumption ==
  /\ Capacity \in Nat \ {0}
  /\ IsFiniteSet(Users)
  /\ OpenFails \in BOOLEAN
  /\ NoTable \notin Tables /\ NoFrame \notin Frames
  /\ NoFile \notin [table : Tables, file : Tables \cup {NoTable}]

VARIABLES
  tables,       \* tables_
  frameTable,   \* frame_table_map_
  files,        \* files_: the table a frame's descriptor is of; NoTable: null
  free,         \* free_, a stack
  pinCount,     \* FrameState::pin_count
  evictable,    \* evictable_frames_, front first; FrameState::evictable: is in it
  using,        \* the table a user acquired, and the file it was given
  failed,       \* history: the mapped tables whose file could not be opened
  lost          \* history: the frames taken for a table whose directory could
                \* not be created

vars == <<tables, frameTable, files, free, pinCount, evictable, using, failed, lost>>

-----------------------------------------------------------------------------
Evictable(f) == \E i \in 1 .. Len(evictable) : evictable[i] = f

\* evictable_iters_[f].
Place(f) == CHOOSE i \in 1 .. Len(evictable) : evictable[i] = f

\* Mutant of Pin: a pinned frame stays in the list of evictable ones.
PinKeepsListed(f) == /\ pinCount' = [pinCount EXCEPT ![f] = @ + 1]
                     /\ UNCHANGED evictable

\* FileLruManager::Pin.
Pin(f) == /\ pinCount' = [pinCount EXCEPT ![f] = @ + 1]
          /\ evictable' = IF pinCount[f] = 0 /\ Evictable(f)
                          THEN RemoveAt(evictable, Place(f)) ELSE evictable

\* Mutant of Unpin: the frame is listed whether or not others have it pinned.
UnpinLists(f) == /\ pinCount[f] > 0
                 /\ pinCount' = [pinCount EXCEPT ![f] = @ - 1]
                 /\ evictable' = IF Evictable(f) THEN evictable ELSE Cons(f, evictable)

\* FileLruManager::Unpin.
Unpin(f) == /\ pinCount[f] > 0
            /\ pinCount' = [pinCount EXCEPT ![f] = @ - 1]
            /\ evictable' = IF pinCount[f] = 1 /\ ~Evictable(f)
                            THEN Cons(f, evictable) ELSE evictable

\* The frame Acquire takes for a table without one: the last of free_, else the
\* last of the evictable frames, whose table loses it.
CanTake(f) == IF free # <<>> THEN f = Last(free)
              ELSE evictable # <<>> /\ f = Last(evictable)

\* Mutant of Take: the evicted table keeps its entry.
TakeKeepsEntry(f, t) ==
  /\ CanTake(f)
  /\ free' = IF free # <<>> THEN Front(free) ELSE free
  /\ tables' = [tables EXCEPT ![t] = f]
  /\ frameTable' = [frameTable EXCEPT ![f] = t]

\* The frame is taken and InitFile maps the table to it.
Take(f, t) ==
  /\ CanTake(f)
  /\ free' = IF free # <<>> THEN Front(free) ELSE free
  /\ tables' = [u \in Tables |-> IF u = t THEN f
                                 ELSE IF free = <<>> /\ u = frameTable[f] THEN NoFrame
                                 ELSE tables[u]]
  /\ frameTable' = [frameTable EXCEPT ![f] = t]

Use(u, t, file) == using' = [using EXCEPT ![u] = [table |-> t, file |-> file]]

-----------------------------------------------------------------------------
\* Acquire.

\* Without a frame to take, Evict throws and nothing has changed.
AcquireNoFrame(u, t) ==
  /\ using[u] = NoFile /\ tables[t] = NoFrame
  /\ free = <<>> /\ evictable = <<>>
  /\ UNCHANGED vars

\* The table has a frame.
AcquireHit(u, t) ==
  /\ using[u] = NoFile /\ tables[t] # NoFrame
  /\ Pin(tables[t])
  /\ Use(u, t, files[tables[t]])
  /\ UNCHANGED <<tables, frameTable, files, free, failed, lost>>

\* It has none and its file is opened.  An evicted frame is off the list before
\* it is pinned.
AcquireOpen(u, t) ==
  /\ using[u] = NoFile /\ tables[t] = NoFrame
  /\ \E f \in Frames :
       /\ Take(f, t)
       /\ files' = [files EXCEPT ![f] = t]
       /\ pinCount' = [pinCount EXCEPT ![f] = @ + 1]
       /\ evictable' = IF free # <<>> THEN evictable ELSE Front(evictable)
       /\ failed' = failed \ {frameTable[f], t}
  /\ Use(u, t, t)
  /\ UNCHANGED lost

\* The directory of its file cannot be created: the frame has been taken from
\* its list and from the table it belonged to, and the exception comes before
\* any map holds it again.
AcquireLosesFrame(u, t) ==
  /\ OpenFails
  /\ using[u] = NoFile /\ tables[t] = NoFrame
  /\ \E f \in Frames :
       /\ CanTake(f)
       /\ free' = IF free # <<>> THEN Front(free) ELSE free
       /\ evictable' = IF free # <<>> THEN evictable ELSE Front(evictable)
       /\ tables' = [s \in Tables |-> IF free = <<>> /\ s = frameTable[f] THEN NoFrame
                                      ELSE tables[s]]
       /\ frameTable' = [frameTable EXCEPT ![f] = IF free = <<>> THEN NoTable ELSE @]
       /\ failed' = failed \ {frameTable[f]}
       /\ lost' = lost \cup {f}
  /\ UNCHANGED <<files, pinCount, using>>

\* Its file cannot be opened: the exception leaves the table mapped to a frame
\* that holds the descriptor of the table it belonged to before.
AcquireFails(u, t) ==
  /\ OpenFails
  /\ using[u] = NoFile /\ tables[t] = NoFrame
  /\ \E f \in Frames :
       /\ Take(f, t)
       /\ evictable' = IF free # <<>> THEN evictable ELSE Front(evictable)
       /\ failed' = (failed \ {frameTable[f]}) \cup {t}
  /\ UNCHANGED <<files, pinCount, using, lost>>

\* Release, by table.
Release(u) ==
  /\ using[u] # NoFile
  /\ LET t == using[u].table
     IN  IF tables[t] = NoFrame THEN UNCHANGED <<pinCount, evictable>>
         ELSE Unpin(tables[t])
  /\ using' = [using EXCEPT ![u] = NoFile]
  /\ UNCHANGED <<tables, frameTable, files, free, failed, lost>>

\* Mutant of AllFree: the frames count from 1.
AllFreeFromOne == [i \in 1 .. Capacity |-> i]

\* The constructor puts every frame on the stack.
AllFree == [i \in 1 .. Capacity |-> i - 1]

Init ==
  /\ tables = [t \in Tables |-> NoFrame]
  /\ frameTable = [f \in Frames |-> NoTable]
  /\ files = [f \in Frames |-> NoTable]
  /\ free = AllFree
  /\ pinCount = [f \in Frames |-> 0]
  /\ evictable = <<>>
  /\ using = [u \in Users |-> NoFile]
  /\ failed = {} /\ lost = {}

Next == \E u \in Users :
          \/ \E t \in Tables : \/ AcquireHit(u, t) \/ AcquireOpen(u, t)
                              \/ AcquireFails(u, t) \/ AcquireLosesFrame(u, t)
                              \/ AcquireNoFrame(u, t)
          \/ Release(u)

Spec == Init /\ [][Next]_vars

-----------------------------------------------------------------------------
\* Properties.

TypeOK ==
  /\ tables \in [Tables -> Frames \cup {NoFrame}]
  /\ frameTable \in [Frames -> Tables \cup {NoTable}]
  /\ files \in [Frames -> Tables \cup {NoTable}]
  /\ free \in Seq(Frames) /\ evictable \in Seq(Frames)
  /\ pinCount \in [Frames -> Nat]
  /\ using \in [Users -> [table : Tables, file : Tables \cup {NoTable}] \cup {NoFile}]
  /\ failed \subseteq Tables /\ lost \subseteq Frames

UsersOf(t) == {u \in Users : using[u] # NoFile /\ using[u].table = t}

\* Acquire never gives one table's file for another's, and no table's file is
\* replaced while somebody uses it: except for a table whose file once failed to
\* open and whose frame has not been taken from it since.
RightFile ==
  \A u \in Users : using[u] # NoFile /\ using[u].table \notin failed =>
    LET t == using[u].table
    IN  using[u].file = t /\ tables[t] # NoFrame /\ files[tables[t]] = t

\* A frame is pinned once for every user of the table it belongs to: a user's
\* Release finds the frame its Acquire pinned, so the assertion "file frame is
\* not pinned" of Unpin never fails.
PinsExact ==
  \A f \in Frames :
    pinCount[f] = IF frameTable[f] = NoTable THEN 0
                  ELSE Cardinality(UsersOf(frameTable[f]))

\* Each frame is free, used, or once in the list Evict takes from.  There are
\* two exceptions, and no others: the frame of a table that failed to open and
\* has no user, which that table's next Acquire uses again; and a frame whose
\* Acquire could not create the directory, which is of no table and in no list,
\* so that one file less can be open for good.
FramesAccounted ==
  \A f \in Frames :
    LET places == Cardinality({i \in 1 .. Len(free) : free[i] = f})
                  + Cardinality({i \in 1 .. Len(evictable) : evictable[i] = f})
                  + (IF pinCount[f] > 0 THEN 1 ELSE 0)
    IN  IF f \in lost THEN places = 0 /\ frameTable[f] = NoTable
        ELSE places = 1 \/ (places = 0 /\ frameTable[f] \in failed)
=============================================================================
