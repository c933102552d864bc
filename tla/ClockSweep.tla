------------------------------ MODULE ClockSweep ------------------------------
(***************************************************************************)
(* The victim search of the buffer pool: BufferManager::FindVictimFrame    *)
(* driving ClockSweepLRU::Evict.  Evict always starts its sweep at frame   *)
(* 0, takes one off each usage counter it passes (never below 0) and       *)
(* returns the first frame whose counter is then 0.  FindVictimFrame gives *)
(* a pinned frame one usage back and calls Evict again.                    *)
(*                                                                         *)
(* This module says in closed form which frame that loop ends on and what  *)
(* it leaves in the counters; ClockSweepLoop has the loop itself and shows *)
(* that the two agree.  Frames are numbered, because the sweep's order is  *)
(* the frames' order.                                                      *)
(***************************************************************************)
EXTENDS Integers, FiniteSets

CONSTANTS
  NumFrames,   \* capacity_ of the pool
  MaxUsage     \* LRU_MAX_PIN, where a usage counter saturates

ASSUME SweepAssumption == /\ NumFrames \in Nat \ {0}
                          /\ MaxUsage \in Nat \ {0}

Frames == 0 .. NumFrames - 1
Usages == 0 .. MaxUsage

\* Mutant of Touch: no saturation.
TouchUnbounded(u, f) == [u EXCEPT ![f] = @ + 1]

\* ClockSweepLRU::Pin: a usage counter saturates at LRU_MAX_PIN.
Touch(u, f) == [u EXCEPT ![f] = IF @ < MaxUsage THEN @ + 1 ELSE @]

\* The pass of the first Evict on which frame f's counter is found at 0.
Rank(u, f) == IF u[f] = 0 THEN 1 ELSE u[f]

\* The frames the sweep can end on: those that reach 0 on an earlier pass
\* than every frame before them.  A frame behind one of these is never
\* reached, however often the sweep is restarted.
Stops(u) == {f \in Frames : \A g \in Frames : g < f => Rank(u, g) > Rank(u, f)}

OpenStops(u, pin) == {f \in Stops(u) : pin[f] = 0}

\* f is the frame FindVictimFrame returns: the last of the unpinned stops.
\* There may be none; the loop then never ends.
IsVictim(u, pin, f) == /\ f \in OpenStops(u, pin)
                       /\ \A g \in OpenStops(u, pin) : g <= f

\* The passes that reach frame f before a frame in front of it is at 0 for good.
Passes(u, f) ==
  Cardinality({k \in 1 .. MaxUsage : \A g \in Frames : g < f => Rank(u, g) > k})

Less(a, b) == IF a > b THEN a - b ELSE 0

\* The counters when the search has returned v.  Frames before v were passed
\* Rank(u, v) times; a stop behind v was found pinned and given one usage
\* back; any other frame behind v was passed until it could not be reached.
AfterSweep(u, v) ==
  [f \in Frames |-> IF f = v THEN 0
                    ELSE IF f < v THEN Less(u[f], Rank(u, v))
                    ELSE IF f \in Stops(u) THEN 1
                    ELSE Less(u[f], Passes(u, f))]
=============================================================================
