---------------------------- MODULE ClockSweepLoop ----------------------------
(***************************************************************************)
(* The victim search of BufferManager::FindVictimFrame step by step: one   *)
(* step per frame that ClockSweepLRU::Evict passes.  It runs under the     *)
(* pool's mutex_, so nobody changes the pin counts while it runs.  Between *)
(* two searches frames are touched, pinned and unpinned at will.           *)
(***************************************************************************)
EXTENDS ClockSweep

VARIABLES
  usage,     \* frames_ of ClockSweepLRU
  pin,       \* pin_count_ of BufferManager, as pinned (1) or not (0)
  hand,      \* the frame the sweep is about to pass, NumFrames when idle
  victim,    \* what the last finished search returned, NumFrames if none has
  before     \* the counters when the search began

vars == <<usage, pin, hand, victim, before>>

Idle == NumFrames

Init == /\ usage = [f \in Frames |-> 0]
        /\ pin = [f \in Frames |-> 0]
        /\ hand = Idle
        /\ victim = Idle
        /\ before = usage

\* FetchPage hits frame f, or loads it: one more user, one more usage.
Use(f) == /\ hand = Idle
          /\ usage' = Touch(usage, f)
          /\ pin' = [pin EXCEPT ![f] = 1]
          /\ victim' = Idle
          /\ UNCHANGED <<hand, before>>

\* UnpinPage by the last user: the usage counter stays as it is.
Drop(f) == /\ hand = Idle
           /\ pin' = [pin EXCEPT ![f] = 0]
           /\ victim' = Idle
           /\ UNCHANGED <<usage, hand, before>>

\* FindVictimFrame with an empty free list.
Begin == /\ hand = Idle
         /\ hand' = 0
         /\ before' = usage
         /\ victim' = Idle
         /\ UNCHANGED <<usage, pin>>

\* Mutant of Passed: the sweep forgets to take a usage off.
PassedUntouched(f) == usage

\* One turn of Evict's inner loop: Unpin(i), and look whether i is at 0.
Passed(f) == [usage EXCEPT ![f] = IF @ > 0 THEN @ - 1 ELSE 0]

\* The counter is not 0 yet: on to the next frame, or to the next pass.
PassOver == /\ hand # Idle
            /\ Passed(hand)[hand] # 0
            /\ usage' = Passed(hand)
            /\ hand' = (hand + 1) % NumFrames
            /\ UNCHANGED <<pin, victim, before>>

\* Mutant of BounceOff: Evict goes on behind the pinned frame.
BounceOnward == /\ hand # Idle
                /\ Passed(hand)[hand] = 0
                /\ pin[hand] # 0
                /\ usage' = Touch(Passed(hand), hand)
                /\ hand' = (hand + 1) % NumFrames
                /\ UNCHANGED <<pin, victim, before>>

\* Evict returns a pinned frame: it gets a usage back, and Evict starts over.
BounceOff == /\ hand # Idle
             /\ Passed(hand)[hand] = 0
             /\ pin[hand] # 0
             /\ usage' = Touch(Passed(hand), hand)
             /\ hand' = 0
             /\ UNCHANGED <<pin, victim, before>>

\* Evict returns an unpinned frame, and so does FindVictimFrame.
Return == /\ hand # Idle
          /\ Passed(hand)[hand] = 0
          /\ pin[hand] = 0
          /\ usage' = Passed(hand)
          /\ victim' = hand
          /\ hand' = Idle
          /\ UNCHANGED <<pin, before>>

Sweep == PassOver \/ BounceOff \/ Return

Next == \/ \E f \in Frames : Use(f) \/ Drop(f)
        \/ Begin
        \/ Sweep

\* A started search is the only thing its thread does: it keeps sweeping.
Spec == Init /\ [][Next]_vars /\ WF_vars(Sweep)

-----------------------------------------------------------------------------
TypeOK == /\ usage \in [Frames -> Usages]
          /\ before \in [Frames -> Usages]
          /\ pin \in [Frames -> {0, 1}]
          /\ hand \in Frames \cup {Idle}
          /\ victim \in Frames \cup {Idle}

(***************************************************************************)
(* A finished search returned the frame, and left the counters, that the   *)
(* closed form of module ClockSweep gives.                                 *)
(***************************************************************************)
ClosedFormExact == victim # Idle => /\ IsVictim(before, pin, victim)
                                    /\ usage = AfterSweep(before, victim)

(***************************************************************************)
(* A search that has an unpinned stop returns.  With ClosedFormExact this  *)
(* says that the search ends exactly when OpenStops is not empty: without  *)
(* one, FindVictimFrame (buffer_manager.cpp:49) loops for ever, holding    *)
(* mutex_.                                                                 *)
(***************************************************************************)
SearchEnds == (hand # Idle /\ OpenStops(before, pin) # {}) ~> (victim # Idle)
=============================================================================
