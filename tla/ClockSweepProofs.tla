---------------------------- MODULE ClockSweepProofs ---------------------------
(***************************************************************************)
(* Proofs about ClockSweepLoop, for every number of frames and every bound *)
(* of the usage counters: the turns of Evict end where the closed form of  *)
(* ClockSweep, which module BufferPool builds on, says they do.            *)
(***************************************************************************)
EXTENDS ClockSweepLoop, TLAPS, FiniteSetTheorems

-----------------------------------------------------------------------------
LEMMA Numbers ==
  /\ NumFrames \in Nat \ {0} /\ MaxUsage \in Nat \ {0}
  /\ \A f \in Frames : f \in Nat /\ f < NumFrames
BY SweepAssumption DEF Frames

LEMMA Ranks ==
  ASSUME NEW u \in [Frames -> Usages], NEW f \in Frames
  PROVE  u[f] \in Nat /\ u[f] <= MaxUsage /\ Rank(u, f) \in 1 .. MaxUsage
<1>1. u[f] \in 0 .. MaxUsage
  BY DEF Usages
<1> QED
  BY <1>1, Numbers DEF Rank

(***************************************************************************)
(* The passes that reach a frame are the first ones: Passes counts those   *)
(* before the first frame in front of it stays at 0.                       *)
(***************************************************************************)
LEMMA PassesAre ==
  ASSUME NEW u \in [Frames -> Usages], NEW f \in Frames
  PROVE  /\ Passes(u, f) \in 0 .. MaxUsage
         /\ \A j \in 1 .. MaxUsage :
              j <= Passes(u, f) <=> \A g \in Frames : g < f => Rank(u, g) > j
<1> DEFINE D == {k \in 1 .. MaxUsage : \A g \in Frames : g < f => Rank(u, g) > k}
<1>1. MaxUsage \in Nat /\ \A g \in Frames : Rank(u, g) \in Nat
  BY Numbers, Ranks
<1>2. IsFiniteSet(1 .. MaxUsage) /\ Cardinality(1 .. MaxUsage) = MaxUsage
  BY <1>1, FS_Interval
<1>3. D \in SUBSET (1 .. MaxUsage) /\ IsFiniteSet(D) /\ Cardinality(D) <= MaxUsage
  BY <1>2, FS_Subset
<1>4. Passes(u, f) = Cardinality(D) /\ Cardinality(D) \in Nat
  BY <1>3, FS_CardinalityType DEF Passes
<1>5. ASSUME NEW j \in D PROVE j <= Cardinality(D)
  <2>1. 1 .. j \in SUBSET D
    BY <1>1
  <2>2. Cardinality(1 .. j) <= Cardinality(D)
    BY <1>3, <2>1, FS_Subset
  <2>3. j \in Nat /\ j >= 1
    BY <1>1
  <2>4. Cardinality(1 .. j) = j
    BY <2>3, FS_Interval
  <2> QED
    BY <2>2, <2>4
<1>6. ASSUME NEW j \in 1 .. MaxUsage, j \notin D PROVE Cardinality(D) < j
  <2>1. D \in SUBSET (1 .. j - 1)
    BY <1>1, <1>6
  <2>2. j - 1 \in Int /\ j - 1 >= 0
    BY <1>1
  <2>3. IsFiniteSet(1 .. j - 1) /\ Cardinality(1 .. j - 1) = j - 1
    BY <2>2, FS_Interval
  <2>4. Cardinality(D) <= Cardinality(1 .. j - 1)
    BY <2>1, <2>3, FS_Subset
  <2> QED
    BY <1>4, <2>2, <2>3, <2>4
<1>7. ASSUME NEW j \in 1 .. MaxUsage
      PROVE  j \in D <=> \A g \in Frames : g < f => Rank(u, g) > j
  OBVIOUS
<1> HIDE DEF D
<1>8. ASSUME NEW j \in 1 .. MaxUsage PROVE j <= Cardinality(D) <=> j \in D
  BY <1>1, <1>4, <1>5, <1>6
<1> QED
  BY <1>1, <1>3, <1>4, <1>7, <1>8

(***************************************************************************)
(* While the sweep is on its k-th pass, the frames in front of the hand    *)
(* have been passed k times and the others k - 1 times, as far as they     *)
(* were reached.  A stop that came to 0 meanwhile was pinned and has one   *)
(* usage again; every other counter is what the passes left of it.         *)
(***************************************************************************)
Least(a, b) == IF a <= b THEN a ELSE b

Turns(f, k) == IF f < hand THEN k ELSE k - 1

Bounced(f, n) == f \in Stops(before) /\ Rank(before, f) <= n

Counted(f, n) == IF Bounced(f, n) THEN usage[f] = 1 /\ pin[f] # 0
                 ELSE usage[f] = Less(before[f], Least(n, Passes(before, f)))

OnPass(k) == /\ \A g \in Frames : g < hand => Rank(before, g) > k
             /\ \A f \in Frames : Counted(f, Turns(f, k))

SweepInv == IF hand = Idle THEN ClosedFormExact
            ELSE victim = Idle /\ \E k \in Nat \ {0} : OnPass(k)

Inv == TypeOK /\ SweepInv

-----------------------------------------------------------------------------
(***************************************************************************)
(* What the sweep meets at frame h on its k-th pass: a stop that bounced   *)
(* on an earlier pass, or a frame that the k - 1 passes before reached.    *)
(***************************************************************************)
LEMMA AtHand ==
  ASSUME TypeOK, hand # Idle, NEW k \in Nat \ {0}, OnPass(k)
  PROVE  /\ hand \in Frames
         /\ Bounced(hand, k - 1) =>
              usage[hand] = 1 /\ pin[hand] # 0 /\ Rank(before, hand) <= k
         /\ ~Bounced(hand, k - 1) =>
              /\ k \in 1 .. MaxUsage /\ k <= Passes(before, hand)
              /\ usage[hand] = Less(before[hand], k - 1)
              /\ usage[hand] > 1 <=> Rank(before, hand) > k
              /\ usage[hand] <= 1 => hand \in Stops(before) /\ Rank(before, hand) = k
<1>1. /\ hand \in Frames /\ before \in [Frames -> Usages]
      /\ \A f \in Frames : f \in Nat /\ before[f] \in Nat /\ before[f] <= MaxUsage
      /\ \A f \in Frames : Rank(before, f) \in 1 .. MaxUsage
      /\ NumFrames \in Nat /\ MaxUsage \in Nat /\ MaxUsage >= 1
  <2>1. hand \in Frames /\ before \in [Frames -> Usages]
    BY DEF TypeOK
  <2> QED
    BY <2>1, Numbers, Ranks
<1>2. Counted(hand, k - 1)
  BY <1>1 DEF OnPass, Turns
<1>3. ASSUME Bounced(hand, k - 1)
      PROVE  usage[hand] = 1 /\ pin[hand] # 0 /\ Rank(before, hand) <= k
  <2>1. usage[hand] = 1 /\ pin[hand] # 0
    BY <1>2, <1>3 DEF Counted
  <2>2. Rank(before, hand) \in Nat /\ Rank(before, hand) <= k - 1
    BY <1>1, <1>3 DEF Bounced
  <2> QED
    BY <2>1, <2>2
<1>4. ASSUME ~Bounced(hand, k - 1)
      PROVE  /\ k \in 1 .. MaxUsage /\ k <= Passes(before, hand)
             /\ usage[hand] = Less(before[hand], k - 1)
             /\ usage[hand] > 1 <=> Rank(before, hand) > k
             /\ usage[hand] <= 1 => hand \in Stops(before) /\ Rank(before, hand) = k
  <2>1. \A g \in Frames : g < hand => Rank(before, g) > k
    BY DEF OnPass
  <2>2. k <= MaxUsage
    <3>1. CASE hand = 0
      <4>1. hand \in Stops(before)
        BY <1>1, <3>1 DEF Stops
      <4>2. ~(Rank(before, hand) <= k - 1)
        BY <1>4, <4>1 DEF Bounced
      <4>3. Rank(before, hand) \in Nat /\ Rank(before, hand) <= MaxUsage
        BY <1>1
      <4> QED
        BY <1>1, <4>2, <4>3
    <3>2. CASE hand # 0
      <4>1. 0 \in Frames /\ 0 < hand
        BY <1>1, <3>2 DEF Frames
      <4>2. Rank(before, 0) > k /\ Rank(before, 0) \in Nat /\ Rank(before, 0) <= MaxUsage
        BY <1>1, <2>1, <4>1
      <4> QED
        BY <1>1, <4>2
    <3> QED
      BY <3>1, <3>2
  <2>3. k \in 1 .. MaxUsage
    BY <1>1, <2>2
  <2>4. Passes(before, hand) \in Nat /\ k <= Passes(before, hand)
    BY <1>1, <2>1, <2>3, PassesAre
  <2>5. usage[hand] = Less(before[hand], k - 1)
    <3>1. Least(k - 1, Passes(before, hand)) = k - 1
      BY <2>4 DEF Least
    <3> QED
      BY <1>2, <1>4, <3>1 DEF Counted
  <2>6. usage[hand] > 1 <=> Rank(before, hand) > k
    <3>1. before[hand] \in Nat
      BY <1>1
    <3> QED
      BY <2>5, <3>1 DEF Less, Rank
  <2>7. ASSUME usage[hand] <= 1
        PROVE  hand \in Stops(before) /\ Rank(before, hand) = k
    <3>1. Rank(before, hand) \in Nat /\ Rank(before, hand) <= k
      <4>1. before[hand] \in Nat
        BY <1>1
      <4> QED
        BY <2>5, <2>7, <4>1 DEF Less, Rank
    <3>2. hand \in Stops(before)
      <4>1. \A g \in Frames : g < hand => Rank(before, g) > Rank(before, hand)
        BY <1>1, <2>1, <3>1
      <4> QED
        BY <1>1, <4>1 DEF Stops
    <3>3. ~(Rank(before, hand) <= k - 1)
      BY <1>4, <3>2 DEF Bounced
    <3> QED
      BY <3>1, <3>2, <3>3
  <2> QED
    BY <2>3, <2>4, <2>5, <2>6, <2>7
<1> QED
  BY <1>1, <1>3, <1>4

(***************************************************************************)
(* Behind a frame that was at 0 by the k-th pass, the k-th pass reaches no *)
(* frame, so that it changes nothing there.                                *)
(***************************************************************************)
LEMMA BehindAStop ==
  ASSUME TypeOK, NEW h \in Frames, NEW k \in Nat \ {0}, Rank(before, h) <= k,
         NEW f \in Frames, h < f
  PROVE  /\ Bounced(f, k) <=> Bounced(f, k - 1)
         /\ Least(k, Passes(before, f)) = Passes(before, f)
         /\ Least(k - 1, Passes(before, f)) = Passes(before, f)
         /\ f \in Stops(before) => Rank(before, f) <= k - 1
<1>1. /\ before \in [Frames -> Usages] /\ MaxUsage \in Nat
      /\ \A g \in Frames : g \in Nat /\ Rank(before, g) \in 1 .. MaxUsage
  BY Numbers, Ranks DEF TypeOK
<1>2. /\ Rank(before, h) \in Nat /\ Rank(before, f) \in Nat
      /\ Rank(before, h) \in 1 .. MaxUsage
  BY <1>1
<1>3. f \in Stops(before) => Rank(before, f) <= k - 1
  <2>1. f \in Stops(before) => Rank(before, h) > Rank(before, f)
    BY DEF Stops
  <2> QED
    BY <1>2, <2>1
<1>4. Bounced(f, k) <=> Bounced(f, k - 1)
  BY <1>2, <1>3 DEF Bounced
<1>5. Passes(before, f) \in Nat /\ Passes(before, f) < Rank(before, h)
  <2>1. ~(Rank(before, h) > Rank(before, h))
    BY <1>2
  <2>2. ~(Rank(before, h) <= Passes(before, f)) /\ Passes(before, f) \in 0 .. MaxUsage
    BY <1>1, <1>2, <2>1, PassesAre
  <2> QED
    BY <1>1, <1>2, <2>2
<1>6. /\ Least(k, Passes(before, f)) = Passes(before, f)
      /\ Least(k - 1, Passes(before, f)) = Passes(before, f)
  BY <1>2, <1>5 DEF Least
<1> QED
  BY <1>3, <1>4, <1>6

-----------------------------------------------------------------------------
\* A search begins: nothing has been passed on the first pass.
LEMMA BeginKeeps ==
  ASSUME TypeOK, SweepInv, Begin
  PROVE  SweepInv'
<1>1. /\ hand' = 0 /\ before' = usage /\ usage' = usage /\ victim' = Idle
      /\ NumFrames \in Nat \ {0} /\ usage \in [Frames -> Usages]
      /\ \A f \in Frames : f \in Nat /\ usage[f] \in Nat
  BY Numbers, Ranks DEF Begin, TypeOK
<1>2. hand' # Idle
  BY <1>1 DEF Idle
<1>3. ASSUME NEW f \in Frames PROVE Counted(f, 0)'
  <2>1. Rank(usage, f) \in Nat \ {0} /\ Passes(usage, f) \in Nat
    <3>1. Passes(usage, f) \in 0 .. MaxUsage
      BY <1>1, PassesAre
    <3> QED
      BY <1>1, <3>1, SweepAssumption DEF Rank
  <2>2. Less(usage[f], Least(0, Passes(usage, f))) = usage[f]
    BY <1>1, <2>1 DEF Less, Least
  <2>3. ~(Rank(usage, f) <= 0)
    BY <2>1
  <2> QED
    BY <1>1, <2>2, <2>3 DEF Counted, Bounced
<1>4. OnPass(1)'
  <2>1. \A f \in Frames : Turns(f, 1)' = 0 /\ ~(f < hand')
    BY <1>1 DEF Turns
  <2> QED
    BY <1>3, <2>1 DEF OnPass
<1> QED
  BY <1>1, <1>2, <1>4 DEF SweepInv

\* The hand passes a frame that is not at 0 yet.
LEMMA PassOverKeeps ==
  ASSUME TypeOK, SweepInv, PassOver
  PROVE  SweepInv'
<1>1. PICK k \in Nat \ {0} : OnPass(k)
  BY DEF PassOver, SweepInv
<1>2. /\ hand # Idle /\ hand \in Frames /\ usage \in [Frames -> Usages]
      /\ usage' = Passed(hand) /\ usage'[hand] # 0
      /\ hand' = (hand + 1) % NumFrames /\ victim' = Idle
      /\ UNCHANGED <<pin, before>>
      /\ NumFrames \in Nat \ {0} /\ \A f \in Frames : f \in Nat /\ usage[f] \in Nat
      /\ \A f \in Frames : f < NumFrames
  BY Numbers, Ranks DEF PassOver, SweepInv, TypeOK
<1>3. /\ usage'[hand] = usage[hand] - 1 /\ usage[hand] > 1
      /\ \A f \in Frames : f # hand => usage'[f] = usage[f]
  <2>1. usage'[hand] = IF usage[hand] > 0 THEN usage[hand] - 1 ELSE 0
    BY <1>2 DEF Passed
  <2>2. \A f \in Frames : f # hand => usage'[f] = usage[f]
    BY <1>2 DEF Passed
  <2> QED
    BY <1>2, <2>1, <2>2
<1>4. /\ k \in 1 .. MaxUsage /\ k <= Passes(before, hand)
      /\ usage[hand] = Less(before[hand], k - 1) /\ Rank(before, hand) > k
  BY <1>1, <1>2, <1>3, AtHand
<1>5. PICK h \in Frames : h = hand
  BY <1>2
<1>6. Counted(h, k)'
  <2>1. Passes(before, h) \in Nat /\ before[h] \in Nat /\ Rank(before, h) \in Nat
    <3>1. before \in [Frames -> Usages] /\ Passes(before, h) \in 0 .. MaxUsage
      BY PassesAre DEF TypeOK
    <3> QED
      BY <3>1, SweepAssumption DEF Usages, Rank
  <2>2. ~Bounced(h, k)
    BY <1>4, <1>5, <2>1 DEF Bounced
  <2>3. Least(k, Passes(before, h)) = k
    BY <1>4, <1>5, <2>1 DEF Least
  <2>4. usage'[h] = Less(before[h], k)
    BY <1>3, <1>4, <1>5, <2>1 DEF Less
  <2> QED
    BY <1>2, <2>2, <2>3, <2>4 DEF Counted, Bounced
<1>7. ASSUME NEW f \in Frames, f # h, NEW n, Counted(f, n)
      PROVE  Counted(f, n)'
  <2>1. usage'[f] = usage[f]
    BY <1>3, <1>5, <1>7
  <2> QED
    BY <1>2, <1>7, <2>1 DEF Counted, Bounced
<1>8. /\ \A f \in Frames : f <= h => Rank(before, f) > k
      /\ \A f \in Frames : f < h => Counted(f, k)'
      /\ \A f \in Frames : f > h => Counted(f, k - 1)'
  <2>1. \A f \in Frames : f <= h => f < h \/ f = h
    BY <1>2
  <2>2. ASSUME NEW f \in Frames, f < h PROVE Counted(f, k)
    BY <1>1, <1>5, <2>2 DEF OnPass, Turns
  <2>3. ASSUME NEW f \in Frames, f > h PROVE Counted(f, k - 1)
    <3>1. ~(f < hand)
      BY <1>2, <1>5, <2>3
    <3> QED
      BY <1>1, <3>1 DEF OnPass, Turns
  <2>4. \A f \in Frames : f < h \/ f > h => f # h
    BY <1>2
  <2>5. \A f \in Frames : f <= h => Rank(before, f) > k
    BY <1>1, <1>4, <1>5, <2>1 DEF OnPass
  <2>6. \A f \in Frames : f < h => Counted(f, k)'
    BY <1>7, <2>2, <2>4
  <2>7. \A f \in Frames : f > h => Counted(f, k - 1)'
    BY <1>7, <2>3, <2>4
  <2> QED
    BY <2>5, <2>6, <2>7
\* The k-th pass is over.
<1>9. CASE h = NumFrames - 1
  <2>1. hand' = 0
    BY <1>2, <1>5, <1>9
  <2>2. \A f \in Frames : Turns(f, k + 1)' = k /\ ~(f < hand')
    BY <1>2, <2>1 DEF Turns
  <2>3. \A f \in Frames : f < h \/ f = h
    BY <1>2, <1>9
  <2>4. \A f \in Frames : Counted(f, k)'
    BY <1>6, <1>8, <2>3
  <2>5. OnPass(k + 1)'
    BY <2>2, <2>4 DEF OnPass
  <2> QED
    BY <1>2, <2>1, <2>5 DEF SweepInv, Idle
\* It goes on with the next frame.
<1>10. CASE h # NumFrames - 1
  <2>1. hand' = h + 1 /\ h + 1 # NumFrames
    <3>1. h + 1 \in 0 .. NumFrames - 1
      BY <1>2, <1>10
    <3> QED
      BY <1>2, <1>5, <3>1
  <2>2. \A f \in Frames : Turns(f, k)' = IF f <= h THEN k ELSE k - 1
    BY <1>2, <2>1 DEF Turns
  <2>3. \A f \in Frames : f < hand' <=> f <= h
    BY <1>2, <2>1
  <2>4. \A f \in Frames : (f <= h => f < h \/ f = h) /\ (~(f <= h) => f > h)
    BY <1>2
  <2>5. OnPass(k)'
    <3>1. \A f \in Frames : Counted(f, Turns(f, k))'
      BY <1>6, <1>8, <2>2, <2>4
    <3> QED
      BY <1>2, <1>8, <2>3, <3>1 DEF OnPass
  <2> QED
    BY <1>2, <2>1, <2>5 DEF SweepInv, Idle
<1> QED
  BY <1>9, <1>10

\* A pinned frame at 0 is given a usage back, and the sweep starts over.
LEMMA BounceOffKeeps ==
  ASSUME TypeOK, SweepInv, BounceOff
  PROVE  SweepInv'
<1>1. PICK k \in Nat \ {0} : OnPass(k)
  BY DEF BounceOff, SweepInv
<1>2. PICK h \in Frames : h = hand
  BY DEF BounceOff, TypeOK
<1>3. /\ hand # Idle /\ usage \in [Frames -> Usages]
      /\ Passed(h)[h] = 0 /\ usage' = Touch(Passed(h), h)
      /\ pin[h] # 0 /\ hand' = 0 /\ victim' = Idle /\ UNCHANGED <<pin, before>>
      /\ NumFrames \in Nat \ {0} /\ MaxUsage \in Nat \ {0}
      /\ \A f \in Frames : f \in Nat /\ usage[f] \in Nat
  BY <1>2, Numbers, Ranks DEF BounceOff, SweepInv, TypeOK
<1>4. /\ usage'[h] = 1 /\ usage[h] <= 1
      /\ \A f \in Frames : f # h => usage'[f] = usage[f]
  <2>1. Passed(h) = [usage EXCEPT ![h] = 0] /\ usage[h] <= 1
    <3>1. Passed(h)[h] = (IF usage[h] > 0 THEN usage[h] - 1 ELSE 0) /\ usage[h] \in Nat
      BY <1>3 DEF Passed
    <3>2. (IF usage[h] > 0 THEN usage[h] - 1 ELSE 0) = 0 /\ usage[h] <= 1
      BY <1>3, <3>1
    <3> QED
      BY <3>2 DEF Passed
  <2>2. usage' = [usage EXCEPT ![h] = 1]
    BY <1>3, <2>1 DEF Touch
  <2> QED
    BY <1>3, <2>1, <2>2
\* It is a stop, and stayed at 0 by the k-th pass.
<1>5. Bounced(h, k) /\ Rank(before, h) <= k /\ Rank(before, h) \in Nat
  <2>1. Rank(before, h) \in Nat
    BY SweepAssumption DEF Rank, TypeOK, Usages
  <2>2. CASE Bounced(h, k - 1)
    BY <1>2, <1>3, <2>1, <2>2 DEF Bounced
  <2>3. CASE ~Bounced(h, k - 1)
    <3>1. h \in Stops(before) /\ Rank(before, h) = k
      BY <1>1, <1>2, <1>3, <1>4, <2>3, AtHand
    <3> QED
      BY <2>1, <3>1 DEF Bounced
  <2> QED
    BY <2>2, <2>3
<1>6. Counted(h, k)'
  BY <1>3, <1>4, <1>5 DEF Counted, Bounced
<1>7. ASSUME NEW f \in Frames, f < h PROVE Counted(f, k)'
  <2>1. Counted(f, k) /\ f # h
    BY <1>1, <1>2, <1>3, <1>7 DEF OnPass, Turns
  <2> QED
    BY <1>3, <1>4, <2>1 DEF Counted, Bounced
<1>8. ASSUME NEW f \in Frames, h < f PROVE Counted(f, k)'
  <2>1. ~(f < h) /\ f # h
    BY <1>3, <1>8
  <2>2. Counted(f, k - 1)
    BY <1>1, <1>2, <2>1 DEF OnPass, Turns
  <2>3. /\ Bounced(f, k) <=> Bounced(f, k - 1)
        /\ Least(k, Passes(before, f)) = Passes(before, f)
        /\ Least(k - 1, Passes(before, f)) = Passes(before, f)
    BY <1>5, <1>8, BehindAStop
  <2>4. Counted(f, k)
    BY <2>2, <2>3 DEF Counted
  <2> QED
    BY <1>3, <1>4, <2>1, <2>4 DEF Counted, Bounced
<1>9. \A f \in Frames : Counted(f, k)'
  <2>1. \A f \in Frames : f < h \/ f = h \/ h < f
    BY <1>3
  <2> QED
    BY <1>6, <1>7, <1>8, <2>1
<1>10. \A f \in Frames : Turns(f, k + 1)' = k /\ ~(f < hand')
  BY <1>3 DEF Turns
<1>11. OnPass(k + 1)'
  BY <1>9, <1>10 DEF OnPass
<1> QED
  BY <1>3, <1>11 DEF SweepInv, Idle

(***************************************************************************)
(* An unpinned frame at 0 is the last of the unpinned stops: a later one   *)
(* would have come to 0 on an earlier pass, and would be pinned.           *)
(***************************************************************************)
LEMMA ReturnKeeps ==
  ASSUME TypeOK, SweepInv, Return
  PROVE  SweepInv'
<1>1. PICK k \in Nat \ {0} : OnPass(k)
  BY DEF Return, SweepInv
<1>2. PICK h \in Frames : h = hand
  BY DEF Return, TypeOK
<1>3. /\ hand # Idle /\ usage \in [Frames -> Usages]
      /\ Passed(h)[h] = 0 /\ usage' = Passed(h)
      /\ pin[h] = 0 /\ hand' = Idle /\ victim' = h /\ UNCHANGED <<pin, before>>
      /\ NumFrames \in Nat \ {0} /\ MaxUsage \in Nat \ {0}
      /\ \A f \in Frames : f \in Nat /\ usage[f] \in Nat
  BY <1>2, Numbers, Ranks DEF Return, SweepInv, TypeOK
<1>4. usage' = [usage EXCEPT ![h] = 0] /\ usage[h] <= 1
  <2>1. Passed(h)[h] = (IF usage[h] > 0 THEN usage[h] - 1 ELSE 0) /\ usage[h] \in Nat
    BY <1>3 DEF Passed
  <2>2. (IF usage[h] > 0 THEN usage[h] - 1 ELSE 0) = 0 /\ usage[h] <= 1
    BY <1>3, <2>1
  <2>3. Passed(h) = [usage EXCEPT ![h] = 0]
    BY <2>2 DEF Passed
  <2> QED
    BY <1>3, <2>2, <2>3
<1>5. /\ h \in Stops(before) /\ Rank(before, h) = k
      /\ k \in 1 .. MaxUsage
  <2>1. ~Bounced(h, k - 1)
    BY <1>1, <1>2, <1>3, AtHand
  <2> QED
    BY <1>1, <1>2, <1>3, <1>4, <2>1, AtHand
<1>6. ASSUME NEW f \in Frames, h < f
      PROVE  /\ f \in Stops(before) => usage[f] = 1 /\ pin[f] # 0
             /\ f \notin Stops(before) => usage[f] = Less(before[f], Passes(before, f))
  <2>1. Counted(f, k - 1)
    <3>1. ~(f < h)
      BY <1>3, <1>6
    <3> QED
      BY <1>1, <1>2, <3>1 DEF OnPass, Turns
  <2>2. /\ Least(k - 1, Passes(before, f)) = Passes(before, f)
        /\ f \in Stops(before) => Rank(before, f) <= k - 1
    <3>1. Rank(before, h) <= k
      BY <1>5
    <3> QED
      BY <1>6, <3>1, BehindAStop
  <2> QED
    BY <2>1, <2>2 DEF Counted, Bounced
<1>7. ASSUME NEW f \in Frames, f < h PROVE usage[f] = Less(before[f], Rank(before, h))
  <2>1. Counted(f, k) /\ Rank(before, f) > k
    BY <1>1, <1>2, <1>7 DEF OnPass, Turns
  <2>2. Rank(before, f) \in Nat /\ before \in [Frames -> Usages]
    BY SweepAssumption DEF Rank, TypeOK, Usages
  <2>3. k <= Passes(before, f) /\ Passes(before, f) \in Nat
    <3>1. \A g \in Frames : g < f => g < h
      BY <1>3, <1>7
    <3>2. \A g \in Frames : g < f => Rank(before, g) > k
      BY <1>1, <1>2, <3>1 DEF OnPass
    <3> QED
      BY <1>3, <1>5, <2>2, <3>2, PassesAre
  <2>4. ~Bounced(f, k) /\ Least(k, Passes(before, f)) = k
    BY <2>1, <2>2, <2>3 DEF Bounced, Least
  <2> QED
    BY <1>5, <2>1, <2>4 DEF Counted
<1>8. IsVictim(before, pin, h)
  <2>1. h \in OpenStops(before, pin)
    BY <1>3, <1>5 DEF OpenStops
  <2>2. \A g \in OpenStops(before, pin) : g \in Frames /\ ~(h < g)
    BY <1>6 DEF OpenStops, Stops
  <2>3. \A g \in OpenStops(before, pin) : g <= h
    BY <1>3, <2>2
  <2> QED
    BY <2>1, <2>3 DEF IsVictim
<1>9. usage' = AfterSweep(before, h)
  <2>1. ASSUME NEW f \in Frames
        PROVE  usage'[f] = IF f = h THEN 0
                           ELSE IF f < h THEN Less(before[f], Rank(before, h))
                           ELSE IF f \in Stops(before) THEN 1
                           ELSE Less(before[f], Passes(before, f))
    <3>1. CASE f = h
      BY <1>3, <1>4, <3>1
    <3>2. CASE f < h
      BY <1>3, <1>4, <1>7, <3>2
    <3>3. CASE h < f
      <4>1. f # h /\ ~(f < h)
        BY <1>3, <3>3
      <4> QED
        BY <1>3, <1>4, <1>6, <3>3, <4>1
    <3> QED
      BY <1>3, <3>1, <3>2, <3>3
  <2>2. usage' \in [Frames -> Usages]
    BY <1>3, <1>4 DEF Usages
  <2> QED
    BY <2>1, <2>2 DEF AfterSweep
<1> QED
  BY <1>3, <1>8, <1>9 DEF SweepInv, ClosedFormExact

-----------------------------------------------------------------------------
LEMMA InvStart == Init => Inv
<1> SUFFICES ASSUME Init PROVE Inv
  OBVIOUS
<1>1. TypeOK
  BY SweepAssumption DEF Init, TypeOK, Usages
<1>2. SweepInv
  BY DEF Init, SweepInv, ClosedFormExact
<1> QED
  BY <1>1, <1>2 DEF Inv

LEMMA TypesKept == ASSUME TypeOK, [Next]_vars PROVE TypeOK'
<1> USE SweepAssumption
<1>1. CASE UNCHANGED vars
  BY <1>1 DEF vars, TypeOK
<1>2. ASSUME NEW f \in Frames, Use(f) PROVE TypeOK'
  BY <1>2 DEF Use, Touch, TypeOK, Usages
<1>3. ASSUME NEW f \in Frames, Drop(f) PROVE TypeOK'
  BY <1>3 DEF Drop, TypeOK
<1>4. CASE Begin
  BY <1>4 DEF Begin, TypeOK, Frames
<1>5. ASSUME hand \in Frames
      PROVE  Passed(hand) \in [Frames -> Usages] /\ Touch(Passed(hand), hand) \in [Frames -> Usages]
  <2>1. Passed(hand) \in [Frames -> Usages]
    BY <1>5 DEF Passed, TypeOK, Usages
  <2> QED
    BY <1>5, <2>1 DEF Touch, Usages
<1>6. CASE PassOver
  <2>1. hand \in Frames
    BY <1>6 DEF PassOver, TypeOK
  <2>2. (hand + 1) % NumFrames \in Frames
    <3>1. hand \in Int
      BY <2>1 DEF Frames
    <3> QED
      BY <3>1 DEF Frames
  <2> QED
    BY <1>5, <1>6, <2>1, <2>2 DEF PassOver, TypeOK
<1>7. CASE BounceOff
  BY <1>5, <1>7 DEF BounceOff, TypeOK, Frames
<1>8. CASE Return
  BY <1>5, <1>8 DEF Return, TypeOK
<1> QED
  BY <1>1, <1>2, <1>3, <1>4, <1>6, <1>7, <1>8 DEF Next, Sweep

LEMMA SweepInvKept == ASSUME TypeOK, SweepInv, [Next]_vars PROVE SweepInv'
<1>1. CASE UNCHANGED vars
  BY <1>1 DEF vars, SweepInv, ClosedFormExact, OnPass, Turns, Counted, Bounced
<1>2. ASSUME NEW f \in Frames, Use(f) \/ Drop(f) PROVE SweepInv'
  BY <1>2 DEF Use, Drop, SweepInv, ClosedFormExact
<1> QED
  BY <1>1, <1>2, BeginKeeps, PassOverKeeps, BounceOffKeeps, ReturnKeeps DEF Next, Sweep

(***************************************************************************)
(* Usage counters never leave 0 .. LRU_MAX_PIN, and the hand never leaves  *)
(* the frames.                                                             *)
(***************************************************************************)
THEOREM CountersStayInRange == Spec => []TypeOK
<1>1. Init => TypeOK
  BY InvStart DEF Inv
<1>2. TypeOK /\ [Next]_vars => TypeOK'
  BY TypesKept
<1> QED
  BY <1>1, <1>2, PTL DEF Spec

(***************************************************************************)
(* Whatever the counters and pins when FindVictimFrame is called, the      *)
(* turns of Evict return the last unpinned stop and leave the counters     *)
(* that AfterSweep gives: what BufferPool takes for one call.              *)
(***************************************************************************)
THEOREM LoopHasClosedForm == Spec => []ClosedFormExact
<1>1. Init => Inv
  BY InvStart
<1>2. Inv /\ [Next]_vars => Inv'
  BY TypesKept, SweepInvKept DEF Inv
<1>3. Inv => ClosedFormExact
  BY DEF Inv, SweepInv, ClosedFormExact
<1> QED
  BY <1>1, <1>2, <1>3, PTL DEF Spec
=============================================================================
