----------------------------- MODULE MCClockSweep -----------------------------
(***************************************************************************)
(* Instance of ClockSweepLoop for TLC, and the mutants of its properties.  *)
(***************************************************************************)
EXTENDS ClockSweepLoop
=============================================================================
