-------------------------------- MODULE Clock --------------------------------
(***************************************************************************)
(* time.Now(), which the limiter and the home page read.  It is coarse, so *)
(* two events at one reading may be almost a tick apart.                   *)
(***************************************************************************)
EXTENDS Naturals

CONSTANT
    MaxTime     \* bound on the clock

VARIABLE
    clock       \* time.Now()

Tick == clock < MaxTime /\ clock' = clock + 1
=============================================================================
