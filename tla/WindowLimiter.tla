--------------------------- MODULE WindowLimiter ---------------------------
(***************************************************************************)
(* What a token bucket promises the service behind it, with no bucket in   *)
(* sight: in every window of time it admits at most the burst allowance    *)
(* plus what accrues during the window.  Time is counted in the units that *)
(* accrue one per tick; one admission costs Cost of them.                  *)
(***************************************************************************)
EXTENDS Naturals, Sequences

CONSTANTS
  Cost,   \* ticks it takes to accrue one admission
  Cap     \* the burst allowance, in ticks

VARIABLES
  now,      \* the clock
  grants    \* when each admission happened, oldest first

Init == now = 0 /\ grants = <<>>

Tick ==
  /\ now' = now + 1
  /\ UNCHANGED grants

\* The windows that start at an earlier admission and end with this one.
Admit ==
  /\ \A i \in 1 .. Len(grants) :
       (Len(grants) - i + 2) * Cost <= Cap + (now - grants[i])
  /\ grants' = Append(grants, now)
  /\ UNCHANGED now

Next == Tick \/ Admit

Spec == Init /\ [][Next]_<<now, grants>>
=============================================================================
