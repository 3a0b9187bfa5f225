----------------------------- MODULE RateBudget -----------------------------
(***************************************************************************)
(* What a budget of one burst and a steady rate promises whoever draws     *)
(* from it: over any stretch of time, never more grants than the burst and *)
(* one for every `TicksPerToken` ticks of that time.                       *)
(***************************************************************************)
EXTENDS Naturals

CONSTANTS
    Burst,          \* grants that may come at once, a positive number
    TicksPerToken   \* time that earns one grant, a positive number

VARIABLES
    granted,        \* grants so far
    elapsed         \* ticks so far

vars == <<granted, elapsed>>

Init == granted = 0 /\ elapsed = 0

\* The grants that are covered by the burst and the time in `elapsed`.
Covered(n, ticks) == TicksPerToken * n <= TicksPerToken * Burst + ticks

Pass ==
    /\ elapsed' \in Nat /\ elapsed' > elapsed
    /\ UNCHANGED granted

\* A grant may come with time the drawer notices at that moment.
Grant ==
    /\ elapsed' \in Nat /\ elapsed' >= elapsed
    /\ Covered(granted + 1, elapsed')
    /\ granted' = granted + 1

Next == Pass \/ Grant

Spec == Init /\ [][Next]_vars

=============================================================================
