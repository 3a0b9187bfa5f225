--------------------------- MODULE MCSharedBudget ---------------------------
(* Two processes; the first has two threads, which share its open file and *)
(* are interchangeable.                                                    *)
EXTENDS SharedBudget, TLC

CONSTANTS p1, p2, t1, t2, t3

MCProcessOf == (t1 :> p1) @@ (t2 :> p1) @@ (t3 :> p2)
ThreadSymmetry == Permutations({t1, t2})

=============================================================================
