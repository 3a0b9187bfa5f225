----------------------------- MODULE MCRefCache -----------------------------
(***************************************************************************)
(* RefCache on a small instance: two calls, so that one joins, inherits or *)
(* hits what the other kept, and two changes of the files, which within    *)
(* one tick look alike, or make a file that comes and goes again.          *)
(***************************************************************************)
EXTENDS RefCache

=============================================================================
