--------------------------- MODULE MCOutputCredit ---------------------------
(* OutputCredit on a window of four units: large enough that the resume    *)
(* mark (2) differs from the window, from one chunk, and from zero.        *)
EXTENDS OutputCredit

MCChunks == {1, 3, Window + 1}     \* the last can never fit
MCAcks == {0, 1, 3}                \* 0 is never acceptable

=============================================================================
