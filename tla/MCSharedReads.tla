--------------------------- MODULE MCSharedReads ---------------------------
(* Three identical reads: a leader that times out and two joiners it sends  *)
(* back, or a joiner and a newcomer.                                        *)
EXTENDS SharedReads

CONSTANTS c1, c2, c3

MCCalls == {c1, c2, c3}
=============================================================================
