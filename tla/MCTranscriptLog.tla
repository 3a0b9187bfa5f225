-------------------------- MODULE MCTranscriptLog --------------------------
EXTENDS TranscriptLog, TLC
CONSTANTS s1, s2
MCSessions == {s1, s2}
MCOne == {s1}
MCNone == {}
Symmetric == Permutations(MCSessions)
=============================================================================
