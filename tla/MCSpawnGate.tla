---------------------------- MODULE MCSpawnGate ----------------------------
(* The spawn gate with one caller of each kind of background work, two      *)
(* refreshes and one user action.                                           *)
EXTENDS SpawnGate

CONSTANTS i1, r1, r2, b1, w1

MCInteractive == {i1}
MCReactive == {r1, r2}
MCShedding == {b1}
MCAwaiting == {w1}
MCNobody == {}
=============================================================================
