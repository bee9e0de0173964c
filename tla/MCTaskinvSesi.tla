----------------------------- MODULE MCTaskinvSesi ----------------------------
(* Instances of TaskinvSesi for TLC. *)
EXTENDS TaskinvSesi, TLC

CONSTANTS r1, r2, p1, p2, p3, t1, t2, u1

Simetri == Permutations({t1, t2})
===============================================================================
