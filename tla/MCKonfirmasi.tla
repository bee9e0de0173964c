----------------------------- MODULE MCKonfirmasi -----------------------------
(* Instances of Konfirmasi for TLC. *)
EXTENDS Konfirmasi, TLC

CONSTANTS pr1, pr2, o1, cerita1, kurang, aman, risiko, k1, hipotesis, kasus

\* Threads are alike.
Simetri == Permutations(Proses)

\* What follows a write that rested on a stale read is not explored.
TanpaTumpang == tumpang = {}
===============================================================================
