---------------------------- MODULE MCIdempotensi ----------------------------
(* Model values and symmetry for checking Idempotensi with TLC.              *)
EXTENDS Idempotensi, TLC

Simetri == Permutations(Permintaan) \cup Permutations(Kunci)
===============================================================================
