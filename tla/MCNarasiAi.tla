------------------------------ MODULE MCNarasiAi ------------------------------
(* Model values and symmetry for checking NarasiAi with TLC.                 *)
EXTENDS NarasiAi, TLC

\* People, absorbers and cases are interchangeable; requests are ordered.
Simetri == Permutations(Orang) \cup Permutations(Penyerap) \cup Permutations(Kasus)
===============================================================================
