----------------------------- MODULE MCUsulanAi -----------------------------
(* The instance of UsulanAi that TLC checks.                                 *)
EXTENDS UsulanAi

\* HasilDari makes MANUAL of every other verdict: GAGAL stands for KARANTINA,
\* DIBLOKIR and itself.
Setara == \A r \in Req : run[r] \notin {"KARANTINA", "DIBLOKIR"}
===============================================================================
