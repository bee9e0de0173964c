------------------------------ MODULE SekaliSaja ------------------------------
(***************************************************************************)
(* What an Idempotency-Key promises to a client that repeats its request   *)
(* after a lost answer: while the key is remembered the operation happens  *)
(* at most once, and every successful answer is the answer of that one     *)
(* occurrence.                                                             *)
(***************************************************************************)
CONSTANTS
  Kunci,          \* idempotency keys
  Permintaan,     \* requests: every attempt of every client
  Nihil

VARIABLES
  kejadian,       \* kejadian[k]: the request whose operation took effect, or Nihil
  jawaban         \* jawaban[r]: the occurrence a successful answer told of, or Nihil

sekaliVars == <<kejadian, jawaban>>

SekaliInit ==
  /\ kejadian = [k \in Kunci |-> Nihil]
  /\ jawaban = [r \in Permintaan |-> Nihil]

\* The operation takes effect; its own answer may be lost on the way.
Terjadi(k, r) ==
  /\ kejadian[k] = Nihil
  /\ kejadian' = [kejadian EXCEPT ![k] = r]
  /\ jawaban' = jawaban \/ jawaban' = [jawaban EXCEPT ![r] = r]

\* A repetition is told of the one occurrence.
Ulangi(k, r) ==
  /\ kejadian[k] # Nihil
  /\ jawaban' = [jawaban EXCEPT ![r] = kejadian[k]]
  /\ UNCHANGED kejadian

\* After its lifetime the key is forgotten.
Lupa(k) ==
  /\ kejadian[k] # Nihil
  /\ kejadian' = [kejadian EXCEPT ![k] = Nihil]
  /\ UNCHANGED jawaban

SekaliNext ==
  \E k \in Kunci : Lupa(k) \/ \E r \in Permintaan : Terjadi(k, r) \/ Ulangi(k, r)

SekaliSpec == SekaliInit /\ [][SekaliNext]_sekaliVars
===============================================================================
