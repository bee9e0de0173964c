--------------------------- MODULE KajianBertahap ---------------------------
(***************************************************************************)
(* What a staged study promises to those who answer it: everybody answers  *)
(* once and his answer then stands; the set of tasks to be detailed is     *)
(* fixed, not empty, before anybody details it, and only thawing the study *)
(* changes it; stages follow each other.                                   *)
(***************************************************************************)
CONSTANTS Responden, Butir      \* respondents, tasks

VARIABLES
  fase,         \* stage of the study
  himpunan,     \* the fixed tasks
  pilihan,      \* pilihan[r]: submitted selection, {} before
  rincian       \* rincian[r]: tasks r has submitted details of, {} before

kajian == <<fase, himpunan, pilihan, rincian>>

Kosong == [r \in Responden |-> {}]

KajianInit ==
  /\ fase = "TIADA"
  /\ himpunan = {}
  /\ pilihan = Kosong
  /\ rincian = Kosong

Buka ==
  /\ fase = "TIADA"
  /\ fase' = "DRAFT"
  /\ UNCHANGED <<himpunan, pilihan, rincian>>

\* Stages that need nothing, or one answer, to begin.
Maju ==
  /\ \/ fase = "DRAFT" /\ fase' = "TAHAP1"
     \/ fase = "TAHAP1" /\ fase' = "TAHAP2" /\ pilihan # Kosong
     \/ fase = "TAHAP3" /\ fase' = "CLOSED"
     \/ fase = "CLOSED" /\ fase' = "ANALYZED"
  /\ UNCHANGED <<himpunan, pilihan, rincian>>

KirimPilihan(r, S) ==
  /\ fase = "TAHAP1"
  /\ pilihan[r] = {}
  /\ S # {}
  /\ pilihan' = [pilihan EXCEPT ![r] = S]
  /\ UNCHANGED <<fase, himpunan, rincian>>

Bekukan(H) ==
  /\ fase = "TAHAP2"
  /\ H # {}
  /\ fase' = "TAHAP3"
  /\ himpunan' = H
  /\ UNCHANGED <<pilihan, rincian>>

Cairkan ==
  /\ fase = "TAHAP3"
  /\ fase' = "TAHAP2"
  /\ himpunan' = {}
  /\ UNCHANGED <<pilihan, rincian>>

KirimRincian(r, D) ==
  /\ fase = "TAHAP3"
  /\ rincian[r] = {}
  /\ D # {}
  /\ rincian' = [rincian EXCEPT ![r] = D]
  /\ UNCHANGED <<fase, himpunan, pilihan>>

Hapus ==
  /\ fase # "TIADA"
  /\ fase' = "TIADA"
  /\ himpunan' = {}
  /\ pilihan' = Kosong
  /\ rincian' = Kosong

KajianNext ==
  \/ Buka \/ Maju \/ Cairkan \/ Hapus
  \/ \E S \in SUBSET Butir :
       \/ Bekukan(S)
       \/ \E r \in Responden : KirimPilihan(r, S) \/ KirimRincian(r, S)

KajianSpec == KajianInit /\ [][KajianNext]_kajian
===============================================================================
