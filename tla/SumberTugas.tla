----------------------------- MODULE SumberTugas ----------------------------
(***************************************************************************)
(* What a task inventory session is to a study that takes its tasks from   *)
(* it: people submit while the set of chosen tasks is open, a set that is  *)
(* not empty is frozen once somebody has submitted, and the source may be  *)
(* thawed or deleted at any time, whoever has copied from it.              *)
(***************************************************************************)
CONSTANTS Pengisi, Tugas        \* people, tasks

VARIABLES
  himpunan,     \* the frozen tasks, {} when there are none
  pengirim      \* those who have submitted

sumber == <<himpunan, pengirim>>

SumberInit ==
  /\ himpunan = {}
  /\ pengirim = {}

Mengirim(o) ==
  /\ himpunan = {}
  /\ o \notin pengirim
  /\ pengirim' = pengirim \cup {o}
  /\ UNCHANGED himpunan

Membekukan(H) ==
  /\ himpunan = {}
  /\ pengirim # {}
  /\ H # {}
  /\ himpunan' = H
  /\ UNCHANGED pengirim

Mencairkan ==
  /\ himpunan # {}
  /\ himpunan' = {}
  /\ UNCHANGED pengirim

Menghapus ==
  /\ pengirim # {}
  /\ himpunan' = {}
  /\ pengirim' = {}

SumberNext ==
  \/ \E o \in Pengisi : Mengirim(o)
  \/ \E H \in SUBSET Tugas : Membekukan(H)
  \/ Mencairkan
  \/ Menghapus

SumberSpec == SumberInit /\ [][SumberNext]_sumber
===============================================================================
