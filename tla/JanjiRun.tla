------------------------------- MODULE JanjiRun -------------------------------
(***************************************************************************)
(* What the AI run register (table ai_run) promises to everybody who reads *)
(* it: the absorbers, the review screens, the audit.  A run is opened      *)
(* once, receives exactly one verdict, and the verdict is never revised.   *)
(* A verdict about model output exists only for a run whose model was      *)
(* really called; a run stopped at the input gate never reaches a model.   *)
(*                                                                         *)
(* AiJob implements this module (workers, retries, crashes); NarasiAi uses *)
(* it as its environment.                                                  *)
(***************************************************************************)
CONSTANT Req      \* identities of submitted runs

VARIABLES
  run,            \* run[r]: ai_run.status_qa, "TIADA" before the row exists
  dipanggil       \* runs a model has been asked about

janjiVars == <<run, dipanggil>>

\* Verdicts of the input gate, of the worker about an answer, and all of them.
VonisGerbang == {"EVIDENCE_GAP", "DIBLOKIR"}
VonisJawaban == {"LOLOS", "EVIDENCE_GAP", "KARANTINA"}
Vonis        == VonisGerbang \cup VonisJawaban \cup {"GAGAL"}
StatusQaAi   == Vonis \cup {"MENUNGGU"}

JanjiTypeOK ==
  /\ run \in [Req -> StatusQaAi \cup {"TIADA"}]
  /\ dipanggil \in SUBSET Req

JanjiInit ==
  /\ run = [r \in Req |-> "TIADA"]
  /\ dipanggil = {}

\* The request passes the gate: the run waits.
Buka(r) ==
  /\ run[r] = "TIADA"
  /\ run' = [run EXCEPT ![r] = "MENUNGGU"]
  /\ UNCHANGED dipanggil

\* The gate refuses: the run is born closed and no model will see it.
TolakDiGerbang(r, v) ==
  /\ run[r] = "TIADA"
  /\ v \in VonisGerbang
  /\ run' = [run EXCEPT ![r] = v]
  /\ UNCHANGED dipanggil

\* Only a waiting run is shown to a model.
Panggil(r) ==
  /\ run[r] = "MENUNGGU"
  /\ dipanggil' = dipanggil \cup {r}
  /\ UNCHANGED run

\* The single verdict; one about an answer needs an answer.
Putus(r, v) ==
  /\ run[r] = "MENUNGGU"
  /\ v \in VonisJawaban \cup {"GAGAL"}
  /\ v \in VonisJawaban => r \in dipanggil
  /\ run' = [run EXCEPT ![r] = v]
  /\ UNCHANGED dipanggil

JanjiNext ==
  \E r \in Req :
    \/ Buka(r)
    \/ Panggil(r)
    \/ \E v \in Vonis : TolakDiGerbang(r, v) \/ Putus(r, v)

JanjiSpec == JanjiInit /\ [][JanjiNext]_janjiVars
===============================================================================
