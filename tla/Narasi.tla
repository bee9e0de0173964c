-------------------------------- MODULE Narasi --------------------------------
(***************************************************************************)
(* Narrative cases: SqlNarasiService and the routes through which people   *)
(* write (revisi_kasus, tinjau_kasus).  A case has an append-only list of  *)
(* versions and an append-only list of review events; every write locks    *)
(* the case row, so one write is one action.  What is not locked is the    *)
(* reviewer's screen: a person reads a version, and posts a decision about *)
(* that version any time later.                                            *)
(*                                                                         *)
(* Texts, sources and names are abstracted: a version has a text or not.   *)
(* A version's identity is its revision_no, and 0 stands for no version.   *)
(* NarasiAi adds the AI worker's half of the story.                        *)
(***************************************************************************)
EXTENDS Naturals, Sequences

CONSTANTS
  Kasus,          \* scopes (lingkup), each at most one case
  Orang,          \* members of tim-kajian
  MaksVersi,      \* bound: people write no version past this number
  MaksEvent,      \* bound: events per case
  Nihil           \* no run, no case

ASSUME NarasiAssumption ==
  /\ MaksVersi \in Nat
  /\ MaksEvent \in Nat
  /\ Nihil \notin Kasus

VARIABLES
  status,         \* narasi_kasus.status, "TIADA" before the row exists
  versi,          \* narasi_versi of the case, by revision_no
  event,          \* narasi_event of the case, in order of event_at
  lihat           \* lihat[o][k]: version number on o's screen

narasiVars == <<status, versi, event, lihat>>

StatusNarasi == {"SOURCE_CHECKED", "AI_DRAFT", "TEAM_REVIEW", "NEED_FACT", "TEAM_VERIFIED"}

TRANSISI_NARASI == [ s \in StatusNarasi |->
  CASE s = "SOURCE_CHECKED" -> {"AI_DRAFT", "NEED_FACT", "TEAM_REVIEW"}
    [] s \in {"AI_DRAFT", "TEAM_REVIEW"} ->
         {"TEAM_VERIFIED", "TEAM_REVIEW", "SOURCE_CHECKED", "NEED_FACT"}
    [] s = "NEED_FACT" -> {"AI_DRAFT", "NEED_FACT", "TEAM_REVIEW"}
    [] s = "TEAM_VERIFIED" -> {"TEAM_REVIEW"} ]

EVENT_TAHAP_TIM ==
  [ TEAM_APPROVE |-> "TEAM_VERIFIED", TEAM_REVISE |-> "TEAM_REVIEW",
    TEAM_REJECT |-> "SOURCE_CHECKED", NEED_SOURCE |-> "NEED_FACT" ]

EventKind          == DOMAIN EVENT_TAHAP_TIM
STATUS_HASIL_VERSI == {"AI_DRAFT", "NEED_FACT", "TEAM_REVIEW"}

\* `run` is the ai_run_id of a version the machine wrote, Nihil for a person's.
Versi(Run) == [hasil : STATUS_HASIL_VERSI, berteks : BOOLEAN, gantikan : Nat, run : Run]
Event      == [versi : Nat, jenis : EventKind, dari : StatusNarasi]

NarasiTypeOK(Run) ==
  /\ status \in [Kasus -> StatusNarasi \cup {"TIADA"}]
  /\ versi \in [Kasus -> Seq(Versi(Run))]
  /\ event \in [Kasus -> Seq(Event)]
  /\ lihat \in [Orang -> [Kasus -> Nat]]

NarasiInit ==
  /\ status = [k \in Kasus |-> "TIADA"]
  /\ versi = [k \in Kasus |-> <<>>]
  /\ event = [k \in Kasus |-> <<>>]
  /\ lihat = [o \in Orang |-> [k \in Kasus |-> 0]]

Terbaru(k) == Len(versi[k])

-------------------------------------------------------------------------------
(* The service, under the lock of the case row.                              *)

\* Mutant: the writer's version is not compared with the latest.
BolehTambah_Basi(k, v) ==
  /\ status[k] # "TIADA"
  /\ v.hasil \in TRANSISI_NARASI[status[k]]
  /\ ~v.berteks => v.hasil = "NEED_FACT"

\* tambah_versi, the checks: the writer has seen the latest version, the case
\* may move, and only NEED_FACT comes without a text.
BolehTambah(k, v) ==
  /\ status[k] # "TIADA"
  /\ v.gantikan = Terbaru(k)
  /\ v.hasil \in TRANSISI_NARASI[status[k]]
  /\ ~v.berteks => v.hasil = "NEED_FACT"

\* tambah_versi, the writes.
TambahVersi(k, v) ==
  /\ BolehTambah(k, v)
  /\ versi' = [versi EXCEPT ![k] = Append(@, v)]
  /\ status' = [status EXCEPT ![k] = v.hasil]

\* Mutant: the event is recorded about whatever version is the latest now.
BolehCatat_Basi(k, n, jenis) ==
  /\ status[k] \notin {"TIADA", "TEAM_VERIFIED"}
  /\ EVENT_TAHAP_TIM[jenis] \in TRANSISI_NARASI[status[k]]
  /\ jenis \in {"TEAM_APPROVE", "TEAM_REVISE"} => n # 0 /\ versi[k][n].berteks

\* catat_event, the checks, for a decision about version n.
BolehCatat(k, n, jenis) ==
  /\ n = Terbaru(k)
  /\ status[k] \notin {"TIADA", "TEAM_VERIFIED"}
  /\ EVENT_TAHAP_TIM[jenis] \in TRANSISI_NARASI[status[k]]
  /\ jenis \in {"TEAM_APPROVE", "TEAM_REVISE"} => n # 0 /\ versi[k][n].berteks

CatatEvent(k, n, jenis) ==
  /\ event' = [event EXCEPT ![k] =
                 Append(@, [versi |-> n, jenis |-> jenis, dari |-> status[k]])]
  /\ status' = [status EXCEPT ![k] = EVENT_TAHAP_TIM[jenis]]

-------------------------------------------------------------------------------
(* The routes.                                                               *)

\* create_kasus: a second case for the same scope is refused.
BuatKasus(k) ==
  /\ status[k] = "TIADA"
  /\ status' = [status EXCEPT ![k] = "SOURCE_CHECKED"]
  /\ UNCHANGED <<versi, event, lihat>>

\* get_kasus / get_antrean: the screen shows the latest version.
Lihat(o, k) ==
  /\ status[k] # "TIADA"
  /\ lihat' = [lihat EXCEPT ![o][k] = Terbaru(k)]
  /\ UNCHANGED <<status, versi, event>>

VersiOrang(n) == [hasil |-> "TEAM_REVIEW", berteks |-> TRUE, gantikan |-> n, run |-> Nihil]

\* revisi_kasus: a text of one's own on top of the version seen.
RevisiKasus(o, k) ==
  /\ Terbaru(k) < MaksVersi
  /\ TambahVersi(k, VersiOrang(lihat[o][k]))
  /\ UNCHANGED <<event, lihat>>

\* tinjau_kasus TERIMA, TOLAK, BUTUH_SUMBER: one event about the version seen.
\* The client must name a version (narasi_versi_id is required).
Tinjau(o, k, jenis) ==
  /\ jenis # "TEAM_REVISE"
  /\ lihat[o][k] # 0
  /\ Len(event[k]) < MaksEvent
  /\ BolehCatat(k, lihat[o][k], jenis)
  /\ CatatEvent(k, lihat[o][k], jenis)
  /\ UNCHANGED <<versi, lihat>>

\* tinjau_kasus KOREKSI: a new version and an event about it, one transaction.
Koreksi(o, k) ==
  /\ lihat[o][k] # 0
  /\ Terbaru(k) < MaksVersi
  /\ Len(event[k]) < MaksEvent
  /\ TambahVersi(k, VersiOrang(lihat[o][k]))
  /\ event' = [event EXCEPT ![k] = Append(@,
       [versi |-> Terbaru(k) + 1, jenis |-> "TEAM_REVISE", dari |-> "TEAM_REVIEW"])]
  /\ UNCHANGED lihat

LangkahOrang ==
  \E k \in Kasus :
    \/ BuatKasus(k)
    \/ \E o \in Orang :
         \/ Lihat(o, k)
         \/ RevisiKasus(o, k)
         \/ Koreksi(o, k)
         \/ \E jenis \in EventKind : Tinjau(o, k, jenis)

-------------------------------------------------------------------------------
(* Properties of the record.                                                 *)

\* Nobody, person or machine, writes over a version he has not seen: every
\* version supersedes exactly its predecessor (expected_version, VersiBasiError).
RantaiLurus ==
  \A k \in Kasus : \A n \in DOMAIN versi[k] : versi[k][n].gantikan = n - 1

\* The status the trail leads to: the verdicts about version n after the i-th
\* event, or what the writing of version n gave.
StatusSetelah(k, n, i) ==
  IF i > 0 /\ event[k][i].versi = n THEN EVENT_TAHAP_TIM[event[k][i].jenis]
  ELSE IF n = 0 THEN "SOURCE_CHECKED" ELSE versi[k][n].hasil

\* The two append-only tables prove the status: it is the outcome of the last
\* event about the latest version, else of the writing of that version; events
\* follow the versions in order and each starts where the trail then was.
StatusTerbukti ==
  \A k \in Kasus : status[k] # "TIADA" =>
    /\ status[k] = StatusSetelah(k, Terbaru(k), Len(event[k]))
    /\ \A i \in DOMAIN event[k] :
         /\ event[k][i].versi \in 1..Terbaru(k)
         /\ i > 1 => event[k][i - 1].versi <= event[k][i].versi
         /\ event[k][i].dari = StatusSetelah(k, event[k][i].versi, i - 1)

\* The machine never replaces a text that awaits or has passed review: a text
\* gives way to a machine's version only after a person rejected it or asked
\* for a source, about that very version.
MesinTidakMenimpa ==
  \A k \in Kasus : \A n \in DOMAIN versi[k] :
    (n > 1 /\ versi[k][n].run # Nihil /\ versi[k][n - 1].berteks) =>
      \E i \in DOMAIN event[k] :
        /\ event[k][i].versi = n - 1
        /\ event[k][i].jenis \in {"TEAM_REJECT", "NEED_SOURCE"}

\* Only a version of a NEED_FACT outcome lacks a text, and a case that does not
\* exist has no record.
BentukVersi ==
  \A k \in Kasus :
    /\ status[k] = "TIADA" => versi[k] = <<>> /\ event[k] = <<>>
    /\ \A n \in DOMAIN versi[k] : versi[k][n].hasil = "NEED_FACT" <=> ~versi[k][n].berteks
===============================================================================
