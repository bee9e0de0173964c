-------------------------------- MODULE AiJob --------------------------------
(***************************************************************************)
(* The AI job pipeline: AiGateway.ajukan writes a run and a job in one     *)
(* transaction; any number of worker processes (python -m ...ai.worker)    *)
(* claim jobs, call a model outside any transaction, and close the run and *)
(* the job in one transaction.  Administrators flip the kill switch and    *)
(* the provider mode meanwhile; processes crash, restart and lose their    *)
(* database connection.                                                    *)
(*                                                                         *)
(* One action is one database statement group whose effects become visible *)
(* together.  Transactions run at READ COMMITTED, so a transaction that    *)
(* first reads and later writes without a row lock is two actions.         *)
(* A job and its run have the same identity here: async_job.ref_id is the  *)
(* id of the run written with it.                                          *)
(***************************************************************************)
EXTENDS Naturals, Sequences

CONSTANTS
  Req,            \* submissions, each one run and one job
  Worker,         \* worker processes
  Mode,           \* provider modes other than MATI
  MaksPercobaan,  \* AI_JOB_MAKS_PERCOBAAN
  MaksGangguan,   \* bound: crashes, stops, lost transactions and stale jobs
  MaksUbah,       \* bound: admin changes of the switch and the provider
  Nihil           \* no job held

ASSUME AiJobAssumption ==
  /\ MaksPercobaan \in Nat \ {0}
  /\ MaksGangguan \in Nat
  /\ MaksUbah \in Nat
  /\ Nihil \notin Req \cup Mode \cup {"MATI"}
  /\ "MATI" \notin Mode

VARIABLES
  job,            \* async_job.status, "TIADA" before the row exists
  percobaan,      \* async_job.percobaan
  antre,          \* jobs in order of created_at
  basi,           \* RUNNING jobs whose updated_at is older than 2 x AI_TIMEOUT
  run,            \* ai_run.status_qa, "TIADA" before the row exists
  masukan,        \* ai_run.masukan is stored
  penyediaRun,    \* ai_run.penyedia
  saklar,         \* last kill-switch event: TRUE unless MATIKAN
  penyedia,       \* ai_penyedia_pengaturan.mode
  minta,          \* provider mode a submission read before it writes, or Nihil
  pc,             \* where each worker is
  pegang,         \* job the worker is processing
  upaya,          \* percobaan as read at the claim
  klien,          \* provider mode the worker's client was built for
  hasil,          \* what the call gave: an error class or a judged answer
  lihat,          \* what stage 3 read before it writes
  panggilan,      \* history: model calls made for the run
  hidupSejakJawab,\* history: the switch was on at some moment since the answer
  gangguan,       \* disturbances spent
  ubah            \* admin changes spent

tabel   == <<job, percobaan, antre, basi, run, masukan, penyediaRun>>
lokal   == <<pc, pegang, upaya, klien, hasil, lihat>>
sejarah == <<panggilan, hidupSejakJawab>>
batas   == <<gangguan, ubah>>
atur    == <<saklar, penyedia, minta>>
vars    == <<tabel, atur, lokal, sejarah, batas>>

VonisGerbang == {"EVIDENCE_GAP", "DIBLOKIR"}
VonisJawaban == {"LOLOS", "EVIDENCE_GAP", "KARANTINA"}
Vonis        == VonisGerbang \cup VonisJawaban \cup {"GAGAL"}
StatusQaAi   == Vonis \cup {"MENUNGGU"}
StatusJob    == {"PENDING", "RUNNING", "SUCCEEDED", "FAILED", "MANUAL_REVIEW"}
Galat        == {"SEMENTARA", "GALAT"}
Semua        == Mode \cup {"MATI"}

\* A worker that has claimed a job and not yet let go of it.
Aktif == {"siap", "panggil", "jawab", "tulis"}
Pc    == {"henti", "pulih", "idle", "klaim"} \cup Aktif

TRANSISI_SAH == [ s \in StatusJob |->
  CASE s = "PENDING" -> {"RUNNING"}
    [] s = "RUNNING" -> {"SUCCEEDED", "FAILED", "MANUAL_REVIEW"}
    [] s = "FAILED"  -> {"PENDING"}
    [] OTHER         -> {} ]

Lihat == [job : StatusJob \cup {"TIADA"}, run : StatusQaAi \cup {"TIADA"}, saklar : BOOLEAN]

TypeOK ==
  /\ job \in [Req -> StatusJob \cup {"TIADA"}]
  /\ percobaan \in [Req -> Nat]
  /\ antre \in Seq(Req)
  /\ basi \in SUBSET Req
  /\ run \in [Req -> StatusQaAi \cup {"TIADA"}]
  /\ masukan \in [Req -> BOOLEAN]
  /\ penyediaRun \in [Req -> Semua]
  /\ saklar \in BOOLEAN
  /\ penyedia \in Semua
  /\ minta \in [Req -> Semua \cup {Nihil}]
  /\ pc \in [Worker -> Pc]
  /\ pegang \in [Worker -> Req \cup {Nihil}]
  /\ upaya \in [Worker -> Nat]
  /\ klien \in [Worker -> Semua]
  /\ hasil \in [Worker -> Galat \cup VonisJawaban]
  /\ lihat \in [Worker -> Lihat]
  /\ panggilan \in [Req -> Nat]
  /\ hidupSejakJawab \in [Worker -> BOOLEAN]
  /\ gangguan \in 0..MaksGangguan
  /\ ubah \in 0..MaksUbah

KosongLihat == [job |-> "TIADA", run |-> "TIADA", saklar |-> FALSE]

Init ==
  /\ job = [r \in Req |-> "TIADA"]
  /\ percobaan = [r \in Req |-> 0]
  /\ antre = <<>>
  /\ basi = {}
  /\ run = [r \in Req |-> "TIADA"]
  /\ masukan = [r \in Req |-> FALSE]
  /\ penyediaRun = [r \in Req |-> "MATI"]
  /\ saklar = TRUE
  /\ penyedia \in Mode
  /\ minta = [r \in Req |-> Nihil]
  /\ pc = [w \in Worker |-> "henti"]
  /\ pegang = [w \in Worker |-> Nihil]
  /\ upaya = [w \in Worker |-> 0]
  /\ klien = [w \in Worker |-> "MATI"]
  /\ hasil = [w \in Worker |-> "GALAT"]
  /\ lihat = [w \in Worker |-> KosongLihat]
  /\ panggilan = [r \in Req |-> 0]
  /\ hidupSejakJawab = [w \in Worker |-> FALSE]
  /\ gangguan = 0
  /\ ubah = 0

-------------------------------------------------------------------------------
(* Table operations: the services under one transaction.                     *)

\* SqlAsyncJobService.transisi, given the status `asal` the transaction read.
BolehTransisi(asal, ke) == asal \in StatusJob /\ ke \in TRANSISI_SAH[asal]

\* A status write stamps updated_at, so the job is fresh again.
TulisJob(r, ke) ==
  /\ job' = [job EXCEPT ![r] = ke]
  /\ basi' = basi \ {r}

\* SqlAiRunService.tutup: verdict in, masukan out.
TulisVonis(r, v) ==
  /\ run' = [run EXCEPT ![r] = v]
  /\ masukan' = [masukan EXCEPT ![r] = FALSE]

\* jalankan_satu ends one way or the other: its local variables are gone.
Lupakan(w, ke) ==
  /\ pc' = [pc EXCEPT ![w] = ke]
  /\ pegang' = [pegang EXCEPT ![w] = Nihil]
  /\ upaya' = [upaya EXCEPT ![w] = 0]
  /\ klien' = [klien EXCEPT ![w] = "MATI"]
  /\ hasil' = [hasil EXCEPT ![w] = "GALAT"]
  /\ lihat' = [lihat EXCEPT ![w] = KosongLihat]
  /\ hidupSejakJawab' = [hidupSejakJawab EXCEPT ![w] = FALSE]
  /\ UNCHANGED panggilan

Lepas(w) == Lupakan(w, "idle")

-------------------------------------------------------------------------------
(* The gateway.                                                              *)

\* AiGateway.ajukan, the reads: refused while the switch is off or the provider
\* is MATI; neither row is locked.
PeriksaPengajuan(r) ==
  /\ job[r] = "TIADA"
  /\ minta[r] = Nihil
  /\ saklar
  /\ penyedia # "MATI"
  /\ minta' = [minta EXCEPT ![r] = penyedia]
  /\ UNCHANGED <<tabel, saklar, penyedia, lokal, sejarah, batas>>

\* AiGateway.ajukan, the writes: run and job together, closed at once when the
\* input gate refuses.
Ajukan(r) ==
  /\ job[r] = "TIADA"
  /\ minta[r] # Nihil
  /\ antre' = Append(antre, r)
  /\ penyediaRun' = [penyediaRun EXCEPT ![r] = minta[r]]
  /\ \/ /\ run' = [run EXCEPT ![r] = "MENUNGGU"]
        /\ masukan' = [masukan EXCEPT ![r] = TRUE]
        /\ job' = [job EXCEPT ![r] = "PENDING"]
     \/ /\ \E v \in VonisGerbang : run' = [run EXCEPT ![r] = v]
        /\ job' = [job EXCEPT ![r] = "MANUAL_REVIEW"]
        /\ UNCHANGED masukan
  /\ UNCHANGED <<percobaan, basi, atur, lokal, sejarah, batas>>

-------------------------------------------------------------------------------
(* The worker process.                                                       *)

\* main: the process comes up and tries to recover stale jobs, once.
Mulai(w) ==
  /\ pc[w] = "henti"
  /\ pc' = [pc EXCEPT ![w] = "pulih"]
  /\ UNCHANGED <<tabel, atur, pegang, upaya, klien, hasil, lihat, sejarah, batas>>

\* Mutant: stale jobs are queued again, as if their worker were surely dead.
PulihkanJobBasi_Antre(w) ==
  /\ pc[w] = "pulih"
  /\ job' = [r \in Req |-> IF r \in basi /\ job[r] = "RUNNING" THEN "PENDING" ELSE job[r]]
  /\ basi' = {r \in basi : job[r] # "RUNNING"}
  /\ pc' = [pc EXCEPT ![w] = "idle"]
  /\ UNCHANGED <<percobaan, antre, run, masukan, penyediaRun, atur, pegang, upaya,
                 klien, hasil, lihat, sejarah, batas>>

\* pulihkan_job_basi: every stale RUNNING job becomes FAILED WORKER_TERHENTI.
PulihkanJobBasi(w) ==
  /\ pc[w] = "pulih"
  /\ job' = [r \in Req |-> IF r \in basi /\ job[r] = "RUNNING" THEN "FAILED" ELSE job[r]]
  /\ basi' = {r \in basi : job[r] # "RUNNING"}
  /\ pc' = [pc EXCEPT ![w] = "idle"]
  /\ UNCHANGED <<percobaan, antre, run, masukan, penyediaRun, atur, pegang, upaya,
                 klien, hasil, lihat, sejarah, batas>>

\* main: a failed recovery is logged and the loop starts anyway.
PemulihanGagal(w) ==
  /\ pc[w] = "pulih"
  /\ gangguan < MaksGangguan
  /\ gangguan' = gangguan + 1
  /\ pc' = [pc EXCEPT ![w] = "idle"]
  /\ UNCHANGED <<tabel, atur, pegang, upaya, klien, hasil, lihat, sejarah, ubah>>

\* jalankan_satu, stage 1, first statement: the switch is read, not locked;
\* while it is off the loop only polls.
PeriksaSaklar(w) ==
  /\ pc[w] = "idle"
  /\ pc' = IF saklar THEN [pc EXCEPT ![w] = "klaim"] ELSE pc
  /\ UNCHANGED <<tabel, atur, pegang, upaya, klien, hasil, lihat, sejarah, batas>>

\* klaim_job orders by created_at and takes the first PENDING row.
Tertua(r) ==
  \E i \in DOMAIN antre :
    /\ antre[i] = r
    /\ job[r] = "PENDING"
    /\ \A k \in 1..(i - 1) : job[antre[k]] # "PENDING"

\* Stage 1, the rest: claim, commit as RUNNING, then the model may be called.
Klaim(w, r) ==
  /\ pc[w] = "klaim"
  /\ Tertua(r)
  /\ masukan[r]
  /\ TulisJob(r, "RUNNING")
  /\ pc' = [pc EXCEPT ![w] = "siap"]
  /\ pegang' = [pegang EXCEPT ![w] = r]
  /\ upaya' = [upaya EXCEPT ![w] = percobaan[r]]
  /\ UNCHANGED <<percobaan, antre, run, masukan, penyediaRun, atur, klien, hasil,
                 lihat, sejarah, batas>>

\* Stage 1 when the worker does not know the function (its AI_FUNGSI_AKTIF
\* differs from the API's) or the input is gone: closed GAGAL in the same
\* transaction.
KlaimTanpaFungsi(w, r) ==
  /\ pc[w] = "klaim"
  /\ Tertua(r)
  /\ run[r] = "MENUNGGU"
  /\ TulisJob(r, "MANUAL_REVIEW")
  /\ TulisVonis(r, "GAGAL")
  /\ Lepas(w)
  /\ UNCHANGED <<percobaan, antre, penyediaRun, atur, batas>>

\* Stage 1 with nothing to claim: poll again.
TanpaJob(w) ==
  /\ pc[w] = "klaim"
  /\ \A r \in Req : job[r] # "PENDING"
  /\ pc' = [pc EXCEPT ![w] = "idle"]
  /\ UNCHANGED <<tabel, atur, pegang, upaya, klien, hasil, lihat, sejarah, batas>>

\* _siapkan_klien: read the provider afresh, record it on the waiting run, and
\* build a client; MATI, a missing key or a missing binary give no client.
SiapkanKlien(w) ==
  LET r == pegang[w] IN
  /\ pc[w] = "siap"
  /\ klien' = [klien EXCEPT ![w] = penyedia]
  /\ penyediaRun' = IF run[r] = "MENUNGGU"
                    THEN [penyediaRun EXCEPT ![r] = penyedia] ELSE penyediaRun
  /\ \/ /\ penyedia # "MATI"
        /\ pc' = [pc EXCEPT ![w] = "panggil"]
        /\ panggilan' = [panggilan EXCEPT ![r] = @ + 1]
        /\ UNCHANGED <<hasil, hidupSejakJawab>>
     \/ /\ pc' = [pc EXCEPT ![w] = "jawab"]
        /\ hasil' = [hasil EXCEPT ![w] = "GALAT"]
        /\ hidupSejakJawab' = [hidupSejakJawab EXCEPT ![w] = saklar]
        /\ UNCHANGED panggilan
  /\ UNCHANGED <<job, percobaan, antre, basi, run, masukan, atur, pegang, upaya,
                 lihat, batas>>

\* Stage 2: the model answers, or one of the client's exceptions is caught.
ModelMenjawab(w, h) ==
  /\ pc[w] = "panggil"
  /\ h \in Galat \cup VonisJawaban
  /\ hasil' = [hasil EXCEPT ![w] = h]
  /\ hidupSejakJawab' = [hidupSejakJawab EXCEPT ![w] = saklar]
  /\ pc' = [pc EXCEPT ![w] = "jawab"]
  /\ UNCHANGED <<tabel, atur, pegang, upaya, klien, lihat, panggilan, batas>>

\* Stage 3, the reads: switch, run and job rows, without a lock.
BacaTahap3(w) ==
  /\ pc[w] = "jawab"
  /\ lihat' = [lihat EXCEPT ![w] =
                 [job |-> job[pegang[w]], run |-> run[pegang[w]], saklar |-> saklar]]
  /\ pc' = [pc EXCEPT ![w] = "tulis"]
  /\ UNCHANGED <<tabel, atur, pegang, upaya, klien, hasil, sejarah, batas>>

\* A transient failure with attempts left goes back to the queue.
Diulang(w) == hasil[w] = "SEMENTARA" /\ upaya[w] + 1 < MaksPercobaan

\* Mutants: the switch is not read again; a failed call is quarantined as if the
\* model had answered.
VonisTahap3_TanpaSaklar(w) == IF hasil[w] \in Galat THEN "GAGAL" ELSE hasil[w]
VonisTahap3_Karantina(w) ==
  IF lihat[w].saklar /\ hasil[w] \notin Galat THEN hasil[w] ELSE "KARANTINA"

\* The verdict stage 3 closes the run with (also _evaluasi's).
VonisTahap3(w) ==
  IF hasil[w] \in Galat THEN "GAGAL"
  ELSE IF lihat[w].saklar THEN hasil[w] ELSE "KARANTINA"

\* Mutant: the retry forgets the second transition.
Ulangi_TetapGagal(w) ==
  /\ pc[w] = "tulis"
  /\ Diulang(w)
  /\ BolehTransisi(lihat[w].job, "FAILED")
  /\ TulisJob(pegang[w], "FAILED")
  /\ Lepas(w)
  /\ UNCHANGED <<percobaan, antre, run, masukan, penyediaRun, atur, batas>>

\* Stage 3, retry: RUNNING -> FAILED -> PENDING in one transaction.
Ulangi(w) ==
  LET r == pegang[w] IN
  /\ pc[w] = "tulis"
  /\ Diulang(w)
  /\ BolehTransisi(lihat[w].job, "FAILED")
  /\ TulisJob(r, "PENDING")
  /\ percobaan' = [percobaan EXCEPT ![r] = @ + 1]
  /\ Lepas(w)
  /\ UNCHANGED <<antre, run, masukan, penyediaRun, atur, batas>>

\* Mutant: the job is finished, its run is not.
Tutup_TanpaRun(w) ==
  LET ke == IF VonisTahap3(w) = "LOLOS" THEN "SUCCEEDED" ELSE "MANUAL_REVIEW" IN
  /\ pc[w] = "tulis"
  /\ ~Diulang(w)
  /\ BolehTransisi(lihat[w].job, ke)
  /\ TulisJob(pegang[w], ke)
  /\ Lepas(w)
  /\ UNCHANGED <<percobaan, antre, run, masukan, penyediaRun, atur, batas>>

\* Stage 3, close: run and job together (_selesaikan_manual or SUCCEEDED).
Tutup(w) ==
  LET r  == pegang[w]
      ke == IF VonisTahap3(w) = "LOLOS" THEN "SUCCEEDED" ELSE "MANUAL_REVIEW"
  IN
  /\ pc[w] = "tulis"
  /\ ~Diulang(w)
  /\ lihat[w].run = "MENUNGGU"
  /\ BolehTransisi(lihat[w].job, ke)
  /\ TulisVonis(r, VonisTahap3(w))
  /\ TulisJob(r, ke)
  /\ Lepas(w)
  /\ UNCHANGED <<percobaan, antre, penyediaRun, atur, batas>>

\* Stage 3, refused: transisi or tutup raises ConflictError, the transaction
\* rolls back, main logs and polls on.
Ditolak(w) ==
  /\ pc[w] = "tulis"
  /\ \/ lihat[w].job # "RUNNING"
     \/ ~Diulang(w) /\ lihat[w].run # "MENUNGGU"
  /\ Lepas(w)
  /\ UNCHANGED <<tabel, atur, batas>>

-------------------------------------------------------------------------------
(* Disturbances and administrators.                                          *)

\* The process dies (or SIGTERM reaches an idle one): local state is gone.
Mati(w) ==
  /\ pc[w] # "henti"
  /\ gangguan < MaksGangguan
  /\ gangguan' = gangguan + 1
  /\ Lupakan(w, "henti")
  /\ UNCHANGED <<tabel, atur, ubah>>

\* A transaction after the claim fails (database gone): the loop logs and goes
\* on, the job stays RUNNING without an owner.
TransaksiGagal(w) ==
  /\ pc[w] \in {"siap", "jawab", "tulis"}
  /\ gangguan < MaksGangguan
  /\ gangguan' = gangguan + 1
  /\ Lepas(w)
  /\ UNCHANGED <<tabel, atur, ubah>>

\* Time passes: a RUNNING job crosses the 2 x AI_TIMEOUT mark, whether its
\* worker died or is still waiting for a slow stream.
Menua(r) ==
  /\ job[r] = "RUNNING"
  /\ r \notin basi
  /\ gangguan < MaksGangguan
  /\ gangguan' = gangguan + 1
  /\ basi' = basi \cup {r}
  /\ UNCHANGED <<job, percobaan, antre, run, masukan, penyediaRun, atur, lokal,
                 sejarah, ubah>>

\* SqlSaklarAiService.matikan / hidupkan: a repeated action is refused.
UbahSaklar ==
  /\ ubah < MaksUbah
  /\ ubah' = ubah + 1
  /\ saklar' = ~saklar
  /\ hidupSejakJawab' = [w \in Worker |->
       hidupSejakJawab[w] \/ (saklar' /\ pc[w] \in {"jawab", "tulis"})]
  /\ UNCHANGED <<tabel, penyedia, minta, lokal, panggilan, gangguan>>

\* SqlAiPenyediaService.ubah_mode: choosing the current mode is refused.
UbahMode(m) ==
  /\ m \in Semua \ {penyedia}
  /\ ubah < MaksUbah
  /\ ubah' = ubah + 1
  /\ penyedia' = m
  /\ UNCHANGED <<tabel, saklar, minta, lokal, sejarah, gangguan>>

-------------------------------------------------------------------------------
LangkahWorker(w) ==
  \/ Mulai(w)
  \/ PulihkanJobBasi(w)
  \/ PemulihanGagal(w)
  \/ PeriksaSaklar(w)
  \/ \E r \in Req : Klaim(w, r)
  \/ \E r \in Req : KlaimTanpaFungsi(w, r)
  \/ TanpaJob(w)
  \/ SiapkanKlien(w)
  \/ \E h \in Galat \cup VonisJawaban : ModelMenjawab(w, h)
  \/ BacaTahap3(w)
  \/ Ulangi(w)
  \/ Tutup(w)
  \/ Ditolak(w)
  \/ Mati(w)
  \/ TransaksiGagal(w)

Next ==
  \/ \E r \in Req : PeriksaPengajuan(r)
  \/ \E r \in Req : Ajukan(r)
  \/ \E r \in Req : Menua(r)
  \/ \E w \in Worker : LangkahWorker(w)
  \/ UbahSaklar
  \/ \E m \in Semua : UbahMode(m)

Spec == Init /\ [][Next]_vars

\* The process manager restarts a worker; its loop never stops of itself and
\* every client call ends (AI_TIMEOUT), so each step of it is eventually taken.
Fairness ==
  \A w \in Worker :
    /\ WF_vars(Mulai(w))
    /\ WF_vars(PulihkanJobBasi(w))
    /\ WF_vars(PeriksaSaklar(w))
    /\ WF_vars(TanpaJob(w) \/ \E r \in Req : Klaim(w, r) \/ KlaimTanpaFungsi(w, r))
    /\ WF_vars(SiapkanKlien(w))
    /\ WF_vars(\E h \in Galat \cup VonisJawaban : ModelMenjawab(w, h))
    /\ WF_vars(BacaTahap3(w))
    /\ WF_vars(Ulangi(w) \/ Tutup(w) \/ Ditolak(w))

FairSpec == Spec /\ Fairness

-------------------------------------------------------------------------------
(* Properties.                                                               *)

\* The two tables tell one story.  gateway.py and worker.py write run and job
\* in the same transaction: a run is decided exactly when its job is finished,
\* and SUCCEEDED means LOLOS, whatever retries, races and crashes happened.
VonisSejalan ==
  \A r \in Req :
    /\ job[r] = "TIADA" <=> run[r] = "TIADA"
    /\ job[r] \in {"PENDING", "RUNNING", "FAILED"} <=> run[r] = "MENUNGGU"
    /\ job[r] = "SUCCEEDED" <=> run[r] = "LOLOS"

\* klaim_job's promise ("two claimants never take the same job") extended over
\* the whole life of the claim: no second worker is ever at work on a job,
\* also after a stale-job recovery took it away from a slow but living worker.
SatuPelaksana ==
  \A v, w \in Worker :
    (v # w /\ pc[v] \in Aktif /\ pc[w] \in Aktif) => pegang[v] # pegang[w]

\* AI_JOB_MAKS_PERCOBAAN bounds what a submission can cost: the model is never
\* called more often for one run, however often its worker fails.
PercobaanTerbatas == \A r \in Req : panggilan[r] <= MaksPercobaan

\* A retry can only work if the redacted input is still there, and a decided
\* run must not keep it (ai_simpan_masukan is off): input exists exactly
\* while the run waits.
MasukanSelamaMenunggu == \A r \in Req : masukan[r] <=> run[r] = "MENUNGGU"

\* The register shows which provider really received the data, though an
\* administrator may change the mode between submission, retries and call.
PenyediaTercatat ==
  \A w \in Worker :
    pc[w] \in {"panggil", "jawab", "tulis"} => penyediaRun[pegang[w]] = klien[w]

\* The kill switch: an answer that came back while the switch was off, and
\* stayed off until the run was closed, is never let through.
SaklarDihormati ==
  [][ \A w \in Worker :
        (pc[w] = "tulis" /\ run[pegang[w]] = "MENUNGGU" /\ run'[pegang[w]] = "LOLOS")
          => hidupSejakJawab[w] ]_vars

\* Whoever is at work holds a job nobody has finished or queued again, and the
\* attempt number it read at the claim is still the stored one (stage 3
\* decides about a retry from that copy).
PemegangSah ==
  \A w \in Worker : pc[w] \in Aktif =>
    /\ pegang[w] \in Req
    /\ job[pegang[w]] \in {"RUNNING", "FAILED"}
    /\ upaya[w] = percobaan[pegang[w]]

\* Each attempt calls the model at most once.
SekaliPerUpaya ==
  /\ \A r \in Req :
       /\ percobaan[r] < MaksPercobaan
       /\ panggilan[r] <= percobaan[r] + (IF job[r] \in {"TIADA", "PENDING"} THEN 0 ELSE 1)
  /\ \A w \in Worker : pc[w] = "siap" => panggilan[pegang[w]] <= percobaan[pegang[w]]

\* What stage 3 is about to write is grounded: a judged answer comes from a
\* call, and a switch it saw on was on since the answer.
JawabanNyata ==
  \A w \in Worker :
    /\ pc[w] = "panggil" => panggilan[pegang[w]] > 0
    /\ (pc[w] \in {"jawab", "tulis"} /\ hasil[w] \in VonisJawaban)
         => panggilan[pegang[w]] > 0
    /\ (pc[w] = "jawab" /\ saklar) => hidupSejakJawab[w]
    /\ (pc[w] = "tulis" /\ lihat[w].saklar) => hidupSejakJawab[w]

\* The inductive invariant behind the safety properties.
IndInv ==
  /\ TypeOK
  /\ VonisSejalan
  /\ SatuPelaksana
  /\ PemegangSah
  /\ SekaliPerUpaya
  /\ MasukanSelamaMenunggu
  /\ PenyediaTercatat
  /\ JawabanNyata

\* The pipeline keeps the promise of the run register.
Janji == INSTANCE JanjiRun WITH dipanggil <- {r \in Req : panggilan[r] > 0}
JanjiDipenuhi == Janji!JanjiSpec

\* Without crashes and without calls outliving the stale mark, every
\* submission gets its verdict (if the switch ends up on).
SemuaDiputus ==
  [](gangguan = 0) /\ <>[]saklar =>
    \A r \in Req : run[r] = "MENUNGGU" ~> run[r] # "MENUNGGU"

\* CHANGELOG.md on the worker: any failure ends in MANUAL_REVIEW.  (A late
\* success of a worker thought dead is allowed for.)
KegagalanBerakhirManual ==
  \A r \in Req : job[r] = "FAILED" ~> job[r] \in {"MANUAL_REVIEW", "SUCCEEDED"}

\* schemas/async_job.py, TRANSISI_SAH: a FAILED job goes to PENDING, nowhere else.
GagalHanyaDiulang ==
  [][ \A r \in Req :
        (job[r] = "FAILED" /\ job'[r] # job[r]) => job'[r] \in TRANSISI_SAH["FAILED"] ]_vars
===============================================================================
