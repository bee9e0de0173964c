-------------------------------- MODULE Setelan --------------------------------
(***************************************************************************)
(* The settings of the AI provider, one row with a ledger of its changes,  *)
(* the ledger of the kill switch, and the calls made with the settings.    *)
(* AiJob has the workers and their jobs; here is which client they get.    *)
(*                                                                         *)
(* <<"induk", 1>> holds the master key of the deployment, which is no row  *)
(* but a variable of the environment: a restart may change it.  A cipher   *)
(* is <<master key, key>>; two ciphers of one key are the same here.       *)
(***************************************************************************)
EXTENDS Permintaan

CONSTANTS
  IndukSah,       \* master keys
  ModelAi,        \* names of models an administrator asks for
  EffortAi,       \* and the efforts
  AI_MODEL_BAWAAN \* the model of a row that names none

AiPenyediaMode == {"MATI", "API_ANTHROPIC", "LANGGANAN_CLAUDE"}
AwalanDitolak == {"claude-fable", "claude-mythos"}
AiEffort == {"low", "medium", "high", "xhigh", "max"}
AI_EFFORT_BAWAAN == "high"
Sandi == Teks \X Kunci          \* keys of the API: <<the rest, last four characters>>

\* NULL is no cipher, there is a master key, and the model of a row that names
\* none may be called.
ASSUME SetelanAssumption ==
  Kosong \notin IndukSah \X Sandi /\ IndukSah # {} /\ AI_MODEL_BAWAAN \notin AwalanDitolak

TUNGGAL == <<"setelan", 1>>
KunciInduk == {db[o].kunci : o \in Baris("induk")} \ {Kosong}
BarisBawaan == [mode |-> "MATI", model |-> Kosong, effort |-> Kosong, kunci |-> Kosong, akhiran |-> Kosong]

\* status, of the rows b: without a row everything is as in BarisBawaan.
BarisTunggal(b) == IF TUNGGAL \in Isi(b, "setelan") THEN b[TUNGGAL] ELSE BarisBawaan
Status == BarisTunggal(db)
ModelBerlaku(m) == IF m = Kosong THEN AI_MODEL_BAWAAN ELSE m
EffortBerlaku(f) == IF f = Kosong THEN AI_EFFORT_BAWAAN ELSE f

\* dekripsi_kredensial: what another master key encrypted cannot be read.
Dekripsi(sandi) == IF sandi # Kosong /\ sandi[1] \in KunciInduk THEN sandi[2] ELSE Kosong

\* Events are numbered in the order of their time.
AcaraBaru(t) ==
  Pertama({o \in Rak(t) : db[o] = Tiada /\ o \notin Dipesan /\ \A x \in Baris(t) : x[2] < o[2]})

\* The row, made at the first change, and the event, in one transaction.  Its
\* place in the ledger is fixed before the commit: whoever commits another event
\* meanwhile has overlapped with it.
Catatan(aksi, isi) == [k \in {"aksi", "mode", "model", "effort", "akhiran"} |->
  IF k = "aksi" THEN aksi ELSE IF k \in DOMAIN isi THEN isi[k] ELSE Kosong]
UbahSetelan(p, aksi, u, catatan) == \E e \in AcaraBaru("setelan_event") :
  Rencanakan(p, Rak("setelan_event"), [x \in {e, TUNGGAL} |->
    IF x = e THEN Catatan(aksi, catatan)
    ELSE IF TUNGGAL \in Baris("setelan") THEN Beda(TUNGGAL, u) ELSE Timpa(BarisBawaan, u)])

-------------------------------------------------------------------------------
(* The operations of SqlAiPenyediaService, and their routes.                 *)

ModeBaru(p, m) == Status.mode # m /\ UbahSetelan(p, "UBAH_MODE", [mode |-> m], [mode |-> m])

\* validasi_model: models that keep what they are sent are refused.
ValidasiModel(m) == m \notin AwalanDitolak

ValidasiEffort(f) == f \in AiEffort

\* Refused when neither the model nor the effort in force would change.
ModelBaru(p, m, f) ==
  /\ m # Kosong => ValidasiModel(m)
  /\ f # Kosong => ValidasiEffort(f)
  /\ <<ModelBerlaku(m), EffortBerlaku(f)>> # <<ModelBerlaku(Status.model), EffortBerlaku(Status.effort)>>
  /\ UbahSetelan(p, "UBAH_MODEL", [model |-> m, effort |-> f], [model |-> m, effort |-> f])

PasangKredensial(p, s) == \E k \in KunciInduk :
  UbahSetelan(p, "PASANG_KREDENSIAL", [kunci |-> <<k, s>>, akhiran |-> s[2]], [akhiran |-> s[2]])

\* Mutant: the last characters stay in the row.
HapusKredensial_Sisa(p) ==
  /\ Status.kunci # Kosong
  /\ UbahSetelan(p, "HAPUS_KREDENSIAL", [kunci |-> Kosong], [akhiran |-> Status.akhiran])

HapusKredensial(p) ==
  /\ Status.kunci # Kosong
  /\ UbahSetelan(p, "HAPUS_KREDENSIAL", [kunci |-> Kosong, akhiran |-> Kosong], [akhiran |-> Status.akhiran])

UbahModePenyedia(p) == Luang(p) /\ \E m \in AiPenyediaMode : ModeBaru(p, m)
UbahModelPenyedia(p) ==
  Luang(p) /\ \E m \in AtauKosong(ModelAi), f \in AtauKosong(EffortAi) : ModelBaru(p, m, f)
PasangKredensialPenyedia(p) == Luang(p) /\ \E s \in Sandi : PasangKredensial(p, s)
HapusKredensialPenyedia(p) == Luang(p) /\ HapusKredensial(p)

\* A restart with another master key, or none: no transaction, no event.
GantiInduk(p) == Luang(p) /\ \E k \in AtauKosong(IndukSah) \ KunciInduk : \E o \in Baris("induk") :
  Ganti(p, o, {}, [kunci |-> k])

-------------------------------------------------------------------------------
(* The kill switch: its last event decides.                                  *)

Terakhir(S) == {e \in S : \A f \in S : f[2] <= e[2]}
Dimatikan == \E e \in Terakhir(Baris("saklar")) : db[e].aksi = "MATIKAN"

\* ai_boleh_jalan; the flag of the environment is on.
BolehJalan == ~Dimatikan

CatatSaklar(p, aksi) ==
  (aksi = "MATIKAN") # Dimatikan /\ Tambah(p, AcaraBaru("saklar"), Terakhir(Baris("saklar")), [aksi |-> aksi])
MatikanSaklar(p) == Luang(p) /\ CatatSaklar(p, "MATIKAN")
HidupkanSaklar(p) == Luang(p) /\ CatatSaklar(p, "HIDUPKAN")

-------------------------------------------------------------------------------
(* Calls.  The client is built from the row and used after its transaction.  *)

\* baca_status_cli.
StatusCli == {s \in [terpasang : BOOLEAN, masuk : BOOLEAN] : s.masuk => s.terpasang}

\* buat_klien_model: the code of a refusal, or KLIEN.
BuatKlien(st, cli) ==
  IF st.mode = "MATI" THEN "PENYEDIA_MATI"
  ELSE IF st.mode = "LANGGANAN_CLAUDE" THEN IF cli.terpasang THEN "KLIEN" ELSE "PENYEDIA_TIDAK_TERSEDIA"
  ELSE IF Dekripsi(st.kunci) = Kosong THEN "KUNCI_MODEL_TIDAK_ADA" ELSE "KLIEN"

\* _siapkan_klien: the mode is noted with the run whatever becomes of it.  Only
\* a client of the API reads the key.
SiapkanKlienRun(p) == Luang(p) /\ BolehJalan /\ \E cli \in StatusCli :
  LET galat == BuatKlien(Status, cli) IN
  Tambah(p, BarisBaru("panggilan"), {}, [mode |-> Status.mode, model |-> ModelBerlaku(Status.model),
    hasil |-> galat,
    kunci |-> IF galat = "KLIEN" /\ Status.mode = "API_ANTHROPIC" THEN Dekripsi(Status.kunci) ELSE Kosong])

\* AnthropicKlienModel.panggil.
PanggilApi == {"JAWABAN", "MODEL_SEMENTARA", "MODEL_PERMANEN", "KUNCI_MODEL_TIDAK_ADA"}

\* ClaudeCliKlienModel.panggil; jalan is what became of the process: it could
\* not start, was killed when its time was up, ended with an error, or with an
\* output that is or is not understood (_urai).  The login is looked at before,
\* and again after an error.
PanggilCli(cli, jalan, lagi) ==
  IF ~cli.terpasang THEN "PENYEDIA_TIDAK_TERSEDIA"
  ELSE IF ~cli.masuk THEN "LANGGANAN_BELUM_MASUK"
  ELSE CASE jalan = "TAK_JALAN" -> "PENYEDIA_TIDAK_TERSEDIA"
         [] jalan = "HABIS" -> "MODEL_SEMENTARA"
         [] jalan = "GALAT" -> IF lagi.masuk THEN "MODEL_PERMANEN" ELSE "LANGGANAN_BELUM_MASUK"
         [] jalan = "RUSAK" -> "MODEL_PERMANEN"
         [] jalan = "SAH" -> "JAWABAN"
Jalan == {"TAK_JALAN", "HABIS", "GALAT", "RUSAK", "SAH"}

PanggilModel(p) == Luang(p) /\ \E o \in Baris("panggilan") \ Dipesan :
  /\ db[o].hasil = "KLIEN"
  /\ \E h \in IF db[o].mode = "API_ANTHROPIC" THEN PanggilApi
              ELSE {PanggilCli(c, j, l) : c \in StatusCli, j \in Jalan, l \in StatusCli} :
       Ganti(p, o, {}, [hasil |-> h])

PermintaanSetelan(p) ==
  \/ UbahModePenyedia(p) \/ UbahModelPenyedia(p) \/ PasangKredensialPenyedia(p) \/ HapusKredensialPenyedia(p)
  \/ GantiInduk(p) \/ MatikanSaklar(p) \/ HidupkanSaklar(p) \/ SiapkanKlienRun(p) \/ PanggilModel(p)

-------------------------------------------------------------------------------

\* The settings of the rows b are what the ledger tells: the mode, the model, the
\* effort and the key of the last event about each, the key and its last
\* characters together.
AcaraTerakhir(b, S) == {b[e] : e \in Terakhir({x \in Isi(b, "setelan_event") : b[x].aksi \in S})}
SesuaiAcara(b) ==
  LET st == BarisTunggal(b)
      mode == AcaraTerakhir(b, {"UBAH_MODE"})
      model == AcaraTerakhir(b, {"UBAH_MODEL"}) IN
  /\ st.mode \in IF mode = {} THEN {"MATI"} ELSE {e.mode : e \in mode}
  /\ <<st.model, st.effort>> \in
       IF model = {} THEN {<<Kosong, Kosong>>} ELSE {<<e.model, e.effort>> : e \in model}
  /\ st.akhiran = IF st.kunci = Kosong THEN Kosong ELSE st.kunci[2][2]
  /\ \A e \in AcaraTerakhir(b, {"PASANG_KREDENSIAL", "HAPUS_KREDENSIAL"}) :
       IF e.aksi = "PASANG_KREDENSIAL" THEN st.akhiran = e.akhiran ELSE st.kunci = Kosong

\* The row is what its ledger tells, through any order of changes and failures.
SetelanTercatat == TUNGGAL \notin tumpang => SesuaiAcara(db)

\* A key with these last characters was installed.
Terpasang(b, akhiran) ==
  \E e \in Isi(b, "setelan_event") : b[e].aksi = "PASANG_KREDENSIAL" /\ b[e].akhiran = akhiran

\* A call through a provider that was chosen, of a model that is allowed.
Wenang(b, r) ==
  /\ r.mode # "MATI" /\ r.model \notin AwalanDitolak
  /\ IF r.mode = "API_ANTHROPIC" THEN Terpasang(b, r.kunci[2]) ELSE r.kunci = Kosong

\* Whatever administrators change while workers work, a model that answered is
\* one of those allowed, through a provider chosen, and the API was called with
\* a key the ledger knows (K-4; ai/penyedia.py on the only reader of the key).
PanggilanSah == \A o \in Baris("panggilan") : db[o].hasil = "JAWABAN" => Wenang(db, db[o])

\* Administrators and workers: the settings are those of the ledger, and no call
\* is made with other ones (ai_penyedia_sql.py, ai/penyedia.py).
PenyediaTerkendali == SetelanTercatat /\ PanggilanSah
===============================================================================
