------------------------------- MODULE BasisData -------------------------------
(***************************************************************************)
(* The components that share the database without a protocol of their own: *)
(* the registers of the redesign study, the master data and the catalogue, *)
(* in one table space.  Requests of all of them overlap, and a deletion in *)
(* one meets the foreign keys of another.                                  *)
(***************************************************************************)
EXTENDS Pemeliharaan, Sitasi, Setelan, Bacaan

\* The tables that may have rows at the start.
TabelAwal == {"sekolah", "jabatan", "partisipan", "sumber", "versi", "induk", "konteks", "versi_metode",
  "jenjang", "mapel", "sesi", "cakupan", "sme_panel", "ts_penugasan", "tp", "dt", "ut", "kode_orang",
  "masalah", "proses", "langkah", "responden", "dcs_item", "wcp_item", "boot", "skema", "konfirmasi",
  "run", "usulan"}

\* alembic_version has one row, and is there before a container starts.
ASSUME BasisDataAssumption == \A m \in Muatan :
  /\ \A t \in DOMAIN m.tabel : m.tabel[t][1] > 0 =>
       /\ t \in TabelAwal
       /\ t \in {"konfirmasi", "proses"} => {"masalah", "sekolah"} \subseteq DOMAIN m.tabel
            /\ m.tabel.masalah[1] > 0 /\ m.tabel.sekolah[1] > 0
       /\ t = "langkah" => "proses" \in DOMAIN m.tabel /\ m.tabel.proses[1] > 0
       /\ t = "dt" => "tp" \in DOMAIN m.tabel /\ m.tabel.tp[1] > 0
       /\ t \in {"versi", "run"} => "sumber" \in DOMAIN m.tabel /\ m.tabel.sumber[1] > 0
       /\ t = "usulan" => "run" \in DOMAIN m.tabel /\ m.tabel.run[1] > 0
  /\ "skema" \in DOMAIN m.tabel =>
       m.tabel.skema = <<1, 1>> /\ "boot" \in DOMAIN m.tabel /\ m.tabel.boot[1] > 0
  /\ "setelan_event" \in DOMAIN m.tabel => "setelan" \in DOMAIN m.tabel /\ m.tabel.setelan[2] > 0

\* Main duties and details, with the names that requests and the file give them.
NamaKatalog == Kunci \cup {x.tp : x \in KatalogBaku} \cup {x.dt : x \in Berdetil}
BentukTp == [nama : NamaKatalog, jabatan : SUBSET ({"jabatan"} \X Nat)]
BentukDt == [nama : NamaKatalog, tp : {"tp"} \X Nat, jabatan : SUBSET ({"jabatan"} \X Nat)]

\* The settings, their events, and runs.
KolomSetelan == [mode : AiPenyediaMode, model : AtauKosong(ModelAi \ AwalanDitolak),
  effort : AtauKosong(EffortAi), kunci : AtauKosong(IndukSah \X Sandi), akhiran : AtauKosong(Kunci)]
Acara == [aksi : {"UBAH_MODE", "UBAH_MODEL", "PASANG_KREDENSIAL", "HAPUS_KREDENSIAL"},
  mode : AtauKosong(AiPenyediaMode), model : AtauKosong(ModelAi), effort : AtauKosong(EffortAi),
  akhiran : AtauKosong(Kunci)]
Fungsi == {"P01", "P04", "P09", "P10"}
IdSumber == ({"sumber"} \X Nat) \cup ({"klaim", "keputusan"} \X Wacana) \cup ({"versi"} \X ({"versi"} \X Nat))
Sidik == {"SHA-256"} \X Wacana
StatusRun == {"MENUNGGU", "LOLOS", "EVIDENCE_GAP", "DIBLOKIR", "KARANTINA"}
KodeGerbang == {"SUMBER_KOSONG", "METADATA_SUMBER_HILANG", "JENIS_DITOLAK", "PII_DITEMUKAN"}
KodeKarantina == {"MODEL_MENOLAK", "KELUARAN_TERPOTONG", "JSON_TIDAK_SAH", "SKEMA_TIDAK_SAH", "PII_KELUARAN",
  "SUMBER_FIKTIF", "KUTIPAN_KOSONG", "KUTIPAN_TIDAK_DITEMUKAN", "HASH_TIDAK_COCOK", "TANPA_SITASI", "GAP_TANPA_ALASAN"}
KodeRun == KodeGerbang \cup KodeKarantina
IdJawaban == IdSumber \cup {Karangan}
IsiJawaban == [fakta : SUBSET [fakta : Potongan, sumber : IdJawaban, span : Potongan]] \cup Isi04
  \cup [temuan : Potongan] \cup Isi10
BentukKeluaran == [refs : SUBSET [id : IdJawaban, hash : Sidik], spans : SUBSET [id : IdJawaban, span : Potongan],
  isi : IsiJawaban]
BentukRun == [fungsi : Fungsi, sumber : SUBSET [id : IdSumber, hash : Sidik], status : StatusRun,
  kode : SUBSET KodeRun, masukan : SUBSET [id : IdSumber, hash : Sidik, teks : Wacana],
  keluaran : AtauKosong(BentukKeluaran)]

\* The rows that wait for a run, and calls.
KodeAturan == {"SPAN_FAKTA_TIDAK_DITEMUKAN", "ATURAN_P04_DILANGGAR", "LEBIH_DARI_SATU_PERTANYAAN"}
HasilUsulan == {"EVIDENCE_GAP", "MANUAL", "USULAN_DIBUAT"}
BentukUsulan == [fungsi : Fungsi, sasaran : ({"sumber"} \X Nat) \cup {"kasus"}, run : {"run"} \X Nat,
  hasil : AtauKosong(HasilUsulan), kode : SUBSET (KodeRun \cup KodeAturan), isi : AtauKosong(IsiJawaban)]
HasilDraf == {"MANUAL", "NEED_FACT", "VERSI_DIBUAT"}
BentukPermintaan == [run : {"run"} \X Nat, hasil : AtauKosong(HasilDraf)]
HasilPanggilan == {"PENYEDIA_MATI", "PENYEDIA_TIDAK_TERSEDIA", "KUNCI_MODEL_TIDAK_ADA", "KLIEN", "JAWABAN",
  "MODEL_SEMENTARA", "MODEL_PERMANEN", "LANGGANAN_BELUM_MASUK"}
BentukPanggilan == [mode : AiPenyediaMode, model : ModelAi \cup {AI_MODEL_BAWAAN}, hasil : HasilPanggilan,
  kunci : AtauKosong(Sandi)]

\* The changes of a row of settings, and of a run.
PerubahanSetelan == UNION {{[k \in S |-> d[k]] : d \in KolomSetelan} :
  S \in SUBSET {"mode", "model", "effort", "kunci", "akhiran"}}
NilaiRun == StatusRun \cup (SUBSET KodeRun) \cup AtauKosong(BentukKeluaran)
KolomVonis == {"status", "kode", "masukan", "keluaran"}

\* The marks are no rows, and NULL is none of them.
ASSUME TandaBukanBaris ==
  /\ {[tahap |-> t, head |-> h] : t \in {"migrasi", "benih", "layani"}, h \in Rilis} \cap {Tiada, Bekas} = {}
  /\ {[tahap |-> t] : t \in {"benih", "layani"}} \cap {Tiada, Bekas} = {}
  /\ {[revisi |-> h] : h \in Rilis} \cap {Tiada, Bekas} = {}
  /\ {[jawab |-> j] : j \in {Tiada, "ok", "peringatan"}} \cap {Tiada, Bekas} = {}
  /\ [ada |-> TRUE] \notin {Tiada, Bekas}
  /\ Tiada \notin {"ok", "peringatan"}
  /\ {Tiada, Bekas} \cap (BentukTp \cup BentukDt) = {}
  /\ {Tiada, Bekas} \cap (Acara \cup PerubahanSetelan \cup BentukRun \cup BentukUsulan
       \cup BentukPermintaan \cup BentukPanggilan) = {}
  /\ \A S \in SUBSET KolomVonis : {Tiada, Bekas} \cap [S -> NilaiRun] = {}
  /\ {Tiada, Bekas} \cap ([jabatan : SUBSET ({"jabatan"} \X Nat)] \cup [{} -> Teks]) = {}
  /\ \A m \in Muatan : \A t \in DOMAIN m.tabel : Kosong \notin {t} \X (1..m.tabel[t][2])
  /\ Kosong \notin BentukKeluaran

\* The columns in which the tables keep their links as rows.
Relasi == RelasiKatalog

Skema(b) ==
  SkemaRedesain(b) /\ SkemaInduk(b) /\ SkemaKatalog(b)

-------------------------------------------------------------------------------
(* Rows that are there at the start, made by the same requests before.  An   *)
(* address that is none of Akun is Kosong.                                   *)

BarisPertama(t) == IF t \in DOMAIN muat.tabel /\ muat.tabel[t][1] > 0 THEN <<t, 1>> ELSE Kosong
Teks0 == CHOOSE t \in Teks : TRUE
UrutKunci == CHOOSE f \in [1..Cardinality(Kunci) -> Kunci] :
  \A i, j \in DOMAIN f : i # j => f[i] # f[j]

\* There are keys for the rows at the start.
ASSUME KunciCukup == \A m \in Muatan : \A t \in {"tp", "dt"} \cap DOMAIN m.tabel :
  \A i \in 1..m.tabel[t][1] : UrutKunci[i] \in Kunci

\* The i-th source has a text of i tokens.
BarisAwalSumber(i) == LET t == CHOOSE x \in Naskah : Len(x) = i IN
  [jenis |-> CHOOSE j \in JenisIzin : TRUE, teks |-> t, hash |-> Hash(t), izin |-> TRUE, ganti |-> Kosong]

\* There are texts for the sources at the start, the first without personal data.
ASSUME NaskahCukup == \A m \in Muatan : "sumber" \in DOMAIN m.tabel => \A i \in 1..m.tabel.sumber[1] :
  \E t \in Naskah : Len(t) = i /\ (i = 1 => Temuan(BarisAwalSumber(1).teks, {}) = {})
    /\ BarisAwalSumber(i) \notin {Tiada, Bekas}

BarisAwal(o) ==
  CASE o[1] = "sekolah" -> [npsn |-> Kosong, isi |-> Teks0]
    [] o[1] = "jabatan" -> [kode |-> UrutKunci[o[2]], nama |-> UrutKunci[o[2]]]
    [] o[1] = "partisipan" -> [subjek |-> Kosong, email |-> Kosong, isi |-> Teks0]
    [] o[1] = "sumber" -> BarisAwalSumber(o[2])
    [] o[1] = "versi" -> LET s == BarisAwalSumber(1) IN
         [run |-> Kosong, teks |-> s.teks,
           kutipan |-> {[sumber |-> <<"sumber", 1>>, hash |-> s.hash, span |-> s.teks]}]
    [] o[1] = "run" -> LET s == BarisAwalSumber(1) IN
         [fungsi |-> "P01", sumber |-> {[id |-> <<"sumber", 1>>, hash |-> s.hash]}, status |-> "DIBLOKIR",
           kode |-> {"PII_DITEMUKAN"}, masukan |-> {}, keluaran |-> Kosong]
    [] o[1] = "usulan" -> [fungsi |-> "P01", sasaran |-> <<"sumber", 1>>, run |-> <<"run", 1>>,
         hasil |-> "MANUAL", kode |-> {"PII_DITEMUKAN"}, isi |-> Kosong]
    [] o[1] = "induk" -> [kunci |-> CHOOSE k \in IndukSah : TRUE]
    [] o[1] \in {"konteks", "versi_metode", "jenjang", "mapel"} -> [kode |-> UrutKunci[o[2]], isi |-> Teks0]
    [] o[1] = "sesi" -> [kode |-> UrutKunci[o[2]], sekolah |-> Kosong, masalah |-> {}]
    [] o[1] = "cakupan" -> [kode |-> UrutKunci[o[2]], jabatan |-> Kosong, pic |-> Kosong]
    [] o[1] = "sme_panel" -> [jabatan |-> UrutKunci[o[2]], koordinator |-> Kosong, isi |-> Teks0]
    [] o[1] = "ts_penugasan" -> [partisipan |-> UrutKunci[o[2]], aktif |-> TRUE]
    [] o[1] = "tp" -> [nama |-> UrutKunci[o[2]], jabatan |-> {<<"jabatan", 1>>}]
    [] o[1] = "dt" -> [nama |-> UrutKunci[o[2]], tp |-> <<"tp", 1>>, jabatan |-> {<<"jabatan", 1>>}]
    [] o[1] = "ut" -> [kode |-> UrutKunci[o[2]], jabatan |-> <<"jabatan", 1>>, dt |-> Kosong, tp |-> <<"tp", 1>>]
    [] o[1] = "kode_orang" -> [partisipan |-> Kosong, isi |-> Kosong]
    [] o[1] = "masalah" -> [sekolah |-> BarisPertama("sekolah"), isi |-> Teks0]
    [] o[1] = "proses" -> [masalah |-> <<"masalah", 1>>, sekolah |-> <<"sekolah", 1>>]
    [] o[1] = "langkah" -> [proses |-> <<"proses", 1>>, isi |-> Teks0]
    [] o[1] = "responden" -> [partisipan |-> <<"partisipan", o[2]>>]
    [] o[1] \in TabelButir -> [kode |-> UrutKunci[o[2]], bagian |-> Teks0, isi |-> Teks0]
    [] o[1] = "boot" -> [tahap |-> "layani", head |-> 0]
    [] o[1] = "skema" -> [revisi |-> 0]
    [] o[1] = "konfirmasi" ->
         [masalah |-> <<"masalah", 1>>, sekolah |-> <<"sekolah", 1>>, tampil |-> o[2] = 1]

Init ==
  /\ muat \in Muatan
  /\ db = [o \in UNION {Rak(t) : t \in DOMAIN muat.tabel} |->
       IF o[2] <= muat.tabel[o[1]][1] THEN BarisAwal(o) ELSE Tiada]
  /\ riwayat = [o \in Obyek |-> IF o[1] \in TabelRedesain
       THEN [TanpaRiwayat EXCEPT !.akhir = db[o]] ELSE TanpaRiwayat]
  /\ rencana = [p \in Proses |-> Tiada]
  /\ tumpang = {}

\* The commit of a request, with what the schema does on deletion.
Simpan(p) ==
  /\ rencana[p] # Tiada /\ ~Setengah(p) /\ ~Menjawab(p)
  /\ TargetAda(p) /\ LinkTunggal(p, Relasi)
  /\ LET baru == Ikut(Lepas(Gabungan(p, Relasi), SetNull), KursiPanel) IN
     Skema(baru) /\ Tulis(p, baru, TabelRedesain)

\* A thread takes a request when it has none, or goes on with half a page.
Layanan(p) == (Luang(p) \/ Setengah(p)) /\
  \/ PermintaanRedesain(p) \/ PermintaanInduk(p) \/ PermintaanKatalog(p) \/ PermintaanSitasi(p)
  \/ PermintaanSetelan(p) \/ PermintaanBacaan(p) \/ PermintaanPemeliharaan(p)

Next == Mulai \/ \E p \in Proses :
  (Melayani /\ Layanan(p)) \/ Perawatan(p) \/ Simpan(p) \/ Gagal(p)

Spec == Init /\ [][Next]_vars

-------------------------------------------------------------------------------
(* Properties of the registers together.                                     *)

\* The rules about one row that a PATCH of some columns must keep, though it is
\* checked by code and by no constraint: _validasi_uji, the suggestion of an
\* assessment, one subject of one participant, the coordinator, the minutes.
BarisSah == UjiBerdasar /\ PenilaianUtuh /\ SubjekSatu /\ KoordinatorAnggota /\ MenitWajar

\* The rules about a row and those it refers to, when it is written: processes
\* and corrections of persons (proses_sql.py, koreksi_sql.py), the catalogue.
RujukanSejalan == TertulisSelaras /\ TurunanSejalan

-------------------------------------------------------------------------------
(* The inductive invariant of BarisSah, RujukanSejalan, RiwayatLengkap,      *)
(* SkemaTerjaga, BootMenjaga and TulisanBersyarat: of the rows b with        *)
(* histories h, where T were overtaken; of what the dumps would restore; of  *)
(* the starts; and of each plan.                                             *)

RiwayatSah(b, h, T) == \A o \in Obyek \ T : o[1] \in TabelRedesain /\ b[o] # Bekas =>
  h[o].utuh /\ Sama(b, h[o].akhir, b[o])

\* The columns of a row, overtaken or not.
KolomDinilai == KriteriaPenilaian \cup DOMAIN BelumDiputuskan
TabelBerbentuk == {"proses", "langkah", "tp", "dt", "ut"}
Bentuk(o, r) ==
  /\ o[1] = "proses" => "masalah" \in DOMAIN r /\ r.masalah \in Rak("masalah")
  /\ o[1] = "langkah" => "proses" \in DOMAIN r /\ r.proses \in Rak("proses")
  /\ o[1] = "tp" => r \in BentukTp
  /\ o[1] = "dt" => r \in BentukDt /\ r.tp \in Rak("tp")
  /\ o[1] = "ut" => {"dt", "jabatan"} \subseteq DOMAIN r /\ r.dt \in AtauKosong(Rak("dt"))
KolomAda(b) ==
  /\ \A t \in TabelBerbentuk : \A o \in Isi(b, t) : Bentuk(o, b[o])
  /\ \A o \in Isi(b, "penilaian") : KolomDinilai \subseteq DOMAIN b[o]
  /\ \A o \in Isi(b, "partisipan") : "subjek" \in DOMAIN b[o]
  /\ \A o \in Isi(b, "sme_panel") : "koordinator" \in DOMAIN b[o]
  /\ \A o \in Rak("skema") : \E h \in Rilis : b[o] = [revisi |-> h]

AturanBaris(o, r) ==
  /\ o[1] = "alternatif" => AturanAlternatif(r)
  /\ o[1] = "penilaian" => Rapi(r)
  /\ o[1] = "ts_log" => Wajar(r)

Berkursi(b, o, t) == \E a \in Isi(b, "sme_panel_anggota") : b[a].panel = o /\ b[a].partisipan = t
KoordinatorSah(b, T) == \A o \in Isi(b, "sme_panel") \ T :
  b[o].koordinator = Kosong \/ Berkursi(b, o, b[o].koordinator)
SubjekSah(b) == \A o, c \in Isi(b, "partisipan") : b[o].subjek # Kosong =>
  b[o].subjek \in Akun /\ Nyata(b[b[o].subjek]) /\ (o # c => b[o].subjek # b[c].subjek)

KeadaanSah(b, h, T) ==
  /\ RiwayatSah(b, h, T) /\ KolomAda(b)
  /\ \A o \in Obyek \ T : Nyata(b[o]) => AturanBaris(o, b[o])
  /\ KoordinatorSah(b, T) /\ SubjekSah(b)

\* The starts follow each other, and the last one is the one that runs.
BootSah ==
  /\ \A o \in Rak("boot") : db[o] = Tiada \/
       \E t \in {"migrasi", "benih", "layani"}, h \in Rilis : db[o] = [tahap |-> t, head |-> h]
  /\ \A o, c \in Rak("boot") : db[c] # Tiada /\ o[2] < c[2] => db[o] # Tiada
  /\ Baris("boot") # {} => \E o \in Baris("boot") : \A c \in Baris("boot") : c[2] <= o[2]
  /\ Rak("skema") # {} => Baris("boot") # {}
  /\ Tahap = "benih" /\ Rak("skema") # {} => Revisi = HeadKode

\* The row a plan leaves when nothing it read has changed.
Jadi(r, o) == IF r.lihat[o] = Tiada THEN r.isi[o] ELSE Timpa(r.lihat[o], r.isi[o])

RencanaUtuh(r) ==
  /\ DOMAIN r.isi \subseteq DOMAIN r.lihat
  /\ \A s \in r.syarat : s \in DOMAIN r.lihat /\
       (r.lihat[s].obyek \in DOMAIN r.isi => r.lihat[r.lihat[s].obyek] = r.lihat[s].wujud)

RencanaBaris(r) == \A o \in DOMAIN r.isi : r.isi[o] # Bekas =>
  /\ o \notin tumpang => AturanBaris(o, Jadi(r, o))
  /\ Bentuk(o, Jadi(r, o))
  /\ o[1] = "penilaian" /\ r.lihat[o] = Tiada => KolomDinilai \subseteq DOMAIN r.isi[o]

\* The rows a plan has read, with what it writes.
Sesudah(r) == [c \in DOMAIN r.lihat |-> IF c \notin DOMAIN r.isi THEN r.lihat[c]
  ELSE IF r.isi[c] = Bekas THEN Bekas ELSE Jadi(r, c)]

\* Row o, with the columns of w, agrees with the rows in b it refers to.
RujukanSah(b, o, w) ==
  /\ o[1] = "proses" => w.masalah \in DOMAIN b /\ RujukanProses(b, w)
  /\ o[1] = "koreksi" /\ w.konfirmasi # Kosong =>
       /\ w.langkah \in Rak("langkah") \cap DOMAIN b /\ w.konfirmasi \in Rak("konfirmasi") \cap DOMAIN b
       /\ b[w.langkah].proses \in Rak("proses") \cap DOMAIN b
       /\ DalamKonfirmasi(b, w.langkah, w.konfirmasi)
  /\ o[1] = "dt" => w.tp \in DOMAIN b /\ JabatanSubset(b, w)
  /\ o[1] = "ut" => (w.dt # Kosong => w.dt \in DOMAIN b) /\ JabatanDiDt(b, w)

\* What is checked of the rows referred to was read, or is written with it.
Menyentuh(r, o) ==
  \/ r.lihat[o] = Tiada \/ o[1] \notin {"dt", "ut"}
  \/ o[1] = "dt" /\ DOMAIN r.isi[o] \cap {"tp", "jabatan"} # {}
  \/ o[1] = "ut" /\ DOMAIN r.isi[o] \cap {"dt", "jabatan"} # {}
RencanaRujukan(r) == \A o \in DOMAIN r.isi :
  /\ r.isi[o] # Bekas /\ Menyentuh(r, o) => RujukanSah(Sesudah(r), o, Jadi(r, o))
  /\ o[1] \in {"proses", "koreksi", "dt", "ut"} =>
       \A c \in DOMAIN r.isi : c[1] \notin {"sekolah", "sme_panel"}

\* A subject that is going to be written is of an account that nobody else has.
Mendaftar(r, o) == o[1] = "partisipan" /\ r.isi[o] # Bekas /\ r.lihat[o] = Tiada
RencanaSubjek(p, r) == \A o \in DOMAIN r.isi : o[1] = "partisipan" /\ r.isi[o] # Bekas =>
  /\ r.lihat[o] # Tiada => "subjek" \notin DOMAIN r.isi[o]
  /\ r.lihat[o] = Tiada =>
       LET e == r.isi[o].subjek IN
       /\ "subjek" \in DOMAIN r.isi[o] /\ e \in Akun /\ Nyata(db[e])
       /\ \A c \in Baris("partisipan") : db[c].subjek # e
       /\ \A c \in DOMAIN r.isi : c[1] = "partisipan" => c = o
       /\ \A q \in Proses \ {p} : rencana[q] # Tiada =>
            \A c \in DOMAIN rencana[q].isi : Mendaftar(rencana[q], c) => rencana[q].isi[c].subjek # e

\* Who takes a seat away writes its panel, and who appoints has seen the seat.
\* A seat that was read is as it was, or gone.
RencanaKursi(r) ==
  /\ \A a \in DOMAIN r.lihat : a \in Rak("sme_panel_anggota") /\ r.lihat[a] # Tiada =>
       db[a] \in {r.lihat[a], Bekas}
  /\ \A a \in DOMAIN r.isi : a[1] = "sme_panel_anggota" /\ r.lihat[a] # Tiada =>
       r.isi[a] = Bekas /\ r.lihat[a].panel \in DOMAIN r.isi
  /\ \A o \in DOMAIN r.isi : o[1] = "sme_panel" /\ r.isi[o] # Bekas =>
       IF "koordinator" \in DOMAIN r.isi[o]
       THEN LET t == r.isi[o].koordinator IN t # Kosong =>
              /\ r.lihat[o] # Tiada
              /\ \E a \in DOMAIN r.lihat \ DOMAIN r.isi :
                   /\ a \in Rak("sme_panel_anggota") /\ Nyata(r.lihat[a])
                   /\ r.lihat[a].panel = o /\ r.lihat[a].partisipan = t
       ELSE /\ r.lihat[o] # Tiada
            /\ \A a \in DOMAIN r.isi : a[1] = "sme_panel_anggota" /\ r.lihat[a] # Tiada =>
                 r.lihat[o].koordinator = Kosong \/ r.lihat[o].koordinator # r.lihat[a].partisipan

\* A request, while the server serves.
TabelPlatform == {"boot", "skema", "pulih", "cadangan", "akun"}
RencanaBiasa(p, r) ==
  /\ Melayani
  /\ \A o \in DOMAIN r.isi : o[1] \notin TabelPlatform
  /\ \A o, c \in DOMAIN r.isi : o[1] = "halaman" => c[1] = "halaman"
  /\ RencanaUtuh(r) /\ RencanaBaris(r) /\ RencanaRujukan(r) /\ RencanaSubjek(p, r) /\ RencanaKursi(r)

\* A restore that has not answered yet, each in its own row.
RencanaPulih(p, r) ==
  /\ Melayani /\ r.syarat = {}
  /\ \E o \in Rak("pulih") : DOMAIN r.isi = {o} /\ db[o] = [jawab |-> Tiada]
  /\ \A q \in Proses \ {p} : rencana[q] # Tiada => DOMAIN rencana[q].isi \cap DOMAIN r.isi = {}

\* The start, which is alone with the database.
TabelBenih == {"konteks", "versi_metode", "cakupan", "kode_orang", "masalah", "jabatan", "tp", "dt", "ut"}
  \cup TabelButir
BarisBenih(o, u) ==
  /\ o[1] \in TabelBenih
  /\ o[1] \in TabelButir => Baris(o[1]) = {}
  /\ Nyata(db[o]) => o[1] \in {"tp", "dt"} /\ \E J \in SUBSET Jabatan :
       u = Beda(o, [jabatan |-> db[o].jabatan \cup J])
RencanaMulai(p, r, t) ==
  /\ \A q \in Proses \ {p} : rencana[q] = Tiada
  /\ r.syarat = {} /\ DOMAIN r.isi \subseteq DOMAIN r.lihat
  /\ \A o \in DOMAIN r.lihat : r.lihat[o] = db[o]
  /\ Baris("boot") # {} /\ StartTerakhir \in DOMAIN r.isi /\ r.isi[StartTerakhir] = [tahap |-> t]
RencanaUpgrade(p, r) ==
  /\ Tahap = "migrasi" /\ RencanaMulai(p, r, "benih")
  /\ DOMAIN r.isi = {StartTerakhir} \cup Rak("skema")
  /\ \A o \in Rak("skema") : r.isi[o] = [revisi |-> HeadKode]
RencanaBenih(p, r) ==
  /\ Tahap = "benih" /\ RencanaMulai(p, r, "layani")
  /\ \A o \in DOMAIN r.isi \ {StartTerakhir} : BarisBenih(o, r.isi[o])
  /\ RencanaBaris(r) /\ RencanaRujukan(r)

RencanaSah(p) == LET r == rencana[p] IN r # Tiada =>
  RencanaBiasa(p, r) \/ RencanaPulih(p, r) \/ RencanaUpgrade(p, r) \/ RencanaBenih(p, r)

IndInv ==
  /\ muat \in Muatan /\ Obyek = UNION {Rak(t) : t \in DOMAIN muat.tabel} /\ DOMAIN rencana = Proses
  /\ KeadaanSah(db, riwayat, tumpang)
  /\ \A c \in Baris("cadangan") : db[c].utuh => KeadaanSah(Dipulihkan(c), RiwayatDipulihkan(c), tumpang)
  /\ BootSah /\ SkemaTerjaga
  /\ \A p \in Proses : RencanaSah(p)

-------------------------------------------------------------------------------
(* The inductive invariant of PenyediaTerkendali and DrafBersih, on top of   *)
(* IndInv: again of the rows b, of the rows in the dumps, and of each plan.  *)

\* The settings agree with the ledger unless they were overtaken, and a key that
\* is in the row was installed, overtaken or not.
SetelanSah(b, T) ==
  /\ TUNGGAL \in Rak("setelan") => b[TUNGGAL] # Bekas
  /\ TUNGGAL \notin T => SesuaiAcara(b)
  /\ LET st == BarisTunggal(b) IN
       st \in KolomSetelan /\ (st.kunci # Kosong => Terpasang(b, st.kunci[2][2]))

\* A client that was built, and a call that was made, were allowed.
Terlayani(b, r) ==
  r \in BentukPanggilan /\ (r.hasil \in {"KLIEN", "JAWABAN"} => Wenang(b, r))
PanggilanBerwenang(b) == \A o \in Isi(b, "panggilan") : Terlayani(b, b[o])

\* A source never changes; what was sent of it is its text, and was clean.
SumberSah(r) == r.teks \in Naskah /\ r.hash = Hash(r.teks)
LolosUji(r) == r.teks # <<>> /\ r.jenis \notin JenisTerlarang /\ Temuan(r.teks, {}) = {}
MasukanSah(b, fungsi, m) ==
  /\ m.teks \in Wacana /\ Temuan(m.teks, {}) = {}
  /\ m.id \in Rak("sumber") => Nyata(b[m.id]) /\ b[m.id].teks = m.teks /\ LolosUji(b[m.id])
  /\ fungsi = "P01" => m.id \in Rak("sumber")

\* What came back quotes its sources, and is clean.
Terkutip(b, s) == s.span # <<>> /\ s.span \in Wacana
  /\ (s.id \in Rak("sumber") => Nyata(b[s.id]) /\ Memuat(b[s.id].teks, s.span))
KeluaranSah(b, fungsi, k) ==
  /\ \A s \in k.spans : Terkutip(b, s) /\ (fungsi = "P01" => s.id \in Rak("sumber"))
  /\ fungsi = "P01" => \A f \in k.isi.fakta : f.span \in Potongan /\ Temuan(f.fakta, {}) = {}
  /\ fungsi = "P10" => k.isi.draf \in AtauKosong(Potongan)
       /\ (k.isi.draf # Kosong => Temuan(k.isi.draf, {}) = {})
RunSah(b, r) ==
  /\ r \in BentukRun
  /\ \A m \in r.masukan : MasukanSah(b, r.fungsi, m)
  /\ r.keluaran # Kosong => KeluaranSah(b, r.fungsi, r.keluaran)
  /\ r.status = "MENUNGGU" => r.keluaran = Kosong
  /\ r.status = "LOLOS" => r.keluaran # Kosong

\* What was made of it: the run that a row waits for is one of its function.
BerRun(b, o, fungsi) == o \in Rak("run") /\ Nyata(b[o]) /\ b[o].fungsi = fungsi
FaktaSah(b, isi) == \A f \in isi.fakta :
  /\ f.span # <<>> /\ f.sumber \in Isi(b, "sumber") /\ Memuat(b[f.sumber].teks, f.span)
  /\ Temuan(f.fakta, {}) = {}
UsulanBerbentuk(r) ==
  /\ r = [fungsi |-> r.fungsi, sasaran |-> r.sasaran, run |-> r.run, hasil |-> r.hasil, kode |-> r.kode, isi |-> r.isi]
  /\ r.fungsi \in Fungsi /\ r.sasaran \in IF r.fungsi = "P01" THEN {"sumber"} \X Nat ELSE {"kasus"}
  /\ r.hasil \in AtauKosong(HasilUsulan) /\ r.kode \subseteq KodeRun \cup KodeAturan
  /\ r.isi \in AtauKosong(IsiJawaban)
UsulanSah(b, r) == UsulanBerbentuk(r) /\ BerRun(b, r.run, r.fungsi)
  /\ (r.fungsi = "P01" /\ r.isi # Kosong => FaktaSah(b, r.isi))
PermintaanSah(b, r) == r \in BentukPermintaan /\ BerRun(b, r.run, "P10")
VersiSah(b, v) ==
  /\ v.teks # Kosong => v.kutipan # {} /\ v.teks \in Wacana /\ Temuan(v.teks, {}) = {}
  /\ \A k \in v.kutipan : k.sumber \in Isi(b, "sumber") /\ b[k.sumber].hash = k.hash
       /\ k.span # <<>> /\ Memuat(b[k.sumber].teks, k.span)
SitasiSah(b) ==
  /\ \A o \in Isi(b, "sumber") : SumberSah(b[o])
  /\ \A o \in Isi(b, "run") : RunSah(b, b[o])
  /\ \A o \in Isi(b, "usulan") : UsulanSah(b, b[o])
  /\ \A o \in Isi(b, "permintaan") : PermintaanSah(b, b[o])
  /\ \A o \in Isi(b, "versi") : VersiSah(b, b[o])

IsianSah(b, T) == SetelanSah(b, T) /\ PanggilanBerwenang(b) /\ SitasiSah(b)

\* A change of the settings: the event e, after all that were read, and the row.
\* lama and baru are the settings before and after it, if the plan is not stale.
LamaSetelan(r) == IF r.lihat[TUNGGAL] = Tiada THEN BarisBawaan ELSE r.lihat[TUNGGAL]
SesuaiAksi(a, lama, baru) ==
  /\ baru.mode = IF a.aksi = "UBAH_MODE" THEN a.mode ELSE lama.mode
  /\ <<baru.model, baru.effort>> =
       IF a.aksi = "UBAH_MODEL" THEN <<a.model, a.effort>> ELSE <<lama.model, lama.effort>>
  /\ IF a.aksi = "PASANG_KREDENSIAL"
     THEN baru.kunci # Kosong /\ baru.kunci[2][2] = a.akhiran /\ baru.akhiran = a.akhiran
     ELSE IF a.aksi = "HAPUS_KREDENSIAL" THEN baru.kunci = Kosong /\ baru.akhiran = Kosong
     ELSE baru.kunci = lama.kunci /\ baru.akhiran = lama.akhiran
Perubahan(r, e) == LET u == r.isi[TUNGGAL] IN
  /\ DOMAIN r.isi = {e, TUNGGAL} /\ r.isi[e] \in Acara /\ r.lihat[e] = Tiada
  /\ \A x \in Rak("setelan_event") : x \in DOMAIN r.lihat /\ (Nyata(r.lihat[x]) => x[2] < e[2])
  /\ IF r.lihat[TUNGGAL] = Tiada THEN u \in KolomSetelan
     ELSE u \in PerubahanSetelan
  /\ "kunci" \in DOMAIN u /\ u.kunci # Kosong =>
       r.isi[e].aksi = "PASANG_KREDENSIAL" /\ r.isi[e].akhiran = u.kunci[2][2]
  /\ SesuaiAksi(r.isi[e], LamaSetelan(r), Jadi(r, TUNGGAL))

\* A plan writes settings only so, the master key, and calls that are allowed.
RencanaPenyedia(r) == \A o \in DOMAIN r.isi :
  /\ o[1] \in {"setelan", "setelan_event"} => \E e \in Rak("setelan_event") : Perubahan(r, e)
  /\ o[1] = "induk" => r.lihat[o] # Tiada
       /\ (r.isi[o] # Bekas => \A k \in DOMAIN r.isi[o] : r.isi[o][k] \in AtauKosong(IndukSah))
RencanaPanggilan(r) == \A o \in DOMAIN r.isi : o[1] = "panggilan" =>
  IF r.lihat[o] = Tiada THEN Terlayani(db, r.isi[o])
  ELSE db[o] # Tiada /\ (r.isi[o] # Bekas /\ Nyata(db[o]) =>
         DOMAIN r.isi[o] \subseteq {"hasil"} /\ Wenang(db, db[o])
           /\ \A k \in DOMAIN r.isi[o] : r.isi[o][k] \in HasilPanggilan)

\* Rows about sources are added, and closed, but not changed.
Berpasangan(r, u, fungsi) == u.run \in DOMAIN r.isi \cap Rak("run") /\ r.lihat[u.run] = Tiada
  /\ r.isi[u.run].fungsi = fungsi
RunBerubah(o, u) ==
  /\ DOMAIN u \subseteq KolomVonis /\ u = [k \in DOMAIN u |-> u[k]] /\ Nyata(db[o])
  /\ "status" \in DOMAIN u /\ u.status \in StatusRun \ {"MENUNGGU"}
  /\ u.status = "LOLOS" => "keluaran" \in DOMAIN u /\ u.keluaran # Kosong
  /\ "kode" \in DOMAIN u => u.kode \in SUBSET KodeRun
  /\ "masukan" \in DOMAIN u => u.masukan = {}
  /\ "keluaran" \in DOMAIN u /\ u.keluaran # Kosong =>
       u.keluaran \in BentukKeluaran /\ KeluaranSah(db, db[o].fungsi, u.keluaran)
UsulanBerubah(o, u) == db[o] # Tiada /\ (u # Bekas /\ Nyata(db[o]) =>
  /\ DOMAIN u \subseteq {"hasil", "kode", "isi"}
  /\ "hasil" \in DOMAIN u => u.hasil \in HasilUsulan
  /\ "kode" \in DOMAIN u => u.kode \subseteq KodeRun \cup KodeAturan
  /\ "isi" \in DOMAIN u => u.isi \in IsiJawaban /\ (db[o].fungsi = "P01" => FaktaSah(db, u.isi)))
RencanaKutipan(r) == \A o \in DOMAIN r.isi :
  LET u == r.isi[o]
      baru == r.lihat[o] = Tiada IN
  /\ o[1] = "sumber" => baru /\ SumberSah(u)
  /\ o[1] = "versi" => baru /\ VersiSah(db, u)
  /\ o[1] = "run" => IF baru THEN RunSah(db, u) ELSE RunBerubah(o, u)
  /\ o[1] = "usulan" => IF baru
       THEN UsulanBerbentuk(u) /\ u.isi = Kosong /\ Berpasangan(r, u, u.fungsi)
       ELSE UsulanBerubah(o, u)
  /\ o[1] = "permintaan" => IF baru THEN u \in BentukPermintaan /\ Berpasangan(r, u, "P10")
       ELSE db[o] # Tiada /\ (u # Bekas => DOMAIN u \subseteq {"hasil"} /\ \A k \in DOMAIN u : u[k] \in HasilDraf)

\* The tables about which this speaks; a plan has their rows in their places.
TabelIsian == {"setelan", "setelan_event", "induk", "panggilan", "sumber", "run", "usulan", "permintaan",
  "versi"}
RencanaTempat(r) == \A o \in DOMAIN r.isi : o[1] \in TabelIsian => o \in Rak(o[1])
RencanaIsian(r) == RencanaPenyedia(r) /\ RencanaPanggilan(r) /\ RencanaKutipan(r)

\* The master key of the deployment is one of those there are, or none.
IndukSesuai == \A o \in Baris("induk") : DOMAIN db[o] = {"kunci"} /\ db[o].kunci \in AtauKosong(IndukSah)

IndIsian ==
  /\ IsianSah(db, tumpang) /\ IndukSesuai
  /\ \A c \in Baris("cadangan") : db[c].utuh => IsianSah(Dipulihkan(c), tumpang)
  /\ \A p \in Proses : rencana[p] # Tiada => RencanaTempat(rencana[p]) /\ RencanaIsian(rencana[p])
===============================================================================
