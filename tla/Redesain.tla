------------------------------- MODULE Redesain -------------------------------
(***************************************************************************)
(* The registers of the redesign study around the confirmations: themes,   *)
(* codes of persons, processes with their steps and corrections, evidence, *)
(* assessments, alternatives, sessions, coverage and method versions.      *)
(* Nothing of theirs is ever deleted; every write leaves a history entry.  *)
(*                                                                         *)
(* A column is here when a rule reads it; isi stands for the others.  Rows *)
(* refer to rows by object.  What a confirmation is made of is modelled in *)
(* Konfirmasi; here it is a row that exists or not.                        *)
(***************************************************************************)
EXTENDS Permintaan

CONSTANTS
  KolomPenilaian,       \* payloads of a new assessment
  UbahanPenilaian,      \* payloads of its PATCH
  Prioritas             \* PrioritasFinal

KriteriaPenilaian == {"indikasi", "status_bukti", "gap", "k1", "k2", "k3", "k4"}
ASSUME RedesainAssumption ==
  /\ \A d \in KolomPenilaian : DOMAIN d = KriteriaPenilaian
  /\ \A u \in UbahanPenilaian : DOMAIN u \subseteq KriteriaPenilaian
  /\ Kosong \notin Teks \cup Prioritas \cup {"P0", "P1", "P2", "P3", "K"}

TabelRedesain == {"konteks", "kode_orang", "masalah", "proses", "langkah", "koreksi",
  "bukti", "alternatif", "penilaian", "sesi", "cakupan", "versi_metode"}

-------------------------------------------------------------------------------
(* Themes and method versions: a key and text.  What a POST brings is the    *)
(* Create of its schema, what a PATCH may change its Update.                 *)

BarisKonteks == [kode : Kunci, isi : Teks]
KonteksBaru(p, d) ==
  /\ Bebas("konteks", "kode", d.kode, {})
  /\ Tambah(p, BarisBaru("konteks"), {}, d)
UbahIsiKonteks(p, o, u) == GantiBersyarat(p, o, {}, u)
KonteksCreate == BarisKonteks
KonteksUpdate == Sebagian([isi : Teks])
BuatKonteks(p) == Luang(p) /\ \E d \in KonteksCreate : KonteksBaru(p, d)
UbahKonteks(p) ==
  Luang(p) /\ \E o \in Baris("konteks") : \E u \in KonteksUpdate : UbahIsiKonteks(p, o, u)

BarisVersiMetode == [kode : Kunci, isi : Teks]
VersiMetodeBaru(p, d) == Tambah(p, BarisBaru("versi_metode"), {}, d)
UbahIsiVersiMetode(p, o, u) == GantiBersyarat(p, o, {}, u)
VersiMetodeCreate == BarisVersiMetode
VersiMetodeUpdate == Sebagian(BarisVersiMetode)
BuatVersiMetode(p) == Luang(p) /\ \E d \in VersiMetodeCreate : VersiMetodeBaru(p, d)
UbahVersiMetode(p) ==
  Luang(p) /\ \E o \in Baris("versi_metode") : \E u \in VersiMetodeUpdate : UbahIsiVersiMetode(p, o, u)

-------------------------------------------------------------------------------
(* Codes of persons: one for each participant, made at first use.            *)

BarisKodeOrang == [partisipan : AtauKosong(Baris("partisipan")), isi : AtauKosong(Teks)]

\* untuk_partisipan: a code that exists is only read.  When another request
\* has made it first the insert fails in its savepoint and that one is read,
\* without a trace: Gagal.
UntukPartisipan(p, t) ==
  Bebas("kode_orang", "partisipan", t, {}) /\
    Tambah(p, BarisBaru("kode_orang"), {}, [partisipan |-> t, isi |-> Kosong])
KodeSaya(p) == Luang(p) /\ \E t \in Baris("partisipan") : UntukPartisipan(p, t)

KodeOrangBaru(p, d) ==
  Bebas("kode_orang", "partisipan", d.partisipan, {}) /\ Tambah(p, BarisBaru("kode_orang"), {}, d)
UbahIsiKodeOrang(p, o, u) == GantiBersyarat(p, o, {}, u)
KodeOrangCreate == {d \in BarisKodeOrang : d.isi # Kosong}
KodeOrangUpdate == Sebagian([isi : AtauKosong(Teks)])
BuatKodeOrang(p) == Luang(p) /\ \E d \in KodeOrangCreate : KodeOrangBaru(p, d)
UbahKodeOrang(p) ==
  Luang(p) /\ \E o \in Baris("kode_orang") : \E u \in KodeOrangUpdate : UbahIsiKodeOrang(p, o, u)

-------------------------------------------------------------------------------
(* Problems: Konfirmasi has their statuses; here the school they belong to.  *)

BarisMasalah == [sekolah : AtauKosong(Baris("sekolah")), isi : Teks]
MasalahBaru(p, d) == Tambah(p, KodeBaru("masalah"), {}, d)
UbahIsiMasalah(p, o, u) == GantiBersyarat(p, o, {}, u)
MasalahCreate == BarisMasalah
MasalahUpdate == Sebagian(BarisMasalah)
BuatMasalah(p) == Luang(p) /\ \E d \in MasalahCreate : MasalahBaru(p, d)
UbahMasalah(p) ==
  Luang(p) /\ \E o \in Baris("masalah") : \E u \in MasalahUpdate : UbahIsiMasalah(p, o, u)

-------------------------------------------------------------------------------
(* Processes and their steps.                                                *)

\* _validasi_rujukan: a problem that has a school has processes of that school.
RujukanProses(b, r) == b[r.masalah].sekolah \in {Kosong, r.sekolah}

BarisProses == [masalah : Baris("masalah"), sekolah : Baris("sekolah")]
ProsesBaru(p, d) ==
  /\ RujukanProses(db, d)
  /\ Tambah(p, KodeBaru("proses"), {d.masalah}, d)

\* Mutant: the rule sees only what the PATCH names, not the merged row.
UbahIsiProses_Payload(p, o, u) ==
  /\ DOMAIN u = {"masalah", "sekolah"} => RujukanProses(db, u)
  /\ GantiBersyarat(p, o, {db[o].masalah}, u)

UbahIsiProses(p, o, u) ==
  LET r == Timpa(db[o], u) IN
  /\ DOMAIN u # {} => RujukanProses(db, r)
  /\ GantiBersyarat(p, o, {r.masalah}, u)
ProsesCreate == BarisProses
ProsesUpdate == Sebagian(BarisProses)
BuatProses(p) == Luang(p) /\ \E d \in ProsesCreate : ProsesBaru(p, d)
UbahProses(p) == Luang(p) /\ \E o \in Baris("proses") : \E u \in ProsesUpdate : UbahIsiProses(p, o, u)

BarisLangkah == [proses : Baris("proses"), isi : Teks]
TambahLangkah(p, d) == Tambah(p, KodeBaru("langkah"), {d.proses}, d)
UbahIsiLangkah(p, o, u) == GantiBersyarat(p, o, {}, u)
LangkahCreate == BarisLangkah
LangkahUpdate == Sebagian([isi : Teks])
BuatLangkah(p) == Luang(p) /\ \E d \in LangkahCreate : TambahLangkah(p, d)
UbahLangkah(p) ==
  Luang(p) /\ \E o \in Baris("langkah") : \E u \in LangkahUpdate : UbahIsiLangkah(p, o, u)

\* The problem a step belongs to.
MasalahLangkah(b, l) == b[b[l].proses].masalah

-------------------------------------------------------------------------------
(* Corrections of a step, by the team or by the person asked.                *)

\* A confirmation of the caller whose conjecture has been shown.
KonfirmasiMilik == {k \in Baris("konfirmasi") : db[k].tampil}

DalamKonfirmasi(b, l, k) ==
  /\ b[k].masalah = MasalahLangkah(b, l)
  /\ b[k].sekolah = b[b[l].proses].sekolah

SimpanKoreksi(p, l, k, baca) ==
  Tambah(p, BarisBaru("koreksi"), baca, [langkah |-> l, konfirmasi |-> k])
KoreksiTim(p, l) == SimpanKoreksi(p, l, Kosong, {l, db[l].proses})
KoreksiPengisi(p, l, k) ==
  DalamKonfirmasi(db, l, k) /\ SimpanKoreksi(p, l, k, {l, db[l].proses, k})
\* The confirmation that a correction names; the team names none.
KoreksiCreate == AtauKosong(KonfirmasiMilik)
BuatKoreksi(p) == Luang(p) /\ \E l \in Baris("langkah"), k \in KoreksiCreate :
  IF k = Kosong THEN KoreksiTim(p, l) ELSE KoreksiPengisi(p, l, k)

-------------------------------------------------------------------------------
(* Evidence.                                                                 *)

\* _validasi_rujukan: a step named is a step of a process of the problem.
RujukanBukti(r) == r.langkah # Kosong => MasalahLangkah(db, r.langkah) = r.masalah
BacaBukti(r) == IF r.langkah = Kosong THEN {} ELSE {r.langkah, db[r.langkah].proses}

BarisBukti == [masalah : Baris("masalah"), langkah : AtauKosong(Baris("langkah")), isi : Teks]
BuktiBaru(p, d) == RujukanBukti(d) /\ Tambah(p, KodeBaru("bukti"), BacaBukti(d), d)
UbahIsiBukti(p, o, u) ==
  LET r == Timpa(db[o], u) IN
  /\ "langkah" \in DOMAIN u => RujukanBukti(r)
  /\ GantiBersyarat(p, o, IF "langkah" \in DOMAIN u THEN BacaBukti(r) ELSE {}, u)
BuktiCreate == BarisBukti
BuktiUpdate == Sebagian([langkah : AtauKosong(Baris("langkah")), isi : Teks])
BuatBukti(p) == Luang(p) /\ \E d \in BuktiCreate : BuktiBaru(p, d)
UbahBukti(p) ==
  Luang(p) /\ \E o \in Baris("bukti") : \E u \in BuktiUpdate :
    UbahIsiBukti(p, o, u)

-------------------------------------------------------------------------------
(* Alternatives.                                                             *)

OpsiAlternatif == {"Pertahankan", "Alihkan tugas bersyarat"}
StatusTelaah == {"Belum ditelaah", "Uji disetujui terpisah"}

AturanAlternatif(r) ==
  /\ r.opsi = "Alihkan tugas bersyarat" => r.penerima # Kosong
  /\ r.status = "Uji disetujui terpisah" => r.keputusan # Kosong /\ r.pemutus # Kosong

KolomAlternatif == [opsi : OpsiAlternatif, penerima : AtauKosong(Baris("jabatan")),
  status : StatusTelaah, keputusan : AtauKosong(Teks), pemutus : AtauKosong(Baris("kode_orang"))]
AlternatifBaru(p, d) == AturanAlternatif(d) /\ Tambah(p, KodeBaru("alternatif"), {}, d)

\* Mutant: the rules see what the PATCH names; the rest counts as filled in.
UbahIsiAlternatif_Payload(p, o, u) ==
  /\ {"opsi", "penerima"} \subseteq DOMAIN u =>
       (u.opsi = "Alihkan tugas bersyarat" => u.penerima # Kosong)
  /\ GantiBersyarat(p, o, {}, u)

UbahIsiAlternatif(p, o, u) == AturanAlternatif(Timpa(db[o], u)) /\ GantiBersyarat(p, o, {}, u)
AlternatifCreate == KolomAlternatif
AlternatifUpdate == Sebagian(KolomAlternatif)
BuatAlternatif(p) == Luang(p) /\ \E d \in AlternatifCreate : AlternatifBaru(p, d)
UbahAlternatif(p) ==
  Luang(p) /\ \E o \in Baris("alternatif") : \E u \in AlternatifUpdate : UbahIsiAlternatif(p, o, u)

-------------------------------------------------------------------------------
(* Assessments.                                                              *)

\* hitung_saran.
K == {"k1", "k2", "k3", "k4"}
HitungSaran(b) ==
  LET tinggi(k) == b[k] = "Tinggi"
      pasti == b.status_bukti = "Diperkuat untuk klaim" /\ b.gap = "Tidak"
               /\ b.indikasi = "Tidak terlihat" /\ \A k \in K : b[k] \notin {Kosong, "Belum tahu"}
  IN CASE b.indikasi = "Ada indikasi" -> "P0"
       [] b.indikasi # "Ada indikasi" /\ ~pasti -> "K"
       [] pasti /\ (tinggi("k1") \/ tinggi("k2") \/ (tinggi("k3") /\ tinggi("k4"))) -> "P1"
       [] OTHER -> IF tinggi("k3") \/ tinggi("k4") \/ Cardinality({k \in K : b[k] = "Sedang"}) >= 2
                   THEN "P2" ELSE "P3"

HitungUlang(r) == [r EXCEPT !.saran = HitungSaran(r)]

BelumDiputuskan == [saran |-> Kosong, prioritas |-> Kosong, alasan |-> Kosong,
  pemutus |-> Kosong, saran_keputusan |-> Kosong, status |-> "Belum ditelaah"]

\* One assessment a problem: checked, and guarded by the unique column.
PenilaianBaru(p, m, d) ==
  /\ Bebas("penilaian", "masalah", m, {})
  /\ Tambah(p, BarisBaru("penilaian"), {},
       HitungUlang(Gabung(Gabung(d, BelumDiputuskan), [masalah |-> m])))

UbahIsiPenilaian(p, o, u) == GantiBersyarat(p, o, {}, HitungUlang(Timpa(db[o], u)))

Putuskan(p, o, d) ==
  /\ d.pemutus \in Baris("kode_orang")
  /\ Ganti(p, o, {}, Gabung(d, [status |-> "Telah diputuskan", saran_keputusan |-> db[o].saran]))

SetStatus(p, o, s) == Ganti(p, o, {}, [status |-> s])

\* Read-only columns that a client sends along are dropped.
PenilaianCreate == KolomPenilaian
PenilaianUpdate == UbahanPenilaian
PenilaianPutuskan == [prioritas : Prioritas, alasan : Teks, pemutus : Baris("kode_orang")]
PenilaianStatus == {"Belum ditelaah", "Siap untuk telaah yayasan"}
BuatPenilaian(p) ==
  Luang(p) /\ \E m \in Baris("masalah") : \E d \in PenilaianCreate : PenilaianBaru(p, m, d)
UbahPenilaian(p) ==
  Luang(p) /\ \E o \in Baris("penilaian") : \E u \in PenilaianUpdate : UbahIsiPenilaian(p, o, u)
PutuskanPenilaian(p) ==
  Luang(p) /\ \E o \in Baris("penilaian") : \E d \in PenilaianPutuskan : Putuskan(p, o, d)
StatusPenilaian(p) ==
  Luang(p) /\ \E o \in Baris("penilaian") : \E s \in PenilaianStatus : SetStatus(p, o, s)

-------------------------------------------------------------------------------
(* Sessions with their problems, and coverage.                               *)

BarisSesi == [kode : Kunci, sekolah : AtauKosong(Baris("sekolah")), masalah : SUBSET Baris("masalah")]

\* The pair (kode_sesi, kode_orang) that will hold is nobody else's.
CekPasangan(r, selain) == Bebas("sesi", "kode", r.kode, selain)
SesiBaru(p, d) == CekPasangan(d, {}) /\ Tambah(p, BarisBaru("sesi"), {}, d)
UbahIsiSesi(p, o, u) == CekPasangan(Timpa(db[o], u), {o}) /\ GantiBersyarat(p, o, {}, u)
SesiCreate == BarisSesi
SesiUpdate == Sebagian(BarisSesi)
BuatSesi(p) == Luang(p) /\ \E d \in SesiCreate : SesiBaru(p, d)
UbahSesi(p) == Luang(p) /\ \E o \in Baris("sesi") : \E u \in SesiUpdate : UbahIsiSesi(p, o, u)

BarisCakupan == [kode : Kunci, jabatan : AtauKosong(Baris("jabatan")),
                 pic : AtauKosong(Baris("kode_orang"))]
CakupanBaru(p, d) ==
  /\ Bebas("cakupan", "kode", d.kode, {})
  /\ Tambah(p, BarisBaru("cakupan"), {}, d)
UbahIsiCakupan(p, o, u) == GantiBersyarat(p, o, {}, u)
CakupanJabatanCreate == BarisCakupan
CakupanJabatanUpdate == Sebagian([jabatan : AtauKosong(Baris("jabatan")),
  pic : AtauKosong(Baris("kode_orang"))])
BuatCakupan(p) == Luang(p) /\ \E d \in CakupanJabatanCreate : CakupanBaru(p, d)
UbahCakupan(p) ==
  Luang(p) /\ \E o \in Baris("cakupan") : \E u \in CakupanJabatanUpdate : UbahIsiCakupan(p, o, u)

-------------------------------------------------------------------------------
(* The constraints of the schema, and the requests.                          *)

FKRedesain == {<<"kode_orang", "partisipan", "partisipan">>, <<"masalah", "sekolah", "sekolah">>,
  <<"proses", "masalah", "masalah">>, <<"proses", "sekolah", "sekolah">>,
  <<"langkah", "proses", "proses">>, <<"koreksi", "langkah", "langkah">>,
  <<"koreksi", "konfirmasi", "konfirmasi">>, <<"bukti", "masalah", "masalah">>,
  <<"bukti", "langkah", "langkah">>, <<"alternatif", "penerima", "jabatan">>,
  <<"penilaian", "masalah", "masalah">>, <<"sesi", "sekolah", "sekolah">>,
  <<"cakupan", "jabatan", "jabatan">>}
SetNull == {<<"masalah", "sekolah", "sekolah">>, <<"sesi", "sekolah", "sekolah">>}

SkemaRedesain(b) ==
  /\ FKSah(b, FKRedesain)
  /\ \A t \in {"konteks", "versi_metode", "sesi", "cakupan"} : Unik(b, t, {"kode"})
  /\ Unik(b, "kode_orang", {"partisipan"})
  /\ Unik(b, "penilaian", {"masalah"})

PermintaanRedesain(p) ==
  \/ BuatKonteks(p) \/ UbahKonteks(p) \/ BuatVersiMetode(p) \/ UbahVersiMetode(p)
  \/ KodeSaya(p) \/ BuatKodeOrang(p) \/ UbahKodeOrang(p)
  \/ BuatMasalah(p) \/ UbahMasalah(p) \/ BuatProses(p) \/ UbahProses(p)
  \/ BuatLangkah(p) \/ UbahLangkah(p) \/ BuatKoreksi(p) \/ BuatBukti(p) \/ UbahBukti(p)
  \/ BuatAlternatif(p) \/ UbahAlternatif(p)
  \/ BuatPenilaian(p) \/ UbahPenilaian(p) \/ PutuskanPenilaian(p) \/ StatusPenilaian(p)
  \/ BuatSesi(p) \/ UbahSesi(p) \/ BuatCakupan(p) \/ UbahCakupan(p)

-------------------------------------------------------------------------------
(* Properties.  Objects in tumpang are left out: two requests that overlap   *)
(* do break these rules, as nothing locks the rows they read.                *)

\* A row and its history agree: the entries join up from the creation to the
\* row as it is, so any earlier state can be read back (riwayat_sql.catat).
RiwayatLengkap ==
  \A o \in Obyek \ tumpang : o[1] \in TabelRedesain /\ Nyata(db[o]) =>
    riwayat[o].utuh /\ Sama(db, riwayat[o].akhir, db[o])

\* An alternative that moves work names who receives it, one whose trial is
\* approved names the decision and who took it, through any sequence of PATCHes.
UjiBerdasar == \A o \in Baris("alternatif") \ tumpang : AturanAlternatif(db[o])

\* An assessment with the suggestion of its columns, and decided whole or not.
Rapi(r) ==
  /\ r.saran = HitungSaran(r)
  /\ \/ \A k \in {"prioritas", "alasan", "pemutus", "saran_keputusan"} : r[k] # Kosong
     \/ r.prioritas = Kosong /\ r.status # "Telah diputuskan"

\* The suggestion of an assessment is the one of its columns (penilaian_sql:
\* "dihitung ulang setiap tulis"), and a decided one holds the decision whole.
PenilaianUtuh == \A o \in Baris("penilaian") \ tumpang : Rapi(db[o])

\* A request writes a process with the school of its problem, and the correction
\* of a person asked with a confirmation of the same problem and school.
TertulisSelaras ==
  [][\A o \in Obyek \ tumpang' : Ditulis(o) /\ Nyata(db'[o]) /\ db'[o] # db[o] =>
       /\ o[1] = "proses" => RujukanProses(db', db'[o])
       /\ o[1] = "koreksi" /\ db'[o].konfirmasi # Kosong =>
            DalamKonfirmasi(db', db'[o].langkah, db'[o].konfirmasi)]_vars
===============================================================================
