--------------------------------- MODULE Induk ---------------------------------
(***************************************************************************)
(* The master data and what hangs on it: schools, levels, subjects, jobs,  *)
(* participants with their accounts at the identity provider, expert       *)
(* panels with their members and coordinator, and the time study.          *)
(*                                                                         *)
(* Only the redesign study has foreign keys to these rows; everything else *)
(* keeps their identifiers as plain text, so that a reference may outlive  *)
(* its row.  Such a column has its values in Kunci.                        *)
(***************************************************************************)
EXTENDS Permintaan

CONSTANTS
  Jam,                  \* minutes of a day at which work starts or ends
  Menit                 \* sums of the minutes of the activities of a day

-------------------------------------------------------------------------------
(* Schools, levels, subjects and jobs.                                       *)

BarisSekolah == [npsn : AtauKosong(Kunci), isi : Teks]
SekolahBaru(p, d) ==
  Bebas("sekolah", "npsn", d.npsn, {}) /\ Tambah(p, BarisBaru("sekolah"), {}, d)
UbahIsiSekolah(p, o, u) ==
  ("npsn" \in DOMAIN u => Bebas("sekolah", "npsn", u.npsn, {o})) /\ GantiBersyarat(p, o, {}, u)
SekolahCreate == BarisSekolah
SekolahUpdate == Sebagian(BarisSekolah)
BuatSekolah(p) == Luang(p) /\ \E d \in SekolahCreate : SekolahBaru(p, d)
UbahSekolah(p) ==
  Luang(p) /\ \E o \in Baris("sekolah") : \E u \in SekolahUpdate : UbahIsiSekolah(p, o, u)
HapusSekolah(p) == Luang(p) /\ \E o \in Baris("sekolah") : Buang(p, o)

BarisJenjang == [kode : Kunci, isi : Teks]
JenjangBaru(p, d) ==
  Bebas("jenjang", "kode", d.kode, {}) /\ Tambah(p, BarisBaru("jenjang"), {}, d)
UbahIsiJenjang(p, o, u) ==
  ("kode" \in DOMAIN u => Bebas("jenjang", "kode", u.kode, {o})) /\ GantiBersyarat(p, o, {}, u)
JenjangPendidikanCreate == BarisJenjang
JenjangPendidikanUpdate == Sebagian(BarisJenjang)
BuatJenjang(p) == Luang(p) /\ \E d \in JenjangPendidikanCreate : JenjangBaru(p, d)
UbahJenjang(p) ==
  Luang(p) /\ \E o \in Baris("jenjang") : \E u \in JenjangPendidikanUpdate : UbahIsiJenjang(p, o, u)
HapusJenjang(p) == Luang(p) /\ \E o \in Baris("jenjang") : Buang(p, o)

BarisMapel == [kode : Kunci, isi : Teks]
MapelBaru(p, d) == Bebas("mapel", "kode", d.kode, {}) /\ Tambah(p, BarisBaru("mapel"), {}, d)
UbahIsiMapel(p, o, u) ==
  ("kode" \in DOMAIN u => Bebas("mapel", "kode", u.kode, {o})) /\ GantiBersyarat(p, o, {}, u)
MataPelajaranCreate == BarisMapel
MataPelajaranUpdate == Sebagian(BarisMapel)
BuatMapel(p) == Luang(p) /\ \E d \in MataPelajaranCreate : MapelBaru(p, d)
UbahMapel(p) ==
  Luang(p) /\ \E o \in Baris("mapel") : \E u \in MataPelajaranUpdate : UbahIsiMapel(p, o, u)
HapusMapel(p) == Luang(p) /\ \E o \in Baris("mapel") : Buang(p, o)

BarisJabatan == [kode : Kunci, nama : Kunci]
JabatanBaru(p, d) ==
  Bebas("jabatan", "kode", d.kode, {}) /\ Tambah(p, BarisBaru("jabatan"), {}, d)
UbahIsiJabatan(p, o, u) ==
  ("kode" \in DOMAIN u => Bebas("jabatan", "kode", u.kode, {o})) /\ GantiBersyarat(p, o, {}, u)
JabatanCreate == BarisJabatan
JabatanUpdate == Sebagian(BarisJabatan)
BuatJabatan(p) == Luang(p) /\ \E d \in JabatanCreate : JabatanBaru(p, d)
UbahJabatan(p) ==
  Luang(p) /\ \E o \in Baris("jabatan") : \E u \in JabatanUpdate : UbahIsiJabatan(p, o, u)
HapusJabatan(p) == Luang(p) /\ \E o \in Baris("jabatan") : Buang(p, o)

-------------------------------------------------------------------------------
(* Participants.  The account <<"akun", i>> is the user of the i-th email    *)
(* address at the identity provider, which no transaction covers.            *)

Akun == Rak("akun")
BarisPartisipan == [subjek : AtauKosong(Akun), email : Akun, isi : Teks]

\* create_partisipan_user: refused when the address is registered.
BuatAkun(e) == db[e] = Tiada /\ db' = [db EXCEPT ![e] = [ada |-> TRUE]]

PartisipanBaru(p, d) == \E o \in BarisBaru("partisipan") :
  rencana' = [rencana EXCEPT ![p] =
    [lihat |-> [x \in {o} |-> Tiada], isi |-> [x \in {o} |-> d], syarat |-> {}]]

PartisipanCreate == [email : Akun, isi : Teks]
PartisipanUpdate == Sebagian(PartisipanCreate)

\* The account first, then the row; an answer that is lost on its way leaves
\* the account alone.
BuatPartisipan(p) == \E d \in PartisipanCreate :
  /\ Luang(p)
  /\ BuatAkun(d.email)
  /\ PartisipanBaru(p, [subjek |-> d.email, email |-> d.email, isi |-> d.isi]) \/ UNCHANGED rencana
  /\ UNCHANGED <<muat, riwayat, tumpang>>
UbahIsiPartisipan(p, o, u) == GantiBersyarat(p, o, {}, u)
UbahPartisipan(p) ==
  Luang(p) /\ \E o \in Baris("partisipan") : \E u \in PartisipanUpdate : UbahIsiPartisipan(p, o, u)
HapusPartisipan(p) == Luang(p) /\ \E o \in Baris("partisipan") : Buang(p, o)

-------------------------------------------------------------------------------
(* Expert panels: one a job, with members, one of them the coordinator.      *)

BarisPanel == [jabatan : Kunci, koordinator : AtauKosong(Kunci), isi : Teks]
PanelBaru(p, d) ==
  Bebas("sme_panel", "jabatan", d.jabatan, {}) /\ Tambah(p, BarisBaru("sme_panel"), {}, d)
SMEPanelCreate == {d \in BarisPanel : d.koordinator = Kosong}
SMEPanelUpdate == Sebagian([koordinator : AtauKosong(Kunci), isi : Teks])
BuatPanel(p) == Luang(p) /\ \E d \in SMEPanelCreate : PanelBaru(p, d)

Anggota(o) == {a \in Baris("sme_panel_anggota") : db[a].panel = o}
BarisAnggota(o, t) == {a \in Anggota(o) : db[a].partisipan = t}

UbahIsiPanel(p, o, u, baca) == GantiBersyarat(p, o, baca, u)

\* The route checks the coordinator against the members it read.
UbahPanel(p) == Luang(p) /\ \E o \in Baris("sme_panel") : \E u \in SMEPanelUpdate :
  LET tunjuk == "koordinator" \in DOMAIN u /\ u.koordinator # Kosong
      kursi == IF tunjuk THEN BarisAnggota(o, u.koordinator) ELSE {} IN
  /\ tunjuk => kursi # {}
  /\ UbahIsiPanel(p, o, u, kursi)
HapusPanel(p) == Luang(p) /\ \E o \in Baris("sme_panel") :
  Rencanakan(p, {}, [x \in {o} \cup Anggota(o) |-> Bekas])

SMEPanelAnggotaAdd == Kunci
TambahKursi(p, o, t) ==
  /\ BarisAnggota(o, t) = {}
  /\ Tambah(p, BarisBaru("sme_panel_anggota"), {}, [panel |-> o, partisipan |-> t])
TambahAnggota(p) ==
  Luang(p) /\ \E o \in Baris("sme_panel") : \E t \in SMEPanelAnggotaAdd : TambahKursi(p, o, t)

\* The member goes, and with it the coordinator if that is who it was.
LepasKursi(p, o, a) == Rencanakan(p, {}, [x \in {a, o} |->
  IF x = a THEN Bekas
  ELSE IF db[o].koordinator = db[a].partisipan THEN Beda(o, [koordinator |-> Kosong])
  ELSE Beda(o, <<>>)])
HapusAnggota(p) == Luang(p) /\ \E o \in Baris("sme_panel") : \E a \in Anggota(o) : LepasKursi(p, o, a)

-------------------------------------------------------------------------------
(* Time study: one assignment a participant, one log a participant and day.  *)

BarisPenugasan == [partisipan : Kunci, aktif : BOOLEAN]
PenugasanBaru(p, d) ==
  Bebas("ts_penugasan", "partisipan", d.partisipan, {}) /\ Tambah(p, BarisBaru("ts_penugasan"), {}, d)

\* All of those asked for that have none, in one transaction; a conflict fails all.
PenugasanBanyak(p, S, aktif) ==
  LET calon == {t \in S : Bebas("ts_penugasan", "partisipan", t, {})}
      kosong == {o \in Rak("ts_penugasan") : db[o] = Tiada /\ o \notin Dipesan} IN
  \E f \in [calon -> kosong] :
    /\ Cardinality({f[t] : t \in calon}) = Cardinality(calon)
    /\ \A o \in kosong \ {f[t] : t \in calon} : \A t \in calon : f[t][2] < o[2]
    /\ Rencanakan(p, {}, [o \in {f[t] : t \in calon} |->
         [partisipan |-> CHOOSE t \in calon : f[t] = o, aktif |-> aktif]])
UbahIsiPenugasan(p, o, u) == Ganti(p, o, {}, u)
TsPenugasanCreate == BarisPenugasan
BuatPenugasan(p) == Luang(p) /\ \E d \in TsPenugasanCreate : PenugasanBaru(p, d)
TsPenugasanBulkCreate == [partisipan : (SUBSET Kunci) \ {{}}, aktif : BOOLEAN]
TsPenugasanUpdate == Sebagian([aktif : BOOLEAN])
BuatPenugasanBanyak(p) ==
  Luang(p) /\ \E d \in TsPenugasanBulkCreate : PenugasanBanyak(p, d.partisipan, d.aktif)
UbahPenugasan(p) == Luang(p) /\ \E o \in Baris("ts_penugasan") : \E u \in TsPenugasanUpdate :
  UbahIsiPenugasan(p, o, u)
HapusPenugasan(p) == Luang(p) /\ \E o \in Baris("ts_penugasan") : Buang(p, o)

\* _validate_times_and_minutes.
Wajar(r) == r.masuk < r.keluar /\ r.menit <= r.keluar - r.masuk + 30

TsLogCreate == [tanggal : Kunci, masuk : Jam, keluar : Jam, menit : Menit]
TsLogUpdate == Sebagian(TsLogCreate)
Bertanggal(t, d) == \E o \in Baris("ts_log") : db[o].partisipan = t /\ db[o].tanggal = d
LogBaru(p, t, d, baca) ==
  /\ Wajar(d)
  /\ ~Bertanggal(t, d.tanggal)
  /\ Tambah(p, BarisBaru("ts_log"), baca, [tanggal |-> d.tanggal, masuk |-> d.masuk,
       keluar |-> d.keluar, menit |-> d.menit, partisipan |-> t])
UbahIsiLog(p, o, baca, u) == Wajar(Timpa(db[o], u)) /\ Ganti(p, o, baca, u)

\* _require_active.
Aktif == {o \in Baris("ts_penugasan") : db[o].aktif}
BuatLog(p) == Luang(p) /\ \E g \in Aktif : \E d \in TsLogCreate : LogBaru(p, db[g].partisipan, d, {g})
UbahLog(p) == Luang(p) /\ \E g \in Aktif : \E o \in Baris("ts_log") : \E u \in TsLogUpdate :
  db[o].partisipan = db[g].partisipan /\ UbahIsiLog(p, o, {g}, u)

-------------------------------------------------------------------------------
(* The constraints of the schema, and the requests.                          *)

KursiPanel == {<<"sme_panel_anggota", "panel", "sme_panel">>}

SkemaInduk(b) ==
  /\ Unik(b, "sekolah", {"npsn"})
  /\ \A t \in {"jenjang", "mapel", "jabatan"} : Unik(b, t, {"kode"})
  /\ Unik(b, "sme_panel", {"jabatan"})
  /\ Unik(b, "sme_panel_anggota", {"panel", "partisipan"})
  /\ FKSah(b, KursiPanel)
  /\ Unik(b, "ts_penugasan", {"partisipan"})
  /\ Unik(b, "ts_log", {"partisipan", "tanggal"})

PermintaanInduk(p) ==
  \/ BuatSekolah(p) \/ UbahSekolah(p) \/ HapusSekolah(p)
  \/ BuatJenjang(p) \/ UbahJenjang(p) \/ HapusJenjang(p)
  \/ BuatMapel(p) \/ UbahMapel(p) \/ HapusMapel(p)
  \/ BuatJabatan(p) \/ UbahJabatan(p) \/ HapusJabatan(p)
  \/ BuatPartisipan(p) \/ UbahPartisipan(p) \/ HapusPartisipan(p)
  \/ BuatPanel(p) \/ UbahPanel(p) \/ HapusPanel(p) \/ TambahAnggota(p) \/ HapusAnggota(p)
  \/ BuatPenugasan(p) \/ BuatPenugasanBanyak(p) \/ UbahPenugasan(p) \/ HapusPenugasan(p)
  \/ BuatLog(p) \/ UbahLog(p)

-------------------------------------------------------------------------------
(* Properties.                                                               *)

\* No two participants log in as one: the subject comes from the identity
\* provider, and no constraint of the database repeats its promise.  Holds
\* whatever overlaps, fails or is deleted.
SubjekSatu == \A o, c \in Baris("partisipan") :
  db[o].subjek # Kosong => Nyata(db[db[o].subjek]) /\ (o # c => db[o].subjek # db[c].subjek)

\* The coordinator of a panel is a member of it (the route of the PATCH checks,
\* remove_anggota clears), unless two requests overlapped.
KoordinatorAnggota == \A o \in Baris("sme_panel") \ tumpang :
  db[o].koordinator = Kosong \/ BarisAnggota(o, db[o].koordinator) # {}

\* A log holds no more minutes of activities than its day, however few of its
\* columns each PATCH brought; two PATCHes that overlap may break it.
MenitWajar == \A o \in Baris("ts_log") \ tumpang : Wajar(db[o])
===============================================================================
