-------------------------------- MODULE Bacaan --------------------------------
(***************************************************************************)
(* The registers clients read: for each the fields its searches may name,  *)
(* its own order, the list, the search and the single row.                 *)
(***************************************************************************)
EXTENDS Pencarian

FieldKonteks == {"kode", "isi"}
RegisterKonteks == [tabel |-> "konteks", kolom |-> FieldKonteks, kunci |-> {"kode"}, urut |-> <<"kode">>]
DaftarKonteks(p) == Daftar(p, RegisterKonteks)
CariKonteks(p) == Cari(p, RegisterKonteks)
AmbilKonteks(p) == Ambil(p, "konteks")

FieldVersiMetode == {"kode", "isi"}
RegisterVersiMetode ==
  [tabel |-> "versi_metode", kolom |-> FieldVersiMetode, kunci |-> {"kode"}, urut |-> <<"kode">>]
DaftarVersiMetode(p) == Daftar(p, RegisterVersiMetode)
CariVersiMetode(p) == Cari(p, RegisterVersiMetode)
AmbilVersiMetode(p) == Ambil(p, "versi_metode")

FieldKodeOrang == {"partisipan", "isi"}
RegisterKodeOrang == [tabel |-> "kode_orang", kolom |-> FieldKodeOrang, kunci |-> {}, urut |-> <<"#">>]
DaftarKodeOrang(p) == Daftar(p, RegisterKodeOrang)
CariKodeOrang(p) == Cari(p, RegisterKodeOrang)
AmbilKodeOrang(p) == Ambil(p, "kode_orang")

FieldMasalah == {"sekolah", "isi"}
RegisterMasalah == [tabel |-> "masalah", kolom |-> FieldMasalah, kunci |-> {"isi"}, urut |-> <<"#">>]
DaftarMasalah(p) == Daftar(p, RegisterMasalah)
CariMasalah(p) == Cari(p, RegisterMasalah)
AmbilMasalah(p) == Ambil(p, "masalah")

FieldProses == {"masalah", "sekolah"}
RegisterProses == [tabel |-> "proses", kolom |-> FieldProses, kunci |-> {"masalah"}, urut |-> <<"#">>]
DaftarProses(p) == Daftar(p, RegisterProses)
CariProses(p) == Cari(p, RegisterProses)
AmbilProses(p) == Ambil(p, "proses")

FieldBukti == {"masalah", "langkah", "isi"}
RegisterBukti == [tabel |-> "bukti", kolom |-> FieldBukti, kunci |-> {}, urut |-> <<"#">>]
DaftarBukti(p) == Daftar(p, RegisterBukti)
CariBukti(p) == Cari(p, RegisterBukti)
AmbilBukti(p) == Ambil(p, "bukti")

FieldAlternatif == {"opsi", "status"}
RegisterAlternatif == [tabel |-> "alternatif", kolom |-> FieldAlternatif, kunci |-> {}, urut |-> <<"#">>]
DaftarAlternatif(p) == Daftar(p, RegisterAlternatif)
CariAlternatif(p) == Cari(p, RegisterAlternatif)
AmbilAlternatif(p) == Ambil(p, "alternatif")

FieldPenilaian == {"masalah", "status", "prioritas"}
RegisterPenilaian == [tabel |-> "penilaian", kolom |-> FieldPenilaian, kunci |-> {}, urut |-> <<"#">>]
DaftarPenilaian(p) == Daftar(p, RegisterPenilaian)
CariPenilaian(p) == Cari(p, RegisterPenilaian)
AmbilPenilaian(p) == Ambil(p, "penilaian")

FieldSesi == {"kode", "sekolah"}
RegisterSesi == [tabel |-> "sesi", kolom |-> FieldSesi, kunci |-> {"kode"}, urut |-> <<"kode", "#">>]
DaftarSesi(p) == Daftar(p, RegisterSesi)
CariSesi(p) == Cari(p, RegisterSesi)
AmbilSesi(p) == Ambil(p, "sesi")

FieldCakupan == {"kode", "jabatan"}
RegisterCakupan == [tabel |-> "cakupan", kolom |-> FieldCakupan, kunci |-> {"kode"}, urut |-> <<"kode">>]
DaftarCakupan(p) == Daftar(p, RegisterCakupan)
CariCakupan(p) == Cari(p, RegisterCakupan)
AmbilCakupan(p) == Ambil(p, "cakupan")

FieldSekolah == {"npsn", "isi"}
RegisterSekolah == [tabel |-> "sekolah", kolom |-> FieldSekolah, kunci |-> {"npsn"}, urut |-> <<"isi">>]
DaftarSekolah(p) == Daftar(p, RegisterSekolah)
CariSekolah(p) == Cari(p, RegisterSekolah)
AmbilSekolah(p) == Ambil(p, "sekolah")

FieldJenjang == {"kode", "isi"}
RegisterJenjang == [tabel |-> "jenjang", kolom |-> FieldJenjang, kunci |-> {"kode"}, urut |-> <<"isi">>]
DaftarJenjang(p) == Daftar(p, RegisterJenjang)
CariJenjang(p) == Cari(p, RegisterJenjang)
AmbilJenjang(p) == Ambil(p, "jenjang")

FieldMapel == {"kode", "isi"}
RegisterMapel == [tabel |-> "mapel", kolom |-> FieldMapel, kunci |-> {"kode"}, urut |-> <<"isi">>]
DaftarMapel(p) == Daftar(p, RegisterMapel)
CariMapel(p) == Cari(p, RegisterMapel)
AmbilMapel(p) == Ambil(p, "mapel")

FieldJabatan == {"kode", "nama"}
RegisterJabatan == [tabel |-> "jabatan", kolom |-> FieldJabatan, kunci |-> {"kode"}, urut |-> <<"nama">>]
DaftarJabatan(p) == Daftar(p, RegisterJabatan)
CariJabatan(p) == Cari(p, RegisterJabatan)
AmbilJabatan(p) == Ambil(p, "jabatan")

FieldPartisipan == {"email", "isi"}
RegisterPartisipan ==
  [tabel |-> "partisipan", kolom |-> FieldPartisipan, kunci |-> {"isi"}, urut |-> <<"isi">>]
DaftarPartisipan(p) == Daftar(p, RegisterPartisipan)
CariPartisipan(p) == Cari(p, RegisterPartisipan)
AmbilPartisipan(p) == Ambil(p, "partisipan")

FieldPanel == {"jabatan"}
RegisterPanel == [tabel |-> "sme_panel", kolom |-> FieldPanel, kunci |-> {"jabatan"}, urut |-> <<"#">>]
DaftarPanel(p) == Daftar(p, RegisterPanel)
CariPanel(p) == Cari(p, RegisterPanel)
AmbilPanel(p) == Ambil(p, "sme_panel")

FieldTp == {"nama"}
RegisterTp == [tabel |-> "tp", kolom |-> FieldTp, kunci |-> {"nama"}, urut |-> <<"nama">>]
DaftarTp(p) == Daftar(p, RegisterTp)
CariTp(p) == Cari(p, RegisterTp)
AmbilTp(p) == Ambil(p, "tp")

FieldDt == {"nama", "tp"}
RegisterDt == [tabel |-> "dt", kolom |-> FieldDt, kunci |-> {"nama"}, urut |-> <<"tp", "nama">>]
DaftarDt(p) == Daftar(p, RegisterDt)
CariDt(p) == Cari(p, RegisterDt)
AmbilDt(p) == Ambil(p, "dt")

FieldUt == {"kode", "jabatan", "dt", "tp"}
RegisterUt == [tabel |-> "ut", kolom |-> FieldUt, kunci |-> {"kode"}, urut |-> <<"jabatan", "#">>]
DaftarUt(p) == Daftar(p, RegisterUt)
CariUt(p) == Cari(p, RegisterUt)
AmbilUt(p) == Ambil(p, "ut")

-------------------------------------------------------------------------------
(* Lists with a condition of their own.                                      *)

Sama2(kolom, nilai) == [t |-> "=", kolom |-> kolom, nilai |-> nilai]

\* The assessments the foundation is asked to look at.
AgendaYayasan(p) == Luang(p) /\ \E h \in HalamanBaru("penilaian") :
  HitungBaris(p, h, "penilaian", <<Sama2("status", "Siap untuk telaah yayasan")>>, Naik(<<"#">>))

\* The summary for the foundation: problems, with their assessments if any.
FieldYayasan == {"status_bukti", "saran", "prioritas", "status"}
RegisterYayasan == [tabel |-> "yayasan", kolom |-> FieldYayasan, kunci |-> {}, urut |-> <<"#">>]
DaftarYayasan(p) == Daftar(p, RegisterYayasan)
CariYayasan(p) == Cari(p, RegisterYayasan)
AmbilYayasan(p) == Luang(p) /\ \E o \in Baris("masalah") : Salin(p, o, Rekaman("yayasan", o))

\* One step with its tag, and what was corrected of it.
AmbilLangkah(p) == Ambil(p, "langkah")
KoreksiLangkah(l) == <<Sama2("langkah", l)>>
DaftarKoreksi(p) == Luang(p) /\ \E l \in Baris("langkah"), h \in HalamanBaru("koreksi") :
  HitungBaris(p, h, "koreksi", KoreksiLangkah(l), Naik(<<"#">>))

\* Items of the instruments, with the tag that their changes ask for.
AmbilButirDcs(p) == Ambil(p, "dcs_item")
AmbilButirWcp(p) == Ambil(p, "wcp_item")

-------------------------------------------------------------------------------
(* Lists that filter by columns of their own choice, the newest row first.   *)

\* Filters by some of the columns, each with a value some row has.
Saringan(t, kolom) == {<<>>} \cup {[i \in DOMAIN f |-> Sama2(f[i], db[o][f[i]])] :
  o \in Baris(t), f \in {SelectSeq(kolom, LAMBDA k : k \in K) : K \in SUBSET {kolom[i] : i \in DOMAIN kolom}}}
CariTerbaru(p, b) == Luang(p) /\ \E h \in HalamanBaru(b.tabel) :
  \E d \in DomainUji(b.kolom) : \E urut \in UrutUji(d, Terbaru, b.kunci) :
    FieldDikenal(d, b.kolom) /\ Seimbang(d) /\ HitungBaris(p, h, b.tabel, d, urut)
DaftarTerbaru(p, b) == Luang(p) /\ \E h \in HalamanBaru(b.tabel) :
  \E d \in Saringan(b.tabel, b.saring) : HitungBaris(p, h, b.tabel, d, Terbaru)

FieldSumber == {"jenis", "izin"}
RegisterSumber == [tabel |-> "sumber", kolom |-> FieldSumber, kunci |-> {}, saring |-> <<"jenis">>]
DaftarSumber(p) == DaftarTerbaru(p, RegisterSumber)
CariSumber(p) == CariTerbaru(p, RegisterSumber)
AmbilSumber(p) == Ambil(p, "sumber")

FieldUsulan == {"fungsi", "sasaran", "hasil"}
RegisterUsulan ==
  [tabel |-> "usulan", kolom |-> FieldUsulan, kunci |-> {}, saring |-> <<"fungsi", "sasaran", "hasil">>]
DaftarUsulan(p) == DaftarTerbaru(p, RegisterUsulan)
CariUsulan(p) == CariTerbaru(p, RegisterUsulan)
AmbilUsulan(p) == Ambil(p, "usulan")

\* Confirmations of all schools, for the team.
FieldKonfirmasi == {"masalah", "sekolah"}
RegisterKonfirmasi == [tabel |-> "konfirmasi", kolom |-> FieldKonfirmasi, kunci |-> {}, urut |-> <<"#">>]
DaftarKonfirmasi(p) == Daftar(p, RegisterKonfirmasi)
CariKonfirmasi(p) == Cari(p, RegisterKonfirmasi)
AmbilKonfirmasi(p) == Ambil(p, "konfirmasi")

\* Time study: the assignments, and the days of the participant of one.
DaftarPenugasan(p) == Luang(p) /\ \E h \in HalamanBaru("ts_penugasan") :
  HitungBaris(p, h, "ts_penugasan", <<>>, Terbaru)
AmbilPenugasan(p) == Ambil(p, "ts_penugasan")
DaftarLog(p) == Luang(p) /\ \E g \in Baris("ts_penugasan"), h \in BarisBaru("halaman") :
  HitungBaris(p, h, "ts_log", <<Sama2("partisipan", db[g].partisipan)>>, <<<<"tanggal", TRUE>>>>)
\* A day, asked for through an assignment of the same participant.
AmbilLog(p) == Luang(p) /\ \E g \in Baris("ts_penugasan"), o \in Baris("ts_log") :
  db[o].partisipan = db[g].partisipan /\ Salin(p, o, db[o])

\* The catalogue of a job: the statements with their main duty and detail, of
\* which none may be missing; cut into pages after it is read.
Terbaca(o) == Nyata(db[db[o].tp]) /\ Dikenal(db, db[o].dt)
DaftarKatalog(p) == Luang(p) /\ \E h \in HalamanBaru("ut"), offset \in {0, Batas}, j \in Rak("jabatan") :
  LET S == {o \in Baris("ut") : db[o].jabatan = j} IN
  /\ \A o \in S : Terbaca(o)
  /\ \E f \in Terurut(S, Naik(<<"#">>)) : Rencanakan(p, Dibaca("ut"), [x \in {h} |->
       [tabel |-> "ut", offset |-> offset, total |-> Cardinality(S),
         isi |-> Potong(f, Batas, offset), sesuai |-> S]])

PermintaanBacaan(p) ==
  \/ BacaHalaman(p)
  \/ DaftarKonteks(p) \/ CariKonteks(p) \/ AmbilKonteks(p)
  \/ DaftarVersiMetode(p) \/ CariVersiMetode(p) \/ AmbilVersiMetode(p)
  \/ DaftarKodeOrang(p) \/ CariKodeOrang(p) \/ AmbilKodeOrang(p)
  \/ DaftarMasalah(p) \/ CariMasalah(p) \/ AmbilMasalah(p)
  \/ DaftarProses(p) \/ CariProses(p) \/ AmbilProses(p)
  \/ DaftarBukti(p) \/ CariBukti(p) \/ AmbilBukti(p)
  \/ DaftarAlternatif(p) \/ CariAlternatif(p) \/ AmbilAlternatif(p)
  \/ DaftarPenilaian(p) \/ CariPenilaian(p) \/ AmbilPenilaian(p)
  \/ DaftarSesi(p) \/ CariSesi(p) \/ AmbilSesi(p)
  \/ DaftarCakupan(p) \/ CariCakupan(p) \/ AmbilCakupan(p)
  \/ DaftarSekolah(p) \/ CariSekolah(p) \/ AmbilSekolah(p)
  \/ DaftarJenjang(p) \/ CariJenjang(p) \/ AmbilJenjang(p)
  \/ DaftarMapel(p) \/ CariMapel(p) \/ AmbilMapel(p)
  \/ DaftarJabatan(p) \/ CariJabatan(p) \/ AmbilJabatan(p)
  \/ DaftarPartisipan(p) \/ CariPartisipan(p) \/ AmbilPartisipan(p)
  \/ DaftarPanel(p) \/ CariPanel(p) \/ AmbilPanel(p)
  \/ DaftarTp(p) \/ CariTp(p) \/ AmbilTp(p)
  \/ DaftarDt(p) \/ CariDt(p) \/ AmbilDt(p)
  \/ DaftarUt(p) \/ CariUt(p) \/ AmbilUt(p)
  \/ AgendaYayasan(p) \/ DaftarYayasan(p) \/ CariYayasan(p)
  \/ DaftarPenugasan(p) \/ AmbilPenugasan(p) \/ DaftarLog(p) \/ AmbilLog(p) \/ DaftarKatalog(p)
  \/ AmbilYayasan(p) \/ AmbilLangkah(p) \/ DaftarKoreksi(p) \/ AmbilButirDcs(p) \/ AmbilButirWcp(p)
  \/ DaftarSumber(p) \/ CariSumber(p) \/ AmbilSumber(p)
  \/ DaftarUsulan(p) \/ CariUsulan(p) \/ AmbilUsulan(p)
  \/ DaftarKonfirmasi(p) \/ CariKonfirmasi(p) \/ AmbilKonfirmasi(p)
===============================================================================
