---------------------------- MODULE BasisDataProofs ----------------------------
(***************************************************************************)
(* The registers that share the database, for any tables, rows, columns    *)
(* and number of server threads.                                           *)
(*                                                                         *)
(* Most requests plan to write ordinary rows (Sederhana), about which no   *)
(* rule speaks; the others have a lemma each about what they plan.  A      *)
(* commit is reasoned about once for all plans: which rows it leaves,      *)
(* which it writes, and that a plan that is not stale writes what it       *)
(* checked.  The state after a step is named by constants (b, h, T), so    *)
(* that what holds of the rows of a database holds of those of a dump.     *)
(***************************************************************************)
EXTENDS BasisData, FiniteSetTheorems, WellFoundedInduction, TLAPS

-------------------------------------------------------------------------------
(* Rows and columns.                                                         *)

LEMMA Letak ==
  ASSUME NEW t, NEW o \in Rak(t)
  PROVE  /\ o[1] = t /\ t \in DOMAIN muat.tabel /\ o[2] \in 1..muat.tabel[t][2]
         /\ o = <<t, o[2]>>
BY DEF Rak

LEMMA LetakObyek ==
  ASSUME Obyek = UNION {Rak(t) : t \in DOMAIN muat.tabel}, NEW o
  PROVE  /\ \A t : o \in Rak(t) => o \in Obyek
         /\ o \in Obyek => o \in Rak(o[1])
<1>1. ASSUME NEW t, o \in Rak(t) PROVE o \in Obyek
  BY <1>1, Letak
<1>2. ASSUME o \in Obyek PROVE o \in Rak(o[1])
  BY <1>2, Letak
<1>. QED  BY <1>1, <1>2

LEMMA Tempatan ==
  ASSUME NEW t
  PROVE  /\ BarisBaru(t) \subseteq Rak(t) /\ KodeBaru(t) \subseteq Rak(t) /\ Baris(t) \subseteq Rak(t)
         /\ \A o \in BarisBaru(t) \cup KodeBaru(t) : db[o] = Tiada
         /\ \A o \in BarisBaru(t) : o \notin Dipesan
         /\ \A o \in Baris(t) : Nyata(db[o]) /\ db[o] # Tiada /\ db[o] # Bekas
BY DEF BarisBaru, KodeBaru, Pertama, Baris, Isi, Nyata

\* Only the columns that differ are written, which comes to the same.
LEMMA TimpaBeda ==
  ASSUME NEW o, NEW u
  PROVE  Timpa(db[o], Beda(o, u)) = Timpa(db[o], u)
BY DEF Timpa, Beda

LEMMA KolomTimpa ==
  ASSUME NEW lama, NEW u
  PROVE  /\ DOMAIN Timpa(lama, u) = DOMAIN lama
         /\ \A k \in DOMAIN lama : Timpa(lama, u)[k] = IF k \in DOMAIN u THEN u[k] ELSE lama[k]
BY DEF Timpa

LEMMA KolomBeda ==
  ASSUME NEW o, NEW u
  PROVE  /\ DOMAIN Beda(o, u) \subseteq DOMAIN u
         /\ \A k \in DOMAIN Beda(o, u) : Beda(o, u)[k] = u[k]
         /\ \A k \in DOMAIN u \ DOMAIN Beda(o, u) : db[o][k] = u[k]
BY DEF Beda

LEMMA KolomGabung ==
  ASSUME NEW a, NEW b
  PROVE  /\ \A k : k \in DOMAIN Gabung(a, b) <=> k \in DOMAIN a \/ k \in DOMAIN b
         /\ \A k \in DOMAIN a : Gabung(a, b)[k] = a[k]
         /\ \A k \in DOMAIN b \ DOMAIN a : Gabung(a, b)[k] = b[k]
BY DEF Gabung

LEMMA KolomSebagian ==
  ASSUME NEW data, NEW u \in Sebagian(data)
  PROVE  \E d \in data : DOMAIN u \subseteq DOMAIN d /\ DOMAIN u # {} /\ \A k \in DOMAIN u : u[k] = d[k]
<1>1. PICK d \in data : \E S \in SUBSET DOMAIN d : Cardinality(S) \in 1..Lebar /\ u = [k \in S |-> d[k]]
  BY DEF Sebagian
<1>3. PICK S \in SUBSET DOMAIN d : Cardinality(S) \in 1..Lebar /\ u = [k \in S |-> d[k]]
  BY <1>1
<1>2. S # {}
  BY <1>3, FS_EmptySet, PermintaanAssumption
<1>. QED  BY <1>2, <1>3

\* NULL is no row.
LEMMA KosongBukanBaris == 
  ASSUME muat \in Muatan, NEW t
  PROVE  Kosong \notin Rak(t)
BY TandaBukanBaris DEF Rak

-------------------------------------------------------------------------------
(* What a request may plan.                                                  *)

TabelIstimewa == {"alternatif", "penilaian", "ts_log", "partisipan", "sme_panel", "sme_panel_anggota",
  "proses", "langkah", "koreksi", "tp", "dt", "ut",
  "setelan", "setelan_event", "induk", "panggilan", "sumber", "run", "usulan", "permintaan", "versi"}


\* The row that is planned.
Jadilah(isi, o) == IF db[o] = Tiada THEN isi[o] ELSE Timpa(db[o], isi[o])

\* The tags that came with it are those of the rows it writes.
Bertanda(isi, syarat) ==
  \A s \in syarat : db[s].obyek \in DOMAIN isi => db[db[s].obyek] = db[s].wujud

BarisLayak(isi) == \A o \in DOMAIN isi : isi[o] # Bekas =>
  /\ o \notin tumpang => AturanBaris(o, Jadilah(isi, o))
  /\ Bentuk(o, Jadilah(isi, o))
  /\ o[1] = "penilaian" /\ db[o] = Tiada => KolomDinilai \subseteq DOMAIN isi[o]
  /\ o[1] = "partisipan" => db[o] # Tiada /\ "subjek" \notin DOMAIN isi[o]

KursiLayak(baca, isi) ==
  /\ \A a \in DOMAIN isi : a[1] = "sme_panel_anggota" /\ db[a] # Tiada =>
       isi[a] = Bekas /\ db[a].panel \in DOMAIN isi
  /\ \A o \in DOMAIN isi : o[1] = "sme_panel" /\ isi[o] # Bekas =>
       IF "koordinator" \in DOMAIN isi[o]
       THEN LET t == isi[o].koordinator IN t # Kosong =>
              /\ db[o] # Tiada
              /\ \E a \in baca \ DOMAIN isi :
                   /\ a \in Rak("sme_panel_anggota") /\ Nyata(db[a])
                   /\ db[a].panel = o /\ db[a].partisipan = t
       ELSE /\ db[o] # Tiada
            /\ \A a \in DOMAIN isi : a[1] = "sme_panel_anggota" /\ db[a] # Tiada =>
                 db[o].koordinator = Kosong \/ db[o].koordinator # db[a].partisipan

\* The plan, of what is there now.
Rancangan(baca, isi, syarat) ==
  [lihat |-> [o \in baca \cup syarat \cup DOMAIN isi |-> db[o]], isi |-> isi, syarat |-> syarat]

Halaman(isi) == \A o, c \in DOMAIN isi : o[1] = "halaman" => c[1] = "halaman"
Berisi(r) == RencanaTempat(r) /\ (IsianSah(db, tumpang) /\ IndukSesuai => RencanaIsian(r))
Layak(baca, isi, syarat) ==
  /\ \A o \in DOMAIN isi : o[1] \notin TabelPlatform
  /\ Halaman(isi) /\ Bertanda(isi, syarat) /\ BarisLayak(isi) /\ KursiLayak(baca, isi)
  /\ RencanaRujukan(Rancangan(baca, isi, syarat))
  /\ Berisi(Rancangan(baca, isi, syarat))

Terencana(p) == \E baca, isi, syarat : RencanakanBila(p, baca, isi, syarat) /\ Layak(baca, isi, syarat)

\* Of rows that refer to none that is checked.
TabelMerujuk == {"proses", "koreksi", "dt", "ut"}
LEMMA TanpaRujukan ==
  ASSUME NEW baca, NEW isi, NEW syarat, \A o \in DOMAIN isi : o[1] \notin TabelMerujuk
  PROVE  RencanaRujukan(Rancangan(baca, isi, syarat))
BY DEF RencanaRujukan, RujukanSah, Rancangan, TabelMerujuk

LEMMA TanpaBentuk ==
  ASSUME NEW o, o[1] \notin TabelBerbentuk, NEW w
  PROVE  Bentuk(o, w)
BY DEF Bentuk, TabelBerbentuk

LEMMA TanpaIsian ==
  ASSUME NEW baca, NEW isi, NEW syarat, \A o \in DOMAIN isi : o[1] \notin TabelIsian
  PROVE  Berisi(Rancangan(baca, isi, syarat))
BY DEF Berisi, RencanaTempat, RencanaIsian, RencanaPenyedia, RencanaPanggilan, RencanaKutipan, Rancangan, TabelIsian

\* Rows about which no rule speaks.
LEMMA Sederhana ==
  ASSUME NEW p, NEW baca, NEW isi, NEW syarat, RencanakanBila(p, baca, isi, syarat),
         \A o \in DOMAIN isi : o[1] \notin TabelPlatform \cup TabelIstimewa,
         Halaman(isi), Bertanda(isi, syarat)
  PROVE  Terencana(p)
<1>1. RencanaRujukan(Rancangan(baca, isi, syarat))
  BY TanpaRujukan DEF TabelIstimewa, TabelMerujuk
<1>2. BarisLayak(isi) /\ KursiLayak(baca, isi) /\ \A o \in DOMAIN isi : o[1] \notin TabelPlatform
  BY TanpaBentuk DEF BarisLayak, KursiLayak, AturanBaris, TabelIstimewa, TabelBerbentuk
<1>3. Berisi(Rancangan(baca, isi, syarat))
  BY TanpaIsian DEF TabelIstimewa, TabelIsian
<1>. QED  BY <1>1, <1>2, <1>3 DEF Terencana, Layak

LEMMA Tertanda ==
  ASSUME NEW o, NEW s \in Prasyarat(o), NEW isi, DOMAIN isi = {o}
  PROVE  Bertanda(isi, s)
BY DEF Prasyarat, CekIfMatch, Bertanda

LEMMA Menambah ==
  ASSUME NEW p, NEW t, t \notin TabelPlatform \cup TabelIstimewa, NEW tempat, tempat \subseteq Rak(t),
         NEW baca, NEW baris, Tambah(p, tempat, baca, baris)
  PROVE  Terencana(p)
<1>1. PICK o \in tempat : Rencanakan(p, baca, [x \in {o} |-> baris])
  BY DEF Tambah
<1>2. o[1] = t
  BY Letak
<1>. QED  BY <1>1, <1>2, Sederhana DEF Rencanakan, Halaman, Bertanda

LEMMA Mengganti ==
  ASSUME NEW p, NEW t, t \notin TabelPlatform \cup TabelIstimewa, NEW o \in Baris(t),
         NEW baca, NEW u, Ganti(p, o, baca, u) \/ GantiBersyarat(p, o, baca, u)
  PROVE  Terencana(p)
<1>. DEFINE isi == [x \in {o} |-> Beda(o, u)]
<1>1. o[1] = t
  BY Letak, Tempatan
<1>2. Halaman(isi) /\ \A x \in DOMAIN isi : x[1] \notin TabelPlatform \cup TabelIstimewa
  BY <1>1 DEF Halaman
<1>3. CASE Ganti(p, o, baca, u)
  BY <1>2, <1>3, Sederhana DEF Ganti, Rencanakan, Bertanda
<1>4. CASE GantiBersyarat(p, o, baca, u)
  <2>1. PICK s \in Prasyarat(o) : RencanakanBila(p, baca, isi, s)
    BY <1>4 DEF GantiBersyarat
  <2>2. Bertanda(isi, s)
    BY Tertanda
  <2>. QED  BY <1>2, <2>1, <2>2, Sederhana
<1>. QED  BY <1>3, <1>4

LEMMA Membuang ==
  ASSUME NEW p, NEW t, t \notin TabelPlatform \cup TabelIsian, t # "sme_panel_anggota",
         NEW o \in Baris(t),
         Buang(p, o) \/ BuangBersyarat(p, o)
  PROVE  Terencana(p)
<1>. DEFINE isi == [x \in {o} |-> Bekas]
<1>1. o[1] = t
  BY Letak, Tempatan
<1>2. PICK s : RencanakanBila(p, {}, isi, s) /\ Bertanda(isi, s)
  <2>1. CASE Buang(p, o)
    BY <2>1 DEF Buang, Rencanakan, Bertanda
  <2>2. CASE BuangBersyarat(p, o)
    <3>1. PICK s \in Prasyarat(o) : RencanakanBila(p, {}, isi, s)
      BY <2>2 DEF BuangBersyarat
    <3>. QED  BY <3>1, Tertanda
  <2>. QED  BY <2>1, <2>2
<1>3. RencanaRujukan(Rancangan({}, isi, s))
  BY <1>1 DEF RencanaRujukan, Rancangan
<1>5. Berisi(Rancangan({}, isi, s))
  BY <1>1, TanpaIsian
<1>4. Layak({}, isi, s)
  BY <1>1, <1>2, <1>3, <1>5 DEF Layak, Halaman, BarisLayak, KursiLayak
<1>. QED  BY <1>2, <1>4 DEF Terencana

-------------------------------------------------------------------------------
(* Rows that refer to others.                                                *)

\* Row o, with the columns of w, agrees with rows that were read.
Dirujuk(baca, o, w) ==
  /\ o[1] = "proses" => w.masalah \in Rak("masalah") \cap baca /\ RujukanProses(db, w)
  /\ o[1] = "koreksi" /\ w.konfirmasi # Kosong =>
       /\ w.langkah \in Rak("langkah") \cap baca /\ w.konfirmasi \in Rak("konfirmasi") \cap baca
       /\ db[w.langkah].proses \in Rak("proses") \cap baca
       /\ DalamKonfirmasi(db, w.langkah, w.konfirmasi)
  /\ o[1] = "dt" => w.tp \in Rak("tp") \cap baca /\ JabatanSubset(db, w)
  /\ o[1] = "ut" /\ w.dt # Kosong => w.dt \in Rak("dt") \cap baca /\ JabatanDiDt(db, w)

\* It does so with other rows that are the same where it refers.
LEMMA RujukanSama ==
  ASSUME NEW baca, NEW o, NEW w, Dirujuk(baca, o, w), NEW b, baca \subseteq DOMAIN b,
         \A c \in baca : c[1] # o[1] => b[c] = db[c]
  PROVE  RujukanSah(b, o, w)
<1>1. ASSUME o[1] = "proses" PROVE w.masalah \in DOMAIN b /\ RujukanProses(b, w)
  BY <1>1, Letak DEF Dirujuk, RujukanProses
<1>2. ASSUME o[1] = "koreksi", w.konfirmasi # Kosong
      PROVE  /\ w.langkah \in Rak("langkah") \cap DOMAIN b /\ w.konfirmasi \in Rak("konfirmasi") \cap DOMAIN b
             /\ b[w.langkah].proses \in Rak("proses") \cap DOMAIN b
             /\ DalamKonfirmasi(b, w.langkah, w.konfirmasi)
  BY <1>2, Letak DEF Dirujuk, DalamKonfirmasi, MasalahLangkah
<1>3. ASSUME o[1] = "dt" PROVE w.tp \in DOMAIN b /\ JabatanSubset(b, w)
  BY <1>3, Letak DEF Dirujuk, JabatanSubset
<1>4. ASSUME o[1] = "ut" PROVE (w.dt # Kosong => w.dt \in DOMAIN b) /\ JabatanDiDt(b, w)
  BY <1>4, Letak DEF Dirujuk, JabatanDiDt
<1>. QED  BY <1>1, <1>2, <1>3, <1>4 DEF RujukanSah

\* One row that is written on the strength of what was read.
LEMMA Merujuk ==
  ASSUME NEW p, NEW t \in {"proses", "langkah", "koreksi", "tp", "dt", "ut"}, NEW o \in Rak(t),
         NEW baca, NEW isi, DOMAIN isi = {o}, NEW syarat,
         RencanakanBila(p, baca, isi, syarat), Bertanda(isi, syarat), Bentuk(o, Jadilah(isi, o)),
         \/ Dirujuk(baca, o, Jadilah(isi, o))
         \/ db[o] # Tiada /\ t = "dt" /\ DOMAIN isi[o] \cap {"tp", "jabatan"} = {}
         \/ db[o] # Tiada /\ t = "ut" /\ DOMAIN isi[o] \cap {"dt", "jabatan"} = {}
  PROVE  Terencana(p)
<1>1. o[1] = t
  BY Letak
<1>. DEFINE r == Rancangan(baca, isi, syarat)
            w == Jadilah(isi, o)
<1>2. /\ r.isi = isi /\ baca \subseteq DOMAIN r.lihat /\ o \in DOMAIN r.lihat
      /\ \A c \in DOMAIN r.lihat : r.lihat[c] = db[c]
  BY DEF Rancangan
<1>3. Jadi(r, o) = w
  BY <1>2 DEF Jadi, Jadilah
<1>. HIDE DEF w, r
<1>4. DOMAIN Sesudah(r) = DOMAIN r.lihat /\ \A c \in baca : c[1] # o[1] => Sesudah(r)[c] = db[c]
  BY <1>2 DEF Sesudah
<1>5. ASSUME Menyentuh(r, o) PROVE RujukanSah(Sesudah(r), o, w)
  <2>1. Dirujuk(baca, o, w)
    BY <1>1, <1>2, <1>5 DEF Menyentuh, w
  <2>. QED  BY <1>2, <1>4, <2>1, RujukanSama
<1>6. RencanaRujukan(r)
  BY <1>1, <1>2, <1>3, <1>5 DEF RencanaRujukan
<1>7. (\A x \in DOMAIN isi : x[1] \notin TabelPlatform) /\ Halaman(isi) /\ KursiLayak(baca, isi) /\ BarisLayak(isi)
  BY <1>1 DEF Halaman, KursiLayak, BarisLayak, TabelPlatform, AturanBaris
<1>8. Berisi(Rancangan(baca, isi, syarat))
  BY <1>1, TanpaIsian DEF TabelIsian
<1>. QED  BY <1>6, <1>7, <1>8 DEF Terencana, Layak, r

LEMMA GantiRujukan ==
  ASSUME NEW p, NEW t \in {"proses", "langkah", "koreksi", "tp", "dt", "ut"}, NEW o \in Baris(t),
         NEW baca, NEW u, GantiBersyarat(p, o, baca, u), Bentuk(o, Timpa(db[o], u)),
         \/ Dirujuk(baca, o, Timpa(db[o], u))
         \/ t = "dt" /\ DOMAIN u \cap {"tp", "jabatan"} = {}
         \/ t = "ut" /\ DOMAIN u \cap {"dt", "jabatan"} = {}
  PROVE  Terencana(p)
<1>. DEFINE isi == [x \in {o} |-> Beda(o, u)]
<1>1. o \in Rak(t) /\ db[o] # Tiada
  BY Tempatan
<1>2. PICK s \in Prasyarat(o) : RencanakanBila(p, baca, isi, s)
  BY DEF GantiBersyarat
<1>3. DOMAIN isi = {o} /\ Bertanda(isi, s)
  BY Tertanda
<1>4. Jadilah(isi, o) = Timpa(db[o], u) /\ DOMAIN isi[o] \subseteq DOMAIN u
  BY <1>1, TimpaBeda, KolomBeda DEF Jadilah
<1>. HIDE DEF isi
<1>5. \/ Dirujuk(baca, o, Jadilah(isi, o))
      \/ db[o] # Tiada /\ t = "dt" /\ DOMAIN isi[o] \cap {"tp", "jabatan"} = {}
      \/ db[o] # Tiada /\ t = "ut" /\ DOMAIN isi[o] \cap {"dt", "jabatan"} = {}
  BY <1>1, <1>4
<1>6. Bentuk(o, Jadilah(isi, o))
  BY <1>4
<1>. QED  BY <1>1, <1>2, <1>3, <1>5, <1>6, Merujuk

LEMMA TambahRujukan ==
  ASSUME NEW p, NEW t \in {"proses", "langkah", "koreksi", "tp", "dt", "ut"}, NEW tempat, tempat \subseteq Rak(t),
         \A o \in tempat : db[o] = Tiada,
         NEW baca, NEW baris, Tambah(p, tempat, baca, baris),
         \A o \in tempat : Bentuk(o, baris) /\ Dirujuk(baca, o, baris)
  PROVE  Terencana(p)
<1>1. PICK o \in tempat : Rencanakan(p, baca, [x \in {o} |-> baris])
  BY DEF Tambah
<1>. DEFINE isi == [x \in {o} |-> baris]
<1>2. Jadilah(isi, o) = baris
  BY <1>1 DEF Jadilah
<1>3. DOMAIN isi = {o} /\ Bertanda(isi, {}) /\ RencanakanBila(p, baca, isi, {})
  BY <1>1 DEF Bertanda, Rencanakan
<1>. HIDE DEF isi
<1>4. Bentuk(o, Jadilah(isi, o)) /\ Dirujuk(baca, o, Jadilah(isi, o))
  BY <1>1, <1>2
<1>. QED  BY <1>1, <1>3, <1>4, Merujuk

\* The columns of the rows that are there.
LEMMA Berbentuk ==
  ASSUME IndInv, NEW t \in TabelBerbentuk, NEW o \in Baris(t)
  PROVE  Bentuk(o, db[o]) /\ o[1] = t
BY Tempatan, Letak DEF IndInv, KeadaanSah, KolomAda, Baris

-------------------------------------------------------------------------------
(* The requests of the redesign study.                                       *)

LEMMA RencanaKonteks ==
  ASSUME NEW p, BuatKonteks(p) \/ UbahKonteks(p) \/ BuatVersiMetode(p) \/ UbahVersiMetode(p)
  PROVE  Terencana(p)
BY Tempatan, Menambah, Mengganti DEF BuatKonteks, KonteksBaru, UbahKonteks, UbahIsiKonteks,
   BuatVersiMetode, VersiMetodeBaru, UbahVersiMetode, UbahIsiVersiMetode, TabelPlatform, TabelIstimewa

LEMMA RencanaKodeOrang ==
  ASSUME NEW p, KodeSaya(p) \/ BuatKodeOrang(p) \/ UbahKodeOrang(p)
  PROVE  Terencana(p)
BY Tempatan, Menambah, Mengganti DEF KodeSaya, UntukPartisipan, BuatKodeOrang, KodeOrangBaru,
   UbahKodeOrang, UbahIsiKodeOrang, TabelPlatform, TabelIstimewa

LEMMA RencanaMasalah ==
  ASSUME NEW p, BuatMasalah(p) \/ UbahMasalah(p)
  PROVE  Terencana(p)
BY Tempatan, Menambah, Mengganti DEF BuatMasalah, MasalahBaru, UbahMasalah, UbahIsiMasalah,
   TabelPlatform, TabelIstimewa

LEMMA RencanaProses ==
  ASSUME NEW p, BuatProses(p) \/ UbahProses(p), IndInv
  PROVE  Terencana(p)
<1>1. CASE BuatProses(p)
  <2>1. PICK d \in BarisProses : RujukanProses(db, d) /\ Tambah(p, KodeBaru("proses"), {d.masalah}, d)
    BY <1>1 DEF BuatProses, ProsesCreate, ProsesBaru
  <2>2. "masalah" \in DOMAIN d /\ d.masalah \in Rak("masalah")
    BY Tempatan DEF BarisProses
  <2>3. \A o \in KodeBaru("proses") : Bentuk(o, d) /\ Dirujuk({d.masalah}, o, d)
    BY <2>1, <2>2, Tempatan, Letak DEF Bentuk, Dirujuk
  <2>. QED  BY <2>1, <2>3, Tempatan, TambahRujukan
<1>2. CASE UbahProses(p)
  <2>1. PICK o \in Baris("proses"), u \in ProsesUpdate : UbahIsiProses(p, o, u)
    BY <1>2 DEF UbahProses
  <2>2. PICK d \in BarisProses : DOMAIN u \subseteq DOMAIN d /\ DOMAIN u # {} /\ \A k \in DOMAIN u : u[k] = d[k]
    BY KolomSebagian DEF ProsesUpdate
  <2>. DEFINE w == Timpa(db[o], u)
  <2>3. RujukanProses(db, w) /\ GantiBersyarat(p, o, {w.masalah}, u)
    BY <2>1, <2>2 DEF UbahIsiProses
  <2>4. o[1] = "proses" /\ "masalah" \in DOMAIN db[o] /\ db[o].masalah \in Rak("masalah")
    BY Berbentuk DEF Bentuk, TabelBerbentuk
  <2>5. "masalah" \in DOMAIN w /\ w.masalah \in Rak("masalah")
    <3>1. d.masalah \in Rak("masalah")
      BY Tempatan DEF BarisProses
    <3>. QED  BY <2>2, <2>4, <3>1, KolomTimpa
  <2>. HIDE DEF w
  <2>6. Bentuk(o, w) /\ Dirujuk({w.masalah}, o, w)
    BY <2>3, <2>4, <2>5 DEF Bentuk, Dirujuk
  <2>. QED  BY <2>3, <2>6, GantiRujukan DEF w
<1>. QED  BY <1>1, <1>2

LEMMA RencanaLangkah ==
  ASSUME NEW p, BuatLangkah(p) \/ UbahLangkah(p) \/ BuatKoreksi(p) \/ BuatBukti(p) \/ UbahBukti(p), IndInv
  PROVE  Terencana(p)
<1>1. ASSUME BuatLangkah(p) PROVE Terencana(p)
  <2>1. PICK d \in BarisLangkah : Tambah(p, KodeBaru("langkah"), {d.proses}, d)
    BY <1>1 DEF BuatLangkah, LangkahCreate, TambahLangkah
  <2>2. "proses" \in DOMAIN d /\ d.proses \in Rak("proses")
    BY Tempatan DEF BarisLangkah
  <2>3. \A o \in KodeBaru("langkah") : Bentuk(o, d) /\ Dirujuk({d.proses}, o, d)
    BY <2>2, Tempatan, Letak DEF Bentuk, Dirujuk
  <2>. QED  BY <2>1, <2>3, Tempatan, TambahRujukan
<1>2. ASSUME UbahLangkah(p) PROVE Terencana(p)
  <2>1. PICK o \in Baris("langkah"), u \in LangkahUpdate : GantiBersyarat(p, o, {}, u)
    BY <1>2 DEF UbahLangkah, UbahIsiLangkah
  <2>2. DOMAIN u \subseteq {"isi"}
    <3>1. PICK d \in [isi : Teks] : DOMAIN u \subseteq DOMAIN d
      BY KolomSebagian DEF LangkahUpdate
    <3>. QED  BY <3>1
  <2>. DEFINE w == Timpa(db[o], u)
  <2>3. o[1] = "langkah" /\ "proses" \in DOMAIN db[o] /\ db[o].proses \in Rak("proses")
    BY Berbentuk DEF Bentuk, TabelBerbentuk
  <2>4. "proses" \in DOMAIN w /\ w.proses = db[o].proses
    BY <2>2, <2>3, KolomTimpa
  <2>. HIDE DEF w
  <2>5. Bentuk(o, w) /\ Dirujuk({}, o, w)
    BY <2>3, <2>4 DEF Bentuk, Dirujuk
  <2>. QED  BY <2>1, <2>5, GantiRujukan DEF w
<1>4. ASSUME BuatKoreksi(p) PROVE Terencana(p)
  <2>1. PICK l \in Baris("langkah"), k \in KoreksiCreate :
          IF k = Kosong THEN KoreksiTim(p, l) ELSE KoreksiPengisi(p, l, k)
    BY <1>4 DEF BuatKoreksi
  <2>. DEFINE d == [langkah |-> l, konfirmasi |-> k]
  <2>2. CASE k = Kosong
    <3>1. Tambah(p, BarisBaru("koreksi"), {l, db[l].proses}, d)
      BY <2>1, <2>2 DEF KoreksiTim, SimpanKoreksi
    <3>2. \A o \in BarisBaru("koreksi") : Bentuk(o, d) /\ Dirujuk({l, db[l].proses}, o, d)
      BY <2>2, Tempatan, Letak DEF Bentuk, Dirujuk
    <3>. HIDE DEF d
    <3>. QED  BY <3>1, <3>2, Tempatan, TambahRujukan
  <2>3. CASE k # Kosong
    <3>1. DalamKonfirmasi(db, l, k) /\ Tambah(p, BarisBaru("koreksi"), {l, db[l].proses, k}, d)
      BY <2>1, <2>3 DEF KoreksiPengisi, SimpanKoreksi
    <3>2. l \in Rak("langkah") /\ k \in Rak("konfirmasi") /\ db[l].proses \in Rak("proses")
      BY <2>3, Tempatan, Berbentuk DEF KoreksiCreate, AtauKosong, KonfirmasiMilik, Bentuk, TabelBerbentuk
    <3>3. \A o \in BarisBaru("koreksi") : Bentuk(o, d) /\ Dirujuk({l, db[l].proses, k}, o, d)
      BY <3>1, <3>2, Tempatan, Letak DEF Bentuk, Dirujuk
    <3>. HIDE DEF d
    <3>. QED  BY <3>1, <3>3, Tempatan, TambahRujukan
  <2>. QED  BY <2>2, <2>3
<1>3. BuatBukti(p) \/ UbahBukti(p) => Terencana(p)
  BY Tempatan, Menambah, Mengganti DEF BuatBukti, BuktiBaru, UbahBukti, UbahIsiBukti,
     TabelPlatform, TabelIstimewa
<1>. QED  BY <1>1, <1>2, <1>3, <1>4

LEMMA RencanaSesiCakupan ==
  ASSUME NEW p, BuatSesi(p) \/ UbahSesi(p) \/ BuatCakupan(p) \/ UbahCakupan(p)
  PROVE  Terencana(p)
BY Tempatan, Menambah, Mengganti DEF BuatSesi, SesiBaru, UbahSesi, UbahIsiSesi,
   BuatCakupan, CakupanBaru, UbahCakupan, UbahIsiCakupan, TabelPlatform, TabelIstimewa

\* One row of a table with a rule.
LEMMA Tunggal ==
  ASSUME NEW p, NEW t \in {"alternatif", "penilaian", "ts_log", "partisipan"}, NEW o \in Rak(t),
         NEW baca, NEW isi, DOMAIN isi = {o}, NEW syarat,
         RencanakanBila(p, baca, isi, syarat), Bertanda(isi, syarat), BarisLayak(isi)
  PROVE  Terencana(p)
<1>1. o[1] = t
  BY Letak
<1>2. (\A x \in DOMAIN isi : x[1] \notin TabelPlatform) /\ Halaman(isi) /\ KursiLayak(baca, isi)
  BY <1>1 DEF Halaman, KursiLayak, TabelPlatform
<1>3. RencanaRujukan(Rancangan(baca, isi, syarat))
  BY <1>1, TanpaRujukan DEF TabelMerujuk
<1>4. Berisi(Rancangan(baca, isi, syarat))
  BY <1>1, TanpaIsian DEF TabelIsian
<1>. QED  BY <1>2, <1>3, <1>4 DEF Terencana, Layak

\* A change of one, by the row that it leaves.
LEMMA GantiTunggal ==
  ASSUME NEW p, NEW t \in {"alternatif", "penilaian", "ts_log", "partisipan"}, NEW o \in Baris(t),
         NEW baca, NEW u, Ganti(p, o, baca, u) \/ GantiBersyarat(p, o, baca, u),
         o \notin tumpang => AturanBaris(o, Timpa(db[o], u)),
         t = "partisipan" => "subjek" \notin DOMAIN u
  PROVE  Terencana(p)
<1>. DEFINE isi == [x \in {o} |-> Beda(o, u)]
<1>1. o \in Rak(t) /\ o[1] = t /\ db[o] # Tiada
  BY Letak, Tempatan
<1>2. BarisLayak(isi)
  BY <1>1, TimpaBeda, KolomBeda, TanpaBentuk DEF BarisLayak, Jadilah, TabelBerbentuk
<1>3. CASE Ganti(p, o, baca, u)
  <2>1. RencanakanBila(p, baca, isi, {}) /\ DOMAIN isi = {o} /\ Bertanda(isi, {})
    BY <1>3 DEF Ganti, Rencanakan, Bertanda
  <2>. HIDE DEF isi
  <2>. QED  BY <1>1, <1>2, <2>1, Tunggal
<1>4. CASE GantiBersyarat(p, o, baca, u)
  <2>1. PICK s \in Prasyarat(o) : RencanakanBila(p, baca, isi, s)
    BY <1>4 DEF GantiBersyarat
  <2>2. DOMAIN isi = {o} /\ Bertanda(isi, s)
    BY Tertanda
  <2>. HIDE DEF isi
  <2>. QED  BY <1>1, <1>2, <2>1, <2>2, Tunggal
<1>. QED  BY <1>3, <1>4

LEMMA TambahTunggal ==
  ASSUME NEW p, NEW t \in {"alternatif", "penilaian", "ts_log"}, NEW tempat, tempat \subseteq Rak(t),
         \A o \in tempat : db[o] = Tiada,
         NEW baca, NEW baris, Tambah(p, tempat, baca, baris),
         \A o \in tempat : AturanBaris(o, baris),
         t = "penilaian" => KolomDinilai \subseteq DOMAIN baris
  PROVE  Terencana(p)
<1>1. PICK o \in tempat : Rencanakan(p, baca, [x \in {o} |-> baris])
  BY DEF Tambah
<1>. DEFINE isi == [x \in {o} |-> baris]
<1>2. o \in Rak(t) /\ o[1] = t /\ db[o] = Tiada
  BY Letak
<1>3. BarisLayak(isi)
  BY <1>2, TanpaBentuk DEF BarisLayak, Jadilah, TabelBerbentuk
<1>4. RencanakanBila(p, baca, isi, {}) /\ DOMAIN isi = {o} /\ Bertanda(isi, {})
  BY <1>1 DEF Rencanakan, Bertanda
<1>. HIDE DEF isi
<1>. QED  BY <1>2, <1>3, <1>4, Tunggal

LEMMA RencanaAlternatif ==
  ASSUME NEW p, BuatAlternatif(p) \/ UbahAlternatif(p)
  PROVE  Terencana(p)
<1>1. CASE BuatAlternatif(p)
  <2>1. PICK d : AturanAlternatif(d) /\ Tambah(p, KodeBaru("alternatif"), {}, d)
    BY <1>1 DEF BuatAlternatif, AlternatifBaru
  <2>2. \A o \in KodeBaru("alternatif") : o[1] = "alternatif" /\ AturanBaris(o, d)
    BY <2>1, Tempatan, Letak DEF AturanBaris
  <2>. QED  BY <2>1, <2>2, Tempatan, TambahTunggal
<1>2. CASE UbahAlternatif(p)
  <2>1. PICK o \in Baris("alternatif"), u \in AlternatifUpdate : AturanAlternatif(Timpa(db[o], u)) /\ GantiBersyarat(p, o, {}, u)
    BY <1>2 DEF UbahAlternatif, UbahIsiAlternatif
  <2>2. AturanBaris(o, Timpa(db[o], u))
    BY <2>1, Tempatan, Letak DEF AturanBaris
  <2>. QED  BY <2>1, <2>2, GantiTunggal
<1>. QED  BY <1>1, <1>2

\* The suggestion is one of the priorities, made of the criteria alone.
LEMMA SaranSama ==
  ASSUME NEW r, NEW s, \A k \in KriteriaPenilaian : s[k] = r[k]
  PROVE  HitungSaran(s) = HitungSaran(r)
BY DEF HitungSaran, K, KriteriaPenilaian

LEMMA SaranAda == ASSUME NEW r PROVE HitungSaran(r) # Kosong
<1>1. HitungSaran(r) \in {"P0", "P1", "P2", "P3", "K"}
  BY DEF HitungSaran
<1>. QED  BY <1>1, RedesainAssumption

LEMMA Terhitung ==
  ASSUME NEW r, KolomDinilai \subseteq DOMAIN r
  PROVE  LET s == HitungUlang(r) IN
         /\ DOMAIN s = DOMAIN r /\ s.saran = HitungSaran(s)
         /\ \A k \in DOMAIN r \ {"saran"} : s[k] = r[k]
<1>. DEFINE s == HitungUlang(r)
<1>1. "saran" \in DOMAIN r /\ KriteriaPenilaian \subseteq DOMAIN r \ {"saran"}
  BY DEF KolomDinilai, BelumDiputuskan, KriteriaPenilaian
<1>2. DOMAIN s = DOMAIN r /\ s.saran = HitungSaran(r) /\ \A k \in DOMAIN r \ {"saran"} : s[k] = r[k]
  BY <1>1 DEF HitungUlang
<1>. HIDE DEF s
<1>3. HitungSaran(s) = HitungSaran(r)
  BY <1>1, <1>2, SaranSama
<1>. USE DEF s
<1>. QED  BY <1>2, <1>3

LEMMA RencanaPenilaianBaru ==
  ASSUME NEW p, BuatPenilaian(p)
  PROVE  Terencana(p)
<1>1. PICK m \in Baris("masalah"), d \in KolomPenilaian : PenilaianBaru(p, m, d)
  BY DEF BuatPenilaian, PenilaianCreate
<1>. DEFINE g == Gabung(Gabung(d, BelumDiputuskan), [masalah |-> m])
            s == HitungUlang(g)
<1>2. Tambah(p, BarisBaru("penilaian"), {}, s)
  BY <1>1 DEF PenilaianBaru
<1>3. DOMAIN d = KriteriaPenilaian
  BY RedesainAssumption
<1>4. DOMAIN g = KolomDinilai \cup {"masalah"}
  BY <1>3 DEF KolomDinilai, Gabung
<1>5. g.prioritas = Kosong /\ g.status = "Belum ditelaah"
  BY <1>3 DEF Gabung, BelumDiputuskan, KriteriaPenilaian
<1>. HIDE DEF g
<1>6. KolomDinilai \subseteq DOMAIN s /\ s.saran = HitungSaran(s)
      /\ \A k \in DOMAIN g \ {"saran"} : s[k] = g[k]
  BY <1>4, Terhitung
<1>. HIDE DEF s
<1>7. s.prioritas = Kosong /\ s.status = "Belum ditelaah"
  BY <1>4, <1>5, <1>6 DEF KolomDinilai, BelumDiputuskan
<1>8. Rapi(s)
  BY <1>6, <1>7 DEF Rapi
<1>9. \A o \in BarisBaru("penilaian") : db[o] = Tiada /\ AturanBaris(o, s)
  BY <1>8, Tempatan, Letak DEF AturanBaris
<1>. QED  BY <1>2, <1>6, <1>9, Tempatan, TambahTunggal

LEMMA RencanaPenilaianUbah ==
  ASSUME NEW p, UbahPenilaian(p), IndInv
  PROVE  Terencana(p)
<1>1. PICK o \in Baris("penilaian"), u \in UbahanPenilaian : UbahIsiPenilaian(p, o, u)
  BY DEF UbahPenilaian, PenilaianUpdate
<1>. DEFINE r == Timpa(db[o], u)
            s == HitungUlang(r)
<1>2. KolomDinilai \subseteq DOMAIN db[o] /\ Nyata(db[o]) /\ o[1] = "penilaian" /\ o \in Baris("penilaian")
  BY Tempatan, Letak DEF IndInv, KeadaanSah, KolomAda, Baris
<1>3. DOMAIN r = DOMAIN db[o] /\ \A k \in DOMAIN r \ KriteriaPenilaian : r[k] = db[o][k]
  BY RedesainAssumption, KolomTimpa
<1>. HIDE DEF r
<1>4. DOMAIN s = DOMAIN db[o] /\ s.saran = HitungSaran(s) /\ \A k \in DOMAIN r \ {"saran"} : s[k] = r[k]
  BY <1>2, <1>3, Terhitung
<1>5. GantiBersyarat(p, o, {}, s)
  BY <1>1 DEF UbahIsiPenilaian, r
<1>6. Timpa(db[o], s) = [k \in DOMAIN db[o] |-> s[k]]
  BY <1>4 DEF Timpa
<1>. DEFINE z == Timpa(db[o], s)
<1>7. \A k \in KolomDinilai : z[k] = s[k]
  BY <1>2, <1>6
<1>8. \A k \in DOMAIN BelumDiputuskan \ {"saran"} : z[k] = db[o][k]
  BY <1>2, <1>3, <1>4, <1>7 DEF KolomDinilai, BelumDiputuskan, KriteriaPenilaian
<1>9. z.saran = HitungSaran(z)
  <2>1. HitungSaran(z) = HitungSaran(s)
    BY <1>7, SaranSama DEF KolomDinilai
  <2>. QED  BY <1>4, <1>7, <2>1 DEF KolomDinilai, BelumDiputuskan
<1>. HIDE DEF z
<1>10. ASSUME o \notin tumpang PROVE AturanBaris(o, z)
  <2>1. Rapi(db[o])
    BY <1>2, <1>10, Tempatan, LetakObyek DEF IndInv, KeadaanSah, AturanBaris
  <2>2. Rapi(z)
    BY <1>8, <1>9, <2>1 DEF Rapi, BelumDiputuskan
  <2>. QED  BY <1>2, <2>2 DEF AturanBaris
<1>. USE DEF z
<1>. QED  BY <1>5, <1>10, GantiTunggal

LEMMA RencanaPenilaianPutus ==
  ASSUME NEW p, PutuskanPenilaian(p) \/ StatusPenilaian(p), IndInv
  PROVE  Terencana(p)
<1>1. PICK o \in Baris("penilaian") : (\E d \in PenilaianPutuskan : Putuskan(p, o, d))
        \/ \E s \in PenilaianStatus : SetStatus(p, o, s)
  BY DEF PutuskanPenilaian, StatusPenilaian
<1>2. KolomDinilai \subseteq DOMAIN db[o] /\ o[1] = "penilaian"
  BY Tempatan, Letak DEF IndInv, KeadaanSah, KolomAda, Baris
<1>3. o \notin tumpang => Rapi(db[o])
  BY <1>2, Tempatan, LetakObyek DEF IndInv, KeadaanSah, AturanBaris
<1>4. ASSUME NEW u, DOMAIN u \subseteq DOMAIN BelumDiputuskan \ {"saran"}
      PROVE  /\ HitungSaran(Timpa(db[o], u)) = HitungSaran(db[o])
             /\ \A k \in DOMAIN BelumDiputuskan : Timpa(db[o], u)[k] = IF k \in DOMAIN u THEN u[k] ELSE db[o][k]
  <2>1. \A k \in KolomDinilai : Timpa(db[o], u)[k] = IF k \in DOMAIN u THEN u[k] ELSE db[o][k]
    BY <1>2, KolomTimpa
  <2>2. \A k \in KriteriaPenilaian : Timpa(db[o], u)[k] = db[o][k]
    BY <1>4, <2>1 DEF KolomDinilai, KriteriaPenilaian, BelumDiputuskan
  <2>. QED  BY <2>1, <2>2, SaranSama DEF KolomDinilai
<1>5. CASE \E d \in PenilaianPutuskan : Putuskan(p, o, d)
  <2>1. PICK d \in PenilaianPutuskan : Putuskan(p, o, d)
    BY <1>5
  <2>. DEFINE u == Gabung(d, [status |-> "Telah diputuskan", saran_keputusan |-> db[o].saran])
  <2>2. DOMAIN d = {"prioritas", "alasan", "pemutus"}
        /\ d.prioritas # Kosong /\ d.alasan # Kosong /\ d.pemutus # Kosong
    BY RedesainAssumption, KosongBukanBaris, Tempatan DEF PenilaianPutuskan, IndInv
  <2>3. /\ DOMAIN u = {"prioritas", "alasan", "pemutus", "status", "saran_keputusan"}
        /\ u.prioritas # Kosong /\ u.alasan # Kosong /\ u.pemutus # Kosong
        /\ u.saran_keputusan = db[o].saran
    BY <2>2 DEF Gabung
  <2>4. Ganti(p, o, {}, u)
    BY <2>1 DEF Putuskan
  <2>. HIDE DEF u
  <2>5. ASSUME o \notin tumpang PROVE Rapi(Timpa(db[o], u))
    <3>1. db[o].saran = HitungSaran(db[o])
      BY <1>3, <2>5 DEF Rapi
    <3>. DEFINE z == Timpa(db[o], u)
    <3>2. /\ HitungSaran(z) = HitungSaran(db[o]) /\ z.saran = db[o].saran
          /\ \A k \in {"prioritas", "alasan", "pemutus", "saran_keputusan"} : z[k] = u[k]
      BY <1>4, <2>3 DEF BelumDiputuskan
    <3>. HIDE DEF z
    <3>3. z.saran = HitungSaran(z)
      BY <3>1, <3>2
    <3>4. \A k \in {"prioritas", "alasan", "pemutus", "saran_keputusan"} : z[k] # Kosong
      BY <2>3, <3>1, <3>2, SaranAda
    <3>5. Rapi(z)
      BY <3>3, <3>4 DEF Rapi
    <3>. QED  BY <3>5 DEF z
  <2>. QED  BY <1>2, <2>3, <2>4, <2>5, GantiTunggal DEF AturanBaris
<1>6. CASE \E s \in PenilaianStatus : SetStatus(p, o, s)
  <2>1. PICK s \in PenilaianStatus : Ganti(p, o, {}, [status |-> s])
    BY <1>6 DEF SetStatus
  <2>. DEFINE u == [status |-> s]
  <2>2. DOMAIN u = {"status"} /\ u.status # "Telah diputuskan"
    BY DEF PenilaianStatus
  <2>. HIDE DEF u
  <2>3. ASSUME o \notin tumpang PROVE Rapi(Timpa(db[o], u))
    BY <1>3, <1>4, <2>2, <2>3 DEF Rapi, BelumDiputuskan
  <2>4. Ganti(p, o, {}, u)
    BY <2>1 DEF u
  <2>. QED  BY <1>2, <2>3, <2>4, GantiTunggal DEF AturanBaris
<1>. QED  BY <1>1, <1>5, <1>6

LEMMA RencanaRedesain ==
  ASSUME NEW p, PermintaanRedesain(p), IndInv
  PROVE  Terencana(p)
BY RencanaKonteks, RencanaKodeOrang, RencanaMasalah, RencanaProses, RencanaLangkah, RencanaSesiCakupan,
   RencanaAlternatif, RencanaPenilaianBaru, RencanaPenilaianUbah, RencanaPenilaianPutus
   DEF PermintaanRedesain

-------------------------------------------------------------------------------
(* The requests of the master data.                                          *)

LEMMA RencanaSekolah ==
  ASSUME NEW p, \/ BuatSekolah(p) \/ UbahSekolah(p) \/ HapusSekolah(p)
                \/ BuatJenjang(p) \/ UbahJenjang(p) \/ HapusJenjang(p)
  PROVE  Terencana(p)
BY Tempatan, Menambah, Mengganti, Membuang DEF BuatSekolah, SekolahBaru, UbahSekolah, UbahIsiSekolah,
   HapusSekolah, BuatJenjang, JenjangBaru, UbahJenjang, UbahIsiJenjang, HapusJenjang,
   TabelPlatform, TabelIsian, TabelIstimewa

LEMMA RencanaMapel ==
  ASSUME NEW p, \/ BuatMapel(p) \/ UbahMapel(p) \/ HapusMapel(p)
                \/ BuatJabatan(p) \/ UbahJabatan(p) \/ HapusJabatan(p)
  PROVE  Terencana(p)
BY Tempatan, Menambah, Mengganti, Membuang DEF BuatMapel, MapelBaru, UbahMapel, UbahIsiMapel,
   HapusMapel, BuatJabatan, JabatanBaru, UbahJabatan, UbahIsiJabatan, HapusJabatan,
   TabelPlatform, TabelIsian, TabelIstimewa

LEMMA RencanaPartisipan ==
  ASSUME NEW p, UbahPartisipan(p) \/ HapusPartisipan(p)
  PROVE  Terencana(p)
<1>1. CASE UbahPartisipan(p)
  <2>1. PICK o \in Baris("partisipan"), u \in PartisipanUpdate : GantiBersyarat(p, o, {}, u)
    BY <1>1 DEF UbahPartisipan, UbahIsiPartisipan
  <2>2. PICK d \in PartisipanCreate : DOMAIN u \subseteq DOMAIN d
    BY KolomSebagian DEF PartisipanUpdate
  <2>3. "subjek" \notin DOMAIN u
    BY <2>2 DEF PartisipanCreate
  <2>4. AturanBaris(o, Timpa(db[o], u))
    BY Tempatan, Letak DEF AturanBaris
  <2>. QED  BY <2>1, <2>3, <2>4, GantiTunggal
<1>2. CASE HapusPartisipan(p)
  BY <1>2, Membuang DEF HapusPartisipan, TabelPlatform, TabelIsian
<1>. QED  BY <1>1, <1>2

LEMMA RencanaPenugasan ==
  ASSUME NEW p, BuatPenugasan(p) \/ BuatPenugasanBanyak(p) \/ UbahPenugasan(p) \/ HapusPenugasan(p)
  PROVE  Terencana(p)
<1>1. ASSUME BuatPenugasanBanyak(p) PROVE Terencana(p)
  <2>1. PICK S, aktif : PenugasanBanyak(p, S, aktif)
    BY <1>1 DEF BuatPenugasanBanyak
  <2>. DEFINE calon == {t \in S : Bebas("ts_penugasan", "partisipan", t, {})}
  <2>2. PICK f \in [calon -> {o \in Rak("ts_penugasan") : db[o] = Tiada /\ o \notin Dipesan}] :
          Rencanakan(p, {}, [o \in {f[t] : t \in calon} |->
            [partisipan |-> CHOOSE t \in calon : f[t] = o, aktif |-> aktif]])
    BY <2>1 DEF PenugasanBanyak
  <2>. HIDE DEF calon
  <2>. DEFINE isi == [o \in {f[t] : t \in calon} |->
            [partisipan |-> CHOOSE t \in calon : f[t] = o, aktif |-> aktif]]
  <2>3. \A o \in DOMAIN isi : o[1] = "ts_penugasan"
    BY Letak
  <2>4. RencanakanBila(p, {}, isi, {})
    BY <2>2 DEF Rencanakan
  <2>. HIDE DEF isi
  <2>. QED  BY <2>3, <2>4, Sederhana DEF Halaman, Bertanda, TabelPlatform, TabelIstimewa
<1>2. BuatPenugasan(p) \/ UbahPenugasan(p) \/ HapusPenugasan(p) => Terencana(p)
  BY Tempatan, Menambah, Mengganti, Membuang DEF BuatPenugasan, PenugasanBaru, UbahPenugasan,
     UbahIsiPenugasan, HapusPenugasan, TabelPlatform, TabelIsian, TabelIstimewa
<1>. QED  BY <1>1, <1>2

LEMMA RencanaLog ==
  ASSUME NEW p, BuatLog(p) \/ UbahLog(p)
  PROVE  Terencana(p)
<1>1. CASE BuatLog(p)
  <2>1. PICK t, d, baca : LogBaru(p, t, d, baca)
    BY <1>1 DEF BuatLog
  <2>. DEFINE r == [tanggal |-> d.tanggal, masuk |-> d.masuk, keluar |-> d.keluar,
                    menit |-> d.menit, partisipan |-> t]
  <2>2. Wajar(r) /\ Tambah(p, BarisBaru("ts_log"), baca, r)
    BY <2>1 DEF LogBaru, Wajar
  <2>3. \A o \in BarisBaru("ts_log") : AturanBaris(o, r)
    BY <2>2, Tempatan, Letak DEF AturanBaris
  <2>. HIDE DEF r
  <2>. QED  BY <2>2, <2>3, Tempatan, TambahTunggal
<1>2. CASE UbahLog(p)
  <2>1. PICK o \in Baris("ts_log"), g \in Aktif, u \in TsLogUpdate : Wajar(Timpa(db[o], u)) /\ Ganti(p, o, {g}, u)
    BY <1>2 DEF UbahLog, UbahIsiLog
  <2>2. AturanBaris(o, Timpa(db[o], u))
    BY <2>1, Tempatan, Letak DEF AturanBaris
  <2>. QED  BY <2>1, <2>2, GantiTunggal
<1>. QED  BY <1>1, <1>2

\* What touches a panel or its seats.
LEMMA Panel ==
  ASSUME NEW p, NEW baca, NEW isi, NEW syarat, RencanakanBila(p, baca, isi, syarat),
         \A o \in DOMAIN isi : o[1] \in {"sme_panel", "sme_panel_anggota"},
         Bertanda(isi, syarat), KursiLayak(baca, isi)
  PROVE  Terencana(p)
<1>1. RencanaRujukan(Rancangan(baca, isi, syarat))
  BY TanpaRujukan DEF TabelMerujuk
<1>2. BarisLayak(isi)
  BY TanpaBentuk DEF BarisLayak, AturanBaris, TabelBerbentuk
<1>3. Berisi(Rancangan(baca, isi, syarat))
  BY TanpaIsian DEF TabelIsian
<1>. QED  BY <1>1, <1>2, <1>3 DEF Terencana, Layak, Halaman, TabelPlatform

LEMMA RencanaPanelBaru ==
  ASSUME NEW p, BuatPanel(p) \/ TambahAnggota(p)
  PROVE  Terencana(p)
<1>1. CASE BuatPanel(p)
  <2>1. PICK d \in SMEPanelCreate : Tambah(p, BarisBaru("sme_panel"), {}, d)
    BY <1>1 DEF BuatPanel, PanelBaru
  <2>2. PICK o \in BarisBaru("sme_panel") : Rencanakan(p, {}, [x \in {o} |-> d])
    BY <2>1 DEF Tambah
  <2>3. o[1] = "sme_panel"
    BY Tempatan, Letak
  <2>4. "koordinator" \in DOMAIN d /\ d.koordinator = Kosong
    BY DEF SMEPanelCreate, BarisPanel
  <2>. DEFINE isi == [x \in {o} |-> d]
  <2>5. KursiLayak({}, isi)
    BY <2>3, <2>4 DEF KursiLayak
  <2>. QED  BY <2>2, <2>3, <2>5, Panel DEF Rencanakan, Bertanda
<1>2. CASE TambahAnggota(p)
  <2>1. PICK d : Tambah(p, BarisBaru("sme_panel_anggota"), {}, d)
    BY <1>2 DEF TambahAnggota, TambahKursi
  <2>2. PICK a \in BarisBaru("sme_panel_anggota") : Rencanakan(p, {}, [x \in {a} |-> d])
    BY <2>1 DEF Tambah
  <2>3. a[1] = "sme_panel_anggota" /\ db[a] = Tiada
    BY Tempatan, Letak
  <2>. DEFINE isi == [x \in {a} |-> d]
  <2>4. KursiLayak({}, isi)
    BY <2>3 DEF KursiLayak
  <2>. QED  BY <2>2, <2>3, <2>4, Panel DEF Rencanakan, Bertanda
<1>. QED  BY <1>1, <1>2

LEMMA RencanaPanelUbah ==
  ASSUME NEW p, UbahPanel(p)
  PROVE  Terencana(p)
<1>1. PICK o \in Baris("sme_panel"), u \in SMEPanelUpdate :
        LET tunjuk == "koordinator" \in DOMAIN u /\ u.koordinator # Kosong
            kursi == IF tunjuk THEN BarisAnggota(o, u.koordinator) ELSE {} IN
        (tunjuk => kursi # {}) /\ GantiBersyarat(p, o, kursi, u)
  BY DEF UbahPanel, UbahIsiPanel
<1>. DEFINE tunjuk == "koordinator" \in DOMAIN u /\ u.koordinator # Kosong
            kursi == IF tunjuk THEN BarisAnggota(o, u.koordinator) ELSE {}
            isi == [x \in {o} |-> Beda(o, u)]
<1>2. PICK s \in Prasyarat(o) : RencanakanBila(p, kursi, isi, s)
  BY <1>1 DEF GantiBersyarat
<1>3. o[1] = "sme_panel" /\ db[o] # Tiada
  BY Tempatan, Letak
<1>4. ASSUME tunjuk
      PROVE  \E a \in kursi : /\ a \in Rak("sme_panel_anggota") /\ Nyata(db[a]) /\ a # o
                              /\ db[a].panel = o /\ db[a].partisipan = u.koordinator
  <2>1. PICK a : a \in BarisAnggota(o, u.koordinator)
    BY <1>1, <1>4
  <2>2. a \in Baris("sme_panel_anggota") /\ db[a].panel = o /\ db[a].partisipan = u.koordinator
    BY <2>1 DEF BarisAnggota, Anggota
  <2>3. a[1] = "sme_panel_anggota" /\ a \in Rak("sme_panel_anggota") /\ Nyata(db[a])
    BY <2>2, Tempatan, Letak
  <2>. QED  BY <1>3, <1>4, <2>1, <2>2, <2>3
<1>5. DOMAIN isi = {o} /\ isi[o] = Beda(o, u) /\ Bertanda(isi, s)
  BY Tertanda
<1>. HIDE DEF isi, kursi
<1>6. KursiLayak(kursi, isi)
  BY <1>3, <1>4, <1>5, KolomBeda DEF KursiLayak
<1>. QED  BY <1>2, <1>3, <1>5, <1>6, Panel

LEMMA RencanaPanelHapus ==
  ASSUME NEW p, HapusPanel(p) \/ HapusAnggota(p)
  PROVE  Terencana(p)
<1>1. \A o, a : o \in Baris("sme_panel") /\ a \in Anggota(o) =>
        /\ o[1] = "sme_panel" /\ a[1] = "sme_panel_anggota"
        /\ db[o] # Tiada /\ db[a].panel = o
  BY Tempatan, Letak DEF Anggota
<1>2. CASE HapusPanel(p)
  <2>1. PICK o \in Baris("sme_panel") : Rencanakan(p, {}, [x \in {o} \cup Anggota(o) |-> Bekas])
    BY <1>2 DEF HapusPanel
  <2>. DEFINE isi == [x \in {o} \cup Anggota(o) |-> Bekas]
  <2>2. o[1] = "sme_panel" /\ \A x \in DOMAIN isi : isi[x] = Bekas /\
          (x = o \/ (x[1] = "sme_panel_anggota" /\ db[x].panel = o))
    BY <1>1, Tempatan, Letak
  <2>3. RencanakanBila(p, {}, isi, {}) /\ o \in DOMAIN isi
    BY <2>1 DEF Rencanakan
  <2>. HIDE DEF isi
  <2>4. KursiLayak({}, isi)
    BY <2>2, <2>3 DEF KursiLayak
  <2>. QED  BY <2>2, <2>3, <2>4, Panel DEF Bertanda
<1>3. CASE HapusAnggota(p)
  <2>1. PICK o, a : o \in Baris("sme_panel") /\ a \in Anggota(o) /\ LepasKursi(p, o, a)
    BY <1>3 DEF HapusAnggota
  <2>. DEFINE u == IF db[o].koordinator = db[a].partisipan THEN [koordinator |-> Kosong] ELSE <<>>
              isi == [x \in {a, o} |-> IF x = a THEN Bekas ELSE Beda(o, u)]
  <2>2. o[1] = "sme_panel" /\ a[1] = "sme_panel_anggota" /\ db[o] # Tiada /\ db[a].panel = o
    BY <1>1, <2>1
  <2>3. RencanakanBila(p, {}, isi, {})
    BY <2>1 DEF LepasKursi, Rencanakan
  <2>4. DOMAIN isi = {a, o} /\ isi[a] = Bekas /\ isi[o] = Beda(o, u)
    BY <2>2
  <2>5. /\ "koordinator" \in DOMAIN isi[o] => isi[o].koordinator = Kosong
        /\ "koordinator" \notin DOMAIN isi[o] =>
             db[o].koordinator = Kosong \/ db[o].koordinator # db[a].partisipan
    BY <2>4, KolomBeda
  <2>. HIDE DEF isi
  <2>6. KursiLayak({}, isi)
    BY <2>2, <2>4, <2>5 DEF KursiLayak
  <2>. QED  BY <2>2, <2>3, <2>4, <2>6, Panel DEF Bertanda
<1>. QED  BY <1>2, <1>3

LEMMA RencanaInduk ==
  ASSUME NEW p, PermintaanInduk(p), ~BuatPartisipan(p)
  PROVE  Terencana(p)
BY RencanaSekolah, RencanaMapel, RencanaPartisipan, RencanaPenugasan, RencanaLog, RencanaPanelBaru,
   RencanaPanelUbah, RencanaPanelHapus DEF PermintaanInduk

-------------------------------------------------------------------------------
(* The requests of the catalogue.                                            *)

\* The columns of main duties and details.
LEMMA TempatJabatan ==
  ASSUME muat \in Muatan
  PROVE  Jabatan \subseteq {"jabatan"} \X Nat /\ Rak("tp") \subseteq {"tp"} \X Nat
<1>1. ASSUME NEW t, NEW o \in Rak(t) PROVE o \in {t} \X Nat
  BY <1>1, Letak, PermintaanAssumption
<1>. QED  BY <1>1 DEF Jabatan

LEMMA TimpaBentuk ==
  ASSUME NEW w, NEW u, NEW v,
         DOMAIN u \subseteq DOMAIN v, \A k \in DOMAIN u : u[k] = v[k]
  PROVE  /\ w \in BentukTp /\ v \in BentukTp => Timpa(w, u) \in BentukTp
         /\ w \in BentukDt /\ v \in BentukDt => Timpa(w, u) \in BentukDt
BY DEF Timpa, BentukTp, BentukDt

LEMMA RencanaTp ==
  ASSUME NEW p, BuatTp(p) \/ UbahTp(p) \/ HapusTp(p), IndInv
  PROVE  Terencana(p)
<1>1. BarisTp \subseteq BentukTp
  BY TempatJabatan DEF BarisTp, BentukTp, SebagianJabatan, NamaKatalog, IndInv
<1>2. CASE BuatTp(p)
  <2>1. PICK d \in BarisTp : Tambah(p, BarisBaru("tp"), {}, d)
    BY <1>2 DEF BuatTp, TugasPokokCreate, TpBaru
  <2>2. \A o \in BarisBaru("tp") : Bentuk(o, d) /\ Dirujuk({}, o, d)
    BY <1>1, Tempatan, Letak DEF Bentuk, Dirujuk
  <2>. QED  BY <2>1, <2>2, Tempatan, TambahRujukan
<1>3. CASE UbahTp(p)
  <2>1. PICK o \in Baris("tp"), u \in TugasPokokUpdate : GantiBersyarat(p, o, {}, u)
    BY <1>3 DEF UbahTp, UbahIsiTp
  <2>2. PICK d \in BarisTp : DOMAIN u \subseteq DOMAIN d /\ \A k \in DOMAIN u : u[k] = d[k]
    BY KolomSebagian DEF TugasPokokUpdate
  <2>3. o[1] = "tp" /\ db[o] \in BentukTp
    BY Berbentuk DEF Bentuk, TabelBerbentuk
  <2>4. Timpa(db[o], u) \in BentukTp
    BY <1>1, <2>2, <2>3, TimpaBentuk
  <2>5. Bentuk(o, Timpa(db[o], u)) /\ Dirujuk({}, o, Timpa(db[o], u))
    BY <2>3, <2>4 DEF Bentuk, Dirujuk
  <2>. QED  BY <2>1, <2>5, GantiRujukan
<1>4. CASE HapusTp(p)
  BY <1>4, Membuang DEF HapusTp, TabelPlatform, TabelIsian
<1>. QED  BY <1>2, <1>3, <1>4

LEMMA RencanaDt ==
  ASSUME NEW p, BuatDt(p) \/ UbahDt(p) \/ HapusDt(p), IndInv
  PROVE  Terencana(p)
<1>1. BarisDt \subseteq BentukDt /\ \A d \in BarisDt : d.tp \in Rak("tp")
  BY TempatJabatan, Tempatan DEF BarisDt, BentukDt, SebagianJabatan, NamaKatalog, IndInv
<1>2. CASE BuatDt(p)
  <2>1. PICK d \in BarisDt : JabatanSubset(db, d) /\ Tambah(p, BarisBaru("dt"), {d.tp}, d)
    BY <1>2 DEF BuatDt, DetilTugasCreate, DtBaru
  <2>2. \A o \in BarisBaru("dt") : Bentuk(o, d) /\ Dirujuk({d.tp}, o, d)
    BY <1>1, <2>1, Tempatan, Letak DEF Bentuk, Dirujuk
  <2>. QED  BY <2>1, <2>2, Tempatan, TambahRujukan
<1>3. CASE UbahDt(p)
  <2>1. PICK o \in Baris("dt"), u \in DetilTugasUpdate : UbahIsiDt(p, o, u)
    BY <1>3 DEF UbahDt
  <2>2. PICK d \in BarisDt : DOMAIN u \subseteq DOMAIN d /\ \A k \in DOMAIN u : u[k] = d[k]
    BY KolomSebagian DEF DetilTugasUpdate
  <2>3. o[1] = "dt" /\ db[o] \in BentukDt /\ db[o].tp \in Rak("tp")
    BY Berbentuk DEF Bentuk, TabelBerbentuk
  <2>. DEFINE w == Timpa(db[o], u)
  <2>4. w \in BentukDt
    BY <1>1, <2>2, <2>3, TimpaBentuk
  <2>5. w.tp \in Rak("tp")
    <3>1. "tp" \in DOMAIN db[o]
      BY <2>3 DEF BentukDt
    <3>. QED  BY <1>1, <2>2, <2>3, <3>1, KolomTimpa
  <2>6. Bentuk(o, w)
    BY <2>3, <2>4, <2>5 DEF Bentuk
  <2>7. CASE DOMAIN u \cap {"tp", "jabatan"} = {}
    <3>1. GantiBersyarat(p, o, {}, u)
      BY <2>1, <2>7 DEF UbahIsiDt
    <3>. QED  BY <2>6, <2>7, <3>1, GantiRujukan
  <2>8. CASE DOMAIN u \cap {"tp", "jabatan"} # {}
    <3>1. JabatanSubset(db, w) /\ GantiBersyarat(p, o, {w.tp}, u)
      BY <2>1, <2>8 DEF UbahIsiDt
    <3>. HIDE DEF w
    <3>2. Dirujuk({w.tp}, o, w)
      BY <2>3, <2>5, <3>1 DEF Dirujuk
    <3>. QED  BY <2>6, <3>1, <3>2, GantiRujukan DEF w
  <2>. QED  BY <2>7, <2>8
<1>4. CASE HapusDt(p)
  BY <1>4, Membuang DEF HapusDt, TabelPlatform, TabelIsian
<1>. QED  BY <1>2, <1>3, <1>4

LEMMA RencanaUt ==
  ASSUME NEW p, BuatUt(p) \/ UbahUt(p) \/ HapusUt(p), IndInv
  PROVE  Terencana(p)
<1>1. \A d \in BarisUt : DOMAIN d = {"kode", "jabatan", "dt", "tp"} /\ d.dt \in AtauKosong(Rak("dt"))
  BY Tempatan DEF BarisUt, AtauKosong
<1>2. CASE BuatUt(p)
  <2>1. PICK d \in BarisUt : JabatanDiDt(db, d) /\ Tambah(p, BarisBaru("ut"), BacaDt(d), d)
    BY <1>2 DEF BuatUt, UraianTugasCreate, UtBaru
  <2>2. \A o \in BarisBaru("ut") : Bentuk(o, d) /\ Dirujuk(BacaDt(d), o, d)
    BY <1>1, <2>1, Tempatan, Letak DEF Bentuk, Dirujuk, BacaDt, AtauKosong
  <2>. QED  BY <2>1, <2>2, Tempatan, TambahRujukan
<1>3. CASE UbahUt(p)
  <2>1. PICK o \in Baris("ut"), u \in UraianTugasUpdate : UbahIsiUt(p, o, u)
    BY <1>3 DEF UbahUt
  <2>2. PICK d \in BarisUt : DOMAIN u \subseteq DOMAIN d /\ \A k \in DOMAIN u : u[k] = d[k]
    BY KolomSebagian DEF UraianTugasUpdate
  <2>3. o[1] = "ut" /\ {"dt", "jabatan"} \subseteq DOMAIN db[o] /\ db[o].dt \in AtauKosong(Rak("dt"))
    BY Berbentuk DEF Bentuk, TabelBerbentuk
  <2>. DEFINE w == Timpa(db[o], u)
  <2>4. {"dt", "jabatan"} \subseteq DOMAIN w /\ w.dt \in AtauKosong(Rak("dt"))
    BY <1>1, <2>2, <2>3, KolomTimpa
  <2>5. Bentuk(o, w)
    BY <2>3, <2>4 DEF Bentuk
  <2>6. CASE DOMAIN u \cap {"dt", "jabatan"} = {}
    <3>1. GantiBersyarat(p, o, {}, u)
      BY <2>1, <2>6 DEF UbahIsiUt
    <3>. QED  BY <2>5, <2>6, <3>1, GantiRujukan
  <2>7. CASE DOMAIN u \cap {"dt", "jabatan"} # {}
    <3>1. JabatanDiDt(db, w) /\ GantiBersyarat(p, o, BacaDt(w), u)
      BY <2>1, <2>7 DEF UbahIsiUt
    <3>. HIDE DEF w
    <3>2. Dirujuk(BacaDt(w), o, w)
      BY <2>3, <2>4, <3>1 DEF Dirujuk, BacaDt, AtauKosong
    <3>. QED  BY <2>5, <3>1, <3>2, GantiRujukan DEF w
  <2>. QED  BY <2>6, <2>7
<1>4. CASE HapusUt(p)
  BY <1>4, Membuang DEF HapusUt, TabelPlatform, TabelIsian
<1>. QED  BY <1>2, <1>3, <1>4

LEMMA RencanaSesiPurge ==
  ASSUME NEW p, BukaSesi(p) \/ HapusSesi(p) \/ Purge(p)
  PROVE  Terencana(p)
<1>1. ASSUME Purge(p) PROVE Terencana(p)
  <2>. DEFINE isi == [o \in Baris("ut") \cup Baris("tp") \cup Baris("dt") |-> Bekas]
  <2>1. RencanakanBila(p, {}, isi, {})
    BY <1>1 DEF Purge, KosongkanKatalog, Rencanakan
  <2>2. \A o \in DOMAIN isi : o[1] \in {"ut", "tp", "dt"} /\ isi[o] = Bekas
    BY Tempatan, Letak
  <2>. HIDE DEF isi
  <2>3. RencanaRujukan(Rancangan({}, isi, {}))
    BY <2>2 DEF RencanaRujukan, Rancangan
  <2>5. Berisi(Rancangan({}, isi, {}))
    BY <2>2, TanpaIsian DEF TabelIsian
  <2>4. Layak({}, isi, {})
    BY <2>2, <2>3, <2>5 DEF Layak, Halaman, Bertanda, BarisLayak, KursiLayak, TabelPlatform
  <2>. QED  BY <2>1, <2>4 DEF Terencana
<1>2. BukaSesi(p) \/ HapusSesi(p) => Terencana(p)
  BY Tempatan, Menambah, Membuang DEF BukaSesi, HapusSesi, TabelPlatform, TabelIsian, TabelIstimewa
<1>. QED  BY <1>1, <1>2

\* The places of the records of a file, in the table that is asked for: rows that
\* have their values, or that are not there, and each record has its own.
LEMMA Bertempat ==
  ASSUME NEW t, NEW S, NEW kolom, NEW f \in Tempat(t, S, kolom)
  PROVE  /\ DOMAIN f = S
         /\ \A s \in S : f[s] \in Rak(t) /\ f[s][1] = t
         /\ \A s \in S : db[f[s]] = Tiada \/ (f[s] \in Baris(t) /\ \A c \in kolom : db[f[s]][c] = s[c])
         /\ \A k, l \in S : f[k] = f[l] => k = l
BY Tempatan, Letak DEF Tempat

TabelKatalog == {"jabatan", "tp", "dt", "ut"}
Penempatan(j, t, u, d) ==
  /\ j \in Tempat("jabatan", {[nama |-> x.jabatan] : x \in KatalogBaku}, {"nama"})
  /\ t \in Tempat("tp", {[nama |-> x.tp] : x \in KatalogBaku}, {"nama"})
  /\ u \in Tempat("ut", {[kode |-> x.kode] : x \in KatalogBaku}, {"kode"})
  /\ d \in Tempat("dt", {Detil(t, x) : x \in Berdetil}, {"tp", "nama"})
JabatanLama(o) == IF Nyata(db[o]) THEN db[o].jabatan ELSE {}

\* Jobs that are added to a main duty or a detail.
LEMMA Bertambah ==
  ASSUME NEW o, NEW J \in SUBSET ({"jabatan"} \X Nat), db[o] \in BentukTp \cup BentukDt
  PROVE  LET v == Beda(o, [jabatan |-> db[o].jabatan \cup J])
             w == Timpa(db[o], v) IN
         /\ v # Bekas /\ DOMAIN w = DOMAIN db[o] /\ w.jabatan = db[o].jabatan \cup J
         /\ \A k \in DOMAIN db[o] \ {"jabatan"} : w[k] = db[o][k]
         /\ db[o] \in BentukTp => w \in BentukTp
         /\ db[o] \in BentukDt => w \in BentukDt
         /\ DOMAIN v \cap {"tp", "jabatan"} # {} => ~(J \subseteq db[o].jabatan)
<1>. DEFINE S == db[o].jabatan \cup J
            u == [jabatan |-> S]
            v == Beda(o, u)
            w == Timpa(db[o], v)
<1>1. "jabatan" \in DOMAIN db[o] /\ db[o].jabatan \in SUBSET ({"jabatan"} \X Nat)
  BY DEF BentukTp, BentukDt
<1>2. S \in SUBSET ({"jabatan"} \X Nat)
  BY <1>1
<1>3. DOMAIN u = {"jabatan"} /\ u.jabatan = S
  OBVIOUS
<1>4. v = [k \in {c \in {"jabatan"} : db[o][c] # S} |-> S]
  BY <1>3 DEF Beda
<1>5. v # Bekas /\ (DOMAIN v \cap {"tp", "jabatan"} # {} => db[o].jabatan # S)
  <2>1. CASE db[o].jabatan = S
    <3>1. v \in [{} -> Teks]
      BY <1>4, <2>1
    <3>. QED  BY <2>1, <3>1, <1>4, TandaBukanBaris
  <2>2. CASE db[o].jabatan # S
    <3>1. v \in [jabatan : SUBSET ({"jabatan"} \X Nat)]
      BY <1>2, <1>4, <2>2
    <3>. QED  BY <2>2, <3>1, TandaBukanBaris
  <2>. QED  BY <2>1, <2>2
<1>6. DOMAIN w = DOMAIN db[o] /\ \A k \in DOMAIN db[o] : w[k] = IF k = "jabatan" THEN S ELSE db[o][k]
  <2>1. w = Timpa(db[o], u)
    BY TimpaBeda
  <2>. HIDE DEF S, u, w
  <2>. QED  BY <1>3, <2>1, KolomTimpa
<1>7. w = [k \in DOMAIN db[o] |-> w[k]]
  BY DEF Timpa
<1>. HIDE DEF S, u, v, w
<1>8. (db[o] \in BentukTp => w \in BentukTp) /\ (db[o] \in BentukDt => w \in BentukDt)
  BY <1>2, <1>6, <1>7 DEF BentukTp, BentukDt
<1>. QED  BY <1>1, <1>5, <1>6, <1>8 DEF S, u, v, w

\* The row written for a main duty or a detail, from the columns it begins with.
LEMMA Digabungkan ==
  ASSUME IndInv, NEW t \in {"tp", "dt"}, NEW o \in Rak(t), db[o] = Tiada \/ o \in Baris(t),
         NEW awal, awal.jabatan = {}, NEW J \in SUBSET Jabatan, NEW isi, isi[o] = Gabungkan(o, awal, J),
         t = "tp" => awal \in BentukTp,
         t = "dt" => awal \in BentukDt /\ awal.tp \in Rak("tp")
  PROVE  LET w == Jadilah(isi, o) IN
         /\ isi[o] # Bekas /\ Bentuk(o, w) /\ w.jabatan = JabatanLama(o) \cup J
         /\ t = "dt" => w.tp = IF db[o] = Tiada THEN awal.tp ELSE db[o].tp
         /\ Nyata(db[o]) => isi[o] = Beda(o, [jabatan |-> db[o].jabatan \cup J])
         /\ db[o] # Tiada /\ DOMAIN isi[o] \cap {"tp", "jabatan"} # {} => ~(J \subseteq JabatanLama(o))
<1>1. o[1] = t /\ J \in SUBSET ({"jabatan"} \X Nat)
  BY Letak, TempatJabatan DEF IndInv
<1>2. CASE db[o] = Tiada
  <2>. DEFINE w == [awal EXCEPT !.jabatan = J]
  <2>1. isi[o] = w /\ Jadilah(isi, o) = w /\ JabatanLama(o) = {}
    BY <1>2 DEF Gabungkan, Jadilah, JabatanLama, Nyata
  <2>2. w.jabatan = J /\ (t = "tp" => w \in BentukTp) /\ (t = "dt" => w \in BentukDt /\ w.tp = awal.tp)
    BY <1>1 DEF BentukTp, BentukDt
  <2>. HIDE DEF w
  <2>3. w # Bekas
    BY <2>2, TandaBukanBaris
  <2>4. Bentuk(o, w)
    BY <1>1, <2>2 DEF Bentuk
  <2>. QED  BY <1>2, <2>1, <2>2, <2>3, <2>4 DEF Nyata
<1>3. CASE o \in Baris(t)
  <2>1. Nyata(db[o]) /\ db[o] # Tiada /\ Bentuk(o, db[o]) /\ JabatanLama(o) = db[o].jabatan
    BY <1>3, Tempatan, Berbentuk DEF TabelBerbentuk, JabatanLama
  <2>. DEFINE v == Beda(o, [jabatan |-> db[o].jabatan \cup J])
              w == Timpa(db[o], v)
  <2>2. isi[o] = v /\ Jadilah(isi, o) = w
    BY <2>1 DEF Gabungkan, Jadilah
  <2>3. (t = "tp" => db[o] \in BentukTp) /\ (t = "dt" => db[o] \in BentukDt /\ db[o].tp \in Rak("tp"))
    BY <1>1, <2>1 DEF Bentuk
  <2>4. /\ v # Bekas /\ DOMAIN w = DOMAIN db[o] /\ w.jabatan = db[o].jabatan \cup J
        /\ \A k \in DOMAIN db[o] \ {"jabatan"} : w[k] = db[o][k]
        /\ db[o] \in BentukTp => w \in BentukTp
        /\ db[o] \in BentukDt => w \in BentukDt
        /\ DOMAIN v \cap {"tp", "jabatan"} # {} => ~(J \subseteq db[o].jabatan)
    BY <1>1, <2>3, Bertambah
  <2>. HIDE DEF w
  <2>5. t = "dt" => w.tp = db[o].tp
    BY <2>3, <2>4 DEF BentukDt
  <2>6. Bentuk(o, w)
    BY <1>1, <2>3, <2>4, <2>5 DEF Bentuk
  <2>. QED  BY <2>1, <2>2, <2>4, <2>5, <2>6
<1>. QED  BY <1>2, <1>3

\* Jobs of the file have places among the jobs.
LEMMA UntukJabatan ==
  ASSUME NEW j, NEW t, NEW u, NEW d, Penempatan(j, t, u, d), NEW o
  PROVE  UntukTp(j, t, o) \in SUBSET Jabatan /\ UntukDt(j, t, d, o) \in SUBSET Jabatan
<1>1. \A x \in KatalogBaku : j[[nama |-> x.jabatan]] \in Jabatan
  BY Bertempat DEF Penempatan, Jabatan
<1>. QED  BY <1>1 DEF UntukTp, UntukDt, Berdetil

LEMMA TpDitulis ==
  ASSUME IndInv, NEW j, NEW t, NEW u, NEW k, NEW d, Penempatan(j, t, u, d), NEW o \in Anggotanya(t)
  PROVE  LET isi == BarisKatalog(j, t, u, k, d)
             w == Jadilah(isi, o) IN
         /\ o \in DOMAIN isi /\ o \in Rak("tp") /\ isi[o] # Bekas /\ Bentuk(o, w)
         /\ w.jabatan = JabatanLama(o) \cup UntukTp(j, t, o)
         /\ Nyata(db[o]) => isi[o] = Beda(o, [jabatan |-> db[o].jabatan \cup UntukTp(j, t, o)])
<1>. DEFINE isi == BarisKatalog(j, t, u, k, d)
            S == {[nama |-> x.tp] : x \in KatalogBaku}
            s == CHOOSE x \in DOMAIN t : t[x] = o
            awal == [nama |-> s.nama, jabatan |-> {}]
            J == UntukTp(j, t, o)
<1>1. /\ DOMAIN t = S /\ \A x \in S : t[x] \in Rak("tp") /\ t[x][1] = "tp"
      /\ \A x \in S : db[t[x]] = Tiada \/ t[x] \in Baris("tp")
  BY Bertempat DEF Penempatan
<1>2. s \in S /\ t[s] = o
  BY <1>1 DEF Anggotanya
<1>3. o \in Rak("tp") /\ o[1] = "tp" /\ (db[o] = Tiada \/ o \in Baris("tp"))
  BY <1>1, <1>2
<1>4. o \in DOMAIN isi /\ isi[o] = Gabungkan(o, awal, J)
  BY <1>3 DEF BarisKatalog
<1>5. awal.jabatan = {} /\ awal \in BentukTp
  <2>1. PICK x \in KatalogBaku : s = [nama |-> x.tp]
    BY <1>2
  <2>. HIDE DEF s
  <2>2. s.nama = x.tp
    BY <2>1
  <2>3. s.nama \in NamaKatalog
    BY <2>2 DEF NamaKatalog
  <2>. QED  BY <2>3 DEF BentukTp
<1>6. J \in SUBSET Jabatan
  BY UntukJabatan
<1>. HIDE DEF isi, awal, J
<1>7. PICK y : y = "tp"
  OBVIOUS
<1>8. /\ isi[o] # Bekas /\ Bentuk(o, Jadilah(isi, o)) /\ Jadilah(isi, o).jabatan = JabatanLama(o) \cup J
      /\ Nyata(db[o]) => isi[o] = Beda(o, [jabatan |-> db[o].jabatan \cup J])
  BY <1>3, <1>4, <1>5, <1>6, <1>7, Digabungkan
<1>. QED  BY <1>3, <1>4, <1>8 DEF isi, J

\* The jobs a detail of the file is for are jobs of its main duty.
LEMMA UntukSejalan ==
  ASSUME NEW j, NEW t, NEW u, NEW d, Penempatan(j, t, u, d), NEW s \in DOMAIN d
  PROVE  /\ UntukDt(j, t, d, d[s]) \subseteq UntukTp(j, t, s.tp)
         /\ s.tp \in Anggotanya(t) /\ s.nama \in NamaKatalog
<1>. DEFINE S == {Detil(t, x) : x \in Berdetil}
<1>1. DOMAIN d = S /\ \A x, y \in S : d[x] = d[y] => x = y
  BY Bertempat DEF Penempatan
<1>2. \A x \in Berdetil : x \in KatalogBaku /\ Detil(t, x).tp = t[[nama |-> x.tp]] /\ Detil(t, x).nama = x.dt
  BY DEF Berdetil, Detil
<1>3. \A y \in Berdetil : d[Detil(t, y)] = d[s] => t[[nama |-> y.tp]] = s.tp
  BY <1>1, <1>2
<1>4. UntukDt(j, t, d, d[s]) \subseteq UntukTp(j, t, s.tp)
  BY <1>2, <1>3 DEF UntukDt, UntukTp
<1>5. PICK x \in Berdetil : s = Detil(t, x)
  BY <1>1
<1>6. DOMAIN t = {[nama |-> y.tp] : y \in KatalogBaku}
  BY Bertempat DEF Penempatan
<1>7. s.tp \in Anggotanya(t) /\ s.nama \in NamaKatalog
  BY <1>2, <1>5, <1>6 DEF Anggotanya, NamaKatalog
<1>. QED  BY <1>4, <1>7

LEMMA DtDitulis ==
  ASSUME IndInv, NEW j, NEW t, NEW u, NEW k, NEW d, Penempatan(j, t, u, d), NEW s \in DOMAIN d
  PROVE  LET isi == BarisKatalog(j, t, u, k, d)
             o == d[s]
             w == Jadilah(isi, o)
             J == UntukDt(j, t, d, o) IN
         /\ o \in DOMAIN isi /\ o \in Rak("dt") /\ isi[o] # Bekas /\ Bentuk(o, w)
         /\ w.tp = s.tp /\ w.jabatan = JabatanLama(o) \cup J
         /\ Nyata(db[o]) => isi[o] = Beda(o, [jabatan |-> db[o].jabatan \cup J])
         /\ db[o] # Tiada /\ DOMAIN isi[o] \cap {"tp", "jabatan"} # {} => ~(J \subseteq JabatanLama(o))
<1>. DEFINE isi == BarisKatalog(j, t, u, k, d)
            o == d[s]
            S == {Detil(t, x) : x \in Berdetil}
            a == CHOOSE x \in DOMAIN d : d[x] = o
            awal == [nama |-> a.nama, tp |-> a.tp, jabatan |-> {}]
            J == UntukDt(j, t, d, o)
<1>1. PICK kolom : kolom = {"tp", "nama"} /\ d \in Tempat("dt", S, kolom)
  BY DEF Penempatan
<1>2. /\ DOMAIN d = S /\ \A x \in S : d[x] \in Rak("dt") /\ d[x][1] = "dt"
      /\ \A x \in S : db[d[x]] = Tiada \/ (d[x] \in Baris("dt") /\ \A c \in kolom : db[d[x]][c] = x[c])
      /\ \A x, y \in S : d[x] = d[y] => x = y
  BY <1>1, Bertempat
<1>3. a = s
  BY <1>2
<1>4. o \in Rak("dt") /\ o[1] = "dt" /\ (db[o] = Tiada \/ (o \in Baris("dt") /\ db[o].tp = s.tp))
  BY <1>1, <1>2
<1>5. o \in DOMAIN isi /\ isi[o] = Gabungkan(o, awal, J)
  BY <1>4 DEF BarisKatalog, Anggotanya
<1>6. s.tp \in Rak("tp") /\ s.nama \in NamaKatalog /\ s.tp \in {"tp"} \X Nat
  BY UntukSejalan, TpDitulis, TempatJabatan DEF IndInv
<1>7. awal.jabatan = {} /\ awal \in BentukDt /\ awal.tp = s.tp
  BY <1>3, <1>6 DEF BentukDt
<1>8. J \in SUBSET Jabatan
  BY UntukJabatan
<1>. HIDE DEF isi, awal, J
<1>9. PICK y : y = "dt"
  OBVIOUS
<1>10. /\ isi[o] # Bekas /\ Bentuk(o, Jadilah(isi, o)) /\ Jadilah(isi, o).jabatan = JabatanLama(o) \cup J
       /\ Jadilah(isi, o).tp = IF db[o] = Tiada THEN awal.tp ELSE db[o].tp
       /\ Nyata(db[o]) => isi[o] = Beda(o, [jabatan |-> db[o].jabatan \cup J])
       /\ db[o] # Tiada /\ DOMAIN isi[o] \cap {"tp", "jabatan"} # {} => ~(J \subseteq JabatanLama(o))
  BY <1>4, <1>5, <1>6, <1>7, <1>8, <1>9, Digabungkan
<1>11. Jadilah(isi, o).tp = s.tp
  BY <1>4, <1>7, <1>10
<1>. QED  BY <1>4, <1>5, <1>10, <1>11 DEF isi, J

LEMMA UtDitulis ==
  ASSUME IndInv, NEW j, NEW t, NEW u, NEW k, NEW d, Penempatan(j, t, u, d), NEW o \in Anggotanya(u), db[o] = Tiada
  PROVE  LET isi == BarisKatalog(j, t, u, k, d)
             w == Jadilah(isi, o) IN
         /\ o \in DOMAIN isi /\ o \in Rak("ut") /\ Bentuk(o, w)
         /\ w.dt # Kosong => \E s \in DOMAIN d : w.dt = d[s] /\ w.jabatan \in UntukDt(j, t, d, w.dt)
<1>. DEFINE isi == BarisKatalog(j, t, u, k, d)
            S == {[kode |-> x.kode] : x \in KatalogBaku}
            s == CHOOSE x \in DOMAIN u : u[x] = o
            x == CHOOSE y \in KatalogBaku : y.kode = s.kode
            w == [kode |-> x.kode, jabatan |-> j[[nama |-> x.jabatan]],
                  dt |-> IF x.dt = Kosong THEN Kosong ELSE d[Detil(t, x)], tp |-> t[[nama |-> x.tp]]]
<1>1. DOMAIN u = S /\ \A y \in S : u[y] \in Rak("ut") /\ u[y][1] = "ut"
  BY Bertempat DEF Penempatan
<1>2. s \in S /\ u[s] = o
  BY <1>1 DEF Anggotanya
<1>3. o \in Rak("ut") /\ o[1] = "ut"
  BY <1>1, <1>2
<1>4. x \in KatalogBaku
  <2>1. PICK y \in KatalogBaku : s = [kode |-> y.kode]
    BY <1>2
  <2>. HIDE DEF s
  <2>2. y.kode = s.kode
    BY <2>1
  <2>. QED  BY <2>2
<1>5. o \in DOMAIN isi /\ isi[o] = w
  BY <1>3 DEF BarisKatalog
<1>6. Jadilah(isi, o) = w
  BY <1>5 DEF Jadilah
<1>7. DOMAIN d = {Detil(t, y) : y \in Berdetil} /\ \A y \in DOMAIN d : d[y] \in Rak("dt")
  BY Bertempat DEF Penempatan
<1>. HIDE DEF x
<1>8. CASE x.dt = Kosong
  <2>1. w.dt = Kosong /\ {"dt", "jabatan"} \subseteq DOMAIN w
    BY <1>8
  <2>. HIDE DEF w, isi
  <2>2. Bentuk(o, w)
    BY <1>3, <2>1 DEF Bentuk, AtauKosong
  <2>. QED  BY <1>3, <1>5, <1>6, <2>1, <2>2 DEF isi
<1>9. CASE x.dt # Kosong
  <2>1. x \in Berdetil /\ Detil(t, x) \in DOMAIN d
    BY <1>4, <1>7, <1>9 DEF Berdetil
  <2>2. w.dt = d[Detil(t, x)] /\ w.jabatan = j[[nama |-> x.jabatan]] /\ {"dt", "jabatan"} \subseteq DOMAIN w
    BY <1>9
  <2>. HIDE DEF w, isi
  <2>3. w.jabatan \in UntukDt(j, t, d, w.dt)
    BY <2>1, <2>2 DEF UntukDt
  <2>4. Bentuk(o, w)
    BY <1>3, <1>7, <2>1, <2>2 DEF Bentuk, AtauKosong
  <2>. QED  BY <1>3, <1>5, <1>6, <2>1, <2>2, <2>3, <2>4 DEF isi
<1>. QED  BY <1>8, <1>9

\* Rows of the catalogue, written together: of those that are there, main duties
\* and details that get jobs; each with the jobs of the row above it.
IsiKatalog(isi) == \A o \in DOMAIN isi : LET w == Jadilah(isi, o) IN
  /\ o[1] \in TabelKatalog /\ Bentuk(o, w)
  /\ o[1] \in {"tp", "dt"} => isi[o] # Bekas
  /\ o[1] = "dt" /\ (db[o] = Tiada \/ DOMAIN isi[o] \cap {"tp", "jabatan"} # {}) =>
       w.tp \in DOMAIN isi \cap Rak("tp") /\ w.jabatan \subseteq Jadilah(isi, w.tp).jabatan
  /\ o[1] = "ut" /\ w.dt # Kosong =>
       w.dt \in DOMAIN isi \cap Rak("dt") /\ w.jabatan \in Jadilah(isi, w.dt).jabatan
  /\ Nyata(db[o]) => o[1] \in {"tp", "dt"} /\
       \E J \in SUBSET Jabatan : isi[o] = Beda(o, [jabatan |-> db[o].jabatan \cup J])

\* A seeding writes these, besides what is written with it.
LEMMA TulisKatalog ==
  ASSUME IndInv, NEW p, NEW lain, SeedKatalog(p, lain)
  PROVE  \E isi : Rencanakan(p, {}, Gabung(lain, isi)) /\ IsiKatalog(isi)
<1>1. PICK j \in Tempat("jabatan", {[nama |-> x.jabatan] : x \in KatalogBaku}, {"nama"}),
           t \in Tempat("tp", {[nama |-> x.tp] : x \in KatalogBaku}, {"nama"}),
           u \in Tempat("ut", {[kode |-> x.kode] : x \in KatalogBaku}, {"kode"}),
           k \in KodeJabatan({x.jabatan : x \in KatalogBaku}) :
        \E d \in Tempat("dt", {Detil(t, x) : x \in Berdetil}, {"tp", "nama"}) :
          /\ \A s \in DOMAIN d : ~(UntukDt(j, t, d, d[s]) \subseteq JabatanLama(d[s])) =>
               JabatanLama(d[s]) \subseteq JabatanLama(s.tp) \cup UntukTp(j, t, s.tp)
          /\ Rencanakan(p, {}, Gabung(lain, BarisKatalog(j, t, u, k, d)))
  BY Zenon DEF SeedKatalog, JabatanLama
<1>2. PICK d \in Tempat("dt", {Detil(t, x) : x \in Berdetil}, {"tp", "nama"}) :
        /\ \A s \in DOMAIN d : ~(UntukDt(j, t, d, d[s]) \subseteq JabatanLama(d[s])) =>
             JabatanLama(d[s]) \subseteq JabatanLama(s.tp) \cup UntukTp(j, t, s.tp)
        /\ Rencanakan(p, {}, Gabung(lain, BarisKatalog(j, t, u, k, d)))
  BY <1>1
<1>3. Penempatan(j, t, u, d)
  BY <1>1, <1>2 DEF Penempatan
<1>. DEFINE isi == BarisKatalog(j, t, u, k, d)
<1>4. \A o \in DOMAIN isi : \/ o \in Anggotanya(j) /\ db[o] = Tiada
                            \/ o \in Anggotanya(u) /\ db[o] = Tiada
                            \/ o \in Anggotanya(t)
                            \/ \E s \in DOMAIN d : o = d[s]
  BY DEF BarisKatalog, Anggotanya
<1>5. \A x \in Anggotanya(j) : x[1] = "jabatan"
  BY <1>3, Bertempat DEF Anggotanya, Penempatan
<1>6. \A o \in Anggotanya(t) :
         /\ o \in DOMAIN isi /\ o \in Rak("tp") /\ isi[o] # Bekas /\ Bentuk(o, Jadilah(isi, o))
         /\ Jadilah(isi, o).jabatan = JabatanLama(o) \cup UntukTp(j, t, o)
         /\ Nyata(db[o]) => isi[o] = Beda(o, [jabatan |-> db[o].jabatan \cup UntukTp(j, t, o)])
  BY <1>3, TpDitulis
<1>7. \A s \in DOMAIN d : LET o == d[s]
                              w == Jadilah(isi, o)
                              J == UntukDt(j, t, d, o) IN
         /\ o \in DOMAIN isi /\ o \in Rak("dt") /\ isi[o] # Bekas /\ Bentuk(o, w)
         /\ w.tp = s.tp /\ w.jabatan = JabatanLama(o) \cup J
         /\ Nyata(db[o]) => isi[o] = Beda(o, [jabatan |-> db[o].jabatan \cup J])
         /\ db[o] # Tiada /\ DOMAIN isi[o] \cap {"tp", "jabatan"} # {} => ~(J \subseteq JabatanLama(o))
  BY <1>3, DtDitulis
<1>8. \A o \in Anggotanya(u) : db[o] = Tiada =>
         /\ o \in Rak("ut") /\ Bentuk(o, Jadilah(isi, o))
         /\ LET w == Jadilah(isi, o) IN
            w.dt # Kosong => \E s \in DOMAIN d : w.dt = d[s] /\ w.jabatan \in UntukDt(j, t, d, w.dt)
  BY <1>3, UtDitulis
<1>. HIDE DEF isi
<1>9. \A o : UntukTp(j, t, o) \in SUBSET Jabatan /\ UntukDt(j, t, d, o) \in SUBSET Jabatan
  BY <1>3, UntukJabatan
<1>. DEFINE Sesuai(o) == LET w == Jadilah(isi, o) IN
              /\ o[1] \in TabelKatalog /\ Bentuk(o, w)
              /\ o[1] \in {"tp", "dt"} => isi[o] # Bekas
              /\ o[1] = "dt" /\ (db[o] = Tiada \/ DOMAIN isi[o] \cap {"tp", "jabatan"} # {}) =>
                   w.tp \in DOMAIN isi \cap Rak("tp") /\ w.jabatan \subseteq Jadilah(isi, w.tp).jabatan
              /\ o[1] = "ut" /\ w.dt # Kosong =>
                   w.dt \in DOMAIN isi \cap Rak("dt") /\ w.jabatan \in Jadilah(isi, w.dt).jabatan
              /\ Nyata(db[o]) => o[1] \in {"tp", "dt"} /\
                   \E J \in SUBSET Jabatan : isi[o] = Beda(o, [jabatan |-> db[o].jabatan \cup J])
<1>10. ASSUME NEW o \in Anggotanya(j), db[o] = Tiada PROVE Sesuai(o)
  <2>1. o[1] = "jabatan"
    BY <1>5, <1>10
  <2>. QED  BY <1>10, <2>1, TanpaBentuk DEF TabelKatalog, TabelBerbentuk, Nyata
<1>11. ASSUME NEW o \in Anggotanya(t) PROVE Sesuai(o)
  <2>1. o[1] = "tp"
    BY <1>6, <1>11, Letak
  <2>. QED  BY <1>6, <1>9, <1>11, <2>1 DEF TabelKatalog
<1>12. ASSUME NEW s \in DOMAIN d, NEW o, o = d[s] PROVE Sesuai(o)
  <2>. DEFINE w == Jadilah(isi, o)
              J == UntukDt(j, t, d, o)
  <2>1. o[1] = "dt" /\ isi[o] # Bekas /\ Bentuk(o, w) /\ w.tp = s.tp /\ w.jabatan = JabatanLama(o) \cup J
    BY <1>7, <1>12, Letak
  <2>2. /\ Nyata(db[o]) => isi[o] = Beda(o, [jabatan |-> db[o].jabatan \cup J])
        /\ db[o] # Tiada /\ DOMAIN isi[o] \cap {"tp", "jabatan"} # {} => ~(J \subseteq JabatanLama(o))
    BY <1>7, <1>12
  <2>3. J \subseteq UntukTp(j, t, s.tp) /\ s.tp \in Anggotanya(t)
    BY <1>3, <1>12, UntukSejalan
  <2>4. s.tp \in DOMAIN isi \cap Rak("tp") /\ Jadilah(isi, s.tp).jabatan = JabatanLama(s.tp) \cup UntukTp(j, t, s.tp)
    BY <1>6, <2>3
  <2>5. ASSUME db[o] = Tiada \/ DOMAIN isi[o] \cap {"tp", "jabatan"} # {}
        PROVE  w.jabatan \subseteq Jadilah(isi, w.tp).jabatan
    <3>1. CASE db[o] = Tiada
      <4>1. JabatanLama(o) = {}
        BY <3>1 DEF JabatanLama, Nyata
      <4>. QED  BY <2>1, <2>3, <2>4, <4>1
    <3>2. CASE db[o] # Tiada
      <4>1. ~(J \subseteq JabatanLama(o))
        BY <2>2, <2>5, <3>2
      <4>2. JabatanLama(o) \subseteq JabatanLama(s.tp) \cup UntukTp(j, t, s.tp)
        BY <1>2, <1>12, <4>1
      <4>. QED  BY <2>1, <2>3, <2>4, <4>2
    <3>. QED  BY <3>1, <3>2
  <2>. HIDE DEF w
  <2>6. /\ o[1] = "dt" /\ (db[o] = Tiada \/ DOMAIN isi[o] \cap {"tp", "jabatan"} # {}) =>
             w.tp \in DOMAIN isi \cap Rak("tp") /\ w.jabatan \subseteq Jadilah(isi, w.tp).jabatan
        /\ Nyata(db[o]) => \E L \in SUBSET Jabatan : isi[o] = Beda(o, [jabatan |-> db[o].jabatan \cup L])
    BY <1>9, <2>1, <2>2, <2>4, <2>5
  <2>. QED  BY <2>1, <2>6 DEF TabelKatalog, w
<1>13. ASSUME NEW o \in Anggotanya(u), db[o] = Tiada PROVE Sesuai(o)
  <2>. DEFINE w == Jadilah(isi, o)
  <2>1. o[1] = "ut" /\ Bentuk(o, w)
    BY <1>8, <1>13, Letak
  <2>2. ASSUME w.dt # Kosong PROVE w.dt \in DOMAIN isi \cap Rak("dt") /\ w.jabatan \in Jadilah(isi, w.dt).jabatan
    <3>1. PICK s \in DOMAIN d : w.dt = d[s] /\ w.jabatan \in UntukDt(j, t, d, w.dt)
      BY <1>8, <1>13, <2>2
    <3>2. Jadilah(isi, d[s]).jabatan = JabatanLama(d[s]) \cup UntukDt(j, t, d, d[s])
          /\ d[s] \in DOMAIN isi \cap Rak("dt")
      BY <1>7
    <3>. HIDE DEF w
    <3>. QED  BY <3>1, <3>2
  <2>. HIDE DEF w
  <2>3. ~Nyata(db[o])
    BY <1>13 DEF Nyata
  <2>. QED  BY <2>1, <2>2, <2>3 DEF TabelKatalog, w
<1>14. \A o \in DOMAIN isi : Sesuai(o)
  <2>. HIDE DEF Sesuai
  <2>. QED  BY <1>4, <1>10, <1>11, <1>12, <1>13
<1>15. IsiKatalog(isi)
  BY <1>14 DEF IsiKatalog
<1>. QED  BY <1>2, <1>15 DEF isi

\* They agree with each other, and what is written with them does not matter.
LEMMA KatalogMerujuk ==
  ASSUME IndInv, NEW lain, NEW isi, IsiKatalog(isi),
         \A o \in DOMAIN lain : o[1] \notin TabelIstimewa \cup TabelKatalog \cup {"sekolah"}
  PROVE  /\ RencanaRujukan(Rancangan({}, Gabung(lain, isi), {}))
         /\ \A o \in DOMAIN Gabung(lain, isi) : Bentuk(o, Jadilah(Gabung(lain, isi), o))
<1>. DEFINE P == Gabung(lain, isi)
            r == Rancangan({}, P, {})
            b == Sesudah(r)
<1>1. \A o \in DOMAIN isi : o \in DOMAIN P /\ o[1] \in TabelKatalog /\ P[o] = isi[o] /\ Jadilah(P, o) = Jadilah(isi, o)
  <2>1. ASSUME NEW o \in DOMAIN isi PROVE o[1] \in TabelKatalog /\ o \in DOMAIN P /\ P[o] = isi[o]
    <3>1. o[1] \in TabelKatalog /\ o \notin DOMAIN lain
      BY DEF IsiKatalog
    <3>. QED  BY <3>1, KolomGabung
  <2>. HIDE DEF P
  <2>. QED  BY <2>1 DEF Jadilah
<1>2. \A o \in DOMAIN P : o \in DOMAIN isi \/
        o[1] \notin TabelIstimewa \cup TabelKatalog \cup {"sekolah"}
  BY KolomGabung
<1>3. r.isi = P /\ DOMAIN r.lihat = DOMAIN P /\ \A o \in DOMAIN P : r.lihat[o] = db[o] /\ Jadi(r, o) = Jadilah(P, o)
  BY DEF Rancangan, Jadi, Jadilah
<1>4. DOMAIN b = DOMAIN P /\ \A o \in DOMAIN P : P[o] # Bekas => b[o] = Jadilah(P, o)
  BY <1>3 DEF Sesudah
<1>. HIDE DEF P, r, b
<1>5. \A o \in DOMAIN isi : o[1] \in {"tp", "dt"} =>
        o \in DOMAIN b /\ b[o] = Jadilah(isi, o) /\ Nyata(b[o])
  <2>1. ASSUME NEW o \in DOMAIN isi, o[1] \in {"tp", "dt"}
        PROVE  o \in DOMAIN b /\ b[o] = Jadilah(isi, o) /\ Nyata(b[o])
    <3>1. isi[o] # Bekas /\ Bentuk(o, Jadilah(isi, o))
      BY <2>1 DEF IsiKatalog
    <3>2. Nyata(Jadilah(isi, o))
      BY <2>1, <3>1, TandaBukanBaris DEF Bentuk, Nyata
    <3>. QED  BY <1>1, <1>4, <3>1, <3>2
  <2>. QED  BY <2>1
<1>6. ASSUME NEW o \in DOMAIN P, P[o] # Bekas, Menyentuh(r, o) PROVE RujukanSah(b, o, Jadilah(P, o))
  <2>1. CASE o \notin DOMAIN isi
    BY <1>2, <2>1 DEF RujukanSah, TabelIstimewa
  <2>2. CASE o \in DOMAIN isi
    <3>. DEFINE w == Jadilah(isi, o)
    <3>1. w = Jadilah(P, o) /\ o[1] \in TabelKatalog
      BY <1>1, <2>2
    <3>2. CASE o[1] = "dt"
      <4>1. db[o] = Tiada \/ DOMAIN isi[o] \cap {"tp", "jabatan"} # {}
        BY <1>1, <1>3, <1>6, <2>2, <3>2 DEF Menyentuh
      <4>2. w.tp \in DOMAIN isi \cap Rak("tp") /\ w.jabatan \subseteq Jadilah(isi, w.tp).jabatan
        BY <2>2, <3>2, <4>1 DEF IsiKatalog
      <4>3. w.tp \in DOMAIN b /\ b[w.tp] = Jadilah(isi, w.tp) /\ Nyata(b[w.tp])
        BY <1>5, <4>2, Letak
      <4>. HIDE DEF w
      <4>. QED  BY <3>1, <3>2, <4>2, <4>3 DEF RujukanSah, JabatanSubset
    <3>3. CASE o[1] = "ut"
      <4>1. w.dt # Kosong => w.dt \in DOMAIN isi \cap Rak("dt") /\ w.jabatan \in Jadilah(isi, w.dt).jabatan
        BY <2>2, <3>3 DEF IsiKatalog
      <4>2. w.dt # Kosong => w.dt \in DOMAIN b /\ b[w.dt] = Jadilah(isi, w.dt) /\ Nyata(b[w.dt])
        BY <1>5, <4>1, Letak
      <4>. HIDE DEF w
      <4>. QED  BY <3>1, <3>3, <4>1, <4>2 DEF RujukanSah, JabatanDiDt
    <3>. QED  BY <3>1, <3>2, <3>3 DEF RujukanSah, TabelKatalog
  <2>. QED  BY <2>1, <2>2
<1>7. \A o \in DOMAIN P : o[1] \notin {"sekolah", "sme_panel"}
  BY <1>1, <1>2 DEF TabelIstimewa, TabelKatalog
<1>8. RencanaRujukan(r)
  BY <1>3, <1>6, <1>7 DEF RencanaRujukan, b
<1>9. \A o \in DOMAIN P : Bentuk(o, Jadilah(P, o))
  <2>1. ASSUME NEW o \in DOMAIN P PROVE Bentuk(o, Jadilah(P, o))
    <3>1. CASE o \in DOMAIN isi
      BY <1>1, <3>1 DEF IsiKatalog
    <3>2. CASE o \notin DOMAIN isi
      BY <1>2, <3>2, TanpaBentuk DEF TabelBerbentuk, TabelIstimewa
    <3>. QED  BY <3>1, <3>2
  <2>. QED  BY <2>1
<1>. QED  BY <1>8, <1>9 DEF r, P

LEMMA RencanaKatalog ==
  ASSUME NEW p, PermintaanKatalog(p), IndInv
  PROVE  Terencana(p)
<1>1. ASSUME Reseed(p) PROVE Terencana(p)
  <2>1. PICK lain : lain = <<>>
    OBVIOUS
  <2>2. SeedKatalog(p, lain) /\ DOMAIN lain = {}
    BY <1>1, <2>1 DEF Reseed
  <2>3. PICK isi : Rencanakan(p, {}, Gabung(lain, isi)) /\ IsiKatalog(isi)
    BY <2>2, TulisKatalog, Zenon
  <2>. DEFINE P == Gabung(lain, isi)
  <2>4. \A o \in DOMAIN P : o[1] \in TabelKatalog
    BY <2>2, <2>3, KolomGabung DEF IsiKatalog
  <2>5. RencanaRujukan(Rancangan({}, P, {})) /\ \A o \in DOMAIN P : Bentuk(o, Jadilah(P, o))
    BY <2>2, <2>3, KatalogMerujuk
  <2>6. RencanakanBila(p, {}, P, {})
    BY <2>3 DEF Rencanakan
  <2>. HIDE DEF P
  <2>8. Berisi(Rancangan({}, P, {}))
    BY <2>4, TanpaIsian DEF TabelIsian, TabelKatalog
  <2>7. Layak({}, P, {})
    BY <2>4, <2>5, <2>8 DEF Layak, Halaman, Bertanda, BarisLayak, KursiLayak, AturanBaris, TabelPlatform, TabelKatalog
  <2>. QED  BY <2>6, <2>7 DEF Terencana
<1>. QED  BY <1>1, RencanaTp, RencanaDt, RencanaUt, RencanaSesiPurge DEF PermintaanKatalog

-------------------------------------------------------------------------------
(* Texts, the gate and the checks of what comes back.                        *)

LEMMA Terkecil ==
  ASSUME NEW S, S \subseteq Nat, S # {}
  PROVE  \E i \in S : \A j \in S : i <= j
<1>. DEFINE R == {ss \in Nat \X Nat : ss[1] < ss[2]}
<1>1. IsWellFoundedOn(R, Nat)
  BY NatLessThanWellFounded DEF OpToRel
<1>. HIDE DEF R
<1>2. PICK x \in S : \A y \in S : ~ (<<y, x>> \in R)
  BY <1>1, WFMin
<1>3. \A y \in S : ~(y < x)
  BY <1>2 DEF R
<1>. QED  BY <1>3

\* What stands in a quotation stands in what it quotes.
LEMMA MemuatTerus ==
  ASSUME NEW t \in Wacana, NEW s \in Wacana, NEW u \in Wacana, Memuat(t, s), Memuat(s, u)
  PROVE  Memuat(t, u)
<1>. PICK A, C, D : t \in Seq(A) /\ s \in Seq(C) /\ u \in Seq(D)
  BY SitasiAssumption
<1>1. PICK i \in 1..Len(t) - Len(s) + 1 : SubSeq(t, i, i + Len(s) - 1) = s
  BY DEF Memuat
<1>2. PICK j \in 1..Len(s) - Len(u) + 1 : SubSeq(s, j, j + Len(u) - 1) = u
  BY DEF Memuat
<1>. DEFINE k == i + j - 1
            w == SubSeq(t, k, k + Len(u) - 1)
<1>3. Len(t) \in Nat /\ Len(s) \in Nat /\ Len(u) \in Nat
  OBVIOUS
<1>4. k \in 1..Len(t) - Len(u) + 1
  BY <1>3
<1>5. \A x \in 1..Len(s) : s[x] = t[i + x - 1]
  BY <1>1, <1>3
<1>6. \A x \in 1..Len(u) : u[x] = s[j + x - 1] /\ j + x - 1 \in 1..Len(s)
  BY <1>2, <1>3
<1>7. w \in Seq(A) /\ Len(w) = Len(u) /\ \A x \in 1..Len(u) : w[x] = t[k + x - 1]
  BY <1>3, <1>4
<1>8. \A x \in 1..Len(u) : w[x] = u[x]
  BY <1>3, <1>5, <1>6, <1>7
<1>9. w = u
  <2>1. u = [x \in 1..Len(u) |-> u[x]]
    OBVIOUS
  <2>2. w = [x \in 1..Len(w) |-> w[x]]
    BY <1>7
  <2>. HIDE DEF w
  <2>. QED  BY <1>7, <1>8, <2>1, <2>2
<1>. QED  BY <1>4, <1>9 DEF Memuat

\* What is clean with a dictionary is clean without one.
LEMMA TemuanBersih ==
  ASSUME NEW t, NEW kamus, Temuan(t, kamus) = {}
  PROVE  Temuan(t, {}) = {}
<1>1. \A i \in DOMAIN t : Kategori(t, i, kamus) = "BUKAN"
  BY DEF Temuan
<1>2. \A i \in DOMAIN t : Kategori(t, i, {}) = "BUKAN"
  BY <1>1 DEF Kategori
<1>. QED  BY <1>2 DEF Temuan

\* A clean text is sent as it is.
LEMMA SamarkanBersih ==
  ASSUME NEW t \in Wacana, NEW kamus, Temuan(t, kamus) = {}
  PROVE  Samarkan(t, kamus) = t
<1>1. \A i \in DOMAIN t : Kategori(t, i, kamus) = "BUKAN"
  BY DEF Temuan
<1>2. Samarkan(t, kamus) = [i \in DOMAIN t |-> t[i]]
  BY <1>1 DEF Samarkan
<1>3. PICK A : t \in Seq(A)
  BY SitasiAssumption
<1>4. t = [i \in DOMAIN t |-> t[i]]
  BY <1>3
<1>. QED  BY <1>2, <1>4

LEMMA Tergerbang ==
  ASSUME NEW s, NEW kamus, NEW izin, Gerbang(s, kamus, "BLOKIR", izin) = "LOLOS", s.teks \in Wacana
  PROVE  /\ s.teks # <<>> /\ s.jenis \notin JenisTerlarang
         /\ Temuan(s.teks, {}) = {} /\ Samarkan(s.teks, kamus) = s.teks
<1>1. s.teks # <<>> /\ s.jenis \notin JenisTerlarang /\ Temuan(s.teks, kamus) = {}
  BY DEF Gerbang, JenisDiizinkan
<1>. QED  BY <1>1, TemuanBersih, SamarkanBersih

\* When the sources pass, each of them does.
LEMMA LolosSemua ==
  ASSUME NEW calon, DOMAIN calon \subseteq Nat, NEW parameter, Alasan(calon, parameter) = "LOLOS"
  PROVE  \A i \in DOMAIN calon : Gerbang(calon[i], Kamus, ModePii, JenisIzin) = "LOLOS"
<1>. DEFINE vonis(i) == Gerbang(calon[i], Kamus, ModePii, JenisIzin)
            tolak == {i \in DOMAIN calon : vonis(i) # "LOLOS"}
            i0 == CHOOSE i \in tolak : \A j \in tolak : i <= j
<1>1. SUFFICES ASSUME tolak # {} PROVE FALSE
  OBVIOUS
<1>2. \E i \in tolak : \A j \in tolak : i <= j
  <2>1. tolak \subseteq Nat
    OBVIOUS
  <2>. HIDE DEF tolak
  <2>. QED  BY <1>1, <2>1, Terkecil
<1>3. i0 \in tolak
  <2>. HIDE DEF tolak
  <2>. QED  BY <1>2
<1>4. vonis(i0) # "LOLOS"
  BY <1>3
<1>5. Alasan(calon, parameter) = IF calon = <<>> THEN "SUMBER_KOSONG" ELSE vonis(i0)
  BY <1>1 DEF Alasan
<1>. QED  BY <1>4, <1>5

\* The codes of the gate.
LEMMA AlasanTertulis ==
  ASSUME NEW calon, NEW parameter
  PROVE  Alasan(calon, parameter) \in KodeGerbang \cup {"LOLOS"}
<1>1. ASSUME NEW s, NEW kamus, NEW mode, NEW izin
      PROVE  Gerbang(s, kamus, mode, izin) \in KodeGerbang \cup {"LOLOS"}
  <2>1. \/ Gerbang(s, kamus, mode, izin) = "SUMBER_KOSONG"
        \/ Gerbang(s, kamus, mode, izin) = "METADATA_SUMBER_HILANG"
        \/ Gerbang(s, kamus, mode, izin) = "JENIS_DITOLAK"
        \/ Gerbang(s, kamus, mode, izin) = "PII_DITEMUKAN"
        \/ Gerbang(s, kamus, mode, izin) = "LOLOS"
    BY Zenon DEF Gerbang
  <2>. QED  BY <2>1 DEF KodeGerbang
<1>2. \/ Alasan(calon, parameter) = "SUMBER_KOSONG"
      \/ \E i : Alasan(calon, parameter) = Gerbang(calon[i], Kamus, ModePii, JenisIzin)
      \/ Alasan(calon, parameter) = "PII_DITEMUKAN"
      \/ Alasan(calon, parameter) = "LOLOS"
  BY Zenon DEF Alasan
<1>. QED  BY <1>1, <1>2 DEF KodeGerbang

-------------------------------------------------------------------------------
(* The requests of the AI, its settings, the readers and the administrator.  *)

\* Rows of the settings, of calls and about sources.
LEMMA Mengisi ==
  ASSUME NEW p, NEW baca, NEW isi, Rencanakan(p, baca, isi),
         \A o \in DOMAIN isi : o[1] \in TabelIsian /\ o \in Rak(o[1]),
         IsianSah(db, tumpang) /\ IndukSesuai => RencanaIsian(Rancangan(baca, isi, {}))
  PROVE  Terencana(p)
<1>1. RencanakanBila(p, baca, isi, {})
  BY DEF Rencanakan
<1>2. RencanaRujukan(Rancangan(baca, isi, {}))
  BY TanpaRujukan DEF TabelMerujuk, TabelIsian
<1>3. BarisLayak(isi) /\ KursiLayak(baca, isi)
  BY TanpaBentuk DEF BarisLayak, KursiLayak, AturanBaris, TabelIsian, TabelBerbentuk
<1>4. Halaman(isi) /\ Bertanda(isi, {}) /\ \A o \in DOMAIN isi : o[1] \notin TabelPlatform
  BY DEF Halaman, Bertanda, TabelIsian, TabelPlatform
<1>5. Berisi(Rancangan(baca, isi, {}))
  BY DEF Berisi, RencanaTempat, Rancangan
<1>. QED  BY <1>1, <1>2, <1>3, <1>4, <1>5 DEF Terencana, Layak

\* Where there are events there is a place for the row.
LEMMA TempatTunggal ==
  ASSUME muat \in Muatan, NEW e \in Rak("setelan_event")
  PROVE  TUNGGAL \in Rak("setelan") /\ TUNGGAL[1] = "setelan"
<1>1. "setelan_event" \in DOMAIN muat.tabel
  BY Letak
<1>2. "setelan" \in DOMAIN muat.tabel /\ muat.tabel.setelan[2] > 0
  BY <1>1, BasisDataAssumption
<1>3. muat.tabel.setelan[2] \in Nat
  BY <1>2, PermintaanAssumption
<1>. QED  BY <1>2, <1>3 DEF TUNGGAL, Rak

\* The settings as the row, if there is one, has them.
LEMMA SetelanSekarang ==
  ASSUME muat \in Muatan, IsianSah(db, tumpang), NEW e \in Rak("setelan_event")
  PROVE  /\ TUNGGAL \in Rak("setelan") /\ Status \in KolomSetelan
         /\ TUNGGAL \in Baris("setelan") => Status = db[TUNGGAL] /\ db[TUNGGAL] # Tiada
         /\ TUNGGAL \notin Baris("setelan") => Status = BarisBawaan /\ db[TUNGGAL] = Tiada
<1>1. TUNGGAL \in Rak("setelan")
  BY TempatTunggal
<1>2. db[TUNGGAL] # Bekas /\ Status \in KolomSetelan
  BY <1>1 DEF IsianSah, SetelanSah, Status
<1>. QED  BY <1>1, <1>2 DEF Status, BarisTunggal, Baris, Isi, Nyata

LEMMA CatatanKolom ==
  ASSUME NEW aksi, NEW c
  PROVE  LET a == Catatan(aksi, c) IN
         /\ a = [aksi |-> a.aksi, mode |-> a.mode, model |-> a.model, effort |-> a.effort, akhiran |-> a.akhiran]
         /\ a.aksi = aksi
         /\ a.mode = (IF "mode" \in DOMAIN c THEN c.mode ELSE Kosong)
         /\ a.model = (IF "model" \in DOMAIN c THEN c.model ELSE Kosong)
         /\ a.effort = (IF "effort" \in DOMAIN c THEN c.effort ELSE Kosong)
         /\ a.akhiran = (IF "akhiran" \in DOMAIN c THEN c.akhiran ELSE Kosong)
BY DEF Catatan

LEMMA BentukSetelan ==
  ASSUME NEW s \in KolomSetelan, NEW d \in KolomSetelan, NEW u, DOMAIN u \subseteq DOMAIN d,
         \A k \in DOMAIN u : u[k] = d[k]
  PROVE  Timpa(s, u) \in KolomSetelan
<1>. DEFINE w == Timpa(s, u)
<1>1. DOMAIN s = {"mode", "model", "effort", "kunci", "akhiran"} /\ DOMAIN d = DOMAIN s
  BY DEF KolomSetelan
<1>2. \A k \in DOMAIN s : w[k] = s[k] \/ w[k] = d[k]
  BY DEF Timpa
<1>3. w = [mode |-> w.mode, model |-> w.model, effort |-> w.effort, kunci |-> w.kunci, akhiran |-> w.akhiran]
  BY <1>1 DEF Timpa
<1>. HIDE DEF w
<1>4. /\ w.mode \in AiPenyediaMode /\ w.model \in AtauKosong(ModelAi \ AwalanDitolak)
      /\ w.effort \in AtauKosong(EffortAi) /\ w.kunci \in AtauKosong(IndukSah \X Sandi)
      /\ w.akhiran \in AtauKosong(Kunci)
  BY <1>1, <1>2 DEF KolomSetelan
<1>5. w \in KolomSetelan
  BY <1>3, <1>4 DEF KolomSetelan
<1>. QED  BY <1>5 DEF w

\* A change of some columns, or of none, is one of PerubahanSetelan.
LEMMA BagianSetelan ==
  ASSUME NEW d \in KolomSetelan, NEW S, S \subseteq DOMAIN d
  PROVE  [k \in S |-> d[k]] \in PerubahanSetelan
<1>1. DOMAIN d = {"mode", "model", "effort", "kunci", "akhiran"}
  BY DEF KolomSetelan
<1>. QED  BY <1>1 DEF PerubahanSetelan

\* The change that one operation makes.
LEMMA UbahSetelanSah ==
  ASSUME IndInv, NEW p, NEW aksi, NEW u, NEW c, UbahSetelan(p, aksi, u, c),
         IsianSah(db, tumpang) /\ IndukSesuai =>
           /\ Catatan(aksi, c) \in Acara
           /\ \E d \in KolomSetelan : DOMAIN u \subseteq DOMAIN d /\ \A k \in DOMAIN u : u[k] = d[k]
           /\ "kunci" \in DOMAIN u /\ u.kunci # Kosong =>
                aksi = "PASANG_KREDENSIAL" /\ Catatan(aksi, c).akhiran = u.kunci[2][2]
           /\ SesuaiAksi(Catatan(aksi, c), Status, Timpa(Status, u))
  PROVE  Terencana(p)
<1>1. PICK e \in AcaraBaru("setelan_event") :
        Rencanakan(p, Rak("setelan_event"), [x \in {e, TUNGGAL} |->
          IF x = e THEN Catatan(aksi, c)
          ELSE IF TUNGGAL \in Baris("setelan") THEN Beda(TUNGGAL, u) ELSE Timpa(BarisBawaan, u)])
  BY DEF UbahSetelan
<1>. DEFINE a == Catatan(aksi, c)
            v == IF TUNGGAL \in Baris("setelan") THEN Beda(TUNGGAL, u) ELSE Timpa(BarisBawaan, u)
            isi == [x \in {e, TUNGGAL} |-> IF x = e THEN a ELSE v]
            r == Rancangan(Rak("setelan_event"), isi, {})
<1>2. /\ e \in Rak("setelan_event") /\ e[1] = "setelan_event" /\ db[e] = Tiada
      /\ \A x \in Baris("setelan_event") : x[2] < e[2]
  BY Letak DEF AcaraBaru, Pertama
<1>3. TUNGGAL[1] = "setelan" /\ e # TUNGGAL /\ TUNGGAL \in Rak("setelan")
  BY <1>2, TempatTunggal DEF IndInv
<1>4. DOMAIN isi = {e, TUNGGAL} /\ isi[e] = a /\ isi[TUNGGAL] = v
  BY <1>3
<1>5. Rencanakan(p, Rak("setelan_event"), isi)
  BY <1>1
<1>. HIDE DEF isi
<1>6. /\ r.isi = isi /\ DOMAIN r.lihat = Rak("setelan_event") \cup {e, TUNGGAL}
      /\ \A x \in DOMAIN r.lihat : r.lihat[x] = db[x]
  BY <1>4 DEF Rancangan
<1>. HIDE DEF r, v, a
<1>7. ASSUME IsianSah(db, tumpang) /\ IndukSesuai PROVE RencanaIsian(r)
  <2>1. PICK d \in KolomSetelan : DOMAIN u \subseteq DOMAIN d /\ \A k \in DOMAIN u : u[k] = d[k]
    BY <1>7
  <2>2. /\ TUNGGAL \in Rak("setelan") /\ Status \in KolomSetelan
        /\ TUNGGAL \in Baris("setelan") => Status = db[TUNGGAL] /\ db[TUNGGAL] # Tiada
        /\ TUNGGAL \notin Baris("setelan") => Status = BarisBawaan /\ db[TUNGGAL] = Tiada
    BY <1>2, <1>7, SetelanSekarang DEF IndInv
  <2>3. a \in Acara /\ a.aksi = aksi
    BY <1>7, CatatanKolom DEF a
  <2>4. LamaSetelan(r) = Status /\ Jadi(r, TUNGGAL) = Timpa(Status, u)
    BY <1>4, <1>6, <2>2, TimpaBeda DEF LamaSetelan, Jadi, v
  <2>5. IF r.lihat[TUNGGAL] = Tiada THEN v \in KolomSetelan ELSE v \in PerubahanSetelan
    <3>1. CASE TUNGGAL \notin Baris("setelan")
      BY <1>6, <2>1, <2>2, <3>1, BentukSetelan DEF v
    <3>2. CASE TUNGGAL \in Baris("setelan")
      <4>1. v = [k \in DOMAIN v |-> v[k]] /\ DOMAIN v \subseteq DOMAIN u /\ \A k \in DOMAIN v : v[k] = u[k]
        BY <3>2 DEF v, Beda
      <4>2. v = [k \in DOMAIN v |-> d[k]] /\ DOMAIN v \subseteq DOMAIN d
        BY <2>1, <4>1
      <4>. QED  BY <1>6, <2>2, <3>2, <4>2, BagianSetelan
    <3>. QED  BY <3>1, <3>2
  <2>6. ASSUME "kunci" \in DOMAIN v, v.kunci # Kosong
        PROVE  a.aksi = "PASANG_KREDENSIAL" /\ a.akhiran = v.kunci[2][2]
    <3>1. "kunci" \in DOMAIN u /\ v.kunci = u.kunci
      <4>1. CASE TUNGGAL \notin Baris("setelan")
        BY <2>6, <4>1 DEF v, Timpa, BarisBawaan
      <4>2. CASE TUNGGAL \in Baris("setelan")
        BY <2>6, <4>2 DEF v, Beda
      <4>. QED  BY <4>1, <4>2
    <3>. QED  BY <1>7, <2>3, <2>6, <3>1 DEF a
  <2>7. SesuaiAksi(a, LamaSetelan(r), Jadi(r, TUNGGAL))
    BY <1>7, <2>4 DEF a
  <2>8. \A x \in Rak("setelan_event") : x \in DOMAIN r.lihat /\ (Nyata(r.lihat[x]) => x[2] < e[2])
    BY <1>2, <1>6 DEF Baris, Isi
  <2>9. Perubahan(r, e)
    BY <1>2, <1>4, <1>6, <2>3, <2>5, <2>6, <2>7, <2>8 DEF Perubahan
  <2>10. RencanaPenyedia(r)
    BY <1>2, <1>3, <1>4, <1>6, <2>9 DEF RencanaPenyedia
  <2>. QED  BY <1>2, <1>3, <1>4, <1>6, <2>10 DEF RencanaIsian, RencanaPanggilan, RencanaKutipan
<1>. QED  BY <1>2, <1>3, <1>4, <1>5, <1>7, Mengisi DEF TabelIsian, r

LEMMA RencanaUbahSetelan ==
  ASSUME IndInv, NEW p,
         UbahModePenyedia(p) \/ UbahModelPenyedia(p) \/ PasangKredensialPenyedia(p) \/ HapusKredensialPenyedia(p)
  PROVE  Terencana(p)
<1>. DEFINE S == Status
            Kini == IsianSah(db, tumpang) /\ IndukSesuai
<1>1. ASSUME NEW e \in Rak("setelan_event"), Kini
      PROVE  /\ S \in KolomSetelan
             /\ DOMAIN S = {"mode", "model", "effort", "kunci", "akhiran"}
  BY <1>1, SetelanSekarang DEF IndInv, KolomSetelan
<1>2. ASSUME NEW aksi, NEW u, NEW c, UbahSetelan(p, aksi, u, c) PROVE \E e : e \in Rak("setelan_event")
  BY <1>2 DEF UbahSetelan, AcaraBaru, Pertama
<1>3. ASSUME UbahModePenyedia(p) PROVE Terencana(p)
  <2>1. PICK m \in AiPenyediaMode : UbahSetelan(p, "UBAH_MODE", [mode |-> m], [mode |-> m])
    BY <1>3 DEF UbahModePenyedia, ModeBaru
  <2>. DEFINE u == [mode |-> m]
              a == Catatan("UBAH_MODE", u)
  <2>2. ASSUME Kini
        PROVE  /\ a \in Acara /\ SesuaiAksi(a, S, Timpa(S, u))
               /\ \E d \in KolomSetelan : DOMAIN u \subseteq DOMAIN d /\ \A k \in DOMAIN u : u[k] = d[k]
    <3>1. S \in KolomSetelan /\ DOMAIN S = {"mode", "model", "effort", "kunci", "akhiran"}
      BY <1>1, <1>2, <2>1, <2>2
    <3>2. a = [aksi |-> "UBAH_MODE", mode |-> m, model |-> Kosong, effort |-> Kosong, akhiran |-> Kosong]
      BY CatatanKolom
    <3>3. a \in Acara
      BY <3>2 DEF Acara, AtauKosong
    <3>4. SesuaiAksi(a, S, Timpa(S, u))
      BY <3>1, <3>2 DEF SesuaiAksi, Timpa
    <3>5. [S EXCEPT !.mode = m] \in KolomSetelan /\ u.mode = [S EXCEPT !.mode = m].mode
      BY <3>1 DEF KolomSetelan
    <3>. QED  BY <3>1, <3>3, <3>4, <3>5
  <2>. QED  BY <2>1, <2>2, UbahSetelanSah
<1>4. ASSUME UbahModelPenyedia(p) PROVE Terencana(p)
  <2>1. PICK m \in AtauKosong(ModelAi), f \in AtauKosong(EffortAi) :
          /\ m # Kosong => ValidasiModel(m)
          /\ UbahSetelan(p, "UBAH_MODEL", [model |-> m, effort |-> f], [model |-> m, effort |-> f])
    BY <1>4 DEF UbahModelPenyedia, ModelBaru
  <2>. DEFINE u == [model |-> m, effort |-> f]
              a == Catatan("UBAH_MODEL", u)
  <2>2. ASSUME Kini
        PROVE  /\ a \in Acara /\ SesuaiAksi(a, S, Timpa(S, u))
               /\ \E d \in KolomSetelan : DOMAIN u \subseteq DOMAIN d /\ \A k \in DOMAIN u : u[k] = d[k]
    <3>1. S \in KolomSetelan /\ DOMAIN S = {"mode", "model", "effort", "kunci", "akhiran"}
      BY <1>1, <1>2, <2>1, <2>2
    <3>2. a = [aksi |-> "UBAH_MODEL", mode |-> Kosong, model |-> m, effort |-> f, akhiran |-> Kosong]
      BY CatatanKolom
    <3>3. a \in Acara
      BY <3>2 DEF Acara, AtauKosong
    <3>4. SesuaiAksi(a, S, Timpa(S, u))
      BY <3>1, <3>2 DEF SesuaiAksi, Timpa
    <3>6. m \in AtauKosong(ModelAi \ AwalanDitolak)
      BY <2>1 DEF AtauKosong, ValidasiModel
    <3>. DEFINE d == [S EXCEPT !.model = m, !.effort = f]
    <3>5. d \in KolomSetelan /\ DOMAIN d = DOMAIN S /\ u.model = d.model /\ u.effort = d.effort
      BY <3>1, <3>6 DEF KolomSetelan
    <3>. QED  BY <3>1, <3>3, <3>4, <3>5
  <2>. QED  BY <2>1, <2>2, UbahSetelanSah
<1>5. ASSUME PasangKredensialPenyedia(p) PROVE Terencana(p)
  <2>1. PICK s \in Sandi, k \in KunciInduk : UbahSetelan(p, "PASANG_KREDENSIAL",
          [kunci |-> <<k, s>>, akhiran |-> s[2]], [akhiran |-> s[2]])
    BY <1>5 DEF PasangKredensialPenyedia, PasangKredensial
  <2>. DEFINE u == [kunci |-> <<k, s>>, akhiran |-> s[2]]
              c == [akhiran |-> s[2]]
              a == Catatan("PASANG_KREDENSIAL", c)
  <2>2. ASSUME Kini
        PROVE  /\ a \in Acara /\ SesuaiAksi(a, S, Timpa(S, u)) /\ a.akhiran = u.kunci[2][2]
               /\ \E d \in KolomSetelan : DOMAIN u \subseteq DOMAIN d /\ \A x \in DOMAIN u : u[x] = d[x]
    <3>1. S \in KolomSetelan /\ DOMAIN S = {"mode", "model", "effort", "kunci", "akhiran"}
      BY <1>1, <1>2, <2>1, <2>2
    <3>2. a = [aksi |-> "PASANG_KREDENSIAL", mode |-> Kosong, model |-> Kosong, effort |-> Kosong, akhiran |-> s[2]]
      BY CatatanKolom
    <3>6. s[2] \in Kunci /\ k \in IndukSah
      BY <2>2 DEF Sandi, KunciInduk, IndukSesuai, AtauKosong
    <3>7. <<k, s>> \in IndukSah \X Sandi /\ <<k, s>> # Kosong
      BY <3>6, SetelanAssumption
    <3>3. a \in Acara
      BY <3>2, <3>6 DEF Acara, AtauKosong
    <3>4. SesuaiAksi(a, S, Timpa(S, u))
      BY <3>1, <3>2, <3>7 DEF SesuaiAksi, Timpa
    <3>. DEFINE d == [S EXCEPT !.kunci = <<k, s>>, !.akhiran = s[2]]
    <3>5. d \in KolomSetelan /\ DOMAIN d = DOMAIN S /\ u.kunci = d.kunci /\ u.akhiran = d.akhiran
      BY <3>1, <3>6, <3>7 DEF KolomSetelan, AtauKosong
    <3>8. a.akhiran = u.kunci[2][2] /\ DOMAIN u = {"kunci", "akhiran"}
      BY <3>2
    <3>. HIDE DEF a, d, u
    <3>. QED  BY <3>1, <3>3, <3>4, <3>5, <3>8
  <2>. QED  BY <2>1, <2>2, UbahSetelanSah
<1>6. ASSUME HapusKredensialPenyedia(p) PROVE Terencana(p)
  <2>. DEFINE u == [kunci |-> Kosong, akhiran |-> Kosong]
              c == [akhiran |-> S.akhiran]
              a == Catatan("HAPUS_KREDENSIAL", c)
  <2>1. UbahSetelan(p, "HAPUS_KREDENSIAL", u, c)
    BY <1>6 DEF HapusKredensialPenyedia, HapusKredensial
  <2>2. ASSUME Kini
        PROVE  /\ a \in Acara /\ SesuaiAksi(a, S, Timpa(S, u))
               /\ \E d \in KolomSetelan : DOMAIN u \subseteq DOMAIN d /\ \A x \in DOMAIN u : u[x] = d[x]
    <3>1. S \in KolomSetelan /\ DOMAIN S = {"mode", "model", "effort", "kunci", "akhiran"}
      BY <1>1, <1>2, <2>1, <2>2
    <3>2. a = [aksi |-> "HAPUS_KREDENSIAL", mode |-> Kosong, model |-> Kosong, effort |-> Kosong, akhiran |-> S.akhiran]
      BY CatatanKolom
    <3>3. a \in Acara
      BY <3>1, <3>2 DEF Acara, AtauKosong, KolomSetelan
    <3>4. SesuaiAksi(a, S, Timpa(S, u))
      BY <3>1, <3>2 DEF SesuaiAksi, Timpa
    <3>. DEFINE d == [S EXCEPT !.kunci = Kosong, !.akhiran = Kosong]
    <3>5. d \in KolomSetelan /\ DOMAIN d = DOMAIN S /\ u.kunci = d.kunci /\ u.akhiran = d.akhiran
      BY <3>1 DEF KolomSetelan, AtauKosong
    <3>. QED  BY <3>1, <3>3, <3>4, <3>5
  <2>. QED  BY <2>1, <2>2, UbahSetelanSah
<1>. QED  BY <1>3, <1>4, <1>5, <1>6

\* The plan of a row that is changed, and of one that is added.
LEMMA GantiIsian ==
  ASSUME NEW p, NEW t \in TabelIsian, NEW o \in Baris(t), NEW baca, NEW u, Ganti(p, o, baca, u),
         IsianSah(db, tumpang) /\ IndukSesuai => \A r :
           /\ DOMAIN r.isi = {o} /\ r.isi[o] = Beda(o, u) /\ r.lihat[o] = db[o] /\ r.lihat[o] # Tiada
           /\ o[1] = t /\ Nyata(db[o])
           => RencanaIsian(r)
  PROVE  Terencana(p)
<1>. DEFINE isi == [x \in {o} |-> Beda(o, u)]
            r == Rancangan(baca, isi, {})
<1>1. o[1] = t /\ o \in Rak(t) /\ Nyata(db[o]) /\ db[o] # Tiada
  BY Letak, Tempatan
<1>2. DOMAIN r.isi = {o} /\ r.isi[o] = Beda(o, u) /\ r.lihat[o] = db[o] /\ r.lihat[o] # Tiada
  BY <1>1 DEF Rancangan
<1>3. Rencanakan(p, baca, isi) /\ \A x \in DOMAIN isi : x[1] \in TabelIsian /\ x \in Rak(x[1])
  BY <1>1 DEF Ganti
<1>. HIDE DEF r
<1>4. IsianSah(db, tumpang) /\ IndukSesuai => RencanaIsian(r)
  BY <1>1, <1>2
<1>. HIDE DEF isi
<1>. QED  BY <1>3, <1>4, Mengisi DEF r

LEMMA TambahIsian ==
  ASSUME NEW p, NEW t \in TabelIsian, NEW baca, NEW w, Tambah(p, BarisBaru(t), baca, w),
         IsianSah(db, tumpang) /\ IndukSesuai => \A r : \A o \in Rak(t) :
           DOMAIN r.isi = {o} /\ r.isi[o] = w /\ r.lihat[o] = Tiada /\ o[1] = t => RencanaIsian(r)
  PROVE  Terencana(p)
<1>1. PICK o \in BarisBaru(t) : Rencanakan(p, baca, [x \in {o} |-> w])
  BY DEF Tambah
<1>. DEFINE isi == [x \in {o} |-> w]
            r == Rancangan(baca, isi, {})
<1>2. o \in Rak(t) /\ o[1] = t /\ db[o] = Tiada
  BY Letak, Tempatan
<1>3. DOMAIN r.isi = {o} /\ r.isi[o] = w /\ r.lihat[o] = Tiada
  BY <1>2 DEF Rancangan
<1>4. Rencanakan(p, baca, isi) /\ \A x \in DOMAIN isi : x[1] \in TabelIsian /\ x \in Rak(x[1])
  BY <1>1, <1>2
<1>. HIDE DEF r
<1>5. IsianSah(db, tumpang) /\ IndukSesuai => RencanaIsian(r)
  BY <1>2, <1>3
<1>. HIDE DEF isi
<1>. QED  BY <1>4, <1>5, Mengisi DEF r

LEMMA Dipanggil ==
  ASSUME NEW p, PanggilModel(p)
  PROVE  \E o \in Baris("panggilan"), h \in HasilPanggilan :
           db[o].hasil = "KLIEN" /\ Ganti(p, o, {}, [hasil |-> h])
<1>1. PICK o \in Baris("panggilan") : db[o].hasil = "KLIEN" /\
        \E h \in IF db[o].mode = "API_ANTHROPIC" THEN PanggilApi
                 ELSE {PanggilCli(c, j, l) : c \in StatusCli, j \in Jalan, l \in StatusCli} :
          Ganti(p, o, {}, [hasil |-> h])
  BY DEF PanggilModel
<1>2. PanggilApi \subseteq HasilPanggilan
  BY DEF PanggilApi, HasilPanggilan
<1>3. ASSUME NEW c, NEW j \in Jalan, NEW l PROVE PanggilCli(c, j, l) \in HasilPanggilan
  <2>1. \/ PanggilCli(c, j, l) = "PENYEDIA_TIDAK_TERSEDIA"
        \/ PanggilCli(c, j, l) = "LANGGANAN_BELUM_MASUK"
        \/ PanggilCli(c, j, l) = "MODEL_SEMENTARA"
        \/ PanggilCli(c, j, l) = "MODEL_PERMANEN"
        \/ PanggilCli(c, j, l) = "JAWABAN"
    BY DEF PanggilCli, Jalan
  <2>. QED  BY <2>1 DEF HasilPanggilan
<1>. DEFINE H == {PanggilCli(c, j, l) : c \in StatusCli, j \in Jalan, l \in StatusCli}
<1>4. H \subseteq HasilPanggilan
  BY <1>3
<1>5. PICK h : h \in (IF db[o].mode = "API_ANTHROPIC" THEN PanggilApi ELSE H) /\ Ganti(p, o, {}, [hasil |-> h])
  BY <1>1
<1>. HIDE DEF H
<1>. QED  BY <1>1, <1>2, <1>4, <1>5

\* Which client a worker gets, and what becomes of its call.
LEMMA RencanaPanggil ==
  ASSUME IndInv, NEW p, SiapkanKlienRun(p) \/ PanggilModel(p)
  PROVE  Terencana(p)
<1>1. ASSUME SiapkanKlienRun(p) PROVE Terencana(p)
  <2>1. PICK cli \in StatusCli :
          LET galat == BuatKlien(Status, cli) IN
          Tambah(p, BarisBaru("panggilan"), {}, [mode |-> Status.mode, model |-> ModelBerlaku(Status.model),
            hasil |-> galat,
            kunci |-> IF galat = "KLIEN" /\ Status.mode = "API_ANTHROPIC" THEN Dekripsi(Status.kunci) ELSE Kosong])
    BY <1>1, Zenon DEF SiapkanKlienRun
  <2>. DEFINE S == Status
              galat == BuatKlien(S, cli)
              w == [mode |-> S.mode, model |-> ModelBerlaku(S.model), hasil |-> galat,
                kunci |-> IF galat = "KLIEN" /\ S.mode = "API_ANTHROPIC" THEN Dekripsi(S.kunci) ELSE Kosong]
  <2>2. Tambah(p, BarisBaru("panggilan"), {}, w)
    BY <2>1
  <2>3. ASSUME IsianSah(db, tumpang) PROVE Terlayani(db, w)
    <3>1. S \in KolomSetelan /\ (S.kunci # Kosong => Terpasang(db, S.kunci[2][2]))
      BY <2>3 DEF IsianSah, SetelanSah, Status
    <3>. HIDE DEF S
    <3>2. ModelBerlaku(S.model) \notin AwalanDitolak
      BY <3>1, SetelanAssumption DEF KolomSetelan, AtauKosong, ModelBerlaku
    <3>3. ASSUME galat \in {"KLIEN", "JAWABAN"}
          PROVE  galat = "KLIEN" /\ S.mode # "MATI" /\
                 (S.mode = "API_ANTHROPIC" => Dekripsi(S.kunci) # Kosong)
      BY <3>1, <3>3 DEF BuatKlien, KolomSetelan, AiPenyediaMode
    <3>4. Dekripsi(S.kunci) # Kosong => S.kunci # Kosong /\ Dekripsi(S.kunci) = S.kunci[2]
      BY DEF Dekripsi
    <3>5. w.mode = S.mode /\ w.model = ModelBerlaku(S.model) /\ w.hasil = galat
          /\ w.kunci = (IF galat = "KLIEN" /\ S.mode = "API_ANTHROPIC" THEN Dekripsi(S.kunci) ELSE Kosong)
          /\ {"mode", "model", "kunci"} \subseteq DOMAIN w
      OBVIOUS
    <3>6. galat \in HasilPanggilan
      BY DEF BuatKlien, HasilPanggilan
    <3>7. S.mode \in AiPenyediaMode /\ ModelBerlaku(S.model) \in ModelAi \cup {AI_MODEL_BAWAAN}
          /\ Dekripsi(S.kunci) \in AtauKosong(Sandi)
      BY <3>1, <3>4 DEF KolomSetelan, AtauKosong, ModelBerlaku, Dekripsi
    <3>8. w \in BentukPanggilan
      <4>. DEFINE k == IF galat = "KLIEN" /\ S.mode = "API_ANTHROPIC" THEN Dekripsi(S.kunci) ELSE Kosong
      <4>1. k \in AtauKosong(Sandi)
        BY <3>7 DEF AtauKosong
      <4>. HIDE DEF k, galat
      <4>. QED  BY <3>6, <3>7, <4>1 DEF BentukPanggilan, k
    <3>. HIDE DEF w, galat
    <3>. QED  BY <3>1, <3>2, <3>3, <3>4, <3>5, <3>8 DEF Terlayani, Wenang
  <2>. HIDE DEF w
  <2>4. ASSUME IsianSah(db, tumpang), NEW r, NEW o, DOMAIN r.isi = {o}, r.isi[o] = w, r.lihat[o] = Tiada,
               o[1] = "panggilan"
        PROVE  RencanaIsian(r)
    BY <2>3, <2>4 DEF RencanaIsian, RencanaPenyedia, RencanaPanggilan, RencanaKutipan
  <2>5. PICK t \in TabelIsian : t = "panggilan"
    BY DEF TabelIsian
  <2>. QED  BY <2>2, <2>4, <2>5, TambahIsian
<1>2. ASSUME PanggilModel(p) PROVE Terencana(p)
  <2>1. PICK o \in Baris("panggilan"), h \in HasilPanggilan :
          db[o].hasil = "KLIEN" /\ Ganti(p, o, {}, [hasil |-> h])
    BY <1>2, Dipanggil
  <2>2. ASSUME IsianSah(db, tumpang), NEW r, DOMAIN r.isi = {o}, r.isi[o] = Beda(o, [hasil |-> h]),
               r.lihat[o] # Tiada, o[1] = "panggilan", Nyata(db[o])
        PROVE  RencanaIsian(r)
    <3>1. Wenang(db, db[o]) /\ db[o] # Tiada
      BY <2>1, <2>2, Tempatan DEF IsianSah, PanggilanBerwenang, Terlayani, Baris
    <3>2. DOMAIN r.isi[o] \subseteq {"hasil"} /\ \A k \in DOMAIN r.isi[o] : r.isi[o][k] \in HasilPanggilan
      BY <2>2, KolomBeda
    <3>. QED  BY <2>2, <3>1, <3>2 DEF RencanaIsian, RencanaPenyedia, RencanaPanggilan, RencanaKutipan
  <2>5. PICK t \in TabelIsian : t = "panggilan"
    BY DEF TabelIsian
  <2>. QED  BY <2>1, <2>2, <2>5, GantiIsian
<1>. QED  BY <1>1, <1>2

LEMMA RencanaGantiInduk ==
  ASSUME IndInv, NEW p, GantiInduk(p)
  PROVE  Terencana(p)
<1>1. PICK k \in AtauKosong(IndukSah), o \in Baris("induk") : Ganti(p, o, {}, [kunci |-> k])
  BY DEF GantiInduk
<1>2. ASSUME NEW r, DOMAIN r.isi = {o}, r.isi[o] = Beda(o, [kunci |-> k]), r.lihat[o] # Tiada, o[1] = "induk"
      PROVE  RencanaIsian(r)
  <2>1. \A x \in DOMAIN r.isi[o] : r.isi[o][x] = k
    BY <1>2, KolomBeda
  <2>. QED  BY <1>2, <2>1 DEF RencanaIsian, RencanaPenyedia, RencanaPanggilan, RencanaKutipan
<1>3. PICK t \in TabelIsian : t = "induk"
  BY DEF TabelIsian
<1>. QED  BY <1>1, <1>2, <1>3, GantiIsian

LEMMA RencanaSetelan ==
  ASSUME IndInv, NEW p, PermintaanSetelan(p)
  PROVE  Terencana(p)
<1>1. AcaraBaru("saklar") \subseteq Rak("saklar")
  BY DEF AcaraBaru, Pertama
<1>2. MatikanSaklar(p) \/ HidupkanSaklar(p) => Terencana(p)
  BY <1>1, Menambah DEF MatikanSaklar, HidupkanSaklar, CatatSaklar, TabelPlatform, TabelIstimewa
<1>. QED  BY <1>2, RencanaUbahSetelan, RencanaPanggil, RencanaGantiInduk, Zenon DEF PermintaanSetelan

-------------------------------------------------------------------------------
(* The requests about sources.                                               *)

\* Any rows of a table are finitely many.
LEMMA BarisTerhingga ==
  ASSUME muat \in Muatan, NEW t, NEW S, S \subseteq Rak(t)
  PROVE  Cardinality(S) \in Nat
<1>1. IsFiniteSet(Rak(t))
  <2>1. CASE t \in DOMAIN muat.tabel
    <3>1. PICK n \in Int : n = muat.tabel[t][2]
      BY <2>1, PermintaanAssumption
    <3>2. IsFiniteSet({t})
      BY FS_Singleton
    <3>3. IsFiniteSet(1..n)
      BY FS_Interval
    <3>. QED  BY <2>1, <3>1, <3>2, <3>3, FS_Product DEF Rak
  <2>2. CASE t \notin DOMAIN muat.tabel
    BY <2>2, FS_EmptySet DEF Rak
  <2>. QED  BY <2>1, <2>2
<1>. QED  BY <1>1, FS_Subset, FS_CardinalityType

\* A source that a request of this function may send: a row, or a text.
Tercalon(fungsi, c) ==
  /\ c.id \in IdSumber /\ c.hash \in Sidik /\ c.teks \in Wacana
  /\ c.id \in Rak("sumber") => Nyata(db[c.id]) /\ c = Calon(c.id)
  /\ fungsi = "P01" => c.id \in Rak("sumber")

LEMMA SumberTercalon ==
  ASSUME SitasiSah(db), NEW o \in Baris("sumber"), NEW fungsi
  PROVE  Tercalon(fungsi, Calon(o))
<1>1. o \in Rak("sumber") /\ Nyata(db[o]) /\ SumberSah(db[o]) /\ o \in {"sumber"} \X Nat
  <2>1. o \in Rak("sumber") /\ Nyata(db[o]) /\ SumberSah(db[o])
    BY DEF SitasiSah, Baris, Isi
  <2>2. o = <<"sumber", o[2]>> /\ o[2] \in 1..muat.tabel["sumber"][2]
    BY <2>1, Letak
  <2>. QED  BY <2>1, <2>2
<1>2. db[o].teks \in Wacana /\ db[o].hash \in Sidik
  BY <1>1 DEF SumberSah, Wacana, Hash, Sidik
<1>. QED  BY <1>1, <1>2 DEF Tercalon, Calon, IdSumber

LEMMA TeksTercalon ==
  ASSUME NEW fungsi, fungsi # "P01", NEW teks \in Wacana, NEW j, NEW id,
         \/ id \in {"klaim", "keputusan"} \X Wacana
         \/ id \in {"versi"} \X ({"versi"} \X Nat)
  PROVE  Tercalon(fungsi, CalonTeks(id, teks, j))
<1>1. id \in IdSumber /\ id[1] # "sumber"
  BY DEF IdSumber
<1>2. id \notin Rak("sumber")
  BY <1>1, Letak
<1>3. Hash(teks) \in Sidik
  BY DEF Hash, Sidik
<1>. QED  BY <1>1, <1>2, <1>3 DEF Tercalon, CalonTeks

\* The run that the gate lets through, or refuses.
LEMMA RunBaruSah ==
  ASSUME ModePii = "BLOKIR", NEW fungsi \in Fungsi, NEW calon, DOMAIN calon \subseteq Nat,
         \A i \in DOMAIN calon : Tercalon(fungsi, calon[i]), NEW parameter
  PROVE  LET run == RunBaru(fungsi, calon, parameter) IN
         RunSah(db, run) /\ run.fungsi = fungsi
<1>. DEFINE alasan == Alasan(calon, parameter)
            sumber == {[id |-> calon[i].id, hash |-> calon[i].hash] : i \in DOMAIN calon}
            status == IF alasan = "LOLOS" THEN "MENUNGGU"
              ELSE IF alasan \in {"SUMBER_KOSONG", "METADATA_SUMBER_HILANG"} THEN "EVIDENCE_GAP" ELSE "DIBLOKIR"
            kode == {alasan} \ {"LOLOS"}
            masukan == IF alasan # "LOLOS" THEN {}
              ELSE {[id |-> calon[i].id, hash |-> calon[i].hash,
                teks |-> Samarkan(calon[i].teks, Kamus)] : i \in DOMAIN calon}
            run == [fungsi |-> fungsi, sumber |-> sumber, status |-> status, kode |-> kode,
              masukan |-> masukan, keluaran |-> Kosong]
<1>1. RunBaru(fungsi, calon, parameter) = run
  BY DEF RunBaru
<1>2. sumber \subseteq [id : IdSumber, hash : Sidik]
  BY DEF Tercalon
<1>3. status \in StatusRun \ {"LOLOS"}
  BY DEF StatusRun
<1>4. kode \in SUBSET KodeRun
  BY AlasanTertulis DEF KodeRun
<1>5. ASSUME NEW m \in masukan
      PROVE  m \in [id : IdSumber, hash : Sidik, teks : Wacana] /\ MasukanSah(db, fungsi, m)
  <2>1. alasan = "LOLOS"
    BY <1>5
  <2>2. PICK i \in DOMAIN calon : m = [id |-> calon[i].id, hash |-> calon[i].hash,
                                       teks |-> Samarkan(calon[i].teks, Kamus)]
    BY <1>5, <2>1
  <2>3. Tercalon(fungsi, calon[i]) /\ Gerbang(calon[i], Kamus, "BLOKIR", JenisIzin) = "LOLOS"
    BY <2>1, LolosSemua
  <2>4. /\ calon[i].teks # <<>> /\ calon[i].jenis \notin JenisTerlarang
        /\ Temuan(calon[i].teks, {}) = {} /\ Samarkan(calon[i].teks, Kamus) = calon[i].teks
    BY <2>3, Tergerbang DEF Tercalon
  <2>5. m.id = calon[i].id /\ m.hash = calon[i].hash /\ m.teks = calon[i].teks
        /\ m = [id |-> m.id, hash |-> m.hash, teks |-> m.teks]
    BY <2>2, <2>4
  <2>. HIDE DEF masukan, alasan
  <2>6. m.id \in Rak("sumber") => Nyata(db[m.id]) /\ db[m.id].teks = m.teks /\ LolosUji(db[m.id])
    BY <2>3, <2>4, <2>5 DEF Tercalon, Calon, LolosUji
  <2>. QED  BY <2>3, <2>4, <2>5, <2>6 DEF Tercalon, MasukanSah
<1>. HIDE DEF sumber, status, kode, masukan
<1>6. run \in BentukRun
  BY <1>2, <1>3, <1>4, <1>5 DEF BentukRun, AtauKosong
<1>7. RunSah(db, run)
  BY <1>3, <1>5, <1>6 DEF RunSah
<1>. QED  BY <1>1, <1>7

\* A run, and the row that waits for it.
LEMMA RencanaRun ==
  ASSUME NEW p, NEW baca, NEW run, NEW t \in {"usulan", "permintaan"}, NEW isi, "run" \in DOMAIN isi,
         RunDanBaris(p, baca, run, t, isi),
         IsianSah(db, tumpang) =>
           /\ RunSah(db, run)
           /\ \A x \in {"run"} \X Nat : LET u == [isi EXCEPT !.run = x] IN
                IF t = "usulan" THEN UsulanBerbentuk(u) /\ u.isi = Kosong /\ run.fungsi = u.fungsi
                ELSE u \in BentukPermintaan /\ run.fungsi = "P10"
  PROVE  Terencana(p)
<1>1. PICK x \in BarisBaru("run"), o \in BarisBaru(t) :
        Rencanakan(p, baca \cup Partisipan, [y \in {x, o} |-> IF y = x THEN run ELSE [isi EXCEPT !.run = x]])
  BY DEF RunDanBaris
<1>. DEFINE u == [isi EXCEPT !.run = x]
            tulis == [y \in {x, o} |-> IF y = x THEN run ELSE u]
            r == Rancangan(baca \cup Partisipan, tulis, {})
<1>2. x \in Rak("run") /\ x[1] = "run" /\ db[x] = Tiada /\ o \in Rak(t) /\ o[1] = t /\ db[o] = Tiada
  BY Tempatan, Letak
<1>3. x # o /\ DOMAIN tulis = {x, o} /\ tulis[x] = run /\ tulis[o] = u
  BY <1>2
<1>4. u.run = x /\ DOMAIN u = DOMAIN isi /\ \A k \in DOMAIN isi \ {"run"} : u[k] = isi[k]
  OBVIOUS
<1>5. Rencanakan(p, baca \cup Partisipan, tulis) /\ \A y \in DOMAIN tulis : y[1] \in TabelIsian /\ y \in Rak(y[1])
  BY <1>1, <1>2, <1>3 DEF TabelIsian
<1>8. x \in {"run"} \X Nat
  BY <1>2, Letak
<1>9. IsianSah(db, tumpang) =>
        IF t = "usulan" THEN UsulanBerbentuk(u) /\ u.isi = Kosong /\ run.fungsi = u.fungsi
        ELSE u \in BentukPermintaan /\ run.fungsi = "P10"
  BY <1>8
<1>. HIDE DEF tulis, u
<1>6. r.isi = tulis /\ r.lihat[x] = Tiada /\ r.lihat[o] = Tiada
  BY <1>2, <1>3 DEF Rancangan
<1>. HIDE DEF r
<1>7. ASSUME IsianSah(db, tumpang) PROVE RencanaIsian(r)
  <2>1. RencanaPenyedia(r) /\ RencanaPanggilan(r)
    BY <1>2, <1>3, <1>6 DEF RencanaPenyedia, RencanaPanggilan
  <2>2. t = "usulan" => UsulanBerbentuk(u) /\ u.isi = Kosong /\ Berpasangan(r, u, u.fungsi)
    BY <1>2, <1>3, <1>4, <1>6, <1>7, <1>9 DEF Berpasangan
  <2>3. t = "permintaan" => u \in BentukPermintaan /\ Berpasangan(r, u, "P10")
    BY <1>2, <1>3, <1>4, <1>6, <1>7, <1>9 DEF Berpasangan
  <2>4. RencanaKutipan(r)
    BY <1>2, <1>3, <1>6, <1>7, <2>2, <2>3 DEF RencanaKutipan
  <2>. QED  BY <2>1, <2>4 DEF RencanaIsian
<1>. QED  BY <1>5, <1>7, Mengisi DEF r

LEMMA RencanaUsulan ==
  ASSUME NEW p, NEW fungsi \in Fungsi, NEW sasaran, NEW calon, NEW parameter, NEW baca,
         AjukanUsulan(p, fungsi, sasaran, calon, parameter, baca),
         sasaran \in IF fungsi = "P01" THEN {"sumber"} \X Nat ELSE {"kasus"},
         IsianSah(db, tumpang) =>
           DOMAIN calon \subseteq Nat /\ \A i \in DOMAIN calon : Tercalon(fungsi, calon[i])
  PROVE  Terencana(p)
<1>. DEFINE run == RunBaru(fungsi, calon, parameter)
            isi == [fungsi |-> fungsi, sasaran |-> sasaran, run |-> Kosong,
                    hasil |-> Kosong, kode |-> {}, isi |-> Kosong]
<1>1. ModePii = "BLOKIR" /\ RunDanBaris(p, baca, run, "usulan", isi)
  BY DEF AjukanUsulan
<1>2. IsianSah(db, tumpang) => RunSah(db, run) /\ run.fungsi = fungsi
  BY <1>1, RunBaruSah
<1>. HIDE DEF run
<1>3. ASSUME NEW x
      PROVE  LET u == [isi EXCEPT !.run = x] IN UsulanBerbentuk(u) /\ u.isi = Kosong /\ u.fungsi = fungsi
  <2>. DEFINE u == [isi EXCEPT !.run = x]
  <2>1. u = [fungsi |-> fungsi, sasaran |-> sasaran, run |-> x, hasil |-> Kosong, kode |-> {}, isi |-> Kosong]
    OBVIOUS
  <2>. HIDE DEF u, isi
  <2>2. UsulanBerbentuk(u)
    BY <2>1 DEF UsulanBerbentuk, AtauKosong
  <2>. QED  BY <2>1, <2>2 DEF u
<1>4. "run" \in DOMAIN isi
  OBVIOUS
<1>. HIDE DEF isi
<1>5. PICK t \in {"usulan", "permintaan"} : t = "usulan"
  OBVIOUS
<1>. QED  BY <1>1, <1>2, <1>3, <1>4, <1>5, RencanaRun

\* Sources in any order.
LEMMA UrutanTercalon ==
  ASSUME muat \in Muatan, SitasiSah(db), NEW fungsi, NEW S, S \subseteq Baris("sumber"), NEW f \in Urutan(S)
  PROVE  \E A : Calon2(f) \in Seq(A) /\ \A c \in A : Tercalon(fungsi, c)
<1>. PICK n : n = Cardinality(S)
  OBVIOUS
<1>1. n \in Nat
  BY Tempatan, BarisTerhingga
<1>2. f \in [1..n -> S]
  BY DEF Urutan
<1>. PICK A : A = {Calon(o) : o \in S}
  OBVIOUS
<1>3. \A c \in A : Tercalon(fungsi, c)
  BY SumberTercalon
<1>4. Calon2(f) = [i \in 1..n |-> Calon(f[i])] /\ \A i \in 1..n : Calon(f[i]) \in A
  BY <1>2 DEF Calon2
<1>5. Calon2(f) \in Seq(A)
  BY <1>1, <1>4
<1>. QED  BY <1>3, <1>5

LEMMA Tersusun ==
  ASSUME NEW fungsi, NEW A, \A c \in A : Tercalon(fungsi, c), NEW s \in Seq(A)
  PROVE  DOMAIN s \subseteq Nat /\ \A i \in DOMAIN s : Tercalon(fungsi, s[i])
<1>1. DOMAIN s \subseteq Nat /\ \A i \in DOMAIN s : s[i] \in A
  OBVIOUS
<1>. QED  BY <1>1

LEMMA RencanaEkstraksi ==
  ASSUME NEW p, AjukanEkstraksi(p)
  PROVE  Terencana(p)
<1>1. PICK o \in Baris("sumber"), kode \in Potongan : AjukanUsulan(p, "P01", o, <<Calon(o)>>, kode, {o})
  BY DEF AjukanEkstraksi
<1>2. IsianSah(db, tumpang) => Tercalon("P01", Calon(o))
  BY SumberTercalon DEF IsianSah
<1>. PICK c : c = Calon(o)
  OBVIOUS
<1>3. <<c>> \in Seq({c})
  OBVIOUS
<1>4. IsianSah(db, tumpang) => DOMAIN <<c>> \subseteq Nat /\ \A i \in DOMAIN <<c>> : Tercalon("P01", <<c>>[i])
  BY <1>2, <1>3, Tersusun
<1>5. PICK fungsi \in Fungsi : fungsi = "P01"
  BY DEF Fungsi
<1>6. o \in {"sumber"} \X Nat
  BY Tempatan, Letak
<1>. QED  BY <1>1, <1>4, <1>5, <1>6, RencanaUsulan

LEMMA RencanaTanyaBukti ==
  ASSUME IndInv, NEW p, AjukanTanyaBukti(p)
  PROVE  Terencana(p)
<1>1. PICK S, f, klaim, putusan, jenis :
        S \subseteq Baris("sumber") /\ f \in Urutan(S) /\ klaim \in Naskah /\ putusan \in Naskah /\
        AjukanUsulan(p, "P04", "kasus", Calon2(f) \o
          <<CalonTeks(<<"klaim", klaim>>, klaim, jenis),
            CalonTeks(<<"keputusan", putusan>>, putusan, jenis)>>, <<>>, S)
  BY DEF AjukanTanyaBukti
<1>. PICK fungsi \in Fungsi : fungsi = "P04"
  BY DEF Fungsi
<1>. PICK a : a = CalonTeks(<<"klaim", klaim>>, klaim, jenis)
  OBVIOUS
<1>. PICK b : b = CalonTeks(<<"keputusan", putusan>>, putusan, jenis)
  OBVIOUS
<1>2. Tercalon(fungsi, a) /\ Tercalon(fungsi, b)
  BY <1>1, TeksTercalon DEF Wacana
<1>. PICK s : s = Calon2(f) \o <<a, b>>
  OBVIOUS
<1>3. ASSUME IsianSah(db, tumpang) PROVE DOMAIN s \subseteq Nat /\ \A i \in DOMAIN s : Tercalon(fungsi, s[i])
  <2>1. PICK A : Calon2(f) \in Seq(A) /\ \A c \in A : Tercalon(fungsi, c)
    BY <1>1, <1>3, UrutanTercalon DEF IndInv, IsianSah
  <2>2. s \in Seq(A \cup {a, b})
    BY <2>1
  <2>. QED  BY <1>2, <2>1, <2>2, Tersusun
<1>4. AjukanUsulan(p, fungsi, "kasus", s, <<>>, S)
  BY <1>1
<1>. QED  BY <1>3, <1>4, RencanaUsulan

LEMMA RencanaKritik ==
  ASSUME IndInv, NEW p, AjukanKritik(p)
  PROVE  Terencana(p)
<1>1. PICK v \in VersiTerbaru : LET S == {k.sumber : k \in db[v].kutipan} IN
        /\ db[v].teks \notin {Kosong, <<>>}
        /\ \E f \in Urutan(S) : AjukanUsulan(p, "P09", "kasus",
             Append(Calon2(f), CalonTeks(<<"versi", v>>, db[v].teks, db[f[1]].jenis)), <<>>, S \cup {v})
  BY Zenon DEF AjukanKritik
<1>. PICK S : S = {k.sumber : k \in db[v].kutipan}
  OBVIOUS
<1>2. PICK f \in Urutan(S) : db[v].teks \notin {Kosong, <<>>} /\ AjukanUsulan(p, "P09", "kasus",
        Append(Calon2(f), CalonTeks(<<"versi", v>>, db[v].teks, db[f[1]].jenis)), <<>>, S \cup {v})
  BY <1>1
<1>. PICK jenis : jenis = db[f[1]].jenis
  OBVIOUS
<1>. PICK fungsi \in Fungsi : fungsi = "P09"
  BY DEF Fungsi
<1>. PICK a : a = CalonTeks(<<"versi", v>>, db[v].teks, jenis)
  OBVIOUS
<1>. PICK s : s = Append(Calon2(f), a)
  OBVIOUS
<1>3. ASSUME IsianSah(db, tumpang) PROVE DOMAIN s \subseteq Nat /\ \A i \in DOMAIN s : Tercalon(fungsi, s[i])
  <2>1. v \in Isi(db, "versi") /\ VersiSah(db, db[v])
    BY <1>3 DEF VersiTerbaru, Baris, IsianSah, SitasiSah
  <2>2. v = <<"versi", v[2]>> /\ v[2] \in Nat
    BY <2>1, Letak DEF Isi
  <2>3. db[v].teks \in Wacana /\ S \subseteq Baris("sumber")
    BY <1>2, <2>1 DEF VersiSah, Baris
  <2>4. Tercalon(fungsi, a)
    BY <2>2, <2>3, TeksTercalon
  <2>5. PICK A : Calon2(f) \in Seq(A) /\ \A c \in A : Tercalon(fungsi, c)
    BY <1>3, <2>3, UrutanTercalon DEF IndInv, IsianSah
  <2>6. s \in Seq(A \cup {a})
    BY <2>5
  <2>. QED  BY <2>4, <2>5, <2>6, Tersusun
<1>4. AjukanUsulan(p, fungsi, "kasus", s, <<>>, S \cup {v})
  BY <1>2
<1>. QED  BY <1>3, <1>4, RencanaUsulan

LEMMA RencanaDraf ==
  ASSUME IndInv, NEW p, AjukanDraf(p)
  PROVE  Terencana(p)
<1>. DEFINE isi == [run |-> Kosong, hasil |-> Kosong]
<1>1. PICK S, f : S \subseteq Baris("sumber") /\ f \in Urutan(S) /\
        ModePii = "BLOKIR" /\ RunDanBaris(p, S, RunBaru("P10", Calon2(f), <<>>), "permintaan", isi)
  BY DEF AjukanDraf
<1>. PICK fungsi \in Fungsi : fungsi = "P10"
  BY DEF Fungsi
<1>. PICK run : run = RunBaru(fungsi, Calon2(f), <<>>)
  OBVIOUS
<1>2. ASSUME IsianSah(db, tumpang) PROVE RunSah(db, run) /\ run.fungsi = fungsi
  <2>1. PICK A : Calon2(f) \in Seq(A) /\ \A c \in A : Tercalon(fungsi, c)
    BY <1>1, <1>2, UrutanTercalon DEF IndInv, IsianSah
  <2>2. DOMAIN Calon2(f) \subseteq Nat /\ \A i \in DOMAIN Calon2(f) : Tercalon(fungsi, Calon2(f)[i])
    BY <2>1, Tersusun
  <2>. QED  BY <1>1, <2>2, RunBaruSah
<1>3. RunDanBaris(p, S, run, "permintaan", isi) /\ "run" \in DOMAIN isi
  BY <1>1
<1>4. \A x \in {"run"} \X Nat : [isi EXCEPT !.run = x] \in BentukPermintaan
  BY DEF BentukPermintaan, AtauKosong
<1>. HIDE DEF isi
<1>5. PICK t \in {"usulan", "permintaan"} : t = "permintaan"
  OBVIOUS
<1>. QED  BY <1>2, <1>3, <1>4, <1>5, RencanaRun

LEMMA RencanaSumber ==
  ASSUME NEW p, BuatSumber(p)
  PROVE  Terencana(p)
<1>1. PICK d \in BarisSumber : Tambah(p, BarisBaru("sumber"), {}, d)
  BY DEF BuatSumber, SumberBaru
<1>2. SumberSah(d)
  BY DEF BarisSumber, SumberSah
<1>3. ASSUME NEW r, NEW o, DOMAIN r.isi = {o}, r.isi[o] = d, r.lihat[o] = Tiada, o[1] = "sumber"
      PROVE  RencanaIsian(r)
  BY <1>2, <1>3 DEF RencanaIsian, RencanaPenyedia, RencanaPanggilan, RencanaKutipan
<1>4. PICK t \in TabelIsian : t = "sumber"
  BY DEF TabelIsian
<1>. QED  BY <1>1, <1>3, <1>4, TambahIsian

\* The codes of a quarantine.
LEMMA KodeKeluaran ==
  ASSUME NEW j, NEW masukan, j.bentuk \in {"JSON_TIDAK_SAH", "SKEMA_TIDAK_SAH", "SAH"}
  PROVE  CekKeluaran(j, masukan) \subseteq KodeRun
<1>1. ASSUME NEW s PROVE CekKutipan(s, masukan) \subseteq KodeKarantina /\ CekRef(s, masukan) \subseteq KodeKarantina
  BY DEF CekKutipan, CekRef, KodeKarantina
<1>. DEFINE a == UNION {CekRef(f, masukan) : f \in j.refs}
            b == UNION {CekKutipan(s, masukan) : s \in j.spans}
            c == IF j.status = "AI_DRAFT" /\ j.spans = {} THEN {"TANPA_SITASI"} ELSE {}
            d == IF j.status = "EVIDENCE_GAP" /\ j.unknowns = <<>> THEN {"GAP_TANPA_ALASAN"} ELSE {}
<1>2. a \subseteq KodeKarantina /\ b \subseteq KodeKarantina
  BY <1>1
<1>3. c \subseteq KodeKarantina /\ d \subseteq KodeKarantina
  BY DEF KodeKarantina
<1>4. CekKeluaran(j, masukan) = IF j.bentuk # "SAH" THEN {j.bentuk} ELSE a \cup b \cup c \cup d
  BY DEF CekKeluaran
<1>. HIDE DEF a, b, c, d
<1>5. j.bentuk # "SAH" => j.bentuk \in KodeKarantina
  BY DEF KodeKarantina
<1>. QED  BY <1>2, <1>3, <1>4, <1>5 DEF KodeRun

\* What a quotation that passes was checked against.
LEMMA LolosKutipan ==
  ASSUME NEW j, NEW masukan, j.bentuk = "SAH", CekKeluaran(j, masukan) = {}, NEW s \in j.spans
  PROVE  s.span # <<>> /\ \E m \in masukan : m.id = s.id /\ Memuat(m.teks, s.span)
<1>1. CekKutipan(s, masukan) = {}
  BY DEF CekKeluaran
<1>2. PICK asal : asal = {m \in masukan : m.id = s.id}
  OBVIOUS
<1>3. asal # {} /\ s.span # <<>> /\ {"KUTIPAN_TIDAK_DITEMUKAN" : m \in {x \in asal : ~Memuat(x.teks, s.span)}} = {}
  BY <1>1, <1>2 DEF CekKutipan
<1>4. \A x \in asal : Memuat(x.teks, s.span)
  BY <1>3
<1>. QED  BY <1>2, <1>3, <1>4

\* The parts of an answer.
BentukJawaban(fungsi, j) ==
  /\ j.bentuk \in {"JSON_TIDAK_SAH", "SKEMA_TIDAK_SAH", "SAH"}
  /\ j.bentuk = "SAH" =>
       /\ j.refs \subseteq [id : IdJawaban, hash : Sidik] /\ j.spans \subseteq [id : IdJawaban, span : Potongan]
       /\ fungsi = "P01" => j.isi \in [fakta : SUBSET [fakta : Potongan, sumber : IdJawaban, span : Potongan]]
       /\ fungsi = "P04" => j.isi \in Isi04
       /\ fungsi = "P09" => j.isi \in [temuan : Potongan]
       /\ fungsi = "P10" => j.isi \in Isi10

LEMMA JawabanBerbentuk ==
  ASSUME NEW r, db[r].sumber \subseteq [id : IdSumber, hash : Sidik], NEW j \in Jawaban(r),
         j.henti \notin {"refusal", "max_tokens"}
  PROVE  BentukJawaban(db[r].fungsi, j)
<1>. DEFINE id == {s.id : s \in db[r].sumber} \cup {Karangan}
            hash == {s.hash : s \in db[r].sumber}
            fungsi == db[r].fungsi
            sah == [henti : {"end_turn"}, bentuk : {"SAH"}, status : {"AI_DRAFT", "EVIDENCE_GAP"},
              refs : Paling([id : id, hash : hash]), spans : Paling([id : id, span : Potongan]),
              unknowns : Potongan, isi : IsiFungsi(fungsi, id)]
<1>1. \/ j \in [henti : {"refusal", "max_tokens"}]
      \/ j \in [henti : {"end_turn"}, bentuk : {"JSON_TIDAK_SAH", "SKEMA_TIDAK_SAH"}]
      \/ j \in sah
  BY DEF Jawaban
<1>2. id \subseteq IdJawaban /\ hash \subseteq Sidik
  BY DEF IdJawaban
<1>3. ASSUME j \in sah PROVE BentukJawaban(fungsi, j)
  <2>1. \A S : \A x \in Paling(S) : x \subseteq S
    BY DEF Paling
  <2>2. /\ j.bentuk = "SAH" /\ j.refs \in Paling([id : id, hash : hash])
        /\ j.spans \in Paling([id : id, span : Potongan]) /\ j.isi \in IsiFungsi(fungsi, id)
    BY <1>3
  <2>. HIDE DEF id, hash, fungsi
  <2>3. j.refs \subseteq [id : IdJawaban, hash : Sidik] /\ j.spans \subseteq [id : IdJawaban, span : Potongan]
    <3>1. j.refs \subseteq [id : id, hash : hash] /\ j.spans \subseteq [id : id, span : Potongan]
      BY <2>1, <2>2
    <3>. QED  BY <1>2, <3>1
  <2>4. ASSUME fungsi = "P01"
        PROVE  j.isi \in [fakta : SUBSET [fakta : Potongan, sumber : IdJawaban, span : Potongan]]
    <3>1. j.isi \in [fakta : Paling([fakta : Potongan, sumber : id, span : Potongan])]
      BY <2>2, <2>4 DEF IsiFungsi, Isi01
    <3>2. Paling([fakta : Potongan, sumber : id, span : Potongan])
            \subseteq SUBSET [fakta : Potongan, sumber : IdJawaban, span : Potongan]
      <4>1. [fakta : Potongan, sumber : id, span : Potongan]
              \subseteq [fakta : Potongan, sumber : IdJawaban, span : Potongan]
        BY <1>2
      <4>. QED  BY <2>1, <4>1
    <3>. QED  BY <3>1, <3>2
  <2>5. /\ fungsi = "P04" => j.isi \in Isi04
        /\ fungsi = "P09" => j.isi \in [temuan : Potongan]
        /\ fungsi = "P10" => j.isi \in Isi10
    BY <2>2 DEF IsiFungsi
  <2>. QED  BY <2>2, <2>3, <2>4, <2>5 DEF BentukJawaban
<1>4. j \in [henti : {"end_turn"}, bentuk : {"JSON_TIDAK_SAH", "SKEMA_TIDAK_SAH"}] => BentukJawaban(fungsi, j)
  BY DEF BentukJawaban
<1>. QED  BY <1>1, <1>3, <1>4


\* An answer that is kept quotes what was sent, in fact the sources, and is clean.
LEMMA KeluaranBaru ==
  ASSUME SitasiSah(db), NEW r \in Baris("run"), NEW j \in Jawaban(r),
         VonisJawaban(j, db[r].masukan).status # "KARANTINA",
         NEW k, k = [refs |-> j.refs, spans |-> j.spans, isi |-> j.isi]
  PROVE  k \in BentukKeluaran /\ KeluaranSah(db, db[r].fungsi, k)
<1>. PICK fungsi, masukan : fungsi = db[r].fungsi /\ masukan = db[r].masukan
  OBVIOUS
<1>1. RunSah(db, db[r])
  BY DEF SitasiSah, Baris
<1>2. /\ j.henti \notin {"refusal", "max_tokens"} /\ CekKeluaran(j, masukan) = {}
      /\ \A t \in Tulisan(j) : Temuan(t, Kamus) = {}
  BY Zenon DEF VonisJawaban
<1>3. BentukJawaban(fungsi, j)
  BY <1>1, <1>2, JawabanBerbentuk DEF RunSah, BentukRun
<1>4. j.bentuk = "SAH"
  BY <1>2 DEF CekKeluaran
<1>5. /\ j.refs \subseteq [id : IdJawaban, hash : Sidik] /\ j.spans \subseteq [id : IdJawaban, span : Potongan]
      /\ fungsi = "P01" => j.isi \in [fakta : SUBSET [fakta : Potongan, sumber : IdJawaban, span : Potongan]]
      /\ fungsi = "P10" => j.isi \in Isi10
  BY <1>3, <1>4 DEF BentukJawaban
<1>6. k \in BentukKeluaran
  <2>1. fungsi \in Fungsi
    BY <1>1 DEF RunSah, BentukRun
  <2>2. j.isi \in IsiJawaban
    BY <1>3, <1>4, <2>1 DEF BentukJawaban, Fungsi, IsiJawaban
  <2>. QED  BY <1>5, <2>2 DEF BentukKeluaran
<1>7. ASSUME NEW s \in j.spans PROVE Terkutip(db, s) /\ (fungsi = "P01" => s.id \in Rak("sumber"))
  <2>1. PICK m \in masukan : m.id = s.id /\ Memuat(m.teks, s.span) /\ s.span # <<>>
    BY <1>2, <1>4, LolosKutipan
  <2>2. MasukanSah(db, fungsi, m)
    BY <1>1 DEF RunSah
  <2>3. s.span \in Wacana
    BY <1>5 DEF Wacana
  <2>. QED  BY <2>1, <2>2, <2>3 DEF MasukanSah, Terkutip
<1>8. ASSUME fungsi = "P01", NEW f \in j.isi.fakta PROVE f.span \in Potongan /\ Temuan(f.fakta, {}) = {}
  <2>1. "fakta" \in DOMAIN j.isi /\ f \in [fakta : Potongan, sumber : IdJawaban, span : Potongan]
    BY <1>5, <1>8
  <2>2. f.fakta \in Tulisan(j)
    BY <2>1 DEF Tulisan
  <2>. QED  BY <1>2, <2>1, <2>2, TemuanBersih
<1>9. ASSUME fungsi = "P10"
      PROVE  j.isi.draf \in AtauKosong(Potongan) /\ (j.isi.draf # Kosong => Temuan(j.isi.draf, {}) = {})
  <2>1. DOMAIN j.isi = {"draf"} /\ j.isi.draf \in AtauKosong(Potongan)
    BY <1>5, <1>9 DEF Isi10
  <2>2. j.isi.draf # Kosong => j.isi.draf \in Tulisan(j)
    BY <2>1 DEF Tulisan
  <2>. QED  BY <1>2, <2>1, <2>2, TemuanBersih
<1>. QED  BY <1>6, <1>7, <1>8, <1>9 DEF KeluaranSah

LEMMA RencanaJawab ==
  ASSUME NEW p, Jawab(p)
  PROVE  Terencana(p)
<1>1. PICK r, j : r \in Baris("run") /\ j \in Jawaban(r) /\ db[r].status = "MENUNGGU" /\
        Ganti(p, r, Partisipan, [status |-> VonisJawaban(j, db[r].masukan).status,
          kode |-> VonisJawaban(j, db[r].masukan).kode, masukan |-> {},
          keluaran |-> IF VonisJawaban(j, db[r].masukan).status = "KARANTINA" THEN Kosong
            ELSE [refs |-> j.refs, spans |-> j.spans, isi |-> j.isi]])
  BY DEF Jawab
<1>. DEFINE vonis == VonisJawaban(j, db[r].masukan)
<1>. PICK k : k = [refs |-> j.refs, spans |-> j.spans, isi |-> j.isi]
  OBVIOUS
<1>. PICK y : y = IF vonis.status = "KARANTINA" THEN Kosong ELSE k
  OBVIOUS
<1>. PICK u : u = [status |-> vonis.status, kode |-> vonis.kode, masukan |-> {}, keluaran |-> y]
  OBVIOUS
<1>2. Ganti(p, r, Partisipan, u)
  BY <1>1
<1>3. ASSUME SitasiSah(db) PROVE RunBerubah(r, Beda(r, u))
  <2>1. RunSah(db, db[r]) /\ Nyata(db[r])
    BY <1>1, <1>3, Tempatan DEF SitasiSah, Baris
  <2>2. vonis.status \in StatusRun \ {"MENUNGGU"} /\ vonis.kode \in SUBSET KodeRun
    <3>1. /\ vonis.status \in {"KARANTINA", "LOLOS", "EVIDENCE_GAP"}
          /\ \/ vonis.kode = {} \/ vonis.kode = {"MODEL_MENOLAK"} \/ vonis.kode = {"KELUARAN_TERPOTONG"}
             \/ vonis.kode = {"PII_KELUARAN"}
             \/ vonis.kode = CekKeluaran(j, db[r].masukan) /\ j.henti \notin {"refusal", "max_tokens"}
      BY Zenon DEF VonisJawaban
    <3>2. j.henti \notin {"refusal", "max_tokens"} => CekKeluaran(j, db[r].masukan) \subseteq KodeRun
      BY <1>1, <2>1, JawabanBerbentuk, KodeKeluaran DEF RunSah, BentukRun, BentukJawaban
    <3>. HIDE DEF vonis
    <3>. QED  BY <3>1, <3>2 DEF StatusRun, KodeRun, KodeKarantina
  <2>3. vonis.status # "KARANTINA" => k \in BentukKeluaran /\ KeluaranSah(db, db[r].fungsi, k)
    BY <1>1, <1>3, KeluaranBaru
  <2>. HIDE DEF vonis
  <2>. PICK d : d = Beda(r, u)
    OBVIOUS
  <2>4. /\ d = [x \in DOMAIN d |-> d[x]] /\ DOMAIN d \subseteq KolomVonis
        /\ \A x \in KolomVonis : x \in DOMAIN d <=> db[r][x] # u[x]
        /\ \A x \in DOMAIN d : d[x] = u[x]
    BY DEF Beda, KolomVonis
  <2>5. "status" \in DOMAIN d /\ d.status \in StatusRun \ {"MENUNGGU"}
    BY <1>1, <2>2, <2>4 DEF KolomVonis
  <2>6. ASSUME d.status = "LOLOS" PROVE "keluaran" \in DOMAIN d /\ d.keluaran # Kosong
    <3>1. y = k /\ k # Kosong
      BY <2>3, <2>4, <2>5, <2>6, TandaBukanBaris
    <3>2. db[r].keluaran = Kosong
      BY <1>1, <2>1 DEF RunSah
    <3>. QED  BY <2>4, <3>1, <3>2 DEF KolomVonis
  <2>7. "keluaran" \in DOMAIN d /\ d.keluaran # Kosong =>
          d.keluaran \in BentukKeluaran /\ KeluaranSah(db, db[r].fungsi, d.keluaran)
    BY <2>3, <2>4
  <2>8. ("kode" \in DOMAIN d => d.kode \in SUBSET KodeRun) /\ ("masukan" \in DOMAIN d => d.masukan = {})
    BY <2>2, <2>4
  <2>. QED  BY <2>1, <2>4, <2>5, <2>6, <2>7, <2>8 DEF RunBerubah
<1>4. ASSUME SitasiSah(db), NEW x, DOMAIN x.isi = {r}, x.isi[r] = Beda(r, u), x.lihat[r] # Tiada, r[1] = "run"
      PROVE  RencanaIsian(x)
  BY <1>3, <1>4 DEF RencanaIsian, RencanaPenyedia, RencanaPanggilan, RencanaKutipan
<1>5. PICK t \in TabelIsian : t = "run"
  BY DEF TabelIsian
<1>. QED  BY <1>1, <1>2, <1>4, <1>5, GantiIsian DEF IsianSah


\* The facts of a suggestion that follows the rule are those of its sources.
LEMMA FaktaTerkutip ==
  ASSUME SitasiSah(db), NEW k, KeluaranSah(db, "P01", k), AturanP01(k.isi, k.spans) = {}
  PROVE  FaktaSah(db, k.isi)
<1>1. SUFFICES ASSUME NEW f \in k.isi.fakta
               PROVE  /\ f.span # <<>> /\ f.sumber \in Isi(db, "sumber") /\ Memuat(db[f.sumber].teks, f.span)
                      /\ Temuan(f.fakta, {}) = {}
  BY DEF FaktaSah
<1>2. PICK s \in k.spans : f.span # <<>> /\ s.id = f.sumber /\ Memuat(s.span, f.span)
  BY DEF AturanP01
<1>3. Terkutip(db, s) /\ s.id \in Rak("sumber") /\ f.span \in Wacana /\ Temuan(f.fakta, {}) = {}
  BY DEF KeluaranSah, Wacana
<1>4. s.id \in Isi(db, "sumber") /\ s.span \in Wacana /\ Memuat(db[s.id].teks, s.span)
  BY <1>3 DEF Terkutip, Isi
<1>5. db[s.id].teks \in Wacana
  BY <1>4 DEF SitasiSah, SumberSah, Wacana
<1>6. Memuat(db[s.id].teks, f.span)
  BY <1>2, <1>3, <1>4, <1>5, MemuatTerus
<1>. QED  BY <1>2, <1>3, <1>4, <1>6

LEMMA RencanaSerapUsulan ==
  ASSUME NEW p, SerapUsulan(p)
  PROVE  Terencana(p)
<1>1. PICK o \in Baris("usulan") : Ganti(p, o, {db[o].run}, Serapan(db[o], db[db[o].run]))
  BY DEF SerapUsulan
<1>. PICK y : y = db[db[o].run]
  OBVIOUS
<1>. PICK u : u = Serapan(db[o], y)
  OBVIOUS
<1>. DEFINE langgar == IF y.status = "LOLOS" THEN Aturan(db[o].fungsi, y.keluaran) ELSE {}
<1>2. /\ DOMAIN u \subseteq {"hasil", "kode", "isi"} /\ u.hasil \in HasilUsulan
      /\ "kode" \in DOMAIN u => u.kode = y.kode \/ u.kode = langgar
      /\ "isi" \in DOMAIN u => y.status = "LOLOS" /\ langgar = {} /\ u.isi = y.keluaran.isi
  <2>1. u = IF y.status = "EVIDENCE_GAP" THEN [hasil |-> "EVIDENCE_GAP"]
            ELSE IF y.status # "LOLOS" THEN [hasil |-> "MANUAL", kode |-> y.kode]
            ELSE IF langgar # {} THEN [hasil |-> "MANUAL", kode |-> langgar]
            ELSE [hasil |-> "USULAN_DIBUAT", isi |-> y.keluaran.isi]
    BY DEF Serapan
  <2>. HIDE DEF langgar
  <2>. QED  BY <2>1 DEF HasilUsulan
<1>8. langgar \subseteq KodeAturan
  BY DEF Aturan, AturanP01, AturanP04, KodeAturan
<1>3. ASSUME SitasiSah(db)
      PROVE  /\ "kode" \in DOMAIN u => u.kode \subseteq KodeRun \cup KodeAturan
             /\ "isi" \in DOMAIN u => u.isi \in IsiJawaban /\ (db[o].fungsi = "P01" => FaktaSah(db, u.isi))
  <2>1. o \in Isi(db, "usulan")
    BY DEF Baris
  <2>2. BerRun(db, db[o].run, db[o].fungsi)
    BY <1>3, <2>1 DEF SitasiSah, UsulanSah
  <2>3. RunSah(db, y) /\ y.fungsi = db[o].fungsi
    BY <1>3, <2>2 DEF BerRun, SitasiSah, Isi
  <2>4. "kode" \in DOMAIN u => u.kode \subseteq KodeRun \cup KodeAturan
    BY <1>2, <1>8, <2>3 DEF RunSah, BentukRun
  <2>5. ASSUME "isi" \in DOMAIN u PROVE u.isi \in IsiJawaban /\ (db[o].fungsi = "P01" => FaktaSah(db, u.isi))
    <3>1. y.status = "LOLOS" /\ u.isi = y.keluaran.isi /\ Aturan(db[o].fungsi, y.keluaran) = {}
      BY <1>2, <2>5
    <3>2. y.keluaran # Kosong /\ KeluaranSah(db, db[o].fungsi, y.keluaran)
      BY <2>3, <3>1 DEF RunSah
    <3>3. y.keluaran \in BentukKeluaran
      BY <2>3, <3>2 DEF RunSah, BentukRun, AtauKosong
    <3>4. u.isi \in IsiJawaban
      BY <3>1, <3>3 DEF BentukKeluaran
    <3>5. db[o].fungsi = "P01" => FaktaSah(db, u.isi)
      BY <1>3, <3>1, <3>2, FaktaTerkutip DEF Aturan
    <3>. QED  BY <3>4, <3>5
  <2>. QED  BY <2>4, <2>5
<1>. HIDE DEF langgar
<1>4. db[o] # Tiada
  BY Tempatan
<1>5. ASSUME SitasiSah(db) PROVE UsulanBerubah(o, Beda(o, u))
  BY <1>2, <1>3, <1>4, <1>5, KolomBeda DEF UsulanBerubah
<1>6. ASSUME SitasiSah(db), NEW x, DOMAIN x.isi = {o}, x.isi[o] = Beda(o, u), x.lihat[o] # Tiada, o[1] = "usulan"
      PROVE  RencanaIsian(x)
  BY <1>5, <1>6 DEF RencanaIsian, RencanaPenyedia, RencanaPanggilan, RencanaKutipan
<1>7. PICK t \in TabelIsian : t = "usulan"
  BY DEF TabelIsian
<1>. QED  BY <1>1, <1>6, <1>7, GantiIsian DEF IsianSah

\* The version that is made of a draft.
LEMMA VersiBaru ==
  ASSUME SitasiSah(db), NEW o, BerRun(db, o, "P10"), NEW y, y = db[o], NEW kutipan, NEW teks,
         kutipan = IF y.keluaran = Kosong THEN {} ELSE Kutipan(y),
         teks = IF y.status = "LOLOS" THEN y.keluaran.isi.draf ELSE Kosong,
         KutipanSah(teks, kutipan)
  PROVE  VersiSah(db, [run |-> o, teks |-> teks, kutipan |-> kutipan])
<1>1. RunSah(db, y) /\ y.fungsi = "P10"
  BY DEF BerRun, SitasiSah, Isi
<1>2. y.keluaran # Kosong => KeluaranSah(db, "P10", y.keluaran)
  BY <1>1 DEF RunSah
<1>3. ASSUME teks # Kosong PROVE teks \in Wacana /\ Temuan(teks, {}) = {}
  <2>1. teks = y.keluaran.isi.draf /\ y.keluaran # Kosong
    BY <1>1, <1>3 DEF RunSah
  <2>. QED  BY <1>2, <1>3, <2>1 DEF KeluaranSah, Wacana, AtauKosong
<1>4. ASSUME NEW q \in kutipan
      PROVE  /\ q.sumber \in Isi(db, "sumber") /\ db[q.sumber].hash = q.hash
             /\ q.span # <<>> /\ Memuat(db[q.sumber].teks, q.span)
  <2>1. q.sumber \in Isi(db, "sumber") /\ db[q.sumber].hash = q.hash
    BY DEF KutipanSah, Baris
  <2>2. y.keluaran # Kosong /\ q \in Kutipan(y)
    BY <1>4
  <2>3. PICK s \in y.keluaran.spans : q.sumber = s.id /\ q.span = s.span
    BY <2>2 DEF Kutipan
  <2>4. Terkutip(db, s)
    BY <1>2, <2>2 DEF KeluaranSah
  <2>5. s.id \in Rak("sumber")
    BY <2>1, <2>3 DEF Isi
  <2>. QED  BY <2>1, <2>3, <2>4, <2>5 DEF Terkutip
<1>. QED  BY <1>3, <1>4 DEF VersiSah, KutipanSah

LEMMA RencanaSerapDraf ==
  ASSUME NEW p, SerapDraf(p)
  PROVE  Terencana(p)
<1>1. PICK m \in Baris("permintaan") :
        LET o == db[m].run
            r == db[o]
            kutipan == IF r.keluaran = Kosong THEN {} ELSE Kutipan(r)
            teks == IF r.status = "LOLOS" THEN r.keluaran.isi.draf ELSE Kosong
            diterima == DrafSesuai(r) /\ KutipanSah(teks, kutipan) IN
        IF r.status \notin {"LOLOS", "EVIDENCE_GAP"} \/ ~diterima
        THEN Ganti(p, m, {o}, [hasil |-> "MANUAL"])
        ELSE \E v \in BarisBaru("versi") : Rencanakan(p, {o},
               [x \in {m, v} |-> IF x = v THEN [run |-> o, teks |-> teks, kutipan |-> kutipan]
                 ELSE [hasil |-> IF teks = Kosong THEN "NEED_FACT" ELSE "VERSI_DIBUAT"]])
  BY Zenon DEF SerapDraf
<1>. PICK o : o = db[m].run
  OBVIOUS
<1>. PICK y : y = db[o]
  OBVIOUS
<1>. PICK kutipan : kutipan = IF y.keluaran = Kosong THEN {} ELSE Kutipan(y)
  OBVIOUS
<1>. PICK teks : teks = IF y.status = "LOLOS" THEN y.keluaran.isi.draf ELSE Kosong
  OBVIOUS
<1>. PICK h : h = IF teks = Kosong THEN "NEED_FACT" ELSE "VERSI_DIBUAT"
  OBVIOUS
<1>. PICK a : a = [run |-> o, teks |-> teks, kutipan |-> kutipan]
  OBVIOUS
<1>2. \/ Ganti(p, m, {o}, [hasil |-> "MANUAL"])
      \/ /\ KutipanSah(teks, kutipan)
         /\ \E v \in BarisBaru("versi") : Rencanakan(p, {o}, [x \in {m, v} |-> IF x = v THEN a ELSE [hasil |-> h]])
  BY <1>1
<1>3. m \in Rak("permintaan") /\ m[1] = "permintaan" /\ Nyata(db[m]) /\ db[m] # Tiada
  BY Tempatan, Letak
<1>4. CASE Ganti(p, m, {o}, [hasil |-> "MANUAL"])
  <2>. PICK u : u = Beda(m, [hasil |-> "MANUAL"])
    OBVIOUS
  <2>1. DOMAIN u \subseteq {"hasil"} /\ \A k \in DOMAIN u : u[k] \in HasilDraf
    BY KolomBeda DEF HasilDraf
  <2>2. ASSUME NEW x, DOMAIN x.isi = {m}, x.isi[m] = u, x.lihat[m] # Tiada PROVE RencanaIsian(x)
    BY <1>3, <2>1, <2>2 DEF RencanaIsian, RencanaPenyedia, RencanaPanggilan, RencanaKutipan
  <2>3. PICK t \in TabelIsian : t = "permintaan"
    BY DEF TabelIsian
  <2>. QED  BY <1>4, <2>2, <2>3, GantiIsian
<1>5. ASSUME KutipanSah(teks, kutipan), NEW v \in BarisBaru("versi"),
             Rencanakan(p, {o}, [x \in {m, v} |-> IF x = v THEN a ELSE [hasil |-> h]])
      PROVE  Terencana(p)
  <2>. DEFINE isi == [x \in {m, v} |-> IF x = v THEN a ELSE [hasil |-> h]]
              r == Rancangan({o}, isi, {})
  <2>1. v[1] = "versi" /\ v \in Rak("versi") /\ db[v] = Tiada /\ v # m
    BY <1>3, Tempatan, Letak
  <2>2. DOMAIN isi = {m, v} /\ isi[v] = a /\ isi[m] = [hasil |-> h]
    BY <2>1
  <2>3. Rencanakan(p, {o}, isi) /\ \A x \in DOMAIN isi : x[1] \in TabelIsian /\ x \in Rak(x[1])
    BY <1>3, <1>5, <2>1, <2>2 DEF TabelIsian
  <2>. HIDE DEF isi
  <2>4. r.isi = isi /\ r.lihat[v] = Tiada /\ r.lihat[m] # Tiada
    BY <1>3, <2>1, <2>2 DEF Rancangan
  <2>. HIDE DEF r
  <2>5. ASSUME IsianSah(db, tumpang) PROVE RencanaIsian(r)
    <3>1. BerRun(db, o, "P10")
      BY <2>5 DEF IsianSah, SitasiSah, PermintaanSah, Baris
    <3>2. VersiSah(db, a)
      BY <1>5, <2>5, <3>1, VersiBaru DEF IsianSah
    <3>3. DOMAIN isi[m] \subseteq {"hasil"} /\ \A k \in DOMAIN isi[m] : isi[m][k] \in HasilDraf
      BY <2>2 DEF HasilDraf
    <3>4. RencanaPenyedia(r) /\ RencanaPanggilan(r)
      BY <1>3, <2>1, <2>2, <2>4 DEF RencanaPenyedia, RencanaPanggilan
    <3>5. \A x \in DOMAIN r.isi : (x = v /\ x[1] = "versi") \/ (x = m /\ x[1] = "permintaan")
      BY <1>3, <2>1, <2>2, <2>4
    <3>6. /\ r.lihat[v] = Tiada /\ VersiSah(db, r.isi[v]) /\ r.lihat[m] # Tiada
          /\ DOMAIN r.isi[m] \subseteq {"hasil"} /\ \A k \in DOMAIN r.isi[m] : r.isi[m][k] \in HasilDraf
      BY <2>2, <2>4, <3>2, <3>3
    <3>7. RencanaKutipan(r)
      BY <1>3, <3>5, <3>6 DEF RencanaKutipan
    <3>. QED  BY <3>4, <3>7 DEF RencanaIsian
  <2>. QED  BY <2>3, <2>5, Mengisi DEF r
<1>. QED  BY <1>2, <1>4, <1>5

LEMMA RencanaSitasi ==
  ASSUME IndInv, NEW p, PermintaanSitasi(p)
  PROVE  Terencana(p)
BY RencanaSumber, RencanaEkstraksi, RencanaTanyaBukti, RencanaKritik, RencanaDraf, RencanaJawab,
   RencanaSerapUsulan, RencanaSerapDraf DEF PermintaanSitasi


\* Pages are planned alone.
LEMMA RencanaHalaman ==
  ASSUME NEW p, NEW h \in BarisBaru("halaman"), NEW baca, NEW baris,
         Rencanakan(p, baca, [x \in {h} |-> baris])
  PROVE  Terencana(p)
<1>1. Tambah(p, {h}, baca, baris) /\ {h} \subseteq Rak("halaman")
  BY Tempatan DEF Tambah
<1>. QED  BY <1>1, Menambah DEF TabelPlatform, TabelIstimewa

LEMMA RencanaDaftar ==
  ASSUME NEW p, NEW b, Daftar(p, b) \/ Cari(p, b) \/ DaftarTerbaru(p, b) \/ CariTerbaru(p, b)
  PROVE  Terencana(p)
<1>1. PICK h, d, urut : h \in HalamanBaru(b.tabel) /\ HitungBaris(p, h, b.tabel, d, urut)
  BY DEF Daftar, Cari, DaftarTerbaru, CariTerbaru
<1>2. h \in BarisBaru("halaman")
  BY <1>1 DEF HalamanBaru
<1>. QED  BY <1>1, <1>2, RencanaHalaman DEF HitungBaris

LEMMA RencanaAmbil ==
  ASSUME NEW p, NEW o, NEW w, Salin(p, o, w)
  PROVE  Terencana(p)
BY Tempatan, Menambah DEF Salin, TabelPlatform, TabelIstimewa

LEMMA RencanaLihat ==
  ASSUME NEW p, AgendaYayasan(p) \/ DaftarPenugasan(p) \/ DaftarLog(p) \/ DaftarKatalog(p) \/ DaftarKoreksi(p)
  PROVE  Terencana(p)
<1>1. \A t : HalamanBaru(t) \subseteq BarisBaru("halaman")
  BY DEF HalamanBaru
<1>2. CASE AgendaYayasan(p)
  BY <1>1, <1>2, RencanaHalaman DEF AgendaYayasan, HitungBaris
<1>3. CASE DaftarPenugasan(p)
  BY <1>1, <1>3, RencanaHalaman DEF DaftarPenugasan, HitungBaris
<1>4. CASE DaftarLog(p)
  BY <1>1, <1>4, RencanaHalaman DEF DaftarLog, HitungBaris
<1>5. CASE DaftarKatalog(p)
  BY <1>1, <1>5, RencanaHalaman DEF DaftarKatalog
<1>6. CASE DaftarKoreksi(p)
  BY <1>1, <1>6, RencanaHalaman DEF DaftarKoreksi, HitungBaris
<1>. QED  BY <1>2, <1>3, <1>4, <1>5, <1>6

LEMMA RencanaBacaan ==
  ASSUME NEW p, PermintaanBacaan(p), ~BacaHalaman(p)
  PROVE  Terencana(p)
<1>1. ASSUME NEW b, Daftar(p, b) \/ Cari(p, b) \/ DaftarTerbaru(p, b) \/ CariTerbaru(p, b) PROVE Terencana(p)
  BY <1>1, RencanaDaftar
<1>2. ASSUME NEW t, Ambil(p, t) PROVE Terencana(p)
  BY <1>2, RencanaAmbil DEF Ambil
<1>3. (DaftarKonteks(p) \/ DaftarVersiMetode(p) \/ DaftarKodeOrang(p) \/ DaftarMasalah(p) \/
       DaftarProses(p) \/ DaftarBukti(p) \/ DaftarAlternatif(p) \/ DaftarPenilaian(p) \/
       DaftarSesi(p) \/ DaftarCakupan(p) \/ DaftarSekolah(p) \/ DaftarJenjang(p) \/
       DaftarMapel(p) \/ DaftarJabatan(p) \/ DaftarPartisipan(p) \/ DaftarPanel(p) \/
       DaftarTp(p) \/ DaftarDt(p) \/ DaftarUt(p) \/ DaftarYayasan(p) \/
       DaftarSumber(p) \/ DaftarUsulan(p) \/ DaftarKonfirmasi(p))
        => Terencana(p)
  BY <1>1 DEF
     DaftarKonteks, DaftarVersiMetode, DaftarKodeOrang, DaftarMasalah, DaftarProses,
     DaftarBukti, DaftarAlternatif, DaftarPenilaian, DaftarSesi, DaftarCakupan,
     DaftarSekolah, DaftarJenjang, DaftarMapel, DaftarJabatan, DaftarPartisipan,
     DaftarPanel, DaftarTp, DaftarDt, DaftarUt, DaftarYayasan, DaftarSumber, DaftarUsulan, DaftarKonfirmasi
<1>4. (CariKonteks(p) \/ CariVersiMetode(p) \/ CariKodeOrang(p) \/ CariMasalah(p) \/
       CariProses(p) \/ CariBukti(p) \/ CariAlternatif(p) \/ CariPenilaian(p) \/ CariSesi(p) \/
       CariCakupan(p) \/ CariSekolah(p) \/ CariJenjang(p) \/ CariMapel(p) \/ CariJabatan(p) \/
       CariPartisipan(p) \/ CariPanel(p) \/ CariTp(p) \/ CariDt(p) \/ CariUt(p) \/
       CariYayasan(p) \/ CariSumber(p) \/ CariUsulan(p) \/ CariKonfirmasi(p))
        => Terencana(p)
  BY <1>1 DEF
     CariKonteks, CariVersiMetode, CariKodeOrang, CariMasalah, CariProses, CariBukti,
     CariAlternatif, CariPenilaian, CariSesi, CariCakupan, CariSekolah, CariJenjang,
     CariMapel, CariJabatan, CariPartisipan, CariPanel, CariTp, CariDt, CariUt,
     CariYayasan, CariSumber, CariUsulan, CariKonfirmasi
<1>5. (AmbilKonteks(p) \/ AmbilVersiMetode(p) \/ AmbilKodeOrang(p) \/ AmbilMasalah(p) \/
       AmbilProses(p) \/ AmbilBukti(p) \/ AmbilAlternatif(p) \/ AmbilPenilaian(p) \/
       AmbilSesi(p) \/ AmbilCakupan(p) \/ AmbilSekolah(p) \/ AmbilJenjang(p) \/ AmbilMapel(p)
       \/ AmbilJabatan(p) \/ AmbilPartisipan(p) \/ AmbilPanel(p) \/ AmbilTp(p) \/ AmbilDt(p) \/
       AmbilUt(p) \/ AmbilPenugasan(p) \/ AmbilLangkah(p) \/ AmbilButirDcs(p) \/ AmbilButirWcp(p) \/
       AmbilSumber(p) \/ AmbilUsulan(p) \/ AmbilKonfirmasi(p))
        => Terencana(p)
  BY <1>2 DEF
     AmbilKonteks, AmbilVersiMetode, AmbilKodeOrang, AmbilMasalah, AmbilProses,
     AmbilBukti, AmbilAlternatif, AmbilPenilaian, AmbilSesi, AmbilCakupan, AmbilSekolah,
     AmbilJenjang, AmbilMapel, AmbilJabatan, AmbilPartisipan, AmbilPanel, AmbilTp,
     AmbilDt, AmbilUt, AmbilPenugasan, AmbilLangkah, AmbilButirDcs, AmbilButirWcp, AmbilSumber,
     AmbilUsulan, AmbilKonfirmasi
<1>6. AmbilYayasan(p) \/ AmbilLog(p) => Terencana(p)
  BY RencanaAmbil DEF AmbilYayasan, AmbilLog
<1>. QED  BY <1>3, <1>4, <1>5, <1>6, RencanaLihat DEF PermintaanBacaan

LEMMA RencanaButir ==
  ASSUME NEW p, UbahButir(p) \/ HapusButir(p)
  PROVE  Terencana(p)
<1>1. CASE UbahButir(p)
  BY <1>1, Mengganti DEF UbahButir, TabelButir, TabelPlatform, TabelIstimewa
<1>2. CASE HapusButir(p)
  BY <1>2, Membuang DEF HapusButir, TabelButir, TabelPlatform, TabelIsian
<1>. QED  BY <1>1, <1>2

-------------------------------------------------------------------------------
(* What a commit leaves.                                                     *)

\* The database empties the school of row x, or deletes the seat x.
DiKosongkan(B, o, x) == /\ o[1] \in {"masalah", "sesi"} /\ Nyata(x) /\ "sekolah" \in DOMAIN x
                        /\ x.sekolah \in Baris("sekolah") /\ B[x.sekolah] = Bekas
                        /\ B[o] = [x EXCEPT !.sekolah = Kosong]
Terhapus(B, o, x) == /\ o[1] = "sme_panel_anggota" /\ Nyata(x)
                     /\ x.panel \in Baris("sme_panel") /\ B[x.panel] = Bekas /\ B[o] = Bekas
Menjadi(B, o, x) == B[o] = x \/ DiKosongkan(B, o, x) \/ Terhapus(B, o, x)

\* The links of a column, with those that differ from the ones read removed and added.
Tautan(o, lihat, u, k) == (db[o][k] \ (lihat[k] \ u[k])) \cup (u[k] \ lihat[k])

\* B is what the plan r makes of the rows.
Jadinya(r, B) == \A o \in Obyek :
  /\ o \notin DOMAIN r.isi => Menjadi(B, o, db[o])
  /\ o \in DOMAIN r.isi =>
       /\ r.lihat[o] = Tiada => db[o] = Tiada /\ Menjadi(B, o, r.isi[o])
       /\ r.lihat[o] # Tiada /\ r.isi[o] = Bekas => B[o] = Bekas
       /\ r.lihat[o] # Tiada /\ r.isi[o] # Bekas => Nyata(db[o]) /\ \E u :
            /\ DOMAIN u = DOMAIN r.isi[o]
            /\ \A k \in DOMAIN u : <<o[1], k>> \notin Relasi => u[k] = r.isi[o][k]
            /\ \A k \in DOMAIN u : <<o[1], k>> \in Relasi => u[k] = Tautan(o, r.lihat[o], r.isi[o], k)
            /\ Menjadi(B, o, Timpa(db[o], u))

LEMMA Terlepasnya ==
  ASSUME Obyek = UNION {Rak(t) : t \in DOMAIN muat.tabel}, NEW g,
         NEW B, B = Ikut(Lepas(g, SetNull), KursiPanel), NEW o \in Obyek
  PROVE  Menjadi(B, o, g[o])
<1>. DEFINE l == Lepas(g, SetNull)
<1>1. \A c \in Obyek : c[1] \notin {"masalah", "sesi"} => l[c] = g[c]
  BY DEF Lepas, Terkait, Terlepas, SetNull
<1>2. \A c \in Obyek : c[1] # "sme_panel_anggota" => B[c] = l[c]
  BY DEF Ikut, Terkait, Terlepas, KursiPanel
<1>3. \A c \in Rak("sekolah") \cup Rak("sme_panel") : c \in Obyek /\ B[c] = g[c]
  BY <1>1, <1>2, LetakObyek, Letak
<1>4. CASE o[1] \in {"masalah", "sesi"}
  <2>1. CASE ~Terkait(g, SetNull, o)
    BY <1>2, <1>4, <2>1 DEF Lepas, Menjadi
  <2>2. CASE Terkait(g, SetNull, o)
    <3>1. Terlepas(g, SetNull, o) = {"sekolah"} /\ Nyata(g[o])
      BY <2>2 DEF Terkait, Terlepas, SetNull
    <3>2. "sekolah" \in DOMAIN g[o] /\ g[o].sekolah \in Baris("sekolah") /\ g[g[o].sekolah] = Bekas
      BY <3>1 DEF Terlepas, SetNull
    <3>3. l[o] = [k \in DOMAIN g[o] |-> IF k \in {"sekolah"} THEN Kosong ELSE g[o][k]]
      BY <2>2, <3>1 DEF Lepas
    <3>4. l[o] = [g[o] EXCEPT !.sekolah = Kosong]
      BY <3>3
    <3>5. B[o] = l[o] /\ g[o].sekolah \in Rak("sekolah") /\ B[g[o].sekolah] = Bekas
      BY <1>2, <1>3, <1>4, <3>2, Tempatan
    <3>. HIDE DEF l
    <3>. QED  BY <1>4, <3>1, <3>2, <3>4, <3>5 DEF Menjadi, DiKosongkan
  <2>. QED  BY <2>1, <2>2
<1>5. CASE o[1] = "sme_panel_anggota"
  <2>1. l[o] = g[o] /\ \A c \in Rak("sme_panel") : l[c] = g[c]
    BY <1>1, <1>5, LetakObyek, Letak
  <2>. HIDE DEF l
  <2>2. CASE ~Terkait(l, KursiPanel, o)
    BY <2>1, <2>2 DEF Ikut, Menjadi, l
  <2>3. CASE Terkait(l, KursiPanel, o)
    <3>1. l[o].panel \in Baris("sme_panel") /\ l[l[o].panel] = Bekas /\ Nyata(l[o])
      BY <2>3 DEF Terkait, Terlepas, KursiPanel
    <3>2. B[o] = Bekas
      BY <2>3 DEF Ikut, l
    <3>. QED  BY <1>3, <1>5, <2>1, <3>1, <3>2, Tempatan DEF Menjadi, Terhapus
  <2>. QED  BY <2>2, <2>3
<1>6. CASE o[1] \notin {"masalah", "sesi", "sme_panel_anggota"}
  BY <1>1, <1>2, <1>6 DEF Menjadi
<1>. QED  BY <1>4, <1>5, <1>6

LEMMA Hasilnya ==
  ASSUME IndInv, NEW p, Simpan(p), NEW B, B = db'
  PROVE  Jadinya(rencana[p], B) /\ TargetAda(p)
<1>. DEFINE r == rencana[p]
            g == Gabungan(p, Relasi)
<1>1. TargetAda(p) /\ B = Ikut(Lepas(g, SetNull), KursiPanel)
  BY DEF Simpan, Tulis
<1>2. \A o \in Obyek : Menjadi(B, o, g[o])
  BY <1>1, Terlepasnya DEF IndInv
<1>3. \A o \in Obyek : g[o] = IF o \notin DOMAIN r.isi THEN db[o]
        ELSE IF db[o] = Tiada \/ r.isi[o] = Bekas THEN r.isi[o]
        ELSE Timpa(db[o], Kolom(o, r.lihat[o], r.isi[o], Relasi))
  BY DEF Gabungan
<1>. HIDE DEF g
<1>4. \A o \in DOMAIN r.isi : IF r.lihat[o] = Tiada THEN db[o] = Tiada
                              ELSE r.isi[o] # Bekas => Nyata(db[o])
  BY <1>1 DEF TargetAda
<1>5. ASSUME NEW o \in Obyek, o \in DOMAIN r.isi, r.lihat[o] # Tiada, r.isi[o] # Bekas
      PROVE  Nyata(db[o]) /\ \E u :
               /\ DOMAIN u = DOMAIN r.isi[o]
               /\ \A k \in DOMAIN u : <<o[1], k>> \notin Relasi => u[k] = r.isi[o][k]
               /\ \A k \in DOMAIN u : <<o[1], k>> \in Relasi => u[k] = Tautan(o, r.lihat[o], r.isi[o], k)
               /\ Menjadi(B, o, Timpa(db[o], u))
  <2>. DEFINE u == Kolom(o, r.lihat[o], r.isi[o], Relasi)
  <2>1. Nyata(db[o]) /\ db[o] # Tiada
    BY <1>4, <1>5 DEF Nyata
  <2>2. /\ DOMAIN u = DOMAIN r.isi[o]
        /\ \A k \in DOMAIN u : <<o[1], k>> \notin Relasi => u[k] = r.isi[o][k]
        /\ \A k \in DOMAIN u : <<o[1], k>> \in Relasi => u[k] = Tautan(o, r.lihat[o], r.isi[o], k)
    BY DEF Kolom, Tautan
  <2>3. Menjadi(B, o, Timpa(db[o], u))
    BY <1>2, <1>3, <1>5, <2>1
  <2>. HIDE DEF u
  <2>. QED  BY <2>1, <2>2, <2>3
<1>6. ASSUME NEW o \in Obyek, o \in DOMAIN r.isi, r.isi[o] = Bekas, r.lihat[o] # Tiada PROVE B[o] = Bekas
  BY <1>2, <1>3, <1>6 DEF Menjadi, DiKosongkan, Nyata, Terhapus
<1>. QED  BY <1>1, <1>2, <1>3, <1>4, <1>5, <1>6 DEF Jadinya

\* What the plans that are committed have in common.
Umum(p, r) ==
  /\ DOMAIN r.isi \subseteq DOMAIN r.lihat
  /\ RencanaBaris(r) /\ RencanaRujukan(r) /\ RencanaSubjek(p, r) /\ RencanaKursi(r)
  /\ \A o \in DOMAIN r.isi : /\ o[1] \notin {"akun", "cadangan", "pulih"}
                             /\ o[1] = "skema" => \E h \in Rilis : r.isi[o] = [revisi |-> h]

LEMMA KepalaRilis ==
  ASSUME IndInv, Baris("boot") # {}
  PROVE  /\ StartTerakhir \in Baris("boot") /\ StartTerakhir \in Rak("boot")
         /\ \A c \in Baris("boot") : c[2] <= StartTerakhir[2]
         /\ Tahap = db[StartTerakhir].tahap /\ HeadKode = db[StartTerakhir].head /\ HeadKode \in Rilis
         /\ Tahap \in {"migrasi", "benih", "layani"}
         /\ db[StartTerakhir] = [tahap |-> Tahap, head |-> HeadKode]
<1>1. \E o \in Baris("boot") : \A c \in Baris("boot") : c[2] <= o[2]
  BY DEF IndInv, BootSah
<1>2. StartTerakhir \in Baris("boot") /\ \A c \in Baris("boot") : c[2] <= StartTerakhir[2]
  BY <1>1, Zenon DEF StartTerakhir
<1>3. StartTerakhir \in Rak("boot") /\ db[StartTerakhir] # Tiada
  BY <1>2, Tempatan
<1>4. Tahap = db[StartTerakhir].tahap /\ HeadKode = db[StartTerakhir].head
  BY DEF Tahap, HeadKode
<1>5. PICK t \in {"migrasi", "benih", "layani"}, h \in Rilis : db[StartTerakhir] = [tahap |-> t, head |-> h]
  BY <1>3 DEF IndInv, BootSah
<1>. QED  BY <1>2, <1>3, <1>4, <1>5

LEMMA Umumnya ==
  ASSUME IndInv, NEW p \in Proses, rencana[p] # Tiada, ~Menjawab(p)
  PROVE  /\ Umum(p, rencana[p])
         /\ \/ RencanaBiasa(p, rencana[p]) \/ RencanaUpgrade(p, rencana[p]) \/ RencanaBenih(p, rencana[p])
<1>. DEFINE r == rencana[p]
<1>. SUFFICES Umum(p, r) /\ (RencanaBiasa(p, r) \/ RencanaUpgrade(p, r) \/ RencanaBenih(p, r))
  OBVIOUS
<1>1. RencanaBiasa(p, r) \/ RencanaPulih(p, r) \/ RencanaUpgrade(p, r) \/ RencanaBenih(p, r)
  BY DEF IndInv, RencanaSah
<1>2. ~RencanaPulih(p, r)
  BY Letak DEF RencanaPulih, Menjawab
<1>3. CASE RencanaBiasa(p, r)
  BY <1>3 DEF RencanaBiasa, Umum, RencanaUtuh, TabelPlatform
<1>. HIDE DEF r
<1>4. ASSUME \A o \in DOMAIN r.isi : o[1] \notin {"alternatif", "penilaian", "ts_log", "partisipan",
               "sme_panel", "sme_panel_anggota"},
             \A o \in DOMAIN r.lihat : r.lihat[o] = db[o]
      PROVE  RencanaSubjek(p, r) /\ RencanaKursi(r)
  BY <1>4 DEF RencanaSubjek, RencanaKursi
<1>5. CASE RencanaUpgrade(p, r)
  <2>1. \A o \in DOMAIN r.isi : o[1] \in {"boot", "skema"} /\ (o[1] = "skema" => o \in Rak("skema"))
    BY <1>5, KepalaRilis, Letak DEF RencanaUpgrade, RencanaMulai
  <2>2. \A o \in Rak("skema") : \E h \in Rilis : r.isi[o] = [revisi |-> h]
    BY <1>5, KepalaRilis DEF RencanaUpgrade, RencanaMulai
  <2>3. RencanaBaris(r) /\ RencanaRujukan(r)
    <3>1. \A o \in DOMAIN r.isi : AturanBaris(o, Jadi(r, o)) /\ Bentuk(o, Jadi(r, o)) /\ RujukanSah(Sesudah(r), o, Jadi(r, o))
      BY <2>1, TanpaBentuk DEF AturanBaris, TabelBerbentuk, RujukanSah
    <3>. QED  BY <2>1, <3>1 DEF RencanaBaris, RencanaRujukan
  <2>. QED  BY <1>4, <1>5, <2>1, <2>2, <2>3 DEF Umum, RencanaUpgrade, RencanaMulai
<1>6. CASE RencanaBenih(p, r)
  <2>1. \A o \in DOMAIN r.isi : o[1] = "boot" \/ o[1] \in TabelBenih
    BY <1>6, KepalaRilis, Letak DEF BarisBenih, RencanaBenih, RencanaMulai
  <2>. QED  BY <1>4, <1>6, <2>1 DEF Umum, RencanaBenih, RencanaMulai, TabelBenih, TabelButir
<1>. QED  BY <1>1, <1>2, <1>3, <1>5, <1>6

\* Rows of the tables that the database does not touch by itself.
Langsung(o) == o[1] \notin {"masalah", "sesi", "sme_panel_anggota"}

LEMMA BarisnyaTetap ==
  ASSUME NEW r, NEW B, Jadinya(r, B), NEW o \in Obyek, Langsung(o)
  PROVE  /\ o \notin DOMAIN r.isi => B[o] = db[o]
         /\ o \in DOMAIN r.isi /\ r.lihat[o] = Tiada => db[o] = Tiada /\ B[o] = r.isi[o]
         /\ o \in DOMAIN r.isi /\ r.lihat[o] # Tiada /\ r.isi[o] = Bekas => B[o] = Bekas
         /\ o \in DOMAIN r.isi /\ r.lihat[o] # Tiada /\ r.isi[o] # Bekas /\ o[1] \notin {"tp", "dt"} =>
              Nyata(db[o]) /\ B[o] = Timpa(db[o], r.isi[o])
         /\ o \in DOMAIN r.isi /\ r.lihat[o] # Tiada /\ r.isi[o] # Bekas /\ r.lihat[o] = db[o] =>
              Nyata(db[o]) /\ B[o] = Timpa(db[o], r.isi[o])
<1>1. \A x : Menjadi(B, o, x) => B[o] = x
  BY DEF Menjadi, DiKosongkan, Terhapus, Langsung
<1>3. ASSUME o \in DOMAIN r.isi, r.lihat[o] # Tiada, r.isi[o] # Bekas, r.lihat[o] = db[o]
      PROVE  Nyata(db[o]) /\ B[o] = Timpa(db[o], r.isi[o])
  <2>2. PICK u : /\ DOMAIN u = DOMAIN r.isi[o]
                 /\ \A k \in DOMAIN u : <<o[1], k>> \notin Relasi => u[k] = r.isi[o][k]
                 /\ \A k \in DOMAIN u : <<o[1], k>> \in Relasi => u[k] = Tautan(o, r.lihat[o], r.isi[o], k)
                 /\ Menjadi(B, o, Timpa(db[o], u))
    BY <1>3 DEF Jadinya
  <2>1. \A k \in DOMAIN u : u[k] = r.isi[o][k]
    <3>1. \A k : Tautan(o, db[o], r.isi[o], k) = r.isi[o][k]
      BY DEF Tautan
    <3>. QED  BY <1>3, <2>2, <3>1
  <2>3. Timpa(db[o], u) = Timpa(db[o], r.isi[o])
    BY <2>1, <2>2 DEF Timpa
  <2>. QED  BY <1>1, <1>3, <2>2, <2>3 DEF Jadinya
<1>2. ASSUME o \in DOMAIN r.isi, r.lihat[o] # Tiada, r.isi[o] # Bekas, o[1] \notin {"tp", "dt"}
      PROVE  Nyata(db[o]) /\ B[o] = Timpa(db[o], r.isi[o])
  <2>1. \A k : <<o[1], k>> \notin Relasi
    BY <1>2 DEF Relasi, RelasiKatalog
  <2>2. PICK u : /\ DOMAIN u = DOMAIN r.isi[o]
                 /\ \A k \in DOMAIN u : <<o[1], k>> \notin Relasi => u[k] = r.isi[o][k]
                 /\ Menjadi(B, o, Timpa(db[o], u))
    BY <1>2 DEF Jadinya
  <2>3. Timpa(db[o], u) = Timpa(db[o], r.isi[o])
    BY <2>1, <2>2 DEF Timpa
  <2>. QED  BY <1>1, <1>2, <2>2, <2>3 DEF Jadinya
<1>. QED  BY <1>1, <1>2, <1>3 DEF Jadinya

\* A plan that is not stale leaves what it checked.
LEMMA JadiSegar ==
  ASSUME NEW r, NEW B, Jadinya(r, B), NEW o \in Obyek, Langsung(o),
         o \in DOMAIN r.isi, r.lihat[o] = db[o], r.isi[o] # Bekas
  PROVE  B[o] = Jadi(r, o)
BY BarisnyaTetap DEF Jadi

Tercatat(r, B, H) == \A o \in Obyek :
  H[o] = IF o \in DOMAIN r.isi /\ o[1] \in TabelRedesain
         THEN Catat(riwayat[o], r.lihat[o], B[o]) ELSE riwayat[o]

\* T are the overtaken rows: those before, and what a stale plan writes.
Segar(r, T) == tumpang \subseteq T /\
  (DOMAIN r.isi \subseteq T \/ \A c \in DOMAIN r.lihat : r.lihat[c] = db[c])

LEMMA BekasTetap ==
  ASSUME NEW r, NEW B, Jadinya(r, B), NEW o \in Obyek, Langsung(o), o[1] \notin {"tp", "dt"}, db[o] = Bekas
  PROVE  B[o] = Bekas
BY BarisnyaTetap, PermintaanAssumption DEF Nyata

LEMMA RiwayatBerlanjut ==
  ASSUME IndInv, NEW r, DOMAIN r.isi \subseteq DOMAIN r.lihat,
         NEW B, Jadinya(r, B), NEW H, Tercatat(r, B, H), NEW T, Segar(r, T)
  PROVE  RiwayatSah(B, H, T)
<1>. SUFFICES ASSUME NEW o \in Obyek \ T, o[1] \in TabelRedesain, B[o] # Bekas
              PROVE  H[o].utuh /\ Sama(B, H[o].akhir, B[o])
  BY DEF RiwayatSah
<1>1. o \notin tumpang /\ (db[o] # Bekas => riwayat[o].utuh /\ Sama(db, riwayat[o].akhir, db[o]))
  BY DEF Segar, IndInv, KeadaanSah, RiwayatSah
<1>2. o[1] \notin {"tp", "dt", "sme_panel_anggota"}
  BY DEF TabelRedesain
<1>3. CASE o \in DOMAIN r.isi
  <2>1. r.lihat[o] = db[o]
    BY <1>3 DEF Segar
  <2>2. db[o] # Bekas
    BY <1>3, <2>1, PermintaanAssumption DEF Jadinya, Nyata
  <2>3. H[o] = [akhir |-> B[o], utuh |-> riwayat[o].utuh /\ Sama(db, riwayat[o].akhir, db[o])]
    BY <1>3, <2>1 DEF Tercatat, Catat
  <2>4. riwayat[o].utuh /\ Sama(db, riwayat[o].akhir, db[o])
    BY <1>1, <2>2
  <2>5. H[o].akhir = B[o]
    BY <2>3
  <2>6. H[o].utuh
    <3>. DEFINE u == riwayat[o].utuh /\ Sama(db, riwayat[o].akhir, db[o])
    <3>1. u = TRUE
      BY <2>4
    <3>2. H[o] = [akhir |-> B[o], utuh |-> u]
      BY <2>3
    <3>. HIDE DEF u
    <3>. QED  BY <3>1, <3>2
  <2>. QED  BY <2>5, <2>6 DEF Sama
<1>4. CASE o \notin DOMAIN r.isi
  <2>1. H[o] = riwayat[o]
    BY <1>4 DEF Tercatat
  <2>2. Menjadi(B, o, db[o])
    BY <1>4 DEF Jadinya
  <2>3. \A s \in Rak("sekolah") : db[s] = Bekas => B[s] = Bekas
    BY BekasTetap, LetakObyek, Letak DEF IndInv, Langsung
  <2>4. CASE B[o] = db[o]
    BY <1>1, <2>1, <2>3, <2>4 DEF Sama
  <2>5. CASE DiKosongkan(B, o, db[o])
    <3>. DEFINE a == riwayat[o].akhir
    <3>1. Sama(db, a, db[o]) /\ riwayat[o].utuh
      BY <1>1, <2>5 DEF DiKosongkan, Nyata
    <3>2. db[o].sekolah # Kosong
      BY <2>5, KosongBukanBaris, Tempatan DEF DiKosongkan, IndInv
    <3>. HIDE DEF a
    <3>3. a = db[o]
      <4>1. SUFFICES ASSUME "sekolah" \in DOMAIN a, db[o] = [a EXCEPT !.sekolah = Kosong] PROVE FALSE
        BY <3>1 DEF Sama
      <4>2. db[o].sekolah = Kosong
        BY <4>1
      <4>. QED  BY <3>2, <4>2
    <3>4. Sama(B, a, B[o])
      BY <2>5, <3>3, Tempatan DEF Sama, DiKosongkan, Nyata
    <3>. QED  BY <2>1, <3>1, <3>4 DEF a
  <2>. QED  BY <1>2, <2>2, <2>4, <2>5 DEF Menjadi, Terhapus
<1>. QED  BY <1>3, <1>4

\* A row has its columns with the values of its table when those written had
\* them with the row that was read.
LEMMA BentukTimpa ==
  ASSUME NEW o, NEW lama, NEW lihat, NEW u, NEW v, DOMAIN v = DOMAIN u,
         \A k \in DOMAIN v : <<o[1], k>> \notin Relasi => v[k] = u[k],
         \A k \in DOMAIN v : <<o[1], k>> \in Relasi => v[k] \subseteq lama[k] \cup u[k],
         Bentuk(o, lama), Bentuk(o, Timpa(lihat, u))
  PROVE  Bentuk(o, Timpa(lama, v))
<1>. DEFINE w == Timpa(lihat, u)
            z == Timpa(lama, v)
<1>1. DOMAIN w = DOMAIN lihat /\ \A k \in DOMAIN lihat : w[k] = IF k \in DOMAIN u THEN u[k] ELSE lihat[k]
  BY KolomTimpa
<1>2. DOMAIN z = DOMAIN lama /\ \A k \in DOMAIN lama : z[k] = IF k \in DOMAIN v THEN v[k] ELSE lama[k]
  BY KolomTimpa
<1>3. z = [k \in DOMAIN lama |-> z[k]]
  BY DEF Timpa
<1>4. Relasi = {<<"tp", "jabatan">>, <<"dt", "jabatan">>}
  BY DEF Relasi, RelasiKatalog
<1>. HIDE DEF w, z
<1>5. ASSUME o[1] = "tp" PROVE z \in BentukTp
  <2>1. lama \in BentukTp /\ w \in BentukTp
    BY <1>5 DEF Bentuk, w
  <2>2. "jabatan" \in DOMAIN lama /\ "nama" \in DOMAIN lama /\ DOMAIN w = DOMAIN lama
    BY <2>1 DEF BentukTp
  <2>3. z.nama \in NamaKatalog
    BY <1>1, <1>2, <1>4, <1>5, <2>1, <2>2 DEF BentukTp
  <2>4. z.jabatan \in SUBSET ({"jabatan"} \X Nat)
    <3>1. lama.jabatan \in SUBSET ({"jabatan"} \X Nat) /\ w.jabatan \in SUBSET ({"jabatan"} \X Nat)
      BY <2>1 DEF BentukTp
    <3>2. "jabatan" \in DOMAIN v => v.jabatan \subseteq lama.jabatan \cup w.jabatan
      BY <1>1, <1>4, <1>5, <2>2
    <3>. QED  BY <1>2, <2>2, <3>1, <3>2
  <2>. QED  BY <1>2, <1>3, <2>1, <2>3, <2>4 DEF BentukTp
<1>6. ASSUME o[1] = "dt" PROVE z \in BentukDt /\ z.tp \in Rak("tp")
  <2>1. lama \in BentukDt /\ w \in BentukDt /\ lama.tp \in Rak("tp") /\ w.tp \in Rak("tp")
    BY <1>6 DEF Bentuk, w
  <2>2. {"jabatan", "nama", "tp"} = DOMAIN lama /\ DOMAIN w = DOMAIN lama
    BY <2>1 DEF BentukDt
  <2>3. z.nama \in NamaKatalog
    BY <1>1, <1>2, <1>4, <1>6, <2>1, <2>2 DEF BentukDt
  <2>4. z.jabatan \in SUBSET ({"jabatan"} \X Nat)
    <3>1. lama.jabatan \in SUBSET ({"jabatan"} \X Nat) /\ w.jabatan \in SUBSET ({"jabatan"} \X Nat)
      BY <2>1 DEF BentukDt
    <3>2. "jabatan" \in DOMAIN v => v.jabatan \subseteq lama.jabatan \cup w.jabatan
      BY <1>1, <1>4, <1>6, <2>2
    <3>. QED  BY <1>2, <2>2, <3>1, <3>2
  <2>5. z.tp \in Rak("tp") /\ z.tp \in {"tp"} \X Nat
    <3>1. z.tp \in {lama.tp, w.tp}
      BY <1>1, <1>2, <1>4, <1>6, <2>2
    <3>2. lama.tp \in {"tp"} \X Nat /\ w.tp \in {"tp"} \X Nat
      BY <2>1 DEF BentukDt
    <3>. QED  BY <2>1, <3>1, <3>2
  <2>. QED  BY <1>2, <1>3, <2>2, <2>3, <2>4, <2>5 DEF BentukDt
<1>7. ASSUME o[1] = "proses" PROVE "masalah" \in DOMAIN z /\ z.masalah \in Rak("masalah")
  BY <1>1, <1>2, <1>4, <1>7 DEF Bentuk, w
<1>8. ASSUME o[1] = "langkah" PROVE "proses" \in DOMAIN z /\ z.proses \in Rak("proses")
  BY <1>1, <1>2, <1>4, <1>8 DEF Bentuk, w
<1>9. ASSUME o[1] = "ut" PROVE {"dt", "jabatan"} \subseteq DOMAIN z /\ z.dt \in AtauKosong(Rak("dt"))
  BY <1>1, <1>2, <1>4, <1>9 DEF Bentuk, w
<1>. QED  BY <1>5, <1>6, <1>7, <1>8, <1>9 DEF Bentuk, z

LEMMA KolomTetapAda ==
  ASSUME IndInv, NEW p, NEW r, Umum(p, r), NEW B, Jadinya(r, B)
  PROVE  KolomAda(B)
<1>1. KolomAda(db)
  BY DEF IndInv, KeadaanSah
<1>2. ASSUME NEW o \in Isi(B, "penilaian") PROVE KolomDinilai \subseteq DOMAIN B[o]
  <2>1. o \in Obyek /\ o[1] = "penilaian" /\ Langsung(o) /\ B[o] # Bekas /\ Nyata(B[o])
    BY LetakObyek, Letak DEF Isi, IndInv, Langsung, Nyata
  <2>2. Nyata(db[o]) => KolomDinilai \subseteq DOMAIN db[o]
    BY <1>1 DEF KolomAda, Isi
  <2>3. o \in DOMAIN r.isi /\ r.isi[o] # Bekas /\ r.lihat[o] = Tiada => KolomDinilai \subseteq DOMAIN r.isi[o]
    BY <2>1 DEF Umum, RencanaBaris
  <2>. QED  BY <2>1, <2>2, <2>3, BarisnyaTetap, KolomTimpa
<1>3. ASSUME NEW o \in Isi(B, "partisipan") PROVE "subjek" \in DOMAIN B[o]
  <2>1. o \in Obyek /\ o[1] = "partisipan" /\ Langsung(o) /\ B[o] # Bekas /\ Nyata(B[o])
    BY LetakObyek, Letak DEF Isi, IndInv, Langsung, Nyata
  <2>2. Nyata(db[o]) => "subjek" \in DOMAIN db[o]
    BY <1>1 DEF KolomAda, Isi
  <2>3. o \in DOMAIN r.isi /\ r.isi[o] # Bekas /\ r.lihat[o] = Tiada => "subjek" \in DOMAIN r.isi[o]
    BY <2>1 DEF Umum, RencanaSubjek
  <2>. QED  BY <2>1, <2>2, <2>3, BarisnyaTetap, KolomTimpa
<1>4. ASSUME NEW o \in Isi(B, "sme_panel") PROVE "koordinator" \in DOMAIN B[o]
  <2>1. o \in Obyek /\ o[1] = "sme_panel" /\ Langsung(o) /\ B[o] # Bekas /\ Nyata(B[o])
    BY LetakObyek, Letak DEF Isi, IndInv, Langsung, Nyata
  <2>2. Nyata(db[o]) => "koordinator" \in DOMAIN db[o]
    BY <1>1 DEF KolomAda, Isi
  <2>3. o \in DOMAIN r.isi /\ r.isi[o] # Bekas /\ r.lihat[o] = Tiada => "koordinator" \in DOMAIN r.isi[o]
    BY <2>1 DEF Umum, RencanaKursi
  <2>. QED  BY <2>1, <2>2, <2>3, BarisnyaTetap, KolomTimpa
<1>5. ASSUME NEW o \in Rak("skema") PROVE \E h \in Rilis : B[o] = [revisi |-> h]
  <2>1. o \in Obyek /\ o[1] = "skema" /\ Langsung(o)
    BY LetakObyek, Letak DEF IndInv, Langsung
  <2>2. PICK h \in Rilis : db[o] = [revisi |-> h]
    BY <1>1 DEF KolomAda
  <2>3. CASE o \in DOMAIN r.isi
    <3>1. PICK g \in Rilis : r.isi[o] = [revisi |-> g]
      BY <2>1, <2>3 DEF Umum
    <3>2. db[o] # Tiada /\ r.isi[o] # Bekas
      BY <2>2, <3>1, TandaBukanBaris
    <3>3. B[o] = Timpa(db[o], r.isi[o])
      BY <2>1, <2>3, <3>2, BarisnyaTetap
    <3>4. B[o] = [revisi |-> g]
      BY <2>2, <3>1, <3>3 DEF Timpa
    <3>. QED  BY <3>4
  <2>. QED  BY <2>1, <2>2, <2>3, BarisnyaTetap
<1>6. ASSUME NEW t \in TabelBerbentuk, NEW o \in Isi(B, t) PROVE Bentuk(o, B[o])
  <2>1. o \in Obyek /\ o[1] = t /\ o \in Rak(t) /\ Langsung(o) /\ B[o] # Bekas /\ Nyata(B[o])
    BY LetakObyek, Letak DEF Isi, IndInv, Langsung, Nyata, TabelBerbentuk
  <2>2. Nyata(db[o]) => Bentuk(o, db[o])
    BY <1>1, <2>1 DEF KolomAda, Isi
  <2>3. o \in DOMAIN r.isi /\ r.isi[o] # Bekas => Bentuk(o, Jadi(r, o))
    BY DEF Umum, RencanaBaris
  <2>4. CASE o \in DOMAIN r.isi /\ r.lihat[o] # Tiada
    <3>1. r.isi[o] # Bekas
      BY <2>1, <2>4, BarisnyaTetap
    <3>2. PICK u : /\ DOMAIN u = DOMAIN r.isi[o]
                   /\ \A k \in DOMAIN u : <<o[1], k>> \notin Relasi => u[k] = r.isi[o][k]
                   /\ \A k \in DOMAIN u : <<o[1], k>> \in Relasi => u[k] = Tautan(o, r.lihat[o], r.isi[o], k)
                   /\ Menjadi(B, o, Timpa(db[o], u))
      BY <2>1, <2>4, <3>1 DEF Jadinya
    <3>3. B[o] = Timpa(db[o], u)
      BY <2>1, <3>2 DEF Menjadi, DiKosongkan, Terhapus, Langsung
    <3>4. Nyata(db[o])
      BY <2>1, <2>4, <3>1 DEF Jadinya
    <3>5. \A k : Tautan(o, r.lihat[o], r.isi[o], k) \subseteq db[o][k] \cup r.isi[o][k]
      BY DEF Tautan
    <3>6. Bentuk(o, Timpa(r.lihat[o], r.isi[o]))
      BY <2>3, <2>4, <3>1 DEF Jadi
    <3>7. Bentuk(o, Timpa(db[o], u))
      <4>1. \A k \in DOMAIN u : <<o[1], k>> \in Relasi => u[k] \subseteq db[o][k] \cup r.isi[o][k]
        BY <3>2, <3>5
      <4>. QED  BY <2>2, <3>2, <3>4, <3>6, <4>1, BentukTimpa
    <3>. QED  BY <3>3, <3>7
  <2>5. CASE o \in DOMAIN r.isi /\ r.lihat[o] = Tiada
    BY <2>1, <2>3, <2>5, BarisnyaTetap DEF Jadi
  <2>6. CASE o \notin DOMAIN r.isi
    BY <2>1, <2>2, <2>6, BarisnyaTetap
  <2>. QED  BY <2>4, <2>5, <2>6
<1>. QED  BY <1>2, <1>3, <1>4, <1>5, <1>6 DEF KolomAda

LEMMA AturanTetap ==
  ASSUME IndInv, NEW p, NEW r, Umum(p, r), NEW B, Jadinya(r, B), NEW T, Segar(r, T),
         NEW o \in Obyek \ T, Nyata(B[o])
  PROVE  AturanBaris(o, B[o])
<1>1. CASE o[1] \notin {"alternatif", "penilaian", "ts_log"}
  BY <1>1 DEF AturanBaris
<1>2. CASE o[1] \in {"alternatif", "penilaian", "ts_log"}
  <2>1. Langsung(o) /\ o[1] \notin {"tp", "dt"} /\ o \notin tumpang /\ B[o] # Bekas
    BY <1>2 DEF Langsung, Segar, Nyata
  <2>2. CASE o \in DOMAIN r.isi
    <3>1. r.lihat[o] = db[o]
      BY <2>2 DEF Segar, Umum
    <3>2. r.isi[o] # Bekas
      BY <2>1, <2>2, <3>1, BarisnyaTetap, PermintaanAssumption
    <3>3. B[o] = Jadi(r, o)
      BY <2>1, <2>2, <3>1, <3>2, JadiSegar
    <3>. QED  BY <2>1, <2>2, <3>2, <3>3 DEF Umum, RencanaBaris
  <2>3. CASE o \notin DOMAIN r.isi
    BY <2>1, <2>3, BarisnyaTetap DEF IndInv, KeadaanSah
  <2>. QED  BY <2>2, <2>3
<1>. QED  BY <1>1, <1>2

\* Seats that were there are as they were, or gone.
LEMMA KursiTetap ==
  ASSUME NEW r, NEW B, Jadinya(r, B), RencanaKursi(r), NEW a \in Obyek, a[1] = "sme_panel_anggota",
         db[a] # Tiada
  PROVE  /\ B[a] \in {db[a], Bekas}
         /\ a \notin DOMAIN r.isi => B[a] = db[a] \/ (db[a].panel \in Rak("sme_panel") /\ B[db[a].panel] = Bekas)
<1>1. CASE a \in DOMAIN r.isi
  BY <1>1 DEF Jadinya, RencanaKursi
<1>2. CASE a \notin DOMAIN r.isi
  BY <1>2, Tempatan DEF Jadinya, Menjadi, DiKosongkan, Terhapus
<1>. QED  BY <1>1, <1>2

LEMMA KoordinatorTetap ==
  ASSUME IndInv, NEW p, NEW r, Umum(p, r), NEW B, Jadinya(r, B), NEW T, Segar(r, T)
  PROVE  KoordinatorSah(B, T)
<1>. SUFFICES ASSUME NEW o \in Isi(B, "sme_panel") \ T, B[o].koordinator # Kosong
              PROVE  Berkursi(B, o, B[o].koordinator)
  BY DEF KoordinatorSah
<1>. DEFINE t == B[o].koordinator
<1>1. /\ o \in Obyek /\ o \in Rak("sme_panel") /\ o[1] = "sme_panel" /\ Langsung(o)
      /\ B[o] # Bekas /\ Nyata(B[o]) /\ o \notin tumpang /\ o[1] \notin {"tp", "dt"}
  BY LetakObyek, Letak DEF Isi, IndInv, Langsung, Nyata, Segar
<1>2. \A a \in Rak("sme_panel_anggota") : a \in Obyek /\ a[1] = "sme_panel_anggota"
  BY LetakObyek, Letak DEF IndInv
<1>3. ASSUME NEW a \in Rak("sme_panel_anggota") \ DOMAIN r.isi, Nyata(db[a]), db[a].panel = o, db[a].partisipan = t
      PROVE  Berkursi(B, o, t)
  <2>1. B[a] = db[a]
    BY <1>1, <1>2, <1>3, KursiTetap DEF Umum, Nyata
  <2>. QED  BY <1>3, <2>1 DEF Berkursi, Isi
<1>4. Nyata(db[o]) => "koordinator" \in DOMAIN db[o]
         /\ (db[o].koordinator = Kosong \/ Berkursi(db, o, db[o].koordinator))
  BY <1>1 DEF IndInv, KeadaanSah, KolomAda, KoordinatorSah, Isi
<1>5. CASE o \notin DOMAIN r.isi
  <2>1. B[o] = db[o]
    BY <1>1, <1>5, BarisnyaTetap
  <2>2. PICK a \in Isi(db, "sme_panel_anggota") : db[a].panel = o /\ db[a].partisipan = t
    BY <1>1, <1>4, <2>1 DEF Berkursi
  <2>3. a \in Rak("sme_panel_anggota") /\ Nyata(db[a]) /\ db[a] # Tiada /\ db[a] # Bekas
    BY DEF Isi, Nyata
  <2>4. a \notin DOMAIN r.isi
    <3>1. SUFFICES ASSUME a \in DOMAIN r.isi PROVE FALSE
      OBVIOUS
    <3>2. r.lihat[a] # Tiada
      BY <1>2, <2>3, <3>1 DEF Jadinya
    <3>3. r.lihat[a].panel \in DOMAIN r.isi /\ db[a] = r.lihat[a]
      BY <1>2, <2>3, <3>1, <3>2 DEF Umum, RencanaKursi
    <3>. QED  BY <1>5, <2>2, <3>3
  <2>. QED  BY <1>3, <2>2, <2>3, <2>4
<1>6. CASE o \in DOMAIN r.isi
  <2>1. \A c \in DOMAIN r.lihat : r.lihat[c] = db[c]
    BY <1>6 DEF Segar
  <2>2. r.lihat[o] = db[o] /\ o \in DOMAIN r.lihat
    BY <1>6, <2>1 DEF Umum
  <2>3. r.isi[o] # Bekas
    BY <1>1, <1>6, <2>2, BarisnyaTetap, PermintaanAssumption
  <2>4. CASE "koordinator" \in DOMAIN r.isi[o]
    <3>1. db[o] = Tiada => t = r.isi[o].koordinator
      BY <1>1, <1>6, <2>2, BarisnyaTetap
    <3>2. db[o] # Tiada => t = r.isi[o].koordinator
      BY <1>1, <1>4, <1>6, <2>2, <2>3, <2>4, BarisnyaTetap, KolomTimpa
    <3>3. PICK a \in DOMAIN r.lihat \ DOMAIN r.isi :
             /\ a \in Rak("sme_panel_anggota") /\ Nyata(r.lihat[a])
             /\ r.lihat[a].panel = o /\ r.lihat[a].partisipan = t
      BY <1>1, <1>6, <2>3, <2>4, <3>1, <3>2 DEF Umum, RencanaKursi
    <3>. QED  BY <1>3, <2>1, <3>3
  <2>5. CASE "koordinator" \notin DOMAIN r.isi[o]
    <3>1. /\ db[o] # Tiada
          /\ \A a \in DOMAIN r.isi : a[1] = "sme_panel_anggota" /\ r.lihat[a] # Tiada =>
               db[o].koordinator = Kosong \/ db[o].koordinator # r.lihat[a].partisipan
      BY <1>1, <1>6, <2>2, <2>3, <2>5 DEF Umum, RencanaKursi
    <3>2. Nyata(db[o]) /\ t = db[o].koordinator
      BY <1>1, <1>4, <1>6, <2>2, <2>3, <2>5, <3>1, BarisnyaTetap, KolomTimpa
    <3>3. PICK a \in Isi(db, "sme_panel_anggota") : db[a].panel = o /\ db[a].partisipan = t
      BY <1>4, <3>2 DEF Berkursi
    <3>4. a \in Rak("sme_panel_anggota") /\ Nyata(db[a]) /\ db[a] # Tiada
      BY DEF Isi, Nyata
    <3>5. a \notin DOMAIN r.isi
      BY <1>2, <2>1, <3>1, <3>2, <3>3, <3>4 DEF Umum
    <3>. QED  BY <1>3, <3>3, <3>4, <3>5
  <2>. QED  BY <2>4, <2>5
<1>. QED  BY <1>5, <1>6

\* A participant was there with this subject, or is registered by the plan.
LEMMA SubjekBaris ==
  ASSUME IndInv, NEW p, NEW r, Umum(p, r), NEW B, Jadinya(r, B), NEW o \in Isi(B, "partisipan")
  PROVE  \/ Nyata(db[o]) /\ o \in Isi(db, "partisipan") /\ B[o].subjek = db[o].subjek
         \/ o \in DOMAIN r.isi /\ r.lihat[o] = Tiada /\ db[o] = Tiada /\ B[o] = r.isi[o] /\ r.isi[o] # Bekas
<1>1. /\ o \in Obyek /\ o \in Rak("partisipan") /\ o[1] = "partisipan" /\ Langsung(o)
      /\ B[o] # Bekas /\ Nyata(B[o]) /\ o[1] \notin {"tp", "dt"}
  BY LetakObyek, Letak DEF Isi, IndInv, Langsung, Nyata
<1>2. CASE o \notin DOMAIN r.isi
  BY <1>1, <1>2, BarisnyaTetap DEF Isi
<1>3. CASE o \in DOMAIN r.isi /\ r.lihat[o] # Tiada
  <2>1. r.isi[o] # Bekas
    BY <1>1, <1>3, BarisnyaTetap
  <2>2. Nyata(db[o]) /\ B[o] = Timpa(db[o], r.isi[o])
    BY <1>1, <1>3, <2>1, BarisnyaTetap
  <2>3. o \in Isi(db, "partisipan") /\ "subjek" \in DOMAIN db[o]
    BY <1>1, <2>2 DEF IndInv, KeadaanSah, KolomAda, Isi
  <2>4. "subjek" \notin DOMAIN r.isi[o]
    BY <1>1, <1>3, <2>1 DEF Umum, RencanaSubjek
  <2>. QED  BY <2>2, <2>3, <2>4, KolomTimpa
<1>4. CASE o \in DOMAIN r.isi /\ r.lihat[o] = Tiada
  BY <1>1, <1>4, BarisnyaTetap
<1>. QED  BY <1>2, <1>3, <1>4

LEMMA SubjekTetap ==
  ASSUME IndInv, NEW p, NEW r, Umum(p, r), NEW B, Jadinya(r, B)
  PROVE  SubjekSah(B)
<1>1. \A o \in Isi(B, "partisipan") :
        o \in Obyek /\ o \in Rak("partisipan") /\ o[1] = "partisipan" /\ Langsung(o)
        /\ B[o] # Bekas /\ Nyata(B[o]) /\ o[1] \notin {"tp", "dt"}
  BY LetakObyek, Letak DEF Isi, IndInv, Langsung, Nyata
<1>2. \A e \in Akun : B[e] = db[e]
  <2>1. \A e \in Akun : e \in Obyek /\ e[1] = "akun" /\ Langsung(e)
    BY LetakObyek, Letak DEF IndInv, Akun, Langsung
  <2>. QED  BY <2>1, BarisnyaTetap DEF Umum
<1>3. \A o, c \in Isi(db, "partisipan") : db[o].subjek # Kosong =>
        db[o].subjek \in Akun /\ Nyata(db[db[o].subjek]) /\ (o # c => db[o].subjek # db[c].subjek)
  BY DEF IndInv, KeadaanSah, SubjekSah
<1>4. ASSUME NEW o \in Isi(B, "partisipan")
      PROVE  \/ Nyata(db[o]) /\ o \in Isi(db, "partisipan") /\ B[o].subjek = db[o].subjek
             \/ o \in DOMAIN r.isi /\ r.lihat[o] = Tiada /\ db[o] = Tiada /\ B[o] = r.isi[o] /\ r.isi[o] # Bekas
  BY SubjekBaris
<1>5. ASSUME NEW o \in Isi(B, "partisipan"), o \in DOMAIN r.isi, r.lihat[o] = Tiada, r.isi[o] # Bekas
      PROVE  /\ r.isi[o].subjek \in Akun /\ Nyata(db[r.isi[o].subjek])
             /\ \A c \in Isi(db, "partisipan") : db[c].subjek # r.isi[o].subjek
             /\ \A c \in DOMAIN r.isi : c[1] = "partisipan" => c = o
  BY <1>1, <1>5 DEF Umum, RencanaSubjek, Baris
<1>. SUFFICES ASSUME NEW o \in Isi(B, "partisipan"), NEW c \in Isi(B, "partisipan"), B[o].subjek # Kosong
              PROVE  B[o].subjek \in Akun /\ Nyata(B[B[o].subjek]) /\ (o # c => B[o].subjek # B[c].subjek)
  BY DEF SubjekSah
<1>6. B[o].subjek \in Akun /\ Nyata(db[B[o].subjek])
  BY <1>3, <1>4, <1>5
<1>7. o # c => B[o].subjek # B[c].subjek
  BY <1>1, <1>3, <1>4, <1>5
<1>. QED  BY <1>2, <1>6, <1>7

LEMMA KeadaanTetap ==
  ASSUME IndInv, NEW p, NEW r, Umum(p, r), NEW B, Jadinya(r, B), NEW T, Segar(r, T),
         NEW H, Tercatat(r, B, H)
  PROVE  KeadaanSah(B, H, T)
BY RiwayatBerlanjut, KolomTetapAda, AturanTetap, KoordinatorTetap, SubjekTetap DEF KeadaanSah, Umum

-------------------------------------------------------------------------------
(* From one state to the next.                                               *)

\* The tables and their places do not change.
Diam == UNCHANGED muat /\ Obyek' = Obyek

LEMMA BentukSama ==
  ASSUME UNCHANGED muat, NEW o, NEW w
  PROVE  Bentuk(o, w)' <=> Bentuk(o, w)
<1>1. \A t : Rak(t)' = Rak(t)
  BY DEF Rak
<1>. QED  BY <1>1 DEF Bentuk, AtauKosong

LEMMA RujukanTetap ==
  ASSUME UNCHANGED muat, NEW r, RencanaRujukan(r)
  PROVE  RencanaRujukan(r)'
<1>1. \A t : Rak(t)' = Rak(t)
  BY DEF Rak
<1>2. \A b, o, w : RujukanSah(b, o, w)' <=> RujukanSah(b, o, w)
  BY <1>1 DEF RujukanSah, RujukanProses, DalamKonfirmasi, MasalahLangkah, JabatanSubset, JabatanDiDt, Nyata
<1>. QED  BY <1>2 DEF RencanaRujukan, Menyentuh, Sesudah, Jadi

LEMMA Alih ==
  ASSUME Diam, NEW b, NEW h, NEW T, KeadaanSah(b, h, T)
  PROVE  KeadaanSah(b, h, T)'
<1>1. RiwayatSah(b, h, T)'
  BY DEF Diam, KeadaanSah, RiwayatSah, Obyek, Sama, Rak
<1>2. KolomAda(b)'
  <2>1. (\A t : Isi(b, t)' = Isi(b, t) /\ Rak(t)' = Rak(t)) /\ KolomAda(b)
    BY DEF Diam, KeadaanSah, Isi, Nyata, Rak
  <2>. QED  BY <2>1, BentukSama DEF Diam, KolomAda
<1>3. (\A o \in Obyek \ T : Nyata(b[o]) => AturanBaris(o, b[o]))'
  BY DEF Diam, KeadaanSah, Nyata, Obyek
<1>4. KoordinatorSah(b, T)'
  BY DEF Diam, KeadaanSah, KoordinatorSah, Berkursi, Isi, Nyata, Rak
<1>5. SubjekSah(b)'
  BY DEF Diam, KeadaanSah, SubjekSah, Isi, Nyata, Rak, Akun
<1>. QED  BY <1>1, <1>2, <1>3, <1>4, <1>5 DEF KeadaanSah

\* The rules are about the tables a dump holds, and about accounts.
LEMMA Pindah ==
  ASSUME Obyek = UNION {Rak(t) : t \in DOMAIN muat.tabel},
         NEW b, NEW h, NEW T, KeadaanSah(b, h, T), NEW c, NEW g, NEW U, T \subseteq U,
         \A o \in Obyek : o[1] \notin Luar => c[o] = b[o] /\ g[o] = h[o],
         \A e \in Akun : Nyata(b[e]) => Nyata(c[e])
  PROVE  KeadaanSah(c, g, U)
<1>1. \A t : t \notin Luar => \A o \in Rak(t) : o \in Obyek /\ c[o] = b[o]
  BY LetakObyek, Letak
<1>2. RiwayatSah(c, g, U)
  <2>1. \A s \in Rak("sekolah") : c[s] = b[s]
    BY <1>1 DEF Luar
  <2>2. \A o : o[1] \in TabelRedesain => o[1] \notin Luar
    BY DEF TabelRedesain, Luar
  <2>. QED  BY <2>1, <2>2 DEF KeadaanSah, RiwayatSah, Sama
<1>3. KolomAda(c)
  <2>1. \A t : t \notin Luar => Isi(c, t) = Isi(b, t) /\ \A o \in Rak(t) : c[o] = b[o]
    BY <1>1 DEF Isi
  <2>2. \A t \in TabelBerbentuk \cup {"penilaian", "partisipan", "sme_panel", "skema"} : t \notin Luar
    BY DEF TabelBerbentuk, Luar
  <2>3. \A t, o : o \in Isi(b, t) => o \in Rak(t)
    BY DEF Isi
  <2>. QED  BY <2>1, <2>2, <2>3 DEF KeadaanSah, KolomAda
<1>4. \A o \in Obyek \ U : Nyata(c[o]) => AturanBaris(o, c[o])
  <2>1. \A o \in Obyek : o[1] \in Luar => AturanBaris(o, c[o])
    BY DEF AturanBaris, Luar
  <2>. QED  BY <2>1 DEF KeadaanSah
<1>5. KoordinatorSah(c, U)
  BY <1>1 DEF KeadaanSah, KoordinatorSah, Berkursi, Isi, Luar
<1>6. SubjekSah(c)
  BY <1>1 DEF KeadaanSah, SubjekSah, Isi, Luar
<1>. QED  BY <1>2, <1>3, <1>4, <1>5, <1>6 DEF KeadaanSah

\* A dump stays one that may be restored.
LEMMA CadanganTetap ==
  ASSUME IndInv, Diam, tumpang \subseteq tumpang', \A e \in Akun : Nyata(db[e]) => Nyata(db[e]'),
         NEW c \in Baris("cadangan"), db'[c] = db[c], db'[c].utuh
  PROVE  KeadaanSah(Dipulihkan(c), RiwayatDipulihkan(c), tumpang)'
<1>. PICK b, h, T : b = Dipulihkan(c)' /\ h = RiwayatDipulihkan(c)' /\ T = tumpang'
  OBVIOUS
<1>1. KeadaanSah(Dipulihkan(c), RiwayatDipulihkan(c), tumpang)
  BY DEF IndInv
<1>2. \A o \in Obyek : o[1] \notin Luar => b[o] = Dipulihkan(c)[o] /\ h[o] = RiwayatDipulihkan(c)[o]
  BY DEF Dipulihkan, RiwayatDipulihkan, Dicadangkan, Diam
<1>3. \A e \in Akun : e \in Obyek /\ e[1] \in Luar
  BY LetakObyek, Letak DEF IndInv, Akun, Luar
<1>4. \A e \in Akun : Nyata(Dipulihkan(c)[e]) => Nyata(b[e])
  BY <1>3 DEF Dipulihkan, Dicadangkan, Diam, Nyata
<1>5. KeadaanSah(b, h, T)
  BY <1>1, <1>2, <1>4, Pindah DEF IndInv
<1>. QED  BY <1>5, Alih

LEMMA TahapTetap ==
  ASSUME IndInv, UNCHANGED muat, \A o \in Rak("boot") : db'[o] = db[o]
  PROVE  /\ Baris("boot")' = Baris("boot") /\ StartTerakhir' = StartTerakhir
         /\ Tahap' = Tahap /\ HeadKode' = HeadKode /\ Melayani' = Melayani
<1>1. Baris("boot")' = Baris("boot") /\ \A o \in Baris("boot") : db'[o] = db[o]
  BY DEF Baris, Isi, Rak, Nyata
<1>2. StartTerakhir' = StartTerakhir
  BY <1>1 DEF StartTerakhir
<1>3. Baris("boot") # {} => db'[StartTerakhir] = db[StartTerakhir]
  BY <1>1, KepalaRilis
<1>. QED  BY <1>1, <1>2, <1>3 DEF Tahap, HeadKode, Melayani

LEMMA RevisiTetap ==
  ASSUME UNCHANGED muat, \A o \in Rak("skema") : db'[o] = db[o]
  PROVE  Baris("skema")' = Baris("skema") /\ Revisi' = Revisi
<1>1. Baris("skema")' = Baris("skema") /\ \A o \in Baris("skema") : db'[o] = db[o]
  BY DEF Baris, Isi, Rak, Nyata
<1>2. Baris("skema") # {} => (CHOOSE o \in Baris("skema") : TRUE) \in Baris("skema")
  BY Zenon
<1>3. Revisi = IF Baris("skema") = {} THEN Tiada ELSE db[CHOOSE o \in Baris("skema") : TRUE].revisi
  BY DEF Revisi
<1>4. Revisi' = IF Baris("skema")' = {} THEN Tiada ELSE db'[CHOOSE o \in Baris("skema")' : TRUE].revisi
  BY DEF Revisi
<1>5. PICK s : s = (CHOOSE o \in Baris("skema") : TRUE) /\ s = (CHOOSE o \in Baris("skema")' : TRUE)
  BY <1>1
<1>6. Baris("skema") # {} => Revisi = db[s].revisi /\ Revisi' = db'[s].revisi /\ s \in Baris("skema")
  BY <1>1, <1>2, <1>3, <1>4, <1>5, Zenon
<1>. QED  BY <1>1, <1>3, <1>4, <1>6

\* The starts and the schema stay sound while nobody writes them.
LEMMA BootTetap ==
  ASSUME IndInv, UNCHANGED muat, \A o \in Rak("boot") \cup Rak("skema") : db'[o] = db[o]
  PROVE  BootSah'
<1>1. /\ Baris("boot")' = Baris("boot") /\ Tahap' = Tahap /\ HeadKode' = HeadKode
      /\ Revisi' = Revisi /\ \A t : Rak(t)' = Rak(t)
  BY TahapTetap, RevisiTetap DEF Rak
<1>2. BootSah
  BY DEF IndInv
<1>. QED  BY <1>1, <1>2 DEF BootSah

LEMMA SkemaTetap ==
  ASSUME IndInv, UNCHANGED muat, \A o \in Rak("boot") \cup Rak("skema") \cup Rak("pulih") : db'[o] = db[o]
  PROVE  SkemaTerjaga'
<1>1. /\ Melayani' = Melayani /\ HeadKode' = HeadKode /\ Revisi' = Revisi /\ Baris("skema")' = Baris("skema")
      /\ Baris("pulih")' = Baris("pulih") /\ \A o \in Baris("pulih") : db'[o] = db[o]
  BY TahapTetap, RevisiTetap DEF Rak, Baris, Isi, Nyata
<1>2. SkemaTerjaga
  BY DEF IndInv
<1>. QED  BY <1>1, <1>2 DEF SkemaTerjaga

\* A plan that others do not disturb.
LEMMA UtuhTetap ==
  ASSUME UNCHANGED muat, tumpang \subseteq tumpang', NEW r, RencanaUtuh(r) /\ RencanaBaris(r)
  PROVE  RencanaUtuh(r)' /\ RencanaBaris(r)'
BY BentukSama DEF RencanaUtuh, RencanaBaris, Jadi

\* The subject of a plan that registers is nobody else's.
SubjekSendiri(p, r) == \A o \in DOMAIN r.isi : Mendaftar(r, o) =>
  /\ Nyata(db[r.isi[o].subjek])
  /\ \A c \in Baris("partisipan") : db[c].subjek # r.isi[o].subjek
  /\ \A q \in Proses \ {p} : rencana[q] # Tiada =>
       \A c \in DOMAIN rencana[q].isi : Mendaftar(rencana[q], c) => rencana[q].isi[c].subjek # r.isi[o].subjek

LEMMA SubjekRencanaTetap ==
  ASSUME UNCHANGED muat, NEW p, NEW r, RencanaSubjek(p, r), SubjekSendiri(p, r)'
  PROVE  RencanaSubjek(p, r)'
BY DEF RencanaSubjek, SubjekSendiri, Mendaftar, Akun, Rak

LEMMA KursiRencanaTetap ==
  ASSUME UNCHANGED muat, NEW r, RencanaKursi(r),
         \A a \in Rak("sme_panel_anggota") : db[a] # Tiada => db'[a] \in {db[a], Bekas}
  PROVE  RencanaKursi(r)'
<1>1. \A a \in DOMAIN r.lihat : a \in Rak("sme_panel_anggota") /\ r.lihat[a] # Tiada =>
        db'[a] \in {r.lihat[a], Bekas}
  BY PermintaanAssumption DEF RencanaKursi
<1>. QED  BY <1>1 DEF RencanaKursi, Rak, Nyata

LEMMA BiasaTetap ==
  ASSUME IndInv, UNCHANGED muat, tumpang \subseteq tumpang', Melayani',
         NEW p, NEW r, RencanaBiasa(p, r), SubjekSendiri(p, r)',
         \A a \in Rak("sme_panel_anggota") : db[a] # Tiada => db'[a] \in {db[a], Bekas}
  PROVE  RencanaBiasa(p, r)'
BY UtuhTetap, RujukanTetap, SubjekRencanaTetap, KursiRencanaTetap DEF RencanaBiasa

LEMMA DasarTetap ==
  ASSUME IndInv, Diam
  PROVE  muat' \in Muatan /\ Obyek' = (UNION {Rak(t) : t \in DOMAIN muat.tabel})'
BY DEF IndInv, Diam, Rak

-------------------------------------------------------------------------------
(* The commit.                                                               *)

LEMMA SimpanDasar ==
  ASSUME IndInv, NEW p \in Proses, Simpan(p), NEW r, r = rencana[p],
         NEW B, B = db', NEW H, H = riwayat', NEW T, T = tumpang'
  PROVE  /\ Diam /\ rencana' = [rencana EXCEPT ![p] = Tiada]
         /\ Umum(p, r) /\ Jadinya(r, B) /\ Tercatat(r, B, H) /\ Segar(r, T)
         /\ RencanaBiasa(p, r) \/ RencanaUpgrade(p, r) \/ RencanaBenih(p, r)
<1>1. /\ rencana[p] # Tiada /\ ~Menjawab(p)
      /\ Tulis(p, Ikut(Lepas(Gabungan(p, Relasi), SetNull), KursiPanel), TabelRedesain)
  BY DEF Simpan
<1>2. Diam /\ rencana' = [rencana EXCEPT ![p] = Tiada]
  BY <1>1 DEF Tulis, Diam, Ikut, Obyek
<1>3. Jadinya(r, B)
  BY Hasilnya
<1>4. Tercatat(r, B, H)
  BY <1>1 DEF Tulis, Tercatat
<1>5. Segar(r, T)
  BY <1>1 DEF Tulis, Segar, Basi
<1>. QED  BY <1>1, <1>2, <1>3, <1>4, <1>5, Umumnya

\* What is not for requests to write stays as it is.
LEMMA SimpanBaris ==
  ASSUME IndInv, NEW p, NEW r, Umum(p, r), NEW B, Jadinya(r, B)
  PROVE  /\ \A t \in {"akun", "cadangan", "pulih"} : \A o \in Rak(t) : B[o] = db[o]
         /\ \A a \in Rak("sme_panel_anggota") : db[a] # Tiada => B[a] \in {db[a], Bekas}
         /\ (\A o \in DOMAIN r.isi : o[1] \notin {"boot", "skema"}) =>
              \A o \in Rak("boot") \cup Rak("skema") : B[o] = db[o]
<1>1. ASSUME NEW t \in {"akun", "cadangan", "pulih", "boot", "skema"}, NEW o \in Rak(t), o \notin DOMAIN r.isi
      PROVE  B[o] = db[o]
  <2>1. o \in Obyek /\ o[1] = t
    BY LetakObyek, Letak DEF IndInv
  <2>. QED  BY <1>1, <2>1, BarisnyaTetap DEF Langsung
<1>2. \A t : \A o \in Rak(t) : o[1] = t /\ o \in Obyek
  BY LetakObyek, Letak DEF IndInv
<1>3. \A a \in Rak("sme_panel_anggota") : db[a] # Tiada => B[a] \in {db[a], Bekas}
  BY <1>2, KursiTetap DEF Umum
<1>. QED  BY <1>1, <1>2, <1>3 DEF Umum

LEMMA SimpanKeadaan ==
  ASSUME IndInv, NEW p \in Proses, Simpan(p)
  PROVE  /\ KeadaanSah(db, riwayat, tumpang)'
         /\ (\A c \in Baris("cadangan") : db[c].utuh =>
               KeadaanSah(Dipulihkan(c), RiwayatDipulihkan(c), tumpang))'
<1>. PICK r, B, H, T : r = rencana[p] /\ B = db' /\ H = riwayat' /\ T = tumpang'
  OBVIOUS
<1>1. Diam /\ Umum(p, r) /\ Jadinya(r, B) /\ Tercatat(r, B, H) /\ Segar(r, T)
  BY SimpanDasar
<1>2. KeadaanSah(db, riwayat, tumpang)'
  BY <1>1, KeadaanTetap, Alih
<1>3. \A t \in {"akun", "cadangan", "pulih"} : \A o \in Rak(t) : db'[o] = db[o]
  BY <1>1, SimpanBaris
<1>4. Baris("cadangan")' = Baris("cadangan") /\ \A c \in Baris("cadangan") : db'[c] = db[c]
  BY <1>1, <1>3 DEF Diam, Baris, Isi, Nyata, Rak
<1>5. tumpang \subseteq tumpang' /\ \A e \in Akun : Nyata(db[e]) => Nyata(db[e]')
  BY <1>1, <1>3 DEF Segar, Akun, Nyata
<1>6. ASSUME NEW c \in Baris("cadangan")', db'[c].utuh
      PROVE  KeadaanSah(Dipulihkan(c), RiwayatDipulihkan(c), tumpang)'
  BY <1>1, <1>4, <1>5, <1>6, CadanganTetap
<1>. QED  BY <1>2, <1>6

LEMMA PulihTetap ==
  ASSUME UNCHANGED muat, Melayani', NEW p, NEW r, RencanaPulih(p, r),
         \A o \in Rak("pulih") \cap DOMAIN r.isi : db'[o] = db[o],
         \A q \in Proses \ {p} : rencana'[q] # Tiada =>
           DOMAIN rencana'[q].isi \cap DOMAIN r.isi \cap Rak("pulih") = {}
  PROVE  RencanaPulih(p, r)'
<1>1. PICK o \in Rak("pulih") : DOMAIN r.isi = {o} /\ db[o] = [jawab |-> Tiada]
  BY DEF RencanaPulih
<1>2. o \in Rak("pulih")' /\ db'[o] = [jawab |-> Tiada]
  BY <1>1 DEF Rak
<1>3. \A q \in Proses \ {p} : rencana'[q] # Tiada => DOMAIN rencana'[q].isi \cap DOMAIN r.isi = {}
  BY <1>1
<1>. QED  BY <1>1, <1>2, <1>3 DEF RencanaPulih

\* While requests are served, plans are those of requests and of restores.
LEMMA RencanaDilayani ==
  ASSUME IndInv, Melayani, NEW q \in Proses, rencana[q] # Tiada
  PROVE  RencanaBiasa(q, rencana[q]) \/ RencanaPulih(q, rencana[q])
BY DEF IndInv, RencanaSah, RencanaUpgrade, RencanaBenih, Melayani

LEMMA LainTetap ==
  ASSUME IndInv, UNCHANGED muat, tumpang \subseteq tumpang', Melayani, Melayani',
         NEW q \in Proses, NEW r, r = rencana[q], rencana'[q] = rencana[q],
         r # Tiada /\ RencanaBiasa(q, r) => SubjekSendiri(q, r)',
         \A a \in Rak("sme_panel_anggota") : db[a] # Tiada => db'[a] \in {db[a], Bekas},
         r # Tiada => \A o \in Rak("pulih") \cap DOMAIN r.isi : db'[o] = db[o],
         r # Tiada => \A x \in Proses \ {q} : rencana'[x] # Tiada =>
           DOMAIN rencana'[x].isi \cap DOMAIN r.isi \cap Rak("pulih") = {}
  PROVE  RencanaSah(q)'
<1>1. CASE r = Tiada
  BY <1>1 DEF RencanaSah
<1>2. CASE r # Tiada
  <2>1. RencanaBiasa(q, r) \/ RencanaPulih(q, r)
    BY <1>2, RencanaDilayani
  <2>2. RencanaBiasa(q, r)' \/ RencanaPulih(q, r)'
    BY <1>2, <2>1, BiasaTetap, PulihTetap
  <2>3. RencanaBiasa(q, rencana[q])' \/ RencanaPulih(q, rencana[q])'
    BY <2>2
  <2>. QED  BY <2>3 DEF RencanaSah
<1>. QED  BY <1>1, <1>2

LEMMA SimpanSubjek ==
  ASSUME IndInv, NEW p \in Proses, Simpan(p), NEW q \in Proses \ {p}, NEW r, r = rencana[q],
         r # Tiada, RencanaBiasa(q, r)
  PROVE  SubjekSendiri(q, r)'
<1>. PICK s, B, H, T : s = rencana[p] /\ B = db' /\ H = riwayat' /\ T = tumpang'
  OBVIOUS
<1>1. /\ Diam /\ Umum(p, s) /\ Jadinya(s, B) /\ rencana' = [rencana EXCEPT ![p] = Tiada]
      /\ rencana[p] # Tiada
  BY SimpanDasar DEF Simpan
<1>. SUFFICES ASSUME NEW o \in DOMAIN r.isi, Mendaftar(r, o)
              PROVE  /\ Nyata(db[r.isi[o].subjek])'
                     /\ \A c \in Baris("partisipan")' : db'[c].subjek # r.isi[o].subjek
                     /\ \A x \in Proses \ {q} : rencana'[x] # Tiada => \A c \in DOMAIN rencana'[x].isi :
                          Mendaftar(rencana'[x], c) => rencana'[x].isi[c].subjek # r.isi[o].subjek
  BY DEF SubjekSendiri, Mendaftar
<1>. DEFINE e == r.isi[o].subjek
<1>2. /\ e \in Akun /\ Nyata(db[e]) /\ \A c \in Baris("partisipan") : db[c].subjek # e
      /\ \A x \in Proses \ {q} : rencana[x] # Tiada =>
           \A c \in DOMAIN rencana[x].isi : Mendaftar(rencana[x], c) => rencana[x].isi[c].subjek # e
  BY DEF RencanaBiasa, RencanaSubjek, Mendaftar
<1>3. db'[e] = db[e]
  BY <1>1, <1>2, SimpanBaris DEF Akun
<1>4. ASSUME NEW c \in Baris("partisipan")' PROVE db'[c].subjek # e
  <2>1. c \in Isi(B, "partisipan") /\ c[1] = "partisipan"
    BY <1>1, Letak DEF Baris, Isi, Diam, Rak, Nyata
  <2>2. CASE Nyata(db[c]) /\ c \in Isi(db, "partisipan") /\ B[c].subjek = db[c].subjek
    BY <1>2, <2>2 DEF Baris
  <2>3. CASE c \in DOMAIN s.isi /\ s.lihat[c] = Tiada /\ B[c] = s.isi[c] /\ s.isi[c] # Bekas
    BY <1>1, <1>2, <2>1, <2>3 DEF Mendaftar
  <2>. QED  BY <1>1, <2>1, <2>2, <2>3, SubjekBaris
<1>5. \A x \in Proses : rencana'[x] # Tiada => rencana'[x] = rencana[x]
  BY <1>1 DEF IndInv
<1>. QED  BY <1>2, <1>3, <1>4, <1>5 DEF Nyata

LEMMA SimpanBiasa ==
  ASSUME IndInv, NEW p \in Proses, Simpan(p), RencanaBiasa(p, rencana[p])
  PROVE  IndInv'
<1>. PICK s, B, H, T : s = rencana[p] /\ B = db' /\ H = riwayat' /\ T = tumpang'
  OBVIOUS
<1>1. /\ Diam /\ Umum(p, s) /\ Jadinya(s, B) /\ Segar(s, T) /\ rencana' = [rencana EXCEPT ![p] = Tiada]
  BY SimpanDasar
<1>2. \A o \in DOMAIN s.isi : o[1] \notin {"boot", "skema"}
  BY DEF RencanaBiasa, TabelPlatform
<1>3. /\ \A o \in Rak("boot") \cup Rak("skema") \cup Rak("pulih") : db'[o] = db[o]
      /\ \A a \in Rak("sme_panel_anggota") : db[a] # Tiada => db'[a] \in {db[a], Bekas}
  BY <1>1, <1>2, SimpanBaris
<1>4. BootSah' /\ SkemaTerjaga' /\ Melayani /\ Melayani'
  BY <1>1, <1>3, BootTetap, SkemaTetap, TahapTetap DEF Diam, RencanaBiasa
<1>5. ASSUME NEW q \in Proses PROVE RencanaSah(q)'
  <2>1. CASE q = p
    BY <1>1, <2>1 DEF RencanaSah, IndInv
  <2>2. CASE q # p
    <3>. PICK r : r = rencana[q]
      OBVIOUS
    <3>1. rencana'[q] = rencana[q] /\ \A x \in Proses : rencana'[x] # Tiada => rencana'[x] = rencana[x]
      BY <1>1, <2>2 DEF IndInv
    <3>2. r # Tiada /\ RencanaBiasa(q, r) => SubjekSendiri(q, r)'
      BY <2>2, SimpanSubjek
    <3>3. r # Tiada => RencanaBiasa(q, r) \/ RencanaPulih(q, r)
      BY <1>4, RencanaDilayani
    <3>4. r # Tiada => \A x \in Proses \ {q} : rencana'[x] # Tiada =>
           DOMAIN rencana'[x].isi \cap DOMAIN r.isi \cap Rak("pulih") = {}
      BY <3>1, <3>3, Letak DEF RencanaBiasa, RencanaPulih, TabelPlatform
    <3>. QED  BY <1>1, <1>3, <1>4, <3>1, <3>2, <3>4, LainTetap DEF Diam, Segar
  <2>. QED  BY <2>1, <2>2
<1>6. DOMAIN rencana' = Proses
  BY <1>1 DEF IndInv
<1>. QED  BY <1>1, <1>4, <1>5, <1>6, DasarTetap, SimpanKeadaan DEF IndInv

\* The start that runs gets to stage t.
LEMMA BootMaju ==
  ASSUME IndInv, UNCHANGED muat, Baris("boot") # {}, NEW t \in {"migrasi", "benih", "layani"},
         \A o \in Rak("boot") : db'[o] =
           IF o = StartTerakhir THEN [tahap |-> t, head |-> HeadKode] ELSE db[o]
  PROVE  /\ Baris("boot")' = Baris("boot") /\ StartTerakhir' = StartTerakhir
         /\ Tahap' = t /\ HeadKode' = HeadKode
         /\ \A o \in Rak("boot")' : db'[o] = Tiada \/
              \E x \in {"migrasi", "benih", "layani"}, h \in Rilis : db'[o] = [tahap |-> x, head |-> h]
         /\ \A o, c \in Rak("boot")' : db'[c] # Tiada /\ o[2] < c[2] => db'[o] # Tiada
<1>. DEFINE s == StartTerakhir
            m == [tahap |-> t, head |-> HeadKode]
<1>1. /\ s \in Baris("boot") /\ s \in Rak("boot") /\ HeadKode \in Rilis
      /\ \A c \in Baris("boot") : c[2] <= s[2]
  BY KepalaRilis
<1>2. m # Tiada /\ m # Bekas
  BY <1>1, TandaBukanBaris
<1>3. Rak("boot")' = Rak("boot")
  BY DEF Rak
<1>4. Nyata(m) /\ Nyata(db[s]) /\ db'[s] = m
  BY <1>1, <1>2, Tempatan DEF Nyata
<1>5. ASSUME NEW o PROVE o \in Baris("boot")' <=> o \in Baris("boot")
  BY <1>3, <1>4 DEF Baris, Isi, Nyata
<1>6. Baris("boot")' = Baris("boot")
  BY <1>5
<1>7. StartTerakhir' = s
  BY <1>6 DEF StartTerakhir
<1>8. Tahap' = db'[s].tahap /\ HeadKode' = db'[s].head
  BY <1>6, <1>7 DEF Tahap, HeadKode
<1>9. Tahap' = t /\ HeadKode' = HeadKode
  BY <1>4, <1>8
<1>10. \A o \in Rak("boot") : db'[o] = Tiada \/
         \E x \in {"migrasi", "benih", "layani"}, h \in Rilis : db'[o] = [tahap |-> x, head |-> h]
  BY <1>1 DEF IndInv, BootSah
<1>11. \A o \in Rak("boot") : (db'[o] = Tiada) <=> (db[o] = Tiada)
  BY <1>2, <1>4 DEF Nyata
<1>12. \A o, c \in Rak("boot") : db'[c] # Tiada /\ o[2] < c[2] => db'[o] # Tiada
  BY <1>11 DEF IndInv, BootSah
<1>. QED  BY <1>3, <1>6, <1>7, <1>9, <1>10, <1>12

LEMMA BootMajuSah ==
  ASSUME IndInv, UNCHANGED muat, Baris("boot") # {}, NEW t \in {"migrasi", "benih", "layani"},
         \A o \in Rak("boot") : db'[o] =
           IF o = StartTerakhir THEN [tahap |-> t, head |-> HeadKode] ELSE db[o],
         t = "benih" /\ Rak("skema") # {} => Revisi' = HeadKode
  PROVE  BootSah'
<1>1. Rak("boot")' = Rak("boot") /\ Rak("skema")' = Rak("skema")
  BY DEF Rak
<1>2. Tahap' = t /\ HeadKode' = HeadKode /\ Baris("boot")' = Baris("boot")
  BY BootMaju
<1>3. /\ \A o \in Rak("boot")' : db'[o] = Tiada \/
           \E x \in {"migrasi", "benih", "layani"}, h \in Rilis : db'[o] = [tahap |-> x, head |-> h]
      /\ \A o, c \in Rak("boot")' : db'[c] # Tiada /\ o[2] < c[2] => db'[o] # Tiada
  BY BootMaju
<1>4. Baris("boot")' # {} => \E o \in Baris("boot")' : \A c \in Baris("boot")' : c[2] <= o[2]
  BY <1>2 DEF IndInv, BootSah
<1>. QED  BY <1>1, <1>2, <1>3, <1>4 DEF BootSah

\* Of a start that has got on, only its own row and the schema are special.
LEMMA MulaiJadi ==
  ASSUME IndInv, NEW p, NEW r, NEW t \in {"benih", "layani"}, RencanaMulai(p, r, t),
         NEW B, Jadinya(r, B), \A o \in DOMAIN r.isi : o[1] = "boot" => o = StartTerakhir
  PROVE  \A o \in Rak("boot") : B[o] =
           IF o = StartTerakhir THEN [tahap |-> t, head |-> HeadKode] ELSE db[o]
<1>. DEFINE s == StartTerakhir
<1>1. /\ s \in Rak("boot") /\ s \in DOMAIN r.isi /\ r.isi[s] = [tahap |-> t] /\ r.lihat[s] = db[s]
      /\ db[s] = [tahap |-> Tahap, head |-> HeadKode] /\ db[s] # Tiada
  BY KepalaRilis, Tempatan DEF RencanaMulai
<1>2. \A o \in Rak("boot") : o \in Obyek /\ Langsung(o) /\ o[1] = "boot"
  BY LetakObyek, Letak DEF IndInv, Langsung
<1>3. ASSUME r.isi[s] # Bekas PROVE B[s] = [tahap |-> t, head |-> HeadKode]
  <2>1. B[s] = Timpa(db[s], r.isi[s])
    BY <1>1, <1>2, <1>3, BarisnyaTetap
  <2>. QED  BY <1>1, <2>1 DEF Timpa
<1>4. r.isi[s] # Bekas
  BY <1>1, TandaBukanBaris
<1>. QED  BY <1>2, <1>3, <1>4, BarisnyaTetap

LEMMA SimpanUpgrade ==
  ASSUME IndInv, NEW p \in Proses, Simpan(p), RencanaUpgrade(p, rencana[p])
  PROVE  IndInv'
<1>. PICK s, B, H, T : s = rencana[p] /\ B = db' /\ H = riwayat' /\ T = tumpang'
  OBVIOUS
<1>1. /\ Diam /\ Umum(p, s) /\ Jadinya(s, B) /\ rencana' = [rencana EXCEPT ![p] = Tiada]
  BY SimpanDasar
<1>2. /\ RencanaMulai(p, s, "benih") /\ Baris("boot") # {}
      /\ DOMAIN s.isi = {StartTerakhir} \cup Rak("skema")
      /\ \A o \in Rak("skema") : s.isi[o] = [revisi |-> HeadKode]
  BY DEF RencanaUpgrade, RencanaMulai
<1>3. \A o \in DOMAIN s.isi : o[1] = "boot" => o = StartTerakhir
  BY <1>2, Letak
<1>4. \A o \in Rak("boot") : db'[o] =
        IF o = StartTerakhir THEN [tahap |-> "benih", head |-> HeadKode] ELSE db[o]
  <2>. PICK t : t = "benih"
    OBVIOUS
  <2>1. \A o \in Rak("boot") : B[o] = IF o = StartTerakhir THEN [tahap |-> t, head |-> HeadKode] ELSE db[o]
    BY <1>1, <1>2, <1>3, MulaiJadi
  <2>. QED  BY <2>1
<1>5. \A o \in Rak("skema") : B[o] = [revisi |-> HeadKode]
  <2>. SUFFICES ASSUME NEW o \in Rak("skema") PROVE B[o] = [revisi |-> HeadKode]
    OBVIOUS
  <2>1. o \in Obyek /\ Langsung(o) /\ o \in DOMAIN s.isi /\ s.lihat[o] = db[o] /\ o[1] \notin {"tp", "dt"}
    BY <1>1, <1>2, LetakObyek, Letak DEF IndInv, Langsung, Umum, RencanaMulai
  <2>2. HeadKode \in Rilis /\ \E h \in Rilis : db[o] = [revisi |-> h]
    BY <1>2, KepalaRilis DEF IndInv, KeadaanSah, KolomAda
  <2>3. s.isi[o] # Bekas /\ db[o] # Tiada
    BY <1>2, <2>2, TandaBukanBaris
  <2>4. B[o] = Timpa(db[o], s.isi[o])
    BY <1>1, <2>1, <2>3, BarisnyaTetap
  <2>. QED  BY <1>2, <2>2, <2>4 DEF Timpa
<1>6. Tahap' = "benih" /\ HeadKode' = HeadKode
  BY <1>1, <1>2, <1>4, BootMaju DEF Diam
<1>7. Rak("skema") # {} => Revisi' = HeadKode
  <2>. SUFFICES ASSUME Rak("skema") # {} PROVE Revisi' = HeadKode
    OBVIOUS
  <2>1. HeadKode \in Rilis
    BY <1>2, KepalaRilis
  <2>2. \A o \in Rak("skema") : Nyata(db[o])' /\ db'[o].revisi = HeadKode
    BY <1>5, <2>1, TandaBukanBaris DEF Nyata
  <2>3. Baris("skema")' = Rak("skema")
    BY <1>1, <2>2 DEF Baris, Isi, Diam, Rak, Nyata
  <2>4. Revisi' = IF Baris("skema")' = {} THEN Tiada ELSE db'[CHOOSE o \in Baris("skema")' : TRUE].revisi
    BY DEF Revisi
  <2>5. (CHOOSE o \in Baris("skema")' : TRUE) \in Rak("skema")
    BY <2>3, Zenon
  <2>. QED  BY <2>2, <2>3, <2>4, <2>5
<1>8. BootSah'
  BY <1>1, <1>2, <1>4, <1>7, BootMajuSah DEF Diam
<1>9. SkemaTerjaga'
  BY <1>6 DEF SkemaTerjaga, Melayani
<1>10. DOMAIN rencana' = Proses /\ \A q \in Proses : rencana'[q] = Tiada
  BY <1>1, <1>2 DEF IndInv, RencanaMulai
<1>11. (\A q \in Proses : RencanaSah(q))'
  BY <1>10 DEF RencanaSah
<1>. QED  BY <1>1, <1>8, <1>9, <1>10, <1>11, DasarTetap, SimpanKeadaan DEF IndInv

LEMMA SimpanBenih ==
  ASSUME IndInv, NEW p \in Proses, Simpan(p), RencanaBenih(p, rencana[p])
  PROVE  IndInv'
<1>. PICK s, B, H, T : s = rencana[p] /\ B = db' /\ H = riwayat' /\ T = tumpang'
  OBVIOUS
<1>1. /\ Diam /\ Umum(p, s) /\ Jadinya(s, B) /\ rencana' = [rencana EXCEPT ![p] = Tiada]
  BY SimpanDasar
<1>2. /\ RencanaMulai(p, s, "layani") /\ Baris("boot") # {} /\ Tahap = "benih"
      /\ \A o \in DOMAIN s.isi \ {StartTerakhir} : o[1] \in TabelBenih
  BY DEF BarisBenih, RencanaBenih, RencanaMulai
<1>3. /\ \A o \in DOMAIN s.isi : o[1] = "boot" => o = StartTerakhir
      /\ \A o \in Rak("skema") : o \notin DOMAIN s.isi
  BY <1>2, KepalaRilis, Letak DEF TabelBenih, TabelButir
<1>4. \A o \in Rak("boot") : db'[o] =
        IF o = StartTerakhir THEN [tahap |-> "layani", head |-> HeadKode] ELSE db[o]
  <2>. PICK t : t = "layani"
    OBVIOUS
  <2>1. \A o \in Rak("boot") : B[o] = IF o = StartTerakhir THEN [tahap |-> t, head |-> HeadKode] ELSE db[o]
    BY <1>1, <1>2, <1>3, MulaiJadi
  <2>. QED  BY <2>1
<1>5. \A o \in Rak("skema") : db'[o] = db[o]
  <2>1. \A o \in Rak("skema") : o \in Obyek /\ Langsung(o)
    BY LetakObyek, Letak DEF IndInv, Langsung
  <2>. QED  BY <1>1, <1>3, <2>1, BarisnyaTetap
<1>6. HeadKode' = HeadKode
  BY <1>1, <1>2, <1>4, BootMaju DEF Diam
<1>7. Revisi' = Revisi /\ Baris("skema")' = Baris("skema")
  BY <1>1, <1>5, RevisiTetap DEF Diam
<1>8. BootSah'
  BY <1>1, <1>2, <1>4, BootMajuSah DEF Diam
<1>9. SkemaTerjaga'
  <2>1. Rak("skema") # {} => Revisi' = HeadKode'
    BY <1>2, <1>6, <1>7 DEF IndInv, BootSah
  <2>2. Rak("skema") = {} => Baris("skema")' = {}
    BY <1>7 DEF Baris, Isi
  <2>. QED  BY <2>1, <2>2 DEF SkemaTerjaga
<1>10. DOMAIN rencana' = Proses /\ \A q \in Proses : rencana'[q] = Tiada
  BY <1>1, <1>2 DEF IndInv, RencanaMulai
<1>11. (\A q \in Proses : RencanaSah(q))'
  BY <1>10 DEF RencanaSah
<1>. QED  BY <1>1, <1>8, <1>9, <1>10, <1>11, DasarTetap, SimpanKeadaan DEF IndInv

LEMMA SimpanMenjaga ==
  ASSUME IndInv, NEW p \in Proses, Simpan(p)
  PROVE  IndInv'
<1>. PICK s, B, H, T : s = rencana[p] /\ B = db' /\ H = riwayat' /\ T = tumpang'
  OBVIOUS
<1>1. RencanaBiasa(p, s) \/ RencanaUpgrade(p, s) \/ RencanaBenih(p, s)
  BY SimpanDasar
<1>. QED  BY <1>1, SimpanBiasa, SimpanUpgrade, SimpanBenih

-------------------------------------------------------------------------------
(* Planning, and giving up.                                                  *)

LEMMA KeadaanDiam ==
  ASSUME IndInv, UNCHANGED <<muat, db, riwayat, tumpang>>
  PROVE  /\ Diam /\ BootSah' /\ SkemaTerjaga' /\ (Melayani <=> Melayani')
         /\ muat' \in Muatan /\ Obyek' = (UNION {Rak(t) : t \in DOMAIN muat.tabel})'
         /\ KeadaanSah(db, riwayat, tumpang)'
         /\ (\A c \in Baris("cadangan") : db[c].utuh =>
               KeadaanSah(Dipulihkan(c), RiwayatDipulihkan(c), tumpang))'
<1>. PICK B, H, T : B = db' /\ H = riwayat' /\ T = tumpang'
  OBVIOUS
<1>1. Diam
  BY DEF Diam, Obyek
<1>2. BootSah' /\ SkemaTerjaga' /\ Melayani' = Melayani
  BY BootTetap, SkemaTetap, TahapTetap
<1>3. KeadaanSah(B, H, T)
  BY DEF IndInv
<1>4. KeadaanSah(db, riwayat, tumpang)'
  BY <1>1, <1>3, Alih
<1>5. \A c \in Baris("cadangan")' : c \in Baris("cadangan") /\ db'[c] = db[c]
  BY DEF Baris, Isi, Rak, Nyata
<1>6. \A e \in Akun : Nyata(db[e]) => Nyata(db[e]')
  BY DEF Nyata
<1>7. ASSUME NEW c \in Baris("cadangan")', db'[c].utuh
      PROVE  KeadaanSah(Dipulihkan(c), RiwayatDipulihkan(c), tumpang)'
  BY <1>1, <1>5, <1>6, <1>7, CadanganTetap
<1>. QED  BY <1>1, <1>2, <1>4, <1>7, DasarTetap

LEMMA GagalMenjaga ==
  ASSUME IndInv, NEW p \in Proses, Gagal(p)
  PROVE  IndInv'
<1>1. /\ UNCHANGED <<muat, db, riwayat, tumpang>> /\ rencana' = [rencana EXCEPT ![p] = Tiada]
      /\ rencana[p] # Tiada /\ DOMAIN rencana' = Proses
  BY DEF Gagal, IndInv
<1>2. \A q \in Proses : rencana'[q] # Tiada => q # p /\ rencana'[q] = rencana[q]
  BY <1>1 DEF IndInv
<1>3. ASSUME NEW q \in Proses, rencana'[q] # Tiada PROVE RencanaSah(q)'
  <2>. PICK r : r = rencana[q]
    OBVIOUS
  <2>1. RencanaBiasa(q, r) \/ RencanaPulih(q, r)
    BY <1>1, <1>2, <1>3 DEF IndInv, RencanaSah, RencanaUpgrade, RencanaBenih, RencanaMulai
  <2>2. Melayani /\ Melayani'
    BY <1>1, <2>1, KeadaanDiam DEF RencanaBiasa, RencanaPulih
  <2>3. RencanaBiasa(q, r) => SubjekSendiri(q, r)'
    BY <1>1, <1>2 DEF RencanaBiasa, RencanaSubjek, SubjekSendiri, Mendaftar, Baris, Isi, Rak, Nyata
  <2>4. \A x \in Proses \ {q} : rencana'[x] # Tiada =>
           DOMAIN rencana'[x].isi \cap DOMAIN r.isi \cap Rak("pulih") = {}
    <3>1. CASE RencanaPulih(q, r)
      BY <1>2, <3>1 DEF RencanaPulih
    <3>2. CASE RencanaBiasa(q, r)
      BY <3>2, Letak DEF RencanaBiasa, TabelPlatform
    <3>. QED  BY <2>1, <3>1, <3>2
  <2>. QED  BY <1>1, <1>2, <1>3, <2>2, <2>3, <2>4, LainTetap
<1>4. (\A q \in Proses : RencanaSah(q))'
  BY <1>3 DEF RencanaSah
<1>. QED  BY <1>1, <1>4, KeadaanDiam DEF IndInv

\* The plan of a request is one of the plans that are kept.
LEMMA LayakBiasa ==
  ASSUME Melayani, NEW p, NEW baca, NEW isi, NEW syarat, Layak(baca, isi, syarat),
         NEW r, r = Rancangan(baca, isi, syarat)
  PROVE  RencanaBiasa(p, r) /\ \A o \in DOMAIN r.isi : ~Mendaftar(r, o)
<1>1. /\ r.isi = isi /\ r.syarat = syarat /\ DOMAIN r.lihat = baca \cup syarat \cup DOMAIN isi
      /\ \A o \in DOMAIN r.lihat : r.lihat[o] = db[o]
  BY DEF Rancangan
<1>2. RencanaUtuh(r)
  BY <1>1 DEF Layak, Bertanda, RencanaUtuh
<1>3. RencanaBaris(r)
  <2>1. \A o \in DOMAIN isi : r.lihat[o] = db[o] /\ Jadi(r, o) = Jadilah(isi, o)
    BY <1>1 DEF Jadi, Jadilah
  <2>2. BarisLayak(isi)
    BY DEF Layak
  <2>3. ASSUME NEW o \in DOMAIN isi, isi[o] # Bekas
        PROVE  /\ o \notin tumpang => AturanBaris(o, Jadi(r, o))
               /\ Bentuk(o, Jadi(r, o))
               /\ o[1] = "penilaian" /\ r.lihat[o] = Tiada => KolomDinilai \subseteq DOMAIN isi[o]
    BY <2>1, <2>2, <2>3, Zenon DEF BarisLayak
  <2>. QED  BY <1>1, <2>3, Zenon DEF RencanaBaris
<1>4. RencanaSubjek(p, r) /\ \A o \in DOMAIN r.isi : ~Mendaftar(r, o)
  BY <1>1 DEF Layak, BarisLayak, RencanaSubjek, Mendaftar
<1>5. RencanaKursi(r)
  BY <1>1 DEF Layak, KursiLayak, RencanaKursi
<1>. QED  BY <1>1, <1>2, <1>3, <1>4, <1>5 DEF RencanaBiasa, Layak, Halaman

LEMMA LangkahRencana ==
  ASSUME IndInv, Melayani, NEW p \in Proses, Terencana(p)
  PROVE  IndInv'
<1>1. PICK baca, isi, syarat : RencanakanBila(p, baca, isi, syarat) /\ Layak(baca, isi, syarat)
  BY DEF Terencana
<1>. PICK n : n = Rancangan(baca, isi, syarat)
  OBVIOUS
<1>2. /\ UNCHANGED <<muat, db, riwayat, tumpang>> /\ rencana' = [rencana EXCEPT ![p] = n]
      /\ DOMAIN rencana' = Proses
  BY <1>1 DEF RencanakanBila, IndInv, Rancangan
<1>3. RencanaBiasa(p, n) /\ \A o \in DOMAIN n.isi : ~Mendaftar(n, o)
  BY <1>1, LayakBiasa
<1>4. rencana'[p] = n /\ \A q \in Proses : q # p => rencana'[q] = rencana[q]
  BY <1>2 DEF IndInv
<1>5. Melayani'
  BY <1>2, KeadaanDiam
<1>6. \A a \in Rak("sme_panel_anggota") : db[a] # Tiada => db'[a] \in {db[a], Bekas}
  BY <1>2
<1>7. RencanaSah(p)'
  <2>1. SubjekSendiri(p, n)'
    BY <1>3 DEF SubjekSendiri, Mendaftar
  <2>2. RencanaBiasa(p, n)'
    BY <1>2, <1>3, <1>5, <1>6, <2>1, BiasaTetap
  <2>3. RencanaBiasa(p, rencana[p])'
    BY <1>4, <2>2
  <2>. QED  BY <2>3 DEF RencanaSah
<1>8. ASSUME NEW q \in Proses, q # p PROVE RencanaSah(q)'
  <2>. PICK r : r = rencana[q]
    OBVIOUS
  <2>1. r # Tiada => RencanaBiasa(q, r) \/ RencanaPulih(q, r)
    BY RencanaDilayani
  <2>2. r # Tiada /\ RencanaBiasa(q, r) => SubjekSendiri(q, r)'
    <3>. SUFFICES ASSUME RencanaBiasa(q, r), NEW o \in DOMAIN r.isi, Mendaftar(r, o)
                  PROVE  /\ Nyata(db[r.isi[o].subjek])'
                         /\ \A c \in Baris("partisipan")' : db'[c].subjek # r.isi[o].subjek
                         /\ \A x \in Proses \ {q} : rencana'[x] # Tiada => \A c \in DOMAIN rencana'[x].isi :
                              Mendaftar(rencana'[x], c) => rencana'[x].isi[c].subjek # r.isi[o].subjek
      BY DEF SubjekSendiri, Mendaftar
    <3>1. /\ Nyata(db[r.isi[o].subjek]) /\ \A c \in Baris("partisipan") : db[c].subjek # r.isi[o].subjek
          /\ \A x \in Proses \ {q} : rencana[x] # Tiada => \A c \in DOMAIN rencana[x].isi :
               Mendaftar(rencana[x], c) => rencana[x].isi[c].subjek # r.isi[o].subjek
      BY DEF RencanaBiasa, RencanaSubjek, Mendaftar
    <3>2. Nyata(db[r.isi[o].subjek])' /\ \A c \in Baris("partisipan")' : db'[c].subjek # r.isi[o].subjek
      BY <1>2, <3>1 DEF Baris, Isi, Rak, Nyata
    <3>. QED  BY <1>3, <1>4, <3>1, <3>2
  <2>3. r # Tiada => \A x \in Proses \ {q} : rencana'[x] # Tiada =>
           DOMAIN rencana'[x].isi \cap DOMAIN r.isi \cap Rak("pulih") = {}
    BY <1>3, <1>4, <2>1, Letak DEF RencanaBiasa, RencanaPulih, TabelPlatform
  <2>. QED  BY <1>2, <1>4, <1>5, <1>6, <1>8, <2>2, <2>3, LainTetap
<1>. QED  BY <1>2, <1>7, <1>8, KeadaanDiam DEF IndInv

-------------------------------------------------------------------------------
(* Steps that leave alone what a dump holds.                                 *)

LuarSaja == \A o \in Obyek : o[1] \notin Luar => db'[o] = db[o] /\ riwayat'[o] = riwayat[o]
AkunTetap == \A e \in Akun : Nyata(db[e]) => Nyata(db[e]')

LEMMA LuarTetap ==
  ASSUME IndInv, Diam, LuarSaja, AkunTetap, tumpang \subseteq tumpang'
  PROVE  KeadaanSah(db, riwayat, tumpang)'
<1>. PICK B, H, T : B = db' /\ H = riwayat' /\ T = tumpang'
  OBVIOUS
<1>1. KeadaanSah(db, riwayat, tumpang) /\ \A e \in Akun : Nyata(db[e]) => Nyata(B[e])
  BY DEF IndInv, AkunTetap, Nyata
<1>2. KeadaanSah(B, H, T)
  BY <1>1, Pindah DEF IndInv, LuarSaja
<1>. QED  BY <1>2, Alih

\* All of the invariant but the starts and the plans.
LEMMA LuarSah ==
  ASSUME IndInv, Diam, LuarSaja, AkunTetap, tumpang \subseteq tumpang',
         \A c \in Rak("cadangan") : db'[c] = db[c]
  PROVE  /\ muat' \in Muatan /\ Obyek' = (UNION {Rak(t) : t \in DOMAIN muat.tabel})'
         /\ KeadaanSah(db, riwayat, tumpang)'
         /\ (\A c \in Baris("cadangan") : db[c].utuh =>
               KeadaanSah(Dipulihkan(c), RiwayatDipulihkan(c), tumpang))'
<1>1. \A c \in Baris("cadangan")' : c \in Baris("cadangan") /\ db'[c] = db[c]
  BY DEF Baris, Isi, Rak, Nyata, Diam
<1>2. ASSUME NEW c \in Baris("cadangan")', db'[c].utuh
      PROVE  KeadaanSah(Dipulihkan(c), RiwayatDipulihkan(c), tumpang)'
  BY <1>1, <1>2, CadanganTetap DEF AkunTetap
<1>. QED  BY <1>2, LuarTetap, DasarTetap

\* Plans go on when no participant and no seat is touched.
LEMMA SubjekDiam ==
  ASSUME UNCHANGED muat, AkunTetap, NEW q, NEW r, r = rencana[q], RencanaBiasa(q, r),
         \A c \in Rak("partisipan") : db'[c] = db[c],
         \A x \in Proses \ {q} : rencana'[x] \in {Tiada, rencana[x]}
  PROVE  SubjekSendiri(q, r)'
<1>. SUFFICES ASSUME NEW o \in DOMAIN r.isi, Mendaftar(r, o)
              PROVE  /\ Nyata(db[r.isi[o].subjek])'
                     /\ \A c \in Baris("partisipan")' : db'[c].subjek # r.isi[o].subjek
                     /\ \A x \in Proses \ {q} : rencana'[x] # Tiada => \A c \in DOMAIN rencana'[x].isi :
                          Mendaftar(rencana'[x], c) => rencana'[x].isi[c].subjek # r.isi[o].subjek
  BY DEF SubjekSendiri, Mendaftar
<1>1. /\ r.isi[o].subjek \in Akun /\ Nyata(db[r.isi[o].subjek])
      /\ \A c \in Baris("partisipan") : db[c].subjek # r.isi[o].subjek
      /\ \A x \in Proses \ {q} : rencana[x] # Tiada => \A c \in DOMAIN rencana[x].isi :
           Mendaftar(rencana[x], c) => rencana[x].isi[c].subjek # r.isi[o].subjek
  BY DEF RencanaBiasa, RencanaSubjek, Mendaftar
<1>2. Nyata(db[r.isi[o].subjek])'
  BY <1>1 DEF AkunTetap
<1>3. \A c \in Baris("partisipan")' : db'[c].subjek # r.isi[o].subjek
  BY <1>1 DEF Baris, Isi, Rak, Nyata
<1>. QED  BY <1>1, <1>2, <1>3

LEMMA RencanaDiam ==
  ASSUME IndInv, UNCHANGED muat, tumpang \subseteq tumpang', AkunTetap, Melayani, Melayani',
         NEW q \in Proses, rencana'[q] = rencana[q],
         \A c \in Rak("partisipan") \cup Rak("sme_panel_anggota") : db'[c] = db[c],
         rencana[q] # Tiada => \A o \in Rak("pulih") \cap DOMAIN rencana[q].isi : db'[o] = db[o],
         \A x \in Proses \ {q} : rencana'[x] \in {Tiada, rencana[x]}
  PROVE  RencanaSah(q)'
<1>. PICK r : r = rencana[q]
  OBVIOUS
<1>1. r # Tiada /\ RencanaBiasa(q, r) => SubjekSendiri(q, r)'
  BY SubjekDiam
<1>2. r # Tiada => \A x \in Proses \ {q} : rencana'[x] # Tiada =>
           DOMAIN rencana'[x].isi \cap DOMAIN r.isi \cap Rak("pulih") = {}
  BY RencanaDilayani, Letak DEF RencanaBiasa, RencanaPulih, TabelPlatform
<1>. QED  BY <1>1, <1>2, LainTetap

\* The second half of a list.
LEMMA HalamanMenjaga ==
  ASSUME IndInv, Melayani, NEW p \in Proses, BacaHalaman(p)
  PROVE  IndInv'
<1>1. PICK o, isi :
        /\ rencana[p] # Tiada /\ o \in DOMAIN rencana[p].isi /\ db' = [db EXCEPT ![o] = isi]
        /\ tumpang' = (IF Basi(p) THEN tumpang \cup {o} ELSE tumpang)
        /\ rencana' = [rencana EXCEPT ![p] = Tiada] /\ UNCHANGED <<muat, riwayat>>
        /\ \E h \in DOMAIN rencana[p].isi : h[1] = "halaman"
  BY DEF BacaHalaman, Setengah
<1>2. RencanaBiasa(p, rencana[p])
  BY <1>1, RencanaDilayani, Letak DEF RencanaPulih
<1>3. o[1] = "halaman"
  BY <1>1, <1>2 DEF RencanaBiasa
<1>4. Diam /\ LuarSaja /\ tumpang \subseteq tumpang'
  BY <1>1, <1>3 DEF Diam, LuarSaja, Obyek, Luar
<1>5. \A t : t # "halaman" => \A c \in Rak(t) : db'[c] = db[c]
  BY <1>1, <1>3, Letak
<1>6. AkunTetap
  BY <1>5 DEF AkunTetap, Akun, Nyata
<1>7. BootSah' /\ SkemaTerjaga' /\ Melayani'
  BY <1>1, <1>5, BootTetap, SkemaTetap, TahapTetap
<1>8. ASSUME NEW q \in Proses PROVE RencanaSah(q)'
  <2>1. CASE q = p
    BY <1>1, <2>1 DEF RencanaSah, IndInv
  <2>2. CASE q # p
    BY <1>1, <1>4, <1>5, <1>6, <1>7, <2>2, RencanaDiam DEF IndInv
  <2>. QED  BY <2>1, <2>2
<1>9. DOMAIN rencana' = Proses
  BY <1>1 DEF IndInv
<1>. QED  BY <1>4, <1>5, <1>6, <1>7, <1>8, <1>9, LuarSah DEF IndInv

LEMMA BackupMenjaga ==
  ASSUME IndInv, Melayani, NEW p \in Proses, Backup(p)
  PROVE  IndInv'
<1>1. PICK o \in BarisBaru("cadangan"), utuh \in BOOLEAN :
        db' = [db EXCEPT ![o] = [utuh |-> utuh, isi |-> [x \in Dicadangkan |-> db[x]],
                                 riwayat |-> [x \in Dicadangkan |-> riwayat[x]]]]
  BY DEF Backup
<1>2. UNCHANGED <<muat, riwayat, rencana, tumpang>>
  BY DEF Backup
<1>3. o \in Rak("cadangan") /\ o[1] = "cadangan" /\ o \in Obyek
  BY Tempatan, LetakObyek, Letak DEF IndInv
<1>4. Diam /\ LuarSaja
  BY <1>1, <1>2, <1>3 DEF Diam, LuarSaja, Obyek, Luar
<1>5. \A t : t # "cadangan" => \A c \in Rak(t) : db'[c] = db[c]
  BY <1>1, <1>3, Letak
<1>6. AkunTetap
  BY <1>5 DEF AkunTetap, Akun, Nyata
<1>7. BootSah' /\ SkemaTerjaga' /\ Melayani'
  BY <1>2, <1>5, BootTetap, SkemaTetap, TahapTetap
<1>8. ASSUME NEW q \in Proses PROVE RencanaSah(q)'
  BY <1>2, <1>5, <1>6, <1>7, RencanaDiam
<1>9. KeadaanSah(db, riwayat, tumpang)'
  BY <1>2, <1>4, <1>6, LuarTetap
<1>10. ASSUME NEW c \in Baris("cadangan")', db'[c].utuh
       PROVE  KeadaanSah(Dipulihkan(c), RiwayatDipulihkan(c), tumpang)'
  <2>1. CASE c # o
    <3>1. c \in Baris("cadangan") /\ db'[c] = db[c]
      BY <1>1, <1>2, <2>1 DEF Baris, Isi, Rak, Nyata
    <3>. QED  BY <1>2, <1>4, <1>6, <1>10, <3>1, CadanganTetap DEF AkunTetap
  <2>2. CASE c = o
    <3>. PICK B, H, T : B = Dipulihkan(c)' /\ H = RiwayatDipulihkan(c)' /\ T = tumpang'
      OBVIOUS
    <3>1. db'[o].isi = [x \in Dicadangkan |-> db[x]] /\ db'[o].riwayat = [x \in Dicadangkan |-> riwayat[x]]
      BY <1>1, <1>3 DEF Obyek
    <3>2. Dicadangkan' = Dicadangkan
      BY <1>4 DEF Dicadangkan, Diam
    <3>3. \A x \in Obyek : x[1] \notin Luar => B[x] = db[x] /\ H[x] = riwayat[x]
      BY <1>4, <2>2, <3>1, <3>2 DEF Dipulihkan, RiwayatDipulihkan, Dicadangkan, Diam
    <3>4. \A e \in Akun : Nyata(db[e]) => Nyata(B[e])
      <4>1. \A e \in Akun : e \in Obyek /\ e \notin Dicadangkan /\ db'[e] = db[e]
        BY <1>5, LetakObyek, Letak DEF IndInv, Akun, Dicadangkan, Luar
      <4>. QED  BY <1>4, <3>2, <4>1 DEF Dipulihkan, Diam
    <3>5. KeadaanSah(B, H, T)
      BY <1>2, <3>3, <3>4, Pindah DEF IndInv
    <3>. QED  BY <1>4, <3>5, Alih
  <2>. QED  BY <2>1, <2>2
<1>. QED  BY <1>2, <1>4, <1>7, <1>8, <1>9, <1>10, DasarTetap DEF IndInv

\* An account, and the plan of a participant who has it.
LEMMA DaftarMenjaga ==
  ASSUME IndInv, Melayani, NEW p \in Proses, BuatPartisipan(p)
  PROVE  IndInv'
<1>1. PICK d \in PartisipanCreate :
        /\ BuatAkun(d.email)
        /\ PartisipanBaru(p, [subjek |-> d.email, email |-> d.email, isi |-> d.isi]) \/ UNCHANGED rencana
  BY DEF BuatPartisipan
<1>. DEFINE e == d.email
<1>2. UNCHANGED <<muat, riwayat, tumpang>> /\ rencana[p] = Tiada
  BY DEF BuatPartisipan, Luang
<1>3. e \in Akun /\ e \in Rak("akun") /\ e[1] = "akun" /\ e \in Obyek /\ e # Kosong
  BY KosongBukanBaris, LetakObyek, Letak DEF PartisipanCreate, Akun, IndInv
<1>4. db[e] = Tiada /\ db' = [db EXCEPT ![e] = [ada |-> TRUE]]
  BY <1>1 DEF BuatAkun
<1>. HIDE DEF e
<1>5. Nyata(db'[e]) /\ \A x \in Obyek \ {e} : db'[x] = db[x]
  BY <1>3, <1>4, TandaBukanBaris DEF Obyek, Nyata
<1>6. Diam /\ LuarSaja
  BY <1>2, <1>3, <1>4, <1>5 DEF Diam, LuarSaja, Obyek, Luar
<1>7. \A t : t # "akun" => \A c \in Rak(t) : db'[c] = db[c]
  BY <1>3, <1>5, LetakObyek, Letak DEF IndInv
<1>8. AkunTetap
  BY <1>4, <1>5 DEF AkunTetap, Nyata
<1>9. BootSah' /\ SkemaTerjaga' /\ Melayani'
  BY <1>2, <1>7, BootTetap, SkemaTetap, TahapTetap
<1>10. ASSUME NEW c \in Baris("partisipan") PROVE db[c].subjek # e
  BY <1>3, <1>4 DEF IndInv, KeadaanSah, SubjekSah, Baris, Nyata
<1>11. ASSUME NEW q \in Proses, rencana[q] # Tiada, NEW o \in DOMAIN rencana[q].isi, Mendaftar(rencana[q], o)
       PROVE  rencana[q].isi[o].subjek # e
  <2>1. RencanaBiasa(q, rencana[q]) \/ RencanaPulih(q, rencana[q])
    BY <1>11, RencanaDilayani
  <2>2. RencanaSubjek(q, rencana[q])
    BY <1>11, <2>1, Letak DEF RencanaBiasa, RencanaPulih, Mendaftar
  <2>3. Nyata(db[rencana[q].isi[o].subjek])
    BY <1>11, <2>2 DEF RencanaSubjek, Mendaftar
  <2>. QED  BY <1>4, <2>3 DEF Nyata
<1>12. ASSUME UNCHANGED rencana, NEW q \in Proses PROVE RencanaSah(q)'
  BY <1>2, <1>7, <1>8, <1>9, <1>12, RencanaDiam
<1>13. ASSUME PartisipanBaru(p, [subjek |-> d.email, email |-> d.email, isi |-> d.isi]), NEW q \in Proses
       PROVE  RencanaSah(q)'
  <2>1. PICK b \in BarisBaru("partisipan") : rencana' = [rencana EXCEPT ![p] =
           [lihat |-> [x \in {b} |-> Tiada],
            isi |-> [x \in {b} |-> [subjek |-> d.email, email |-> d.email, isi |-> d.isi]], syarat |-> {}]]
    BY <1>13 DEF PartisipanBaru
  <2>. PICK n : n = [lihat |-> [x \in {b} |-> Tiada],
            isi |-> [x \in {b} |-> [subjek |-> d.email, email |-> d.email, isi |-> d.isi]], syarat |-> {}]
    OBVIOUS
  <2>2. /\ b[1] = "partisipan" /\ DOMAIN n.isi = {b} /\ DOMAIN n.lihat = {b} /\ n.lihat[b] = Tiada
        /\ n.syarat = {} /\ n.isi[b].subjek = e /\ "subjek" \in DOMAIN n.isi[b]
    BY Tempatan, Letak DEF e
  <2>3. rencana'[p] = n /\ \A x \in Proses : x # p => rencana'[x] = rencana[x]
    BY <2>1 DEF IndInv
  <2>4. RencanaUtuh(n)' /\ RencanaBaris(n)' /\ RencanaRujukan(n)' /\ RencanaKursi(n)'
    <3>1. \A w : Bentuk(b, w)' /\ AturanBaris(b, w)'
      BY <2>2 DEF Bentuk, AturanBaris
    <3>2. RencanaUtuh(n)' /\ RencanaBaris(n)' /\ RencanaKursi(n)'
      BY <2>2, <3>1 DEF RencanaUtuh, RencanaBaris, RencanaKursi
    <3>3. RencanaRujukan(n)'
      BY <2>2 DEF RencanaRujukan, RujukanSah
    <3>. QED  BY <3>2, <3>3
  <2>5. \A c \in Baris("partisipan")' : db'[c].subjek # e
    BY <1>2, <1>7, <1>10 DEF Baris, Isi, Rak, Nyata
  <2>6. RencanaSubjek(p, n)'
    <3>1. \A x \in Proses \ {p} : rencana'[x] # Tiada =>
            \A c \in DOMAIN rencana'[x].isi : Mendaftar(rencana'[x], c) => rencana'[x].isi[c].subjek # e
      BY <1>11, <2>3
    <3>2. e \in Akun' /\ Nyata(db[e])'
      BY <1>2, <1>3, <1>5 DEF Akun, Rak, Nyata
    <3>. QED  BY <2>2, <2>5, <3>1, <3>2 DEF RencanaSubjek
  <2>7. RencanaBiasa(p, n)'
    BY <1>9, <2>2, <2>4, <2>6 DEF RencanaBiasa, TabelPlatform
  <2>8. CASE q = p
    <3>1. RencanaBiasa(p, rencana[p])'
      BY <2>3, <2>7
    <3>. QED  BY <2>8, <3>1 DEF RencanaSah
  <2>9. CASE q # p
    <3>. PICK r : r = rencana[q]
      OBVIOUS
    <3>1. r # Tiada /\ RencanaBiasa(q, r) => SubjekSendiri(q, r)'
      <4>. SUFFICES ASSUME RencanaBiasa(q, r), NEW o \in DOMAIN r.isi, Mendaftar(r, o), r # Tiada
                    PROVE  /\ Nyata(db[r.isi[o].subjek])'
                           /\ \A c \in Baris("partisipan")' : db'[c].subjek # r.isi[o].subjek
                           /\ \A x \in Proses \ {q} : rencana'[x] # Tiada => \A c \in DOMAIN rencana'[x].isi :
                                Mendaftar(rencana'[x], c) => rencana'[x].isi[c].subjek # r.isi[o].subjek
        BY DEF SubjekSendiri, Mendaftar
      <4>1. /\ r.isi[o].subjek \in Akun /\ Nyata(db[r.isi[o].subjek])
            /\ \A c \in Baris("partisipan") : db[c].subjek # r.isi[o].subjek
            /\ \A x \in Proses \ {q} : rencana[x] # Tiada => \A c \in DOMAIN rencana[x].isi :
                 Mendaftar(rencana[x], c) => rencana[x].isi[c].subjek # r.isi[o].subjek
        BY DEF RencanaBiasa, RencanaSubjek, Mendaftar
      <4>2. Nyata(db[r.isi[o].subjek])'
        BY <1>8, <4>1 DEF AkunTetap
      <4>3. \A c \in Baris("partisipan")' : db'[c].subjek # r.isi[o].subjek
        BY <1>2, <1>7, <4>1 DEF Baris, Isi, Rak, Nyata
      <4>4. r.isi[o].subjek # e
        BY <1>11
      <4>. QED  BY <2>2, <2>3, <4>1, <4>2, <4>3, <4>4
    <3>2. r # Tiada => \A x \in Proses \ {q} : rencana'[x] # Tiada =>
             DOMAIN rencana'[x].isi \cap DOMAIN r.isi \cap Rak("pulih") = {}
      <4>1. r # Tiada => RencanaBiasa(q, r) \/ RencanaPulih(q, r)
        BY <1>9, RencanaDilayani
      <4>2. b \notin Rak("pulih")
        BY <2>2, Letak
      <4>. QED  BY <2>2, <2>3, <4>1, <4>2, Letak DEF RencanaBiasa, RencanaPulih, TabelPlatform
    <3>3. \A a \in Rak("sme_panel_anggota") : db[a] # Tiada => db'[a] \in {db[a], Bekas}
      BY <1>7
    <3>4. r # Tiada => \A o \in Rak("pulih") \cap DOMAIN r.isi : db'[o] = db[o]
      BY <1>7
    <3>. QED  BY <1>2, <1>9, <2>3, <2>9, <3>1, <3>2, <3>3, <3>4, LainTetap
  <2>. QED  BY <2>8, <2>9
<1>14. DOMAIN rencana' = Proses
  BY <1>1 DEF PartisipanBaru, IndInv
<1>. QED  BY <1>1, <1>2, <1>6, <1>7, <1>8, <1>9, <1>12, <1>13, <1>14, LuarSah DEF IndInv

LEMMA HasilMenjaga ==
  ASSUME IndInv, NEW p \in Proses, HasilPulih(p)
  PROVE  IndInv' /\ Melayani /\ \A t : t # "pulih" => \A c \in Rak(t) : db'[c] = db[c]
<1>1. PICK o \in DOMAIN rencana[p].isi : db' = [db EXCEPT ![o].jawab = Peringatan(p, o)]
  BY DEF HasilPulih
<1>2. /\ Menjawab(p) /\ rencana[p] # Tiada /\ rencana' = [rencana EXCEPT ![p] = Tiada]
      /\ UNCHANGED <<muat, riwayat, tumpang>>
  BY DEF HasilPulih, Menjawab
<1>3. RencanaPulih(p, rencana[p])
  <2>. PICK r : r = rencana[p]
    OBVIOUS
  <2>1. \E x \in DOMAIN r.isi : x[1] = "pulih"
    BY <1>2 DEF Menjawab
  <2>2. RencanaBiasa(p, r) \/ RencanaPulih(p, r) \/ RencanaUpgrade(p, r) \/ RencanaBenih(p, r)
    BY <1>2 DEF IndInv, RencanaSah
  <2>3. ~RencanaBiasa(p, r)
    BY <2>1 DEF RencanaBiasa, TabelPlatform
  <2>4. ~RencanaUpgrade(p, r)
    BY <2>1, KepalaRilis, Letak DEF RencanaUpgrade, RencanaMulai
  <2>5. ~RencanaBenih(p, r)
    BY <2>1, KepalaRilis, Letak DEF RencanaBenih, RencanaMulai, BarisBenih, TabelBenih, TabelButir
  <2>. QED  BY <2>2, <2>3, <2>4, <2>5
<1>4. /\ Melayani /\ DOMAIN rencana[p].isi = {o} /\ o \in Rak("pulih") /\ o[1] = "pulih" /\ o \in Obyek
      /\ db[o] = [jawab |-> Tiada]
      /\ \A q \in Proses \ {p} : rencana[q] # Tiada => o \notin DOMAIN rencana[q].isi
  BY <1>1, <1>3, LetakObyek, Letak DEF RencanaPulih, IndInv
<1>5. db'[o] = [jawab |-> Peringatan(p, o)] /\ \A x \in Obyek \ {o} : db'[x] = db[x]
  BY <1>1, <1>4 DEF Obyek
<1>6. Diam /\ LuarSaja
  BY <1>1, <1>2, <1>4, <1>5 DEF Diam, LuarSaja, Obyek, Luar
<1>7. \A t : \A c \in Rak(t) : c # o => db'[c] = db[c]
  BY <1>5, LetakObyek, Letak DEF IndInv
<1>8. \A t : t # "pulih" => \A c \in Rak(t) : db'[c] = db[c]
  BY <1>4, <1>7, Letak
<1>9. AkunTetap
  BY <1>8 DEF AkunTetap, Akun, Nyata
<1>10. BootSah' /\ Melayani' /\ HeadKode' = HeadKode /\ Revisi' = Revisi
  BY <1>2, <1>4, <1>8, BootTetap, TahapTetap, RevisiTetap
<1>11. SkemaTerjaga'
  <2>. SUFFICES ASSUME Revisi' # HeadKode'
                PROVE  \E c \in Baris("pulih")' : db'[c].jawab # "ok"
    BY DEF SkemaTerjaga
  <2>1. db'[o] = [jawab |-> "peringatan"]
    BY <1>5, <1>10 DEF Peringatan
  <2>2. o \in Baris("pulih")'
    BY <1>2, <1>4, <2>1, TandaBukanBaris DEF Baris, Isi, Rak, Nyata
  <2>. QED  BY <2>1, <2>2
<1>12. ASSUME NEW q \in Proses PROVE RencanaSah(q)'
  <2>1. CASE q = p
    BY <1>2, <2>1 DEF RencanaSah, IndInv
  <2>2. CASE q # p
    BY <1>2, <1>4, <1>7, <1>8, <1>9, <1>10, <2>2, RencanaDiam DEF IndInv
  <2>. QED  BY <2>1, <2>2
<1>13. DOMAIN rencana' = Proses
  BY <1>2 DEF IndInv
<1>14. IndInv'
  BY <1>2, <1>6, <1>8, <1>9, <1>10, <1>11, <1>12, <1>13, LuarSah DEF IndInv
<1>. QED  BY <1>4, <1>8, <1>14

\* A dump replaces the rows it holds, and the plan is to say how that went.
LEMMA PulihMenjaga ==
  ASSUME IndInv, Melayani, NEW p \in Proses, Pulihkan(p)
  PROVE  IndInv'
<1>1. PICK c \in Baris("cadangan"), o \in BarisBaru("pulih") :
        /\ db[c].utuh /\ db' = [Dipulihkan(c) EXCEPT ![o] = [jawab |-> Tiada]]
        /\ riwayat' = RiwayatDipulihkan(c)
        /\ rencana' = [rencana EXCEPT ![p] =
             [lihat |-> <<>>, isi |-> [x \in {o} |-> [awal |-> Revisi]], syarat |-> {}]]
  BY DEF Pulihkan
<1>. PICK n : n = [lihat |-> <<>>, isi |-> [x \in {o} |-> [awal |-> Revisi]], syarat |-> {}]
  OBVIOUS
<1>2. /\ UNCHANGED <<muat, tumpang>> /\ rencana[p] = Tiada
      /\ \A q \in Proses : rencana[q] = Tiada \/ Menjawab(q)
  BY DEF Pulihkan, Luang
<1>3. o \in Rak("pulih") /\ o[1] = "pulih" /\ o \in Obyek /\ o \notin Dipesan /\ db[o] = Tiada
  BY Tempatan, LetakObyek, Letak DEF IndInv
<1>4. /\ rencana'[p] = n /\ \A q \in Proses : q # p => rencana'[q] = rencana[q]
      /\ DOMAIN rencana' = Proses /\ DOMAIN n.isi = {o} /\ n.syarat = {}
  BY <1>1 DEF IndInv
<1>. PICK B, H, T : B = db' /\ H = riwayat' /\ T = tumpang'
  OBVIOUS
<1>5. B[o] = [jawab |-> Tiada] /\ DOMAIN B = Obyek /\ \A x \in Obyek \ {o} : B[x] = Dipulihkan(c)[x]
  BY <1>1, <1>3 DEF Dipulihkan
<1>6. Diam
  BY <1>2, <1>5 DEF Diam, Obyek
<1>7. \A t \in Luar : \A x \in Rak(t) : x # o => db'[x] = db[x]
  <2>1. \A t \in Luar : \A x \in Rak(t) : x \in Obyek /\ x \notin Dicadangkan
    BY LetakObyek, Letak DEF IndInv, Dicadangkan
  <2>. QED  BY <1>5, <2>1 DEF Dipulihkan
<1>8. \A t \in Luar \ {"pulih"} : \A x \in Rak(t) : db'[x] = db[x]
  BY <1>3, <1>7, Letak
<1>9. AkunTetap
  BY <1>8 DEF AkunTetap, Akun, Nyata, Luar
<1>10. KeadaanSah(db, riwayat, tumpang)'
  <2>1. KeadaanSah(Dipulihkan(c), RiwayatDipulihkan(c), tumpang)
    BY <1>1 DEF IndInv
  <2>2. \A x \in Obyek : x[1] \notin Luar => B[x] = Dipulihkan(c)[x] /\ H[x] = RiwayatDipulihkan(c)[x]
    BY <1>1, <1>3, <1>5 DEF Luar
  <2>3. \A e \in Akun : Nyata(Dipulihkan(c)[e]) => Nyata(B[e])
    <3>1. \A e \in Akun : e \in Obyek /\ e # o
      BY <1>3, LetakObyek, Letak DEF IndInv, Akun
    <3>. QED  BY <1>5, <3>1
  <2>4. KeadaanSah(B, H, T)
    BY <1>2, <2>1, <2>2, <2>3, Pindah DEF IndInv
  <2>. QED  BY <1>6, <2>4, Alih
<1>11. ASSUME NEW d \in Baris("cadangan")', db'[d].utuh
       PROVE  KeadaanSah(Dipulihkan(d), RiwayatDipulihkan(d), tumpang)'
  <2>1. d \in Baris("cadangan") /\ db'[d] = db[d]
    BY <1>2, <1>8 DEF Baris, Isi, Rak, Nyata, Luar
  <2>. QED  BY <1>2, <1>6, <1>9, <1>11, <2>1, CadanganTetap DEF AkunTetap
<1>12. \A x \in Rak("boot") : db'[x] = db[x]
  BY <1>8 DEF Luar
<1>13. Baris("boot")' = Baris("boot") /\ Tahap' = Tahap /\ HeadKode' = HeadKode /\ Melayani'
  BY <1>2, <1>12, TahapTetap
<1>14. BootSah'
  <2>1. \A t : Rak(t)' = Rak(t)
    BY <1>2 DEF Rak
  <2>2. Tahap' # "benih"
    BY <1>13 DEF Melayani
  <2>3. BootSah
    BY DEF IndInv
  <2>. QED  BY <1>12, <1>13, <2>1, <2>2, <2>3 DEF BootSah
<1>15. SkemaTerjaga'
  <2>1. o \in Baris("pulih")'
    BY <1>2, <1>3, <1>5, TandaBukanBaris DEF Baris, Isi, Rak, Nyata
  <2>2. db'[o].jawab # "ok"
    BY <1>5, TandaBukanBaris
  <2>. QED  BY <2>1, <2>2 DEF SkemaTerjaga
<1>16. ASSUME NEW q \in Proses \ {p}, rencana[q] # Tiada
       PROVE  RencanaPulih(q, rencana[q]) /\ o \notin DOMAIN rencana[q].isi
  <2>1. Menjawab(q)
    BY <1>2, <1>16
  <2>2. ~RencanaBiasa(q, rencana[q])
    BY <2>1 DEF Menjawab, RencanaBiasa, TabelPlatform
  <2>. QED  BY <1>3, <1>16, <2>2, RencanaDilayani DEF Dipesan
<1>17. ASSUME NEW q \in Proses PROVE RencanaSah(q)'
  <2>1. CASE q = p
    <3>1. \A x \in Proses \ {p} : rencana'[x] # Tiada => DOMAIN rencana'[x].isi \cap DOMAIN n.isi = {}
      BY <1>4, <1>16
    <3>2. o \in Rak("pulih")' /\ db'[o] = [jawab |-> Tiada]
      BY <1>2, <1>3, <1>5 DEF Rak
    <3>3. RencanaPulih(p, n)'
      BY <1>4, <1>13, <3>1, <3>2 DEF RencanaPulih
    <3>4. RencanaPulih(p, rencana[p])'
      BY <1>4, <3>3
    <3>. QED  BY <2>1, <3>4 DEF RencanaSah
  <2>2. CASE q # p /\ rencana[q] = Tiada
    BY <1>4, <2>2 DEF RencanaSah
  <2>3. CASE q # p /\ rencana[q] # Tiada
    <3>. PICK r : r = rencana[q]
      OBVIOUS
    <3>1. RencanaPulih(q, r) /\ o \notin DOMAIN r.isi
      BY <1>16, <2>3
    <3>2. \A x \in Rak("pulih") \cap DOMAIN r.isi : db'[x] = db[x]
      BY <1>7, <3>1 DEF Luar
    <3>3. \A x \in Proses \ {q} : rencana'[x] # Tiada =>
             DOMAIN rencana'[x].isi \cap DOMAIN r.isi \cap Rak("pulih") = {}
      BY <1>4, <3>1 DEF RencanaPulih
    <3>4. RencanaPulih(q, r)'
      BY <1>2, <1>13, <3>1, <3>2, <3>3, PulihTetap
    <3>5. RencanaPulih(q, rencana[q])'
      BY <1>4, <2>3, <3>4
    <3>. QED  BY <3>5 DEF RencanaSah
  <2>. QED  BY <2>1, <2>2, <2>3
<1>. QED  BY <1>4, <1>6, <1>10, <1>11, <1>14, <1>15, <1>17, DasarTetap DEF IndInv

-------------------------------------------------------------------------------
(* Starting.                                                                 *)

LEMMA LanjutRencana ==
  ASSUME IndInv, NEW p, Sendiri(p), Baris("boot") # {}, NEW isi, NEW t, Rencanakan(p, {}, isi),
         StartTerakhir \in DOMAIN isi, isi[StartTerakhir] = [tahap |-> t],
         NEW n, n = [lihat |-> [o \in DOMAIN isi |-> db[o]], isi |-> isi, syarat |-> {}]
  PROVE  /\ RencanaMulai(p, n, t)' /\ Tahap' = Tahap /\ HeadKode' = HeadKode /\ StartTerakhir' = StartTerakhir
         /\ RencanaUpgrade(p, n)' \/ RencanaBenih(p, n)' => IndInv'
<1>1. /\ UNCHANGED <<muat, db, riwayat, tumpang>>
      /\ rencana' = [rencana EXCEPT ![p] = [lihat |-> [o \in {} \cup {} \cup DOMAIN isi |-> db[o]],
                                            isi |-> isi, syarat |-> {}]]
  BY DEF Rencanakan, RencanakanBila
<1>2. \A q \in Proses : rencana[q] = Tiada
  BY DEF Sendiri
<1>3. /\ p \in Proses => rencana'[p] = n
      /\ \A q \in Proses \ {p} : rencana'[q] = Tiada
      /\ DOMAIN rencana' = Proses
  BY <1>1, <1>2 DEF IndInv
<1>4. Baris("boot")' = Baris("boot") /\ Tahap' = Tahap /\ HeadKode' = HeadKode /\ StartTerakhir' = StartTerakhir
  BY <1>1, TahapTetap
<1>5. RencanaMulai(p, n, t)'
  BY <1>1, <1>3, <1>4 DEF RencanaMulai
<1>6. ASSUME RencanaUpgrade(p, n)' \/ RencanaBenih(p, n)' PROVE IndInv'
  <2>1. ASSUME NEW q \in Proses PROVE RencanaSah(q)'
    <3>1. CASE q # p
      BY <1>3, <3>1 DEF RencanaSah
    <3>2. CASE q = p
      <4>1. RencanaUpgrade(p, rencana[p])' \/ RencanaBenih(p, rencana[p])'
        BY <1>3, <1>6, <3>2
      <4>. QED  BY <3>2, <4>1 DEF RencanaSah
    <3>. QED  BY <3>1, <3>2
  <2>. QED  BY <1>1, <1>3, <2>1, KeadaanDiam DEF IndInv
<1>. QED  BY <1>4, <1>5, <1>6

\* A start plans no rows of settings, calls and sources.
TanpaIsi == Diam /\ UNCHANGED <<db, tumpang>> /\ \A q \in Proses : rencana'[q] # Tiada =>
  \A o \in DOMAIN rencana'[q].isi : o[1] \notin TabelIsian

LEMMA LanjutTanpaIsi ==
  ASSUME IndInv, NEW p, Sendiri(p), NEW isi, Rencanakan(p, {}, isi),
         \A o \in DOMAIN isi : o[1] \notin TabelIsian
  PROVE  TanpaIsi
<1>. PICK n : n = Rancangan({}, isi, {})
  OBVIOUS
<1>1. UNCHANGED <<muat, db, tumpang>> /\ rencana' = [rencana EXCEPT ![p] = n] /\ n.isi = isi
  BY DEF Rencanakan, RencanakanBila, Rancangan
<1>2. \A q \in Proses : rencana[q] = Tiada
  BY DEF Sendiri
<1>3. \A q \in Proses : rencana'[q] # Tiada => rencana'[q] = n
  BY <1>1, <1>2 DEF IndInv
<1>. QED  BY <1>1, <1>3 DEF TanpaIsi, Diam, Obyek

LEMMA UpgradeMenjaga ==
  ASSUME IndInv, NEW p, Upgrade(p)
  PROVE  IndInv' /\ TanpaIsi
<1>. DEFINE skema == [o \in Baris("skema") |-> [revisi |-> HeadKode]]
            isi == Gabung(Lanjut("benih"), skema)
            s == StartTerakhir
<1>1. Sendiri(p) /\ Tahap = "migrasi" /\ Rencanakan(p, {}, isi)
  BY DEF Upgrade
<1>2. Baris("boot") # {}
  BY <1>1 DEF Tahap
<1>3. s \in Rak("boot")
  BY <1>2, KepalaRilis
<1>4. Baris("skema") = Rak("skema")
  <2>1. \A o \in Rak("skema") : \E h \in Rilis : db[o] = [revisi |-> h]
    BY DEF IndInv, KeadaanSah, KolomAda
  <2>2. \A h \in Rilis : Nyata([revisi |-> h])
    BY TandaBukanBaris DEF Nyata
  <2>. QED  BY <2>1, <2>2 DEF Baris, Isi
<1>5. DOMAIN Lanjut("benih") = {s} /\ Lanjut("benih")[s] = [tahap |-> "benih"]
  BY DEF Lanjut
<1>6. DOMAIN skema = Rak("skema") /\ \A o \in Rak("skema") : skema[o] = [revisi |-> HeadKode]
  BY <1>4
<1>. HIDE DEF skema
<1>7. /\ DOMAIN isi = {s} \cup Rak("skema") /\ isi[s] = [tahap |-> "benih"]
      /\ \A o \in Rak("skema") : isi[o] = [revisi |-> HeadKode]
  <2>1. \A o \in Rak("skema") : o # s
    BY <1>3, Letak
  <2>. QED  BY <1>5, <1>6, <2>1, KolomGabung
<1>. HIDE DEF isi
<1>. PICK n : n = [lihat |-> [o \in DOMAIN isi |-> db[o]], isi |-> isi, syarat |-> {}]
  OBVIOUS
<1>. PICK t : t = "benih"
  OBVIOUS
<1>8. /\ RencanaMulai(p, n, t)' /\ Tahap' = Tahap /\ HeadKode' = HeadKode /\ StartTerakhir' = StartTerakhir
      /\ RencanaUpgrade(p, n)' \/ RencanaBenih(p, n)' => IndInv'
  BY <1>1, <1>2, <1>7, LanjutRencana
<1>9. Rak("skema")' = Rak("skema")
  BY <1>1 DEF Rencanakan, RencanakanBila, Rak
<1>10. RencanaUpgrade(p, n)'
  BY <1>1, <1>7, <1>8, <1>9 DEF RencanaUpgrade
<1>11. \A o \in DOMAIN isi : o[1] \notin TabelIsian
  BY <1>3, <1>7, Letak DEF TabelIsian
<1>12. TanpaIsi
  BY <1>1, <1>11, LanjutTanpaIsi
<1>. QED  BY <1>8, <1>10, <1>12

\* Rows that a seeding adds, items only to an instrument that has none.
Benihan(isi) == \A o \in DOMAIN isi :
  /\ o[1] \in TabelBenih \ TabelKatalog /\ ~Nyata(db[o])
  /\ o[1] \in TabelButir => Baris(o[1]) = {}

LEMMA BenihBaru ==
  ASSUME NEW t \in TabelBenih \ TabelKatalog, NEW baku, NEW kolom, NEW isi \in Benih(t, baku, kolom),
         t \in TabelButir => Baris(t) = {}
  PROVE  Benihan(isi)
<1>1. CASE Rak(t) = {}
  BY <1>1 DEF Benih, Benihan
<1>2. CASE Rak(t) # {}
  <2>1. PICK f \in Tempat(t, baku, kolom) :
          isi = [o \in {f[r] : r \in baku} \ Baris(t) |-> CHOOSE r \in baku : f[r] = o]
    BY <1>2 DEF Benih
  <2>2. \A o \in DOMAIN isi : o \in Rak(t) /\ o \notin Baris(t)
    BY <2>1, Bertempat
  <2>3. \A o \in DOMAIN isi : o[1] = t /\ ~Nyata(db[o])
    BY <2>2, Letak DEF Baris, Isi
  <2>. QED  BY <2>3 DEF Benihan
<1>. QED  BY <1>1, <1>2

LEMMA BenihGabung ==
  ASSUME NEW a, NEW b, Benihan(a), Benihan(b)
  PROVE  Benihan(Gabung(a, b))
BY KolomGabung DEF Benihan

LEMMA BenihPertama ==
  ASSUME NEW isi, NEW a \in SeedKonteks(isi), NEW v \in SeedVersiMetode(isi), NEW c \in SeedCakupan,
         NEW k \in SeedKodeOrangResponden, NEW d \in SeedDcs, NEW w \in SeedWcp
  PROVE  Benihan(Gabung(a, Gabung(v, Gabung(c, Gabung(k, Gabung(d, Gabung(w, SeedMasalah(a, isi))))))))
<1>1. Benihan(a)
  BY BenihBaru DEF SeedKonteks, TabelBenih, TabelButir, TabelKatalog
<1>2. Benihan(v)
  BY BenihBaru DEF SeedVersiMetode, TabelBenih, TabelButir, TabelKatalog
<1>3. Benihan(c)
  BY BenihBaru DEF SeedCakupan, TabelBenih, TabelButir, TabelKatalog
<1>4. Benihan(k)
  BY BenihBaru DEF SeedKodeOrangResponden, TabelBenih, TabelButir, TabelKatalog
<1>5. ASSUME NEW t \in TabelButir, NEW x \in SeedButir(t) PROVE Benihan(x)
  <2>1. CASE Baris(t) # {}
    BY <1>5, <2>1 DEF SeedButir, Benihan
  <2>2. CASE Baris(t) = {}
    BY <1>5, <2>2, BenihBaru DEF SeedButir, TabelBenih, TabelButir, TabelKatalog
  <2>. QED  BY <2>1, <2>2
<1>6. Benihan(d) /\ Benihan(w)
  BY <1>5 DEF SeedDcs, SeedWcp, TabelButir
<1>7. Benihan(SeedMasalah(a, isi))
  <2>1. \A o \in DOMAIN SeedMasalah(a, isi) : o \in Rak("masalah") /\ o \notin Baris("masalah")
    BY DEF SeedMasalah
  <2>2. \A o \in DOMAIN SeedMasalah(a, isi) : o[1] = "masalah" /\ ~Nyata(db[o])
    BY <2>1, Letak DEF Baris, Isi
  <2>. QED  BY <2>2 DEF Benihan, TabelBenih, TabelButir, TabelKatalog
<1>. QED  BY <1>1, <1>2, <1>3, <1>4, <1>6, <1>7, BenihGabung

LEMMA BarisBenihTetap ==
  ASSUME UNCHANGED <<muat, db>>, NEW o, NEW u, BarisBenih(o, u)
  PROVE  BarisBenih(o, u)'
<1>1. Jabatan' = Jabatan /\ \A t : Baris(t)' = Baris(t)
  BY DEF Baris, Isi, Rak, Nyata, Jabatan
<1>2. ASSUME Nyata(db[o])'
      PROVE  o[1] \in {"tp", "dt"} /\ \E J \in SUBSET Jabatan' : u = Beda(o, [jabatan |-> db[o].jabatan \cup J])'
  <2>1. PICK J \in SUBSET Jabatan : o[1] \in {"tp", "dt"} /\ u = Beda(o, [jabatan |-> db[o].jabatan \cup J])
    BY <1>2 DEF BarisBenih, Nyata
  <2>2. u = Beda(o, [jabatan |-> db[o].jabatan \cup J])'
    BY <2>1 DEF Beda
  <2>. QED  BY <1>1, <2>1, <2>2
<1>. QED  BY <1>1, <1>2 DEF BarisBenih

LEMMA BenihMenjaga ==
  ASSUME IndInv, NEW p, SeedAll(p)
  PROVE  IndInv' /\ TanpaIsi
<1>. DEFINE s == StartTerakhir
<1>1. PICK b : Benihan(b) /\ SeedTaskinv(p, Gabung(Lanjut("layani"), b))
  BY BenihPertama DEF SeedAll
<1>. DEFINE lain == Gabung(Lanjut("layani"), b)
<1>2. Sendiri(p) /\ Tahap = "benih" /\ Baris("boot") # {}
  BY DEF SeedAll, Tahap
<1>3. DOMAIN Lanjut("layani") = {s} /\ Lanjut("layani")[s] = [tahap |-> "layani"]
  BY DEF Lanjut
<1>4. DOMAIN lain = {s} \cup DOMAIN b /\ lain[s] = [tahap |-> "layani"]
  BY <1>3, KolomGabung
<1>. HIDE DEF lain
<1>10. \A o \in DOMAIN lain : o[1] \notin TabelIstimewa \cup TabelKatalog \cup {"sekolah"}
  <2>1. s[1] = "boot"
    BY <1>2, KepalaRilis, Letak
  <2>. QED  BY <1>1, <1>4, <2>1 DEF Benihan, TabelBenih, TabelButir, TabelIstimewa, TabelKatalog
<1>5. PICK isi :
        /\ Rencanakan(p, {}, isi) /\ s \in DOMAIN isi /\ isi[s] = [tahap |-> "layani"]
        /\ \A o \in DOMAIN isi \ {s} : BarisBenih(o, isi[o])
        /\ RencanaRujukan(Rancangan({}, isi, {})) /\ \A o \in DOMAIN isi : Bentuk(o, Jadilah(isi, o))
        /\ \A o \in DOMAIN isi : o[1] \notin {"alternatif", "penilaian", "ts_log"}
  <2>1. CASE Rak("tp") = {}
    <3>1. Rencanakan(p, {}, lain)
      BY <1>1, <2>1 DEF SeedTaskinv, lain
    <3>2. \A o \in DOMAIN lain : o[1] \notin TabelMerujuk /\ o[1] \notin TabelBerbentuk
      BY <1>10 DEF TabelMerujuk, TabelBerbentuk, TabelIstimewa
    <3>3. RencanaRujukan(Rancangan({}, lain, {})) /\ \A o \in DOMAIN lain : Bentuk(o, Jadilah(lain, o))
      BY <3>2, TanpaRujukan, TanpaBentuk
    <3>4. \A o \in DOMAIN lain \ {s} : BarisBenih(o, lain[o])
      <4>1. ASSUME NEW o \in DOMAIN lain \ {s} PROVE o \in DOMAIN b
        BY <1>4
      <4>. QED  BY <1>1, <4>1 DEF Benihan, BarisBenih
    <3>. QED  BY <1>4, <1>10, <3>1, <3>3, <3>4 DEF TabelIstimewa
  <2>2. CASE Rak("tp") # {}
    <3>1. SeedKatalog(p, lain)
      BY <1>1, <2>2 DEF SeedTaskinv, lain
    <3>2. PICK k : Rencanakan(p, {}, Gabung(lain, k)) /\ IsiKatalog(k)
      BY <3>1, TulisKatalog
    <3>. DEFINE isi == Gabung(lain, k)
    <3>3. s \in DOMAIN isi /\ isi[s] = [tahap |-> "layani"]
      BY <1>4, KolomGabung
    <3>4. ASSUME NEW o \in DOMAIN isi \ {s}
          PROVE  BarisBenih(o, isi[o])
      <4>1. CASE o \in DOMAIN b
        BY <1>1, <4>1 DEF Benihan, BarisBenih
      <4>2. CASE o \notin DOMAIN b
        <5>1. o \in DOMAIN k /\ isi[o] = k[o]
          BY <1>4, <3>4, <4>2, KolomGabung
        <5>. QED  BY <3>2, <5>1 DEF BarisBenih, IsiKatalog, TabelKatalog, TabelBenih, TabelButir
      <4>. QED  BY <4>1, <4>2
    <3>5. RencanaRujukan(Rancangan({}, isi, {})) /\ \A o \in DOMAIN isi : Bentuk(o, Jadilah(isi, o))
      BY <1>10, <3>2, KatalogMerujuk
    <3>6. \A o \in DOMAIN isi : o[1] \notin {"alternatif", "penilaian", "ts_log"}
      BY <1>10, <3>2, KolomGabung DEF IsiKatalog, TabelIstimewa, TabelKatalog
    <3>. HIDE DEF isi
    <3>. QED  BY <3>2, <3>3, <3>4, <3>5, <3>6 DEF isi
  <2>. QED  BY <2>1, <2>2
<1>. PICK n : n = [lihat |-> [o \in DOMAIN isi |-> db[o]], isi |-> isi, syarat |-> {}]
  OBVIOUS
<1>. PICK t : t = "layani"
  OBVIOUS
<1>6. /\ RencanaMulai(p, n, t)' /\ Tahap' = Tahap /\ StartTerakhir' = s
      /\ RencanaUpgrade(p, n)' \/ RencanaBenih(p, n)' => IndInv'
  BY <1>2, <1>5, LanjutRencana
<1>7. UNCHANGED <<muat, db>>
  BY <1>5 DEF Rencanakan, RencanakanBila
<1>8. (\A o \in DOMAIN isi \ {s} : BarisBenih(o, isi[o]))'
  BY <1>5, <1>6, <1>7, BarisBenihTetap
<1>11. n = Rancangan({}, isi, {})
  BY DEF Rancangan
<1>12. tumpang' = tumpang /\ \A o \in DOMAIN isi : Jadi(n, o) = Jadilah(isi, o)
  BY <1>5 DEF Jadi, Jadilah, Rencanakan, RencanakanBila
<1>13. RencanaBaris(n)'
  <2>1. \A o \in DOMAIN isi : Bentuk(o, Jadi(n, o))' /\ AturanBaris(o, Jadi(n, o))'
    BY <1>5, <1>7, <1>12, BentukSama DEF AturanBaris, Jadi
  <2>. QED  BY <1>5, <2>1, Zenon DEF RencanaBaris
<1>14. RencanaRujukan(n)'
  BY <1>5, <1>7, <1>11, RujukanTetap
<1>9. RencanaBenih(p, n)'
  BY <1>2, <1>6, <1>8, <1>13, <1>14 DEF RencanaBenih
<1>15. \A o \in DOMAIN isi : o[1] \notin TabelIsian
  <2>1. s[1] = "boot"
    BY <1>2, KepalaRilis, Letak
  <2>2. \A o \in DOMAIN isi \ {s} : o[1] \in TabelBenih
    BY <1>5 DEF BarisBenih
  <2>. QED  BY <2>1, <2>2 DEF TabelIsian, TabelBenih, TabelButir
<1>16. TanpaIsi
  BY <1>2, <1>5, <1>15, LanjutTanpaIsi
<1>. QED  BY <1>6, <1>9, <1>16

\* While requests are served, no plan has a row of a start: a new one is the
\* first free one, and so the last of all.
LEMMA BootBaru ==
  ASSUME IndInv, UNCHANGED muat, Melayani, NEW o \in BarisBaru("boot"), NEW h \in Rilis,
         \A x \in Rak("boot") : db'[x] = IF x = o THEN [tahap |-> "migrasi", head |-> h] ELSE db[x]
  PROVE  BootSah' /\ Tahap' = "migrasi"
<1>. DEFINE m == [tahap |-> "migrasi", head |-> h]
<1>1. o \in Rak("boot") /\ db[o] = Tiada /\ o = <<"boot", o[2]>> /\ o[2] \in Nat
  <2>1. muat.tabel["boot"][2] \in Nat
    BY Tempatan, Letak, PermintaanAssumption DEF IndInv
  <2>. QED  BY <2>1, Tempatan, Letak
<1>2. \A x \in Rak("boot") : x = <<"boot", x[2]>> /\ x[2] \in Nat
  <2>1. muat.tabel["boot"][2] \in Nat
    BY <1>1, Letak, PermintaanAssumption DEF IndInv
  <2>. QED  BY <2>1, Letak
<1>3. \A x \in Rak("boot") : x \notin Dipesan
  BY RencanaDilayani, Letak DEF Dipesan, RencanaBiasa, RencanaPulih, TabelPlatform
<1>4. \A x \in Rak("boot") : db[x] = Tiada => o[2] <= x[2]
  BY <1>3 DEF BarisBaru, Pertama
<1>5. m # Tiada /\ m # Bekas
  BY TandaBukanBaris
<1>6. \A x \in Rak("boot") : x[2] < o[2] => db[x] # Tiada
  BY <1>1, <1>2, <1>4
<1>7. \A x \in Rak("boot") : db[x] # Tiada => x[2] < o[2]
  <2>. SUFFICES ASSUME NEW x \in Rak("boot"), db[x] # Tiada, ~(x[2] < o[2]) PROVE FALSE
    OBVIOUS
  <2>1. o[2] < x[2]
    BY <1>1, <1>2
  <2>. QED  BY <1>1, <2>1 DEF IndInv, BootSah
<1>8. Rak("boot")' = Rak("boot")
  BY DEF Rak
<1>9. Baris("boot")' = Baris("boot") \cup {o}
  BY <1>1, <1>5, <1>8 DEF Baris, Isi, Nyata
<1>10. \A c \in Baris("boot")' : c[2] <= o[2] /\ (o[2] <= c[2] => c = o)
  BY <1>1, <1>2, <1>7, <1>9, Tempatan
<1>11. StartTerakhir' = o
  <2>1. \E x \in Baris("boot")' : \A c \in Baris("boot")' : c[2] <= x[2]
    BY <1>9, <1>10
  <2>2. StartTerakhir' \in Baris("boot")' /\ \A c \in Baris("boot")' : c[2] <= StartTerakhir'[2]
    BY <2>1, Zenon DEF StartTerakhir
  <2>. QED  BY <1>9, <1>10, <2>2
<1>12. Tahap' = "migrasi"
  BY <1>1, <1>9, <1>11 DEF Tahap
<1>13. \A x \in Rak("boot") : db'[x] = Tiada \/
         \E t \in {"migrasi", "benih", "layani"}, g \in Rilis : db'[x] = [tahap |-> t, head |-> g]
  BY DEF IndInv, BootSah
<1>14. \A x, c \in Rak("boot") : db'[c] # Tiada /\ x[2] < c[2] => db'[x] # Tiada
  BY <1>1, <1>5, <1>6 DEF IndInv, BootSah
<1>15. Rak("skema")' # {} => Baris("boot")' # {}
  BY <1>9
<1>. QED  BY <1>8, <1>9, <1>10, <1>12, <1>13, <1>14, <1>15 DEF BootSah

LEMMA MulaiMenjaga ==
  ASSUME IndInv, Mulai
  PROVE  IndInv' /\ Tahap' = "migrasi"
<1>1. PICK o \in IF Melayani THEN BarisBaru("boot") ELSE {StartTerakhir},
           h \in IF Melayani THEN {HeadKode, HeadKode + 1} \cap Rilis ELSE {HeadKode} :
        db' = [x \in Obyek |-> CASE x = o -> [tahap |-> "migrasi", head |-> h]
                                 [] x \in Baris("pulih") -> Bekas
                                 [] OTHER -> db[x]]
  BY DEF Mulai
<1>2. Baris("boot") # {} /\ rencana' = [p \in Proses |-> Tiada] /\ UNCHANGED <<muat, riwayat, tumpang>>
  BY DEF Mulai
<1>3. o \in Rak("boot") /\ h \in Rilis
  BY <1>2, KepalaRilis, Tempatan
<1>4. \A t : \A x \in Rak(t) : x \in Obyek /\ x[1] = t /\ (x \in Baris("pulih") => t = "pulih")
  BY LetakObyek, Letak, Tempatan DEF IndInv
<1>5. Diam
  BY <1>1, <1>2 DEF Diam, Obyek
<1>6. \A t : \A x \in Rak(t) : t \notin {"boot", "pulih"} => db'[x] = db[x]
  BY <1>1, <1>3, <1>4
<1>7. \A x \in Rak("boot") : db'[x] = IF x = o THEN [tahap |-> "migrasi", head |-> h] ELSE db[x]
  BY <1>1, <1>4
<1>8. LuarSaja
  BY <1>2, <1>6, LetakObyek DEF LuarSaja, IndInv, Luar
<1>9. AkunTetap
  BY <1>6 DEF AkunTetap, Akun, Nyata
<1>10. BootSah' /\ Tahap' = "migrasi"
  <2>1. CASE Melayani
    BY <1>1, <1>2, <1>3, <1>7, <2>1, BootBaru
  <2>2. CASE ~Melayani
    <3>1. \A x \in Rak("boot") : db'[x] =
            IF x = StartTerakhir THEN [tahap |-> "migrasi", head |-> HeadKode] ELSE db[x]
      BY <1>1, <1>7, <2>2
    <3>. PICK t : t = "migrasi"
      OBVIOUS
    <3>2. BootSah' /\ Tahap' = t
      BY <1>2, <3>1, BootMaju, BootMajuSah
    <3>. QED  BY <3>2
  <2>. QED  BY <2>1, <2>2
<1>11. SkemaTerjaga'
  BY <1>10 DEF SkemaTerjaga, Melayani
<1>12. DOMAIN rencana' = Proses /\ (\A p \in Proses : RencanaSah(p))'
  BY <1>2 DEF RencanaSah
<1>. QED  BY <1>2, <1>5, <1>6, <1>8, <1>9, <1>10, <1>11, <1>12, LuarSah DEF IndInv

-------------------------------------------------------------------------------
(* The start, and the invariant.                                             *)

LEMMA BarisnyaAwal ==
  ASSUME NEW o
  PROVE  /\ o[1] = "partisipan" => "subjek" \in DOMAIN BarisAwal(o) /\ BarisAwal(o).subjek = Kosong
         /\ o[1] = "sme_panel" => "koordinator" \in DOMAIN BarisAwal(o) /\ BarisAwal(o).koordinator = Kosong
         /\ o[1] = "boot" => BarisAwal(o) = [tahap |-> "layani", head |-> 0]
         /\ o[1] = "skema" => BarisAwal(o) = [revisi |-> 0]
<1>1. o[1] = "partisipan" => BarisAwal(o) = [subjek |-> Kosong, email |-> Kosong, isi |-> Teks0]
  BY DEF BarisAwal, TabelButir
<1>2. o[1] = "sme_panel" => BarisAwal(o) = [jabatan |-> UrutKunci[o[2]], koordinator |-> Kosong, isi |-> Teks0]
  BY DEF BarisAwal, TabelButir
<1>3. o[1] = "boot" => BarisAwal(o) = [tahap |-> "layani", head |-> 0]
  BY DEF BarisAwal, TabelButir
<1>4. o[1] = "skema" => BarisAwal(o) = [revisi |-> 0]
  BY DEF BarisAwal, TabelButir
<1>. QED  BY <1>1, <1>2, <1>3, <1>4

LEMMA Mulanya ==
  ASSUME Init
  PROVE  /\ muat \in Muatan /\ Obyek = UNION {Rak(t) : t \in DOMAIN muat.tabel}
         /\ \A t : \A o \in Rak(t) :
              db[o] = IF o[2] <= muat.tabel[t][1] THEN BarisAwal(o) ELSE Tiada
         /\ \A t : t \notin TabelAwal => \A o \in Rak(t) : db[o] = Tiada
         /\ \A t \in DOMAIN muat.tabel : muat.tabel[t][1] \in Nat /\ muat.tabel[t][2] \in Nat
              /\ muat.tabel[t][1] <= muat.tabel[t][2]
<1>1. muat \in Muatan /\ Obyek = UNION {Rak(t) : t \in DOMAIN muat.tabel}
  BY DEF Init, Obyek
<1>2. \A t \in DOMAIN muat.tabel : muat.tabel[t][1] \in Nat /\ muat.tabel[t][2] \in Nat
        /\ muat.tabel[t][1] <= muat.tabel[t][2]
  BY <1>1, PermintaanAssumption
<1>3. \A t : \A o \in Rak(t) : db[o] = IF o[2] <= muat.tabel[t][1] THEN BarisAwal(o) ELSE Tiada
  BY <1>1, LetakObyek, Letak DEF Init, Obyek
<1>4. \A t : t \notin TabelAwal => \A o \in Rak(t) : db[o] = Tiada
  BY <1>1, <1>2, <1>3, Letak, BasisDataAssumption
<1>. QED  BY <1>1, <1>2, <1>3, <1>4

\* Its rows have the columns that refer.
LEMMA BerawalBentuk ==
  ASSUME Init, NEW t \in TabelBerbentuk, NEW o \in Isi(db, t)
  PROVE  Bentuk(o, db[o])
<1>1. t \in DOMAIN muat.tabel /\ o = <<t, o[2]>> /\ o[2] \in 1..muat.tabel[t][2] /\ o[1] = t
  BY Letak DEF Isi
<1>2. o[2] <= muat.tabel[t][1] /\ db[o] = BarisAwal(o)
  BY Mulanya DEF Isi, Nyata
<1>3. muat \in Muatan /\ muat.tabel[t][1] \in Nat /\ muat.tabel[t][1] > 0
  BY <1>1, <1>2, Mulanya
<1>4. /\ t = "proses" => <<"masalah", 1>> \in Rak("masalah")
      /\ t = "langkah" => <<"proses", 1>> \in Rak("proses")
      /\ t = "dt" => <<"tp", 1>> \in Rak("tp")
  <2>1. ASSUME NEW c, c \in DOMAIN muat.tabel, muat.tabel[c][1] > 0 PROVE <<c, 1>> \in Rak(c)
    BY <2>1, Mulanya DEF Rak
  <2>. QED  BY <1>1, <1>3, <2>1, BasisDataAssumption
<1>5. t \in {"tp", "dt"} => UrutKunci[o[2]] \in Kunci
  BY <1>1, <1>2, <1>3, Mulanya, KunciCukup
<1>6. CASE t = "tp"
  <2>1. BarisAwal(o) = [nama |-> UrutKunci[o[2]], jabatan |-> {<<"jabatan", 1>>}]
    BY <1>1, <1>6 DEF BarisAwal, TabelButir
  <2>. QED  BY <1>1, <1>2, <1>5, <1>6, <2>1 DEF Bentuk, BentukTp, NamaKatalog
<1>7. CASE t = "dt"
  <2>1. BarisAwal(o) = [nama |-> UrutKunci[o[2]], tp |-> <<"tp", 1>>, jabatan |-> {<<"jabatan", 1>>}]
    BY <1>1, <1>7 DEF BarisAwal, TabelButir
  <2>. QED  BY <1>1, <1>2, <1>4, <1>5, <1>7, <2>1 DEF Bentuk, BentukDt, NamaKatalog
<1>8. CASE t = "ut"
  <2>1. BarisAwal(o) = [kode |-> UrutKunci[o[2]], jabatan |-> <<"jabatan", 1>>, dt |-> Kosong, tp |-> <<"tp", 1>>]
    BY <1>1, <1>8 DEF BarisAwal, TabelButir
  <2>. QED  BY <1>1, <1>2, <1>8, <2>1 DEF Bentuk, AtauKosong
<1>9. CASE t = "proses"
  <2>1. BarisAwal(o) = [masalah |-> <<"masalah", 1>>, sekolah |-> <<"sekolah", 1>>]
    BY <1>1, <1>9 DEF BarisAwal, TabelButir
  <2>. QED  BY <1>1, <1>2, <1>4, <1>9, <2>1 DEF Bentuk
<1>10. CASE t = "langkah"
  <2>1. BarisAwal(o) = [proses |-> <<"proses", 1>>, isi |-> Teks0]
    BY <1>1, <1>10 DEF BarisAwal, TabelButir
  <2>. QED  BY <1>1, <1>2, <1>4, <1>10, <2>1 DEF Bentuk
<1>. QED  BY <1>6, <1>7, <1>8, <1>9, <1>10 DEF TabelBerbentuk

LEMMA BerawalKeadaan ==
  ASSUME Init
  PROVE  KeadaanSah(db, riwayat, tumpang)
<1>1. \A t : t \notin TabelAwal => \A o \in Rak(t) : ~Nyata(db[o])
  BY Mulanya DEF Nyata
<1>2. \A t : \A o \in Isi(db, t) : o[1] = t /\ db[o] = BarisAwal(o)
  BY Mulanya, Letak DEF Isi, Nyata
<1>3. RiwayatSah(db, riwayat, tumpang)
  BY DEF Init, RiwayatSah, Sama, TanpaRiwayat, Obyek
<1>4. KolomAda(db)
  <2>1. Isi(db, "penilaian") = {}
    BY <1>1 DEF Isi, TabelAwal
  <2>2. \A o \in Rak("skema") : \E h \in Rilis : db[o] = [revisi |-> h]
    <3>1. \A o \in Rak("skema") : o[2] <= muat.tabel["skema"][1] /\ o[1] = "skema"
      BY Mulanya, Letak, BasisDataAssumption
    <3>. QED  BY <3>1, Mulanya, BarisnyaAwal, PemeliharaanAssumption
  <2>3. \A o \in Isi(db, "partisipan") : "subjek" \in DOMAIN db[o]
    BY <1>2, BarisnyaAwal
  <2>4. \A o \in Isi(db, "sme_panel") : "koordinator" \in DOMAIN db[o]
    BY <1>2, BarisnyaAwal
  <2>. QED  BY <2>1, <2>2, <2>3, <2>4, BerawalBentuk DEF KolomAda
<1>5. \A o \in Obyek \ tumpang : Nyata(db[o]) => AturanBaris(o, db[o])
  BY <1>1, Mulanya, LetakObyek DEF AturanBaris, TabelAwal
<1>6. KoordinatorSah(db, tumpang)
  <2>1. \A o \in Isi(db, "sme_panel") : db[o].koordinator = Kosong
    BY <1>2, BarisnyaAwal
  <2>. QED  BY <2>1 DEF KoordinatorSah
<1>7. SubjekSah(db)
  <2>1. \A o \in Isi(db, "partisipan") : db[o].subjek = Kosong
    BY <1>2, BarisnyaAwal
  <2>. QED  BY <2>1 DEF SubjekSah
<1>. QED  BY <1>3, <1>4, <1>5, <1>6, <1>7 DEF KeadaanSah

LEMMA BerawalBoot ==
  ASSUME Init
  PROVE  BootSah /\ SkemaTerjaga
<1>. DEFINE m == [tahap |-> "layani", head |-> 0]
<1>1. Nyata(m) /\ 0 \in Rilis
  BY TandaBukanBaris, PemeliharaanAssumption DEF Nyata
<1>2. \A o \in Rak("boot") : db[o] = IF o[2] <= muat.tabel["boot"][1] THEN m ELSE Tiada
  BY Mulanya, BarisnyaAwal, Letak
<1>3. \A o \in Baris("boot") : db[o] = m /\ o \in Rak("boot")
  BY <1>1, <1>2, Tempatan
<1>4. \A o \in Rak("boot") : db[o] = Tiada \/
        \E t \in {"migrasi", "benih", "layani"}, h \in Rilis : db[o] = [tahap |-> t, head |-> h]
  BY <1>1, <1>2
<1>5. \A o, c \in Rak("boot") : db[c] # Tiada /\ o[2] < c[2] => db[o] # Tiada
  BY <1>1, <1>2, Mulanya, Letak DEF Nyata
<1>6. ASSUME "boot" \in DOMAIN muat.tabel, muat.tabel["boot"][1] > 0
      PROVE  \E o \in Baris("boot") : \A c \in Baris("boot") : c[2] <= o[2]
  <2>. DEFINE k == muat.tabel["boot"][1]
  <2>1. k \in Nat /\ muat.tabel["boot"][2] \in Nat /\ k <= muat.tabel["boot"][2] /\ k > 0
    BY <1>6, Mulanya
  <2>2. <<"boot", k>> \in Rak("boot") /\ <<"boot", k>>[2] = k
    BY <1>6, <2>1 DEF Rak
  <2>3. <<"boot", k>> \in Baris("boot")
    BY <1>1, <1>2, <2>1, <2>2 DEF Baris, Isi
  <2>4. \A c \in Baris("boot") : c[2] <= k
    BY <1>2, Tempatan
  <2>. QED  BY <2>2, <2>3, <2>4
<1>7. Baris("boot") # {} => \E o \in Baris("boot") : \A c \in Baris("boot") : c[2] <= o[2]
  <2>1. ASSUME NEW o \in Baris("boot") PROVE "boot" \in DOMAIN muat.tabel /\ muat.tabel["boot"][1] > 0
    <3>1. "boot" \in DOMAIN muat.tabel /\ o[2] \in 1..muat.tabel["boot"][2] /\ o[2] <= muat.tabel["boot"][1]
      BY <1>2, Tempatan, Letak
    <3>. QED  BY <3>1, Mulanya
  <2>. QED  BY <1>6, <2>1
<1>8. Rak("skema") # {} => Baris("boot") # {}
  BY <1>6, Mulanya, Letak, BasisDataAssumption
<1>9. Baris("boot") # {} => StartTerakhir \in Baris("boot")
  BY <1>7, Zenon DEF StartTerakhir
<1>10. Tahap = "layani" /\ (Baris("boot") # {} => HeadKode = 0)
  BY <1>3, <1>9 DEF Tahap, HeadKode
<1>11. BootSah
  BY <1>4, <1>5, <1>7, <1>8, <1>10 DEF BootSah
<1>12. Baris("skema") # {} => Revisi = 0
  <2>1. \A o \in Baris("skema") : db[o] = [revisi |-> 0]
    BY Mulanya, BarisnyaAwal, Tempatan, Letak
  <2>2. Baris("skema") # {} => (CHOOSE o \in Baris("skema") : TRUE) \in Baris("skema")
    BY Zenon
  <2>. QED  BY <2>1, <2>2 DEF Revisi
<1>. QED  BY <1>8, <1>10, <1>11, <1>12, Tempatan DEF SkemaTerjaga

LEMMA Berawal == ASSUME Init PROVE IndInv
<1>1. Baris("cadangan") = {}
  BY Mulanya DEF Baris, Isi, Nyata, TabelAwal
<1>2. DOMAIN rencana = Proses /\ \A p \in Proses : RencanaSah(p)
  BY DEF Init, RencanaSah
<1>. QED  BY <1>1, <1>2, Mulanya, BerawalKeadaan, BerawalBoot DEF IndInv

\* A request plans, but for those that write at once.
LEMMA LayananRencana ==
  ASSUME IndInv, NEW p, Layanan(p)
  PROVE  Terencana(p) \/ BuatPartisipan(p) \/ BacaHalaman(p) \/ Backup(p) \/ Pulihkan(p)
BY RencanaRedesain, RencanaInduk, RencanaKatalog, RencanaSitasi, RencanaSetelan, RencanaBacaan, RencanaButir
   DEF Layanan, PermintaanPemeliharaan

LEMMA Terjaga == ASSUME IndInv, [Next]_vars PROVE IndInv'
<1>1. ASSUME NEW p \in Proses, Melayani, Layanan(p) PROVE IndInv'
  BY <1>1, LayananRencana, LangkahRencana, DaftarMenjaga, HalamanMenjaga, BackupMenjaga, PulihMenjaga
<1>2. ASSUME NEW p \in Proses, Perawatan(p) PROVE IndInv'
  BY <1>2, UpgradeMenjaga, BenihMenjaga, HasilMenjaga DEF Perawatan
<1>3. ASSUME UNCHANGED vars PROVE IndInv'
  <2>1. UNCHANGED <<muat, db, riwayat, tumpang, rencana>>
    BY <1>3 DEF vars
  <2>2. AkunTetap /\ \A q \in Proses : rencana'[q] = rencana[q]
    BY <2>1 DEF AkunTetap, Nyata
  <2>3. ASSUME NEW q \in Proses PROVE RencanaSah(q)'
    <3>1. CASE rencana[q] = Tiada
      BY <2>2, <3>1 DEF RencanaSah
    <3>2. CASE rencana[q] # Tiada /\ Melayani
      BY <2>1, <2>2, <3>2, KeadaanDiam, RencanaDiam
    <3>3. CASE rencana[q] # Tiada /\ ~Melayani
      <4>. PICK r : r = rencana[q]
        OBVIOUS
      <4>1. RencanaUpgrade(q, r) \/ RencanaBenih(q, r)
        BY <3>3 DEF IndInv, RencanaSah, RencanaBiasa, RencanaPulih
      <4>2. /\ Baris("boot")' = Baris("boot") /\ Tahap' = Tahap /\ HeadKode' = HeadKode
            /\ StartTerakhir' = StartTerakhir
        BY <2>1, TahapTetap
      <4>3. \A t : RencanaMulai(q, r, t) => RencanaMulai(q, r, t)'
        BY <2>1, <4>2 DEF RencanaMulai
      <4>6. RencanaBaris(r) => RencanaBaris(r)'
        BY <2>1, BentukSama DEF RencanaBaris, Jadi
      <4>7. RencanaRujukan(r) => RencanaRujukan(r)'
        BY <2>1, RujukanTetap
      <4>4. RencanaUpgrade(q, r)' \/ RencanaBenih(q, r)'
        BY <2>1, <4>1, <4>2, <4>3, <4>6, <4>7, BarisBenihTetap DEF RencanaUpgrade, RencanaBenih, Rak
      <4>5. RencanaUpgrade(q, rencana[q])' \/ RencanaBenih(q, rencana[q])'
        BY <2>1, <4>4
      <4>. QED  BY <4>5 DEF RencanaSah
    <3>. QED  BY <3>1, <3>2, <3>3
  <2>. QED  BY <2>1, <2>3, KeadaanDiam DEF IndInv
<1>. QED  BY <1>1, <1>2, <1>3, MulaiMenjaga, SimpanMenjaga, GagalMenjaga DEF Next

\* IndInv holds always: of the rows, of what the dumps would restore, of the
\* starts, and of what each request plans while others commit.
THEOREM Induktif == Spec => []IndInv
<1>1. Init => IndInv
  BY Berawal
<1>2. IndInv /\ [Next]_vars => IndInv'
  BY Terjaga
<1>. QED  BY <1>1, <1>2, PTL DEF Spec

\* riwayat_sql.catat: the history of a row of the study joins up from its
\* creation to the row as it is, whatever was restored, started or seeded
\* meanwhile, unless requests overlapped on what they read.
THEOREM RiwayatSelaluLengkap == Spec => []RiwayatLengkap
<1>1. IndInv => RiwayatLengkap
  BY DEF IndInv, KeadaanSah, RiwayatSah, RiwayatLengkap, Nyata
<1>. QED  BY <1>1, Induktif, PTL

\* _validasi_uji: an alternative that moves work names who receives it, and an
\* approved trial its decision, after any PATCHes of some of the columns.
THEOREM UjiSelaluBerdasar == Spec => []UjiBerdasar
<1>1. IndInv => UjiBerdasar
  BY Tempatan, LetakObyek, Letak DEF IndInv, KeadaanSah, AturanBaris, UjiBerdasar
<1>. QED  BY <1>1, Induktif, PTL

\* penilaian_sql: the suggestion of an assessment is that of its criteria, and
\* the decision is there whole or not at all.
THEOREM PenilaianSelaluUtuh == Spec => []PenilaianUtuh
<1>1. IndInv => PenilaianUtuh
  BY Tempatan, LetakObyek, Letak DEF IndInv, KeadaanSah, AturanBaris, PenilaianUtuh
<1>. QED  BY <1>1, Induktif, PTL

\* partisipan_sql: no two participants have one subject of the identity
\* provider, whatever overlaps, fails, is deleted or restored.
THEOREM SubjekSelaluSatu == Spec => []SubjekSatu
<1>1. IndInv => SubjekSatu
  BY DEF IndInv, KeadaanSah, SubjekSah, SubjekSatu, Baris
<1>. QED  BY <1>1, Induktif, PTL

\* sme_panel: the coordinator of a panel has a seat in it, unless the requests
\* that appoint and remove overlapped.
THEOREM KoordinatorSelaluAnggota == Spec => []KoordinatorAnggota
<1>1. IndInv => KoordinatorAnggota
  BY DEF IndInv, KeadaanSah, KoordinatorSah, Berkursi, KoordinatorAnggota, BarisAnggota, Anggota, Baris
<1>. QED  BY <1>1, Induktif, PTL

\* All the rules about one row of the registers, as the run checks them.
THEOREM BarisSelaluSah == Spec => []BarisSah
<1>1. IndInv => MenitWajar
  BY Tempatan, LetakObyek, Letak DEF IndInv, KeadaanSah, AturanBaris, MenitWajar
<1>. QED  BY <1>1, Induktif, UjiSelaluBerdasar, PenilaianSelaluUtuh, SubjekSelaluSatu,
   KoordinatorSelaluAnggota, PTL DEF BarisSah

\* RestoreResult.peringatan: when the schema that is served is not that of the
\* code, some restore has said so or has not answered yet.
THEOREM SkemaSelaluTerjaga == Spec => []SkemaTerjaga
<1>1. IndInv => SkemaTerjaga
  BY DEF IndInv
<1>. QED  BY <1>1, Induktif, PTL

\* What a write with a tag wrote was the row of the tag.
LEMMA TulisSesuaiTanda ==
  ASSUME IndInv, [Next]_vars, NEW p \in Proses, rencana[p] # Tiada, rencana'[p] = Tiada,
         NEW s \in rencana[p].syarat, NEW o \in Obyek \ tumpang', db[s].obyek = o,
         o \in DOMAIN rencana[p].isi, db'[o] # db[o]
  PROVE  db[o] = db[s].wujud
<1>. PICK r : r = rencana[p]
  OBVIOUS
<1>1. RencanaBiasa(p, r)
  BY DEF IndInv, RencanaSah, RencanaPulih, RencanaUpgrade, RencanaBenih, RencanaMulai
<1>2. o[1] \notin TabelPlatform /\ \A x \in DOMAIN r.isi : x[1] # "pulih"
  BY <1>1 DEF RencanaBiasa, TabelPlatform
<1>3. ASSUME \A c \in DOMAIN r.lihat : r.lihat[c] = db[c] PROVE db[o] = db[s].wujud
  BY <1>1, <1>3 DEF RencanaBiasa, RencanaUtuh
<1>4. ASSUME NEW q \in Proses, Simpan(q) PROVE db[o] = db[s].wujud
  <2>1. q = p
    BY <1>4 DEF Simpan, Tulis, IndInv
  <2>2. Tulis(p, Ikut(Lepas(Gabungan(p, Relasi), SetNull), KursiPanel), TabelRedesain)
    BY <1>4, <2>1 DEF Simpan
  <2>3. ~Basi(p)
    BY <2>2 DEF Tulis
  <2>. QED  BY <1>3, <2>3 DEF Basi
<1>5. ASSUME NEW q \in Proses, BacaHalaman(q) PROVE db[o] = db[s].wujud
  <2>1. q = p
    BY <1>5 DEF BacaHalaman, IndInv
  <2>2. ~Basi(p)
    BY <1>5, <2>1 DEF BacaHalaman, Obyek
  <2>. QED  BY <1>3, <2>2 DEF Basi
<1>6. ~Mulai
  <2>1. \A x \in BarisBaru("boot") \cup Baris("pulih") : x[1] \in {"boot", "pulih"}
    BY Tempatan, Letak
  <2>2. Baris("boot") # {} => StartTerakhir[1] = "boot"
    BY KepalaRilis, Letak
  <2>. QED  BY <1>2, <2>1, <2>2 DEF Mulai, TabelPlatform
<1>7. ASSUME NEW q \in Proses, Luang(q), \A x \in Proses \ {q} : rencana'[x] = rencana[x]
      PROVE  FALSE
  BY <1>7 DEF Luang
<1>8. ASSUME NEW q \in Proses, Layanan(q) PROVE db[o] = db[s].wujud
  <2>1. CASE Terencana(q)
    BY <2>1 DEF Terencana, RencanakanBila
  <2>2. CASE BuatPartisipan(q)
    BY <1>7, <2>2 DEF BuatPartisipan, PartisipanBaru, IndInv
  <2>3. CASE Backup(q)
    BY <1>7, <2>3 DEF Backup
  <2>4. CASE Pulihkan(q)
    BY <1>7, <2>4 DEF Pulihkan, IndInv
  <2>. QED  BY <1>5, <1>8, <2>1, <2>2, <2>3, <2>4, LayananRencana
<1>9. ASSUME NEW q \in Proses, Perawatan(q) PROVE FALSE
  <2>1. ~Upgrade(q) /\ ~SeedAll(q)
    BY DEF Upgrade, SeedAll, Sendiri
  <2>2. ~HasilPulih(q)
    BY <1>2 DEF HasilPulih, Menjawab, IndInv
  <2>. QED  BY <1>9, <2>1, <2>2 DEF Perawatan
<1>10. ASSUME NEW q \in Proses, Gagal(q) PROVE FALSE
  BY <1>10 DEF Gagal
<1>. QED  BY <1>4, <1>6, <1>8, <1>9, <1>10 DEF Next, vars

\* check_if_match: the row a PATCH with a tag leaves is a change of the one its
\* client had seen, unless somebody committed between its check and its commit.
THEOREM TulisanSelaluBersyarat == Spec => TulisanBersyarat
<1>1. IndInv /\ [Next]_vars =>
        [\A p \in Proses : rencana[p] # Tiada /\ rencana'[p] = Tiada =>
           \A s \in rencana[p].syarat : \A o \in Obyek \ tumpang' :
             db[s].obyek = o /\ o \in DOMAIN rencana[p].isi /\ db'[o] # db[o] => db[o] = db[s].wujud]_vars
  BY TulisSesuaiTanda
<1>. QED  BY <1>1, Induktif, PTL DEF Spec, TulisanBersyarat

-------------------------------------------------------------------------------
(* What a commit writes of rows that refer, and what a start leaves.         *)

\* A plan that deletes no school and no panel sets nothing off.
LEMMA TanpaHapus ==
  ASSUME IndInv, NEW r, NEW B, Jadinya(r, B),
         \A c \in DOMAIN r.isi : c[1] \notin {"sekolah", "sme_panel"}
  PROVE  \A o, x : Menjadi(B, o, x) => B[o] = x
<1>1. ASSUME NEW t \in {"sekolah", "sme_panel"}, NEW c \in Baris(t) PROVE B[c] # Bekas
  <2>1. c \in Obyek /\ c[1] = t /\ Nyata(db[c])
    BY Tempatan, LetakObyek, Letak DEF IndInv
  <2>2. B[c] = db[c]
    BY <2>1, BarisnyaTetap DEF Langsung
  <2>. QED  BY <2>1, <2>2 DEF Nyata
<1>. QED  BY <1>1 DEF Menjadi, DiKosongkan, Terhapus

\* When nothing it read has changed, the rows are as it made them.
LEMMA SesudahSegar ==
  ASSUME IndInv, NEW r, NEW B, Jadinya(r, B), DOMAIN r.isi \subseteq DOMAIN r.lihat,
         \A c \in DOMAIN r.lihat : r.lihat[c] = db[c],
         \A c \in DOMAIN r.isi : c[1] \notin {"sekolah", "sme_panel"}
  PROVE  \A c \in DOMAIN r.lihat \cap Obyek : Sesudah(r)[c] = B[c]
<1>. SUFFICES ASSUME NEW c \in DOMAIN r.lihat \cap Obyek PROVE Sesudah(r)[c] = B[c]
  OBVIOUS
<1>1. \A x : Menjadi(B, c, x) => B[c] = x
  BY TanpaHapus
<1>2. CASE c \notin DOMAIN r.isi
  BY <1>1, <1>2 DEF Jadinya, Sesudah
<1>3. CASE c \in DOMAIN r.isi /\ r.lihat[c] = Tiada
  BY <1>1, <1>3 DEF Jadinya, Sesudah, Jadi
<1>4. CASE c \in DOMAIN r.isi /\ r.lihat[c] # Tiada /\ r.isi[c] = Bekas
  BY <1>4 DEF Jadinya, Sesudah
<1>5. CASE c \in DOMAIN r.isi /\ r.lihat[c] # Tiada /\ r.isi[c] # Bekas
  <2>1. PICK u :
          /\ DOMAIN u = DOMAIN r.isi[c]
          /\ \A k \in DOMAIN u : <<c[1], k>> \notin Relasi => u[k] = r.isi[c][k]
          /\ \A k \in DOMAIN u : <<c[1], k>> \in Relasi => u[k] = Tautan(c, r.lihat[c], r.isi[c], k)
          /\ Menjadi(B, c, Timpa(db[c], u))
    BY <1>5 DEF Jadinya
  <2>2. \A k \in DOMAIN u : u[k] = r.isi[c][k]
    <3>1. \A k : Tautan(c, db[c], r.isi[c], k) = r.isi[c][k]
      BY DEF Tautan
    <3>. QED  BY <2>1, <3>1
  <2>3. Timpa(db[c], u) = Timpa(db[c], r.isi[c])
    BY <2>1, <2>2 DEF Timpa
  <2>. QED  BY <1>1, <1>5, <2>1, <2>3 DEF Sesudah, Jadi
<1>. QED  BY <1>2, <1>3, <1>4, <1>5

\* Rows that agree with those before agree with the rows that are there.
Sejalan(B, o, w) ==
  /\ o[1] = "proses" => RujukanProses(B, w)
  /\ o[1] = "koreksi" /\ w.konfirmasi # Kosong => DalamKonfirmasi(B, w.langkah, w.konfirmasi)
  /\ o[1] = "dt" => JabatanSubset(B, w)
  /\ o[1] = "ut" => JabatanDiDt(B, w)

LEMMA RujukanJadi ==
  ASSUME IndInv, NEW o, NEW w, Bentuk(o, w), NEW b, RujukanSah(b, o, w),
         NEW B, \A c \in DOMAIN b \cap Obyek : b[c] = B[c]
  PROVE  Sejalan(B, o, w)
<1>1. \A t : \A c \in Rak(t) : c \in DOMAIN b => b[c] = B[c]
  BY LetakObyek DEF IndInv
<1>2. o[1] = "proses" => RujukanProses(B, w)
  BY <1>1 DEF RujukanSah, RujukanProses, Bentuk
<1>3. o[1] = "koreksi" /\ w.konfirmasi # Kosong => DalamKonfirmasi(B, w.langkah, w.konfirmasi)
  BY <1>1 DEF RujukanSah, DalamKonfirmasi, MasalahLangkah
<1>4. o[1] = "dt" => JabatanSubset(B, w)
  BY <1>1 DEF RujukanSah, JabatanSubset, Bentuk, Nyata
<1>5. o[1] = "ut" => JabatanDiDt(B, w)
  BY <1>1 DEF RujukanSah, JabatanDiDt, Bentuk, AtauKosong, Nyata
<1>. QED  BY <1>2, <1>3, <1>4, <1>5 DEF Sejalan

\* A row is written by a commit.
LEMMA DitulisSimpan ==
  ASSUME IndInv, [Next]_vars, NEW o \in Obyek, Ditulis(o), db'[o] # db[o],
         o[1] \notin {"boot", "pulih", "halaman"}
  PROVE  \E p \in Proses : Simpan(p) /\ o \in DOMAIN rencana[p].isi
<1>1. PICK p \in Proses : rencana[p] # Tiada /\ rencana'[p] = Tiada /\ o \in DOMAIN rencana[p].isi
  BY DEF Ditulis
<1>2. ASSUME NEW q \in Proses, Simpan(q) PROVE q = p
  BY <1>1, <1>2 DEF Simpan, Tulis, IndInv
<1>3. ~Mulai
  <2>1. \A x \in BarisBaru("boot") \cup Baris("pulih") : x[1] \in {"boot", "pulih"}
    BY Tempatan, Letak
  <2>2. Baris("boot") # {} => StartTerakhir[1] = "boot"
    BY KepalaRilis, Letak
  <2>. QED  BY <2>1, <2>2 DEF Mulai
<1>4. ASSUME NEW q \in Proses, Luang(q), \A x \in Proses \ {q} : rencana'[x] = rencana[x]
      PROVE  FALSE
  BY <1>1, <1>4 DEF Luang
<1>5. ASSUME NEW q \in Proses, BacaHalaman(q), Melayani PROVE FALSE
  <2>1. q = p
    BY <1>1, <1>5 DEF BacaHalaman, IndInv
  <2>2. PICK c, isi : c \in DOMAIN rencana[p].isi /\ db' = [db EXCEPT ![c] = isi]
          /\ \E h \in DOMAIN rencana[p].isi : h[1] = "halaman"
    BY <1>5, <2>1 DEF BacaHalaman, Setengah
  <2>3. RencanaBiasa(p, rencana[p])
    BY <1>1, <1>5, <2>2, RencanaDilayani, Letak DEF RencanaPulih
  <2>4. o[1] = "halaman"
    BY <1>1, <2>2, <2>3 DEF RencanaBiasa
  <2>. QED  BY <2>4
<1>6. ASSUME NEW q \in Proses, Layanan(q), Melayani PROVE FALSE
  <2>1. CASE Terencana(q)
    BY <2>1 DEF Terencana, RencanakanBila
  <2>2. CASE BuatPartisipan(q)
    BY <1>4, <2>2 DEF BuatPartisipan, PartisipanBaru, IndInv
  <2>3. CASE Backup(q)
    BY <1>4, <2>3 DEF Backup
  <2>4. CASE Pulihkan(q)
    BY <1>4, <2>4 DEF Pulihkan, IndInv
  <2>. QED  BY <1>5, <1>6, <2>1, <2>2, <2>3, <2>4, LayananRencana
<1>7. ASSUME NEW q \in Proses, Perawatan(q) PROVE FALSE
  <2>1. ~Upgrade(q) /\ ~SeedAll(q)
    BY <1>1 DEF Upgrade, SeedAll, Sendiri
  <2>2. CASE HasilPulih(q)
    BY <2>2, HasilMenjaga, LetakObyek, Letak DEF IndInv
  <2>. QED  BY <1>7, <2>1, <2>2 DEF Perawatan
<1>8. ASSUME NEW q \in Proses, Gagal(q) PROVE FALSE
  BY <1>8 DEF Gagal
<1>9. PICK q \in Proses : Simpan(q)
  BY <1>3, <1>6, <1>7, <1>8 DEF Next, vars
<1>. QED  BY <1>1, <1>2, <1>9

\* What it writes, when nothing it read has changed, agrees.
LEMMA SimpanSejalan ==
  ASSUME IndInv, NEW p \in Proses, Simpan(p), NEW o \in Obyek \ tumpang', o \in DOMAIN rencana[p].isi,
         o[1] \in TabelMerujuk, Nyata(db'[o]),
         /\ o[1] = "dt" /\ Nyata(db[o]) => \E k \in {"tp", "jabatan"} : db'[o][k] # db[o][k]
         /\ o[1] = "ut" /\ Nyata(db[o]) => \E k \in {"dt", "jabatan"} : db'[o][k] # db[o][k]
  PROVE  Sejalan(db', o, db'[o])
<1>. PICK r, B, H, T : r = rencana[p] /\ B = db' /\ H = riwayat' /\ T = tumpang'
  OBVIOUS
<1>1. Umum(p, r) /\ Jadinya(r, B) /\ Segar(r, T)
  BY SimpanDasar
<1>2. DOMAIN r.isi \subseteq DOMAIN r.lihat /\ \A c \in DOMAIN r.lihat : r.lihat[c] = db[c]
  BY <1>1 DEF Segar, Umum
<1>3. \A c \in DOMAIN r.isi : c[1] \notin {"sekolah", "sme_panel"}
  BY <1>1 DEF Umum, RencanaRujukan, TabelMerujuk
<1>4. Langsung(o) /\ r.lihat[o] = db[o]
  BY <1>2 DEF Langsung, TabelMerujuk
<1>5. r.isi[o] # Bekas
  BY <1>1, <1>4, BarisnyaTetap DEF Nyata
<1>6. B[o] = Jadi(r, o)
  BY <1>1, <1>4, <1>5, JadiSegar
<1>7. Menyentuh(r, o)
  <2>1. CASE r.lihat[o] = Tiada
    BY <2>1 DEF Menyentuh
  <2>2. CASE r.lihat[o] # Tiada
    <3>1. Nyata(db[o]) /\ B[o] = Timpa(db[o], r.isi[o])
      BY <1>1, <1>4, <1>5, <2>2, BarisnyaTetap
    <3>2. o[1] \in {"dt", "ut"} => Bentuk(o, db[o])
      <4>1. o[1] \in {"dt", "ut"} => o \in Isi(db, o[1])
        BY <3>1, LetakObyek, Letak DEF IndInv, Isi
      <4>. QED  BY <4>1 DEF IndInv, KeadaanSah, KolomAda, TabelBerbentuk
    <3>3. /\ o[1] = "dt" => {"tp", "jabatan"} \subseteq DOMAIN db[o]
          /\ o[1] = "ut" => {"dt", "jabatan"} \subseteq DOMAIN db[o]
      BY <3>2 DEF Bentuk, BentukDt
    <3>4. \A k \in DOMAIN db[o] : B[o][k] # db[o][k] => k \in DOMAIN r.isi[o]
      BY <3>1, KolomTimpa
    <3>. QED  BY <3>1, <3>3, <3>4 DEF Menyentuh
  <2>. QED  BY <2>1, <2>2
<1>8. RujukanSah(Sesudah(r), o, B[o]) /\ Bentuk(o, B[o])
  BY <1>1, <1>5, <1>6, <1>7 DEF Umum, RencanaRujukan, RencanaBaris
<1>9. \A c \in DOMAIN Sesudah(r) \cap Obyek : Sesudah(r)[c] = B[c]
  BY <1>1, <1>2, <1>3, SesudahSegar DEF Sesudah
<1>. QED  BY <1>8, <1>9, RujukanJadi

\* proses_sql, koreksi_sql, catalog_crud: a process, a correction, a detail or a
\* statement agrees, when it is written, with the rows it refers to, whatever
\* other requests did between its checks and its commit, unless they changed
\* what it had read.
THEOREM RujukanSelaluSejalan == Spec => RujukanSejalan
<1>1. ASSUME IndInv, [Next]_vars, NEW o \in Obyek \ tumpang', Ditulis(o), Nyata(db'[o]), db'[o] # db[o],
             o[1] \in TabelMerujuk,
             /\ o[1] = "dt" /\ Nyata(db[o]) => \E k \in {"tp", "jabatan"} : db'[o][k] # db[o][k]
             /\ o[1] = "ut" /\ Nyata(db[o]) => \E k \in {"dt", "jabatan"} : db'[o][k] # db[o][k]
      PROVE  Sejalan(db', o, db'[o])
  BY <1>1, DitulisSimpan, SimpanSejalan DEF TabelMerujuk
<1>2. IndInv /\ [Next]_vars =>
        [\A o \in Obyek \ tumpang' : Ditulis(o) /\ Nyata(db'[o]) /\ db'[o] # db[o] =>
           /\ o[1] = "proses" => RujukanProses(db', db'[o])
           /\ o[1] = "koreksi" /\ db'[o].konfirmasi # Kosong =>
                DalamKonfirmasi(db', db'[o].langkah, db'[o].konfirmasi)]_vars
  BY <1>1 DEF Sejalan, TabelMerujuk
<1>3. IndInv /\ [Next]_vars =>
        [\A o \in Obyek \ tumpang' : Ditulis(o) /\ Nyata(db'[o]) =>
           LET baru(S) == ~Nyata(db[o]) \/ \E k \in S : db'[o][k] # db[o][k] IN
           /\ o[1] = "dt" /\ baru({"tp", "jabatan"}) => JabatanSubset(db', db'[o])
           /\ o[1] = "ut" /\ baru({"dt", "jabatan"}) => JabatanDiDt(db', db'[o])]_vars
  BY <1>1 DEF Sejalan, TabelMerujuk
<1>4. Spec => TertulisSelaras
  BY <1>2, Induktif, PTL DEF Spec, TertulisSelaras
<1>5. Spec => TurunanSejalan
  BY <1>3, Induktif, PTL DEF Spec, TurunanSejalan
<1>. QED  BY <1>4, <1>5 DEF RujukanSejalan

LEMMA JabatanDitambah ==
  ASSUME NEW o, NEW J \in SUBSET Jabatan, db[o] \in BentukTp \cup BentukDt,
         NEW v, v = Beda(o, [jabatan |-> db[o].jabatan \cup J])
  PROVE  v # Bekas /\ Timpa(db[o], v) = [db[o] EXCEPT !.jabatan = @ \cup J]
<1>. DEFINE w == Timpa(db[o], v)
<1>1. J \in SUBSET ({"jabatan"} \X Nat)
  BY Letak DEF Jabatan
<1>2. /\ v # Bekas /\ DOMAIN w = DOMAIN db[o] /\ w.jabatan = db[o].jabatan \cup J
      /\ \A k \in DOMAIN db[o] \ {"jabatan"} : w[k] = db[o][k]
  BY <1>1, Bertambah
<1>3. w = [k \in DOMAIN db[o] |-> w[k]]
  BY DEF Timpa
<1>4. db[o] = [k \in DOMAIN db[o] |-> db[o][k]]
  BY DEF BentukTp, BentukDt
<1>. HIDE DEF w
<1>5. w = [db[o] EXCEPT !.jabatan = @ \cup J]
  BY <1>2, <1>3, <1>4
<1>. QED  BY <1>2, <1>5 DEF w

\* The seeding that ends a start adds jobs to rows, and changes nothing else.
LEMMA BenihMenambah ==
  ASSUME IndInv, NEW p \in Proses, Simpan(p), RencanaBenih(p, rencana[p]), NEW o \in Dicadangkan
  PROVE  /\ Nyata(db[o]) /\ o[1] \notin {"tp", "dt"} => db'[o] = db[o]
         /\ Nyata(db[o]) /\ o[1] \in {"tp", "dt"} => \E J \in SUBSET Jabatan :
              db'[o] = [db[o] EXCEPT !.jabatan = @ \cup J]
         /\ o[1] \in TabelButir /\ Baris(o[1]) # {} => db'[o] = db[o]
<1>. PICK r, B, H, T : r = rencana[p] /\ B = db' /\ H = riwayat' /\ T = tumpang'
  OBVIOUS
<1>1. Umum(p, r) /\ Jadinya(r, B)
  BY SimpanDasar
<1>2. /\ \A c \in DOMAIN r.lihat : r.lihat[c] = db[c]
      /\ DOMAIN r.isi \subseteq DOMAIN r.lihat
      /\ \A c \in DOMAIN r.isi \ {StartTerakhir} : BarisBenih(c, r.isi[c])
      /\ StartTerakhir[1] = "boot"
  BY KepalaRilis, Letak DEF RencanaBenih, RencanaMulai
<1>3. \A c \in DOMAIN r.isi : c[1] \notin {"sekolah", "sme_panel"}
  BY <1>2 DEF BarisBenih, TabelBenih, TabelButir
<1>4. o \in Obyek /\ o[1] # "boot" /\ \A x : Menjadi(B, o, x) => B[o] = x
  BY <1>1, <1>3, TanpaHapus DEF Dicadangkan, Luar
<1>5. o[1] \in {"tp", "dt"} /\ Nyata(db[o]) => db[o] \in BentukTp \cup BentukDt
  <2>1. o[1] \in {"tp", "dt"} /\ Nyata(db[o]) => o \in Isi(db, o[1])
    BY <1>4, LetakObyek, Letak DEF IndInv, Isi
  <2>. QED  BY <2>1 DEF IndInv, KeadaanSah, KolomAda, TabelBerbentuk, Bentuk
<1>6. CASE o \notin DOMAIN r.isi
  <2>1. B[o] = db[o]
    BY <1>1, <1>4, <1>6 DEF Jadinya
  <2>2. db[o] \in BentukTp \cup BentukDt => db[o] = [db[o] EXCEPT !.jabatan = @ \cup {}]
    BY DEF BentukTp, BentukDt
  <2>. QED  BY <1>5, <2>1, <2>2
<1>7. CASE o \in DOMAIN r.isi
  <2>1. BarisBenih(o, r.isi[o]) /\ r.lihat[o] = db[o]
    BY <1>2, <1>4, <1>7
  <2>2. o[1] \in TabelButir => Baris(o[1]) = {}
    BY <2>1 DEF BarisBenih
  <2>3. ASSUME Nyata(db[o])
        PROVE  o[1] \in {"tp", "dt"} /\ \E J \in SUBSET Jabatan : db'[o] = [db[o] EXCEPT !.jabatan = @ \cup J]
    <3>1. PICK J \in SUBSET Jabatan : o[1] \in {"tp", "dt"} /\ r.isi[o] = Beda(o, [jabatan |-> db[o].jabatan \cup J])
      BY <2>1, <2>3 DEF BarisBenih
    <3>2. r.isi[o] # Bekas /\ Timpa(db[o], r.isi[o]) = [db[o] EXCEPT !.jabatan = @ \cup J]
      BY <1>5, <2>3, <3>1, JabatanDitambah
    <3>3. Langsung(o) /\ db[o] # Tiada
      BY <2>3, <3>1 DEF Langsung, Nyata
    <3>4. B[o] = Timpa(db[o], r.isi[o])
      BY <1>1, <1>4, <1>7, <2>1, <3>2, <3>3, BarisnyaTetap
    <3>. QED  BY <3>1, <3>2, <3>4
  <2>4. o[1] \in TabelButir /\ Baris(o[1]) # {} => FALSE
    BY <2>2
  <2>. QED  BY <2>3, <2>4
<1>. QED  BY <1>6, <1>7

\* A start that ends is a seeding that commits.
LEMMA MulaiSelesai ==
  ASSUME IndInv, [Next]_vars, Tahap = "benih", Tahap' = "layani"
  PROVE  \E p \in Proses : Simpan(p) /\ RencanaBenih(p, rencana[p])
<1>1. ~Melayani
  BY DEF Melayani
<1>2. ~UNCHANGED <<muat, db>>
  BY TahapTetap
<1>3. ~Mulai
  BY MulaiMenjaga
<1>4. ASSUME NEW p \in Proses PROVE ~Perawatan(p) /\ ~Gagal(p)
  <2>1. ~Upgrade(p) /\ ~Gagal(p)
    BY <1>2 DEF Upgrade, Rencanakan, RencanakanBila, Gagal
  <2>2. \A lain : ~SeedTaskinv(p, lain)
    <3>1. \A isi : ~Rencanakan(p, {}, isi)
      BY <1>2 DEF Rencanakan, RencanakanBila
    <3>. QED  BY <3>1, TulisKatalog DEF SeedTaskinv
  <2>3. ~SeedAll(p)
    BY <2>2 DEF SeedAll
  <2>4. ~HasilPulih(p)
    BY <1>1, HasilMenjaga
  <2>. QED  BY <2>1, <2>3, <2>4 DEF Perawatan
<1>5. PICK p \in Proses : Simpan(p)
  BY <1>1, <1>2, <1>3, <1>4 DEF Next, vars
<1>6. RencanaBenih(p, rencana[p])
  BY <1>1, <1>5, SimpanDasar DEF RencanaBiasa, RencanaUpgrade
<1>. QED  BY <1>5, <1>6

\* initdb, seed_all: what is there when a container starts is there when it
\* serves, but for jobs added to main duties and details, and items that were
\* removed do not come back; whatever was edited, restored or left half done.
THEOREM BootSelaluMenjaga == Spec => BootMenjaga
<1>1. IndInv /\ [Next]_vars =>
        [Tahap = "benih" /\ Tahap' = "layani" => \A o \in Dicadangkan :
           /\ Nyata(db[o]) /\ o[1] \notin {"tp", "dt"} => db'[o] = db[o]
           /\ Nyata(db[o]) /\ o[1] \in {"tp", "dt"} => \E J \in SUBSET Jabatan :
                db'[o] = [db[o] EXCEPT !.jabatan = @ \cup J]
           /\ o[1] \in TabelButir /\ Baris(o[1]) # {} => db'[o] = db[o]]_vars
  BY MulaiSelesai, BenihMenambah
<1>. QED  BY <1>1, Induktif, PTL DEF Spec, BootMenjaga

-------------------------------------------------------------------------------
(* The settings, the calls and the rows about sources: from rows b to rows B *)
(* sources and events stay, and a row on which a plan relies keeps what that *)
(* plan relies on.                                                           *)

Tumbuh(b, B) == \A o \in Obyek : b[o] # Tiada =>
  /\ o[1] \in {"sumber", "setelan_event"} => B[o] = b[o]
  /\ o[1] \in {"panggilan", "usulan", "permintaan"} => B[o] # Tiada
  /\ o[1] = "run" /\ Nyata(b[o]) => Nyata(B[o]) /\ B[o].fungsi = b[o].fungsi
  /\ o[1] = "usulan" /\ Nyata(B[o]) => Nyata(b[o]) /\ B[o].fungsi = b[o].fungsi
  /\ o[1] = "panggilan" /\ Nyata(B[o]) =>
       Nyata(b[o]) /\ B[o].mode = b[o].mode /\ B[o].model = b[o].model /\ B[o].kunci = b[o].kunci

\* What is said of rows that were sent, came back, were proposed or called holds on.
LEMMA TumbuhPanggilan ==
  ASSUME Obyek = UNION {Rak(t) : t \in DOMAIN muat.tabel}, NEW b, NEW B, Tumbuh(b, B)
  PROVE  /\ \A a : Terpasang(b, a) => Terpasang(B, a)
         /\ \A r : Wenang(b, r) => Wenang(B, r)
         /\ \A r : Terlayani(b, r) => Terlayani(B, r)
<1>1. \A e \in Isi(b, "setelan_event") : e \in Isi(B, "setelan_event") /\ B[e] = b[e]
  BY LetakObyek, Letak DEF Tumbuh, Isi, Nyata
<1>2. \A a : Terpasang(b, a) => Terpasang(B, a)
  BY <1>1 DEF Terpasang
<1>3. \A r : Wenang(b, r) => Wenang(B, r)
  BY <1>2 DEF Wenang
<1>. QED  BY <1>2, <1>3 DEF Terlayani

LEMMA TumbuhSumber ==
  ASSUME Obyek = UNION {Rak(t) : t \in DOMAIN muat.tabel}, NEW b, NEW B, Tumbuh(b, B)
  PROVE  /\ \A f, k : KeluaranSah(b, f, k) => KeluaranSah(B, f, k)
         /\ \A r : RunSah(b, r) => RunSah(B, r)
         /\ \A i : FaktaSah(b, i) => FaktaSah(B, i)
         /\ \A v : VersiSah(b, v) => VersiSah(B, v)
         /\ \A o, f : BerRun(b, o, f) => BerRun(B, o, f)
<1>1. \A e \in Rak("sumber") : Nyata(b[e]) => Nyata(B[e]) /\ B[e] = b[e]
  BY LetakObyek, Letak DEF Tumbuh, Nyata
<1>2. \A e \in Isi(b, "sumber") : e \in Isi(B, "sumber") /\ B[e] = b[e]
  BY <1>1 DEF Isi
<1>3. \A f, m : MasukanSah(b, f, m) => MasukanSah(B, f, m)
  BY <1>1 DEF MasukanSah
<1>4. \A s : Terkutip(b, s) => Terkutip(B, s)
  BY <1>1 DEF Terkutip
<1>5. \A f, k : KeluaranSah(b, f, k) => KeluaranSah(B, f, k)
  BY <1>4 DEF KeluaranSah
<1>6. \A r : RunSah(b, r) => RunSah(B, r)
  BY <1>3, <1>5 DEF RunSah
<1>7. \A i : FaktaSah(b, i) => FaktaSah(B, i)
  BY <1>2 DEF FaktaSah
<1>8. \A v : VersiSah(b, v) => VersiSah(B, v)
  BY <1>2 DEF VersiSah
<1>9. \A o, f : BerRun(b, o, f) => BerRun(B, o, f)
  BY LetakObyek, Letak DEF Tumbuh, BerRun, Nyata
<1>. QED  BY <1>5, <1>6, <1>7, <1>8, <1>9

\* It is said of rows, whatever the state.
LEMMA IsianPrima ==
  ASSUME UNCHANGED muat, NEW b
  PROVE  /\ \A r : Wenang(b, r)' <=> Wenang(b, r)
         /\ \A r : Terlayani(b, r)' <=> Terlayani(b, r)
         /\ \A f, k : KeluaranSah(b, f, k)' <=> KeluaranSah(b, f, k)
         /\ \A r : RunSah(b, r)' <=> RunSah(b, r)
         /\ \A i : FaktaSah(b, i)' <=> FaktaSah(b, i)
         /\ \A v : VersiSah(b, v)' <=> VersiSah(b, v)
         /\ \A o, f : BerRun(b, o, f)' <=> BerRun(b, o, f)
         /\ \A t : Isi(b, t)' = Isi(b, t)
         /\ \A t : Rak(t)' = Rak(t)
<1>1. \A t : Rak(t)' = Rak(t)
  BY DEF Rak
<1>2. \A t : Isi(b, t)' = Isi(b, t)
  BY <1>1 DEF Isi, Nyata
<1>3. \A r : Wenang(b, r)' <=> Wenang(b, r)
  BY <1>2 DEF Wenang, Terpasang
<1>4. \A r : Terlayani(b, r)' <=> Terlayani(b, r)
  BY <1>3 DEF Terlayani
<1>5. \A f, m : MasukanSah(b, f, m)' <=> MasukanSah(b, f, m)
  BY <1>1 DEF MasukanSah, Nyata, LolosUji
<1>6. \A s : Terkutip(b, s)' <=> Terkutip(b, s)
  BY <1>1 DEF Terkutip, Nyata
<1>7. \A f, k : KeluaranSah(b, f, k)' <=> KeluaranSah(b, f, k)
  BY <1>1, <1>6 DEF KeluaranSah
<1>8. \A r : RunSah(b, r)' <=> RunSah(b, r)
  BY <1>5, <1>7 DEF RunSah
<1>9. \A i : FaktaSah(b, i)' <=> FaktaSah(b, i)
  BY <1>2 DEF FaktaSah
<1>10. \A v : VersiSah(b, v)' <=> VersiSah(b, v)
  BY <1>2 DEF VersiSah
<1>11. \A o, f : BerRun(b, o, f)' <=> BerRun(b, o, f)
  BY <1>1 DEF BerRun, Nyata
<1>. QED  BY <1>1, <1>2, <1>3, <1>4, <1>7, <1>8, <1>9, <1>10, <1>11

\* A plan goes on while the rows grow.
LEMMA RencanaIsianTetap ==
  ASSUME Obyek = UNION {Rak(t) : t \in DOMAIN muat.tabel}, UNCHANGED muat, Tumbuh(db, db'),
         NEW r, RencanaTempat(r), RencanaIsian(r)
  PROVE  RencanaTempat(r)' /\ RencanaIsian(r)'
<1>. PICK B : B = db'
  OBVIOUS
<1>1. Tumbuh(db, B)
  OBVIOUS
<1>2. \A t : Rak(t)' = Rak(t)
  BY IsianPrima
<1>3. RencanaTempat(r)'
  BY <1>2 DEF RencanaTempat
<1>4. \A o \in DOMAIN r.isi : o[1] \in TabelIsian => o \in Obyek
  BY LetakObyek DEF RencanaTempat
<1>5. RencanaPenyedia(r)'
  BY <1>2 DEF RencanaIsian, RencanaPenyedia, Perubahan, Nyata, SesuaiAksi, LamaSetelan, Jadi
<1>6. RencanaPanggilan(r)'
  <2>. SUFFICES ASSUME NEW o \in DOMAIN r.isi, o[1] = "panggilan"
                PROVE  IF r.lihat[o] = Tiada THEN Terlayani(db, r.isi[o])'
                       ELSE db'[o] # Tiada /\ (r.isi[o] # Bekas /\ Nyata(db'[o]) =>
                              DOMAIN r.isi[o] \subseteq {"hasil"} /\ Wenang(db, db[o])'
                                /\ \A k \in DOMAIN r.isi[o] : r.isi[o][k] \in HasilPanggilan)
    BY DEF RencanaPanggilan, Nyata
  <2>1. CASE r.lihat[o] = Tiada
    <3>1. Terlayani(B, r.isi[o])
      BY <1>1, <2>1, TumbuhPanggilan DEF RencanaIsian, RencanaPanggilan
    <3>. QED  BY <2>1, <3>1, IsianPrima
  <2>2. CASE r.lihat[o] # Tiada
    <3>1. db[o] # Tiada /\ o \in Obyek
      BY <1>4, <2>2 DEF RencanaIsian, RencanaPanggilan, TabelIsian
    <3>2. B[o] # Tiada
      BY <1>1, <3>1 DEF Tumbuh
    <3>3. ASSUME r.isi[o] # Bekas, Nyata(B[o])
          PROVE  /\ DOMAIN r.isi[o] \subseteq {"hasil"} /\ Wenang(B, B[o])
                 /\ \A k \in DOMAIN r.isi[o] : r.isi[o][k] \in HasilPanggilan
      <4>1. Nyata(db[o]) /\ B[o].mode = db[o].mode /\ B[o].model = db[o].model /\ B[o].kunci = db[o].kunci
        BY <1>1, <3>1, <3>3 DEF Tumbuh
      <4>2. /\ DOMAIN r.isi[o] \subseteq {"hasil"} /\ Wenang(db, db[o])
            /\ \A k \in DOMAIN r.isi[o] : r.isi[o][k] \in HasilPanggilan
        BY <2>2, <3>3, <4>1 DEF RencanaIsian, RencanaPanggilan
      <4>3. Wenang(B, db[o])
        BY <1>1, <4>2, TumbuhPanggilan
      <4>. QED  BY <4>1, <4>2, <4>3 DEF Wenang
    <3>4. Wenang(B, B[o])' <=> Wenang(B, B[o])
      BY IsianPrima
    <3>. QED  BY <2>2, <3>2, <3>3, <3>4
  <2>. QED  BY <2>1, <2>2
<1>7. RencanaKutipan(r)'
  <2>. SUFFICES ASSUME NEW o \in DOMAIN r.isi, NEW u, u = r.isi[o]
         PROVE  /\ o[1] = "sumber" => r.lihat[o] = Tiada /\ SumberSah(u)
                /\ o[1] = "versi" => r.lihat[o] = Tiada /\ VersiSah(db, u)'
                /\ o[1] = "run" => IF r.lihat[o] = Tiada THEN RunSah(db, u)' ELSE RunBerubah(o, u)'
                /\ o[1] = "usulan" => IF r.lihat[o] = Tiada
                     THEN UsulanBerbentuk(u) /\ u.isi = Kosong /\ Berpasangan(r, u, u.fungsi)'
                     ELSE UsulanBerubah(o, u)'
                /\ o[1] = "permintaan" =>
                     IF r.lihat[o] = Tiada THEN u \in BentukPermintaan /\ Berpasangan(r, u, "P10")'
                     ELSE db'[o] # Tiada /\ (u # Bekas => DOMAIN u \subseteq {"hasil"} /\ \A k \in DOMAIN u : u[k] \in HasilDraf)
    BY DEF RencanaKutipan
  <2>1. /\ o[1] = "sumber" => r.lihat[o] = Tiada /\ SumberSah(u)
        /\ o[1] = "versi" => r.lihat[o] = Tiada /\ VersiSah(db, u)
        /\ o[1] = "run" => IF r.lihat[o] = Tiada THEN RunSah(db, u) ELSE RunBerubah(o, u)
        /\ o[1] = "usulan" => IF r.lihat[o] = Tiada
             THEN UsulanBerbentuk(u) /\ u.isi = Kosong /\ Berpasangan(r, u, u.fungsi)
             ELSE UsulanBerubah(o, u)
        /\ o[1] = "permintaan" =>
             IF r.lihat[o] = Tiada THEN u \in BentukPermintaan /\ Berpasangan(r, u, "P10")
             ELSE db[o] # Tiada /\ (u # Bekas => DOMAIN u \subseteq {"hasil"} /\ \A k \in DOMAIN u : u[k] \in HasilDraf)
    BY DEF RencanaIsian, RencanaKutipan
  <2>2. \A f : Berpasangan(r, u, f)' <=> Berpasangan(r, u, f)
    BY <1>2 DEF Berpasangan
  <2>3. VersiSah(db, u) => VersiSah(db, u)'
    <3>1. VersiSah(db, u) => VersiSah(B, u)
      BY <1>1, TumbuhSumber
    <3>. QED  BY <3>1, IsianPrima
  <2>4. RunSah(db, u) => RunSah(db, u)'
    <3>1. RunSah(db, u) => RunSah(B, u)
      BY <1>1, TumbuhSumber
    <3>. QED  BY <3>1, IsianPrima
  <2>5. o[1] = "run" /\ RunBerubah(o, u) => RunBerubah(o, u)'
    <3>. SUFFICES ASSUME o[1] = "run", RunBerubah(o, u) PROVE RunBerubah(o, u)'
      OBVIOUS
    <3>1. Nyata(db[o]) /\ db[o] # Tiada /\ o \in Obyek
      BY <1>4 DEF RunBerubah, TabelIsian, Nyata
    <3>2. Nyata(B[o]) /\ B[o].fungsi = db[o].fungsi
      BY <1>1, <3>1 DEF Tumbuh
    <3>3. "keluaran" \in DOMAIN u /\ u.keluaran # Kosong =>
            u.keluaran \in BentukKeluaran /\ KeluaranSah(B, B[o].fungsi, u.keluaran)
      BY <1>1, <3>2, TumbuhSumber DEF RunBerubah
    <3>4. "keluaran" \in DOMAIN u /\ u.keluaran # Kosong =>
            u.keluaran \in BentukKeluaran /\ KeluaranSah(db, db[o].fungsi, u.keluaran)'
      BY <3>3, IsianPrima
    <3>. QED  BY <3>2, <3>4 DEF RunBerubah, Nyata
  <2>6. o[1] = "usulan" /\ UsulanBerubah(o, u) => UsulanBerubah(o, u)'
    <3>. SUFFICES ASSUME o[1] = "usulan", UsulanBerubah(o, u) PROVE UsulanBerubah(o, u)'
      OBVIOUS
    <3>1. db[o] # Tiada /\ o \in Obyek
      BY <1>4 DEF UsulanBerubah, TabelIsian
    <3>2. B[o] # Tiada /\ (Nyata(B[o]) => Nyata(db[o]) /\ B[o].fungsi = db[o].fungsi)
      BY <1>1, <3>1 DEF Tumbuh
    <3>3. FaktaSah(db, u.isi) => FaktaSah(db, u.isi)'
      <4>1. FaktaSah(db, u.isi) => FaktaSah(B, u.isi)
        BY <1>1, TumbuhSumber
      <4>. QED  BY <4>1, IsianPrima
    <3>. QED  BY <3>2, <3>3 DEF UsulanBerubah, Nyata
  <2>7. o[1] = "permintaan" /\ db[o] # Tiada => db'[o] # Tiada
    BY <1>1, <1>4 DEF Tumbuh, TabelIsian
  <2>. QED  BY <2>1, <2>2, <2>3, <2>4, <2>5, <2>6, <2>7
<1>. QED  BY <1>3, <1>5, <1>6, <1>7 DEF RencanaIsian

LEMMA AcaraTetap ==
  ASSUME NEW b, NEW c, Isi(c, "setelan_event") = Isi(b, "setelan_event"),
         \A e \in Isi(b, "setelan_event") : c[e] = b[e], NEW S
  PROVE  AcaraTerakhir(c, S) = AcaraTerakhir(b, S)
<1>. DEFINE Beraksi(d) == {x \in Isi(d, "setelan_event") : d[x].aksi \in S}
<1>1. Beraksi(c) = Beraksi(b)
  OBVIOUS
<1>2. \A e \in Terakhir(Beraksi(b)) : c[e] = b[e]
  BY DEF Terakhir
<1>. HIDE DEF Beraksi
<1>3. {c[e] : e \in Terakhir(Beraksi(b))} = {b[e] : e \in Terakhir(Beraksi(b))}
  BY <1>2
<1>. QED  BY <1>1, <1>3 DEF AcaraTerakhir, Beraksi

\* Rows of the settings that did not change are as right as they were.
LEMMA SetelanPindah ==
  ASSUME Obyek = UNION {Rak(t) : t \in DOMAIN muat.tabel},
         NEW b, NEW T, SetelanSah(b, T), NEW c, NEW U, T \subseteq U,
         \A o \in Obyek : o[1] \in {"setelan", "setelan_event"} => c[o] = b[o]
  PROVE  SetelanSah(c, U)
<1>1. \A t \in {"setelan", "setelan_event"} : \A o \in Rak(t) : c[o] = b[o]
  BY LetakObyek, Letak
<1>2. \A t \in {"setelan", "setelan_event"} : Isi(c, t) = Isi(b, t) /\ \A o \in Isi(b, t) : c[o] = b[o]
  BY <1>1 DEF Isi
<1>3. BarisTunggal(c) = BarisTunggal(b)
  BY <1>2 DEF BarisTunggal
<1>4. SesuaiAcara(c) <=> SesuaiAcara(b)
  <2>1. \A S : AcaraTerakhir(c, S) = AcaraTerakhir(b, S)
    BY <1>2, AcaraTetap
  <2>. QED  BY <1>3, <2>1 DEF SesuaiAcara
<1>5. \A a : Terpasang(c, a) <=> Terpasang(b, a)
  BY <1>2 DEF Terpasang
<1>6. TUNGGAL \in Rak("setelan") => c[TUNGGAL] # Bekas
  BY <1>1 DEF SetelanSah
<1>. QED  BY <1>3, <1>4, <1>5, <1>6 DEF SetelanSah

LEMMA IsianPindah ==
  ASSUME Obyek = UNION {Rak(t) : t \in DOMAIN muat.tabel},
         NEW b, NEW T, IsianSah(b, T), NEW c, NEW U, T \subseteq U,
         \A o \in Obyek : o[1] \in TabelIsian \ {"induk"} => c[o] = b[o]
  PROVE  IsianSah(c, U)
<1>1. \A t \in TabelIsian \ {"induk"} : \A o \in Rak(t) : c[o] = b[o]
  BY LetakObyek, Letak
<1>2. \A t \in TabelIsian \ {"induk"} : \A o \in Isi(c, t) : o \in Isi(b, t) /\ c[o] = b[o]
  BY <1>1 DEF Isi
<1>3. Tumbuh(b, c)
  BY DEF Tumbuh, TabelIsian
<1>4. SetelanSah(c, U)
  BY SetelanPindah DEF IsianSah, TabelIsian
<1>5. PanggilanBerwenang(c)
  <2>1. "panggilan" \in TabelIsian \ {"induk"}
    BY DEF TabelIsian
  <2>. QED  BY <1>2, <1>3, <2>1, TumbuhPanggilan DEF IsianSah, PanggilanBerwenang
<1>6. SitasiSah(c)
  <2>1. {"sumber", "run", "usulan", "permintaan", "versi"} \subseteq TabelIsian \ {"induk"}
    BY DEF TabelIsian
  <2>2. SitasiSah(b)
    BY DEF IsianSah
  <2>3. \A o \in Isi(c, "sumber") : SumberSah(c[o])
    BY <1>2, <2>1, <2>2 DEF SitasiSah
  <2>4. \A o \in Isi(c, "run") : RunSah(c, c[o])
    BY <1>2, <1>3, <2>1, <2>2, TumbuhSumber DEF SitasiSah
  <2>5. \A o \in Isi(c, "usulan") : UsulanSah(c, c[o])
    BY <1>2, <1>3, <2>1, <2>2, TumbuhSumber DEF SitasiSah, UsulanSah
  <2>6. \A o \in Isi(c, "permintaan") : PermintaanSah(c, c[o])
    BY <1>2, <1>3, <2>1, <2>2, TumbuhSumber DEF SitasiSah, PermintaanSah
  <2>7. \A o \in Isi(c, "versi") : VersiSah(c, c[o])
    BY <1>2, <1>3, <2>1, <2>2, TumbuhSumber DEF SitasiSah
  <2>. QED  BY <2>3, <2>4, <2>5, <2>6, <2>7 DEF SitasiSah
<1>. QED  BY <1>4, <1>5, <1>6 DEF IsianSah

LEMMA IsianAlih ==
  ASSUME UNCHANGED muat, NEW b, NEW T, IsianSah(b, T)
  PROVE  IsianSah(b, T)'
<1>1. \A t : Isi(b, t)' = Isi(b, t) /\ Rak(t)' = Rak(t)
  BY IsianPrima
<1>2. SetelanSah(b, T)'
  <2>1. BarisTunggal(b)' = BarisTunggal(b)
    BY <1>1 DEF BarisTunggal
  <2>2. \A S : AcaraTerakhir(b, S)' = AcaraTerakhir(b, S)
    BY <1>1 DEF AcaraTerakhir, Terakhir
  <2>3. SesuaiAcara(b)' <=> SesuaiAcara(b)
    BY <2>1, <2>2 DEF SesuaiAcara
  <2>4. \A a : Terpasang(b, a)' <=> Terpasang(b, a)
    BY <1>1 DEF Terpasang
  <2>. QED  BY <1>1, <2>1, <2>3, <2>4 DEF IsianSah, SetelanSah
<1>3. PanggilanBerwenang(b)'
  BY <1>1, IsianPrima DEF IsianSah, PanggilanBerwenang
<1>4. SitasiSah(b)'
  <2>1. SitasiSah(b)
    BY DEF IsianSah
  <2>2. \A o \in Isi(b, "sumber")' : SumberSah(b[o])
    BY <1>1, <2>1 DEF SitasiSah
  <2>3. \A o \in Isi(b, "run")' : RunSah(b, b[o])'
    BY <1>1, <2>1, IsianPrima DEF SitasiSah
  <2>4. \A o \in Isi(b, "usulan")' : UsulanSah(b, b[o])'
    BY <1>1, <2>1, IsianPrima DEF SitasiSah, UsulanSah
  <2>5. \A o \in Isi(b, "permintaan")' : PermintaanSah(b, b[o])'
    BY <1>1, <2>1, IsianPrima DEF SitasiSah, PermintaanSah
  <2>6. \A o \in Isi(b, "versi")' : VersiSah(b, b[o])'
    BY <1>1, <2>1, IsianPrima DEF SitasiSah
  <2>. QED  BY <2>2, <2>3, <2>4, <2>5, <2>6 DEF SitasiSah
<1>. QED  BY <1>2, <1>3, <1>4 DEF IsianSah

\* A dump stays one that may be restored.
LEMMA CadanganIsian ==
  ASSUME IndInv, IndIsian, Diam, tumpang \subseteq tumpang', NEW c \in Baris("cadangan"),
         db'[c] = db[c], db'[c].utuh
  PROVE  IsianSah(Dipulihkan(c), tumpang)'
<1>. PICK b, T : b = Dipulihkan(c)' /\ T = tumpang'
  OBVIOUS
<1>1. IsianSah(Dipulihkan(c), tumpang)
  BY DEF IndIsian
<1>2. \A o \in Obyek : o[1] \notin Luar => b[o] = Dipulihkan(c)[o]
  BY DEF Dipulihkan, Dicadangkan, Diam
<1>3. \A o \in Obyek : o[1] \in TabelIsian \ {"induk"} => b[o] = Dipulihkan(c)[o]
  BY <1>2 DEF TabelIsian, Luar
<1>4. IsianSah(b, T)
  BY <1>1, <1>3, IsianPindah DEF IndInv
<1>. QED  BY <1>4, IsianAlih DEF Diam

-------------------------------------------------------------------------------
(* Rows about settings, calls and sources, when a plan that changes them is  *)
(* committed.                                                                *)

LEMMA PanggilanDitimpa ==
  ASSUME NEW b, NEW x, Terlayani(b, x), NEW u, Wenang(b, x), DOMAIN u \subseteq {"hasil"},
         \A k \in DOMAIN u : u[k] \in HasilPanggilan, NEW y, y = Timpa(x, u)
  PROVE  Terlayani(b, y) /\ Nyata(y) /\ y.mode = x.mode /\ y.model = x.model /\ y.kunci = x.kunci
<1>1. x \in BentukPanggilan
  BY DEF Terlayani
<1>2. DOMAIN x = {"mode", "model", "hasil", "kunci"}
  BY <1>1 DEF BentukPanggilan
<1>3. /\ y = [mode |-> y.mode, model |-> y.model, hasil |-> y.hasil, kunci |-> y.kunci]
      /\ y.mode = x.mode /\ y.model = x.model /\ y.kunci = x.kunci
      /\ y.hasil = x.hasil \/ y.hasil \in HasilPanggilan
  BY <1>2 DEF Timpa
<1>4. y \in BentukPanggilan
  BY <1>1, <1>3 DEF BentukPanggilan
<1>5. Nyata(y)
  BY <1>4, TandaBukanBaris DEF Nyata
<1>6. Wenang(b, y)
  BY <1>3 DEF Wenang
<1>. QED  BY <1>3, <1>4, <1>5, <1>6 DEF Terlayani

LEMMA RunDitimpa ==
  ASSUME NEW o, RunSah(db, db[o]), NEW u, RunBerubah(o, u), NEW y, y = Timpa(db[o], u)
  PROVE  RunSah(db, y) /\ Nyata(y) /\ y.fungsi = db[o].fungsi /\ u # Bekas
<1>. PICK x : x = db[o]
  OBVIOUS
<1>1. x \in BentukRun
  BY DEF RunSah
<1>2. DOMAIN x = {"fungsi", "sumber", "status", "kode", "masukan", "keluaran"}
  BY <1>1 DEF BentukRun
<1>3. DOMAIN u \subseteq KolomVonis /\ "status" \in DOMAIN u /\ u.status \in StatusRun \ {"MENUNGGU"}
  BY DEF RunBerubah
<1>4. /\ y = [fungsi |-> y.fungsi, sumber |-> y.sumber, status |-> y.status, kode |-> y.kode,
              masukan |-> y.masukan, keluaran |-> y.keluaran]
      /\ y.fungsi = x.fungsi /\ y.sumber = x.sumber /\ y.status = u.status
      /\ y.kode = IF "kode" \in DOMAIN u THEN u.kode ELSE x.kode
      /\ y.masukan = IF "masukan" \in DOMAIN u THEN u.masukan ELSE x.masukan
      /\ y.keluaran = IF "keluaran" \in DOMAIN u THEN u.keluaran ELSE x.keluaran
  BY <1>2, <1>3 DEF Timpa, KolomVonis
<1>5. y.kode \in SUBSET KodeRun /\ y.masukan \subseteq x.masukan
  BY <1>1, <1>4 DEF RunBerubah, BentukRun
<1>6. y.keluaran \in AtauKosong(BentukKeluaran) /\ (y.keluaran # Kosong => KeluaranSah(db, y.fungsi, y.keluaran))
  BY <1>1, <1>4 DEF RunBerubah, RunSah, BentukRun, AtauKosong
<1>7. y \in BentukRun
  BY <1>1, <1>3, <1>4, <1>5, <1>6 DEF BentukRun
<1>8. RunSah(db, y)
  BY <1>3, <1>4, <1>5, <1>6, <1>7 DEF RunSah, RunBerubah
<1>9. u # Bekas
  <2>1. u = [k \in DOMAIN u |-> u[k]] /\ \A k \in DOMAIN u : u[k] \in NilaiRun
    <3>1. u = [k \in DOMAIN u |-> u[k]]
      BY DEF RunBerubah
    <3>2. "kode" \in DOMAIN u => u.kode \in NilaiRun
      BY DEF RunBerubah, NilaiRun
    <3>3. "masukan" \in DOMAIN u => u.masukan \in NilaiRun
      BY DEF RunBerubah, NilaiRun
    <3>4. "keluaran" \in DOMAIN u => u.keluaran \in NilaiRun
      BY <1>4, <1>6 DEF NilaiRun
    <3>. QED  BY <1>3, <3>1, <3>2, <3>3, <3>4 DEF KolomVonis, NilaiRun
  <2>. QED  BY <1>3, <2>1, TandaBukanBaris
<1>10. Nyata(y)
  BY <1>7, TandaBukanBaris DEF Nyata
<1>. QED  BY <1>4, <1>8, <1>9, <1>10

LEMMA UsulanNyata ==
  ASSUME NEW y, UsulanBerbentuk(y), y.run \in Rak("run")
  PROVE  Nyata(y)
<1>1. y.run \in {"run"} \X Nat
  <2>1. y.run = <<"run", y.run[2]>> /\ y.run[2] \in 1..muat.tabel["run"][2]
    BY Letak
  <2>2. y.run[2] \in Nat
    BY <2>1
  <2>. QED  BY <2>1, <2>2
<1>2. y \in BentukUsulan
  BY <1>1 DEF UsulanBerbentuk, BentukUsulan
<1>. QED  BY <1>2, TandaBukanBaris DEF Nyata

LEMMA UsulanDitimpa ==
  ASSUME NEW o, UsulanSah(db, db[o]), Nyata(db[o]), NEW u, UsulanBerubah(o, u), u # Bekas,
         NEW y, y = Timpa(db[o], u)
  PROVE  UsulanSah(db, y) /\ Nyata(y) /\ y.fungsi = db[o].fungsi
<1>. PICK x : x = db[o]
  OBVIOUS
<1>1. UsulanBerbentuk(x) /\ BerRun(db, x.run, x.fungsi)
  BY DEF UsulanSah
<1>2. DOMAIN x = {"fungsi", "sasaran", "run", "hasil", "kode", "isi"}
  BY <1>1 DEF UsulanBerbentuk
<1>3. DOMAIN u \subseteq {"hasil", "kode", "isi"}
  BY DEF UsulanBerubah
<1>4. /\ y = [fungsi |-> y.fungsi, sasaran |-> y.sasaran, run |-> y.run, hasil |-> y.hasil,
              kode |-> y.kode, isi |-> y.isi]
      /\ y.fungsi = x.fungsi /\ y.sasaran = x.sasaran /\ y.run = x.run
      /\ y.hasil = IF "hasil" \in DOMAIN u THEN u.hasil ELSE x.hasil
      /\ y.kode = IF "kode" \in DOMAIN u THEN u.kode ELSE x.kode
      /\ y.isi = IF "isi" \in DOMAIN u THEN u.isi ELSE x.isi
  BY <1>2, <1>3 DEF Timpa
<1>5. UsulanBerbentuk(y)
  BY <1>1, <1>4 DEF UsulanBerbentuk, UsulanBerubah, AtauKosong
<1>6. y.fungsi = "P01" /\ y.isi # Kosong => FaktaSah(db, y.isi)
  BY <1>4 DEF UsulanBerubah, UsulanSah
<1>7. Nyata(y)
  BY <1>1, <1>4, <1>5, UsulanNyata DEF BerRun
<1>. QED  BY <1>1, <1>4, <1>5, <1>6, <1>7 DEF UsulanSah

LEMMA PermintaanDitimpa ==
  ASSUME NEW b, NEW x, PermintaanSah(b, x), NEW u, DOMAIN u \subseteq {"hasil"},
         \A k \in DOMAIN u : u[k] \in HasilDraf, NEW y, y = Timpa(x, u)
  PROVE  PermintaanSah(b, y) /\ Nyata(y)
<1>1. x \in BentukPermintaan /\ DOMAIN x = {"run", "hasil"}
  BY DEF PermintaanSah, BentukPermintaan
<1>2. y = [run |-> y.run, hasil |-> y.hasil] /\ y.run = x.run /\ (y.hasil = x.hasil \/ y.hasil \in HasilDraf)
  BY <1>1 DEF Timpa
<1>3. y \in BentukPermintaan
  BY <1>1, <1>2 DEF BentukPermintaan, AtauKosong
<1>. QED  BY <1>2, <1>3, TandaBukanBaris DEF PermintaanSah, Nyata

\* What a commit makes of these rows.
LEMMA BarisIsian ==
  ASSUME NEW r, NEW B, Jadinya(r, B), NEW o \in Obyek, o[1] \in TabelIsian
  PROVE  \/ o \notin DOMAIN r.isi /\ B[o] = db[o]
         \/ o \in DOMAIN r.isi /\ r.lihat[o] = Tiada /\ db[o] = Tiada /\ B[o] = r.isi[o]
         \/ o \in DOMAIN r.isi /\ r.lihat[o] # Tiada /\ r.isi[o] = Bekas /\ B[o] = Bekas
         \/ o \in DOMAIN r.isi /\ r.lihat[o] # Tiada /\ r.isi[o] # Bekas /\ Nyata(db[o])
              /\ B[o] = Timpa(db[o], r.isi[o])
<1>1. Langsung(o) /\ o[1] \notin {"tp", "dt"}
  BY DEF Langsung, TabelIsian
<1>. QED  BY <1>1, BarisnyaTetap

LEMMA PanggilanSimpan ==
  ASSUME Obyek = UNION {Rak(t) : t \in DOMAIN muat.tabel}, NEW r, NEW B, Jadinya(r, B),
         PanggilanBerwenang(db), RencanaPanggilan(r), NEW o \in Obyek, o[1] = "panggilan", Nyata(B[o])
  PROVE  Terlayani(db, B[o]) /\ (db[o] # Tiada => Nyata(db[o]) /\ B[o].mode = db[o].mode
           /\ B[o].model = db[o].model /\ B[o].kunci = db[o].kunci)
<1>1. o \in Rak("panggilan") /\ o[1] \in TabelIsian
  BY LetakObyek DEF TabelIsian
<1>2. Nyata(db[o]) => Terlayani(db, db[o])
  BY <1>1 DEF PanggilanBerwenang, Isi
<1>3. CASE o \notin DOMAIN r.isi /\ B[o] = db[o]
  BY <1>2, <1>3
<1>4. CASE o \in DOMAIN r.isi /\ r.lihat[o] = Tiada /\ db[o] = Tiada /\ B[o] = r.isi[o]
  BY <1>4 DEF RencanaPanggilan
<1>5. CASE o \in DOMAIN r.isi /\ r.lihat[o] # Tiada /\ r.isi[o] # Bekas /\ Nyata(db[o])
             /\ B[o] = Timpa(db[o], r.isi[o])
  <2>1. /\ DOMAIN r.isi[o] \subseteq {"hasil"} /\ Wenang(db, db[o])
        /\ \A k \in DOMAIN r.isi[o] : r.isi[o][k] \in HasilPanggilan
    BY <1>5 DEF RencanaPanggilan
  <2>. QED  BY <1>2, <1>5, <2>1, PanggilanDitimpa
<1>. QED  BY <1>1, <1>3, <1>4, <1>5, BarisIsian DEF Nyata

LEMMA PanggilanAda ==
  ASSUME Obyek = UNION {Rak(t) : t \in DOMAIN muat.tabel}, NEW r, NEW B, Jadinya(r, B),
         PanggilanBerwenang(db), RencanaPanggilan(r), NEW o \in Obyek, o[1] = "panggilan", db[o] # Tiada
  PROVE  B[o] # Tiada
<1>1. o \in Rak("panggilan") /\ o[1] \in TabelIsian
  BY LetakObyek DEF TabelIsian
<1>2. CASE o \in DOMAIN r.isi /\ r.lihat[o] # Tiada /\ r.isi[o] # Bekas /\ Nyata(db[o])
             /\ B[o] = Timpa(db[o], r.isi[o])
  <2>1. /\ DOMAIN r.isi[o] \subseteq {"hasil"} /\ Wenang(db, db[o])
        /\ \A k \in DOMAIN r.isi[o] : r.isi[o][k] \in HasilPanggilan
    BY <1>2 DEF RencanaPanggilan
  <2>2. Terlayani(db, db[o])
    BY <1>1, <1>2 DEF PanggilanBerwenang, Isi
  <2>3. Nyata(B[o])
    BY <1>2, <2>1, <2>2, PanggilanDitimpa
  <2>. QED  BY <2>3 DEF Nyata
<1>. QED  BY <1>1, <1>2, BarisIsian, PermintaanAssumption

LEMMA SumberSimpan ==
  ASSUME Obyek = UNION {Rak(t) : t \in DOMAIN muat.tabel}, NEW r, NEW B, Jadinya(r, B),
         SitasiSah(db), RencanaKutipan(r), NEW o \in Obyek
  PROVE  /\ o[1] = "sumber" /\ db[o] # Tiada => B[o] = db[o]
         /\ o[1] = "sumber" /\ Nyata(B[o]) => SumberSah(B[o])
         /\ o[1] = "versi" /\ Nyata(B[o]) => VersiSah(db, B[o])
<1>1. o \in Rak(o[1]) /\ (o[1] \in {"sumber", "versi"} => o[1] \in TabelIsian)
  BY LetakObyek DEF TabelIsian
<1>2. o \in DOMAIN r.isi => (o[1] = "sumber" => r.lihat[o] = Tiada /\ SumberSah(r.isi[o]))
                         /\ (o[1] = "versi" => r.lihat[o] = Tiada /\ VersiSah(db, r.isi[o]))
  BY DEF RencanaKutipan
<1>3. Nyata(db[o]) => (o[1] = "sumber" => SumberSah(db[o])) /\ (o[1] = "versi" => VersiSah(db, db[o]))
  BY <1>1 DEF SitasiSah, Isi
<1>4. o[1] \in {"sumber", "versi"} =>
        \/ o \notin DOMAIN r.isi /\ B[o] = db[o]
        \/ o \in DOMAIN r.isi /\ r.lihat[o] = Tiada /\ db[o] = Tiada /\ B[o] = r.isi[o]
  BY <1>1, <1>2, BarisIsian
<1>. QED  BY <1>2, <1>3, <1>4

LEMMA RunSimpan ==
  ASSUME Obyek = UNION {Rak(t) : t \in DOMAIN muat.tabel}, NEW r, NEW B, Jadinya(r, B),
         SitasiSah(db), RencanaKutipan(r), NEW o \in Obyek, o[1] = "run"
  PROVE  /\ Nyata(B[o]) => RunSah(db, B[o])
         /\ Nyata(db[o]) => Nyata(B[o]) /\ B[o].fungsi = db[o].fungsi
<1>1. o \in Rak("run") /\ o[1] \in TabelIsian
  BY LetakObyek DEF TabelIsian
<1>2. o \in DOMAIN r.isi => IF r.lihat[o] = Tiada THEN RunSah(db, r.isi[o]) ELSE RunBerubah(o, r.isi[o])
  BY DEF RencanaKutipan
<1>3. Nyata(db[o]) => RunSah(db, db[o])
  BY <1>1 DEF SitasiSah, Isi
<1>4. CASE o \notin DOMAIN r.isi /\ B[o] = db[o]
  BY <1>3, <1>4
<1>5. CASE o \in DOMAIN r.isi /\ r.lihat[o] = Tiada /\ db[o] = Tiada /\ B[o] = r.isi[o]
  BY <1>2, <1>5 DEF Nyata
<1>6. CASE o \in DOMAIN r.isi /\ r.lihat[o] # Tiada
  <2>1. RunBerubah(o, r.isi[o]) /\ Nyata(db[o])
    BY <1>2, <1>6 DEF RunBerubah
  <2>. PICK u, y : u = r.isi[o] /\ y = Timpa(db[o], u)
    OBVIOUS
  <2>2. RunSah(db, y) /\ Nyata(y) /\ y.fungsi = db[o].fungsi /\ u # Bekas
    BY <1>3, <2>1, RunDitimpa
  <2>3. B[o] = y
    BY <1>1, <1>6, <2>2, BarisIsian
  <2>. QED  BY <2>2, <2>3
<1>. QED  BY <1>1, <1>4, <1>5, <1>6, BarisIsian

\* A row that waits for a run, made with it or changed later.
LEMMA UsulanSimpan ==
  ASSUME Obyek = UNION {Rak(t) : t \in DOMAIN muat.tabel}, NEW r, NEW B, Jadinya(r, B),
         SitasiSah(db), RencanaKutipan(r), NEW o \in Obyek, o[1] = "usulan"
  PROVE  /\ Nyata(B[o]) => UsulanBerbentuk(B[o])
              /\ (BerRun(db, B[o].run, B[o].fungsi) \/ BerRun(B, B[o].run, B[o].fungsi))
              /\ (B[o].fungsi = "P01" /\ B[o].isi # Kosong => FaktaSah(db, B[o].isi))
         /\ Nyata(B[o]) /\ db[o] # Tiada => Nyata(db[o]) /\ B[o].fungsi = db[o].fungsi
         /\ db[o] # Tiada => B[o] # Tiada
<1>1. o \in Rak("usulan") /\ o[1] \in TabelIsian
  BY LetakObyek DEF TabelIsian
<1>2. o \in DOMAIN r.isi => IF r.lihat[o] = Tiada
        THEN UsulanBerbentuk(r.isi[o]) /\ r.isi[o].isi = Kosong /\ Berpasangan(r, r.isi[o], r.isi[o].fungsi)
        ELSE UsulanBerubah(o, r.isi[o])
  BY DEF RencanaKutipan
<1>3. Nyata(db[o]) => UsulanSah(db, db[o])
  BY <1>1 DEF SitasiSah, Isi
<1>4. CASE o \notin DOMAIN r.isi /\ B[o] = db[o]
  BY <1>3, <1>4 DEF UsulanSah
<1>5. CASE o \in DOMAIN r.isi /\ r.lihat[o] = Tiada /\ db[o] = Tiada /\ B[o] = r.isi[o]
  <2>. PICK u : u = r.isi[o]
    OBVIOUS
  <2>1. UsulanBerbentuk(u) /\ u.isi = Kosong /\ u.run \in DOMAIN r.isi /\ u.run \in Rak("run")
        /\ r.lihat[u.run] = Tiada /\ r.isi[u.run].fungsi = u.fungsi
    BY <1>2, <1>5 DEF Berpasangan
  <2>2. u.run \in Obyek /\ u.run[1] = "run" /\ u.run[1] \in TabelIsian
    BY <2>1, LetakObyek, Letak DEF TabelIsian
  <2>3. B[u.run] = r.isi[u.run]
    BY <2>1, <2>2, BarisIsian
  <2>4. RunSah(db, B[u.run])
    BY <2>1, <2>2, <2>3 DEF RencanaKutipan
  <2>5. Nyata(B[u.run])
    BY <2>4, TandaBukanBaris DEF RunSah, Nyata
  <2>6. BerRun(B, u.run, u.fungsi)
    BY <2>1, <2>3, <2>5 DEF BerRun
  <2>. QED  BY <1>5, <2>1, <2>6
<1>6. CASE o \in DOMAIN r.isi /\ r.lihat[o] # Tiada /\ r.isi[o] = Bekas /\ B[o] = Bekas
  BY <1>6, PermintaanAssumption DEF Nyata
<1>7. CASE o \in DOMAIN r.isi /\ r.lihat[o] # Tiada /\ r.isi[o] # Bekas /\ Nyata(db[o])
              /\ B[o] = Timpa(db[o], r.isi[o])
  <2>1. UsulanBerubah(o, r.isi[o]) /\ UsulanSah(db, db[o])
    BY <1>2, <1>3, <1>7
  <2>2. UsulanSah(db, B[o]) /\ Nyata(B[o]) /\ B[o].fungsi = db[o].fungsi
    BY <1>7, <2>1, UsulanDitimpa
  <2>. QED  BY <1>7, <2>2 DEF UsulanSah, Nyata
<1>. QED  BY <1>1, <1>4, <1>5, <1>6, <1>7, BarisIsian

LEMMA PermintaanSimpan ==
  ASSUME Obyek = UNION {Rak(t) : t \in DOMAIN muat.tabel}, NEW r, NEW B, Jadinya(r, B),
         SitasiSah(db), RencanaKutipan(r), NEW o \in Obyek, o[1] = "permintaan"
  PROVE  /\ Nyata(B[o]) => B[o] \in BentukPermintaan /\ (BerRun(db, B[o].run, "P10") \/ BerRun(B, B[o].run, "P10"))
         /\ db[o] # Tiada => B[o] # Tiada
<1>1. o \in Rak("permintaan") /\ o[1] \in TabelIsian
  BY LetakObyek DEF TabelIsian
<1>2. o \in DOMAIN r.isi => IF r.lihat[o] = Tiada
        THEN r.isi[o] \in BentukPermintaan /\ Berpasangan(r, r.isi[o], "P10")
        ELSE r.isi[o] # Bekas => DOMAIN r.isi[o] \subseteq {"hasil"} /\ \A k \in DOMAIN r.isi[o] : r.isi[o][k] \in HasilDraf
  BY DEF RencanaKutipan
<1>3. Nyata(db[o]) => PermintaanSah(db, db[o])
  BY <1>1 DEF SitasiSah, Isi
<1>4. CASE o \notin DOMAIN r.isi /\ B[o] = db[o]
  BY <1>3, <1>4 DEF PermintaanSah
<1>5. CASE o \in DOMAIN r.isi /\ r.lihat[o] = Tiada /\ db[o] = Tiada /\ B[o] = r.isi[o]
  <2>. PICK u : u = r.isi[o]
    OBVIOUS
  <2>1. u \in BentukPermintaan /\ u.run \in DOMAIN r.isi /\ u.run \in Rak("run")
        /\ r.lihat[u.run] = Tiada /\ r.isi[u.run].fungsi = "P10"
    BY <1>2, <1>5 DEF Berpasangan
  <2>2. u.run \in Obyek /\ u.run[1] = "run" /\ u.run[1] \in TabelIsian
    BY <2>1, LetakObyek, Letak DEF TabelIsian
  <2>3. B[u.run] = r.isi[u.run]
    BY <2>1, <2>2, BarisIsian
  <2>4. RunSah(db, B[u.run])
    BY <2>1, <2>2, <2>3 DEF RencanaKutipan
  <2>5. Nyata(B[u.run])
    BY <2>4, TandaBukanBaris DEF RunSah, Nyata
  <2>6. BerRun(B, u.run, "P10")
    BY <2>1, <2>3, <2>5 DEF BerRun
  <2>. QED  BY <1>5, <2>1, <2>6
<1>6. CASE o \in DOMAIN r.isi /\ r.lihat[o] # Tiada /\ r.isi[o] = Bekas /\ B[o] = Bekas
  BY <1>6, PermintaanAssumption DEF Nyata
<1>7. CASE o \in DOMAIN r.isi /\ r.lihat[o] # Tiada /\ r.isi[o] # Bekas /\ Nyata(db[o])
              /\ B[o] = Timpa(db[o], r.isi[o])
  <2>1. PermintaanSah(db, B[o]) /\ Nyata(B[o])
    BY <1>2, <1>3, <1>7, PermintaanDitimpa
  <2>. QED  BY <2>1 DEF PermintaanSah, Nyata
<1>. QED  BY <1>1, <1>4, <1>5, <1>6, <1>7, BarisIsian

\* A source and an event stay, and what is relied on stays of the others.
LEMMA TumbuhSimpan ==
  ASSUME Obyek = UNION {Rak(t) : t \in DOMAIN muat.tabel}, NEW r, NEW B, Jadinya(r, B),
         IsianSah(db, tumpang), RencanaIsian(r)
  PROVE  Tumbuh(db, B)
<1>1. /\ PanggilanBerwenang(db) /\ SitasiSah(db)
      /\ RencanaPenyedia(r) /\ RencanaPanggilan(r) /\ RencanaKutipan(r)
  BY DEF IsianSah, RencanaIsian
<1>2. ASSUME NEW o \in Obyek, db[o] # Tiada, o[1] = "setelan_event" PROVE B[o] = db[o]
  <2>1. o[1] \in TabelIsian
    BY <1>2 DEF TabelIsian
  <2>2. o \in DOMAIN r.isi => r.lihat[o] = Tiada
    BY <1>1, <1>2 DEF RencanaPenyedia, Perubahan, TUNGGAL
  <2>. QED  BY <1>2, <2>1, <2>2, BarisIsian
<1>. QED  BY <1>1, <1>2, SumberSimpan, PanggilanSimpan, PanggilanAda, UsulanSimpan, PermintaanSimpan, RunSimpan
          DEF Tumbuh

LEMMA SitasiSimpan ==
  ASSUME Obyek = UNION {Rak(t) : t \in DOMAIN muat.tabel}, NEW r, NEW B, Jadinya(r, B),
         IsianSah(db, tumpang), RencanaIsian(r)
  PROVE  PanggilanBerwenang(B) /\ SitasiSah(B)
<1>1. /\ PanggilanBerwenang(db) /\ SitasiSah(db) /\ Tumbuh(db, B)
      /\ RencanaPanggilan(r) /\ RencanaKutipan(r)
  BY TumbuhSimpan DEF IsianSah, RencanaIsian
<1>2. \A t : \A o \in Isi(B, t) : o \in Obyek /\ o[1] = t /\ Nyata(B[o])
  BY LetakObyek, Letak DEF Isi
<1>3. PanggilanBerwenang(B)
  <2>1. \A o \in Isi(B, "panggilan") : Terlayani(db, B[o])
    BY <1>1, <1>2, PanggilanSimpan
  <2>. QED  BY <1>1, <2>1, TumbuhPanggilan DEF PanggilanBerwenang
<1>4. \A o \in Isi(B, "sumber") : SumberSah(B[o])
  BY <1>1, <1>2, SumberSimpan
<1>5. \A o \in Isi(B, "run") : RunSah(B, B[o])
  <2>1. \A o \in Isi(B, "run") : RunSah(db, B[o])
    BY <1>1, <1>2, RunSimpan
  <2>. QED  BY <1>1, <2>1, TumbuhSumber
<1>6. \A o \in Isi(B, "usulan") : UsulanSah(B, B[o])
  <2>1. ASSUME NEW o \in Isi(B, "usulan")
        PROVE  UsulanBerbentuk(B[o])
               /\ (BerRun(db, B[o].run, B[o].fungsi) \/ BerRun(B, B[o].run, B[o].fungsi))
               /\ (B[o].fungsi = "P01" /\ B[o].isi # Kosong => FaktaSah(db, B[o].isi))
    BY <1>1, <1>2, UsulanSimpan
  <2>. QED  BY <1>1, <2>1, TumbuhSumber DEF UsulanSah
<1>7. \A o \in Isi(B, "permintaan") : PermintaanSah(B, B[o])
  <2>1. ASSUME NEW o \in Isi(B, "permintaan")
        PROVE  B[o] \in BentukPermintaan /\ (BerRun(db, B[o].run, "P10") \/ BerRun(B, B[o].run, "P10"))
    BY <1>1, <1>2, PermintaanSimpan
  <2>. QED  BY <1>1, <2>1, TumbuhSumber DEF PermintaanSah
<1>8. \A o \in Isi(B, "versi") : VersiSah(B, B[o])
  <2>1. \A o \in Isi(B, "versi") : VersiSah(db, B[o])
    BY <1>1, <1>2, SumberSimpan
  <2>. QED  BY <1>1, <2>1, TumbuhSumber
<1>. QED  BY <1>3, <1>4, <1>5, <1>6, <1>7, <1>8 DEF SitasiSah

LEMMA IndukSimpan ==
  ASSUME Obyek = UNION {Rak(t) : t \in DOMAIN muat.tabel}, NEW r, NEW B, Jadinya(r, B),
         IndukSesuai, RencanaPenyedia(r), NEW o \in Rak("induk"), Nyata(B[o])
  PROVE  DOMAIN B[o] = {"kunci"} /\ B[o].kunci \in AtauKosong(IndukSah)
<1>1. o \in Obyek /\ o[1] = "induk" /\ o[1] \in TabelIsian
  BY LetakObyek, Letak DEF TabelIsian
<1>2. Nyata(db[o]) => DOMAIN db[o] = {"kunci"} /\ db[o].kunci \in AtauKosong(IndukSah)
  BY DEF IndukSesuai, Baris, Isi
<1>3. CASE o \notin DOMAIN r.isi /\ B[o] = db[o]
  BY <1>2, <1>3
<1>4. CASE o \in DOMAIN r.isi /\ r.lihat[o] # Tiada /\ r.isi[o] # Bekas /\ Nyata(db[o])
             /\ B[o] = Timpa(db[o], r.isi[o])
  <2>1. \A k \in DOMAIN r.isi[o] : r.isi[o][k] \in AtauKosong(IndukSah)
    BY <1>1, <1>4 DEF RencanaPenyedia
  <2>2. DOMAIN B[o] = DOMAIN db[o]
    BY <1>4, KolomTimpa
  <2>3. B[o].kunci \in {r.isi[o].kunci, db[o].kunci} /\ (B[o].kunci = db[o].kunci \/ "kunci" \in DOMAIN r.isi[o])
    BY <1>2, <1>4, KolomTimpa
  <2>. QED  BY <1>2, <1>4, <2>1, <2>2, <2>3
<1>. QED  BY <1>1, <1>3, <1>4, BarisIsian DEF RencanaPenyedia, Nyata

\* An event after all others is the last one of its kind, and of no other.
LEMMA AcaraMaju ==
  ASSUME NEW b, NEW c, NEW e, e \in Isi(c, "setelan_event"), e \notin Isi(b, "setelan_event"),
         Isi(c, "setelan_event") = Isi(b, "setelan_event") \cup {e}, e[2] \in Nat,
         \A x \in Isi(b, "setelan_event") : c[x] = b[x] /\ x[2] \in Nat /\ x[2] < e[2],
         NEW S
  PROVE  AcaraTerakhir(c, S) = IF c[e].aksi \in S THEN {c[e]} ELSE AcaraTerakhir(b, S)
<1>. DEFINE Beraksi(d) == {x \in Isi(d, "setelan_event") : d[x].aksi \in S}
<1>1. Beraksi(c) = IF c[e].aksi \in S THEN Beraksi(b) \cup {e} ELSE Beraksi(b)
  OBVIOUS
<1>2. \A x \in Beraksi(b) : c[x] = b[x] /\ x[2] \in Nat /\ x[2] < e[2]
  OBVIOUS
<1>3. AcaraTerakhir(c, S) = {c[x] : x \in Terakhir(Beraksi(c))} /\ AcaraTerakhir(b, S) = {b[x] : x \in Terakhir(Beraksi(b))}
  BY DEF AcaraTerakhir
<1>. HIDE DEF Beraksi
<1>4. CASE c[e].aksi \in S
  <2>1. Terakhir(Beraksi(c)) = {e}
    BY <1>1, <1>2, <1>4 DEF Terakhir
  <2>. QED  BY <1>3, <1>4, <2>1
<1>5. CASE c[e].aksi \notin S
  <2>1. \A x \in Terakhir(Beraksi(b)) : c[x] = b[x]
    BY <1>2 DEF Terakhir
  <2>2. {c[x] : x \in Terakhir(Beraksi(b))} = {b[x] : x \in Terakhir(Beraksi(b))}
    BY <2>1
  <2>. QED  BY <1>1, <1>3, <1>5, <2>2
<1>. QED  BY <1>4, <1>5

LEMMA PerubahanKolom ==
  ASSUME NEW u \in PerubahanSetelan
  PROVE  \E d \in KolomSetelan : DOMAIN u \subseteq DOMAIN d /\ \A k \in DOMAIN u : u[k] = d[k]
<1>. DEFINE P(S) == {[k \in S |-> d[k]] : d \in KolomSetelan}
            Kol == {"mode", "model", "effort", "kunci", "akhiran"}
<1>1. u \in UNION {P(S) : S \in SUBSET Kol}
  BY DEF PerubahanSetelan
<1>. HIDE DEF P
<1>2. PICK S \in SUBSET Kol : u \in P(S)
  BY <1>1
<1>3. PICK d \in KolomSetelan : u = [k \in S |-> d[k]]
  BY <1>2 DEF P
<1>4. DOMAIN d = Kol
  BY DEF KolomSetelan
<1>. QED  BY <1>3, <1>4

\* The change that an event tells makes the settings those of the longer ledger.
LEMMA SesuaiMaju ==
  ASSUME NEW b, NEW c, NEW a, NEW s, s = BarisTunggal(b), NEW n, n = BarisTunggal(c),
         SesuaiAcara(b), SesuaiAksi(a, s, n), a \in Acara,
         \A S : AcaraTerakhir(c, S) = IF a.aksi \in S THEN {a} ELSE AcaraTerakhir(b, S)
  PROVE  SesuaiAcara(c)
<1>1. a.aksi \in {"UBAH_MODE", "UBAH_MODEL", "PASANG_KREDENSIAL", "HAPUS_KREDENSIAL"}
  BY DEF Acara
<1>2. /\ s.mode \in IF AcaraTerakhir(b, {"UBAH_MODE"}) = {} THEN {"MATI"}
                    ELSE {e.mode : e \in AcaraTerakhir(b, {"UBAH_MODE"})}
      /\ <<s.model, s.effort>> \in
           IF AcaraTerakhir(b, {"UBAH_MODEL"}) = {} THEN {<<Kosong, Kosong>>}
           ELSE {<<e.model, e.effort>> : e \in AcaraTerakhir(b, {"UBAH_MODEL"})}
      /\ s.akhiran = IF s.kunci = Kosong THEN Kosong ELSE s.kunci[2][2]
      /\ \A e \in AcaraTerakhir(b, {"PASANG_KREDENSIAL", "HAPUS_KREDENSIAL"}) :
           IF e.aksi = "PASANG_KREDENSIAL" THEN s.akhiran = e.akhiran ELSE s.kunci = Kosong
  BY DEF SesuaiAcara
<1>3. n.mode \in IF AcaraTerakhir(c, {"UBAH_MODE"}) = {} THEN {"MATI"}
                 ELSE {e.mode : e \in AcaraTerakhir(c, {"UBAH_MODE"})}
  <2>1. CASE a.aksi = "UBAH_MODE"
    <3>1. AcaraTerakhir(c, {"UBAH_MODE"}) = {a} /\ n.mode = a.mode
      BY <2>1 DEF SesuaiAksi
    <3>. QED  BY <3>1
  <2>2. CASE a.aksi # "UBAH_MODE"
    <3>1. AcaraTerakhir(c, {"UBAH_MODE"}) = AcaraTerakhir(b, {"UBAH_MODE"}) /\ n.mode = s.mode
      BY <2>2 DEF SesuaiAksi
    <3>. QED  BY <1>2, <3>1
  <2>. QED  BY <2>1, <2>2
<1>4. <<n.model, n.effort>> \in
        IF AcaraTerakhir(c, {"UBAH_MODEL"}) = {} THEN {<<Kosong, Kosong>>}
        ELSE {<<e.model, e.effort>> : e \in AcaraTerakhir(c, {"UBAH_MODEL"})}
  <2>1. CASE a.aksi = "UBAH_MODEL"
    <3>1. AcaraTerakhir(c, {"UBAH_MODEL"}) = {a} /\ <<n.model, n.effort>> = <<a.model, a.effort>>
      BY <2>1 DEF SesuaiAksi
    <3>. QED  BY <3>1
  <2>2. CASE a.aksi # "UBAH_MODEL"
    <3>1. AcaraTerakhir(c, {"UBAH_MODEL"}) = AcaraTerakhir(b, {"UBAH_MODEL"})
          /\ <<n.model, n.effort>> = <<s.model, s.effort>>
      BY <2>2 DEF SesuaiAksi
    <3>. QED  BY <1>2, <3>1
  <2>. QED  BY <2>1, <2>2
<1>5. n.akhiran = IF n.kunci = Kosong THEN Kosong ELSE n.kunci[2][2]
  BY <1>2 DEF SesuaiAksi
<1>6. \A e \in AcaraTerakhir(c, {"PASANG_KREDENSIAL", "HAPUS_KREDENSIAL"}) :
        IF e.aksi = "PASANG_KREDENSIAL" THEN n.akhiran = e.akhiran ELSE n.kunci = Kosong
  <2>1. CASE a.aksi \in {"PASANG_KREDENSIAL", "HAPUS_KREDENSIAL"}
    <3>1. AcaraTerakhir(c, {"PASANG_KREDENSIAL", "HAPUS_KREDENSIAL"}) = {a}
      BY <2>1
    <3>2. IF a.aksi = "PASANG_KREDENSIAL" THEN n.akhiran = a.akhiran ELSE n.kunci = Kosong
      BY <2>1 DEF SesuaiAksi
    <3>. QED  BY <3>1, <3>2
  <2>2. CASE a.aksi \notin {"PASANG_KREDENSIAL", "HAPUS_KREDENSIAL"}
    <3>1. AcaraTerakhir(c, {"PASANG_KREDENSIAL", "HAPUS_KREDENSIAL"})
            = AcaraTerakhir(b, {"PASANG_KREDENSIAL", "HAPUS_KREDENSIAL"})
      BY <2>2
    <3>2. n.kunci = s.kunci /\ n.akhiran = s.akhiran
      BY <2>2 DEF SesuaiAksi
    <3>. QED  BY <1>2, <3>1, <3>2
  <2>. QED  BY <2>1, <2>2
<1>. QED  BY <1>3, <1>4, <1>5, <1>6 DEF SesuaiAcara

LEMMA SetelanSimpan ==
  ASSUME IndInv, NEW r, DOMAIN r.isi \subseteq DOMAIN r.lihat, NEW B, Jadinya(r, B), NEW T, Segar(r, T),
         SetelanSah(db, tumpang), RencanaTempat(r), RencanaPenyedia(r)
  PROVE  SetelanSah(B, T)
<1>1. tumpang \subseteq T /\ Obyek = UNION {Rak(t) : t \in DOMAIN muat.tabel} /\ muat \in Muatan
  BY DEF Segar, IndInv
<1>2. CASE \A o \in DOMAIN r.isi : o[1] \notin {"setelan", "setelan_event"}
  <2>1. \A o \in Obyek : o[1] \in {"setelan", "setelan_event"} => B[o] = db[o]
    BY <1>2, BarisIsian DEF TabelIsian
  <2>. QED  BY <1>1, <2>1, SetelanPindah
<1>3. CASE \E o \in DOMAIN r.isi : o[1] \in {"setelan", "setelan_event"}
  <2>1. PICK e \in Rak("setelan_event") : Perubahan(r, e)
    BY <1>3 DEF RencanaPenyedia
  <2>. PICK a, u, s : a = r.isi[e] /\ u = r.isi[TUNGGAL] /\ s = BarisTunggal(db)
    OBVIOUS
  <2>2. /\ DOMAIN r.isi = {e, TUNGGAL} /\ a \in Acara /\ r.lihat[e] = Tiada
        /\ \A x \in Rak("setelan_event") : x \in DOMAIN r.lihat /\ (Nyata(r.lihat[x]) => x[2] < e[2])
        /\ IF r.lihat[TUNGGAL] = Tiada THEN u \in KolomSetelan ELSE u \in PerubahanSetelan
        /\ "kunci" \in DOMAIN u /\ u.kunci # Kosong => a.aksi = "PASANG_KREDENSIAL" /\ a.akhiran = u.kunci[2][2]
        /\ SesuaiAksi(a, LamaSetelan(r), Jadi(r, TUNGGAL))
    BY <2>1 DEF Perubahan
  <2>3. /\ e[1] = "setelan_event" /\ TUNGGAL[1] = "setelan" /\ TUNGGAL \in Rak("setelan")
        /\ TUNGGAL \in Obyek /\ e \in Obyek /\ e[2] \in Nat
        /\ TUNGGAL[1] \in TabelIsian /\ e[1] \in TabelIsian
    BY <1>1, TempatTunggal, Letak, LetakObyek DEF TabelIsian
  <2>4. db[e] = Tiada /\ B[e] = a /\ Nyata(a)
    <3>1. Nyata(a)
      BY <2>2, TandaBukanBaris DEF Nyata
    <3>. QED  BY <2>2, <2>3, <3>1, BarisIsian
  <2>5. \A x \in Rak("setelan_event") \ {e} : B[x] = db[x]
    <3>1. \A x \in Rak("setelan_event") \ {e} : x \in Obyek /\ x[1] = "setelan_event" /\ x[1] \in TabelIsian /\ x # TUNGGAL
      BY <1>1, <2>3, Letak, LetakObyek DEF TabelIsian
    <3>. QED  BY <2>2, <3>1, BarisIsian
  <2>6. /\ e \in Isi(B, "setelan_event") /\ e \notin Isi(db, "setelan_event")
        /\ Isi(B, "setelan_event") = Isi(db, "setelan_event") \cup {e}
        /\ \A x \in Isi(db, "setelan_event") : B[x] = db[x] /\ x[2] \in Nat
    <3>1. \A x \in Rak("setelan_event") : x[2] \in Nat
      BY Letak
    <3>. QED  BY <2>4, <2>5, <3>1 DEF Isi, Nyata
  <2>7. \A x : Terpasang(db, x) => Terpasang(B, x)
    BY <2>6 DEF Terpasang
  <2>8. s \in KolomSetelan /\ (s.kunci # Kosong => Terpasang(db, s.kunci[2][2])) /\ db[TUNGGAL] # Bekas
    BY <2>3 DEF SetelanSah
  <2>9. Nyata(db[TUNGGAL]) => s = db[TUNGGAL]
    BY <2>3 DEF BarisTunggal, Isi
  <2>10. PICK n : n = B[TUNGGAL]
    OBVIOUS
  <2>11. \/ r.lihat[TUNGGAL] = Tiada /\ db[TUNGGAL] = Tiada /\ n = u
         \/ r.lihat[TUNGGAL] # Tiada /\ s = db[TUNGGAL] /\ n = Timpa(s, u)
    <3>1. CASE r.lihat[TUNGGAL] = Tiada
      BY <2>2, <2>3, <2>10, <3>1, BarisIsian
    <3>2. CASE r.lihat[TUNGGAL] # Tiada
      <4>1. u # Bekas
        BY <2>2, <3>2, TandaBukanBaris
      <4>. QED  BY <2>2, <2>3, <2>9, <2>10, <3>2, <4>1, BarisIsian
    <3>. QED  BY <3>1, <3>2
  <2>12. n \in KolomSetelan
    <3>1. CASE r.lihat[TUNGGAL] = Tiada
      BY <2>2, <2>11, <3>1
    <3>2. CASE r.lihat[TUNGGAL] # Tiada
      <4>1. u \in PerubahanSetelan
        BY <2>2, <3>2
      <4>2. PICK d \in KolomSetelan : DOMAIN u \subseteq DOMAIN d /\ \A k \in DOMAIN u : u[k] = d[k]
        BY <4>1, PerubahanKolom
      <4>3. Timpa(s, u) \in KolomSetelan
        BY <2>8, <4>2, BentukSetelan
      <4>. QED  BY <2>11, <3>2, <4>3
    <3>. QED  BY <3>1, <3>2
  <2>13. Nyata(n)
    <3>1. DOMAIN n = {"mode", "model", "effort", "kunci", "akhiran"}
      BY <2>12 DEF KolomSetelan
    <3>2. n = [k \in DOMAIN n |-> n[k]]
      BY <2>12 DEF KolomSetelan
    <3>3. n \in PerubahanSetelan
      BY <2>12, <3>2, BagianSetelan
    <3>. QED  BY <3>3, TandaBukanBaris DEF Nyata
  <2>14. n = BarisTunggal(B) /\ B[TUNGGAL] # Bekas
    BY <2>3, <2>10, <2>13 DEF BarisTunggal, Isi, Nyata
  <2>15. n.kunci # Kosong => Terpasang(B, n.kunci[2][2])
    <3>. SUFFICES ASSUME n.kunci # Kosong PROVE Terpasang(B, n.kunci[2][2])
      OBVIOUS
    <3>1. CASE "kunci" \in DOMAIN u /\ n.kunci = u.kunci
      BY <2>2, <2>4, <2>6, <3>1 DEF Terpasang
    <3>2. CASE n.kunci = s.kunci
      BY <2>7, <2>8, <3>2
    <3>3. DOMAIN n = {"mode", "model", "effort", "kunci", "akhiran"} /\ DOMAIN s = DOMAIN n
      BY <2>8, <2>12 DEF KolomSetelan
    <3>4. "kunci" \in DOMAIN n /\ "kunci" \in DOMAIN s
      BY <3>3
    <3>. QED  BY <2>11, <3>1, <3>2, <3>4, KolomTimpa
  <2>16. ASSUME TUNGGAL \notin T PROVE SesuaiAcara(B)
    <3>1. \A c \in DOMAIN r.lihat : r.lihat[c] = db[c]
      BY <2>2, <2>16 DEF Segar
    <3>2. SesuaiAcara(db)
      BY <1>1, <2>16 DEF SetelanSah
    <3>3. r.lihat[TUNGGAL] = db[TUNGGAL]
      BY <2>2, <3>1
    <3>4. LamaSetelan(r) = s
      <4>1. CASE db[TUNGGAL] = Tiada
        BY <3>3, <4>1 DEF LamaSetelan, BarisTunggal, Isi, Nyata
      <4>2. CASE db[TUNGGAL] # Tiada
        BY <2>8, <2>9, <3>3, <4>2 DEF LamaSetelan, Nyata
      <4>. QED  BY <4>1, <4>2
    <3>5. Jadi(r, TUNGGAL) = n
      BY <2>11, <3>3 DEF Jadi
    <3>6. \A x \in Isi(db, "setelan_event") : B[x] = db[x] /\ x[2] \in Nat /\ x[2] < e[2]
      BY <2>2, <2>6, <3>1 DEF Isi
    <3>7. \A S : AcaraTerakhir(B, S) = IF a.aksi \in S THEN {a} ELSE AcaraTerakhir(db, S)
      BY <2>3, <2>4, <2>6, <3>6, AcaraMaju
    <3>8. SesuaiAksi(a, s, n)
      BY <2>2, <3>4, <3>5
    <3>. QED  BY <2>2, <2>14, <3>2, <3>7, <3>8, SesuaiMaju
  <2>. QED  BY <2>12, <2>14, <2>15, <2>16 DEF SetelanSah
<1>. QED  BY <1>2, <1>3

-------------------------------------------------------------------------------
(* The second invariant, step by step.                                       *)

\* Plans that go on while the rows grow, and plans of other tables.
LEMMA IsianRencana ==
  ASSUME IndInv, IndIsian, UNCHANGED muat, Tumbuh(db, db'), NEW q \in Proses,
         rencana'[q] # Tiada, rencana'[q] = rencana[q]
  PROVE  (RencanaTempat(rencana[q]) /\ RencanaIsian(rencana[q]))'
<1>. PICK r : r = rencana[q]
  OBVIOUS
<1>1. RencanaTempat(r) /\ RencanaIsian(r)
  BY DEF IndIsian
<1>2. RencanaTempat(r)' /\ RencanaIsian(r)'
  BY <1>1, RencanaIsianTetap DEF IndInv
<1>. QED  BY <1>2

LEMMA RencanaLain ==
  ASSUME NEW n, \A o \in DOMAIN n.isi : o[1] \notin TabelIsian
  PROVE  RencanaTempat(n)' /\ RencanaIsian(n)'
<1>1. RencanaTempat(n)' /\ RencanaPenyedia(n)'
  BY DEF RencanaTempat, RencanaPenyedia, TabelIsian
<1>2. RencanaPanggilan(n)'
  BY DEF RencanaPanggilan, TabelIsian
<1>3. RencanaKutipan(n)'
  BY DEF RencanaKutipan, TabelIsian
<1>. QED  BY <1>1, <1>2, <1>3 DEF RencanaIsian

\* Steps that do not write these rows.
LEMMA IsianTetap ==
  ASSUME IndInv, IndIsian, Diam, tumpang \subseteq tumpang',
         \A t \in TabelIsian : \A o \in Rak(t) : db'[o] = db[o],
         \A c \in Rak("cadangan") : db'[c] = db[c] \/ IsianSah(Dipulihkan(c), tumpang)',
         \A q \in Proses : rencana'[q] # Tiada => rencana'[q] = rencana[q]
           \/ (RencanaTempat(rencana[q]) /\ RencanaIsian(rencana[q]))'
  PROVE  IndIsian'
<1>. PICK B, T : B = db' /\ T = tumpang'
  OBVIOUS
<1>1. \A o \in Obyek : o[1] \in TabelIsian => B[o] = db[o]
  BY LetakObyek DEF IndInv
<1>2. IsianSah(db, tumpang)'
  <2>1. IsianSah(B, T)
    BY <1>1, IsianPindah DEF IndInv, IndIsian
  <2>. QED  BY <2>1, IsianAlih DEF Diam
<1>3. IndukSesuai'
  BY DEF IndIsian, IndukSesuai, Baris, Isi, Rak, Nyata, Diam, TabelIsian
<1>4. ASSUME NEW c \in Baris("cadangan")', db'[c].utuh PROVE IsianSah(Dipulihkan(c), tumpang)'
  <2>1. c \in Rak("cadangan")
    BY DEF Baris, Isi, Rak, Diam
  <2>2. CASE db'[c] = db[c]
    <3>1. c \in Baris("cadangan")
      BY <2>2 DEF Baris, Isi, Rak, Nyata, Diam
    <3>. QED  BY <1>4, <2>2, <3>1, CadanganIsian
  <2>. QED  BY <2>1, <2>2
<1>5. Tumbuh(db, B)
  BY <1>1 DEF Tumbuh, TabelIsian
<1>6. ASSUME NEW q \in Proses, rencana'[q] # Tiada
      PROVE  (RencanaTempat(rencana[q]) /\ RencanaIsian(rencana[q]))'
  BY <1>5, <1>6, IsianRencana DEF Diam
<1>. QED  BY <1>2, <1>3, <1>4, <1>6 DEF IndIsian

LEMMA SimpanIsian ==
  ASSUME IndInv, IndIsian, NEW p \in Proses, Simpan(p)
  PROVE  IndIsian'
<1>. PICK r, B, H, T : r = rencana[p] /\ B = db' /\ H = riwayat' /\ T = tumpang'
  OBVIOUS
<1>1. /\ Diam /\ Umum(p, r) /\ Jadinya(r, B) /\ Segar(r, T) /\ rencana' = [rencana EXCEPT ![p] = Tiada]
      /\ r # Tiada
  BY SimpanDasar DEF Simpan
<1>2. RencanaTempat(r) /\ RencanaIsian(r) /\ RencanaPenyedia(r)
  BY <1>1 DEF IndIsian, RencanaIsian
<1>3. Obyek = UNION {Rak(t) : t \in DOMAIN muat.tabel} /\ IsianSah(db, tumpang) /\ SetelanSah(db, tumpang) /\ IndukSesuai
  BY DEF IndInv, IndIsian, IsianSah
<1>4. SetelanSah(B, T)
  BY <1>1, <1>2, <1>3, SetelanSimpan DEF Umum
<1>5. IsianSah(B, T)
  BY <1>1, <1>2, <1>3, <1>4, SitasiSimpan DEF IsianSah
<1>6. IsianSah(db, tumpang)'
  BY <1>1, <1>5, IsianAlih DEF Diam
<1>7. IndukSesuai'
  <2>1. \A o \in Rak("induk") : Nyata(B[o]) => DOMAIN B[o] = {"kunci"} /\ B[o].kunci \in AtauKosong(IndukSah)
    BY <1>1, <1>2, <1>3, IndukSimpan
  <2>. QED  BY <1>1, <2>1 DEF IndukSesuai, Baris, Isi, Rak, Nyata, Diam
<1>8. ASSUME NEW c \in Baris("cadangan")', db'[c].utuh PROVE IsianSah(Dipulihkan(c), tumpang)'
  <2>1. \A o \in Rak("cadangan") : B[o] = db[o]
    BY <1>1, SimpanBaris
  <2>2. c \in Baris("cadangan") /\ db'[c] = db[c]
    BY <1>1, <2>1 DEF Baris, Isi, Rak, Nyata, Diam
  <2>3. tumpang \subseteq tumpang'
    BY <1>1 DEF Segar
  <2>. QED  BY <1>1, <1>8, <2>2, <2>3, CadanganIsian
<1>9. ASSUME NEW q \in Proses, rencana'[q] # Tiada
      PROVE  (RencanaTempat(rencana[q]) /\ RencanaIsian(rencana[q]))'
  <2>1. rencana'[q] = rencana[q]
    BY <1>1, <1>9 DEF IndInv
  <2>2. Tumbuh(db, B)
    BY <1>1, <1>2, <1>3, TumbuhSimpan
  <2>. QED  BY <1>1, <1>9, <2>1, <2>2, IsianRencana DEF Diam
<1>. QED  BY <1>6, <1>7, <1>8, <1>9 DEF IndIsian

LEMMA TerencanaIsian ==
  ASSUME IndInv, IndIsian, NEW p \in Proses, Terencana(p)
  PROVE  IndIsian'
<1>1. PICK baca, isi, syarat : RencanakanBila(p, baca, isi, syarat) /\ Layak(baca, isi, syarat)
  BY DEF Terencana
<1>. PICK n : n = Rancangan(baca, isi, syarat)
  OBVIOUS
<1>2. UNCHANGED <<muat, db, riwayat, tumpang>> /\ rencana' = [rencana EXCEPT ![p] = n]
  BY <1>1 DEF RencanakanBila, Rancangan
<1>3. rencana'[p] = n /\ \A q \in Proses : q # p => rencana'[q] = rencana[q]
  BY <1>2 DEF IndInv
<1>4. RencanaTempat(n) /\ RencanaIsian(n)
  BY <1>1 DEF Layak, Berisi, IndIsian
<1>5. Tumbuh(db, db')
  BY <1>2 DEF Tumbuh
<1>6. RencanaTempat(n)' /\ RencanaIsian(n)'
  BY <1>2, <1>4, <1>5, RencanaIsianTetap DEF IndInv
<1>7. (RencanaTempat(rencana[p]) /\ RencanaIsian(rencana[p]))'
  BY <1>3, <1>6
<1>8. Diam /\ tumpang \subseteq tumpang'
  BY <1>2 DEF Diam, Obyek
<1>. QED  BY <1>2, <1>3, <1>7, <1>8, IsianTetap

\* Pages, accounts, dumps, and what ends a restore or a plan.
LEMMA HalamanIsian ==
  ASSUME IndInv, IndIsian, Melayani, NEW p \in Proses, BacaHalaman(p)
  PROVE  IndIsian'
<1>1. PICK o, isi :
        /\ rencana[p] # Tiada /\ o \in DOMAIN rencana[p].isi /\ db' = [db EXCEPT ![o] = isi]
        /\ tumpang' = (IF Basi(p) THEN tumpang \cup {o} ELSE tumpang)
        /\ rencana' = [rencana EXCEPT ![p] = Tiada] /\ UNCHANGED <<muat, riwayat>>
        /\ \E h \in DOMAIN rencana[p].isi : h[1] = "halaman"
  BY DEF BacaHalaman, Setengah
<1>2. RencanaBiasa(p, rencana[p])
  BY <1>1, RencanaDilayani, Letak DEF RencanaPulih
<1>3. o[1] = "halaman"
  BY <1>1, <1>2 DEF RencanaBiasa
<1>4. Diam /\ tumpang \subseteq tumpang'
  BY <1>1 DEF Diam, Obyek
<1>5. \A t : t # "halaman" => \A c \in Rak(t) : db'[c] = db[c]
  BY <1>1, <1>3, Letak
<1>6. \A t \in TabelIsian \cup {"cadangan"} : \A c \in Rak(t) : db'[c] = db[c]
  BY <1>5 DEF TabelIsian
<1>7. \A q \in Proses : rencana'[q] # Tiada => rencana'[q] = rencana[q]
  BY <1>1 DEF IndInv
<1>. QED  BY <1>4, <1>6, <1>7, IsianTetap

LEMMA BackupIsian ==
  ASSUME IndInv, IndIsian, NEW p \in Proses, Backup(p)
  PROVE  IndIsian'
<1>1. PICK o \in BarisBaru("cadangan"), utuh \in BOOLEAN :
        db' = [db EXCEPT ![o] = [utuh |-> utuh, isi |-> [x \in Dicadangkan |-> db[x]],
                                 riwayat |-> [x \in Dicadangkan |-> riwayat[x]]]]
  BY DEF Backup
<1>2. UNCHANGED <<muat, rencana, tumpang>>
  BY DEF Backup
<1>3. o \in Rak("cadangan") /\ o[1] = "cadangan" /\ o \in Obyek
  BY Tempatan, LetakObyek, Letak DEF IndInv
<1>4. Diam
  BY <1>1, <1>2 DEF Diam, Obyek
<1>5. \A t \in TabelIsian : \A c \in Rak(t) : db'[c] = db[c]
  BY <1>1, <1>3, Letak DEF TabelIsian
<1>6. IsianSah(Dipulihkan(o), tumpang)'
  <2>. PICK B, T : B = Dipulihkan(o)' /\ T = tumpang'
    OBVIOUS
  <2>1. db'[o].isi = [x \in Dicadangkan |-> db[x]]
    BY <1>1, <1>3 DEF Obyek
  <2>2. Dicadangkan' = Dicadangkan
    BY <1>4 DEF Dicadangkan, Diam
  <2>3. \A x \in Obyek : x[1] \notin Luar => B[x] = db[x]
    BY <1>4, <2>1, <2>2 DEF Dipulihkan, Dicadangkan, Diam
  <2>4. \A x \in Obyek : x[1] \in TabelIsian \ {"induk"} => B[x] = db[x]
    BY <2>3 DEF TabelIsian, Luar
  <2>5. IsianSah(B, T)
    BY <1>2, <2>4, IsianPindah DEF IndInv, IndIsian
  <2>. QED  BY <1>4, <2>5, IsianAlih DEF Diam
<1>7. \A c \in Rak("cadangan") : db'[c] = db[c] \/ IsianSah(Dipulihkan(c), tumpang)'
  <2>1. \A c \in Rak("cadangan") : c # o => db'[c] = db[c]
    BY <1>1
  <2>. QED  BY <1>6, <2>1
<1>. QED  BY <1>2, <1>4, <1>5, <1>7, IsianTetap

LEMMA DaftarIsian ==
  ASSUME IndInv, IndIsian, NEW p \in Proses, BuatPartisipan(p)
  PROVE  IndIsian'
<1>1. PICK d \in PartisipanCreate :
        /\ BuatAkun(d.email)
        /\ PartisipanBaru(p, [subjek |-> d.email, email |-> d.email, isi |-> d.isi]) \/ UNCHANGED rencana
  BY DEF BuatPartisipan
<1>2. UNCHANGED <<muat, riwayat, tumpang>> /\ db' = [db EXCEPT ![d.email] = [ada |-> TRUE]]
  BY <1>1 DEF BuatPartisipan, BuatAkun
<1>3. d.email[1] = "akun"
  BY Letak DEF PartisipanCreate, Akun
<1>4. Diam
  BY <1>2 DEF Diam, Obyek
<1>5. \A t \in TabelIsian \cup {"cadangan"} : \A c \in Rak(t) : db'[c] = db[c]
  BY <1>2, <1>3, Letak DEF TabelIsian
<1>6. ASSUME NEW q \in Proses, rencana'[q] # Tiada
      PROVE  rencana'[q] = rencana[q] \/ (RencanaTempat(rencana[q]) /\ RencanaIsian(rencana[q]))'
  <2>1. CASE UNCHANGED rencana
    BY <2>1
  <2>2. CASE PartisipanBaru(p, [subjek |-> d.email, email |-> d.email, isi |-> d.isi])
    <3>. DEFINE baris == [subjek |-> d.email, email |-> d.email, isi |-> d.isi]
    <3>1. PICK b \in BarisBaru("partisipan") : rencana' = [rencana EXCEPT ![p] =
             [lihat |-> [x \in {b} |-> Tiada], isi |-> [x \in {b} |-> baris], syarat |-> {}]]
      BY <2>2 DEF PartisipanBaru
    <3>. PICK n : n = [lihat |-> [x \in {b} |-> Tiada], isi |-> [x \in {b} |-> baris], syarat |-> {}]
      OBVIOUS
    <3>2. rencana'[p] = n /\ \A x \in Proses : x # p => rencana'[x] = rencana[x]
      BY <3>1 DEF IndInv
    <3>3. \A o \in DOMAIN n.isi : o[1] \notin TabelIsian
      BY Tempatan, Letak DEF TabelIsian
    <3>4. RencanaTempat(n)' /\ RencanaIsian(n)'
      BY <3>3, RencanaLain
    <3>5. (RencanaTempat(rencana[p]) /\ RencanaIsian(rencana[p]))'
      BY <3>2, <3>4
    <3>. QED  BY <3>2, <3>5
  <2>. QED  BY <1>1, <2>1, <2>2
<1>. QED  BY <1>2, <1>4, <1>5, <1>6, IsianTetap

LEMMA HasilIsian ==
  ASSUME IndInv, IndIsian, NEW p \in Proses, HasilPulih(p)
  PROVE  IndIsian'
<1>1. \A t : t # "pulih" => \A c \in Rak(t) : db'[c] = db[c]
  BY HasilMenjaga
<1>2. /\ UNCHANGED <<muat, tumpang>> /\ rencana' = [rencana EXCEPT ![p] = Tiada]
      /\ \E o : db' = [db EXCEPT ![o].jawab = Peringatan(p, o)]
  BY DEF HasilPulih
<1>3. Diam
  BY <1>2 DEF Diam, Obyek
<1>4. \A t \in TabelIsian \cup {"cadangan"} : \A c \in Rak(t) : db'[c] = db[c]
  BY <1>1 DEF TabelIsian
<1>5. \A q \in Proses : rencana'[q] # Tiada => rencana'[q] = rencana[q]
  BY <1>2 DEF IndInv
<1>. QED  BY <1>2, <1>3, <1>4, <1>5, IsianTetap

LEMMA GagalIsian ==
  ASSUME IndInv, IndIsian, NEW p \in Proses, Gagal(p)
  PROVE  IndIsian'
<1>1. UNCHANGED <<muat, db, tumpang>> /\ \A q \in Proses : rencana'[q] # Tiada => rencana'[q] = rencana[q]
  BY DEF Gagal, IndInv
<1>. QED  BY <1>1, IsianTetap DEF Diam, Obyek

\* The start of a container.
LEMMA MulaiIsian ==
  ASSUME IndInv, IndIsian, Mulai
  PROVE  IndIsian'
<1>1. PICK o \in IF Melayani THEN BarisBaru("boot") ELSE {StartTerakhir},
           h \in IF Melayani THEN {HeadKode, HeadKode + 1} \cap Rilis ELSE {HeadKode} :
        db' = [x \in Obyek |-> CASE x = o -> [tahap |-> "migrasi", head |-> h]
                                 [] x \in Baris("pulih") -> Bekas
                                 [] OTHER -> db[x]]
  BY DEF Mulai
<1>2. Baris("boot") # {} /\ rencana' = [p \in Proses |-> Tiada] /\ UNCHANGED <<muat, tumpang>>
  BY DEF Mulai
<1>3. Diam
  BY <1>1, <1>2 DEF Diam, Obyek
<1>. o \in Rak("boot")
  BY <1>2, KepalaRilis, Tempatan
<1>4. \A t : \A x \in Rak(t) : x \in Obyek /\ x[1] = t /\ (x \in Baris("pulih") => t = "pulih")
  BY LetakObyek, Letak, Tempatan DEF IndInv
<1>5. \A t : \A x \in Rak(t) : t \notin {"boot", "pulih"} => db'[x] = db[x]
  BY <1>1, <1>4
<1>6. \A t \in TabelIsian \cup {"cadangan"} : \A c \in Rak(t) : db'[c] = db[c]
  BY <1>5 DEF TabelIsian
<1>. QED  BY <1>2, <1>3, <1>6, IsianTetap

LEMMA LanjutIsian ==
  ASSUME IndInv, IndIsian, TanpaIsi
  PROVE  IndIsian'
<1>1. ASSUME NEW q \in Proses, rencana'[q] # Tiada
      PROVE  (RencanaTempat(rencana[q]) /\ RencanaIsian(rencana[q]))'
  <2>. PICK n : n = rencana'[q]
    OBVIOUS
  <2>1. \A o \in DOMAIN n.isi : o[1] \notin TabelIsian
    BY <1>1 DEF TanpaIsi
  <2>2. RencanaTempat(n)' /\ RencanaIsian(n)'
    BY <2>1, RencanaLain
  <2>. QED  BY <2>2
<1>. QED  BY <1>1, IsianTetap DEF TanpaIsi

\* A dump is restored: its rows are right, and no plan but the answers is left.
LEMMA PulihIsian ==
  ASSUME IndInv, IndIsian, Melayani, NEW p \in Proses, Pulihkan(p)
  PROVE  IndIsian'
<1>1. PICK c \in Baris("cadangan"), o \in BarisBaru("pulih") :
        /\ db[c].utuh /\ db' = [Dipulihkan(c) EXCEPT ![o] = [jawab |-> Tiada]]
        /\ rencana' = [rencana EXCEPT ![p] =
             [lihat |-> <<>>, isi |-> [x \in {o} |-> [awal |-> Revisi]], syarat |-> {}]]
  BY DEF Pulihkan
<1>. PICK n : n = [lihat |-> <<>>, isi |-> [x \in {o} |-> [awal |-> Revisi]], syarat |-> {}]
  OBVIOUS
<1>2. /\ UNCHANGED <<muat, tumpang>> /\ rencana[p] = Tiada
      /\ \A q \in Proses : rencana[q] = Tiada \/ Menjawab(q)
  BY DEF Pulihkan, Luang
<1>3. o \in Rak("pulih") /\ o[1] = "pulih" /\ o \in Obyek
  BY Tempatan, LetakObyek, Letak DEF IndInv
<1>4. rencana'[p] = n /\ DOMAIN n.isi = {o} /\ \A q \in Proses : q # p => rencana'[q] = rencana[q]
  BY <1>1 DEF IndInv
<1>. PICK B, T : B = db' /\ T = tumpang'
  OBVIOUS
<1>5. DOMAIN B = Obyek /\ \A x \in Obyek \ {o} : B[x] = Dipulihkan(c)[x]
  BY <1>1, <1>3 DEF Dipulihkan
<1>6. Diam
  BY <1>2, <1>5 DEF Diam, Obyek
<1>7. \A t \in Luar \ {"pulih"} : \A x \in Rak(t) : db'[x] = db[x]
  <2>1. \A t \in Luar : \A x \in Rak(t) : x \in Obyek /\ x \notin Dicadangkan /\ x[1] = t
    BY LetakObyek, Letak DEF IndInv, Dicadangkan
  <2>. QED  BY <1>3, <1>5, <2>1 DEF Dipulihkan
<1>8. IsianSah(db, tumpang)'
  <2>1. IsianSah(Dipulihkan(c), tumpang)
    BY <1>1 DEF IndIsian
  <2>2. \A x \in Obyek : x[1] \in TabelIsian \ {"induk"} => B[x] = Dipulihkan(c)[x]
    BY <1>3, <1>5 DEF TabelIsian
  <2>3. IsianSah(B, T)
    BY <1>2, <2>1, <2>2, IsianPindah DEF IndInv
  <2>. QED  BY <1>2, <2>3, IsianAlih
<1>9. IndukSesuai'
  <2>1. \A x \in Rak("induk") : db'[x] = db[x]
    BY <1>7 DEF Luar
  <2>. QED  BY <1>6, <2>1 DEF IndIsian, IndukSesuai, Baris, Isi, Rak, Nyata, Diam
<1>10. ASSUME NEW d \in Baris("cadangan")', db'[d].utuh PROVE IsianSah(Dipulihkan(d), tumpang)'
  <2>1. \A x \in Rak("cadangan") : db'[x] = db[x]
    BY <1>7 DEF Luar
  <2>2. d \in Baris("cadangan") /\ db'[d] = db[d]
    BY <1>2, <2>1 DEF Baris, Isi, Rak, Nyata
  <2>. QED  BY <1>2, <1>6, <1>10, <2>2, CadanganIsian
<1>11. ASSUME NEW q \in Proses, rencana'[q] # Tiada
       PROVE  (RencanaTempat(rencana[q]) /\ RencanaIsian(rencana[q]))'
  <2>. PICK r : r = rencana'[q]
    OBVIOUS
  <2>1. \A x \in DOMAIN r.isi : x[1] \notin TabelIsian
    <3>1. CASE q = p
      BY <1>3, <1>4, <3>1 DEF TabelIsian
    <3>2. CASE q # p
      <4>1. rencana[q] = r /\ r # Tiada /\ Menjawab(q)
        BY <1>2, <1>4, <1>11, <3>2
      <4>2. ~RencanaBiasa(q, r)
        BY <4>1 DEF Menjawab, RencanaBiasa, TabelPlatform
      <4>3. RencanaPulih(q, r)
        BY <4>1, <4>2, RencanaDilayani
      <4>. QED  BY <4>3, Letak DEF RencanaPulih, TabelIsian
    <3>. QED  BY <3>1, <3>2
  <2>2. RencanaTempat(r)' /\ RencanaIsian(r)'
    BY <2>1, RencanaLain
  <2>. QED  BY <2>2
<1>. QED  BY <1>8, <1>9, <1>10, <1>11 DEF IndIsian

-------------------------------------------------------------------------------
(* The second invariant.                                                     *)

\* The sources at the start.
LEMMA SumberAwal ==
  ASSUME Init, NEW o \in Rak("sumber"), o[2] <= muat.tabel["sumber"][1]
  PROVE  /\ db[o] = BarisAwalSumber(o[2]) /\ Nyata(db[o]) /\ SumberSah(db[o]) /\ Len(db[o].teks) = o[2]
         /\ o[2] = 1 => Temuan(db[o].teks, {}) = {}
<1>1. db[o] = BarisAwal(o) /\ o[1] = "sumber" /\ o[2] \in Nat /\ o[2] >= 1
  BY Mulanya, Letak
<1>2. BarisAwal(o) = BarisAwalSumber(o[2])
  BY <1>1 DEF BarisAwal, TabelButir
<1>3. muat \in Muatan /\ "sumber" \in DOMAIN muat.tabel /\ o[2] \in 1..muat.tabel.sumber[1]
  BY <1>1, Mulanya, Letak
<1>4. /\ \E t \in Naskah : Len(t) = o[2]
      /\ o[2] = 1 => Temuan(BarisAwalSumber(1).teks, {}) = {}
      /\ BarisAwalSumber(o[2]) \notin {Tiada, Bekas}
  BY <1>3, NaskahCukup
<1>. PICK t : t = CHOOSE x \in Naskah : Len(x) = o[2]
  OBVIOUS
<1>5. t \in Naskah /\ Len(t) = o[2]
  BY <1>4
<1>6. BarisAwalSumber(o[2]).teks = t /\ BarisAwalSumber(o[2]).hash = Hash(t)
  BY DEF BarisAwalSumber
<1>. QED  BY <1>1, <1>2, <1>4, <1>5, <1>6 DEF Nyata, SumberSah

\* There is a first source when there are versions or runs, a first run when there are suggestions.
LEMMA SumberPertama ==
  ASSUME Init, NEW t \in {"versi", "run", "usulan"}, NEW o \in Isi(db, t)
  PROVE  /\ <<"sumber", 1>> \in Isi(db, "sumber") /\ db[<<"sumber", 1>>] = BarisAwalSumber(1)
         /\ SumberSah(BarisAwalSumber(1)) /\ Len(BarisAwalSumber(1).teks) = 1
         /\ Temuan(BarisAwalSumber(1).teks, {}) = {}
         /\ t = "usulan" => <<"run", 1>> \in Rak("run") /\ db[<<"run", 1>>] = BarisAwal(<<"run", 1>>)
<1>1. t \in DOMAIN muat.tabel /\ o[2] >= 1 /\ o[2] \in Nat /\ o[2] <= muat.tabel[t][1] /\ muat \in Muatan
  BY Mulanya, Letak DEF Isi, Nyata
<1>2. ASSUME NEW c, c \in DOMAIN muat.tabel, muat.tabel[c][1] > 0
      PROVE  <<c, 1>> \in Rak(c) /\ 1 <= muat.tabel[c][1] /\ <<c, 1>>[2] = 1
    BY <1>2, Mulanya DEF Rak
<1>3. muat.tabel[t][1] > 0
  BY <1>1, Mulanya
<1>4. t = "usulan" => "run" \in DOMAIN muat.tabel /\ muat.tabel["run"][1] > 0
  BY <1>1, <1>3, BasisDataAssumption
<1>5. "sumber" \in DOMAIN muat.tabel /\ muat.tabel["sumber"][1] > 0
  BY <1>1, <1>3, <1>4, BasisDataAssumption
<1>6. <<"sumber", 1>> \in Rak("sumber") /\ <<"sumber", 1>>[2] <= muat.tabel["sumber"][1] /\ <<"sumber", 1>>[2] = 1
  BY <1>2, <1>5
<1>7. t = "usulan" => <<"run", 1>> \in Rak("run") /\ db[<<"run", 1>>] = BarisAwal(<<"run", 1>>)
  BY <1>2, <1>4, Mulanya
<1>. QED  BY <1>6, <1>7, SumberAwal DEF Isi

LEMMA RunAwal ==
  ASSUME Init, NEW o, o[1] = "run", SumberSah(BarisAwalSumber(1))
  PROVE  /\ BarisAwal(o) \in BentukRun /\ BarisAwal(o).fungsi = "P01" /\ BarisAwal(o).masukan = {}
         /\ BarisAwal(o).keluaran = Kosong /\ BarisAwal(o).status = "DIBLOKIR" /\ Nyata(BarisAwal(o))
<1>. PICK s : s = BarisAwalSumber(1)
  OBVIOUS
<1>1. BarisAwal(o) = [fungsi |-> "P01", sumber |-> {[id |-> <<"sumber", 1>>, hash |-> s.hash]},
                      status |-> "DIBLOKIR", kode |-> {"PII_DITEMUKAN"}, masukan |-> {}, keluaran |-> Kosong]
  BY DEF BarisAwal, TabelButir
<1>2. s.hash \in Sidik /\ <<"sumber", 1>> \in IdSumber
  BY DEF SumberSah, Hash, Sidik, Wacana, IdSumber
<1>3. "P01" \in Fungsi /\ "DIBLOKIR" \in StatusRun /\ {"PII_DITEMUKAN"} \in SUBSET KodeRun
  BY DEF Fungsi, StatusRun, KodeRun, KodeGerbang
<1>4. {[id |-> <<"sumber", 1>>, hash |-> s.hash]} \in SUBSET [id : IdSumber, hash : Sidik]
  BY <1>2
<1>5. Kosong \in AtauKosong(BentukKeluaran)
  BY DEF AtauKosong
<1>6. {} \in SUBSET [id : IdSumber, hash : Sidik, teks : Wacana]
  OBVIOUS
<1>7. BarisAwal(o) \in BentukRun
  <2>. HIDE DEF Fungsi, StatusRun, KodeRun
  <2>. QED  BY <1>1, <1>3, <1>4, <1>5, <1>6 DEF BentukRun
<1>8. Nyata(BarisAwal(o))
  BY <1>7, TandaBukanBaris DEF Nyata
<1>. QED  BY <1>1, <1>7, <1>8

LEMMA UsulanAwal ==
  ASSUME NEW o, o[1] = "usulan"
  PROVE  UsulanBerbentuk(BarisAwal(o)) /\ BarisAwal(o).isi = Kosong /\ BarisAwal(o).run = <<"run", 1>>
         /\ BarisAwal(o).fungsi = "P01"
<1>1. BarisAwal(o) = [fungsi |-> "P01", sasaran |-> <<"sumber", 1>>, run |-> <<"run", 1>>,
         hasil |-> "MANUAL", kode |-> {"PII_DITEMUKAN"}, isi |-> Kosong]
  BY DEF BarisAwal, TabelButir
<1>. QED  BY <1>1 DEF UsulanBerbentuk, Fungsi, AtauKosong, HasilUsulan, KodeRun, KodeGerbang

LEMMA VersiAwal ==
  ASSUME Init, NEW o \in Isi(db, "versi")
  PROVE  VersiSah(db, db[o])
<1>. PICK s : s = BarisAwalSumber(1)
  OBVIOUS
<1>. PICK x : x = <<"sumber", 1>>
  OBVIOUS
<1>1. /\ x \in Isi(db, "sumber") /\ db[x] = s /\ SumberSah(s) /\ Len(s.teks) = 1 /\ Temuan(s.teks, {}) = {}
  BY SumberPertama
<1>2. db[o] = BarisAwal(o) /\ o[1] = "versi"
  BY Mulanya, Letak DEF Isi, Nyata
<1>3. BarisAwal(o) = [run |-> Kosong, teks |-> s.teks,
         kutipan |-> {[sumber |-> x, hash |-> s.hash, span |-> s.teks]}]
  BY <1>2 DEF BarisAwal, TabelButir
<1>4. s.teks \in Wacana /\ s.teks \in Seq({s.teks[i] : i \in DOMAIN s.teks})
  BY <1>1, SitasiAssumption DEF SumberSah, Wacana
<1>5. Memuat(s.teks, s.teks) /\ s.teks # <<>>
  <2>. PICK S, t : t \in Seq(S) /\ t = s.teks /\ Len(t) = 1
    BY <1>1, <1>4
  <2>1. SubSeq(t, 1, Len(t)) = t /\ t # <<>>
    OBVIOUS
  <2>. QED  BY <2>1 DEF Memuat
<1>. PICK C : C = {[sumber |-> x, hash |-> s.hash, span |-> s.teks]}
  OBVIOUS
<1>6. C # {} /\ \A k \in C : k.sumber = x /\ k.hash = s.hash /\ k.span = s.teks
  OBVIOUS
<1>7. db[o].teks = s.teks /\ db[o].kutipan = C
  BY <1>2, <1>3
<1>. QED  BY <1>1, <1>4, <1>5, <1>6, <1>7 DEF VersiSah

LEMMA SetelanAwal ==
  ASSUME Init
  PROVE  SetelanSah(db, tumpang)
<1>1. \A o \in Rak("setelan") \cup Rak("setelan_event") : db[o] = Tiada
  BY Mulanya DEF TabelAwal
<1>2. Isi(db, "setelan") = {} /\ Isi(db, "setelan_event") = {}
  BY <1>1 DEF Isi, Nyata
<1>3. BarisTunggal(db) = BarisBawaan
  BY <1>2 DEF BarisTunggal
<1>4. \A S : AcaraTerakhir(db, S) = {}
  BY <1>2 DEF AcaraTerakhir, Terakhir
<1>5. SesuaiAcara(db)
  BY <1>3, <1>4 DEF SesuaiAcara, BarisBawaan
<1>6. BarisBawaan \in KolomSetelan /\ BarisBawaan.kunci = Kosong
  BY DEF BarisBawaan, KolomSetelan, AiPenyediaMode, AtauKosong
<1>7. TUNGGAL \in Rak("setelan") => db[TUNGGAL] # Bekas
  BY <1>1, PermintaanAssumption
<1>. QED  BY <1>3, <1>5, <1>6, <1>7 DEF SetelanSah

LEMMA BerawalIsian == ASSUME Init PROVE IndIsian
<1>1. \A t : \A o \in Isi(db, t) : o[1] = t /\ o \in Rak(t) /\ db[o] = BarisAwal(o)
          /\ o[2] <= muat.tabel[t][1]
  BY Mulanya, Letak DEF Isi, Nyata
<1>2. Isi(db, "panggilan") = {} /\ Isi(db, "permintaan") = {} /\ Baris("cadangan") = {}
  BY Mulanya DEF Baris, Isi, Nyata, TabelAwal
<1>3. \A o \in Isi(db, "sumber") : SumberSah(db[o])
  BY <1>1, SumberAwal
<1>4. ASSUME NEW o \in Isi(db, "run") PROVE RunSah(db, db[o])
  <2>1. o[1] = "run" /\ db[o] = BarisAwal(o) /\ SumberSah(BarisAwalSumber(1))
    BY <1>1, SumberPertama
  <2>. QED  BY <2>1, RunAwal DEF RunSah
<1>5. ASSUME NEW o \in Isi(db, "usulan") PROVE UsulanSah(db, db[o])
  <2>. PICK x : x = <<"run", 1>>
    OBVIOUS
  <2>1. o[1] = "usulan" /\ db[o] = BarisAwal(o) /\ SumberSah(BarisAwalSumber(1))
        /\ x \in Rak("run") /\ db[x] = BarisAwal(x) /\ x[1] = "run"
    BY <1>1, SumberPertama
  <2>2. BerRun(db, x, "P01")
    BY <2>1, RunAwal DEF BerRun
  <2>3. UsulanBerbentuk(db[o]) /\ db[o].isi = Kosong /\ db[o].run = x /\ db[o].fungsi = "P01"
    BY <2>1, UsulanAwal
  <2>. QED  BY <2>2, <2>3 DEF UsulanSah
<1>6. SitasiSah(db)
  BY <1>2, <1>3, <1>4, <1>5, VersiAwal DEF SitasiSah
<1>7. IndukSesuai
  <2>. PICK i : i = CHOOSE k \in IndukSah : TRUE
    OBVIOUS
  <2>1. ASSUME NEW o, o[1] = "induk" PROVE BarisAwal(o) = [kunci |-> i]
    BY <2>1 DEF BarisAwal, TabelButir
  <2>2. \A o \in Baris("induk") : db[o] = [kunci |-> i]
    BY <1>1, <2>1 DEF Baris
  <2>3. i \in AtauKosong(IndukSah)
    BY SetelanAssumption DEF AtauKosong
  <2>4. \A v, r : r = [kunci |-> v] => DOMAIN r = {"kunci"} /\ r.kunci = v
    OBVIOUS
  <2>5. ASSUME NEW o \in Baris("induk") PROVE DOMAIN db[o] = {"kunci"} /\ db[o].kunci = i
    <3>. PICK v, r : v = i /\ r = db[o]
      OBVIOUS
    <3>1. r = [kunci |-> v]
      BY <2>2
    <3>2. DOMAIN r = {"kunci"} /\ r.kunci = v
      BY <2>4, <3>1, Zenon
    <3>. QED  BY <3>2
  <2>. QED  BY <2>3, <2>5 DEF IndukSesuai
<1>8. \A p \in Proses : rencana[p] = Tiada
  BY DEF Init
<1>. QED  BY <1>2, <1>6, <1>7, <1>8, SetelanAwal DEF IndIsian, IsianSah, PanggilanBerwenang

LEMMA IsianTerjaga == ASSUME IndInv, IndIsian, [Next]_vars PROVE IndIsian'
<1>1. ASSUME NEW p \in Proses, Melayani, Layanan(p) PROVE IndIsian'
  BY <1>1, LayananRencana, TerencanaIsian, DaftarIsian, HalamanIsian, BackupIsian, PulihIsian
<1>2. ASSUME NEW p \in Proses, Perawatan(p) PROVE IndIsian'
  BY <1>2, UpgradeMenjaga, BenihMenjaga, LanjutIsian, HasilIsian DEF Perawatan
<1>3. ASSUME UNCHANGED vars PROVE IndIsian'
  <2>1. UNCHANGED <<muat, db, riwayat, tumpang, rencana>>
    BY <1>3 DEF vars
  <2>2. Diam /\ \A q \in Proses : rencana'[q] # Tiada => rencana'[q] = rencana[q]
    BY <2>1 DEF Diam, Obyek
  <2>. QED  BY <2>1, <2>2, IsianTetap
<1>. QED  BY <1>1, <1>2, <1>3, MulaiIsian, SimpanIsian, GagalIsian DEF Next

\* IndIsian holds always: the settings and their ledger, the calls, the sources,
\* the runs and what was made of them, of the rows, of the dumps and of each plan.
THEOREM IsianInduktif == Spec => []IndIsian
<1>1. Init => IndInv /\ IndIsian
  BY Berawal, BerawalIsian
<1>2. IndInv /\ IndIsian /\ [Next]_vars => (IndInv /\ IndIsian)'
  BY Terjaga, IsianTerjaga
<1>. QED  BY <1>1, <1>2, PTL DEF Spec

\* ai_penyedia_sql.py, ai/penyedia.py: unless requests overlapped on the row, the
\* settings are those of the last events about them; and who got an answer was
\* allowed to call, through the provider and with a key that were set.
THEOREM PenyediaSelaluTerkendali == Spec => []PenyediaTerkendali
<1>1. ASSUME IndIsian PROVE PenyediaTerkendali
  <2>1. SetelanSah(db, tumpang) /\ PanggilanBerwenang(db)
    BY <1>1 DEF IndIsian, IsianSah
  <2>2. SetelanTercatat
    BY <2>1 DEF SetelanSah, SetelanTercatat
  <2>3. PanggilanSah
    BY <2>1 DEF PanggilanBerwenang, Terlayani, PanggilanSah, Baris
  <2>. QED  BY <2>2, <2>3 DEF PenyediaTerkendali
<1>. QED  BY <1>1, IsianInduktif, PTL

\* The gate, cek_keluaran, aturan_p01 and cek_kutipan: what is sent of a source
\* would pass its dry run, every fact and every citation stands in the source it
\* names, and neither carries personal data, whatever overlaps or is restored.
THEOREM DrafSelaluBersih == Spec => []DrafBersih
<1>1. ASSUME IndIsian PROVE DrafBersih
  <2>1. SitasiSah(db)
    BY <1>1 DEF IndIsian, IsianSah
  <2>2. FaktaBerdasar
    <3>1. \A u \in Baris("usulan") : db[u].fungsi = "P01" /\ db[u].isi # Kosong => FaktaSah(db, db[u].isi)
      BY <2>1 DEF SitasiSah, UsulanSah, Baris
    <3>. QED  BY <3>1 DEF FaktaBerdasar, FaktaSah, Baris
  <2>3. KutipanTertaut
    <3>1. \A v \in Baris("versi") : VersiSah(db, db[v])
      BY <2>1 DEF SitasiSah, Baris
    <3>. QED  BY <3>1 DEF KutipanTertaut, VersiSah
  <2>4. ASSUME NEW r \in Baris("run"), NEW m \in db[r].masukan
        PROVE  Temuan(m.teks, {}) = {} /\ (m.id \in Baris("sumber") => UjiKering(m.id, {}) = "LOLOS")
    <3>1. MasukanSah(db, db[r].fungsi, m)
      BY <2>1 DEF SitasiSah, RunSah, Baris
    <3>2. Temuan(m.teks, {}) = {}
      BY <3>1 DEF MasukanSah
    <3>3. ASSUME m.id \in Baris("sumber") PROVE UjiKering(m.id, {}) = "LOLOS"
      <4>1. m.id \in Rak("sumber") /\ SumberSah(db[m.id])
        BY <2>1, <3>3 DEF SitasiSah, Baris, Isi
      <4>2. LolosUji(db[m.id])
        BY <3>1, <4>1 DEF MasukanSah
      <4>. QED  BY <4>1, <4>2 DEF UjiKering, Calon, Gerbang, JenisDiizinkan, LolosUji, SumberSah
    <3>. QED  BY <3>2, <3>3
  <2>5. \A u \in Baris("usulan") : db[u].fungsi = "P01" /\ db[u].isi # Kosong =>
          \A f \in db[u].isi.fakta : Temuan(f.fakta, {}) = {}
    BY <2>1 DEF SitasiSah, UsulanSah, FaktaSah, Baris
  <2>6. \A v \in Baris("versi") : db[v].teks # Kosong => Temuan(db[v].teks, {}) = {}
    BY <2>1 DEF SitasiSah, VersiSah, Baris
  <2>. QED  BY <2>2, <2>3, <2>4, <2>5, <2>6 DEF DrafBersih, DataPribadiTertahan
<1>. QED  BY <1>1, IsianInduktif, PTL
===============================================================================
