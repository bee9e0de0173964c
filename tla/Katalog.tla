-------------------------------- MODULE Katalog --------------------------------
(***************************************************************************)
(* The catalogue of the task inventory: main duties (tugas pokok), their   *)
(* details, and task statements, each for some of the jobs of its parent;  *)
(* its purge, and its filling from the file of the distribution.           *)
(*                                                                         *)
(* Its rows refer to each other by identifier, without foreign keys.       *)
(***************************************************************************)
EXTENDS Induk

CONSTANT KatalogBaku    \* the items of task_catalog.json: [jabatan, tp, dt, kode]

\* Links of main duties and details to jobs, which no constraint ties to them.
RelasiKatalog == {<<"tp", "jabatan">>, <<"dt", "jabatan">>}
Jabatan == Rak("jabatan")
SebagianJabatan == (SUBSET Jabatan) \ {{}}

-------------------------------------------------------------------------------
(* Main duties.                                                              *)

BarisTp == [nama : Kunci, jabatan : SebagianJabatan]
TpBaru(p, d) == Bebas("tp", "nama", d.nama, {}) /\ Tambah(p, BarisBaru("tp"), {}, d)
UbahIsiTp(p, o, u) ==
  ("nama" \in DOMAIN u => Bebas("tp", "nama", u.nama, {o})) /\ GantiBersyarat(p, o, {}, u)
TugasPokokCreate == BarisTp
TugasPokokUpdate == Sebagian(BarisTp)
BuatTp(p) == Luang(p) /\ \E d \in TugasPokokCreate : TpBaru(p, d)
UbahTp(p) == Luang(p) /\ \E o \in Baris("tp") : \E u \in TugasPokokUpdate : UbahIsiTp(p, o, u)
HapusTp(p) == Luang(p) /\ \E o \in Baris("tp") : Buang(p, o)

-------------------------------------------------------------------------------
(* Details.                                                                  *)

\* _validate_jabatan_subset.
JabatanSubset(b, r) == Nyata(b[r.tp]) /\ r.jabatan \subseteq b[r.tp].jabatan

BarisDt == [nama : Kunci, tp : Baris("tp"), jabatan : SebagianJabatan]
DtBaru(p, d) == JabatanSubset(db, d) /\ Tambah(p, BarisBaru("dt"), {d.tp}, d)

UbahIsiDt(p, o, u) ==
  LET r == Timpa(db[o], u)
      periksa == DOMAIN u \cap {"tp", "jabatan"} # {} IN
  /\ periksa => JabatanSubset(db, r)
  /\ GantiBersyarat(p, o, IF periksa THEN {r.tp} ELSE {}, u)
DetilTugasCreate == BarisDt
DetilTugasUpdate == Sebagian(BarisDt)
BuatDt(p) == Luang(p) /\ \E d \in DetilTugasCreate : DtBaru(p, d)
UbahDt(p) == Luang(p) /\ \E o \in Baris("dt") : \E u \in DetilTugasUpdate : UbahIsiDt(p, o, u)
HapusDt(p) == Luang(p) /\ \E o \in Baris("dt") : Buang(p, o)

-------------------------------------------------------------------------------
(* Task statements, each with the one link that holds its columns.           *)

\* _validate_jabatan_in_dt, for a statement that names a detail.
JabatanDiDt(b, r) == r.dt # Kosong => Nyata(b[r.dt]) /\ r.jabatan \in b[r.dt].jabatan
BacaDt(r) == IF r.dt = Kosong THEN {} ELSE {r.dt}

BarisUt == [kode : Kunci, jabatan : Jabatan, dt : AtauKosong(Baris("dt")), tp : Baris("tp")]
UtBaru(p, d) ==
  /\ JabatanDiDt(db, d)
  /\ Bebas("ut", "kode", d.kode, {})
  /\ Tambah(p, BarisBaru("ut"), BacaDt(d), d)
UbahIsiUt(p, o, u) ==
  LET r == Timpa(db[o], u)
      periksa == DOMAIN u \cap {"dt", "jabatan"} # {} IN
  /\ "kode" \in DOMAIN u => Bebas("ut", "kode", u.kode, {o})
  /\ periksa => JabatanDiDt(db, r)
  /\ GantiBersyarat(p, o, IF periksa THEN BacaDt(r) ELSE {}, u)
UraianTugasCreate == BarisUt
UraianTugasUpdate == Sebagian(BarisUt)
BuatUt(p) == Luang(p) /\ \E d \in UraianTugasCreate : UtBaru(p, d)
UbahUt(p) == Luang(p) /\ \E o \in Baris("ut") : \E u \in UraianTugasUpdate : UbahIsiUt(p, o, u)
HapusUt(p) == Luang(p) /\ \E o \in Baris("ut") : Buang(p, o)

-------------------------------------------------------------------------------
(* Sessions of the inventory, as far as the catalogue is concerned.          *)

BukaSesi(p) == Luang(p) /\ \E j \in Jabatan :
  /\ \E o \in Baris("ut") : db[o].jabatan = j
  /\ Tambah(p, BarisBaru("ti_sesi"), {}, [jabatan |-> j])
HapusSesi(p) == Luang(p) /\ \E o \in Baris("ti_sesi") : Buang(p, o)

-------------------------------------------------------------------------------
(* Purge and reseed.                                                         *)

\* guard_no_active_sesi: no session at all, whatever its status.
TanpaSesi == Baris("ti_sesi") = {}

\* Three bulk deletes.
KosongkanKatalog(p) == Rencanakan(p, {}, [o \in Baris("ut") \cup Baris("tp") \cup Baris("dt") |-> Bekas])
Purge(p) == Luang(p) /\ TanpaSesi /\ KosongkanKatalog(p)

\* The objects of table t for the records in S, looked up by the columns in
\* kolom: the row that has these values, or one of the first that are free.
Tempat(t, S, kolom) ==
  LET bebas == {o \in Rak(t) : db[o] = Tiada /\ o \notin Dipesan}
      ada(k) == {o \in Baris(t) : \A c \in kolom : db[o][c] = k[c]} IN
  {f \in [S -> Baris(t) \cup bebas] :
    /\ \A k \in S : IF ada(k) # {} THEN f[k] \in ada(k) ELSE f[k] \in bebas
    /\ \A k, l \in S : k # l => f[k] # f[l]
    /\ \A o \in bebas \ {f[k] : k \in S} : \A k \in S : f[k] \in bebas => f[k][2] < o[2]}

\* Codes for the jobs in S, of which only those not there yet are used: the
\* name made a code, with a suffix when it is taken.
KodeJabatan(S) == {f \in [S -> {n \in Kunci : Bebas("jabatan", "kode", n, {})}] :
  \A x, y \in S : x # y => f[x] # f[y]}

\* The row of main duty or detail o for the jobs J: they are added to a row.
Gabungkan(o, awal, J) ==
  IF db[o] = Tiada THEN [awal EXCEPT !.jabatan = J]
  ELSE Beda(o, [jabatan |-> db[o].jabatan \cup J])

\* The items of the file: the jobs of a main duty or detail at o, when jobs, main
\* duties and details are at j, t and d.
Berdetil == {x \in KatalogBaku : x.dt # Kosong}
Detil(t, x) == [tp |-> t[[nama |-> x.tp]], nama |-> x.dt]
UntukTp(j, t, o) == {j[[nama |-> x.jabatan]] : x \in {y \in KatalogBaku : t[[nama |-> y.tp]] = o}}
UntukDt(j, t, d, o) == {j[[nama |-> x.jabatan]] : x \in {y \in Berdetil : d[Detil(t, y)] = o}}
Anggotanya(f) == {f[s] : s \in DOMAIN f}

\* The rows that are written: jobs and statements that are not there, every main
\* duty and detail.
BarisKatalog(j, t, u, k, d) ==
  LET asal(f, o) == CHOOSE s \in DOMAIN f : f[s] = o
      baris(o) ==
        CASE o[1] = "jabatan" -> [kode |-> k[asal(j, o).nama], nama |-> asal(j, o).nama]
          [] o[1] = "tp" -> Gabungkan(o, [nama |-> asal(t, o).nama, jabatan |-> {}], UntukTp(j, t, o))
          [] o[1] = "dt" -> Gabungkan(o, [nama |-> asal(d, o).nama, tp |-> asal(d, o).tp,
                                          jabatan |-> {}], UntukDt(j, t, d, o))
          [] OTHER -> LET x == CHOOSE y \in KatalogBaku : y.kode = asal(u, o).kode IN
               [kode |-> x.kode, jabatan |-> j[[nama |-> x.jabatan]],
                dt |-> IF x.dt = Kosong THEN Kosong ELSE d[Detil(t, x)], tp |-> t[[nama |-> x.tp]]] IN
  [o \in {x \in Anggotanya(j) \cup Anggotanya(u) : db[x] = Tiada} \cup Anggotanya(t) \cup Anggotanya(d)
     |-> baris(o)]

\* seed_catalog_models.  A detail that has a job its main duty has lost in the
\* meantime is refused, and with it the whole.
\* lain is what is written with it.
SeedKatalog(p, lain) ==
  \E j \in Tempat("jabatan", {[nama |-> x.jabatan] : x \in KatalogBaku}, {"nama"}),
     t \in Tempat("tp", {[nama |-> x.tp] : x \in KatalogBaku}, {"nama"}),
     u \in Tempat("ut", {[kode |-> x.kode] : x \in KatalogBaku}, {"kode"}),
     k \in KodeJabatan({x.jabatan : x \in KatalogBaku}) :
  \E d \in Tempat("dt", {Detil(t, x) : x \in Berdetil}, {"tp", "nama"}) :
    LET semua(o) == IF Nyata(db[o]) THEN db[o].jabatan ELSE {} IN
    /\ \A s \in DOMAIN d : ~(UntukDt(j, t, d, d[s]) \subseteq semua(d[s])) =>
         semua(d[s]) \subseteq semua(s.tp) \cup UntukTp(j, t, s.tp)
    /\ Rencanakan(p, {}, Gabung(lain, BarisKatalog(j, t, u, k, d)))
Reseed(p) == Luang(p) /\ SeedKatalog(p, <<>>)

-------------------------------------------------------------------------------
(* The constraints of the schema, and the requests.                          *)

SkemaKatalog(b) ==
  Unik(b, "tp", {"nama"}) /\ Unik(b, "ut", {"kode"})

PermintaanKatalog(p) ==
  \/ BuatTp(p) \/ UbahTp(p) \/ HapusTp(p)
  \/ BuatDt(p) \/ UbahDt(p) \/ HapusDt(p)
  \/ BuatUt(p) \/ UbahUt(p) \/ HapusUt(p)
  \/ BukaSesi(p) \/ HapusSesi(p) \/ Purge(p) \/ Reseed(p)

-------------------------------------------------------------------------------
(* Properties.                                                               *)

\* A detail leaves a write of its jobs or its parent with jobs its main duty
\* has, a statement with a job of its detail: in a PATCH of one column too, and
\* in a reseed.  (What the parent loses later stays with the children, and a
\* restore brings them back so.)
TurunanSejalan ==
  [][\A o \in Obyek \ tumpang' : Ditulis(o) /\ Nyata(db'[o]) =>
       LET baru(S) == ~Nyata(db[o]) \/ \E k \in S : db'[o][k] # db[o][k] IN
       /\ o[1] = "dt" /\ baru({"tp", "jabatan"}) => JabatanSubset(db', db'[o])
       /\ o[1] = "ut" /\ baru({"dt", "jabatan"}) => JabatanDiDt(db', db'[o])]_vars

\* taskinv/services/catalog.py:153: changes made directly show in the catalogue
\* with no further synchronisation.  _to_catalog reads the main duty of every
\* statement of a job, and its detail, and the list fails when one is missing.
KatalogTerbaca == \A o \in Baris("ut") \ tumpang :
  Nyata(db[db[o].tp]) /\ Dikenal(db, db[o].dt)
===============================================================================
