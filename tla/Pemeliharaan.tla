----------------------------- MODULE Pemeliharaan ------------------------------
(***************************************************************************)
(* What happens to the database as a whole: the start of a container       *)
(* (migration, then seeding, before requests are served), dumps, and the   *)
(* restoring of a dump.                                                    *)
(*                                                                         *)
(* Four tables stand for what is outside the database: the starts, the     *)
(* dumps an administrator keeps, and the answers to restores; "skema" is   *)
(* the row of alembic_version.  A release differs from the next in a       *)
(* revision of the schema.                                                 *)
(***************************************************************************)
EXTENDS Redesain, Katalog

CONSTANTS
  KonteksBaku,    \* codes of the themes the distribution brings
  MasalahBaku,    \* its problems: for the i-th the code of its theme
  CakupanBaku,    \* its coverage rows
  VersiBaku,      \* its method versions
  ItemBaku,       \* its items of an instrument: [kode, bagian, isi]
  Rilis           \* bound: releases, each with the number of its revision

ASSUME PemeliharaanAssumption == Rilis \subseteq Nat /\ 0 \in Rilis

\* Tables a dump does not hold: accounts are at the identity provider, the
\* master key in the environment, and clients have their own.
Luar == {"boot", "cadangan", "pulih", "akun", "induk", "halaman", "salinan"}
TabelButir == {"dcs_item", "wcp_item"}
Dicadangkan == {o \in Obyek : o[1] \notin Luar}

-------------------------------------------------------------------------------
(* Starting.                                                                 *)

StartTerakhir == CHOOSE o \in Baris("boot") : \A c \in Baris("boot") : c[2] <= o[2]
Tahap == IF Baris("boot") = {} THEN "layani" ELSE db[StartTerakhir].tahap
\* current_heads: the revision the running code brings.
HeadKode == IF Baris("boot") = {} THEN Tiada ELSE db[StartTerakhir].head
Melayani == Tahap = "layani"
Revisi == LET S == Baris("skema") IN IF S = {} THEN Tiada ELSE db[CHOOSE o \in S : TRUE].revisi

\* A container starts: with the same release or the next, or again when it
\* did not get as far as serving.  What was under way is lost.
Mulai ==
  /\ Baris("boot") # {}
  /\ \E o \in IF Melayani THEN BarisBaru("boot") ELSE {StartTerakhir},
        h \in IF Melayani THEN {HeadKode, HeadKode + 1} \cap Rilis ELSE {HeadKode} : db' =
       [x \in Obyek |-> CASE x = o -> [tahap |-> "migrasi", head |-> h]
                          [] x \in Baris("pulih") -> Bekas
                          [] OTHER -> db[x]]
  /\ rencana' = [p \in Proses |-> Tiada]
  /\ UNCHANGED <<muat, riwayat, tumpang>>

Lanjut(tahap) == [x \in {StartTerakhir} |-> [tahap |-> tahap]]

\* initdb.py runs alone, before the server does.
Sendiri(p) == p \in muat.proses /\ \A q \in Proses : rencana[q] = Tiada

\* upgrade: the revisions not applied yet, in a transaction of their own.
Upgrade(p) ==
  /\ Sendiri(p) /\ Tahap = "migrasi"
  /\ Rencanakan(p, {}, Gabung(Lanjut("benih"),
       [o \in Baris("skema") |-> [revisi |-> HeadKode]]))

\* INSERT ... ON CONFLICT DO NOTHING: the rows of baku whose key, the columns in
\* kolom, no row of t has.
Benih(t, baku, kolom) ==
  IF Rak(t) = {} THEN {<<>>} ELSE
  {[o \in {f[r] : r \in baku} \ Baris(t) |-> CHOOSE r \in baku : f[r] = o] :
    f \in Tempat(t, baku, kolom)}

SeedKonteks(isi) == Benih("konteks", {[kode |-> k, isi |-> isi] : k \in KonteksBaku}, {"kode"})

\* The code of a problem is its place.  A problem whose theme is neither there
\* nor in tema is skipped.
SeedMasalah(tema, isi) ==
  LET ada(k) == k \in {db[o].kode : o \in Baris("konteks")} \cup {tema[o].kode : o \in DOMAIN tema} IN
  [o \in {x \in Rak("masalah") \ Baris("masalah") : x[2] \in DOMAIN MasalahBaku /\ ada(MasalahBaku[x[2]])} |->
    [sekolah |-> Kosong, isi |-> isi]]

SeedCakupan ==
  Benih("cakupan", {[kode |-> k, jabatan |-> Kosong, pic |-> Kosong] : k \in CakupanBaku}, {"kode"})

SeedVersiMetode(isi) ==
  Benih("versi_metode", {[kode |-> k, isi |-> isi] : k \in VersiBaku}, {"kode"})

\* A code for each participant some respondent refers to, who is there and has
\* none.
SeedKodeOrangResponden ==
  LET dirujuk == {db[o].partisipan : o \in Baris("responden")} IN
  Benih("kode_orang", {[partisipan |-> t, isi |-> Kosong] : t \in dirujuk \cap Baris("partisipan")},
        {"partisipan"})

\* Mutant: items are topped up one by one, as the sections are.
SeedButir_Isi(t) == Benih(t, ItemBaku, {"kode"})

\* The items of an instrument: when it has none at all.
SeedButir(t) == IF Baris(t) # {} THEN {<<>>} ELSE Benih(t, ItemBaku, {"kode"})
SeedDcs == SeedButir("dcs_item")
SeedWcp == SeedButir("wcp_item")

SeedTaskinv(p, lain) == IF Rak("tp") = {} THEN Rencanakan(p, {}, lain) ELSE SeedKatalog(p, lain)

\* seed_all, in one transaction, and then requests are served.
SeedAll(p) ==
  /\ Sendiri(p) /\ Tahap = "benih"
  /\ \E isi \in Teks : \E a \in SeedKonteks(isi), v \in SeedVersiMetode(isi), c \in SeedCakupan,
        k \in SeedKodeOrangResponden, d \in SeedDcs, w \in SeedWcp :
       SeedTaskinv(p, Gabung(Lanjut("layani"),
         Gabung(a, Gabung(v, Gabung(c, Gabung(k, Gabung(d, Gabung(w, SeedMasalah(a, isi)))))))))

-------------------------------------------------------------------------------
(* The items an administrator edits and removes between the starts.          *)

UbahButir(p) == Luang(p) /\ \E t \in TabelButir : \E o \in Baris(t), isi \in Teks :
  GantiBersyarat(p, o, {}, [isi |-> isi])
\* Not the last one of its section.
HapusButir(p) == Luang(p) /\ \E t \in TabelButir : \E o \in Baris(t) :
  /\ \E c \in Baris(t) \ {o} : db[c].bagian = db[o].bagian
  /\ BuangBersyarat(p, o)

-------------------------------------------------------------------------------
(* Dumps and restoring.                                                      *)

\* stream_dump: a snapshot.  When pg_dump fails the client has the beginning
\* of a dump, and an answer that says 200.
Backup(p) ==
  /\ Luang(p)
  /\ \E o \in BarisBaru("cadangan"), utuh \in BOOLEAN :
       db' = [db EXCEPT ![o] = [utuh |-> utuh, isi |-> [x \in Dicadangkan |-> db[x]],
                                riwayat |-> [x \in Dicadangkan |-> riwayat[x]]]]
  /\ UNCHANGED <<muat, riwayat, rencana, tumpang>>

\* Has restored, and not yet read the revision.
Menjawab(p) == rencana[p] # Tiada /\ \E o \in DOMAIN rencana[p].isi : o[1] = "pulih"

\* The rows and histories when dump c is restored.
Dipulihkan(c) == [x \in Obyek |-> IF x \in Dicadangkan THEN db[c].isi[x] ELSE db[x]]
RiwayatDipulihkan(c) == [x \in Obyek |-> IF x \in Dicadangkan THEN db[c].riwayat[x] ELSE riwayat[x]]

\* _run_pg_restore, when the name typed is that of the database and the dump
\* is whole: everything, histories and revision too, or nothing.  Its DROPs
\* wait for every transaction under way, each of which has read some table.
Pulihkan(p) ==
  /\ Luang(p) /\ \A q \in Proses : rencana[q] = Tiada \/ Menjawab(q)
  /\ \E c \in {x \in Baris("cadangan") : db[x].utuh}, o \in BarisBaru("pulih") :
       /\ db' = [Dipulihkan(c) EXCEPT ![o] = [jawab |-> Tiada]]
       /\ riwayat' = RiwayatDipulihkan(c)
       /\ rencana' = [rencana EXCEPT ![p] =
            [lihat |-> <<>>, isi |-> [x \in {o} |-> [awal |-> Revisi]], syarat |-> {}]]
  /\ UNCHANGED <<muat, tumpang>>

\* Mutant: the revision is the one from before the restore.
Peringatan_Awal(p, o) == IF rencana[p].isi[o].awal # HeadKode THEN "peringatan" ELSE "ok"

\* The revision is compared with that of the code, and nothing is upgraded.
Peringatan(p, o) == IF Revisi # HeadKode THEN "peringatan" ELSE "ok"
HasilPulih(p) ==
  /\ Menjawab(p)
  /\ \E o \in DOMAIN rencana[p].isi : db' = [db EXCEPT ![o].jawab = Peringatan(p, o)]
  /\ rencana' = [rencana EXCEPT ![p] = Tiada]
  /\ UNCHANGED <<muat, riwayat, tumpang>>

PermintaanPemeliharaan(p) == UbahButir(p) \/ HapusButir(p) \/ Backup(p) \/ Pulihkan(p)
Perawatan(p) == Upgrade(p) \/ SeedAll(p) \/ HasilPulih(p)

-------------------------------------------------------------------------------
(* Properties.                                                               *)

\* initdb.py: starting again is safe.  What is there when a container starts,
\* edited or not, is there when it serves, but for jobs added to main duties
\* and details; and items that were removed do not come back (seed_db.py:60).
BootMenjaga ==
  [][Tahap = "benih" /\ Tahap' = "layani" => \A o \in Dicadangkan :
       /\ Nyata(db[o]) /\ o[1] \notin {"tp", "dt"} => db'[o] = db[o]
       /\ Nyata(db[o]) /\ o[1] \in {"tp", "dt"} => \E J \in SUBSET Jabatan :
            db'[o] = [db[o] EXCEPT !.jabatan = @ \cup J]
       /\ o[1] \in TabelButir /\ Baris(o[1]) # {} => db'[o] = db[o]]_vars

\* RestoreResult.peringatan: requests are served on a schema that is not the
\* one of the code only after an administrator was told so, or was told
\* nothing at all, however the restores of several overlap.
SkemaTerjaga == Melayani /\ Baris("skema") # {} /\ Revisi # HeadKode =>
  \E o \in Baris("pulih") : db[o].jawab # "ok"
===============================================================================
