------------------------------ MODULE Permintaan ------------------------------
(***************************************************************************)
(* A request against the database: it reads and checks in its own          *)
(* transaction (READ COMMITTED, no row locks), plans its writes from what  *)
(* it read, and commits them later, or fails.  A commit writes only the    *)
(* columns that differ from the row read (the unit of work of the ORM), is *)
(* refused by the constraints of the schema, and appends to the history of *)
(* the rows that keep one.                                                 *)
(*                                                                         *)
(* Components extend this module with their tables.  An object <<t, i>> is *)
(* the i-th row of table t.                                                *)
(***************************************************************************)
EXTENDS Integers, FiniteSets

CONSTANTS
  Proses,         \* server threads, one request at a time each
  Muatan,         \* bounds: for each table <<rows at the start, rows at most>>, and
                  \* the threads
  Lebar,          \* bound: columns a PATCH names
  Teks,           \* values of the columns that nothing reads
  Kunci,          \* values of the columns with a key: codes, names, dates
  Tiada,          \* not (yet) there: a row, a plan, a history
  Bekas,          \* a deleted row
  Kosong          \* NULL

ASSUME PermintaanAssumption ==
  /\ \A m \in Muatan : m.proses \subseteq Proses /\ \A t \in DOMAIN m.tabel :
       m.tabel[t] \in Nat \X Nat /\ m.tabel[t][1] <= m.tabel[t][2]
  /\ Lebar \in Nat
  /\ Tiada # Bekas /\ Tiada # Kosong /\ Bekas # Kosong

VARIABLES
  muat,           \* the tables and threads of this behaviour, an element of Muatan
  db,             \* committed rows
  riwayat,        \* the history of a row: [akhir, utuh]
  rencana,        \* rencana[p]: [lihat, isi, syarat] of the request p serves, or Tiada
  tumpang         \* objects written on the strength of a row that had changed

vars == <<muat, db, riwayat, rencana, tumpang>>

\* The places of table t.
Rak(t) == IF t \in DOMAIN muat.tabel THEN {t} \X (1..muat.tabel[t][2]) ELSE {}
Obyek == DOMAIN db
Nyata(r) == r \notin {Tiada, Bekas}
Isi(b, t) == {o \in Rak(t) : Nyata(b[o])}
Baris(t) == Isi(db, t)
AtauKosong(S) == S \cup {Kosong}
Dikenal(b, r) == r # Kosong => Nyata(b[r])

\* The check made before an insert or a change: nobody else has the key n.
Bebas(t, kolom, n, selain) ==
  n # Kosong => \A o \in Baris(t) \ selain : db[o][kolom] # n

-------------------------------------------------------------------------------
(* Reading and planning.                                                     *)

Pertama(S) == {o \in S : \A c \in S : o[2] <= c[2]}
Dipesan == UNION {DOMAIN rencana[q].isi : q \in {x \in Proses : rencana[x] # Tiada}}

\* A row with an identifier of its own (UUID, sequence), and one whose code is
\* the largest code read plus one: two requests may pick the same.
BarisBaru(t) == Pertama({o \in Rak(t) : db[o] = Tiada /\ o \notin Dipesan})
KodeBaru(t) == Pertama({o \in Rak(t) : db[o] = Tiada})

\* The payload of a PATCH: some of the fields of data.
Sebagian(data) ==
  UNION {{[k \in S |-> d[k]] : S \in {s \in SUBSET DOMAIN d : Cardinality(s) \in 1..Lebar}} : d \in data}

\* The columns of both, those of a before those of b.
Gabung(a, b) == [k \in DOMAIN a \cup DOMAIN b |-> IF k \in DOMAIN a THEN a[k] ELSE b[k]]

Timpa(lama, u) == [k \in DOMAIN lama |-> IF k \in DOMAIN u THEN u[k] ELSE lama[k]]
Beda(o, u) == [k \in {c \in DOMAIN u : db[o][c] # u[c]} |-> u[k]]

\* A thread without a request.
Luang(p) == p \in muat.proses /\ rencana[p] = Tiada

\* syarat are the copies whose tags came with the request.
RencanakanBila(p, baca, isi, syarat) ==
  /\ rencana' = [rencana EXCEPT ![p] =
       [lihat |-> [o \in baca \cup syarat \cup DOMAIN isi |-> db[o]], isi |-> isi, syarat |-> syarat]]
  /\ UNCHANGED <<muat, db, riwayat, tumpang>>
Rencanakan(p, baca, isi) == RencanakanBila(p, baca, isi, {})

Tambah(p, tempat, baca, baris) == \E o \in tempat : Rencanakan(p, baca, [x \in {o} |-> baris])
Ganti(p, o, baca, u) == Rencanakan(p, baca, [x \in {o} |-> Beda(o, u)])

\* Mutant: a tag is compared with the tags of any state of the row.
CekIfMatch_Lunak(o, s) == db[s].obyek = o

\* check_if_match: the tag of the copy s a client has is that of the row as it
\* is (compute_etag, a hash of the whole representation).
CekIfMatch(o, s) == db[s].obyek = o /\ db[s].wujud = db[o]

\* The copies a client may send the tag of; {} is no header, or *.
Prasyarat(o) == {{}} \cup {{s} : s \in {c \in Baris("salinan") : CekIfMatch(o, c)}}

\* A change by a route that takes If-Match.
GantiBersyarat(p, o, baca, u) ==
  \E s \in Prasyarat(o) : RencanakanBila(p, baca, [x \in {o} |-> Beda(o, u)], s)
Buang(p, o) == Rencanakan(p, {}, [x \in {o} |-> Bekas])
BuangBersyarat(p, o) == \E s \in Prasyarat(o) : RencanakanBila(p, {}, [x \in {o} |-> Bekas], s)

-------------------------------------------------------------------------------
(* Committing.                                                               *)

\* The columns in relasi, pairs <<table, column>>, are sets held as link rows:
\* the links that differ from those read are removed and inserted.
Kolom(o, lihat, u, relasi) == [k \in DOMAIN u |->
  IF <<o[1], k>> \in relasi
  THEN (db[o][k] \ (lihat[k] \ u[k])) \cup (u[k] \ lihat[k]) ELSE u[k]]

\* The rows after the writes of p, before the database's own actions.
Gabungan(p, relasi) ==
  LET r == rencana[p] IN
  [o \in Obyek |->
    IF o \notin DOMAIN r.isi THEN db[o]
    ELSE IF db[o] = Tiada \/ r.isi[o] = Bekas THEN r.isi[o]
    ELSE Timpa(db[o], Kolom(o, r.lihat[o], r.isi[o], relasi))]

\* A row to insert is not there yet, one to change still is; one to delete may
\* be gone.
TargetAda(p) == \A o \in DOMAIN rencana[p].isi :
  IF rencana[p].lihat[o] = Tiada THEN db[o] = Tiada
  ELSE rencana[p].isi[o] # Bekas => Nyata(db[o])

\* A link inserted twice breaks the unique pair.
LinkTunggal(p, relasi) ==
  LET r == rencana[p] IN
  \A o \in DOMAIN r.isi : Nyata(r.isi[o]) /\ Nyata(r.lihat[o]) =>
    \A k \in DOMAIN r.isi[o] : <<o[1], k>> \in relasi =>
      (r.isi[o][k] \ r.lihat[o][k]) \cap db[o][k] = {}

Basi(p) == \E o \in DOMAIN rencana[p].lihat : rencana[p].lihat[o] # db[o]

\* A foreign key is <<table, column, table referred to>>.  The columns by which
\* row o of b refers, under the keys in S, to a row that b deletes.
Terlepas(b, S, o) == {k \in DOMAIN b[o] : \E s \in S :
  s[1] = o[1] /\ s[2] = k /\ b[o][k] \in Baris(s[3]) /\ b[b[o][k]] = Bekas}
Terkait(b, S, o) == Nyata(b[o]) /\ Terlepas(b, S, o) # {}

\* ON DELETE SET NULL of the keys in S.
Lepas(b, S) == [o \in Obyek |-> IF Terkait(b, S, o)
  THEN [k \in DOMAIN b[o] |-> IF k \in Terlepas(b, S, o) THEN Kosong ELSE b[o][k]] ELSE b[o]]

\* ON DELETE CASCADE.
Ikut(b, S) == [o \in Obyek |-> IF Terkait(b, S, o) THEN Bekas ELSE b[o]]

FKSah(b, S) == \A s \in S : \A o \in Isi(b, s[1]) : b[o][s[2]] # Kosong => b[o][s[2]] \in Isi(b, s[3])

\* UNIQUE of the columns in kolom: NULLs differ from each other.
Unik(b, t, kolom) == \A o, c \in Isi(b, t) :
  o # c => \E k \in kolom : b[o][k] = Kosong \/ b[o][k] # b[c][k]

\* The last entry of a history and the row agree, but for a school that was
\* deleted: the database empties the column without an entry.
Sama(b, akhir, r) == akhir = r \/ (akhir # Tiada /\ "sekolah" \in DOMAIN akhir
  /\ akhir.sekolah \in Rak("sekolah") /\ b[akhir.sekolah] = Bekas
  /\ r = [akhir EXCEPT !.sekolah = Kosong])

\* The history of a row that has none.
TanpaRiwayat == [akhir |-> Tiada, utuh |-> TRUE]

\* Mutant: the values before are read after the change.
Catat_Sesudah(h, sebelum, sesudah) ==
  [akhir |-> sesudah,
   utuh |-> h.utuh /\ Sama(db, h.akhir, IF sebelum = Tiada THEN Tiada ELSE sesudah)]

\* catat: an entry with the values before and after; utuh says that every
\* entry started where the one before it ended, and the first from nothing.
Catat(h, sebelum, sesudah) ==
  [akhir |-> sesudah, utuh |-> h.utuh /\ Sama(db, h.akhir, sebelum)]

\* db.session: the commit of p; baru is what the database makes of its writes.
Tulis(p, baru, tercatat) ==
  LET r == rencana[p] IN
  /\ db' = baru
  /\ riwayat' = [o \in Obyek |->
       IF o \in DOMAIN r.isi /\ o[1] \in tercatat
       THEN Catat(riwayat[o], r.lihat[o], baru[o]) ELSE riwayat[o]]
  /\ tumpang' = IF Basi(p) THEN tumpang \cup DOMAIN r.isi ELSE tumpang
  /\ rencana' = [rencana EXCEPT ![p] = Tiada]
  /\ UNCHANGED muat

\* In this step a request, or a start, is done with the row o that it planned.
Ditulis(o) == \E p \in Proses :
  rencana[p] # Tiada /\ rencana'[p] = Tiada /\ o \in DOMAIN rencana[p].isi

\* A refused write, a lost connection, a crash: the transaction leaves nothing.
Gagal(p) ==
  /\ rencana[p] # Tiada
  /\ rencana' = [rencana EXCEPT ![p] = Tiada]
  /\ UNCHANGED <<muat, db, riwayat, tumpang>>
===============================================================================
