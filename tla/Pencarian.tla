------------------------------- MODULE Pencarian -------------------------------
(***************************************************************************)
(* What clients read: a row with its tag, pages of a register, and pages   *)
(* of what a search domain selects.  A page is read in two statements at   *)
(* READ COMMITTED, the number of rows and the rows, and others may commit  *)
(* in between.                                                             *)
(*                                                                         *)
(* A domain is a list in prefix notation: leaves [t, kolom, nilai] and the *)
(* operators "!", "&" and "|", where terms side by side are joined by "&". *)
(* services/domain.py evaluates it over a record, services/domain_sql.py   *)
(* makes SQL of it.  Order comparisons are as "=" here, and patterns match *)
(* a value that equals them.                                               *)
(*                                                                         *)
(* What a client holds is in two tables of its own: salinan, a copy of a   *)
(* row, and halaman, a page.                                               *)
(***************************************************************************)
EXTENDS Permintaan, Sequences

CONSTANTS
  DomainUji(_),   \* bound: domains asked of a register with these search fields
  UrutUji(_, _, _),  \* bound: orders asked with a domain; the own one, the sortable columns
  Batas,          \* rows a page may have
  Abjad           \* the values of columns, in order

-------------------------------------------------------------------------------
(* Domains.                                                                  *)

Logika == {"!", "&", "|"}
Lengan(x) == IF x.t \notin Logika THEN 0 ELSE IF x.t = "!" THEN 1 ELSE 2
Dan == [t |-> "&"]

\* normalize_domain.
Normal(d) ==
  LET n[i \in 0..Len(d)] ==
        IF i = 0 THEN [hasil |-> <<>>, kurang |-> 1]
        ELSE LET penuh == n[i - 1].kurang = 0 IN
             [hasil |-> Append((IF penuh THEN <<Dan>> ELSE <<>>) \o n[i - 1].hasil, d[i]),
              kurang |-> (IF penuh THEN 1 ELSE n[i - 1].kurang) + Lengan(d[i]) - 1]
  IN n[Len(d)].hasil

\* validate_domain_structure: one expression, and no token left over.
Seimbang(d) ==
  LET n == Normal(d)
      sisa[i \in 0..Len(n)] == IF i = 0 THEN 1 ELSE sisa[i - 1] + Lengan(n[i]) - 1 IN
  d = <<>> \/ (sisa[Len(n)] = 0 /\ \A i \in 0..Len(n) - 1 : sisa[i] > 0)

\* validate_searchable_fields.
FieldDikenal(d, kolom) == \A i \in DOMAIN d : d[i].t \notin Logika => d[i].kolom \in kolom

\* consume: the value of the first expression of the tokens from i on, and what
\* is left of them.
Konsumsi(n, Daun(_), Bukan(_), Dan2(_, _), Atau2(_, _)) ==
  LET nilai[i \in 1..Len(n) + 1] ==
        IF i > Len(n) THEN <<>>
        ELSE LET sisa == nilai[i + 1] IN
             CASE n[i].t = "!" -> <<Bukan(sisa[1])>> \o Tail(sisa)
               [] n[i].t = "&" -> <<Dan2(sisa[1], sisa[2])>> \o SubSeq(sisa, 3, Len(sisa))
               [] n[i].t = "|" -> <<Atau2(sisa[1], sisa[2])>> \o SubSeq(sisa, 3, Len(sisa))
               [] OTHER -> <<Daun(n[i])>> \o sisa
  IN nilai[1][1]

\* _match_leaf.
CocokDaun(v, x) ==
  CASE x.t = "=" -> v = x.nilai
    [] x.t = "!=" -> v # x.nilai
    [] x.t = "in" -> v \in x.nilai
    [] x.t = "not in" -> v \notin x.nilai
    [] x.t = "ilike" -> v # Kosong /\ v = x.nilai
    [] x.t = "not ilike" -> v = Kosong \/ v # x.nilai

\* evaluate_domain over the record r.
EvaluasiDomain(r, d) ==
  LET daun(x) == CocokDaun(r[x.kolom], x)
      bukan(a) == ~a
      dan(a, b) == a /\ b
      atau(a, b) == a \/ b IN
  d = <<>> \/ Konsumsi(Normal(d), daun, bukan, dan, atau)

\* The truth of SQL: TRUE, FALSE or unknown ("U").
Sql(a) == IF a THEN "T" ELSE "F"
SqlBukan(a) == CASE a = "T" -> "F" [] a = "F" -> "T" [] OTHER -> a
SqlDan(a, b) == IF "F" \in {a, b} THEN "F" ELSE IF "U" \in {a, b} THEN "U" ELSE "T"
SqlAtau(a, b) == IF "T" \in {a, b} THEN "T" ELSE IF "U" \in {a, b} THEN "U" ELSE "F"

\* _scalar_predicate.
PredikatSkalar(v, x) ==
  CASE x.t = "=" -> IF x.nilai = Kosong THEN Sql(v = Kosong)
         ELSE IF v = Kosong THEN "U" ELSE Sql(v = x.nilai)
    [] x.t = "!=" -> IF x.nilai = Kosong THEN Sql(v # Kosong)
         ELSE IF v = Kosong THEN "U" ELSE Sql(v # x.nilai)
    [] x.t = "in" ->
         IF v = Kosong \/ (v \notin x.nilai /\ Kosong \in x.nilai) THEN "U" ELSE Sql(v \in x.nilai)
    [] x.t = "not in" ->
         IF v = Kosong \/ (v \notin x.nilai /\ Kosong \in x.nilai) THEN "U" ELSE Sql(v \notin x.nilai)
    [] x.t = "ilike" -> IF v = Kosong THEN "U" ELSE Sql(v = x.nilai)
    [] x.t = "not ilike" -> IF v = Kosong THEN "U" ELSE Sql(v # x.nilai)

\* Mutant: the two branches of "|" are joined by AND.
KompilasiDomain_Dan(r, d) ==
  LET daun(x) == PredikatSkalar(r[x.kolom], x) IN
  d = <<>> \/ Konsumsi(Normal(d), daun, SqlBukan, SqlDan, SqlDan) = "T"

\* compile_domain, as a WHERE clause applies it to the row r.
KompilasiDomain(r, d) ==
  LET daun(x) == PredikatSkalar(r[x.kolom], x) IN
  d = <<>> \/ Konsumsi(Normal(d), daun, SqlBukan, SqlDan, SqlAtau) = "T"

-------------------------------------------------------------------------------
(* Records.                                                                  *)

\* _base_select: a problem with its assessment, whose columns are NULL when it
\* has none.
Gabungan2(o) ==
  LET milik == {x \in Baris("penilaian") : db[x].masalah = o}
      kolom == {"status_bukti", "saran", "prioritas", "status"} IN
  [k \in kolom |-> IF milik = {} THEN Kosong ELSE db[CHOOSE x \in milik : TRUE][k]]

\* The rows of a register, and what a row is to a search.
Asal(t) == IF t = "yayasan" THEN "masalah" ELSE t
Rekaman(t, o) == IF t = "yayasan" THEN Gabungan2(o) ELSE db[o]
Terpilih(t, d) == {o \in Baris(Asal(t)) : KompilasiDomain(Rekaman(t, o), d)}
Dibaca(t) == Rak(Asal(t)) \cup (IF t = "yayasan" THEN Rak("penilaian") ELSE {})

\* No NULL is compared: neither in the rows nor in the lists of the domain.
TanpaNull(d, t) == \A i \in DOMAIN d : d[i].t \notin Logika =>
  /\ \A o \in Baris(Asal(t)) : Rekaman(t, o)[d[i].kolom] # Kosong
  /\ d[i].t \in {"in", "not in"} => Kosong \notin d[i].nilai

-------------------------------------------------------------------------------
(* Order and pages.                                                          *)

\* The place of a value; NULL sorts last.  Identifiers, codes and times of
\* creation that the model has not stand in the order of the rows: "#".
Tempatnya(o, k) ==
  IF k = "#" THEN o[2]
  ELSE IF db[o][k] = Kosong THEN Len(Abjad) + 1
  ELSE IF \E i \in DOMAIN Abjad : Abjad[i] = db[o][k] THEN CHOOSE i \in DOMAIN Abjad : Abjad[i] = db[o][k]
  ELSE db[o][k][2]

\* order_by_columns: <<column, descending>> pairs.
Mendahului(o, c, urut) == \E i \in DOMAIN urut :
  /\ \A j \in 1..i - 1 : Tempatnya(o, urut[j][1]) = Tempatnya(c, urut[j][1])
  /\ IF urut[i][2] THEN Tempatnya(o, urut[i][1]) > Tempatnya(c, urut[i][1])
     ELSE Tempatnya(o, urut[i][1]) < Tempatnya(c, urut[i][1])

\* The rows of S in an order the columns allow; rows equal in all of them come
\* in any.
Terurut(S, urut) == {f \in [1..Cardinality(S) -> S] : \A i, j \in DOMAIN f :
  i # j => f[i] # f[j] /\ (i < j => ~Mendahului(f[j], f[i], urut))}

\* LIMIT and OFFSET.
Potong(f, limit, offset) ==
  SubSeq(f, offset + 1, IF offset + limit < Len(f) THEN offset + limit ELSE Len(f))

\* The first statement: how many rows the condition selects.  sesuai is what
\* evaluate_domain selects, Tiada where the two may differ.
HitungBaris(p, h, t, d, urut) == \E offset \in {0, Batas} :
  Rencanakan(p, Dibaca(t), [x \in {h} |->
    [tabel |-> t, offset |-> offset, isi |-> Tiada, domain |-> d, urut |-> urut,
     total |-> Cardinality(Terpilih(t, d)),
     sesuai |-> IF TanpaNull(d, t)
       THEN {o \in Baris(Asal(t)) : EvaluasiDomain(Rekaman(t, o), d)} ELSE Tiada]])

\* The second statement: the rows of the page.
BacaBaris(h) ==
  {Potong(f, Batas, h.offset) : f \in Terurut(Terpilih(h.tabel, h.domain), h.urut)}

Setengah(p) == rencana[p] # Tiada /\ \E o \in DOMAIN rencana[p].isi :
  o[1] = "halaman" /\ rencana[p].isi[o].isi = Tiada

\* The page is given out, whether or not the rows have changed meanwhile.
BacaHalaman(p) ==
  /\ Setengah(p)
  /\ \E o \in DOMAIN rencana[p].isi : LET h == rencana[p].isi[o] IN
       /\ \E f \in BacaBaris(h) : db' = [db EXCEPT ![o] = [tabel |-> h.tabel, offset |-> h.offset,
            total |-> h.total, isi |-> f, sesuai |-> h.sesuai]]
       /\ tumpang' = IF Basi(p) THEN tumpang \cup {o} ELSE tumpang
  /\ rencana' = [rencana EXCEPT ![p] = Tiada]
  /\ UNCHANGED <<muat, riwayat>>

-------------------------------------------------------------------------------
(* The requests.  A register b has a table, the fields of its searches, the  *)
(* columns it can be sorted by here, and its own order.                      *)

Naik(urut) == [i \in DOMAIN urut |-> <<urut[i], FALSE>>]
Terbaru == <<<<"#", TRUE>>>>
\* A client keeps a copy of what it was given of row o.  Only the routes that
\* take If-Match ask for it again.
Salin(p, o, wujud) == Tambah(p, BarisBaru("salinan"), {}, [obyek |-> o, wujud |-> wujud])
Ambil(p, t) == Luang(p) /\ \E o \in Baris(t) : Salin(p, o, db[o])
\* A page to fill, of a register that this behaviour has.
HalamanBaru(t) == IF Rak(Asal(t)) = {} THEN {} ELSE BarisBaru("halaman")
Daftar(p, b) ==
  Luang(p) /\ \E h \in HalamanBaru(b.tabel) : HitungBaris(p, h, b.tabel, <<>>, Naik(b.urut))
Cari(p, b) == Luang(p) /\ \E h \in HalamanBaru(b.tabel) :
  \E d \in DomainUji(b.kolom) : \E urut \in UrutUji(d, Naik(b.urut), b.kunci) :
    FieldDikenal(d, b.kolom) /\ Seimbang(d) /\ HitungBaris(p, h, b.tabel, d, urut)

-------------------------------------------------------------------------------
(* Properties.                                                               *)

\* A page and its total speak of the same rows, those evaluate_domain selects:
\* the SQL made of a domain means what the evaluator of the contract means
\* (domain_sql.py, "Kesetaraan semantik") where no NULL is compared, and a
\* page is as full as the total says.  A commit between the two statements
\* breaks it.
HalamanTepat == \A o \in Baris("halaman") \ tumpang :
  LET h == db[o]
      sisa == IF h.total > h.offset THEN h.total - h.offset ELSE 0 IN
  /\ Len(h.isi) = IF sisa < Batas THEN sisa ELSE Batas
  /\ \A i, j \in DOMAIN h.isi : i # j => h.isi[i] # h.isi[j]
  /\ h.sesuai # Tiada => h.total = Cardinality(h.sesuai) /\ \A i \in DOMAIN h.isi : h.isi[i] \in h.sesuai

\* A PATCH that passed If-Match changes the row the client had seen, and not
\* one that somebody changed after that ("412 bila usang").  The tag is
\* compared when the row is read: a commit after that is not noticed.
TulisanBersyarat ==
  [][\A p \in Proses : rencana[p] # Tiada /\ rencana'[p] = Tiada =>
       \A s \in rencana[p].syarat : \A o \in Obyek \ tumpang' :
         db[s].obyek = o /\ o \in DOMAIN rencana[p].isi /\ db'[o] # db[o] => db[o] = db[s].wujud]_vars
===============================================================================
