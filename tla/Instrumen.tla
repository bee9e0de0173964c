------------------------------ MODULE Instrumen -----------------------------
(***************************************************************************)
(* An instrument of the WCP and DCS kind: a single questionnaire whose     *)
(* bank of items may be edited until somebody has answered; respondents    *)
(* answer every item, as drafts until they submit; it is closed, analysed  *)
(* and may be opened again.  Read from the WCP code; that of DCS is the    *)
(* same but for names and results.                                         *)
(*                                                                         *)
(* A request is two steps at READ COMMITTED: it reads and checks, then its *)
(* flush and commit write.  tumpang records what was written by a request  *)
(* whose read was stale by then.                                           *)
(***************************************************************************)
EXTENDS Naturals, Sequences, FiniteSets, SequencesExt

CONSTANTS
  Proses,       \* server threads, each with one request
  Orang,        \* people
  Butir,        \* items of the seeded bank
  Bagian,       \* Bagian[b]: the dimension or sub-scale of item b
  Arah,         \* ways an item counts: what may be edited of it
  Bank0,        \* the seeded bank
  Nilai,        \* scores
  Tiada,        \* no row
  MaksBaris,    \* bound on respondents ever registered
  Batas         \* values of min_responden

\* Assumed by whoever makes an instrument of this module.
InstrumenAssumption ==
  /\ Bank0 \in [Butir -> Arah]
  /\ DOMAIN Bagian = Butir
  /\ MaksBaris \in Nat
  /\ Batas \in SUBSET Nat /\ Batas # {}
  /\ Tiada \notin Nilai /\ Tiada \notin Arah /\ Tiada \notin Butir
  /\ Tiada \notin Batas /\ Tiada \notin STRING
  /\ Tiada \notin [Butir -> Arah \cup {Tiada}]

VARIABLES
  instrumen,    \* the row of the instrument
  bank,         \* bank[b]: how item b counts, Tiada once it is deleted
  baris,        \* respondents with their answers, by order of creation
  rencana,      \* rencana[p]: what p's open request has read and will write
  tumpang       \* what was written on a stale read

vars == <<instrumen, bank, baris, rencana, tumpang>>

-------------------------------------------------------------------------------
(* Rows.  item_bank_hash is the bank itself.  A respondent that is deleted   *)
(* leaves its place: ids are not given again.                                *)

Status == {"OPEN", "CLOSED", "ANALYZED"}

\* _VALID_TRANSITIONS
Menuju == [OPEN |-> {"CLOSED"}, CLOSED |-> {"OPEN", "ANALYZED"}, ANALYZED |-> {"OPEN"}]

BarisInstrumen == [status : Status, min : Batas]

BarisButir == Arah \cup {Tiada}

Hash == [Butir -> BarisButir]

BarisJawaban == [Butir -> Nilai \cup {Tiada}]

BarisResponden == [ada : BOOLEAN, orang : Orang, kirim : BOOLEAN,
                   hash : Hash \cup {Tiada}, jawaban : BarisJawaban]

\* People in the order of a payload, nobody twice.
Urutan == UNION {SetToSeqs(S) : S \in SUBSET Orang}

\* A draft: some items, each with its score.
Draf == UNION {[S -> Nilai] : S \in (SUBSET Butir) \ {{}}}

\* What requests read and write: the instrument, each respondent, the list of
\* them, the bank.
Diri == 0
Daftar == MaksBaris + 1
Bank == MaksBaris + 2
Obyek == 0..(MaksBaris + 2)

Rencana ==
  [aktif : BOOLEAN, baca : SUBSET Obyek, tulis : SUBSET Obyek, basi : BOOLEAN,
   status : Status \cup {Tiada}, min : Batas \cup {Tiada},
   butir : Butir \cup {Tiada}, arah : BarisButir,
   tambah : Seq(Orang), r : 0..MaksBaris, hash : Hash \cup {Tiada},
   sisip : SUBSET Butir, ubah : SUBSET Butir, nilai : BarisJawaban,
   hapus : {"-", "responden", "semua"}]

Diam ==
  [aktif |-> FALSE, baca |-> {}, tulis |-> {}, basi |-> FALSE,
   status |-> Tiada, min |-> Tiada, butir |-> Tiada, arah |-> Tiada,
   tambah |-> <<>>, r |-> 0, hash |-> Tiada, sisip |-> {}, ubah |-> {},
   nilai |-> [b \in Butir |-> Tiada], hapus |-> "-"]

TypeOK ==
  /\ instrumen \in BarisInstrumen
  /\ bank \in Hash
  /\ baris \in Seq(BarisResponden) /\ Len(baris) <= MaksBaris
  /\ rencana \in [Proses -> Rencana]
  /\ tumpang \in SUBSET Obyek

Init ==
  /\ instrumen \in [status : {"OPEN"}, min : Batas]
  /\ bank = Bank0
  /\ baris = <<>>
  /\ rencana = [p \in Proses |-> Diam]
  /\ tumpang = {}

-------------------------------------------------------------------------------
(* What the services read.                                                   *)

Responden == {i \in DOMAIN baris : baris[i].ada}
Terkirim == {i \in Responden : baris[i].kirim}
Terdaftar == {baris[i].orang : i \in Responden}
Dijawab(i) == {b \in Butir : baris[i].jawaban[b] # Tiada}
ButirAda == {b \in Butir : bank[b] # Tiada}

\* Mutant: only answers that were submitted are asked about.
TanpaJawaban_Draf == \A i \in Terkirim : Dijawab(i) = {}

\* guard_tanpa_jawaban
TanpaJawaban == \A i \in Responden : Dijawab(i) = {}

\* _require_instrumen_open
Terbuka == instrumen.status = "OPEN"

Rencanakan(p, baca, tulis, isi) ==
  /\ ~rencana[p].aktif
  /\ rencana' = [rencana EXCEPT ![p] =
       [isi EXCEPT !.aktif = TRUE, !.baca = baca, !.tulis = tulis]]
  /\ UNCHANGED <<instrumen, bank, baris, tumpang>>

-------------------------------------------------------------------------------
(* Requests about the instrument.                                            *)

\* The minimum may be changed in any status.
UbahInstrumen(p, min) ==
  /\ min # instrumen.min
  /\ Rencanakan(p, {Diri}, {Diri}, [Diam EXCEPT !.min = min])

Beralih(p, ke) ==
  /\ ke \in Menuju[instrumen.status]
  /\ Rencanakan(p, {Diri}, {Diri}, [Diam EXCEPT !.status = ke])

Tutup(p) == Beralih(p, "CLOSED")
BukaUlang(p) == Beralih(p, "OPEN")

CukupResponden == Cardinality(Terkirim) >= instrumen.min

Analisis(p) ==
  /\ instrumen.status = "CLOSED"
  /\ CukupResponden
  /\ Rencanakan(p, Obyek, {Diri}, [Diam EXCEPT !.status = "ANALYZED"])

\* Mutant: nobody asks for answers before every respondent goes.
Reset_Bebas(p) ==
  /\ Responden # {} \/ ~Terbuka
  /\ Rencanakan(p, Obyek, Obyek \ {Bank},
       [Diam EXCEPT !.hapus = "semua", !.status = "OPEN"])

\* From any status.
Reset(p) ==
  /\ TanpaJawaban
  /\ Responden # {} \/ ~Terbuka
  /\ Rencanakan(p, Obyek, Obyek \ {Bank},
       [Diam EXCEPT !.hapus = "semua", !.status = "OPEN"])

\* In any status; a request that edits nothing is left out.
UbahButir(p, b, a) ==
  /\ b \in ButirAda
  /\ TanpaJawaban
  /\ bank[b] # a
  /\ Rencanakan(p, Obyek, {Bank}, [Diam EXCEPT !.butir = b, !.arah = a])

BukanTerakhir(b) == \E c \in ButirAda : c # b /\ Bagian[c] = Bagian[b]

HapusButir(p, b) ==
  /\ Terbuka
  /\ b \in ButirAda
  /\ TanpaJawaban
  /\ BukanTerakhir(b)
  /\ Rencanakan(p, Obyek, {Bank}, [Diam EXCEPT !.butir = b])

-------------------------------------------------------------------------------
(* Requests about respondents and their answers.                             *)

BarisBaru(urutan) ==
  [i \in DOMAIN urutan |-> [ada |-> TRUE, orang |-> urutan[i], kirim |-> FALSE,
                           hash |-> Tiada, jawaban |-> [b \in Butir |-> Tiada]]]

Daftarkan(p, o) ==
  /\ Terbuka
  /\ o \notin Terdaftar
  /\ Len(baris) < MaksBaris
  /\ Rencanakan(p, {Diri, Daftar}, {Daftar}, [Diam EXCEPT !.tambah = <<o>>])

\* The bulk form skips those who are registered.
DaftarkanBanyak(p, minta) ==
  LET baru == SelectSeq(minta, LAMBDA o : o \notin Terdaftar)
  IN /\ Terbuka
     /\ baru # <<>>
     /\ Len(baris) + Len(baru) <= MaksBaris
     /\ Rencanakan(p, {Diri, Daftar}, {Daftar}, [Diam EXCEPT !.tambah = baru])

HapusResponden(p, i) ==
  /\ i \in Responden \ Terkirim
  /\ Rencanakan(p, {i}, {i, Daftar}, [Diam EXCEPT !.r = i, !.hapus = "responden"])

Menjawab(i, d) ==
  LET baru == {b \in DOMAIN d : baris[i].jawaban[b] = Tiada}
      lain == {b \in DOMAIN d \ baru : baris[i].jawaban[b] # d[b]}
  IN [Diam EXCEPT !.r = i, !.sisip = baru, !.ubah = lain,
                  !.nilai = [b \in Butir |-> IF b \in DOMAIN d THEN d[b] ELSE Tiada]]

SimpanDraf(p, i, d) ==
  /\ i \in Responden \ Terkirim
  /\ Terbuka
  /\ DOMAIN d \subseteq ButirAda
  /\ \E b \in DOMAIN d : baris[i].jawaban[b] # d[b]
  /\ Rencanakan(p, {Diri, i, Bank}, {i}, Menjawab(i, d))

\* Answers beyond the items of the bank are not asked about.
LengkapDijawab(i) == ButirAda \subseteq Dijawab(i)

KirimJawaban(p, i) ==
  /\ i \in Responden \ Terkirim
  /\ Terbuka
  /\ LengkapDijawab(i)
  /\ Rencanakan(p, {Diri, i, Bank}, {i}, [Diam EXCEPT !.r = i, !.hash = bank])

-------------------------------------------------------------------------------
(* The commit.                                                               *)

\* An update of a row that is gone, a foreign key and the unique constraints on
\* persons and answers make it fail; deleting what is gone does not.
BisaDitulis(R) ==
  \/ R.hapus # "-"
  \/ /\ R.r # 0 => baris[R.r].ada
     /\ \A b \in R.sisip : baris[R.r].jawaban[b] = Tiada
     /\ R.butir # Tiada => R.arah = Tiada \/ bank[R.butir] # Tiada
     /\ \A k \in DOMAIN R.tambah : R.tambah[k] \notin Terdaftar

Tertulis(lama, kolom) == IF kolom = Tiada THEN lama ELSE kolom

Terhapus(R, i) == R.hapus = "semua" \/ (R.hapus = "responden" /\ R.r = i)

RespondenSesudah(R, i) ==
  IF Terhapus(R, i) \/ ~baris[i].ada
    THEN [BarisBaru(<<baris[i].orang>>)[1] EXCEPT !.ada = FALSE]
    ELSE [baris[i] EXCEPT
            !.kirim = @ \/ (R.r = i /\ R.hash # Tiada),
            !.hash = IF R.r = i THEN Tertulis(@, R.hash) ELSE @,
            !.jawaban = [b \in Butir |-> IF R.r = i /\ b \in R.sisip \cup R.ubah
                                           THEN R.nilai[b] ELSE @[b]]]

Tulis(p) ==
  LET R == rencana[p] IN
  /\ R.aktif
  /\ BisaDitulis(R)
  /\ Len(baris) + Len(R.tambah) <= MaksBaris
  /\ instrumen' = [status |-> Tertulis(instrumen.status, R.status),
                   min |-> Tertulis(instrumen.min, R.min)]
  /\ bank' = [b \in Butir |-> IF b = R.butir THEN R.arah ELSE bank[b]]
  /\ baris' = [i \in DOMAIN baris |-> RespondenSesudah(R, i)] \o BarisBaru(R.tambah)
  /\ rencana' = [q \in Proses |->
       IF q = p THEN Diam
       ELSE [rencana[q] EXCEPT !.basi = @ \/ rencana[q].baca \cap R.tulis # {}]]
  /\ tumpang' = IF R.basi THEN tumpang \cup R.tulis ELSE tumpang

\* The request ends without a commit: an error, or the process stops.
Gagal(p) ==
  /\ rencana[p].aktif
  /\ rencana' = [rencana EXCEPT ![p] = Diam]
  /\ UNCHANGED <<instrumen, bank, baris, tumpang>>

Langkah(p) ==
  \/ \E min \in Batas : UbahInstrumen(p, min)
  \/ Tutup(p) \/ BukaUlang(p) \/ Analisis(p) \/ Reset(p)
  \/ \E b \in Butir : HapusButir(p, b) \/ \E a \in Arah : UbahButir(p, b, a)
  \/ \E o \in Orang : Daftarkan(p, o)
  \/ \E minta \in Urutan : DaftarkanBanyak(p, minta)
  \/ \E i \in DOMAIN baris : \/ HapusResponden(p, i)
                            \/ \E d \in Draf : SimpanDraf(p, i, d)
                            \/ KirimJawaban(p, i)
  \/ Tulis(p) \/ Gagal(p)

Next == \E p \in Proses : Langkah(p)

Spec == Init /\ [][Next]_vars

-------------------------------------------------------------------------------
(* Properties.                                                               *)

\* All who have submitted answered the items as they are now, so that their
\* answers may be counted together; nobody answered an item that is gone; and
\* every dimension keeps an item.
BankSeragam ==
  Bank \notin tumpang =>
    /\ \A i \in Terkirim \ tumpang : baris[i].hash = bank
    /\ \A i \in Responden \ tumpang : Dijawab(i) \subseteq ButirAda
    /\ \A b \in Butir : \E c \in ButirAda : Bagian[c] = Bagian[b]

\* The instrument keeps the promise of a questionnaire, to all but those about
\* whom, or about the bank, a write rested on a stale read.
Kuesioner == INSTANCE KuesionerSekali WITH
  Penjawab <- 1..MaksBaris, Pertanyaan <- Butir, Jawaban <- Nilai, Belum <- Tiada,
  soal <- ButirAda,
  terbuka <- Terbuka,
  kiriman <- [i \in 1..MaksBaris |->
                IF i \in Terkirim \ tumpang /\ Bank \notin tumpang
                  THEN [b \in Dijawab(i) |-> baris[i].jawaban[b]] ELSE Tiada],
  lepas <- IF Bank \in tumpang THEN 1..MaksBaris ELSE tumpang \cap 1..MaksBaris

JanjiKuesioner == Kuesioner!KuesionerSpec
===============================================================================
