------------------------------- MODULE OpmSesi ------------------------------
(***************************************************************************)
(* OPM: a session copies the tasks a task inventory session has frozen;    *)
(* its respondents rate each of them, as drafts until they submit; the     *)
(* session is closed and analysed.  One position and branch, hence one     *)
(* session at a time.                                                      *)
(*                                                                         *)
(* A request is two steps at READ COMMITTED: it reads and checks, then its *)
(* flush and commit write.  Nothing locks in between.  tumpang records     *)
(* what was written by a request whose read was stale by then.             *)
(***************************************************************************)
EXTENDS Naturals, Sequences, FiniteSets, SequencesExt, FiniteSetsExt

CONSTANTS
  Proses,       \* server threads, each with one request
  Orang,        \* people
  Anggota,      \* members of the position's panel
  Kode,         \* codes of tasks
  Nilai,        \* complete ratings of a task: <<importance, frequency, criticality>>
  Sebagian,     \* a rating with a dimension missing
  Tiada,        \* no row
  MaksSesi,     \* bound on sessions ever created
  MaksBaris,    \* bound on respondents ever registered
  Batas         \* values of min_responden and max_responden

ASSUME OpmAssumption ==
  /\ Anggota \in SUBSET Orang /\ Anggota # {} /\ IsFiniteSet(Orang)
  /\ Nilai \subseteq (1..5) \X (1..5) \X (1..5)
  /\ Sebagian \notin Nilai /\ Tiada \notin Nilai /\ Sebagian # Tiada
  /\ MaksSesi \in Nat /\ MaksBaris \in Nat
  /\ Batas \in SUBSET (Nat \ {0})
  /\ Tiada \notin Orang /\ Tiada \notin Batas
  /\ Tiada \notin {"DRAFT", "OPEN", "CLOSED", "ANALYZED"}

VARIABLES
  himpunan, pengirim,   \* the task inventory session it is copied from
  sesi,         \* row of opm_sesi with its opm_sesi_task
  baris,        \* rows of opm_responden with their opm_jawaban, by creation
  register,     \* rows of opm_sesi_pengecualian: <<task_kode, alasan>>
  rencana,      \* rencana[p]: what p's open request has read and will write
  tumpang       \* what was written on a stale read

Sumber == INSTANCE SumberTugas WITH Pengisi <- Orang, Tugas <- Kode

vars == <<himpunan, pengirim, sesi, baris, register, rencana, tumpang>>

-------------------------------------------------------------------------------
(* Rows.  A respondent that is deleted leaves its place: ids are not given   *)
(* again.                                                                    *)

Status == {"DRAFT", "OPEN", "CLOSED", "ANALYZED"}

\* _VALID_TRANSITIONS: what each status leads to.
Berikut == [DRAFT |-> "OPEN", OPEN |-> "CLOSED", CLOSED |-> "ANALYZED"]

BarisSesi == [id : 0..MaksSesi, status : Status \cup {Tiada},
              min : Batas \cup {Tiada}, max : Batas \cup {Tiada}, task : SUBSET Kode]

BarisPengecualian ==
  Kode \X {"TI_DETAIL_UNMATCHED", "OPM_STD_MISSING", "OPM_RATING_MISSING"}

BarisJawaban == [Kode -> Nilai \cup {Sebagian, Tiada}]

BarisResponden ==
  [ada : BOOLEAN, orang : Orang, kirim : BOOLEAN, jawaban : BarisJawaban]

\* People in the order of a payload or of a query, nobody twice.
Urutan == UNION {SetToSeqs(S) : S \in SUBSET Orang}

\* A draft: some tasks, each with a rating that may be partial.
Draf == UNION {[S -> Nilai \cup {Sebagian}] : S \in (SUBSET Kode) \ {{}}}

\* What requests read and write: the session with its register, the list of
\* its respondents, and each of them.
Sesi == 0
Daftar == MaksBaris + 1
Obyek == 0..(MaksBaris + 1)

\* A plan; Tiada is a column that is not written, r the respondent it is
\* about, 0 for none; sisip and ubah the answers it inserts and updates.
Rencana ==
  [aktif : BOOLEAN, sesi : 0..MaksSesi, baca : SUBSET Obyek,
   tulis : SUBSET Obyek, basi : BOOLEAN,
   status : Status \cup {Tiada}, min : Batas \cup {Tiada},
   max : Batas \cup {Tiada}, catat : SUBSET Kode, tambah : Seq(Orang),
   r : 0..MaksBaris, orang : Orang \cup {Tiada}, kirim : BOOLEAN,
   sisip : SUBSET Kode, ubah : SUBSET Kode, nilai : BarisJawaban,
   hapus : {"-", "responden", "sesi"}]

Diam ==
  [aktif |-> FALSE, sesi |-> 0, baca |-> {}, tulis |-> {}, basi |-> FALSE,
   status |-> Tiada, min |-> Tiada, max |-> Tiada, catat |-> {},
   tambah |-> <<>>, r |-> 0, orang |-> Tiada, kirim |-> FALSE, sisip |-> {},
   ubah |-> {}, nilai |-> [k \in Kode |-> Tiada], hapus |-> "-"]

TanpaSesi(i) == [id |-> i, status |-> Tiada, min |-> Tiada, max |-> Tiada, task |-> {}]

TypeOK ==
  /\ himpunan \in SUBSET Kode /\ pengirim \in SUBSET Orang
  /\ sesi \in BarisSesi
  /\ baris \in Seq(BarisResponden) /\ Len(baris) <= MaksBaris
  /\ register \in SUBSET BarisPengecualian
  /\ rencana \in [Proses -> Rencana]
  /\ tumpang \in SUBSET Obyek

Init ==
  /\ Sumber!SumberInit
  /\ sesi = TanpaSesi(0)
  /\ baris = <<>>
  /\ register = {}
  /\ rencana = [p \in Proses |-> Diam]
  /\ tumpang = {}

-------------------------------------------------------------------------------
(* What the services read.                                                   *)

Responden == {i \in DOMAIN baris : baris[i].ada}
Terkirim == {i \in Responden : baris[i].kirim}
Terdaftar == {baris[i].orang : i \in Responden}
Dijawab(i) == {k \in Kode : baris[i].jawaban[k] # Tiada}

\* get_raw_by_responden leaves out ratings with a missing dimension.
Lengkapnya(i) == {k \in Kode : baris[i].jawaban[k] \in Nilai}

\* Mutant: a rating that is there counts, whatever its dimensions.
SemuaDimensi_Longgar(i) == TRUE

\* _validate_complete
SemuaDimensi(i) == Dijawab(i) = Lengkapnya(i)

\* _validate_task_set
TaskPersis(i) == Dijawab(i) = sesi.task

BolehKirim(i) == SemuaDimensi(i) /\ TaskPersis(i)

\* A request of p opens: it has read baca and will write tulis.
Rencanakan(p, baca, tulis, isi) ==
  /\ ~rencana[p].aktif
  /\ sesi.status # Tiada
  /\ rencana' = [rencana EXCEPT ![p] =
       [isi EXCEPT !.aktif = TRUE, !.sesi = sesi.id,
                   !.baca = baca, !.tulis = tulis]]
  /\ UNCHANGED <<himpunan, pengirim, sesi, baris, register, tumpang>>

Berubah(lama, baru) == IF baru = lama THEN Tiada ELSE baru

Kosong(ada, o) ==
  [ada |-> ada, orang |-> o, kirim |-> FALSE, jawaban |-> [k \in Kode |-> Tiada]]

RespondenBaru(urutan) == [i \in DOMAIN urutan |-> Kosong(TRUE, urutan[i])]

-------------------------------------------------------------------------------
(* Creation.  The catalogue is what its tables hold then: per code "tiada"   *)
(* (no link), "polos" (no standard ratings) or "standar".                    *)

Katalog == [Kode -> {"tiada", "polos", "standar"}]

\* Mutant: a chosen code that the catalogue lacks is dropped in silence.
Tercatat_Diam(kat) == {<<k, "OPM_STD_MISSING">> : k \in {c \in himpunan : kat[c] = "polos"}}

Tercatat(kat) ==
  {<<k, "TI_DETAIL_UNMATCHED">> : k \in {c \in himpunan : kat[c] = "tiada"}}
    \cup {<<k, "OPM_STD_MISSING">> : k \in {c \in himpunan : kat[c] = "polos"}}

BolehDibuat(min, max) ==
  /\ sesi.status = Tiada
  /\ sesi.id < MaksSesi
  /\ min <= max
  /\ himpunan # {}
  /\ Cardinality(pengirim) <= max

SesiBaru(kat, min, max) ==
  [id |-> sesi.id + 1, status |-> "DRAFT", min |-> min, max |-> max,
   task |-> {k \in himpunan : kat[k] # "tiada"}]

\* The respondents are those who submitted in the source, not the panel.
Buat(kat, min, max) ==
  /\ BolehDibuat(min, max)
  /\ Len(baris) + Cardinality(pengirim) <= MaksBaris
  /\ sesi' = SesiBaru(kat, min, max)
  /\ \E urutan \in SetToSeqs(pengirim) : baris' = baris \o RespondenBaru(urutan)
  /\ register' = Tercatat(kat)
  /\ tumpang' = tumpang \ {Sesi, Daftar}
  /\ UNCHANGED <<himpunan, pengirim, rencana>>

-------------------------------------------------------------------------------
(* Requests about the session.                                               *)

UbahSesi(p, min, max) ==
  /\ sesi.status = "DRAFT"
  /\ min <= max
  /\ <<min, max>> # <<sesi.min, sesi.max>>
  /\ Rencanakan(p, {Sesi}, {Sesi},
       [Diam EXCEPT !.min = Berubah(sesi.min, min), !.max = Berubah(sesi.max, max)])

\* transition: only along _VALID_TRANSITIONS.
Beralih(p, dari) ==
  /\ sesi.status = dari
  /\ Rencanakan(p, {Sesi}, {Sesi}, [Diam EXCEPT !.status = Berikut[dari]])

BukaSesi(p) == Beralih(p, "DRAFT")
TutupSesi(p) == Beralih(p, "OPEN")

\* Only a draft is deleted without force; with it the status is not asked.
HapusSesi(p, paksa) ==
  /\ paksa \/ sesi.status = "DRAFT"
  /\ Rencanakan(p, IF paksa THEN {} ELSE {Sesi}, {Sesi, Daftar},
       [Diam EXCEPT !.hapus = "sesi"])

\* Tasks without one complete rating, not yet in the register.
TanpaRating ==
  {k \in sesi.task : /\ \A i \in Terkirim : k \notin Lengkapnya(i)
                     /\ <<k, "OPM_RATING_MISSING">> \notin register}

CukupResponden == Cardinality(Terkirim) >= sesi.min

Analisis(p) ==
  /\ sesi.status \in {"CLOSED", "ANALYZED"}
  /\ CukupResponden
  /\ sesi.status = "CLOSED" \/ TanpaRating # {}
  /\ Rencanakan(p, Obyek, {Sesi},
       [Diam EXCEPT !.catat = TanpaRating, !.status = Berubah(sesi.status, "ANALYZED")])

-------------------------------------------------------------------------------
(* Requests about respondents.                                               *)

MenerimaResponden == sesi.status \in {"DRAFT", "OPEN"}

\* The loop of assign_banyak over a payload: it skips those who are no members,
\* registered already or beyond the capacity.
Diterima(minta) ==
  LET created[i \in 0..Len(minta)] ==
        IF i = 0 THEN <<>>
        ELSE IF /\ minta[i] \in Anggota \ Terdaftar
                /\ Cardinality(Responden) + Len(created[i-1]) < sesi.max
          THEN Append(created[i-1], minta[i]) ELSE created[i-1]
  IN created[Len(minta)]

DaftarkanBanyak(p, minta) ==
  /\ MenerimaResponden
  /\ Diterima(minta) # <<>>
  /\ Len(baris) + Len(Diterima(minta)) <= MaksBaris
  /\ Rencanakan(p, {Sesi, Daftar}, {Daftar}, [Diam EXCEPT !.tambah = Diterima(minta)])

\* One person: refused where the bulk form skips.
BolehSatu(o) == Cardinality(Responden) < sesi.max /\ o \in Anggota \ Terdaftar

Daftarkan(p, o) ==
  /\ MenerimaResponden
  /\ BolehSatu(o)
  /\ Len(baris) < MaksBaris
  /\ Rencanakan(p, {Sesi, Daftar}, {Daftar}, [Diam EXCEPT !.tambah = <<o>>])

BelumTerdaftar(o) == o \notin Terdaftar

\* Neither the status nor the panel is asked, and submitted answers move too.
Alihkan(p, i, o) ==
  /\ i \in Responden
  /\ BelumTerdaftar(o)
  /\ Rencanakan(p, {Daftar}, {Daftar}, [Diam EXCEPT !.r = i, !.orang = o])

BelumKirim(i) == i \in Responden \ Terkirim

HapusResponden(p, i) ==
  /\ BelumKirim(i)
  /\ Rencanakan(p, {i}, {i, Daftar}, [Diam EXCEPT !.r = i, !.hapus = "responden"])

-------------------------------------------------------------------------------
(* Requests of a respondent about his answers.                               *)

Menjawab(i, d) ==
  LET baru == {k \in DOMAIN d : baris[i].jawaban[k] = Tiada}
      lain == {k \in DOMAIN d \ baru : baris[i].jawaban[k] # d[k]}
  IN [Diam EXCEPT !.r = i, !.sisip = baru, !.ubah = lain,
                  !.nilai = [k \in Kode |-> IF k \in DOMAIN d THEN d[k] ELSE Tiada]]

\* Mutant: a draft is taken from somebody who has submitted.
MenerimaDraf_Terkirim(i) == sesi.status = "OPEN" /\ i \in Responden

MenerimaDraf(i) == sesi.status = "OPEN" /\ i \in Responden \ Terkirim

Dikenal(d) == DOMAIN d \subseteq sesi.task

SimpanDraf(p, i, d) ==
  /\ MenerimaDraf(i)
  /\ Dikenal(d)
  /\ \E k \in DOMAIN d : baris[i].jawaban[k] # d[k]
  /\ Rencanakan(p, {Sesi, i}, {i}, Menjawab(i, d))

\* mark_submitted
Menandai(i) == [Diam EXCEPT !.r = i, !.kirim = TRUE]

KirimJawaban(p, i) ==
  /\ sesi.status = "OPEN"
  /\ i \in Responden \ Terkirim
  /\ BolehKirim(i)
  /\ Rencanakan(p, {Sesi, i}, {i}, Menandai(i))

-------------------------------------------------------------------------------
(* The commit.                                                               *)

SesiAda(R) == sesi.id = R.sesi /\ sesi.status # Tiada

\* An update of a row that is gone, a foreign key and a unique constraint make
\* it fail; deleting what is gone does not.
BisaDitulis(R) ==
  \/ R.hapus # "-"
  \/ /\ R.tulis \cap {Sesi} # {} \/ R.tambah # <<>> => SesiAda(R)
     /\ R.r # 0 => baris[R.r].ada
     /\ \A k \in R.sisip : baris[R.r].jawaban[k] = Tiada
     /\ \A k \in R.catat : <<k, "OPM_RATING_MISSING">> \notin register

Tertulis(lama, kolom) == IF kolom = Tiada THEN lama ELSE kolom

SesiSesudah(R) ==
  IF R.hapus = "sesi"
    THEN IF SesiAda(R) THEN TanpaSesi(sesi.id) ELSE sesi
    ELSE [sesi EXCEPT !.status = Tertulis(@, R.status),
                      !.min = Tertulis(@, R.min), !.max = Tertulis(@, R.max)]

Terhapus(R, i) ==
  \/ R.hapus = "responden" /\ R.r = i
  \/ R.hapus = "sesi" /\ SesiAda(R)

RespondenSesudah(R, i) ==
  IF Terhapus(R, i) \/ ~baris[i].ada
    THEN Kosong(FALSE, baris[i].orang)
    ELSE [baris[i] EXCEPT
            !.orang = IF R.r = i THEN Tertulis(@, R.orang) ELSE @,
            !.kirim = @ \/ (R.r = i /\ R.kirim),
            !.jawaban = [k \in Kode |-> IF R.r = i /\ k \in R.sisip \cup R.ubah
                                          THEN R.nilai[k] ELSE @[k]]]

RegisterSesudah(R) ==
  IF R.hapus = "sesi" /\ SesiAda(R)
    THEN {} ELSE register \cup {<<k, "OPM_RATING_MISSING">> : k \in R.catat}

Tulis(p) ==
  LET R == rencana[p] IN
  /\ R.aktif
  /\ BisaDitulis(R)
  /\ Len(baris) + Len(R.tambah) <= MaksBaris
  /\ sesi' = SesiSesudah(R)
  /\ baris' = [i \in DOMAIN baris |-> RespondenSesudah(R, i)] \o RespondenBaru(R.tambah)
  /\ register' = RegisterSesudah(R)
  /\ rencana' = [q \in Proses |->
       IF q = p THEN Diam
       ELSE [rencana[q] EXCEPT !.basi = @ \/ rencana[q].baca \cap R.tulis # {}]]
  /\ tumpang' = IF R.basi THEN tumpang \cup R.tulis ELSE tumpang
  /\ UNCHANGED <<himpunan, pengirim>>

\* The request ends without a commit: an error, or the process stops.
Gagal(p) ==
  /\ rencana[p].aktif
  /\ rencana' = [rencana EXCEPT ![p] = Diam]
  /\ UNCHANGED <<himpunan, pengirim, sesi, baris, register, tumpang>>

\* The source changes, whether a session was copied from it or not.
SumberBerubah ==
  /\ Sumber!SumberNext
  /\ UNCHANGED <<sesi, baris, register, rencana, tumpang>>

Next ==
  \/ SumberBerubah
  \/ \E min, max \in Batas, kat \in Katalog : Buat(kat, min, max)
  \/ \E p \in Proses :
       \/ \E min, max \in Batas : UbahSesi(p, min, max)
       \/ BukaSesi(p) \/ TutupSesi(p) \/ Analisis(p)
       \/ \E paksa \in BOOLEAN : HapusSesi(p, paksa)
       \/ \E minta \in Urutan : DaftarkanBanyak(p, minta)
       \/ \E o \in Orang : Daftarkan(p, o)
       \/ \E i \in DOMAIN baris :
            \/ \E o \in Orang : Alihkan(p, i, o)
            \/ HapusResponden(p, i)
            \/ \E d \in Draf : SimpanDraf(p, i, d)
            \/ KirimJawaban(p, i)
       \/ Tulis(p) \/ Gagal(p)

Spec == Init /\ [][Next]_vars

-------------------------------------------------------------------------------
(* Results, from what is stored when they are asked for.  A mean is its sum  *)
(* and its count; the standard deviations are left out.                      *)

SelectionEssential(v, n) == v[1] >= 4 * n \/ v[3] >= 4 * n
WorkloadEssential(v, n) == (v[1] >= 3 * n /\ v[2] >= 3 * n) \/ v[3] >= 4 * n

JumlahDimensi(d, k, P) == MapThenSumSet(LAMBDA i : baris[i].jawaban[k][d], P)

\* compute_hasil_sesi of one task: who rated it, the sums of the dimensions,
\* the flags of the means, how many ratings have them, and the spread.
HasilTask(k) ==
  LET P == {i \in Terkirim : k \in Lengkapnya(i)}
      n == Cardinality(P)
      rating(i) == baris[i].jawaban[k]
      jumlah == [d \in 1..3 |-> JumlahDimensi(d, k, P)]
  IN [n |-> n, jumlah |-> jumlah,
      selection |-> n > 0 /\ SelectionEssential(jumlah, n),
      workload |-> n > 0 /\ WorkloadEssential(jumlah, n),
      nSelection |-> Cardinality({i \in P : SelectionEssential(rating(i), 1)}),
      nWorkload |-> Cardinality({i \in P : WorkloadEssential(rating(i), 1)}),
      spread |-> \E d \in 1..3, i, j \in P : rating(i)[d] >= rating(j)[d] + 2,
      orphan |-> k \in {e[1] : e \in register}]

\* get_hasil_sesi: only once it is analysed.
HasilTersedia == sesi.status = "ANALYZED"
HasilSesi == [k \in sesi.task |-> HasilTask(k)]

-------------------------------------------------------------------------------
(* Properties.                                                               *)

\* A session is analysed with as many submitted respondents as it asks for,
\* different people whatever was registered in bulk, transferred and registered
\* again; each has rated every task, so that none is ever entered as not rated
\* and the results of every task rest on all of them: no task is flagged that
\* nobody rated so.
AnalisisBerdasar ==
  tumpang = {} =>
    /\ HasilTersedia =>
         /\ Cardinality({baris[i].orang : i \in Terkirim}) >= sesi.min
         /\ \A k \in sesi.task : HasilSesi[k].n = Cardinality(Terkirim)
         /\ \A k \in sesi.task : HasilSesi[k].selection => HasilSesi[k].nSelection > 0
    /\ \A k \in Kode : <<k, "OPM_RATING_MISSING">> \notin register

\* What the source had frozen when the session was created is what its tasks
\* and its register have together, each code in one of them, for as long as the
\* session lives, thawed, frozen again or deleted as the source may be.
TakCocok == {k \in Kode : <<k, "TI_DETAIL_UNMATCHED">> \in register}

SnapshotTetap ==
  [][/\ sesi'.id # sesi.id =>
          sesi'.task \cup TakCocok' = himpunan /\ sesi'.task \cap TakCocok' = {}
     /\ sesi'.id = sesi.id /\ sesi'.status # Tiada =>
          sesi'.task = sesi.task /\ TakCocok' = TakCocok]_vars

\* OPM keeps the promise of a questionnaire, to all but those about whom a write
\* rested on a stale read.
Kuesioner == INSTANCE KuesionerSekali WITH
  Penjawab <- 1..MaksBaris, Pertanyaan <- Kode, Jawaban <- Nilai, Belum <- Tiada,
  soal <- sesi.task,
  terbuka <- sesi.status = "OPEN",
  kiriman <- [i \in 1..MaksBaris |->
                IF i \in Terkirim \ tumpang
                  THEN [k \in Dijawab(i) |-> baris[i].jawaban[k]] ELSE Tiada],
  lepas <- tumpang \cap 1..MaksBaris

JanjiKuesioner == Kuesioner!KuesionerSpec

-------------------------------------------------------------------------------
(* What makes them hold.  A plan is of one of six kinds; of a plan whose      *)
(* reads have not been overtaken, what it checked is still so.               *)

Segar(R) == ~R.basi
TanpaKolom(R) == R.status = Tiada /\ R.min = Tiada /\ R.max = Tiada /\ R.catat = {}
TanpaOrang(R) == R.tambah = <<>> /\ R.orang = Tiada
TanpaJawaban(R) == ~R.kirim /\ R.sisip = {} /\ R.ubah = {}

MengubahSesi(R) ==
  /\ Sesi \in R.baca /\ R.tulis = {Sesi}
  /\ R.hapus = "-" /\ R.r = 0 /\ TanpaOrang(R) /\ TanpaJawaban(R)
  /\ Segar(R) =>
       /\ SesiAda(R)
       /\ R.min # Tiada \/ R.max # Tiada => sesi.status = "DRAFT" /\ R.status = Tiada
       /\ R.status = "ANALYZED" => CukupResponden /\ R.baca = Obyek
       /\ tumpang = {} => R.catat = {}

MenghapusSesi(R) ==
  /\ R.tulis = {Sesi, Daftar} /\ R.hapus = "sesi" /\ R.r = 0
  /\ TanpaKolom(R) /\ TanpaOrang(R) /\ TanpaJawaban(R)

Mendaftarkan(R) ==
  /\ R.baca = {Sesi, Daftar} /\ R.tulis = {Daftar}
  /\ R.hapus = "-" /\ R.r = 0 /\ TanpaKolom(R) /\ TanpaJawaban(R)
  /\ R.tambah # <<>> /\ R.orang = Tiada
  /\ Segar(R) =>
       /\ SesiAda(R)
       /\ \A i \in DOMAIN R.tambah : R.tambah[i] \notin Terdaftar
       /\ \A i, j \in DOMAIN R.tambah : R.tambah[i] = R.tambah[j] => i = j

Mengalihkan(R) ==
  /\ R.baca = {Daftar} /\ R.tulis = {Daftar}
  /\ R.hapus = "-" /\ TanpaKolom(R) /\ TanpaJawaban(R)
  /\ R.r \in DOMAIN baris /\ R.tambah = <<>> /\ R.orang \in Orang
  /\ Segar(R) => SesiAda(R) /\ R.orang \notin Terdaftar

MenghapusResponden(R) ==
  /\ R.baca = {R.r} /\ R.tulis = {R.r, Daftar}
  /\ R.hapus = "responden" /\ TanpaKolom(R) /\ TanpaOrang(R) /\ TanpaJawaban(R)
  /\ R.r \in DOMAIN baris
  /\ Segar(R) => ~baris[R.r].kirim

MenulisJawaban(R) ==
  /\ R.baca = {Sesi, R.r} /\ R.tulis = {R.r}
  /\ R.hapus = "-" /\ TanpaKolom(R) /\ TanpaOrang(R)
  /\ R.r \in DOMAIN baris
  /\ R.kirim => R.sisip = {} /\ R.ubah = {}
  /\ Segar(R) =>
       /\ SesiAda(R)
       /\ R.r \in Responden \ Terkirim
       /\ R.kirim => sesi.status = "OPEN" /\ BolehKirim(R.r)

RencanaSah(R) ==
  R.aktif =>
    \/ MengubahSesi(R) \/ MenghapusSesi(R) \/ Mendaftarkan(R) \/ Mengalihkan(R)
    \/ MenghapusResponden(R) \/ MenulisJawaban(R)

\* A session has its limits; without one nobody is registered, and who is
\* deleted has submitted nothing.
SesiSah ==
  /\ IF sesi.status = Tiada THEN Responden = {} ELSE sesi.min \in Batas /\ sesi.max \in Batas
  /\ \A i \in DOMAIN baris : ~baris[i].ada => ~baris[i].kirim

\* What was submitted answers every task in full, whatever the status is by now.
KirimanLengkap == \A i \in Terkirim \ tumpang : BolehKirim(i)

\* Nobody is registered twice.
OrangTunggal ==
  Daftar \notin tumpang =>
    \A i, j \in Responden : baris[i].orang = baris[j].orang => i = j

AnalisisCukup ==
  tumpang = {} =>
    /\ HasilTersedia => CukupResponden
    /\ \A k \in Kode : <<k, "OPM_RATING_MISSING">> \notin register

IndInv ==
  /\ TypeOK
  /\ \A p \in Proses : RencanaSah(rencana[p])
  /\ SesiSah /\ KirimanLengkap /\ OrangTunggal /\ AnalisisCukup
===============================================================================
