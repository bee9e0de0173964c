------------------------------- MODULE Konfirmasi -----------------------------
(***************************************************************************)
(* Confirmations of the redesign study.  The team registers problems       *)
(* (masalah); a person of the school writes a story, locks it, is shown    *)
(* the team's hypothesis, assesses it and sends; what was sent is          *)
(* corrected by a new version (ralat).  Paper forms (luring) come in sent. *)
(*                                                                         *)
(* A request is two steps at READ COMMITTED: it reads and checks, then its *)
(* flush and commit write the columns that changed since that read.        *)
(* Nothing locks between the two: what a request writes may rest on a read *)
(* that another has overtaken.  tumpang records the objects this happened  *)
(* to.                                                                     *)
(***************************************************************************)
EXTENDS Naturals, Sequences, FiniteSets

CONSTANTS
  Proses,           \* server threads, each with one request
  Orang,            \* codes of persons
  Tim,              \* stands for the team where a person is expected
  Cerita,           \* contents of cerita_sebelum
  TanpaCerita,      \* the empty one
  Isi,              \* contents of parts C to E
  IsiKosong,        \* the empty one
  Lengkap,          \* those with every field of FIELD_WAJIB_KIRIM
  Berisiko,         \* those with indikasi_risiko "Ada indikasi"
  MenyebutBaru,     \* those with masalah_baru
  Konteks,          \* contexts, the prefix of a problem's code
  Awal,             \* values of status_awal
  KeteranganKasus,  \* the value given to a problem raised from a confirmation
  MaksKonfirmasi,   \* bound on the rows of redesain_konfirmasi
  MaksMasalah,      \* bound on the rows of redesain_masalah
  MaksDiikuti,      \* requests are about the first so many problems
  Nihil             \* NULL; in a plan, a column that is not written

ASSUME KonfirmasiAssumption ==
  /\ Tim \notin Orang
  /\ TanpaCerita \in Cerita
  /\ IsiKosong \in Isi \ (Lengkap \cup Berisiko \cup MenyebutBaru)
  /\ Lengkap \in SUBSET Isi
  /\ KeteranganKasus \in Awal
  /\ MaksKonfirmasi \in Nat /\ MaksMasalah \in Nat /\ MaksDiikuti \in Nat
  /\ Nihil \notin Cerita \cup Isi \cup Awal \cup BOOLEAN

VARIABLES
  konfirmasi,   \* rows of redesain_konfirmasi, by order of creation
  masalah,      \* rows of redesain_masalah, by order of creation
  rencana,      \* rencana[p]: what p's open request has read and will write
  tumpang       \* objects written after a read that was stale by then

vars == <<konfirmasi, masalah, rencana, tumpang>>

-------------------------------------------------------------------------------
(* Rows.  A stamp (kunci, tampil, eskalasi) is TRUE when its column is set;  *)
(* beku is the status the history entry bekukan_status_awal recorded.  A     *)
(* code is its context and number.                                           *)

BarisKonfirmasi ==
  [masalah : 1..MaksMasalah, orang : Orang, sumber : {"daring", "luring"},
   status : {"draf", "terkirim"}, gantikan : 0..MaksKonfirmasi,
   kunci : BOOLEAN, tampil : BOOLEAN, cerita : Cerita, isi : Isi]

BarisMasalah ==
  [konteks : Konteks, nomor : Nat \ {0}, dibuka : BOOLEAN, awal : Awal,
   beku : Awal \cup {Nihil}, eskalasi : BOOLEAN, asal : 0..MaksKonfirmasi]

\* An object is a pair <<m, x>>: x's confirmations of problem m, or, with Tim,
\* the row of problem m itself.
Obyek == (1..MaksMasalah) \X (Orang \cup {Tim})

\* obyek: what the request is about; basi: the part of it that others have
\* written since; k, m: the rows it
\* updates, 0 for none; then the columns of each; baris, daftar: the rows it
\* inserts.
Rencana ==
  [aktif : BOOLEAN, obyek : SUBSET Obyek, basi : SUBSET Obyek,
   k : 0..MaksKonfirmasi, kirim : BOOLEAN, kunci : BOOLEAN, tampil : BOOLEAN,
   cerita : Cerita \cup {Nihil}, isi : Isi \cup {Nihil},
   m : 0..MaksMasalah, dibuka : BOOLEAN \cup {Nihil}, awal : Awal \cup {Nihil},
   beku : Awal \cup {Nihil}, eskalasi : BOOLEAN,
   baris : BarisKonfirmasi \cup {Nihil}, daftar : BarisMasalah \cup {Nihil}]

Diam ==
  [aktif |-> FALSE, obyek |-> {}, basi |-> {},
   k |-> 0, kirim |-> FALSE, kunci |-> FALSE, tampil |-> FALSE,
   cerita |-> Nihil, isi |-> Nihil,
   m |-> 0, dibuka |-> Nihil, awal |-> Nihil,
   beku |-> Nihil, eskalasi |-> FALSE,
   baris |-> Nihil, daftar |-> Nihil]

TypeOK ==
  /\ konfirmasi \in Seq(BarisKonfirmasi) /\ Len(konfirmasi) <= MaksKonfirmasi
  /\ masalah \in Seq(BarisMasalah) /\ Len(masalah) <= MaksMasalah
  /\ rencana \in [Proses -> Rencana]
  /\ tumpang \in SUBSET Obyek
  /\ \A b \in DOMAIN konfirmasi :
       /\ konfirmasi[b].masalah <= Len(masalah)
       /\ konfirmasi[b].gantikan < b
  /\ \A m \in DOMAIN masalah : masalah[m].asal <= Len(konfirmasi)

Init ==
  /\ konfirmasi = <<>>
  /\ masalah = <<>>
  /\ rencana = [p \in Proses |-> Diam]
  /\ tumpang = {}

\* NULL is no row.
ASSUME NihilBukanBaris == Nihil \notin BarisKonfirmasi \cup BarisMasalah

-------------------------------------------------------------------------------
(* What the services compute from what they read.  A column that gets the    *)
(* value it has is not written; such requests change nothing and are left    *)
(* out.                                                                      *)

Milik(m, o) ==
  {b \in DOMAIN konfirmasi : konfirmasi[b].masalah = m /\ konfirmasi[b].orang = o}
Drafnya(m, o) == {b \in Milik(m, o) : konfirmasi[b].status = "draf"}
Kiriman(m, o) == {b \in Milik(m, o) : konfirmasi[b].status = "terkirim"}

\* _digantikan_ids: any later version counts, a draft too.
Digantikan(b) == \E c \in DOMAIN konfirmasi : konfirmasi[c].gantikan = b

\* Mutant: the draft of a correction already supersedes what was sent.
Terhitung_TanpaDraf(m) ==
  {b \in DOMAIN konfirmasi : /\ konfirmasi[b].masalah = m
                             /\ konfirmasi[b].status = "terkirim"
                             /\ ~Digantikan(b)}

\* The rows sebaran_k counts: sent, and not superseded by a sent version.
Terhitung(m) ==
  {b \in DOMAIN konfirmasi :
     /\ konfirmasi[b].masalah = m
     /\ konfirmasi[b].status = "terkirim"
     /\ \A c \in DOMAIN konfirmasi :
          konfirmasi[c].status = "terkirim" => konfirmasi[c].gantikan # b}

\* _kode_berikutnya: the highest number of the context plus one, which is the
\* least above all of them.
NomorBerikut(c) ==
  LET bebas == {i \in 1..(Len(masalah) + 1) :
                  \A m \in DOMAIN masalah :
                    masalah[m].konteks = c => masalah[m].nomor < i}
  IN CHOOSE i \in bebas : \A j \in bebas : i <= j

MasalahBaru(c, s, asal) ==
  [konteks |-> c, nomor |-> NomorBerikut(c), dibuka |-> FALSE, awal |-> s,
   beku |-> Nihil, eskalasi |-> FALSE, asal |-> asal]

\* _efek_terkirim on problem m, for a confirmation with assessment i.
BekukanBila(m) == IF masalah[m].beku = Nihil THEN masalah[m].awal ELSE Nihil
EskalasiBila(m, i) == i \in Berisiko /\ ~masalah[m].eskalasi

\* The bounds: insertions must fit, and later problems are not followed.
Muat(r) ==
  /\ \A x \in r.obyek : x[1] <= MaksDiikuti
  /\ r.baris # Nihil => Len(konfirmasi) < MaksKonfirmasi
  /\ r.daftar # Nihil => Len(masalah) < MaksMasalah

\* Process p has read and checked, and goes on to write what r says.
Mulai(p, r) ==
  /\ ~rencana[p].aktif
  /\ Muat(r)
  /\ rencana' = [rencana EXCEPT ![p] = r]
  /\ UNCHANGED <<konfirmasi, masalah, tumpang>>

Untuk(O) == [Diam EXCEPT !.aktif = TRUE, !.obyek = O]
UntukBaris(b) == [Untuk({<<konfirmasi[b].masalah, konfirmasi[b].orang>>})
                    EXCEPT !.k = b]

-------------------------------------------------------------------------------
(* The register of problems.                                                 *)

BuatMasalah(p) ==
  \E c \in Konteks, s \in Awal :
    Mulai(p, [Untuk({}) EXCEPT !.daftar = MasalahBaru(c, s, 0)])

\* PATCH of a problem; its other columns do not matter here.
UbahMasalah(p) ==
  \E m \in DOMAIN masalah : \E s \in Awal \ {masalah[m].awal} :
    /\ masalah[m].beku = Nihil
    /\ Mulai(p, [Untuk({<<m, Tim>>}) EXCEPT !.m = m, !.awal = s])

SetStatusKonfirmasi(p, m) ==
  Mulai(p, [Untuk({<<m, Tim>>}) EXCEPT !.m = m, !.dibuka = ~masalah[m].dibuka])

StatusKonfirmasiMasalah(p) == \E m \in DOMAIN masalah : SetStatusKonfirmasi(p, m)

-------------------------------------------------------------------------------
(* The service: the confirmation of one person, in the order it goes.        *)

\* _get_milik and _get_draf_milik: a row is changed by its owner only.
Miliknya(b, o) == konfirmasi[b].orang = o
DrafMiliknya(b, o) == Miliknya(b, o) /\ konfirmasi[b].status = "draf"

BuatDraf(p, m, o) ==
  /\ masalah[m].dibuka
  /\ Milik(m, o) = {}
  /\ Mulai(p, [Untuk({<<m, o>>}) EXCEPT
       !.baris = [masalah |-> m, orang |-> o, sumber |-> "daring",
                  status |-> "draf", gantikan |-> 0, kunci |-> FALSE,
                  tampil |-> FALSE, cerita |-> TanpaCerita, isi |-> IsiKosong]])

\* Mutant: assessed before the hypothesis is shown.
Ubah_TanpaDugaan(p, b, o, c, i) ==
  /\ DrafMiliknya(b, o)
  /\ c # Nihil => ~konfirmasi[b].kunci
  /\ Mulai(p, [UntukBaris(b) EXCEPT !.cerita = c, !.isi = i])

\* Mutant: a sent confirmation can be changed.
Ubah_Terkirim(p, b, o, c, i) ==
  /\ Miliknya(b, o)
  /\ c # Nihil => ~konfirmasi[b].kunci
  /\ i # Nihil => konfirmasi[b].tampil
  /\ Mulai(p, [UntukBaris(b) EXCEPT !.cerita = c, !.isi = i])

\* c and i are the story and the assessment of the payload, where it has them.
Ubah(p, b, o, c, i) ==
  /\ DrafMiliknya(b, o)
  /\ c # Nihil => ~konfirmasi[b].kunci
  /\ i # Nihil => konfirmasi[b].tampil
  /\ Mulai(p, [UntukBaris(b) EXCEPT !.cerita = c, !.isi = i])

KunciCerita(p, b, o) ==
  /\ DrafMiliknya(b, o)
  /\ ~konfirmasi[b].kunci
  /\ konfirmasi[b].cerita # TanpaCerita
  /\ Mulai(p, [UntukBaris(b) EXCEPT !.kunci = TRUE])

\* A sent confirmation may be asked too.
TampilkanDugaan(p, b, o) ==
  /\ Miliknya(b, o)
  /\ konfirmasi[b].kunci
  /\ ~konfirmasi[b].tampil
  /\ Mulai(p, [UntukBaris(b) EXCEPT !.tampil = TRUE])

Kirim(p, b, o) ==
  LET m == konfirmasi[b].masalah
      i == konfirmasi[b].isi
  IN /\ DrafMiliknya(b, o)
     /\ i \in Lengkap
     /\ Mulai(p, [UntukBaris(b) EXCEPT
          !.obyek = {<<m, o>>, <<m, Tim>>}, !.kirim = TRUE,
          !.m = m, !.beku = BekukanBila(m), !.eskalasi = EskalasiBila(m, i)])

\* The draft of a correction: content and stamps are those of the old version.
Ralat(p, b, o) ==
  LET lama == konfirmasi[b] IN
  /\ Miliknya(b, o)
  /\ lama.status = "terkirim"
  /\ ~Digantikan(b)
  /\ Drafnya(lama.masalah, o) = {}
  /\ Mulai(p, [Untuk({<<lama.masalah, o>>}) EXCEPT
       !.baris = [lama EXCEPT !.sumber = "daring", !.status = "draf",
                              !.gantikan = b]])

\* A paper form the team types in; the problem need not be open.
Luring(p, m, o, c, i) ==
  /\ i \in Lengkap
  /\ Milik(m, o) = {}
  /\ Mulai(p, [Untuk({<<m, o>>, <<m, Tim>>}) EXCEPT
       !.baris = [masalah |-> m, orang |-> o, sumber |-> "luring",
                  status |-> "terkirim", gantikan |-> 0, kunci |-> FALSE,
                  tampil |-> FALSE, cerita |-> c, isi |-> i],
       !.m = m, !.beku = BekukanBila(m), !.eskalasi = EskalasiBila(m, i)])

\* Mutant: raised any number of times.
AngkatMasalah_Berulang(p, b, c) ==
  /\ konfirmasi[b].status = "terkirim"
  /\ konfirmasi[b].isi \in MenyebutBaru
  /\ Mulai(p, [Untuk({<<konfirmasi[b].masalah, konfirmasi[b].orang>>}) EXCEPT
       !.daftar = MasalahBaru(c, KeteranganKasus, b)])

\* The team makes a problem of the masalah_baru of what was sent.
AngkatMasalah(p, b, c) ==
  /\ konfirmasi[b].status = "terkirim"
  /\ konfirmasi[b].isi \in MenyebutBaru
  /\ \A m \in DOMAIN masalah : masalah[m].asal # b
  /\ Mulai(p, [Untuk({<<konfirmasi[b].masalah, konfirmasi[b].orang>>}) EXCEPT
       !.daftar = MasalahBaru(c, KeteranganKasus, b)])

-------------------------------------------------------------------------------
(* The routes.  Who calls one of a person's has a participant with a school, *)
(* and so a code of a person (get_pengisi); there is one school here.        *)

CreateKonfirmasi(p) == \E o \in Orang, m \in DOMAIN masalah : BuatDraf(p, m, o)

\* PATCH.  If-Match, where sent, is compared with the same read.
UpdateKonfirmasi(p) ==
  \E o \in Orang, b \in DOMAIN konfirmasi :
    \E c \in (Cerita \cup {Nihil}) \ {konfirmasi[b].cerita},
       i \in (Isi \cup {Nihil}) \ {konfirmasi[b].isi} :
      <<c, i>> # <<Nihil, Nihil>> /\ Ubah(p, b, o, c, i)

KunciCeritaSaya(p) == \E o \in Orang, b \in DOMAIN konfirmasi : KunciCerita(p, b, o)
TampilkanDugaanSaya(p) == \E o \in Orang, b \in DOMAIN konfirmasi : TampilkanDugaan(p, b, o)
KirimKonfirmasi(p) == \E o \in Orang, b \in DOMAIN konfirmasi : Kirim(p, b, o)
RalatKonfirmasi(p) == \E o \in Orang, b \in DOMAIN konfirmasi : Ralat(p, b, o)

CreateKonfirmasiLuring(p) ==
  \E m \in DOMAIN masalah, o \in Orang, c \in Cerita, i \in Isi : Luring(p, m, o, c, i)
AngkatMasalahBaru(p) ==
  \E b \in DOMAIN konfirmasi, c \in Konteks : AngkatMasalah(p, b, c)

-------------------------------------------------------------------------------
(* The end of a request.                                                     *)

Tulis(lama, baru) == IF baru = Nihil THEN lama ELSE baru

KonfirmasiTertulis(r) ==
  [b \in DOMAIN konfirmasi |->
    IF b # r.k THEN konfirmasi[b]
    ELSE [konfirmasi[b] EXCEPT
            !.status = IF r.kirim THEN "terkirim" ELSE @,
            !.kunci = @ \/ r.kunci, !.tampil = @ \/ r.tampil,
            !.cerita = Tulis(@, r.cerita), !.isi = Tulis(@, r.isi)]]

MasalahTertulis(r) ==
  [m \in DOMAIN masalah |->
    IF m # r.m THEN masalah[m]
    ELSE [masalah[m] EXCEPT
            !.dibuka = Tulis(@, r.dibuka), !.awal = Tulis(@, r.awal),
            !.beku = Tulis(@, r.beku), !.eskalasi = @ \/ r.eskalasi]]

\* The code of a problem is unique.
KodeBebas(r) ==
  r.daftar # Nihil =>
    \A m \in DOMAIN masalah :
      <<masalah[m].konteks, masalah[m].nomor>> # <<r.daftar.konteks, r.daftar.nomor>>

\* Flush and commit.
Simpan(p) ==
  LET r == rencana[p] IN
  /\ r.aktif
  /\ Muat(r)
  /\ KodeBebas(r)
  /\ konfirmasi' = IF r.baris = Nihil THEN KonfirmasiTertulis(r)
                   ELSE Append(KonfirmasiTertulis(r), r.baris)
  /\ masalah' = IF r.daftar = Nihil THEN MasalahTertulis(r)
                ELSE Append(MasalahTertulis(r), r.daftar)
  /\ rencana' = [q \in Proses |->
       IF q = p THEN Diam
       ELSE [rencana[q] EXCEPT !.basi = @ \cup (rencana[q].obyek \cap r.obyek)]]
  /\ tumpang' = tumpang \cup r.basi

\* Rollback: a code that is taken (409), or any error on the way.
Gagal(p) ==
  /\ rencana[p].aktif
  /\ rencana' = [rencana EXCEPT ![p] = Diam]
  /\ UNCHANGED <<konfirmasi, masalah, tumpang>>

Next ==
  \E p \in Proses :
    \/ BuatMasalah(p) \/ UbahMasalah(p) \/ StatusKonfirmasiMasalah(p)
    \/ CreateKonfirmasi(p) \/ UpdateKonfirmasi(p) \/ KunciCeritaSaya(p)
    \/ TampilkanDugaanSaya(p) \/ KirimKonfirmasi(p) \/ RalatKonfirmasi(p)
    \/ CreateKonfirmasiLuring(p) \/ AngkatMasalahBaru(p)
    \/ Simpan(p) \/ Gagal(p)

Spec == Init /\ [][Next]_vars

-------------------------------------------------------------------------------
(* Properties.  Most hold as long as no write about the object in question   *)
(* rested on a stale read.                                                   *)

\* Nobody is shown the hypothesis before his story is locked, and nobody
\* assesses or sends before he is shown it, whatever overlaps; except where a
\* paper form came in, whose corrections inherit that it has no stamps.  (The
\* guards of update, kunci_cerita, tampilkan_dugaan, kirim and ralat.)
PenilaianSesudahDugaan ==
  \A b \in DOMAIN konfirmasi :
    LET k == konfirmasi[b] IN
    /\ k.tampil => k.kunci
    /\ k.isi # IsiKosong \/ k.status = "terkirim" =>
         k.tampil \/ \E a \in Milik(k.masalah, k.orang) :
                         konfirmasi[a].sumber = "luring"

Tunggal(S) == \A a, b \in S : a = b

\* Of each person and problem there is one draft at most, and once something
\* was sent exactly one version counts in sebaran_k, through any number of
\* corrections, whether sent or left as drafts.
SatuVersiBerlaku ==
  \A m \in DOMAIN masalah, o \in Orang :
    <<m, o>> \notin tumpang =>
      /\ Tunggal(Drafnya(m, o))
      /\ Tunggal(Terhitung(m) \cap Milik(m, o))
      /\ Kiriman(m, o) # {} => Terhitung(m) \cap Milik(m, o) # {}

\* What was sent stands, and a locked story is not changed, by nobody's later
\* step; a correction of a locked story keeps it ("cerita tidak dibuka ulang").
KirimanTetap ==
  [][\A b \in DOMAIN konfirmasi :
       LET k == konfirmasi[b]
           kk == konfirmasi'[b]
       IN <<k.masalah, k.orang>> \notin tumpang' =>
            /\ k.status = "terkirim" =>
                 kk.status = "terkirim" /\ kk.cerita = k.cerita /\ kk.isi = k.isi
            /\ k.kunci => kk.kunci /\ kk.cerita = k.cerita
            /\ k.gantikan # 0 /\ konfirmasi[k.gantikan].kunci =>
                 kk.cerita = konfirmasi[k.gantikan].cerita]_vars

\* A problem's status_awal is frozen exactly when something was sent about it,
\* at the value it has; it is escalated exactly when a sent version indicates a
\* risk (_efek_terkirim, and the guard of SqlMasalahService.update).
EfekTerkirim ==
  \A m \in DOMAIN masalah :
    LET kiriman == {b \in DOMAIN konfirmasi : /\ konfirmasi[b].masalah = m
                                              /\ konfirmasi[b].status = "terkirim"}
    IN <<m, Tim>> \notin tumpang =>
         /\ masalah[m].beku = IF kiriman = {} THEN Nihil ELSE masalah[m].awal
         /\ (\A o \in Orang : <<m, o>> \notin tumpang) =>
              (masalah[m].eskalasi <=> \E b \in kiriman : konfirmasi[b].isi \in Berisiko)

\* The numbers of a context run from 1 without gap or repetition, whatever
\* overlaps; a confirmation is raised to a problem once, after it was sent, and
\* from what it says (_kode_berikutnya with the unique code; angkat_masalah).
RegisterSah ==
  \A m \in DOMAIN masalah :
    LET b == masalah[m].asal IN
    /\ \A i \in 1..(masalah[m].nomor - 1) :
         \E n \in 1..(m - 1) : /\ masalah[n].konteks = masalah[m].konteks
                               /\ masalah[n].nomor = i
    /\ \A n \in DOMAIN masalah \ {m} :
         <<masalah[n].konteks, masalah[n].nomor>> # <<masalah[m].konteks, masalah[m].nomor>>
    /\ b # 0 =>
         /\ konfirmasi[b].status = "terkirim"
         /\ <<konfirmasi[b].masalah, konfirmasi[b].orang>> \notin tumpang =>
              /\ konfirmasi[b].isi \in MenyebutBaru
              /\ \A n \in DOMAIN masalah \ {m} : masalah[n].asal # b

\* What sending does to a problem, and the register a confirmation is raised to,
\* whatever requests overlap (_efek_terkirim, _kode_berikutnya, angkat_masalah).
MasalahSah == EfekTerkirim /\ RegisterSah

\* "Stempel ... ikut disalin sehingga ralat tidak membuka ulang cerita": the
\* story of a correction is the story of what it corrects.  It is not when that
\* came in on paper: there are no stamps to copy, so the story is open again.
RalatTidakMembukaCerita ==
  \A b \in DOMAIN konfirmasi :
    LET k == konfirmasi[b] IN
    k.gantikan # 0 /\ <<k.masalah, k.orang>> \notin tumpang =>
      k.cerita = konfirmasi[k.gantikan].cerita

-------------------------------------------------------------------------------
(* What the rows are to each other, and what an open request's plan still    *)
(* knows about the rows it read.  Together they are inductive.               *)

Pasangan(b) == <<konfirmasi[b].masalah, konfirmasi[b].orang>>

AdaLuring(x) == \E a \in DOMAIN konfirmasi : Pasangan(a) = x /\ konfirmasi[a].sumber = "luring"

\* A correction is of a sent version of the same pair, and of a pair whose
\* writes all rested on current reads each earlier version is sent and superseded by
\* one no later than the next.
RantaiSah ==
  /\ \A b \in DOMAIN konfirmasi :
       LET g == konfirmasi[b].gantikan IN
       g # 0 => Pasangan(g) = Pasangan(b) /\ konfirmasi[g].status = "terkirim"
  /\ \A a, b \in DOMAIN konfirmasi :
       a < b /\ Pasangan(a) = Pasangan(b) /\ Pasangan(a) \notin tumpang =>
         /\ konfirmasi[a].status = "terkirim"
         /\ \E c \in DOMAIN konfirmasi : c <= b /\ konfirmasi[c].gantikan = a

\* The correction of a locked story is locked, and has it.
RalatTerkunci ==
  \A b \in DOMAIN konfirmasi :
    LET g == konfirmasi[b].gantikan IN
    g # 0 /\ Pasangan(b) \notin tumpang /\ konfirmasi[g].kunci =>
      konfirmasi[b].kunci /\ konfirmasi[b].cerita = konfirmasi[g].cerita

NomorWajar == \A m \in DOMAIN masalah : masalah[m].nomor <= m

Memasukkan(r) == r.baris # Nihil
PasanganBaris(r) == <<r.baris.masalah, r.baris.orang>>
KirimanBaru(r) == Memasukkan(r) /\ r.baris.status = "terkirim"
Mengirim(r) == r.kirim \/ KirimanBaru(r)

\* What the plan r writes to exists and is among r.obyek, and r is one of: a
\* change of a confirmation, a new one, a new problem, a change of a problem.
BentukBaris(r) ==
  /\ r.k # 0 => r.k \in DOMAIN konfirmasi /\ Pasangan(r.k) \in r.obyek
  /\ r.kirim => r.k # 0 /\ r.m = konfirmasi[r.k].masalah /\ r.isi = Nihil
  /\ Memasukkan(r) =>
       /\ r.k = 0
       /\ r.baris.masalah \in DOMAIN masalah
       /\ PasanganBaris(r) \in r.obyek
       /\ r.baris.gantikan # 0 =>
            /\ r.baris.gantikan \in DOMAIN konfirmasi
            /\ Pasangan(r.baris.gantikan) = PasanganBaris(r)
            /\ konfirmasi[r.baris.gantikan].status = "terkirim"

BentukMasalah(r) ==
  /\ r.m # 0 => r.m \in DOMAIN masalah /\ <<r.m, Tim>> \in r.obyek
  /\ KirimanBaru(r) => r.m = r.baris.masalah
  /\ ~Mengirim(r) => r.beku = Nihil /\ ~r.eskalasi
  /\ Mengirim(r) => r.awal = Nihil

BentukDaftar(r) ==
  r.daftar # Nihil =>
    /\ r.daftar.beku = Nihil /\ ~r.daftar.eskalasi
    /\ r.daftar.asal # 0 =>
         /\ r.daftar.asal \in DOMAIN konfirmasi
         /\ Pasangan(r.daftar.asal) \in r.obyek
         /\ konfirmasi[r.daftar.asal].status = "terkirim"
    /\ r.daftar.nomor <= Len(masalah) + 1
    /\ \A i \in 1..(r.daftar.nomor - 1) :
         \E n \in DOMAIN masalah : /\ masalah[n].konteks = r.daftar.konteks
                                  /\ masalah[n].nomor = i

\* The order of locking, showing and assessing that r rests on; it is never
\* undone, however long ago r read it.
DugaanDulu(r) ==
  /\ r.k # 0 =>
       /\ r.tampil => konfirmasi[r.k].kunci
       /\ r.isi # Nihil => konfirmasi[r.k].tampil
       /\ r.kirim => konfirmasi[r.k].tampil \/ AdaLuring(Pasangan(r.k))
  /\ Memasukkan(r) =>
       /\ r.baris.tampil => r.baris.kunci
       /\ r.baris.isi # IsiKosong \/ KirimanBaru(r) =>
            \/ r.baris.tampil
            \/ r.baris.sumber = "luring"
            \/ AdaLuring(PasanganBaris(r))

\* What else r read holds of an object until someone else writes it.
Segar(r, x) == x \in r.obyek \ (r.basi \cup tumpang)

SegarBaris(r) ==
  /\ r.k # 0 /\ Segar(r, Pasangan(r.k)) =>
       /\ r.cerita # Nihil => konfirmasi[r.k].status = "draf" /\ ~konfirmasi[r.k].kunci
       /\ r.isi # Nihil \/ r.kunci => konfirmasi[r.k].status = "draf"
  /\ Memasukkan(r) /\ Segar(r, PasanganBaris(r)) =>
       LET g == r.baris.gantikan IN
       /\ \A a \in DOMAIN konfirmasi :
            Pasangan(a) = PasanganBaris(r) => a <= g /\ konfirmasi[a].status = "terkirim"
       /\ g # 0 /\ konfirmasi[g].kunci => r.baris.kunci /\ r.baris.cerita = konfirmasi[g].cerita

SegarMasalah(r) ==
  /\ r.m # 0 /\ Segar(r, <<r.m, Tim>>) =>
       /\ r.awal # Nihil => masalah[r.m].beku = Nihil
       /\ Mengirim(r) => r.beku = BekukanBila(r.m)
       /\ KirimanBaru(r) => r.eskalasi = EskalasiBila(r.m, r.baris.isi)
       /\ r.kirim /\ Segar(r, Pasangan(r.k)) =>
            r.eskalasi = EskalasiBila(r.m, konfirmasi[r.k].isi)
  /\ r.daftar # Nihil =>
       LET b == r.daftar.asal IN
       b # 0 /\ Segar(r, Pasangan(b)) =>
         konfirmasi[b].isi \in MenyebutBaru /\ \A m \in DOMAIN masalah : masalah[m].asal # b

RencanaSah(r) ==
  /\ BentukBaris(r) /\ BentukMasalah(r) /\ BentukDaftar(r)
  /\ DugaanDulu(r)
  /\ SegarBaris(r) /\ SegarMasalah(r)

\* The inductive invariant: what PenilaianSesudahDugaan, SatuVersiBerlaku,
\* MasalahSah and KirimanTetap rest on.
IndInv ==
  /\ TypeOK
  /\ PenilaianSesudahDugaan
  /\ RantaiSah /\ RalatTerkunci
  /\ NomorWajar /\ MasalahSah
  /\ \A p \in Proses : RencanaSah(rencana[p])

===============================================================================
