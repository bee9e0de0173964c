------------------------------ MODULE TaskinvSesi -----------------------------
(***************************************************************************)
(* One Task Inventory session, from DRAFT to ANALYZED: its respondents,    *)
(* the relevance selection of stage 1, the coordinator's review and the    *)
(* proposals of stage 2, the freeze of the relevant tasks, the details of  *)
(* stage 3, closing and analysis; and the ways back, unfreezing and        *)
(* deleting.                                                               *)
(*                                                                         *)
(* A step is a request.  The handlers take no lock; this module says what  *)
(* they guarantee when requests about one session do not overlap.          *)
(***************************************************************************)
EXTENDS Naturals, FiniteSets

CONSTANTS
  Responden,      \* ids of respondent rows
  Partisipan,     \* people
  Anggota,        \* members of the SME panel of the position
  BedaCabang,     \* people known to belong to another branch than the session
  Task,           \* tasks of the catalogue
  Usulan,         \* ids of proposed tasks, and of their catalogue rows
  TanpaUnit,      \* proposals for which no catalogue unit can be derived
  Nihil           \* none

ASSUME TaskinvAssumption ==
  /\ IsFiniteSet(Responden)
  /\ Anggota \subseteq Partisipan
  /\ Nihil \notin Responden \cup Partisipan
  /\ Task \cap Usulan = {}

VARIABLES
  status,         \* of the session, "TIADA" while there is none
  terdaftar,      \* respondent rows
  pemilik,        \* pemilik[r]: participant of row r, Nihil for a manual row
  tahap1,         \* rows with tahap1_submit
  tahap3,         \* rows with tahap3_submit
  seleksi,        \* seleksi[r]: tasks r marked as relevant
  putusan,        \* coordinator's decision on a task or a proposal
  pengusul,       \* pengusul[u]: row that proposed u, Nihil when u does not exist
  katalog,        \* katalog[u]: catalogue rows made from u; task_kode is set iff > 0
  terpilih,       \* task_terpilih_links
  beku,           \* task_frozen
  detail          \* detail[r][k]: entry of r about k

orang == <<terdaftar, pemilik>>
kirim == <<tahap1, tahap3>>
usul == <<putusan, pengusul, katalog>>
himpunan == <<terpilih, beku>>
vars == <<status, orang, kirim, seleksi, usul, himpunan, detail>>

Butir == Task \cup Usulan

StatusSesi == {"DRAFT", "TAHAP1", "TAHAP2", "TAHAP3", "CLOSED", "ANALYZED"}

\* DRAF: fields missing, or va_type still "Context-Dependent".
Isian == {"TIADA", "DRAF", "LENGKAP"}

TypeOK ==
  /\ status \in StatusSesi \cup {"TIADA"}
  /\ terdaftar \in SUBSET Responden
  /\ pemilik \in [Responden -> Partisipan \cup {Nihil}]
  /\ tahap1 \in SUBSET terdaftar
  /\ tahap3 \in SUBSET terdaftar
  /\ seleksi \in [Responden -> SUBSET Task]
  /\ putusan \in [Butir -> {"BELUM", "SETUJU", "TOLAK"}]
  /\ pengusul \in [Usulan -> terdaftar \cup {Nihil}]
  /\ katalog \in [Usulan -> Nat]
  /\ terpilih \in SUBSET Butir
  /\ beku \in BOOLEAN
  /\ detail \in [Responden -> [Butir -> Isian]]

TanpaIsian == [k \in Butir |-> "TIADA"]

Init ==
  /\ status = "TIADA"
  /\ terdaftar = {}
  /\ pemilik = [r \in Responden |-> Nihil]
  /\ tahap1 = {}
  /\ tahap3 = {}
  /\ seleksi = [r \in Responden |-> {}]
  /\ putusan = [k \in Butir |-> "BELUM"]
  /\ pengusul = [u \in Usulan |-> Nihil]
  /\ katalog = [u \in Usulan |-> 0]
  /\ terpilih = {}
  /\ beku = FALSE
  /\ detail = [r \in Responden |-> TanpaIsian]

-------------------------------------------------------------------------------
(* What the services compute.                                                *)

Pemilik == {pemilik[r] : r \in terdaftar} \ {Nihil}

\* count_relevan_per_task: rows of ti_seleksi, whether submitted or draft.
Jumlah(t) == Cardinality({r \in terdaftar : t \in seleksi[r]})
Terkirim == Cardinality(tahap1)

\* unanimous_terpilih and partial_terpilih.
Bulat == {t \in Task : Terkirim > 0 /\ Jumlah(t) > 0 /\ Jumlah(t) >= Terkirim}
Sebagian == {t \in Task : 0 < Jumlah(t) /\ Jumlah(t) < Terkirim}

\* get_approved_kodes, and the approved proposals of the session.
Disetujui == {t \in Task : putusan[t] = "SETUJU"}
UsulanDisetujui == {u \in Usulan : pengusul[u] # Nihil /\ putusan[u] = "SETUJU"}

\* task_kode is NULL.
BelumJadi == {u \in UsulanDisetujui : katalog[u] = 0}

\* What is frozen: unanimous, approved, and the catalogue rows of proposals.
Akhir == Bulat \cup Disetujui \cup UsulanDisetujui

Entri(r) == {k \in Butir : detail[r][k] # "TIADA"}

-------------------------------------------------------------------------------
(* Respondents.                                                              *)

\* New rows for the people of P, one each.
Daftarkan(P) ==
  \E R \in SUBSET (Responden \ terdaftar) :
    \E p \in [Responden -> Partisipan \cup {Nihil}] :
      /\ {p[r] : r \in R} = P
      /\ \A r1, r2 \in R : p[r1] = p[r2] => r1 = r2
      /\ \A r \in Responden \ R : p[r] = pemilik[r]
      /\ pemilik' = p
      /\ terdaftar' = terdaftar \cup R

\* SqlTiSesiService.create: the panel becomes the respondents, but for those of
\* another branch.
BuatSesi ==
  /\ status = "TIADA"
  /\ status' = "DRAFT"
  /\ Daftarkan(Anggota \ BedaCabang)
  /\ UNCHANGED <<kirim, seleksi, usul, himpunan, detail>>

\* What create_responden asks: the stage, and the panel unless the row is manual.
BolehDitambah(p) == status \in {"DRAFT", "TAHAP1"} /\ (p # Nihil => p \in Anggota)

\* create: a person of the branch without a row, or a manual row.
TambahResponden(p) ==
  /\ BolehDitambah(p)
  /\ p # Nihil => p \notin Pemilik \cup BedaCabang
  /\ Daftarkan({p})
  /\ UNCHANGED <<status, kirim, seleksi, usul, himpunan, detail>>

\* create_responden_banyak: the branch is not looked at.
TambahBanyak(P) ==
  /\ status \in {"DRAFT", "TAHAP1"}
  /\ Daftarkan((P \cap Anggota) \ Pemilik)
  /\ UNCHANGED <<status, kirim, seleksi, usul, himpunan, detail>>

\* delete: a row that submitted nothing, with all that refers to it.
HapusResponden(r) ==
  /\ r \in terdaftar \ (tahap1 \cup tahap3)
  /\ terdaftar' = terdaftar \ {r}
  /\ pemilik' = [pemilik EXCEPT ![r] = Nihil]
  /\ seleksi' = [seleksi EXCEPT ![r] = {}]
  /\ detail' = [detail EXCEPT ![r] = TanpaIsian]
  /\ pengusul' = [u \in Usulan |-> IF pengusul[u] = r THEN Nihil ELSE pengusul[u]]
  /\ putusan' = [k \in Butir |-> IF k \in Usulan /\ pengusul[k] = r THEN "BELUM" ELSE putusan[k]]
  /\ UNCHANGED <<status, kirim, katalog, himpunan>>

\* What alihkan_responden asks: the row has an owner, another than the target.
BolehDialihkan(r, p) == r \in terdaftar /\ pemilik[r] \notin {Nihil, p}

\* Mutant: the target may be a respondent already.
Alihkan_TanpaPeriksa(r, p) ==
  /\ BolehDialihkan(r, p)
  /\ pemilik' = [pemilik EXCEPT ![r] = p]
  /\ UNCHANGED <<status, terdaftar, kirim, seleksi, usul, himpunan, detail>>

\* alihkan: another person takes over the row and all its answers, at any stage.
Alihkan(r, p) ==
  /\ BolehDialihkan(r, p)
  /\ p \notin Pemilik
  /\ pemilik' = [pemilik EXCEPT ![r] = p]
  /\ UNCHANGED <<status, terdaftar, kirim, seleksi, usul, himpunan, detail>>

-------------------------------------------------------------------------------
(* Stage 1.                                                                  *)

MulaiTahap1 ==
  /\ status = "DRAFT"
  /\ status' = "TAHAP1"
  /\ UNCHANGED <<orang, kirim, seleksi, usul, himpunan, detail>>

\* Mutant: a submitted selection can still be saved.
SimpanSeleksi_Terkirim(r, S) ==
  /\ status = "TAHAP1"
  /\ r \in terdaftar
  /\ seleksi' = [seleksi EXCEPT ![r] = S]
  /\ UNCHANGED <<status, orang, kirim, usul, himpunan, detail>>

\* save_draft: replaces the selection; it may become empty.
SimpanSeleksi(r, S) ==
  /\ status = "TAHAP1"
  /\ r \in terdaftar \ tahap1
  /\ seleksi' = [seleksi EXCEPT ![r] = S]
  /\ UNCHANGED <<status, orang, kirim, usul, himpunan, detail>>

\* submit_seleksi.
KirimTahap1(r) ==
  /\ status = "TAHAP1"
  /\ r \in terdaftar \ tahap1
  /\ seleksi[r] # {}
  /\ tahap1' = tahap1 \cup {r}
  /\ UNCHANGED <<status, orang, tahap3, seleksi, usul, himpunan, detail>>

\* create_usulan; ids are never used again.
Usulkan(r, u) ==
  /\ status = "TAHAP1"
  /\ r \in terdaftar \ tahap1
  /\ pengusul[u] = Nihil
  /\ katalog[u] = 0
  /\ pengusul' = [pengusul EXCEPT ![u] = r]
  /\ UNCHANGED <<status, orang, kirim, seleksi, putusan, katalog, himpunan, detail>>

\* delete_usulan.
HapusUsulan(u) ==
  /\ status = "TAHAP1"
  /\ pengusul[u] \in terdaftar \ tahap1
  /\ pengusul' = [pengusul EXCEPT ![u] = Nihil]
  /\ UNCHANGED <<status, orang, kirim, seleksi, putusan, katalog, himpunan, detail>>

\* mulai_tahap2: somebody has submitted, or everybody unless forced.
MulaiTahap2(paksa) ==
  /\ status = "TAHAP1"
  /\ tahap1 # {}
  /\ tahap1 = terdaftar \/ paksa
  /\ status' = "TAHAP2"
  /\ UNCHANGED <<orang, kirim, seleksi, usul, himpunan, detail>>

-------------------------------------------------------------------------------
(* Stage 2.                                                                  *)

\* Mutant: any task of the catalogue can be decided, picked by all or by none.
PutuskanTask_Semua(t, b) ==
  /\ status = "TAHAP2"
  /\ putusan' = [putusan EXCEPT ![t] = b]
  /\ UNCHANGED <<status, orang, kirim, seleksi, pengusul, katalog, himpunan, detail>>

\* submit_tahap2_keputusan about a task picked by some, not all.
PutuskanTask(t, b) ==
  /\ status = "TAHAP2"
  /\ t \in Sebagian
  /\ putusan' = [putusan EXCEPT ![t] = b]
  /\ UNCHANGED <<status, orang, kirim, seleksi, pengusul, katalog, himpunan, detail>>

\* submit_tahap2_keputusan about a proposal of the session.
PutuskanUsulan(u, b) ==
  /\ status = "TAHAP2"
  /\ pengusul[u] # Nihil
  /\ putusan' = [putusan EXCEPT ![u] = b]
  /\ UNCHANGED <<status, orang, kirim, seleksi, pengusul, katalog, himpunan, detail>>

\* Mutant: catalogue rows are made although the proposal has a task_kode.
Materialkan_Lagi ==
  /\ UsulanDisetujui \cap TanpaUnit = {}
  /\ katalog' = [u \in Usulan |-> IF u \in UsulanDisetujui THEN katalog[u] + 1 ELSE katalog[u]]

\* materialize_approved: a catalogue row for every approved proposal without one.
Materialkan ==
  /\ BelumJadi \cap TanpaUnit = {}
  /\ katalog' = [u \in Usulan |-> IF u \in BelumJadi THEN katalog[u] + 1 ELSE katalog[u]]

\* mulai_tahap3 and freeze_task_terpilih: undecided tasks stop it unless forced.
MulaiTahap3(paksa) ==
  /\ status = "TAHAP2"
  /\ paksa \/ \A t \in Sebagian : putusan[t] # "BELUM"
  /\ Materialkan
  /\ Akhir # {}
  /\ terpilih' = Akhir
  /\ beku' = TRUE
  /\ status' = "TAHAP3"
  /\ UNCHANGED <<orang, kirim, seleksi, putusan, pengusul, detail>>

-------------------------------------------------------------------------------
(* Stage 3 and the end.                                                      *)

\* SqlTiSesiService.batalkan_tahap3: the tasks thaw.
Cairkan ==
  /\ status = "TAHAP3"
  /\ status' = "TAHAP2"
  /\ terpilih' = {}
  /\ beku' = FALSE

\* batalkan_tahap3: answers, flags and details stay.
Batalkan ==
  /\ Cairkan
  /\ UNCHANGED <<orang, kirim, seleksi, usul, detail>>

\* upsert of one entry, about a frozen task.
Tuliskan(r, k, isi) ==
  /\ k \in terpilih
  /\ detail' = [detail EXCEPT ![r][k] = isi]

\* save_draft_detail.
SimpanDetail(r, k, isi) ==
  /\ status = "TAHAP3"
  /\ r \in terdaftar \ tahap3
  /\ Tuliskan(r, k, isi)
  /\ UNCHANGED <<status, orang, kirim, seleksi, usul, himpunan>>

\* submit: at least one entry, and every entry of r complete.
SiapKirim(r) == Entri(r) # {} /\ \A k \in Entri(r) : detail[r][k] = "LENGKAP"

\* submit_detail.
KirimTahap3(r) ==
  /\ status = "TAHAP3"
  /\ r \in terdaftar \ tahap3
  /\ SiapKirim(r)
  /\ tahap3' = tahap3 \cup {r}
  /\ UNCHANGED <<status, orang, tahap1, seleksi, usul, himpunan, detail>>

Tutup ==
  /\ status = "TAHAP3"
  /\ status' = "CLOSED"
  /\ UNCHANGED <<orang, kirim, seleksi, usul, himpunan, detail>>

\* run_analisis: count_responden_submitted counts who has an entry.
Analisis ==
  /\ status = "CLOSED"
  /\ \E r \in terdaftar : Entri(r) # {}
  /\ status' = "ANALYZED"
  /\ UNCHANGED <<orang, kirim, seleksi, usul, himpunan, detail>>

\* delete_sesi: DRAFT, or forced; everything that refers to the session goes,
\* the catalogue stays.
HapusSesi(paksa) ==
  /\ status # "TIADA"
  /\ status = "DRAFT" \/ paksa
  /\ status' = "TIADA"
  /\ terdaftar' = {}
  /\ pemilik' = [r \in Responden |-> Nihil]
  /\ tahap1' = {}
  /\ tahap3' = {}
  /\ seleksi' = [r \in Responden |-> {}]
  /\ putusan' = [k \in Butir |-> "BELUM"]
  /\ pengusul' = [u \in Usulan |-> Nihil]
  /\ terpilih' = {}
  /\ beku' = FALSE
  /\ detail' = [r \in Responden |-> TanpaIsian]
  /\ UNCHANGED katalog

-------------------------------------------------------------------------------
LangkahResponden(r) ==
  \/ HapusResponden(r)
  \/ \E p \in Partisipan : Alihkan(r, p)
  \/ \E S \in SUBSET Task : SimpanSeleksi(r, S)
  \/ KirimTahap1(r)
  \/ \E u \in Usulan : Usulkan(r, u)
  \/ \E k \in Butir, isi \in {"DRAF", "LENGKAP"} : SimpanDetail(r, k, isi)
  \/ KirimTahap3(r)

LangkahPutusan(b) ==
  \/ \E t \in Task : PutuskanTask(t, b)
  \/ \E u \in Usulan : PutuskanUsulan(u, b)

LangkahAdmin ==
  \/ BuatSesi
  \/ \E p \in Partisipan \cup {Nihil} : TambahResponden(p)
  \/ \E P \in SUBSET Partisipan : TambahBanyak(P)
  \/ MulaiTahap1
  \/ \E paksa \in BOOLEAN : MulaiTahap2(paksa) \/ MulaiTahap3(paksa) \/ HapusSesi(paksa)
  \/ Batalkan
  \/ Tutup
  \/ Analisis

Next ==
  \/ LangkahAdmin
  \/ \E r \in Responden : LangkahResponden(r)
  \/ \E u \in Usulan : HapusUsulan(u)
  \/ \E b \in {"SETUJU", "TOLAK"} : LangkahPutusan(b)

Spec == Init /\ [][Next]_vars

-------------------------------------------------------------------------------
(* Properties.                                                               *)

\* The set of relevant tasks is frozen, and not empty, exactly from stage 3 on,
\* through any number of freezes and unfreezes.
BekuSesuaiTahap ==
  /\ beku <=> status \in {"TAHAP3", "CLOSED", "ANALYZED"}
  /\ beku <=> terpilih # {}

\* Who has submitted has answered: a selection in stage 1, in stage 3 at least
\* one entry and no incomplete one, whatever is frozen or thawed afterwards.
KirimBerisi ==
  /\ \A r \in tahap1 : seleksi[r] # {}
  /\ \A r \in tahap3 : Entri(r) # {} /\ \A k \in Entri(r) : detail[r][k] = "LENGKAP"

\* A person is one respondent of the session, through registrations one by one
\* and in bulk and transfers of rows.
SatuOrangSatuBaris ==
  \A r, s \in terdaftar : pemilik[r] = pemilik[s] /\ pemilik[r] # Nihil => r = s

\* What the coordinator has rejected is not detailed: no rejected task is
\* frozen, although rows deleted in the meantime change what all have picked,
\* and no proposal but an approved one that has its catalogue row.
PenolakanDihormati ==
  \A k \in terpilih :
    /\ putusan[k] # "TOLAK"
    /\ k \in Usulan => katalog[k] > 0 /\ (pengusul[k] # Nihil => putusan[k] = "SETUJU")

\* Freezing again does not make a proposal's catalogue row again.
MaterialisasiSekali == \A u \in Usulan : katalog[u] <= 1

\* A decided task stays one that not all have picked: rows that submitted are
\* not deleted after stage 1, drafts may be.
PutusanSebagian ==
  \A t \in Task : putusan[t] # "BELUM" => Jumlah(t) < Terkirim

\* Nothing is left of rows that are gone, and nothing is there too early.
SisaBersih ==
  /\ \A r \in Responden \ terdaftar :
       pemilik[r] = Nihil /\ seleksi[r] = {} /\ detail[r] = TanpaIsian
  /\ \A u \in Usulan : pengusul[u] = Nihil => putusan[u] = "BELUM"
  /\ status \in {"TIADA", "DRAFT"} => tahap1 = {} /\ tahap3 = {} /\ seleksi = [r \in Responden |-> {}]
  /\ status \in {"TIADA", "DRAFT", "TAHAP1"} => putusan = [k \in Butir |-> "BELUM"]
  /\ status = "TIADA" => terdaftar = {}

\* The inductive invariant behind them.
IndInv ==
  /\ TypeOK
  /\ BekuSesuaiTahap
  /\ KirimBerisi
  /\ SatuOrangSatuBaris
  /\ PenolakanDihormati
  /\ MaterialisasiSekali
  /\ PutusanSebagian
  /\ SisaBersih

\* The session keeps the promise of KajianBertahap.
Kajian == INSTANCE KajianBertahap WITH
  fase <- status,
  himpunan <- terpilih,
  pilihan <- [r \in Responden |-> IF r \in tahap1 THEN seleksi[r] ELSE {}],
  rincian <- [r \in Responden |-> IF r \in tahap3 THEN Entri(r) ELSE {}]
KajianDitepati == Kajian!KajianSpec

\* seleksi_sql.py, unanimous_terpilih: what is frozen without a decision was
\* picked by all who submitted stage 1.
BulatBerartiSemua ==
  [][ beku' /\ ~beku =>
        \A t \in terpilih' \cap Task :
          putusan[t] = "SETUJU" \/ \A r \in tahap1 : t \in seleksi[r] ]_vars
===============================================================================
