--------------------------- MODULE TaskinvSesiProofs --------------------------
(***************************************************************************)
(* A Task Inventory session for any number of respondents, people, tasks   *)
(* and proposals: the invariant of TaskinvSesi is inductive, and the       *)
(* session implements KajianBertahap.                                      *)
(*                                                                         *)
(* PenolakanDihormati does not hold by itself from step to step: that no   *)
(* rejected task is frozen as unanimous needs PutusanSebagian, that what   *)
(* has been decided stays picked by fewer than have submitted, and that in *)
(* turn needs that nothing is decided before stage 2 (SisaBersih), when    *)
(* selections still change.                                                *)
(***************************************************************************)
EXTENDS TaskinvSesi, TLAPS, FiniteSetTheorems

LEMMA Berawal == Init => IndInv
<1>. SUFFICES ASSUME Init PROVE IndInv
  OBVIOUS
<1>1. TypeOK
  BY DEF Init, TypeOK, StatusSesi, Isian, Butir, TanpaIsian
<1>2. /\ BekuSesuaiTahap /\ KirimBerisi /\ SatuOrangSatuBaris
      /\ PenolakanDihormati /\ MaterialisasiSekali
  BY DEF Init, BekuSesuaiTahap, KirimBerisi, SatuOrangSatuBaris,
     PenolakanDihormati, MaterialisasiSekali
<1>3. PutusanSebagian /\ SisaBersih
  BY DEF Init, PutusanSebagian, SisaBersih, Butir
<1>. QED  BY <1>1, <1>2, <1>3 DEF IndInv

\* New rows for people who have none leave a row a person.
LEMMA BarisBaru ==
  ASSUME IndInv, NEW P, P \cap Pemilik = {}, Daftarkan(P)
  PROVE  SatuOrangSatuBaris'
<1>1. PICK R \in SUBSET (Responden \ terdaftar),
          q \in [Responden -> Partisipan \cup {Nihil}] :
        /\ {q[r] : r \in R} = P
        /\ \A r1, r2 \in R : q[r1] = q[r2] => r1 = r2
        /\ \A r \in Responden \ R : q[r] = pemilik[r]
        /\ pemilik' = q
        /\ terdaftar' = terdaftar \cup R
  BY DEF Daftarkan
<1>2. \A r \in R : q[r] \in P
  BY <1>1
<1>3. \A r \in terdaftar : q[r] = pemilik[r]
  BY <1>1 DEF IndInv, TypeOK
<1>4. \A r \in terdaftar, s \in R : q[r] = q[s] => q[r] = Nihil
  BY <1>2, <1>3 DEF Pemilik
<1>. QED  BY <1>1, <1>3, <1>4 DEF IndInv, SatuOrangSatuBaris

\* The panel becomes the respondents, one row a person.
LEMMA LangkahBuatSesi ==
  ASSUME IndInv, BuatSesi
  PROVE  IndInv'
<1>1. TypeOK'
  BY DEF IndInv, TypeOK, BuatSesi, kirim, usul, himpunan, StatusSesi,
     Daftarkan, Pemilik
<1>2. KirimBerisi'
  BY DEF IndInv, KirimBerisi, BuatSesi, kirim, usul, himpunan, Entri
<1>3. SatuOrangSatuBaris'
  BY BarisBaru, Pemilik = {} DEF BuatSesi, IndInv, SisaBersih, Pemilik
<1>4. PutusanSebagian'
  BY DEF IndInv, PutusanSebagian, SisaBersih, BuatSesi, kirim, usul, himpunan,
     Jumlah, Terkirim, Butir
<1>5. SisaBersih'
  BY DEF IndInv, SisaBersih, BuatSesi, kirim, usul, himpunan, Butir, Daftarkan,
     Pemilik
<1>6. (BekuSesuaiTahap /\ PenolakanDihormati /\ MaterialisasiSekali)'
  BY DEF IndInv, BekuSesuaiTahap, PenolakanDihormati, MaterialisasiSekali,
     BuatSesi, kirim, usul, himpunan
<1>. QED  BY <1>1, <1>2, <1>3, <1>4, <1>5, <1>6 DEF IndInv

\* A new row belongs to nobody, or to a person without one.
LEMMA LangkahTambahResponden ==
  ASSUME IndInv, NEW p \in Partisipan \cup {Nihil}, TambahResponden(p)
  PROVE  IndInv'
<1>1. TypeOK'
  BY DEF IndInv, TypeOK, TambahResponden, BolehDitambah, kirim, usul, himpunan, StatusSesi,
     Daftarkan, Pemilik
<1>2. KirimBerisi'
  BY DEF IndInv, KirimBerisi, TambahResponden, BolehDitambah, kirim, usul, himpunan, Entri
<1>3. SatuOrangSatuBaris'
  <2>1. Daftarkan({p}) /\ {p} \cap Pemilik = {}
    BY DEF TambahResponden, BolehDitambah, Pemilik
  <2>. QED  BY <2>1, BarisBaru
<1>4. PutusanSebagian'
  BY DEF IndInv, PutusanSebagian, SisaBersih, TambahResponden, BolehDitambah, kirim, usul,
     himpunan, Jumlah, Terkirim, Butir
<1>5. SisaBersih'
  BY DEF IndInv, SisaBersih, TambahResponden, BolehDitambah, kirim, usul, himpunan, Butir,
     Daftarkan, Pemilik
<1>6. (BekuSesuaiTahap /\ PenolakanDihormati /\ MaterialisasiSekali)'
  BY DEF IndInv, BekuSesuaiTahap, PenolakanDihormati, MaterialisasiSekali,
     TambahResponden, BolehDitambah, kirim, usul, himpunan
<1>. QED  BY <1>1, <1>2, <1>3, <1>4, <1>5, <1>6 DEF IndInv

\* So do rows added in bulk.
LEMMA LangkahTambahBanyak ==
  ASSUME IndInv, NEW P \in SUBSET Partisipan, TambahBanyak(P)
  PROVE  IndInv'
<1>1. TypeOK'
  BY DEF IndInv, TypeOK, TambahBanyak, kirim, usul, himpunan, StatusSesi,
     Daftarkan, Pemilik
<1>2. KirimBerisi'
  BY DEF IndInv, KirimBerisi, TambahBanyak, kirim, usul, himpunan, Entri
<1>3. SatuOrangSatuBaris'
  <2>1. /\ Daftarkan((P \cap Anggota) \ Pemilik)
        /\ ((P \cap Anggota) \ Pemilik) \cap Pemilik = {}
    BY DEF TambahBanyak
  <2>. QED  BY <2>1, BarisBaru
<1>4. PutusanSebagian'
  BY DEF IndInv, PutusanSebagian, SisaBersih, TambahBanyak, kirim, usul,
     himpunan, Jumlah, Terkirim, Butir
<1>5. SisaBersih'
  BY DEF IndInv, SisaBersih, TambahBanyak, kirim, usul, himpunan, Butir,
     Daftarkan, Pemilik
<1>6. (BekuSesuaiTahap /\ PenolakanDihormati /\ MaterialisasiSekali)'
  BY DEF IndInv, BekuSesuaiTahap, PenolakanDihormati, MaterialisasiSekali,
     TambahBanyak, kirim, usul, himpunan
<1>. QED  BY <1>1, <1>2, <1>3, <1>4, <1>5, <1>6 DEF IndInv

\* A row that submitted nothing can only lower what others picked together.
LEMMA LangkahHapusResponden ==
  ASSUME IndInv, NEW r \in Responden, HapusResponden(r)
  PROVE  IndInv'
<1>1. TypeOK'
  BY DEF IndInv, TypeOK, HapusResponden, kirim, himpunan, StatusSesi, Isian,
     Butir, TanpaIsian
<1>2. KirimBerisi'
  BY DEF IndInv, KirimBerisi, HapusResponden, kirim, himpunan, Entri
<1>3. PenolakanDihormati'
  BY DEF IndInv, PenolakanDihormati, TypeOK, HapusResponden, kirim, himpunan
<1>4. PutusanSebagian'
  <2>1. SUFFICES ASSUME NEW t \in Task, putusan'[t] # "BELUM"
                 PROVE  Jumlah(t)' < Terkirim'
    BY DEF PutusanSebagian
  <2>2. putusan[t] # "BELUM"
    BY <2>1 DEF HapusResponden, Butir
  <2>3. Jumlah(t) < Terkirim
    BY <2>1, <2>2 DEF IndInv, PutusanSebagian
  <2>. DEFINE A == {s \in terdaftar : t \in seleksi[s]}
              B == {s \in terdaftar' : t \in seleksi'[s]}
  <2>4. B \in SUBSET A
    BY DEF HapusResponden, IndInv, TypeOK
  <2>5. IsFiniteSet(terdaftar) /\ IsFiniteSet(A) /\ IsFiniteSet(tahap1)
    <3>1. IsFiniteSet(terdaftar)
      BY TaskinvAssumption, FS_Subset DEF IndInv, TypeOK
    <3>2. A \in SUBSET terdaftar /\ tahap1 \in SUBSET terdaftar
      BY DEF IndInv, TypeOK
    <3>. QED  BY <3>1, <3>2, FS_Subset
  <2>6. Cardinality(B) <= Cardinality(A) /\ IsFiniteSet(B)
    BY <2>4, <2>5, FS_Subset
  <2>7. Cardinality(A) \in Nat /\ Cardinality(B) \in Nat /\ Terkirim \in Nat
    BY <2>5, <2>6, FS_CardinalityType DEF Terkirim
  <2>8. Jumlah(t) = Cardinality(A) /\ Jumlah(t)' = Cardinality(B)
    BY DEF Jumlah
  <2>9. Terkirim' = Terkirim
    BY DEF Terkirim, HapusResponden, kirim
  <2>. HIDE DEF A, B
  <2>. QED  BY <2>3, <2>6, <2>7, <2>8, <2>9
<1>5. SisaBersih'
  <2>1. \A s \in Responden \ terdaftar' :
          pemilik'[s] = Nihil /\ seleksi'[s] = {} /\ detail'[s] = TanpaIsian
    BY DEF HapusResponden, IndInv, TypeOK, SisaBersih
  <2>2. \A u \in Usulan : pengusul'[u] = Nihil => putusan'[u] = "BELUM"
    BY DEF HapusResponden, IndInv, SisaBersih, Butir
  <2>3. status' \in {"TIADA", "DRAFT"} =>
          tahap1' = {} /\ tahap3' = {} /\ seleksi' = [s \in Responden |-> {}]
    BY DEF HapusResponden, IndInv, SisaBersih, kirim
  <2>4. status' \in {"TIADA", "DRAFT", "TAHAP1"} => putusan' = [k \in Butir |-> "BELUM"]
    BY DEF HapusResponden, IndInv, SisaBersih
  <2>5. status' = "TIADA" => terdaftar' = {}
    BY DEF HapusResponden, IndInv, SisaBersih
  <2>. QED  BY <2>1, <2>2, <2>3, <2>4, <2>5 DEF SisaBersih
<1>6. (BekuSesuaiTahap /\ SatuOrangSatuBaris /\ MaterialisasiSekali)'
  BY DEF IndInv, BekuSesuaiTahap, SatuOrangSatuBaris, MaterialisasiSekali,
     HapusResponden, kirim, himpunan
<1>. QED  BY <1>1, <1>2, <1>3, <1>4, <1>5, <1>6 DEF IndInv

\* The new owner has no row.
LEMMA LangkahAlihkan ==
  ASSUME IndInv, NEW r \in Responden, NEW p \in Partisipan, Alihkan(r, p)
  PROVE  IndInv'
<1>1. KirimBerisi'
  BY DEF IndInv, KirimBerisi, Alihkan, BolehDialihkan, kirim, usul, himpunan, Entri
<1>2. SatuOrangSatuBaris'
  BY DEF IndInv, SatuOrangSatuBaris, Alihkan, BolehDialihkan, kirim, usul, himpunan, Pemilik
<1>3. PutusanSebagian'
  BY DEF IndInv, PutusanSebagian, Alihkan, BolehDialihkan, kirim, usul, himpunan, Jumlah,
     Terkirim
<1>4. /\ TypeOK'
      /\ BekuSesuaiTahap'
      /\ PenolakanDihormati'
      /\ MaterialisasiSekali'
      /\ SisaBersih'
  BY DEF IndInv, TypeOK, BekuSesuaiTahap, PenolakanDihormati,
     MaterialisasiSekali, SisaBersih, Alihkan, BolehDialihkan, kirim, usul, himpunan
<1>. QED  BY <1>1, <1>2, <1>3, <1>4 DEF IndInv

LEMMA LangkahMulaiTahap1 ==
  ASSUME IndInv, MulaiTahap1
  PROVE  IndInv'
<1>1. TypeOK'
  BY DEF IndInv, TypeOK, MulaiTahap1, orang, kirim, usul, himpunan, StatusSesi
<1>2. KirimBerisi'
  BY DEF IndInv, KirimBerisi, MulaiTahap1, orang, kirim, usul, himpunan, Entri
<1>3. PutusanSebagian'
  BY DEF IndInv, PutusanSebagian, MulaiTahap1, orang, kirim, usul, himpunan,
     Jumlah, Terkirim
<1>4. /\ BekuSesuaiTahap'
      /\ SatuOrangSatuBaris'
      /\ PenolakanDihormati'
      /\ MaterialisasiSekali'
      /\ SisaBersih'
  BY DEF IndInv, BekuSesuaiTahap, SatuOrangSatuBaris, PenolakanDihormati,
     MaterialisasiSekali, SisaBersih, MulaiTahap1, orang, kirim, usul, himpunan
<1>. QED  BY <1>1, <1>2, <1>3, <1>4 DEF IndInv

\* Nothing is decided in stage 1.
LEMMA LangkahSimpanSeleksi ==
  ASSUME IndInv, NEW r \in Responden, NEW S \in SUBSET Task, SimpanSeleksi(r, S)
  PROVE  IndInv'
<1>1. KirimBerisi'
  BY DEF IndInv, KirimBerisi, SimpanSeleksi, orang, kirim, usul, himpunan, Entri
<1>2. PutusanSebagian'
  BY DEF IndInv, PutusanSebagian, SisaBersih, SimpanSeleksi, orang, kirim,
     usul, himpunan, Jumlah, Terkirim, Butir
<1>3. /\ TypeOK'
      /\ BekuSesuaiTahap'
      /\ SatuOrangSatuBaris'
      /\ PenolakanDihormati'
      /\ MaterialisasiSekali'
      /\ SisaBersih'
  BY DEF IndInv, TypeOK, BekuSesuaiTahap, SatuOrangSatuBaris,
     PenolakanDihormati, MaterialisasiSekali, SisaBersih, SimpanSeleksi, orang,
     kirim, usul, himpunan
<1>. QED  BY <1>1, <1>2, <1>3 DEF IndInv

\* A submission has something to submit.
LEMMA LangkahKirimTahap1 ==
  ASSUME IndInv, NEW r \in Responden, KirimTahap1(r)
  PROVE  IndInv'
<1>1. KirimBerisi'
  BY DEF IndInv, KirimBerisi, KirimTahap1, orang, usul, himpunan, Entri
<1>2. PutusanSebagian'
  BY DEF IndInv, PutusanSebagian, SisaBersih, KirimTahap1, orang, usul,
     himpunan, Jumlah, Terkirim, Butir
<1>3. /\ TypeOK'
      /\ BekuSesuaiTahap'
      /\ SatuOrangSatuBaris'
      /\ PenolakanDihormati'
      /\ MaterialisasiSekali'
      /\ SisaBersih'
  BY DEF IndInv, TypeOK, BekuSesuaiTahap, SatuOrangSatuBaris,
     PenolakanDihormati, MaterialisasiSekali, SisaBersih, KirimTahap1, orang,
     usul, himpunan
<1>. QED  BY <1>1, <1>2, <1>3 DEF IndInv

\* A new proposal is undecided and has no catalogue row.
LEMMA LangkahUsulkan ==
  ASSUME IndInv, NEW r \in Responden, NEW u \in Usulan, Usulkan(r, u)
  PROVE  IndInv'
<1>1. KirimBerisi'
  BY DEF IndInv, KirimBerisi, Usulkan, orang, kirim, himpunan, Entri
<1>2. PutusanSebagian'
  BY DEF IndInv, PutusanSebagian, Usulkan, orang, kirim, himpunan, Jumlah,
     Terkirim
<1>3. /\ TypeOK'
      /\ BekuSesuaiTahap'
      /\ SatuOrangSatuBaris'
      /\ PenolakanDihormati'
      /\ MaterialisasiSekali'
      /\ SisaBersih'
  BY DEF IndInv, TypeOK, BekuSesuaiTahap, SatuOrangSatuBaris,
     PenolakanDihormati, MaterialisasiSekali, SisaBersih, Usulkan, orang,
     kirim, himpunan
<1>. QED  BY <1>1, <1>2, <1>3 DEF IndInv

LEMMA LangkahHapusUsulan ==
  ASSUME IndInv, NEW u \in Usulan, HapusUsulan(u)
  PROVE  IndInv'
<1>1. KirimBerisi'
  BY DEF IndInv, KirimBerisi, HapusUsulan, orang, kirim, himpunan, Entri
<1>2. PutusanSebagian'
  BY DEF IndInv, PutusanSebagian, HapusUsulan, orang, kirim, himpunan, Jumlah,
     Terkirim
<1>3. SisaBersih'
  BY DEF IndInv, SisaBersih, HapusUsulan, orang, kirim, himpunan, Butir
<1>4. /\ TypeOK'
      /\ BekuSesuaiTahap'
      /\ SatuOrangSatuBaris'
      /\ PenolakanDihormati'
      /\ MaterialisasiSekali'
  BY DEF IndInv, TypeOK, BekuSesuaiTahap, SatuOrangSatuBaris,
     PenolakanDihormati, MaterialisasiSekali, HapusUsulan, orang, kirim,
     himpunan
<1>. QED  BY <1>1, <1>2, <1>3, <1>4 DEF IndInv

\* Stages begin and end without touching the answers.
LEMMA LangkahMulaiTahap2 ==
  ASSUME IndInv, NEW paksa \in BOOLEAN, MulaiTahap2(paksa)
  PROVE  IndInv'
<1>1. TypeOK'
  BY DEF IndInv, TypeOK, MulaiTahap2, orang, kirim, usul, himpunan, StatusSesi
<1>2. KirimBerisi'
  BY DEF IndInv, KirimBerisi, MulaiTahap2, orang, kirim, usul, himpunan, Entri
<1>3. PutusanSebagian'
  BY DEF IndInv, PutusanSebagian, MulaiTahap2, orang, kirim, usul, himpunan,
     Jumlah, Terkirim
<1>4. /\ BekuSesuaiTahap'
      /\ SatuOrangSatuBaris'
      /\ PenolakanDihormati'
      /\ MaterialisasiSekali'
      /\ SisaBersih'
  BY DEF IndInv, BekuSesuaiTahap, SatuOrangSatuBaris, PenolakanDihormati,
     MaterialisasiSekali, SisaBersih, MulaiTahap2, orang, kirim, usul, himpunan
<1>. QED  BY <1>1, <1>2, <1>3, <1>4 DEF IndInv

\* Only what some, not all, have picked is decided; nothing is frozen meanwhile.
LEMMA LangkahPutuskanTask ==
  ASSUME IndInv, NEW t \in Task, NEW b \in {"SETUJU", "TOLAK"}, PutuskanTask(t,
         b)
  PROVE  IndInv'
<1>1. TypeOK'
  BY DEF IndInv, TypeOK, PutuskanTask, orang, kirim, himpunan, StatusSesi,
     Isian, Butir, TanpaIsian
<1>2. KirimBerisi'
  BY DEF IndInv, KirimBerisi, PutuskanTask, orang, kirim, himpunan, Entri
<1>3. PenolakanDihormati'
  BY DEF IndInv, PenolakanDihormati, TypeOK, BekuSesuaiTahap, PutuskanTask,
     orang, kirim, himpunan
<1>4. PutusanSebagian'
  <2>1. \A s \in Task : Jumlah(s)' = Jumlah(s)
    BY DEF Jumlah, PutuskanTask, orang
  <2>2. Terkirim' = Terkirim
    BY DEF Terkirim, PutuskanTask, kirim
  <2>3. Jumlah(t) < Terkirim
    BY DEF PutuskanTask, Sebagian
  <2>4. \A s \in Task \ {t} : putusan'[s] = putusan[s]
    BY DEF PutuskanTask, IndInv, TypeOK
  <2>. QED  BY <2>1, <2>2, <2>3, <2>4 DEF IndInv, PutusanSebagian
<1>5. /\ BekuSesuaiTahap'
      /\ SatuOrangSatuBaris'
      /\ MaterialisasiSekali'
      /\ SisaBersih'
  BY TaskinvAssumption DEF IndInv, BekuSesuaiTahap, SatuOrangSatuBaris,
     MaterialisasiSekali, SisaBersih, PutuskanTask, orang, kirim, himpunan
<1>. QED  BY <1>1, <1>2, <1>3, <1>4, <1>5 DEF IndInv

LEMMA LangkahPutuskanUsulan ==
  ASSUME IndInv, NEW u \in Usulan, NEW b \in {"SETUJU", "TOLAK"},
         PutuskanUsulan(u, b)
  PROVE  IndInv'
<1>1. TypeOK'
  BY DEF IndInv, TypeOK, PutuskanUsulan, orang, kirim, himpunan, StatusSesi,
     Isian, Butir, TanpaIsian
<1>2. KirimBerisi'
  BY DEF IndInv, KirimBerisi, PutuskanUsulan, orang, kirim, himpunan, Entri
<1>3. PenolakanDihormati'
  BY DEF IndInv, PenolakanDihormati, TypeOK, BekuSesuaiTahap, PutuskanUsulan,
     orang, kirim, himpunan
<1>4. PutusanSebagian'
  BY TaskinvAssumption DEF IndInv, PutusanSebagian, PutuskanUsulan, orang,
     kirim, himpunan, Jumlah, Terkirim
<1>5. /\ BekuSesuaiTahap'
      /\ SatuOrangSatuBaris'
      /\ MaterialisasiSekali'
      /\ SisaBersih'
  BY DEF IndInv, BekuSesuaiTahap, SatuOrangSatuBaris, MaterialisasiSekali,
     SisaBersih, PutuskanUsulan, orang, kirim, himpunan
<1>. QED  BY <1>1, <1>2, <1>3, <1>4, <1>5 DEF IndInv

\* What is frozen is unanimous, and so undecided, or approved.
LEMMA LangkahMulaiTahap3 ==
  ASSUME IndInv, NEW paksa \in BOOLEAN, MulaiTahap3(paksa)
  PROVE  IndInv'
<1>1. TypeOK'
  BY DEF IndInv, TypeOK, MulaiTahap3, orang, kirim, StatusSesi, Isian, Butir,
     TanpaIsian, Materialkan, BelumJadi, UsulanDisetujui, Akhir, Bulat,
     Disetujui
<1>2. KirimBerisi'
  BY DEF IndInv, KirimBerisi, MulaiTahap3, orang, kirim, Entri
<1>3. PenolakanDihormati'
  <2>1. SUFFICES ASSUME NEW k \in Akhir
                 PROVE  /\ putusan[k] # "TOLAK"
                        /\ k \in Usulan => /\ katalog'[k] > 0
                                           /\ pengusul[k] # Nihil => putusan[k] = "SETUJU"
    BY DEF PenolakanDihormati, MulaiTahap3
  <2>2. CASE k \in Bulat
    <3>1. k \in Task /\ Jumlah(k) >= Terkirim /\ Terkirim > 0
      BY <2>2 DEF Bulat
    <3>2. ~ (Jumlah(k) < Terkirim)
      <4>1. Terkirim \in Nat
        BY TaskinvAssumption, FS_Subset, FS_CardinalityType DEF Terkirim, IndInv, TypeOK
      <4>2. Jumlah(k) \in Nat
        <5>1. {r \in terdaftar : k \in seleksi[r]} \in SUBSET Responden
          BY DEF IndInv, TypeOK
        <5>. QED  BY <5>1, TaskinvAssumption, FS_Subset, FS_CardinalityType DEF Jumlah
      <4>. QED  BY <3>1, <4>1, <4>2
    <3>3. putusan[k] = "BELUM"
      BY <3>1, <3>2 DEF IndInv, PutusanSebagian
    <3>. QED  BY <3>1, <3>3, TaskinvAssumption
  <2>3. CASE k \in Disetujui
    BY <2>3, TaskinvAssumption DEF Disetujui
  <2>4. CASE k \in UsulanDisetujui
    <3>1. k \in Usulan /\ putusan[k] = "SETUJU"
      BY <2>4 DEF UsulanDisetujui
    <3>2. katalog'[k] > 0
      BY <2>4, <3>1 DEF MulaiTahap3, Materialkan, BelumJadi, IndInv, TypeOK
    <3>. QED  BY <3>1, <3>2
  <2>. QED  BY <2>1, <2>2, <2>3, <2>4 DEF Akhir
<1>4. MaterialisasiSekali'
  BY DEF IndInv, MaterialisasiSekali, MulaiTahap3, orang, kirim, Materialkan,
     BelumJadi, UsulanDisetujui, Akhir, Bulat, Disetujui
<1>5. PutusanSebagian'
  BY DEF IndInv, PutusanSebagian, MulaiTahap3, orang, kirim, Jumlah, Terkirim
<1>6. (BekuSesuaiTahap /\ SatuOrangSatuBaris /\ SisaBersih)'
  BY DEF IndInv, BekuSesuaiTahap, SatuOrangSatuBaris, SisaBersih, MulaiTahap3,
     orang, kirim
<1>. QED  BY <1>1, <1>2, <1>3, <1>4, <1>5, <1>6 DEF IndInv

\* Thawing leaves nothing frozen.
LEMMA LangkahBatalkan ==
  ASSUME IndInv, Batalkan
  PROVE  IndInv'
<1>1. TypeOK'
  BY DEF IndInv, TypeOK, Batalkan, Cairkan, orang, kirim, usul, himpunan, StatusSesi,
     Isian, Butir, TanpaIsian, SisaBersih
<1>2. KirimBerisi'
  BY DEF IndInv, KirimBerisi, Batalkan, Cairkan, orang, kirim, usul, Entri
<1>3. PutusanSebagian'
  BY DEF IndInv, PutusanSebagian, Batalkan, Cairkan, orang, kirim, usul, Jumlah, Terkirim
<1>4. /\ BekuSesuaiTahap'
      /\ SatuOrangSatuBaris'
      /\ PenolakanDihormati'
      /\ MaterialisasiSekali'
      /\ SisaBersih'
  BY DEF IndInv, BekuSesuaiTahap, SatuOrangSatuBaris, PenolakanDihormati,
     MaterialisasiSekali, SisaBersih, Batalkan, Cairkan, orang, kirim, usul
<1>. QED  BY <1>1, <1>2, <1>3, <1>4 DEF IndInv

\* Entries change for rows that have not submitted.
LEMMA LangkahSimpanDetail ==
  ASSUME IndInv, NEW r \in Responden, NEW k \in Butir, NEW isi \in {"DRAF",
         "LENGKAP"}, SimpanDetail(r, k, isi)
  PROVE  IndInv'
<1>1. TypeOK'
  BY DEF IndInv, TypeOK, SimpanDetail, Tuliskan, orang, kirim, usul, himpunan,
     StatusSesi, Isian, Butir, TanpaIsian
<1>2. KirimBerisi'
  BY DEF IndInv, KirimBerisi, SimpanDetail, Tuliskan, orang, kirim, usul, himpunan, Entri
<1>3. PutusanSebagian'
  BY DEF IndInv, PutusanSebagian, SimpanDetail, Tuliskan, orang, kirim, usul, himpunan,
     Jumlah, Terkirim
<1>4. /\ BekuSesuaiTahap'
      /\ SatuOrangSatuBaris'
      /\ PenolakanDihormati'
      /\ MaterialisasiSekali'
      /\ SisaBersih'
  BY DEF IndInv, BekuSesuaiTahap, SatuOrangSatuBaris, PenolakanDihormati,
     MaterialisasiSekali, SisaBersih, SimpanDetail, Tuliskan, orang, kirim, usul, himpunan
<1>. QED  BY <1>1, <1>2, <1>3, <1>4 DEF IndInv

LEMMA LangkahKirimTahap3 ==
  ASSUME IndInv, NEW r \in Responden, KirimTahap3(r)
  PROVE  IndInv'
<1>1. KirimBerisi'
  BY DEF IndInv, KirimBerisi, KirimTahap3, SiapKirim, orang, usul, himpunan, Entri
<1>2. PutusanSebagian'
  BY DEF IndInv, PutusanSebagian, KirimTahap3, SiapKirim, orang, usul, himpunan, Jumlah,
     Terkirim
<1>3. /\ TypeOK'
      /\ BekuSesuaiTahap'
      /\ SatuOrangSatuBaris'
      /\ PenolakanDihormati'
      /\ MaterialisasiSekali'
      /\ SisaBersih'
  BY DEF IndInv, TypeOK, BekuSesuaiTahap, SatuOrangSatuBaris,
     PenolakanDihormati, MaterialisasiSekali, SisaBersih, KirimTahap3, SiapKirim, orang,
     usul, himpunan
<1>. QED  BY <1>1, <1>2, <1>3 DEF IndInv

LEMMA LangkahTutup ==
  ASSUME IndInv, Tutup
  PROVE  IndInv'
<1>1. TypeOK'
  BY DEF IndInv, TypeOK, Tutup, orang, kirim, usul, himpunan, StatusSesi
<1>2. KirimBerisi'
  BY DEF IndInv, KirimBerisi, Tutup, orang, kirim, usul, himpunan, Entri
<1>3. PutusanSebagian'
  BY DEF IndInv, PutusanSebagian, Tutup, orang, kirim, usul, himpunan, Jumlah,
     Terkirim
<1>4. /\ BekuSesuaiTahap'
      /\ SatuOrangSatuBaris'
      /\ PenolakanDihormati'
      /\ MaterialisasiSekali'
      /\ SisaBersih'
  BY DEF IndInv, BekuSesuaiTahap, SatuOrangSatuBaris, PenolakanDihormati,
     MaterialisasiSekali, SisaBersih, Tutup, orang, kirim, usul, himpunan
<1>. QED  BY <1>1, <1>2, <1>3, <1>4 DEF IndInv

LEMMA LangkahAnalisis ==
  ASSUME IndInv, Analisis
  PROVE  IndInv'
<1>1. TypeOK'
  BY DEF IndInv, TypeOK, Analisis, orang, kirim, usul, himpunan, StatusSesi
<1>2. KirimBerisi'
  BY DEF IndInv, KirimBerisi, Analisis, orang, kirim, usul, himpunan, Entri
<1>3. PutusanSebagian'
  BY DEF IndInv, PutusanSebagian, Analisis, orang, kirim, usul, himpunan,
     Jumlah, Terkirim
<1>4. /\ BekuSesuaiTahap'
      /\ SatuOrangSatuBaris'
      /\ PenolakanDihormati'
      /\ MaterialisasiSekali'
      /\ SisaBersih'
  BY DEF IndInv, BekuSesuaiTahap, SatuOrangSatuBaris, PenolakanDihormati,
     MaterialisasiSekali, SisaBersih, Analisis, orang, kirim, usul, himpunan
<1>. QED  BY <1>1, <1>2, <1>3, <1>4 DEF IndInv

\* Only the catalogue remains of a deleted session.
LEMMA LangkahHapusSesi ==
  ASSUME IndInv, NEW paksa \in BOOLEAN, HapusSesi(paksa)
  PROVE  IndInv'
<1>1. TypeOK'
  BY DEF IndInv, TypeOK, HapusSesi, orang, kirim, usul, himpunan, StatusSesi,
     Isian, Butir, TanpaIsian, SisaBersih
<1>2. PutusanSebagian'
  BY DEF IndInv, PutusanSebagian, HapusSesi, Jumlah, Terkirim, Butir
<1>3. SisaBersih'
  BY DEF IndInv, SisaBersih, HapusSesi, Butir
<1>4. /\ BekuSesuaiTahap'
      /\ KirimBerisi'
      /\ SatuOrangSatuBaris'
      /\ PenolakanDihormati'
      /\ MaterialisasiSekali'
  BY DEF IndInv, BekuSesuaiTahap, KirimBerisi, SatuOrangSatuBaris,
     PenolakanDihormati, MaterialisasiSekali, HapusSesi
<1>. QED  BY <1>1, <1>2, <1>3, <1>4 DEF IndInv

LEMMA Lestari == IndInv /\ [Next]_vars => IndInv'
<1>. SUFFICES ASSUME IndInv, [Next]_vars PROVE IndInv'
  OBVIOUS
<1>1. ASSUME LangkahAdmin PROVE IndInv'
  BY <1>1, LangkahBuatSesi, LangkahTambahResponden, LangkahTambahBanyak,
     LangkahMulaiTahap1, LangkahMulaiTahap2, LangkahMulaiTahap3, LangkahHapusSesi,
     LangkahBatalkan, LangkahTutup, LangkahAnalisis DEF LangkahAdmin
<1>2. ASSUME NEW r \in Responden, LangkahResponden(r) PROVE IndInv'
  BY <1>2, LangkahHapusResponden, LangkahAlihkan, LangkahSimpanSeleksi,
     LangkahKirimTahap1, LangkahUsulkan, LangkahSimpanDetail, LangkahKirimTahap3
     DEF LangkahResponden
<1>3. ASSUME NEW b \in {"SETUJU", "TOLAK"}, LangkahPutusan(b) PROVE IndInv'
  BY <1>3, LangkahPutuskanTask, LangkahPutuskanUsulan DEF LangkahPutusan
<1>4. CASE UNCHANGED vars
  <2>. USE <1>4 DEF vars, orang, kirim, usul, himpunan
  <2>1. TypeOK' /\ BekuSesuaiTahap' /\ KirimBerisi' /\ SatuOrangSatuBaris'
    BY DEF IndInv, TypeOK, BekuSesuaiTahap, KirimBerisi, Entri, SatuOrangSatuBaris
  <2>2. PenolakanDihormati' /\ MaterialisasiSekali' /\ PutusanSebagian' /\ SisaBersih'
    BY DEF IndInv, PenolakanDihormati, MaterialisasiSekali, PutusanSebagian,
       Jumlah, Terkirim, SisaBersih
  <2>. QED  BY <2>1, <2>2 DEF IndInv
<1>. QED  BY <1>1, <1>2, <1>3, <1>4, LangkahHapusUsulan DEF Next

\* The inductive invariant, in every state of a session.
THEOREM InvarianInduktif == Spec => []IndInv
  BY Berawal, Lestari, PTL DEF Spec

\* Every state of a session is well formed.
THEOREM TipeBenar == Spec => []TypeOK
<1>1. IndInv => TypeOK
  BY DEF IndInv
<1>. QED  BY <1>1, InvarianInduktif, PTL

\* The frozen set exists exactly from stage 3 on, through any number of freezes.
THEOREM BekuTerjaga == Spec => []BekuSesuaiTahap
<1>1. IndInv => BekuSesuaiTahap
  BY DEF IndInv
<1>. QED  BY <1>1, InvarianInduktif, PTL

\* Who has submitted has answered, whatever is frozen or thawed afterwards.
THEOREM KirimTerjaga == Spec => []KirimBerisi
<1>1. IndInv => KirimBerisi
  BY DEF IndInv
<1>. QED  BY <1>1, InvarianInduktif, PTL

\* A person is one respondent, through registrations and transfers of rows.
THEOREM OrangTunggal == Spec => []SatuOrangSatuBaris
<1>1. IndInv => SatuOrangSatuBaris
  BY DEF IndInv
<1>. QED  BY <1>1, InvarianInduktif, PTL

\* No rejected task is frozen.
THEOREM PenolakanTerjaga == Spec => []PenolakanDihormati
<1>1. IndInv => PenolakanDihormati
  BY DEF IndInv
<1>. QED  BY <1>1, InvarianInduktif, PTL

\* No proposal gets a second catalogue row, however often the session is frozen.
THEOREM MaterialisasiTerjaga == Spec => []MaterialisasiSekali
<1>1. IndInv => MaterialisasiSekali
  BY DEF IndInv
<1>. QED  BY <1>1, InvarianInduktif, PTL

-------------------------------------------------------------------------------
(* Refinement: what respondents have submitted, and the frozen tasks.         *)

Pilihan == [r \in Responden |-> IF r \in tahap1 THEN seleksi[r] ELSE {}]
Rincian == [r \in Responden |-> IF r \in tahap3 THEN Entri(r) ELSE {}]

\* Steps that a respondent's public cannot see.
LEMMA LangkahDiam ==
  ASSUME IndInv, status' = status, terpilih' = terpilih, kirim' = kirim,
         \A r \in tahap1 : seleksi'[r] = seleksi[r],
         \A r \in tahap3 : detail'[r] = detail[r]
  PROVE  UNCHANGED <<status, terpilih, Pilihan, Rincian>>
<1>1. tahap1' = tahap1 /\ tahap3' = tahap3
  BY DEF kirim
<1>2. Pilihan' = Pilihan
  BY <1>1 DEF Pilihan
<1>3. Rincian' = Rincian
  BY <1>1 DEF Rincian, Entri
<1>. QED  BY <1>2, <1>3

\* A stage ends, a freeze or a thaw happens: the answers stand.
LEMMA JawabanTetap ==
  ASSUME kirim' = kirim, seleksi' = seleksi, detail' = detail
  PROVE  Pilihan' = Pilihan /\ Rincian' = Rincian
  BY DEF Pilihan, Rincian, Entri, kirim

\* Every step of the session is one of the study, or none.
LEMMA LangkahKajian ==
  ASSUME IndInv, [Next]_vars
  PROVE  [Kajian!KajianNext]_(Kajian!kajian)
<1>. USE DEF Kajian!kajian
<1>. DEFINE Diam == UNCHANGED <<status, terpilih, Pilihan, Rincian>>
<1>1. ASSUME NEW r \in Responden, LangkahResponden(r)
      PROVE  Kajian!KajianNext \/ Diam
  <2>1. CASE HapusResponden(r)
    <3>1. /\ status' = status /\ terpilih' = terpilih /\ kirim' = kirim
          /\ \A s \in tahap1 : seleksi'[s] = seleksi[s]
          /\ \A s \in tahap3 : detail'[s] = detail[s]
      BY <2>1 DEF HapusResponden, IndInv, TypeOK, himpunan
    <3>. QED  BY <3>1, LangkahDiam
  <2>2. ASSUME NEW p \in Partisipan, Alihkan(r, p) PROVE Diam
    BY <2>2, LangkahDiam DEF Alihkan, BolehDialihkan, himpunan, kirim
  <2>3. ASSUME NEW S \in SUBSET Task, SimpanSeleksi(r, S) PROVE Diam
    <3>1. /\ status' = status /\ terpilih' = terpilih /\ kirim' = kirim
          /\ \A s \in tahap1 : seleksi'[s] = seleksi[s]
          /\ \A s \in tahap3 : detail'[s] = detail[s]
      BY <2>3 DEF SimpanSeleksi, IndInv, TypeOK, himpunan
    <3>. QED  BY <3>1, LangkahDiam
  <2>4. CASE KirimTahap1(r)
    <3>1. /\ status = "TAHAP1" /\ r \notin tahap1 /\ seleksi[r] # {}
          /\ seleksi[r] \in SUBSET Butir
          /\ status' = status /\ terpilih' = terpilih
      BY <2>4 DEF KirimTahap1, IndInv, TypeOK, himpunan, Butir
    <3>2. Pilihan[r] = {} /\ Pilihan' = [Pilihan EXCEPT ![r] = seleksi[r]]
      BY <2>4, <3>1 DEF KirimTahap1, Pilihan
    <3>3. Rincian' = Rincian
      BY <2>4 DEF KirimTahap1, Rincian, Entri
    <3>4. PICK S \in SUBSET Butir : S = seleksi[r]
      BY <3>1
    <3>5. Kajian!KirimPilihan(r, S)
      BY <3>1, <3>2, <3>3, <3>4 DEF Kajian!KirimPilihan, Pilihan, Rincian
    <3>. QED  BY <3>5 DEF Kajian!KajianNext
  <2>5. ASSUME NEW u \in Usulan, Usulkan(r, u) PROVE Diam
    BY <2>5, LangkahDiam DEF Usulkan, himpunan, kirim
  <2>6. ASSUME NEW k \in Butir, NEW isi \in {"DRAF", "LENGKAP"}, SimpanDetail(r, k, isi)
        PROVE  Diam
    <3>1. /\ status' = status /\ terpilih' = terpilih /\ kirim' = kirim
          /\ \A s \in tahap1 : seleksi'[s] = seleksi[s]
          /\ \A s \in tahap3 : detail'[s] = detail[s]
      BY <2>6 DEF SimpanDetail, Tuliskan, IndInv, TypeOK, himpunan
    <3>. QED  BY <3>1, LangkahDiam
  <2>7. CASE KirimTahap3(r)
    <3>1. /\ status = "TAHAP3" /\ r \notin tahap3 /\ Entri(r) # {}
          /\ Entri(r) \in SUBSET Butir
          /\ status' = status /\ terpilih' = terpilih
      BY <2>7 DEF KirimTahap3, SiapKirim, himpunan, Entri
    <3>2. Rincian[r] = {} /\ Rincian' = [Rincian EXCEPT ![r] = Entri(r)]
      BY <2>7, <3>1 DEF KirimTahap3, SiapKirim, Rincian, Entri
    <3>3. Pilihan' = Pilihan
      BY <2>7 DEF KirimTahap3, SiapKirim, Pilihan
    <3>4. PICK D \in SUBSET Butir : D = Entri(r)
      BY <3>1
    <3>5. Kajian!KirimRincian(r, D)
      BY <3>1, <3>2, <3>3, <3>4 DEF Kajian!KirimRincian, Pilihan, Rincian
    <3>. QED  BY <3>5 DEF Kajian!KajianNext
  <2>. QED  BY <1>1, <2>1, <2>2, <2>3, <2>4, <2>5, <2>6, <2>7 DEF LangkahResponden
<1>2. ASSUME LangkahAdmin PROVE Kajian!KajianNext \/ Diam
  <2>1. CASE BuatSesi
    <3>1. Pilihan' = Pilihan /\ Rincian' = Rincian
      BY <2>1, JawabanTetap DEF BuatSesi
    <3>. QED  BY <2>1, <3>1 DEF BuatSesi, himpunan, Kajian!KajianNext, Kajian!Buka,
                 Pilihan, Rincian
  <2>2. ASSUME NEW p \in Partisipan \cup {Nihil}, TambahResponden(p) PROVE Diam
    BY <2>2, LangkahDiam DEF TambahResponden, BolehDitambah, himpunan, kirim
  <2>3. ASSUME NEW P \in SUBSET Partisipan, TambahBanyak(P) PROVE Diam
    BY <2>3, LangkahDiam DEF TambahBanyak, himpunan, kirim
  <2>4. CASE MulaiTahap1 \/ Tutup \/ Analisis
    <3>1. Pilihan' = Pilihan /\ Rincian' = Rincian
      BY <2>4, JawabanTetap DEF MulaiTahap1, Tutup, Analisis
    <3>. QED  BY <2>4, <3>1 DEF MulaiTahap1, Tutup, Analisis, himpunan,
                 Kajian!KajianNext, Kajian!Maju, Pilihan, Rincian
  <2>5. ASSUME NEW paksa \in BOOLEAN, MulaiTahap2(paksa) PROVE Kajian!KajianNext
    <3>1. Pilihan' = Pilihan /\ Rincian' = Rincian
      BY <2>5, JawabanTetap DEF MulaiTahap2
    <3>2. PICK r \in tahap1 : TRUE
      BY <2>5 DEF MulaiTahap2
    <3>3. r \in Responden /\ Pilihan[r] # {}
      BY <3>2 DEF Pilihan, IndInv, TypeOK, KirimBerisi
    <3>4. Pilihan # Kajian!Kosong
      BY <3>3 DEF Kajian!Kosong
    <3>. QED  BY <2>5, <3>1, <3>4 DEF MulaiTahap2, himpunan, Kajian!KajianNext,
                 Kajian!Maju, Pilihan, Rincian
  <2>6. ASSUME NEW paksa \in BOOLEAN, MulaiTahap3(paksa) PROVE Kajian!KajianNext
    <3>1. Pilihan' = Pilihan /\ Rincian' = Rincian
      BY <2>6, JawabanTetap DEF MulaiTahap3
    <3>2. Akhir \in SUBSET Butir
      BY DEF Akhir, Bulat, Disetujui, UsulanDisetujui, Butir
    <3>3. Kajian!Bekukan(Akhir)
      BY <2>6, <3>1 DEF MulaiTahap3, Kajian!Bekukan, Pilihan, Rincian
    <3>. QED  BY <3>2, <3>3 DEF Kajian!KajianNext
  <2>7. CASE Batalkan
    <3>1. Pilihan' = Pilihan /\ Rincian' = Rincian
      BY <2>7, JawabanTetap DEF Batalkan, Cairkan
    <3>. QED  BY <2>7, <3>1 DEF Batalkan, Cairkan, Kajian!KajianNext, Kajian!Cairkan,
                 Pilihan, Rincian
  <2>8. ASSUME NEW paksa \in BOOLEAN, HapusSesi(paksa) PROVE Kajian!KajianNext
    <3>1. Pilihan' = Kajian!Kosong /\ Rincian' = Kajian!Kosong
      BY <2>8 DEF HapusSesi, Pilihan, Rincian, Kajian!Kosong
    <3>. QED  BY <2>8, <3>1 DEF HapusSesi, Kajian!KajianNext, Kajian!Hapus,
                 Pilihan, Rincian
  <2>. QED  BY <1>2, <2>1, <2>2, <2>3, <2>4, <2>5, <2>6, <2>7, <2>8 DEF LangkahAdmin
<1>3. ASSUME NEW u \in Usulan, HapusUsulan(u) PROVE Diam
  BY <1>3, LangkahDiam DEF HapusUsulan, himpunan, kirim
<1>4. ASSUME NEW b \in {"SETUJU", "TOLAK"}, LangkahPutusan(b) PROVE Diam
  BY <1>4, LangkahDiam DEF LangkahPutusan, PutuskanTask, PutuskanUsulan, himpunan, kirim
<1>5. ASSUME UNCHANGED vars PROVE Diam
  BY <1>5, LangkahDiam DEF vars, himpunan
<1>6. Kajian!KajianNext \/ Diam
  BY <1>1, <1>2, <1>3, <1>4, <1>5 DEF Next
<1>. QED  BY <1>6 DEF Pilihan, Rincian

\* The session implements KajianBertahap: submitted answers stand, and only a
\* freeze or a thaw changes the frozen set.
THEOREM KajianTerpenuhi == Spec => KajianDitepati
<1>1. Init => Kajian!KajianInit
  BY DEF Init, Kajian!KajianInit, Kajian!Kosong, Entri
<1>. QED  BY <1>1, InvarianInduktif, LangkahKajian, PTL DEF Spec, KajianDitepati,
             Kajian!KajianSpec
===============================================================================
