----------------------------- MODULE OpmSesiProofs -----------------------------
(***************************************************************************)
(* OPM sessions for any number of server threads, people and tasks, any    *)
(* ratings, and any number of requests that overlap: the invariant of      *)
(* OpmSesi is inductive, and the session keeps the promise of a            *)
(* questionnaire.                                                          *)
(*                                                                         *)
(* A request that reads only adds a plan, so a reading action has to show  *)
(* that its plan is sound (RencanaSah).  Tulis writes what a plan says:    *)
(* what it does not write stays, a plan that read what it writes is stale  *)
(* from then on, and what a stale plan writes is in tumpang from then on.  *)
(***************************************************************************)
EXTENDS OpmSesi, TLAPS, FiniteSetTheorems

\* A set of numbers that has a member has a least one.
LEMMA Terkecil ==
  ASSUME NEW S \in SUBSET Nat, S # {}
  PROVE  \E i \in S : \A j \in S : i <= j
<1>1. PICK i \in S : \A j \in S : ~(<<j, i>> \in OpToRel(<, Nat))
  BY NatLessThanWellFounded, WFMin, Zenon
<1>2. \A j \in S : ~(j < i)
  BY <1>1 DEF OpToRel
<1>. QED  BY <1>2

\* Tiada is none of the values a column may hold.
LEMMA Bukan ==
  /\ Tiada \notin Status /\ Tiada \notin Batas /\ Tiada \notin Orang
  /\ Tiada \notin Nilai
BY OpmAssumption DEF Status

\* The rows and their numbers.
LEMMA Baris ==
  ASSUME TypeOK
  PROVE  /\ Len(baris) \in Nat /\ DOMAIN baris = 1..Len(baris)
         /\ Len(baris) <= MaksBaris
         /\ \A i \in DOMAIN baris : baris[i] \in BarisResponden
         /\ Sesi \notin DOMAIN baris /\ Daftar \notin DOMAIN baris
         /\ DOMAIN baris \subseteq 1..MaksBaris
BY OpmAssumption DEF TypeOK, Sesi, Daftar

LEMMA TipeDiam == Diam \in Rencana /\ RencanaSah(Diam)
<1>1. [k \in Kode |-> Tiada] \in BarisJawaban
  BY DEF BarisJawaban
<1>2. 0 \in 0..MaksSesi /\ 0 \in 0..MaksBaris
  BY OpmAssumption
<1>3. <<>> \in Seq(Orang)
  OBVIOUS
<1>4. Diam \in Rencana
  BY <1>1, <1>2, <1>3 DEF Diam, Rencana
<1>. QED  BY <1>4 DEF Diam, RencanaSah

LEMMA Berawal == Init => IndInv
<1>. SUFFICES ASSUME Init PROVE IndInv
  OBVIOUS
<1>1. TypeOK
  BY TipeDiam, OpmAssumption DEF Init, TypeOK, Sumber!SumberInit, TanpaSesi, BarisSesi
<1>2. \A p \in Proses : RencanaSah(rencana[p])
  BY TipeDiam DEF Init
<1>3. Responden = {} /\ Terkirim = {} /\ sesi.status = Tiada /\ DOMAIN baris = {}
  BY DEF Init, Responden, Terkirim, TanpaSesi
<1>4. ~HasilTersedia
  BY <1>3, Bukan DEF HasilTersedia, Status
<1>. QED
  BY <1>1, <1>2, <1>3, <1>4
     DEF Init, IndInv, SesiSah, KirimanLengkap, OrangTunggal, AnalisisCukup

-------------------------------------------------------------------------------
(* Reading.                                                                  *)

\* Where the rows stay and every plan is sound, all stays sound.
LEMMA HanyaRencana ==
  ASSUME IndInv, UNCHANGED <<sesi, baris, register, tumpang>>, TypeOK',
         \A q \in Proses : RencanaSah(rencana'[q])
  PROVE  IndInv'
<1>1. (\A q \in Proses : RencanaSah(rencana[q]))'
  <2>. SUFFICES ASSUME NEW q \in Proses PROVE RencanaSah(rencana[q])'
    OBVIOUS
  <2>1. RencanaSah(rencana'[q])
    OBVIOUS
  <2>. QED
    BY <2>1 DEF RencanaSah, MengubahSesi, MenghapusSesi, Mendaftarkan, Mengalihkan,
       MenghapusResponden, MenulisJawaban, TanpaKolom, TanpaOrang, TanpaJawaban, Segar, SesiAda, CukupResponden, Terkirim,
       Responden, Terdaftar, BolehKirim, SemuaDimensi, TaskPersis, Dijawab, Lengkapnya
<1>2. (SesiSah /\ KirimanLengkap /\ OrangTunggal /\ AnalisisCukup)'
  BY DEF IndInv, SesiSah, KirimanLengkap, OrangTunggal, AnalisisCukup, HasilTersedia,
     CukupResponden, Terkirim, Responden, BolehKirim, SemuaDimensi, TaskPersis, Dijawab,
     Lengkapnya
<1>. QED  BY <1>1, <1>2 DEF IndInv

\* The plan that Rencanakan makes.
Direncanakan(baca, tulis, isi) ==
  [isi EXCEPT !.aktif = TRUE, !.sesi = sesi.id, !.baca = baca, !.tulis = tulis]

\* A request that has read changes nothing but its own plan.
LEMMA Membaca ==
  ASSUME IndInv, NEW p \in Proses, NEW baca \in SUBSET Obyek, NEW tulis \in SUBSET Obyek,
         NEW isi \in Rencana, Rencanakan(p, baca, tulis, isi),
         RencanaSah(Direncanakan(baca, tulis, isi))
  PROVE  IndInv'
<1>. DEFINE R == Direncanakan(baca, tulis, isi)
<1>1. R \in Rencana
  BY DEF IndInv, TypeOK, BarisSesi, Rencana, Direncanakan
<1>2. rencana' = [rencana EXCEPT ![p] = R]
      /\ UNCHANGED <<himpunan, pengirim, sesi, baris, register, tumpang>>
  BY DEF Rencanakan, Direncanakan
<1>3. RencanaSah(R)
  OBVIOUS
<1>. HIDE DEF R
<1>4. TypeOK'
  BY <1>1, <1>2 DEF IndInv, TypeOK
<1>5. \A q \in Proses : RencanaSah(rencana'[q])
  BY <1>2, <1>3 DEF IndInv, TypeOK
<1>. QED  BY <1>2, <1>4, <1>5, HanyaRencana

LEMMA LangkahSumber ==
  ASSUME IndInv, SumberBerubah
  PROVE  IndInv'
<1>1. TypeOK'
  BY DEF IndInv, TypeOK, SumberBerubah, Sumber!SumberNext, Sumber!Mengirim,
     Sumber!Membekukan, Sumber!Mencairkan, Sumber!Menghapus
<1>2. \A q \in Proses : RencanaSah(rencana'[q])
  BY DEF IndInv, SumberBerubah
<1>. QED  BY <1>1, <1>2, HanyaRencana DEF SumberBerubah

LEMMA LangkahGagal ==
  ASSUME IndInv, NEW p \in Proses, Gagal(p)
  PROVE  IndInv'
<1>1. TypeOK'
  BY TipeDiam DEF IndInv, TypeOK, Gagal
<1>2. \A q \in Proses : RencanaSah(rencana'[q])
  BY TipeDiam DEF IndInv, TypeOK, Gagal
<1>. QED  BY <1>1, <1>2, HanyaRencana DEF Gagal

LEMMA LangkahUbahSesi ==
  ASSUME IndInv, NEW p \in Proses, NEW min \in Batas, NEW max \in Batas, UbahSesi(p, min, max)
  PROVE  IndInv'
<1>. DEFINE isi == [Diam EXCEPT !.min = Berubah(sesi.min, min), !.max = Berubah(sesi.max, max)]
<1>1. isi \in Rencana
  BY TipeDiam DEF Berubah, Rencana
<1>2. {Sesi} \in SUBSET Obyek
  BY OpmAssumption DEF Sesi, Obyek
<1>3. Rencanakan(p, {Sesi}, {Sesi}, isi) /\ sesi.status = "DRAFT"
  BY DEF UbahSesi
<1>4. MengubahSesi(Direncanakan({Sesi}, {Sesi}, isi))
  <2>1. SesiAda(Direncanakan({Sesi}, {Sesi}, isi))
    BY <1>3 DEF SesiAda, Rencanakan, Direncanakan, Diam
  <2>2. Direncanakan({Sesi}, {Sesi}, isi).status = Tiada
        /\ Direncanakan({Sesi}, {Sesi}, isi).catat = {}
    BY DEF Direncanakan, Diam
  <2>3. Tiada # "ANALYZED"
    BY Bukan DEF Status
  <2>. HIDE <1>1
  <2>. QED
    BY <1>3, <2>1, <2>2, <2>3
       DEF MengubahSesi, Direncanakan, TanpaOrang, TanpaJawaban, Diam
<1>. QED
  <2>. HIDE DEF isi
  <2>. QED  BY <1>1, <1>2, <1>3, <1>4, Membaca DEF RencanaSah

LEMMA LangkahBeralih ==
  ASSUME IndInv, NEW p \in Proses, NEW dari \in {"DRAFT", "OPEN"}, Beralih(p, dari)
  PROVE  IndInv'
<1>. DEFINE isi == [Diam EXCEPT !.status = Berikut[dari]]
<1>1. Berikut[dari] \in Status \ {"ANALYZED"}
  BY DEF Berikut, Status
<1>2. isi \in Rencana
  BY <1>1, TipeDiam DEF Rencana
<1>3. {Sesi} \in SUBSET Obyek
  BY OpmAssumption DEF Sesi, Obyek
<1>4. Rencanakan(p, {Sesi}, {Sesi}, isi)
  BY DEF Beralih
<1>5. MengubahSesi(Direncanakan({Sesi}, {Sesi}, isi))
  <2>1. SesiAda(Direncanakan({Sesi}, {Sesi}, isi))
    BY <1>4 DEF SesiAda, Rencanakan, Direncanakan, Diam
  <2>. QED  BY <1>1, <2>1 DEF MengubahSesi, Direncanakan, TanpaOrang, TanpaJawaban, Diam, Segar
<1>. QED
  <2>. HIDE DEF isi
  <2>. QED  BY <1>2, <1>3, <1>4, <1>5, Membaca DEF RencanaSah

LEMMA LangkahHapusSesi ==
  ASSUME IndInv, NEW p \in Proses, NEW paksa \in BOOLEAN, HapusSesi(p, paksa)
  PROVE  IndInv'
<1>. DEFINE isi == [Diam EXCEPT !.hapus = "sesi"]
            baca == IF paksa THEN {} ELSE {Sesi}
<1>1. isi \in Rencana
  BY TipeDiam DEF Rencana
<1>2. baca \in SUBSET Obyek /\ {Sesi, Daftar} \in SUBSET Obyek
  BY OpmAssumption DEF Sesi, Daftar, Obyek
<1>3. Rencanakan(p, baca, {Sesi, Daftar}, isi)
  BY DEF HapusSesi
<1>4. MenghapusSesi(Direncanakan(baca, {Sesi, Daftar}, isi))
  BY DEF MenghapusSesi, Direncanakan, TanpaKolom, TanpaOrang, TanpaJawaban, Diam
<1>. QED
  <2>. HIDE DEF isi, baca
  <2>. QED  BY <1>1, <1>2, <1>3, <1>4, Membaca DEF RencanaSah

\* Where nothing rests on a stale read and enough have submitted, no task is
\* without a rating.
LEMMA TiadaTerlewat ==
  ASSUME IndInv, tumpang = {}, sesi.status # Tiada, CukupResponden
  PROVE  TanpaRating = {}
<1>1. IsFiniteSet(Terkirim)
  <2>1. IsFiniteSet(1..Len(baris)) /\ Terkirim \in SUBSET (1..Len(baris))
    BY Baris, FS_Interval DEF IndInv, Terkirim, Responden
  <2>. QED  BY <2>1, FS_Subset
<1>2. sesi.min \in Nat \ {0}
  BY OpmAssumption DEF IndInv, SesiSah
<1>3. Terkirim # {}
  BY <1>1, <1>2, FS_EmptySet DEF CukupResponden
<1>4. \A i \in Terkirim : Lengkapnya(i) = sesi.task
  BY DEF IndInv, KirimanLengkap, BolehKirim, SemuaDimensi, TaskPersis
<1>. QED  BY <1>3, <1>4 DEF TanpaRating

LEMMA LangkahAnalisis ==
  ASSUME IndInv, NEW p \in Proses, Analisis(p)
  PROVE  IndInv'
<1>. DEFINE status == Berubah(sesi.status, "ANALYZED")
            catat == TanpaRating
            isi == [Diam EXCEPT !.catat = catat, !.status = status]
<1>1. status \in Status \cup {Tiada} /\ catat \in SUBSET Kode
  BY DEF Berubah, Status, TanpaRating, IndInv, TypeOK, BarisSesi
<1>2. Rencanakan(p, Obyek, {Sesi}, isi) /\ CukupResponden
  BY DEF Analisis
<1>3. tumpang = {} => catat = {}
  BY <1>2, TiadaTerlewat DEF Rencanakan
<1>. HIDE DEF status, catat
<1>4. isi \in Rencana
  BY <1>1, TipeDiam DEF Rencana
<1>5. Sesi \in Obyek
  BY OpmAssumption DEF Sesi, Obyek
<1>6. MengubahSesi(Direncanakan(Obyek, {Sesi}, isi))
  <2>1. SesiAda(Direncanakan(Obyek, {Sesi}, isi))
    BY <1>2 DEF SesiAda, Rencanakan, Direncanakan, Diam
  <2>. QED  BY <1>2, <1>3, <1>5, <2>1 DEF MengubahSesi, Direncanakan, TanpaOrang, TanpaJawaban, Diam, Segar
<1>. QED
  <2>. HIDE DEF isi
  <2>. QED  BY <1>2, <1>4, <1>5, <1>6, Membaca DEF RencanaSah

-------------------------------------------------------------------------------
(* Reading about respondents.                                                *)

LEMMA UrutanSah ==
  ASSUME NEW S \in SUBSET Orang, NEW s \in SetToSeqs(S)
  PROVE  /\ s \in Seq(Orang)
         /\ \A i, j \in DOMAIN s : s[i] = s[j] => i = j
<1>1. IsFiniteSet(S)
  BY OpmAssumption, FS_Subset
<1>2. Cardinality(S) \in Nat
  BY <1>1, FS_CardinalityType
<1>. QED  BY <1>2 DEF SetToSeqs

\* One turn of the loop, and all turns up to the n-th.
Putaran(s, i, lama) ==
  IF s[i] \in Anggota \ Terdaftar /\ Cardinality(Responden) + Len(lama) < sesi.max
    THEN Append(lama, s[i]) ELSE lama

Berputar(s, n, c) == c = [i \in 0..n |-> IF i = 0 THEN <<>> ELSE Putaran(s, i, c[i-1])]

\* The loop computes something, however long the payload is.
LEMMA AdaPutaran ==
  ASSUME NEW s, NEW n \in Nat
  PROVE  \E c : Berputar(s, n, c)
<1>. DEFINE S == {m \in Nat : ~ \E c : Berputar(s, m, c)}
<1>1. ASSUME S # {} PROVE FALSE
  <2>1. PICK m \in S : \A j \in S : m <= j
    BY <1>1, Terkecil, S \in SUBSET Nat
  <2>2. m # 0
    <3>1. Berputar(s, 0, [i \in 0..0 |-> <<>>])
      BY DEF Berputar
    <3>. QED  BY <3>1
  <2>3. m - 1 \in Nat /\ m - 1 \notin S
    BY <2>1, <2>2
  <2>4. PICK c : Berputar(s, m - 1, c)
    BY <2>3
  <2>. DEFINE d == [i \in 0..m |-> IF i = 0 THEN <<>> ELSE Putaran(s, i, c[i-1])]
  <2>5. \A i \in 0..(m - 1) : c[i] = d[i]
    BY <2>3, <2>4 DEF Berputar
  <2>6. \A i \in 0..m : d[i] = IF i = 0 THEN <<>> ELSE Putaran(s, i, d[i-1])
    <3>. SUFFICES ASSUME NEW i \in 0..m
                  PROVE  d[i] = IF i = 0 THEN <<>> ELSE Putaran(s, i, d[i-1])
      OBVIOUS
    <3>1. d[i] = IF i = 0 THEN <<>> ELSE Putaran(s, i, c[i-1])
      OBVIOUS
    <3>2. i # 0 => c[i-1] = d[i-1]
      <4>1. i # 0 => i - 1 \in 0..(m - 1)
        BY <2>3
      <4>. HIDE DEF d
      <4>. QED  BY <2>5, <4>1
    <3>. HIDE DEF d
    <3>. QED  BY <3>1, <3>2
  <2>7. Berputar(s, m, d)
    <3>1. d = [i \in 0..m |-> d[i]]
      OBVIOUS
    <3>. HIDE DEF d
    <3>. QED  BY <2>6, <3>1 DEF Berputar
  <2>. QED  BY <2>1, <2>7
<1>. QED  BY <1>1

\* Whom the bulk form takes: members who are not registered, each once.
LEMMA DiterimaSah ==
  ASSUME NEW s \in Seq(Orang), \A i, j \in DOMAIN s : s[i] = s[j] => i = j
  PROVE  /\ Diterima(s) \in Seq(Orang)
         /\ \A i \in DOMAIN Diterima(s) : Diterima(s)[i] \notin Terdaftar
         /\ \A i, j \in DOMAIN Diterima(s) : Diterima(s)[i] = Diterima(s)[j] => i = j
<1>1. Len(s) \in Nat /\ DOMAIN s = 1..Len(s)
  OBVIOUS
<1>. DEFINE c == CHOOSE c : Berputar(s, Len(s), c)
<1>2. Berputar(s, Len(s), c)
  BY <1>1, AdaPutaran
<1>3. Diterima(s) = c[Len(s)]
  BY DEF Diterima, Berputar, Putaran
<1>. HIDE DEF c
<1>. DEFINE Baik(i) ==
       /\ c[i] \in Seq(Orang)
       /\ \A j \in DOMAIN c[i] : c[i][j] \notin Terdaftar /\ \E k \in 1..i : s[k] = c[i][j]
       /\ \A j, k \in DOMAIN c[i] : c[i][j] = c[i][k] => j = k
<1>4. c[0] = <<>> /\ \A i \in 1..Len(s) : c[i] = Putaran(s, i, c[i-1])
  BY <1>1, <1>2 DEF Berputar
<1>5. ASSUME NEW i \in 1..Len(s), Baik(i - 1) PROVE Baik(i)
  <2>1. CASE c[i] = c[i-1]
    BY <1>5, <2>1
  <2>2. CASE c[i] = Append(c[i-1], s[i]) /\ s[i] \notin Terdaftar
    <3>. DEFINE t == c[i-1]
    <3>1. /\ t \in Seq(Orang) /\ c[i] = Append(t, s[i]) /\ s[i] \in Orang
          /\ \A j \in DOMAIN t : t[j] \notin Terdaftar /\ \E k \in 1..(i-1) : s[k] = t[j]
          /\ \A j, k \in DOMAIN t : t[j] = t[k] => j = k
      BY <1>1, <1>5, <2>2
    <3>. HIDE DEF t
    <3>2. Len(t) \in Nat /\ DOMAIN t = 1..Len(t) /\ DOMAIN c[i] = 1..(Len(t) + 1)
          /\ c[i] \in Seq(Orang) /\ c[i][Len(t) + 1] = s[i]
          /\ \A j \in 1..Len(t) : c[i][j] = t[j]
      BY <3>1
    <3>3. \A j \in DOMAIN t : t[j] # s[i]
      <4>. TAKE j \in DOMAIN t
      <4>1. PICK k \in 1..(i-1) : s[k] = t[j]
        BY <3>1
      <4>. QED  BY <1>1, <4>1
    <3>4. \A j \in DOMAIN c[i] : c[i][j] \notin Terdaftar /\ \E k \in 1..i : s[k] = c[i][j]
      <4>. SUFFICES ASSUME NEW j \in DOMAIN c[i]
                    PROVE  c[i][j] \notin Terdaftar /\ \E k \in 1..i : s[k] = c[i][j]
        OBVIOUS
      <4>1. CASE j \in 1..Len(t)
        BY <3>1, <3>2, <4>1
      <4>2. CASE j = Len(t) + 1
        BY <2>2, <3>2, <4>2, i \in 1..i
      <4>. QED  BY <3>2, <4>1, <4>2
    <3>5. \A j, k \in DOMAIN c[i] : c[i][j] = c[i][k] => j = k
      BY <3>1, <3>2, <3>3
    <3>. QED  BY <3>2, <3>4, <3>5
  <2>. QED  BY <1>4, <2>1, <2>2 DEF Putaran
<1>6. ASSUME {i \in 0..Len(s) : ~Baik(i)} # {} PROVE FALSE
  <2>. DEFINE S == {i \in 0..Len(s) : ~Baik(i)}
  <2>1. S \in SUBSET Nat /\ S # {}
    BY <1>6, <1>1
  <2>. HIDE DEF S
  <2>2. PICK i \in S : \A j \in S : i <= j
    BY <2>1, Terkecil
  <2>. USE DEF S
  <2>3. Baik(0)
    BY <1>4
  <2>4. i \in 1..Len(s) /\ i - 1 \in 0..Len(s) /\ i - 1 \notin S
    <3>. HIDE DEF Baik
    <3>. QED  BY <1>1, <2>2, <2>3
  <2>. HIDE DEF Baik
  <2>. QED  BY <1>5, <2>2, <2>4
<1>7. Baik(Len(s))
  <2>. HIDE DEF Baik
  <2>. QED  BY <1>1, <1>6
<1>. QED  BY <1>3, <1>7

LEMMA LangkahMendaftar ==
  ASSUME IndInv, NEW p \in Proses, NEW urutan \in Seq(Orang), urutan # <<>>,
         \A i \in DOMAIN urutan : urutan[i] \notin Terdaftar,
         \A i, j \in DOMAIN urutan : urutan[i] = urutan[j] => i = j,
         Rencanakan(p, {Sesi, Daftar}, {Daftar}, [Diam EXCEPT !.tambah = urutan])
  PROVE  IndInv'
<1>. DEFINE isi == [Diam EXCEPT !.tambah = urutan]
<1>1. isi \in Rencana
  BY TipeDiam DEF Rencana
<1>2. {Sesi, Daftar} \in SUBSET Obyek /\ {Daftar} \in SUBSET Obyek
  BY OpmAssumption DEF Sesi, Daftar, Obyek
<1>3. Mendaftarkan(Direncanakan({Sesi, Daftar}, {Daftar}, isi))
  <2>1. SesiAda(Direncanakan({Sesi, Daftar}, {Daftar}, isi))
    BY DEF SesiAda, Rencanakan, Direncanakan, Diam
  <2>. QED  BY <2>1 DEF Mendaftarkan, Direncanakan, TanpaKolom, TanpaJawaban, Diam
<1>. QED
  <2>. HIDE DEF isi
  <2>. QED  BY <1>1, <1>2, <1>3, Membaca DEF RencanaSah, isi

LEMMA LangkahDaftarkan ==
  ASSUME IndInv, NEW p \in Proses, NEW o \in Orang, Daftarkan(p, o)
  PROVE  IndInv'
<1>1. o \notin Terdaftar
  BY DEF Daftarkan, BolehSatu
<1>. DEFINE urutan == <<o>>
<1>2. urutan \in Seq(Orang) /\ urutan # <<>> /\ DOMAIN urutan = {1} /\ urutan[1] = o
  OBVIOUS
<1>3. Rencanakan(p, {Sesi, Daftar}, {Daftar}, [Diam EXCEPT !.tambah = urutan])
  BY DEF Daftarkan
<1>. HIDE DEF urutan
<1>. QED  BY <1>1, <1>2, <1>3, LangkahMendaftar

LEMMA LangkahDaftarkanBanyak ==
  ASSUME IndInv, NEW p \in Proses, NEW minta \in Urutan, DaftarkanBanyak(p, minta)
  PROVE  IndInv'
<1>1. minta \in Seq(Orang) /\ \A i, j \in DOMAIN minta : minta[i] = minta[j] => i = j
  BY UrutanSah DEF Urutan
<1>2. /\ Diterima(minta) \in Seq(Orang)
      /\ \A i \in DOMAIN Diterima(minta) : Diterima(minta)[i] \notin Terdaftar
      /\ \A i, j \in DOMAIN Diterima(minta) : Diterima(minta)[i] = Diterima(minta)[j] => i = j
  BY <1>1, DiterimaSah
<1>. QED  BY <1>2, LangkahMendaftar DEF DaftarkanBanyak

LEMMA LangkahAlihkan ==
  ASSUME IndInv, NEW p \in Proses, NEW i \in DOMAIN baris, NEW o \in Orang, Alihkan(p, i, o)
  PROVE  IndInv'
<1>. DEFINE isi == [Diam EXCEPT !.r = i, !.orang = o]
<1>0. i \in 0..MaksBaris
  BY Baris DEF IndInv
<1>1. isi \in Rencana
  BY <1>0, TipeDiam DEF Rencana
<1>2. {Daftar} \in SUBSET Obyek
  BY OpmAssumption DEF Daftar, Obyek
<1>3. Rencanakan(p, {Daftar}, {Daftar}, isi) /\ o \notin Terdaftar
  BY DEF Alihkan, BelumTerdaftar
<1>4. Mengalihkan(Direncanakan({Daftar}, {Daftar}, isi))
  <2>1. SesiAda(Direncanakan({Daftar}, {Daftar}, isi))
    BY <1>3 DEF SesiAda, Rencanakan, Direncanakan, Diam
  <2>. QED  BY <1>3, <2>1 DEF Mengalihkan, Direncanakan, TanpaKolom, TanpaJawaban, Diam
<1>. QED
  <2>. HIDE DEF isi
  <2>. QED  BY <1>1, <1>2, <1>3, <1>4, Membaca DEF RencanaSah

LEMMA LangkahHapusResponden ==
  ASSUME IndInv, NEW p \in Proses, NEW i \in DOMAIN baris, HapusResponden(p, i)
  PROVE  IndInv'
<1>. DEFINE isi == [Diam EXCEPT !.r = i, !.hapus = "responden"]
<1>0. i \in 0..MaksBaris
  BY Baris DEF IndInv
<1>1. isi \in Rencana
  BY <1>0, TipeDiam DEF Rencana
<1>2. {i} \in SUBSET Obyek /\ {i, Daftar} \in SUBSET Obyek
  BY Baris, OpmAssumption DEF Daftar, Obyek, IndInv
<1>3. Rencanakan(p, {i}, {i, Daftar}, isi) /\ ~baris[i].kirim
  BY DEF HapusResponden, BelumKirim, Terkirim
<1>4. MenghapusResponden(Direncanakan({i}, {i, Daftar}, isi))
  BY <1>3 DEF MenghapusResponden, Direncanakan, TanpaKolom, TanpaOrang, TanpaJawaban, Diam
<1>. QED
  <2>. HIDE DEF isi
  <2>. QED  BY <1>1, <1>2, <1>3, <1>4, Membaca DEF RencanaSah

LEMMA LangkahSimpanDraf ==
  ASSUME IndInv, NEW p \in Proses, NEW i \in DOMAIN baris, NEW d \in Draf, SimpanDraf(p, i, d)
  PROVE  IndInv'
<1>. DEFINE isi == Menjawab(i, d)
<1>1. isi \in Rencana
  <2>1. DOMAIN d \subseteq Kode /\ \A k \in DOMAIN d : d[k] \in Nilai \cup {Sebagian}
    BY DEF Draf
  <2>2. [k \in Kode |-> IF k \in DOMAIN d THEN d[k] ELSE Tiada] \in BarisJawaban
    BY <2>1 DEF BarisJawaban
  <2>3. i \in 0..MaksBaris
    BY Baris DEF IndInv
  <2>. DEFINE nilai == [k \in Kode |-> IF k \in DOMAIN d THEN d[k] ELSE Tiada]
              baru == {k \in DOMAIN d : baris[i].jawaban[k] = Tiada}
              lain == {k \in DOMAIN d \ baru : baris[i].jawaban[k] # d[k]}
  <2>4. baru \in SUBSET Kode /\ lain \in SUBSET Kode /\ nilai \in BarisJawaban
    BY <2>1, <2>2
  <2>5. isi = [Diam EXCEPT !.r = i, !.sisip = baru, !.ubah = lain, !.nilai = nilai]
    BY DEF Menjawab
  <2>. HIDE DEF isi, baru, lain, nilai
  <2>. QED  BY <2>3, <2>4, <2>5, TipeDiam DEF Rencana
<1>2. {Sesi, i} \in SUBSET Obyek /\ {i} \in SUBSET Obyek
  BY Baris, OpmAssumption DEF Sesi, Obyek, IndInv
<1>3. Rencanakan(p, {Sesi, i}, {i}, isi) /\ i \in Responden \ Terkirim
  BY DEF SimpanDraf, MenerimaDraf
<1>4. MenulisJawaban(Direncanakan({Sesi, i}, {i}, isi))
  <2>1. /\ isi.kirim = FALSE /\ isi.r = i /\ isi.hapus = "-" /\ isi.basi = FALSE
        /\ TanpaKolom(isi) /\ TanpaOrang(isi)
    BY DEF Menjawab, Diam, TanpaKolom, TanpaOrang
  <2>. HIDE DEF isi
  <2>2. SesiAda(Direncanakan({Sesi, i}, {i}, isi))
    BY <1>1, <1>3 DEF SesiAda, Rencanakan, Direncanakan, Rencana
  <2>. QED
    BY <1>1, <1>3, <2>1, <2>2
       DEF MenulisJawaban, Direncanakan, TanpaKolom, TanpaOrang, Rencana
<1>. QED
  <2>. HIDE DEF isi
  <2>. QED  BY <1>1, <1>2, <1>3, <1>4, Membaca DEF RencanaSah

LEMMA LangkahKirimJawaban ==
  ASSUME IndInv, NEW p \in Proses, NEW i \in DOMAIN baris, KirimJawaban(p, i)
  PROVE  IndInv'
<1>. DEFINE isi == [Diam EXCEPT !.r = i, !.kirim = TRUE]
<1>0. i \in 0..MaksBaris
  BY Baris DEF IndInv
<1>1. isi \in Rencana
  BY <1>0, TipeDiam DEF Rencana
<1>2. {Sesi, i} \in SUBSET Obyek /\ {i} \in SUBSET Obyek
  BY Baris, OpmAssumption DEF Sesi, Obyek, IndInv
<1>3. /\ Rencanakan(p, {Sesi, i}, {i}, isi) /\ i \in Responden \ Terkirim
      /\ sesi.status = "OPEN" /\ BolehKirim(i)
  BY DEF KirimJawaban, Menandai
<1>4. MenulisJawaban(Direncanakan({Sesi, i}, {i}, isi))
  <2>1. SesiAda(Direncanakan({Sesi, i}, {i}, isi))
    BY <1>3 DEF SesiAda, Rencanakan, Direncanakan, Diam
  <2>. QED
    BY <1>3, <2>1 DEF MenulisJawaban, Direncanakan, TanpaKolom, TanpaOrang, Diam
<1>. QED
  <2>. HIDE DEF isi
  <2>. QED  BY <1>1, <1>2, <1>3, <1>4, Membaca DEF RencanaSah

-------------------------------------------------------------------------------
(* Creation.                                                                 *)

\* Rows b, and after them the new respondents u.
LEMMA Ditambah ==
  ASSUME NEW b \in Seq(BarisResponden), NEW u \in Seq(Orang)
  PROVE  LET B == b \o RespondenBaru(u) IN
         /\ B \in Seq(BarisResponden)
         /\ Len(B) = Len(b) + Len(u) /\ DOMAIN B = 1..(Len(b) + Len(u))
         /\ \A i \in DOMAIN b : i \in DOMAIN B /\ B[i] = b[i]
         /\ \A i \in DOMAIN B \ DOMAIN b :
              /\ i - Len(b) \in DOMAIN u
              /\ B[i].ada /\ ~B[i].kirim /\ B[i].orang = u[i - Len(b)]
<1>. DEFINE n == RespondenBaru(u)
<1>1. [k \in Kode |-> Tiada] \in BarisJawaban
  BY DEF BarisJawaban
<1>2. \A j \in DOMAIN u : n[j] \in BarisResponden /\ n[j].ada /\ ~n[j].kirim /\ n[j].orang = u[j]
  BY <1>1 DEF RespondenBaru, Kosong, BarisResponden
<1>3. n \in Seq(BarisResponden) /\ Len(n) = Len(u)
  <2>1. Len(u) \in Nat /\ DOMAIN u = 1..Len(u)
    OBVIOUS
  <2>2. n = [j \in 1..Len(u) |-> n[j]]
    BY <2>1 DEF RespondenBaru
  <2>. HIDE DEF n
  <2>3. n \in [1..Len(u) -> BarisResponden]
    BY <1>2, <2>1, <2>2
  <2>. QED  BY <2>1, <2>3
<1>. HIDE DEF n
<1>. DEFINE B == b \o n
<1>4. /\ Len(b) \in Nat /\ Len(u) \in Nat /\ DOMAIN b = 1..Len(b) /\ DOMAIN u = 1..Len(u)
      /\ B \in Seq(BarisResponden) /\ Len(B) = Len(b) + Len(u) /\ DOMAIN B = 1..(Len(b) + Len(u))
      /\ \A i \in DOMAIN b : B[i] = b[i]
  BY <1>3
<1>5. ASSUME NEW i \in DOMAIN B \ DOMAIN b
      PROVE  i - Len(b) \in DOMAIN u /\ B[i] = n[i - Len(b)]
  BY <1>3, <1>4
<1>. HIDE DEF B
<1>6. \A i \in DOMAIN b : i \in DOMAIN B
  BY <1>4
<1>. QED  BY <1>2, <1>4, <1>5, <1>6 DEF B, n

LEMMA LangkahBuat ==
  ASSUME IndInv, NEW min \in Batas, NEW max \in Batas, NEW kat \in Katalog, Buat(kat, min, max)
  PROVE  IndInv'
<1>1. /\ TypeOK /\ sesi.status = Tiada /\ sesi.id < MaksSesi /\ Responden = {}
      /\ \A i \in DOMAIN baris : ~baris[i].ada /\ ~baris[i].kirim
  BY DEF IndInv, SesiSah, Buat, BolehDibuat, Responden
<1>2. PICK u \in SetToSeqs(pengirim) : baris' = baris \o RespondenBaru(u)
  BY DEF Buat
<1>3. /\ u \in Seq(Orang) /\ Len(u) = Cardinality(pengirim)
      /\ \A i, j \in DOMAIN u : u[i] = u[j] => i = j
  <2>1. IsFiniteSet(pengirim)
    BY <1>1, OpmAssumption, FS_Subset DEF TypeOK
  <2>2. Cardinality(pengirim) \in Nat
    BY <2>1, FS_CardinalityType
  <2>3. Len(u) = Cardinality(pengirim)
    BY <2>2 DEF SetToSeqs
  <2>. QED  BY <1>1, <2>3, UrutanSah DEF TypeOK
<1>4. /\ baris' \in Seq(BarisResponden) /\ Len(baris') = Len(baris) + Len(u)
      /\ \A i \in DOMAIN baris : i \in DOMAIN baris' /\ baris'[i] = baris[i]
      /\ \A i \in DOMAIN baris' \ DOMAIN baris :
           /\ i - Len(baris) \in DOMAIN u
           /\ baris'[i].ada /\ ~baris'[i].kirim /\ baris'[i].orang = u[i - Len(baris)]
  BY <1>1, <1>2, <1>3, Ditambah DEF TypeOK
<1>5. /\ sesi' = SesiBaru(kat, min, max) /\ register' = Tercatat(kat)
      /\ tumpang' = tumpang \ {Sesi, Daftar} /\ UNCHANGED <<himpunan, pengirim, rencana>>
  BY DEF Buat
<1>6. sesi'.status = "DRAFT" /\ sesi'.min = min /\ sesi'.max = max
  BY <1>5 DEF SesiBaru
<1>7. TypeOK'
  <2>1. sesi' \in BarisSesi
    <3>1. sesi.id + 1 \in 0..MaksSesi
      BY <1>1, OpmAssumption DEF TypeOK, BarisSesi
    <3>. QED  BY <1>1, <1>5, <3>1 DEF SesiBaru, BarisSesi, Status, TypeOK
  <2>2. register' \in SUBSET BarisPengecualian
    BY <1>1, <1>5 DEF Tercatat, BarisPengecualian, TypeOK
  <2>3. Len(baris') <= MaksBaris
    BY <1>3, <1>4 DEF Buat
  <2>. QED  BY <1>1, <1>4, <1>5, <2>1, <2>2, <2>3 DEF TypeOK
<1>8. (\A q \in Proses : RencanaSah(rencana[q]))'
  <2>. SUFFICES ASSUME NEW q \in Proses PROVE RencanaSah(rencana[q])'
    OBVIOUS
  <2>. DEFINE S == rencana[q]
  <2>1. RencanaSah(S) /\ rencana'[q] = S
    BY <1>5 DEF IndInv
  <2>2. ~SesiAda(S)
    BY <1>1 DEF SesiAda
  <2>. HIDE DEF S
  <2>3. RencanaSah(S)'
    BY <1>1, <1>4, <2>1, <2>2
       DEF RencanaSah, MengubahSesi, MenghapusSesi, Mendaftarkan, Mengalihkan,
           MenghapusResponden, MenulisJawaban, Segar, S, TanpaKolom, TanpaOrang, TanpaJawaban
  <2>. QED  BY <2>1, <2>3 DEF S
<1>9. Terkirim' = {}
  BY <1>1, <1>4 DEF Terkirim, Responden
<1>10. SesiSah' /\ KirimanLengkap'
  BY <1>1, <1>4, <1>6, <1>9, Bukan DEF SesiSah, KirimanLengkap, Status
<1>11. OrangTunggal'
  <2>. SUFFICES ASSUME NEW i \in Responden', NEW j \in Responden',
                       baris'[i].orang = baris'[j].orang
                PROVE  i = j
    BY DEF OrangTunggal
  <2>1. i \in DOMAIN baris' \ DOMAIN baris /\ j \in DOMAIN baris' \ DOMAIN baris
    BY <1>1, <1>4 DEF Responden
  <2>2. i - Len(baris) = j - Len(baris)
    BY <1>3, <1>4, <2>1
  <2>. QED  BY <1>1, <1>4, <2>1, <2>2, Baris
<1>12. AnalisisCukup'
  BY <1>5, <1>6 DEF AnalisisCukup, HasilTersedia, Tercatat
<1>. QED  BY <1>7, <1>8, <1>10, <1>11, <1>12 DEF IndInv

-------------------------------------------------------------------------------
(* Writing.                                                                  *)

\* What the commit of the plan R does.
Tertulislah(R) ==
  /\ BisaDitulis(R)
  /\ sesi' = SesiSesudah(R)
  /\ register' = RegisterSesudah(R)
  /\ tumpang' = IF R.basi THEN tumpang \cup R.tulis ELSE tumpang
  /\ UNCHANGED <<himpunan, pengirim>>
  /\ baris' \in Seq(BarisResponden) /\ Len(baris') <= MaksBaris
  /\ DOMAIN baris' = 1..(Len(baris) + Len(R.tambah))
  /\ \A i \in DOMAIN baris :
       /\ i \in DOMAIN baris'
       /\ baris'[i].ada <=> baris[i].ada /\ ~Terhapus(R, i)
       /\ ~baris'[i].ada => ~baris'[i].kirim
       /\ baris'[i].ada =>
            /\ baris'[i].orang = IF R.r = i THEN Tertulis(baris[i].orang, R.orang)
                                            ELSE baris[i].orang
            /\ baris'[i].kirim <=> baris[i].kirim \/ (R.r = i /\ R.kirim)
            /\ R.r # i \/ (R.sisip = {} /\ R.ubah = {}) => baris'[i].jawaban = baris[i].jawaban
  /\ \A i \in DOMAIN baris' \ DOMAIN baris :
       /\ i - Len(baris) \in DOMAIN R.tambah
       /\ baris'[i].ada /\ ~baris'[i].kirim
       /\ baris'[i].orang = R.tambah[i - Len(baris)]

\* One row, before and after.
LEMMA SatuBaris ==
  ASSUME TypeOK, NEW R \in Rencana, NEW i \in DOMAIN baris,
         NEW B, B = RespondenSesudah(R, i)
  PROVE  /\ B \in BarisResponden
         /\ B.ada <=> baris[i].ada /\ ~Terhapus(R, i)
         /\ ~B.ada => ~B.kirim
         /\ B.ada =>
              /\ B.orang = IF R.r = i THEN Tertulis(baris[i].orang, R.orang) ELSE baris[i].orang
              /\ B.kirim <=> baris[i].kirim \/ (R.r = i /\ R.kirim)
              /\ R.r # i \/ (R.sisip = {} /\ R.ubah = {}) => B.jawaban = baris[i].jawaban
<1>. DEFINE kosong == [k \in Kode |-> Tiada]
            jawaban == [k \in Kode |-> IF R.r = i /\ k \in R.sisip \cup R.ubah
                                         THEN R.nilai[k] ELSE baris[i].jawaban[k]]
            orang == IF R.r = i THEN Tertulis(baris[i].orang, R.orang) ELSE baris[i].orang
            kirim == baris[i].kirim \/ (R.r = i /\ R.kirim)
<1>1. /\ baris[i] \in BarisResponden /\ baris[i].jawaban \in BarisJawaban
      /\ baris[i].orang \in Orang
  BY Baris DEF BarisResponden
<1>2. kosong \in BarisJawaban /\ jawaban \in BarisJawaban
  BY <1>1 DEF BarisJawaban, Rencana
<1>3. orang \in Orang
  BY <1>1 DEF Tertulis, Rencana
<1>4. kirim \in BOOLEAN
  BY <1>1 DEF BarisResponden, Rencana
<1>5. R.r # i \/ (R.sisip = {} /\ R.ubah = {}) => jawaban = baris[i].jawaban
  BY <1>1 DEF BarisJawaban
<1>6. CASE Terhapus(R, i) \/ ~baris[i].ada
  <2>2. B = [ada |-> FALSE, orang |-> baris[i].orang, kirim |-> FALSE, jawaban |-> kosong]
    BY <1>6 DEF RespondenSesudah, Kosong
  <2>. HIDE DEF kosong
  <2>. QED  BY <1>1, <1>2, <1>6, <2>2 DEF BarisResponden
<1>7. CASE ~Terhapus(R, i) /\ baris[i].ada
  <2>1. B = [baris[i] EXCEPT !.orang = orang, !.kirim = kirim, !.jawaban = jawaban]
    BY <1>7 DEF RespondenSesudah
  <2>. HIDE DEF orang, kirim, jawaban
  <2>2. B \in BarisResponden /\ B.ada = baris[i].ada /\ B.orang = orang /\ B.kirim = kirim
        /\ B.jawaban = jawaban
    BY <1>1, <1>2, <1>3, <1>4, <2>1 DEF BarisResponden
  <2>. QED  BY <1>5, <1>7, <2>2 DEF orang, kirim
<1>. QED  BY <1>6, <1>7

LEMMA Menulis ==
  ASSUME IndInv, NEW p \in Proses, Tulis(p)
  PROVE  /\ rencana[p] \in Rencana /\ rencana[p].aktif
         /\ RencanaSah(rencana[p]) /\ Tertulislah(rencana[p])
<1>. DEFINE R == rencana[p]
<1>1. TypeOK /\ R \in Rencana /\ RencanaSah(R) /\ R.aktif
  BY DEF IndInv, TypeOK, Tulis
<1>2. /\ BisaDitulis(R) /\ Len(baris) + Len(R.tambah) <= MaksBaris
      /\ sesi' = SesiSesudah(R) /\ register' = RegisterSesudah(R)
      /\ baris' = [i \in DOMAIN baris |-> RespondenSesudah(R, i)] \o RespondenBaru(R.tambah)
      /\ tumpang' = IF R.basi THEN tumpang \cup R.tulis ELSE tumpang
      /\ UNCHANGED <<himpunan, pengirim>>
  BY DEF Tulis
<1>. HIDE DEF R
<1>. DEFINE b == [i \in DOMAIN baris |-> RespondenSesudah(R, i)]
<1>3. \A i \in DOMAIN baris : b[i] \in BarisResponden
  BY <1>1, SatuBaris
<1>4. b \in Seq(BarisResponden) /\ DOMAIN b = DOMAIN baris /\ Len(b) = Len(baris)
  <2>1. Len(baris) \in Nat /\ DOMAIN baris = 1..Len(baris)
    BY <1>1, Baris
  <2>2. DOMAIN b = 1..Len(baris) /\ b = [i \in 1..Len(baris) |-> b[i]]
    BY <2>1
  <2>. HIDE DEF b
  <2>3. b \in [1..Len(baris) -> BarisResponden]
    BY <1>3, <2>1, <2>2
  <2>. QED  BY <2>1, <2>3
<1>5. \A i \in DOMAIN baris : b[i] = RespondenSesudah(R, i)
  OBVIOUS
<1>6. baris' = b \o RespondenBaru(R.tambah) /\ R.tambah \in Seq(Orang)
  BY <1>1, <1>2 DEF Rencana
<1>. HIDE DEF b
<1>7. /\ baris' \in Seq(BarisResponden) /\ Len(baris') <= MaksBaris
      /\ DOMAIN baris' = 1..(Len(baris) + Len(R.tambah))
      /\ \A i \in DOMAIN baris : i \in DOMAIN baris' /\ baris'[i] = b[i]
      /\ \A i \in DOMAIN baris' \ DOMAIN baris :
           /\ i - Len(baris) \in DOMAIN R.tambah
           /\ baris'[i].ada /\ ~baris'[i].kirim
           /\ baris'[i].orang = R.tambah[i - Len(baris)]
  <2>. DEFINE B == b \o RespondenBaru(R.tambah)
  <2>1. /\ B \in Seq(BarisResponden)
        /\ Len(B) = Len(b) + Len(R.tambah) /\ DOMAIN B = 1..(Len(b) + Len(R.tambah))
        /\ \A i \in DOMAIN b : i \in DOMAIN B /\ B[i] = b[i]
        /\ \A i \in DOMAIN B \ DOMAIN b :
             /\ i - Len(b) \in DOMAIN R.tambah
             /\ B[i].ada /\ ~B[i].kirim /\ B[i].orang = R.tambah[i - Len(b)]
    BY <1>4, <1>6, Ditambah
  <2>2. baris' = B
    BY <1>6
  <2>. HIDE DEF B
  <2>. QED  BY <1>2, <1>4, <2>1, <2>2
<1>8. ASSUME NEW i \in DOMAIN baris
      PROVE  /\ i \in DOMAIN baris'
             /\ baris'[i].ada <=> baris[i].ada /\ ~Terhapus(R, i)
             /\ ~baris'[i].ada => ~baris'[i].kirim
             /\ baris'[i].ada =>
                  /\ baris'[i].orang = IF R.r = i THEN Tertulis(baris[i].orang, R.orang)
                                                  ELSE baris[i].orang
                  /\ baris'[i].kirim <=> baris[i].kirim \/ (R.r = i /\ R.kirim)
                  /\ R.r # i \/ (R.sisip = {} /\ R.ubah = {})
                       => baris'[i].jawaban = baris[i].jawaban
  <2>1. i \in DOMAIN baris' /\ baris'[i] = RespondenSesudah(R, i)
    BY <1>5, <1>7
  <2>. DEFINE B == RespondenSesudah(R, i)
  <2>2. /\ B.ada <=> baris[i].ada /\ ~Terhapus(R, i)
        /\ ~B.ada => ~B.kirim
        /\ B.ada =>
             /\ B.orang = IF R.r = i THEN Tertulis(baris[i].orang, R.orang) ELSE baris[i].orang
             /\ B.kirim <=> baris[i].kirim \/ (R.r = i /\ R.kirim)
             /\ R.r # i \/ (R.sisip = {} /\ R.ubah = {}) => B.jawaban = baris[i].jawaban
    BY <1>1, SatuBaris
  <2>3. baris'[i] = B
    BY <2>1
  <2>. HIDE DEF B
  <2>. QED  BY <2>1, <2>2, <2>3
<1>9. Tertulislah(R)
  BY <1>2, <1>7, <1>8 DEF Tertulislah
<1>. QED  BY <1>1, <1>9 DEF R

\* What a commit leaves of the session and its register.
Dihapus(R) == R.hapus = "sesi" /\ SesiAda(R)

LEMMA SesiTertulis ==
  ASSUME IndInv, NEW R \in Rencana, R.aktif, RencanaSah(R), Tertulislah(R)
  PROVE  /\ Dihapus(R) =>
              /\ MenghapusSesi(R)
              /\ sesi'.id = sesi.id /\ sesi'.status = Tiada /\ sesi'.task = {}
              /\ sesi' = TanpaSesi(sesi.id) /\ register' = {}
         /\ ~Dihapus(R) =>
              /\ sesi'.id = sesi.id /\ sesi'.task = sesi.task
              /\ sesi'.status = Tertulis(sesi.status, R.status)
              /\ sesi'.min = Tertulis(sesi.min, R.min)
              /\ sesi'.max = Tertulis(sesi.max, R.max)
              /\ register' = register \cup {<<k, "OPM_RATING_MISSING">> : k \in R.catat}
         /\ ~Dihapus(R) /\ ~MengubahSesi(R) => sesi' = sesi /\ register' = register
         /\ MengubahSesi(R) => ~Dihapus(R) /\ SesiAda(R)
         /\ R.tambah # <<>> => SesiAda(R)
         /\ sesi' \in BarisSesi
<1>1. sesi \in BarisSesi /\ sesi' = SesiSesudah(R) /\ register' = RegisterSesudah(R)
      /\ BisaDitulis(R)
  BY DEF IndInv, TypeOK, Tertulislah
<1>2. CASE Dihapus(R)
  <2>1. sesi' = TanpaSesi(sesi.id) /\ register' = {}
    BY <1>1, <1>2 DEF Dihapus, SesiSesudah, RegisterSesudah
  <2>2. TanpaSesi(sesi.id) \in BarisSesi
    BY <1>1 DEF TanpaSesi, BarisSesi
  <2>3. MenghapusSesi(R)
    BY <1>2 DEF Dihapus, RencanaSah, MengubahSesi, Mendaftarkan, Mengalihkan,
       MenghapusResponden, MenulisJawaban
  <2>. QED
    BY <1>2, <2>1, <2>2, <2>3
       DEF TanpaSesi, MengubahSesi, MenghapusSesi, Dihapus, TanpaOrang
<1>3. CASE R.hapus = "sesi" /\ ~SesiAda(R)
  <2>1. sesi' = sesi /\ MenghapusSesi(R)
    BY <1>1, <1>3 DEF SesiSesudah, RencanaSah, MengubahSesi, Mendaftarkan, Mengalihkan,
       MenghapusResponden, MenulisJawaban
  <2>2. R.catat = {} /\ R.status = Tiada /\ R.min = Tiada /\ R.max = Tiada /\ R.tambah = <<>>
    BY <2>1 DEF MenghapusSesi, TanpaKolom, TanpaOrang
  <2>3. register' = register
    BY <1>1, <1>3, <2>2 DEF RegisterSesudah
  <2>. QED
    BY <1>1, <1>3, <2>1, <2>2, <2>3 DEF Dihapus, MengubahSesi, Tertulis
<1>4. CASE R.hapus # "sesi"
  <2>1. sesi' = [sesi EXCEPT !.status = Tertulis(@, R.status),
                             !.min = Tertulis(@, R.min), !.max = Tertulis(@, R.max)]
        /\ register' = register \cup {<<k, "OPM_RATING_MISSING">> : k \in R.catat}
    BY <1>1, <1>4 DEF SesiSesudah, RegisterSesudah
  <2>2. sesi' \in BarisSesi
        /\ sesi'.id = sesi.id /\ sesi'.task = sesi.task
        /\ sesi'.status = Tertulis(sesi.status, R.status)
        /\ sesi'.min = Tertulis(sesi.min, R.min)
        /\ sesi'.max = Tertulis(sesi.max, R.max)
    BY <1>1, <2>1 DEF BarisSesi, Tertulis, Rencana
  <2>3. ASSUME ~MengubahSesi(R) PROVE sesi' = sesi /\ register' = register
    <3>1. R.catat = {} /\ R.status = Tiada /\ R.min = Tiada /\ R.max = Tiada
      BY <1>4, <2>3 DEF RencanaSah, MenghapusSesi, Mendaftarkan, Mengalihkan,
         MenghapusResponden, MenulisJawaban, TanpaKolom
    <3>2. register' = register
      BY <2>1, <3>1
    <3>3. sesi' = sesi
      BY <1>1, <2>1, <2>2, <3>1 DEF Tertulis, BarisSesi
    <3>. QED  BY <3>2, <3>3
  <2>4. MengubahSesi(R) => SesiAda(R)
    BY <1>1 DEF MengubahSesi, BisaDitulis
  <2>5. R.tambah # <<>> => SesiAda(R)
    <3>1. R.tambah # <<>> => R.hapus = "-"
      BY DEF RencanaSah, MenghapusSesi, Mendaftarkan, Mengalihkan, MengubahSesi,
         MenghapusResponden, MenulisJawaban, TanpaOrang
    <3>. QED  BY <1>1, <3>1 DEF BisaDitulis
  <2>. QED  BY <1>4, <2>1, <2>2, <2>3, <2>4, <2>5 DEF Dihapus
<1>. QED  BY <1>2, <1>3, <1>4 DEF Dihapus

\* Whatever is written is in tulis.
LEMMA Ditulis ==
  ASSUME IndInv, NEW R \in Rencana, R.aktif, RencanaSah(R), Tertulislah(R)
  PROVE  /\ R.tulis # {} /\ R.tulis \subseteq Obyek
         /\ Sesi \notin R.tulis => sesi' = sesi /\ register' = register /\ ~Dihapus(R)
         /\ Daftar \notin R.tulis =>
              /\ ~Dihapus(R) /\ DOMAIN baris' = DOMAIN baris
              /\ \A i \in DOMAIN baris :
                   /\ baris'[i].ada <=> baris[i].ada
                   /\ baris'[i].ada => baris'[i].orang = baris[i].orang
         /\ ~Dihapus(R) =>
              \A i \in DOMAIN baris \ R.tulis :
                /\ baris'[i].ada <=> baris[i].ada
                /\ baris'[i].ada => /\ baris'[i].kirim = baris[i].kirim
                                    /\ baris'[i].jawaban = baris[i].jawaban
         /\ \A i \in DOMAIN baris \ R.tulis : baris'[i].kirim => baris[i].kirim
<1>1. R.tulis # {} /\ R.tulis \subseteq Obyek
  BY DEF RencanaSah, MengubahSesi, MenghapusSesi, Mendaftarkan, Mengalihkan,
     MenghapusResponden, MenulisJawaban, Rencana
<1>2. Sesi \notin R.tulis => sesi' = sesi /\ register' = register /\ ~Dihapus(R)
  BY SesiTertulis DEF MengubahSesi, MenghapusSesi
<1>3. DOMAIN baris = 1..Len(baris) /\ Len(baris) \in Nat
      /\ Sesi \notin DOMAIN baris /\ Daftar \notin DOMAIN baris
      /\ \A i \in DOMAIN baris : baris[i].ada \in BOOLEAN /\ baris[i].kirim \in BOOLEAN
  BY Baris DEF IndInv, BarisResponden
<1>4. \A i \in DOMAIN baris' : baris'[i].ada \in BOOLEAN /\ baris'[i].kirim \in BOOLEAN
  <2>1. baris' \in Seq(BarisResponden)
    BY DEF Tertulislah
  <2>2. \A i \in DOMAIN baris' : baris'[i] \in BarisResponden
    BY <2>1
  <2>. QED  BY <2>2 DEF BarisResponden
<1>5. ASSUME Daftar \notin R.tulis
      PROVE  /\ ~Dihapus(R) /\ DOMAIN baris' = DOMAIN baris
             /\ \A i \in DOMAIN baris :
                  /\ baris'[i].ada <=> baris[i].ada
                  /\ baris'[i].ada => baris'[i].orang = baris[i].orang
  <2>1. MengubahSesi(R) \/ MenulisJawaban(R)
    BY <1>5 DEF RencanaSah, MenghapusSesi, Mendaftarkan, Mengalihkan, MenghapusResponden
  <2>2. R.tambah = <<>> /\ R.orang = Tiada /\ R.hapus = "-"
    BY <2>1 DEF MengubahSesi, MenulisJawaban, TanpaOrang
  <2>. QED  BY <1>3, <2>2 DEF Tertulislah, Terhapus, Dihapus, Tertulis
<1>6. ASSUME NEW i \in DOMAIN baris \ R.tulis
      PROVE  /\ ~Dihapus(R) =>
                  /\ baris'[i].ada <=> baris[i].ada
                  /\ baris'[i].ada => /\ baris'[i].kirim = baris[i].kirim
                                      /\ baris'[i].jawaban = baris[i].jawaban
             /\ baris'[i].kirim => baris[i].kirim
  <2>1. R.r = i => Mengalihkan(R)
    BY <1>3, <1>6 DEF RencanaSah, MengubahSesi, MenghapusSesi, Mendaftarkan,
       MenghapusResponden, MenulisJawaban
  <2>2. R.r = i => ~R.kirim /\ R.sisip = {} /\ R.ubah = {} /\ R.hapus = "-"
    BY <2>1 DEF Mengalihkan, TanpaJawaban
  <2>3. i \in DOMAIN baris' /\ baris'[i].kirim \in BOOLEAN /\ baris'[i].ada \in BOOLEAN
    BY <1>4 DEF Tertulislah
  <2>. QED  BY <1>3, <1>4, <2>2, <2>3 DEF Tertulislah, Terhapus, Dihapus
<1>. QED  BY <1>1, <1>2, <1>5, <1>6

\* The plans of the others, after a commit of R.
LEMMA RencanaLain ==
  ASSUME IndInv, NEW R \in Rencana, R.aktif, RencanaSah(R), Tertulislah(R),
         NEW S \in Rencana, RencanaSah(S), NEW T \in Rencana,
         T = [S EXCEPT !.basi = @ \/ S.baca \cap R.tulis # {}]
  PROVE  RencanaSah(T)'
<1>1. /\ T.aktif = S.aktif /\ T.sesi = S.sesi /\ T.baca = S.baca /\ T.tulis = S.tulis
      /\ T.status = S.status /\ T.min = S.min /\ T.max = S.max /\ T.catat = S.catat
      /\ T.tambah = S.tambah /\ T.r = S.r /\ T.orang = S.orang /\ T.kirim = S.kirim
      /\ T.sisip = S.sisip /\ T.ubah = S.ubah /\ T.hapus = S.hapus
      /\ ~T.basi => ~S.basi /\ S.baca \cap R.tulis = {}
  BY DEF Rencana
<1>2. SUFFICES ASSUME S.aktif PROVE RencanaSah(T)'
  BY <1>1 DEF RencanaSah
<1>3. \A i \in DOMAIN baris : i \in DOMAIN baris'
  BY DEF Tertulislah
<1>4. tumpang' = {} => tumpang = {}
  BY DEF Tertulislah
<1>5. Daftar \notin R.tulis => Terdaftar' \subseteq Terdaftar
  BY Ditulis DEF Terdaftar, Responden
<1>6. Daftar \notin R.tulis /\ SesiAda(S) => SesiAda(T)'
  <2>. SUFFICES ASSUME Daftar \notin R.tulis, SesiAda(S) PROVE SesiAda(T)'
    OBVIOUS
  <2>1. ~Dihapus(R)
    BY Ditulis
  <2>2. sesi'.id = sesi.id /\ sesi'.status = Tertulis(sesi.status, R.status)
    BY <2>1, SesiTertulis
  <2>. QED  BY <1>1, <2>2 DEF SesiAda, Tertulis
<1>7. Sesi \notin R.tulis => sesi' = sesi
  BY Ditulis
<1>8. R.tulis # {} /\ R.tulis \subseteq Obyek
  BY Ditulis
<1>9. CASE MengubahSesi(S)
  <2>1. ~T.basi => Sesi \notin R.tulis /\ S.baca # Obyek
    BY <1>1, <1>8, <1>9 DEF MengubahSesi
  <2>2. MengubahSesi(T)'
    <3>1. ~T.basi => SesiAda(T)'
      BY <1>1, <1>7, <1>9, <2>1 DEF MengubahSesi, SesiAda, Segar
    <3>. QED
      BY <1>1, <1>4, <1>7, <1>9, <2>1, <3>1
         DEF MengubahSesi, Segar, TanpaOrang, TanpaJawaban
  <2>. QED  BY <2>2 DEF RencanaSah
<1>10. CASE MenghapusSesi(S)
  BY <1>1, <1>10 DEF RencanaSah, MenghapusSesi, TanpaKolom, TanpaOrang, TanpaJawaban
<1>11. CASE Mendaftarkan(S)
  <2>1. ~T.basi => Daftar \notin R.tulis /\ ~S.basi
    BY <1>1, <1>11 DEF Mendaftarkan
  <2>2. Mendaftarkan(T)'
    BY <1>1, <1>5, <1>6, <1>11, <2>1 DEF Mendaftarkan, Segar, TanpaKolom, TanpaJawaban
  <2>. QED  BY <2>2 DEF RencanaSah
<1>12. CASE Mengalihkan(S)
  <2>1. ~T.basi => Daftar \notin R.tulis /\ ~S.basi
    BY <1>1, <1>12 DEF Mengalihkan
  <2>2. Mengalihkan(T)'
    BY <1>1, <1>3, <1>5, <1>6, <1>12, <2>1 DEF Mengalihkan, Segar, TanpaKolom, TanpaJawaban
  <2>. QED  BY <2>2 DEF RencanaSah
<1>13. CASE MenghapusResponden(S)
  <2>1. ~T.basi => S.r \in DOMAIN baris \ R.tulis /\ ~S.basi
    BY <1>1, <1>13 DEF MenghapusResponden
  <2>2. ~T.basi => ~baris'[S.r].kirim
    BY <1>13, <2>1, Ditulis DEF MenghapusResponden, Segar
  <2>3. MenghapusResponden(T)'
    BY <1>1, <1>3, <1>13, <2>2
       DEF MenghapusResponden, Segar, TanpaKolom, TanpaOrang, TanpaJawaban
  <2>. QED  BY <2>3 DEF RencanaSah
<1>14. CASE MenulisJawaban(S)
  <2>1. S.r \in DOMAIN baris /\ S.r \in DOMAIN baris'
    BY <1>3, <1>14 DEF MenulisJawaban
  <2>2. ASSUME ~T.basi
        PROVE  /\ SesiAda(T)'
               /\ (S.r \in Responden \ Terkirim)'
               /\ T.kirim => (sesi.status = "OPEN" /\ BolehKirim(S.r))'
    <3>1. ~S.basi /\ Sesi \notin R.tulis /\ S.r \notin R.tulis
      BY <1>1, <1>14, <2>2 DEF MenulisJawaban
    <3>2. /\ SesiAda(S) /\ S.r \in Responden \ Terkirim
          /\ S.kirim => sesi.status = "OPEN" /\ BolehKirim(S.r)
      BY <1>14, <3>1 DEF MenulisJawaban, Segar
    <3>3. sesi' = sesi /\ ~Dihapus(R)
      BY <3>1, Ditulis
    <3>4. baris[S.r].ada /\ ~baris[S.r].kirim
      BY <3>2 DEF Responden, Terkirim
    <3>5. /\ baris'[S.r].ada /\ ~baris'[S.r].kirim
          /\ baris'[S.r].jawaban = baris[S.r].jawaban
      BY <2>1, <3>1, <3>3, <3>4, Ditulis
    <3>6. (S.r \in Responden \ Terkirim)'
      BY <2>1, <3>5 DEF Responden, Terkirim
    <3>7. SesiAda(T)'
      BY <1>1, <3>2, <3>3 DEF SesiAda
    <3>8. T.kirim => (sesi.status = "OPEN" /\ BolehKirim(S.r))'
      BY <1>1, <3>2, <3>3, <3>5
         DEF BolehKirim, SemuaDimensi, TaskPersis, Dijawab, Lengkapnya
    <3>. QED  BY <3>6, <3>7, <3>8
  <2>3. MenulisJawaban(T)'
    BY <1>1, <1>14, <2>1, <2>2 DEF MenulisJawaban, Segar, TanpaKolom, TanpaOrang
  <2>. QED  BY <2>3 DEF RencanaSah
<1>. QED
  BY <1>2, <1>9, <1>10, <1>11, <1>12, <1>13, <1>14 DEF RencanaSah

\* The submitted answers after a commit that rests on what it read.
LEMMA TerkirimSesudah ==
  ASSUME IndInv, NEW R \in Rencana, R.aktif, RencanaSah(R), Tertulislah(R),
         ~R.basi, ~Dihapus(R)
  PROVE  /\ Terkirim \subseteq Terkirim'
         /\ MengubahSesi(R) \/ Mengalihkan(R) => Terkirim' = Terkirim
<1>1. \A i \in DOMAIN baris : baris[i].ada \in BOOLEAN /\ baris[i].kirim \in BOOLEAN
  BY Baris DEF IndInv, BarisResponden
<1>2. ASSUME NEW i \in Terkirim PROVE i \in Terkirim'
  <2>1. i \in DOMAIN baris /\ baris[i].ada /\ baris[i].kirim
    BY DEF Terkirim, Responden
  <2>2. ~Terhapus(R, i)
    <3>1. R.hapus = "responden" => MenghapusResponden(R)
      BY DEF RencanaSah, MengubahSesi, MenghapusSesi, Mendaftarkan, Mengalihkan, MenulisJawaban
    <3>2. R.hapus = "responden" => ~baris[R.r].kirim
      BY <3>1 DEF MenghapusResponden, Segar
    <3>. QED  BY <2>1, <3>2 DEF Terhapus, Dihapus
  <2>3. i \in DOMAIN baris' /\ baris'[i].ada
    BY <2>1, <2>2 DEF Tertulislah
  <2>4. baris'[i].kirim
    BY <2>1, <2>3 DEF Tertulislah
  <2>. QED  BY <2>3, <2>4 DEF Terkirim, Responden
<1>3. ASSUME MengubahSesi(R) \/ Mengalihkan(R), NEW i \in Terkirim' PROVE i \in Terkirim
  <2>1. R.hapus = "-" /\ ~R.kirim /\ R.tambah = <<>>
    BY <1>3 DEF MengubahSesi, Mengalihkan, TanpaJawaban, TanpaOrang
  <2>2. i \in DOMAIN baris' /\ baris'[i].ada /\ baris'[i].kirim
    BY DEF Terkirim, Responden
  <2>3. i \in DOMAIN baris
    BY <2>1, <2>2, Baris DEF Tertulislah, IndInv
  <2>4. baris[i].ada /\ baris[i].kirim
    BY <1>1, <2>1, <2>2, <2>3 DEF Tertulislah, Terhapus
  <2>. QED  BY <2>3, <2>4 DEF Terkirim, Responden
<1>. QED  BY <1>2, <1>3

LEMMA SesiSahSesudah ==
  ASSUME IndInv, NEW R \in Rencana, R.aktif, RencanaSah(R), Tertulislah(R)
  PROVE  SesiSah'
<1>1. \A i \in DOMAIN baris' : ~baris'[i].ada => ~baris'[i].kirim
  BY DEF Tertulislah
<1>2. CASE Dihapus(R)
  <2>1. sesi'.status = Tiada /\ R.tambah = <<>>
    BY <1>2, SesiTertulis DEF MenghapusSesi, TanpaOrang
  <2>2. DOMAIN baris' = DOMAIN baris
    BY <2>1, Baris DEF Tertulislah, IndInv
  <2>3. Responden' = {}
    BY <1>2, <2>2 DEF Responden, Tertulislah, Terhapus, Dihapus
  <2>. QED  BY <1>1, <2>1, <2>3 DEF SesiSah
<1>3. CASE ~Dihapus(R) /\ sesi.status = Tiada
  <2>1. ~SesiAda(R)
    BY <1>3 DEF SesiAda
  <2>2. ~MengubahSesi(R) /\ R.tambah = <<>> /\ sesi' = sesi
    BY <1>3, <2>1, SesiTertulis
  <2>3. DOMAIN baris' = DOMAIN baris
    BY <2>2, Baris DEF Tertulislah, IndInv
  <2>4. \A i \in DOMAIN baris : ~baris[i].ada
    BY <1>3 DEF IndInv, SesiSah, Responden
  <2>5. Responden' = {}
    BY <2>3, <2>4 DEF Responden, Tertulislah
  <2>. QED  BY <1>1, <1>3, <2>2, <2>5 DEF SesiSah
<1>4. CASE ~Dihapus(R) /\ sesi.status # Tiada
  <2>1. sesi.min \in Batas /\ sesi.max \in Batas
    BY <1>4 DEF IndInv, SesiSah
  <2>2. /\ sesi'.status = Tertulis(sesi.status, R.status)
        /\ sesi'.min = Tertulis(sesi.min, R.min)
        /\ sesi'.max = Tertulis(sesi.max, R.max)
    BY <1>4, SesiTertulis
  <2>3. sesi'.status # Tiada /\ sesi'.min \in Batas /\ sesi'.max \in Batas
    BY <1>4, <2>1, <2>2 DEF Tertulis, Rencana
  <2>. QED  BY <1>1, <2>3 DEF SesiSah
<1>. QED  BY <1>2, <1>3, <1>4

LEMMA KirimanLengkapSesudah ==
  ASSUME IndInv, NEW R \in Rencana, R.aktif, RencanaSah(R), Tertulislah(R)
  PROVE  KirimanLengkap'
<1>. SUFFICES ASSUME NEW i \in Terkirim' \ tumpang' PROVE BolehKirim(i)'
  BY DEF KirimanLengkap
<1>1. i \in DOMAIN baris' /\ baris'[i].ada /\ baris'[i].kirim /\ i \notin tumpang'
  BY DEF Terkirim, Responden
<1>2. i \in DOMAIN baris
  BY <1>1 DEF Tertulislah
<1>3. ~Dihapus(R) /\ baris[i].ada
  BY <1>1, <1>2 DEF Tertulislah, Terhapus, Dihapus
<1>4. i \notin tumpang /\ sesi'.task = sesi.task
  BY <1>1, <1>3, SesiTertulis DEF Tertulislah
<1>5. BolehKirim(i) /\ baris'[i].jawaban = baris[i].jawaban
  <2>1. CASE i \notin R.tulis
    <3>1. baris'[i].kirim = baris[i].kirim /\ baris'[i].jawaban = baris[i].jawaban
      BY <1>1, <1>2, <1>3, <2>1, Ditulis
    <3>2. i \in Terkirim \ tumpang
      BY <1>1, <1>2, <1>3, <1>4, <3>1 DEF Terkirim, Responden
    <3>. QED  BY <3>1, <3>2 DEF IndInv, KirimanLengkap
  <2>2. CASE i \in R.tulis
    <3>1. ~R.basi
      BY <1>1, <2>2 DEF Tertulislah
    <3>2. MenghapusResponden(R) \/ MenulisJawaban(R)
      BY <1>2, <2>2, Baris DEF RencanaSah, MengubahSesi, MenghapusSesi, Mendaftarkan, Mengalihkan,
         IndInv
    <3>3. MenulisJawaban(R) /\ R.r = i
      <4>1. R.r = i
        BY <1>2, <2>2, <3>2, Baris DEF MenghapusResponden, MenulisJawaban, IndInv
      <4>2. ~(R.hapus = "responden")
        BY <1>1, <1>2, <4>1 DEF Tertulislah, Terhapus
      <4>. QED  BY <3>2, <4>1, <4>2 DEF MenghapusResponden
    <3>4. R.kirim /\ R.sisip = {} /\ R.ubah = {} /\ BolehKirim(i)
      <4>1. ~baris[i].kirim
        BY <1>2, <1>3, <3>1, <3>3 DEF MenulisJawaban, Segar, Terkirim, Responden
      <4>2. R.kirim
        BY <1>1, <1>2, <4>1 DEF Tertulislah
      <4>. QED  BY <3>1, <3>3, <4>2 DEF MenulisJawaban, Segar
    <3>. QED  BY <1>1, <1>2, <3>4 DEF Tertulislah
  <2>. QED  BY <2>1, <2>2
<1>. QED
  BY <1>4, <1>5 DEF BolehKirim, SemuaDimensi, TaskPersis, Dijawab, Lengkapnya

LEMMA OrangTunggalSesudah ==
  ASSUME IndInv, NEW R \in Rencana, R.aktif, RencanaSah(R), Tertulislah(R)
  PROVE  OrangTunggal'
<1>. SUFFICES ASSUME Daftar \notin tumpang', NEW i \in Responden', NEW j \in Responden',
                     baris'[i].orang = baris'[j].orang
              PROVE  i = j
  BY DEF OrangTunggal
<1>1. Daftar \notin tumpang /\ (Daftar \in R.tulis => ~R.basi)
  BY DEF Tertulislah
<1>2. \A a, b \in Responden : baris[a].orang = baris[b].orang => a = b
  BY <1>1 DEF IndInv, OrangTunggal
<1>3. \A a \in Responden' : /\ a \in DOMAIN baris'
                            /\ baris'[a].ada
                            /\ a \in DOMAIN baris => a \in Responden
  BY DEF Responden, Tertulislah
<1>4. CASE Mendaftarkan(R)
  <2>1. /\ R.hapus = "-" /\ R.orang = Tiada
        /\ \A a \in DOMAIN R.tambah : R.tambah[a] \notin Terdaftar
        /\ \A a, b \in DOMAIN R.tambah : R.tambah[a] = R.tambah[b] => a = b
    BY <1>1, <1>4 DEF Mendaftarkan, Segar
  <2>2. \A a \in Responden' \cap DOMAIN baris :
          a \in Responden /\ baris'[a].orang = baris[a].orang
    BY <1>3, <2>1 DEF Tertulislah, Tertulis
  <2>3. \A a \in Responden' \ DOMAIN baris :
          a - Len(baris) \in DOMAIN R.tambah /\ baris'[a].orang = R.tambah[a - Len(baris)]
    BY <1>3 DEF Tertulislah
  <2>4. \A a \in Responden' \cap DOMAIN baris : baris'[a].orang \in Terdaftar
    BY <2>2 DEF Terdaftar
  <2>5. CASE i \in DOMAIN baris /\ j \in DOMAIN baris
    BY <1>2, <2>2, <2>5
  <2>6. CASE i \notin DOMAIN baris /\ j \notin DOMAIN baris
    <3>1. i - Len(baris) = j - Len(baris)
      BY <2>1, <2>3, <2>6
    <3>. QED  BY <1>3, <3>1, Baris DEF Tertulislah, IndInv
  <2>7. CASE (i \in DOMAIN baris) # (j \in DOMAIN baris)
    BY <2>1, <2>3, <2>4, <2>7
  <2>. QED  BY <2>5, <2>6, <2>7
<1>5. CASE ~Mendaftarkan(R)
  <2>1. R.tambah = <<>>
    BY <1>5 DEF RencanaSah, MengubahSesi, MenghapusSesi, Mengalihkan, MenghapusResponden,
       MenulisJawaban, TanpaOrang
  <2>2. i \in Responden /\ j \in Responden
    BY <1>3, <2>1, Baris DEF Tertulislah, IndInv
  <2>3. CASE Mengalihkan(R)
    <3>1. R.orang \notin Terdaftar
      BY <1>1, <2>3 DEF Mengalihkan, Segar
    <3>2. \A a \in Responden : baris[a].orang \in Terdaftar
      BY DEF Terdaftar
    <3>3. R.orang # Tiada
      BY <2>3, Bukan DEF Mengalihkan
    <3>4. \A a \in {i, j} : baris'[a].orang = IF R.r = a THEN R.orang ELSE baris[a].orang
      BY <1>3, <2>2, <3>3 DEF Tertulislah, Tertulis, Responden
    <3>. QED  BY <1>2, <2>2, <3>1, <3>2, <3>4
  <2>4. CASE ~Mengalihkan(R)
    <3>1. R.orang = Tiada
      BY <1>5, <2>4 DEF RencanaSah, MengubahSesi, MenghapusSesi, MenghapusResponden,
         MenulisJawaban, TanpaOrang
    <3>2. \A a \in {i, j} : baris'[a].orang = baris[a].orang
      BY <1>3, <2>2, <3>1 DEF Tertulislah, Tertulis, Responden
    <3>. QED  BY <1>2, <2>2, <3>2
  <2>. QED  BY <2>3, <2>4
<1>. QED  BY <1>4, <1>5

LEMMA AnalisisCukupSesudah ==
  ASSUME IndInv, NEW R \in Rencana, R.aktif, RencanaSah(R), Tertulislah(R)
  PROVE  AnalisisCukup'
<1>. SUFFICES ASSUME tumpang' = {} PROVE AnalisisCukup'
  BY DEF AnalisisCukup
<1>1. tumpang = {} /\ ~R.basi
  <2>1. R.tulis # {}
    BY Ditulis
  <2>. QED  BY <2>1 DEF Tertulislah
<1>2. /\ HasilTersedia => CukupResponden
      /\ \A k \in Kode : <<k, "OPM_RATING_MISSING">> \notin register
  BY <1>1 DEF IndInv, AnalisisCukup
<1>3. CASE Dihapus(R)
  <2>1. sesi'.status = Tiada /\ register' = {}
    BY <1>3, SesiTertulis
  <2>. QED  BY <2>1, Bukan DEF AnalisisCukup, HasilTersedia, Status
<1>4. CASE ~Dihapus(R)
  <2>1. register' = register
    <3>1. R.catat = {}
      BY <1>1 DEF RencanaSah, MengubahSesi, MenghapusSesi, Mendaftarkan, Mengalihkan,
         MenghapusResponden, MenulisJawaban, TanpaKolom, Segar
    <3>. QED  BY <1>4, <3>1, SesiTertulis
  <2>2. IsFiniteSet(Terkirim) /\ IsFiniteSet(Terkirim')
    <3>1. IsFiniteSet(1..Len(baris)) /\ Terkirim \in SUBSET (1..Len(baris))
      BY Baris, FS_Interval DEF IndInv, Terkirim, Responden
    <3>2. Len(baris) + Len(R.tambah) \in Nat
      BY Baris DEF IndInv, Rencana
    <3>3. IsFiniteSet(1..(Len(baris) + Len(R.tambah)))
          /\ Terkirim' \in SUBSET (1..(Len(baris) + Len(R.tambah)))
      BY <3>2, FS_Interval DEF Tertulislah, Terkirim, Responden
    <3>. QED  BY <3>1, <3>3, FS_Subset
  <2>3. Terkirim \in SUBSET Terkirim'
    BY <1>1, <1>4, TerkirimSesudah
  <2>4. /\ Cardinality(Terkirim) \in Nat /\ Cardinality(Terkirim') \in Nat
        /\ Cardinality(Terkirim) <= Cardinality(Terkirim')
    BY <2>2, <2>3, FS_Subset, FS_CardinalityType
  <2>5. ASSUME HasilTersedia' PROVE CukupResponden'
    <3>1. sesi'.status = "ANALYZED"
      BY <2>5 DEF HasilTersedia
    <3>2. sesi'.status = Tertulis(sesi.status, R.status) /\ sesi'.min = Tertulis(sesi.min, R.min)
      BY <1>4, SesiTertulis
    <3>3. CASE MengubahSesi(R)
      <4>1. Terkirim' = Terkirim
        BY <1>1, <1>4, <3>3, TerkirimSesudah
      <4>2. R.status = "ANALYZED" => CukupResponden
        BY <1>1, <3>3 DEF MengubahSesi, Segar
      <4>3. CukupResponden
        BY <1>2, <3>1, <3>2, <4>2 DEF Tertulis, HasilTersedia
      <4>4. R.min = Tiada
        <5>1. R.min # Tiada => sesi.status = "DRAFT" /\ R.status = Tiada
          BY <1>1, <3>3 DEF MengubahSesi, Segar
        <5>2. R.min # Tiada => sesi'.status = "DRAFT"
          BY <3>2, <5>1 DEF Tertulis
        <5>. QED  BY <3>1, <5>2
      <4>. QED  BY <3>2, <4>1, <4>3, <4>4 DEF CukupResponden, Tertulis
    <3>4. CASE ~MengubahSesi(R)
      <4>1. sesi' = sesi
        BY <1>4, <3>4, SesiTertulis
      <4>2. CukupResponden
        BY <1>2, <3>1, <4>1 DEF HasilTersedia
      <4>3. sesi.min \in Nat
        BY <3>1, <4>1, Bukan, OpmAssumption DEF IndInv, SesiSah, Status
      <4>. QED  BY <2>4, <4>1, <4>2, <4>3 DEF CukupResponden
    <3>. QED  BY <3>3, <3>4
  <2>. QED  BY <1>2, <2>1, <2>5 DEF AnalisisCukup
<1>. QED  BY <1>3, <1>4

LEMMA LangkahTulis ==
  ASSUME IndInv, NEW p \in Proses, Tulis(p)
  PROVE  IndInv'
<1>. DEFINE R == rencana[p]
<1>1. R \in Rencana /\ R.aktif /\ RencanaSah(R) /\ Tertulislah(R)
  BY Menulis
<1>2. rencana' = [q \in Proses |->
        IF q = p THEN Diam
        ELSE [rencana[q] EXCEPT !.basi = @ \/ rencana[q].baca \cap R.tulis # {}]]
  BY DEF Tulis
<1>3. \A q \in Proses : rencana[q] \in Rencana /\ RencanaSah(rencana[q])
  BY DEF IndInv, TypeOK
<1>. HIDE DEF R
<1>4. ASSUME NEW q \in Proses, q # p
      PROVE  /\ rencana'[q] = [rencana[q] EXCEPT !.basi = @ \/ rencana[q].baca \cap R.tulis # {}]
             /\ rencana'[q] \in Rencana
  <2>1. rencana'[q] = [rencana[q] EXCEPT !.basi = @ \/ rencana[q].baca \cap R.tulis # {}]
    BY <1>2, <1>4
  <2>. DEFINE S == rencana[q]
              b == S.basi \/ S.baca \cap R.tulis # {}
  <2>2. b \in BOOLEAN /\ S \in Rencana
    BY <1>3 DEF Rencana
  <2>3. rencana'[q] = [S EXCEPT !.basi = b]
    BY <2>1
  <2>. HIDE DEF S, b
  <2>4. rencana'[q] \in Rencana
    BY <2>2, <2>3 DEF Rencana
  <2>. QED  BY <2>1, <2>4
<1>5. rencana'[p] = Diam
  BY <1>2
<1>6. TypeOK'
  <2>1. sesi' \in BarisSesi
    BY <1>1, SesiTertulis
  <2>2. register' \in SUBSET BarisPengecualian
    <3>1. register' = {}
          \/ register' = register \cup {<<k, "OPM_RATING_MISSING">> : k \in R.catat}
      BY <1>1, SesiTertulis
    <3>2. R.catat \in SUBSET Kode
      BY <1>1 DEF Rencana
    <3>3. {<<k, "OPM_RATING_MISSING">> : k \in R.catat} \in SUBSET BarisPengecualian
      BY <3>2 DEF BarisPengecualian
    <3>. QED  BY <3>1, <3>3 DEF IndInv, TypeOK
  <2>3. rencana' \in [Proses -> Rencana]
    BY <1>2, <1>4, <1>5, TipeDiam
  <2>4. tumpang' \in SUBSET Obyek
    BY <1>1 DEF IndInv, TypeOK, Tertulislah, Rencana
  <2>. QED  BY <1>1, <2>1, <2>2, <2>3, <2>4 DEF IndInv, TypeOK, Tertulislah
<1>7. (\A q \in Proses : RencanaSah(rencana[q]))'
  <2>. SUFFICES ASSUME NEW q \in Proses PROVE RencanaSah(rencana[q])'
    OBVIOUS
  <2>1. CASE q = p
    BY <1>5, <2>1 DEF RencanaSah, Diam
  <2>2. CASE q # p
    <3>1. PICK T \in Rencana : T = rencana'[q]
      BY <1>4, <2>2
    <3>2. PICK S \in Rencana : S = rencana[q]
      BY <1>3
    <3>3. T = [S EXCEPT !.basi = @ \/ S.baca \cap R.tulis # {}]
      BY <1>4, <2>2, <3>1, <3>2
    <3>4. RencanaSah(S)
      BY <1>3, <3>2
    <3>5. RencanaSah(T)'
      BY <1>1, <3>3, <3>4, RencanaLain
    <3>. QED  BY <3>1, <3>5
  <2>. QED  BY <2>1, <2>2
<1>8. SesiSah' /\ KirimanLengkap' /\ OrangTunggal' /\ AnalisisCukup'
  BY <1>1, SesiSahSesudah, KirimanLengkapSesudah, OrangTunggalSesudah, AnalisisCukupSesudah
<1>. QED  BY <1>6, <1>7, <1>8 DEF IndInv

LEMMA Terjaga == IndInv /\ [Next]_vars => IndInv'
<1>. SUFFICES ASSUME IndInv, [Next]_vars PROVE IndInv'
  OBVIOUS
<1>1. CASE UNCHANGED vars
  <2>1. TypeOK' /\ \A q \in Proses : RencanaSah(rencana'[q])
    BY <1>1 DEF vars, IndInv, TypeOK
  <2>. QED  BY <1>1, <2>1, HanyaRencana DEF vars
<1>2. CASE SumberBerubah
  BY <1>2, LangkahSumber
<1>3. CASE \E min, max \in Batas, kat \in Katalog : Buat(kat, min, max)
  BY <1>3, LangkahBuat
<1>4. ASSUME NEW p \in Proses, \E min, max \in Batas : UbahSesi(p, min, max) PROVE IndInv'
  BY <1>4, LangkahUbahSesi
<1>5. ASSUME NEW p \in Proses, BukaSesi(p) \/ TutupSesi(p) PROVE IndInv'
  BY <1>5, LangkahBeralih DEF BukaSesi, TutupSesi
<1>6. ASSUME NEW p \in Proses, Analisis(p) PROVE IndInv'
  BY <1>6, LangkahAnalisis
<1>7. ASSUME NEW p \in Proses, \E paksa \in BOOLEAN : HapusSesi(p, paksa) PROVE IndInv'
  BY <1>7, LangkahHapusSesi
<1>8. ASSUME NEW p \in Proses, \E minta \in Urutan : DaftarkanBanyak(p, minta) PROVE IndInv'
  BY <1>8, LangkahDaftarkanBanyak
<1>9. ASSUME NEW p \in Proses, \E o \in Orang : Daftarkan(p, o) PROVE IndInv'
  BY <1>9, LangkahDaftarkan
<1>10. ASSUME NEW p \in Proses, NEW i \in DOMAIN baris,
              \/ \E o \in Orang : Alihkan(p, i, o)
              \/ HapusResponden(p, i)
              \/ \E d \in Draf : SimpanDraf(p, i, d)
              \/ KirimJawaban(p, i)
       PROVE  IndInv'
  BY <1>10, LangkahAlihkan, LangkahHapusResponden, LangkahSimpanDraf, LangkahKirimJawaban
<1>11. ASSUME NEW p \in Proses, Tulis(p) \/ Gagal(p) PROVE IndInv'
  BY <1>11, LangkahTulis, LangkahGagal
<1>. QED
  BY <1>1, <1>2, <1>3, <1>4, <1>5, <1>6, <1>7, <1>8, <1>9, <1>10, <1>11 DEF Next

-------------------------------------------------------------------------------
(* The theorems.                                                             *)

\* The invariant holds of every number of threads and respondents: a request
\* that was not overtaken writes what it may (session_scope, _flush_checked).
THEOREM Invarian == Spec => []IndInv
<1>. QED  BY Berawal, Terjaga, PTL DEF Spec

\* Every row has the columns of its table and every request the form of its
\* service call.
THEOREM TipeBenar == Spec => []TypeOK
<1>1. IndInv => TypeOK
  BY DEF IndInv
<1>. QED  BY <1>1, Invarian, PTL

-------------------------------------------------------------------------------
(* Results.                                                                  *)

\* The fold that MapThenSumSet is, over the sets of D only.
Pilih(s) == CHOOSE i \in s : TRUE

Berlipat(k, d, D, c) ==
  c = [s \in D |-> IF s = {} THEN 0
                   ELSE baris[Pilih(s)].jawaban[k][d] + c[s \ {Pilih(s)}]]

Sekecil(P, n) == {s \in SUBSET P : Cardinality(s) <= n}

LEMMA SatuDiambil ==
  ASSUME NEW P, IsFiniteSet(P), NEW n \in Nat, NEW s \in Sekecil(P, n), s # {}
  PROVE  /\ Pilih(s) \in s /\ n # 0 /\ s \ {Pilih(s)} \in Sekecil(P, n - 1)
         /\ Cardinality(s) = Cardinality(s \ {Pilih(s)}) + 1
         /\ Cardinality(s \ {Pilih(s)}) \in Nat
<1>1. s \in SUBSET P /\ Cardinality(s) <= n /\ IsFiniteSet(s) /\ Cardinality(s) \in Nat
  BY FS_Subset, FS_CardinalityType DEF Sekecil
<1>2. Pilih(s) \in s
  BY DEF Pilih
<1>3. IsFiniteSet(s \ {Pilih(s)}) /\ Cardinality(s \ {Pilih(s)}) = Cardinality(s) - 1
  BY <1>1, <1>2, FS_RemoveElement
<1>4. Cardinality(s \ {Pilih(s)}) \in Nat
  BY <1>3, FS_CardinalityType
<1>. QED  BY <1>1, <1>2, <1>3, <1>4 DEF Sekecil

\* There is such a fold, however large the sets are.
LEMMA AdaLipatan ==
  ASSUME NEW P, IsFiniteSet(P), NEW k, NEW d, NEW n \in Nat
  PROVE  \E c : Berlipat(k, d, Sekecil(P, n), c)
<1>. DEFINE S == {m \in Nat : ~ \E c : Berlipat(k, d, Sekecil(P, m), c)}
<1>1. ASSUME S # {} PROVE FALSE
  <2>1. PICK m \in S : \A j \in S : m <= j
    BY <1>1, Terkecil, S \in SUBSET Nat
  <2>2. m # 0
    <3>. SUFFICES ASSUME m = 0 PROVE FALSE
      OBVIOUS
    <3>. DEFINE c == [s \in Sekecil(P, 0) |-> 0]
    <3>1. \A s \in Sekecil(P, 0) : s = {}
      BY SatuDiambil
    <3>2. Berlipat(k, d, Sekecil(P, 0), c)
      BY <3>1 DEF Berlipat
    <3>. QED  BY <2>1, <3>2
  <2>3. m - 1 \in Nat /\ m - 1 \notin S
    BY <2>1, <2>2
  <2>4. PICK c : Berlipat(k, d, Sekecil(P, m - 1), c)
    BY <2>3
  <2>. DEFINE e == [s \in Sekecil(P, m) |-> IF s = {} THEN 0
                      ELSE baris[Pilih(s)].jawaban[k][d] + c[s \ {Pilih(s)}]]
  <2>5. \A s \in Sekecil(P, m - 1) : s \in Sekecil(P, m)
    BY <2>3, FS_Subset, FS_CardinalityType DEF Sekecil
  <2>6. \A s \in Sekecil(P, m - 1) : e[s] = c[s]
    BY <2>4, <2>5 DEF Berlipat
  <2>7. \A s \in Sekecil(P, m) : s # {} => s \ {Pilih(s)} \in Sekecil(P, m - 1)
    BY <2>1, SatuDiambil
  <2>8. \A s \in Sekecil(P, m) :
          e[s] = IF s = {} THEN 0 ELSE baris[Pilih(s)].jawaban[k][d] + e[s \ {Pilih(s)}]
    <3>. SUFFICES ASSUME NEW s \in Sekecil(P, m)
                  PROVE  e[s] = IF s = {} THEN 0
                                ELSE baris[Pilih(s)].jawaban[k][d] + e[s \ {Pilih(s)}]
      OBVIOUS
    <3>1. e[s] = IF s = {} THEN 0 ELSE baris[Pilih(s)].jawaban[k][d] + c[s \ {Pilih(s)}]
      OBVIOUS
    <3>. HIDE DEF e
    <3>. QED  BY <2>6, <2>7, <3>1
  <2>9. Berlipat(k, d, Sekecil(P, m), e)
    <3>1. e = [s \in Sekecil(P, m) |-> e[s]]
      OBVIOUS
    <3>. HIDE DEF e
    <3>. QED  BY <2>8, <3>1 DEF Berlipat
  <2>. QED  BY <2>1, <2>9
<1>. QED  BY <1>1

\* Where no rating is above three, their sum is at most three for each.
LEMMA JumlahTerbatas ==
  ASSUME NEW P, IsFiniteSet(P), NEW k, NEW d,
         \A i \in P : baris[i].jawaban[k][d] \in 0..3
  PROVE  JumlahDimensi(d, k, P) \in 0..(3 * Cardinality(P))
<1>. DEFINE N == Cardinality(P)
            c == CHOOSE e : Berlipat(k, d, SUBSET P, e)
<1>1. N \in Nat
  BY FS_CardinalityType
<1>2. Sekecil(P, N) = SUBSET P
  BY FS_Subset DEF Sekecil
<1>3. Berlipat(k, d, SUBSET P, c)
  <2>1. \E e : Berlipat(k, d, SUBSET P, e)
    <3>1. \E e : Berlipat(k, d, Sekecil(P, N), e)
      BY <1>1, AdaLipatan
    <3>. QED  BY <1>2, <3>1
  <2>. QED  BY <2>1, Zenon
<1>4. JumlahDimensi(d, k, P) = c[P]
  BY DEF JumlahDimensi, MapThenSumSet, MapThenFoldSet, Berlipat, Pilih
<1>. HIDE DEF c
<1>5. \A s \in SUBSET P :
        c[s] = IF s = {} THEN 0 ELSE baris[Pilih(s)].jawaban[k][d] + c[s \ {Pilih(s)}]
  BY <1>3 DEF Berlipat
<1>. DEFINE Baik(n) == \A s \in Sekecil(P, n) : c[s] \in 0..(3 * Cardinality(s))
<1>0. c[{}] \in 0..(3 * Cardinality({}))
  <2>1. c[{}] = 0
    BY <1>5
  <2>2. Cardinality({}) = 0
    BY FS_EmptySet
  <2>. QED  BY <2>1, <2>2
<1>6. Baik(0)
  <2>1. \A s \in Sekecil(P, 0) : s = {} /\ s \in SUBSET P
    BY SatuDiambil DEF Sekecil
  <2>. QED  BY <1>0, <2>1
<1>7. ASSUME NEW n \in Nat, n # 0, Baik(n - 1) PROVE Baik(n)
  <2>. SUFFICES ASSUME NEW s \in Sekecil(P, n) PROVE c[s] \in 0..(3 * Cardinality(s))
    OBVIOUS
  <2>1. s \in SUBSET P
    BY DEF Sekecil
  <2>2. CASE s = {}
    BY <1>0, <2>2
  <2>3. CASE s # {}
    <3>. DEFINE t == s \ {Pilih(s)}
    <3>1. /\ Pilih(s) \in s /\ t \in Sekecil(P, n - 1)
          /\ Cardinality(s) = Cardinality(t) + 1 /\ Cardinality(t) \in Nat
      BY <2>3, SatuDiambil
    <3>2. c[s] = baris[Pilih(s)].jawaban[k][d] + c[t] /\ baris[Pilih(s)].jawaban[k][d] \in 0..3
      BY <1>5, <2>1, <2>3, <3>1
    <3>3. c[t] \in 0..(3 * Cardinality(t))
      BY <1>7, <3>1
    <3>. HIDE DEF t
    <3>. QED  BY <3>1, <3>2, <3>3
  <2>. QED  BY <2>2, <2>3
<1>8. ASSUME {n \in Nat : ~Baik(n)} # {} PROVE FALSE
  <2>. DEFINE S == {n \in Nat : ~Baik(n)}
  <2>. HIDE DEF Baik
  <2>1. PICK n \in S : \A j \in S : n <= j
    BY <1>8, Terkecil, S \in SUBSET Nat
  <2>2. n # 0 /\ n - 1 \in Nat /\ n - 1 \notin S
    BY <1>6, <2>1
  <2>. QED  BY <1>7, <2>1, <2>2
<1>9. Baik(N)
  <2>. HIDE DEF Baik
  <2>. QED  BY <1>1, <1>8
<1>. QED  BY <1>2, <1>4, <1>9

\* With nothing written on a stale read, the results rest on everybody.
LEMMA HasilBerdasar ==
  ASSUME IndInv, tumpang = {}, HasilTersedia
  PROVE  /\ Cardinality({baris[i].orang : i \in Terkirim}) >= sesi.min
         /\ \A k \in sesi.task : HasilSesi[k].n = Cardinality(Terkirim)
         /\ \A k \in sesi.task : HasilSesi[k].selection => HasilSesi[k].nSelection > 0
<1>1. TypeOK /\ CukupResponden
  BY DEF IndInv, AnalisisCukup
<1>2. IsFiniteSet(Terkirim)
  <2>1. IsFiniteSet(1..Len(baris)) /\ Terkirim \in SUBSET (1..Len(baris))
    BY <1>1, Baris, FS_Interval DEF Terkirim, Responden
  <2>. QED  BY <2>1, FS_Subset
<1>3. \A i \in Terkirim : Lengkapnya(i) = sesi.task
  BY DEF IndInv, KirimanLengkap, BolehKirim, SemuaDimensi, TaskPersis
<1>4. Cardinality({baris[i].orang : i \in Terkirim}) = Cardinality(Terkirim)
  <2>. DEFINE T == {baris[i].orang : i \in Terkirim}
              f == [i \in Terkirim |-> baris[i].orang]
  <2>1. \A i, j \in Terkirim : baris[i].orang = baris[j].orang => i = j
    BY DEF IndInv, OrangTunggal, Terkirim
  <2>2. f \in [Terkirim -> T] /\ \A i, j \in Terkirim : f[i] = f[j] => i = j
    BY <2>1
  <2>3. \A t \in T : \E i \in Terkirim : f[i] = t
    OBVIOUS
  <2>. HIDE DEF f, T
  <2>4. f \in Bijection(Terkirim, T)
    BY <2>2, <2>3 DEF Bijection, Injection, Surjection, IsInjective
  <2>5. ExistsBijection(Terkirim, T)
    BY <2>4 DEF ExistsBijection
  <2>6. Cardinality(T) = Cardinality(Terkirim)
    BY <1>2, <2>5, FS_Bijection
  <2>. QED  BY <2>6 DEF T
<1>5. Cardinality({baris[i].orang : i \in Terkirim}) >= sesi.min
  BY <1>1, <1>4 DEF CukupResponden
<1>6. ASSUME NEW k \in sesi.task
      PROVE  /\ HasilSesi[k].n = Cardinality(Terkirim)
             /\ HasilSesi[k].selection => HasilSesi[k].nSelection > 0
  <2>1. {i \in Terkirim : k \in Lengkapnya(i)} = Terkirim
    BY <1>3
  <2>. DEFINE P == {i \in Terkirim : k \in Lengkapnya(i)}
              n == Cardinality(P)
              E == {i \in P : SelectionEssential(baris[i].jawaban[k], 1)}
              jumlah == [d \in 1..3 |-> JumlahDimensi(d, k, P)]
  <2>2. HasilSesi[k] = HasilTask(k)
    BY DEF HasilSesi
  <2>3. HasilTask(k).n = n /\ HasilTask(k).nSelection = Cardinality(E)
        /\ (HasilTask(k).selection <=> n > 0 /\ SelectionEssential(jumlah, n))
    BY DEF HasilTask
  <2>4. ASSUME n > 0, SelectionEssential(jumlah, n) PROVE Cardinality(E) > 0
    <3>1. E \in SUBSET Terkirim /\ P = Terkirim /\ n = Cardinality(Terkirim) /\ n \in Nat
      BY <1>2, <2>1, FS_CardinalityType
    <3>. HIDE DEF P, n, E
    <3>2. IsFiniteSet(E) /\ Cardinality(E) \in Nat
      BY <1>2, <3>1, FS_Subset, FS_CardinalityType
    <3>3. \A i \in P : baris[i].jawaban[k] \in (1..5) \X (1..5) \X (1..5)
      <4>1. \A i \in P : baris[i].jawaban[k] \in Nilai
        BY <1>3, <3>1 DEF Lengkapnya
      <4>. QED  BY <4>1, OpmAssumption
    <3>4. ASSUME E = {} PROVE FALSE
      <4>1. ASSUME NEW i \in P, NEW d \in {1, 3} PROVE baris[i].jawaban[k][d] \in 0..3
        <5>1. ~SelectionEssential(baris[i].jawaban[k], 1)
          BY <3>4 DEF E
        <5>. DEFINE v == baris[i].jawaban[k]
        <5>2. v \in (1..5) \X (1..5) \X (1..5) /\ ~SelectionEssential(v, 1)
          BY <3>3, <5>1
        <5>. HIDE DEF v
        <5>3. v[1] \in 1..5 /\ v[3] \in 1..5 /\ ~(v[1] >= 4 * 1) /\ ~(v[3] >= 4 * 1)
          BY <5>2 DEF SelectionEssential
        <5>4. v[d] \in 0..3
          BY <5>3
        <5>. QED  BY <5>4 DEF v
      <4>2. IsFiniteSet(P)
        BY <1>2, <3>1
      <4>3. \A d \in {1, 3} : JumlahDimensi(d, k, P) \in 0..(3 * Cardinality(P))
        BY <4>1, <4>2, JumlahTerbatas
      <4>4. jumlah[1] \in 0..(3 * n) /\ jumlah[3] \in 0..(3 * n)
        BY <4>3 DEF n
      <4>. HIDE DEF jumlah
      <4>. QED  BY <2>4, <3>1, <4>4 DEF SelectionEssential
    <3>. QED  BY <3>2, <3>4, FS_EmptySet
  <2>. HIDE DEF E, jumlah
  <2>. QED  BY <2>1, <2>2, <2>3, <2>4
<1>. QED  BY <1>5, <1>6

\* A session is analysed on the submitted ratings of as many different people
\* as it asks for, each of which rated every task (run_analisis,
\* compute_hasil_sesi, _validate_complete).
THEOREM AnalisisPunyaDasar == Spec => []AnalisisBerdasar
<1>1. IndInv => AnalisisBerdasar
  BY HasilBerdasar DEF AnalisisBerdasar, IndInv, AnalisisCukup
<1>. QED  BY <1>1, Invarian, PTL

\* The snapshot of the chosen tasks, in the session or in its register, does
\* not change with the source (SqlOpmSesiService.create).
THEOREM SnapshotBertahan == Spec => SnapshotTetap
<1>. DEFINE A == /\ sesi'.id # sesi.id =>
                      sesi'.task \cup TakCocok' = himpunan /\ sesi'.task \cap TakCocok' = {}
                 /\ sesi'.id = sesi.id /\ sesi'.status # Tiada =>
                      sesi'.task = sesi.task /\ TakCocok' = TakCocok
<1>1. ASSUME IndInv, [Next]_vars PROVE [A]_vars
  <2>1. CASE UNCHANGED vars
    BY <2>1
  <2>2. ASSUME UNCHANGED <<sesi, register>> PROVE A
    BY <2>2 DEF TakCocok
  <2>3. CASE SumberBerubah
    BY <2>2, <2>3 DEF SumberBerubah
  <2>4. ASSUME NEW min \in Batas, NEW max \in Batas, NEW kat \in Katalog, Buat(kat, min, max)
        PROVE  A
    <3>1. himpunan \in SUBSET Kode /\ sesi.id \in Nat /\ kat \in Katalog
      BY <1>1 DEF IndInv, TypeOK, BarisSesi
    <3>2. /\ sesi'.id = sesi.id + 1 /\ sesi'.task = {k \in himpunan : kat[k] # "tiada"}
          /\ register' = Tercatat(kat)
      BY <2>4 DEF Buat, SesiBaru
    <3>3. TakCocok' = {k \in himpunan : kat[k] = "tiada"}
      BY <3>1, <3>2 DEF TakCocok, Tercatat
    <3>. QED  BY <3>1, <3>2, <3>3
  <2>5. ASSUME NEW p \in Proses, Tulis(p) PROVE A
    <3>. DEFINE R == rencana[p]
    <3>1. R \in Rencana /\ R.aktif /\ RencanaSah(R) /\ Tertulislah(R)
      BY <1>1, <2>5, Menulis
    <3>. HIDE DEF R
    <3>2. CASE Dihapus(R)
      BY <1>1, <3>1, <3>2, SesiTertulis
    <3>3. CASE ~Dihapus(R)
      <4>1. /\ sesi'.id = sesi.id /\ sesi'.task = sesi.task
            /\ register' = register \cup {<<k, "OPM_RATING_MISSING">> : k \in R.catat}
        BY <1>1, <3>1, <3>3, SesiTertulis
      <4>2. TakCocok' = TakCocok
        BY <4>1 DEF TakCocok
      <4>. QED  BY <4>1, <4>2
    <3>. QED  BY <3>2, <3>3
  <2>6. ASSUME NEW p \in Proses, NEW baca, NEW tulis, NEW isi, Rencanakan(p, baca, tulis, isi)
        PROVE  A
    BY <2>2, <2>6 DEF Rencanakan
  <2>7. ASSUME NEW p \in Proses, Gagal(p) PROVE A
    BY <2>2, <2>7 DEF Gagal
  <2>. HIDE DEF A
  <2>. QED
    BY <1>1, <2>1, <2>3, <2>4, <2>5, <2>6, <2>7
       DEF Next, UbahSesi, BukaSesi, TutupSesi, Beralih, Analisis, HapusSesi, DaftarkanBanyak,
           Daftarkan, Alihkan, HapusResponden, SimpanDraf, KirimJawaban
<1>. QED  BY <1>1, Invarian, PTL DEF Spec, SnapshotTetap

-------------------------------------------------------------------------------
(* The promise of a questionnaire, step by step.                             *)

Isian(i) == [k \in Dijawab(i) |-> baris[i].jawaban[k]]
Kiriman == [i \in 1..MaksBaris |-> IF i \in Terkirim \ tumpang THEN Isian(i) ELSE Tiada]
Lepas == tumpang \cap 1..MaksBaris

LEMMA BarisLain ==
  ASSUME IndInv, NEW R \in Rencana, R.aktif, RencanaSah(R), Tertulislah(R), ~Dihapus(R),
         NEW i, i \notin R.tulis
  PROVE  /\ i \in Terkirim' <=> i \in Terkirim
         /\ i \in Terkirim => Isian(i)' = Isian(i)
         /\ i \in tumpang' <=> i \in tumpang
<1>1. i \in tumpang' <=> i \in tumpang
  BY DEF Tertulislah
<1>2. CASE i \in DOMAIN baris
  <2>1. /\ i \in DOMAIN baris'
        /\ baris'[i].ada <=> baris[i].ada
        /\ baris'[i].ada => /\ baris'[i].kirim = baris[i].kirim
                            /\ baris'[i].jawaban = baris[i].jawaban
    BY <1>2, Ditulis DEF Tertulislah
  <2>. QED  BY <1>1, <1>2, <2>1 DEF Terkirim, Responden, Isian, Dijawab
<1>3. CASE i \notin DOMAIN baris
  <2>1. i \notin Terkirim /\ i \notin Terkirim'
    BY <1>3 DEF Terkirim, Responden, Tertulislah
  <2>. QED  BY <1>1, <2>1
<1>. QED  BY <1>2, <1>3

LEMMA LangkahJanjiTulis ==
  ASSUME IndInv, NEW R \in Rencana, R.aktif, RencanaSah(R), Tertulislah(R)
  PROVE  [Kuesioner!KuesionerNext]_(Kuesioner!kuesioner)
<1>. USE DEF Kuesioner!KuesionerNext, Kuesioner!kuesioner
<1>1. /\ R.tulis \subseteq Obyek /\ Sesi # Daftar
      /\ Sesi \notin 1..MaksBaris /\ Daftar \notin 1..MaksBaris
      /\ DOMAIN baris \subseteq 1..MaksBaris /\ sesi.task \in SUBSET Kode
  BY Baris, OpmAssumption DEF IndInv, TypeOK, BarisSesi, Sesi, Daftar, Rencana
<1>2. CASE Dihapus(R)
  <2>1. /\ MenghapusSesi(R) /\ sesi'.task = {} /\ sesi'.status = Tiada
    BY <1>2, SesiTertulis
  <2>2. Lepas' = Lepas
    BY <1>1, <2>1 DEF Lepas, Tertulislah, MenghapusSesi
  <2>3. Terkirim' = {}
    <3>1. R.tambah = <<>>
      BY <2>1 DEF MenghapusSesi, TanpaOrang
    <3>2. \A i \in DOMAIN baris' : i \in DOMAIN baris
      BY <3>1, Baris DEF Tertulislah, IndInv
    <3>. QED  BY <1>2, <3>2 DEF Terkirim, Responden, Tertulislah, Terhapus, Dihapus
  <2>4. Kuesioner!HapusSemua
    BY <2>1, <2>2, <2>3, Bukan DEF Kuesioner!HapusSemua, Kuesioner!BelumAda, Lepas, Status
  <2>. QED  BY <2>4
<1>3. ASSUME ~Dihapus(R), R.tulis \cap 1..MaksBaris = {}
      PROVE  Kiriman' = Kiriman /\ Lepas' = Lepas
  <2>1. Lepas' = Lepas
    BY <1>3 DEF Lepas, Tertulislah
  <2>2. \A i \in 1..MaksBaris :
          /\ i \in Terkirim' <=> i \in Terkirim
          /\ i \in Terkirim => Isian(i)' = Isian(i)
          /\ i \in tumpang' <=> i \in tumpang
    BY <1>3, BarisLain
  <2>. QED  BY <2>1, <2>2 DEF Kiriman
<1>4. CASE MengubahSesi(R)
  <2>1. ~Dihapus(R) /\ R.tulis \cap 1..MaksBaris = {} /\ sesi'.task = sesi.task
    BY <1>1, <1>4, SesiTertulis DEF MengubahSesi
  <2>2. Kiriman' = Kiriman /\ Lepas' = Lepas
    BY <1>3, <2>1
  <2>3. CASE (sesi'.status = "OPEN") = (sesi.status = "OPEN")
    BY <2>1, <2>2, <2>3 DEF Kiriman, Lepas, Isian
  <2>4. CASE (sesi'.status = "OPEN") # (sesi.status = "OPEN")
    <3>1. Kuesioner!BukaTutup
      BY <2>1, <2>2, <2>4 DEF Kiriman, Lepas, Isian, Kuesioner!BukaTutup
    <3>. QED  BY <3>1
  <2>. QED  BY <2>3, <2>4
<1>5. ASSUME ~Dihapus(R), ~MengubahSesi(R), Kiriman' = Kiriman, Lepas' = Lepas
      PROVE  UNCHANGED Kuesioner!kuesioner
  <2>1. sesi' = sesi
    BY <1>5, SesiTertulis
  <2>. QED  BY <1>5, <2>1 DEF Kiriman, Lepas, Isian
<1>6. CASE /\ ~Dihapus(R) /\ ~MengubahSesi(R)
           /\ MenghapusSesi(R) \/ Mendaftarkan(R) \/ Mengalihkan(R)
  <2>1. R.tulis \cap 1..MaksBaris = {}
    BY <1>1, <1>6 DEF MenghapusSesi, Mendaftarkan, Mengalihkan
  <2>. QED  BY <1>3, <1>5, <1>6, <2>1
<1>7. CASE MenghapusResponden(R) \/ MenulisJawaban(R)
  <2>. DEFINE r == R.r
  <2>1. /\ r \in DOMAIN baris /\ r \in 1..MaksBaris /\ r # Sesi /\ r # Daftar
        /\ R.tulis \cap 1..MaksBaris = {r} /\ Sesi \notin R.tulis
    <3>1. r \in DOMAIN baris /\ (R.tulis = {r} \/ R.tulis = {r, Daftar})
      BY <1>7 DEF MenghapusResponden, MenulisJawaban
    <3>. HIDE DEF r
    <3>. QED  BY <1>1, <3>1
  <2>2. ~Dihapus(R) /\ ~MengubahSesi(R) /\ sesi' = sesi
    BY <2>1, Ditulis DEF MengubahSesi
  <2>. HIDE DEF r
  <2>3. \A i \in 1..MaksBaris \ {r} :
          /\ i \in Terkirim' <=> i \in Terkirim
          /\ i \in Terkirim => Isian(i)' = Isian(i)
          /\ i \in tumpang' <=> i \in tumpang
    <3>. SUFFICES ASSUME NEW i \in 1..MaksBaris \ {r}
                  PROVE  /\ i \in Terkirim' <=> i \in Terkirim
                         /\ i \in Terkirim => Isian(i)' = Isian(i)
                         /\ i \in tumpang' <=> i \in tumpang
      OBVIOUS
    <3>1. i \notin R.tulis
      BY <2>1
    <3>. QED  BY <2>2, <3>1, BarisLain
  <2>4. CASE R.basi
    <3>1. r \in tumpang'
      BY <2>1, <2>4 DEF Tertulislah
    <3>2. Lepas' = Lepas \cup {r}
      BY <2>1, <2>4 DEF Lepas, Tertulislah
    <3>3. Kiriman' = [i \in 1..MaksBaris |-> IF i \in {r} THEN Tiada ELSE Kiriman[i]]
      BY <2>3, <3>1 DEF Kiriman
    <3>4. Kuesioner!Lepaskan({r})
      BY <1>1, <2>2, <3>2, <3>3 DEF Kiriman, Lepas, Isian, Kuesioner!Lepaskan
    <3>5. {r} \in SUBSET (1..MaksBaris)
      BY <2>1
    <3>. QED  BY <3>4, <3>5
  <2>5. CASE ~R.basi
    <3>1. tumpang' = tumpang /\ Lepas' = Lepas
      BY <2>5 DEF Tertulislah, Lepas
    <3>2. ~baris[r].kirim /\ r \notin Terkirim
      <4>1. ~baris[r].kirim
        BY <1>7, <2>5 DEF r, MenghapusResponden, MenulisJawaban, Segar, Terkirim, Responden
      <4>. QED  BY <4>1 DEF Terkirim
    <3>3. CASE r \notin Terkirim' \ tumpang
      <4>1. Kiriman' = Kiriman
        BY <2>3, <3>1, <3>2, <3>3 DEF Kiriman
      <4>. QED  BY <1>5, <2>2, <3>1, <4>1
    <3>4. CASE r \in Terkirim' \ tumpang
      <4>1. baris'[r].ada /\ baris'[r].kirim
        BY <3>4 DEF Terkirim, Responden
      <4>2. R.kirim
        BY <2>1, <3>2, <4>1 DEF Tertulislah
      <4>3. MenulisJawaban(R)
        BY <1>7, <4>2 DEF MenghapusResponden, TanpaJawaban
      <4>4. /\ R.sisip = {} /\ R.ubah = {} /\ sesi.status = "OPEN" /\ BolehKirim(r)
        BY <2>5, <4>2, <4>3 DEF MenulisJawaban, Segar, r
      <4>5. baris'[r].jawaban = baris[r].jawaban
        BY <2>1, <4>1, <4>4 DEF Tertulislah
      <4>6. Isian(r)' = Isian(r) /\ Isian(r) \in [sesi.task -> Nilai]
        BY <4>4, <4>5 DEF Isian, Dijawab, Lengkapnya, BolehKirim, SemuaDimensi, TaskPersis
      <4>7. Kiriman' = [Kiriman EXCEPT ![r] = Isian(r)]
        BY <2>1, <2>3, <3>1, <3>4, <4>6 DEF Kiriman
      <4>8. Kiriman[r] = Tiada /\ r \notin Lepas
        BY <2>1, <3>2, <3>4 DEF Kiriman, Lepas
      <4>9. PICK f \in [sesi.task -> Nilai] : Kiriman' = [Kiriman EXCEPT ![r] = f]
        BY <4>6, <4>7
      <4>10. Kuesioner!Kirimkan(r, f)
        BY <2>2, <3>1, <4>4, <4>8, <4>9 DEF Kuesioner!Kirimkan, Kiriman, Lepas, Isian
      <4>. QED  BY <2>1, <4>10
    <3>. QED  BY <3>3, <3>4
  <2>. QED  BY <2>4, <2>5
<1>8. \/ Dihapus(R) \/ MengubahSesi(R)
      \/ /\ ~Dihapus(R) /\ ~MengubahSesi(R)
         /\ MenghapusSesi(R) \/ Mendaftarkan(R) \/ Mengalihkan(R)
      \/ MenghapusResponden(R) \/ MenulisJawaban(R)
  BY DEF RencanaSah
<1>. HIDE DEF Kuesioner!KuesionerNext, Kuesioner!kuesioner
<1>. QED  BY <1>2, <1>4, <1>6, <1>7, <1>8

LEMMA LangkahJanji ==
  ASSUME IndInv, [Next]_vars
  PROVE  [Kuesioner!KuesionerNext]_(Kuesioner!kuesioner)
<1>1. ASSUME UNCHANGED <<sesi, baris, tumpang>> PROVE UNCHANGED Kuesioner!kuesioner
  BY <1>1 DEF Kuesioner!kuesioner, Terkirim, Responden, Dijawab
<1>2. ASSUME NEW min \in Batas, NEW max \in Batas, NEW kat \in Katalog, Buat(kat, min, max)
      PROVE  \E S \in SUBSET Kode : Kuesioner!Susun(S)
  <2>1. Responden = {} /\ sesi.status = Tiada /\ himpunan \in SUBSET Kode
    BY <1>2 DEF IndInv, TypeOK, SesiSah, Buat, BolehDibuat
  <2>2. Terkirim = {}
    BY <2>1 DEF Terkirim
  <2>3. Terkirim' = {}
    <3>1. \A i \in DOMAIN baris : ~baris[i].ada
      BY <2>1 DEF Responden
    <3>2. PICK u \in SetToSeqs(pengirim) : baris' = baris \o RespondenBaru(u)
      BY <1>2 DEF Buat
    <3>3. u \in Seq(Orang) /\ baris \in Seq(BarisResponden)
      BY UrutanSah DEF IndInv, TypeOK
    <3>. DEFINE B == baris \o RespondenBaru(u)
    <3>4. /\ \A i \in DOMAIN baris : B[i] = baris[i]
          /\ \A i \in DOMAIN B \ DOMAIN baris : ~B[i].kirim
      BY <3>3, Ditambah
    <3>5. baris' = B
      BY <3>2
    <3>. HIDE DEF B
    <3>. QED  BY <3>1, <3>4, <3>5 DEF Terkirim, Responden
  <2>4. /\ sesi'.task = {k \in himpunan : kat[k] # "tiada"} /\ sesi'.status = "DRAFT"
        /\ tumpang' = tumpang \ {Sesi, Daftar}
    BY <1>2 DEF Buat, SesiBaru
  <2>5. Lepas' = Lepas
    BY <2>4, OpmAssumption DEF Lepas, Sesi, Daftar
  <2>6. sesi'.task \in SUBSET Kode
    BY <2>1, <2>4
  <2>7. Kuesioner!Susun(sesi'.task)
    BY <2>1, <2>2, <2>3, <2>4, <2>5, Bukan
       DEF Kuesioner!Susun, Kuesioner!BelumAda, Lepas, Status
  <2>. QED  BY <2>6, <2>7
<1>3. ASSUME NEW p \in Proses, Tulis(p) PROVE [Kuesioner!KuesionerNext]_(Kuesioner!kuesioner)
  BY <1>3, Menulis, LangkahJanjiTulis
<1>4. ASSUME NEW p \in Proses, NEW baca, NEW tulis, NEW isi, Rencanakan(p, baca, tulis, isi)
      PROVE  UNCHANGED Kuesioner!kuesioner
  BY <1>1, <1>4 DEF Rencanakan
<1>5. ASSUME SumberBerubah \/ UNCHANGED vars \/ \E p \in Proses : Gagal(p)
      PROVE  UNCHANGED Kuesioner!kuesioner
  BY <1>1, <1>5 DEF SumberBerubah, vars, Gagal
<1>. QED
  BY <1>2, <1>3, <1>4, <1>5
     DEF Next, UbahSesi, BukaSesi, TutupSesi, Beralih, Analisis, HapusSesi, DaftarkanBanyak,
         Daftarkan, Alihkan, HapusResponden, SimpanDraf, KirimJawaban, Kuesioner!KuesionerNext

\* Whoever has submitted a questionnaire has answered every question while it
\* was open, once, and what he submitted stands (submit_jawaban,
\* save_draft_jawaban): OPM implements KuesionerSekali.
THEOREM KuesionerDitepati == Spec => JanjiKuesioner
<1>1. Init => Kuesioner!KuesionerInit
  <2>. SUFFICES ASSUME Init PROVE Kuesioner!KuesionerInit
    OBVIOUS
  <2>1. Terkirim = {} /\ sesi.task = {} /\ tumpang = {}
    BY DEF Init, Terkirim, Responden, TanpaSesi
  <2>. QED  BY <2>1 DEF Kuesioner!KuesionerInit, Kuesioner!BelumAda
<1>2. IndInv /\ [Next]_vars => [Kuesioner!KuesionerNext]_(Kuesioner!kuesioner)
  BY LangkahJanji
<1>. QED  BY <1>1, <1>2, Invarian, PTL DEF Spec, JanjiKuesioner, Kuesioner!KuesionerSpec

================================================================================
