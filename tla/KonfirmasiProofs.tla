---------------------------- MODULE KonfirmasiProofs ---------------------------
(***************************************************************************)
(* Confirmations for any number of server threads, persons and problems,   *)
(* any contents, and any number of requests that overlap: the invariant of *)
(* Konfirmasi is inductive.                                                *)
(*                                                                         *)
(* A request that reads only adds a plan, so a reading action has to show  *)
(* that its plan is sound (RencanaSah).  Simpan writes what a plan says:   *)
(* for a pair or a problem the plan does not touch nothing changes; for    *)
(* one it does, either it still knows what it read (Segar), or the object  *)
(* is in tumpang from then on and nothing is claimed of it.                *)
(***************************************************************************)
EXTENDS Konfirmasi, TLAPS, WellFoundedInduction

\* A set of numbers that has a member has a least one.
LEMMA Terkecil ==
  ASSUME NEW S \in SUBSET Nat, S # {}
  PROVE  \E i \in S : \A j \in S : i <= j
<1>1. PICK i \in S : \A j \in S : ~(<<j, i>> \in OpToRel(<, Nat))
  BY NatLessThanWellFounded, WFMin, Zenon
<1>2. \A j \in S : ~(j < i)
  BY <1>1 DEF OpToRel
<1>. QED  BY <1>2

\* The rows and their numbers.
LEMMA Baris ==
  ASSUME TypeOK
  PROVE  /\ Len(konfirmasi) \in Nat /\ DOMAIN konfirmasi = 1..Len(konfirmasi)
         /\ \A b \in DOMAIN konfirmasi : konfirmasi[b] \in BarisKonfirmasi
         /\ Len(masalah) \in Nat /\ DOMAIN masalah = 1..Len(masalah)
         /\ \A m \in DOMAIN masalah : masalah[m] \in BarisMasalah
BY DEF TypeOK

LEMMA TipeDiam == Diam \in Rencana /\ RencanaSah(Diam)
<1>1. Diam \in Rencana
  BY KonfirmasiAssumption DEF Diam, Rencana
<1>2. RencanaSah(Diam)
  BY DEF Diam, RencanaSah, BentukBaris, BentukMasalah, BentukDaftar, DugaanDulu, SegarBaris,
     SegarMasalah, Memasukkan, Mengirim, KirimanBaru
<1>. QED  BY <1>1, <1>2

\* A plan about the objects O that writes nothing yet.
LEMMA TipeUntuk ==
  ASSUME NEW O \in SUBSET Obyek
  PROVE  Untuk(O) \in Rencana
BY TipeDiam DEF Untuk, Rencana

LEMMA Berawal == Init => IndInv
<1>. SUFFICES ASSUME Init PROVE IndInv
  OBVIOUS
<1>1. TypeOK
  BY TipeDiam, KonfirmasiAssumption DEF Init, TypeOK
<1>2. \A p \in Proses : RencanaSah(rencana[p])
  BY TipeDiam DEF Init
<1>. QED
  BY <1>1, <1>2 DEF Init, IndInv, PenilaianSesudahDugaan, RantaiSah, RalatTerkunci, NomorWajar,
     MasalahSah, EfekTerkirim, RegisterSah

\* Where only one plan changes, and to a sound one, all stays sound.
LEMMA RencanaBerganti ==
  ASSUME IndInv, NEW p \in Proses, NEW r \in Rencana, RencanaSah(r),
         rencana' = [rencana EXCEPT ![p] = r], UNCHANGED <<konfirmasi, masalah, tumpang>>
  PROVE  IndInv'
<1>1. TypeOK'
  BY DEF IndInv, TypeOK
<1>2. (\A q \in Proses : RencanaSah(rencana[q]))'
  <2>. SUFFICES ASSUME NEW q \in Proses PROVE RencanaSah(rencana[q])'
    OBVIOUS
  <2>1. RencanaSah(rencana'[q])
    BY DEF IndInv, TypeOK
  <2>. QED
    BY <2>1 DEF RencanaSah, BentukBaris, BentukMasalah, BentukDaftar, DugaanDulu,
       SegarBaris, SegarMasalah, Segar, Memasukkan, Mengirim, KirimanBaru, PasanganBaris,
       Pasangan, AdaLuring, BekukanBila, EskalasiBila
<1>3. (PenilaianSesudahDugaan /\ RantaiSah /\ RalatTerkunci /\ NomorWajar /\ MasalahSah)'
  BY DEF IndInv, PenilaianSesudahDugaan, RantaiSah, RalatTerkunci, NomorWajar, MasalahSah,
     EfekTerkirim, RegisterSah, Pasangan, Milik
<1>. QED  BY <1>1, <1>2, <1>3 DEF IndInv

\* A request that has read changes nothing but its own plan.
LEMMA Membaca ==
  ASSUME IndInv, NEW p \in Proses, NEW r, Mulai(p, r), r \in Rencana, RencanaSah(r)
  PROVE  IndInv'
BY RencanaBerganti DEF Mulai

\* The next number of a context: at most one more than there are problems, and
\* every lower one is taken.
LEMMA NomorSah ==
  ASSUME TypeOK, NomorWajar, RegisterSah, NEW c \in Konteks
  PROVE  /\ NomorBerikut(c) \in Nat \ {0}
         /\ NomorBerikut(c) <= Len(masalah) + 1
         /\ \A i \in 1..(NomorBerikut(c) - 1) :
              \E n \in DOMAIN masalah : masalah[n].konteks = c /\ masalah[n].nomor = i
<1>. DEFINE bebas == {i \in 1..(Len(masalah) + 1) :
                        \A m \in DOMAIN masalah : masalah[m].konteks = c => masalah[m].nomor < i}
<1>1. DOMAIN masalah = 1..Len(masalah) /\ Len(masalah) \in Nat
      /\ \A m \in DOMAIN masalah : masalah[m].nomor \in Nat \ {0}
  BY Baris DEF BarisMasalah
<1>2. Len(masalah) + 1 \in bebas
  BY <1>1 DEF NomorWajar
<1>3. PICK i \in bebas : \A j \in bebas : i <= j
  <2>1. bebas \in SUBSET Nat /\ bebas # {}
    BY <1>1, <1>2
  <2>. HIDE DEF bebas
  <2>. QED  BY <2>1, Terkecil
<1>4. NomorBerikut(c) \in bebas /\ \A j \in bebas : NomorBerikut(c) <= j
  BY <1>3 DEF NomorBerikut
<1>. DEFINE u == NomorBerikut(c)
<1>. HIDE DEF u
<1>5. u \in 1..(Len(masalah) + 1) /\ \A j \in bebas : u <= j
  BY <1>4 DEF u
<1>6. ASSUME NEW j \in 1..(u - 1)
      PROVE  \E n \in DOMAIN masalah : masalah[n].konteks = c /\ masalah[n].nomor = j
  <2>1. j \in 1..(Len(masalah) + 1) /\ j \notin bebas
    BY <1>1, <1>5
  <2>2. PICK m \in DOMAIN masalah : masalah[m].konteks = c /\ ~(masalah[m].nomor < j)
    BY <2>1
  <2>3. masalah[m].nomor = j \/ j \in 1..(masalah[m].nomor - 1)
    BY <2>2, <1>1
  <2>4. CASE j \in 1..(masalah[m].nomor - 1)
    <3>1. PICK n \in 1..(m - 1) : masalah[n].konteks = masalah[m].konteks /\ masalah[n].nomor = j
      BY <2>4 DEF RegisterSah
    <3>. QED  BY <1>1, <2>2, <3>1
  <2>. QED  BY <2>2, <2>3, <2>4
<1>. QED  BY <1>1, <1>5, <1>6 DEF u

LEMMA MasalahBaruSah ==
  ASSUME TypeOK, NomorWajar, RegisterSah, NEW c \in Konteks, NEW s \in Awal,
         NEW b \in 0..MaksKonfirmasi
  PROVE  MasalahBaru(c, s, b) \in BarisMasalah /\ MasalahBaru(c, s, b) # Nihil
<1>1. MasalahBaru(c, s, b) \in BarisMasalah
  BY NomorSah DEF MasalahBaru, BarisMasalah
<1>. QED  BY <1>1, NihilBukanBaris

-------------------------------------------------------------------------------
(* Requests about problems.                                                  *)

LEMMA LangkahBuatMasalah ==
  ASSUME IndInv, NEW p \in Proses, BuatMasalah(p)
  PROVE  IndInv'
<1>1. PICK c \in Konteks, s \in Awal : Mulai(p, [Untuk({}) EXCEPT !.daftar = MasalahBaru(c, s, 0)])
  BY DEF BuatMasalah
<1>. DEFINE d == MasalahBaru(c, s, 0)
            r == [Untuk({}) EXCEPT !.daftar = d]
<1>2. d \in BarisMasalah /\ d # Nihil
  BY MasalahBaruSah, KonfirmasiAssumption DEF IndInv, MasalahSah
<1>3. /\ d.beku = Nihil /\ ~d.eskalasi /\ d.asal = 0 /\ d.konteks = c
      /\ d.nomor = NomorBerikut(c)
  BY DEF MasalahBaru
<1>. HIDE DEF d
<1>4. r \in Rencana
  BY <1>2, TipeUntuk DEF Rencana
<1>5. /\ r.obyek = {} /\ r.k = 0 /\ ~r.kirim /\ r.m = 0 /\ r.beku = Nihil /\ ~r.eskalasi
      /\ r.baris = Nihil /\ r.daftar = d
  BY DEF Untuk, Diam
<1>6. BentukDaftar(r)
  BY <1>2, <1>3, <1>5, NomorSah DEF BentukDaftar, IndInv, MasalahSah
<1>. HIDE DEF r
<1>7. RencanaSah(r)
  BY <1>3, <1>5, <1>6 DEF RencanaSah, BentukBaris, BentukMasalah, DugaanDulu, SegarBaris, SegarMasalah,
     Memasukkan, Mengirim, KirimanBaru
<1>8. Mulai(p, r)
  BY <1>1 DEF r, d
<1>. QED  BY <1>4, <1>7, <1>8, Membaca

\* A change of a problem alone; w is what it reads the problem to have.
LEMMA RencanaMasalah ==
  ASSUME IndInv, NEW m \in DOMAIN masalah, NEW r,
         r.obyek = {<<m, Tim>>}, r.k = 0, ~r.kirim, r.m = m, r.beku = Nihil, ~r.eskalasi,
         r.baris = Nihil, r.daftar = Nihil,
         r.awal # Nihil => masalah[m].beku = Nihil
  PROVE  RencanaSah(r)
BY DEF RencanaSah, BentukBaris, BentukMasalah, BentukDaftar, DugaanDulu, SegarBaris, SegarMasalah,
   Memasukkan, Mengirim, KirimanBaru

LEMMA ObyekMasalah ==
  ASSUME TypeOK, NEW m \in DOMAIN masalah
  PROVE  /\ m \in 0..MaksMasalah /\ m # 0 /\ <<m, Tim>> \in Obyek
         /\ masalah[m] \in BarisMasalah
         /\ Untuk({<<m, Tim>>}) \in Rencana
<1>1. m \in 1..MaksMasalah /\ MaksMasalah \in Nat
  BY Baris, KonfirmasiAssumption DEF TypeOK
<1>2. <<m, Tim>> \in Obyek
  BY <1>1 DEF Obyek
<1>. QED  BY <1>1, <1>2, Baris, TipeUntuk

LEMMA LangkahUbahMasalah ==
  ASSUME IndInv, NEW p \in Proses, UbahMasalah(p)
  PROVE  IndInv'
<1>1. PICK m \in DOMAIN masalah : \E s \in Awal \ {masalah[m].awal} :
        /\ masalah[m].beku = Nihil
        /\ Mulai(p, [Untuk({<<m, Tim>>}) EXCEPT !.m = m, !.awal = s])
  BY DEF UbahMasalah
<1>2. PICK s \in Awal : /\ masalah[m].beku = Nihil
                        /\ Mulai(p, [Untuk({<<m, Tim>>}) EXCEPT !.m = m, !.awal = s])
  BY <1>1
<1>. DEFINE r == [Untuk({<<m, Tim>>}) EXCEPT !.m = m, !.awal = s]
<1>3. r \in Rencana
  <2>1. m \in 0..MaksMasalah /\ Untuk({<<m, Tim>>}) \in Rencana
    BY ObyekMasalah DEF IndInv
  <2>. QED  BY <2>1 DEF Rencana
<1>4. RencanaSah(r)
  BY <1>2, RencanaMasalah DEF Untuk, Diam
<1>. QED  BY <1>2, <1>3, <1>4, Membaca

LEMMA LangkahStatusKonfirmasi ==
  ASSUME IndInv, NEW p \in Proses, StatusKonfirmasiMasalah(p)
  PROVE  IndInv'
<1>1. PICK m \in DOMAIN masalah, d \in BOOLEAN :
        Mulai(p, [Untuk({<<m, Tim>>}) EXCEPT !.m = m, !.dibuka = d])
  <2>. \A m \in DOMAIN masalah : (~masalah[m].dibuka) \in BOOLEAN
    OBVIOUS
  <2>. QED  BY Zenon DEF StatusKonfirmasiMasalah, SetStatusKonfirmasi
<1>. DEFINE r == [Untuk({<<m, Tim>>}) EXCEPT !.m = m, !.dibuka = d]
<1>2. r \in Rencana
  <2>1. m \in 0..MaksMasalah /\ Untuk({<<m, Tim>>}) \in Rencana
    BY ObyekMasalah DEF IndInv
  <2>. QED  BY <2>1 DEF Rencana
<1>3. RencanaSah(r)
  BY RencanaMasalah DEF Untuk, Diam
<1>. QED  BY <1>1, <1>2, <1>3, Membaca

-------------------------------------------------------------------------------
(* Requests about a person's confirmation.                                   *)

LEMMA ObyekBaris ==
  ASSUME TypeOK, NEW b \in DOMAIN konfirmasi
  PROVE  /\ b \in 0..MaksKonfirmasi /\ b # 0
         /\ konfirmasi[b] \in BarisKonfirmasi
         /\ konfirmasi[b].masalah \in DOMAIN masalah
         /\ Pasangan(b) \in Obyek
         /\ UntukBaris(b) \in Rencana
<1>1. b \in 0..MaksKonfirmasi /\ b # 0 /\ konfirmasi[b] \in BarisKonfirmasi
  BY Baris, KonfirmasiAssumption DEF TypeOK
<1>2. konfirmasi[b].masalah \in DOMAIN masalah
  BY <1>1, Baris, KonfirmasiAssumption DEF TypeOK, BarisKonfirmasi
<1>3. Pasangan(b) \in Obyek
  BY <1>1 DEF Pasangan, Obyek, BarisKonfirmasi
<1>4. Untuk({Pasangan(b)}) \in Rencana
  BY <1>3, TipeUntuk
<1>5. UntukBaris(b) \in Rencana
  BY <1>1, <1>4 DEF UntukBaris, Pasangan, Rencana
<1>. QED  BY <1>1, <1>2, <1>3, <1>5

\* A change of confirmation b alone.
LEMMA RencanaUbah ==
  ASSUME IndInv, NEW b \in DOMAIN konfirmasi, NEW r,
         r.obyek = {Pasangan(b)}, r.k = b, ~r.kirim, r.m = 0, r.beku = Nihil, ~r.eskalasi,
         r.baris = Nihil, r.daftar = Nihil,
         r.tampil => konfirmasi[b].kunci,
         r.isi # Nihil => konfirmasi[b].tampil,
         r.cerita # Nihil => konfirmasi[b].status = "draf" /\ ~konfirmasi[b].kunci,
         r.isi # Nihil \/ r.kunci => konfirmasi[b].status = "draf"
  PROVE  RencanaSah(r)
BY DEF RencanaSah, BentukBaris, BentukMasalah, BentukDaftar, DugaanDulu, SegarBaris, SegarMasalah,
   Memasukkan, Mengirim, KirimanBaru

LEMMA LangkahUbah ==
  ASSUME IndInv, NEW p \in Proses, UpdateKonfirmasi(p)
  PROVE  IndInv'
<1>1. PICK o \in Orang, b \in DOMAIN konfirmasi :
        \E c \in (Cerita \cup {Nihil}) \ {konfirmasi[b].cerita},
           i \in (Isi \cup {Nihil}) \ {konfirmasi[b].isi} :
          <<c, i>> # <<Nihil, Nihil>> /\ Ubah(p, b, o, c, i)
  BY DEF UpdateKonfirmasi
<1>2. PICK c \in Cerita \cup {Nihil}, i \in Isi \cup {Nihil} : Ubah(p, b, o, c, i)
  BY <1>1
<1>. DEFINE r == [UntukBaris(b) EXCEPT !.cerita = c, !.isi = i]
<1>3. r \in Rencana
  <2>1. UntukBaris(b) \in Rencana
    BY ObyekBaris DEF IndInv
  <2>. QED  BY <2>1 DEF Rencana
<1>4. RencanaSah(r)
  BY <1>2, RencanaUbah DEF Ubah, DrafMiliknya, UntukBaris, Untuk, Diam, Pasangan
<1>. QED  BY <1>2, <1>3, <1>4, Membaca DEF Ubah

LEMMA LangkahKunciCerita ==
  ASSUME IndInv, NEW p \in Proses, KunciCeritaSaya(p)
  PROVE  IndInv'
<1>1. PICK o \in Orang, b \in DOMAIN konfirmasi : KunciCerita(p, b, o)
  BY DEF KunciCeritaSaya
<1>. DEFINE r == [UntukBaris(b) EXCEPT !.kunci = TRUE]
<1>2. r \in Rencana
  <2>1. UntukBaris(b) \in Rencana
    BY ObyekBaris DEF IndInv
  <2>. QED  BY <2>1 DEF Rencana
<1>3. RencanaSah(r)
  BY <1>1, RencanaUbah DEF KunciCerita, DrafMiliknya, UntukBaris, Untuk, Diam, Pasangan
<1>. QED  BY <1>1, <1>2, <1>3, Membaca DEF KunciCerita

LEMMA LangkahTampilkanDugaan ==
  ASSUME IndInv, NEW p \in Proses, TampilkanDugaanSaya(p)
  PROVE  IndInv'
<1>1. PICK o \in Orang, b \in DOMAIN konfirmasi : TampilkanDugaan(p, b, o)
  BY DEF TampilkanDugaanSaya
<1>. DEFINE r == [UntukBaris(b) EXCEPT !.tampil = TRUE]
<1>2. r \in Rencana
  <2>1. UntukBaris(b) \in Rencana
    BY ObyekBaris DEF IndInv
  <2>. QED  BY <2>1 DEF Rencana
<1>3. RencanaSah(r)
  BY <1>1, RencanaUbah DEF TampilkanDugaan, UntukBaris, Untuk, Diam, Pasangan
<1>. QED  BY <1>1, <1>2, <1>3, Membaca DEF TampilkanDugaan

\* What is sent about problem m: the status to freeze and the stamp.
LEMMA TipeEfek ==
  ASSUME TypeOK, NEW m \in DOMAIN masalah, NEW i
  PROVE  BekukanBila(m) \in Awal \cup {Nihil} /\ EskalasiBila(m, i) \in BOOLEAN
BY Baris DEF BekukanBila, EskalasiBila, BarisMasalah

LEMMA LangkahKirim ==
  ASSUME IndInv, NEW p \in Proses, KirimKonfirmasi(p)
  PROVE  IndInv'
<1>1. PICK o \in Orang, b \in DOMAIN konfirmasi : Kirim(p, b, o)
  BY DEF KirimKonfirmasi
<1>. DEFINE m == konfirmasi[b].masalah
            i == konfirmasi[b].isi
            O == {<<m, o>>, <<m, Tim>>}
            r == [UntukBaris(b) EXCEPT
                    !.obyek = O, !.kirim = TRUE,
                    !.m = m, !.beku = BekukanBila(m), !.eskalasi = EskalasiBila(m, i)]
<1>2. /\ konfirmasi[b].orang = o /\ konfirmasi[b].status = "draf" /\ i \in Lengkap
      /\ Mulai(p, r)
  BY <1>1 DEF Kirim, DrafMiliknya, Miliknya
<1>3. Pasangan(b) = <<m, o>> /\ m \in DOMAIN masalah /\ m # 0
  BY <1>2, ObyekBaris, ObyekMasalah DEF IndInv, Pasangan
<1>4. r \in Rencana
  <2>1. UntukBaris(b) \in Rencana /\ O \in SUBSET Obyek /\ m \in 0..MaksMasalah
    BY <1>3, ObyekBaris, ObyekMasalah DEF IndInv
  <2>2. BekukanBila(m) \in Awal \cup {Nihil} /\ EskalasiBila(m, i) \in BOOLEAN
    BY <1>3, TipeEfek DEF IndInv
  <2>. HIDE DEF m, i, O
  <2>. QED  BY <2>1, <2>2 DEF Rencana
<1>5. /\ r.obyek = O /\ r.k = b /\ r.kirim /\ r.m = m /\ r.beku = BekukanBila(m)
      /\ (r.eskalasi = EskalasiBila(m, i))
      /\ ~r.tampil /\ r.isi = Nihil /\ r.cerita = Nihil /\ ~r.kunci /\ r.awal = Nihil
      /\ r.baris = Nihil /\ r.daftar = Nihil
  BY DEF UntukBaris, Untuk, Diam
<1>6. konfirmasi[b].tampil \/ AdaLuring(Pasangan(b))
  <2>1. i # IsiKosong
    BY <1>2, KonfirmasiAssumption
  <2>2. konfirmasi[b].tampil \/ \E a \in Milik(m, o) : konfirmasi[a].sumber = "luring"
    BY <1>2, <2>1 DEF IndInv, PenilaianSesudahDugaan
  <2>. QED  BY <1>3, <2>2 DEF AdaLuring, Milik, Pasangan
<1>. HIDE DEF r
<1>7. BentukBaris(r) /\ BentukMasalah(r) /\ BentukDaftar(r)
  <2>1. BentukBaris(r)
    <3>1. r.k \in DOMAIN konfirmasi /\ Pasangan(r.k) \in r.obyek
      BY <1>3, <1>5
    <3>2. r.k # 0 /\ r.m = konfirmasi[r.k].masalah /\ r.isi = Nihil /\ ~Memasukkan(r)
      BY <1>5, ObyekBaris DEF Memasukkan, IndInv
    <3>. QED  BY <3>1, <3>2 DEF BentukBaris
  <2>2. BentukMasalah(r)
    BY <1>3, <1>5 DEF BentukMasalah, Memasukkan, Mengirim, KirimanBaru
  <2>. QED  BY <2>1, <2>2, <1>5 DEF BentukDaftar
<1>8. DugaanDulu(r) /\ SegarBaris(r) /\ SegarMasalah(r)
  BY <1>5, <1>6 DEF DugaanDulu, SegarBaris, SegarMasalah, Memasukkan, Mengirim, KirimanBaru
<1>. QED  BY <1>2, <1>4, <1>7, <1>8, Membaca DEF RencanaSah

\* A person's first confirmation, his draft or a paper form, and the draft of a
\* correction: the plan inserts row d.
LEMMA BarisTipe ==
  ASSUME TypeOK, NEW m \in DOMAIN masalah, NEW o \in Orang
  PROVE  <<m, o>> \in Obyek /\ Untuk({<<m, o>>}) \in Rencana /\ m \in 1..MaksMasalah
<1>1. m \in 1..MaksMasalah
  BY Baris, KonfirmasiAssumption DEF TypeOK
<1>2. <<m, o>> \in Obyek
  BY <1>1 DEF Obyek
<1>. QED  BY <1>1, <1>2, TipeUntuk

LEMMA LangkahBuatDraf ==
  ASSUME IndInv, NEW p \in Proses, CreateKonfirmasi(p)
  PROVE  IndInv'
<1>1. PICK o \in Orang, m \in DOMAIN masalah : BuatDraf(p, m, o)
  BY DEF CreateKonfirmasi
<1>. DEFINE d == [masalah |-> m, orang |-> o, sumber |-> "daring",
                  status |-> "draf", gantikan |-> 0, kunci |-> FALSE,
                  tampil |-> FALSE, cerita |-> TanpaCerita, isi |-> IsiKosong]
            r == [Untuk({<<m, o>>}) EXCEPT !.baris = d]
<1>2. Milik(m, o) = {} /\ Mulai(p, r)
  BY <1>1 DEF BuatDraf
<1>3. d \in BarisKonfirmasi
  <2>1. m \in 1..MaksMasalah
    BY BarisTipe DEF IndInv
  <2>2. 0 \in 0..MaksKonfirmasi /\ TanpaCerita \in Cerita /\ IsiKosong \in Isi
    BY KonfirmasiAssumption
  <2>. QED  BY <2>1, <2>2 DEF BarisKonfirmasi
<1>4. /\ d.masalah = m /\ d.orang = o /\ d.status = "draf" /\ d.gantikan = 0
      /\ ~d.tampil /\ d.isi = IsiKosong
  OBVIOUS
<1>. HIDE DEF d
<1>5. r \in Rencana
  <2>1. Untuk({<<m, o>>}) \in Rencana
    BY BarisTipe DEF IndInv
  <2>. QED  BY <2>1, <1>3 DEF Rencana
<1>6. /\ r.obyek = {<<m, o>>} /\ r.k = 0 /\ ~r.kirim /\ r.m = 0 /\ r.beku = Nihil /\ ~r.eskalasi
      /\ r.baris = d /\ r.daftar = Nihil
  BY DEF Untuk, Diam
<1>7. \A a \in DOMAIN konfirmasi : Pasangan(a) # <<m, o>>
  BY <1>2 DEF Pasangan, Milik
<1>. HIDE DEF r
<1>8. BentukBaris(r) /\ BentukMasalah(r) /\ BentukDaftar(r)
  BY <1>4, <1>6 DEF BentukBaris, BentukMasalah, BentukDaftar, Memasukkan, Mengirim, KirimanBaru,
     PasanganBaris
<1>9. DugaanDulu(r) /\ SegarBaris(r) /\ SegarMasalah(r)
  BY <1>4, <1>6, <1>7 DEF DugaanDulu, SegarBaris, SegarMasalah, Memasukkan, Mengirim, KirimanBaru,
     PasanganBaris
<1>10. Mulai(p, r)
  BY <1>2 DEF r, d
<1>. QED  BY <1>5, <1>8, <1>9, <1>10, Membaca DEF RencanaSah

\* What is not superseded, and has no draft beside it, is the last of its pair.
LEMMA LangkahRalat ==
  ASSUME IndInv, NEW p \in Proses, RalatKonfirmasi(p)
  PROVE  IndInv'
<1>1. PICK o \in Orang, b \in DOMAIN konfirmasi : Ralat(p, b, o)
  BY DEF RalatKonfirmasi
<1>. DEFINE lama == konfirmasi[b]
            m == lama.masalah
            d == [lama EXCEPT !.sumber = "daring", !.status = "draf", !.gantikan = b]
            r == [Untuk({<<m, o>>}) EXCEPT !.baris = d]
<1>2. /\ lama.orang = o /\ lama.status = "terkirim" /\ ~Digantikan(b) /\ Drafnya(m, o) = {}
      /\ Mulai(p, r)
  BY <1>1 DEF Ralat, Miliknya
<1>3. Pasangan(b) = <<m, o>> /\ m \in DOMAIN masalah /\ b # 0 /\ b \in 0..MaksKonfirmasi
      /\ lama \in BarisKonfirmasi /\ Pasangan(b) \in Obyek
  BY <1>2, ObyekBaris DEF IndInv, Pasangan
<1>4. d \in BarisKonfirmasi
  BY <1>3 DEF BarisKonfirmasi
<1>5. /\ d.masalah = m /\ d.orang = o /\ d.status = "draf" /\ d.gantikan = b
      /\ (d.kunci = lama.kunci) /\ (d.tampil = lama.tampil) /\ d.cerita = lama.cerita
      /\ d.isi = lama.isi
  BY <1>2, <1>3 DEF BarisKonfirmasi
<1>. HIDE DEF d
<1>6. r \in Rencana
  <2>1. Untuk({<<m, o>>}) \in Rencana
    BY <1>3, TipeUntuk
  <2>. QED  BY <2>1, <1>4 DEF Rencana
<1>7. /\ r.obyek = {<<m, o>>} /\ r.k = 0 /\ ~r.kirim /\ r.m = 0 /\ r.beku = Nihil /\ ~r.eskalasi
      /\ r.baris = d /\ r.daftar = Nihil
  BY DEF Untuk, Diam
<1>8. lama.tampil \/ AdaLuring(<<m, o>>)
  BY <1>2, <1>3 DEF IndInv, PenilaianSesudahDugaan, AdaLuring, Milik, Pasangan
<1>9. ASSUME NEW a \in DOMAIN konfirmasi, Pasangan(a) = <<m, o>>, <<m, o>> \notin tumpang
      PROVE  a <= b /\ konfirmasi[a].status = "terkirim"
  <2>1. konfirmasi[a].status = "terkirim"
    <3>1. a \in Milik(m, o) /\ a \notin Drafnya(m, o)
      BY <1>2, <1>9 DEF Milik, Pasangan
    <3>. QED  BY <3>1, Baris DEF Drafnya, IndInv, BarisKonfirmasi
  <2>2. ~(b < a)
    <3>. SUFFICES ASSUME b < a PROVE FALSE
      OBVIOUS
    <3>1. \E c \in DOMAIN konfirmasi : konfirmasi[c].gantikan = b
      BY <1>3, <1>9 DEF IndInv, RantaiSah
    <3>. QED  BY <3>1, <1>2 DEF Digantikan
  <2>. QED  BY <2>1, <2>2, Baris DEF IndInv
<1>. HIDE DEF r
<1>10. BentukBaris(r) /\ BentukMasalah(r) /\ BentukDaftar(r)
  <2>1. BentukBaris(r)
    BY <1>2, <1>3, <1>5, <1>7 DEF BentukBaris, Memasukkan, PasanganBaris
  <2>. QED
    BY <2>1, <1>5, <1>7 DEF BentukMasalah, BentukDaftar, Memasukkan, Mengirim, KirimanBaru
<1>11. DugaanDulu(r)
  <2>1. lama.tampil => lama.kunci
    BY DEF IndInv, PenilaianSesudahDugaan
  <2>. QED  BY <2>1, <1>5, <1>7, <1>8 DEF DugaanDulu, Memasukkan, KirimanBaru, PasanganBaris
<1>12. SegarBaris(r)
  BY <1>5, <1>7, <1>9 DEF SegarBaris, Segar, Memasukkan, PasanganBaris
<1>13. SegarMasalah(r)
  BY <1>7 DEF SegarMasalah
<1>14. Mulai(p, r)
  BY <1>2 DEF r, d
<1>. QED  BY <1>6, <1>10, <1>11, <1>12, <1>13, <1>14, Membaca DEF RencanaSah

LEMMA LangkahLuring ==
  ASSUME IndInv, NEW p \in Proses, CreateKonfirmasiLuring(p)
  PROVE  IndInv'
<1>1. PICK m \in DOMAIN masalah, o \in Orang, c \in Cerita, i \in Isi : Luring(p, m, o, c, i)
  BY DEF CreateKonfirmasiLuring
<1>. DEFINE d == [masalah |-> m, orang |-> o, sumber |-> "luring",
                  status |-> "terkirim", gantikan |-> 0, kunci |-> FALSE,
                  tampil |-> FALSE, cerita |-> c, isi |-> i]
            O == {<<m, o>>, <<m, Tim>>}
            r == [Untuk(O) EXCEPT
                    !.baris = d, !.m = m, !.beku = BekukanBila(m), !.eskalasi = EskalasiBila(m, i)]
<1>2. Milik(m, o) = {} /\ Mulai(p, r)
  BY <1>1 DEF Luring
<1>3. d \in BarisKonfirmasi /\ d # Nihil
  <2>1. m \in 1..MaksMasalah
    BY BarisTipe DEF IndInv
  <2>2. 0 \in 0..MaksKonfirmasi
    BY KonfirmasiAssumption
  <2>3. d \in BarisKonfirmasi
    BY <2>1, <2>2 DEF BarisKonfirmasi
  <2>. QED  BY <2>3, NihilBukanBaris
<1>4. /\ d.masalah = m /\ d.orang = o /\ d.status = "terkirim" /\ d.gantikan = 0
      /\ ~d.tampil /\ d.isi = i /\ d.sumber = "luring"
  OBVIOUS
<1>. HIDE DEF d
<1>5. r \in Rencana
  <2>1. Untuk(O) \in Rencana /\ m \in 0..MaksMasalah
    BY BarisTipe, ObyekMasalah, TipeUntuk DEF IndInv
  <2>2. BekukanBila(m) \in Awal \cup {Nihil} /\ EskalasiBila(m, i) \in BOOLEAN
    BY TipeEfek DEF IndInv
  <2>. HIDE DEF O
  <2>. QED  BY <2>1, <2>2, <1>3 DEF Rencana
<1>6. /\ r.obyek = O /\ r.k = 0 /\ ~r.kirim /\ r.m = m /\ r.beku = BekukanBila(m)
      /\ (r.eskalasi = EskalasiBila(m, i)) /\ r.awal = Nihil
      /\ r.baris = d /\ r.daftar = Nihil
  BY DEF Untuk, Diam
<1>7. \A a \in DOMAIN konfirmasi : Pasangan(a) # <<m, o>>
  BY <1>2 DEF Pasangan, Milik
<1>. HIDE DEF r
<1>8. BentukBaris(r) /\ BentukMasalah(r) /\ BentukDaftar(r)
  <2>1. BentukBaris(r)
    BY <1>4, <1>6 DEF BentukBaris, Memasukkan, PasanganBaris
  <2>2. BentukMasalah(r)
    BY <1>3, <1>4, <1>6 DEF BentukMasalah, Memasukkan, Mengirim, KirimanBaru
  <2>. QED  BY <2>1, <2>2, <1>6 DEF BentukDaftar
<1>9. DugaanDulu(r) /\ SegarBaris(r)
  BY <1>4, <1>6, <1>7 DEF DugaanDulu, SegarBaris, PasanganBaris
<1>10. SegarMasalah(r)
  BY <1>3, <1>4, <1>6 DEF SegarMasalah, Memasukkan, Mengirim, KirimanBaru
<1>11. Mulai(p, r)
  BY <1>2 DEF r, d
<1>. QED  BY <1>5, <1>8, <1>9, <1>10, <1>11, Membaca DEF RencanaSah

LEMMA LangkahAngkatMasalah ==
  ASSUME IndInv, NEW p \in Proses, AngkatMasalahBaru(p)
  PROVE  IndInv'
<1>1. PICK b \in DOMAIN konfirmasi, c \in Konteks : AngkatMasalah(p, b, c)
  BY DEF AngkatMasalahBaru
<1>. DEFINE d == MasalahBaru(c, KeteranganKasus, b)
            r == [Untuk({Pasangan(b)}) EXCEPT !.daftar = d]
<1>2. /\ konfirmasi[b].status = "terkirim" /\ konfirmasi[b].isi \in MenyebutBaru
      /\ \A m \in DOMAIN masalah : masalah[m].asal # b
      /\ Mulai(p, r)
  BY <1>1 DEF AngkatMasalah, Pasangan
<1>3. b \in 0..MaksKonfirmasi /\ Pasangan(b) \in Obyek
  BY ObyekBaris DEF IndInv
<1>4. d \in BarisMasalah /\ d # Nihil
  BY <1>3, MasalahBaruSah, KonfirmasiAssumption DEF IndInv, MasalahSah
<1>5. /\ d.beku = Nihil /\ ~d.eskalasi /\ d.asal = b /\ d.konteks = c
      /\ d.nomor = NomorBerikut(c)
  BY DEF MasalahBaru
<1>. HIDE DEF d
<1>6. r \in Rencana
  <2>1. Untuk({Pasangan(b)}) \in Rencana
    BY <1>3, TipeUntuk
  <2>. QED  BY <2>1, <1>4 DEF Rencana
<1>7. /\ r.obyek = {Pasangan(b)} /\ r.k = 0 /\ ~r.kirim /\ r.m = 0 /\ r.beku = Nihil
      /\ ~r.eskalasi /\ r.baris = Nihil /\ r.daftar = d
  BY DEF Untuk, Diam
<1>. HIDE DEF r
<1>8. BentukDaftar(r)
  BY <1>2, <1>5, <1>7, NomorSah DEF BentukDaftar, IndInv, MasalahSah
<1>9. BentukBaris(r) /\ BentukMasalah(r) /\ DugaanDulu(r) /\ SegarBaris(r)
  BY <1>7 DEF BentukBaris, BentukMasalah, DugaanDulu, SegarBaris, Memasukkan, Mengirim, KirimanBaru
<1>10. SegarMasalah(r)
  BY <1>2, <1>5, <1>7 DEF SegarMasalah
<1>11. Mulai(p, r)
  BY <1>2 DEF r, d
<1>. QED  BY <1>6, <1>8, <1>9, <1>10, <1>11, Membaca DEF RencanaSah

LEMMA LangkahGagal ==
  ASSUME IndInv, NEW p \in Proses, Gagal(p)
  PROVE  IndInv'
BY RencanaBerganti, TipeDiam DEF Gagal

-------------------------------------------------------------------------------
(* Flush and commit.                                                         *)

\* Row kk is confirmation b after plan r was written.
BarisTertulis(r, b, kk) ==
  LET k == konfirmasi[b] IN
  /\ b # r.k => kk = k
  /\ kk \in BarisKonfirmasi
  /\ kk.masalah = k.masalah /\ kk.orang = k.orang
  /\ kk.sumber = k.sumber /\ kk.gantikan = k.gantikan
  /\ kk.status = IF b = r.k /\ r.kirim THEN "terkirim" ELSE k.status
  /\ kk.kunci <=> k.kunci \/ (b = r.k /\ r.kunci)
  /\ kk.tampil <=> k.tampil \/ (b = r.k /\ r.tampil)
  /\ kk.cerita = IF b = r.k /\ r.cerita # Nihil THEN r.cerita ELSE k.cerita
  /\ kk.isi = IF b = r.k /\ r.isi # Nihil THEN r.isi ELSE k.isi

\* The rows of redesain_konfirmasi after plan r was written.
TulisanKonfirmasi(r) ==
  /\ konfirmasi' \in Seq(BarisKonfirmasi)
  /\ Len(konfirmasi') = IF Memasukkan(r) THEN Len(konfirmasi) + 1 ELSE Len(konfirmasi)
  /\ DOMAIN konfirmasi' = 1..Len(konfirmasi')
  /\ Memasukkan(r) => konfirmasi'[Len(konfirmasi) + 1] = r.baris
  /\ \A b \in DOMAIN konfirmasi :
       BarisTertulis(r, b, konfirmasi'[b])

\* Row kk is problem m after plan r was written.
MasalahDitulis(r, m, kk) ==
  LET k == masalah[m] IN
  /\ m # r.m => kk = k
  /\ kk \in BarisMasalah
  /\ kk.konteks = k.konteks /\ kk.nomor = k.nomor /\ kk.asal = k.asal
  /\ kk.awal = IF m = r.m /\ r.awal # Nihil THEN r.awal ELSE k.awal
  /\ kk.beku = IF m = r.m /\ r.beku # Nihil THEN r.beku ELSE k.beku
  /\ kk.eskalasi <=> k.eskalasi \/ (m = r.m /\ r.eskalasi)

\* The rows of redesain_masalah after plan r was written.
TulisanMasalah(r) ==
  /\ masalah' \in Seq(BarisMasalah)
  /\ Len(masalah') = IF r.daftar # Nihil THEN Len(masalah) + 1 ELSE Len(masalah)
  /\ DOMAIN masalah' = 1..Len(masalah')
  /\ r.daftar # Nihil => masalah'[Len(masalah) + 1] = r.daftar
  /\ \A m \in DOMAIN masalah :
       MasalahDitulis(r, m, masalah'[m])

LEMMA MenulisKonfirmasi ==
  ASSUME TypeOK, NEW p \in Proses, Simpan(p), NEW r, r = rencana[p]
  PROVE  TulisanKonfirmasi(r)
<1>. DEFINE t == KonfirmasiTertulis(r)
<1>1. r \in Rencana
  BY DEF TypeOK
<1>2. konfirmasi' = IF r.baris = Nihil THEN t ELSE Append(t, r.baris)
  BY DEF Simpan
<1>3. ASSUME NEW b \in DOMAIN konfirmasi
      PROVE  BarisTertulis(r, b, t[b])
  <2>1. konfirmasi[b] \in BarisKonfirmasi
    BY Baris
  <2>2. CASE b # r.k
    <3>1. t[b] = konfirmasi[b]
      BY <2>2 DEF KonfirmasiTertulis
    <3>. HIDE DEF t
    <3>. QED  BY <2>1, <2>2, <3>1 DEF BarisTertulis
  <2>3. CASE b = r.k
    <3>. DEFINE k == konfirmasi[b]
                kk == [k EXCEPT
                         !.status = IF r.kirim THEN "terkirim" ELSE @,
                         !.kunci = @ \/ r.kunci, !.tampil = @ \/ r.tampil,
                         !.cerita = Tulis(@, r.cerita), !.isi = Tulis(@, r.isi)]
    <3>1. t[b] = kk
      BY <2>3 DEF KonfirmasiTertulis
    <3>2. /\ kk.masalah = k.masalah /\ kk.orang = k.orang
          /\ kk.sumber = k.sumber /\ kk.gantikan = k.gantikan
          /\ kk.status = IF r.kirim THEN "terkirim" ELSE k.status
          /\ kk.kunci <=> k.kunci \/ r.kunci
          /\ kk.tampil <=> k.tampil \/ r.tampil
          /\ kk.cerita = IF r.cerita # Nihil THEN r.cerita ELSE k.cerita
          /\ kk.isi = IF r.isi # Nihil THEN r.isi ELSE k.isi
      BY <2>1 DEF BarisKonfirmasi, Tulis
    <3>3. kk \in BarisKonfirmasi
      <4>1. Tulis(k.cerita, r.cerita) \in Cerita /\ Tulis(k.isi, r.isi) \in Isi
        BY <1>1, <2>1 DEF Rencana, BarisKonfirmasi, Tulis
      <4>2. (IF r.kirim THEN "terkirim" ELSE k.status) \in {"draf", "terkirim"}
        BY <2>1 DEF BarisKonfirmasi
      <4>. QED  BY <2>1, <4>1, <4>2 DEF BarisKonfirmasi
    <3>. HIDE DEF t, kk
    <3>. QED  BY <2>3, <3>1, <3>2, <3>3 DEF BarisTertulis
  <2>. QED  BY <2>2, <2>3
<1>4. t \in Seq(BarisKonfirmasi) /\ Len(t) = Len(konfirmasi) /\ DOMAIN t = DOMAIN konfirmasi
  <2>1. t = [b \in 1..Len(konfirmasi) |-> t[b]]
    BY Baris DEF KonfirmasiTertulis
  <2>2. \A b \in 1..Len(konfirmasi) : t[b] \in BarisKonfirmasi
    BY <1>3, Baris DEF BarisTertulis
  <2>. HIDE DEF t
  <2>. QED  BY <2>1, <2>2, Baris
<1>. HIDE DEF t
<1>5. CASE r.baris = Nihil
  BY <1>2, <1>3, <1>4, <1>5, Baris DEF TulisanKonfirmasi, Memasukkan
<1>6. CASE r.baris # Nihil
  <2>1. r.baris \in BarisKonfirmasi
    BY <1>1, <1>6 DEF Rencana
  <2>2. /\ konfirmasi' \in Seq(BarisKonfirmasi)
        /\ Len(konfirmasi') = Len(konfirmasi) + 1 /\ DOMAIN konfirmasi' = 1..Len(konfirmasi')
        /\ konfirmasi'[Len(konfirmasi) + 1] = r.baris
        /\ \A b \in DOMAIN konfirmasi : konfirmasi'[b] = t[b]
    BY <1>2, <1>4, <1>6, <2>1, Baris
  <2>. QED  BY <1>3, <1>6, <2>2 DEF TulisanKonfirmasi, Memasukkan
<1>. QED  BY <1>5, <1>6

LEMMA MenulisMasalah ==
  ASSUME TypeOK, NEW p \in Proses, Simpan(p), NEW r, r = rencana[p]
  PROVE  TulisanMasalah(r)
<1>. DEFINE t == MasalahTertulis(r)
<1>1. r \in Rencana
  BY DEF TypeOK
<1>2. masalah' = IF r.daftar = Nihil THEN t ELSE Append(t, r.daftar)
  BY DEF Simpan
<1>3. ASSUME NEW m \in DOMAIN masalah
      PROVE  MasalahDitulis(r, m, t[m])
  <2>1. masalah[m] \in BarisMasalah
    BY Baris
  <2>2. CASE m # r.m
    <3>1. t[m] = masalah[m]
      BY <2>2 DEF MasalahTertulis
    <3>. HIDE DEF t
    <3>. QED  BY <2>1, <2>2, <3>1 DEF MasalahDitulis
  <2>3. CASE m = r.m
    <3>. DEFINE k == masalah[m]
                kk == [k EXCEPT
                         !.dibuka = Tulis(@, r.dibuka), !.awal = Tulis(@, r.awal),
                         !.beku = Tulis(@, r.beku), !.eskalasi = @ \/ r.eskalasi]
    <3>1. t[m] = kk
      BY <2>3 DEF MasalahTertulis
    <3>2. /\ kk.konteks = k.konteks /\ kk.nomor = k.nomor /\ kk.asal = k.asal
          /\ kk.awal = IF r.awal # Nihil THEN r.awal ELSE k.awal
          /\ kk.beku = IF r.beku # Nihil THEN r.beku ELSE k.beku
          /\ kk.eskalasi <=> k.eskalasi \/ r.eskalasi
      BY <2>1 DEF BarisMasalah, Tulis
    <3>3. kk \in BarisMasalah
      <4>1. /\ Tulis(k.dibuka, r.dibuka) \in BOOLEAN
            /\ Tulis(k.awal, r.awal) \in Awal /\ Tulis(k.beku, r.beku) \in Awal \cup {Nihil}
        BY <1>1, <2>1 DEF Rencana, BarisMasalah, Tulis
      <4>. QED  BY <2>1, <4>1 DEF BarisMasalah
    <3>. HIDE DEF t, kk
    <3>. QED  BY <2>3, <3>1, <3>2, <3>3 DEF MasalahDitulis
  <2>. QED  BY <2>2, <2>3
<1>4. t \in Seq(BarisMasalah) /\ Len(t) = Len(masalah) /\ DOMAIN t = DOMAIN masalah
  <2>1. t = [m \in 1..Len(masalah) |-> t[m]]
    BY Baris DEF MasalahTertulis
  <2>2. \A m \in 1..Len(masalah) : t[m] \in BarisMasalah
    BY <1>3, Baris DEF MasalahDitulis
  <2>. HIDE DEF t
  <2>. QED  BY <2>1, <2>2, Baris
<1>. HIDE DEF t
<1>5. CASE r.daftar = Nihil
  BY <1>2, <1>3, <1>4, <1>5, Baris DEF TulisanMasalah
<1>6. CASE r.daftar # Nihil
  <2>1. r.daftar \in BarisMasalah
    BY <1>1, <1>6 DEF Rencana
  <2>2. /\ masalah' \in Seq(BarisMasalah)
        /\ Len(masalah') = Len(masalah) + 1 /\ DOMAIN masalah' = 1..Len(masalah')
        /\ masalah'[Len(masalah) + 1] = r.daftar
        /\ \A m \in DOMAIN masalah : masalah'[m] = t[m]
    BY <1>2, <1>4, <1>6, <2>1, Baris
  <2>. QED  BY <1>3, <1>6, <2>2 DEF TulisanMasalah
<1>. QED  BY <1>5, <1>6

\* The facts of a commit that the lemmas below share.
Tersimpan(p, r) ==
  /\ Simpan(p) /\ r = rencana[p]
  /\ r \in Rencana /\ RencanaSah(r)
  /\ TulisanKonfirmasi(r) /\ TulisanMasalah(r)
  /\ tumpang' = tumpang \cup r.basi

LEMMA Menyimpan ==
  ASSUME IndInv, NEW p \in Proses, Simpan(p)
  PROVE  Tersimpan(p, rencana[p])
BY MenulisKonfirmasi, MenulisMasalah DEF IndInv, TypeOK, Simpan, Tersimpan

\* Every confirmation is one of before, or the one r inserts.
LEMMA BarisSesudah ==
  ASSUME IndInv, NEW p \in Proses, NEW r, Tersimpan(p, r), NEW b \in DOMAIN konfirmasi'
  PROVE  \/ b \in DOMAIN konfirmasi /\ Pasangan(b)' = Pasangan(b)
         \/ /\ Memasukkan(r) /\ b = Len(konfirmasi) + 1 /\ b \notin DOMAIN konfirmasi
            /\ konfirmasi'[b] = r.baris /\ r.baris \in BarisKonfirmasi
            /\ Pasangan(b)' = PasanganBaris(r)
<1>1. b \in DOMAIN konfirmasi \/ (Memasukkan(r) /\ b = Len(konfirmasi) + 1 /\ b \notin DOMAIN konfirmasi)
  BY Baris DEF IndInv, Tersimpan, TulisanKonfirmasi
<1>. QED
  BY <1>1 DEF Tersimpan, TulisanKonfirmasi, BarisTertulis, Pasangan, PasanganBaris, Rencana, Memasukkan

LEMMA BarisSebelum ==
  ASSUME IndInv, NEW p \in Proses, NEW r, Tersimpan(p, r), NEW b \in DOMAIN konfirmasi
  PROVE  /\ b \in DOMAIN konfirmasi' /\ Pasangan(b)' = Pasangan(b)
         /\ BarisTertulis(r, b, konfirmasi'[b])
BY Baris DEF IndInv, Tersimpan, TulisanKonfirmasi, BarisTertulis, Pasangan

LEMMA MasalahSesudah ==
  ASSUME IndInv, NEW p \in Proses, NEW r, Tersimpan(p, r)
  PROVE  /\ \A m \in DOMAIN masalah : m \in DOMAIN masalah' /\ MasalahDitulis(r, m, masalah'[m])
         /\ \A m \in DOMAIN masalah' :
              \/ m \in DOMAIN masalah
              \/ /\ r.daftar # Nihil /\ m = Len(masalah) + 1 /\ m \notin DOMAIN masalah
                 /\ masalah'[m] = r.daftar /\ r.daftar \in BarisMasalah
BY Baris DEF IndInv, Tersimpan, TulisanMasalah, Rencana

\* The other requests keep their plans, and know what has been written.
LEMMA RencanaSesudah ==
  ASSUME IndInv, NEW p \in Proses, NEW r, Tersimpan(p, r), NEW q \in Proses
  PROVE  /\ q = p => rencana'[q] = Diam
         /\ q # p =>
              rencana'[q] = [rencana[q] EXCEPT
                               !.basi = rencana[q].basi \cup (rencana[q].obyek \cap r.obyek)]
         /\ rencana'[q] \in Rencana
<1>1. /\ q = p => rencana'[q] = Diam
      /\ q # p =>
           rencana'[q] = [rencana[q] EXCEPT
                            !.basi = rencana[q].basi \cup (rencana[q].obyek \cap r.obyek)]
  BY DEF Tersimpan, Simpan
<1>2. CASE q = p
  BY <1>1, <1>2, TipeDiam
<1>3. CASE q # p
  <2>1. rencana[q] \in Rencana
    BY DEF IndInv, TypeOK
  <2>2. rencana[q].basi \cup (rencana[q].obyek \cap r.obyek) \in SUBSET Obyek
    BY <2>1 DEF Rencana
  <2>. QED  BY <1>1, <1>3, <2>1, <2>2 DEF Rencana
<1>. QED  BY <1>1, <1>2, <1>3

LEMMA SimpanTipe ==
  ASSUME IndInv, NEW p \in Proses, NEW r, Tersimpan(p, r)
  PROVE  TypeOK'
<1>1. konfirmasi' \in Seq(BarisKonfirmasi) /\ Len(konfirmasi') <= MaksKonfirmasi
  <2>1. Memasukkan(r) => Len(konfirmasi) < MaksKonfirmasi
    BY DEF Tersimpan, Simpan, Muat, Memasukkan
  <2>. QED  BY <2>1, Baris, KonfirmasiAssumption DEF Tersimpan, TulisanKonfirmasi, IndInv, TypeOK
<1>2. masalah' \in Seq(BarisMasalah) /\ Len(masalah') <= MaksMasalah
  <2>1. r.daftar # Nihil => Len(masalah) < MaksMasalah
    BY DEF Tersimpan, Simpan, Muat
  <2>. QED  BY <2>1, Baris, KonfirmasiAssumption DEF Tersimpan, TulisanMasalah, IndInv, TypeOK
<1>3. rencana' \in [Proses -> Rencana]
  <2>1. rencana' = [q \in Proses |-> rencana'[q]]
    BY DEF Tersimpan, Simpan
  <2>. QED  BY <2>1, RencanaSesudah
<1>4. tumpang' \in SUBSET Obyek
  BY DEF Tersimpan, Rencana, IndInv, TypeOK
<1>5. ASSUME NEW b \in DOMAIN konfirmasi'
      PROVE  konfirmasi'[b].masalah <= Len(masalah') /\ konfirmasi'[b].gantikan < b
  <2>0. Len(masalah) \in Nat /\ Len(masalah') \in Nat /\ Len(masalah) <= Len(masalah')
        /\ Len(konfirmasi) \in Nat
        /\ DOMAIN masalah = 1..Len(masalah) /\ DOMAIN konfirmasi = 1..Len(konfirmasi)
    BY Baris DEF Tersimpan, TulisanMasalah, IndInv
  <2>1. CASE b \in DOMAIN konfirmasi
    <3>1. konfirmasi[b] \in BarisKonfirmasi /\ konfirmasi[b].masalah <= Len(masalah)
          /\ konfirmasi[b].gantikan < b
      BY <2>1, Baris DEF IndInv, TypeOK
    <3>. QED  BY <2>0, <2>1, <3>1, BarisSebelum DEF BarisTertulis, BarisKonfirmasi
  <2>2. CASE b \notin DOMAIN konfirmasi
    <3>1. Memasukkan(r) /\ b = Len(konfirmasi) + 1 /\ konfirmasi'[b] = r.baris
          /\ r.baris \in BarisKonfirmasi
      BY <2>2, BarisSesudah
    <3>2. /\ r.baris.masalah \in DOMAIN masalah
          /\ r.baris.gantikan # 0 => r.baris.gantikan \in DOMAIN konfirmasi
      BY <3>1 DEF Tersimpan, RencanaSah, BentukBaris
    <3>. QED  BY <2>0, <3>1, <3>2
  <2>. QED  BY <2>1, <2>2
<1>6. ASSUME NEW m \in DOMAIN masalah'
      PROVE  masalah'[m].asal <= Len(konfirmasi')
  <2>0. Len(konfirmasi) \in Nat /\ Len(konfirmasi') \in Nat /\ Len(konfirmasi) <= Len(konfirmasi')
        /\ DOMAIN konfirmasi = 1..Len(konfirmasi)
    BY Baris DEF Tersimpan, TulisanKonfirmasi, IndInv
  <2>1. CASE m \in DOMAIN masalah
    <3>1. masalah[m] \in BarisMasalah /\ masalah[m].asal <= Len(konfirmasi)
          /\ masalah'[m].asal = masalah[m].asal
      BY <2>1, Baris, MasalahSesudah DEF IndInv, TypeOK, MasalahDitulis
    <3>. QED  BY <2>0, <3>1 DEF BarisMasalah
  <2>2. CASE m \notin DOMAIN masalah
    <3>1. r.daftar # Nihil /\ masalah'[m] = r.daftar /\ r.daftar \in BarisMasalah
      BY <2>2, MasalahSesudah
    <3>2. r.daftar.asal = 0 \/ r.daftar.asal \in DOMAIN konfirmasi
      BY <3>1 DEF Tersimpan, RencanaSah, BentukDaftar
    <3>. QED  BY <2>0, <3>1, <3>2
  <2>. QED  BY <2>1, <2>2
<1>. QED  BY <1>1, <1>2, <1>3, <1>4, <1>5, <1>6 DEF TypeOK

\* An order once kept stays: the stamps are never taken back.
LEMMA SimpanPenilaian ==
  ASSUME IndInv, NEW p \in Proses, NEW r, Tersimpan(p, r)
  PROVE  PenilaianSesudahDugaan'
<1>1. \A x : AdaLuring(x) => AdaLuring(x)'
  BY BarisSebelum DEF AdaLuring, BarisTertulis
<1>2. ASSUME NEW b \in DOMAIN konfirmasi'
      PROVE  /\ konfirmasi'[b].tampil => konfirmasi'[b].kunci
             /\ konfirmasi'[b].isi # IsiKosong \/ konfirmasi'[b].status = "terkirim" =>
                  konfirmasi'[b].tampil \/ AdaLuring(Pasangan(b))'
  <2>1. CASE b \in DOMAIN konfirmasi
    <3>. DEFINE k == konfirmasi[b]
                kk == konfirmasi'[b]
    <3>1. /\ k.tampil => k.kunci
          /\ k.isi # IsiKosong \/ k.status = "terkirim" => k.tampil \/ AdaLuring(Pasangan(b))
      BY <2>1 DEF IndInv, PenilaianSesudahDugaan, AdaLuring, Milik, Pasangan
    <3>2. BarisTertulis(r, b, kk) /\ Pasangan(b)' = Pasangan(b)
      BY <2>1, BarisSebelum
    <3>3. b = r.k =>
            /\ r.tampil => k.kunci
            /\ r.isi # Nihil => k.tampil
            /\ r.kirim => k.tampil \/ AdaLuring(Pasangan(b))
      BY <2>1, Baris DEF Tersimpan, RencanaSah, DugaanDulu, IndInv
    <3>4. AdaLuring(Pasangan(b)) => AdaLuring(Pasangan(b))'
      BY <1>1, <3>2 DEF AdaLuring
    <3>. QED  BY <3>1, <3>2, <3>3, <3>4 DEF BarisTertulis
  <2>2. CASE b \notin DOMAIN konfirmasi
    <3>1. Memasukkan(r) /\ konfirmasi'[b] = r.baris /\ Pasangan(b)' = PasanganBaris(r)
      BY <2>2, BarisSesudah
    <3>2. /\ r.baris.tampil => r.baris.kunci
          /\ r.baris.isi # IsiKosong \/ r.baris.status = "terkirim" =>
               \/ r.baris.tampil
               \/ r.baris.sumber = "luring"
               \/ AdaLuring(PasanganBaris(r))
      BY <3>1 DEF Tersimpan, RencanaSah, DugaanDulu, KirimanBaru
    <3>3. r.baris.sumber = "luring" => AdaLuring(Pasangan(b))'
      BY <3>1 DEF AdaLuring
    <3>4. AdaLuring(PasanganBaris(r)) => AdaLuring(Pasangan(b))'
      BY <1>1, <3>1 DEF AdaLuring
    <3>. QED  BY <3>1, <3>2, <3>3, <3>4
  <2>. QED  BY <2>1, <2>2
<1>. QED  BY <1>2 DEF PenilaianSesudahDugaan, AdaLuring, Milik, Pasangan

\* A pair that is not in tumpang afterwards was not before, and r still knew it.
LEMMA TetapSegar ==
  ASSUME IndInv, NEW p \in Proses, NEW r, Tersimpan(p, r), NEW x, x \notin tumpang'
  PROVE  x \notin tumpang /\ (x \in r.obyek => Segar(r, x))
BY DEF Tersimpan, Segar

LEMMA SimpanRantai ==
  ASSUME IndInv, NEW p \in Proses, NEW r, Tersimpan(p, r)
  PROVE  RantaiSah'
<1>0. Len(konfirmasi) \in Nat /\ DOMAIN konfirmasi = 1..Len(konfirmasi)
  BY Baris DEF IndInv
<1>1. ASSUME NEW b \in DOMAIN konfirmasi', NEW g, g = konfirmasi'[b].gantikan, g # 0
      PROVE  Pasangan(g)' = Pasangan(b)' /\ konfirmasi'[g].status = "terkirim"
  <2>1. g \in DOMAIN konfirmasi /\ Pasangan(g) = Pasangan(b)' /\ konfirmasi[g].status = "terkirim"
    <3>1. CASE b \in DOMAIN konfirmasi
      <4>1. g = konfirmasi[b].gantikan /\ Pasangan(b)' = Pasangan(b)
        BY <1>1, <3>1, BarisSebelum DEF BarisTertulis
      <4>2. Pasangan(g) = Pasangan(b) /\ konfirmasi[g].status = "terkirim"
        BY <1>1, <3>1, <4>1 DEF IndInv, RantaiSah
      <4>3. g \in Nat /\ g < b
        BY <3>1, <4>1, Baris DEF IndInv, TypeOK, BarisKonfirmasi
      <4>. QED  BY <1>0, <1>1, <3>1, <4>1, <4>2, <4>3
    <3>2. CASE b \notin DOMAIN konfirmasi
      <4>1. Memasukkan(r) /\ konfirmasi'[b] = r.baris /\ Pasangan(b)' = PasanganBaris(r)
        BY <3>2, BarisSesudah
      <4>. QED  BY <1>1, <4>1 DEF Tersimpan, RencanaSah, BentukBaris
    <3>. QED  BY <3>1, <3>2
  <2>2. konfirmasi'[g].status = "terkirim" /\ Pasangan(g)' = Pasangan(g)
    BY <2>1, BarisSebelum DEF BarisTertulis
  <2>. QED  BY <2>1, <2>2
<1>2. ASSUME NEW a \in DOMAIN konfirmasi', NEW b \in DOMAIN konfirmasi',
             a < b, Pasangan(a)' = Pasangan(b)', Pasangan(a)' \notin tumpang'
      PROVE  /\ konfirmasi'[a].status = "terkirim"
             /\ \E c \in DOMAIN konfirmasi' : c <= b /\ konfirmasi'[c].gantikan = a
  <2>0. a \in Nat /\ b \in Nat
    BY DEF Tersimpan, TulisanKonfirmasi
  <2>1. a \in DOMAIN konfirmasi /\ Pasangan(a)' = Pasangan(a)
    <3>1. CASE a \in DOMAIN konfirmasi
      BY <3>1, BarisSebelum
    <3>2. CASE a \notin DOMAIN konfirmasi
      <4>1. a = Len(konfirmasi) + 1
        BY <3>2, BarisSesudah
      <4>2. b <= Len(konfirmasi) + 1
        BY <1>0, BarisSesudah
      <4>. QED  BY <1>0, <1>2, <2>0, <4>1, <4>2
    <3>. QED  BY <3>1, <3>2
  <2>2. Pasangan(a) \notin tumpang
    BY <1>2, <2>1 DEF Tersimpan
  <2>3. CASE b \in DOMAIN konfirmasi
    <3>1. Pasangan(b)' = Pasangan(b)
      BY <2>3, BarisSebelum
    <3>2. konfirmasi[a].status = "terkirim"
          /\ \E c \in DOMAIN konfirmasi : c <= b /\ konfirmasi[c].gantikan = a
      BY <1>2, <2>1, <2>2, <2>3, <3>1 DEF IndInv, RantaiSah
    <3>. QED  BY <2>1, <3>2, BarisSebelum DEF BarisTertulis
  <2>4. CASE b \notin DOMAIN konfirmasi
    <3>. DEFINE g == r.baris.gantikan
    <3>1. /\ Memasukkan(r) /\ b = Len(konfirmasi) + 1 /\ konfirmasi'[b] = r.baris
          /\ Pasangan(a) = PasanganBaris(r) /\ r.baris \in BarisKonfirmasi
      BY <1>2, <2>1, <2>4, BarisSesudah
    <3>2. PasanganBaris(r) \in r.obyek
      BY <3>1 DEF Tersimpan, RencanaSah, BentukBaris
    <3>3. Segar(r, PasanganBaris(r))
      BY <1>2, <2>1, <3>1, <3>2 DEF Tersimpan, Segar
    <3>4. a <= g /\ konfirmasi[a].status = "terkirim"
      BY <2>1, <3>1, <3>3 DEF Tersimpan, RencanaSah, SegarBaris
    <3>5. konfirmasi'[a].status = "terkirim"
      BY <2>1, <3>4, BarisSebelum DEF BarisTertulis
    <3>6. CASE a = g
      BY <2>0, <3>1, <3>5, <3>6
    <3>7. CASE a # g
      <4>1. g \in Nat /\ a < g
        BY <2>0, <3>1, <3>4, <3>7 DEF BarisKonfirmasi
      <4>2. g \in DOMAIN konfirmasi /\ Pasangan(g) = PasanganBaris(r)
        BY <2>0, <3>1, <4>1 DEF Tersimpan, RencanaSah, BentukBaris
      <4>3. PICK c \in DOMAIN konfirmasi : c <= g /\ konfirmasi[c].gantikan = a
        BY <2>1, <2>2, <3>1, <4>1, <4>2 DEF IndInv, RantaiSah
      <4>4. c <= b /\ c \in DOMAIN konfirmasi' /\ konfirmasi'[c].gantikan = a
        BY <1>0, <3>1, <4>3, BarisSebelum DEF BarisTertulis
      <4>. QED  BY <3>5, <4>4
    <3>. QED  BY <3>6, <3>7
  <2>. QED  BY <2>3, <2>4
<1>3. (\A b \in DOMAIN konfirmasi :
         konfirmasi[b].gantikan # 0 =>
           /\ Pasangan(konfirmasi[b].gantikan) = Pasangan(b)
           /\ konfirmasi[konfirmasi[b].gantikan].status = "terkirim")'
  BY <1>1 DEF Pasangan
<1>4. (\A a, b \in DOMAIN konfirmasi :
         a < b /\ Pasangan(a) = Pasangan(b) /\ Pasangan(a) \notin tumpang =>
           /\ konfirmasi[a].status = "terkirim"
           /\ \E c \in DOMAIN konfirmasi : c <= b /\ konfirmasi[c].gantikan = a)'
  BY <1>2
<1>. QED  BY <1>3, <1>4 DEF RantaiSah

LEMMA SimpanRalat ==
  ASSUME IndInv, NEW p \in Proses, NEW r, Tersimpan(p, r)
  PROVE  RalatTerkunci'
<1>. SUFFICES ASSUME NEW b \in DOMAIN konfirmasi', konfirmasi'[b].gantikan # 0,
                     Pasangan(b)' \notin tumpang',
                     konfirmasi'[konfirmasi'[b].gantikan].kunci
              PROVE  /\ konfirmasi'[b].kunci
                     /\ konfirmasi'[b].cerita = konfirmasi'[konfirmasi'[b].gantikan].cerita
  BY DEF RalatTerkunci
<1>. DEFINE g == konfirmasi'[b].gantikan
            x == Pasangan(b)'
<1>0. r.k # 0 /\ Pasangan(r.k) \in r.obyek /\ Pasangan(r.k) \notin tumpang' =>
        /\ r.cerita # Nihil => konfirmasi[r.k].status = "draf" /\ ~konfirmasi[r.k].kunci
        /\ r.kunci => konfirmasi[r.k].status = "draf"
  BY DEF Tersimpan, RencanaSah, SegarBaris, Segar
<1>1. CASE b \in DOMAIN konfirmasi
  <2>1. g = konfirmasi[b].gantikan /\ Pasangan(b)' = Pasangan(b) /\ b # 0
        /\ BarisTertulis(r, b, konfirmasi'[b])
    BY <1>1, BarisSebelum, Baris DEF BarisTertulis, IndInv
  <2>2. Pasangan(g) = Pasangan(b) /\ konfirmasi[g].status = "terkirim"
    BY <1>1, <2>1 DEF IndInv, RantaiSah
  <2>3. g \in DOMAIN konfirmasi /\ g # b
    BY <1>1, <2>1, Baris DEF IndInv, TypeOK, BarisKonfirmasi
  <2>4. BarisTertulis(r, g, konfirmasi'[g]) /\ g # 0
    BY <2>3, BarisSebelum, Baris DEF IndInv
  <2>5. r.k = g => r.cerita = Nihil /\ ~r.kunci
    BY <1>0, <2>1, <2>2, <2>3, <2>4 DEF Tersimpan, RencanaSah, BentukBaris
  <2>6. konfirmasi'[g].cerita = konfirmasi[g].cerita /\ konfirmasi[g].kunci
    BY <2>4, <2>5 DEF BarisTertulis
  <2>7. konfirmasi[b].kunci /\ konfirmasi[b].cerita = konfirmasi[g].cerita
    BY <1>1, <2>1, <2>6 DEF IndInv, RalatTerkunci, Tersimpan
  <2>8. r.k = b => r.cerita = Nihil
    BY <1>0, <2>1, <2>7 DEF Tersimpan, RencanaSah, BentukBaris
  <2>. QED  BY <2>1, <2>6, <2>7, <2>8 DEF BarisTertulis
<1>2. CASE b \notin DOMAIN konfirmasi
  <2>1. /\ Memasukkan(r) /\ konfirmasi'[b] = r.baris /\ x = PasanganBaris(r) /\ g = r.baris.gantikan
        /\ r.k = 0
    BY <1>2, BarisSesudah DEF Tersimpan, RencanaSah, BentukBaris
  <2>2. g \in DOMAIN konfirmasi /\ PasanganBaris(r) \in r.obyek
    BY <2>1 DEF Tersimpan, RencanaSah, BentukBaris
  <2>3. konfirmasi'[g] = konfirmasi[g]
    BY <2>1, <2>2, BarisSebelum, Baris DEF BarisTertulis, IndInv
  <2>4. Segar(r, PasanganBaris(r))
    BY <2>1, <2>2 DEF Tersimpan, Segar
  <2>. QED  BY <2>1, <2>3, <2>4 DEF Tersimpan, RencanaSah, SegarBaris
<1>. QED  BY <1>1, <1>2

\* Numbers stay gapless and unrepeated, and a confirmation is raised once.
LEMMA SimpanRegister ==
  ASSUME IndInv, NEW p \in Proses, NEW r, Tersimpan(p, r)
  PROVE  NomorWajar' /\ RegisterSah'
<1>0. /\ Len(masalah) \in Nat /\ DOMAIN masalah = 1..Len(masalah)
      /\ Len(konfirmasi) \in Nat /\ DOMAIN konfirmasi = 1..Len(konfirmasi)
  BY Baris DEF IndInv
<1>1. ASSUME NEW m \in DOMAIN masalah
      PROVE  /\ m \in DOMAIN masalah' /\ masalah[m] \in BarisMasalah
             /\ masalah'[m].nomor = masalah[m].nomor /\ masalah'[m].konteks = masalah[m].konteks
             /\ masalah'[m].asal = masalah[m].asal
  BY MasalahSesudah, Baris DEF MasalahDitulis, IndInv
<1>2. ASSUME NEW m \in DOMAIN masalah', m \notin DOMAIN masalah
      PROVE  /\ r.daftar # Nihil /\ m = Len(masalah) + 1 /\ masalah'[m] = r.daftar
             /\ r.daftar \in BarisMasalah
  BY <1>2, MasalahSesudah
<1>3. NomorWajar'
  <2>. SUFFICES ASSUME NEW m \in DOMAIN masalah' PROVE masalah'[m].nomor <= m
    BY DEF NomorWajar
  <2>1. CASE m \in DOMAIN masalah
    BY <1>1, <2>1 DEF IndInv, NomorWajar
  <2>2. CASE m \notin DOMAIN masalah
    BY <1>2, <2>2 DEF Tersimpan, RencanaSah, BentukDaftar
  <2>. QED  BY <2>1, <2>2
<1>4. ASSUME NEW m \in DOMAIN masalah', NEW i \in 1..(masalah'[m].nomor - 1)
      PROVE  \E n \in 1..(m - 1) : /\ masalah'[n].konteks = masalah'[m].konteks
                                   /\ masalah'[n].nomor = i
  <2>1. CASE m \in DOMAIN masalah
    <3>1. PICK n \in 1..(m - 1) : masalah[n].konteks = masalah[m].konteks /\ masalah[n].nomor = i
      <4>1. RegisterSah /\ i \in 1..(masalah[m].nomor - 1)
        BY <1>1, <1>4, <2>1 DEF IndInv, MasalahSah
      <4>. QED  BY <2>1, <4>1 DEF RegisterSah
    <3>2. n \in DOMAIN masalah
      BY <1>0, <2>1
    <3>. QED  BY <1>1, <2>1, <3>1, <3>2
  <2>2. CASE m \notin DOMAIN masalah
    <3>1. r.daftar # Nihil /\ m = Len(masalah) + 1 /\ masalah'[m] = r.daftar
      BY <1>2, <2>2
    <3>2. PICK n \in DOMAIN masalah : masalah[n].konteks = r.daftar.konteks /\ masalah[n].nomor = i
      BY <1>4, <3>1 DEF Tersimpan, RencanaSah, BentukDaftar
    <3>3. n \in 1..(m - 1)
      BY <1>0, <3>1
    <3>4. masalah'[n].konteks = masalah'[m].konteks /\ masalah'[n].nomor = i
      BY <1>1, <3>1, <3>2
    <3>. QED  BY <3>3, <3>4
  <2>. QED  BY <2>1, <2>2
<1>5. ASSUME NEW m \in DOMAIN masalah', NEW n \in DOMAIN masalah' \ {m}
      PROVE  <<masalah'[n].konteks, masalah'[n].nomor>> # <<masalah'[m].konteks, masalah'[m].nomor>>
  <2>1. CASE m \in DOMAIN masalah /\ n \in DOMAIN masalah
    <3>1. <<masalah[n].konteks, masalah[n].nomor>> # <<masalah[m].konteks, masalah[m].nomor>>
      BY <2>1 DEF IndInv, MasalahSah, RegisterSah
    <3>. QED  BY <1>1, <2>1, <3>1
  <2>2. ASSUME NEW a \in DOMAIN masalah, r.daftar # Nihil
        PROVE  <<masalah'[a].konteks, masalah'[a].nomor>> # <<r.daftar.konteks, r.daftar.nomor>>
    <3>1. <<masalah[a].konteks, masalah[a].nomor>> # <<r.daftar.konteks, r.daftar.nomor>>
      BY <2>2 DEF Tersimpan, Simpan, KodeBebas
    <3>. QED  BY <1>1, <3>1
  <2>3. m \in DOMAIN masalah \/ n \in DOMAIN masalah
    BY <1>2
  <2>. QED  BY <1>2, <2>1, <2>2, <2>3
<1>6. ASSUME NEW m \in DOMAIN masalah', NEW b, b = masalah'[m].asal, b # 0
      PROVE  /\ b \in DOMAIN konfirmasi /\ konfirmasi'[b].status = "terkirim"
             /\ Pasangan(b)' \notin tumpang' =>
                  /\ konfirmasi'[b].isi \in MenyebutBaru
                  /\ \A n \in DOMAIN masalah' \ {m} : masalah'[n].asal # b
  <2>1. b \in DOMAIN konfirmasi /\ konfirmasi[b].status = "terkirim"
    <3>1. CASE m \in DOMAIN masalah
      <4>1. b = masalah[m].asal /\ b \in Nat /\ b <= Len(konfirmasi)
        BY <1>1, <1>6, <3>1 DEF IndInv, TypeOK, BarisMasalah
      <4>2. b \in DOMAIN konfirmasi
        BY <1>0, <1>6, <4>1
      <4>3. konfirmasi[masalah[m].asal].status = "terkirim"
        BY <1>6, <3>1, <4>1 DEF IndInv, MasalahSah, RegisterSah
      <4>. QED  BY <4>1, <4>2, <4>3
    <3>2. CASE m \notin DOMAIN masalah
      BY <1>2, <1>6, <3>2 DEF Tersimpan, RencanaSah, BentukDaftar
    <3>. QED  BY <3>1, <3>2
  <2>2. BarisTertulis(r, b, konfirmasi'[b]) /\ Pasangan(b)' = Pasangan(b)
    BY <2>1, BarisSebelum
  <2>3. ASSUME Pasangan(b) \notin tumpang'
        PROVE  /\ konfirmasi'[b].isi \in MenyebutBaru
               /\ \A n \in DOMAIN masalah' \ {m} : masalah'[n].asal # b
    <3>1. Pasangan(b) \in r.obyek => Segar(r, Pasangan(b))
      BY <2>3 DEF Tersimpan, Segar
    <3>2. konfirmasi'[b].isi = konfirmasi[b].isi
      <4>1. b = r.k => Pasangan(b) \in r.obyek
        BY <1>6 DEF Tersimpan, RencanaSah, BentukBaris
      <4>2. b = r.k => r.isi = Nihil
        BY <1>6, <2>1, <3>1, <4>1 DEF Tersimpan, RencanaSah, SegarBaris
      <4>. QED  BY <2>2, <4>2 DEF BarisTertulis
    <3>3. ASSUME NEW n \in DOMAIN masalah, masalah[n].asal = b
          PROVE  konfirmasi[b].isi \in MenyebutBaru /\ \A a \in DOMAIN masalah \ {n} : masalah[a].asal # b
      BY <1>6, <2>3, <3>3 DEF IndInv, MasalahSah, RegisterSah, Tersimpan, Pasangan
    <3>4. ASSUME r.daftar # Nihil, r.daftar.asal = b
          PROVE  konfirmasi[b].isi \in MenyebutBaru /\ \A a \in DOMAIN masalah : masalah[a].asal # b
      <4>1. Pasangan(b) \in r.obyek
        BY <1>6, <3>4 DEF Tersimpan, RencanaSah, BentukDaftar
      <4>. QED  BY <1>6, <3>1, <3>4, <4>1 DEF Tersimpan, RencanaSah, SegarMasalah
    <3>5. CASE m \in DOMAIN masalah
      <4>1. masalah[m].asal = b
        BY <1>1, <1>6, <3>5
      <4>2. konfirmasi[b].isi \in MenyebutBaru /\ \A a \in DOMAIN masalah \ {m} : masalah[a].asal # b
        BY <3>3, <3>5, <4>1
      <4>3. ~(r.daftar # Nihil /\ r.daftar.asal = b)
        BY <3>4, <3>5, <4>1
      <4>. QED  BY <1>1, <1>2, <3>2, <4>2, <4>3
    <3>6. CASE m \notin DOMAIN masalah
      <4>1. r.daftar # Nihil /\ r.daftar.asal = b /\ m = Len(masalah) + 1
        BY <1>2, <1>6, <3>6
      <4>2. konfirmasi[b].isi \in MenyebutBaru /\ \A a \in DOMAIN masalah : masalah[a].asal # b
        BY <3>4, <4>1
      <4>3. \A n \in DOMAIN masalah' \ {m} : n \in DOMAIN masalah
        BY <1>2, <4>1
      <4>. QED  BY <1>1, <3>2, <4>2, <4>3
    <3>. QED  BY <3>5, <3>6
  <2>. QED  BY <2>1, <2>2, <2>3 DEF BarisTertulis
<1>7. RegisterSah'
  BY <1>4, <1>5, <1>6 DEF RegisterSah, Pasangan
<1>. QED  BY <1>3, <1>7

\* b was sent about problem m.
Terkirim(m, b) == b \in DOMAIN konfirmasi /\ konfirmasi[b].masalah = m /\ konfirmasi[b].status = "terkirim"

\* EfekTerkirim, by what was sent.
Benar(m) ==
  /\ (\A b : ~Terkirim(m, b)) => masalah[m].beku = Nihil
  /\ \A b : Terkirim(m, b) => masalah[m].beku = masalah[m].awal
  /\ (\A o \in Orang : <<m, o>> \notin tumpang) =>
       (masalah[m].eskalasi <=> \E b : Terkirim(m, b) /\ konfirmasi[b].isi \in Berisiko)

EfekBenar == \A m \in DOMAIN masalah : <<m, Tim>> \notin tumpang => Benar(m)

LEMMA EfekPerMasalah == EfekTerkirim <=> EfekBenar
<1>. DEFINE kiriman(m) == {b \in DOMAIN konfirmasi : /\ konfirmasi[b].masalah = m
                                                      /\ konfirmasi[b].status = "terkirim"}
<1>1. \A m, b : b \in kiriman(m) <=> Terkirim(m, b)
  BY DEF Terkirim
<1>2. \A m : kiriman(m) = {} <=> \A b : ~Terkirim(m, b)
  BY <1>1
<1>3. EfekTerkirim <=>
        \A m \in DOMAIN masalah :
          <<m, Tim>> \notin tumpang =>
            /\ masalah[m].beku = IF kiriman(m) = {} THEN Nihil ELSE masalah[m].awal
            /\ (\A o \in Orang : <<m, o>> \notin tumpang) =>
                 (masalah[m].eskalasi <=> \E b \in kiriman(m) : konfirmasi[b].isi \in Berisiko)
  BY DEF EfekTerkirim
<1>. HIDE DEF kiriman
<1>. QED  BY <1>1, <1>2, <1>3 DEF EfekBenar, Benar

\* What is sent about problem m by the commit of r.
LEMMA TerkirimSesudah ==
  ASSUME IndInv, NEW p \in Proses, NEW r, Tersimpan(p, r), NEW m, NEW b
  PROVE  Terkirim(m, b)' <=>
           \/ Terkirim(m, b)
           \/ r.kirim /\ b = r.k /\ konfirmasi[b].masalah = m
           \/ KirimanBaru(r) /\ b = Len(konfirmasi) + 1 /\ r.baris.masalah = m
<1>0. /\ Len(konfirmasi) \in Nat /\ DOMAIN konfirmasi = 1..Len(konfirmasi)
      /\ r.kirim => r.k \in DOMAIN konfirmasi
  BY Baris DEF IndInv, Tersimpan, RencanaSah, BentukBaris
<1>1. CASE b \in DOMAIN konfirmasi
  <2>1. b \in DOMAIN konfirmasi' /\ BarisTertulis(r, b, konfirmasi'[b])
    BY <1>1, BarisSebelum
  <2>2. b # Len(konfirmasi) + 1
    BY <1>0, <1>1
  <2>. QED  BY <1>1, <2>1, <2>2 DEF Terkirim, BarisTertulis
<1>2. CASE b \notin DOMAIN konfirmasi
  <2>1. ~Terkirim(m, b) /\ ~(r.kirim /\ b = r.k)
    BY <1>0, <1>2 DEF Terkirim
  <2>2. CASE b \in DOMAIN konfirmasi'
    <3>1. Memasukkan(r) /\ b = Len(konfirmasi) + 1 /\ konfirmasi'[b] = r.baris
      BY <1>2, <2>2, BarisSesudah
    <3>. QED  BY <2>1, <2>2, <3>1 DEF Terkirim, KirimanBaru
  <2>3. CASE b \notin DOMAIN konfirmasi'
    <3>1. ~(KirimanBaru(r) /\ b = Len(konfirmasi) + 1)
      BY <1>0, <2>3 DEF KirimanBaru, Tersimpan, TulisanKonfirmasi
    <3>. QED  BY <2>1, <2>3, <3>1 DEF Terkirim
  <2>. QED  BY <2>2, <2>3
<1>. QED  BY <1>1, <1>2

\* What was sent of a pair that is not in tumpang afterwards says what it said.
LEMMA IsiTetap ==
  ASSUME IndInv, NEW p \in Proses, NEW r, Tersimpan(p, r),
         NEW b \in DOMAIN konfirmasi, Pasangan(b) \notin tumpang', konfirmasi[b].status = "terkirim"
  PROVE  konfirmasi'[b].isi = konfirmasi[b].isi /\ konfirmasi'[b].cerita = konfirmasi[b].cerita
<1>1. b = r.k => Pasangan(b) \in r.obyek /\ b # 0
  BY Baris DEF Tersimpan, RencanaSah, BentukBaris, IndInv
<1>2. b = r.k => r.isi = Nihil /\ r.cerita = Nihil
  BY <1>1 DEF Tersimpan, RencanaSah, SegarBaris, Segar
<1>. QED  BY <1>2, BarisSebelum DEF BarisTertulis

LEMMA SimpanEfek ==
  ASSUME IndInv, NEW p \in Proses, NEW r, Tersimpan(p, r)
  PROVE  EfekTerkirim'
<1>0. /\ Len(konfirmasi) \in Nat /\ DOMAIN konfirmasi = 1..Len(konfirmasi)
      /\ Len(masalah) \in Nat /\ DOMAIN masalah = 1..Len(masalah)
      /\ BentukBaris(r) /\ BentukMasalah(r) /\ BentukDaftar(r) /\ SegarMasalah(r)
  BY Baris DEF IndInv, Tersimpan, RencanaSah
<1>1. ASSUME NEW m \in DOMAIN masalah, <<m, Tim>> \notin tumpang
      PROVE  Benar(m)
  BY <1>1, EfekPerMasalah DEF IndInv, MasalahSah, EfekBenar
<1>. DEFINE Baru(m, b) == \/ r.kirim /\ b = r.k /\ konfirmasi[b].masalah = m
                          \/ KirimanBaru(r) /\ b = Len(konfirmasi) + 1 /\ r.baris.masalah = m
\* A problem that is new.
<1>2. ASSUME NEW m \in DOMAIN masalah', m \notin DOMAIN masalah
      PROVE  Benar(m)'
  <2>1. masalah'[m] = r.daftar /\ r.daftar # Nihil /\ r.daftar \in BarisMasalah /\ m = Len(masalah) + 1
    BY <1>2, MasalahSesudah
  <2>2. masalah'[m].beku = Nihil /\ ~masalah'[m].eskalasi
    BY <1>0, <2>1 DEF BentukDaftar
  <2>3. ASSUME NEW b PROVE ~Terkirim(m, b)'
    <3>1. ~Terkirim(m, b)
      BY <1>0, <2>1, Baris DEF Terkirim, IndInv, TypeOK, BarisKonfirmasi
    <3>2. ~Baru(m, b)
      <4>1. r.kirim => konfirmasi[r.k].masalah \in DOMAIN masalah
        BY <1>0, ObyekBaris DEF BentukBaris, IndInv
      <4>. QED  BY <1>0, <1>2, <4>1 DEF BentukBaris, KirimanBaru
    <3>. QED  BY <3>1, <3>2, TerkirimSesudah
  <2>. QED  BY <2>2, <2>3 DEF Benar
\* One that r does not write to: what was sent about it is what was.
<1>3. ASSUME NEW m \in DOMAIN masalah, m # r.m, <<m, Tim>> \notin tumpang'
      PROVE  Benar(m)'
  <2>1. masalah'[m] = masalah[m] /\ Benar(m)
    BY <1>1, <1>3, MasalahSesudah DEF MasalahDitulis, Tersimpan
  <2>2. \A b : ~Baru(m, b)
    BY <1>0, <1>3 DEF BentukBaris, BentukMasalah
  <2>3. \A b : Terkirim(m, b)' <=> Terkirim(m, b)
    BY <2>2, TerkirimSesudah
  <2>4. ASSUME \A o \in Orang : <<m, o>> \notin tumpang'
        PROVE  \A b : Terkirim(m, b) => konfirmasi'[b].isi = konfirmasi[b].isi
    BY <2>4, IsiTetap, Baris DEF Terkirim, Pasangan, IndInv, BarisKonfirmasi
  <2>5. (\A o \in Orang : <<m, o>> \notin tumpang') => \A o \in Orang : <<m, o>> \notin tumpang
    BY DEF Tersimpan
  <2>. HIDE DEF Baru
  <2>. QED  BY <2>1, <2>3, <2>4, <2>5 DEF Benar
\* The one r writes to, as it knows it.
<1>4. ASSUME NEW m \in DOMAIN masalah, m = r.m, <<m, Tim>> \notin tumpang'
      PROVE  Benar(m)'
  <2>0. r \in Rencana /\ masalah[m] \in BarisMasalah /\ m # 0
    BY Baris DEF Tersimpan, IndInv
  <2>1. Benar(m) /\ MasalahDitulis(r, m, masalah'[m]) /\ <<m, Tim>> \notin tumpang
    BY <1>1, <1>4, MasalahSesudah DEF Tersimpan
  <2>2. Segar(r, <<r.m, Tim>>)
    BY <1>0, <1>4, <2>0 DEF BentukMasalah, Tersimpan, Segar
  <2>3. (\A o \in Orang : <<m, o>> \notin tumpang') => \A o \in Orang : <<m, o>> \notin tumpang
    BY DEF Tersimpan
  <2>4. ASSUME \A o \in Orang : <<m, o>> \notin tumpang'
        PROVE  \A b : Terkirim(m, b) => konfirmasi'[b].isi = konfirmasi[b].isi
    BY <2>4, IsiTetap, Baris DEF Terkirim, Pasangan, IndInv, BarisKonfirmasi
  <2>5. CASE ~Mengirim(r)
    <3>1. r.beku = Nihil /\ ~r.eskalasi
      BY <1>0, <2>5 DEF BentukMasalah
    <3>2. \A b : ~Baru(m, b)
      BY <2>5 DEF Mengirim
    <3>3. \A b : Terkirim(m, b)' <=> Terkirim(m, b)
      BY <3>2, TerkirimSesudah
    <3>4. masalah'[m].beku = masalah[m].beku /\ (masalah'[m].eskalasi <=> masalah[m].eskalasi)
      BY <2>1, <3>1 DEF MasalahDitulis
    <3>5. ASSUME NEW b, Terkirim(m, b) PROVE masalah'[m].awal = masalah[m].awal
      <4>1. masalah[m].beku # Nihil
        BY <2>0, <2>1, <3>5, KonfirmasiAssumption DEF BarisMasalah, Benar
      <4>2. r.awal = Nihil
        BY <1>0, <1>4, <2>0, <2>2, <4>1 DEF SegarMasalah
      <4>. QED  BY <2>1, <4>2 DEF MasalahDitulis
    <3>. HIDE DEF Baru
    <3>. QED  BY <2>1, <2>3, <2>4, <3>3, <3>4, <3>5 DEF Benar
  <2>6. CASE Mengirim(r)
    <3>1. r.beku = BekukanBila(m) /\ r.awal = Nihil
      BY <1>0, <1>4, <2>0, <2>2, <2>6 DEF SegarMasalah, BentukMasalah
    <3>2. masalah'[m].awal = masalah[m].awal /\ masalah'[m].beku = masalah[m].awal
      <4>1. masalah[m].awal # Nihil
        BY <2>0, KonfirmasiAssumption DEF BarisMasalah
      <4>2. masalah[m].beku = Nihil \/ masalah[m].beku = masalah[m].awal
        BY <2>1 DEF Benar
      <4>. QED  BY <1>4, <2>1, <3>1, <4>1, <4>2 DEF MasalahDitulis, BekukanBila
    <3>3. PICK b : Baru(m, b)
      <4>1. CASE r.kirim
        BY <1>0, <1>4, <4>1 DEF BentukBaris
      <4>2. CASE KirimanBaru(r)
        BY <1>0, <1>4, <4>2 DEF BentukMasalah
      <4>. QED  BY <2>6, <4>1, <4>2 DEF Mengirim
    <3>4. Terkirim(m, b)' /\ \A c : Terkirim(m, c)' <=> Terkirim(m, c) \/ Baru(m, c)
      BY <3>3, TerkirimSesudah
    <3>5. \A c : Baru(m, c) => c = b
      BY <1>0, <3>3 DEF BentukBaris, KirimanBaru
    <3>6. ASSUME \A o \in Orang : <<m, o>> \notin tumpang'
          PROVE  masalah'[m].eskalasi <=> masalah[m].eskalasi \/ konfirmasi'[b].isi \in Berisiko
      <4>1. CASE r.kirim
        <5>1. b = r.k /\ b \in DOMAIN konfirmasi /\ Pasangan(b) \in r.obyek /\ r.isi = Nihil
              /\ konfirmasi[b].masalah = m
          BY <1>0, <3>3, <4>1 DEF BentukBaris, KirimanBaru
        <5>2. Segar(r, Pasangan(r.k))
          BY <3>6, <5>1, Baris DEF Tersimpan, Segar, Pasangan, IndInv, BarisKonfirmasi
        <5>3. r.eskalasi = EskalasiBila(m, konfirmasi[b].isi)
          BY <1>0, <1>4, <2>0, <2>2, <4>1, <5>1, <5>2 DEF SegarMasalah
        <5>4. konfirmasi'[b].isi = konfirmasi[b].isi
          BY <5>1, BarisSebelum DEF BarisTertulis
        <5>. QED  BY <1>4, <2>1, <5>3, <5>4 DEF MasalahDitulis, EskalasiBila
      <4>2. CASE ~r.kirim
        <5>1. KirimanBaru(r) /\ b = Len(konfirmasi) + 1 /\ konfirmasi'[b] = r.baris
          BY <3>3, <4>2 DEF KirimanBaru, Tersimpan, TulisanKonfirmasi
        <5>2. r.eskalasi = EskalasiBila(m, r.baris.isi)
          BY <1>0, <1>4, <2>0, <2>2, <5>1 DEF SegarMasalah
        <5>. QED  BY <1>4, <2>1, <5>1, <5>2 DEF MasalahDitulis, EskalasiBila
      <4>. QED  BY <4>1, <4>2
    <3>. HIDE DEF Baru
    <3>7. ASSUME \A o \in Orang : <<m, o>> \notin tumpang'
          PROVE  masalah'[m].eskalasi <=> \E c : Terkirim(m, c)' /\ konfirmasi'[c].isi \in Berisiko
      <4>1. masalah[m].eskalasi <=> \E c : Terkirim(m, c) /\ konfirmasi[c].isi \in Berisiko
        BY <2>1, <2>3, <3>7 DEF Benar
      <4>. QED  BY <2>4, <3>4, <3>5, <3>6, <3>7, <4>1
    <3>. QED  BY <3>2, <3>4, <3>7 DEF Benar
  <2>. QED  BY <2>5, <2>6
<1>5. EfekBenar'
  BY <1>2, <1>3, <1>4 DEF EfekBenar
<1>. QED  BY <1>5, EfekPerMasalah, PTL

\* The plan of another request stays sound: what it rests on for good is never
\* undone, and an object r wrote to it no longer claims to know.
LEMMA RencanaBertahan ==
  ASSUME IndInv, NEW p \in Proses, NEW r, Tersimpan(p, r),
         NEW s \in Rencana, RencanaSah(s),
         NEW t, t.obyek = s.obyek, t.basi = s.basi \cup (s.obyek \cap r.obyek),
         t.k = s.k, t.m = s.m, t.kirim = s.kirim, t.kunci = s.kunci, t.tampil = s.tampil,
         t.cerita = s.cerita, t.isi = s.isi, t.awal = s.awal, t.beku = s.beku,
         t.eskalasi = s.eskalasi, t.baris = s.baris, t.daftar = s.daftar
  PROVE  RencanaSah(t)'
<1>0. /\ Len(konfirmasi) \in Nat /\ DOMAIN konfirmasi = 1..Len(konfirmasi)
      /\ Len(masalah) \in Nat /\ DOMAIN masalah = 1..Len(masalah)
      /\ Len(masalah') \in Nat /\ Len(masalah) <= Len(masalah')
      /\ BentukBaris(r) /\ BentukMasalah(r) /\ BentukDaftar(r)
  BY Baris DEF IndInv, Tersimpan, RencanaSah, TulisanMasalah
<1>3. ASSUME NEW b \in DOMAIN konfirmasi
      PROVE  /\ b \in DOMAIN konfirmasi' /\ Pasangan(b)' = Pasangan(b)
             /\ konfirmasi'[b].masalah = konfirmasi[b].masalah
             /\ konfirmasi[b].status = "terkirim" => konfirmasi'[b].status = "terkirim"
             /\ konfirmasi[b].kunci => konfirmasi'[b].kunci
             /\ konfirmasi[b].tampil => konfirmasi'[b].tampil
  BY BarisSebelum DEF BarisTertulis
<1>4. \A x : AdaLuring(x) => AdaLuring(x)'
  BY BarisSebelum DEF AdaLuring, BarisTertulis
\* What s still knows, r has not written to.
<1>5. ASSUME NEW x, Segar(t, x)'
      PROVE  Segar(s, x) /\ x \notin r.obyek
  BY <1>5 DEF Segar, Tersimpan
<1>6. ASSUME NEW b \in DOMAIN konfirmasi, Pasangan(b) \notin r.obyek
      PROVE  konfirmasi'[b] = konfirmasi[b]
  <2>1. b # r.k
    BY <1>0, <1>6 DEF BentukBaris
  <2>. QED  BY <2>1, BarisSebelum DEF BarisTertulis
<1>7. ASSUME NEW x, x \notin r.obyek, NEW b \in DOMAIN konfirmasi', Pasangan(b)' = x
      PROVE  b \in DOMAIN konfirmasi /\ Pasangan(b) = x
  BY <1>0, <1>7, BarisSesudah DEF BentukBaris
<1>8. ASSUME NEW m \in DOMAIN masalah
      PROVE  /\ m \in DOMAIN masalah'
             /\ masalah'[m].konteks = masalah[m].konteks /\ masalah'[m].nomor = masalah[m].nomor
             /\ masalah'[m].asal = masalah[m].asal
             /\ <<m, Tim>> \notin r.obyek => masalah'[m] = masalah[m]
  BY <1>0, MasalahSesudah DEF MasalahDitulis, BentukMasalah
<1>9. BentukBaris(t)'
  <2>1. BentukBaris(s)
    BY DEF RencanaSah
  <2>. QED  BY <1>3, <1>8, <2>1 DEF BentukBaris, Memasukkan, PasanganBaris
<1>10. BentukMasalah(t)'
  <2>1. BentukMasalah(s)
    BY DEF RencanaSah
  <2>. QED  BY <1>8, <2>1 DEF BentukMasalah, Memasukkan, Mengirim, KirimanBaru
<1>11. BentukDaftar(t)'
  <2>1. BentukDaftar(s)
    BY DEF RencanaSah
  <2>. SUFFICES ASSUME s.daftar # Nihil
                PROVE  /\ s.daftar.beku = Nihil /\ ~s.daftar.eskalasi
                       /\ s.daftar.asal # 0 =>
                            /\ s.daftar.asal \in DOMAIN konfirmasi'
                            /\ Pasangan(s.daftar.asal)' \in t.obyek
                            /\ konfirmasi'[s.daftar.asal].status = "terkirim"
                       /\ s.daftar.nomor <= Len(masalah') + 1
                       /\ \A i \in 1..(s.daftar.nomor - 1) :
                            \E n \in DOMAIN masalah' : /\ masalah'[n].konteks = s.daftar.konteks
                                                      /\ masalah'[n].nomor = i
    BY DEF BentukDaftar
  <2>2. s.daftar.nomor \in Nat
    BY DEF Rencana, BarisMasalah
  <2>3. s.daftar.nomor <= Len(masalah') + 1
    BY <1>0, <2>1, <2>2 DEF BentukDaftar
  <2>4. ASSUME NEW i \in 1..(s.daftar.nomor - 1)
        PROVE  \E n \in DOMAIN masalah' : masalah'[n].konteks = s.daftar.konteks /\ masalah'[n].nomor = i
    BY <1>8, <2>1 DEF BentukDaftar
  <2>. QED  BY <1>3, <2>1, <2>3, <2>4 DEF BentukDaftar
<1>12. DugaanDulu(t)'
  <2>1. DugaanDulu(s) /\ BentukBaris(s)
    BY DEF RencanaSah
  <2>2. s.k # 0 =>
          /\ s.tampil => konfirmasi'[s.k].kunci
          /\ s.isi # Nihil => konfirmasi'[s.k].tampil
          /\ s.kirim => konfirmasi'[s.k].tampil \/ AdaLuring(Pasangan(s.k))
    BY <1>3, <2>1 DEF DugaanDulu, BentukBaris
  <2>3. s.k # 0 /\ AdaLuring(Pasangan(s.k)) => AdaLuring(Pasangan(s.k))'
    BY <1>3, <1>4, <2>1 DEF BentukBaris, AdaLuring
  <2>. QED
    BY <1>4, <2>1, <2>2, <2>3 DEF DugaanDulu, Memasukkan, KirimanBaru, PasanganBaris
<1>13. SegarBaris(t)'
  <2>1. SegarBaris(s) /\ BentukBaris(s)
    BY DEF RencanaSah
  <2>2. ASSUME s.k # 0, Segar(t, Pasangan(s.k))'
        PROVE  /\ s.cerita # Nihil => konfirmasi'[s.k].status = "draf" /\ ~konfirmasi'[s.k].kunci
               /\ s.isi # Nihil \/ s.kunci => konfirmasi'[s.k].status = "draf"
    <3>1. s.k \in DOMAIN konfirmasi /\ Pasangan(s.k)' = Pasangan(s.k)
      BY <1>3, <2>1, <2>2 DEF BentukBaris
    <3>2. Segar(s, Pasangan(s.k)) /\ Pasangan(s.k) \notin r.obyek
      BY <1>5, <2>2, <3>1 DEF Segar
    <3>. QED  BY <1>6, <2>1, <2>2, <3>1, <3>2 DEF SegarBaris
  <2>3. ASSUME Memasukkan(s), Segar(t, PasanganBaris(s))', NEW g, g = s.baris.gantikan
        PROVE  /\ \A a \in DOMAIN konfirmasi' :
                    Pasangan(a)' = PasanganBaris(s) => a <= g /\ konfirmasi'[a].status = "terkirim"
               /\ g # 0 /\ konfirmasi'[g].kunci =>
                    s.baris.kunci /\ s.baris.cerita = konfirmasi'[g].cerita
    <3>1. Segar(s, PasanganBaris(s)) /\ PasanganBaris(s) \notin r.obyek
      BY <1>5, <2>3 DEF PasanganBaris
    <3>2. /\ \A a \in DOMAIN konfirmasi :
               Pasangan(a) = PasanganBaris(s) => a <= g /\ konfirmasi[a].status = "terkirim"
          /\ g # 0 /\ konfirmasi[g].kunci => s.baris.kunci /\ s.baris.cerita = konfirmasi[g].cerita
          /\ g # 0 => g \in DOMAIN konfirmasi /\ Pasangan(g) = PasanganBaris(s)
      BY <2>1, <2>3, <3>1 DEF SegarBaris, BentukBaris
    <3>3. g # 0 => konfirmasi'[g] = konfirmasi[g]
      BY <1>6, <3>1, <3>2
    <3>4. ASSUME NEW a \in DOMAIN konfirmasi', Pasangan(a)' = PasanganBaris(s)
          PROVE  a <= g /\ konfirmasi'[a].status = "terkirim"
      <4>1. a \in DOMAIN konfirmasi /\ Pasangan(a) = PasanganBaris(s)
        BY <1>7, <3>1, <3>4
      <4>. QED  BY <1>3, <3>2, <4>1
    <3>. QED  BY <3>2, <3>3, <3>4
  <2>. QED  BY <2>2, <2>3 DEF SegarBaris, Memasukkan, PasanganBaris
<1>14. SegarMasalah(t)'
  <2>1. SegarMasalah(s) /\ BentukBaris(s) /\ BentukMasalah(s) /\ BentukDaftar(s)
    BY DEF RencanaSah
  <2>2. ASSUME s.m # 0, Segar(t, <<s.m, Tim>>)'
        PROVE  /\ s.awal # Nihil => masalah'[s.m].beku = Nihil
               /\ Mengirim(s) => s.beku = BekukanBila(s.m)'
               /\ KirimanBaru(s) => s.eskalasi = EskalasiBila(s.m, s.baris.isi)'
               /\ s.kirim /\ Segar(t, Pasangan(s.k))' =>
                    s.eskalasi = EskalasiBila(s.m, konfirmasi[s.k].isi)'
    <3>1. Segar(s, <<s.m, Tim>>) /\ <<s.m, Tim>> \notin r.obyek
      BY <1>5, <2>2
    <3>2. s.m \in DOMAIN masalah /\ masalah'[s.m] = masalah[s.m]
      BY <1>8, <2>1, <2>2, <3>1 DEF BentukMasalah
    <3>3. /\ s.awal # Nihil => masalah[s.m].beku = Nihil
          /\ Mengirim(s) => s.beku = BekukanBila(s.m)
          /\ KirimanBaru(s) => s.eskalasi = EskalasiBila(s.m, s.baris.isi)
          /\ s.kirim /\ Segar(s, Pasangan(s.k)) =>
               s.eskalasi = EskalasiBila(s.m, konfirmasi[s.k].isi)
      BY <2>1, <2>2, <3>1 DEF SegarMasalah
    <3>4. ASSUME s.kirim, Segar(t, Pasangan(s.k))'
          PROVE  Segar(s, Pasangan(s.k)) /\ konfirmasi'[s.k].isi = konfirmasi[s.k].isi
      <4>1. s.k \in DOMAIN konfirmasi /\ Pasangan(s.k)' = Pasangan(s.k)
        BY <1>3, <2>1, <3>4 DEF BentukBaris
      <4>2. Segar(s, Pasangan(s.k)) /\ Pasangan(s.k) \notin r.obyek
        BY <1>5, <3>4, <4>1 DEF Segar
      <4>. QED  BY <1>6, <4>1, <4>2
    <3>. QED  BY <3>2, <3>3, <3>4 DEF BekukanBila, EskalasiBila
  <2>3. ASSUME s.daftar # Nihil, NEW b, b = s.daftar.asal, b # 0, Segar(t, Pasangan(b))'
        PROVE  konfirmasi'[b].isi \in MenyebutBaru /\ \A m \in DOMAIN masalah' : masalah'[m].asal # b
    <3>1. b \in DOMAIN konfirmasi /\ Pasangan(b)' = Pasangan(b)
      BY <1>3, <2>1, <2>3 DEF BentukDaftar
    <3>2. Segar(s, Pasangan(b)) /\ Pasangan(b) \notin r.obyek
      BY <1>5, <2>3, <3>1 DEF Segar
    <3>3. konfirmasi[b].isi \in MenyebutBaru /\ \A m \in DOMAIN masalah : masalah[m].asal # b
      BY <2>1, <2>3, <3>2 DEF SegarMasalah
    <3>4. r.daftar # Nihil => r.daftar.asal # b
      BY <1>0, <2>3, <3>2 DEF BentukDaftar
    <3>5. ASSUME NEW m \in DOMAIN masalah' PROVE masalah'[m].asal # b
      <4>1. CASE m \in DOMAIN masalah
        BY <1>8, <3>3, <4>1
      <4>2. CASE m \notin DOMAIN masalah
        BY <3>4, <4>2, MasalahSesudah
      <4>. QED  BY <4>1, <4>2
    <3>6. konfirmasi'[b] = konfirmasi[b]
      BY <1>6, <3>1, <3>2
    <3>. QED  BY <3>3, <3>5, <3>6
  <2>. QED  BY <2>1, <2>2, <2>3 DEF SegarMasalah, Mengirim, KirimanBaru, Memasukkan
<1>. QED  BY <1>9, <1>10, <1>11, <1>12, <1>13, <1>14 DEF RencanaSah

LEMMA LangkahSimpan ==
  ASSUME IndInv, NEW p \in Proses, Simpan(p)
  PROVE  IndInv'
<1>1. PICK r : Tersimpan(p, r)
  BY Menyimpan
<1>2. ASSUME NEW q \in Proses
      PROVE  RencanaSah(rencana[q])'
  <2>1. CASE q = p
    <3>1. rencana'[q] = Diam
      BY <1>1, <2>1, RencanaSesudah
    <3>. QED
      BY <3>1 DEF Diam, RencanaSah, BentukBaris, BentukMasalah, BentukDaftar, DugaanDulu,
         SegarBaris, SegarMasalah, Memasukkan, Mengirim, KirimanBaru
  <2>2. CASE q # p
    <3>1. PICK s, t : s = rencana[q] /\ t = rencana'[q]
      OBVIOUS
    <3>2. t = [s EXCEPT !.basi = s.basi \cup (s.obyek \cap r.obyek)]
      BY <1>1, <2>2, <3>1, RencanaSesudah
    <3>3. s \in Rencana /\ RencanaSah(s)
      BY <3>1 DEF IndInv, TypeOK
    <3>4. /\ t.obyek = s.obyek /\ t.basi = s.basi \cup (s.obyek \cap r.obyek)
          /\ t.k = s.k /\ t.m = s.m /\ t.kirim = s.kirim /\ t.kunci = s.kunci
          /\ t.tampil = s.tampil /\ t.cerita = s.cerita /\ t.isi = s.isi /\ t.awal = s.awal
          /\ t.beku = s.beku /\ t.eskalasi = s.eskalasi /\ t.baris = s.baris /\ t.daftar = s.daftar
      BY <3>2, <3>3 DEF Rencana
    <3>5. RencanaSah(t)'
      BY <1>1, <3>3, <3>4, RencanaBertahan
    <3>. QED  BY <3>1, <3>5
  <2>. QED  BY <2>1, <2>2
<1>. QED
  BY <1>1, <1>2, SimpanTipe, SimpanPenilaian, SimpanRantai, SimpanRalat, SimpanRegister, SimpanEfek
     DEF IndInv, MasalahSah

LEMMA LangkahStutter ==
  ASSUME IndInv, UNCHANGED vars
  PROVE  IndInv'
<1>1. TypeOK'
  BY DEF IndInv, TypeOK, vars
<1>2. (\A q \in Proses : RencanaSah(rencana[q]))'
  BY DEF IndInv, vars, RencanaSah, BentukBaris, BentukMasalah, BentukDaftar, DugaanDulu,
     SegarBaris, SegarMasalah, Segar, Memasukkan, Mengirim, KirimanBaru, PasanganBaris,
     Pasangan, AdaLuring, BekukanBila, EskalasiBila
<1>3. (PenilaianSesudahDugaan /\ RantaiSah /\ RalatTerkunci /\ NomorWajar /\ MasalahSah)'
  BY DEF IndInv, vars, PenilaianSesudahDugaan, RantaiSah, RalatTerkunci, NomorWajar, MasalahSah,
     EfekTerkirim, RegisterSah, Pasangan, Milik
<1>. QED  BY <1>1, <1>2, <1>3 DEF IndInv

LEMMA Terjaga == IndInv /\ [Next]_vars => IndInv'
<1>. SUFFICES ASSUME IndInv, [Next]_vars PROVE IndInv'
  OBVIOUS
<1>1. ASSUME NEW p \in Proses, BuatMasalah(p) PROVE IndInv'
  BY <1>1, LangkahBuatMasalah
<1>2. ASSUME NEW p \in Proses, UbahMasalah(p) PROVE IndInv'
  BY <1>2, LangkahUbahMasalah
<1>3. ASSUME NEW p \in Proses, StatusKonfirmasiMasalah(p) PROVE IndInv'
  BY <1>3, LangkahStatusKonfirmasi
<1>4. ASSUME NEW p \in Proses, CreateKonfirmasi(p) PROVE IndInv'
  BY <1>4, LangkahBuatDraf
<1>5. ASSUME NEW p \in Proses, UpdateKonfirmasi(p) PROVE IndInv'
  BY <1>5, LangkahUbah
<1>6. ASSUME NEW p \in Proses, KunciCeritaSaya(p) PROVE IndInv'
  BY <1>6, LangkahKunciCerita
<1>7. ASSUME NEW p \in Proses, TampilkanDugaanSaya(p) PROVE IndInv'
  BY <1>7, LangkahTampilkanDugaan
<1>8. ASSUME NEW p \in Proses, KirimKonfirmasi(p) PROVE IndInv'
  BY <1>8, LangkahKirim
<1>9. ASSUME NEW p \in Proses, RalatKonfirmasi(p) PROVE IndInv'
  BY <1>9, LangkahRalat
<1>10. ASSUME NEW p \in Proses, CreateKonfirmasiLuring(p) PROVE IndInv'
  BY <1>10, LangkahLuring
<1>11. ASSUME NEW p \in Proses, AngkatMasalahBaru(p) PROVE IndInv'
  BY <1>11, LangkahAngkatMasalah
<1>12. ASSUME NEW p \in Proses, Simpan(p) PROVE IndInv'
  BY <1>12, LangkahSimpan
<1>13. ASSUME NEW p \in Proses, Gagal(p) PROVE IndInv'
  BY <1>13, LangkahGagal
<1>14. CASE UNCHANGED vars
  BY <1>14, LangkahStutter
<1>. QED
  BY <1>1, <1>2, <1>3, <1>4, <1>5, <1>6, <1>7, <1>8, <1>9, <1>10, <1>11, <1>12, <1>13, <1>14
     DEF Next

-------------------------------------------------------------------------------
(* The theorems.                                                             *)

\* The invariant: what the rows are to each other and what each open request's
\* plan still knows hold in every state, whatever requests of
\* SqlKonfirmasiService and SqlMasalahService overlap.
THEOREM Invarian == Spec => []IndInv
BY Berawal, Terjaga, PTL DEF Spec

\* Every row and every plan has its type, corrections refer to earlier rows and
\* raised problems to confirmations there are.
THEOREM TipeBenar == Spec => []TypeOK
<1>1. IndInv => TypeOK
  BY DEF IndInv
<1>. QED  BY Invarian, <1>1, PTL

\* Nobody is shown the hypothesis before his story is locked and nobody assesses
\* or sends before he is shown it, except where a paper form came in: for any
\* overlap of update, kunci_cerita, tampilkan_dugaan, kirim, ralat and luring.
THEOREM DugaanSesudahCerita == Spec => []PenilaianSesudahDugaan
<1>1. IndInv => PenilaianSesudahDugaan
  BY DEF IndInv
<1>. QED  BY Invarian, <1>1, PTL

\* What sending does to a problem, and how the register is numbered and raised
\* to: _efek_terkirim, _kode_berikutnya with the unique code, angkat_masalah.
THEOREM RegisterBenar == Spec => []MasalahSah
<1>1. IndInv => MasalahSah
  BY DEF IndInv
<1>. QED  BY Invarian, <1>1, PTL

\* A set of numbers up to n that has a member has a greatest one.
LEMMA Terbesar ==
  ASSUME NEW n \in Nat, NEW S \in SUBSET (1..n), S # {}
  PROVE  \E i \in S : \A j \in S : j <= i
<1>. DEFINE T == {n - i : i \in S}
<1>1. T \in SUBSET Nat /\ T # {}
  <2>1. \A i \in S : n - i \in Nat
    OBVIOUS
  <2>. QED  BY <2>1
<1>2. PICK t \in T : \A u \in T : t <= u
  <2>. HIDE DEF T
  <2>. QED  BY <1>1, Terkecil
<1>3. PICK i \in S : t = n - i
  OBVIOUS
<1>4. \A j \in S : n - i <= n - j
  BY <1>2, <1>3
<1>. QED  BY <1>4

\* One draft at most, and one version that counts once something was sent.
LEMMA VersiBerlaku == IndInv => SatuVersiBerlaku
<1>. SUFFICES ASSUME IndInv, NEW m \in DOMAIN masalah, NEW o \in Orang, <<m, o>> \notin tumpang
              PROVE  /\ Tunggal(Drafnya(m, o))
                     /\ Tunggal(Terhitung(m) \cap Milik(m, o))
                     /\ Kiriman(m, o) # {} => Terhitung(m) \cap Milik(m, o) # {}
  BY DEF SatuVersiBerlaku
<1>0. Len(konfirmasi) \in Nat /\ DOMAIN konfirmasi = 1..Len(konfirmasi)
  BY Baris DEF IndInv
<1>1. ASSUME NEW a \in Milik(m, o), NEW b \in Milik(m, o), a < b
      PROVE  /\ konfirmasi[a].status = "terkirim"
             /\ \E c \in Milik(m, o) : c <= b /\ konfirmasi[c].gantikan = a
  <2>1. a \in DOMAIN konfirmasi /\ b \in DOMAIN konfirmasi /\ Pasangan(a) = <<m, o>>
        /\ Pasangan(b) = <<m, o>> /\ a # 0
    BY <1>0 DEF Milik, Pasangan
  <2>2. konfirmasi[a].status = "terkirim"
    BY <1>1, <2>1 DEF IndInv, RantaiSah
  <2>3. PICK c \in DOMAIN konfirmasi : c <= b /\ konfirmasi[c].gantikan = a
    BY <1>1, <2>1 DEF IndInv, RantaiSah
  <2>4. Pasangan(c) = <<m, o>>
    BY <2>1, <2>3 DEF IndInv, RantaiSah
  <2>. QED  BY <2>2, <2>3, <2>4 DEF Milik, Pasangan
<1>. DEFINE berlaku == Terhitung(m) \cap Milik(m, o)
<1>2. Tunggal(Drafnya(m, o))
  <2>. SUFFICES ASSUME NEW a \in Drafnya(m, o), NEW b \in Drafnya(m, o), a < b PROVE FALSE
    BY <1>0 DEF Tunggal, Drafnya, Milik
  <2>. QED  BY <1>1 DEF Drafnya
<1>3. Tunggal(berlaku)
  <2>. SUFFICES ASSUME NEW a \in berlaku, NEW b \in berlaku, a < b PROVE FALSE
    BY <1>0 DEF Tunggal, Milik
  <2>1. PICK c \in Milik(m, o) : c <= b /\ konfirmasi[c].gantikan = a
    BY <1>1
  <2>2. c \in DOMAIN konfirmasi /\ b \in Milik(m, o) /\ konfirmasi[b].status = "terkirim"
    BY DEF Milik, Terhitung
  <2>3. konfirmasi[c].status = "terkirim"
    <3>1. c = b \/ c < b
      BY <1>0, <2>1, <2>2 DEF Milik
    <3>. QED  BY <1>1, <2>1, <2>2, <3>1
  <2>. QED  BY <2>1, <2>2, <2>3 DEF Terhitung
<1>4. ASSUME Kiriman(m, o) # {} PROVE berlaku # {}
  <2>1. Kiriman(m, o) \in SUBSET (1..Len(konfirmasi))
    BY <1>0 DEF Kiriman, Milik
  <2>2. PICK i \in Kiriman(m, o) : \A j \in Kiriman(m, o) : j <= i
    BY <1>0, <1>4, <2>1, Terbesar
  <2>3. ASSUME NEW c \in DOMAIN konfirmasi, konfirmasi[c].status = "terkirim",
               konfirmasi[c].gantikan = i
        PROVE  FALSE
    <3>1. i # 0 /\ i < c
      BY <1>0, <2>1, <2>2, <2>3 DEF IndInv, TypeOK
    <3>2. Pasangan(c) = Pasangan(i) /\ i \in Milik(m, o)
      BY <2>2, <2>3, <3>1 DEF IndInv, RantaiSah, Kiriman
    <3>3. c \in Kiriman(m, o)
      BY <2>3, <3>2 DEF Kiriman, Milik, Pasangan
    <3>. QED  BY <1>0, <2>1, <2>2, <3>1, <3>3
  <2>. QED  BY <2>2, <2>3 DEF Terhitung, Kiriman, Milik
<1>. QED  BY <1>2, <1>3, <1>4

\* Of each person and problem no write rested on a stale read of, there is one
\* draft at most and, once something was sent, exactly one version sebaran_k
\* counts: through any number of corrections (_digantikan_ids, ralat).
THEOREM VersiTunggal == Spec => []SatuVersiBerlaku
BY Invarian, VersiBerlaku, PTL

\* What was sent stands, a locked story is not changed, and a correction of a
\* locked story keeps it: by any step, of whoever's request (update, kunci_cerita,
\* kirim, ralat of SqlKonfirmasiService).
THEOREM KirimanBertahan == Spec => KirimanTetap
<1>. DEFINE Tetap == \A b \in DOMAIN konfirmasi :
       LET k == konfirmasi[b]
           kk == konfirmasi'[b]
       IN <<k.masalah, k.orang>> \notin tumpang' =>
            /\ k.status = "terkirim" =>
                 kk.status = "terkirim" /\ kk.cerita = k.cerita /\ kk.isi = k.isi
            /\ k.kunci => kk.kunci /\ kk.cerita = k.cerita
            /\ k.gantikan # 0 /\ konfirmasi[k.gantikan].kunci =>
                 kk.cerita = konfirmasi[k.gantikan].cerita
<1>1. ASSUME IndInv, [Next]_vars PROVE [Tetap]_vars
  <2>1. CASE UNCHANGED vars
    BY <2>1
  <2>2. CASE konfirmasi' = konfirmasi /\ tumpang' = tumpang
    <3>1. ASSUME NEW b \in DOMAIN konfirmasi, Pasangan(b) \notin tumpang,
                 konfirmasi[b].gantikan # 0, konfirmasi[konfirmasi[b].gantikan].kunci
          PROVE  konfirmasi[b].cerita = konfirmasi[konfirmasi[b].gantikan].cerita
      BY <1>1, <3>1 DEF IndInv, RalatTerkunci
    <3>. QED  BY <2>2, <3>1 DEF Pasangan
  <2>3. ASSUME NEW p \in Proses, Simpan(p) PROVE Tetap
    <3>1. PICK r : Tersimpan(p, r)
      BY <1>1, <2>3, Menyimpan
    <3>. SUFFICES ASSUME NEW b \in DOMAIN konfirmasi, Pasangan(b) \notin tumpang'
                  PROVE  /\ konfirmasi[b].status = "terkirim" =>
                              /\ konfirmasi'[b].status = "terkirim"
                              /\ konfirmasi'[b].cerita = konfirmasi[b].cerita
                              /\ konfirmasi'[b].isi = konfirmasi[b].isi
                         /\ konfirmasi[b].kunci =>
                              konfirmasi'[b].kunci /\ konfirmasi'[b].cerita = konfirmasi[b].cerita
                         /\ konfirmasi[b].gantikan # 0
                              /\ konfirmasi[konfirmasi[b].gantikan].kunci =>
                              konfirmasi'[b].cerita = konfirmasi[konfirmasi[b].gantikan].cerita
      BY DEF Pasangan
    <3>2. BarisTertulis(r, b, konfirmasi'[b])
      BY <1>1, <3>1, BarisSebelum
    <3>3. konfirmasi[b].status = "terkirim" =>
            /\ konfirmasi'[b].status = "terkirim"
            /\ konfirmasi'[b].cerita = konfirmasi[b].cerita /\ konfirmasi'[b].isi = konfirmasi[b].isi
      BY <1>1, <3>1, <3>2, IsiTetap DEF BarisTertulis
    <3>4. konfirmasi[b].kunci =>
            konfirmasi'[b].kunci /\ konfirmasi'[b].cerita = konfirmasi[b].cerita
      <4>1. b = r.k => Pasangan(b) \in r.obyek /\ b # 0
        BY <1>1, <3>1, Baris DEF Tersimpan, RencanaSah, BentukBaris, IndInv
      <4>2. b = r.k /\ konfirmasi[b].kunci => r.cerita = Nihil
        BY <3>1, <4>1 DEF Tersimpan, RencanaSah, SegarBaris, Segar
      <4>. QED  BY <3>2, <4>2 DEF BarisTertulis
    <3>5. konfirmasi[b].gantikan # 0 /\ konfirmasi[konfirmasi[b].gantikan].kunci =>
            konfirmasi[b].kunci /\ konfirmasi[b].cerita = konfirmasi[konfirmasi[b].gantikan].cerita
      <4>1. Pasangan(b) \notin tumpang
        BY <3>1 DEF Tersimpan
      <4>. QED  BY <1>1, <4>1 DEF IndInv, RalatTerkunci
    <3>. QED  BY <3>3, <3>4, <3>5
  <2>4. CASE Next
    <3>1. PICK p \in Proses :
            \/ BuatMasalah(p) \/ UbahMasalah(p) \/ StatusKonfirmasiMasalah(p)
            \/ CreateKonfirmasi(p) \/ UpdateKonfirmasi(p) \/ KunciCeritaSaya(p)
            \/ TampilkanDugaanSaya(p) \/ KirimKonfirmasi(p) \/ RalatKonfirmasi(p)
            \/ CreateKonfirmasiLuring(p) \/ AngkatMasalahBaru(p)
            \/ Simpan(p) \/ Gagal(p)
      BY <2>4 DEF Next
    <3>2. Simpan(p) \/ (konfirmasi' = konfirmasi /\ tumpang' = tumpang)
      BY <3>1 DEF BuatMasalah, UbahMasalah, StatusKonfirmasiMasalah, SetStatusKonfirmasi,
         CreateKonfirmasi, BuatDraf, UpdateKonfirmasi, Ubah, KunciCeritaSaya, KunciCerita,
         TampilkanDugaanSaya, TampilkanDugaan, KirimKonfirmasi, Kirim, RalatKonfirmasi, Ralat,
         CreateKonfirmasiLuring, Luring, AngkatMasalahBaru, AngkatMasalah, Gagal, Mulai
    <3>. QED  BY <2>2, <2>3, <3>2
  <2>. QED  BY <1>1, <2>1, <2>4
<1>. QED  BY Invarian, <1>1, PTL DEF Spec, KirimanTetap

===============================================================================
