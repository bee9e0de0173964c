-------------------------- MODULE IdempotensiProofs --------------------------
(***************************************************************************)
(* Idempotency-Keys for any number of keys, clients and repetitions: the   *)
(* invariant of Idempotensi is inductive, and the steps of the service     *)
(* implement SekaliSaja.  The heart is that an open transaction is the     *)
(* only one of its key (PemegangSah together with JawabanSejati), so at    *)
(* its commit the key has no response yet.                                 *)
(***************************************************************************)
EXTENDS Idempotensi, TLAPS

LEMMA Berawal == Init => IndInv
  BY IdempotensiAssumption
     DEF Init, IndInv, TypeOK, Tahap, Gagal, BarisSejalan, JawabanSejati,
     UrutanSah, PemegangSah

\* A replay hands out what the row stores.
LEMMA LangkahPutar ==
  ASSUME IndInv, NEW r \in Permintaan, Putar(r)
  PROVE  IndInv'
<1>1. TypeOK'
  BY DEF IndInv, TypeOK, Tahap, UrutanSah, BarisSejalan, Putar, Selesai,
     Tersimpan, tabel
<1>2. UrutanSah'
  BY IdempotensiAssumption DEF IndInv, TypeOK, Tahap, UrutanSah, Putar, Selesai,
     Tersimpan, tabel
<1>3. PemegangSah'
  BY IdempotensiAssumption DEF IndInv, TypeOK, Tahap, UrutanSah, PemegangSah,
     JawabanSejati, Putar, Selesai, Tersimpan, tabel
<1>4. BarisSejalan'
  BY IdempotensiAssumption DEF IndInv, TypeOK, UrutanSah, PemegangSah,
     BarisSejalan, Putar, Selesai, Tersimpan, tabel
<1>5. JawabanSejati'
  BY IdempotensiAssumption DEF IndInv, TypeOK, Gagal, UrutanSah, PemegangSah,
     BarisSejalan,
     JawabanSejati, Putar, Selesai, Tersimpan, tabel
<1>. QED  BY <1>1, <1>2, <1>3, <1>4, <1>5 DEF IndInv

\* Finding nothing stored changes nothing.
LEMMA LangkahLanjut ==
  ASSUME IndInv, NEW r \in Permintaan, Lanjut(r)
  PROVE  IndInv'
<1>1. TypeOK'
  BY DEF IndInv, TypeOK, Tahap, UrutanSah, BarisSejalan, Lanjut, tabel
<1>2. UrutanSah'
  BY IdempotensiAssumption DEF IndInv, TypeOK, Tahap, UrutanSah, Lanjut, tabel
<1>3. PemegangSah'
  BY IdempotensiAssumption DEF IndInv, TypeOK, Tahap, UrutanSah, PemegangSah,
     JawabanSejati, Lanjut, tabel
<1>4. BarisSejalan'
  BY IdempotensiAssumption DEF IndInv, TypeOK, UrutanSah, PemegangSah,
     BarisSejalan, Lanjut, tabel
<1>5. JawabanSejati'
  BY IdempotensiAssumption DEF IndInv, TypeOK, Gagal, UrutanSah, PemegangSah,
     BarisSejalan,
     JawabanSejati, Lanjut, tabel
<1>. QED  BY <1>1, <1>2, <1>3, <1>4, <1>5 DEF IndInv

\* A new request has no answer and no effect yet.
LEMMA LangkahKirim ==
  ASSUME IndInv, NEW r \in Permintaan, NEW k \in Kunci, Kirim(r, k)
  PROVE  IndInv'
<1>1. TypeOK'
  BY DEF IndInv, TypeOK, Tahap, UrutanSah, BarisSejalan, Kirim, tabel
<1>2. UrutanSah'
  BY IdempotensiAssumption DEF IndInv, TypeOK, Tahap, UrutanSah, Kirim, tabel
<1>3. PemegangSah'
  BY IdempotensiAssumption DEF IndInv, TypeOK, Tahap, UrutanSah, PemegangSah,
     JawabanSejati, Kirim, tabel
<1>4. BarisSejalan'
  BY IdempotensiAssumption DEF IndInv, TypeOK, UrutanSah, PemegangSah,
     BarisSejalan, Kirim, tabel
<1>5. JawabanSejati'
  BY IdempotensiAssumption DEF IndInv, TypeOK, Gagal, UrutanSah, PemegangSah,
     BarisSejalan,
     JawabanSejati, Kirim, tabel
<1>. QED  BY <1>1, <1>2, <1>3, <1>4, <1>5 DEF IndInv

\* The reservation succeeds only on a free key.
LEMMA LangkahCadangkan ==
  ASSUME IndInv, NEW r \in Permintaan, Cadangkan(r)
  PROVE  IndInv'
<1>1. TypeOK'
  BY DEF IndInv, TypeOK, Tahap, UrutanSah, BarisSejalan, Cadangkan
<1>2. UrutanSah'
  BY IdempotensiAssumption DEF IndInv, TypeOK, Tahap, UrutanSah, Cadangkan
<1>3. PemegangSah'
  BY IdempotensiAssumption DEF IndInv, TypeOK, Tahap, UrutanSah, PemegangSah,
     JawabanSejati, Cadangkan
<1>4. BarisSejalan'
  BY IdempotensiAssumption DEF IndInv, TypeOK, UrutanSah, PemegangSah,
     BarisSejalan, Cadangkan
<1>5. JawabanSejati'
  BY IdempotensiAssumption DEF IndInv, TypeOK, Gagal, UrutanSah, PemegangSah,
     BarisSejalan,
     JawabanSejati, Cadangkan
<1>. QED  BY <1>1, <1>2, <1>3, <1>4, <1>5 DEF IndInv

\* A refusal tells of no effect.
LEMMA LangkahTolak ==
  ASSUME IndInv, NEW r \in Permintaan, Tolak(r)
  PROVE  IndInv'
<1>1. TypeOK'
  BY DEF IndInv, TypeOK, Tahap, Gagal, UrutanSah, BarisSejalan, Tolak, Selesai,
     tabel
<1>2. UrutanSah'
  BY IdempotensiAssumption DEF IndInv, TypeOK, Tahap, UrutanSah, Tolak, Selesai,
     tabel
<1>3. PemegangSah'
  BY IdempotensiAssumption DEF IndInv, TypeOK, Tahap, UrutanSah, PemegangSah,
     JawabanSejati, Tolak, Selesai, tabel
<1>4. BarisSejalan'
  BY IdempotensiAssumption DEF IndInv, TypeOK, UrutanSah, PemegangSah,
     BarisSejalan, Tolak, Selesai, tabel
<1>5. JawabanSejati'
  BY IdempotensiAssumption DEF IndInv, TypeOK, Gagal, UrutanSah, PemegangSah,
     BarisSejalan,
     JawabanSejati, Tolak, Selesai, tabel
<1>. QED  BY <1>1, <1>2, <1>3, <1>4, <1>5 DEF IndInv

\* The commit turns the only open operation of the key into its row.
LEMMA LangkahKomit ==
  ASSUME IndInv, NEW r \in Permintaan, Komit(r)
  PROVE  IndInv'
<1>1. TypeOK'
  BY DEF IndInv, TypeOK, Tahap, UrutanSah, BarisSejalan, Komit, Selesai
<1>2. UrutanSah'
  BY IdempotensiAssumption DEF IndInv, TypeOK, Tahap, UrutanSah, Komit, Selesai
<1>3. PemegangSah'
  BY IdempotensiAssumption DEF IndInv, TypeOK, Tahap, UrutanSah, PemegangSah,
     JawabanSejati, Komit, Selesai
<1>4. BarisSejalan'
  BY IdempotensiAssumption DEF IndInv, TypeOK, UrutanSah, PemegangSah,
     BarisSejalan, Komit, Selesai
<1>5. JawabanSejati'
  BY IdempotensiAssumption DEF IndInv, TypeOK, Gagal, UrutanSah, PemegangSah,
     BarisSejalan,
     JawabanSejati, Komit, Selesai
<1>. QED  BY <1>1, <1>2, <1>3, <1>4, <1>5 DEF IndInv

\* A failure leaves the key as it was.
LEMMA LangkahBatal ==
  ASSUME IndInv, NEW r \in Permintaan, Batal(r)
  PROVE  IndInv'
<1>1. TypeOK'
  BY DEF IndInv, TypeOK, Tahap, Gagal, UrutanSah, BarisSejalan, Batal, Selesai
<1>2. UrutanSah'
  BY IdempotensiAssumption DEF IndInv, TypeOK, Tahap, UrutanSah, Batal, Selesai
<1>3. PemegangSah'
  BY IdempotensiAssumption DEF IndInv, TypeOK, Tahap, UrutanSah, PemegangSah,
     JawabanSejati, Batal, Selesai
<1>4. BarisSejalan'
  BY IdempotensiAssumption DEF IndInv, TypeOK, UrutanSah, PemegangSah,
     BarisSejalan, Batal, Selesai
<1>5. JawabanSejati'
  BY IdempotensiAssumption DEF IndInv, TypeOK, Gagal, UrutanSah, PemegangSah,
     BarisSejalan,
     JawabanSejati, Batal, Selesai
<1>. QED  BY <1>1, <1>2, <1>3, <1>4, <1>5 DEF IndInv

\* Expiry touches no row.
LEMMA LangkahKedaluwarsa ==
  ASSUME IndInv, NEW k \in Kunci, Kedaluwarsa(k)
  PROVE  IndInv'
<1>1. TypeOK'
  BY DEF IndInv, TypeOK, Tahap, UrutanSah, BarisSejalan, Kedaluwarsa
<1>2. UrutanSah'
  BY IdempotensiAssumption DEF IndInv, TypeOK, Tahap, UrutanSah, Kedaluwarsa
<1>3. PemegangSah'
  BY IdempotensiAssumption DEF IndInv, TypeOK, Tahap, UrutanSah, PemegangSah,
     JawabanSejati, Kedaluwarsa
<1>4. BarisSejalan'
  BY IdempotensiAssumption DEF IndInv, TypeOK, UrutanSah, PemegangSah,
     BarisSejalan, Kedaluwarsa
<1>5. JawabanSejati'
  BY IdempotensiAssumption DEF IndInv, TypeOK, Gagal, UrutanSah, PemegangSah,
     BarisSejalan,
     JawabanSejati, Kedaluwarsa
<1>. QED  BY <1>1, <1>2, <1>3, <1>4, <1>5 DEF IndInv

\* A deleted row was not held by anybody.
LEMMA LangkahBersihkan ==
  ASSUME IndInv, NEW k \in Kunci, Bersihkan(k)
  PROVE  IndInv'
<1>1. TypeOK'
  BY DEF IndInv, TypeOK, Tahap, UrutanSah, BarisSejalan, Bersihkan
<1>2. UrutanSah'
  BY IdempotensiAssumption DEF IndInv, TypeOK, Tahap, UrutanSah, Bersihkan
<1>3. PemegangSah'
  BY IdempotensiAssumption DEF IndInv, TypeOK, Tahap, UrutanSah, PemegangSah,
     JawabanSejati, Bersihkan
<1>4. BarisSejalan'
  BY IdempotensiAssumption DEF IndInv, TypeOK, UrutanSah, PemegangSah,
     BarisSejalan, Bersihkan
<1>5. JawabanSejati'
  BY IdempotensiAssumption DEF IndInv, TypeOK, Gagal, UrutanSah, PemegangSah,
     BarisSejalan,
     JawabanSejati, Bersihkan
<1>. QED  BY <1>1, <1>2, <1>3, <1>4, <1>5 DEF IndInv

LEMMA LangkahDiam ==
  ASSUME IndInv, UNCHANGED vars
  PROVE  IndInv'
  BY DEF IndInv, vars, TypeOK, BarisSejalan, JawabanSejati, UrutanSah, PemegangSah

\* The invariant holds in every reachable state.
THEOREM InvarianInduktif == Spec => []IndInv
<1>1. IndInv /\ [Next]_vars => IndInv'
  BY LangkahPutar, LangkahLanjut, LangkahKirim, LangkahCadangkan, LangkahTolak,
     LangkahKomit,
     LangkahBatal, LangkahKedaluwarsa, LangkahBersihkan, LangkahDiam
     DEF Next, LangkahPermintaan
<1>. QED  BY <1>1, Berawal, PTL DEF Spec

\* Type correctness.
THEOREM TipeBenar == Spec => []TypeOK
  BY InvarianInduktif, PTL DEF IndInv

\* What a key stores is the response of an operation that took effect.
THEOREM BarisBenar == Spec => []BarisSejalan
  BY InvarianInduktif, PTL DEF IndInv

\* Nobody is told of an operation that did not take effect, or of another key's.
THEOREM JawabanBenar == Spec => []JawabanSejati
  BY InvarianInduktif, PTL DEF IndInv

-------------------------------------------------------------------------------
(* Refinement.                                                               *)

LEMMA LangkahSekali ==
  ASSUME IndInv, [Next]_vars
  PROVE  [Sekali!SekaliNext]_(Sekali!sekaliVars)
<1> DEFINE J == [r \in Permintaan |-> IF balasan[r] \in Gagal THEN Nihil ELSE balasan[r]]
<1>1. ASSUME NEW r \in Permintaan, NEW b \in Gagal \cup Permintaan,
             balasan[r] = "TIADA", balasan' = [balasan EXCEPT ![r] = b]
      PROVE  J' = [J EXCEPT ![r] = IF b \in Gagal THEN Nihil ELSE b]
  <2>1. \A q \in Permintaan : balasan'[q] = IF q = r THEN b ELSE balasan[q]
    BY <1>1 DEF IndInv, TypeOK
  <2>. QED  BY <2>1
<1>2. ASSUME NEW r \in Permintaan, NEW b \in Gagal, balasan[r] = "TIADA", Selesai(r, b)
      PROVE  J' = J
  <2>1. CASE balasan' = balasan
    BY <2>1
  <2>2. CASE balasan' = [balasan EXCEPT ![r] = b]
    <3>1. J' = [J EXCEPT ![r] = Nihil]
      BY <1>1, <1>2, <2>2
    <3>2. J[r] = Nihil
      BY <1>2 DEF Gagal
    <3>. QED  BY <3>1, <3>2
  <2>. QED  BY <1>2, <2>1, <2>2 DEF Selesai
<1>3. ASSUME NEW r \in Permintaan, NEW b \in Permintaan, balasan[r] = "TIADA", Selesai(r, b)
      PROVE  J' = J \/ J' = [J EXCEPT ![r] = b]
  <2>1. CASE balasan' = balasan
    BY <2>1
  <2>2. CASE balasan' = [balasan EXCEPT ![r] = b]
    BY <1>1, <2>2, <1>3, IdempotensiAssumption DEF Gagal
  <2>. QED  BY <1>3, <2>1, <2>2 DEF Selesai
<1>4. ASSUME NEW r \in Permintaan, Putar(r)
      PROVE  Sekali!SekaliNext \/ UNCHANGED <<respons, J>>
  <2>1. /\ respons[kunci[r]] \in Permintaan /\ kunci[r] \in Kunci
        /\ respons' = respons /\ balasan[r] = "TIADA"
    BY <1>4 DEF Putar, Tersimpan, IndInv, TypeOK, BarisSejalan, UrutanSah, tabel
  <2>2. respons[kunci[r]] # Nihil
    BY <2>1, IdempotensiAssumption
  <2>3. J' = J \/ J' = [J EXCEPT ![r] = respons[kunci[r]]]
    BY <1>3, <1>4, <2>1 DEF Putar
  <2>. QED  BY <2>1, <2>2, <2>3 DEF Sekali!SekaliNext, Sekali!Ulangi
<1>5. ASSUME NEW r \in Permintaan, Komit(r)
      PROVE  Sekali!SekaliNext
  <2>1. /\ kunci[r] \in Kunci /\ balasan[r] = "TIADA"
        /\ respons[kunci[r]] = Nihil
        /\ respons' = [respons EXCEPT ![kunci[r]] = r]
    BY <1>5 DEF Komit, IndInv, UrutanSah, JawabanSejati, BarisSejalan
  <2>2. J' = J \/ J' = [J EXCEPT ![r] = r]
    BY <1>3, <1>5, <2>1 DEF Komit
  <2>. QED  BY <2>1, <2>2 DEF Sekali!SekaliNext, Sekali!Terjadi
<1>6. ASSUME NEW r \in Permintaan, Tolak(r) \/ Batal(r)
      PROVE  UNCHANGED <<respons, J>>
  <2>1. balasan[r] = "TIADA" /\ respons' = respons
    BY <1>6 DEF Tolak, Batal, IndInv, UrutanSah, tabel
  <2>2. Selesai(r, "KONFLIK") \/ Selesai(r, "GALAT")
    BY <1>6 DEF Tolak, Batal
  <2>. QED  BY <1>2, <2>1, <2>2 DEF Gagal
<1>7. ASSUME NEW r \in Permintaan, Lanjut(r) \/ Cadangkan(r) \/ \E k \in Kunci : Kirim(r, k)
      PROVE  UNCHANGED <<respons, J>>
  BY <1>7 DEF Lanjut, Cadangkan, Kirim, tabel
<1>8. ASSUME NEW k \in Kunci, Kedaluwarsa(k)
      PROVE  UNCHANGED <<respons, J>>
  BY <1>8 DEF Kedaluwarsa
<1>9. ASSUME NEW k \in Kunci, Bersihkan(k)
      PROVE  Sekali!SekaliNext \/ UNCHANGED <<respons, J>>
  <2>1. J' = J /\ respons' = [respons EXCEPT ![k] = Nihil]
    BY <1>9 DEF Bersihkan
  <2>2. CASE respons[k] = Nihil
    BY <2>1, <2>2 DEF IndInv, TypeOK
  <2>3. CASE respons[k] # Nihil
    BY <2>1, <2>3 DEF Sekali!SekaliNext, Sekali!Lupa
  <2>. QED  BY <2>2, <2>3
<1>10. CASE UNCHANGED vars
  BY <1>10 DEF vars, Sekali!sekaliVars
<1>11. Sekali!SekaliNext \/ UNCHANGED <<respons, J>>
  BY <1>4, <1>5, <1>6, <1>7, <1>8, <1>9, <1>10 DEF Next, LangkahPermintaan, vars
<1>. QED  BY <1>11 DEF Sekali!sekaliVars

\* The key machinery implements SekaliSaja: one occurrence per lifetime of a key,
\* and every successful answer is its answer.
THEOREM SekaliTerpenuhi == Spec => SekaliDitepati
<1>1. Init => Sekali!SekaliInit
  BY DEF Init, Sekali!SekaliInit, Gagal
<1>. QED  BY <1>1, InvarianInduktif, LangkahSekali, PTL DEF Spec, SekaliDitepati,
             Sekali!SekaliSpec
===============================================================================
