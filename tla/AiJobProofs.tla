----------------------------- MODULE AiJobProofs -----------------------------
(***************************************************************************)
(* Proofs about the AI job pipeline, for any number of submissions and     *)
(* workers, any attempt limit and any number of disturbances.              *)
(*                                                                         *)
(* The argument: a claimed job is held by one worker, and only that worker *)
(* moves it on (PemegangSah, SatuPelaksana); the stale-job recovery can    *)
(* only turn it FAILED, which nobody queues again.  Hence stage 3 always   *)
(* finds its run still waiting, writes run and job together                *)
(* (VonisSejalan), and every attempt costs at most one call                *)
(* (SekaliPerUpaya).  With what stage 3 knows about its answer             *)
(* (JawabanNyata) this gives the kill-switch property and the refinement.  *)
(***************************************************************************)
EXTENDS AiJob, TLAPS

\* Nothing is submitted and nobody is at work.
LEMMA InitInv == Init => IndInv
  BY AiJobAssumption
  DEF Init, IndInv, TypeOK, VonisSejalan, SatuPelaksana, PemegangSah, SekaliPerUpaya,
      MasukanSelamaMenunggu, PenyediaTercatat, JawabanNyata, Aktif, Pc, Semua,
      StatusJob, StatusQaAi, Vonis, VonisGerbang, VonisJawaban, Galat, Lihat,
      KosongLihat

\* A submission opens a fresh row that no worker holds.
LEMMA LangkahAjukan ==
  ASSUME IndInv, NEW r \in Req, Ajukan(r)
  PROVE  IndInv'
<1>1. PICK v \in VonisGerbang \cup {"MENUNGGU"}, s \in StatusJob :
        /\ run' = [run EXCEPT ![r] = v]
        /\ job' = [job EXCEPT ![r] = s]
        /\ s = IF v = "MENUNGGU" THEN "PENDING" ELSE "MANUAL_REVIEW"
        /\ masukan' = IF v = "MENUNGGU" THEN [masukan EXCEPT ![r] = TRUE] ELSE masukan
  BY DEF Ajukan, VonisGerbang, StatusJob
<1>2. /\ job[r] = "TIADA"
      /\ run[r] = "TIADA"
      /\ ~masukan[r]
      /\ \A w \in Worker : pc[w] \in Aktif => pegang[w] # r
  BY DEF IndInv, Ajukan, VonisSejalan, MasukanSelamaMenunggu, PemegangSah
<1>3. TypeOK'
  <2>1. antre' \in Seq(Req) /\ penyediaRun' \in [Req -> Semua]
    BY DEF IndInv, TypeOK, Ajukan
  <2>2. run' \in [Req -> StatusQaAi \cup {"TIADA"}]
    BY <1>1 DEF IndInv, TypeOK, StatusQaAi, Vonis
  <2>3. job' \in [Req -> StatusJob \cup {"TIADA"}] /\ masukan' \in [Req -> BOOLEAN]
    BY <1>1 DEF IndInv, TypeOK
  <2>4. QED
    BY <2>1, <2>2, <2>3 DEF IndInv, TypeOK, Ajukan, atur, lokal, sejarah, batas
<1>4. VonisSejalan'
  BY <1>1, <1>2 DEF IndInv, TypeOK, VonisSejalan, VonisGerbang
<1>5. SatuPelaksana'
  BY DEF IndInv, Ajukan, SatuPelaksana, lokal
<1>6. PemegangSah'
  BY <1>1, <1>2 DEF IndInv, TypeOK, Ajukan, PemegangSah, lokal
<1>7. SekaliPerUpaya'
  BY <1>1, <1>2 DEF IndInv, TypeOK, Ajukan, SekaliPerUpaya, lokal, sejarah
<1>8. MasukanSelamaMenunggu'
  BY <1>1, <1>2 DEF IndInv, TypeOK, MasukanSelamaMenunggu, VonisGerbang
<1>9. PenyediaTercatat'
  BY <1>2 DEF IndInv, TypeOK, Ajukan, PenyediaTercatat, Aktif, lokal
<1>10. JawabanNyata'
  BY DEF IndInv, Ajukan, JawabanNyata, atur, lokal, sejarah
<1>11. QED
  BY <1>3, <1>4, <1>5, <1>6, <1>7, <1>8, <1>9, <1>10 DEF IndInv

\* A submission that has only read changes no row.
LEMMA LangkahPeriksaPengajuan ==
  ASSUME IndInv, NEW r \in Req, PeriksaPengajuan(r)
  PROVE  IndInv'
<1>1. TypeOK'
  BY DEF IndInv, TypeOK, PeriksaPengajuan, tabel, lokal, sejarah, batas
<1>2. /\ VonisSejalan'
      /\ SatuPelaksana'
      /\ PemegangSah'
      /\ SekaliPerUpaya'
      /\ MasukanSelamaMenunggu'
      /\ PenyediaTercatat'
      /\ JawabanNyata'
  BY DEF IndInv, PeriksaPengajuan, VonisSejalan, SatuPelaksana, PemegangSah,
      SekaliPerUpaya, MasukanSelamaMenunggu, PenyediaTercatat, JawabanNyata,
      tabel, lokal, sejarah
<1>3. QED
  BY <1>1, <1>2 DEF IndInv

\* Ageing changes nothing a worker relies on.
LEMMA LangkahMenua ==
  ASSUME IndInv, NEW r \in Req, Menua(r)
  PROVE  IndInv'
<1>1. TypeOK'
  BY AiJobAssumption DEF IndInv, TypeOK, PemegangSah, Menua, atur, lokal,
      sejarah, StatusJob, StatusQaAi, Vonis, VonisGerbang, VonisJawaban, Galat,
      Pc, Aktif, Semua, Lihat, KosongLihat
<1>2. /\ VonisSejalan'
      /\ SatuPelaksana'
      /\ PemegangSah'
      /\ SekaliPerUpaya'
      /\ MasukanSelamaMenunggu'
      /\ PenyediaTercatat'
      /\ JawabanNyata'
  BY DEF IndInv, Menua, VonisSejalan, SatuPelaksana, PemegangSah,
      SekaliPerUpaya, MasukanSelamaMenunggu, PenyediaTercatat, JawabanNyata,
      lokal, sejarah, atur
<1>3. QED
  BY <1>1, <1>2 DEF IndInv

\* A starting worker holds nothing.
LEMMA LangkahMulai ==
  ASSUME IndInv, NEW w \in Worker, Mulai(w)
  PROVE  IndInv'
<1>1. TypeOK'
  BY AiJobAssumption DEF IndInv, TypeOK, PemegangSah, Mulai, tabel, atur,
      sejarah, batas, StatusJob, StatusQaAi, Vonis, VonisGerbang, VonisJawaban,
      Galat, Pc, Aktif, Semua, Lihat, KosongLihat
<1>2. VonisSejalan' /\ MasukanSelamaMenunggu'
  BY DEF IndInv, Mulai, VonisSejalan, MasukanSelamaMenunggu, tabel
<1>3. SatuPelaksana'
  BY AiJobAssumption DEF IndInv, TypeOK, SatuPelaksana, Pc, Aktif, Mulai
<1>4. PemegangSah'
  BY AiJobAssumption DEF IndInv, TypeOK, SatuPelaksana, PemegangSah, Pc, Aktif,
      Mulai, tabel
<1>5. SekaliPerUpaya'
  BY AiJobAssumption DEF IndInv, TypeOK, SekaliPerUpaya, Pc, Aktif, Mulai,
      tabel, sejarah
<1>6. PenyediaTercatat'
  BY AiJobAssumption DEF IndInv, TypeOK, PenyediaTercatat, Pc, Aktif, Mulai,
      tabel
<1>7. JawabanNyata'
  BY AiJobAssumption DEF IndInv, TypeOK, JawabanNyata, Pc, Aktif, Mulai,
      sejarah, atur
<1>8. QED
  BY <1>1, <1>2, <1>3, <1>4, <1>5, <1>6, <1>7 DEF IndInv

\* Recovery only moves RUNNING to FAILED, both of which a holder tolerates.
LEMMA LangkahPulihkanJobBasi ==
  ASSUME IndInv, NEW w \in Worker, PulihkanJobBasi(w)
  PROVE  IndInv'
<1>1. TypeOK'
  BY AiJobAssumption DEF IndInv, TypeOK, PemegangSah, PulihkanJobBasi, atur,
      sejarah, batas, StatusJob, StatusQaAi, Vonis, VonisGerbang, VonisJawaban,
      Galat, Pc, Aktif, Semua, Lihat, KosongLihat
<1>2. MasukanSelamaMenunggu'
  BY DEF IndInv, PulihkanJobBasi, MasukanSelamaMenunggu
<1>3. VonisSejalan'
  BY AiJobAssumption DEF IndInv, TypeOK, VonisSejalan, StatusJob, StatusQaAi,
      Vonis, VonisGerbang, VonisJawaban, PulihkanJobBasi
<1>4. SatuPelaksana'
  BY AiJobAssumption DEF IndInv, TypeOK, SatuPelaksana, Pc, Aktif,
      PulihkanJobBasi
<1>5. PemegangSah'
  BY AiJobAssumption DEF IndInv, TypeOK, SatuPelaksana, PemegangSah, Pc, Aktif,
      PulihkanJobBasi
<1>6. SekaliPerUpaya'
  BY AiJobAssumption DEF IndInv, TypeOK, SekaliPerUpaya, Pc, Aktif,
      PulihkanJobBasi, sejarah
<1>7. PenyediaTercatat'
  BY AiJobAssumption DEF IndInv, TypeOK, PenyediaTercatat, Pc, Aktif,
      PulihkanJobBasi
<1>8. JawabanNyata'
  BY AiJobAssumption DEF IndInv, TypeOK, JawabanNyata, Pc, Aktif,
      PulihkanJobBasi, sejarah, atur
<1>9. QED
  BY <1>1, <1>2, <1>3, <1>4, <1>5, <1>6, <1>7, <1>8 DEF IndInv

\* A failed recovery changes no row.
LEMMA LangkahPemulihanGagal ==
  ASSUME IndInv, NEW w \in Worker, PemulihanGagal(w)
  PROVE  IndInv'
<1>1. TypeOK'
  BY AiJobAssumption DEF IndInv, TypeOK, PemegangSah, PemulihanGagal, tabel,
      atur, sejarah, StatusJob, StatusQaAi, Vonis, VonisGerbang, VonisJawaban,
      Galat, Pc, Aktif, Semua, Lihat, KosongLihat
<1>2. VonisSejalan' /\ MasukanSelamaMenunggu'
  BY DEF IndInv, PemulihanGagal, VonisSejalan, MasukanSelamaMenunggu, tabel
<1>3. SatuPelaksana'
  BY AiJobAssumption DEF IndInv, TypeOK, SatuPelaksana, Pc, Aktif,
      PemulihanGagal
<1>4. PemegangSah'
  BY AiJobAssumption DEF IndInv, TypeOK, SatuPelaksana, PemegangSah, Pc, Aktif,
      PemulihanGagal, tabel
<1>5. SekaliPerUpaya'
  BY AiJobAssumption DEF IndInv, TypeOK, SekaliPerUpaya, Pc, Aktif,
      PemulihanGagal, tabel, sejarah
<1>6. PenyediaTercatat'
  BY AiJobAssumption DEF IndInv, TypeOK, PenyediaTercatat, Pc, Aktif,
      PemulihanGagal, tabel
<1>7. JawabanNyata'
  BY AiJobAssumption DEF IndInv, TypeOK, JawabanNyata, Pc, Aktif,
      PemulihanGagal, sejarah, atur
<1>8. QED
  BY <1>1, <1>2, <1>3, <1>4, <1>5, <1>6, <1>7 DEF IndInv

\* Reading the switch changes no row.
LEMMA LangkahPeriksaSaklar ==
  ASSUME IndInv, NEW w \in Worker, PeriksaSaklar(w)
  PROVE  IndInv'
<1>1. TypeOK'
  BY AiJobAssumption DEF IndInv, TypeOK, PemegangSah, PeriksaSaklar, tabel,
      atur, sejarah, batas, StatusJob, StatusQaAi, Vonis, VonisGerbang,
      VonisJawaban, Galat, Pc, Aktif, Semua, Lihat, KosongLihat
<1>2. VonisSejalan' /\ MasukanSelamaMenunggu'
  BY DEF IndInv, PeriksaSaklar, VonisSejalan, MasukanSelamaMenunggu, tabel
<1>3. SatuPelaksana'
  BY AiJobAssumption DEF IndInv, TypeOK, SatuPelaksana, Pc, Aktif,
      PeriksaSaklar
<1>4. PemegangSah'
  BY AiJobAssumption DEF IndInv, TypeOK, SatuPelaksana, PemegangSah, Pc, Aktif,
      PeriksaSaklar, tabel
<1>5. SekaliPerUpaya'
  BY AiJobAssumption DEF IndInv, TypeOK, SekaliPerUpaya, Pc, Aktif,
      PeriksaSaklar, tabel, sejarah
<1>6. PenyediaTercatat'
  BY AiJobAssumption DEF IndInv, TypeOK, PenyediaTercatat, Pc, Aktif,
      PeriksaSaklar, tabel
<1>7. JawabanNyata'
  BY AiJobAssumption DEF IndInv, TypeOK, JawabanNyata, Pc, Aktif,
      PeriksaSaklar, sejarah, atur
<1>8. QED
  BY <1>1, <1>2, <1>3, <1>4, <1>5, <1>6, <1>7 DEF IndInv

\* A PENDING job has no holder, so the claim makes the first.
LEMMA LangkahKlaim ==
  ASSUME IndInv, NEW w \in Worker, NEW r \in Req, Klaim(w, r)
  PROVE  IndInv'
<1>1. TypeOK'
  BY AiJobAssumption DEF IndInv, TypeOK, PemegangSah, Klaim, TulisJob, Tertua,
      atur, sejarah, batas, StatusJob, StatusQaAi, Vonis, VonisGerbang,
      VonisJawaban, Galat, Pc, Aktif, Semua, Lihat, KosongLihat
<1>2. MasukanSelamaMenunggu'
  BY DEF IndInv, Klaim, MasukanSelamaMenunggu
<1>3. VonisSejalan'
  BY AiJobAssumption DEF IndInv, TypeOK, VonisSejalan, StatusJob, StatusQaAi,
      Vonis, VonisGerbang, VonisJawaban, Klaim, TulisJob, Tertua
<1>4. SatuPelaksana'
  <2>1. /\ pc' = [pc EXCEPT ![w] = "siap"] /\ pc \in [Worker -> Pc]
        /\ pegang' = [pegang EXCEPT ![w] = r] /\ pegang \in [Worker -> Req \cup {Nihil}]
    BY DEF IndInv, TypeOK, Klaim
  <2>2. \A v \in Worker : pc[v] \in Aktif => pegang[v] # r
    BY DEF IndInv, PemegangSah, Klaim, Tertua
  <2>3. ASSUME NEW v \in Worker, NEW u \in Worker, v # u,
               pc'[v] \in Aktif, pc'[u] \in Aktif
        PROVE  pegang'[v] # pegang'[u]
    <3>1. CASE v = w
      BY <2>1, <2>2, <2>3, <3>1
    <3>2. CASE u = w
      BY <2>1, <2>2, <2>3, <3>2
    <3>3. CASE v # w /\ u # w
      BY <2>1, <2>3, <3>3 DEF IndInv, SatuPelaksana
    <3>4. QED  BY <3>1, <3>2, <3>3
  <2>4. QED  BY <2>3 DEF SatuPelaksana
<1>5. PemegangSah'
  BY AiJobAssumption DEF IndInv, TypeOK, SatuPelaksana, PemegangSah, Pc, Aktif,
      SekaliPerUpaya, Klaim, TulisJob, Tertua
<1>6. SekaliPerUpaya'
  BY AiJobAssumption DEF IndInv, TypeOK, SekaliPerUpaya, Pc, Aktif,
      PemegangSah, Klaim, TulisJob, Tertua, sejarah
<1>7. PenyediaTercatat'
  BY AiJobAssumption DEF IndInv, TypeOK, PenyediaTercatat, Pc, Aktif,
      PemegangSah, Klaim, TulisJob, Tertua
<1>8. JawabanNyata'
  BY AiJobAssumption DEF IndInv, TypeOK, JawabanNyata, Pc, Aktif, Klaim,
      TulisJob, Tertua, sejarah, atur
<1>9. QED
  BY <1>1, <1>2, <1>3, <1>4, <1>5, <1>6, <1>7, <1>8 DEF IndInv

\* A job no function knows is closed with its run; it had no holder.
LEMMA LangkahKlaimTanpaFungsi ==
  ASSUME IndInv, NEW w \in Worker, NEW r \in Req, KlaimTanpaFungsi(w, r)
  PROVE  IndInv'
<1>1. TypeOK'
  BY AiJobAssumption DEF IndInv, TypeOK, PemegangSah, KlaimTanpaFungsi,
      TulisJob, TulisVonis, Tertua, Lepas, Lupakan, atur, batas, StatusJob,
      StatusQaAi, Vonis, VonisGerbang, VonisJawaban, Galat, Pc, Aktif, Semua,
      Lihat, KosongLihat
<1>2. VonisSejalan'
  BY AiJobAssumption DEF IndInv, TypeOK, VonisSejalan, StatusJob, StatusQaAi,
      Vonis, VonisGerbang, VonisJawaban, KlaimTanpaFungsi, TulisJob,
      TulisVonis, Tertua, Lepas, Lupakan
<1>3. SatuPelaksana'
  BY AiJobAssumption DEF IndInv, TypeOK, SatuPelaksana, Pc, Aktif,
      KlaimTanpaFungsi, TulisJob, TulisVonis, Tertua, Lepas, Lupakan
<1>4. PemegangSah'
  BY AiJobAssumption DEF IndInv, TypeOK, SatuPelaksana, PemegangSah, Pc, Aktif,
      KlaimTanpaFungsi, TulisJob, TulisVonis, Tertua, Lepas, Lupakan
<1>5. SekaliPerUpaya'
  BY AiJobAssumption DEF IndInv, TypeOK, SekaliPerUpaya, Pc, Aktif,
      KlaimTanpaFungsi, TulisJob, TulisVonis, Tertua, Lepas, Lupakan
<1>6. MasukanSelamaMenunggu'
  BY AiJobAssumption DEF IndInv, TypeOK, MasukanSelamaMenunggu,
      KlaimTanpaFungsi, TulisJob, TulisVonis, Tertua, Lepas, Lupakan
<1>7. PenyediaTercatat'
  BY AiJobAssumption DEF IndInv, TypeOK, PenyediaTercatat, Pc, Aktif,
      PemegangSah, KlaimTanpaFungsi, TulisJob, TulisVonis, Tertua, Lepas,
      Lupakan
<1>8. JawabanNyata'
  BY AiJobAssumption DEF IndInv, TypeOK, JawabanNyata, Pc, Aktif,
      KlaimTanpaFungsi, TulisJob, TulisVonis, Tertua, Lepas, Lupakan, atur
<1>9. QED
  BY <1>1, <1>2, <1>3, <1>4, <1>5, <1>6, <1>7, <1>8 DEF IndInv

\* Nothing to claim, nothing changes.
LEMMA LangkahTanpaJob ==
  ASSUME IndInv, NEW w \in Worker, TanpaJob(w)
  PROVE  IndInv'
<1>1. TypeOK'
  BY AiJobAssumption DEF IndInv, TypeOK, PemegangSah, TanpaJob, tabel, atur,
      sejarah, batas, StatusJob, StatusQaAi, Vonis, VonisGerbang, VonisJawaban,
      Galat, Pc, Aktif, Semua, Lihat, KosongLihat
<1>2. VonisSejalan' /\ MasukanSelamaMenunggu'
  BY DEF IndInv, TanpaJob, VonisSejalan, MasukanSelamaMenunggu, tabel
<1>3. SatuPelaksana'
  BY AiJobAssumption DEF IndInv, TypeOK, SatuPelaksana, Pc, Aktif, TanpaJob
<1>4. PemegangSah'
  BY AiJobAssumption DEF IndInv, TypeOK, SatuPelaksana, PemegangSah, Pc, Aktif,
      TanpaJob, tabel
<1>5. SekaliPerUpaya'
  BY AiJobAssumption DEF IndInv, TypeOK, SekaliPerUpaya, Pc, Aktif, TanpaJob,
      tabel, sejarah
<1>6. PenyediaTercatat'
  BY AiJobAssumption DEF IndInv, TypeOK, PenyediaTercatat, Pc, Aktif, TanpaJob,
      tabel
<1>7. JawabanNyata'
  BY AiJobAssumption DEF IndInv, TypeOK, JawabanNyata, Pc, Aktif, TanpaJob,
      sejarah, atur
<1>8. QED
  BY <1>1, <1>2, <1>3, <1>4, <1>5, <1>6, <1>7 DEF IndInv

\* The one call of the attempt is counted, and its provider recorded.
LEMMA LangkahSiapkanKlien ==
  ASSUME IndInv, NEW w \in Worker, SiapkanKlien(w)
  PROVE  IndInv'
<1>0. /\ pc[w] = "siap"
      /\ pegang[w] \in Req
      /\ panggilan' = [panggilan EXCEPT ![pegang[w]] = @ + 1] \/ UNCHANGED panggilan
      /\ pc' = [pc EXCEPT ![w] = "panggil"] \/ pc' = [pc EXCEPT ![w] = "jawab"]
  BY DEF IndInv, PemegangSah, SiapkanKlien, Aktif
<1>1. TypeOK'
  <2>1. panggilan' \in [Req -> Nat]
    <3>1. panggilan \in [Req -> Nat] /\ panggilan[pegang[w]] + 1 \in Nat
      BY <1>0 DEF IndInv, TypeOK
    <3>2. QED  BY <1>0, <3>1
  <2>a. pc' \in [Worker -> Pc]
    BY <1>0 DEF IndInv, TypeOK, Pc, Aktif
  <2>2. /\ hasil' \in [Worker -> Galat \cup VonisJawaban]
        /\ hidupSejakJawab' \in [Worker -> BOOLEAN]
        /\ klien' \in [Worker -> Semua]
        /\ penyediaRun' \in [Req -> Semua]
    BY <1>0 DEF IndInv, TypeOK, SiapkanKlien, Galat
  <2>3. QED
    BY <2>1, <2>a, <2>2 DEF IndInv, TypeOK, SiapkanKlien, atur, batas
<1>2. VonisSejalan' /\ MasukanSelamaMenunggu'
  BY DEF IndInv, SiapkanKlien, VonisSejalan, MasukanSelamaMenunggu
<1>3. SatuPelaksana'
  <2>1. pegang' = pegang
    BY DEF SiapkanKlien
  <2>2. \A v \in Worker : pc'[v] \in Aktif => pc[v] \in Aktif
    BY <1>0 DEF IndInv, TypeOK, Aktif
  <2>3. QED  BY <2>1, <2>2 DEF IndInv, SatuPelaksana
<1>4. PemegangSah'
  BY AiJobAssumption DEF IndInv, TypeOK, SatuPelaksana, PemegangSah, Pc, Aktif,
      SiapkanKlien
<1>5. SekaliPerUpaya'
  <2>1. /\ panggilan[pegang[w]] <= percobaan[pegang[w]]
        /\ job[pegang[w]] \notin {"TIADA", "PENDING"}
    BY <1>0 DEF IndInv, SekaliPerUpaya, PemegangSah, Aktif
  <2>2. \A v \in Worker : pc[v] = "siap" /\ v # w => pegang[v] # pegang[w]
    BY <1>0 DEF IndInv, SatuPelaksana, Aktif
  <2>3. UNCHANGED <<percobaan, job, pegang>>
    BY DEF SiapkanKlien
  <2>4. \A v \in Worker : pc'[v] = "siap" => v # w /\ pc[v] = "siap"
    BY <1>0 DEF IndInv, TypeOK
  <2>5. \A r \in Req :
          panggilan'[r] <= percobaan[r] + (IF job[r] \in {"TIADA", "PENDING"} THEN 0 ELSE 1)
    <3>1. CASE UNCHANGED panggilan
      BY <3>1 DEF IndInv, SekaliPerUpaya
    <3>2. CASE panggilan' = [panggilan EXCEPT ![pegang[w]] = @ + 1]
      <4> TAKE r \in Req
      <4>1. CASE r = pegang[w]
        <5>1. panggilan'[r] = panggilan[r] + 1
          BY <1>0, <3>2, <4>1 DEF IndInv, TypeOK
        <5>2. panggilan[r] \in Nat /\ percobaan[r] \in Nat
          BY DEF IndInv, TypeOK
        <5>3. QED  BY <2>1, <4>1, <5>1, <5>2
      <4>2. CASE r # pegang[w]
        <5>1. panggilan'[r] = panggilan[r]
          BY <3>2, <4>2 DEF IndInv, TypeOK
        <5>2. QED  BY <5>1 DEF IndInv, SekaliPerUpaya
      <4>3. QED  BY <4>1, <4>2
    <3>3. QED  BY <1>0, <3>1, <3>2
  <2>6. \A v \in Worker : pc'[v] = "siap" => panggilan'[pegang[v]] <= percobaan[pegang[v]]
    BY <1>0, <2>2, <2>4 DEF IndInv, TypeOK, SekaliPerUpaya, PemegangSah, Aktif
  <2>7. QED
    BY <2>3, <2>5, <2>6 DEF IndInv, SekaliPerUpaya
<1>6. PenyediaTercatat'
  BY AiJobAssumption DEF IndInv, TypeOK, PenyediaTercatat, Pc, Aktif,
      PemegangSah, VonisSejalan, SatuPelaksana, SiapkanKlien
<1>7. JawabanNyata'
  <2> SUFFICES ASSUME NEW v \in Worker
      PROVE  /\ pc'[v] = "panggil" => panggilan'[pegang[v]] > 0
             /\ (pc'[v] \in {"jawab", "tulis"} /\ hasil'[v] \in VonisJawaban)
                  => panggilan'[pegang[v]] > 0
             /\ (pc'[v] = "jawab" /\ saklar) => hidupSejakJawab'[v]
             /\ (pc'[v] = "tulis" /\ lihat[v].saklar) => hidupSejakJawab'[v]
    BY DEF SiapkanKlien, JawabanNyata, atur
  <2>1. CASE v = w
    <3>1. CASE pc' = [pc EXCEPT ![w] = "panggil"]
      <4>1. panggilan' = [panggilan EXCEPT ![pegang[w]] = @ + 1]
        BY <1>0, <3>1 DEF IndInv, TypeOK, SiapkanKlien
      <4>2. QED
        BY <1>0, <2>1, <3>1, <4>1 DEF IndInv, TypeOK
    <3>2. CASE pc' = [pc EXCEPT ![w] = "jawab"]
      BY <1>0, <2>1, <3>2 DEF IndInv, TypeOK, SiapkanKlien, VonisJawaban, Galat
    <3>3. QED
      BY <1>0, <3>1, <3>2
  <2>2. CASE v # w
    <3>1. /\ pc'[v] = pc[v]
          /\ hasil'[v] = hasil[v]
          /\ hidupSejakJawab'[v] = hidupSejakJawab[v]
      BY <1>0, <2>2 DEF IndInv, TypeOK, SiapkanKlien
    <3>2. pc[v] \in Aktif => panggilan'[pegang[v]] >= panggilan[pegang[v]]
      <4>1. ASSUME pc[v] \in Aktif PROVE panggilan'[pegang[v]] >= panggilan[pegang[v]]
        <5>1. pegang[v] \in Req /\ panggilan[pegang[v]] \in Nat
          BY <4>1 DEF IndInv, TypeOK, PemegangSah
        <5>2. CASE UNCHANGED panggilan
          BY <5>1, <5>2
        <5>3. CASE panggilan' = [panggilan EXCEPT ![pegang[w]] = @ + 1]
          <6>1. \/ panggilan'[pegang[v]] = panggilan[pegang[v]]
                \/ panggilan'[pegang[v]] = panggilan[pegang[v]] + 1
            BY <1>0, <5>1, <5>3 DEF IndInv, TypeOK
          <6>2. QED  BY <5>1, <6>1
        <5>4. QED  BY <1>0, <5>2, <5>3
      <4>2. QED  BY <4>1
    <3>3. pc[v] \in Aktif => panggilan'[pegang[v]] \in Nat /\ panggilan[pegang[v]] \in Nat
      BY <1>0, <1>1 DEF IndInv, TypeOK, PemegangSah
    <3>4. QED
      BY <3>1, <3>2, <3>3 DEF IndInv, JawabanNyata, Aktif
  <2>3. QED
    BY <2>1, <2>2
<1>8. QED
  BY <1>1, <1>2, <1>3, <1>4, <1>5, <1>6, <1>7 DEF IndInv

\* An answer is local to the worker that asked.
LEMMA LangkahModelMenjawab ==
  ASSUME IndInv, NEW w \in Worker, NEW h \in Galat \cup VonisJawaban, ModelMenjawab(w, h)
  PROVE  IndInv'
<1>1. TypeOK'
  BY AiJobAssumption DEF IndInv, TypeOK, PemegangSah, ModelMenjawab, tabel,
      atur, batas, StatusJob, StatusQaAi, Vonis, VonisGerbang, VonisJawaban,
      Galat, Pc, Aktif, Semua, Lihat, KosongLihat
<1>2. VonisSejalan' /\ MasukanSelamaMenunggu'
  BY DEF IndInv, ModelMenjawab, VonisSejalan, MasukanSelamaMenunggu, tabel
<1>3. SatuPelaksana'
  BY AiJobAssumption DEF IndInv, TypeOK, SatuPelaksana, Pc, Aktif,
      ModelMenjawab
<1>4. PemegangSah'
  BY AiJobAssumption DEF IndInv, TypeOK, SatuPelaksana, PemegangSah, Pc, Aktif,
      ModelMenjawab, tabel
<1>5. SekaliPerUpaya'
  BY AiJobAssumption DEF IndInv, TypeOK, SekaliPerUpaya, Pc, Aktif,
      ModelMenjawab, tabel
<1>6. PenyediaTercatat'
  BY AiJobAssumption DEF IndInv, TypeOK, PenyediaTercatat, Pc, Aktif,
      ModelMenjawab, tabel
<1>7. JawabanNyata'
  BY AiJobAssumption DEF IndInv, TypeOK, JawabanNyata, Pc, Aktif, ModelMenjawab,
     atur
<1>8. QED
  BY <1>1, <1>2, <1>3, <1>4, <1>5, <1>6, <1>7 DEF IndInv

\* Reading before writing is local to the worker.
LEMMA LangkahBacaTahap3 ==
  ASSUME IndInv, NEW w \in Worker, BacaTahap3(w)
  PROVE  IndInv'
<1>1. TypeOK'
  BY AiJobAssumption DEF IndInv, TypeOK, PemegangSah, BacaTahap3, tabel, atur,
      sejarah, batas, StatusJob, StatusQaAi, Vonis, VonisGerbang, VonisJawaban,
      Galat, Pc, Aktif, Semua, Lihat, KosongLihat
<1>2. VonisSejalan' /\ MasukanSelamaMenunggu'
  BY DEF IndInv, BacaTahap3, VonisSejalan, MasukanSelamaMenunggu, tabel
<1>3. SatuPelaksana'
  BY AiJobAssumption DEF IndInv, TypeOK, SatuPelaksana, Pc, Aktif, BacaTahap3
<1>4. PemegangSah'
  BY AiJobAssumption DEF IndInv, TypeOK, SatuPelaksana, PemegangSah, Pc, Aktif,
      BacaTahap3, tabel
<1>5. SekaliPerUpaya'
  BY AiJobAssumption DEF IndInv, TypeOK, SekaliPerUpaya, Pc, Aktif, BacaTahap3,
      tabel, sejarah
<1>6. PenyediaTercatat'
  BY AiJobAssumption DEF IndInv, TypeOK, PenyediaTercatat, Pc, Aktif,
      BacaTahap3, tabel
<1>7. JawabanNyata'
  BY AiJobAssumption DEF IndInv, TypeOK, JawabanNyata, Pc, Aktif,
      BacaTahap3, sejarah, atur
<1>8. QED
  BY <1>1, <1>2, <1>3, <1>4, <1>5, <1>6, <1>7 DEF IndInv

\* The retry releases the job before it is queued again.
LEMMA LangkahUlangi ==
  ASSUME IndInv, NEW w \in Worker, Ulangi(w)
  PROVE  IndInv'
<1>1. TypeOK'
  BY AiJobAssumption DEF IndInv, TypeOK, PemegangSah, Ulangi, TulisJob, Lepas,
      Lupakan, Diulang, BolehTransisi, TRANSISI_SAH, atur, batas, StatusJob,
      StatusQaAi, Vonis, VonisGerbang, VonisJawaban, Galat, Pc, Aktif, Semua,
      Lihat, KosongLihat
<1>2. MasukanSelamaMenunggu'
  BY DEF IndInv, Ulangi, Lepas, Lupakan, MasukanSelamaMenunggu
<1>3. VonisSejalan'
  BY AiJobAssumption DEF IndInv, TypeOK, VonisSejalan, PemegangSah, Aktif, Ulangi,
      TulisJob
<1>4. SatuPelaksana'
  BY AiJobAssumption DEF IndInv, TypeOK, SatuPelaksana, Pc, Aktif, Ulangi,
      TulisJob, Lepas, Lupakan, Diulang, BolehTransisi, TRANSISI_SAH
<1>5. PemegangSah'
  BY AiJobAssumption DEF IndInv, TypeOK, SatuPelaksana, PemegangSah, Pc, Aktif,
      Ulangi, TulisJob, Lepas, Lupakan, Diulang, BolehTransisi, TRANSISI_SAH
<1>6. SekaliPerUpaya'
  BY AiJobAssumption DEF IndInv, TypeOK, SekaliPerUpaya, Pc, Aktif,
      PemegangSah, SatuPelaksana, Ulangi, TulisJob, Lepas, Lupakan, Diulang,
      BolehTransisi, TRANSISI_SAH
<1>7. PenyediaTercatat'
  BY AiJobAssumption DEF IndInv, TypeOK, PenyediaTercatat, Pc, Aktif, Ulangi,
      TulisJob, Lepas, Lupakan, Diulang, BolehTransisi, TRANSISI_SAH
<1>8. JawabanNyata'
  BY AiJobAssumption DEF IndInv, TypeOK, JawabanNyata, Pc, Aktif, Ulangi,
      TulisJob, Lepas, Lupakan, Diulang, BolehTransisi, TRANSISI_SAH, atur
<1>9. QED
  BY <1>1, <1>2, <1>3, <1>4, <1>5, <1>6, <1>7, <1>8 DEF IndInv

\* Closing writes run and job together and releases the job.
LEMMA LangkahTutup ==
  ASSUME IndInv, NEW w \in Worker, Tutup(w)
  PROVE  IndInv'
<1>1. TypeOK'
  BY AiJobAssumption DEF IndInv, TypeOK, PemegangSah, Tutup, TulisJob,
      TulisVonis, VonisTahap3, Lepas, Lupakan, atur, batas, StatusJob,
      StatusQaAi, Vonis, VonisGerbang, VonisJawaban, Galat, Pc, Aktif, Semua,
      Lihat, KosongLihat
<1>2. VonisSejalan'
  BY AiJobAssumption DEF IndInv, TypeOK, VonisSejalan, StatusJob, StatusQaAi,
      Vonis, VonisGerbang, VonisJawaban, PemegangSah, Tutup, TulisJob,
      TulisVonis, VonisTahap3, Lepas, Lupakan
<1>3. SatuPelaksana'
  BY AiJobAssumption DEF IndInv, TypeOK, SatuPelaksana, Pc, Aktif, Tutup,
      TulisJob, TulisVonis, VonisTahap3, Lepas, Lupakan
<1>4. PemegangSah'
  BY AiJobAssumption DEF IndInv, TypeOK, SatuPelaksana, PemegangSah, Pc, Aktif,
      Tutup, TulisJob, TulisVonis, VonisTahap3, Lepas, Lupakan
<1>5. SekaliPerUpaya'
  BY AiJobAssumption DEF IndInv, TypeOK, SekaliPerUpaya, Pc, Aktif,
      PemegangSah, SatuPelaksana, Tutup, TulisJob, TulisVonis, VonisTahap3,
      Lepas, Lupakan
<1>6. MasukanSelamaMenunggu'
  <2>1. VonisTahap3(w) # "MENUNGGU"
    BY DEF IndInv, TypeOK, VonisTahap3, Galat, VonisJawaban
  <2>2. pegang[w] \in Req
    BY DEF IndInv, PemegangSah, Tutup, Aktif
  <2>3. QED
    BY <2>1, <2>2 DEF IndInv, TypeOK, MasukanSelamaMenunggu, Tutup, TulisVonis
<1>7. PenyediaTercatat'
  BY AiJobAssumption DEF IndInv, TypeOK, PenyediaTercatat, Pc, Aktif, Tutup,
      TulisJob, TulisVonis, VonisTahap3, Lepas, Lupakan
<1>8. JawabanNyata'
  BY AiJobAssumption DEF IndInv, TypeOK, JawabanNyata, Pc, Aktif, Tutup,
      TulisJob, TulisVonis, VonisTahap3, Lepas, Lupakan, atur
<1>9. QED
  BY <1>1, <1>2, <1>3, <1>4, <1>5, <1>6, <1>7, <1>8 DEF IndInv

\* A refused stage 3 releases the job and changes no row.
LEMMA LangkahDitolak ==
  ASSUME IndInv, NEW w \in Worker, Ditolak(w)
  PROVE  IndInv'
<1>1. TypeOK'
  BY AiJobAssumption DEF IndInv, TypeOK, PemegangSah, Ditolak, Lepas, Lupakan,
      tabel, atur, batas, StatusJob, StatusQaAi, Vonis, VonisGerbang,
      VonisJawaban, Galat, Pc, Aktif, Semua, Lihat, KosongLihat
<1>2. VonisSejalan' /\ MasukanSelamaMenunggu'
  BY DEF IndInv, Ditolak, Lepas, Lupakan, VonisSejalan, MasukanSelamaMenunggu,
      tabel
<1>3. SatuPelaksana'
  BY AiJobAssumption DEF IndInv, TypeOK, SatuPelaksana, Pc, Aktif, Ditolak,
      Lepas, Lupakan
<1>4. PemegangSah'
  BY AiJobAssumption DEF IndInv, TypeOK, SatuPelaksana, PemegangSah, Pc, Aktif,
      Ditolak, Lepas, Lupakan, tabel
<1>5. SekaliPerUpaya'
  BY AiJobAssumption DEF IndInv, TypeOK, SekaliPerUpaya, Pc, Aktif, Ditolak,
      Lepas, Lupakan, tabel
<1>6. PenyediaTercatat'
  BY AiJobAssumption DEF IndInv, TypeOK, PenyediaTercatat, Pc, Aktif, Ditolak,
      Lepas, Lupakan, tabel
<1>7. JawabanNyata'
  BY AiJobAssumption DEF IndInv, TypeOK, JawabanNyata, Pc, Aktif, Ditolak,
      Lepas, Lupakan, atur
<1>8. QED
  BY <1>1, <1>2, <1>3, <1>4, <1>5, <1>6, <1>7 DEF IndInv

\* A crash forgets; the rows stay.
LEMMA LangkahMati ==
  ASSUME IndInv, NEW w \in Worker, Mati(w)
  PROVE  IndInv'
<1>1. TypeOK'
  BY AiJobAssumption DEF IndInv, TypeOK, PemegangSah, Mati, Lupakan, tabel,
      atur, StatusJob, StatusQaAi, Vonis, VonisGerbang, VonisJawaban, Galat,
      Pc, Aktif, Semua, Lihat, KosongLihat
<1>2. VonisSejalan' /\ MasukanSelamaMenunggu'
  BY DEF IndInv, Mati, Lupakan, VonisSejalan, MasukanSelamaMenunggu, tabel
<1>3. SatuPelaksana'
  BY AiJobAssumption DEF IndInv, TypeOK, SatuPelaksana, Pc, Aktif, Mati,
      Lupakan
<1>4. PemegangSah'
  BY AiJobAssumption DEF IndInv, TypeOK, SatuPelaksana, PemegangSah, Pc, Aktif,
      Mati, Lupakan, tabel
<1>5. SekaliPerUpaya'
  BY AiJobAssumption DEF IndInv, TypeOK, SekaliPerUpaya, Pc, Aktif, Mati,
      Lupakan, tabel
<1>6. PenyediaTercatat'
  BY AiJobAssumption DEF IndInv, TypeOK, PenyediaTercatat, Pc, Aktif, Mati,
      Lupakan, tabel
<1>7. JawabanNyata'
  BY AiJobAssumption DEF IndInv, TypeOK, JawabanNyata, Pc, Aktif, Mati, Lupakan,
     atur
<1>8. QED
  BY <1>1, <1>2, <1>3, <1>4, <1>5, <1>6, <1>7 DEF IndInv

\* A rolled-back transaction forgets; the rows stay.
LEMMA LangkahTransaksiGagal ==
  ASSUME IndInv, NEW w \in Worker, TransaksiGagal(w)
  PROVE  IndInv'
<1>1. TypeOK'
  BY AiJobAssumption DEF IndInv, TypeOK, PemegangSah, TransaksiGagal, Lepas,
      Lupakan, tabel, atur, StatusJob, StatusQaAi, Vonis, VonisGerbang,
      VonisJawaban, Galat, Pc, Aktif, Semua, Lihat, KosongLihat
<1>2. VonisSejalan' /\ MasukanSelamaMenunggu'
  BY DEF IndInv, TransaksiGagal, Lepas, Lupakan, VonisSejalan,
      MasukanSelamaMenunggu, tabel
<1>3. SatuPelaksana'
  BY AiJobAssumption DEF IndInv, TypeOK, SatuPelaksana, Pc, Aktif,
      TransaksiGagal, Lepas, Lupakan
<1>4. PemegangSah'
  BY AiJobAssumption DEF IndInv, TypeOK, SatuPelaksana, PemegangSah, Pc, Aktif,
      TransaksiGagal, Lepas, Lupakan, tabel
<1>5. SekaliPerUpaya'
  BY AiJobAssumption DEF IndInv, TypeOK, SekaliPerUpaya, Pc, Aktif,
      TransaksiGagal, Lepas, Lupakan, tabel
<1>6. PenyediaTercatat'
  BY AiJobAssumption DEF IndInv, TypeOK, PenyediaTercatat, Pc, Aktif,
      TransaksiGagal, Lepas, Lupakan, tabel
<1>7. JawabanNyata'
  BY AiJobAssumption DEF IndInv, TypeOK, JawabanNyata, Pc, Aktif,
      TransaksiGagal, Lepas, Lupakan, atur
<1>8. QED
  BY <1>1, <1>2, <1>3, <1>4, <1>5, <1>6, <1>7 DEF IndInv

\* Switching on vouches for every pending answer.
LEMMA LangkahUbahSaklar ==
  ASSUME IndInv, UbahSaklar
  PROVE  IndInv'
<1>1. TypeOK'
  BY AiJobAssumption DEF IndInv, TypeOK, PemegangSah, UbahSaklar, tabel, lokal,
      StatusJob, StatusQaAi, Vonis, VonisGerbang, VonisJawaban, Galat, Pc,
      Aktif, Semua, Lihat, KosongLihat
<1>2. /\ VonisSejalan'
      /\ SatuPelaksana'
      /\ PemegangSah'
      /\ SekaliPerUpaya'
      /\ MasukanSelamaMenunggu'
      /\ PenyediaTercatat'
  BY DEF IndInv, UbahSaklar, VonisSejalan, SatuPelaksana, PemegangSah,
      SekaliPerUpaya, MasukanSelamaMenunggu, PenyediaTercatat, tabel, lokal
<1>3. JawabanNyata'
  BY AiJobAssumption DEF IndInv, TypeOK, JawabanNyata, Pc, Aktif, UbahSaklar,
      lokal
<1>4. QED
  BY <1>1, <1>2, <1>3 DEF IndInv

\* The provider mode is read afresh before every call.
LEMMA LangkahUbahMode ==
  ASSUME IndInv, NEW m \in Semua, UbahMode(m)
  PROVE  IndInv'
<1>1. TypeOK'
  BY AiJobAssumption DEF IndInv, TypeOK, PemegangSah, UbahMode, tabel, lokal,
      sejarah, StatusJob, StatusQaAi, Vonis, VonisGerbang, VonisJawaban, Galat,
      Pc, Aktif, Semua, Lihat, KosongLihat
<1>2. /\ VonisSejalan'
      /\ SatuPelaksana'
      /\ PemegangSah'
      /\ SekaliPerUpaya'
      /\ MasukanSelamaMenunggu'
      /\ PenyediaTercatat'
      /\ JawabanNyata'
  BY DEF IndInv, UbahMode, VonisSejalan, SatuPelaksana, PemegangSah,
      SekaliPerUpaya, MasukanSelamaMenunggu, PenyediaTercatat, JawabanNyata,
      tabel, lokal, sejarah
<1>3. QED
  BY <1>1, <1>2 DEF IndInv

\* Every step of the pipeline, and every stutter, preserves the invariant.
LEMMA LangkahInv == IndInv /\ [Next]_vars => IndInv'
<1> SUFFICES ASSUME IndInv, [Next]_vars PROVE IndInv'
  OBVIOUS
<1>1. CASE \E r \in Req : PeriksaPengajuan(r) \/ Ajukan(r) \/ Menua(r)
  BY <1>1, LangkahPeriksaPengajuan, LangkahAjukan, LangkahMenua
<1>2. ASSUME NEW w \in Worker, LangkahWorker(w)
      PROVE  IndInv'
  <2>1. CASE \E r \in Req : Klaim(w, r) \/ KlaimTanpaFungsi(w, r)
    BY <2>1, LangkahKlaim, LangkahKlaimTanpaFungsi
  <2>2. CASE \E h \in Galat \cup VonisJawaban : ModelMenjawab(w, h)
    BY <2>2, LangkahModelMenjawab
  <2>3. CASE Mulai(w) \/ PulihkanJobBasi(w) \/ PemulihanGagal(w)
    BY <2>3, LangkahMulai, LangkahPulihkanJobBasi, LangkahPemulihanGagal
  <2>4. CASE PeriksaSaklar(w) \/ TanpaJob(w) \/ SiapkanKlien(w) \/ BacaTahap3(w)
    BY <2>4, LangkahPeriksaSaklar, LangkahTanpaJob, LangkahSiapkanKlien,
       LangkahBacaTahap3
  <2>5. CASE Ulangi(w) \/ Tutup(w) \/ Ditolak(w) \/ Mati(w) \/ TransaksiGagal(w)
    BY <2>5, LangkahUlangi, LangkahTutup, LangkahDitolak, LangkahMati,
       LangkahTransaksiGagal
  <2>6. QED
    BY <1>2, <2>1, <2>2, <2>3, <2>4, <2>5 DEF LangkahWorker
<1>3. CASE UbahSaklar \/ \E m \in Semua : UbahMode(m)
  BY <1>3, LangkahUbahSaklar, LangkahUbahMode
<1>4. CASE UNCHANGED vars
  <2>1. TypeOK'
    BY <1>4 DEF IndInv, TypeOK, vars, tabel, atur, lokal, sejarah, batas
  <2>2. VonisSejalan' /\ SatuPelaksana' /\ PemegangSah'
    BY <1>4 DEF IndInv, VonisSejalan, SatuPelaksana, PemegangSah, vars, tabel, lokal
  <2>3. SekaliPerUpaya' /\ MasukanSelamaMenunggu' /\ PenyediaTercatat' /\ JawabanNyata'
    BY <1>4 DEF IndInv, SekaliPerUpaya, MasukanSelamaMenunggu, PenyediaTercatat,
       JawabanNyata, vars, tabel, atur, lokal, sejarah
  <2>4. QED
    BY <2>1, <2>2, <2>3 DEF IndInv
<1>5. QED
  BY <1>1, <1>2, <1>3, <1>4 DEF Next

\* IndInv holds in every reachable state.
THEOREM InvarianInduktif == Spec => []IndInv
  BY InitInv, LangkahInv, PTL DEF Spec

\* Type correctness.
THEOREM TipeBenar == Spec => []TypeOK
<1>1. IndInv => TypeOK
  BY DEF IndInv
<1>2. QED
  BY InvarianInduktif, <1>1, PTL

\* worker.py, gateway.py: run and job are decided together, for any number of
\* workers, crashes, retries and stale-job recoveries.
THEOREM RunDanJobSejalan == Spec => []VonisSejalan
<1>1. IndInv => VonisSejalan
  BY DEF IndInv
<1>2. QED
  BY InvarianInduktif, <1>1, PTL

\* worker.py klaim_job and pulihkan_job_basi: no job ever has two workers.
THEOREM TidakAdaDuaPelaksana == Spec => []SatuPelaksana
<1>1. IndInv => SatuPelaksana
  BY DEF IndInv
<1>2. QED
  BY InvarianInduktif, <1>1, PTL

\* worker.py stage 3: a submission never costs more than MaksPercobaan calls.
THEOREM BiayaTerbatas == Spec => []PercobaanTerbatas
<1>1. IndInv => PercobaanTerbatas
  <2> SUFFICES ASSUME IndInv, NEW r \in Req PROVE panggilan[r] <= MaksPercobaan
    BY DEF PercobaanTerbatas
  <2>1. panggilan[r] \in Nat /\ percobaan[r] \in Nat /\ MaksPercobaan \in Nat
    BY AiJobAssumption DEF IndInv, TypeOK
  <2>2. percobaan[r] < MaksPercobaan /\ panggilan[r] <= percobaan[r] + 1
    BY <2>1 DEF IndInv, SekaliPerUpaya
  <2>3. QED
    BY <2>1, <2>2
<1>2. QED
  BY InvarianInduktif, <1>1, PTL

\* ai_run_sql.py: the redacted input is kept exactly as long as a retry may need it.
THEOREM MasukanTepatWaktu == Spec => []MasukanSelamaMenunggu
<1>1. IndInv => MasukanSelamaMenunggu
  BY DEF IndInv
<1>2. QED
  BY InvarianInduktif, <1>1, PTL

\* worker.py _siapkan_klien: the register names the provider that got the data.
THEOREM RegisterPenyediaBenar == Spec => []PenyediaTercatat
<1>1. IndInv => PenyediaTercatat
  BY DEF IndInv
<1>2. QED
  BY InvarianInduktif, <1>1, PTL

\* Only four actions touch the run register or call a model.
LEMMA LangkahRegister ==
  ASSUME [Next]_vars
  PROVE  \/ \E r \in Req : Ajukan(r)
         \/ \E w \in Worker, r \in Req : KlaimTanpaFungsi(w, r)
         \/ \E w \in Worker : SiapkanKlien(w) \/ Tutup(w)
         \/ UNCHANGED <<run, panggilan>>
<1>1. CASE \E r \in Req : PeriksaPengajuan(r) \/ Ajukan(r) \/ Menua(r)
  BY <1>1 DEF PeriksaPengajuan, Menua, tabel, sejarah
<1>2. ASSUME NEW w \in Worker, LangkahWorker(w)
      PROVE  \/ \E r \in Req : KlaimTanpaFungsi(w, r)
             \/ SiapkanKlien(w) \/ Tutup(w)
             \/ UNCHANGED <<run, panggilan>>
  <2>1. CASE \E r \in Req : Klaim(w, r) \/ KlaimTanpaFungsi(w, r)
    BY <2>1 DEF Klaim, sejarah
  <2>2. CASE \E h \in Galat \cup VonisJawaban : ModelMenjawab(w, h)
    BY <2>2 DEF ModelMenjawab, tabel
  <2>3. CASE Mulai(w) \/ PulihkanJobBasi(w) \/ PemulihanGagal(w)
    BY <2>3 DEF Mulai, PulihkanJobBasi, PemulihanGagal, tabel, sejarah
  <2>4. CASE PeriksaSaklar(w) \/ TanpaJob(w) \/ BacaTahap3(w)
    BY <2>4 DEF PeriksaSaklar, TanpaJob, BacaTahap3, tabel, sejarah
  <2>5. CASE Ulangi(w) \/ Ditolak(w) \/ Mati(w) \/ TransaksiGagal(w)
    BY <2>5 DEF Ulangi, Ditolak, Mati, TransaksiGagal, Lepas, Lupakan, tabel
  <2>6. QED
    BY <1>2, <2>1, <2>2, <2>3, <2>4, <2>5 DEF LangkahWorker
<1>3. CASE UbahSaklar \/ \E m \in Semua : UbahMode(m)
  BY <1>3 DEF UbahSaklar, UbahMode, tabel, sejarah
<1>4. CASE UNCHANGED vars
  BY <1>4 DEF vars, tabel, sejarah
<1>5. QED
  BY <1>1, <1>2, <1>3, <1>4 DEF Next

\* What stage 3 knows when it closes a run.
LEMMA TutupSah ==
  ASSUME IndInv, NEW w \in Worker, Tutup(w)
  PROVE  /\ pegang[w] \in Req
         /\ run[pegang[w]] = "MENUNGGU"
         /\ run' = [run EXCEPT ![pegang[w]] = VonisTahap3(w)]
         /\ VonisTahap3(w) \in VonisJawaban \cup {"GAGAL"}
         /\ VonisTahap3(w) \in VonisJawaban => panggilan[pegang[w]] > 0
         /\ VonisTahap3(w) = "LOLOS" => hidupSejakJawab[w]
         /\ UNCHANGED panggilan
<1>1. /\ pc[w] = "tulis"
      /\ pegang[w] \in Req
      /\ run' = [run EXCEPT ![pegang[w]] = VonisTahap3(w)]
      /\ UNCHANGED panggilan
  BY DEF IndInv, PemegangSah, Aktif, Tutup, TulisVonis, Lepas, Lupakan
<1>2. run[pegang[w]] = "MENUNGGU"
  BY <1>1 DEF IndInv, VonisSejalan, PemegangSah, Aktif
<1>3. hasil[w] \in Galat \cup VonisJawaban
  BY DEF IndInv, TypeOK
<1>4. CASE hasil[w] \in Galat
  BY <1>1, <1>2, <1>4 DEF VonisTahap3, VonisJawaban
<1>5. CASE hasil[w] \in VonisJawaban
  BY <1>1, <1>2, <1>5 DEF VonisTahap3, VonisJawaban, Galat, IndInv, JawabanNyata
<1>6. QED
  BY <1>3, <1>4, <1>5

\* gateway.py, saklar, worker.py stage 3: an answer that came back while the
\* switch was off, and stayed off until the run was closed, is never let through.
THEOREM SaklarMenahanJawaban == Spec => SaklarDihormati
<1> DEFINE Langkah ==
      \A w \in Worker :
        (pc[w] = "tulis" /\ run[pegang[w]] = "MENUNGGU" /\ run'[pegang[w]] = "LOLOS")
          => hidupSejakJawab[w]
<1>1. IndInv /\ [Next]_vars => Langkah
  <2> SUFFICES ASSUME IndInv, [Next]_vars, NEW w \in Worker,
                      pc[w] = "tulis", run[pegang[w]] = "MENUNGGU",
                      run'[pegang[w]] = "LOLOS"
               PROVE  hidupSejakJawab[w]
    OBVIOUS
  <2>1. pegang[w] \in Req
    BY DEF IndInv, PemegangSah, Aktif
  <2>2. CASE \E r \in Req : Ajukan(r)
    <3>1. PICK r \in Req : Ajukan(r)
      BY <2>2
    <3>2. run[r] = "TIADA" /\ \E v \in VonisGerbang \cup {"MENUNGGU"} : run' = [run EXCEPT ![r] = v]
      BY <3>1 DEF Ajukan, IndInv, VonisSejalan
    <3>3. run'[pegang[w]] = run[pegang[w]]
      BY <2>1, <3>2 DEF IndInv, TypeOK
    <3>4. QED  BY <3>3
  <2>3. CASE \E v \in Worker, r \in Req : KlaimTanpaFungsi(v, r)
    BY <2>1, <2>3 DEF KlaimTanpaFungsi, TulisVonis, IndInv, TypeOK
  <2>4. ASSUME NEW v \in Worker, Tutup(v) PROVE hidupSejakJawab[w]
    <3>1. v = w \/ pegang[v] # pegang[w]
      BY <2>4 DEF IndInv, SatuPelaksana, Aktif, Tutup
    <3>2. QED
      BY <2>1, <2>4, <3>1, TutupSah DEF IndInv, TypeOK
  <2>5. CASE \E v \in Worker : SiapkanKlien(v)
    BY <2>5 DEF SiapkanKlien
  <2>6. QED
    BY <2>2, <2>3, <2>4, <2>5, LangkahRegister
<1>2. QED
  BY InvarianInduktif, <1>1, PTL DEF Spec, SaklarDihormati

\* Every step of the pipeline is a step of the run register or leaves it alone.
LEMMA LangkahJanji == IndInv /\ [Next]_vars => [Janji!JanjiNext]_Janji!janjiVars
<1> SUFFICES ASSUME IndInv, [Next]_vars
             PROVE  [Janji!JanjiNext]_Janji!janjiVars
  OBVIOUS
<1> DEFINE dipanggil == {r \in Req : panggilan[r] > 0}
<1>1. CASE \E r \in Req : Ajukan(r)
  <2>1. PICK r \in Req : Ajukan(r)
    BY <1>1
  <2>2. run[r] = "TIADA" /\ UNCHANGED dipanggil
    BY <2>1 DEF Ajukan, IndInv, VonisSejalan, sejarah
  <2>3. \/ run' = [run EXCEPT ![r] = "MENUNGGU"]
        \/ \E v \in VonisGerbang : run' = [run EXCEPT ![r] = v]
    BY <2>1 DEF Ajukan
  <2>4. Janji!Buka(r) \/ \E v \in Janji!Vonis : Janji!TolakDiGerbang(r, v)
    BY <2>2, <2>3 DEF Janji!Buka, Janji!TolakDiGerbang, Janji!Vonis,
       Janji!VonisGerbang, VonisGerbang
  <2>5. QED
    BY <2>4 DEF Janji!JanjiNext
<1>2. CASE \E w \in Worker, r \in Req : KlaimTanpaFungsi(w, r)
  <2>1. PICK w \in Worker, r \in Req : KlaimTanpaFungsi(w, r)
    BY <1>2
  <2>2. Janji!Putus(r, "GAGAL")
    BY <2>1 DEF KlaimTanpaFungsi, TulisVonis, Lepas, Lupakan, Janji!Putus,
       Janji!VonisJawaban
  <2>3. QED
    BY <2>2 DEF Janji!JanjiNext, Janji!Vonis
<1>3. CASE \E w \in Worker : Tutup(w)
  <2>1. PICK w \in Worker : Tutup(w)
    BY <1>3
  <2>2. Janji!Putus(pegang[w], VonisTahap3(w)) /\ VonisTahap3(w) \in Janji!Vonis
    BY <2>1, TutupSah DEF Janji!Putus, Janji!Vonis, Janji!VonisJawaban, VonisJawaban
  <2>3. QED
    BY <2>1, <2>2, TutupSah DEF Janji!JanjiNext
<1>4. CASE \E w \in Worker : SiapkanKlien(w)
  <2>1. PICK w \in Worker : SiapkanKlien(w)
    BY <1>4
  <2>2. pegang[w] \in Req /\ run[pegang[w]] = "MENUNGGU" /\ UNCHANGED run
    BY <2>1 DEF SiapkanKlien, IndInv, PemegangSah, VonisSejalan, Aktif
  <2>3. CASE UNCHANGED panggilan
    BY <2>2, <2>3 DEF Janji!janjiVars
  <2>4. CASE panggilan' = [panggilan EXCEPT ![pegang[w]] = @ + 1]
    <3>1. \A r \in Req : panggilan[r] \in Nat
      BY DEF IndInv, TypeOK
    <3>2. \A r \in Req : panggilan'[r] = IF r = pegang[w] THEN panggilan[r] + 1 ELSE panggilan[r]
      BY <2>4 DEF IndInv, TypeOK
    <3>3. \A r \in Req : (panggilan'[r] > 0) <=> (r = pegang[w] \/ panggilan[r] > 0)
      BY <3>1, <3>2
    <3>4. dipanggil' = dipanggil \cup {pegang[w]}
      BY <2>2, <3>3
    <3>5. QED
      BY <2>2, <3>4 DEF Janji!Panggil, Janji!JanjiNext
  <2>5. QED
    BY <2>1, <2>3, <2>4 DEF SiapkanKlien
<1>5. CASE UNCHANGED <<run, panggilan>>
  BY <1>5 DEF Janji!janjiVars
<1>6. QED
  BY <1>1, <1>2, <1>3, <1>4, <1>5, LangkahRegister

\* The whole pipeline implements the run register of JanjiRun.
THEOREM PipaMenepatiJanji == Spec => JanjiDipenuhi
<1>1. Init => Janji!JanjiInit
  <2> SUFFICES ASSUME Init PROVE Janji!JanjiInit
    OBVIOUS
  <2>1. {r \in Req : panggilan[r] > 0} = {}
    BY DEF Init
  <2>2. QED
    BY <2>1 DEF Init, Janji!JanjiInit
<1>2. QED
  BY InvarianInduktif, LangkahJanji, <1>1, PTL DEF Spec, JanjiDipenuhi,
     Janji!JanjiSpec
===============================================================================
