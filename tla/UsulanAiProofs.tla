---------------------------- MODULE UsulanAiProofs ----------------------------
(***************************************************************************)
(* AI suggestions for any number of people, absorbers, requests and        *)
(* targets, any clocks and any number of crashes: the invariant of         *)
(* UsulanAi is inductive.                                                  *)
(*                                                                         *)
(* That the latest decision is the one committed last rests on who holds a *)
(* row (KunciSah): a person who decides knows the latest decision because  *)
(* nobody else can add one while he holds it.  So does that a suggestion   *)
(* is absorbed once.                                                       *)
(***************************************************************************)
EXTENDS UsulanAi, TLAPS

\* The row an absorber comes to is one of Req.
LEMMA KepalaReq ==
  ASSUME TypeOK, NEW a \in Penyerap, batch[a] # <<>>
  PROVE  Head(batch[a]) \in Req /\ Tail(batch[a]) \in Seq(Req)
BY DEF TypeOK

\* Where no decision has the time of the last one or a later one, Maksimum is
\* as late as any.
LEMMA MaksimumTerakhir ==
  ASSUME TypeOK, PutusanTerakhirBenar, NEW r \in Req
  PROVE  /\ Maksimum(putusan[r]) \in Nat
         /\ \A i \in 1..Len(putusan[r]) : putusan[r][i] <= Maksimum(putusan[r])
<1>. DEFINE s == putusan[r]
            S == {s[i] : i \in DOMAIN s}
<1>1. s \in Seq(Nat)
  BY DEF TypeOK
<1>2. CASE s = <<>>
  BY <1>2 DEF Maksimum
<1>3. CASE s # <<>>
  <2>1. Len(s) \in DOMAIN s /\ DOMAIN s = 1..Len(s) /\ \A i \in DOMAIN s : s[i] \in Nat
    BY <1>1, <1>3
  <2>2. \A i \in DOMAIN s : s[i] <= s[Len(s)]
    <3>. SUFFICES ASSUME NEW i \in DOMAIN s PROVE s[i] <= s[Len(s)]
      OBVIOUS
    <3>1. i = Len(s) \/ i \in 1..(Len(s) - 1)
      BY <2>1, <1>1
    <3>. QED  BY <2>1, <3>1 DEF PutusanTerakhirBenar
  <2>3. \E n \in S : \A i \in DOMAIN s : s[i] <= n
    BY <2>1, <2>2
  <2>4. Maksimum(s) = CHOOSE n \in S : \A i \in DOMAIN s : s[i] <= n
    BY <1>3 DEF Maksimum
  <2>5. Maksimum(s) \in S /\ \A i \in DOMAIN s : s[i] <= Maksimum(s)
    BY <2>3, <2>4
  <2>. QED  BY <2>1, <2>5
<1>. QED  BY <1>2, <1>3

LEMMA Berawal == Init => IndInv
<1>. SUFFICES ASSUME Init PROVE IndInv
  OBVIOUS
<1>1. TypeOK
  BY UsulanAssumption DEF Init, TypeOK, JanjiInit, JanjiTypeOK
<1>2. BarisBersama
  BY DEF Init, JanjiInit, BarisBersama
<1>3. KunciSah
  BY DEF Init, KunciSah
<1>4. AjuanBerlaku /\ PutusanTerakhirBenar /\ SatuUsulanBerjalan /\ PutusanBerdasar
  BY DEF Init, AjuanBerlaku, PutusanTerakhirBenar, SatuUsulanBerjalan, PutusanBerdasar
<1>. QED  BY <1>1, <1>2, <1>3, <1>4 DEF IndInv

-------------------------------------------------------------------------------
(* Asking.                                                                   *)

LEMMA LangkahPeriksaAjuan ==
  ASSUME IndInv, NEW o \in Orang, NEW t \in Target, PeriksaAjuan(o, t)
  PROVE  IndInv'
<1>1. TypeOK'
  BY DEF IndInv, TypeOK, JanjiTypeOK, PeriksaAjuan, janji, usulan, proses
<1>2. AjuanBerlaku'
  BY DEF IndInv, TypeOK, AjuanBerlaku, Berjalan, PeriksaAjuan, janji, usulan, proses
<1>3. (BarisBersama /\ KunciSah /\ PutusanTerakhirBenar /\ SatuUsulanBerjalan /\ PutusanBerdasar)'
  BY DEF IndInv, BarisBersama, KunciSah, Terklaim, PutusanTerakhirBenar, SatuUsulanBerjalan,
     PutusanBerdasar, PeriksaAjuan, janji, usulan, proses
<1>. QED  BY <1>1, <1>2, <1>3 DEF IndInv

\* A target that a second submission has in hand goes to susul.
LEMMA LangkahAjukan ==
  ASSUME IndInv, NEW o \in Orang, NEW r \in Req, Ajukan(o, r)
  PROVE  IndInv'
<1>. DEFINE t == periksa[o]
<1>0. PICK v \in {"MENUNGGU"} \cup VonisGerbang :
        run[r] = "TIADA" /\ run' = [run EXCEPT ![r] = v] /\ dipanggil' = dipanggil
  BY DEF Ajukan, Buka, TolakDiGerbang
<1>1. /\ t # Nihil /\ t \in Target
      /\ sasaran' = [sasaran EXCEPT ![r] = t]
      /\ hasil' = [hasil EXCEPT ![r] = "BELUM"]
      /\ periksa' = [periksa EXCEPT ![o] = Nihil]
      /\ susul' = IF \E p \in Orang \ {o} : periksa[p] = t THEN susul \cup {t} ELSE susul
      /\ UNCHANGED <<putusan, tinjau, batch, terkunci, gangguan>>
  BY DEF Ajukan, proses, IndInv, TypeOK
<1>2. v \in StatusQaAi /\ v # "TIADA"
  BY DEF StatusQaAi, Vonis, VonisGerbang
<1>3. hasil[r] = "TIADA" /\ sasaran[r] = Nihil /\ putusan[r] = <<>>
  BY <1>0 DEF IndInv, BarisBersama, PutusanBerdasar, BisaDiputus
<1>4. TypeOK'
  BY <1>0, <1>1, <1>2 DEF IndInv, TypeOK, JanjiTypeOK
<1>5. BarisBersama'
  BY <1>0, <1>1, <1>2, UsulanAssumption DEF IndInv, TypeOK, JanjiTypeOK, BarisBersama
<1>6. KunciSah'
  <2>1. \A a \in terkunci : Head(batch[a]) # r
    BY <1>3 DEF IndInv, KunciSah, Terklaim
  <2>2. \A a \in terkunci : Terklaim(Head(batch[a]))'
    <3>. SUFFICES ASSUME NEW a \in terkunci PROVE Terklaim(Head(batch[a]))'
      OBVIOUS
    <3>1. Head(batch[a]) \in Req /\ Head(batch[a]) # r /\ Terklaim(Head(batch[a]))
      BY <2>1, KepalaReq DEF IndInv, TypeOK, KunciSah
    <3>. QED  BY <3>1, <1>0, <1>1 DEF IndInv, TypeOK, JanjiTypeOK, Terklaim
  <2>. QED  BY <1>1, <2>2 DEF IndInv, KunciSah
<1>7. AjuanBerlaku'
  <2>. SUFFICES ASSUME NEW p \in Orang, periksa'[p] # Nihil, periksa'[p] \notin susul',
                       NEW q \in Req, sasaran'[q] = periksa'[p], hasil'[q] = "BELUM"
                PROVE  FALSE
    BY <1>1 DEF AjuanBerlaku, Berjalan
  <2>1. p # o /\ periksa'[p] = periksa[p]
    BY <1>1 DEF IndInv, TypeOK
  <2>2. periksa[p] # t /\ periksa[p] \notin susul
    BY <1>1, <2>1
  <2>3. q # r
    BY <1>1, <2>1, <2>2 DEF IndInv, TypeOK
  <2>4. sasaran[q] = periksa[p] /\ hasil[q] = "BELUM"
    BY <1>1, <2>1, <2>3 DEF IndInv, TypeOK
  <2>. QED  BY <2>1, <2>2, <2>4 DEF IndInv, AjuanBerlaku, Berjalan
<1>8. SatuUsulanBerjalan'
  <2>. SUFFICES ASSUME NEW q \in Req, NEW s \in Req, hasil'[q] = "BELUM", hasil'[s] = "BELUM",
                       sasaran'[q] = sasaran'[s], sasaran'[q] \notin susul'
                PROVE  q = s
    BY DEF SatuUsulanBerjalan
  <2>1. susul \subseteq susul'
    BY <1>1
  <2>2. \A x \in Req : x # r => sasaran'[x] = sasaran[x] /\ hasil'[x] = hasil[x]
    BY <1>1 DEF IndInv, TypeOK
  <2>3. sasaran'[r] = t
    BY <1>1 DEF IndInv, TypeOK
  <2>4. \A x \in Req : x # r /\ hasil[x] = "BELUM" /\ sasaran[x] = t => t \in susul
    BY <1>1 DEF IndInv, AjuanBerlaku, Berjalan
  <2>. QED  BY <2>1, <2>2, <2>3, <2>4 DEF IndInv, SatuUsulanBerjalan
<1>9. PutusanTerakhirBenar'
  BY <1>1 DEF IndInv, PutusanTerakhirBenar
<1>10. PutusanBerdasar'
  BY <1>0, <1>1, <1>3 DEF IndInv, TypeOK, JanjiTypeOK, PutusanBerdasar, BisaDiputus
<1>. QED  BY <1>4, <1>5, <1>6, <1>7, <1>8, <1>9, <1>10 DEF IndInv

LEMMA LangkahBatalAjukan ==
  ASSUME IndInv, NEW o \in Orang, BatalAjukan(o)
  PROVE  IndInv'
<1>1. TypeOK'
  BY DEF IndInv, TypeOK, JanjiTypeOK, BatalAjukan, janji, usulan, proses
<1>2. AjuanBerlaku'
  BY DEF IndInv, TypeOK, AjuanBerlaku, Berjalan, BatalAjukan, janji, usulan, proses
<1>3. (BarisBersama /\ KunciSah /\ PutusanTerakhirBenar /\ SatuUsulanBerjalan /\ PutusanBerdasar)'
  BY DEF IndInv, BarisBersama, KunciSah, Terklaim, PutusanTerakhirBenar, SatuUsulanBerjalan,
     PutusanBerdasar, BatalAjukan, janji, usulan, proses
<1>. QED  BY <1>1, <1>2, <1>3 DEF IndInv

\* Only waiting runs are judged; those an absorber holds are not.
LEMMA LangkahPipa ==
  ASSUME IndInv, LangkahAi
  PROVE  IndInv'
<1>1. /\ UNCHANGED <<sasaran, hasil, putusan, periksa, tinjau, batch, terkunci, susul, gangguan>>
      /\ dipanggil' \in SUBSET Req
      /\ run' \in [Req -> StatusQaAi]  \/ run' \in [Req -> StatusQaAi \cup {"TIADA"}]
      /\ \A q \in Req : run'[q] = run[q] \/ (run[q] = "MENUNGGU" /\ run'[q] # "TIADA")
  BY DEF LangkahAi, Panggil, Putus, usulan, proses, IndInv, TypeOK, JanjiTypeOK, StatusQaAi, Vonis,
     VonisJawaban, VonisGerbang
<1>2. TypeOK'
  BY <1>1 DEF IndInv, TypeOK, JanjiTypeOK
<1>3. BarisBersama'
  BY <1>1 DEF IndInv, BarisBersama
<1>4. \A a \in terkunci : Terklaim(Head(batch[a]))'
  <2>. SUFFICES ASSUME NEW a \in terkunci PROVE Terklaim(Head(batch[a]))'
    OBVIOUS
  <2>1. Head(batch[a]) \in Req /\ Terklaim(Head(batch[a]))
    BY KepalaReq DEF IndInv, TypeOK, KunciSah
  <2>. QED  BY <1>1, <2>1 DEF Terklaim
<1>5. KunciSah'
  BY <1>1, <1>4 DEF IndInv, KunciSah
<1>6. PutusanBerdasar'
  BY <1>1 DEF IndInv, PutusanBerdasar
<1>7. (AjuanBerlaku /\ PutusanTerakhirBenar /\ SatuUsulanBerjalan)'
  BY <1>1 DEF IndInv, AjuanBerlaku, Berjalan, PutusanTerakhirBenar, SatuUsulanBerjalan
<1>. QED  BY <1>2, <1>3, <1>5, <1>6, <1>7 DEF IndInv

-------------------------------------------------------------------------------
(* The absorber.                                                             *)

LEMMA LangkahBacaBatch ==
  ASSUME IndInv, NEW a \in Penyerap, BacaBatch(a)
  PROVE  IndInv'
<1>1. PICK n \in 1..Batas : \E s \in [1..n -> {r \in Req : Siap(r)}] :
        batch' = [batch EXCEPT ![a] = s]
  BY DEF BacaBatch
<1>2. PICK s \in [1..n -> {r \in Req : Siap(r)}] : batch' = [batch EXCEPT ![a] = s]
  BY <1>1
<1>3. s \in Seq(Req) /\ a \notin terkunci
  BY <1>2, UsulanAssumption DEF BacaBatch, IndInv, TypeOK
<1>4. UNCHANGED <<run, dipanggil, sasaran, hasil, putusan, periksa, tinjau, terkunci, susul, gangguan>>
  BY DEF BacaBatch, janji, usulan
<1>5. \A b \in terkunci : batch'[b] = batch[b]
  BY <1>2, <1>3 DEF IndInv, TypeOK
<1>6. TypeOK'
  BY <1>2, <1>3, <1>4, <1>5 DEF IndInv, TypeOK, JanjiTypeOK
<1>7. KunciSah'
  BY <1>4, <1>5 DEF IndInv, KunciSah, Terklaim
<1>8. (BarisBersama /\ AjuanBerlaku /\ PutusanTerakhirBenar /\ SatuUsulanBerjalan /\ PutusanBerdasar)'
  BY <1>4 DEF IndInv, BarisBersama, AjuanBerlaku, Berjalan, PutusanTerakhirBenar,
     SatuUsulanBerjalan, PutusanBerdasar
<1>. QED  BY <1>6, <1>7, <1>8 DEF IndInv

LEMMA LangkahKlaimUsulan ==
  ASSUME IndInv, NEW a \in Penyerap, KlaimUsulan(a)
  PROVE  IndInv'
<1>1. /\ UNCHANGED <<run, dipanggil, sasaran, hasil, putusan, periksa, tinjau, batch, susul, gangguan>>
      /\ terkunci' = terkunci \cup {a}
      /\ batch[a] # <<>>
      /\ Terklaim(Head(batch[a]))
      /\ \A b \in terkunci : Head(batch[b]) # Head(batch[a])
      /\ \A o \in Orang : tinjau[o] # Nihil => tinjau[o].r # Head(batch[a])
  BY DEF KlaimUsulan, Pemegang, janji, usulan
<1>2. TypeOK'
  BY <1>1 DEF IndInv, TypeOK, JanjiTypeOK
<1>3. KunciSah'
  BY <1>1 DEF IndInv, KunciSah, Terklaim
<1>4. (BarisBersama /\ AjuanBerlaku /\ PutusanTerakhirBenar /\ SatuUsulanBerjalan /\ PutusanBerdasar)'
  BY <1>1 DEF IndInv, BarisBersama, AjuanBerlaku, Berjalan, PutusanTerakhirBenar,
     SatuUsulanBerjalan, PutusanBerdasar
<1>. QED  BY <1>2, <1>3, <1>4 DEF IndInv

\* An absorber that goes on, or dies, lets go of the row it holds.
LEMMA Melepas ==
  ASSUME IndInv, NEW a \in Penyerap, NEW s \in Seq(Req),
         batch' = [batch EXCEPT ![a] = s], terkunci' = terkunci \ {a},
         UNCHANGED <<run, dipanggil, sasaran, hasil, putusan, periksa, tinjau, susul>>,
         gangguan' \in 0..MaksGangguan
  PROVE  IndInv'
<1>1. \A b \in terkunci' : batch'[b] = batch[b]
  BY DEF IndInv, TypeOK
<1>2. TypeOK'
  BY <1>1 DEF IndInv, TypeOK, JanjiTypeOK
<1>3. KunciSah'
  BY <1>1 DEF IndInv, KunciSah, Terklaim
<1>4. (BarisBersama /\ AjuanBerlaku /\ PutusanTerakhirBenar /\ SatuUsulanBerjalan /\ PutusanBerdasar)'
  BY DEF IndInv, BarisBersama, AjuanBerlaku, Berjalan, PutusanTerakhirBenar,
     SatuUsulanBerjalan, PutusanBerdasar
<1>. QED  BY <1>2, <1>3, <1>4 DEF IndInv

LEMMA LangkahLewatiUsulan ==
  ASSUME IndInv, NEW a \in Penyerap, LewatiUsulan(a)
  PROVE  IndInv'
<1>1. /\ Tail(batch[a]) \in Seq(Req)
      /\ batch' = [batch EXCEPT ![a] = Tail(batch[a])] /\ terkunci' = terkunci \ {a}
      /\ UNCHANGED <<run, dipanggil, sasaran, hasil, putusan, periksa, tinjau, susul, gangguan>>
  BY KepalaReq DEF IndInv, LewatiUsulan, Berikut, janji, usulan
<1>. QED  BY <1>1, Melepas DEF IndInv, TypeOK

LEMMA LangkahSerapTerganggu ==
  ASSUME IndInv, NEW a \in Penyerap, SerapTerganggu(a)
  PROVE  IndInv'
<1>1. /\ Tail(batch[a]) \in Seq(Req)
      /\ batch' = [batch EXCEPT ![a] = Tail(batch[a])] /\ terkunci' = terkunci \ {a}
      /\ UNCHANGED <<run, dipanggil, sasaran, hasil, putusan, periksa, tinjau, susul>>
  BY KepalaReq DEF IndInv, SerapTerganggu, Berikut, janji, usulan
<1>2. gangguan' \in 0..MaksGangguan
  BY UsulanAssumption DEF IndInv, TypeOK, SerapTerganggu
<1>. QED  BY <1>1, <1>2, Melepas

LEMMA LangkahPenyerapMati ==
  ASSUME IndInv, NEW a \in Penyerap, PenyerapMati(a)
  PROVE  IndInv'
<1>1. /\ <<>> \in Seq(Req)
      /\ batch' = [batch EXCEPT ![a] = <<>>] /\ terkunci' = terkunci \ {a}
      /\ UNCHANGED <<run, dipanggil, sasaran, hasil, putusan, periksa, tinjau, susul>>
  BY DEF PenyerapMati, janji, usulan
<1>2. gangguan' \in 0..MaksGangguan
  BY UsulanAssumption DEF IndInv, TypeOK, PenyerapMati
<1>. QED  BY <1>1, <1>2, Melepas

\* The absorber writes the row it holds, which nobody has absorbed and about
\* which nobody has decided.
LEMMA LangkahSerapUsulan ==
  ASSUME IndInv, NEW a \in Penyerap, SerapUsulan(a)
  PROVE  IndInv' /\ hasil[Head(batch[a])] = "BELUM"
<1>. DEFINE r == Head(batch[a])
<1>1. /\ a \in terkunci /\ r \in Req
      /\ Tail(batch[a]) \in Seq(Req)
      /\ batch' = [batch EXCEPT ![a] = Tail(batch[a])] /\ terkunci' = terkunci \ {a}
      /\ UNCHANGED <<run, dipanggil, sasaran, putusan, periksa, tinjau, susul, gangguan>>
  BY KepalaReq DEF IndInv, TypeOK, SerapUsulan, Berikut, janji
<1>2. PICK h \in HasilDari(run[r]) : hasil' = [hasil EXCEPT ![r] = h]
  BY DEF SerapUsulan
<1>3. /\ h \in HasilSerapUsulan
      /\ h = "USULAN_DIBUAT" => run[r] = "LOLOS"
      /\ h = "EVIDENCE_GAP" => run[r] = "EVIDENCE_GAP"
  BY DEF HasilDari, HasilSerapUsulan
<1>4. hasil[r] = "BELUM" /\ run[r] # "MENUNGGU"
  BY <1>1 DEF IndInv, KunciSah, Terklaim
<1>5. \A q \in Req : q # r => hasil'[q] = hasil[q]
  BY <1>2 DEF IndInv, TypeOK
<1>6. hasil'[r] = h
  BY <1>1, <1>2 DEF IndInv, TypeOK
<1>7. \A b \in terkunci' : batch'[b] = batch[b] /\ Head(batch[b]) # r
  BY <1>1 DEF IndInv, TypeOK, KunciSah
<1>8. TypeOK'
  BY <1>1, <1>2, <1>3, <1>7 DEF IndInv, TypeOK, JanjiTypeOK
<1>9. KunciSah'
  <2>1. \A b \in terkunci' : Terklaim(Head(batch[b]))'
    <3>. SUFFICES ASSUME NEW b \in terkunci' PROVE Terklaim(Head(batch[b]))'
      OBVIOUS
    <3>1. Head(batch[b]) \in Req /\ Terklaim(Head(batch[b])) /\ Head(batch[b]) # r
      BY <1>1, <1>7, KepalaReq DEF IndInv, TypeOK, KunciSah
    <3>. QED  BY <1>1, <1>5, <1>7, <3>1 DEF Terklaim
  <2>. QED  BY <1>1, <1>7, <2>1 DEF IndInv, KunciSah
<1>10. BarisBersama'
  BY <1>1, <1>3, <1>4, <1>5, <1>6 DEF IndInv, BarisBersama, HasilSerapUsulan
<1>11. (AjuanBerlaku /\ SatuUsulanBerjalan)'
  BY <1>1, <1>3, <1>5, <1>6 DEF IndInv, AjuanBerlaku, Berjalan, SatuUsulanBerjalan, HasilSerapUsulan
<1>12. PutusanTerakhirBenar'
  BY <1>1 DEF IndInv, PutusanTerakhirBenar
<1>13. PutusanBerdasar'
  BY <1>1, <1>3, <1>4, <1>5, <1>6 DEF IndInv, PutusanBerdasar, BisaDiputus
<1>. QED  BY <1>4, <1>8, <1>9, <1>10, <1>11, <1>12, <1>13 DEF IndInv

-------------------------------------------------------------------------------
(* Decisions.                                                                *)

LEMMA LangkahKunciPutusan ==
  ASSUME IndInv, NEW o \in Orang, NEW r \in Req, KunciPutusan(o, r)
  PROVE  IndInv'
<1>. DEFINE x == [r |-> r, akhir |-> Maksimum(putusan[r])]
<1>1. /\ UNCHANGED <<run, dipanggil, sasaran, hasil, putusan, periksa, batch, terkunci, susul>>
      /\ tinjau' = [tinjau EXCEPT ![o] = x]
      /\ \A a \in terkunci : Head(batch[a]) # r
      /\ \A p \in Orang : tinjau[p] # Nihil => tinjau[p].r # r
  BY DEF KunciPutusan, Pemegang, janji, usulan, proses
<1>2. gangguan' \in 0..MaksGangguan
  BY UsulanAssumption DEF IndInv, TypeOK, KunciPutusan
<1>3. /\ Maksimum(putusan[r]) \in Nat
      /\ \A i \in 1..Len(putusan[r]) : putusan[r][i] <= Maksimum(putusan[r])
  BY MaksimumTerakhir DEF IndInv
<1>4. tinjau'[o] = x /\ x.r = r /\ x.akhir = Maksimum(putusan[r])
  BY <1>1 DEF IndInv, TypeOK
<1>5. \A p \in Orang : p # o => tinjau'[p] = tinjau[p]
  BY <1>1 DEF IndInv, TypeOK
<1>6. TypeOK'
  BY <1>1, <1>2, <1>3 DEF IndInv, TypeOK, JanjiTypeOK
<1>7. KunciSah'
  BY <1>1, <1>3, <1>4, <1>5 DEF IndInv, KunciSah, Terklaim
<1>8. (BarisBersama /\ AjuanBerlaku /\ PutusanTerakhirBenar /\ SatuUsulanBerjalan /\ PutusanBerdasar)'
  BY <1>1 DEF IndInv, BarisBersama, AjuanBerlaku, Berjalan, PutusanTerakhirBenar,
     SatuUsulanBerjalan, PutusanBerdasar
<1>. QED  BY <1>6, <1>7, <1>8 DEF IndInv

\* The new decision is later than every one before it, whatever the clock says.
LEMMA LangkahPutuskan ==
  ASSUME IndInv, NEW o \in Orang, Putuskan(o)
  PROVE  IndInv'
<1>. DEFINE r == tinjau[o].r
            akhir == tinjau[o].akhir
<1>1. /\ UNCHANGED <<run, dipanggil, sasaran, hasil, periksa, batch, terkunci, susul, gangguan>>
      /\ tinjau' = [tinjau EXCEPT ![o] = Nihil]
      /\ tinjau[o] # Nihil /\ hasil[r] \in BisaDiputus
      /\ r \in Req /\ akhir \in Nat
  BY DEF Putuskan, janji, proses, IndInv, TypeOK
<1>2. PICK jam \in 1..MaksJam :
        putusan' = [putusan EXCEPT ![r] = Append(putusan[r], Waktu(akhir, jam))]
  BY DEF Putuskan
<1>. DEFINE w == Waktu(akhir, jam)
<1>3. w \in Nat /\ akhir < w
  BY <1>1, UsulanAssumption DEF Waktu
<1>4. \A q \in Req : q # r => putusan'[q] = putusan[q]
  BY <1>2 DEF IndInv, TypeOK
<1>5. putusan[r] \in Seq(Nat) /\ putusan'[r] = Append(putusan[r], w)
  BY <1>1, <1>2 DEF IndInv, TypeOK
<1>6. \A p \in Orang : p # o => tinjau'[p] = tinjau[p]
  BY <1>1 DEF IndInv, TypeOK
<1>7. tinjau'[o] = Nihil
  BY <1>1 DEF IndInv, TypeOK
<1>8. TypeOK'
  BY <1>1, <1>2, <1>3, <1>5 DEF IndInv, TypeOK, JanjiTypeOK
<1>9. KunciSah'
  <2>1. \A p \in Orang : tinjau'[p] # Nihil => tinjau'[p] = tinjau[p] /\ tinjau[p].r # r /\ tinjau[p].r \in Req
    BY <1>1, <1>6, <1>7 DEF IndInv, TypeOK, KunciSah
  <2>2. \A p \in Orang : tinjau'[p] # Nihil => putusan'[tinjau'[p].r] = putusan[tinjau[p].r]
    BY <2>1, <1>4
  <2>. QED  BY <1>1, <2>1, <2>2 DEF IndInv, KunciSah, Terklaim
<1>10. PutusanTerakhirBenar'
  <2>. SUFFICES ASSUME NEW q \in Req, NEW i \in 1..(Len(putusan'[q]) - 1)
                PROVE  putusan'[q][i] < putusan'[q][Len(putusan'[q])]
    BY DEF PutusanTerakhirBenar
  <2>1. CASE q # r
    BY <2>1, <1>4 DEF IndInv, PutusanTerakhirBenar
  <2>2. CASE q = r
    <3>1. Len(putusan'[r]) = Len(putusan[r]) + 1 /\ putusan'[r][Len(putusan'[r])] = w
      BY <1>3, <1>5
    <3>2. i \in 1..Len(putusan[r]) /\ putusan'[r][i] = putusan[r][i] /\ putusan[r][i] \in Nat
      BY <2>2, <3>1, <1>3, <1>5
    <3>3. putusan[r][i] <= akhir
      BY <1>1, <3>2 DEF IndInv, KunciSah
    <3>. QED  BY <2>2, <3>1, <3>2, <3>3, <1>1, <1>3
  <2>. QED  BY <2>1, <2>2
<1>11. PutusanBerdasar'
  BY <1>1, <1>4 DEF IndInv, PutusanBerdasar
<1>12. (BarisBersama /\ AjuanBerlaku /\ SatuUsulanBerjalan)'
  BY <1>1 DEF IndInv, BarisBersama, AjuanBerlaku, Berjalan, SatuUsulanBerjalan
<1>. QED  BY <1>8, <1>9, <1>10, <1>11, <1>12 DEF IndInv

LEMMA LangkahBatalPutusan ==
  ASSUME IndInv, NEW o \in Orang, BatalPutusan(o)
  PROVE  IndInv'
<1>1. /\ UNCHANGED <<run, dipanggil, sasaran, hasil, putusan, periksa, batch, terkunci, susul, gangguan>>
      /\ tinjau' = [tinjau EXCEPT ![o] = Nihil]
  BY DEF BatalPutusan, janji, usulan, proses
<1>2. \A p \in Orang : tinjau'[p] # Nihil => tinjau'[p] = tinjau[p]
  BY <1>1 DEF IndInv, TypeOK
<1>3. TypeOK'
  BY <1>1 DEF IndInv, TypeOK, JanjiTypeOK
<1>4. KunciSah'
  BY <1>1, <1>2 DEF IndInv, KunciSah, Terklaim
<1>5. (BarisBersama /\ AjuanBerlaku /\ PutusanTerakhirBenar /\ SatuUsulanBerjalan /\ PutusanBerdasar)'
  BY <1>1 DEF IndInv, BarisBersama, AjuanBerlaku, Berjalan, PutusanTerakhirBenar,
     SatuUsulanBerjalan, PutusanBerdasar
<1>. QED  BY <1>3, <1>4, <1>5 DEF IndInv

-------------------------------------------------------------------------------
(* The specification.                                                        *)

LEMMA LangkahStutter ==
  ASSUME IndInv, UNCHANGED vars
  PROVE  IndInv'
<1>1. UNCHANGED <<run, dipanggil, sasaran, hasil, putusan, periksa, tinjau, batch, terkunci, susul, gangguan>>
  BY DEF vars, janji, usulan, proses
<1>. QED  BY <1>1 DEF IndInv, TypeOK, JanjiTypeOK, BarisBersama, KunciSah, Terklaim, AjuanBerlaku,
              Berjalan, PutusanTerakhirBenar, SatuUsulanBerjalan, PutusanBerdasar

LEMMA Terjaga == IndInv /\ [Next]_vars => IndInv'
<1>. SUFFICES ASSUME IndInv, [Next]_vars PROVE IndInv'
  OBVIOUS
<1>1. CASE \E o \in Orang : LangkahOrang(o)
  BY <1>1, LangkahPeriksaAjuan, LangkahAjukan, LangkahBatalAjukan, LangkahKunciPutusan,
     LangkahPutuskan, LangkahBatalPutusan DEF LangkahOrang, AjukanEkstraksi, AjukanTelaah
<1>2. CASE LangkahAi
  BY <1>2, LangkahPipa
<1>3. CASE \E a \in Penyerap : LangkahPenyerap(a)
  BY <1>3, LangkahBacaBatch, LangkahKlaimUsulan, LangkahLewatiUsulan, LangkahSerapUsulan,
     LangkahSerapTerganggu, LangkahPenyerapMati DEF LangkahPenyerap
<1>4. CASE UNCHANGED vars
  BY <1>4, LangkahStutter
<1>. QED  BY <1>1, <1>2, <1>3, <1>4 DEF Next

\* The invariant of the suggestions (ai_usulan_sql.py and penyerap_usulan.py)
\* holds in every reachable state.
THEOREM Invarian == Spec => []IndInv
<1>. QED  BY Berawal, Terjaga, PTL DEF Spec

\* Every state is well formed.
THEOREM TipeBenar == Spec => []TypeOK
<1>1. IndInv => TypeOK
  BY DEF IndInv
<1>. QED  BY <1>1, Invarian, PTL

\* However many people decide about one suggestion, and whatever their servers'
\* clocks say, the latest decision is the one committed last (putuskan).
THEOREM PutusanTerakhir == Spec => []PutusanTerakhirBenar
<1>1. IndInv => PutusanTerakhirBenar
  BY DEF IndInv
<1>. QED  BY <1>1, Invarian, PTL

\* A function has one open suggestion about a target, unless a second submission
\* had been past its check (ajukan).
THEOREM SatuBerjalan == Spec => []SatuUsulanBerjalan
<1>1. IndInv => SatuUsulanBerjalan
  BY DEF IndInv
<1>. QED  BY <1>1, Invarian, PTL

\* A suggestion says what its run was judged to be, and only one that holds an
\* answer has decisions (_terapkan, usulan_belum_bisa_diputus).
THEOREM PutusanAdaDasar == Spec => []PutusanBerdasar
<1>1. IndInv => PutusanBerdasar
  BY DEF IndInv
<1>. QED  BY <1>1, Invarian, PTL

\* A step changes the outcome of a suggestion only if it is not absorbed yet.
LEMMA HasilSekali ==
  IndInv /\ [Next]_vars => \A r \in Req : hasil[r] \in HasilSerapUsulan => hasil'[r] = hasil[r]
<1>. SUFFICES ASSUME IndInv, [Next]_vars, NEW r \in Req, hasil[r] \in HasilSerapUsulan
              PROVE  hasil'[r] = hasil[r]
  OBVIOUS
<1>1. ASSUME NEW o \in Orang, LangkahOrang(o) PROVE hasil'[r] = hasil[r]
  <2>1. ASSUME NEW q \in Req, Ajukan(o, q) PROVE hasil'[r] = hasil[r]
    <3>1. hasil[q] = "TIADA" /\ hasil' = [hasil EXCEPT ![q] = "BELUM"]
      BY <2>1 DEF Ajukan, Buka, TolakDiGerbang, IndInv, BarisBersama
    <3>. QED  BY <3>1 DEF IndInv, TypeOK, HasilSerapUsulan
  <2>. QED  BY <1>1, <2>1 DEF LangkahOrang, AjukanEkstraksi, AjukanTelaah, PeriksaAjuan, BatalAjukan,
                KunciPutusan, Putuskan, BatalPutusan, usulan
<1>2. ASSUME NEW a \in Penyerap, LangkahPenyerap(a) PROVE hasil'[r] = hasil[r]
  <2>1. ASSUME SerapUsulan(a) PROVE hasil'[r] = hasil[r]
    <3>1. Head(batch[a]) # r
      BY <2>1, LangkahSerapUsulan DEF HasilSerapUsulan
    <3>. QED  BY <2>1, <3>1 DEF SerapUsulan, IndInv, TypeOK
  <2>. QED  BY <1>2, <2>1 DEF LangkahPenyerap, BacaBatch, KlaimUsulan, LewatiUsulan, SerapTerganggu,
                PenyerapMati, usulan
<1>. QED  BY <1>1, <1>2 DEF Next, LangkahAi, vars, usulan

\* A suggestion never changes under the decisions about it: whatever batches
\* absorbers hold, it is absorbed once (serap_usulan).
THEOREM UsulanTidakBerubah == Spec => UsulanTetap
<1>1. IndInv /\ [Next]_vars =>
        [\A r \in Req : hasil[r] \in HasilSerapUsulan => hasil'[r] = hasil[r]]_vars
  BY HasilSekali
<1>. QED  BY <1>1, Invarian, PTL DEF Spec, UsulanTetap
===============================================================================
