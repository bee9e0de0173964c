---------------------------- MODULE NarasiAiProofs ----------------------------
(***************************************************************************)
(* Proofs about NarasiAi: the record of a case and the absorption of runs, *)
(* for every number of cases, people, requests and absorbers.              *)
(*                                                                         *)
(* The record part of the invariant (RekamInv) is preserved by the four    *)
(* ways of writing a case; the absorption part uses that what an absorber  *)
(* holds is still to be absorbed (KunciSah).                               *)
(***************************************************************************)
EXTENDS NarasiAi, TLAPS

PunyaRun == Req \cup {Nihil}

RekamInv ==
  /\ NarasiTypeOK(PunyaRun)
  /\ BentukVersi
  /\ RantaiLurus
  /\ StatusTerbukti
  /\ MesinTidakMenimpa

\* A case that exists has a status the transition table knows.
LEMMA StatusAda ==
  ASSUME RekamInv, NEW k \in Kasus, status[k] # "TIADA"
  PROVE  status[k] \in StatusNarasi
BY DEF RekamInv, NarasiTypeOK

\* tambah_versi keeps the record in order, whoever writes.
LEMMA TambahMenjaga ==
  ASSUME RekamInv,
         NEW k \in Kasus,
         NEW v \in Versi(PunyaRun),
         TambahVersi(k, v),
         UNCHANGED <<event, lihat>>,
         v.hasil = "NEED_FACT" <=> ~v.berteks,
         v.run # Nihil => status[k] \in STATUS_KASUS_BOLEH_SERAP
  PROVE  RekamInv'
<1>0. PICK n \in Nat : n = Len(versi[k])
  BY DEF RekamInv, NarasiTypeOK
<1>1. /\ versi[k] \in Seq(Versi(PunyaRun))
      /\ v.hasil \in STATUS_HASIL_VERSI /\ v.berteks \in BOOLEAN /\ v.gantikan = n
      /\ versi' = [versi EXCEPT ![k] = Append(versi[k], v)]
      /\ status' = [status EXCEPT ![k] = v.hasil]
  BY <1>0 DEF RekamInv, NarasiTypeOK, TambahVersi, BolehTambah, Terbaru, Versi
<1>2. /\ versi'[k] = Append(versi[k], v)
      /\ Len(versi'[k]) = n + 1
      /\ DOMAIN versi'[k] = 1..(n + 1)
      /\ \A i \in 1..n : versi'[k][i] = versi[k][i]
      /\ versi'[k][n + 1] = v
      /\ \A j \in Kasus \ {k} : versi'[j] = versi[j]
  BY <1>0, <1>1 DEF RekamInv, NarasiTypeOK
<1>3. /\ status'[k] = v.hasil /\ status[k] \in StatusNarasi
      /\ \A j \in Kasus \ {k} : status'[j] = status[j]
  BY <1>1, StatusAda DEF RekamInv, NarasiTypeOK, TambahVersi, BolehTambah
<1>4. NarasiTypeOK(PunyaRun)'
  <2>1. Append(versi[k], v) \in Seq(Versi(PunyaRun))
    BY <1>1
  <2>2. versi' \in [Kasus -> Seq(Versi(PunyaRun))]
    BY <1>1, <2>1 DEF RekamInv, NarasiTypeOK
  <2>3. status' \in [Kasus -> StatusNarasi \cup {"TIADA"}]
    BY <1>1 DEF RekamInv, NarasiTypeOK, STATUS_HASIL_VERSI, StatusNarasi
  <2>. QED  BY <2>2, <2>3 DEF RekamInv, NarasiTypeOK, Versi
<1>5. BentukVersi'
  <2>1. status'[k] # "TIADA"
    BY <1>1, <1>3 DEF STATUS_HASIL_VERSI
  <2>. QED  BY <1>1, <1>2, <1>3, <2>1 DEF RekamInv, BentukVersi
<1>6. RantaiLurus'
  BY <1>0, <1>1, <1>2 DEF RekamInv, RantaiLurus
<1>7. event[k] \in Seq(Event) /\ Len(event[k]) \in Nat /\ DOMAIN event[k] = 1..Len(event[k])
  BY DEF RekamInv, NarasiTypeOK
<1>8. /\ status[k] = StatusSetelah(k, n, Len(event[k]))
      /\ \A i \in DOMAIN event[k] :
           /\ event[k][i].versi \in 1..n
           /\ i > 1 => event[k][i - 1].versi <= event[k][i].versi
           /\ event[k][i].dari = StatusSetelah(k, event[k][i].versi, i - 1)
  BY <1>0, <1>3 DEF RekamInv, StatusTerbukti, Terbaru, StatusNarasi
<1>9. \A m \in 1..n, i \in Nat : StatusSetelah(k, m, i)' = StatusSetelah(k, m, i)
  BY <1>2 DEF StatusSetelah
<1>10. StatusSetelah(k, n + 1, Len(event[k]))' = v.hasil
  <2>1. Len(event[k]) > 0 => event[k][Len(event[k])].versi # n + 1
    BY <1>1, <1>7, <1>8
  <2>2. event' = event /\ n + 1 # 0
    BY <1>1
  <2>. QED  BY <1>2, <2>1, <2>2 DEF StatusSetelah
<1>11. StatusTerbukti'
  <2>. SUFFICES ASSUME NEW j \in Kasus, status'[j] # "TIADA"
                PROVE  /\ status'[j] = StatusSetelah(j, Terbaru(j), Len(event[j]))'
                       /\ \A i \in DOMAIN event'[j] :
                            /\ event'[j][i].versi \in 1..Terbaru(j)'
                            /\ i > 1 => event'[j][i - 1].versi <= event'[j][i].versi
                            /\ event'[j][i].dari = StatusSetelah(j, event[j][i].versi, i - 1)'
    BY DEF StatusTerbukti
  <2>1. CASE j = k
    <3>1. status'[k] = StatusSetelah(k, Terbaru(k), Len(event[k]))'
      BY <1>2, <1>3, <1>10 DEF Terbaru
    <3>2. ASSUME NEW i \in DOMAIN event[k]
          PROVE  /\ event[k][i].versi \in 1..(n + 1)
                 /\ i > 1 => event[k][i - 1].versi <= event[k][i].versi
                 /\ event[k][i].dari = StatusSetelah(k, event[k][i].versi, i - 1)'
      <4>1. i - 1 \in Nat
        BY <1>7
      <4>. QED  BY <1>1, <1>8, <1>9, <4>1
    <3>. QED  BY <2>1, <3>1, <3>2, <1>2 DEF Terbaru
  <2>2. CASE j # k
    <3>1. status'[j] = status[j] /\ versi'[j] = versi[j] /\ event' = event
      BY <2>2, <1>2, <1>3
    <3>2. \A m, i : StatusSetelah(j, m, i)' = StatusSetelah(j, m, i)
      BY <3>1 DEF StatusSetelah
    <3>. QED  BY <3>1, <3>2 DEF RekamInv, StatusTerbukti, Terbaru
  <2>. QED  BY <2>1, <2>2
<1>12. MesinTidakMenimpa'
  <2>1. ASSUME n > 0, v.run # Nihil, versi[k][n].berteks
        PROVE  \E i \in DOMAIN event[k] :
                 /\ event[k][i].versi = n
                 /\ event[k][i].jenis \in {"TEAM_REJECT", "NEED_SOURCE"}
    <3>1. versi[k][n].hasil \notin STATUS_KASUS_BOLEH_SERAP
      <4>1. versi[k][n] \in Versi(PunyaRun) /\ n \in DOMAIN versi[k]
        BY <1>0, <1>1, <2>1
      <4>2. versi[k][n].hasil # "NEED_FACT"
        BY <4>1, <2>1 DEF RekamInv, BentukVersi
      <4>. QED  BY <4>1, <4>2 DEF Versi, STATUS_HASIL_VERSI,
                   STATUS_KASUS_BOLEH_SERAP
    <3> DEFINE i == Len(event[k])
    <3>2. status[k] \in STATUS_KASUS_BOLEH_SERAP
      BY <2>1
    <3>3. i > 0 /\ event[k][i].versi = n /\ status[k] = EVENT_TAHAP_TIM[event[k][i].jenis]
      BY <1>8, <2>1, <3>1, <3>2 DEF StatusSetelah
    <3>4. event[k][i] \in Event /\ i \in DOMAIN event[k]
      BY <1>7, <3>3
    <3>5. event[k][i].jenis \in {"TEAM_REJECT", "NEED_SOURCE"}
      BY <3>2, <3>3, <3>4
      DEF Event, EventKind, EVENT_TAHAP_TIM, STATUS_KASUS_BOLEH_SERAP
    <3>. QED  BY <3>3, <3>4, <3>5
  <2>. QED  BY <1>0, <1>1, <1>2, <2>1 DEF RekamInv, MesinTidakMenimpa
<1>. QED  BY <1>4, <1>5, <1>6, <1>11, <1>12 DEF RekamInv

\* catat_event keeps the record in order.
LEMMA CatatMenjaga ==
  ASSUME RekamInv,
         NEW k \in Kasus,
         NEW n \in Nat,
         NEW jenis \in EventKind,
         n # 0,
         BolehCatat(k, n, jenis),
         CatatEvent(k, n, jenis),
         UNCHANGED <<versi, lihat>>
  PROVE  RekamInv'
<1>0. PICK m \in Nat : m = Len(event[k])
  BY DEF RekamInv, NarasiTypeOK
<1>1. /\ event[k] \in Seq(Event)
      /\ n = Terbaru(k)
      /\ status[k] \in StatusNarasi
      /\ EVENT_TAHAP_TIM[jenis] \in StatusNarasi
  BY StatusAda DEF RekamInv, NarasiTypeOK, BolehCatat, EventKind, EVENT_TAHAP_TIM,
     StatusNarasi
<1>2. PICK e \in Event : e.versi = n /\ e.jenis = jenis /\ e.dari = status[k]
                         /\ event' = [event EXCEPT ![k] = Append(event[k], e)]
  BY <1>1 DEF CatatEvent, Event
<1>3. /\ event'[k] = Append(event[k], e)
      /\ Len(event'[k]) = m + 1
      /\ DOMAIN event[k] = 1..m
      /\ DOMAIN event'[k] = 1..(m + 1)
      /\ \A i \in 1..m : event'[k][i] = event[k][i]
      /\ event'[k][m + 1] = e
      /\ \A j \in Kasus \ {k} : event'[j] = event[j]
  BY <1>0, <1>1, <1>2 DEF RekamInv, NarasiTypeOK
<1>4. /\ status'[k] = EVENT_TAHAP_TIM[jenis]
      /\ \A j \in Kasus \ {k} : status'[j] = status[j]
      /\ versi' = versi
  BY DEF RekamInv, NarasiTypeOK, CatatEvent
<1>5. NarasiTypeOK(PunyaRun)'
  <2>1. event' \in [Kasus -> Seq(Event)]
    BY <1>1, <1>2 DEF RekamInv, NarasiTypeOK
  <2>2. status' \in [Kasus -> StatusNarasi \cup {"TIADA"}]
    BY <1>1 DEF RekamInv, NarasiTypeOK, CatatEvent
  <2>. QED  BY <2>1, <2>2 DEF RekamInv, NarasiTypeOK
<1>6. BentukVersi' /\ RantaiLurus'
  <2>1. status'[k] # "TIADA"
    BY <1>1, <1>4 DEF StatusNarasi
  <2>. QED  BY <1>3, <1>4, <2>1 DEF RekamInv, BentukVersi, RantaiLurus
<1>7. /\ status[k] = StatusSetelah(k, n, m)
      /\ \A i \in 1..m :
           /\ event[k][i].versi \in 1..n
           /\ i > 1 => event[k][i - 1].versi <= event[k][i].versi
           /\ event[k][i].dari = StatusSetelah(k, event[k][i].versi, i - 1)
  BY <1>0, <1>1, <1>3 DEF RekamInv, StatusTerbukti, StatusNarasi
<1>8. \A q \in 1..n, i \in 0..m : StatusSetelah(k, q, i)' = StatusSetelah(k, q, i)
  BY <1>3, <1>4 DEF StatusSetelah
<1>9. StatusTerbukti'
  <2>. SUFFICES ASSUME NEW j \in Kasus, status'[j] # "TIADA"
                PROVE  /\ status'[j] = StatusSetelah(j, Terbaru(j), Len(event[j]))'
                       /\ \A i \in DOMAIN event'[j] :
                            /\ event'[j][i].versi \in 1..Terbaru(j)'
                            /\ i > 1 => event'[j][i - 1].versi <= event'[j][i].versi
                            /\ event'[j][i].dari = StatusSetelah(j, event[j][i].versi, i - 1)'
    BY DEF StatusTerbukti
  <2>1. CASE j = k
    <3>1. status'[k] = StatusSetelah(k, Terbaru(k), Len(event[k]))'
      BY <1>0, <1>1, <1>2, <1>3, <1>4 DEF Terbaru, StatusSetelah
    <3>2. ASSUME NEW i \in 1..m
          PROVE  /\ event'[k][i].versi \in 1..n
                 /\ i > 1 => event'[k][i - 1].versi <= event'[k][i].versi
                 /\ event'[k][i].dari = StatusSetelah(k, event[k][i].versi, i - 1)'
      <4>1. i - 1 \in 0..m /\ (i > 1 => i - 1 \in 1..m)
        BY <1>0
      <4>2. event'[k][i] = event[k][i] /\ (i > 1 => event'[k][i - 1] = event[k][i - 1])
        BY <1>3, <4>1
      <4>. QED  BY <1>7, <1>8, <4>1, <4>2
    <3>3. /\ event'[k][m + 1].versi = n
          /\ m + 1 > 1 => event'[k][m].versi <= n
          /\ event'[k][m + 1].dari = StatusSetelah(k, n, m)'
      <4>1. n \in 1..n /\ m \in 0..m
        OBVIOUS
      <4>2. m + 1 > 1 => m \in 1..m
        OBVIOUS
      <4>. QED  BY <1>2, <1>3, <1>7, <1>8, <4>1, <4>2
    <3>4. StatusSetelah(k, event[k][m + 1].versi, m)' = StatusSetelah(k, n, m)'
      BY <3>3 DEF StatusSetelah
    <3>5. n \in 1..n /\ Terbaru(k)' = n /\ m + 1 - 1 = m
      BY <1>1, <1>4 DEF Terbaru
    <3>6. ASSUME NEW i \in 1..(m + 1)
          PROVE  /\ event'[k][i].versi \in 1..n
                 /\ i > 1 => event'[k][i - 1].versi <= event'[k][i].versi
                 /\ event'[k][i].dari = StatusSetelah(k, event[k][i].versi, i - 1)'
      <4>1. CASE i \in 1..m
        BY <3>2, <4>1
      <4>2. CASE i = m + 1
        BY <3>3, <3>4, <3>5, <4>2
      <4>. QED  BY <4>1, <4>2
    <3>. QED  BY <2>1, <3>1, <3>5, <3>6, <1>3
  <2>2. CASE j # k
    <3>1. status'[j] = status[j] /\ versi' = versi /\ event'[j] = event[j]
      BY <2>2, <1>3, <1>4
    <3>2. \A q, i : StatusSetelah(j, q, i)' = StatusSetelah(j, q, i)
      BY <3>1 DEF StatusSetelah
    <3>. QED  BY <3>1, <3>2 DEF RekamInv, StatusTerbukti, Terbaru
  <2>. QED  BY <2>1, <2>2
<1>10. MesinTidakMenimpa'
  BY <1>3, <1>4 DEF RekamInv, MesinTidakMenimpa
<1>. QED  BY <1>5, <1>6, <1>9, <1>10 DEF RekamInv

\* KOREKSI: version and event in one transaction keep the record in order.
LEMMA KoreksiMenjaga ==
  ASSUME RekamInv, NEW o \in Orang, NEW k \in Kasus, Koreksi(o, k)
  PROVE  RekamInv'
<1>0. PICK n \in Nat, m \in Nat : n = Len(versi[k]) /\ m = Len(event[k])
  BY DEF RekamInv, NarasiTypeOK
<1>1. PICK v \in Versi(PunyaRun) :
        /\ v.hasil = "TEAM_REVIEW" /\ v.berteks /\ v.gantikan = n /\ v.run = Nihil
        /\ versi' = [versi EXCEPT ![k] = Append(versi[k], v)]
        /\ status' = [status EXCEPT ![k] = "TEAM_REVIEW"]
        /\ status[k] # "TIADA"
  <2>1. lihat[o][k] = n
    BY <1>0 DEF Koreksi, TambahVersi, BolehTambah, VersiOrang, Terbaru
  <2>2. VersiOrang(n) \in Versi(PunyaRun)
    BY DEF VersiOrang, Versi, PunyaRun, STATUS_HASIL_VERSI
  <2>. QED  BY <2>1, <2>2 DEF Koreksi, TambahVersi, BolehTambah, VersiOrang
<1>2. PICK e \in Event :
        /\ e.versi = n + 1 /\ e.jenis = "TEAM_REVISE" /\ e.dari = "TEAM_REVIEW"
        /\ event' = [event EXCEPT ![k] = Append(event[k], e)]
  <2>1. [versi |-> n + 1, jenis |-> "TEAM_REVISE", dari |-> "TEAM_REVIEW"] \in Event
    BY DEF Event, EventKind, EVENT_TAHAP_TIM, StatusNarasi
  <2>. QED  BY <1>0, <2>1 DEF Koreksi, Terbaru
<1>3. /\ DOMAIN versi[k] = 1..n
      /\ Len(versi'[k]) = n + 1
      /\ DOMAIN versi'[k] = 1..(n + 1)
      /\ \A i \in 1..n : versi'[k][i] = versi[k][i]
      /\ versi'[k][n + 1] = v
      /\ \A j \in Kasus \ {k} : versi'[j] = versi[j]
  BY <1>0, <1>1 DEF RekamInv, NarasiTypeOK
<1>4. /\ DOMAIN event[k] = 1..m
      /\ Len(event'[k]) = m + 1
      /\ DOMAIN event'[k] = 1..(m + 1)
      /\ \A i \in 1..m : event'[k][i] = event[k][i]
      /\ event'[k][m + 1] = e
      /\ \A j \in Kasus \ {k} : event'[j] = event[j]
  BY <1>0, <1>2 DEF RekamInv, NarasiTypeOK
<1>5. /\ status'[k] = "TEAM_REVIEW"
      /\ \A j \in Kasus \ {k} : status'[j] = status[j]
  BY <1>1 DEF RekamInv, NarasiTypeOK
<1>6. NarasiTypeOK(PunyaRun)'
  <2>1. versi' \in [Kasus -> Seq(Versi(PunyaRun))]
    BY <1>1 DEF RekamInv, NarasiTypeOK
  <2>2. event' \in [Kasus -> Seq(Event)]
    BY <1>2 DEF RekamInv, NarasiTypeOK
  <2>3. status' \in [Kasus -> StatusNarasi \cup {"TIADA"}]
    BY <1>1 DEF RekamInv, NarasiTypeOK, StatusNarasi
  <2>4. lihat' = lihat
    BY DEF Koreksi
  <2>. QED  BY <2>1, <2>2, <2>3, <2>4 DEF RekamInv, NarasiTypeOK, Versi, PunyaRun
<1>7. BentukVersi'
  BY <1>1, <1>3, <1>4, <1>5 DEF RekamInv, BentukVersi
<1>8. RantaiLurus'
  BY <1>1, <1>3 DEF RekamInv, RantaiLurus
<1>9. \A i \in 1..m :
        /\ event[k][i].versi \in 1..n
        /\ i > 1 => event[k][i - 1].versi <= event[k][i].versi
        /\ event[k][i].dari = StatusSetelah(k, event[k][i].versi, i - 1)
  BY <1>0, <1>1, <1>4 DEF RekamInv, StatusTerbukti, Terbaru
<1>10. \A q \in 1..n, i \in 0..m : StatusSetelah(k, q, i)' = StatusSetelah(k, q, i)
  BY <1>3, <1>4 DEF StatusSetelah
<1>11. StatusTerbukti'
  <2>. SUFFICES ASSUME NEW j \in Kasus, status'[j] # "TIADA"
                PROVE  /\ status'[j] = StatusSetelah(j, Terbaru(j), Len(event[j]))'
                       /\ \A i \in DOMAIN event'[j] :
                            /\ event'[j][i].versi \in 1..Terbaru(j)'
                            /\ i > 1 => event'[j][i - 1].versi <= event'[j][i].versi
                            /\ event'[j][i].dari = StatusSetelah(j, event[j][i].versi, i - 1)'
    BY DEF StatusTerbukti
  <2>1. CASE j = k
    <3>1. status'[k] = StatusSetelah(k, Terbaru(k), Len(event[k]))'
      BY <1>2, <1>3, <1>4, <1>5 DEF Terbaru, StatusSetelah, EVENT_TAHAP_TIM
    <3>2. ASSUME NEW i \in 1..m
          PROVE  /\ event'[k][i].versi \in 1..n
                 /\ i > 1 => event'[k][i - 1].versi <= event'[k][i].versi
                 /\ event'[k][i].dari = StatusSetelah(k, event[k][i].versi, i - 1)'
      <4>1. i - 1 \in 0..m /\ (i > 1 => i - 1 \in 1..m)
        OBVIOUS
      <4>2. event'[k][i] = event[k][i] /\ (i > 1 => event'[k][i - 1] = event[k][i - 1])
        BY <1>4, <4>1
      <4>. QED  BY <1>9, <1>10, <4>1, <4>2
    <3>3. m + 1 > 1 => event'[k][m].versi <= n
      <4>1. m + 1 > 1 => m \in 1..m
        OBVIOUS
      <4>. QED  BY <3>2, <4>1
    <3>4. StatusSetelah(k, event[k][m + 1].versi, m)' = "TEAM_REVIEW"
      <4>1. m > 0 => event'[k][m].versi # n + 1
        BY <3>2
      <4>. QED  BY <1>1, <1>2, <1>3, <1>4, <4>1 DEF StatusSetelah
    <3>5. Terbaru(k)' = n + 1 /\ m + 1 - 1 = m /\ n + 1 \in 1..(n + 1)
      BY <1>3 DEF Terbaru
    <3>6. ASSUME NEW i \in 1..(m + 1)
          PROVE  /\ event'[k][i].versi \in 1..(n + 1)
                 /\ i > 1 => event'[k][i - 1].versi <= event'[k][i].versi
                 /\ event'[k][i].dari = StatusSetelah(k, event[k][i].versi, i - 1)'
      <4>1. CASE i \in 1..m
        BY <3>2, <4>1
      <4>2. CASE i = m + 1
        <5>1. i > 1 => event'[k][i - 1].versi <= event'[k][i].versi
          <6>. SUFFICES ASSUME m > 0 PROVE event'[k][m].versi <= n + 1
            BY <4>2, <1>2, <1>4
          <6>. QED  BY <3>2
        <5>. QED  BY <1>2, <1>4, <3>4, <3>5, <4>2, <5>1
      <4>. QED  BY <4>1, <4>2
    <3>. QED  BY <2>1, <3>1, <3>5, <3>6, <1>4
  <2>2. CASE j # k
    <3>1. status'[j] = status[j] /\ versi'[j] = versi[j] /\ event'[j] = event[j]
      BY <2>2, <1>3, <1>4, <1>5
    <3>2. \A q, i : StatusSetelah(j, q, i)' = StatusSetelah(j, q, i)
      BY <3>1 DEF StatusSetelah
    <3>. QED  BY <3>1, <3>2 DEF RekamInv, StatusTerbukti, Terbaru
  <2>. QED  BY <2>1, <2>2
<1>12. MesinTidakMenimpa'
  <2>. SUFFICES ASSUME NEW j \in Kasus, NEW q \in DOMAIN versi'[j],
                       q > 1, versi'[j][q].run # Nihil, versi'[j][q - 1].berteks
                PROVE  \E i \in DOMAIN event'[j] :
                         /\ event'[j][i].versi = q - 1
                         /\ event'[j][i].jenis \in {"TEAM_REJECT", "NEED_SOURCE"}
    BY DEF MesinTidakMenimpa
  <2>1. CASE j = k
    <3>1. q \in 1..n /\ q - 1 \in 1..n
      BY <1>1, <1>3, <2>1
    <3>2. PICK i \in 1..m : /\ event[k][i].versi = q - 1
                            /\ event[k][i].jenis \in {"TEAM_REJECT", "NEED_SOURCE"}
      <4>1. /\ q \in DOMAIN versi[k] /\ q > 1
            /\ versi[k][q].run # Nihil /\ versi[k][q - 1].berteks
        BY <1>3, <2>1, <3>1
      <4>. QED  BY <1>4, <4>1 DEF RekamInv, MesinTidakMenimpa
    <3>. QED  BY <1>4, <2>1, <3>2
  <2>2. CASE j # k
    <3>1. versi'[j] = versi[j] /\ event'[j] = event[j]
      BY <1>3, <1>4, <2>2
    <3>. QED  BY <3>1 DEF RekamInv, MesinTidakMenimpa
  <2>. QED  BY <2>1, <2>2
<1>. QED  BY <1>6, <1>7, <1>8, <1>11, <1>12 DEF RekamInv

\* Every step of a person keeps the record in order.
LEMMA OrangMenjaga ==
  ASSUME RekamInv, LangkahOrang
  PROVE  RekamInv'
<1>. SUFFICES ASSUME NEW k \in Kasus,
                     \/ BuatKasus(k)
                     \/ \E o \in Orang :
                          \/ Lihat(o, k)
                          \/ RevisiKasus(o, k)
                          \/ Koreksi(o, k)
                          \/ \E jenis \in EventKind : Tinjau(o, k, jenis)
              PROVE  RekamInv'
  BY DEF LangkahOrang
<1>1. CASE BuatKasus(k)
  <2>1. /\ status' = [status EXCEPT ![k] = "SOURCE_CHECKED"]
        /\ versi' = versi /\ event' = event /\ lihat' = lihat
        /\ versi[k] = <<>> /\ event[k] = <<>>
    BY <1>1 DEF BuatKasus, RekamInv, BentukVersi
  <2>2. NarasiTypeOK(PunyaRun)'
    BY <2>1 DEF RekamInv, NarasiTypeOK, StatusNarasi
  <2>3. BentukVersi'
    BY <2>1 DEF RekamInv, BentukVersi, NarasiTypeOK
  <2>4. StatusTerbukti'
    <3>1. \A j \in Kasus : \A n, i : StatusSetelah(j, n, i)' = StatusSetelah(j, n, i)
      BY <2>1 DEF StatusSetelah
    <3>2. StatusSetelah(k, Terbaru(k), Len(event[k])) = "SOURCE_CHECKED"
      BY <2>1 DEF StatusSetelah, Terbaru
    <3>3. \A j \in Kasus \ {k} : status'[j] = status[j]
      BY <2>1 DEF RekamInv, NarasiTypeOK
    <3>4. status'[k] = "SOURCE_CHECKED" /\ DOMAIN event[k] = {}
      BY <2>1 DEF RekamInv, NarasiTypeOK
    <3>. QED  BY <2>1, <3>1, <3>2, <3>3, <3>4 DEF RekamInv, StatusTerbukti, Terbaru
  <2>5. RantaiLurus' /\ MesinTidakMenimpa'
    BY <2>1 DEF RekamInv, RantaiLurus, MesinTidakMenimpa
  <2>. QED  BY <2>2, <2>3, <2>4, <2>5 DEF RekamInv
<1>2. ASSUME NEW o \in Orang, Lihat(o, k) PROVE RekamInv'
  <2>1. lihat' = [lihat EXCEPT ![o][k] = Terbaru(k)] /\ UNCHANGED <<status, versi, event>>
    BY <1>2 DEF Lihat
  <2>2. Terbaru(k) \in Nat
    BY DEF RekamInv, NarasiTypeOK, Terbaru
  <2>3. NarasiTypeOK(PunyaRun)'
    BY <2>1, <2>2 DEF RekamInv, NarasiTypeOK
  <2>4. \A j \in Kasus : \A n, i : StatusSetelah(j, n, i)' = StatusSetelah(j, n, i)
    BY <2>1 DEF StatusSetelah
  <2>5. StatusTerbukti'
    BY <2>1, <2>4 DEF RekamInv, StatusTerbukti, Terbaru
  <2>. QED  BY <2>1, <2>3, <2>5 DEF RekamInv, BentukVersi, RantaiLurus,
               MesinTidakMenimpa
<1>3. ASSUME NEW o \in Orang, RevisiKasus(o, k) PROVE RekamInv'
  <2>1. VersiOrang(lihat[o][k]) \in Versi(PunyaRun)
    BY DEF RekamInv, NarasiTypeOK, VersiOrang, Versi, PunyaRun, STATUS_HASIL_VERSI
  <2>. QED  BY <1>3, <2>1, TambahMenjaga DEF RevisiKasus, VersiOrang
<1>4. ASSUME NEW o \in Orang, NEW jenis \in EventKind, Tinjau(o, k, jenis)
      PROVE  RekamInv'
  <2>1. lihat[o][k] \in Nat
    BY DEF RekamInv, NarasiTypeOK
  <2>. QED  BY <1>4, <2>1, CatatMenjaga DEF Tinjau
<1>. QED  BY <1>1, <1>2, <1>3, <1>4, KoreksiMenjaga

-------------------------------------------------------------------------------
(* Absorption.                                                               *)

SerapInv ==
  /\ PermintaanSah
  /\ KunciSah
  /\ SerapanSejalan

SisaTipe ==
  /\ JanjiTypeOK
  /\ kasusDari \in [Req -> Kasus \cup {Nihil}]
  /\ serap \in [Req -> HasilSerap \cup {"TIADA", "BELUM"}]
  /\ periksa \in [Orang -> Kasus \cup {Nihil}]
  /\ batch \in [Penyerap -> Seq(Req)]
  /\ terkunci \in SUBSET {a \in Penyerap : batch[a] # <<>>}
  /\ gangguan \in 0..MaksGangguan

LEMMA BagianInv == IndInv <=> RekamInv /\ SisaTipe /\ SerapInv
BY DEF IndInv, RekamInv, SisaTipe, SerapInv, TypeOK, PunyaRun

LEMMA BagianInvBaru == IndInv' <=> RekamInv' /\ SisaTipe' /\ SerapInv'
BY DEF IndInv, RekamInv, SisaTipe, SerapInv, TypeOK, PunyaRun

LEMMA InitInv == ASSUME Init PROVE IndInv
<1>. USE NarasiAssumption, NarasiAiAssumption
<1>1. RekamInv
  BY DEF Init, NarasiInit, RekamInv, NarasiTypeOK, BentukVersi, RantaiLurus,
     StatusTerbukti, MesinTidakMenimpa
<1>2. SisaTipe
  BY DEF Init, JanjiInit, SisaTipe, JanjiTypeOK
<1>3. PermintaanSah
  BY DEF Init, JanjiInit, PermintaanSah, HasilSerap
<1>4. KunciSah
  BY DEF Init, KunciSah
<1>5. SerapanSejalan
  BY DEF Init, NarasiInit, SerapanSejalan, AdaVersiDari
<1>. QED  BY <1>1, <1>2, <1>3, <1>4, <1>5, BagianInv DEF SerapInv

\* A person's step adds no version of a run.
LEMMA VersiRunTetap ==
  ASSUME RekamInv, LangkahOrang, NEW j \in Kasus
  PROVE  /\ Len(versi[j]) <= Len(versi'[j])
         /\ DOMAIN versi[j] \subseteq DOMAIN versi'[j]
         /\ \A n \in DOMAIN versi[j] : versi'[j][n] = versi[j][n]
         /\ \A n \in DOMAIN versi'[j] \ DOMAIN versi[j] : versi'[j][n].run = Nihil
         /\ status[j] # "TIADA" => status'[j] # "TIADA"
<1>. SUFFICES ASSUME NEW k \in Kasus,
                     \/ BuatKasus(k)
                     \/ \E o \in Orang :
                          \/ Lihat(o, k)
                          \/ RevisiKasus(o, k)
                          \/ Koreksi(o, k)
                          \/ \E jenis \in EventKind : Tinjau(o, k, jenis)
              PROVE  /\ Len(versi[j]) <= Len(versi'[j])
                     /\ DOMAIN versi[j] \subseteq DOMAIN versi'[j]
                     /\ \A n \in DOMAIN versi[j] : versi'[j][n] = versi[j][n]
                     /\ \A n \in DOMAIN versi'[j] \ DOMAIN versi[j] : versi'[j][n].run = Nihil
                     /\ status[j] # "TIADA" => status'[j] # "TIADA"
  BY DEF LangkahOrang
<1>1. versi[j] \in Seq(Versi(PunyaRun)) /\ Len(versi[j]) \in Nat
  BY DEF RekamInv, NarasiTypeOK
<1>2. CASE UNCHANGED versi /\ (status' = status \/ \E s \in StatusNarasi : status' = [status EXCEPT ![k] = s])
  BY <1>1, <1>2 DEF RekamInv, NarasiTypeOK, StatusNarasi
<1>3. CASE \E o \in Orang : RevisiKasus(o, k) \/ Koreksi(o, k)
  <2>1. PICK v \in Versi(PunyaRun) :
          /\ v.run = Nihil
          /\ versi' = [versi EXCEPT ![k] = Append(versi[k], v)]
          /\ status' = [status EXCEPT ![k] = "TEAM_REVIEW"]
    <3>1. PICK o \in Orang : TambahVersi(k, VersiOrang(lihat[o][k]))
      BY <1>3 DEF RevisiKasus, Koreksi
    <3>2. VersiOrang(lihat[o][k]) \in Versi(PunyaRun)
      BY DEF RekamInv, NarasiTypeOK, VersiOrang, Versi, PunyaRun, STATUS_HASIL_VERSI
    <3>. QED  BY <3>1, <3>2 DEF TambahVersi, VersiOrang
  <2>. QED  BY <1>1, <2>1 DEF RekamInv, NarasiTypeOK
<1>4. ASSUME BuatKasus(k) PROVE UNCHANGED versi /\ \E s \in StatusNarasi : status' = [status EXCEPT ![k] = s]
  BY <1>4 DEF BuatKasus, StatusNarasi
<1>5. ASSUME NEW o \in Orang, NEW jenis \in EventKind, Tinjau(o, k, jenis)
      PROVE  UNCHANGED versi /\ \E s \in StatusNarasi : status' = [status EXCEPT ![k] = s]
  <2>1. EVENT_TAHAP_TIM[jenis] \in StatusNarasi
    BY DEF EventKind, EVENT_TAHAP_TIM, StatusNarasi
  <2>2. UNCHANGED versi /\ status' = [status EXCEPT ![k] = EVENT_TAHAP_TIM[jenis]]
    BY <1>5 DEF Tinjau, CatatEvent
  <2>. QED  BY <2>1, <2>2
<1>. QED  BY <1>2, <1>3, <1>4, <1>5 DEF Lihat

\* Nothing but a verdict or a new request can release or spoil a claim.
LEMMA KunciTetap ==
  ASSUME SisaTipe, KunciSah, UNCHANGED <<run, serap, batch, terkunci>>
  PROVE  KunciSah'
BY DEF KunciSah, Terklaim

LEMMA LangkahOrangInv ==
  ASSUME IndInv, LangkahOrang,
         UNCHANGED <<janji, permintaan, periksa, batch, terkunci, gangguan>>
  PROVE  IndInv'
<1>. USE NarasiAssumption, NarasiAiAssumption
<1>0. RekamInv /\ SisaTipe /\ SerapInv
  BY BagianInv
<1>1. RekamInv'
  BY <1>0, OrangMenjaga
<1>2. SisaTipe'
  BY <1>0 DEF SisaTipe, JanjiTypeOK, janji, permintaan
<1>3. PermintaanSah'
  <2>1. \A j \in Kasus : status[j] # "TIADA" => status'[j] # "TIADA"
    BY <1>0, VersiRunTetap
  <2>. QED  BY <1>0, <2>1 DEF SerapInv, PermintaanSah, janji, permintaan
<1>4. KunciSah'
  BY <1>0, KunciTetap DEF SerapInv, janji, permintaan
<1>5. ASSUME NEW r \in Req, NEW j \in Kasus
      PROVE  \A n : n \in DOMAIN versi'[j] /\ versi'[j][n].run = r
                     <=> n \in DOMAIN versi[j] /\ versi[j][n].run = r
  BY <1>0, VersiRunTetap
<1>6. SerapanSejalan'
  <2>1. \A r \in Req : AdaVersiDari(r)' <=> AdaVersiDari(r)
    <3>. SUFFICES ASSUME NEW r \in Req PROVE AdaVersiDari(r)' <=> AdaVersiDari(r)
      OBVIOUS
    <3>1. ASSUME NEW j \in Kasus
          PROVE  (\E n \in DOMAIN versi'[j] : versi'[j][n].run = r)
                 <=> (\E n \in DOMAIN versi[j] : versi[j][n].run = r)
      BY <1>5
    <3>. QED  BY <3>1 DEF AdaVersiDari
  <2>2. \A j \in Kasus : \A n \in DOMAIN versi[j] : versi'[j][n] = versi[j][n]
    BY <1>0, VersiRunTetap
  <2>. QED  BY <1>0, <1>5, <2>1, <2>2 DEF SerapInv, SerapanSejalan, janji,
               permintaan
<1>. QED  BY <1>1, <1>2, <1>3, <1>4, <1>6, BagianInvBaru DEF SerapInv

\* Steps that touch neither the record nor requests nor runs.
LEMMA RekamTetap ==
  ASSUME RekamInv, UNCHANGED narasi
  PROVE  RekamInv'
<1>1. \A j, n, i : StatusSetelah(j, n, i)' = StatusSetelah(j, n, i)
  BY DEF StatusSetelah, narasi
<1>. QED  BY <1>1 DEF RekamInv, narasi, NarasiTypeOK, BentukVersi, RantaiLurus,
             StatusTerbukti,
          MesinTidakMenimpa, Terbaru

LEMMA SerapanTetap ==
  ASSUME SerapanSejalan, UNCHANGED <<versi, run, permintaan>>
  PROVE  SerapanSejalan'
BY DEF SerapanSejalan, AdaVersiDari, permintaan

LEMMA LangkahPeriksaDraf ==
  ASSUME IndInv, NEW o \in Orang, NEW k \in Kasus, PeriksaDraf(o, k)
  PROVE  IndInv'
<1>0. RekamInv /\ SisaTipe /\ SerapInv
  BY BagianInv
<1>1. RekamInv'
  BY <1>0, RekamTetap DEF PeriksaDraf
<1>2. SisaTipe'
  BY <1>0 DEF PeriksaDraf, SisaTipe, JanjiTypeOK, janji, permintaan
<1>3. PermintaanSah'
  BY <1>0 DEF PeriksaDraf, SerapInv, PermintaanSah, janji, permintaan, narasi,
     SisaTipe,
     STATUS_KASUS_BOLEH_SERAP
<1>4. KunciSah'
  BY <1>0, KunciTetap DEF PeriksaDraf, SerapInv, janji, permintaan
<1>5. SerapanSejalan'
  BY <1>0, SerapanTetap DEF PeriksaDraf, SerapInv, janji, narasi
<1>. QED  BY <1>1, <1>2, <1>3, <1>4, <1>5, BagianInvBaru DEF SerapInv

LEMMA LangkahBatalDraf ==
  ASSUME IndInv, NEW o \in Orang, BatalDraf(o)
  PROVE  IndInv'
<1>. USE NarasiAssumption
<1>0. RekamInv /\ SisaTipe /\ SerapInv
  BY BagianInv
<1>1. RekamInv'
  BY <1>0, RekamTetap DEF BatalDraf
<1>2. SisaTipe'
  BY <1>0 DEF BatalDraf, SisaTipe, JanjiTypeOK, janji, permintaan
<1>3. PermintaanSah'
  BY <1>0 DEF BatalDraf, SerapInv, PermintaanSah, janji, permintaan, narasi,
     SisaTipe
<1>4. KunciSah'
  BY <1>0, KunciTetap DEF BatalDraf, SerapInv, janji, permintaan
<1>5. SerapanSejalan'
  BY <1>0, SerapanTetap DEF BatalDraf, SerapInv, janji, narasi
<1>. QED  BY <1>1, <1>2, <1>3, <1>4, <1>5, BagianInvBaru DEF SerapInv

LEMMA LangkahAjukanDraf ==
  ASSUME IndInv, NEW o \in Orang, NEW r \in Req, AjukanDraf(o, r)
  PROVE  IndInv'
<1>. USE NarasiAssumption, NarasiAiAssumption
<1>0. RekamInv /\ SisaTipe /\ SerapInv
  BY BagianInv
<1>1. RekamInv'
  BY <1>0, RekamTetap DEF AjukanDraf
<1>2. PICK s \in VonisGerbang \cup {"MENUNGGU"} :
        run' = [run EXCEPT ![r] = s] /\ run[r] = "TIADA" /\ UNCHANGED dipanggil
  BY DEF AjukanDraf, Buka, TolakDiGerbang
<1>3. /\ periksa[o] \in Kasus
      /\ status[periksa[o]] # "TIADA"
      /\ kasusDari[r] = Nihil
      /\ serap[r] = "TIADA"
  BY <1>0, <1>2 DEF AjukanDraf, SisaTipe, SerapInv, PermintaanSah
<1>4. SisaTipe'
  <2>1. JanjiTypeOK'
    BY <1>0, <1>2 DEF SisaTipe, JanjiTypeOK, StatusQaAi, Vonis, VonisGerbang
  <2>. QED  BY <1>0, <1>3, <2>1 DEF AjukanDraf, SisaTipe
<1>5. PermintaanSah'
  BY <1>0, <1>2, <1>3
  DEF AjukanDraf, SisaTipe, JanjiTypeOK, SerapInv, PermintaanSah, narasi, HasilSerap, VonisGerbang
<1>6. KunciSah'
  BY <1>0, <1>2, <1>3 DEF AjukanDraf, SisaTipe, JanjiTypeOK, SerapInv, KunciSah,
     Terklaim
<1>7. SerapanSejalan'
  <2>1. ~AdaVersiDari(r)
    BY <1>0, <1>3 DEF SerapInv, SerapanSejalan
  <2>2. \A q \in Req : AdaVersiDari(q)' <=> AdaVersiDari(q)
    BY DEF AjukanDraf, narasi, AdaVersiDari
  <2>. QED  BY <1>0, <1>2, <1>3, <2>1, <2>2
       DEF AjukanDraf, narasi, SisaTipe, JanjiTypeOK, SerapInv, SerapanSejalan,
       AdaVersiDari
<1>. QED  BY <1>1, <1>4, <1>5, <1>6, <1>7, BagianInvBaru DEF SerapInv

LEMMA LangkahAiInv ==
  ASSUME IndInv, LangkahAi
  PROVE  IndInv'
<1>. USE NarasiAssumption, NarasiAiAssumption
<1>0. RekamInv /\ SisaTipe /\ SerapInv
  BY BagianInv
<1>1. RekamInv'
  BY <1>0, RekamTetap DEF LangkahAi
<1>2. PICK r \in Req : /\ run[r] = "MENUNGGU"
                       /\ run' = run \/ \E v \in Vonis : run' = [run EXCEPT ![r] = v]
                       /\ dipanggil' \in SUBSET Req
  BY <1>0 DEF LangkahAi, Panggil, Putus, SisaTipe, JanjiTypeOK
<1>3. SisaTipe'
  <2>1. JanjiTypeOK'
    BY <1>0, <1>2 DEF SisaTipe, JanjiTypeOK, StatusQaAi
  <2>. QED  BY <1>0, <2>1 DEF LangkahAi, SisaTipe, permintaan
<1>4. \A q \in Req : run[q] # "MENUNGGU" => run'[q] = run[q]
  BY <1>0, <1>2 DEF SisaTipe, JanjiTypeOK
<1>5. \A q \in Req : run'[q] = "TIADA" <=> run[q] = "TIADA"
  BY <1>0, <1>2
  DEF SisaTipe, JanjiTypeOK, Vonis, VonisGerbang, VonisJawaban
<1>6. PermintaanSah'
  BY <1>0, <1>4, <1>5 DEF LangkahAi, SerapInv, PermintaanSah, permintaan, narasi
<1>7. KunciSah'
  <2>1. \A a \in terkunci : Head(batch[a]) \in Req
    BY <1>0 DEF SisaTipe
  <2>. QED  BY <1>0, <1>4, <2>1 DEF LangkahAi, SerapInv, KunciSah, Terklaim,
               permintaan
<1>8. SerapanSejalan'
  <2>1. \A q \in Req : AdaVersiDari(q)' <=> AdaVersiDari(q)
    BY DEF LangkahAi, narasi, AdaVersiDari
  <2>. QED  BY <1>0, <1>4, <2>1
       DEF LangkahAi, narasi, permintaan, SerapInv, SerapanSejalan
<1>. QED  BY <1>1, <1>3, <1>6, <1>7, <1>8, BagianInvBaru DEF SerapInv

\* Reading a batch, claiming, and every way of going on without a result.
LEMMA LangkahBatch ==
  ASSUME IndInv, NEW a \in Penyerap,
         BacaBatch(a) \/ KlaimRun(a) \/ LewatiRun(a) \/ SerapGalat(a)
           \/ SerapTerganggu(a) \/ PenyerapMati(a)
  PROVE  IndInv'
<1>. USE NarasiAssumption, NarasiAiAssumption
<1>0. RekamInv /\ SisaTipe /\ SerapInv
  BY BagianInv
<1>1. UNCHANGED <<janji, narasi, permintaan, periksa>>
  BY DEF BacaBatch, KlaimRun, LewatiRun, SerapGalat, SerapTerganggu, PenyerapMati
<1>2. RekamInv'
  BY <1>0, <1>1, RekamTetap
<1>3. PermintaanSah'
  BY <1>0, <1>1 DEF SerapInv, PermintaanSah, janji, narasi, permintaan
<1>4. SerapanSejalan'
  BY <1>0, <1>1, SerapanTetap DEF SerapInv, janji, narasi
<1>5. gangguan' \in 0..MaksGangguan
  BY <1>0 DEF SisaTipe, BacaBatch, KlaimRun, LewatiRun, SerapGalat,
     SerapTerganggu, PenyerapMati
<1>6. /\ batch' \in [Penyerap -> Seq(Req)]
      /\ terkunci' \in SUBSET {b \in Penyerap : batch'[b] # <<>>}
      /\ KunciSah'
  <2>1. CASE BacaBatch(a)
    <3>1. PICK n \in 1..Batas : \E s \in [1..n -> {r \in Req : Siap(r)}] :
            batch' = [batch EXCEPT ![a] = s]
      BY <2>1 DEF BacaBatch
    <3>2. PICK s \in [1..n -> {r \in Req : Siap(r)}] : batch' = [batch EXCEPT ![a] = s]
      BY <3>1
    <3>3. n \in Nat \ {0} /\ s \in [1..n -> Req]
      BY <3>2
    <3>4. s \in Seq(Req) /\ s # <<>>
      BY <3>3
    <3>5. a \notin terkunci /\ terkunci' = terkunci
      BY <1>0, <2>1 DEF BacaBatch, SisaTipe
    <3>. QED  BY <1>0, <1>1, <3>2, <3>4, <3>5
         DEF SisaTipe, SerapInv, KunciSah, Terklaim, janji, permintaan
  <2>2. CASE KlaimRun(a)
    <3>1. /\ batch' = batch /\ terkunci' = terkunci \cup {a}
          /\ batch[a] # <<>> /\ Terklaim(Head(batch[a]))
          /\ \A b \in terkunci : Head(batch[b]) # Head(batch[a])
      BY <2>2 DEF KlaimRun, Pemegang
    <3>. QED  BY <1>0, <1>1, <3>1
         DEF SisaTipe, SerapInv, KunciSah, Terklaim, janji, permintaan
  <2>3. CASE ~BacaBatch(a) /\ ~KlaimRun(a)
    <3>1. PICK s \in Seq(Req) : /\ batch' = [batch EXCEPT ![a] = s]
                                /\ terkunci' = terkunci \ {a}
      <4>1. batch[a] \in Seq(Req)
        BY <1>0 DEF SisaTipe
      <4>2. CASE PenyerapMati(a)
        <5>1. <<>> \in Seq(Req)
          OBVIOUS
        <5>. QED  BY <4>2, <5>1 DEF PenyerapMati
      <4>3. CASE Berikut(a)
        <5>1. batch[a] # <<>>
          BY <1>0, <2>3, <4>1
          DEF LewatiRun, SerapGalat, SerapTerganggu, PenyerapMati, SisaTipe
        <5>2. Tail(batch[a]) \in Seq(Req)
          BY <4>1, <5>1
        <5>. QED  BY <4>3, <5>2 DEF Berikut
      <4>. QED  BY <2>3, <4>2, <4>3 DEF LewatiRun, SerapGalat, SerapTerganggu
    <3>2. \A b \in terkunci \ {a} : batch'[b] = batch[b]
      BY <1>0, <3>1 DEF SisaTipe
    <3>. QED  BY <1>0, <1>1, <3>1, <3>2
         DEF SisaTipe, SerapInv, KunciSah, Terklaim, janji, permintaan
  <2>. QED  BY <2>1, <2>2, <2>3
<1>7. SisaTipe'
  BY <1>0, <1>1, <1>5, <1>6 DEF SisaTipe, JanjiTypeOK, janji, permintaan
<1>. QED  BY <1>2, <1>3, <1>4, <1>6, <1>7, BagianInvBaru DEF SerapInv

LEMMA LangkahSerapRun ==
  ASSUME IndInv, NEW a \in Penyerap, SerapRun(a)
  PROVE  IndInv'
<1>. USE NarasiAssumption, NarasiAiAssumption
<1>0. RekamInv /\ SisaTipe /\ SerapInv
  BY BagianInv
<1>1. PICK r \in Req : r = Head(batch[a])
  <2>1. batch[a] \in Seq(Req) /\ batch[a] # <<>>
    BY <1>0 DEF SerapRun, SisaTipe
  <2>2. Head(batch[a]) \in Req
    BY <2>1
  <2>. QED  BY <2>2
<1>2. /\ serap[r] = "BELUM" /\ run[r] \notin {"MENUNGGU", "TIADA"}
      /\ kasusDari[r] \in Kasus
      /\ SerapVersi(r) \/ SerapManual(r)
      /\ UNCHANGED <<janji, event, lihat, kasusDari, periksa, gangguan>>
      /\ terkunci' = terkunci \ {a}
      /\ batch' = [batch EXCEPT ![a] = Tail(batch[a])]
  BY <1>0, <1>1
  DEF SerapRun, SerapInv, KunciSah, Terklaim, PermintaanSah, SisaTipe, JanjiTypeOK, Berikut
<1>3. \A b \in terkunci \ {a} : batch'[b] = batch[b] /\ Head(batch[b]) # r
  BY <1>0, <1>1, <1>2 DEF SerapRun, SisaTipe, SerapInv, KunciSah
<1>4. PICK h \in HasilSerap : serap' = [serap EXCEPT ![r] = h]
  BY <1>2 DEF SerapVersi, SerapManual, HasilSerap
<1>5. KunciSah'
  <2>1. \A b \in terkunci \ {a} : Head(batch[b]) \in Req
    BY <1>0 DEF SisaTipe
  <2>. QED  BY <1>0, <1>2, <1>3, <1>4, <2>1
       DEF SerapInv, KunciSah, Terklaim, janji, SisaTipe
<1>6. SisaTipe'
  <2>1. Tail(batch[a]) \in Seq(Req)
    BY <1>0 DEF SisaTipe, SerapRun
  <2>2. JanjiTypeOK'
    BY <1>0, <1>2 DEF SisaTipe, JanjiTypeOK, janji
  <2>. QED  BY <1>0, <1>2, <1>4, <2>1, <2>2 DEF SisaTipe
<1>7. ~AdaVersiDari(r)
  BY <1>0, <1>2 DEF SerapInv, SerapanSejalan
<1>8. CASE SerapManual(r)
  <2>1. UNCHANGED <<status, versi>> /\ serap' = [serap EXCEPT ![r] = "MANUAL"]
    BY <1>7, <1>8 DEF SerapManual
  <2>2. RekamInv'
    BY <1>0, <1>2, <2>1, RekamTetap DEF narasi
  <2>3. PermintaanSah'
    BY <1>0, <1>2, <2>1 DEF SerapInv, PermintaanSah, janji, SisaTipe, HasilSerap
  <2>4. \A q \in Req : AdaVersiDari(q)' <=> AdaVersiDari(q)
    BY <2>1 DEF AdaVersiDari
  <2>5. SerapanSejalan'
    BY <1>0, <1>2, <1>7, <2>1, <2>4
    DEF SerapInv, SerapanSejalan, janji, SisaTipe, AdaVersiDari
  <2>. QED  BY <1>5, <1>6, <2>2, <2>3, <2>5, BagianInvBaru DEF SerapInv
<1>9. CASE SerapVersi(r)
  <2>0. PICK k \in Kasus : k = kasusDari[r]
    BY <1>2
  <2>1. PICK v \in Versi(PunyaRun) :
          /\ v.run = r
          /\ v.berteks <=> run[r] = "LOLOS"
          /\ v.hasil = "NEED_FACT" <=> ~v.berteks
          /\ TambahVersi(k, v)
    <3>1. Terbaru(k) \in Nat
      BY <1>0 DEF RekamInv, NarasiTypeOK, Terbaru
    <3>2. VersiMesin(r) \in Versi(PunyaRun)
      BY <2>0, <3>1 DEF VersiMesin, Versi, PunyaRun, STATUS_HASIL_VERSI
    <3>. QED  BY <1>9, <2>0, <3>2 DEF SerapVersi, VersiMesin
  <2>2. /\ run[r] \in {"LOLOS", "EVIDENCE_GAP"}
        /\ status[k] \in STATUS_KASUS_BOLEH_SERAP
        /\ serap' = [serap EXCEPT ![r] =
                       IF run[r] = "LOLOS" THEN "VERSI_DIBUAT" ELSE "NEED_FACT"]
    BY <1>9, <2>0 DEF SerapVersi, MenjadiVersi
  <2>3. RekamInv'
    BY <1>0, <1>2, <2>1, <2>2, TambahMenjaga
  <2>4. PICK n \in Nat : n = Len(versi[k])
    BY <1>0 DEF RekamInv, NarasiTypeOK
  <2>5. /\ DOMAIN versi[k] = 1..n
        /\ DOMAIN versi'[k] = 1..(n + 1)
        /\ \A i \in 1..n : versi'[k][i] = versi[k][i]
        /\ versi'[k][n + 1] = v
        /\ \A j \in Kasus \ {k} : versi'[j] = versi[j]
    BY <1>0, <2>1, <2>4 DEF TambahVersi, RekamInv, NarasiTypeOK
  <2>6. PermintaanSah'
    <3>1. \A j \in Kasus : status[j] # "TIADA" => status'[j] # "TIADA"
      BY <1>0, <2>1 DEF TambahVersi, RekamInv, NarasiTypeOK, Versi,
         STATUS_HASIL_VERSI
    <3>. QED  BY <1>0, <1>2, <2>2, <3>1 DEF SerapInv, PermintaanSah, janji,
                 SisaTipe, HasilSerap
  <2>7. ASSUME NEW q \in Req, q # r, NEW j \in Kasus
        PROVE  \A i : i \in DOMAIN versi'[j] /\ versi'[j][i].run = q
                       <=> i \in DOMAIN versi[j] /\ versi[j][i].run = q
    <3>1. CASE j = k
      BY <2>1, <2>5, <2>7, <3>1
    <3>2. CASE j # k
      BY <2>5, <3>2
    <3>. QED  BY <3>1, <3>2
  <2>8. ASSUME NEW q \in Req, q # r
        PROVE  AdaVersiDari(q)' <=> AdaVersiDari(q)
    <3>1. ASSUME NEW j \in Kasus
          PROVE  (\E i \in DOMAIN versi'[j] : versi'[j][i].run = q)
                 <=> (\E i \in DOMAIN versi[j] : versi[j][i].run = q)
      BY <2>7, <2>8
    <3>. QED  BY <3>1 DEF AdaVersiDari
  <2>9. AdaVersiDari(r)'
    <3>1. n + 1 \in DOMAIN versi'[k] /\ versi'[k][n + 1].run = r
      BY <2>1, <2>5
    <3>. QED  BY <3>1 DEF AdaVersiDari
  <2>10. SerapanSejalan'
    <3>. SUFFICES ASSUME NEW q \in Req
                  PROVE
                    /\ serap'[q] \in {"VERSI_DIBUAT", "NEED_FACT"} <=> AdaVersiDari(q)'
                    /\ \A j \in Kasus : \A i \in DOMAIN versi'[j] : versi'[j][i].run = q =>
                         /\ j = kasusDari'[q]
                         /\ serap'[q] = (IF versi'[j][i].berteks THEN "VERSI_DIBUAT" ELSE "NEED_FACT")
                         /\ run'[q] = (IF versi'[j][i].berteks THEN "LOLOS" ELSE "EVIDENCE_GAP")
                         /\ \A m \in DOMAIN versi'[j] : versi'[j][m].run = q => m = i
      BY DEF SerapanSejalan
    <3>1. CASE q # r
      <4>1. serap'[q] = serap[q] /\ run'[q] = run[q] /\ kasusDari'[q] = kasusDari[q]
        BY <1>2, <2>2, <3>1 DEF janji
      <4>2. ASSUME NEW j \in Kasus, NEW i \in DOMAIN versi'[j], versi'[j][i].run = q
            PROVE  /\ i \in DOMAIN versi[j]
                   /\ versi'[j][i] = versi[j][i]
                   /\ versi[j][i].run = q
        BY <2>1, <2>5, <3>1, <4>2
      <4>. QED  BY <1>0, <2>7, <2>8, <3>1, <4>1, <4>2 DEF SerapInv, SerapanSejalan
    <3>2. CASE q = r
      <4>1. \A j \in Kasus : \A i \in DOMAIN versi[j] : versi[j][i].run # r
        BY <1>7 DEF AdaVersiDari
      <4>2. ASSUME NEW j \in Kasus, NEW i \in DOMAIN versi'[j], versi'[j][i].run = r
            PROVE  j = k /\ i = n + 1
        <5>1. j = k
          BY <2>5, <4>1, <4>2
        <5>2. i \in 1..(n + 1) /\ i \notin 1..n
          BY <2>5, <4>1, <4>2, <5>1
        <5>. QED  BY <5>1, <5>2
      <4>3. serap'[r] = IF v.berteks THEN "VERSI_DIBUAT" ELSE "NEED_FACT"
        BY <1>0, <2>1, <2>2 DEF SisaTipe, Versi
      <4>4. run'[r] = IF v.berteks THEN "LOLOS" ELSE "EVIDENCE_GAP"
        BY <1>2, <2>1, <2>2 DEF janji, Versi
      <4>. QED  BY <1>2, <2>0, <2>5, <2>9, <3>2, <4>2, <4>3, <4>4
    <3>. QED  BY <3>1, <3>2
  <2>. QED  BY <1>5, <1>6, <2>3, <2>6, <2>10, BagianInvBaru DEF SerapInv
<1>. QED  BY <1>2, <1>8, <1>9

LEMMA LangkahInv == IndInv /\ [Next]_vars => IndInv'
<1>. SUFFICES ASSUME IndInv, [Next]_vars PROVE IndInv'
  OBVIOUS
<1>1. CASE UNCHANGED vars
  <2>1. UNCHANGED <<janji, narasi, permintaan, periksa, batch, terkunci, gangguan>>
    BY <1>1 DEF vars
  <2>2. RekamInv'
    BY <2>1, BagianInv, RekamTetap
  <2>3. SisaTipe' /\ PermintaanSah'
    BY <2>1, BagianInv
    DEF SisaTipe, JanjiTypeOK, SerapInv, PermintaanSah, janji, narasi, permintaan
  <2>4. KunciSah'
    BY <2>1, BagianInv, KunciTetap DEF SerapInv, janji, permintaan
  <2>5. SerapanSejalan'
    BY <2>1, BagianInv, SerapanTetap DEF SerapInv, janji, narasi
  <2>. QED  BY <2>2, <2>3, <2>4, <2>5, BagianInvBaru DEF SerapInv
<1>2. CASE Next
  BY <1>2, LangkahOrangInv, LangkahPeriksaDraf, LangkahAjukanDraf,
     LangkahBatalDraf, LangkahAiInv,
     LangkahBatch, LangkahSerapRun DEF Next, LangkahPenyerap
<1>. QED  BY <1>1, <1>2

\* The inductive invariant: record, requests, claims and results belong
\* together in every reachable state.
THEOREM InvarianInduktif == Spec => []IndInv
BY InitInv, LangkahInv, PTL DEF Spec

\* Type correctness of the tables and of what absorbers hold.
THEOREM TipeBenar == Spec => []TypeOK
<1>1. IndInv => TypeOK
  BY DEF IndInv
<1>. QED  BY <1>1, InvarianInduktif, PTL

\* Nobody writes over a version he has not seen.
THEOREM TidakMenimpaYangTakTerlihat == Spec => []RantaiLurus
<1>1. IndInv => RantaiLurus
  BY DEF IndInv
<1>. QED  BY <1>1, InvarianInduktif, PTL

\* The append-only tables of versions and events prove the status of the case.
THEOREM StatusDapatDibuktikan == Spec => []StatusTerbukti
<1>1. IndInv => StatusTerbukti
  BY DEF IndInv
<1>. QED  BY <1>1, InvarianInduktif, PTL

\* A text gives way to the machine only after a person rejected that text.
THEOREM ManusiaDidahulukan == Spec => []MesinTidakMenimpa
<1>1. IndInv => MesinTidakMenimpa
  BY DEF IndInv
<1>. QED  BY <1>1, InvarianInduktif, PTL

\* A request is absorbed once, and its mark tells the truth about its version.
THEOREM SerapanBenar == Spec => []SerapanSejalan
<1>1. IndInv => SerapanSejalan
  BY DEF IndInv
<1>. QED  BY <1>1, InvarianInduktif, PTL

-------------------------------------------------------------------------------
(* NarasiAi implements NaskahJanji.                                          *)

\* A step that leaves one case's picture alone or changes only that picture.
LEMMA SelainSama ==
  ASSUME NEW k \in Kasus,
         \A j \in Kasus \ {k} :
           status'[j] = status[j] /\ versi'[j] = versi[j] /\ event'[j] = event[j]
  PROVE  \A j \in Kasus \ {k} :
           /\ NaskahDari(j)' = NaskahDari(j)
           /\ Terbaru(j)' = Terbaru(j)
           /\ Disetujui(j)' = Disetujui(j)
BY DEF NaskahDari, Terbaru, Disetujui

\* Appending an event adds its version to the approved ones if it approves.
LEMMA DisetujuiTambah ==
  ASSUME NEW k \in Kasus, NEW e \in Event,
         event[k] \in Seq(Event),
         event'[k] = Append(event[k], e)
  PROVE  Disetujui(k)' = Disetujui(k) \cup
           (IF e.jenis = "TEAM_APPROVE" THEN {e.versi} ELSE {})
<1>1. PICK m \in Nat : m = Len(event[k])
  OBVIOUS
<1>2. /\ DOMAIN event[k] = 1..m
      /\ DOMAIN event'[k] = 1..(m + 1)
      /\ \A i \in 1..m : event'[k][i] = event[k][i]
      /\ event'[k][m + 1] = e
  BY <1>1
<1>3. \A x : x \in Disetujui(k)' <=>
        \E i \in 1..(m + 1) : event'[k][i].jenis = "TEAM_APPROVE" /\ x = event'[k][i].versi
  BY <1>2 DEF Disetujui
<1>4. \A x : x \in Disetujui(k) <=>
        \E i \in 1..m : event[k][i].jenis = "TEAM_APPROVE" /\ x = event[k][i].versi
  BY <1>2 DEF Disetujui
<1>5. ASSUME NEW x, x \in Disetujui(k)'
      PROVE  x \in Disetujui(k) \/ (e.jenis = "TEAM_APPROVE" /\ x = e.versi)
  <2>1. PICK i \in 1..(m + 1) : event'[k][i].jenis = "TEAM_APPROVE" /\ x = event'[k][i].versi
    BY <1>3, <1>5
  <2>2. CASE i \in 1..m
    BY <1>2, <1>4, <2>1, <2>2
  <2>3. CASE i = m + 1
    BY <1>2, <2>1, <2>3
  <2>. QED  BY <2>2, <2>3
<1>6. ASSUME NEW x, x \in Disetujui(k)
      PROVE  x \in Disetujui(k)'
  <2>1. PICK i \in 1..m : event[k][i].jenis = "TEAM_APPROVE" /\ x = event[k][i].versi
    BY <1>4, <1>6
  <2>2. i \in 1..(m + 1)
    OBVIOUS
  <2>. QED  BY <1>2, <1>3, <2>1, <2>2
<1>7. e.jenis = "TEAM_APPROVE" => e.versi \in Disetujui(k)'
  <2>1. m + 1 \in 1..(m + 1)
    OBVIOUS
  <2>. QED  BY <1>2, <1>3, <2>1
<1>. QED  BY <1>5, <1>6, <1>7

\* Writing a version, by whomever, is a writing of the abstract case.
LEMMA TulisanBaru ==
  ASSUME RekamInv, NEW k \in Kasus, NEW v \in Versi(PunyaRun),
         versi' = [versi EXCEPT ![k] = Append(versi[k], v)],
         status' = [status EXCEPT ![k] = v.hasil],
         \A j \in Kasus \ {k} : event'[j] = event[j],
         Disetujui(k)' = Disetujui(k)
  PROVE  Naskah!Tulis(k, IF v.hasil = "NEED_FACT" THEN "KOSONG" ELSE "DRAF")
<1>1. /\ Terbaru(k)' = Terbaru(k) + 1
      /\ NaskahDari(k)' = IF v.hasil = "NEED_FACT" THEN "KOSONG" ELSE "DRAF"
      /\ \A j \in Kasus \ {k} : status'[j] = status[j] /\ versi'[j] = versi[j]
  BY DEF RekamInv, NarasiTypeOK, Terbaru, NaskahDari, Versi, STATUS_HASIL_VERSI,
     STATUS_KASUS_BOLEH_SERAP
<1>2. \A j \in Kasus \ {k} : /\ NaskahDari(j)' = NaskahDari(j)
                              /\ Terbaru(j)' = Terbaru(j)
                              /\ Disetujui(j)' = Disetujui(j)
  BY <1>1, SelainSama
<1>. QED  BY <1>1, <1>2 DEF Naskah!Tulis

LEMMA LangkahNaskah ==
  IndInv /\ IndInv' /\ [Next]_vars => [Naskah!NaskahNext]_(Naskah!naskahVars)
<1>. SUFFICES ASSUME IndInv, [Next]_vars
              PROVE  [Naskah!NaskahNext]_(Naskah!naskahVars)
  OBVIOUS
<1>0. RekamInv /\ SisaTipe /\ SerapInv
  BY BagianInv
<1>1. CASE UNCHANGED <<status, versi, event>>
  BY <1>1 DEF Naskah!naskahVars, NaskahDari, Terbaru, Disetujui
<1>2. ASSUME NEW k \in Kasus, BuatKasus(k) PROVE Naskah!BukaNaskah(k)
  <2>1. /\ \A j \in Kasus \ {k} : status'[j] = status[j] /\ versi'[j] = versi[j] /\ event'[j] = event[j]
        /\ NaskahDari(k) = "TIADA" /\ NaskahDari(k)' = "KOSONG"
        /\ Terbaru(k)' = Terbaru(k) /\ Disetujui(k)' = Disetujui(k)
    BY <1>0, <1>2 DEF BuatKasus, RekamInv, NarasiTypeOK, NaskahDari, Terbaru,
       Disetujui,
       STATUS_KASUS_BOLEH_SERAP
  <2>2. \A j \in Kasus \ {k} : /\ NaskahDari(j)' = NaskahDari(j)
                                /\ Terbaru(j)' = Terbaru(j)
                                /\ Disetujui(j)' = Disetujui(j)
    BY <2>1, SelainSama
  <2>. QED  BY <2>1, <2>2 DEF Naskah!BukaNaskah
<1>3. ASSUME NEW k \in Kasus, NEW o \in Orang, RevisiKasus(o, k) \/ Koreksi(o, k)
      PROVE  Naskah!OrangMenulis(k)
  <2>1. PICK v \in Versi(PunyaRun) :
          /\ v.hasil = "TEAM_REVIEW"
          /\ versi' = [versi EXCEPT ![k] = Append(versi[k], v)]
          /\ status' = [status EXCEPT ![k] = v.hasil]
    <3>1. VersiOrang(lihat[o][k]) \in Versi(PunyaRun)
      BY <1>0 DEF RekamInv, NarasiTypeOK, VersiOrang, Versi, PunyaRun,
         STATUS_HASIL_VERSI
    <3>. QED  BY <1>3, <3>1 DEF RevisiKasus, Koreksi, TambahVersi, VersiOrang
  <2>2. NaskahDari(k) # "TIADA"
    BY <1>0, <1>3, StatusAda
    DEF RevisiKasus, Koreksi, TambahVersi, BolehTambah, NaskahDari, StatusNarasi,
        STATUS_KASUS_BOLEH_SERAP
  <2>3. Disetujui(k)' = Disetujui(k) /\ \A j \in Kasus \ {k} : event'[j] = event[j]
    <3>1. CASE RevisiKasus(o, k)
      BY <3>1 DEF RevisiKasus, Disetujui
    <3>2. CASE Koreksi(o, k)
      <4> DEFINE e == [versi |-> Terbaru(k) + 1, jenis |-> "TEAM_REVISE", dari |-> "TEAM_REVIEW"]
      <4>1. e \in Event
        BY <1>0 DEF Event, EventKind, EVENT_TAHAP_TIM, StatusNarasi, RekamInv,
           NarasiTypeOK, Terbaru
      <4>2. event' = [event EXCEPT ![k] = Append(event[k], e)] /\ event \in [Kasus -> Seq(Event)]
        BY <1>0, <3>2 DEF Koreksi, RekamInv, NarasiTypeOK
      <4>3. e.jenis # "TEAM_APPROVE"
        OBVIOUS
      <4>. HIDE DEF e
      <4>. QED  BY <4>1, <4>2, <4>3, DisetujuiTambah
    <3>. QED  BY <1>3, <3>1, <3>2
  <2>4. Naskah!Tulis(k, "DRAF")
    BY <1>0, <2>1, <2>3, TulisanBaru
  <2>. QED  BY <2>2, <2>4 DEF Naskah!OrangMenulis
<1>4. ASSUME NEW k \in Kasus, NEW o \in Orang, NEW jenis \in EventKind, Tinjau(o, k, jenis)
      PROVE  [Naskah!NaskahNext]_(Naskah!naskahVars)
  <2> DEFINE e == [versi |-> lihat[o][k], jenis |-> jenis, dari |-> status[k]]
  <2>1. /\ lihat[o][k] = Terbaru(k)
        /\ status[k] \in StatusNarasi /\ status[k] # "TEAM_VERIFIED"
        /\ EVENT_TAHAP_TIM[jenis] \in TRANSISI_NARASI[status[k]]
        /\ jenis # "TEAM_REVISE"
        /\ event' = [event EXCEPT ![k] = Append(event[k], e)]
        /\ status' = [status EXCEPT ![k] = EVENT_TAHAP_TIM[jenis]]
        /\ UNCHANGED versi
    BY <1>0, <1>4, StatusAda DEF Tinjau, BolehCatat, CatatEvent
  <2>2. e \in Event /\ e.jenis = jenis /\ e.versi = Terbaru(k)
    BY <1>0, <2>1 DEF Event, RekamInv, NarasiTypeOK
  <2>. HIDE DEF e
  <2>3. Disetujui(k)' = Disetujui(k) \cup (IF jenis = "TEAM_APPROVE" THEN {Terbaru(k)} ELSE {})
    BY <1>0, <2>1, <2>2, DisetujuiTambah DEF RekamInv, NarasiTypeOK
  <2>4. /\ status'[k] = EVENT_TAHAP_TIM[jenis]
        /\ \A j \in Kasus \ {k} : status'[j] = status[j] /\ versi'[j] = versi[j] /\ event'[j] = event[j]
    BY <1>0, <2>1 DEF RekamInv, NarasiTypeOK
  <2>5. \A j \in Kasus \ {k} : /\ NaskahDari(j)' = NaskahDari(j)
                                /\ Terbaru(j)' = Terbaru(j)
                                /\ Disetujui(j)' = Disetujui(j)
    BY <2>4, SelainSama
  <2>6. Terbaru(k)' = Terbaru(k)
    BY <2>1 DEF Terbaru
  <2>7. CASE jenis = "TEAM_APPROVE"
    <3>1. NaskahDari(k) = "DRAF" /\ NaskahDari(k)' = "SAH"
      BY <2>1, <2>4, <2>7
      DEF NaskahDari, StatusNarasi, TRANSISI_NARASI, EVENT_TAHAP_TIM,
      STATUS_KASUS_BOLEH_SERAP
    <3>2. Naskah!Setujui(k)
      BY <2>3, <2>5, <2>6, <2>7, <3>1 DEF Naskah!Setujui
    <3>. QED  BY <3>2 DEF Naskah!NaskahNext
  <2>8. CASE jenis # "TEAM_APPROVE"
    <3>1. /\ NaskahDari(k) \in {"KOSONG", "DRAF"}
          /\ NaskahDari(k)' = "KOSONG"
          /\ Disetujui(k)' = Disetujui(k)
      <4>1. EVENT_TAHAP_TIM[jenis] \in {"SOURCE_CHECKED", "NEED_FACT"}
        BY <2>1, <2>8 DEF EventKind, EVENT_TAHAP_TIM
      <4>. QED  BY <2>1, <2>3, <2>4, <2>8, <4>1
           DEF NaskahDari, StatusNarasi, STATUS_KASUS_BOLEH_SERAP
    <3>2. CASE NaskahDari(k) = "DRAF"
      <4>1. Naskah!Kembalikan(k)
        BY <2>5, <2>6, <3>1, <3>2 DEF Naskah!Kembalikan
      <4>. QED  BY <4>1 DEF Naskah!NaskahNext
    <3>3. CASE NaskahDari(k) = "KOSONG"
      BY <2>5, <2>6, <3>1, <3>3 DEF Naskah!naskahVars
    <3>. QED  BY <3>1, <3>2, <3>3
  <2>. QED  BY <2>7, <2>8
<1>5. ASSUME NEW a \in Penyerap, NEW r \in Req, SerapRun(a), SerapVersi(r), kasusDari[r] \in Kasus
      PROVE  Naskah!MesinMenulis(kasusDari[r])
  <2>1. PICK k \in Kasus : k = kasusDari[r]
    BY <1>5
  <2>2. Terbaru(k) \in Nat
    BY <1>0 DEF RekamInv, NarasiTypeOK, Terbaru
  <2>3. PICK v \in Versi(PunyaRun) : TambahVersi(k, v)
    BY <1>5, <2>1, <2>2
    DEF SerapVersi, VersiMesin, Versi, PunyaRun, STATUS_HASIL_VERSI
  <2>4. NaskahDari(k) = "KOSONG"
    BY <1>5, <2>1 DEF SerapVersi, MenjadiVersi, NaskahDari, STATUS_KASUS_BOLEH_SERAP
  <2>5. event' = event /\ Disetujui(k)' = Disetujui(k)
    BY <1>5 DEF SerapRun, Disetujui
  <2>6. Naskah!Tulis(k, IF v.hasil = "NEED_FACT" THEN "KOSONG" ELSE "DRAF")
    BY <1>0, <2>3, <2>5, TulisanBaru DEF TambahVersi
  <2>. QED  BY <2>1, <2>4, <2>6 DEF Naskah!MesinMenulis
<1>6. ASSUME NEW a \in Penyerap, SerapRun(a)
      PROVE  [Naskah!NaskahNext]_(Naskah!naskahVars)
  <2>1. PICK r \in Req : r = Head(batch[a]) /\ (SerapVersi(r) \/ SerapManual(r))
    <3>1. batch[a] \in Seq(Req) /\ batch[a] # <<>>
      BY <1>0, <1>6 DEF SerapRun, SisaTipe
    <3>2. Head(batch[a]) \in Req
      BY <3>1
    <3>. QED  BY <1>6, <3>2 DEF SerapRun
  <2>2. kasusDari[r] \in Kasus
    BY <1>0, <1>6, <2>1 DEF SerapRun, SerapInv, KunciSah, Terklaim, PermintaanSah,
       SisaTipe
  <2>3. CASE SerapVersi(r)
    BY <1>5, <1>6, <2>2, <2>3 DEF Naskah!NaskahNext
  <2>4. CASE SerapManual(r)
    BY <1>1, <1>6, <2>4 DEF SerapManual, SerapRun
  <2>. QED  BY <2>1, <2>3, <2>4
<1>7. CASE LangkahOrang
  BY <1>1, <1>2, <1>3, <1>4, <1>7 DEF LangkahOrang, Lihat, Naskah!NaskahNext
<1>8. CASE UNCHANGED vars
  BY <1>1, <1>8 DEF vars, narasi
<1>9. ASSUME Next, ~LangkahOrang, \A a \in Penyerap : ~SerapRun(a)
      PROVE  UNCHANGED <<status, versi, event>>
  BY <1>9 DEF Next, PeriksaDraf, AjukanDraf, BatalDraf, LangkahAi,
     LangkahPenyerap, BacaBatch,
     KlaimRun, LewatiRun, SerapGalat, SerapTerganggu, PenyerapMati, narasi
<1>. QED  BY <1>1, <1>6, <1>7, <1>8, <1>9

\* People and machine keep the promise of NaskahJanji: the machine writes only
\* where no usable text stands and approvals are of the newest writing.
THEOREM NaskahMenepatiJanji == Spec => NaskahDitepati
<1>1. Init => Naskah!NaskahInit
  <2>. SUFFICES ASSUME Init PROVE Naskah!NaskahInit
    OBVIOUS
  <2>1. \A k \in Kasus : status[k] = "TIADA" /\ versi[k] = <<>> /\ event[k] = <<>>
    BY DEF Init, NarasiInit
  <2>2. ASSUME NEW k \in Kasus PROVE NaskahDari(k) = "TIADA"
    <3>1. status[k] = "TIADA"
      BY <2>1
    <3>. QED  BY <3>1 DEF NaskahDari, STATUS_KASUS_BOLEH_SERAP
  <2>3. ASSUME NEW k \in Kasus PROVE Terbaru(k) = 0
    <3>1. versi[k] = <<>>
      BY <2>1
    <3>. QED  BY <3>1 DEF Terbaru
  <2>4. ASSUME NEW k \in Kasus PROVE Disetujui(k) = {}
    <3>1. DOMAIN event[k] = {}
      BY <2>1
    <3>. QED  BY <3>1, Zenon DEF Disetujui
  <2>. QED  BY <2>2, <2>3, <2>4, Zenon DEF Naskah!NaskahInit
<1>. QED  BY <1>1, InvarianInduktif, LangkahNaskah, PTL DEF Spec, NaskahDitepati,
             Naskah!NaskahSpec
===============================================================================
