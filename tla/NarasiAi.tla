------------------------------- MODULE NarasiAi -------------------------------
(***************************************************************************)
(* Narrative cases together with the AI: people ask for a draft            *)
(* (ajukan_draf_ai), the run register decides the run some time later      *)
(* (JanjiRun, which AiJob implements), and absorber processes (python -m   *)
(* ...narasi.penyerap) turn decided runs into versions.                    *)
(*                                                                         *)
(* Every absorption is one transaction that locks the request row (SKIP    *)
(* LOCKED) and the case row: one action.  The batch of request ids an      *)
(* absorber works through was read in an earlier transaction, and the      *)
(* checks of a submission are not locked against its inserts.              *)
(***************************************************************************)
EXTENDS Narasi, JanjiRun

CONSTANTS
  Penyerap,       \* absorber processes
  Batas,          \* BATCH_BAWAAN, requests per round
  Rusak,          \* requests whose absorption raises an unexpected exception
  MaksGangguan    \* bound: crashes and failed transactions of absorbers

\* Requests are numbered in order of created_at.
ASSUME NarasiAiAssumption ==
  /\ Req \subseteq Nat
  /\ Nihil \notin Req
  /\ Batas \in Nat \ {0}
  /\ Rusak \subseteq Req
  /\ MaksGangguan \in Nat

VARIABLES
  kasusDari,      \* narasi_ai_permintaan.narasi_id, Nihil before the row exists
  serap,          \* hasil_serap; "BELUM" while diserap_at is null
  periksa,        \* periksa[o]: case o's submission has checked, or Nihil
  batch,          \* ids an absorber still has to process
  terkunci,       \* absorbers inside serap_run: they hold the row of the next id
  gangguan        \* disturbances spent

janji     == <<run, dipanggil>>
narasi    == <<status, versi, event, lihat>>
permintaan == <<kasusDari, serap>>
vars      == <<janji, narasi, permintaan, periksa, batch, terkunci, gangguan>>

HasilSerap == {"VERSI_DIBUAT", "NEED_FACT", "MANUAL"}

TypeOK ==
  /\ JanjiTypeOK
  /\ NarasiTypeOK(Req \cup {Nihil})
  /\ kasusDari \in [Req -> Kasus \cup {Nihil}]
  /\ serap \in [Req -> HasilSerap \cup {"TIADA", "BELUM"}]
  /\ periksa \in [Orang -> Kasus \cup {Nihil}]
  /\ batch \in [Penyerap -> Seq(Req)]
  /\ terkunci \in SUBSET {a \in Penyerap : batch[a] # <<>>}
  /\ gangguan \in 0..MaksGangguan

Init ==
  /\ JanjiInit
  /\ NarasiInit
  /\ kasusDari = [r \in Req |-> Nihil]
  /\ serap = [r \in Req |-> "TIADA"]
  /\ periksa = [o \in Orang |-> Nihil]
  /\ batch = [a \in Penyerap |-> <<>>]
  /\ terkunci = {}
  /\ gangguan = 0

-------------------------------------------------------------------------------
(* Asking for a draft.                                                       *)

\* Both the submission and the absorber insist on these.
STATUS_KASUS_BOLEH_SERAP == {"SOURCE_CHECKED", "NEED_FACT"}

AdaBelumDiserap(k) == \E r \in Req : kasusDari[r] = k /\ serap[r] = "BELUM"

\* ajukan_draf_ai, the reads: nothing is locked.
PeriksaDraf(o, k) ==
  /\ periksa[o] = Nihil
  /\ status[k] \in STATUS_KASUS_BOLEH_SERAP
  /\ ~AdaBelumDiserap(k)
  /\ periksa' = [periksa EXCEPT ![o] = k]
  /\ UNCHANGED <<janji, narasi, permintaan, batch, terkunci, gangguan>>

\* ajukan_draf_ai, the writes: gateway.ajukan and permintaan.catat, one
\* transaction; r is the next row.
AjukanDraf(o, r) ==
  /\ periksa[o] # Nihil
  /\ \A q \in Req : q < r => run[q] # "TIADA"
  /\ Buka(r) \/ \E v \in VonisGerbang : TolakDiGerbang(r, v)
  /\ kasusDari' = [kasusDari EXCEPT ![r] = periksa[o]]
  /\ serap' = [serap EXCEPT ![r] = "BELUM"]
  /\ periksa' = [periksa EXCEPT ![o] = Nihil]
  /\ UNCHANGED <<narasi, batch, terkunci, gangguan>>

\* The request is refused after the checks (unknown source, source without AI
\* permission, function not active): nothing is written.
BatalDraf(o) ==
  /\ periksa[o] # Nihil
  /\ periksa' = [periksa EXCEPT ![o] = Nihil]
  /\ UNCHANGED <<janji, narasi, permintaan, batch, terkunci, gangguan>>

\* The AI pipeline decides runs in its own time.
LangkahAi ==
  /\ \E r \in Req : Panggil(r) \/ \E v \in Vonis : Putus(r, v)
  /\ UNCHANGED <<narasi, permintaan, periksa, batch, terkunci, gangguan>>

-------------------------------------------------------------------------------
(* The absorber process.                                                     *)

Siap(r) == serap[r] = "BELUM" /\ run[r] # "MENUNGGU"

\* The oldest requests with a decided run, as many as fit.
Tertua(s) ==
  LET Dipilih == {s[i] : i \in DOMAIN s} IN
  /\ \A i, j \in DOMAIN s : i < j => s[i] < s[j]
  /\ \A r \in Req : Siap(r) /\ r \notin Dipilih =>
       Len(s) = Batas /\ \A q \in Dipilih : q < r

\* serap_tertunda, first transaction: read the ids of one round.
BacaBatch(a) ==
  /\ batch[a] = <<>>
  /\ \E n \in 1..Batas : \E s \in [1..n -> {r \in Req : Siap(r)}] :
       Tertua(s) /\ batch' = [batch EXCEPT ![a] = s]
  /\ UNCHANGED <<janji, narasi, permintaan, periksa, terkunci, gangguan>>

\* narasi_versi.ai_run_id is UNIQUE.
AdaVersiDari(r) == \E k \in Kasus : \E n \in DOMAIN versi[k] : versi[k][n].run = r

\* What _putuskan makes of the run.
VersiMesin(r) ==
  [ hasil |-> IF run[r] = "LOLOS" THEN "AI_DRAFT" ELSE "NEED_FACT",
    berteks |-> run[r] = "LOLOS", gantikan |-> Terbaru(kasusDari[r]), run |-> r ]

\* Mutant: the case's status is left to the transition check alone.
MenjadiVersi_SegalaStatus(r) ==
  /\ run[r] \in {"LOLOS", "EVIDENCE_GAP"}
  /\ ~AdaVersiDari(r)
  /\ BolehTambah(kasusDari[r], VersiMesin(r))

\* serap_run gets as far as a new version.
MenjadiVersi(r) ==
  /\ run[r] \in {"LOLOS", "EVIDENCE_GAP"}
  /\ ~AdaVersiDari(r)
  /\ status[kasusDari[r]] \in STATUS_KASUS_BOLEH_SERAP
  /\ BolehTambah(kasusDari[r], VersiMesin(r))

\* The run becomes a version.
SerapVersi(r) ==
  /\ MenjadiVersi(r)
  /\ TambahVersi(kasusDari[r], VersiMesin(r))
  /\ serap' = [serap EXCEPT ![r] =
                 IF run[r] = "LOLOS" THEN "VERSI_DIBUAT" ELSE "NEED_FACT"]

\* No version: the run failed, the case moved on (KASUS_BERUBAH), or a model's
\* answer breaks a rule (ATURAN_SND_DILANGGAR, VERSI_DITOLAK, GALAT_SERAP).
SerapManual(r) ==
  /\ ~MenjadiVersi(r) \/ r \in dipanggil
  /\ serap' = [serap EXCEPT ![r] = IF AdaVersiDari(r) THEN "VERSI_DIBUAT" ELSE "MANUAL"]
  /\ UNCHANGED <<status, versi>>

\* The absorbers whose transaction holds the row of request r.
Pemegang(r) == {b \in terkunci : Head(batch[b]) = r}

\* Mutant: the claim does not look at diserap_at again.
Terklaim_Lama(r) == run[r] # "MENUNGGU"

\* The claim's WHERE: the request is still unabsorbed (and its run decided).
Terklaim(r) == serap[r] = "BELUM" /\ run[r] # "MENUNGGU"

\* serap_run on the next id of the batch: FOR UPDATE SKIP LOCKED.
KlaimRun(a) ==
  /\ batch[a] # <<>>
  /\ a \notin terkunci
  /\ Terklaim(Head(batch[a]))
  /\ Pemegang(Head(batch[a])) = {}
  /\ terkunci' = terkunci \cup {a}
  /\ UNCHANGED <<janji, narasi, permintaan, periksa, batch, gangguan>>

\* The transaction ends, the row is free, the round goes on.
Berikut(a) ==
  /\ batch' = [batch EXCEPT ![a] = Tail(@)]
  /\ terkunci' = terkunci \ {a}

\* serap_run without effect: another absorber was faster, or holds the row.
LewatiRun(a) ==
  /\ batch[a] # <<>>
  /\ a \notin terkunci
  /\ ~Terklaim(Head(batch[a])) \/ Pemegang(Head(batch[a])) # {}
  /\ Berikut(a)
  /\ UNCHANGED <<janji, narasi, permintaan, periksa, gangguan>>

\* serap_run with effect, up to its commit.
SerapRun(a) ==
  LET r == Head(batch[a]) IN
  /\ a \in terkunci
  /\ r \notin Rusak
  /\ SerapVersi(r) \/ SerapManual(r)
  /\ Berikut(a)
  /\ UNCHANGED <<janji, event, lihat, kasusDari, periksa, gangguan>>

\* Mutant: the exception ends the round before the next request.
SerapGalat_Berhenti(a) ==
  /\ a \in terkunci
  /\ Head(batch[a]) \in Rusak
  /\ batch' = [batch EXCEPT ![a] = <<>>]
  /\ terkunci' = terkunci \ {a}
  /\ UNCHANGED <<janji, narasi, permintaan, periksa, gangguan>>

\* serap_tertunda: an unexpected exception rolls the transaction back, is
\* logged, and the round goes on with the next request.
SerapGalat(a) ==
  /\ a \in terkunci
  /\ Head(batch[a]) \in Rusak
  /\ Berikut(a)
  /\ UNCHANGED <<janji, narasi, permintaan, periksa, gangguan>>

\* A passing fault hits one transaction in the same way.
SerapTerganggu(a) ==
  /\ batch[a] # <<>>
  /\ gangguan < MaksGangguan
  /\ gangguan' = gangguan + 1
  /\ Berikut(a)
  /\ UNCHANGED <<janji, narasi, permintaan, periksa>>

\* The process dies and is started again: its list of ids and its lock are gone.
PenyerapMati(a) ==
  /\ batch[a] # <<>>
  /\ gangguan < MaksGangguan
  /\ gangguan' = gangguan + 1
  /\ batch' = [batch EXCEPT ![a] = <<>>]
  /\ terkunci' = terkunci \ {a}
  /\ UNCHANGED <<janji, narasi, permintaan, periksa>>

LangkahPenyerap(a) ==
  \/ BacaBatch(a)
  \/ KlaimRun(a)
  \/ LewatiRun(a)
  \/ SerapRun(a)
  \/ SerapGalat(a)
  \/ SerapTerganggu(a)
  \/ PenyerapMati(a)

-------------------------------------------------------------------------------
Next ==
  \/ LangkahOrang /\ UNCHANGED <<janji, permintaan, periksa, batch, terkunci, gangguan>>
  \/ \E o \in Orang :
       \/ \E k \in Kasus : PeriksaDraf(o, k)
       \/ \E r \in Req : AjukanDraf(o, r)
       \/ BatalDraf(o)
  \/ LangkahAi
  \/ \E a \in Penyerap : LangkahPenyerap(a)

Spec == Init /\ [][Next]_vars

\* main polls for ever and the process is restarted when it dies.
Fairness ==
  \A a \in Penyerap :
    WF_vars(BacaBatch(a) \/ KlaimRun(a) \/ LewatiRun(a) \/ SerapRun(a) \/ SerapGalat(a))

FairSpec == Spec /\ Fairness

-------------------------------------------------------------------------------
(* Properties.                                                               *)

\* A request is absorbed once and the mark tells what became of the run: the
\* one version it caused, in the case that asked, or none.
SerapanSejalan ==
  \A r \in Req :
    /\ serap[r] \in {"VERSI_DIBUAT", "NEED_FACT"} <=> AdaVersiDari(r)
    /\ \A k \in Kasus : \A n \in DOMAIN versi[k] : versi[k][n].run = r =>
         /\ k = kasusDari[r]
         /\ serap[r] = (IF versi[k][n].berteks THEN "VERSI_DIBUAT" ELSE "NEED_FACT")
         /\ run[r] = (IF versi[k][n].berteks THEN "LOLOS" ELSE "EVIDENCE_GAP")
         /\ \A m \in DOMAIN versi[k] : versi[k][m].run = r => m = n

\* Requests, runs and cases belong together, from the first check on.
PermintaanSah ==
  /\ \A r \in Req :
       /\ serap[r] = "TIADA" <=> kasusDari[r] = Nihil
       /\ serap[r] = "TIADA" <=> run[r] = "TIADA"
       /\ serap[r] \in HasilSerap => run[r] # "MENUNGGU"
       /\ kasusDari[r] \in Kasus => status[kasusDari[r]] # "TIADA"
  /\ \A o \in Orang : periksa[o] \in Kasus => status[periksa[o]] # "TIADA"

\* SKIP LOCKED: what an absorber holds is still to be absorbed, and nobody else
\* holds it.
KunciSah ==
  /\ \A a \in terkunci : Terklaim(Head(batch[a]))
  /\ \A a, b \in terkunci : Head(batch[a]) = Head(batch[b]) => a = b

\* The inductive invariant behind the safety properties.
IndInv ==
  /\ TypeOK
  /\ BentukVersi
  /\ RantaiLurus
  /\ StatusTerbukti
  /\ MesinTidakMenimpa
  /\ PermintaanSah
  /\ KunciSah
  /\ SerapanSejalan

\* People and machine together keep the promise of NaskahJanji.
NaskahDari(k) ==
  CASE status[k] = "TIADA" -> "TIADA"
    [] status[k] \in STATUS_KASUS_BOLEH_SERAP -> "KOSONG"
    [] status[k] \in {"AI_DRAFT", "TEAM_REVIEW"} -> "DRAF"
    [] status[k] = "TEAM_VERIFIED" -> "SAH"

Disetujui(k) ==
  {event[k][i].versi : i \in {j \in DOMAIN event[k] : event[k][j].jenis = "TEAM_APPROVE"}}

Naskah == INSTANCE NaskahJanji WITH
  naskah <- [k \in Kasus |-> NaskahDari(k)],
  tulisan <- [k \in Kasus |-> Terbaru(k)],
  sah <- [k \in Kasus |-> Disetujui(k)]
NaskahDitepati == Naskah!NaskahSpec

\* A decided run does not lie around: whatever crashes, a broken request ahead
\* of it and a second absorber do, it gets its result, and the case is free for
\* the next request.  (serap_tertunda: one bad request does not stop the others.)
SemuaDiserap == \A r \in Req \ Rusak : Siap(r) ~> serap[r] \in HasilSerap

\* narasi_draf_ai.py, PermintaanBerjalanError: a case has at most one request
\* that is not absorbed.
SatuPermintaanBerjalan ==
  \A q, r \in Req :
    (serap[q] = "BELUM" /\ serap[r] = "BELUM" /\ kasusDari[q] = kasusDari[r]) => q = r
===============================================================================
