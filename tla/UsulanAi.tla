------------------------------ MODULE UsulanAi ------------------------------
(***************************************************************************)
(* AI suggestions (table ai_usulan): a member of the study team asks one   *)
(* function (P01, P04 or P09) about one target, the run register decides   *)
(* the run (JanjiRun, which AiJob implements), the absorber copies the     *)
(* outcome into the suggestion, and people record decisions about it.      *)
(*                                                                         *)
(* Locks as in the code: the checks of a submission are not locked         *)
(* against its insert; the absorber claims a row with FOR UPDATE SKIP      *)
(* LOCKED, a decision waits for the same row lock.                         *)
(***************************************************************************)
EXTENDS JanjiRun, Integers, Sequences, Functions

CONSTANTS
  Orang,          \* members of the study team, one request at a time each
  Penyerap,       \* absorber processes
  Ekstraksi,      \* targets <P01, source>
  Telaah,         \* targets <P04, case> and <P09, case>
  Batas,          \* BATCH_BAWAAN, suggestions per round
  MaksGangguan,   \* bound: crashes, failed transactions, refused decisions
  MaksPutusan,    \* bound: decisions in all
  MaksJam,        \* bound: readings of the clocks of the servers
  Nihil

Target == Ekstraksi \cup Telaah

\* Suggestions are numbered in order of created_at.
ASSUME UsulanAssumption ==
  /\ Req \subseteq Nat
  /\ Batas \in Nat \ {0}
  /\ MaksGangguan \in Nat
  /\ MaksPutusan \in Nat
  /\ MaksJam \in Nat
  /\ Nihil \notin Target \cup Req

VARIABLES
  sasaran,        \* ai_usulan.(fungsi, sasaran_id); Nihil before the row exists
  hasil,          \* ai_usulan.hasil_serap; "BELUM" while diserap_at is null
  putusan,        \* putusan[r]: created_at of its decisions, in order of commit
  periksa,        \* periksa[o]: target a submission has checked, or Nihil
  tinjau,         \* tinjau[o]: [r, akhir] while a decision holds the row, or Nihil
  batch,          \* ids an absorber still has to process
  terkunci,       \* absorbers inside serap_usulan: they hold the next row
  susul,          \* targets with an insert between another's check and insert
  gangguan        \* disturbances spent

janji  == <<run, dipanggil>>
usulan == <<sasaran, hasil, putusan>>
proses == <<batch, terkunci>>
vars   == <<janji, usulan, periksa, tinjau, proses, susul, gangguan>>

HasilSerapUsulan == {"USULAN_DIBUAT", "EVIDENCE_GAP", "MANUAL"}
BisaDiputus      == {"USULAN_DIBUAT", "EVIDENCE_GAP"}

TypeOK ==
  /\ JanjiTypeOK
  /\ sasaran \in [Req -> Target \cup {Nihil}]
  /\ hasil \in [Req -> HasilSerapUsulan \cup {"TIADA", "BELUM"}]
  /\ putusan \in [Req -> Seq(Nat)]
  /\ periksa \in [Orang -> Target \cup {Nihil}]
  /\ tinjau \in [Orang -> [r : Req, akhir : Nat] \cup {Nihil}]
  /\ batch \in [Penyerap -> Seq(Req)]
  /\ terkunci \in SUBSET {a \in Penyerap : batch[a] # <<>>}
  /\ susul \in SUBSET Target
  /\ gangguan \in 0..MaksGangguan

Init ==
  /\ JanjiInit
  /\ sasaran = [r \in Req |-> Nihil]
  /\ hasil = [r \in Req |-> "TIADA"]
  /\ putusan = [r \in Req |-> <<>>]
  /\ periksa = [o \in Orang |-> Nihil]
  /\ tinjau = [o \in Orang |-> Nihil]
  /\ batch = [a \in Penyerap |-> <<>>]
  /\ terkunci = {}
  /\ susul = {}
  /\ gangguan = 0

-------------------------------------------------------------------------------
(* Asking.                                                                   *)

Bebas(o) == periksa[o] = Nihil /\ tinjau[o] = Nihil

\* Mutant: a suggestion whose run is decided no longer counts as open.
Berjalan_Final(t) == \E r \in Req : sasaran[r] = t /\ hasil[r] = "BELUM" /\ run[r] = "MENUNGGU"

\* ajukan: an unabsorbed suggestion of the same function and target exists.
Berjalan(t) == \E r \in Req : sasaran[r] = t /\ hasil[r] = "BELUM"

\* SqlAiUsulanService.ajukan, the reads: nothing is locked.
PeriksaAjuan(o, t) ==
  /\ Bebas(o)
  /\ ~Berjalan(t)
  /\ periksa' = [periksa EXCEPT ![o] = t]
  /\ UNCHANGED <<janji, usulan, tinjau, proses, susul, gangguan>>

\* The routes (for a case: a critique or a question for evidence).  What they
\* ask first (the switch, the AI permission of the sources, the version on the
\* screen still the latest) is decided by other tables, and a refusal leaves no
\* trace: such a request is one never made.
AjukanEkstraksi(o, t) == t \in Ekstraksi /\ PeriksaAjuan(o, t)
AjukanTelaah(o, t) == t \in Telaah /\ PeriksaAjuan(o, t)

\* ajukan, the writes: run, job and suggestion in one transaction; r is the
\* next row.
Ajukan(o, r) ==
  LET t == periksa[o] IN
  /\ t # Nihil
  /\ \A q \in Req : q < r => run[q] # "TIADA"
  /\ Buka(r) \/ \E v \in VonisGerbang : TolakDiGerbang(r, v)
  /\ sasaran' = [sasaran EXCEPT ![r] = t]
  /\ hasil' = [hasil EXCEPT ![r] = "BELUM"]
  /\ periksa' = [periksa EXCEPT ![o] = Nihil]
  /\ susul' = IF \E p \in Orang \ {o} : periksa[p] = t THEN susul \cup {t} ELSE susul
  /\ UNCHANGED <<putusan, tinjau, proses, gangguan>>

\* fungsi_belum_aktif, or the transaction is lost: nothing is written.
BatalAjukan(o) ==
  /\ periksa[o] # Nihil
  /\ periksa' = [periksa EXCEPT ![o] = Nihil]
  /\ UNCHANGED <<janji, usulan, tinjau, proses, susul, gangguan>>

\* The AI pipeline decides runs in its own time (AiJob implements JanjiRun).
LangkahAi ==
  /\ \E r \in Req : Panggil(r) \/ \E v \in Vonis : Putus(r, v)
  /\ UNCHANGED <<usulan, periksa, tinjau, proses, susul, gangguan>>

-------------------------------------------------------------------------------
(* The absorber.                                                             *)

Siap(r) == hasil[r] = "BELUM" /\ run[r] # "MENUNGGU"

\* The oldest suggestions with a decided run, as many as fit.
Tertua(s) ==
  LET dipilih == {s[i] : i \in DOMAIN s} IN
  /\ \A i, j \in DOMAIN s : i < j => s[i] < s[j]
  /\ \A r \in Req : Siap(r) /\ r \notin dipilih =>
       Len(s) = Batas /\ \A q \in dipilih : q < r

\* serap_usulan_tertunda, first transaction: read the ids of one round.
BacaBatch(a) ==
  /\ batch[a] = <<>>
  /\ \E n \in 1..Batas : \E s \in [1..n -> {r \in Req : Siap(r)}] :
       Tertua(s) /\ batch' = [batch EXCEPT ![a] = s]
  /\ UNCHANGED <<janji, usulan, periksa, tinjau, terkunci, susul, gangguan>>

\* Who holds the lock of row r: absorbers and reviewers.
Pemegang(r) ==
  {a \in terkunci : Head(batch[a]) = r} \cup
  {o \in Orang : tinjau[o] # Nihil /\ tinjau[o].r = r}

\* Mutant: the claim does not look at diserap_at again.
Terklaim_Lama(r) == run[r] # "MENUNGGU"

\* Mutant: only runs with an answer count as decided.
Terklaim_Jawaban(r) == hasil[r] = "BELUM" /\ run[r] \in VonisJawaban

\* The claim's WHERE, and the run is decided.
Terklaim(r) == hasil[r] = "BELUM" /\ run[r] # "MENUNGGU"

\* serap_usulan takes the row ...
KlaimUsulan(a) ==
  /\ batch[a] # <<>>
  /\ a \notin terkunci
  /\ Terklaim(Head(batch[a]))
  /\ Pemegang(Head(batch[a])) = {}
  /\ terkunci' = terkunci \cup {a}
  /\ UNCHANGED <<janji, usulan, periksa, tinjau, batch, susul, gangguan>>

Berikut(a) ==
  /\ batch' = [batch EXCEPT ![a] = Tail(@)]
  /\ terkunci' = terkunci \ {a}

\* ... or skips it: absorbed by another, or locked.
LewatiUsulan(a) ==
  /\ batch[a] # <<>>
  /\ a \notin terkunci
  /\ ~Terklaim(Head(batch[a])) \/ Pemegang(Head(batch[a])) # {}
  /\ Berikut(a)
  /\ UNCHANGED <<janji, usulan, periksa, tinjau, susul, gangguan>>

\* _terapkan: what a decided run makes of its suggestion.  An answer without a
\* usable isi, one that breaks a rule of its function (ATURAN_ISI), and a mapping
\* that raises (GALAT_SERAP) end MANUAL.
HasilDari(v) ==
  CASE v = "LOLOS"        -> {"USULAN_DIBUAT", "MANUAL"}
    [] v = "EVIDENCE_GAP" -> {"EVIDENCE_GAP", "MANUAL"}
    [] OTHER              -> {"MANUAL"}

\* serap_usulan with effect, up to its commit.
SerapUsulan(a) ==
  LET r == Head(batch[a]) IN
  /\ a \in terkunci
  /\ \E h \in HasilDari(run[r]) : hasil' = [hasil EXCEPT ![r] = h]
  /\ Berikut(a)
  /\ UNCHANGED <<janji, sasaran, putusan, periksa, tinjau, susul, gangguan>>

\* A transaction of the round fails: rolled back, logged, the round goes on.
SerapTerganggu(a) ==
  /\ batch[a] # <<>>
  /\ gangguan < MaksGangguan
  /\ gangguan' = gangguan + 1
  /\ Berikut(a)
  /\ UNCHANGED <<janji, usulan, periksa, tinjau, susul>>

\* The process dies and is started again: its list of ids and its lock are gone.
PenyerapMati(a) ==
  /\ batch[a] # <<>>
  /\ gangguan < MaksGangguan
  /\ gangguan' = gangguan + 1
  /\ batch' = [batch EXCEPT ![a] = <<>>]
  /\ terkunci' = terkunci \ {a}
  /\ UNCHANGED <<janji, usulan, periksa, tinjau, susul>>

-------------------------------------------------------------------------------
(* Decisions.                                                                *)

Maksimum(s) == IF s = <<>> THEN 0 ELSE CHOOSE n \in {s[i] : i \in DOMAIN s} :
                                         \A i \in DOMAIN s : s[i] <= n

BelumCukup == SumFunction([r \in Req |-> Len(putusan[r])]) < MaksPutusan

\* Mutant: the row is read without the lock.
KunciPutusan_Bebas(o, r) ==
  /\ Bebas(o)
  /\ sasaran[r] # Nihil
  /\ BelumCukup
  /\ IF hasil[r] \in BisaDiputus THEN UNCHANGED gangguan
     ELSE gangguan < MaksGangguan /\ gangguan' = gangguan + 1
  /\ tinjau' = [tinjau EXCEPT ![o] = [r |-> r, akhir |-> Maksimum(putusan[r])]]
  /\ UNCHANGED <<janji, usulan, periksa, proses, susul>>

\* putuskan takes the row FOR UPDATE, waiting for whoever holds it, and reads
\* the latest decision.
KunciPutusan(o, r) ==
  /\ Bebas(o)
  /\ sasaran[r] # Nihil
  /\ Pemegang(r) = {}
  /\ BelumCukup
  /\ IF hasil[r] \in BisaDiputus THEN UNCHANGED gangguan
     ELSE gangguan < MaksGangguan /\ gangguan' = gangguan + 1
  /\ tinjau' = [tinjau EXCEPT ![o] = [r |-> r, akhir |-> Maksimum(putusan[r])]]
  /\ UNCHANGED <<janji, usulan, periksa, proses, susul>>

\* created_at is forced above the latest one.
Waktu(akhir, jam) == IF jam <= akhir THEN akhir + 1 ELSE jam

\* putuskan inserts the decision and commits; the clock may stand or go back.
Putuskan(o) ==
  LET r == tinjau[o].r IN
  /\ tinjau[o] # Nihil
  /\ hasil[r] \in BisaDiputus
  /\ \E jam \in 1..MaksJam :
       putusan' = [putusan EXCEPT ![r] = Append(@, Waktu(tinjau[o].akhir, jam))]
  /\ tinjau' = [tinjau EXCEPT ![o] = Nihil]
  /\ UNCHANGED <<janji, sasaran, hasil, periksa, proses, susul, gangguan>>

\* usulan_belum_bisa_diputus, or the transaction is lost: the lock is released.
BatalPutusan(o) ==
  /\ tinjau[o] # Nihil
  /\ tinjau' = [tinjau EXCEPT ![o] = Nihil]
  /\ UNCHANGED <<janji, usulan, periksa, proses, susul, gangguan>>

-------------------------------------------------------------------------------
LangkahOrang(o) ==
  \/ \E t \in Target : AjukanEkstraksi(o, t)
  \/ \E t \in Target : AjukanTelaah(o, t)
  \/ \E r \in Req : Ajukan(o, r)
  \/ BatalAjukan(o)
  \/ \E r \in Req : KunciPutusan(o, r)
  \/ Putuskan(o)
  \/ BatalPutusan(o)

LangkahPenyerap(a) ==
  \/ BacaBatch(a)
  \/ KlaimUsulan(a)
  \/ LewatiUsulan(a)
  \/ SerapUsulan(a)
  \/ SerapTerganggu(a)
  \/ PenyerapMati(a)

Next ==
  \/ \E o \in Orang : LangkahOrang(o)
  \/ LangkahAi
  \/ \E a \in Penyerap : LangkahPenyerap(a)

Spec == Init /\ [][Next]_vars

\* main polls for ever and is restarted when it dies; a request ends.
Fairness ==
  /\ \A a \in Penyerap :
       WF_vars(BacaBatch(a) \/ KlaimUsulan(a) \/ LewatiUsulan(a) \/ SerapUsulan(a))
  /\ \A o \in Orang : WF_vars(Putuskan(o) \/ BatalPutusan(o))

FairSpec == Spec /\ Fairness

-------------------------------------------------------------------------------
(* Properties.                                                               *)

\* ai_usulan_sql.py, putuskan and _putusan_terakhir: whatever the clocks say and
\* however many reviewers decide at once, the decision shown as the latest (the
\* greatest created_at) is the one committed last, and no other has its time.
PutusanTerakhirBenar ==
  \A r \in Req : LET n == Len(putusan[r]) IN
    \A i \in 1..(n - 1) : putusan[r][i] < putusan[r][n]

\* A suggestion people may have decided about never changes under their
\* decisions: it is absorbed once, with one outcome, whatever batches two
\* absorbers still hold.
UsulanTetap ==
  [][ \A r \in Req : hasil[r] \in HasilSerapUsulan => hasil'[r] = hasil[r] ]_vars

\* usulan_berjalan: one open suggestion per function and target, unless a second
\* request was past its check when the first was inserted (the check is not
\* locked, and no unique index stands behind it).
SatuUsulanBerjalan ==
  \A q, r \in Req :
    ( /\ hasil[q] = "BELUM" /\ hasil[r] = "BELUM"
      /\ sasaran[q] = sasaran[r] /\ sasaran[q] \notin susul ) => q = r

\* Every decided run reaches its suggestion, and the target is free for the
\* next request, in spite of crashes, lost transactions and rows that a
\* reviewer holds when the absorber comes by.
UsulanDiserap == \A r \in Req : Siap(r) ~> hasil[r] \in HasilSerapUsulan
-------------------------------------------------------------------------------
(* The inductive invariant (proved in UsulanAiProofs).                       *)

\* Run, suggestion and target come into being together.
BarisBersama ==
  \A r \in Req : (hasil[r] = "TIADA" <=> run[r] = "TIADA") /\ (sasaran[r] = Nihil <=> run[r] = "TIADA")

\* A row is held once, by an absorber that may still absorb it or by a person
\* who knows the latest decision about it.
KunciSah ==
  /\ \A a \in terkunci : Terklaim(Head(batch[a]))
  /\ \A a, b \in terkunci : Head(batch[a]) = Head(batch[b]) => a = b
  /\ \A a \in terkunci, o \in Orang : tinjau[o] # Nihil => tinjau[o].r # Head(batch[a])
  /\ \A o, p \in Orang : tinjau[o] # Nihil /\ tinjau[p] # Nihil /\ tinjau[o].r = tinjau[p].r => o = p
  /\ \A o \in Orang : tinjau[o] # Nihil =>
       \A i \in 1..Len(putusan[tinjau[o].r]) : putusan[tinjau[o].r][i] <= tinjau[o].akhir

\* What a submission found, that nothing is open for its target, is still so,
\* unless the target is one of susul.
AjuanBerlaku == \A o \in Orang : periksa[o] # Nihil /\ periksa[o] \notin susul => ~Berjalan(periksa[o])

\* What a suggestion says is what its run was judged to be, and decisions are
\* about suggestions that hold an answer.
PutusanBerdasar ==
  \A r \in Req :
    /\ hasil[r] = "USULAN_DIBUAT" => run[r] = "LOLOS"
    /\ hasil[r] = "EVIDENCE_GAP" => run[r] = "EVIDENCE_GAP"
    /\ putusan[r] # <<>> => hasil[r] \in BisaDiputus

IndInv ==
  /\ TypeOK /\ BarisBersama /\ KunciSah /\ AjuanBerlaku
  /\ PutusanTerakhirBenar /\ SatuUsulanBerjalan /\ PutusanBerdasar
===============================================================================
