----------------------------- MODULE Idempotensi -----------------------------
(***************************************************************************)
(* Idempotency-Key handling of the writing routes: run_idempotent over     *)
(* SqlIdempotencyStore.  A request is one transaction (READ COMMITTED):    *)
(* look for a stored answer, reserve the key by inserting its row, do the  *)
(* operation, store the answer in the row, commit.  An INSERT of a key     *)
(* that an open transaction has inserted waits for that transaction to     *)
(* end.  Requests are retries of each other when they carry the same key.  *)
(*                                                                         *)
(* The operation is abstract here: what it wrote is `efek`.  A row that    *)
(* only its own transaction sees is `pemegang`.                            *)
(***************************************************************************)
EXTENDS Naturals, FiniteSets

CONSTANTS
  Kunci,          \* effective keys, "{method}:{path}:{key}"
  Permintaan,     \* requests
  Nihil           \* none

ASSUME IdempotensiAssumption ==
  /\ Nihil \notin Permintaan
  /\ Nihil \notin Kunci
  /\ Permintaan \cap {"TIADA", "KONFLIK", "GALAT"} = {}

VARIABLES
  tahap,          \* how far a request is
  kunci,          \* the key it carries
  pemegang,       \* pemegang[k]: open transaction that inserted row k
  baris,          \* committed row k: "TIADA", "DICADANGKAN" or "SELESAI" (completed)
  respons,        \* stored response of row k: the request that produced it
  kedaluwarsa,    \* rows past expires_at
  efek,           \* requests whose operation is committed
  balasan         \* what the client received: 409, a failure, or a response

vars == <<tahap, kunci, pemegang, baris, respons, kedaluwarsa, efek, balasan>>

Tahap == {"baru", "periksa", "cadang", "aksi", "selesai"}
Gagal == {"TIADA", "KONFLIK", "GALAT"}    \* no answer, ConflictError, other error

TypeOK ==
  /\ tahap \in [Permintaan -> Tahap]
  /\ kunci \in [Permintaan -> Kunci \cup {Nihil}]
  /\ pemegang \in [Kunci -> Permintaan \cup {Nihil}]
  /\ baris \in [Kunci -> {"TIADA", "DICADANGKAN", "SELESAI"}]
  /\ respons \in [Kunci -> Permintaan \cup {Nihil}]
  /\ kedaluwarsa \in SUBSET Kunci
  /\ efek \in SUBSET Permintaan
  /\ balasan \in [Permintaan -> Gagal \cup Permintaan]

Init ==
  /\ tahap = [r \in Permintaan |-> "baru"]
  /\ kunci = [r \in Permintaan |-> Nihil]
  /\ pemegang = [k \in Kunci |-> Nihil]
  /\ baris = [k \in Kunci |-> "TIADA"]
  /\ respons = [k \in Kunci |-> Nihil]
  /\ kedaluwarsa = {}
  /\ efek = {}
  /\ balasan = [r \in Permintaan |-> "TIADA"]

tabel == <<pemegang, baris, respons, kedaluwarsa, efek>>

-------------------------------------------------------------------------------
\* A client sends a request, the first or a repetition.
Kirim(r, k) ==
  /\ tahap[r] = "baru"
  /\ tahap' = [tahap EXCEPT ![r] = "periksa"]
  /\ kunci' = [kunci EXCEPT ![r] = k]
  /\ UNCHANGED <<tabel, balasan>>

\* The request ends with answer b, or the answer is lost.
Selesai(r, b) ==
  /\ tahap' = [tahap EXCEPT ![r] = "selesai"]
  /\ balasan' = [balasan EXCEPT ![r] = b] \/ balasan' = balasan
  /\ UNCHANGED kunci

\* get: a completed row that has not expired.
Tersimpan(k) == baris[k] = "SELESAI" /\ k \notin kedaluwarsa

\* cached() finds the stored answer.
Putar(r) ==
  /\ tahap[r] = "periksa"
  /\ Tersimpan(kunci[r])
  /\ Selesai(r, respons[kunci[r]])
  /\ UNCHANGED tabel

\* cached() finds none.
Lanjut(r) ==
  /\ tahap[r] = "periksa"
  /\ ~Tersimpan(kunci[r])
  /\ tahap' = [tahap EXCEPT ![r] = "cadang"]
  /\ UNCHANGED <<tabel, kunci, balasan>>

\* Mutant: an existing row that is not completed, or expired, is taken over
\* without waiting for its transaction.
Cadangkan_Rebut(r) ==
  /\ tahap[r] = "cadang"
  /\ ~Tersimpan(kunci[r])
  /\ pemegang' = [pemegang EXCEPT ![kunci[r]] = r]
  /\ tahap' = [tahap EXCEPT ![r] = "aksi"]
  /\ UNCHANGED <<baris, respons, kedaluwarsa, efek, kunci, balasan>>

\* reserve: INSERT .. ON CONFLICT DO NOTHING inserts; no open transaction holds
\* the key (else it would still wait).
Cadangkan(r) ==
  /\ tahap[r] = "cadang"
  /\ pemegang[kunci[r]] = Nihil
  /\ baris[kunci[r]] = "TIADA"
  /\ pemegang' = [pemegang EXCEPT ![kunci[r]] = r]
  /\ tahap' = [tahap EXCEPT ![r] = "aksi"]
  /\ UNCHANGED <<baris, respons, kedaluwarsa, efek, kunci, balasan>>

\* reserve: the row exists, expired or not: ConflictError.
Tolak(r) ==
  /\ tahap[r] = "cadang"
  /\ pemegang[kunci[r]] = Nihil
  /\ baris[kunci[r]] # "TIADA"
  /\ Selesai(r, "KONFLIK")
  /\ UNCHANGED tabel

\* Mutant: the response is stored in a transaction before the operation's.
Komit_SimpanDulu(r) ==
  /\ tahap[r] = "aksi"
  /\ pemegang' = [pemegang EXCEPT ![kunci[r]] = Nihil]
  /\ baris' = [baris EXCEPT ![kunci[r]] = "SELESAI"]
  /\ respons' = [respons EXCEPT ![kunci[r]] = r]
  /\ efek' = efek \cup {r} \/ efek' = efek
  /\ Selesai(r, r)
  /\ UNCHANGED kedaluwarsa

\* The operation succeeds, save() completes the row, the transaction commits.
Komit(r) ==
  /\ tahap[r] = "aksi"
  /\ pemegang' = [pemegang EXCEPT ![kunci[r]] = Nihil]
  /\ baris' = [baris EXCEPT ![kunci[r]] = "SELESAI"]
  /\ respons' = [respons EXCEPT ![kunci[r]] = r]
  /\ efek' = efek \cup {r}
  /\ Selesai(r, r)
  /\ UNCHANGED kedaluwarsa

\* Mutant: the transaction of a failed request is left open.
Batal_TetapTerbuka(r) ==
  /\ tahap[r] = "aksi"
  /\ Selesai(r, "GALAT")
  /\ UNCHANGED <<pemegang, baris, respons, kedaluwarsa, efek>>

\* The operation raises (release() deletes the row), the commit fails or the
\* process dies: everything the transaction did is undone.
Batal(r) ==
  /\ tahap[r] = "aksi"
  /\ pemegang' = [pemegang EXCEPT ![kunci[r]] = Nihil]
  /\ Selesai(r, "GALAT")
  /\ UNCHANGED <<baris, respons, kedaluwarsa, efek>>

\* DB_IDEMPOTENCY_TTL_SECONDS pass.
Kedaluwarsa(k) ==
  /\ baris[k] # "TIADA"
  /\ kedaluwarsa' = kedaluwarsa \cup {k}
  /\ UNCHANGED <<tahap, kunci, pemegang, baris, respons, efek, balasan>>

\* The scheduled job outside this code base that deletes expired rows.
Bersihkan(k) ==
  /\ k \in kedaluwarsa
  /\ baris' = [baris EXCEPT ![k] = "TIADA"]
  /\ respons' = [respons EXCEPT ![k] = Nihil]
  /\ kedaluwarsa' = kedaluwarsa \ {k}
  /\ UNCHANGED <<tahap, kunci, pemegang, efek, balasan>>

LangkahPermintaan(r) ==
  \/ Putar(r)
  \/ Lanjut(r)
  \/ Cadangkan(r)
  \/ Tolak(r)
  \/ Komit(r)
  \/ Batal(r)

Next ==
  \/ \E r \in Permintaan : LangkahPermintaan(r) \/ \E k \in Kunci : Kirim(r, k)
  \/ \E k \in Kunci : Kedaluwarsa(k) \/ Bersihkan(k)

Spec == Init /\ [][Next]_vars

\* A request in progress goes on: the server runs its thread, PostgreSQL wakes
\* those who wait for a row.
Fairness == \A r \in Permintaan : WF_vars(LangkahPermintaan(r))

FairSpec == Spec /\ Fairness

-------------------------------------------------------------------------------
(* Properties.                                                               *)

\* The row is the memory of the operation: it stores only the response of an
\* operation that took effect under its key, never that of a failed one, and no
\* reservation outlives its transaction (run_idempotent: a failed action
\* releases the key).
BarisSejalan ==
  \A k \in Kunci :
    /\ baris[k] = "SELESAI" => respons[k] \in efek /\ kunci[respons[k]] = k
    /\ baris[k] # "SELESAI" => respons[k] = Nihil
    /\ baris[k] # "DICADANGKAN"

\* Whoever is told of success is told of an operation that took effect, under
\* his key; an operation in progress is the only one of its key.
JawabanSejati ==
  \A r \in Permintaan :
    /\ balasan[r] \notin Gagal => balasan[r] \in efek /\ kunci[balasan[r]] = kunci[r]
    /\ tahap[r] = "aksi" => pemegang[kunci[r]] = r /\ baris[kunci[r]] = "TIADA"

\* A request carries a key, is answered at its end, and only then has effect.
UrutanSah ==
  /\ \A r \in Permintaan : tahap[r] # "baru" => kunci[r] \in Kunci
  /\ \A r \in Permintaan : tahap[r] # "selesai" => balasan[r] = "TIADA"
  /\ \A r \in efek : tahap[r] = "selesai"

\* Who holds a key is between its reservation and its commit.
PemegangSah ==
  \A k \in Kunci : pemegang[k] # Nihil =>
    tahap[pemegang[k]] = "aksi" /\ kunci[pemegang[k]] = k

\* The inductive invariant behind them.
IndInv ==
  /\ TypeOK
  /\ BarisSejalan
  /\ JawabanSejati
  /\ UrutanSah
  /\ PemegangSah

\* Idempotency-Keys keep the promise of SekaliSaja.
Sekali == INSTANCE SekaliSaja WITH
  kejadian <- respons,
  jawaban <- [r \in Permintaan |-> IF balasan[r] \in Gagal THEN Nihil ELSE balasan[r]]
SekaliDitepati == Sekali!SekaliSpec

\* Nobody waits for ever for a key: whatever becomes of the request that holds
\* it, every request comes to an end.
SemuaBerakhir == \A r \in Permintaan : tahap[r] = "periksa" ~> tahap[r] = "selesai"
===============================================================================
