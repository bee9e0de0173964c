# TLA+ models of anjab-abk-backend

This directory holds TLA+ specifications of the backend, the TLC configurations that check
them on small instances, and TLAPS proofs about them. The service is a FastAPI application
over PostgreSQL (SQLAlchemy; one session and one transaction per request at READ COMMITTED,
`db.session_scope`, `autoflush=False`), with background processes beside it: the AI worker
(`ai/worker.py`) and the absorbers (`narasi/penyerap.py`, `ai/penyerap_usulan.py`).
Definitions carry the code's own (Indonesian) names. Paths below are relative to
`src/src/anjab_abk_backend/`.

Contents: 1 inventory, 2 modules and plan, 3 the modules one by one with their runs, 4 what
is proved, 5 what is only checked, 6 what is not modelled.

## 1. Inventory

| Component | State it keeps | Operations | Interaction | What is hard |
|---|---|---|---|---|
| AI job pipeline: `ai/gateway.py`, `ai/worker.py`, `services/async_job_sql.py`, `services/ai_run_sql.py`, `services/ai_saklar_sql.py` | tables `async_job`, `ai_run`, `ai_saklar_event`; local variables of each worker | submit, claim, prepare the client, call, judge, retry, close; recover stale jobs; switch on/off | gateway writes run + job; workers poll; absorbers read closed runs | several workers, crashes, a model call outside every transaction, unlocked reads before writes, a switch and a provider that change meanwhile |
| Settings of the provider: `services/ai_penyedia_sql.py`, `ai/penyedia.py`, `ai/kredensial.py`, `ai/klien.py`, `ai/langganan_cli.py` | one row with a ledger; a master key in the environment | set mode, model, key; build a client; call | read by gateway and worker | an order of changes and calls nobody tests; a key under another master key |
| Sources, redaction, output checks: `narasi/services/sumber_sql.py`, `ai/redaksi.py`, `ai/guardrail.py`, `ai/keluaran.py`, `ai/fungsi_*.py` | source texts with hash and permission | register, replace, dry run; gate; check an answer | from the source to what a reviewer reads | names registered after a text was redacted, quotations the model made up |
| Narrative cases: `narasi/services/*`, `api/v1/narasi_*.py` | `narasi_kasus`, `narasi_versi` (append-only), `narasi_event`, `narasi_ai_permintaan` | create, revise, team stage events, request an AI draft | each writer locks the case row; versions are optimistic (`supersedes_id`) | stale revisions, duplicate pending requests |
| Narrative absorber: `narasi/penyerap.py` | `narasi_ai_permintaan.diserap_at/hasil_serap` | absorb one closed run into a version, or mark it for manual work | reads `ai_run`, writes versions through the narrative service | SKIP LOCKED between absorbers, case moved on while the model was thinking, crash between run and absorption |
| AI suggestions: `services/ai_usulan_sql.py`, `ai/penyerap_usulan.py`, `api/v1/ai_usulan.py` | `ai_usulan`, `ai_usulan_putusan` | submit, absorb, decide (adopt / reject / needs source) | as above, for P01, P04, P09 | check-then-insert uniqueness, decision racing absorption, clocks |
| Idempotency: `services/idempotency_sql.py`, `api/concurrency.py` | `idempotency_keys` | reserve, run the handler, store the response, replay, conflict | wraps most POST handlers, in their transaction | duplicate and concurrent retries, rollback, expiry |
| Task inventory: `taskinv/` | `ti_sesi`, `ti_responden`, selections, proposals, details | session state machine DRAFT..ANALYZED, drafts and submissions, unanimous tasks | respondents and administrators write the same session | state checks without locks, thaw and freeze again |
| Catalogue of the task inventory: `taskinv/services/{tugas_pokok,detil_tugas,uraian_tugas}_sql.py`, `catalog*.py` | three levels with links to jobs, no foreign keys | create, PATCH, delete, purge, reseed, read as a tree | sessions and OPM copy from it | a parent that goes under its children |
| OPM: `opm/` | `opm_sesi` with a copy of tasks, `opm_responden`, answers, register of exceptions | create from a frozen task inventory session, open, register, draft, submit, close, analyse | the source may be thawed or deleted | snapshot against a moving source, a late draft |
| WCP, DCS: `wcp/`, `dcs/`, `instrumen_guard.py` | instrument, items, respondents, answers | open, close, reset, edit items, answer, submit, results, K-Index | DCS results read those of WCP | the count of the guard and the edit are apart |
| TS: `ts/` | daily logs, assignments | write the log of a day, change it; assign singly and in bulk | | one log per person and day; minutes under partial updates |
| Redesign confirmations and problems: `redesain/services/konfirmasi_sql.py`, `masalah_sql.py` | `redesain_konfirmasi` (versions), `redesain_masalah` | draft, change, lock the story, show the hypothesis, send, correct, paper form, raise a problem | sending freezes and escalates the problem | nothing is locked: every check is against an unlocked read |
| Registers of the redesign study: rest of `redesain/` | themes, processes, steps, corrections, evidence, alternatives, assessments, sessions, coverage, codes of persons, method versions, history | create, PATCH, decide; every write with a history row | the assessment counts the confirmations of a problem | partial updates that check or compute from a stale row |
| Master data and participants: `core/`, `anjab/`, `services/authentik_provisioner.py` | schools, levels, subjects, jobs, participants, panels; accounts at the identity provider | CRUD; account first, row second | referred to everywhere, by foreign key only from the redesign study | lost updates, half-done creations |
| Reading: `etag.py`, `services/domain*.py` | what clients hold | lists, searches by domain, single rows with tags, If-Match | | two statements per page, three-valued logic, stale tags |
| Start, seed, dump, restore: `initdb.py`, `seed_db.py`, `*/seed.py`, `services/backup.py` | the whole database, `alembic_version` | upgrade, seed at every boot; dump; restore | before and under everything else | starting again on edited data, a dump of another release |
| Results of the task inventory, exports, middleware, wiring, authorisation, migrations, `evals/`, `scripts/` | none of their own, or run once | | | |

For each component, what makes it correct:

* **AI job pipeline.** A run and its job tell one story; no job has two workers; a
  submission never costs more model calls than configured; input is kept exactly as long
  as it may be needed; a switched-off service lets nothing through; every submission is
  eventually decided. The settings are those of the ledger, and no call is made with others.
* **Sources to suggestions.** Nothing private goes out; nothing a source does not say
  becomes a fact, a citation or a draft.
* **Narrative cases, absorbers, suggestions.** The version chain is linear and append-only;
  a machine never overwrites human work done meanwhile; each request is absorbed exactly
  once, and eventually; the latest decision is the one that is read.
* **Idempotency.** A key's handler takes effect at most once; a replay returns the first
  response; a rolled-back attempt leaves the key free.
* **Task inventory, OPM, WCP, DCS, TS.** Sessions only move along their machine; a
  submitted answer is not changed afterwards; results rest on submitted, complete answers to
  one and the same set of questions, of different people.
* **Redesign confirmations.** Nobody assesses before he has locked his story and seen the
  hypothesis; what was sent stands; of each person and problem exactly one version counts;
  a problem's initial status is frozen by the first confirmation sent about it.
* **Registers.** Rules about several columns hold through any PATCHes of some; histories
  join up with the rows; references agree when they are written.
* **Platform.** A page and its total speak of the same rows; a write that passed If-Match
  replaces what the client saw; a start keeps what people made of the data; nobody is served
  unawares on a schema that is not the code's.

## 2. Modules and plan

| Module | Models | Implements / composed with | Theorems |
|---|---|---|---|
| `JanjiRun` | abstract: a run gets one verdict, about an answer really asked for | | |
| `AiJob` | AI job pipeline | implements `JanjiRun` | `AiJobProofs` |
| `NaskahJanji` | abstract: a case's text, who may write and approve it | | |
| `Narasi` | narrative cases, people's half | | |
| `NarasiAi` | draft requests and absorbers | extends `Narasi`; its AI pipeline is `JanjiRun` itself; implements `NaskahJanji` | `NarasiAiProofs` |
| `UsulanAi` | AI suggestions and their absorbers | over `JanjiRun` | `UsulanAiProofs` |
| `SekaliSaja` | abstract: one occurrence per remembered key | | |
| `Idempotensi` | idempotency keys | implements `SekaliSaja` | `IdempotensiProofs` |
| `KajianBertahap` | abstract: a staged study | | |
| `TaskinvSesi` | task inventory sessions, one request at a time | implements `KajianBertahap` | `TaskinvSesiProofs` |
| `SumberTugas` | abstract: what OPM sees of a task inventory session | | |
| `KuesionerSekali` | abstract: a questionnaire each person submits once | | |
| `OpmSesi` | OPM sessions and results | composed with `SumberTugas`; implements `KuesionerSekali` | `OpmSesiProofs` |
| `Instrumen`, `Psikososial` | an instrument of the WCP and DCS kind; the two side by side with their results | two instances of `Instrumen`, each implements `KuesionerSekali` | |
| `Konfirmasi` | redesign confirmations and the register of problems | | `KonfirmasiProofs` |
| `Permintaan` | a request against the database: read, plan, commit or fail | extended by all below | |
| `Redesain`, `Induk`, `Katalog` | the registers of the redesign study, master data, the catalogue | `Katalog` extends `Induk` | |
| `Sitasi`, `Setelan` | sources to suggestions; the settings of the provider | | |
| `Pencarian`, `Bacaan` | pages, domains and tags; the registers that are read | | |
| `Pemeliharaan` | start, seed, dump, restore | extends `Redesain` and `Katalog` | |
| `BasisData` | all of the last eight in one table space | | `BasisDataProofs` |

Next, in this order:

1. `Instrumen`, then `Psikososial`: `BankSeragam`, whose strengthening says, for every open
   plan outside `tumpang`, that what it read is still so; `HasilUtuh` rests on it.
2. `TaskinvSesi` with its handlers split into reads and writes, for the saves of selections
   and the changes of stage that overlap.
3. The results of the task inventory, once details and weights are in the model.

No module that proofs reach, or are planned for, uses RECURSIVE operators.

## 3. The modules

In all of them an action is a group of statements whose effects become visible together.
PostgreSQL's READ COMMITTED gives each statement the latest committed rows and locks only
what is written or selected FOR UPDATE; a handler that reads, decides and writes without
such a lock is therefore two actions, and one that takes the lock first is one. A rollback
leaves the tables as they were and is modelled wherever the program goes on after it.

Where two requests of one object overlap with no lock and no constraint between them, the
code's rules do break: both find no draft, both insert. The modules from 3.7 on record in
`tumpang` the objects that a request wrote although a row it had read had changed, and state
most properties of the others, so that a property says exactly how far the code keeps it.
Their runs check the states after such a write but do not explore further (`Ringkas`,
`TanpaTumpang`): nothing is claimed of those objects there.

### 3.1 `AiJob`: the AI job pipeline

| State | Code |
|---|---|
| `job`, `percobaan`, `antre`, `basi` | `async_job.status`, `.percobaan`, order of `created_at`, RUNNING rows whose `updated_at` is past twice `AI_TIMEOUT` |
| `run`, `masukan`, `penyediaRun` | `ai_run.status_qa`, `.masukan` not null, `.penyedia` |
| `saklar`, `penyedia` | last `ai_saklar_event`; `ai_penyedia_pengaturan.mode` |
| `minta` | what `AiGateway.ajukan` has read before it inserts |
| `pc`, `pegang`, `upaya`, `klien`, `hasil`, `lihat` | the local variables of `jalankan_satu` in each worker |
| `panggilan`, `hidupSejakJawab` | history: calls made; whether the switch was on since the answer |

`PeriksaPengajuan`/`Ajukan` are the gateway; `Mulai`, `PulihkanJobBasi`, `PemulihanGagal`
the start of `main`; `PeriksaSaklar`, `Klaim`, `KlaimTanpaFungsi`, `TanpaJob` stage 1;
`SiapkanKlien` and `ModelMenjawab` stage 2; `BacaTahap3` with `Ulangi`, `Tutup` or
`Ditolak` stage 3, whose reads take no lock. `Mati`, `TransaksiGagal` and `Menua` are the
disturbances, `UbahSaklar` and `UbahMode` the administrators. The verdict of guardrail and
schema checks is a nondeterministic outcome of the call.

Run `ai_job` (two submissions, two workers, one provider, two attempts, one disturbance, one
administrative change): run and job tell one story (`VonisSejalan`), nobody works twice on
one job though the recovery may take it from a living worker (`SatuPelaksana`), the switch
is respected up to the last read (`SaklarDihormati`), `JanjiRun` is implemented
(`JanjiDipenuhi`), and without disturbance every run is decided (`SemuaDiputus`, premise
`[](gangguan = 0) /\ <>[]saklar`). Two workers and one disturbance are what it takes to have
a slow worker, a recovery and a second claim. Fairness is weak fairness of each worker step:
the process manager restarts workers, the loop never ends, a call ends after `AI_TIMEOUT`.

The module also names two promises the code does not keep, `KegagalanBerakhirManual` (a
stale job becomes FAILED and nothing takes it further, its run waits for ever, although
`CHANGELOG.md:41` says any failure ends MANUAL_REVIEW) and `GagalHanyaDiulang` (`transisi`
checks a row it has not locked; recovery commits FAILED in between and the job goes FAILED
to SUCCEEDED). They are stated for the record; no run checks them.

### 3.2 `Narasi`, `NarasiAi`: narrative cases and their drafts

`status`, `versi`, `event` are the case, its versions and its review events; `lihat[o][k]`
is the version on a person's screen. Writers lock the case row (`_kunci_kasus`), so
`RevisiKasus`, `Tinjau`, `Koreksi` are single actions about the version on the screen, which
may be old. `NarasiAi` adds `kasusDari` and `serap` (`narasi_ai_permintaan`), `periksa` (a
submission between its checks and its inserts), `batch` and `terkunci` (an absorber's list
of ids and its row lock). `KlaimRun` is the claim with FOR UPDATE SKIP LOCKED, `SerapRun`
the rest of the transaction, `SerapGalat` one that raises, `SerapTerganggu` and
`PenyerapMati` the disturbances. The runs themselves are decided by the actions of
`JanjiRun`, which `AiJob` implements.

Run `narasi_ai` (one case, two people, two requests of which one is permanently broken, two
absorbers, people write up to version 2, one disturbance): each version supersedes exactly
its predecessor (`RantaiLurus`), a machine's version replaces a text only after a person
rejected that text (`MesinTidakMenimpa`), a request's mark tells what became of its run
(`SerapanSejalan`), refinement of `NaskahJanji` (`NaskahDitepati`), and every other decided
run is absorbed (`SemuaDiserap`). The last holds as long as fewer than `Batas` requests are
permanently broken, since they stand at the head of every batch; `BATCH_BAWAAN` is 20, the
instance has 2 and one broken one. Fairness: absorbers poll for ever and are restarted.

`SatuPermintaanBerjalan` names what the code intends and does not ensure: two submissions
for one case both find none open and both insert.

### 3.3 `UsulanAi`: AI suggestions

`sasaran`, `hasil`, `putusan` are the rows of `ai_usulan` and `ai_usulan_putusan`; `periksa`
is a submission between check and insert, `tinjau` a decision that holds the row and knows
the latest `created_at`, `batch` and `terkunci` the absorbers. Runs are decided by
`JanjiRun`. The clock of a server is read as any value up to `MaksJam`, so that two servers'
clocks may stand or differ. An absorber skips a row that a reviewer holds and meets it again
in a later batch.

Run `usulan_ai` (two people, two suggestions, two absorbers with batches of one, one
disturbance, two decisions, clocks 0 and 1): the decision shown as the latest is the one
committed last (`PutusanTerakhirBenar`), one open suggestion per function and target but for
requests past each other's check (`SatuUsulanBerjalan`), a suggestion never changes under
its decisions (`UsulanTetap`), every decided run reaches its suggestion (`UsulanDiserap`).
Fairness: absorbers poll for ever and are restarted, and a request ends.

### 3.4 `Idempotensi`: idempotency keys

`pemegang[k]` is the open transaction that has inserted row `k` (others that insert it
wait), `baris`, `respons`, `kedaluwarsa` the committed row. The steps of `run_idempotent`
are `Putar` or `Lanjut` (`cached`), `Cadangkan` or `Tolak` (`reserve`), `Komit` or `Batal`.
The operation is abstract, its writes are `efek`. `Bersihkan` is a job outside the code
base. Requests without a key, which run unprotected, are left out, and so is what FastAPI
does between the response and the commit in the dependency's teardown.

Run `idempotensi_aman` (two keys, four requests, so up to four repetitions at once): an answer is
that of an effective operation of the same key (`JawabanSejati`), refinement of `SekaliSaja`
(`SekaliDitepati`), every request ends (`SemuaBerakhir`, under weak fairness of each
request: the server runs its thread, PostgreSQL wakes waiters). Deadlock is not checked:
requests are finitely many and end.

Seen on the way: `reserve` fails only against a committed row. A 409 "masih diproses" reaches
a client also when the other request has just been completed, and, once a row has expired,
for every repetition until somebody deletes the row, since `get` ignores expired rows and
`reserve` does not.

### 3.5 `TaskinvSesi`: task inventory sessions

The state is that of one session: `status`; rows of respondents (`terdaftar`, `pemilik`),
submissions (`tahap1`, `tahap3`), `seleksi` (drafts included), `putusan` of stage 2,
proposals (`pengusul`, and `katalog`, the catalogue rows made of each), the frozen set
(`terpilih`, `beku`) and `detail`. One action per operation, `mulai_tahap3` with its
materialisation and freeze in one. Requests come one at a time. Row ids are not reused; the
selections are of tasks of the catalogue; what a stage waits for is people, so no liveness.

Run `taskinv_aman` (two respondent rows, a panel of two of whom one is of another branch, two
tasks and one proposal; any number of freezes and thaws): a person has one row
(`SatuOrangSatuBaris`), what was rejected is never frozen (`PenolakanDihormati`), a proposal
gets one catalogue row (`MaterialisasiSekali`), refinement of `KajianBertahap`
(`KajianDitepati`). Two rows are enough for none, some and all. No unit fails to be derived
in the instance (`TanpaUnit`); the theorems have any.

Run `taskinv_bulat` (violation of `BulatBerartiSemua`): after a forced stage 2 the drafts of
people who never submitted count as picks, so a task is frozen as unanimous that a person who
did submit has not picked.

Seen on the way: `run_analisis` asks for one respondent "yang sudah submit", but counts those
with any saved detail; the guard of `Analisis` is the code's.

### 3.6 `SumberTugas`, `KuesionerSekali`: two abstract specifications

`SumberTugas` is what OPM sees of a task inventory session: a set that is frozen, thawed,
frozen differently, deleted. `KuesionerSekali` is what a questionnaire promises to those who
answer it: its questions are not changed once an answer has been submitted; who submits
answers every question, while it is open, and once; what he submitted then stands until the
whole is deleted. OPM, WCP and DCS implement it, each released (`lepas`) from the promise to
those about whom a write rested on a stale read.

### 3.7 `OpmSesi`: OPM sessions

`sesi` is the row of `opm_sesi` with its copy of tasks, `baris` the respondents with their
answers, `register` the exceptions, `himpunan` and `pengirim` the source. A request is
`rencana[p]`: what it read and what it will write; a second action writes it. Registration in
bulk, transfers and deletions of respondents, drafts with a rating that lacks a dimension,
submission, closing, analysis and deletion of the session are all there; `HasilSesi` is what
the results count, without standard deviations, medians and rounding.

Run `opm_aman` (two threads, two people, two tasks, one complete and one partial rating,
`min_responden` 1 or 2, one session; 1,956,360 states): an analysis rests on as many
different people as the session asks for, each of whom rated every task
(`AnalisisBerdasar`); what was copied and what was put on the register are together what the
source had frozen, for as long as the session lives (`SnapshotTetap`); the promise of a
questionnaire (`JanjiKuesioner`). Of two requests that overlap one reads what the other
writes (any others commute), and a source that has a session stays as it is, or is deleted
while the session is not open: bounds of the run that leave out orders, not operations.

### 3.8 `Instrumen`, `Psikososial`: WCP and DCS

`Instrumen` is one instrument: `instrumen` (status and minimum), `bank` (how each item
counts, or that it is gone; `item_bank_hash` is the bank itself), `baris` and `rencana` as
above. `instrumen_guard` counts answers in the read of an edit, a deletion or a reset.
`Psikososial` has two of them and the results of both: WCP per dimension, DCS per sub-scale
with the answers of WCP in its K-Index. Scores are sums with counts, compared as fractions;
rounding, deviations and Cronbach's alpha are left out, and the feature flag that hides the
scores is on.

Run `psikososial_aman` (WCP with two items of one dimension and two threads, DCS with one item
and one thread, one person; 941,376 states): all submitted answers were given to the bank as
it is, and no dimension runs out of items (`BankSeragam`); nobody who submitted drops out of
a result, no shown result rests on the 0 that stands for no answer, and the K-Index stays
from 0 to 1 uncut (`HasilUtuh`); the promise of a questionnaire for both (`JanjiKuesioner`).
One item more than a dimension needs is what it takes to delete, reset and flip an item
under an answer.

### 3.9 `Konfirmasi`: redesign confirmations

`konfirmasi` and `masalah` are the rows of the two tables by order of creation, with stamps
reduced to whether they are set, contents to model values that tell apart what guards look
at (complete, risky, naming another problem), and codes to a context and a number. Rows are
not deleted by the code. Every request is two steps: a reading action (one per operation:
`BuatDraf`, `Ubah`, `KunciCerita`, `TampilkanDugaan`, `Kirim`, `Ralat`, `Luring`,
`AngkatMasalah`, `BuatMasalah`, `UbahMasalah`, `SetStatusKonfirmasi`), in which the route's
own checks are parts apart from the service's, computes from what it reads which columns and
rows it will write, `rencana[p]`; `Simpan` writes just those, as the ORM's flush does, or
`Gagal` rolls back. No constraint but the unique code stands between. The reads of one
request are one step; `peran` and the columns no guard reads, authorisation and schools are
left out, as are requests that change nothing.

Run `konfirmasi_aman` (one person, three versions, three problems of which requests are about
the first, two threads; 2,332,312 states): nobody has assessed who was not shown the
hypothesis, nor was shown it before his story was locked (`PenilaianSesudahDugaan`, whatever
overlaps); one draft and one counting version per pair (`SatuVersiBerlaku`); what was sent
and what is locked is not changed, and a correction of a locked story keeps it
(`KirimanTetap`); the problem is frozen at the value it has and escalated exactly when
something sent says so, and the register has numbers without gap and one problem per
confirmation (`MasalahSah`). Three versions are a correction of a correction; two raised
problems beside the first are a second attempt to raise.

Run `konfirmasi_ralat` (violation of `RalatTidakMembukaCerita`): a paper form has no stamps,
its correction copies that, and the story can be rewritten, although `ralat` says a
correction does not open the story again.

Seen on the way: the correction of a paper form can be locked and sent without the
hypothesis having been shown, and `tampilkan_dugaan` will then stamp the sent row.

### 3.10 `Permintaan`, and the registers over it: `Redesain`, `Induk`, `Katalog`

`Permintaan` is the frame of everything that follows: `db` maps objects `<<table, number>>`
to rows (`Tiada` not yet, `Bekas` deleted), `rencana[p]` holds the rows a request has read
and the columns it will write, and a commit writes just those columns where they differ from
the row read, adds and removes the link rows that differ, is refused by unique and foreign
keys, does what the schema does on deletion, and appends to the history. `Gagal` loses a plan
at any time. `PATCH` payloads name up to `Lebar` columns. A commit is refused whole; the
seeds, which in the code catch a conflict in a savepoint and go on, fail whole here too.

* `Redesain`: themes, codes of persons, problems, processes with steps and corrections,
  evidence, alternatives, assessments with the suggestion computed at each write, sessions,
  coverage and method versions. A column is there when a rule reads it; `isi` stands for the
  rest.
* `Induk`: schools, levels, subjects, jobs, participants with their accounts at the identity
  provider (made first, so a row that fails leaves the account), panels with members and
  coordinator, the time study. `Kosong` as an address is one that no account has.
* `Katalog`: main duties, details and task statements with their links to jobs, the purge,
  the reseed from the file of the distribution. That the main duty of a statement exists is
  not validated by the code; the model offers only those that do, and deletes them later.

A PATCH with an explicit null for a required column is not modelled.

### 3.11 `Sitasi`: from a source to what is said about it

Texts are sequences of tokens `<<class, value>>`; `Samarkan` applies the patterns in the
code's order, with the names of the participants there are when a text is registered or
submitted. The gate, the registration and replacement of sources, their permission, the dry
run, the checks of an answer (facts must quote a span of a source under the hash it had),
suggestions, decisions and drafts are requests over `db`. A hash is injective, texts are
normal in their white space, and the status of a case and its reviews are left to `Narasi`.

### 3.12 `Setelan`: the settings of the AI provider

One row for mode, model and key (a cipher is `<<master key, key>>`, and two ciphers of one
key are equal), its ledger, the ledger of the kill switch with events numbered by time, and
`panggilan`, the calls made with the client built from what was read. The master key is an
object of its own, `<<"induk", 1>>`: a restart may change or remove it. Model and effort are
set by one request, which is refused when what is in force would stay, and the feature flag
is on. The time of an event is fixed before its
commit, so a change reads the ledger it comes after: two changes that overlap may stand in it
in the other order than they were committed, and the row is then in `tumpang`.

### 3.13 `Pencarian`, `Bacaan`: what clients read

A search domain is a list in prefix notation; `Pencarian` has its normal form, the evaluator
of `services/domain.py` and the SQL of `services/domain_sql.py` with its three values. A page
is read in two statements, the total and the rows, between which others may commit; a copy
of a row is held with its tag, which stands for the whole row. Order comparisons and patterns
are as equality, rows that tie come in any order, `"#"` is the order of creation, and pages
have `Batas` rows. `Bacaan` lists the registers with the fields their searches may name and
their own orders, the lists of sources, suggestions and confirmations that filter by columns of
their own choice, newest first (`Saringan`, `Terbaru`), and the single rows fetched with a tag.
The list and search of histories and `rekap_orang` are left out.

### 3.14 `Pemeliharaan`: start, seed, dump, restore

A start is upgrade, then every seed, then requests (`Mulai`, `Upgrade`, `SeedAll`); one that
fails starts again. `initdb.py` is alone with the database, as its notes on replicas ask, so
both steps wait until no request is under way (`Sendiri`). A dump may be cut off; a restore replaces everything in one transaction
(rows that are not in the dump are not there, `Tiada`, and their numbers come again), and the
revision is compared afterwards. Administrators change the wording of an item and remove items
under If-Match (`UbahButir`, `HapusButir`), which a start must respect. Releases (`Rilis`) differ by
a revision each that adds no table; the code of a problem is its place; sections of an instrument
are not modelled.

### 3.15 `BasisData`: all of 3.10 to 3.14 in one table space

Run `basis_data` has ninety-four initial states: neighbourhoods of the schema (`MCMuatan`), each
with the few tables a hazard needs, with one thread or, where the rows are few, two; 699,706
states. Inside a neighbourhood any sequence of requests of all the modules above happens.
Deadlock is checked.

* `RiwayatLengkap`: the entries of a history join up from the creation to the row as it is.
* `BarisSah`: rules about several columns of one row hold through any PATCHes of some
  (`UjiBerdasar`, `PenilaianUtuh`, `KoordinatorAnggota`, `MenitWajar`), and no two
  participants log in as one (`SubjekSatu`, whatever overlaps).
* `RujukanSejalan`: processes and corrections are written with the school, the problem and
  the confirmation they belong with (`TertulisSelaras`); a detail or a statement with jobs
  its parent has (`TurunanSejalan`).  Both are about writes of requests and starts: a parent
  that loses a job later leaves it to its children, and a restore brings rows back as they were.
* `DrafBersih`: what waits to be sent would pass the dry run of its source, what came back
  holds no numbers, addresses or pupils' names (`DataPribadiTertahan`); a fact of a suggestion
  stands in these words in the source it names (`FaktaBerdasar`), a citation of a draft in the
  text whose hash it carries, and every draft has one (`KutipanTertaut`).
* `PenyediaTerkendali`: mode, model and key are what the last events of the ledger tell
  (`SetelanTercatat`); a model that answered is one that is allowed, through a provider that
  was chosen, and with a key the ledger knows (`PanggilanSah`).
* `HalamanTepat`: a page and its total speak of the same rows, and those are the rows the
  evaluator selects, where no NULL is compared.
* `TulisanBersyarat`: a PATCH that passed If-Match changes the row the client saw, for all rows
  but those two requests wrote at once (`tumpang`).
* `BootMenjaga`: a start keeps what people made of the data, and brings back no item they
  removed.
* `SkemaTerjaga`: requests are served on another schema than the code's only after somebody
  was told so.

Run `katalog_yatim` (violation of `KatalogTerbaca`): a main duty is deleted under a statement
made of a detail, and the catalogue as a whole can no longer be read, although
`taskinv/services/catalog.py` says changes show in it at once.

The bounds: one or two rows per table is what a violation of a rule about a row, a pair of
rows or a row and its parent takes; two threads are a stale read. What the neighbourhoods
leave out are chains through more than five tables.

## 4. What is proved

TLAPS proves, for all values of the constants and from the named assumptions in the modules
(bounds are natural numbers, `Nihil` is none of the proper values, at least one attempt and
one request per batch), the safety properties and the refinements of eight components, 60
theorems. Each proof module has one lemma per action, a lemma for stuttering, and the theorem
that combines them by the temporal step; refinements are step simulations under the
invariant.

* `AiJobProofs`, for any submissions, workers and providers and any bounds. Beside what the
  run checks: calls are bounded (`PercobaanTerbatas`), input is kept exactly while it is
  needed (`MasukanSelamaMenunggu`), the recorded provider is the one called
  (`PenyediaTercatat`). `IndInv` strengthens these by who holds what (`PemegangSah`: an
  active worker's job is RUNNING or FAILED and its attempt number is the stored one), calls
  per attempt (`SekaliPerUpaya`) and grounds of what stage 3 will write (`JawabanNyata`).
  Without the last two neither the bound on calls nor the refinement is inductive: a worker
  could hold an answer to a call nobody made.
* `NarasiAiProofs`, for any cases, people, requests and absorbers, batch size and bounds; also
  that the status is what the two append-only tables prove (`StatusTerbukti`). `IndInv` adds
  the shape of versions, that requests, runs and cases belong together (`PermintaanSah`), and
  that a held row is unabsorbed and held once (`KunciSah`): the mark of a request is written
  by one absorber only because of the last.
* `IdempotensiProofs`, for any keys and requests; also that a row remembers only operations
  that took effect (`BarisSejalan`). `IndInv` adds who holds a key (`PemegangSah`) and the
  order of a request (`UrutanSah`).
* `TaskinvSesiProofs`, for any respondents, panel, catalogue and proposals; also that the
  frozen set fits the stage (`BekuSesuaiTahap`) and who submitted has answered
  (`KirimBerisi`). That rejections are respected is not inductive alone: deleting a draft row
  lowers counts, and might make a rejected task unanimous. It does not, because a decided
  task is picked by fewer than have submitted (`PutusanSebagian`), which in turn needs that
  rows which are gone have left nothing (`SisaBersih`) and the cardinality of subsets
  (`FS_Subset`).
* `UsulanAiProofs`, for any people, suggestions, absorbers and clocks; also that decisions are
  about suggestions that hold an answer, which is what the run was judged to be
  (`PutusanBerdasar`). That the last decision is the latest one in spite of clocks rests on
  who holds which row (`KunciSah`): a person who holds one knows its latest stamp, no
  absorber holds it with him, and an absorber that holds a row may still absorb it, without
  which a suggestion could change under its decisions (`UsulanTetap`). `AjuanBerlaku` says
  what a submission's check still means at its insert.
* `KonfirmasiProofs`, for any people, contents and stories, rows and threads. An open request
  holds what it has read, possibly long ago, so `IndInv` speaks of plans: of each, what it is
  going to write belongs together (`BentukBaris`, `BentukMasalah`, `BentukDaftar`); the order
  of locking, showing and assessing it rests on, which is never undone (`DugaanDulu`); and of
  the objects nobody has written since it read them, that what it checked is still so
  (`SegarBaris`, `SegarMasalah`). That of each pair exactly one version counts is not
  inductive: it follows from a chain in which each version but the newest is sent and is
  superseded by one no later than the next (`RantaiSah`), by the least version in question.
  Assumption: the mark for "no row" is not a row (`NihilBukanBaris`).
* `OpmSesiProofs`, for any threads, finite set of people, tasks, ratings and rows, any number
  of sessions one after another. The plans are of six kinds (`MengubahSesi` to
  `MenulisJawaban`); a plan that has not been overtaken still has a session, a free place for
  whom it registers, and a questionnaire complete as it found it. The run leaves out orders of
  requests that do not overlap (section 3.7); the theorems do not: they are about every
  interleaving, and claim nothing of the objects in `tumpang`. That an analysis
  counts different people is an injection of the rows into them (`OrangTunggal`, hence the
  assumption that the people are finitely many). The refinement of `KuesionerSekali` is proved
  for each action.
* `BasisDataProofs`, for any tables with any numbers of rows, any threads, payloads, releases
  and files of the distribution: `RiwayatLengkap`, `SkemaTerjaga`, `TulisanBersyarat`,
  `RujukanSejalan`, `BootMenjaga`, all parts of `BarisSah`, `PenyediaTerkendali` and `DrafBersih`,
  under every interleaving of the operations of 3.10 to 3.14. `IndInv` has four parts. What
  must hold of rows and histories is a predicate of both
  (`KeadaanSah`), so that it can be said of the database and of what each whole dump would
  bring back (`Dipulihkan`): a restore keeps the rules because each dump was taken where they
  held. `BootSah` orders the starts; without it `SkemaTerjaga` is not inductive, since the
  last start could be any. Each open plan is one of four kinds (`RencanaSah`): a request, a
  restore that has not answered, an upgrade, a seed. Of a request `IndInv` says what its write
  will leave while nothing it read has changed (`Jadi`): the rules of the row
  (`RencanaBaris`), a subject whose account nobody else has or plans to use
  (`RencanaSubjek`), a coordinator whose seat was read and is not taken away by the same plan
  (`RencanaKursi`), that a row checked by If-Match is the row that was read
  (`RencanaUtuh`), and that what it writes agrees with the rows it read and writes beside it
  (`RencanaRujukan`): a commit takes that over because whoever writes such rows deletes no
  school, and so sets off nothing in the rows they refer to (`TanpaHapus`). For that the rows
  that refer must have their columns in every state, restored and seeded ones too (`Bentuk`),
  and main duties and details hold sets of jobs only, which is also why a seeding that merges
  sets of links adds jobs and loses nothing else (`BootMenjaga`). When something has changed, the commit puts what it writes into `tumpang`,
  of which the rules claim nothing, except that subjects never meet: the account is made
  before the row. Most requests write ordinary rows only (`Sederhana`), which one lemma
  covers; a commit is one lemma for all of them.

  `PenyediaTerkendali` and `DrafBersih` rest on a second inductive invariant beside it,
  `IndIsian`, about what is written in the rows of the settings and about sources, again of the
  database, of each whole dump and of each plan.
  That the settings are those of the last events is not inductive alone: a plan
  adds an event after all those in the ledger, whose places it has read, and its row follows from
  the row it read by just what the event says (`Perubahan`, `SesuaiAksi`), so that while nothing
  changed the new row agrees with the new last event and with the last ones of the other kinds.
  A call is allowed by what was in force when its client was built; what is left of that later
  is that a key with these last characters was installed (`Terpasang`), which holds of the key in
  the row whatever overlapped, and stays so.
  A fact or a citation goes through four rows. What a run sends is the text of its source, which
  passed the gate (`MasukanSah`); an answer that was accepted quotes the text that was sent
  (`KeluaranSah`), though the input is emptied with the verdict; a suggestion and a draft take
  over quotations of a run that is of their function (`UsulanSah`, `PermintaanSah`, `VersiSah`).
  Between any two of them others commit. What each relies on is never taken away: sources and
  events stay as they are, runs keep their function, calls what they were made with (`Tumbuh`,
  which every step but a restore keeps, and a restore is of all these rows together, with no plan
  left but the answers of other restores).
  `PerubahanSetelan`, `BentukRun` and the like are the shapes of these rows.

  Assumptions: the bounds are sane
  (`PermintaanAssumption`, `PemeliharaanAssumption`), payloads name the columns the schema has
  (`RedesainAssumption`), the rows at the start stand with those they refer to
  (`BasisDataAssumption`), have names (`KunciCukup`) and texts, the first of them without personal
  data (`NaskahCukup`), texts are sequences (`SitasiAssumption`), NULL is no cipher and the model
  of a row that names none may be called (`SetelanAssumption`), and the marks for no row, a
  deleted row and NULL are not rows, answers or numbers of rows (`TandaBukanBaris`).

## 5. What is only checked

* Everything that is live (`SemuaDiputus`, `SemuaDiserap`, `UsulanDiserap`, `SemuaBerakhir`):
  the prover has no ENABLED.
* Of `BasisData`: `HalamanTepat`. It compares two recursive functions, the evaluator of domains
  and their compiler, and is out of the prover's reach.
* `Instrumen` and `Psikososial`. Proofs about them are next (section 2).
* The runs that show a violation.

No property rests on induction over data. The evaluator and the compiler of search domains
work by recursive functions, whose values TLC compares over the domains of `MCDomain`.

## 6. What is not modelled

* Functions of text beyond their outcomes: the regular expressions of the redaction, schema
  validation, the catalogue of forbidden phrases, templates of prompts. `Sitasi` has what is
  redacted, in what order, and what must be quoted.
* Clients of outside services beyond their outcomes (model, identity provider, `pg_dump`).
* The results of the task inventory (sums over details read once), rankings and medians,
  exports to documents and spreadsheets, `yayasan_sql`'s aggregates: functions of what is
  read, without state.
* Authorisation, token verification, error envelopes, wiring, middleware, readiness; the rate
  limiter, which accepts everything.
* Migrations as history (their result, the constraints of the schema, is in the models),
  `evals/`, `scripts/`.
* `TaskinvSesi` under overlapping requests, which is planned.

`PROJECT.json` lists every part with its status, and the hazards that no property covers with
the reason.
