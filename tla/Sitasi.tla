-------------------------------- MODULE Sitasi --------------------------------
(***************************************************************************)
(* From a source text to what the AI says about it: registration of        *)
(* sources, the gate that keeps personal data from the model, the checks   *)
(* of what the model answers, and the suggestions and drafts made of it.   *)
(*                                                                         *)
(* A text is a sequence of tokens <<class, value>>; a text of spaces is    *)
(* empty, so that normalkan_kutipan is the identity on texts.  The names   *)
(* of participants are values of Teks.  UsulanAi and NarasiAi have the     *)
(* interleavings of absorbers and the states of a case; this module has    *)
(* what is in the rows.                                                    *)
(***************************************************************************)
EXTENDS Permintaan, Sequences

CONSTANTS
  Naskah,         \* texts people enter: sources, claims, decisions
  Potongan,       \* texts the model writes: quotations, facts, drafts
  Jenis,          \* kinds of a source
  JenisIzin,      \* AI_JENIS_SUMBER_DIIZINKAN
  ModePii,        \* AI_PII_MODE
  Karangan        \* an identifier the model made up

Wacana == Naskah \cup Potongan

\* Texts are sequences.
ASSUME SitasiAssumption == \A t \in Wacana : t \in Seq({t[i] : i \in DOMAIN t})

-------------------------------------------------------------------------------
(* Redaction.                                                                *)

PolaPii == {"EMAIL", "NIP", "NIK", "TELEPON"}

\* The patterns in the order they are applied: a name after "siswa", "wali" and
\* the like belongs to a pupil's family, registered or not.
Kategori(t, i, kamus) ==
  IF t[i][1] \in PolaPii THEN t[i][1]
  ELSE IF t[i][1] # "NAMA" THEN "BUKAN"
  ELSE IF i > 1 /\ t[i - 1][1] = "KONTEKS" THEN "NAMA_MURID_KELUARGA"
  ELSE IF t[i][2] \in kamus THEN "NAMA_TERDAFTAR" ELSE "BUKAN"

Temuan(t, kamus) == {Kategori(t, i, kamus) : i \in DOMAIN t} \ {"BUKAN"}

\* A value has the same marker wherever it stands in the text: its place among
\* the values of its category.
Nomor(t, i, kamus) ==
  LET sama == {j \in DOMAIN t : Kategori(t, j, kamus) = Kategori(t, i, kamus)}
      pertama == CHOOSE j \in sama : t[j] = t[i] /\ \A k \in sama : t[k] = t[i] => j <= k IN
  Cardinality({t[j] : j \in {k \in sama : k <= pertama}})

Samarkan(t, kamus) == [i \in DOMAIN t |->
  IF Kategori(t, i, kamus) = "BUKAN" THEN t[i]
  ELSE <<"PENANDA", <<Kategori(t, i, kamus), Nomor(t, i, kamus)>>>>]

\* muat_kamus_nama, and the rows it reads.
Partisipan == Rak("partisipan")
Kamus == {db[o].isi : o \in Baris("partisipan")}

-------------------------------------------------------------------------------
(* The gate.                                                                 *)

Hash(t) == <<"SHA-256", t>>
JenisTerlarang == {"WCP", "DCS", "KONSELING", "MURID"}
JenisDiizinkan(j, izin) == j \in izin \ JenisTerlarang

Gerbang(s, kamus, mode, izin) ==
  LET temuan == Temuan(s.teks, kamus) IN
  IF s.teks = <<>> THEN "SUMBER_KOSONG"
  ELSE IF s.hash # Hash(s.teks) THEN "METADATA_SUMBER_HILANG"
  ELSE IF ~JenisDiizinkan(s.jenis, izin) THEN "JENIS_DITOLAK"
  ELSE IF temuan # {} /\ (mode = "BLOKIR" \/ "NAMA_MURID_KELUARGA" \in temuan)
       THEN "PII_DITEMUKAN" ELSE "LOLOS"

Calon(o) == [id |-> o, hash |-> db[o].hash, jenis |-> db[o].jenis, teks |-> db[o].teks]

\* _sumber_teks, id_sumber_klaim, id_sumber_versi: a text sent as a source.
CalonTeks(id, teks, jenis) == [id |-> id, hash |-> Hash(teks), jenis |-> jenis, teks |-> teks]

\* jalankan_uji_kering: the gate in mode BLOKIR, with every kind allowed.
UjiKering(o, kamus) == Gerbang(Calon(o), kamus, "BLOKIR", {db[o].jenis})

\* The first source refused decides for all of them; parameters are only looked
\* at when all have passed.
Alasan(calon, parameter) ==
  LET vonis(i) == Gerbang(calon[i], Kamus, ModePii, JenisIzin)
      tolak == {i \in DOMAIN calon : vonis(i) # "LOLOS"} IN
  IF calon = <<>> THEN "SUMBER_KOSONG"
  ELSE IF tolak # {} THEN vonis(CHOOSE i \in tolak : \A j \in tolak : i <= j)
  ELSE IF Temuan(parameter, Kamus) # {} THEN "PII_DITEMUKAN" ELSE "LOLOS"

\* AiGateway.ajukan and SqlAiRunService.buka: the run, waiting or closed at once.
RunBaru(fungsi, calon, parameter) ==
  LET alasan == Alasan(calon, parameter) IN
  [fungsi |-> fungsi, sumber |-> {[id |-> calon[i].id, hash |-> calon[i].hash] : i \in DOMAIN calon},
   status |-> IF alasan = "LOLOS" THEN "MENUNGGU"
     ELSE IF alasan \in {"SUMBER_KOSONG", "METADATA_SUMBER_HILANG"} THEN "EVIDENCE_GAP" ELSE "DIBLOKIR",
   kode |-> {alasan} \ {"LOLOS"},
   masukan |-> IF alasan # "LOLOS" THEN {}
     ELSE {[id |-> calon[i].id, hash |-> calon[i].hash,
       teks |-> Samarkan(calon[i].teks, Kamus)] : i \in DOMAIN calon},
   keluaran |-> Kosong]

-------------------------------------------------------------------------------
(* Sources and requests.                                                     *)

BarisSumber == {[jenis |-> j, teks |-> t, hash |-> Hash(t), izin |-> z, ganti |-> g] :
  j \in Jenis, t \in Naskah, z \in BOOLEAN, g \in AtauKosong(Baris("sumber"))}
SumberBaru(p, d) == Tambah(p, BarisBaru("sumber"), {}, d)
BuatSumber(p) == Luang(p) /\ \E d \in BarisSumber : SumberBaru(p, d)

\* A run and the row that waits for it, in one transaction.
RunDanBaris(p, baca, run, tabel, isi) ==
  \E r \in BarisBaru("run"), o \in BarisBaru(tabel) :
    Rencanakan(p, baca \cup Partisipan, [x \in {r, o} |-> IF x = r THEN run ELSE [isi EXCEPT !.run = r]])

\* SqlAiUsulanService.ajukan.
AjukanUsulan(p, fungsi, sasaran, calon, parameter, baca) ==
  /\ ModePii = "BLOKIR"
  /\ \A u \in Baris("usulan") : ~(db[u].fungsi = fungsi /\ db[u].sasaran = sasaran /\ db[u].hasil = Kosong)
  /\ RunDanBaris(p, baca, RunBaru(fungsi, calon, parameter), "usulan",
       [fungsi |-> fungsi, sasaran |-> sasaran, run |-> Kosong,
        hasil |-> Kosong, kode |-> {}, isi |-> Kosong])

Urutan(S) == {f \in [1..Cardinality(S) -> S] : \A i, j \in DOMAIN f : i # j => f[i] # f[j]}
Calon2(f) == [i \in DOMAIN f |-> Calon(f[i])]
Berizin(S) == \A o \in S : db[o].izin

\* P01: the facts in one source.  The role and the period are free codes.
AjukanEkstraksi(p) == Luang(p) /\ \E o \in Baris("sumber"), kode \in Potongan \ {<<>>} :
  Berizin({o}) /\ AjukanUsulan(p, "P01", o, <<Calon(o)>>, kode, {o})

\* P04: the claim and the decision go through the gate as sources.
AjukanTanyaBukti(p) == Luang(p) /\ \E S \in SUBSET Baris("sumber") :
  \E f \in Urutan(S), klaim, putusan \in Naskah \ {<<>>} :
  LET jenis == db[f[1]].jenis IN
  /\ S # {} /\ Berizin(S)
  /\ AjukanUsulan(p, "P04", "kasus", Calon2(f) \o
       <<CalonTeks(<<"klaim", klaim>>, klaim, jenis),
         CalonTeks(<<"keputusan", putusan>>, putusan, jenis)>>, <<>>, S)

VersiTerbaru == {v \in Baris("versi") : \A w \in Baris("versi") : w[2] <= v[2]}

\* P09: a critique of the latest version with the sources it cites.
AjukanKritik(p) == Luang(p) /\ \E v \in VersiTerbaru :
  LET S == {k.sumber : k \in db[v].kutipan} IN
  /\ db[v].teks \notin {Kosong, <<>>} /\ S # {} /\ Berizin(S)
  /\ \E f \in Urutan(S) : AjukanUsulan(p, "P09", "kasus",
       Append(Calon2(f), CalonTeks(<<"versi", v>>, db[v].teks, db[f[1]].jenis)), <<>>, S \cup {v})

\* P10: a draft of the case, from any sources or none.  Nobody reviews here, so
\* a case with a draft stays one.
AjukanDraf(p) == Luang(p) /\ \E S \in SUBSET Baris("sumber") : \E f \in Urutan(S) :
  /\ ModePii = "BLOKIR"
  /\ \A v \in Baris("versi") : db[v].teks = Kosong
  /\ \A m \in Baris("permintaan") : db[m].hasil # Kosong
  /\ Berizin(S)
  /\ RunDanBaris(p, S, RunBaru("P10", Calon2(f), <<>>), "permintaan",
                 [run |-> Kosong, hasil |-> Kosong])

-------------------------------------------------------------------------------
(* The answer of the model.                                                  *)

\* normalkan_kutipan on both, then "in": s stands somewhere in t.
Memuat(t, s) == \E i \in 1..Len(t) - Len(s) + 1 : SubSeq(t, i, i + Len(s) - 1) = s

Paling(S) == {{}} \cup {{x} : x \in S}
Isi01(id) == [fakta : Paling([fakta : Potongan, sumber : id, span : Potongan])]
Isi04 == [material : BOOLEAN, tanya : AtauKosong(0..2)]
Isi10 == [draf : AtauKosong(Potongan)]
IsiFungsi(fungsi, id) ==
  CASE fungsi = "P01" -> Isi01(id)
    [] fungsi = "P04" -> Isi04
    [] fungsi = "P09" -> [temuan : Potongan]
    [] fungsi = "P10" -> Isi10

\* What comes back: a refusal, an answer cut off, no JSON, another shape, or an
\* envelope with at most one reference, quotation and fact.
Jawaban(r) ==
  LET id == {s.id : s \in db[r].sumber} \cup {Karangan}
      hash == {s.hash : s \in db[r].sumber} IN
  [henti : {"refusal", "max_tokens"}] \cup
  [henti : {"end_turn"}, bentuk : {"JSON_TIDAK_SAH", "SKEMA_TIDAK_SAH"}] \cup
  [henti : {"end_turn"}, bentuk : {"SAH"}, status : {"AI_DRAFT", "EVIDENCE_GAP"},
   refs : Paling([id : id, hash : hash]), spans : Paling([id : id, span : Potongan]),
   unknowns : Potongan, isi : IsiFungsi(db[r].fungsi, id)]

CekKutipan(s, masukan) ==
  LET asal == {m \in masukan : m.id = s.id} IN
  IF asal = {} THEN {"SUMBER_FIKTIF"}
  ELSE IF s.span = <<>> THEN {"KUTIPAN_KOSONG"}
  ELSE {"KUTIPAN_TIDAK_DITEMUKAN" : m \in {x \in asal : ~Memuat(x.teks, s.span)}}

CekRef(f, masukan) ==
  IF \A m \in masukan : m.id # f.id THEN {"SUMBER_FIKTIF"}
  ELSE {"HASH_TIDAK_COCOK" : m \in {x \in masukan : x.id = f.id /\ x.hash # f.hash}}

\* cek_keluaran: the codes of a quarantine, none for an answer that may stand.
CekKeluaran(j, masukan) ==
  IF j.bentuk # "SAH" THEN {j.bentuk}
  ELSE (UNION {CekRef(f, masukan) : f \in j.refs})
    \cup (UNION {CekKutipan(s, masukan) : s \in j.spans})
    \cup (IF j.status = "AI_DRAFT" /\ j.spans = {} THEN {"TANPA_SITASI"} ELSE {})
    \cup (IF j.status = "EVIDENCE_GAP" /\ j.unknowns = <<>> THEN {"GAP_TANPA_ALASAN"} ELSE {})

\* Every text of an answer.
Tulisan(j) == {s.span : s \in j.spans} \cup {j.unknowns} \cup
  (IF "fakta" \in DOMAIN j.isi THEN UNION {{f.fakta, f.span} : f \in j.isi.fakta}
   ELSE IF "temuan" \in DOMAIN j.isi THEN {j.isi.temuan}
   ELSE IF "draf" \in DOMAIN j.isi THEN {j.isi.draf} \ {Kosong} ELSE {})

\* _evaluasi; the dictionary is read again.
VonisJawaban(j, masukan) ==
  IF j.henti = "refusal" THEN [status |-> "KARANTINA", kode |-> {"MODEL_MENOLAK"}]
  ELSE IF j.henti = "max_tokens" THEN [status |-> "KARANTINA", kode |-> {"KELUARAN_TERPOTONG"}]
  ELSE IF CekKeluaran(j, masukan) # {} THEN [status |-> "KARANTINA", kode |-> CekKeluaran(j, masukan)]
  ELSE IF \E t \in Tulisan(j) : Temuan(t, Kamus) # {} THEN [status |-> "KARANTINA", kode |-> {"PII_KELUARAN"}]
  ELSE [status |-> IF j.status = "AI_DRAFT" THEN "LOLOS" ELSE "EVIDENCE_GAP", kode |-> {}]

\* The verdict closes the run and drops its input.
Jawab(p) == Luang(p) /\ \E r \in Baris("run") \ Dipesan :
  /\ db[r].status = "MENUNGGU"
  /\ \E j \in Jawaban(r) :
       LET vonis == VonisJawaban(j, db[r].masukan) IN
       Ganti(p, r, Partisipan, [status |-> vonis.status, kode |-> vonis.kode, masukan |-> {},
         keluaran |-> IF vonis.status = "KARANTINA" THEN Kosong
           ELSE [refs |-> j.refs, spans |-> j.spans, isi |-> j.isi]])

-------------------------------------------------------------------------------
(* Absorption.  The row is locked; another absorber skips it.                *)

\* Mutant: a fact may rest on any words at all.
AturanP01_Bebas(isi, spans) == {}

\* Every fact is quoted: its span stands in a quotation of the same source.
AturanP01(isi, spans) ==
  IF \A f \in isi.fakta : f.span # <<>> /\ \E s \in spans : s.id = f.sumber /\ Memuat(s.span, f.span)
  THEN {} ELSE {"SPAN_FAKTA_TIDAK_DITEMUKAN"}

\* A question exactly when it is material, and only one.
AturanP04(isi) ==
  (IF isi.material = (isi.tanya # Kosong) THEN {} ELSE {"ATURAN_P04_DILANGGAR"})
  \cup (IF isi.tanya = 2 THEN {"LEBIH_DARI_SATU_PERTANYAAN"} ELSE {})

Aturan(fungsi, k) ==
  IF fungsi = "P01" THEN AturanP01(k.isi, k.spans) ELSE IF fungsi = "P04" THEN AturanP04(k.isi) ELSE {}

\* _terapkan.
Serapan(u, r) ==
  LET langgar == IF r.status = "LOLOS" THEN Aturan(u.fungsi, r.keluaran) ELSE {} IN
  IF r.status = "EVIDENCE_GAP" THEN [hasil |-> "EVIDENCE_GAP"]
  ELSE IF r.status # "LOLOS" THEN [hasil |-> "MANUAL", kode |-> r.kode]
  ELSE IF langgar # {} THEN [hasil |-> "MANUAL", kode |-> langgar]
  ELSE [hasil |-> "USULAN_DIBUAT", isi |-> r.keluaran.isi]

SerapUsulan(p) == Luang(p) /\ \E u \in Baris("usulan") \ Dipesan :
  /\ db[u].hasil = Kosong /\ db[db[u].run].status # "MENUNGGU"
  /\ Ganti(p, u, {db[u].run}, Serapan(db[u], db[db[u].run]))

\* _kutipan: the hash the model referred to, else the one sent.
HashKutipan(r, s) ==
  LET sebut == {f \in r.keluaran.refs : f.id = s.id} IN
  (CHOOSE x \in (IF sebut = {} THEN {y \in r.sumber : y.id = s.id} ELSE sebut) : TRUE).hash
Kutipan(r) == {[sumber |-> s.id, hash |-> HashKutipan(r, s), span |-> s.span] : s \in r.keluaran.spans}

\* tambah_versi: sources that exist with these hashes, and a text has one.
KutipanSah(teks, kutipan) ==
  /\ teks # Kosong => kutipan # {}
  /\ \A k \in kutipan : k.sumber \in Baris("sumber") /\ db[k.sumber].hash = k.hash

\* _putuskan: an accepted draft has a text, an evidence gap has none.
DrafSesuai(r) == r.keluaran # Kosong =>
  IF r.status = "LOLOS" THEN r.keluaran.isi.draf \notin {Kosong, <<>>} ELSE r.keluaran.isi.draf = Kosong

\* serap_run, while the case still takes what comes.
SerapDraf(p) == Luang(p) /\ \E m \in Baris("permintaan") \ Dipesan :
  LET o == db[m].run
      r == db[o]
      kutipan == IF r.keluaran = Kosong THEN {} ELSE Kutipan(r)
      teks == IF r.status = "LOLOS" THEN r.keluaran.isi.draf ELSE Kosong
      diterima == DrafSesuai(r) /\ KutipanSah(teks, kutipan) IN
  /\ db[m].hasil = Kosong /\ r.status # "MENUNGGU"
  /\ \A c \in Dipesan : c[1] # "versi"
  /\ IF r.status \notin {"LOLOS", "EVIDENCE_GAP"} \/ ~diterima
     THEN Ganti(p, m, {o}, [hasil |-> "MANUAL"])
     ELSE \E v \in BarisBaru("versi") : Rencanakan(p, {o},
            [x \in {m, v} |-> IF x = v THEN [run |-> o, teks |-> teks, kutipan |-> kutipan]
              ELSE [hasil |-> IF teks = Kosong THEN "NEED_FACT" ELSE "VERSI_DIBUAT"]])

PermintaanSitasi(p) ==
  \/ BuatSumber(p) \/ AjukanEkstraksi(p) \/ AjukanTanyaBukti(p) \/ AjukanKritik(p) \/ AjukanDraf(p)
  \/ Jawab(p) \/ SerapUsulan(p) \/ SerapDraf(p)

-------------------------------------------------------------------------------

\* Whatever the model answers, a fact of a suggestion stands in these words in
\* the source it names (aturan_p01 asks the quotation, cek_keluaran asked the
\* quotation of the text that was sent, the gate made that of the source).
FaktaBerdasar == \A u \in Baris("usulan") : db[u].fungsi = "P01" /\ db[u].isi # Kosong =>
  \A f \in db[u].isi.fakta : f.span # <<>> /\ f.sumber \in Baris("sumber")
    /\ Memuat(db[f.sumber].teks, f.span)

\* Every citation of a version the machine wrote is found in the text whose
\* hash it carries, and every text has one (NO_SOURCE_NO_FACT).
KutipanTertaut == \A v \in Baris("versi") :
  /\ db[v].teks # Kosong => db[v].kutipan # {}
  /\ \A k \in db[v].kutipan :
       db[k.sumber].hash = k.hash /\ k.span # <<>> /\ Memuat(db[k.sumber].teks, k.span)

\* What waits to be sent would pass the dry run of its source, names registered
\* later aside; what came back is free of numbers, addresses and pupils' names.
DataPribadiTertahan ==
  /\ \A r \in Baris("run") : \A m \in db[r].masukan : Temuan(m.teks, {}) = {}
       /\ (m.id \in Baris("sumber") => UjiKering(m.id, {}) = "LOLOS")
  /\ \A u \in Baris("usulan") : db[u].fungsi = "P01" /\ db[u].isi # Kosong =>
       \A f \in db[u].isi.fakta : Temuan(f.fakta, {}) = {}
  /\ \A v \in Baris("versi") : db[v].teks # Kosong => Temuan(db[v].teks, {}) = {}

\* From the source to the draft: nothing private goes out, nothing a source does
\* not say comes in (the gate, cek_keluaran, aturan_p01, cek_kutipan).
DrafBersih == FaktaBerdasar /\ KutipanTertaut /\ DataPribadiTertahan
===============================================================================
