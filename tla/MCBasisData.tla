----------------------------- MODULE MCBasisData -----------------------------
EXTENDS BasisData, TLC
CONSTANTS p1, p2, t1, t2, k1, k2

\* Neighbourhoods with a client that reads.
MCMuatanBaca ==
 {[tabel |-> (t :> <<1, 1>>) @@ (c :> <<0, 1>>), proses |-> {p1}] : c \in {"halaman", "salinan"},
    t \in {"konteks", "versi_metode", "kode_orang", "masalah", "sesi", "cakupan", "sekolah", "jenjang", "mapel",
          "jabatan", "partisipan", "sme_panel"}} \cup
 {[tabel |-> t @@ (c :> <<0, 1>>), proses |-> {p1}] : c \in {"halaman", "salinan"}, t \in {
    [masalah |-> <<1, 1>>, sekolah |-> <<1, 1>>, proses |-> <<1, 1>>],
    [masalah |-> <<1, 1>>, bukti |-> <<0, 1>>],
    [masalah |-> <<1, 1>>, penilaian |-> <<0, 1>>],
    [alternatif |-> <<0, 1>>],
    [tp |-> <<1, 1>>, dt |-> <<1, 1>>],
    [jabatan |-> <<1, 1>>, tp |-> <<1, 1>>, ut |-> <<1, 1>>],
    [sumber |-> <<1, 1>>],
    [sekolah |-> <<1, 1>>, masalah |-> <<1, 1>>, konfirmasi |-> <<1, 1>>],
    [sumber |-> <<1, 1>>, run |-> <<1, 1>>, usulan |-> <<1, 1>>]}} \cup
 {[tabel |-> t @@ [halaman |-> <<0, 1>>], proses |-> {p1}] : t \in {
    [konteks |-> <<2, 2>>], [sekolah |-> <<2, 2>>], [ts_penugasan |-> <<1, 1>>, ts_log |-> <<0, 1>>],
    [sekolah |-> <<1, 1>>, masalah |-> <<1, 1>>, proses |-> <<1, 1>>, langkah |-> <<1, 1>>,
     konfirmasi |-> <<1, 1>>, koreksi |-> <<0, 1>>]}} \cup
 {[tabel |-> t @@ [salinan |-> <<0, 1>>], proses |-> {p1}] : t \in {
    [dcs_item |-> <<1, 1>>], [wcp_item |-> <<1, 1>>], [ts_penugasan |-> <<1, 1>>, ts_log |-> <<0, 1>>],
    [sekolah |-> <<1, 1>>, masalah |-> <<1, 1>>, proses |-> <<1, 1>>, langkah |-> <<1, 1>>]}} \cup
 {[tabel |-> [konteks |-> <<0, 1>>, halaman |-> <<0, 1>>], proses |-> {p1, p2}],
  [tabel |-> [konteks |-> <<1, 1>>, salinan |-> <<0, 1>>], proses |-> {p1, p2}]}

\* Neighbourhoods of a database that is seeded, dumped and restored.
MCMuatanRawat ==
 {[tabel |-> t @@ [boot |-> <<1, 2>>], proses |-> {p1}] : t \in {
    [konteks |-> <<0, 2>>, masalah |-> <<0, 2>>],
    [cakupan |-> <<0, 2>>], [versi_metode |-> <<0, 2>>],
    [partisipan |-> <<1, 2>>, kode_orang |-> <<0, 2>>, responden |-> <<2, 2>>],
    [dcs_item |-> <<0, 2>>, wcp_item |-> <<2, 3>>],
    [jabatan |-> <<0, 1>>, tp |-> <<0, 1>>, dt |-> <<0, 1>>, ut |-> <<0, 1>>]}} \cup
 {[tabel |-> t @@ [pulih |-> <<0, 1>>, boot |-> <<1, 1>>], proses |-> {p1}] : t \in {
    [konteks |-> <<0, 1>>, cadangan |-> <<0, 2>>],
    [jabatan |-> <<1, 1>>, tp |-> <<1, 1>>, dt |-> <<0, 1>>, cadangan |-> <<0, 1>>]}} \cup
 {[tabel |-> [skema |-> <<1, 1>>, cadangan |-> <<0, 2>>, pulih |-> <<0, 2>>, boot |-> <<1, 2>>], proses |-> {p1, p2}]}

\* Each behaviour has the tables of one neighbourhood of the schema; where the
\* rows are few its requests overlap.
MCMuatan == {[tabel |-> t, proses |-> {p1, p2}] : t \in {
  [konteks |-> <<0, 2>>, versi_metode |-> <<0, 1>>],
  [akun |-> <<0, 2>>, partisipan |-> <<0, 2>>],
  [partisipan |-> <<1, 1>>, kode_orang |-> <<0, 2>>],
  [masalah |-> <<1, 1>>, penilaian |-> <<0, 1>>],
  [kode_orang |-> <<1, 1>>, alternatif |-> <<0, 1>>],
  [masalah |-> <<1, 1>>, sesi |-> <<0, 2>>],
  [sekolah |-> <<1, 1>>, masalah |-> <<0, 1>>, proses |-> <<0, 1>>],
  [jabatan |-> <<1, 1>>, cakupan |-> <<0, 1>>],
  [sme_panel |-> <<1, 1>>, sme_panel_anggota |-> <<0, 2>>],
  [sme_panel |-> <<0, 1>>],
  [ts_penugasan |-> <<0, 1>>, ts_log |-> <<0, 1>>],
  [partisipan |-> <<1, 1>>, sumber |-> <<1, 1>>, run |-> <<0, 1>>, usulan |-> <<0, 1>>],
  [induk |-> <<1, 1>>, setelan |-> <<0, 1>>, setelan_event |-> <<0, 1>>, panggilan |-> <<0, 1>>],
  [setelan |-> <<0, 1>>, setelan_event |-> <<0, 2>>, induk |-> <<1, 1>>],
  [saklar |-> <<0, 3>>, panggilan |-> <<0, 1>>]}} \cup
 {[tabel |-> t, proses |-> {p1}] : t \in {
  [kode_orang |-> <<1, 1>>, cakupan |-> <<0, 1>>],
  [induk |-> <<1, 1>>, setelan |-> <<0, 1>>, setelan_event |-> <<0, 2>>, panggilan |-> <<0, 1>>],
  [sekolah |-> <<2, 2>>, masalah |-> <<0, 1>>, proses |-> <<0, 1>>],
  [sekolah |-> <<1, 1>>, masalah |-> <<2, 2>>, proses |-> <<1, 1>>, langkah |-> <<0, 1>>,
   konfirmasi |-> <<2, 2>>, koreksi |-> <<0, 1>>],
  [setelan |-> <<0, 1>>, setelan_event |-> <<0, 3>>, induk |-> <<1, 1>>],
  [sekolah |-> <<1, 1>>, masalah |-> <<1, 1>>, proses |-> <<1, 1>>, langkah |-> <<1, 1>>,
   bukti |-> <<0, 1>>],
  [jabatan |-> <<1, 1>>, kode_orang |-> <<1, 1>>, alternatif |-> <<0, 1>>],
  [masalah |-> <<1, 1>>, kode_orang |-> <<1, 1>>, penilaian |-> <<0, 1>>],
  [sekolah |-> <<1, 1>>, masalah |-> <<1, 1>>, sesi |-> <<0, 2>>],
  [sekolah |-> <<0, 2>>], [jenjang |-> <<0, 1>>, mapel |-> <<0, 1>>],
  [ts_penugasan |-> <<0, 2>>, ts_log |-> <<0, 1>>],
  [jabatan |-> <<0, 1>>, tp |-> <<0, 1>>, dt |-> <<0, 1>>, ut |-> <<0, 1>>],
  [jabatan |-> <<1, 1>>, tp |-> <<0, 1>>, dt |-> <<0, 1>>, ut |-> <<0, 1>>, ti_sesi |-> <<0, 1>>],
  [sumber |-> <<0, 1>>, run |-> <<0, 1>>, usulan |-> <<0, 1>>],
  [sumber |-> <<2, 2>>, run |-> <<0, 1>>, usulan |-> <<0, 1>>],
  [sumber |-> <<2, 2>>, run |-> <<0, 1>>, permintaan |-> <<0, 1>>, versi |-> <<0, 1>>],
  [sumber |-> <<1, 1>>, versi |-> <<1, 1>>, run |-> <<0, 1>>, usulan |-> <<0, 1>>]}} \cup MCMuatanBaca \cup MCMuatanRawat

\* Two problems, the second of a theme that is not in the distribution.
MCMasalahBaku == <<k1, k2>>
MCItemBaku == {[kode |-> k1, bagian |-> t1, isi |-> t1], [kode |-> k2, bagian |-> t1, isi |-> t1]}

\* One item, of a job that is not there at first.
MCKatalogBaku == {[jabatan |-> k2, tp |-> k1, dt |-> k1, kode |-> k1]}

MCPenilaian == {[indikasi |-> "Tidak terlihat", status_bukti |-> "Diperkuat untuk klaim",
  gap |-> "Tidak", k1 |-> "Tinggi", k2 |-> "Rendah", k3 |-> "Sedang", k4 |-> "Sedang"]}
MCUbahan == {[k1 |-> "Rendah"], [k3 |-> "Rendah"], [gap |-> "Ya"], [indikasi |-> "Ada indikasi"]}

\* Tokens: two words, an address, a name, a word that announces a pupil's name.
Kata == <<"KATA", "k">>
Lain == <<"KATA", "l">>
Surel == <<"EMAIL", "e">>
Nama == <<"NAMA", t1>>
MCNaskah == {<<Kata>>, <<Lain, Nama>>, <<Nama, Surel, Kata>>, <<<<"KONTEKS", "siswa">>, Nama, Kata, Surel>>}
MCPotongan == {<<>>, <<Kata>>, <<Nama, Surel>>}

Simetri == Permutations({p1, p2})

Daun(t, k, n) == [t |-> t, kolom |-> k, nilai |-> n]
Op(t) == [t |-> t]
\* Domains of up to three tokens, an unbalanced one too.
MCDomain(kolom) ==
  LET satu == {Daun(t, k, n) : t \in {"=", "!="}, k \in kolom, n \in {k1, t1, Kosong}}
        \cup {Daun(t, k, {k1, t1}) : t \in {"in", "not in"}, k \in kolom}
        \cup {Daun(t, k, t1) : t \in {"ilike", "not ilike"}, k \in kolom}
      a == {Daun("=", k, t1) : k \in kolom}
      b == {Daun("in", k, {k1, t2}) : k \in kolom} IN
  {<<>>} \cup {<<x>> : x \in satu} \cup {<<x, y>> : x \in a, y \in b} \cup {<<Op("|"), x, y>> : x \in a, y \in b}
  \cup {<<Op("!"), x, y>> : x \in a, y \in b} \cup {<<Op("&"), x>> : x \in a}
MCUrut(d, bawaan, kunci) == IF d = <<>> THEN {<<<<k, turun>>>> : k \in kunci, turun \in BOOLEAN} ELSE {bawaan}
MCAbjad == <<k1, k2, t1, t2>>

\* The run goes on until the first overtaken write or the first page given out.
Ringkas == tumpang = {} /\ Baris("halaman") = {}
===============================================================================
