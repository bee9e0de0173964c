SPECIFICATION Spec
CONSTANTS
  p1 = p1  p2 = p2  t1 = t1  t2 = t2  k1 = k1  k2 = k2
  Tiada = Tiada
  Bekas = Bekas
  Kosong = Kosong
  Proses = {p1, p2}
  Muatan <- MCMuatan
  Lebar = 2
  Teks = {t1, t2}
  Naskah <- MCNaskah
  Potongan <- MCPotongan
  Jenis = {"SINTETIS", "DOKUMEN_RESMI"}
  JenisIzin = {"SINTETIS"}
  ModePii = "BLOKIR"
  Karangan = Karangan
  DomainUji <- MCDomain
  UrutUji <- MCUrut
  Batas = 1
  Abjad <- MCAbjad
  IndukSah = {"n1", "n2"}
  ModelAi = {"claude-haiku", "claude-fable"}
  EffortAi = {"max"}
  AI_MODEL_BAWAAN = "claude-opus"
  Kunci = {k1, k2}
  KolomPenilaian <- MCPenilaian
  UbahanPenilaian <- MCUbahan
  Prioritas = {"P1"}
  Jam = {0, 60, 100}
  Menit = {70, 90}
  KatalogBaku <- MCKatalogBaku
  KonteksBaku = {k1}
  MasalahBaku <- MCMasalahBaku
  CakupanBaku = {k1}
  VersiBaku = {k1}
  ItemBaku <- MCItemBaku
  Rilis = {0, 1}
SYMMETRY Simetri
CONSTRAINT Ringkas
INVARIANTS
  RiwayatLengkap
  BarisSah
  DrafBersih
  PenyediaTerkendali
  HalamanTepat
  SkemaTerjaga
PROPERTIES
  RujukanSejalan
  TulisanBersyarat
  BootMenjaga
