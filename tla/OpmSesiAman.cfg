SPECIFICATION Spec
CONSTANTS
  pr1 = pr1  pr2 = pr2  o1 = o1  o2 = o2 k1 = k1  k2 = k2
  Proses = {pr1, pr2}
  Orang = {o1, o2}
  Anggota = {o1, o2}
  Kode = {k1, k2}
  Nilai <- MCNilai
  Sebagian = Sebagian
  Tiada = Tiada
  MaksSesi = 1
  MaksBaris = 2
  Batas = {1, 2}
SYMMETRY Simetri
CONSTRAINT Ringkas
INVARIANTS
  AnalisisBerdasar
PROPERTIES
  SnapshotTetap
  JanjiKuesioner
