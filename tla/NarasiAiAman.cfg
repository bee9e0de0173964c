SPECIFICATION FairSpec
CONSTANTS
  Kasus = {k1}
  Orang = {o1, o2}
  MaksVersi = 2
  MaksEvent = 1
  Nihil = nihil
  Req = {1, 2}
  Penyerap = {a1, a2}
  Batas = 2
  Rusak = {1}
  MaksGangguan = 1
INVARIANTS
  RantaiLurus
  MesinTidakMenimpa
  SerapanSejalan
PROPERTIES
  NaskahDitepati
  SemuaDiserap
