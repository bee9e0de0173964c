SPECIFICATION FairSpec
CONSTANTS
  Req = {r1, r2}
  Worker = {w1, w2}
  Mode = {api}
  MaksPercobaan = 2
  MaksGangguan = 1
  MaksUbah = 1
  Nihil = nihil
INVARIANTS
  VonisSejalan
  SatuPelaksana
PROPERTIES
  SaklarDihormati
  JanjiDipenuhi
  SemuaDiputus
