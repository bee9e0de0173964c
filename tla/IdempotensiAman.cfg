SPECIFICATION FairSpec
CONSTANTS
  Kunci = {k1, k2}
  Permintaan = {p1, p2, p3, p4}
  Nihil = nihil
INVARIANTS
  JawabanSejati
PROPERTIES
  SekaliDitepati
  SemuaBerakhir
CHECK_DEADLOCK FALSE
