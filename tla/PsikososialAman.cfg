SPECIFICATION Spec
CONSTANTS
  w1 = w1  w2 = w2  d1 = d1   o1 = o1  b1 = b1  b2 = b2  c1 = c1
  Tiada = Tiada
  Batas = {1, 2}
  Nilai = {5}
  WcpProses = {w1, w2}
  WcpOrang = {o1}
  WcpButir = {b1, b2}
  WcpBagian <- MCWcpBagian
  WcpBank0 <- MCWcpBank
  WcpMaks = 1
  Risiko = {"ILO"}
  DcsProses = {d1}
  DcsOrang = {o1}
  DcsButir = {c1}
  DcsBagian <- MCDcsBagian
  DcsBank0 <- MCDcsBank
  DcsMaks = 1
SYMMETRY Simetri
CONSTRAINT Ringkas
INVARIANTS
  BankSeragam
  HasilUtuh
PROPERTIES
  JanjiKuesioner
