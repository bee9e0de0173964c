SPECIFICATION FairSpec
CONSTANTS
  Req = {1, 2}
  Orang = {o1, o2}
  Penyerap = {a1, a2}
  Ekstraksi = {e1}
  Telaah = {t1}
  Batas = 1
  MaksGangguan = 1
  MaksPutusan = 2
  MaksJam = 1
  Nihil = nihil
CONSTRAINT Setara
INVARIANTS
  PutusanTerakhirBenar
  SatuUsulanBerjalan
PROPERTIES
  UsulanTetap
  UsulanDiserap
