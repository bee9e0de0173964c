\* One person, three versions, three problems, one followed, two threads.
SPECIFICATION Spec
CONSTANTS
  pr1 = pr1  pr2 = pr2  o1 = o1  cerita1 = cerita1
  kurang = kurang  aman = aman  risiko = risiko
  k1 = k1  hipotesis = hipotesis  kasus = kasus
  Proses = {pr1, pr2}
  Orang = {o1}
  Tim = Tim
  Cerita = {TanpaCerita, cerita1}
  TanpaCerita = TanpaCerita
  Isi = {kurang, aman, risiko}
  IsiKosong = kurang
  Lengkap = {aman, risiko}
  Berisiko = {risiko}
  MenyebutBaru = {aman}
  Konteks = {k1}
  Awal = {hipotesis, kasus}
  KeteranganKasus = kasus
  MaksKonfirmasi = 3
  MaksMasalah = 3
  MaksDiikuti = 1
  Nihil = Nihil
SYMMETRY Simetri
CONSTRAINT TanpaTumpang
INVARIANTS
  PenilaianSesudahDugaan
  SatuVersiBerlaku
  MasalahSah
PROPERTIES
  KirimanTetap
