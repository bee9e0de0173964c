\* A task frozen as unanimous that nobody submitted.
SPECIFICATION Spec
CONSTANTS
  r1 = r1  r2 = r2  p1 = p1  p2 = p2  p3 = p3  t1 = t1  t2 = t2  u1 = u1
  Responden = {r1, r2}
  Partisipan = {p1, p2}
  Anggota = {p1, p2}
  BedaCabang = {p2}
  Task = {t1, t2}
  Usulan = {u1}
  TanpaUnit = {}
  Nihil = Nihil
PROPERTY BulatBerartiSemua
