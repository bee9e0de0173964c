------------------------------ MODULE MCOpmSesi -----------------------------
EXTENDS OpmSesi, TLC
CONSTANTS pr1, pr2, o1, o2, k1, k2

MCNilai == {<<5, 3, 2>>}

Simetri == Permutations({pr1, pr2}) \cup Permutations({o1, o2}) \cup Permutations({k1, k2})

\* The run goes on until the first overtaken write; once a session
\* exists its source stays frozen, or is deleted while it is DRAFT; one entry of
\* the register; and of two requests that overlap one reads what the other
\* writes, since any others commute.
Berkaitan(p, q) == rencana[p].baca \cap rencana[q].tulis # {}

Ringkas ==
  /\ tumpang = {}
  /\ sesi.id = 0 \/ himpunan # {} \/ (pengirim = {} /\ sesi.status \notin {"OPEN", "CLOSED"})
  /\ Cardinality(register) <= 1
  /\ \A p, q \in Proses :
       p # q /\ rencana[p].aktif /\ rencana[q].aktif => Berkaitan(p, q) \/ Berkaitan(q, p)
===============================================================================
