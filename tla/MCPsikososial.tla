---------------------------- MODULE MCPsikososial ---------------------------
EXTENDS Psikososial, TLC
CONSTANTS w1, w2, d1, o1, b1, b2, c1

\* Two items of one risk dimension; one item of one sub-scale.
MCWcpBagian == [b \in WcpButir |-> "ILO"]
MCWcpBank == [b \in WcpButir |-> IF b = b1 THEN "R" ELSE "F"]
MCDcsBagian == [b \in DcsButir |-> "DEMAND"]
MCDcsBank == [b \in DcsButir |-> "F"]

Simetri == Permutations({w1, w2})

\* The run goes on until the first overtaken write; of requests that overlap
\* one reads what the other writes, since any others commute.
Berkaitan(r, s) == r.baca \cap s.tulis # {} \/ s.baca \cap r.tulis # {}

Ringkas ==
  /\ wcpTumpang = {} /\ dcsTumpang = {}
  /\ wcpRencana[w1].aktif /\ wcpRencana[w2].aktif => Berkaitan(wcpRencana[w1], wcpRencana[w2])
  /\ \A p \in WcpProses, q \in DcsProses : ~(wcpRencana[p].aktif /\ dcsRencana[q].aktif)
===============================================================================
