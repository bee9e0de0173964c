----------------------------- MODULE Psikososial ----------------------------
(***************************************************************************)
(* The two psychosocial instruments side by side: WCP, with dimensions of  *)
(* which some measure a risk, and DCS, with sub-scales.  Each is an        *)
(* Instrumen of its own; the results of DCS also count the submitted       *)
(* answers of WCP, whatever the status of WCP.                             *)
(***************************************************************************)
EXTENDS Naturals, FiniteSets, FiniteSetsExt

CONSTANTS
  Tiada,                                        \* no row
  Batas,                                        \* values of min_responden
  Nilai,                                        \* scores, 1 to 5
  WcpProses, WcpOrang, WcpButir, WcpBagian, WcpBank0, WcpMaks,
  Risiko,                                       \* dimensions with is_risk
  DcsProses, DcsOrang, DcsButir, DcsBagian, DcsBank0, DcsMaks

VARIABLES
  wcp, wcpBank, wcpBaris, wcpRencana, wcpTumpang,
  dcs, dcsBank, dcsBaris, dcsRencana, dcsTumpang

wcpVars == <<wcp, wcpBank, wcpBaris, wcpRencana, wcpTumpang>>
dcsVars == <<dcs, dcsBank, dcsBaris, dcsRencana, dcsTumpang>>
semua == <<wcpVars, dcsVars>>

\* reverse_type of an item of WCP; R stands for R_STAR too, which counts alike.
ReverseType == {"F", "R"}

\* arah of an item of DCS.
ArahDcs == {"F", "UF"}

Wcp == INSTANCE Instrumen WITH
  Proses <- WcpProses, Orang <- WcpOrang, Butir <- WcpButir, Bagian <- WcpBagian,
  Arah <- ReverseType, Bank0 <- WcpBank0, MaksBaris <- WcpMaks,
  instrumen <- wcp, bank <- wcpBank, baris <- wcpBaris, rencana <- wcpRencana,
  tumpang <- wcpTumpang

Dcs == INSTANCE Instrumen WITH
  Proses <- DcsProses, Orang <- DcsOrang, Butir <- DcsButir, Bagian <- DcsBagian,
  Arah <- ArahDcs, Bank0 <- DcsBank0, MaksBaris <- DcsMaks,
  instrumen <- dcs, bank <- dcsBank, baris <- dcsBaris, rencana <- dcsRencana,
  tumpang <- dcsTumpang

ASSUME PsikososialAssumption ==
  /\ Wcp!InstrumenAssumption /\ Dcs!InstrumenAssumption
  /\ Nilai \subseteq 1..5

Init == Wcp!Init /\ Dcs!Init

-------------------------------------------------------------------------------
(* The requests of DCS.                                                      *)

DcsUbahInstrumen(p) == \E min \in Batas : Dcs!UbahInstrumen(p, min)
DcsTutup(p) == Dcs!Tutup(p)
DcsBukaUlang(p) == Dcs!BukaUlang(p)
DcsAnalisis(p) == Dcs!Analisis(p)
DcsReset(p) == Dcs!Reset(p)
DcsUbahButir(p) == \E b \in DcsButir, a \in ArahDcs : Dcs!UbahButir(p, b, a)
DcsHapusButir(p) == \E b \in DcsButir : Dcs!HapusButir(p, b)
DcsDaftarkan(p) == \E o \in DcsOrang : Dcs!Daftarkan(p, o)
DcsDaftarkanBanyak(p) == \E minta \in Dcs!Urutan : Dcs!DaftarkanBanyak(p, minta)
DcsHapusResponden(p) == \E i \in DOMAIN dcsBaris : Dcs!HapusResponden(p, i)
DcsSimpanDraf(p) == \E i \in DOMAIN dcsBaris, d \in Dcs!Draf : Dcs!SimpanDraf(p, i, d)
DcsKirimJawaban(p) == \E i \in DOMAIN dcsBaris : Dcs!KirimJawaban(p, i)
DcsTulis(p) == Dcs!Tulis(p)
DcsGagal(p) == Dcs!Gagal(p)

DcsLangkah(p) ==
  \/ DcsUbahInstrumen(p) \/ DcsTutup(p) \/ DcsBukaUlang(p) \/ DcsAnalisis(p)
  \/ DcsReset(p) \/ DcsUbahButir(p) \/ DcsHapusButir(p)
  \/ DcsDaftarkan(p) \/ DcsDaftarkanBanyak(p) \/ DcsHapusResponden(p)
  \/ DcsSimpanDraf(p) \/ DcsKirimJawaban(p)
  \/ DcsTulis(p) \/ DcsGagal(p)

Next ==
  \/ \E p \in WcpProses : Wcp!Langkah(p) /\ UNCHANGED dcsVars
  \/ \E p \in DcsProses : DcsLangkah(p) /\ UNCHANGED wcpVars

Spec == Init /\ [][Next]_semua

-------------------------------------------------------------------------------
(* Results, from what is stored when they are asked for.  A mean is its sum  *)
(* and its count.                                                            *)

\* Mutant: a reversed item is counted from 5 down.
Disesuaikan_Lima(raw, arah) == IF arah \in {"R", "UF"} THEN 5 - raw ELSE raw

\* _adjusted, of both.
Disesuaikan(raw, arah) == IF arah \in {"R", "UF"} THEN 6 - raw ELSE raw

\* The items of a part, and those of them a respondent answered.
ItemWcp(d) == {b \in Wcp!ButirAda : WcpBagian[b] = d}
ItemDcs(s) == {b \in Dcs!ButirAda : DcsBagian[b] = s}

JumlahWcp(i, S) == MapThenSumSet(LAMBDA b : Disesuaikan(wcpBaris[i].jawaban[b], wcpBank[b]), S)
JumlahDcs(i, S) == MapThenSumSet(LAMBDA b : Disesuaikan(dcsBaris[i].jawaban[b], dcsBank[b]), S)

\* compute_hasil_responden of WCP: what was answered of a dimension; the mean
\* of nothing is 0.
SkorWcp(i, d) ==
  LET isi == ItemWcp(d) \cap Wcp!Dijawab(i)
  IN [jumlah |-> JumlahWcp(i, isi), n |-> Cardinality(isi)]

\* compute_hasil: only those with every item of the part are counted.
TerhitungWcp(d) == {i \in Wcp!Terkirim : ItemWcp(d) # {} /\ ItemWcp(d) \subseteq Wcp!Dijawab(i)}
TerhitungDcs(s) == {i \in Dcs!Terkirim : ItemDcs(s) # {} /\ ItemDcs(s) \subseteq Dcs!Dijawab(i)}

HasilWcp(d) ==
  [jumlah |-> MapThenSumSet(LAMBDA i : JumlahWcp(i, ItemWcp(d)), TerhitungWcp(d)),
   n |-> Cardinality(TerhitungWcp(d)) * Cardinality(ItemWcp(d))]

HasilDcs(s) ==
  [jumlah |-> MapThenSumSet(LAMBDA i : JumlahDcs(i, ItemDcs(s)), TerhitungDcs(s)),
   n |-> Cardinality(TerhitungDcs(s)) * Cardinality(ItemDcs(s))]

\* compute_hasil_responden of DCS.
SkorDcs(i, s) ==
  LET isi == ItemDcs(s) \cap Dcs!Dijawab(i)
  IN [jumlah |-> JumlahDcs(i, isi), n |-> Cardinality(isi)]

\* agregat_raw_per_item of an item of DCS: how many answered it, how many did not.
RawDcs(b) ==
  LET isi == {i \in Dcs!Terkirim : b \in Dcs!Dijawab(i)}
  IN [n |-> Cardinality(isi), kosong |-> Cardinality(Dcs!Terkirim) - Cardinality(isi)]

\* Fractions.
Pecahan(atas, bawah) == [atas |-> atas, bawah |-> bawah]
Nol == Pecahan(0, 1)
Ditambah(x, y) ==
  IF x.atas = 0 THEN y ELSE Pecahan(x.atas * y.bawah + y.atas * x.bawah, x.bawah * y.bawah)
Lebih(x, y) == x.atas * y.bawah > y.atas * x.bawah
Bobot(c, x) == Pecahan(c * x.atas, 20 * x.bawah)

\* The mean of a sub-scale as _compute_risk_flag and _compute_k_index read it:
\* 0 when nobody counts, and for an absent sub-scale what get returns.
SubSkala == {DcsBagian[b] : b \in DcsButir}
Bila == [DEMAND |-> 0, CONTROL |-> 5, SUPPORT |-> 5]
RataDcs(s) ==
  IF s \notin SubSkala THEN Pecahan(Bila[s], 1)
  ELSE IF HasilDcs(s).n = 0 THEN Nol ELSE Pecahan(HasilDcs(s).jumlah, HasilDcs(s).n)

\* _compute_wcp_risk_score: the mean of (skor - 1) / 4 over everybody who
\* submitted WCP and every dimension that measures a risk.
RisikoWcp == {SkorWcp(i, d) : i \in Wcp!Terkirim, d \in Risiko}
SkorRisiko ==
  LET S == Wcp!Terkirim \X Risiko
      bagian(x) == LET h == SkorWcp(x[1], x[2]) IN
                   IF h.n = 0 THEN Pecahan(-1, 4 * Cardinality(S))
                              ELSE Pecahan(h.jumlah - h.n, 4 * h.n * Cardinality(S))
  IN MapThenFoldSet(Ditambah, Nol, bagian, LAMBDA T : CHOOSE x \in T : TRUE, S)

\* _compute_risk_flag: what makes it HIGH or MODERATE.
Tinggi == Lebih(RataDcs("DEMAND"), Pecahan(7, 2))
Rendah(s) == Lebih(Pecahan(5, 2), RataDcs(s))
RiskFlag ==
  CASE Tinggi /\ (Rendah("CONTROL") \/ Rendah("SUPPORT")) -> "HIGH"
    [] Tinggi \/ Rendah("CONTROL") \/ Rendah("SUPPORT") -> "MODERATE"
    [] OTHER -> "LOW"

\* _compute_k_index, before it is cut at 1: pressure above 3.5 and deficits
\* below 2.5, each over 1.5, and the component of WCP, weighted in twentieths.
Tekanan == LET x == RataDcs("DEMAND") IN
           IF Tinggi THEN Pecahan(2 * x.atas - 7 * x.bawah, 3 * x.bawah) ELSE Nol
Defisit(s) == LET x == RataDcs(s) IN
              IF Rendah(s) THEN Pecahan(5 * x.bawah - 2 * x.atas, 3 * x.bawah) ELSE Nol
KIndex ==
  Ditambah(Ditambah(Bobot(8, Tekanan), Bobot(2, SkorRisiko)),
           Ditambah(Bobot(5, Defisit("CONTROL")), Bobot(5, Defisit("SUPPORT"))))

\* get_hasil of each: only once it is analysed.
HasilWcpTersedia == wcp.status = "ANALYZED"
HasilDcsTersedia == dcs.status = "ANALYZED"

-------------------------------------------------------------------------------
(* Properties.                                                               *)

\* All submitted answers of an instrument were given to the bank as it is now,
\* and no dimension or sub-scale runs out of items.
BankSeragam == Wcp!BankSeragam /\ Dcs!BankSeragam

\* A score lies within the scale: it is not the 0 that stands for no answer.
DalamSkala(h) == h.n > 0 /\ h.n <= h.jumlah /\ h.jumlah <= 5 * h.n

\* Nobody who has submitted drops out of the results of a dimension or of a
\* sub-scale; the results that are shown, and the WCP component of the K-Index,
\* rest on real scores, never on the 0 of nothing, which would read as a low
\* risk, as a lack of support or, in the component, as less than none.  The
\* K-Index stays from 0 to 1 without being cut, and is no more than the share of
\* WCP where no flag is raised.
HasilUtuh ==
  /\ wcpTumpang = {} =>
       /\ \A b \in WcpButir : TerhitungWcp(WcpBagian[b]) = Wcp!Terkirim
       /\ \A s \in RisikoWcp : DalamSkala(s)
       /\ HasilWcpTersedia => \A b \in WcpButir : DalamSkala(HasilWcp(WcpBagian[b]))
  /\ dcsTumpang = {} =>
       /\ \A b \in DcsButir : TerhitungDcs(DcsBagian[b]) = Dcs!Terkirim
       /\ HasilDcsTersedia => \A b \in DcsButir : DalamSkala(HasilDcs(DcsBagian[b]))
       /\ \A i \in Dcs!Terkirim, b \in DcsButir : DalamSkala(SkorDcs(i, DcsBagian[b]))
       /\ \A b \in Dcs!ButirAda : RawDcs(b).kosong = 0
  /\ HasilDcsTersedia /\ wcpTumpang = {} /\ dcsTumpang = {} /\ Wcp!Terkirim # {} =>
       /\ ~Lebih(Nol, KIndex) /\ ~Lebih(KIndex, Pecahan(1, 1))
       /\ RiskFlag = "LOW" => ~Lebih(KIndex, Bobot(2, Pecahan(1, 1)))

\* Both keep the promise of a questionnaire.
JanjiKuesioner == Wcp!JanjiKuesioner /\ Dcs!JanjiKuesioner
===============================================================================
