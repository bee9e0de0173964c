--------------------------- MODULE KuesionerSekali --------------------------
(***************************************************************************)
(* What a questionnaire promises to those who answer it: the questions are *)
(* not changed once an answer has been submitted; who submits answers      *)
(* every question, while the questionnaire is open, and once; what he      *)
(* submitted then stands until the whole questionnaire is deleted.  Those  *)
(* in lepas are released from the promise: a write overtook what it had    *)
(* read about them.                                                        *)
(***************************************************************************)
CONSTANTS
  Penjawab,     \* those who may answer
  Pertanyaan,   \* questions there may be
  Jawaban,      \* answers to one question
  Belum         \* nothing submitted

VARIABLES
  soal,         \* the questions
  terbuka,      \* whether answers are taken
  kiriman,      \* kiriman[r]: what r submitted
  lepas

kuesioner == <<soal, terbuka, kiriman, lepas>>

BelumAda == [r \in Penjawab |-> Belum]

KuesionerInit ==
  /\ soal \in SUBSET Pertanyaan
  /\ terbuka \in BOOLEAN
  /\ kiriman = BelumAda
  /\ lepas = {}

Susun(S) ==
  /\ kiriman = BelumAda
  /\ soal' = S
  /\ UNCHANGED <<terbuka, kiriman, lepas>>

BukaTutup ==
  /\ terbuka' = ~terbuka
  /\ UNCHANGED <<soal, kiriman, lepas>>

Kirimkan(r, f) ==
  /\ terbuka
  /\ r \notin lepas
  /\ kiriman[r] = Belum
  /\ kiriman' = [kiriman EXCEPT ![r] = f]
  /\ UNCHANGED <<soal, terbuka, lepas>>

\* Once everybody is released there is nothing left to promise of the questions.
Lepaskan(R) ==
  /\ lepas' = lepas \cup R
  /\ kiriman' = [r \in Penjawab |-> IF r \in R THEN Belum ELSE kiriman[r]]
  /\ soal' \in IF R = Penjawab THEN SUBSET Pertanyaan ELSE {soal}
  /\ terbuka' \in BOOLEAN

HapusSemua ==
  /\ soal' = {}
  /\ terbuka' = FALSE
  /\ kiriman' = BelumAda
  /\ UNCHANGED lepas

KuesionerNext ==
  \/ \E S \in SUBSET Pertanyaan : Susun(S)
  \/ BukaTutup
  \/ \E r \in Penjawab, f \in [soal -> Jawaban] : Kirimkan(r, f)
  \/ \E R \in SUBSET Penjawab : Lepaskan(R)
  \/ HapusSemua

KuesionerSpec == KuesionerInit /\ [][KuesionerNext]_kuesioner
===============================================================================
