----------------------------- MODULE NaskahJanji -----------------------------
(***************************************************************************)
(* What a narrative case promises to whoever reads it, without tables,     *)
(* statuses and runs: a case has no usable text, a text awaiting review,   *)
(* or an approved one.  People may always write; a machine writes only     *)
(* where no usable text stands; people approve exactly the newest writing; *)
(* an approval once given stays on record.                                 *)
(***************************************************************************)
EXTENDS Naturals

CONSTANT Kasus

VARIABLES
  naskah,         \* "TIADA", "KOSONG", "DRAF" or "SAH"
  tulisan,        \* number of writings so far
  sah             \* writings ever approved

naskahVars == <<naskah, tulisan, sah>>

NaskahInit ==
  /\ naskah = [k \in Kasus |-> "TIADA"]
  /\ tulisan = [k \in Kasus |-> 0]
  /\ sah = [k \in Kasus |-> {}]

BukaNaskah(k) ==
  /\ naskah[k] = "TIADA"
  /\ naskah' = [naskah EXCEPT ![k] = "KOSONG"]
  /\ UNCHANGED <<tulisan, sah>>

Tulis(k, ke) ==
  /\ naskah' = [naskah EXCEPT ![k] = ke]
  /\ tulisan' = [tulisan EXCEPT ![k] = @ + 1]
  /\ UNCHANGED sah

OrangMenulis(k) == naskah[k] # "TIADA" /\ Tulis(k, "DRAF")

\* The machine writes a draft, or writes that facts are missing.
MesinMenulis(k) == naskah[k] = "KOSONG" /\ \E ke \in {"DRAF", "KOSONG"} : Tulis(k, ke)

Setujui(k) ==
  /\ naskah[k] = "DRAF"
  /\ naskah' = [naskah EXCEPT ![k] = "SAH"]
  /\ sah' = [sah EXCEPT ![k] = @ \cup {tulisan[k]}]
  /\ UNCHANGED tulisan

Kembalikan(k) ==
  /\ naskah[k] = "DRAF"
  /\ naskah' = [naskah EXCEPT ![k] = "KOSONG"]
  /\ UNCHANGED <<tulisan, sah>>

NaskahNext ==
  \E k \in Kasus :
    \/ BukaNaskah(k)
    \/ OrangMenulis(k)
    \/ MesinMenulis(k)
    \/ Setujui(k)
    \/ Kembalikan(k)

NaskahSpec == NaskahInit /\ [][NaskahNext]_naskahVars
===============================================================================
