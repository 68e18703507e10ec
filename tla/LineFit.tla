------------------------------- MODULE LineFit -------------------------------
(***************************************************************************)
(* What fithomography promises of the lines it fits, without its marking   *)
(* loop: each round but the last may turn some green lines red, but only   *)
(* if enough green lines are left, and nothing but these verdicts changes. *)
(***************************************************************************)
EXTENDS Integers, FiniteSets

CONSTANTS
  Linien,   \* the entries of struktur
  Laeufe,   \* maxlauf, the number of rounds
  Mindest,  \* k_max > 10
  Anteil    \* k_max > k_max2*0.8, in percent

Gruen == 1
Rot == -3        \* by the user, or an outlier of an earlier round
Warte == -30     \* marked in the pass that is running
Verworfen == -1  \* dropped by the detection: 0, -1 or -2

Urteile == {Gruen, Rot, Verworfen}
Gruene(u) == {l \in Linien : u[l] = Gruen}

VARIABLES urteil, lauf, korrektur

vars == <<urteil, lauf, korrektur>>

(* globparam and globwinkel before the fit, found by it, or 0 *)
Korrekturen == {"alt", "neu", "null"}

Genug(rest, alle) ==
  /\ Cardinality(rest) > Mindest
  /\ 100 * Cardinality(rest) > Anteil * Cardinality(alle)

(* alt becomes neu by turning outliers red *)
Aussortiert(alt, neu) ==
  \E weg \in SUBSET Gruene(alt) :
    /\ weg # {} => Genug(Gruene(alt) \ weg, Gruene(alt))
    /\ neu = [l \in Linien |-> IF l \in weg THEN Rot ELSE alt[l]]

Init == urteil \in [Linien -> Urteile] /\ lauf = 1 /\ korrektur = "alt"

Runde ==
  /\ lauf < Laeufe
  /\ lauf' = lauf + 1
  /\ Aussortiert(urteil, urteil')
  /\ UNCHANGED korrektur

(* A correction other than 0 rests on two lines at least. *)
Schluss ==
  /\ lauf = Laeufe
  /\ lauf' = Laeufe + 1
  /\ korrektur' \in {"neu", "null"}
  /\ korrektur' = "neu" => Cardinality(Gruene(urteil)) >= 2
  /\ UNCHANGED urteil

Next == Runde \/ Schluss

Spec == Init /\ [][Next]_vars
=============================================================================
