---------------------------- MODULE Fithomography ----------------------------
(***************************************************************************)
(* fithomography: maxlauf rounds that each search the correction for the   *)
(* green lines; every round but the last then looks for outliers with a    *)
(* threshold that falls from pass to pass.  A line over the threshold is   *)
(* marked, and turned red by the next pass; the lines marked by the last   *)
(* pass are green again.  Angles and distances are left out: which lines a *)
(* pass finds over its threshold, and whether a search finds usable lines, *)
(* are choices.                                                            *)
(***************************************************************************)
EXTENDS Integers, FiniteSets

CONSTANTS Linien, Laeufe, Mindest, Anteil,
  Stufen    \* passes until r_mol, 5 % smaller each time, is down to 2

ASSUME FitAssumption ==
  /\ IsFiniteSet(Linien)
  /\ Laeufe \in Nat \ {0} /\ Mindest \in Nat \ {0}
  /\ Anteil \in 0 .. 100 /\ Stufen \in Nat

VARIABLES
  urteil, lauf, korrektur,
  ort,            \* "suche", "pruefe" (the outlier loop) or "fertig"
  stufe,          \* passes of this round, stands for r_mol
  k_max, k_max2,
  nrind,          \* some search had two usable lines
  vorher          \* history: urteil when the round began

fitvars == <<urteil, lauf, korrektur, ort, stufe, k_max, k_max2, nrind, vorher>>

(* The abstract fit sees the verdicts at the end of each round. *)
LF == INSTANCE LineFit WITH
        urteil <- IF ort = "pruefe" THEN vorher ELSE urteil

Gruen == LF!Gruen
Rot == LF!Rot
Warte == LF!Warte
Gruene == LF!Gruene(urteil)

FitInit ==
  /\ urteil \in [Linien -> LF!Urteile] /\ vorher = urteil
  /\ lauf = 1 /\ korrektur = "alt" /\ ort = "suche"
  /\ stufe = 0 /\ k_max = 0 /\ k_max2 = 0 /\ nrind = FALSE

(* Both searches only count lines that are not level (nri > 1). *)
Gesucht ==
  \E gefunden \in BOOLEAN :
    /\ gefunden => Cardinality(Gruene) >= 2
    /\ nrind' = (nrind \/ gefunden)

Suche ==
  /\ ort = "suche" /\ lauf < Laeufe
  /\ Gesucht
  /\ k_max' = Cardinality(Gruene) /\ k_max2' = Cardinality(Gruene)
  /\ stufe' = 0 /\ ort' = "pruefe" /\ vorher' = urteil
  /\ UNCHANGED <<urteil, lauf, korrektur>>

Weiter_Bug == k_max > Mindest /\ stufe < Stufen
Weiter == k_max > Mindest /\ stufe < Stufen /\ 100 * k_max > Anteil * k_max2

Durchgang ==
  /\ ort = "pruefe" /\ Weiter
  /\ \E drueber \in SUBSET Gruene :
       /\ urteil' = [l \in Linien |-> IF urteil[l] = Warte THEN Rot
                                      ELSE IF l \in drueber THEN Warte
                                      ELSE urteil[l]]
       /\ k_max' = Cardinality(Gruene \ drueber)
  /\ stufe' = stufe + 1
  /\ UNCHANGED <<lauf, korrektur, ort, k_max2, nrind, vorher>>

RundeEnde_Bug ==
  /\ ort = "pruefe" /\ ~Weiter
  /\ urteil' = [l \in Linien |-> IF urteil[l] = Warte /\ k_max <= Mindest
                                 THEN Gruen ELSE urteil[l]]
  /\ lauf' = lauf + 1 /\ ort' = "suche"
  /\ UNCHANGED <<korrektur, stufe, k_max, k_max2, nrind, vorher>>
RundeEnde ==
  /\ ort = "pruefe" /\ ~Weiter
  /\ urteil' = [l \in Linien |-> IF urteil[l] = Warte THEN Gruen ELSE urteil[l]]
  /\ lauf' = lauf + 1 /\ ort' = "suche"
  /\ UNCHANGED <<korrektur, stufe, k_max, k_max2, nrind, vorher>>

Schluss ==
  /\ ort = "suche" /\ lauf = Laeufe
  /\ Gesucht
  /\ korrektur' = IF nrind' THEN "neu" ELSE "null"
  /\ lauf' = lauf + 1 /\ ort' = "fertig"
  /\ UNCHANGED <<urteil, stufe, k_max, k_max2, vorher>>

FitNext == Suche \/ Durchgang \/ RundeEnde \/ Schluss

FitSpec == FitInit /\ [][FitNext]_fitvars

-----------------------------------------------------------------------------
FitTypeOK ==
  /\ urteil \in [Linien -> LF!Urteile \cup {Warte}]
  /\ vorher \in [Linien -> LF!Urteile]
  /\ lauf \in 1 .. Laeufe + 1 /\ korrektur \in LF!Korrekturen
  /\ ort \in {"suche", "pruefe", "fertig"} /\ stufe \in 0 .. Stufen
  /\ k_max \in Nat /\ k_max2 \in Nat /\ nrind \in BOOLEAN

(* Inside a round: a line keeps its verdict, or was green when it began;   *)
(* and the lines that are or may again be green at its end are all of      *)
(* them, or enough.                                                        *)
InDerRunde ==
  /\ \A l \in Linien : urteil[l] = vorher[l]
                       \/ (vorher[l] = Gruen /\ urteil[l] \in {Rot, Warte})
  /\ k_max = Cardinality(Gruene)
  /\ k_max2 = Cardinality(LF!Gruene(vorher))
  /\ LET bleibt == {l \in Linien : urteil[l] \in {Gruen, Warte}}
     IN bleibt = LF!Gruene(vorher) \/ LF!Genug(bleibt, LF!Gruene(vorher))

(* No line is left marked outside a round, the counts that decide whether  *)
(* the loop goes on are those of the green lines, and a correction is only *)
(* ever found while two green lines are there.                             *)
FitInv ==
  /\ FitTypeOK
  /\ ort = "pruefe" => InDerRunde /\ lauf < Laeufe
  /\ ort # "pruefe" => urteil \in [Linien -> LF!Urteile]
  /\ nrind => Cardinality(LF!Gruene(IF ort = "pruefe" THEN vorher ELSE urteil)) >= 2

(* fithomography's marking loop (1501-1535) implements LineFit: no mark    *)
(* survives a round, a line the user made red stays red, and a round never *)
(* takes so many lines that ten or fewer, or four fifths or fewer, remain. *)
ErfuelltLineFit == LF!Spec
=============================================================================
