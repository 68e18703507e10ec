------------------------------ MODULE LineEdit ------------------------------
(***************************************************************************)
(* Editing the lines of a result with mouse and keyboard, and selecting    *)
(* the part of the result to save: the mouse handlers, OnDelMH, and what   *)
(* the commands do to lines, selections and correction.  The view does not *)
(* capture the mouse: a button may be pressed or released anywhere, so the *)
(* handlers are called in any order and with any buttons held.  Points are *)
(* known by the picture they are in, the lines they are near and the lines *)
(* a rectangle to them encloses.                                           *)
(***************************************************************************)
EXTENDS Integers, FiniteSets

CONSTANTS Linien, Laeufe, Mindest, Anteil,   \* see LineFit
  MaxBilder                                  \* bound on the images opened

ASSUME MaxBilderAssumption == MaxBilder \in Nat
ASSUME LinienAssumption ==
  /\ IsFiniteSet(Linien) /\ Anteil \in 0 .. 100
  /\ Laeufe \in Nat \ {0} /\ Mindest \in Nat \ {0}

VARIABLES
  bild,                \* number of the image; 0: none yet
  struktur_vorhanden, urteil,
  ergebnis_vorhanden, beforeafter,
  korrektur,           \* globparam, globwinkel: "null" (0), "neu" (of a fit)
                       \* or "hand" (of the adjust dialog)
  selection_mouse,     \* lines: 0, 1 whole ones, 2 by their centre
  selection_rect_prec,
  selektion_vorhanden, \* part to save: 0, 1 one corner, 2 a rectangle
  begonnen,            \* history: the button the last selection of lines
                       \* began with, "keine" if a click gave it up
  schnittbild,         \* history: the image the part was selected in
  gefittet,            \* history: urteil after the last fit
  gezogen              \* history: a drag changed lines, the correction stayed

LF == INSTANCE LineFit WITH lauf <- 1

tabelle == <<struktur_vorhanden, urteil>>
ansicht == <<ergebnis_vorhanden, beforeafter>>
auswahl == <<selection_mouse, selection_rect_prec, begonnen>>
schnitt == <<selektion_vorhanden, schnittbild>>
wert    == <<korrektur, gefittet, gezogen>>
editvars == <<bild, tabelle, ansicht, auswahl, schnitt, wert>>

Gruen == LF!Gruen
Rot == LF!Rot
OhneLinien == [l \in Linien |-> LF!Verworfen]
Tasten == {"L", "R"}
Orte == {"ergebnis", "linien", "daneben"}

EditInit ==
  /\ bild = 0 /\ struktur_vorhanden = FALSE /\ urteil = OhneLinien
  /\ ergebnis_vorhanden = FALSE /\ beforeafter = FALSE
  /\ korrektur = "null" /\ gefittet = OhneLinien /\ gezogen = FALSE
  /\ selection_mouse = 0 /\ selection_rect_prec = FALSE
  /\ begonnen = "keine"
  /\ selektion_vorhanden = 0 /\ schnittbild = 0

-----------------------------------------------------------------------------
(* Commands. *)

Leeren ==
  /\ struktur_vorhanden' = FALSE /\ urteil' = OhneLinien
  /\ selektion_vorhanden' = 0
  /\ UNCHANGED <<schnittbild, auswahl>>

(* A load first closes the image that was open; it may fail.  *)
Laden ==
  /\ bild < MaxBilder /\ bild' = bild + 1
  /\ Leeren
  /\ ergebnis_vorhanden' = FALSE /\ beforeafter' = FALSE
  /\ korrektur' = "null" /\ gezogen' = FALSE
  /\ UNCHANGED gefittet

(* fithomography: what LineFit allows in all rounds but the last. *)
NachFit(u) ==
  LET f[n \in 0 .. Laeufe - 1] ==
        IF n = 0 THEN {u}
        ELSE UNION {{v \in [Linien -> LF!Urteile] : LF!Aussortiert(w, v)}
                      : w \in f[n - 1]}
  IN f[Laeufe - 1]

(* The correction becomes that of the lines that are green now. *)
Fit(u) ==
  /\ urteil' \in NachFit(u)
  /\ korrektur' \in IF LF!Cardinality(LF!Gruene(u)) >= 2
                    THEN {"neu", "null"} ELSE {"null"}
  /\ gefittet' = urteil' /\ gezogen' = FALSE

(* OnGo, also as the end of OnParam; it finds lines or not. *)
Go ==
  /\ bild > 0
  /\ \/ /\ struktur_vorhanden' = TRUE /\ ergebnis_vorhanden' = TRUE
        /\ \E u \in [Linien -> LF!Urteile] :
             LF!Cardinality(LF!Gruene(u)) >= 2 /\ Fit(u)
        /\ beforeafter' = FALSE
        /\ selektion_vorhanden' = IF ergebnis_vorhanden THEN 0 ELSE selektion_vorhanden
        /\ UNCHANGED <<schnittbild, auswahl>>
     \/ /\ Leeren
        /\ ergebnis_vorhanden' = FALSE
        /\ UNCHANGED <<beforeafter, wert>>
  /\ UNCHANGED bild

(* A rectangle selected in the old result stays for the new one. *)
Reoptimize ==
  /\ struktur_vorhanden
  /\ Fit(urteil)
  /\ beforeafter' = FALSE
  /\ UNCHANGED <<bild, struktur_vorhanden, ergebnis_vorhanden, auswahl, schnitt>>

(* OnAnwendenKorrekturanpassen, confirmed: values by hand, without lines.  *)
Anpassen ==
  /\ bild > 0
  /\ Leeren
  /\ ergebnis_vorhanden' = TRUE /\ beforeafter' = FALSE
  /\ korrektur' = "hand" /\ gezogen' = FALSE
  /\ UNCHANGED <<bild, gefittet>>

(* OnUpMH and OnDownMH switch between result and original. *)
Umschalten_Bug ==
  /\ ergebnis_vorhanden
  /\ beforeafter' = ~beforeafter
  /\ UNCHANGED <<bild, tabelle, ergebnis_vorhanden, auswahl, schnitt, wert>>
Umschalten ==
  /\ ergebnis_vorhanden
  /\ beforeafter' = ~beforeafter /\ selektion_vorhanden' = 0
  /\ UNCHANGED <<bild, tabelle, ergebnis_vorhanden, auswahl, schnittbild, wert>>

(* OnSize, and OnSetFocus, which every dialog but Save As ends with; also  *)
(* schreibe_bild, if the rectangle is less than three points wide or high. *)
Aufheben ==
  /\ selektion_vorhanden > 0
  /\ selektion_vorhanden' = 0
  /\ UNCHANGED <<bild, tabelle, ansicht, auswahl, schnittbild, wert>>

(* OnDelMH: the correction goes even if there are no lines. *)
DelMH ==
  /\ korrektur' = "null" /\ gezogen' = FALSE
  /\ \E sichtbar \in BOOLEAN :
       urteil' = IF struktur_vorhanden /\ sichtbar
                 THEN [l \in Linien |->
                        IF urteil[l] = Gruen THEN Rot
                        ELSE IF urteil[l] = Rot /\ LF!Gruene(urteil) = {} THEN Gruen
                        ELSE urteil[l]]
                 ELSE urteil
  /\ UNCHANGED <<bild, struktur_vorhanden, ansicht, auswahl, schnitt, gefittet>>

-----------------------------------------------------------------------------
(* The mouse.  The left button makes green lines red, the right one red    *)
(* lines green.                                                            *)

BeiLinien(ort) == ort = "linien" /\ struktur_vorhanden
BeiErgebnis(ort) == ort = "ergebnis" /\ ergebnis_vorhanden /\ ~beforeafter

Gefaerbt(S, t) ==
  LET von == IF t = "L" THEN Gruen ELSE Rot
      nach == IF t = "L" THEN Rot ELSE Gruen
  IN [l \in Linien |-> IF l \in S /\ urteil[l] = von THEN nach ELSE urteil[l]]

(* A button goes down.  A click counts if a point of the colour  *)
(* is near (trifft), which lines on top of each other may hide.            *)
ButtonDown(t) ==
  \E ort \in Orte, modus \in 0 .. 2, nah \in SUBSET Linien, trifft \in BOOLEAN :
    /\ IF BeiLinien(ort) /\ modus > 0
       THEN selection_mouse' = modus /\ begonnen' = t /\ UNCHANGED selection_rect_prec
       ELSE IF BeiLinien(ort)
       THEN selection_mouse' = 0 /\ selection_rect_prec' = FALSE /\ begonnen' = "keine"
       ELSE UNCHANGED auswahl
    /\ IF BeiLinien(ort) /\ modus = 0 /\ trifft
       THEN urteil' = Gefaerbt(nah, t) /\ korrektur' = "null" /\ gezogen' = FALSE
       ELSE UNCHANGED <<urteil, korrektur, gezogen>>
    /\ IF BeiErgebnis(ort)
       THEN selektion_vorhanden' = 1 /\ schnittbild' = bild
       ELSE UNCHANGED schnitt
    /\ UNCHANGED <<bild, struktur_vorhanden, ansicht, gefittet>>

OnLButtonDown == ButtonDown("L")
OnRButtonDown == ButtonDown("R")

(* OnMouseMove draws the selection's frame, or draws the rectangle of the  *)
(* part to save and colours lines, without a new correction.               *)
MouseMove(gehalten) ==
  IF selection_mouse > 0
  THEN /\ selection_rect_prec' = TRUE
       /\ UNCHANGED <<bild, tabelle, ansicht, selection_mouse, begonnen, schnitt, wert>>
  ELSE \E ort \in Orte, nah \in SUBSET Linien :
       /\ selektion_vorhanden' = IF selektion_vorhanden > 0 /\ BeiErgebnis(ort)
                                    /\ gehalten # {}
                                 THEN 2 ELSE selektion_vorhanden
       /\ \/ /\ BeiLinien(ort)
             /\ \E t \in Tasten : gehalten = {t} /\ urteil' = Gefaerbt(nah, t)
          \/ UNCHANGED urteil
       /\ gezogen' = (gezogen \/ urteil' # urteil)
       /\ UNCHANGED <<bild, struktur_vorhanden, ansicht, auswahl, schnittbild,
                      korrektur, gefittet>>

(* A button goes up.  The selection of lines ends with either.             *)
AuswahlWertet_Bug == UNCHANGED <<korrektur, gezogen>>
AuswahlWertet == korrektur' = "null" /\ gezogen' = FALSE

ButtonUp(t) ==
  \E ort \in Orte, innen \in SUBSET Linien, andere \in BOOLEAN :
    IF selection_mouse # 0
    THEN /\ urteil' = IF struktur_vorhanden THEN Gefaerbt(innen, t) ELSE urteil
         /\ AuswahlWertet
         /\ selection_mouse' = 0 /\ selection_rect_prec' = FALSE
         /\ UNCHANGED <<bild, struktur_vorhanden, ansicht, begonnen, schnitt, gefittet>>
    ELSE /\ selektion_vorhanden' = IF selektion_vorhanden > 0 /\ BeiErgebnis(ort)
                                   THEN (IF andere THEN 1 ELSE 2)
                                   ELSE selektion_vorhanden
         /\ UNCHANGED <<bild, tabelle, ansicht, auswahl, schnittbild, wert>>

OnLButtonUp == ButtonUp("L")
OnRButtonUp == ButtonUp("R")

EditNext ==
  \/ Laden \/ Go \/ Reoptimize \/ Anpassen \/ Umschalten \/ Aufheben \/ DelMH
  \/ OnLButtonDown \/ OnRButtonDown \/ OnLButtonUp \/ OnRButtonUp
  \/ (\E gehalten \in SUBSET Tasten : MouseMove(gehalten))

EditSpec == EditInit /\ [][EditNext]_editvars

-----------------------------------------------------------------------------
(* Lines are only there with a result. *)
EditTypeOK ==
  /\ bild \in 0 .. MaxBilder
  /\ struktur_vorhanden \in BOOLEAN /\ ergebnis_vorhanden \in BOOLEAN
  /\ struktur_vorhanden => ergebnis_vorhanden
  /\ urteil \in [Linien -> LF!Urteile] /\ gefittet \in [Linien -> LF!Urteile]
  /\ beforeafter \in BOOLEAN /\ korrektur \in {"null", "neu", "hand"}
  /\ selection_mouse \in 0 .. 2 /\ selection_rect_prec \in BOOLEAN
  /\ selektion_vorhanden \in 0 .. 2 /\ schnittbild \in 0 .. MaxBilder
  /\ begonnen \in Tasten \cup {"keine"} /\ gezogen \in BOOLEAN

(* A correction that is not 0 is the one found for the verdicts there are: *)
(* every edit sets it back, except for lines coloured while dragging.      *)
KorrekturZuLinien ==
  struktur_vorhanden /\ korrektur = "neu" /\ ~gezogen => urteil = gefittet

(* A rectangle to save is one of the result that is shown: it survives no  *)
(* load, no loss of the result and no look at the original.                *)
AusschnittPasst ==
  selektion_vorhanden > 0 =>
    ergebnis_vorhanden /\ ~beforeafter /\ schnittbild = bild

(* The help text: "CTRL + left button + move = lines into select rectangle *)
(* in red" (ShiftNView.cpp:2570).  The code asks which button was released *)
(* and not which one began.                                                *)
LinksMachtRot ==
  [][selection_mouse > 0 /\ selection_mouse' = 0 /\ begonnen' = "L"
     => \A l \in Linien : urteil[l] = Rot => urteil'[l] = Rot]_editvars
=============================================================================
