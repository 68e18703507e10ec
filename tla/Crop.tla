-------------------------------- MODULE Crop --------------------------------
(***************************************************************************)
(* From the mouse to the part of the result that a save writes: the        *)
(* rectangle drawn with the left or the right button (the right one keeps  *)
(* the picture's proportions), the part schreibe_bild makes of it, and the *)
(* largest rectangle without background that cutter looks for.             *)
(* Mouse positions count from the corner of the shown result (the window's *)
(* point <<13, 13>>).  Lengths of cutter are in units of 1/Einheit of a    *)
(* pixel of the analysed picture, ifak2 in units of 1/Teiler.               *)
(***************************************************************************)
EXTENDS Integers, FiniteSets

CONSTANTS
  Bilder,      \* pictures with a result, see Bild below
  Einheit,     \* steps of cutter per pixel: 100 in the code
  Punkte,      \* where the mouse can be met
  MaxZuege,    \* bound on the moves of one gesture
  Teiler,      \* steps of ifak2 from one to two: 100 in the code
  Dehnungen    \* ifak, in these steps: root of the area in the photo by the area selected

Bild == [xg : Nat \ {0}, yg : Nat \ {0},     \* x_global, y_global
         mf : Nat \ {0},                     \* mfaktor
         zoom : (Nat \ {0}) \X (Nat \ {0}),  \* kf as a fraction
         P : [0 .. 3 -> Int \X Int],         \* the photo's corners in the result
         mitte : Nat \X Nat]                 \* its centre

(* cutter: a point is beyond an edge of the photo. *)
Jenseits(p, a, b) ==
  (p[1] - a[1]) * (b[2] - a[2]) + (p[2] - a[2]) * (a[1] - b[1]) > 0
Aussen(b, p) == \E k \in 0 .. 3 : Jenseits(p, b.P[k], b.P[(k + 1) % 4])
ImErgebnis(b, p) == /\ p[1] \in 0 .. Einheit * b.xg
                    /\ p[2] \in 0 .. Einheit * b.yg

ASSUME EinheitAssumption == Einheit \in Nat \ {0}
ASSUME BilderAssumption ==
  /\ Bilder \subseteq Bild
  /\ \A b \in Bilder : ImErgebnis(b, b.mitte) /\ ~Aussen(b, b.mitte)
ASSUME PunkteAssumption == Punkte \subseteq Nat \X Nat
ASSUME DehnungenAssumption == Dehnungen \subseteq Nat
ASSUME TeilerAssumption == Teiler \in Nat \ {0}
ASSUME ZuegeAssumption == MaxZuege \in Nat

VARIABLES
  bild,
  selektion_vorhanden,   \* 0 none, 1 first corner, 2 a rectangle
  m_rect,                \* [left, top, right, bottom]
  x, y, loslassen,       \* locals of the mouse handler (0 outside of its
                         \* loops); whether it handles a button-up
  zuege,                 \* moves of this gesture, for the bound
  ort,                   \* "frei", in a loop ("weiten", "verengen",
                         \* "cutter"), or "geschnitten": the part is known
  px,                    \* cutter's direction: py is 2 - px
  rand,                  \* cutter's [links, rechts, unten, oben]
  schnitt                \* the part: see Teil

mausvars == <<selektion_vorhanden, m_rect, x, y, loslassen, zuege>>
cropvars == <<bild, mausvars, ort, px, rand, schnitt>>

xf == bild.xg
yf == bild.yg
Breite == (xf * bild.zoom[1]) \div bild.zoom[2]    \* afr - afl
Hoehe  == (yf * bild.zoom[1]) \div bild.zoom[2]    \* afu - afo
Gross == Breite > 20 /\ Hoehe > 20
Abs(n) == IF n < 0 THEN -n ELSE n

Rechteck == [left : Int, top : Int, right : Int, bottom : Int]
Rand == [links : Int, rechts : Int, unten : Int, oben : Int]
Teil == [art : {"ganz", "auswahl", "beschnitten"}, x_min : Int, x_max : Int,
         y_min : Int, y_max : Int, ifak2 : Nat]
Ganz == [art |-> "ganz", x_min |-> 0, x_max |-> xf, y_min |-> 0, y_max |-> yf,
         ifak2 |-> Teiler]

KeinRechteck == [left |-> 0, top |-> 0, right |-> 0, bottom |-> 0]
KeinRand == [links |-> 0, rechts |-> 0, unten |-> 0, oben |-> 0]

CropInit ==
  /\ bild \in Bilder
  /\ selektion_vorhanden = 0
  /\ m_rect = KeinRechteck
  /\ x = 0 /\ y = 0 /\ loslassen = FALSE /\ zuege = 0
  /\ ort = "frei"
  /\ px = 1
  /\ rand = KeinRand
  /\ schnitt = Ganz

-----------------------------------------------------------------------------
(* The mouse. *)

Normal(r) ==    \* CRect::NormalizeRect
  [left   |-> IF r.left > r.right THEN r.right ELSE r.left,
   right  |-> IF r.left > r.right THEN r.left ELSE r.right,
   top    |-> IF r.top > r.bottom THEN r.bottom ELSE r.top,
   bottom |-> IF r.top > r.bottom THEN r.top ELSE r.bottom]

ImBild(a, b) == Gross /\ a \in 0 .. Breite /\ b \in 0 .. Hoehe

(* A button goes down, or one goes up while the other is held. *)
Druecken(a, b) ==
  /\ ort = "frei" /\ ImBild(a, b)
  /\ \/ m_rect' = [m_rect EXCEPT !.left = a, !.top = b]
     \/ selektion_vorhanden > 0
        /\ m_rect' = Normal([m_rect EXCEPT !.left = a, !.top = b])
  /\ selektion_vorhanden' = 1 /\ zuege' = 0
  /\ UNCHANGED <<bild, x, y, loslassen, ort, px, rand, schnitt>>

(* Moved or released with the left button. *)
ZiehenLinks(a, b) ==
  /\ ort = "frei" /\ ImBild(a, b) /\ selektion_vorhanden > 0
  /\ LET r == [m_rect EXCEPT !.right = a, !.bottom = b]
     IN m_rect' \in {r, Normal(r)}
  /\ selektion_vorhanden' = 2
  /\ zuege < MaxZuege /\ zuege' = zuege + 1
  /\ UNCHANGED <<bild, x, y, loslassen, ort, px, rand, schnitt>>

Klammer(n) == IF n < 0 THEN 0 ELSE IF n > Breite THEN Breite ELSE n

(* The end of a handler of the right button: a and l are x and m_rect.left.*)
Setze(a, b, l, los) ==
  LET r == [m_rect EXCEPT !.left = Klammer(l), !.right = Klammer(a),
                          !.bottom = b]
  IN m_rect' = IF los THEN Normal(r) ELSE r

(* A rectangle that is too flat keeps no proportions. *)
Hoch_Bug(b) == Abs(b - m_rect.top) > 0
Hoch(b) == Abs(b - m_rect.top) > 3

(* Moved or released with the right button. *)
ZiehenRechts(a, b) ==
  /\ ort = "frei" /\ ImBild(a, b) /\ selektion_vorhanden > 0
  /\ \E los \in BOOLEAN :
       /\ loslassen' = (los /\ Hoch(b))
       /\ IF Hoch(b)
          THEN ort' = "weiten" /\ x' = a /\ y' = b /\ UNCHANGED m_rect
          ELSE Setze(a, b, m_rect.left, los) /\ UNCHANGED <<ort, x, y>>
  /\ selektion_vorhanden' = 2
  /\ zuege < MaxZuege /\ zuege' = zuege + 1
  /\ UNCHANGED <<bild, px, rand, schnitt>>

(* Both sides move by one, apart or towards each other. *)
Beide(richtung) ==
  LET d == IF x > m_rect.left THEN richtung ELSE -richtung
  IN x' = x + d /\ m_rect' = [m_rect EXCEPT !.left = @ - d]

(* |x - left| / |y - top| against x_global / y_global *)
Schmaler == Abs(x - m_rect.left) * yf < xf * Abs(y - m_rect.top)
Breiter  == Abs(x - m_rect.left) * yf > xf * Abs(y - m_rect.top)

Weiten ==
  /\ ort = "weiten"
  /\ IF Schmaler THEN Beide(1) /\ UNCHANGED ort
                 ELSE ort' = "verengen" /\ UNCHANGED <<x, m_rect>>
  /\ UNCHANGED <<bild, selektion_vorhanden, y, loslassen, zuege, px, rand, schnitt>>

Verengen ==
  /\ ort = "verengen"
  /\ IF Breiter
     THEN Beide(-1) /\ UNCHANGED <<ort, y, loslassen>>
     ELSE /\ Setze(x, y, m_rect.left, loslassen)
          /\ ort' = "frei" /\ x' = 0 /\ y' = 0 /\ loslassen' = FALSE
  /\ UNCHANGED <<bild, selektion_vorhanden, zuege, px, rand, schnitt>>

(* A button is released outside of the picture. *)
Loslassen ==
  /\ ort = "frei"
  /\ m_rect' = Normal(m_rect)
  /\ UNCHANGED <<bild, selektion_vorhanden, x, y, loslassen, zuege, ort, px, rand, schnitt>>

(* OnSize, and OnSetFocus in a window that shows a rectangle.  The code     *)
(* leaves old corners in m_rect; what they can do before both corners are  *)
(* new is seen after Druecken, which keeps one of them.                    *)
Verwerfen ==
  /\ ort = "frei" /\ selektion_vorhanden > 0
  /\ selektion_vorhanden' = 0
  /\ m_rect' = KeinRechteck /\ zuege' = 0
  /\ UNCHANGED <<bild, x, y, loslassen, ort, px, rand, schnitt>>

Maus == \/ \E p \in Punkte : \/ Druecken(p[1], p[2])
                              \/ ZiehenLinks(p[1], p[2]) \/ ZiehenRechts(p[1], p[2])
        \/ Loslassen \/ Verwerfen

-----------------------------------------------------------------------------
(* schreibe_bild: the part of the result.  Rows of y_min and y_max count   *)
(* from the bottom.                                                        *)

(* A pixel of the window to a pixel of the result: (int) (n / kf). *)
Pixel(n) == (n * bild.zoom[2]) \div bild.zoom[1]

Auswahl_Bug(r) ==
  [art |-> "auswahl", ifak2 |-> Teiler, x_min |-> Pixel(r.left), x_max |-> xf,
   y_min |-> 0, y_max |-> yf - Pixel(r.top)]
Auswahl(r) ==
  LET y0 == yf - 2 - Pixel(r.bottom)
      y1 == yf - 1 - Pixel(r.top)
      x1 == 1 + Pixel(r.right)
      t == [art |-> "auswahl", ifak2 |-> Teiler,
            y_min |-> IF y0 < 0 THEN 0 ELSE y0,
            y_max |-> IF y1 > yf THEN yf ELSE y1,
            x_min |-> Pixel(r.left),
            x_max |-> IF x1 > xf THEN xf ELSE x1]
  IN IF t.x_max = t.x_min \/ t.y_max = t.y_min THEN Ganz ELSE t

(* Where the photo is finer than the result, the part is written larger:   *)
(* ifak2 grows by 0.01 while it is below ifak and the size below the whole *)
(* picture's, and then takes its last step back.                           *)
Zu(n, f) == (n * f) \div Teiler
Weiter(t, f, ifak) ==
  f < ifak /\ Zu(t.x_max - t.x_min, f) < xf /\ Zu(t.y_max - t.y_min, f) < yf
HaeltBei_Bug(t, f, ifak) ==
  /\ ~Weiter(t, f, ifak)
  /\ f = Teiler \/ Weiter(t, f - 1, ifak)
HaeltBei(t, f, ifak) ==
  \/ f = Teiler /\ ~Weiter(t, f, ifak)
  \/ Weiter(t, f, ifak) /\ ~Weiter(t, f + 1, ifak)

(* A rectangle of less than three pixels is none. *)
Zaehlt(r) == r.bottom - r.top >= 3 /\ r.right - r.left >= 3

SchneideAuswahl ==
  /\ ort = "frei" /\ selektion_vorhanden > 1
  /\ Zaehlt(Normal(m_rect))
  /\ m_rect' = Normal(m_rect)
  /\ LET t == Auswahl(Normal(m_rect))
     IN \E ifak \in Dehnungen \cup {Teiler} :
          \E f \in Teiler .. ifak :
            HaeltBei(t, f, ifak) /\ schnitt' = [t EXCEPT !.ifak2 = f]
  /\ ort' = "geschnitten"
  /\ UNCHANGED <<bild, selektion_vorhanden, x, y, loslassen, zuege, px, rand>>

(* The first lines of schreibe_bild where no rectangle counts: the whole   *)
(* picture, or cutter for the one direction whose rectangle is best; which *)
(* one that is depends on areas left out here.                             *)
OhneAuswahl ==
  /\ ort = "frei"
  /\ \/ /\ selektion_vorhanden <= 1
        /\ UNCHANGED <<selektion_vorhanden, m_rect>>
     \/ /\ selektion_vorhanden > 1 /\ ~Zaehlt(Normal(m_rect))
        /\ m_rect' = Normal(m_rect) /\ selektion_vorhanden' = 0
  /\ \/ /\ ort' = "geschnitten"       \* not beschneiden
        /\ schnitt' = Ganz
        /\ UNCHANGED <<px, rand>>
     \/ /\ ort' = "cutter"            \* beschneiden
        /\ px' \in 1 .. 2 * Einheit - 1
        /\ rand' = [links |-> bild.mitte[1], rechts |-> bild.mitte[1],
                    unten |-> bild.mitte[2], oben |-> bild.mitte[2]]
        /\ UNCHANGED schnitt
  /\ UNCHANGED <<bild, x, y, loslassen, zuege>>

-----------------------------------------------------------------------------
(* cutter: all four sides move out; those that leave the result, and the   *)
(* two of every corner that leaves the photo, are taken back.              *)
py == 2 * Einheit - px
Weit == [links  |-> rand.links - px, rechts |-> rand.rechts + px,
         unten  |-> rand.unten - py, oben   |-> rand.oben + py]

Waagrecht == {"links", "rechts"}
Senkrecht == {"unten", "oben"}
Seiten == Waagrecht \cup Senkrecht

Hinaus(s) == CASE s = "links"  -> Weit.links < 0
               [] s = "rechts" -> Weit.rechts > Einheit * xf
               [] s = "unten"  -> Weit.unten < 0
               [] s = "oben"   -> Weit.oben > Einheit * yf

(* The sides to take back, as ind marks them. *)
Zurueck_Bug == {s \in Seiten : Hinaus(s)}
Zurueck ==
  {s \in Seiten :
     \/ Hinaus(s)
     \/ s \in Waagrecht /\ \E z \in Senkrecht : Aussen(bild, <<Weit[s], Weit[z]>>)
     \/ s \in Senkrecht /\ \E w \in Waagrecht : Aussen(bild, <<Weit[w], Weit[s]>>)}

Neu(s) == IF s \in Zurueck THEN rand[s] ELSE Weit[s]

(* The rectangle found, one pixel smaller all round. *)
Beschnitt ==
  LET t == [art |-> "beschnitten", ifak2 |-> Teiler,
            y_min |-> yf - rand.oben \div Einheit,
            y_max |-> yf - 2 - rand.unten \div Einheit,
            x_min |-> rand.links \div Einheit + 1,
            x_max |-> rand.rechts \div Einheit - 1]
  IN IF t.x_max - t.x_min \in 5 .. xf /\ t.y_max - t.y_min \in 5 .. yf
     THEN t ELSE Ganz

Wachsen ==
  /\ ort = "cutter"
  /\ rand' = [links |-> Neu("links"), rechts |-> Neu("rechts"),
              unten |-> Neu("unten"), oben |-> Neu("oben")]
  /\ IF Zurueck # Seiten
     THEN UNCHANGED <<ort, schnitt>>
     ELSE ort' = "geschnitten" /\ schnitt' = Beschnitt
  /\ UNCHANGED <<bild, mausvars, px>>

-----------------------------------------------------------------------------
(* What is sampled. *)

(* The size of the part, in pixels of the analysed picture. *)
max_statt_i == Zu(schnitt.x_max - schnitt.x_min, schnitt.ifak2)
max_statt_j == Zu(schnitt.y_max - schnitt.y_min, schnitt.ifak2)

(* Columns and rows (from the top) of nbild that make the part, and the    *)
(* places they are taken from: id and jd, in units of 1/Nenner pixel.      *)
Nenner == bild.mf * schnitt.ifak2
Spalten == 0 .. max_statt_i * bild.mf - 1
Zeilen == 0 .. max_statt_j * bild.mf - 1
Id(i) == schnitt.x_min * Nenner + Teiler * i
Jd(j) == (yf - 1 - schnitt.y_max) * Nenner + Teiler * j

-----------------------------------------------------------------------------
CropTypeOK ==
  /\ bild \in Bilder
  /\ selektion_vorhanden \in 0 .. 2
  /\ m_rect \in Rechteck
  /\ x \in Int /\ y \in Int /\ loslassen \in BOOLEAN /\ zuege \in 0 .. MaxZuege
  /\ ort \in {"frei", "weiten", "verengen", "cutter", "geschnitten"}
  /\ px \in 1 .. 2 * Einheit - 1 /\ rand \in Rand
  /\ schnitt \in Teil

(* The part that has been cut without a rectangle shows no background: the *)
(* frame of what is sampled lies inside the result, and so do its corners  *)
(* inside the photo, as it lies there corrected.                           *)
KeinHintergrund ==
  ort = "geschnitten" /\ schnitt.art = "beschnitten" =>
    LET oben == yf - 1 - schnitt.y_max
    IN \A a \in {schnitt.x_min, schnitt.x_min + max_statt_i},
          b \in {oben, oben + max_statt_j} :
         LET p == <<Einheit * a, Einheit * b>>
         IN ImErgebnis(bild, p) /\ ~Aussen(bild, p)

(* A selected part is what the rectangle shows: the pixels of the result   *)
(* that are sampled are those the rectangle touches on the screen, whatever*)
(* the zoom.  Exceptions: the last row of the result is never saved, and a *)
(* part that is written larger may lack its last row and column.           *)
AusschnittTreu ==
  ort = "geschnitten" /\ schnitt.art = "auswahl" =>
    LET beruehrt(n, a, b) == {c \in 0 .. n : /\ c * bild.zoom[1] <= b * bild.zoom[2]
                                             /\ (c + 1) * bild.zoom[1] > a * bild.zoom[2]}
        letzte(n) == IF schnitt.ifak2 = Teiler THEN {} ELSE {n}
        spalten == {Id(i) \div Nenner : i \in Spalten}
        zeilen == {Jd(j) \div Nenner : j \in Zeilen}
    IN /\ beruehrt(xf - 1, m_rect.left, m_rect.right) \in
            {spalten \cup l : l \in SUBSET letzte(schnitt.x_max - 1)}
       /\ beruehrt(yf - 2, m_rect.top, m_rect.bottom) \in
            {zeilen \cup l : l \in SUBSET letzte(yf - 2 - schnitt.y_min)}

(* What is sampled fits into nbild, which is as large as the result. *)
PasstInPuffer ==
  ort = "geschnitten" =>
    max_statt_i \in 0 .. xf /\ max_statt_j \in 0 .. yf
=============================================================================
