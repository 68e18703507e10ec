------------------------------ MODULE Resample ------------------------------
(***************************************************************************)
(* The rest of schreibe_bild: two threads resample the chosen part, one the*)
(* left half of the columns, one the right; once for the formats of 8 bits *)
(* and once more for a TIFF of 16 bits.  The main thread waits, then       *)
(* writes the files from the buffers.  A column of a buffer is known by    *)
(* the place it was sampled from, Alt when an earlier save filled it.      *)
(***************************************************************************)
EXTENDS Crop, Sequences

CONSTANT Einstellungen   \* [picture -> the settings tried with it]

Formate == {"jpg", "bmp", "tif", "clip"}
Einstellung == [tiff16 : BOOLEAN,      \* the photo is a TIFF of 16 bits
                kubik : BOOLEAN, schaerfen : BOOLEAN,
                formate : SUBSET (Formate \ {"clip"}) \cup {{"clip"}}]

ASSUME EinstellungenAssumption ==
  Einstellungen \in [Bilder -> SUBSET Einstellung]

VARIABLES
  wahl,                \* the setting: Einstellung
  bilderart,           \* formats still to be written
  schritt,             \* the main thread: "ruht", "pass", "start0", "start1",
                       \* "warten", "schreiben"
  tiefe,               \* bits of the pass under way: 8 or 16
  naechste,            \* [thread -> next column], or none
  hCompleted,          \* threads whose event is set
  puffer,              \* nbild (8) and tiff16n (16): [column -> place]
  datei,               \* what was written: [format -> picture]
  daneben              \* history: something was read outside of a picture

savevars == <<wahl, bilderart, schritt, tiefe, naechste, hCompleted, puffer, datei, daneben>>
vars == <<cropvars, savevars>>

KeineSpalte == -1
Alt == -1
Teile == {0, 1}
mx == xf * bild.mf
my == yf * bild.mf
Leer == [t \in {8, 16} |-> [i \in 0 .. mx - 1 |-> Alt]]

Init ==
  /\ CropInit
  /\ wahl \in Einstellungen[bild] /\ bilderart = {}
  /\ schritt = "ruht" /\ tiefe = 8
  /\ naechste = [p \in Teile |-> KeineSpalte] /\ hCompleted = {}
  /\ puffer = Leer
  /\ datei = <<>>
  /\ daneben = FALSE

-----------------------------------------------------------------------------
(* The passes. *)

(* A TIFF of 16 bits needs no pass of 8 bits when it is all that is asked. *)
Noetig(t) == IF t = 8 THEN bilderart # {} /\ ~(bilderart = {"tif"} /\ wahl.tiff16)
                      ELSE "tif" \in bilderart /\ wahl.tiff16

Beginne ==
  /\ schritt = "ruht" /\ ort = "geschnitten"
  /\ bilderart' = wahl.formate
  /\ schritt' = "pass" /\ tiefe' = 8
  /\ UNCHANGED <<cropvars, wahl, naechste, hCompleted, puffer, datei, daneben>>

(* New events, none of them set. *)
Durchgang ==
  /\ schritt = "pass"
  /\ IF Noetig(tiefe)
     THEN schritt' = "start0" /\ hCompleted' = {} /\ UNCHANGED tiefe
     ELSE /\ IF tiefe = 8 THEN tiefe' = 16 /\ UNCHANGED schritt
                          ELSE schritt' = "schreiben" /\ UNCHANGED tiefe
          /\ UNCHANGED hCompleted
  /\ UNCHANGED <<cropvars, wahl, bilderart, naechste, puffer, datei, daneben>>

(* The columns of a thread. *)
Haelfte == (max_statt_i * bild.mf) \div 2
Von(p) == IF p = 1 THEN Haelfte ELSE 0
Bis_Bug(p) == IF p = 1 THEN max_statt_i * bild.mf - 1 ELSE Haelfte - 2
Bis(p) == IF p = 1 THEN max_statt_i * bild.mf - 1 ELSE Haelfte - 1

Starte(p) ==
  /\ schritt = IF p = 0 THEN "start0" ELSE "start1"
  /\ naechste' = [naechste EXCEPT ![p] = Von(p)]
  /\ schritt' = IF p = 0 THEN "start1" ELSE "warten"
  /\ UNCHANGED <<cropvars, wahl, bilderart, tiefe, hCompleted, puffer, datei, daneben>>

(* What bilinear and bikubisch read, one axis at a time, for the place k   *)
(* of a picture of n: the kernel's window, or a narrower one at the edges. *)
Fenster(k, n) ==
  IF wahl.kubik /\ k \in 2 .. n - 4 THEN k - 2 .. k + 3
  ELSE IF k \in 0 .. n - 2 THEN k .. k + 1
  ELSE {k} \cap (0 .. n - 1)

(* Sharpening looks at the pixels around, but for the outermost ones. *)
Nachbarn(k, n) == IF wahl.schaerfen /\ k \in 1 .. n - 2 THEN k - 1 .. k + 1 ELSE {k}

(* One column of interpol_row or interpol16_row.  Where in the photo its   *)
(* pixels lie is up to the homography and the lens distortion: anywhere.   *)
Spalte(p) ==
  /\ naechste[p] # KeineSpalte /\ naechste[p] <= Bis(p)
  /\ puffer' = [puffer EXCEPT ![tiefe] =
                  [i \in DOMAIN @ \cup {naechste[p]} |->
                     IF i = naechste[p] THEN Id(i) ELSE @[i]]]
  /\ naechste' = [naechste EXCEPT ![p] = @ + 1]
  /\ daneben' = (daneben \/ (\E k \in -1 .. mx : ~(Fenster(k, mx) \subseteq 0 .. mx - 1))
                         \/ (\E k \in -1 .. my : ~(Fenster(k, my) \subseteq 0 .. my - 1)))
  /\ UNCHANGED <<cropvars, wahl, bilderart, schritt, tiefe, hCompleted, datei>>

Fertig(p) ==
  /\ naechste[p] # KeineSpalte /\ naechste[p] > Bis(p)
  /\ naechste' = [naechste EXCEPT ![p] = KeineSpalte]
  /\ hCompleted' = hCompleted \cup {p}
  /\ UNCHANGED <<cropvars, wahl, bilderart, schritt, tiefe, puffer, datei, daneben>>

(* WaitForMultipleObjects for both events. *)
AlleFertig == hCompleted = Teile

Abgewartet ==
  /\ schritt = "warten" /\ AlleFertig
  /\ IF tiefe = 8 THEN schritt' = "pass" /\ tiefe' = 16
                  ELSE schritt' = "schreiben" /\ UNCHANGED tiefe
  /\ UNCHANGED <<cropvars, wahl, bilderart, naechste, hCompleted, puffer, datei, daneben>>

-----------------------------------------------------------------------------
(* The files. *)

(* The buffer a format is written from. *)
Tiefe(a) == IF a = "tif" /\ wahl.tiff16 THEN 16 ELSE 8

(* The order in which the rows of the buffer are written. *)
Zeilenfolge_Bug(a) ==
  LET n == max_statt_j * bild.mf
  IN [k \in 1 .. n |-> IF a = "bmp" THEN n - k ELSE k - 1]
Zeilenfolge(a) ==
  LET n == max_statt_j * bild.mf
  IN [k \in 1 .. n |-> IF a \in {"bmp", "clip"} THEN n - k ELSE k - 1]

(* The columns or rows a writer reads, with what sharpening takes in. *)
Gelesen(n) == UNION {Nachbarn(k, n) : k \in 0 .. n - 1}

(* TIFF, BMP and JPEG in this order, or the clipboard's picture. *)
AnDerReihe(a) == /\ a \in bilderart
                 /\ a = "bmp" => "tif" \notin bilderart
                 /\ a = "jpg" => bilderart = {"jpg"}

(* A picture is written, or skipped because its file does not open. *)
Schreibe(a) ==
  /\ schritt = "schreiben" /\ AnDerReihe(a)
  /\ \/ /\ datei' = [f \in DOMAIN datei \cup {a} |->
                     IF f = a
                     THEN [spalten |-> [i \in 1 .. max_statt_i * bild.mf |->
                                          puffer[Tiefe(a)][i - 1]],
                           zeilen |-> Zeilenfolge(a)]
                     ELSE datei[f]]
        /\ daneben' = (daneben \/ ~(Gelesen(max_statt_i * bild.mf) \subseteq Spalten)
                               \/ ~(Gelesen(max_statt_j * bild.mf) \subseteq Zeilen))
     \/ UNCHANGED <<datei, daneben>>
  /\ bilderart' = bilderart \ {a}
  /\ UNCHANGED <<cropvars, wahl, schritt, tiefe, naechste, hCompleted, puffer>>

(* The save returns.  What the buffers hold is old for the next one. *)
Ende ==
  /\ schritt = "schreiben" /\ bilderart = {}
  /\ schritt' = "ruht" /\ ort' = "frei"
  /\ px' = 1 /\ rand' = KeinRand /\ schnitt' = Ganz
  /\ tiefe' = 8
  /\ hCompleted' = {} /\ puffer' = Leer /\ datei' = <<>>
  /\ UNCHANGED <<bild, mausvars, wahl, bilderart, naechste, daneben>>

-----------------------------------------------------------------------------
(* The user's part, the main thread's once a handler runs, and a thread's. *)
Benutzer == (Maus \/ SchneideAuswahl \/ OhneAuswahl) /\ UNCHANGED savevars
Haupt == \/ (Weiten \/ Verengen \/ Wachsen) /\ UNCHANGED savevars
         \/ Beginne \/ Durchgang \/ (\E p \in Teile : Starte(p)) \/ Abgewartet
         \/ (\E a \in Formate : Schreibe(a)) \/ Ende
Faden(p) == Spalte(p) \/ Fertig(p)

Next == Benutzer \/ Haupt \/ \E p \in Teile : Faden(p)

Spec == Init /\ [][Next]_vars

(* A handler that runs goes on, and so does a thread that has been started;*)
(* the user owes nothing.                                                  *)
FairSpec == Spec /\ WF_vars(Haupt) /\ \A p \in Teile : WF_vars(Faden(p))

-----------------------------------------------------------------------------
TypeOK ==
  /\ CropTypeOK
  /\ wahl \in Einstellungen[bild] /\ bilderart \subseteq Formate
  /\ schritt \in {"ruht", "pass", "start0", "start1", "warten", "schreiben"}
  /\ tiefe \in {8, 16}
  /\ naechste \in [Teile -> Nat \cup {KeineSpalte}]
  /\ hCompleted \subseteq Teile
  /\ DOMAIN puffer = {8, 16}
  /\ \A t \in {8, 16} : \A i \in DOMAIN puffer[t] :
        puffer[t][i] \in Int
  /\ daneben \in BOOLEAN

(* Whatever the threads' order, the files hold only columns that were      *)
(* sampled for this save, from a buffer of the right depth; and neither    *)
(* the kernels nor sharpening read outside of a picture.                   *)
LiestFertiges ==
  /\ ~daneben
  /\ \A a \in DOMAIN datei : \A i \in DOMAIN datei[a].spalten :
       datei[a].spalten[i] = Id(i - 1)

(* All formats hold the same picture, the part that was chosen: as a viewer*)
(* shows it, BMP and clipboard files starting with the lowest row.         *)
AlleFormateGleich ==
  \A a \in DOMAIN datei :
    LET d == datei[a]
        n == Len(d.zeilen)
    IN /\ Len(d.spalten) = max_statt_i * bild.mf /\ n = max_statt_j * bild.mf
       /\ \A k \in 1 .. n : d.zeilen[IF a \in {"bmp", "clip"} THEN n + 1 - k ELSE k]
                            = k - 1

(* No handler and no save goes on for ever. *)
ImmerWiederFrei == []<>(ort = "frei" /\ schritt = "ruht")
=============================================================================
