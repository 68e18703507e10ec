---------------------------- MODULE ImageSession ----------------------------
(***************************************************************************)
(* The image a session works on: loading (OnLoad, OnDrop, OnCreate,        *)
(* OnBatch, OnCtrlV), the correction commands and the end, as far as they  *)
(* create, replace and free the global buffers.  A command is split where  *)
(* its progress dialog or a modal dialog pumps messages: there the window  *)
(* may be painted (bild_zeichnen), and nothing else, since the main window *)
(* is disabled.  Pixels are left out; a buffer is known by the image (the  *)
(* number of the load) and the analysis size (respara) it was made for.    *)
(***************************************************************************)
EXTENDS Integers

CONSTANTS
  MaxBilder,    \* bound on the images opened in one session
  Aufloesungen, \* the values of respara
  MaxStapel     \* bound on the files of one batch

ASSUME BilderAssumption == MaxBilder \in Nat
ASSUME StapelAssumption == MaxStapel \in Nat
ASSUME AufloesungenAssumption == Aufloesungen # {} /\ Aufloesungen \subseteq Nat

Arten == {"exif", "iptc", "icc", "tiff16"}
Formate == {"jpeg", "tiff", "bmp"}
KeinMass == <<0, 0>>      \* x_global = y_global = 0

VARIABLES
  schritt, auftrag,   \* where the current command is, and which one it is
  nr,                 \* the image being worked on, counted by loads
  respara, parlot, batchlot,
  rest,               \* files left in the batch
  tuenoch,            \* OnParam, OnCreate: a Go is to follow
  speicher_voll, x_global,
  mbild,              \* 0, or the image mbild and its tables are made for
  arbeit,             \* [st, mass]: bild, l_schicht, lookauf, ebild, sbild, ...
  l_schicht,          \* "rein": zeros; "benutzt": left by a run of this image
                      \* with these parameters; "fremd": of other ones
  meta,               \* meta[a]: 0, or the image the data of kind a is from
  ergebnis_vorhanden, ergvo,
  struktur, struvo,   \* struktur: 0, or the image the line table is of
  ebild,              \* the image the preview shows the correction of
  stimmt,             \* the preview was made with the current parameters
  korrektur,          \* the image globparam, globwinkel were found for, or 0
  fest,               \* history: korrektur when the batch began
  schlecht,           \* history: memory was used that is not allocated
  gestoert            \* history: out of memory, or a JPEG that breaks off
                      \* after its last row

ablauf == <<schritt, auftrag, nr, rest, tuenoch>>
wahl   == <<respara, parlot, batchlot>>
puffer == <<x_global, mbild, arbeit, l_schicht, meta>>
lauf   == <<ergebnis_vorhanden, ergvo, struktur, struvo, ebild, stimmt>>
chronik == <<fest, schlecht, gestoert>>
vars == <<ablauf, wahl, speicher_voll, puffer, lauf, korrektur, chronik>>

Leer == [st |-> "nie", mass |-> KeinMass]
Mass == <<nr, respara>>   \* the working size is a function of these

Init ==
  /\ schritt = "bereit" /\ auftrag = "keiner" /\ nr = 0 /\ rest = 0
  /\ tuenoch = FALSE
  /\ respara \in Aufloesungen /\ parlot \in BOOLEAN /\ batchlot = FALSE
  /\ speicher_voll = 0 /\ x_global = KeinMass
  /\ mbild = 0 /\ arbeit = Leer /\ l_schicht = "rein"
  /\ meta = [a \in Arten |-> 0]
  /\ ergebnis_vorhanden = 0 /\ ergvo = 0 /\ struktur = 0 /\ struvo = 0
  /\ ebild = 0 /\ stimmt = FALSE
  /\ korrektur = 0 /\ fest = 0 /\ schlecht = FALSE /\ gestoert = FALSE

(* Loops up to x_global over rows that are allocated for that size. *)
Belegt == arbeit.st = "da" /\ arbeit.mass = x_global
Lesbar == x_global = KeinMass \/ Belegt
(* With x_global = 0 the loops free no row, but the layers are still freed. *)
Freibar == arbeit.st = "da" /\ (x_global = KeinMass \/ Belegt)

-----------------------------------------------------------------------------
(* What bild_zeichnen reads: the pictures, of which the original or the    *)
(* edges fill the second frame, the lines, and in the place of a result    *)
(* the texts about the file.                                               *)

Bilder ==
  IF speicher_voll # 2 \/ x_global = KeinMass THEN {}
  ELSE {"sbild"} \cup (IF ergvo = 1 THEN {"ebild"} ELSE {})
                 \cup (IF struvo = 1 THEN {"gbild"} ELSE {})
Striche == IF Bilder # {} /\ struvo = 1 THEN {"struktur"} ELSE {}
Texte ==
  IF Bilder # {} /\ ergvo = 0 THEN {a \in {"exif", "iptc"} : meta[a] # 0} ELSE {}
Gezeigt == Bilder \cup Striche \cup Texte

(* The image a thing shown was made from. *)
Herkunft(was) ==
  CASE was \in {"sbild", "gbild"} -> arbeit.mass[1]
    [] was = "ebild" -> ebild
    [] was = "struktur" -> struktur
    [] OTHER -> meta[was]

-----------------------------------------------------------------------------
(* Closing the image.  The code has this block seven times. *)

Marke == 0

Raeume ==
  IF speicher_voll = 0
  THEN UNCHANGED <<speicher_voll, puffer, lauf, schlecht>>
  ELSE /\ schlecht' = (schlecht \/ ~Freibar \/ mbild = 0)
       /\ speicher_voll' = Marke
       /\ x_global' = KeinMass /\ mbild' = 0
       /\ arbeit' = [arbeit EXCEPT !.st = "frei"]
       /\ meta' = [a \in Arten |-> 0]
       /\ struktur' = 0 /\ struvo' = 0
       /\ ergebnis_vorhanden' = 0 /\ ergvo' = 0
       /\ UNCHANGED <<l_schicht, ebild, stimmt>>

(* lese_bild and OnCtrlV free what a failed load may have left. *)
Vorab_Bug(m) == m
Vorab(m) == [m EXCEPT !["exif"] = 0, !["iptc"] = 0, !["icc"] = 0]

(* The start of a load: what is open is closed, then reading begins.       *)
Oeffne(wer) ==
  /\ nr < MaxBilder
  /\ nr' = nr + 1 /\ auftrag' = wer /\ schritt' = "lesen"
  /\ Raeume

(* OnLoad and OnDrop, with a file chosen.  *)
Laden ==
  /\ schritt = "bereit"
  /\ Oeffne("oeffnen")
  /\ korrektur' = IF speicher_voll = 0 THEN korrektur ELSE 0
  /\ UNCHANGED <<rest, tuenoch, wahl, fest, gestoert>>

(* OnCtrlV with a bitmap on the clipboard. *)
Einfuegen ==
  /\ schritt = "bereit"
  /\ Oeffne("einfuegen")
  /\ korrektur' = IF speicher_voll = 0 THEN korrektur ELSE 0
  /\ UNCHANGED <<rest, tuenoch, wahl, fest, gestoert>>

(* OnCreate with an image on the command line, perhaps to be corrected and *)
(* saved at once (direkt_speichern = 2).                                   *)
Start ==
  /\ schritt = "bereit" /\ nr = 0
  /\ Oeffne("start")
  /\ tuenoch' \in BOOLEAN
  /\ UNCHANGED <<rest, wahl, korrektur, fest, gestoert>>

(* OnBatch closes the image before its file dialog, and then works through *)
(* the files chosen; none, if the dialog is cancelled.                     *)
Stapel ==
  /\ schritt = "bereit"
  /\ rest' \in 0 .. MaxStapel
  /\ schritt' = "naechstes" /\ auftrag' = "stapel"
  /\ batchlot' = parlot
  /\ Raeume
  /\ korrektur' = IF speicher_voll = 0 \/ parlot THEN korrektur ELSE 0
  /\ fest' = korrektur'
  /\ UNCHANGED <<nr, tuenoch, respara, parlot, gestoert>>

Naechstes ==
  /\ schritt = "naechstes" /\ rest > 0
  /\ Oeffne("stapel")
  /\ rest' = rest - 1
  /\ UNCHANGED <<tuenoch, wahl, korrektur, fest, gestoert>>

(* Fixed parameters are only for the batch: the next image starts afresh.  *)
StapelEnde ==
  /\ schritt = "naechstes" /\ rest = 0
  /\ schritt' = "bereit" /\ auftrag' = "keiner"
  /\ batchlot' = FALSE
  /\ korrektur' = IF batchlot THEN 0 ELSE korrektur
  /\ UNCHANGED <<nr, rest, tuenoch, respara, parlot, speicher_voll, puffer,
                 lauf, fest, schlecht, gestoert>>

-----------------------------------------------------------------------------
(* Reading. *)

(* Decoding starts when the file turns out to be readable: mbild is there, *)
(* a JPEG's metadata too.  The rows are read under a progress dialog.      *)
(* globparam and globwinkel start from 0, except for fixed parameters.     *)
NeueKorrektur_Bug == 0
NeueKorrektur == IF batchlot /\ auftrag # "einfuegen" THEN korrektur ELSE 0

Dekodiere(f) ==
  /\ schritt = "lesen"
  /\ auftrag = "einfuegen" => f = "bmp"
  /\ \E icc \in IF f = "jpeg" THEN {0, nr} ELSE {0} :
       meta' = [Vorab(meta) EXCEPT !["exif"] = IF f = "jpeg" THEN nr ELSE @,
                                   !["iptc"] = IF f = "jpeg" THEN nr ELSE @,
                                   !["icc"] = IF f = "jpeg" THEN icc ELSE @]
  /\ mbild' = nr
  /\ korrektur' = NeueKorrektur
  /\ schritt' = f
  /\ UNCHANGED <<auftrag, nr, rest, tuenoch, wahl, speicher_voll, x_global,
                 arbeit, l_schicht, lauf, chronik>>

(* The file is no image, or not one that fits in memory.  JPEG metadata    *)
(* may have been read before that shows.                                   *)
Unlesbar ==
  /\ schritt = "lesen"
  /\ \E m \in {0, nr}, icc \in {0, nr} :
       /\ auftrag = "einfuegen" => m = 0 /\ icc = 0
       /\ meta' = [Vorab(meta) EXCEPT !["exif"] = m, !["iptc"] = m, !["icc"] = icc]
  /\ schritt' = "fehler"
  /\ UNCHANGED <<auftrag, nr, rest, tuenoch, wahl, speicher_voll, x_global,
                 mbild, arbeit, l_schicht, lauf, korrektur, chronik>>

(* my_error_exit while rows are read: back to setjmp, mbild is forgotten.  *)
JpegFehler ==
  /\ schritt = "jpeg"
  /\ mbild' = 0
  /\ schritt' = "fehler"
  /\ UNCHANGED <<auftrag, nr, rest, tuenoch, wahl, speicher_voll, x_global,
                 arbeit, l_schicht, meta, lauf, korrektur, chronik>>

(* All rows are there, but jpeg_finish_decompress fails: the load has      *)
(* failed although speicher_voll is set.                                   *)
JpegSpaet ==
  /\ schritt = "jpeg"
  /\ speicher_voll' = 1 /\ gestoert' = TRUE
  /\ schritt' = "fehler"
  /\ UNCHANGED <<auftrag, nr, rest, tuenoch, wahl, puffer, lauf, korrektur,
                 fest, schlecht>>

(* The last row.  A 16-bit TIFF is read a second time at full depth. *)
Gelesen ==
  /\ schritt \in Formate
  /\ speicher_voll' = 1
  /\ \E t \in IF schritt = "tiff" THEN {0, nr} ELSE {0} :
       meta' = [meta EXCEPT !["tiff16"] = t]
  /\ schritt' = "alloc"
  /\ UNCHANGED <<auftrag, nr, rest, tuenoch, wahl, x_global, mbild, arbeit,
                 l_schicht, lauf, korrektur, chronik>>

-----------------------------------------------------------------------------
(* alloc_bilder, for a new image or for a new respara. *)

Frisch == "rein"

Belege ==
  /\ schritt = "alloc"
  /\ arbeit' = [st |-> "da", mass |-> Mass]
  /\ l_schicht' = Frisch
  /\ schritt' = "fuellen"
  /\ UNCHANGED <<auftrag, nr, rest, tuenoch, wahl, speicher_voll, x_global,
                 mbild, meta, lauf, korrektur, chronik>>

(* Some of it could not be had; OnParam goes on all the same. *)
BelegeFehlt ==
  /\ schritt = "alloc"
  /\ arbeit' = [st |-> "teil", mass |-> Mass]
  /\ l_schicht' = "rein" /\ gestoert' = TRUE
  /\ schritt' = IF auftrag # "parameter" THEN "fehler"
                ELSE IF tuenoch THEN "los" ELSE "bereit"
  /\ auftrag' = IF auftrag = "parameter" THEN "keiner" ELSE auftrag
  /\ UNCHANGED <<nr, rest, tuenoch, wahl, speicher_voll, x_global, mbild, meta,
                 lauf, korrektur, fest, schlecht>>

(* The reduced image is there; what the command does next. *)
Gefuellt ==
  /\ schritt = "fuellen"
  /\ x_global' = arbeit.mass /\ speicher_voll' = 2
  /\ schritt' = IF auftrag = "stapel" THEN IF parlot THEN "festlos" ELSE "los"
                ELSE IF auftrag \in {"start", "parameter"} /\ tuenoch THEN "los"
                ELSE "bereit"
  /\ auftrag' = IF auftrag = "stapel" THEN auftrag ELSE "keiner"
  /\ UNCHANGED <<nr, rest, tuenoch, wahl, mbild, arbeit, l_schicht, meta, lauf,
                 korrektur, chronik>>

(* errDlg; a batch goes on with the next file.  lese_bild leaves what a    *)
(* failed load has set up to the next cleanup.                             *)
Fehlschlag ==
  /\ schritt = "fehler"
  /\ IF auftrag = "stapel" THEN schritt' = "raeumen" /\ UNCHANGED auftrag
     ELSE schritt' = "bereit" /\ auftrag' = "keiner"
  /\ UNCHANGED <<nr, rest, tuenoch, wahl, speicher_voll, puffer, lauf,
                 korrektur, chronik>>

-----------------------------------------------------------------------------
(* Correcting. *)

(* The paint flags at the end of every correction command. *)
Zeigbar == IF struktur' # 0 THEN 1 ELSE 0
Anzeigen == ergvo' = ergebnis_vorhanden' /\ struvo' = Zeigbar

(* An old result goes, and with it the traces it left in l_schicht. *)
Verwerfen ==
  /\ ergvo' = 0 /\ struvo' = 0
  /\ ergebnis_vorhanden' = 0
  /\ IF ergebnis_vorhanden = 1
     THEN struktur' = 0 /\ l_schicht' = "rein" /\ schlecht' = (schlecht \/ ~Lesbar)
     ELSE UNCHANGED <<struktur, l_schicht, schlecht>>

(* OnGo.  Without an image only a message appears. *)
Go ==
  /\ schritt \in {"bereit", "los"}
  /\ IF speicher_voll = 0
     THEN schritt' = "meldung" /\ ergvo' = 0 /\ struvo' = 0
          /\ UNCHANGED <<l_schicht, ergebnis_vorhanden, struktur, schlecht>>
     ELSE schritt' = "go" /\ Verwerfen
  /\ UNCHANGED <<auftrag, nr, rest, tuenoch, wahl, speicher_voll, x_global,
                 mbild, arbeit, meta, ebild, stimmt, korrektur, fest, gestoert>>

Danach == IF auftrag = "stapel" THEN "sichern" ELSE "bereit"

(* The line detection has found at least two lines, or not; either way it  *)
(* has written to l_schicht.  An image of no size has no lines.            *)
GoEnde ==
  /\ schritt = "go"
  /\ schlecht' = (schlecht \/ ~Lesbar)
  /\ l_schicht' = IF x_global = KeinMass THEN l_schicht ELSE "benutzt"
  /\ \/ /\ x_global # KeinMass
        /\ ergebnis_vorhanden' = 1 /\ struktur' = nr /\ korrektur' = nr
        /\ ebild' = nr /\ stimmt' = TRUE
     \/ /\ ergebnis_vorhanden' = 0 /\ struktur' = 0
        /\ UNCHANGED <<ebild, stimmt, korrektur>>
  /\ Anzeigen
  /\ schritt' = Danach /\ tuenoch' = FALSE
  /\ UNCHANGED <<auftrag, nr, rest, wahl, speicher_voll, x_global, mbild, arbeit,
                 meta, fest, gestoert>>

(* Reoptimize: a new fit to the lines there are.  *)
Reoptimize ==
  /\ schritt = "bereit" /\ struktur # 0
  /\ ergvo' = 0 /\ struvo' = 0
  /\ schritt' = "fit"
  /\ UNCHANGED <<auftrag, nr, rest, tuenoch, wahl, speicher_voll, puffer,
                 ergebnis_vorhanden, struktur, ebild, stimmt, korrektur, chronik>>

(* The new parameters are only good together with the new preview. *)
NeuesBild_Bug == FALSE
NeuesBild == TRUE

ReoptimizeEnde ==
  /\ schritt = "fit"
  /\ korrektur' = nr
  /\ ebild' = nr /\ stimmt' = NeuesBild
  /\ UNCHANGED <<ergebnis_vorhanden, struktur>> /\ Anzeigen
  /\ schritt' = "bereit"
  /\ UNCHANGED <<auftrag, nr, rest, tuenoch, wahl, speicher_voll, puffer,
                 chronik>>

(* OnAnwendenKorrekturanpassen: nothing is shown while the dialog is open. *)
Anpassen ==
  /\ schritt = "bereit"
  /\ ergvo' = 0 /\ struvo' = 0
  /\ schritt' = IF speicher_voll = 0 THEN "meldung" ELSE "dialog"
  /\ UNCHANGED <<auftrag, nr, rest, tuenoch, wahl, speicher_voll, puffer,
                 ergebnis_vorhanden, struktur, ebild, stimmt, korrektur, chronik>>

AnpassenOk ==
  /\ schritt = "dialog"
  /\ Verwerfen
  /\ stimmt' = FALSE
  /\ schritt' = "anpassen"
  /\ UNCHANGED <<auftrag, nr, rest, tuenoch, wahl, speicher_voll, x_global,
                 mbild, arbeit, meta, ebild, korrektur, fest, gestoert>>

(* A correction without lines: the preview is made from the values given.  *)
AnpassenEnde ==
  /\ schritt = "anpassen"
  /\ ergebnis_vorhanden' = 1 /\ korrektur' = nr
  /\ schlecht' = (schlecht \/ ~Lesbar)
  /\ ebild' = nr /\ stimmt' = TRUE
  /\ UNCHANGED struktur /\ Anzeigen
  /\ schritt' = "bereit"
  /\ UNCHANGED <<auftrag, nr, rest, tuenoch, wahl, speicher_voll, puffer, fest,
                 gestoert>>

(* Giving up has to bring back what was hidden. *)
Zurueck_Bug == UNCHANGED <<ergvo, struvo>>
Zurueck == Anzeigen

(* The dialog is cancelled, or the message that there is no image closed.  *)
Abbrechen ==
  /\ schritt \in {"dialog", "meldung"}
  /\ UNCHANGED <<ergebnis_vorhanden, struktur>> /\ Zurueck
  /\ schritt' = "bereit" /\ tuenoch' = FALSE
  /\ UNCHANGED <<auftrag, nr, rest, wahl, speicher_voll, puffer, ebild, stimmt,
                 korrektur, chronik>>

(* OnGoB: the correction found before, for the next image of a batch. *)
GoB ==
  /\ schritt = "festlos"
  /\ Verwerfen
  /\ schritt' = "gob"
  /\ UNCHANGED <<auftrag, nr, rest, tuenoch, wahl, speicher_voll, x_global,
                 mbild, arbeit, meta, ebild, stimmt, korrektur, fest, gestoert>>

GoBEnde ==
  /\ schritt = "gob"
  /\ ergebnis_vorhanden' = 1
  /\ schlecht' = (schlecht \/ ~Lesbar)
  /\ ebild' = nr /\ stimmt' = TRUE
  /\ UNCHANGED struktur /\ Anzeigen
  /\ schritt' = Danach
  /\ UNCHANGED <<auftrag, nr, rest, tuenoch, wahl, speicher_voll, puffer,
                 korrektur, fest, gestoert>>

(* schreibe_bild, if there is a result; then the batch closes the image.   *)
Sichern ==
  /\ schritt = "sichern"
  /\ schritt' = "raeumen"
  /\ UNCHANGED <<auftrag, nr, rest, tuenoch, wahl, speicher_voll, puffer, lauf,
                 korrektur, chronik>>

StapelRaeumen ==
  /\ schritt = "raeumen"
  /\ Raeume
  /\ korrektur' = IF speicher_voll = 0 \/ batchlot THEN korrektur ELSE 0
  /\ schritt' = "naechstes"
  /\ UNCHANGED <<auftrag, nr, rest, tuenoch, wahl, fest, gestoert>>

-----------------------------------------------------------------------------
(* OnParam: new parameters, and the working buffers anew; a result that    *)
(* was there is computed again.  Paints are kept away by speicher_voll.    *)
Sperre_Bug == speicher_voll
Sperre == 1

Parameter ==
  /\ schritt = "bereit"
  /\ respara' \in Aufloesungen /\ parlot' \in BOOLEAN
  /\ IF speicher_voll = 0
     THEN UNCHANGED <<schritt, auftrag, tuenoch, speicher_voll, arbeit,
                      ergebnis_vorhanden, ergvo, struktur, struvo, schlecht>>
     ELSE /\ speicher_voll' = Sperre
          /\ tuenoch' = (ergebnis_vorhanden = 1)
          /\ IF ergebnis_vorhanden = 1
             THEN ergebnis_vorhanden' = 0 /\ ergvo' = 0 /\ struktur' = 0 /\ struvo' = 0
             ELSE UNCHANGED <<ergebnis_vorhanden, ergvo, struktur, struvo>>
          /\ schlecht' = (schlecht \/ ~Freibar)
          /\ arbeit' = [arbeit EXCEPT !.st = "frei"]
          /\ schritt' = "alloc" /\ auftrag' = "parameter"
  /\ l_schicht' = IF l_schicht = "rein" THEN "rein" ELSE "fremd"
  /\ stimmt' = FALSE
  /\ UNCHANGED <<nr, rest, batchlot, x_global, mbild, meta, ebild, korrektur,
                 fest, gestoert>>

(* ExitInstance. *)
Ende ==
  /\ schritt = "bereit"
  /\ Raeume
  /\ korrektur' = IF speicher_voll = 0 THEN korrektur ELSE 0
  /\ schritt' = "aus"
  /\ UNCHANGED <<auftrag, nr, rest, tuenoch, wahl, fest, gestoert>>

Next ==
  \/ Laden \/ Einfuegen \/ Start \/ Stapel \/ Naechstes \/ StapelEnde
  \/ (\E f \in Formate : Dekodiere(f)) \/ Unlesbar \/ JpegFehler \/ JpegSpaet
  \/ Gelesen \/ Belege \/ BelegeFehlt \/ Gefuellt \/ Fehlschlag
  \/ Go \/ GoEnde \/ Reoptimize \/ ReoptimizeEnde
  \/ Anpassen \/ AnpassenOk \/ AnpassenEnde \/ Abbrechen
  \/ GoB \/ GoBEnde \/ Sichern \/ StapelRaeumen \/ Parameter \/ Ende

Spec == Init /\ [][Next]_vars

-----------------------------------------------------------------------------
(* Properties. *)

Schritte == Formate \cup {"bereit", "lesen", "fehler", "alloc", "fuellen", "los",
  "festlos", "go", "gob", "fit", "dialog", "anpassen", "meldung", "sichern",
  "raeumen", "naechstes", "aus"}
Nummern == 0 .. MaxBilder
Masse == {KeinMass} \cup (Nummern \X Aufloesungen)

TypeOK ==
  /\ schritt \in Schritte
  /\ auftrag \in {"keiner", "oeffnen", "einfuegen", "start", "stapel", "parameter"}
  /\ nr \in Nummern /\ rest \in 0 .. MaxStapel /\ tuenoch \in BOOLEAN
  /\ respara \in Aufloesungen /\ parlot \in BOOLEAN /\ batchlot \in BOOLEAN
  /\ speicher_voll \in 0 .. 2 /\ x_global \in Masse /\ mbild \in Nummern
  /\ arbeit \in [st : {"nie", "da", "frei", "teil"}, mass : Masse]
  /\ l_schicht \in {"rein", "benutzt", "fremd"} /\ meta \in [Arten -> Nummern]
  /\ ergebnis_vorhanden \in {0, 1} /\ ergvo \in {0, 1} /\ struvo \in {0, 1}
  /\ struktur \in Nummern /\ ebild \in Nummern /\ stimmt \in BOOLEAN
  /\ korrektur \in Nummern /\ fest \in Nummern
  /\ schlecht \in BOOLEAN /\ gestoert \in BOOLEAN

(* A paint, whenever it comes, reads only buffers that are allocated, in   *)
(* the size x_global says, and made for the image that is open: while an   *)
(* image is replaced, resized or corrected the flags keep it away.  And    *)
(* nothing is freed twice or used after it was freed, over any sequence of *)
(* commands, loads that fail included -- unless memory ran out or a JPEG   *)
(* broke off after its last row (see README).                              *)
MalSicher ==
  /\ Bilder # {} => Belegt
  /\ "ebild" \in Bilder => schritt # "go"
  /\ \A was \in Gezeigt : Herkunft(was) = nr
  /\ schlecht => gestoert

(* Whatever a command did or broke off, afterwards the window shows the    *)
(* result and the lines exactly if they exist.                             *)
AnzeigeWiederDa ==
  schritt = "bereit" =>
    /\ ergvo = ergebnis_vorhanden
    /\ (struvo = 1) = (struktur # 0)
    /\ struktur # 0 => ergebnis_vorhanden = 1

(* Metadata, lines and preview that a save would write or a paint would    *)
(* show belong to the open image, never to the one before or to a file     *)
(* that could not be read; and a new line detection starts on an l_schicht *)
(* that is clear, or holds the extents of this very image found with these *)
(* very parameters.                                                        *)
AllesVomBild ==
  /\ schritt = "go" /\ x_global # KeinMass => l_schicht # "fremd"
  /\ speicher_voll = 2 =>
       /\ \A a \in Arten : meta[a] \in {0, nr}
       /\ struktur \in {0, nr}
       /\ ergebnis_vorhanden = 1 /\ schritt \in {"bereit", "sichern"} => ebild = nr

(* What is saved is what the preview showed: a result never outlives the   *)
(* parameters it was computed with.                                        *)
VorschauStimmt ==
  ergebnis_vorhanden = 1 /\ schritt \in {"bereit", "sichern"} => stimmt

(* "Use fixed parameters during batch processing": then every image of the *)
(* batch is corrected with the values from before the batch; otherwise     *)
(* each result comes from its own image.                                   *)
KorrekturPasst ==
  ergebnis_vorhanden = 1 =>
    /\ schritt = "bereit" => korrektur = nr
    /\ schritt = "sichern" => korrektur = IF parlot THEN fest ELSE nr
=============================================================================
