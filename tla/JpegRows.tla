------------------------------ MODULE JpegRows ------------------------------
(***************************************************************************)
(* read_JPEG_file: a photo is decoded row by row into mbild, turned or     *)
(* mirrored upright on the way as its EXIF orientation (exifdreh) says.    *)
(* mbild is addressed by row, counted from the bottom, and column; a place *)
(* holds blue, green and red.  A sample of the file is known by its row,   *)
(* column and channel.  Sizes and addresses are computed in 32 bits and    *)
(* wrap; of what is written beside mbild only the places are kept.         *)
(* Metadata and failures are in ImageSession.                              *)
(***************************************************************************)
EXTENDS Integers, FiniteSets

CONSTANTS
  Groessen,   \* <<output_width, output_height>> of the photos
  MaxFlaeche, \* 134217727 in the code
  Modul       \* 2^32, the range of int and long

ASSUME GroessenAssumption == Groessen \subseteq Nat \X Nat /\ MaxFlaeche \in Nat
ASSUME ModulAssumption == Modul \in Nat /\ 4 * MaxFlaeche < Modul

VARIABLES
  datei,             \* [breite, hoehe, farbig, orientierung], as in the file
  relyexifori,       \* "rely on EXIF orientation"
  ort,               \* "kopf", "zeilen", "fertig" or "abgelehnt"
  exifdreh, u, v,    \* the turn to make, width and height of mbild
  gross,             \* bytes allocated for mbild
  output_scanline,   \* rows read
  mbild,             \* [place -> the samples there]
  doppelt            \* history: places written twice or outside mbild

vars == <<datei, relyexifori, ort, exifdreh, u, v, gross, output_scanline, mbild,
          doppelt>>

Init ==
  /\ \E g \in Groessen :
       datei \in [breite : {g[1]}, hoehe : {g[2]}, farbig : BOOLEAN,
                  orientierung : 0 .. 9]
  /\ relyexifori \in BOOLEAN
  /\ ort = "kopf" /\ exifdreh = 1 /\ u = 0 /\ v = 0 /\ gross = 0
  /\ output_scanline = 0 /\ mbild = <<>> /\ doppelt = {}

(* 0 or more than 8: no orientation, or one that does not exist. *)
Drehung(o) == IF o \in 1 .. 8 /\ relyexifori THEN o ELSE 1

(* The value a long takes for the product of two sides. *)
Long(x) == ((x + Modul \div 2) % Modul) - Modul \div 2

ZuKlein == datei.breite < 4 \/ datei.hoehe < 4
           \/ Long(datei.breite * datei.hoehe) > MaxFlaeche

(* The bytes of a row of mbild. *)
aufgerundet(n) == ((n + 3) \div 4) * 4
mu3au == aufgerundet(3 * u)

(* The photo is refused for its size, or when calloc finds no memory.      *)
Kopf ==
  /\ ort = "kopf"
  /\ \/ /\ ZuKlein
        /\ ort' = "abgelehnt"
        /\ UNCHANGED <<exifdreh, u, v, gross>>
     \/ /\ ~ZuKlein
        /\ exifdreh' = Drehung(datei.orientierung)
        /\ u' = IF exifdreh' > 4 THEN datei.hoehe ELSE datei.breite
        /\ v' = IF exifdreh' > 4 THEN datei.breite ELSE datei.hoehe
        /\ \/ gross' = (mu3au' * v') % Modul /\ ort' = "zeilen"
           \/ gross' = 0 /\ ort' = "abgelehnt"
  /\ UNCHANGED <<datei, relyexifori, output_scanline, mbild, doppelt>>

(* Where sample i of the row just read goes; s is output_scanline, already *)
(* counted up by jpeg_read_scanlines.  Rows of mbild start at the bottom.  *)
Platz_Bug(s, i) ==
  CASE exifdreh = 5 -> <<i, s - 1>>
    [] exifdreh = 6 -> <<v - 1 - i, u - s>>
    [] OTHER -> <<v - s, i>>
Platz(s, i) ==
  CASE exifdreh = 1 -> <<v - s, i>>
    [] exifdreh = 2 -> <<v - s, u - 1 - i>>
    [] exifdreh = 3 -> <<s - 1, u - 1 - i>>
    [] exifdreh = 4 -> <<s - 1, i>>
    [] exifdreh = 5 -> <<v - 1 - i, s - 1>>
    [] exifdreh = 6 -> <<v - 1 - i, u - s>>
    [] exifdreh = 7 -> <<i, u - s>>
    [] exifdreh = 8 -> <<i, s - 1>>

(* The loop runs over the width or, turned by a quarter, the height. *)
Spalten == IF exifdreh <= 4 THEN 0 .. u - 1 ELSE 0 .. v - 1

(* The address of a byte of a place, from the start of mbild. *)
Adresse(p, k) == (p[1] * mu3au + 3 * p[2] + k) % Modul
Daneben(p) == \/ p \notin (0 .. v - 1) \X (0 .. u - 1)
              \/ \E k \in 0 .. 2 : Adresse(p, k) >= gross

(* zeile: the samples of the row, as mbild holds them. *)
Schreibe(zeile) ==
  LET s == output_scanline + 1
      neu == {Platz(s, i) : i \in Spalten}
  IN /\ mbild' = [p \in DOMAIN mbild \cup neu |->
                    IF p \in neu THEN zeile[CHOOSE i \in Spalten : Platz(s, i) = p]
                    ELSE mbild[p]]
     /\ doppelt' = doppelt \cup {p \in neu : p \in DOMAIN mbild \/ Daneben(p)}
     /\ output_scanline' = s

(* The file's samples are red, green, blue; mbild's the other way round. *)
ZeileFarbe ==
  /\ ort = "zeilen" /\ datei.farbig /\ output_scanline < datei.hoehe
  /\ Schreibe([i \in Spalten |-> [k \in 0 .. 2 |-> <<output_scanline, i, 2 - k>>]])
  /\ UNCHANGED <<datei, relyexifori, ort, exifdreh, u, v, gross>>

ZeileGrau ==
  /\ ort = "zeilen" /\ ~datei.farbig /\ output_scanline < datei.hoehe
  /\ Schreibe([i \in Spalten |-> [k \in 0 .. 2 |-> <<output_scanline, i, 0>>]])
  /\ UNCHANGED <<datei, relyexifori, ort, exifdreh, u, v, gross>>

Fertig ==
  /\ ort = "zeilen" /\ output_scanline = datei.hoehe
  /\ ort' = "fertig"
  /\ UNCHANGED <<datei, relyexifori, exifdreh, u, v, gross, output_scanline, mbild, doppelt>>

Next == Kopf \/ ZeileFarbe \/ ZeileGrau \/ Fertig

Spec == Init /\ [][Next]_vars

-----------------------------------------------------------------------------
TypeOK ==
  /\ ort \in {"kopf", "zeilen", "fertig", "abgelehnt"}
  /\ exifdreh \in 1 .. 8 /\ u \in Nat /\ v \in Nat /\ gross \in Nat
  /\ output_scanline \in 0 .. datei.hoehe
  /\ DOMAIN mbild \subseteq (0 .. v - 1) \X (0 .. u - 1)
  /\ ort = "fertig" => DOMAIN mbild = (0 .. v - 1) \X (0 .. u - 1)

(* What the orientation means: the sides of the picture at which row 0 and *)
(* column 0 of the file are.                                               *)
Seiten == << <<"oben", "links">>, <<"oben", "rechts">>, <<"unten", "rechts">>,
             <<"unten", "links">>, <<"links", "oben">>, <<"rechts", "oben">>,
             <<"rechts", "unten">>, <<"links", "unten">> >>

(* The distance of a place of mbild from a side. *)
Abstand(p, seite) ==
  CASE seite = "unten"  -> p[1]
    [] seite = "oben"   -> v - 1 - p[1]
    [] seite = "links"  -> p[2]
    [] seite = "rechts" -> u - 1 - p[2]

(* The product of the sides fits the long it is computed in. *)
Passt == datei.breite * datei.hoehe < Modul \div 2

(* A photo that has been read stands upright: as far as a sample was from  *)
(* row 0 and column 0 of the file, so far it is from the sides the         *)
(* orientation names, in grey as in colour, with its channels in order; and*)
(* every write went to a new place inside the memory allocated: the swap of*)
(* width and height, the padded rows, the loop's range and the turn fit    *)
(* together.  Not so for photos of 2^31 samples and more, see README:      *)
(* their size wraps, and they may be read into a buffer far too small.     *)
Aufgerichtet ==
  Passt =>
  /\ doppelt = {}
  /\ ort = "fertig" =>
    LET seite == Seiten[IF relyexifori /\ datei.orientierung \in 1 .. 8
                        THEN datei.orientierung ELSE 1]
    IN \A p \in DOMAIN mbild, k \in 0 .. 2 :
         mbild[p][k] = <<Abstand(p, seite[1]), Abstand(p, seite[2]),
                         IF datei.farbig THEN 2 - k ELSE 0>>
=============================================================================
