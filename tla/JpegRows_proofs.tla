--------------------------- MODULE JpegRows_proofs ---------------------------
(***************************************************************************)
(* Photos whose number of samples fits a long stand upright once they are  *)
(* read, and are read into the memory allocated for them.                  *)
(***************************************************************************)
EXTENDS JpegRows, TLAPS

Flaeche == (0 .. v - 1) \X (0 .. u - 1)

(* The row and the column of the file that belong at a place of mbild.     *)
Vorn(p) == Abstand(p, Seiten[exifdreh][1])
Quer(p) == Abstand(p, Seiten[exifdreh][2])

Kanal(k) == IF datei.farbig THEN 2 - k ELSE 0

-----------------------------------------------------------------------------
(* The invariant. *)

DateiInv ==
  /\ datei.breite \in Nat /\ datei.hoehe \in Nat
  /\ datei.farbig \in BOOLEAN /\ datei.orientierung \in 0 .. 9
  /\ relyexifori \in BOOLEAN
  /\ ort \in {"kopf", "zeilen", "fertig", "abgelehnt"}

(* The sides of mbild are those of the file, swapped for a quarter turn.   *)
(* Its memory holds all its rows, as far as 32 bits can tell.              *)
Masse ==
  /\ exifdreh = Drehung(datei.orientierung)
  /\ u = IF exifdreh > 4 THEN datei.hoehe ELSE datei.breite
  /\ v = IF exifdreh > 4 THEN datei.breite ELSE datei.hoehe

MassInv ==
  /\ exifdreh \in 1 .. 8
  /\ u \in Nat /\ v \in Nat /\ gross \in Nat
  /\ ort = "kopf" => u = 0 /\ v = 0
  /\ ort = "abgelehnt" => Masse \/ (u = 0 /\ v = 0)
  /\ ort \in {"kopf", "abgelehnt"} => output_scanline = 0
  /\ ort \in {"zeilen", "fertig"} =>
       /\ Masse
       /\ ~ZuKlein /\ gross = (mu3au * v) % Modul
  /\ output_scanline \in 0 .. datei.hoehe
  /\ ort = "fertig" => output_scanline = datei.hoehe

(* Of mbild those places are written whose row has been read, each once    *)
(* and with its sample.                                                    *)
ZeilenInv ==
  /\ Passt => doppelt = {}
  /\ DOMAIN mbild = {p \in Flaeche : Vorn(p) < output_scanline}
  /\ \A p \in DOMAIN mbild, k \in 0 .. 2 : mbild[p][k] = <<Vorn(p), Quer(p), Kanal(k)>>

IInv == DateiInv /\ MassInv /\ ZeilenInv
-----------------------------------------------------------------------------
(* The turn. *)

(* The eight orientations, side by side with the eight turns. *)
LEMMA Abstaende ==
  ASSUME NEW p
  PROVE  /\ exifdreh = 1 => Vorn(p) = v - 1 - p[1] /\ Quer(p) = p[2]
         /\ exifdreh = 2 => Vorn(p) = v - 1 - p[1] /\ Quer(p) = u - 1 - p[2]
         /\ exifdreh = 3 => Vorn(p) = p[1] /\ Quer(p) = u - 1 - p[2]
         /\ exifdreh = 4 => Vorn(p) = p[1] /\ Quer(p) = p[2]
         /\ exifdreh = 5 => Vorn(p) = p[2] /\ Quer(p) = v - 1 - p[1]
         /\ exifdreh = 6 => Vorn(p) = u - 1 - p[2] /\ Quer(p) = v - 1 - p[1]
         /\ exifdreh = 7 => Vorn(p) = u - 1 - p[2] /\ Quer(p) = p[1]
         /\ exifdreh = 8 => Vorn(p) = p[2] /\ Quer(p) = p[1]
  BY DEF Vorn, Quer, Seiten, Abstand

(* A sample of a row that is read goes inside mbild, to the place that the *)
(* orientation gives its row and column.                                   *)
LEMMA PlatzTrifft ==
  ASSUME DateiInv, MassInv, ort = "zeilen",
         NEW s \in 1 .. datei.hoehe, NEW i \in Spalten
  PROVE  /\ Platz(s, i) \in Flaeche
         /\ Vorn(Platz(s, i)) = s - 1 /\ Quer(Platz(s, i)) = i
<1> USE DEF DateiInv, MassInv, Masse, Spalten, Platz, Flaeche
<1>1. CASE exifdreh = 1
  BY <1>1, Abstaende
<1>2. CASE exifdreh = 2
  BY <1>2, Abstaende
<1>3. CASE exifdreh = 3
  BY <1>3, Abstaende
<1>4. CASE exifdreh = 4
  BY <1>4, Abstaende
<1>5. CASE exifdreh = 5
  BY <1>5, Abstaende
<1>6. CASE exifdreh = 6
  BY <1>6, Abstaende
<1>7. CASE exifdreh = 7
  BY <1>7, Abstaende
<1>8. CASE exifdreh = 8
  BY <1>8, Abstaende
<1> QED
  BY <1>1, <1>2, <1>3, <1>4, <1>5, <1>6, <1>7, <1>8 DEF MassInv

(* And every place inside mbild is that of one sample of the file.         *)
LEMMA PlatzGibtEs ==
  ASSUME DateiInv, MassInv, Masse, NEW p \in Flaeche
  PROVE  /\ Vorn(p) \in 0 .. datei.hoehe - 1 /\ Quer(p) \in Spalten
         /\ Platz(Vorn(p) + 1, Quer(p)) = p
<1> USE DEF DateiInv, MassInv, Masse, Spalten, Platz, Flaeche
<1>1. CASE exifdreh = 1
  BY <1>1, Abstaende
<1>2. CASE exifdreh = 2
  BY <1>2, Abstaende
<1>3. CASE exifdreh = 3
  BY <1>3, Abstaende
<1>4. CASE exifdreh = 4
  BY <1>4, Abstaende
<1>5. CASE exifdreh = 5
  BY <1>5, Abstaende
<1>6. CASE exifdreh = 6
  BY <1>6, Abstaende
<1>7. CASE exifdreh = 7
  BY <1>7, Abstaende
<1>8. CASE exifdreh = 8
  BY <1>8, Abstaende
<1> QED
  BY <1>1, <1>2, <1>3, <1>4, <1>5, <1>6, <1>7, <1>8 DEF MassInv

-----------------------------------------------------------------------------
(* The memory. *)

LEMMA ModKlein ==
  ASSUME NEW m \in Nat, NEW x \in Nat, x < m
  PROVE  x % m = x
  OBVIOUS

LEMMA ModNat ==
  ASSUME NEW m \in Nat, m > 0, NEW x \in Nat
  PROVE  x % m \in Nat
  OBVIOUS

SeitenNat == u \in Nat /\ v \in Nat
GroesseNat == mu3au * v \in Nat

LEMMA GroesseFolgt == SeitenNat => GroesseNat
<1> SUFFICES ASSUME u \in Nat, v \in Nat PROVE mu3au * v \in Nat
  BY DEF SeitenNat, GroesseNat
<1>1. mu3au \in Nat
  BY DEF mu3au, aufgerundet
<1> QED
  BY <1>1

(* When nothing wraps, the size test means what it says. *)
LEMMA LongPasst ==
  ASSUME DateiInv, Passt
  PROVE  Long(datei.breite * datei.hoehe) = datei.breite * datei.hoehe
<1> DEFINE x == datei.breite * datei.hoehe
           h == Modul \div 2
<1>1. Modul \in Nat /\ h \in Nat /\ 2 * h <= Modul
  BY ModulAssumption
<1>2. x \in Nat /\ x < h
  <2>1. x \in Nat
    BY DEF DateiInv
  <2> QED
    BY <2>1 DEF Passt
<1> HIDE DEF x, h
<1>3. x + h \in Nat /\ x + h < Modul
  BY <1>1, <1>2
<1>4. (x + h) % Modul = x + h
  BY <1>1, <1>3, ModKlein
<1>5. ((x + h) % Modul) - h = x
  BY <1>1, <1>2, <1>4
<1> QED
  BY <1>5 DEF Long, x, h

(* The rows of a picture that is accepted fill its memory exactly, and end *)
(* below 2^32.                                                             *)
LEMMA GrossReicht ==
  ASSUME DateiInv, MassInv, Passt, ort = "zeilen"
  PROVE  /\ mu3au \in Nat /\ 3 * u <= mu3au
         /\ mu3au * v < Modul /\ gross = mu3au * v
<1>1. /\ u \in Nat /\ v \in Nat /\ u >= 4 /\ v >= 4
      /\ u * v = datei.breite * datei.hoehe
      /\ Modul \in Nat /\ MaxFlaeche \in Nat
  <2>1. datei.breite \in Nat /\ datei.hoehe \in Nat
    BY DEF DateiInv
  <2>2. datei.breite >= 4 /\ datei.hoehe >= 4
    BY <2>1 DEF MassInv, ZuKlein
  <2>3. \/ u = datei.hoehe /\ v = datei.breite
        \/ u = datei.breite /\ v = datei.hoehe
    BY DEF MassInv, Masse
  <2>4. datei.hoehe * datei.breite = datei.breite * datei.hoehe
    BY <2>1
  <2> QED
    BY <2>1, <2>2, <2>3, <2>4, ModulAssumption, GroessenAssumption
<1>2. u * v <= MaxFlaeche
  <2>1. u * v \in Nat
    BY <1>1
  <2>2. ~(Long(datei.breite * datei.hoehe) > MaxFlaeche)
    BY DEF MassInv, ZuKlein
  <2> QED
    BY <1>1, <2>1, <2>2, LongPasst
<1>3. mu3au \in Nat /\ 3 * u <= mu3au /\ mu3au <= 4 * u
  BY <1>1 DEF mu3au, aufgerundet
<1>4. mu3au * v <= 4 * (u * v)
  <2> DEFINE m == mu3au
  <2>1. m \in Nat /\ m <= 4 * u
    BY <1>3
  <2> HIDE DEF m
  <2>2. m * v <= (4 * u) * v
    BY <1>1, <2>1
  <2>3. (4 * u) * v = 4 * (u * v)
    BY <1>1
  <2>4. m * v <= 4 * (u * v)
    BY <2>2, <2>3
  <2> QED
    BY <2>4 DEF m
<1>5. mu3au * v \in Nat /\ mu3au * v < Modul
  <2>1. mu3au * v \in Nat
    BY <1>1, <1>3
  <2>2. u * v \in Nat
    BY <1>1
  <2> QED
    BY <1>1, <1>2, <1>4, <2>1, <2>2, ModulAssumption
<1>6. gross = mu3au * v
  BY <1>1, <1>5, ModKlein DEF MassInv
<1> QED
  BY <1>3, <1>5, <1>6

(* So every byte of a place inside the picture lies in that memory.        *)
LEMMA NichtDaneben ==
  ASSUME DateiInv, MassInv, Passt, ort = "zeilen", NEW p \in Flaeche
  PROVE  ~Daneben(p)
<1> DEFINE m == mu3au
<1>1. /\ m \in Nat /\ 3 * u <= m /\ m * v < Modul /\ gross = m * v
      /\ u \in Nat /\ v \in Nat /\ Modul \in Nat
  BY GrossReicht, ModulAssumption DEF MassInv
<1>2. p[1] \in 0 .. v - 1 /\ p[2] \in 0 .. u - 1
  BY DEF Flaeche
<1> HIDE DEF m
<1>3. ASSUME NEW k \in 0 .. 2 PROVE ~(Adresse(p, k) >= gross)
  <2> DEFINE a == p[1] * m + 3 * p[2] + k
             b == p[1] * m
  <2>1. b \in Nat /\ b + m <= m * v
    <3>1. p[1] \in Nat /\ p[1] + 1 <= v
      BY <1>1, <1>2
    <3>2. (p[1] + 1) * m <= v * m
      BY <1>1, <3>1
    <3> DEFINE q == p[1]
    <3>3. q \in Nat
      BY <3>1
    <3> HIDE DEF q
    <3>4. (q + 1) * m = q * m + m
      BY <1>1, <3>3
    <3>5. q * m \in Nat
      BY <1>1, <3>3
    <3>6. v * m = m * v
      BY <1>1
    <3>7. (q + 1) * m <= v * m
      BY <3>2 DEF q
    <3>8. q * m + m <= m * v
      BY <3>4, <3>6, <3>7
    <3> QED
      BY <3>5, <3>8 DEF q
  <2>2. 3 * p[2] + k < m /\ 3 * p[2] + k \in Nat
    BY <1>1, <1>2
  <2>3. m * v \in Nat
    BY <1>1
  <2>4. a = b + (3 * p[2] + k)
    BY <2>1, <1>2
  <2> HIDE DEF b, a
  <2>5. a \in Nat /\ a < m * v
    BY <1>1, <2>1, <2>2, <2>3, <2>4
  <2>6. a < Modul
    BY <1>1, <2>3, <2>5
  <2>7. a % Modul = a
    BY <1>1, <2>5, <2>6, ModKlein
  <2>8. Adresse(p, k) = a
    BY <2>7 DEF Adresse, a, m
  <2> QED
    BY <1>1, <2>3, <2>5, <2>8
<1> QED
  BY <1>3 DEF Daneben, Flaeche

-----------------------------------------------------------------------------
(* The steps. *)

LEMMA AbstandBleibt ==
  ASSUME UNCHANGED <<exifdreh, u, v>>, NEW p
  PROVE  Vorn(p)' = Vorn(p) /\ Quer(p)' = Quer(p)
  BY DEF Vorn, Quer, Abstand, Seiten

LEMMA MassBleibt ==
  ASSUME UNCHANGED <<datei, u, v>>
  PROVE  ZuKlein' = ZuKlein /\ mu3au' = mu3au /\ Passt' = Passt
  BY DEF ZuKlein, Long, mu3au, aufgerundet, Passt

(* A row, colour or grey, is written: its places are new, all inside mbild *)
(* and exactly those of this row.                                          *)
LEMMA ZeileSchritt ==
  ASSUME IInv, ort = "zeilen", output_scanline < datei.hoehe,
         NEW zeile, Schreibe(zeile),
         \A i \in Spalten, k \in 0 .. 2 :
           zeile[i][k] = <<output_scanline, i, Kanal(k)>>,
         UNCHANGED <<datei, relyexifori, ort, exifdreh, u, v, gross>>
  PROVE  IInv'
<1> DEFINE s == output_scanline + 1
           neu == {Platz(s, i) : i \in Spalten}
           Sample(p) == zeile[CHOOSE i \in Spalten : Platz(s, i) = p]
<1> USE DEF IInv
<1>1. s \in 1 .. datei.hoehe /\ s - 1 = output_scanline /\ output_scanline \in Nat
  BY DEF DateiInv, MassInv
<1>2. /\ mbild' = [p \in DOMAIN mbild \cup neu |-> IF p \in neu THEN Sample(p) ELSE mbild[p]]
      /\ doppelt' = doppelt \cup {p \in neu : p \in DOMAIN mbild \/ Daneben(p)}
      /\ output_scanline' = s
  BY DEF Schreibe
<1> HIDE DEF s
<1>3. ASSUME NEW i \in Spalten
      PROVE  /\ Platz(s, i) \in Flaeche
             /\ Vorn(Platz(s, i)) = output_scanline /\ Quer(Platz(s, i)) = i
  BY <1>1, PlatzTrifft
<1>4. ASSUME NEW p \in Flaeche
      PROVE  /\ Vorn(p) \in Nat /\ Quer(p) \in Spalten
             /\ Platz(Vorn(p) + 1, Quer(p)) = p
  <2>1. Masse
    BY DEF MassInv
  <2> QED
    BY <2>1, PlatzGibtEs DEF DateiInv
<1>5. neu = {p \in Flaeche : Vorn(p) = output_scanline}
  <2>1. ASSUME NEW p \in Flaeche, Vorn(p) = output_scanline PROVE p \in neu
    BY <1>4, <2>1 DEF s
  <2> QED
    BY <1>3, <2>1
<1>6. DOMAIN mbild' = {p \in Flaeche : Vorn(p) < s}
  <2>1. \A p \in Flaeche : Vorn(p) < s <=> Vorn(p) < output_scanline \/ Vorn(p) = output_scanline
    BY <1>1, <1>4 DEF s
  <2>2. DOMAIN mbild' = DOMAIN mbild \cup neu
    BY <1>2
  <2> HIDE DEF neu
  <2> QED
    BY <1>5, <2>1, <2>2 DEF ZeilenInv
<1>7. Passt => doppelt' = {}
  <2> HIDE DEF neu
  <2>1. \A p \in neu : p \in Flaeche /\ p \notin DOMAIN mbild
    BY <1>1, <1>5 DEF ZeilenInv
  <2>2. Passt => \A p \in neu : ~Daneben(p)
    BY <2>1, NichtDaneben
  <2> QED
    BY <1>2, <2>1, <2>2 DEF ZeilenInv
<1>8. ASSUME NEW p \in DOMAIN mbild', NEW k \in 0 .. 2
      PROVE  mbild'[p][k] = <<Vorn(p), Quer(p), Kanal(k)>>
  <2>1. CASE p \in neu
    <3>1. PICK i \in Spalten : Platz(s, i) = p
      BY <2>1
    <3> DEFINE c == CHOOSE j \in Spalten : Platz(s, j) = p
    <3>2. c \in Spalten /\ Platz(s, c) = p
      BY <3>1
    <3>3. mbild'[p] = zeile[c]
      BY <1>2, <2>1
    <3> HIDE DEF c
    <3>4. Quer(p) = c /\ Vorn(p) = output_scanline
      BY <1>3, <3>2
    <3> QED
      BY <3>2, <3>3, <3>4
  <2>2. CASE p \notin neu
    <3> HIDE DEF neu
    <3>1. p \in DOMAIN mbild /\ mbild'[p] = mbild[p]
      BY <1>2, <2>2
    <3> QED
      BY <3>1 DEF ZeilenInv
  <2> QED
    BY <2>1, <2>2
<1>9. \A p : Vorn(p)' = Vorn(p) /\ Quer(p)' = Quer(p)
  BY AbstandBleibt
<1>10. ZeilenInv'
  <2>1. Flaeche' = Flaeche /\ Passt' = Passt /\ \A k : Kanal(k)' = Kanal(k)
    BY DEF Flaeche, Kanal, Passt
  <2>2. output_scanline' = s
    BY <1>2
  <2> HIDE DEF neu, Sample
  <2>3. DOMAIN mbild' = {p \in Flaeche' : Vorn(p)' < output_scanline'}
    BY <1>6, <1>9, <2>1, <2>2
  <2>4. \A p \in DOMAIN mbild', k \in 0 .. 2 :
          mbild'[p][k] = <<Vorn(p)', Quer(p)', Kanal(k)'>>
    BY <1>8, <1>9, <2>1
  <2> QED
    BY <1>7, <2>1, <2>3, <2>4 DEF ZeilenInv
<1>11. DateiInv' /\ MassInv'
  BY <1>1, <1>2, MassBleibt DEF DateiInv, MassInv, Masse, Drehung
<1> QED
  BY <1>10, <1>11

(* Before the first row there is no place to write. *)
LEMMA NichtsDavor == DateiInv /\ MassInv => {p \in Flaeche : Vorn(p) < 0} = {}
<1> SUFFICES ASSUME DateiInv, MassInv, NEW p \in Flaeche PROVE ~(Vorn(p) < 0)
  OBVIOUS
<1>1. CASE Masse
  BY <1>1, PlatzGibtEs DEF DateiInv
<1>2. CASE u = 0 /\ v = 0
  BY <1>2 DEF Flaeche
<1> QED
  BY <1>1, <1>2 DEF DateiInv, MassInv

(* The header: the turn and the sides of mbild are chosen, or the photo is *)
(* not read.                                                               *)
LEMMA KopfSchritt ==
  ASSUME IInv, Kopf
  PROVE  IInv'
<1> USE DEF IInv
<1>1. DateiInv'
  BY DEF Kopf, DateiInv
<1>2. MassInv'
  <2>1. Drehung(datei.orientierung) \in 1 .. 8
    BY DEF Drehung
  <2>2. /\ ort = "kopf" /\ UNCHANGED <<datei, relyexifori, output_scanline>>
        /\ u \in Nat /\ v \in Nat /\ gross \in Nat /\ exifdreh \in 1 .. 8
        /\ u = 0 /\ v = 0 /\ output_scanline = 0
        /\ datei.breite \in Nat /\ datei.hoehe \in Nat
    BY DEF Kopf, MassInv, DateiInv
  <2>3. ZuKlein' = ZuKlein
    BY <2>2 DEF ZuKlein, Long
  <2>4. Drehung(datei.orientierung)' = Drehung(datei.orientierung)
    BY <2>2 DEF Drehung
  <2>5. CASE ZuKlein
    <3>1. ort' = "abgelehnt" /\ UNCHANGED <<exifdreh, u, v, gross>>
      BY <2>5 DEF Kopf
    <3> QED
      BY <2>2, <3>1 DEF MassInv
  <2>6. CASE ~ZuKlein
    <3>1. /\ exifdreh' = Drehung(datei.orientierung)
          /\ u' = IF exifdreh' > 4 THEN datei.hoehe ELSE datei.breite
          /\ v' = IF exifdreh' > 4 THEN datei.breite ELSE datei.hoehe
          /\ \/ gross' = (mu3au' * v') % Modul /\ ort' = "zeilen"
             \/ gross' = 0 /\ ort' = "abgelehnt"
      BY <2>6 DEF Kopf
    <3>2. u' \in Nat /\ v' \in Nat
      BY <2>2, <3>1
    <3>3. Masse'
      BY <2>2, <2>4, <3>1 DEF Masse
    <3>4. GroesseNat'
      <4>1. SeitenNat'
        BY <3>2 DEF SeitenNat
      <4> QED
        BY <4>1, GroesseFolgt, PTL
    <3>5. gross' \in Nat
      <4> DEFINE x == mu3au' * v'
      <4>1. x \in Nat
        BY <3>4 DEF GroesseNat
      <4> HIDE DEF x
      <4>2. x % Modul \in Nat
        BY <4>1, ModNat, ModulAssumption, GroessenAssumption
      <4> QED
        BY <3>1, <4>2 DEF x
    <3> DEFINE g == (mu3au * v) % Modul
    <3>6. ort' = "zeilen" => gross' = g'
      BY <3>1
    <3>7. ort' \in {"zeilen", "abgelehnt"} /\ exifdreh' \in 1 .. 8
      BY <2>1, <3>1
    <3> HIDE DEF g
    <3>8. (ort \in {"zeilen", "fertig"} => Masse /\ ~ZuKlein /\ gross = g)'
      BY <2>3, <2>6, <3>3, <3>6, <3>7
    <3>9. output_scanline' \in 0 .. datei'.hoehe
      BY <2>2
    <3> QED
      BY <2>2, <3>2, <3>3, <3>5, <3>7, <3>8, <3>9 DEF MassInv, g
  <2> QED
    BY <2>5, <2>6
<1>3. DOMAIN mbild = {}
  BY DEF Kopf, MassInv, ZeilenInv, Flaeche
<1>4. ({p \in Flaeche : Vorn(p) < 0} = {})'
  BY <1>1, <1>2, NichtsDavor, PTL
<1>5. ZeilenInv'
  <2>1. /\ Passt' => doppelt' = {}
        /\ mbild' = mbild /\ output_scanline' = 0
    BY DEF Kopf, MassInv, ZeilenInv, Passt
  <2>2. DOMAIN mbild' = {p \in Flaeche' : Vorn(p)' < output_scanline'}
    BY <1>3, <1>4, <2>1
  <2>3. DOMAIN mbild' = {}
    BY <1>3, <2>1
  <2> QED
    BY <2>1, <2>2, <2>3 DEF ZeilenInv
<1> QED
  BY <1>1, <1>2, <1>5

(* All rows are there. *)
LEMMA FertigSchritt ==
  ASSUME IInv, Fertig
  PROVE  IInv'
<1> USE DEF IInv
<1>1. DateiInv' /\ MassInv'
  BY MassBleibt DEF Fertig, DateiInv, MassInv, Masse, Drehung
<1>2. ZeilenInv'
  <2>1. \A p : Vorn(p)' = Vorn(p) /\ Quer(p)' = Quer(p)
    BY AbstandBleibt DEF Fertig
  <2>2. Flaeche' = Flaeche /\ \A k : Kanal(k)' = Kanal(k)
    BY DEF Fertig, Flaeche, Kanal
  <2> QED
    BY <2>1, <2>2, MassBleibt DEF Fertig, ZeilenInv
<1> QED
  BY <1>1, <1>2

LEMMA Anfang == Init => IInv
<1> SUFFICES ASSUME Init PROVE IInv
  OBVIOUS
<1>1. PICK g \in Groessen :
        datei \in [breite : {g[1]}, hoehe : {g[2]}, farbig : BOOLEAN, orientierung : 0 .. 9]
  BY DEF Init
<1>2. g[1] \in Nat /\ g[2] \in Nat
  BY GroessenAssumption
<1>3. DateiInv
  BY <1>1, <1>2 DEF Init, DateiInv
<1>4. MassInv
  BY <1>3 DEF Init, DateiInv, MassInv
<1>5. ZeilenInv
  BY DEF Init, ZeilenInv, Flaeche
<1> QED
  BY <1>3, <1>4, <1>5 DEF IInv

LEMMA Erhalten == IInv /\ [Next]_vars => IInv'
<1> SUFFICES ASSUME IInv, [Next]_vars PROVE IInv'
  OBVIOUS
<1>1. CASE Kopf
  BY <1>1, KopfSchritt
<1>2. CASE ZeileFarbe
  <2> DEFINE zeile == [i \in Spalten |-> [k \in 0 .. 2 |-> <<output_scanline, i, 2 - k>>]]
  <2>1. \A i \in Spalten, k \in 0 .. 2 :
          zeile[i][k] = <<output_scanline, i, Kanal(k)>>
    BY <1>2 DEF ZeileFarbe, Kanal
  <2>2. /\ ort = "zeilen" /\ output_scanline < datei.hoehe /\ Schreibe(zeile)
        /\ UNCHANGED <<datei, relyexifori, ort, exifdreh, u, v, gross>>
    BY <1>2 DEF ZeileFarbe
  <2> HIDE DEF zeile
  <2> QED
    BY <2>1, <2>2, ZeileSchritt
<1>3. CASE ZeileGrau
  <2> DEFINE zeile == [i \in Spalten |-> [k \in 0 .. 2 |-> <<output_scanline, i, 0>>]]
  <2>1. \A i \in Spalten, k \in 0 .. 2 :
          zeile[i][k] = <<output_scanline, i, Kanal(k)>>
    BY <1>3 DEF ZeileGrau, Kanal
  <2>2. /\ ort = "zeilen" /\ output_scanline < datei.hoehe /\ Schreibe(zeile)
        /\ UNCHANGED <<datei, relyexifori, ort, exifdreh, u, v, gross>>
    BY <1>3 DEF ZeileGrau
  <2> HIDE DEF zeile
  <2> QED
    BY <2>1, <2>2, ZeileSchritt
<1>4. CASE Fertig
  BY <1>4, FertigSchritt
<1>5. CASE UNCHANGED vars
  <2>1. DateiInv' /\ MassInv'
    BY <1>5, MassBleibt DEF IInv, vars, DateiInv, MassInv, Masse, Drehung
  <2>2. \A p : Vorn(p)' = Vorn(p) /\ Quer(p)' = Quer(p)
    BY <1>5, AbstandBleibt DEF vars
  <2>3. Flaeche' = Flaeche /\ \A k : Kanal(k)' = Kanal(k)
    BY <1>5 DEF vars, Flaeche, Kanal
  <2>4. ZeilenInv'
    BY <1>5, <2>2, <2>3, MassBleibt DEF IInv, vars, ZeilenInv
  <2> QED
    BY <2>1, <2>4 DEF IInv
<1> QED
  BY <1>1, <1>2, <1>3, <1>4, <1>5 DEF Next

LEMMA Induktiv == Spec => []IInv
  BY Anfang, Erhalten, PTL DEF Spec

-----------------------------------------------------------------------------
(* What it says about a photo. *)

(* Samples go to places of the picture only, u wide and v high, and when   *)
(* all rows are read no place of it is left without one.                   *)
THEOREM GanzGefuellt == Spec => []TypeOK
<1>1. IInv => TypeOK
  <2> SUFFICES ASSUME IInv PROVE TypeOK
    OBVIOUS
  <2> USE DEF IInv
  <2>1. DOMAIN mbild \subseteq Flaeche
    BY DEF ZeilenInv
  <2>2. ort = "fertig" => DOMAIN mbild = Flaeche
    BY PlatzGibtEs DEF DateiInv, MassInv, ZeilenInv
  <2>3. u \in Nat /\ v \in Nat
    BY DEF DateiInv, MassInv
  <2> QED
    BY <2>1, <2>2, <2>3 DEF TypeOK, DateiInv, MassInv, Flaeche
<1> QED
  BY <1>1, Induktiv, PTL

(* A photo whose sides have a product that fits a long, in grey or colour  *)
(* and with any orientation tag, stands upright when it has been read; no  *)
(* place is written twice and no byte beside the memory calloc returned.   *)
THEOREM ImmerAufgerichtet == Spec => []Aufgerichtet
<1>1. IInv => Aufgerichtet
  <2> SUFFICES ASSUME IInv, Passt PROVE Aufgerichtet
    BY DEF Aufgerichtet
  <2> USE DEF IInv
  <2>1. doppelt = {}
    BY DEF ZeilenInv
  <2> DEFINE seite == Seiten[IF relyexifori /\ datei.orientierung \in 1 .. 8
                             THEN datei.orientierung ELSE 1]
  <2>2. ASSUME ort = "fertig", NEW p \in DOMAIN mbild, NEW k \in 0 .. 2
        PROVE  mbild[p][k] = <<Abstand(p, seite[1]), Abstand(p, seite[2]),
                               IF datei.farbig THEN 2 - k ELSE 0>>
    <3>1. exifdreh = IF relyexifori /\ datei.orientierung \in 1 .. 8
                     THEN datei.orientierung ELSE 1
      BY <2>2 DEF MassInv, Masse, Drehung
    <3>2. Seiten[exifdreh] = seite
      BY <3>1
    <3>3. mbild[p][k] = <<Vorn(p), Quer(p), Kanal(k)>>
      BY DEF ZeilenInv
    <3> HIDE DEF seite
    <3> QED
      BY <3>2, <3>3 DEF Vorn, Quer, Kanal
  <2> QED
    BY <2>1, <2>2 DEF Aufgerichtet
<1> QED
  BY <1>1, Induktiv, PTL
=============================================================================
