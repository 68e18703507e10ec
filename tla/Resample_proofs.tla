--------------------------- MODULE Resample_proofs ---------------------------
(***************************************************************************)
(* A save, for every picture, zoom, gesture, setting and order of the two  *)
(* threads: the part that is cut fits into the buffer, a part cut without  *)
(* a rectangle shows no background, one cut with a rectangle is what that  *)
(* shows, and what is written has been sampled for this save.  First the   *)
(* part (Crop), then its sampling (Resample).                              *)
(***************************************************************************)
EXTENDS Resample, TLAPS

-----------------------------------------------------------------------------
(* Division and products. *)

LEMMA Geteilt ==
  ASSUME NEW a \in Nat, NEW b \in Nat \ {0}
  PROVE  /\ a \div b \in Nat
         /\ (a \div b) * b <= a
         /\ a < (a \div b) * b + b
OBVIOUS

LEMMA Produkt ==
  ASSUME NEW a \in Nat, NEW b \in Nat
  PROVE  a * b \in Nat
OBVIOUS

LEMMA ProduktMonoton ==
  ASSUME NEW a \in Int, NEW b \in Int, NEW c \in Nat, a <= b
  PROVE  a * c <= b * c
OBVIOUS

LEMMA GeteiltKleiner ==
  ASSUME NEW a \in Nat, NEW b \in Nat \ {0}, NEW n \in Nat, a < n * b
  PROVE  a \div b < n
<1> DEFINE q == a \div b
<1>1. q \in Nat /\ q * b <= a
  BY Geteilt
<1> HIDE DEF q
<1>2. ASSUME q >= n PROVE FALSE
  <2>1. n * b <= q * b
    BY <1>1, <1>2, ProduktMonoton
  <2>2. n * b \in Int /\ q * b \in Int
    BY <1>1
  <2> QED
    BY <1>1, <2>1, <2>2
<1>3. q < n
  BY <1>1, <1>2
<1> QED
  BY <1>3 DEF q

LEMMA GeteiltHoechstens ==
  ASSUME NEW a \in Nat, NEW b \in Nat \ {0}, NEW n \in Nat, a <= n * b
  PROVE  a \div b <= n
<1>1. a < (n + 1) * b
  <2>1. (n + 1) * b = n * b + b /\ n * b \in Nat
    OBVIOUS
  <2> QED
    BY <2>1
<1>2. a \div b < n + 1
  BY <1>1, GeteiltKleiner
<1> QED
  BY <1>2, Geteilt

LEMMA GeteiltMonoton ==
  ASSUME NEW a \in Nat, NEW c \in Nat, NEW b \in Nat \ {0}, a <= c
  PROVE  a \div b <= c \div b
<1> DEFINE q == c \div b
<1>1. q \in Nat /\ c < q * b + b
  BY Geteilt
<1> HIDE DEF q
<1>2. a < (q + 1) * b
  <2>1. (q + 1) * b = q * b + b /\ q * b \in Nat
    BY <1>1
  <2> QED
    BY <1>1, <2>1
<1>3. a \div b < q + 1
  BY <1>1, <1>2, GeteiltKleiner
<1> QED
  BY <1>1, <1>3, Geteilt DEF q

LEMMA GeteiltGlatt ==
  ASSUME NEW n \in Nat, NEW b \in Nat \ {0}
  PROVE  (n * b) \div b = n
<1> DEFINE q == (n * b) \div b
<1>1. n * b \in Nat
  OBVIOUS
<1>2. q \in Nat /\ q <= n
  BY <1>1, Geteilt, GeteiltHoechstens
<1>3. n * b < q * b + b
  BY <1>1, Geteilt
<1> HIDE DEF q
<1>4. ASSUME q < n PROVE FALSE
  <2>1. (q + 1) * b <= n * b
    BY <1>2, <1>4, ProduktMonoton
  <2>2. (q + 1) * b = q * b + b
    BY <1>2
  <2> QED
    BY <1>1, <1>2, <1>3, <2>1, <2>2
<1>5. q = n
  BY <1>2, <1>4
<1> QED
  BY <1>5 DEF q

-----------------------------------------------------------------------------
(* The photo is an intersection of half planes: between two points inside  *)
(* of it, side by side or one above the other, there is no point outside.  *)

LEMMA Linear ==
  ASSUME NEW c \in Int, NEW e \in Int, NEW l \in Int, NEW q \in Int, NEW r \in Int,
         l <= q, q <= r, l * c + e <= 0, r * c + e <= 0
  PROVE  q * c + e <= 0
<1>1. CASE c >= 0
  <2>1. q * c <= r * c
    BY <1>1, ProduktMonoton
  <2> QED
    BY <2>1
<1>2. CASE c < 0
  <2>1. l * (-c) <= q * (-c)
    BY <1>2, ProduktMonoton
  <2> QED
    BY <2>1
<1> QED
  BY <1>1, <1>2

LEMMA HalbebeneWaagrecht ==
  ASSUME NEW a \in Int \X Int, NEW b \in Int \X Int, NEW v \in Int,
         NEW l \in Int, NEW q \in Int, NEW r \in Int, l <= q, q <= r,
         ~Jenseits(<<l, v>>, a, b), ~Jenseits(<<r, v>>, a, b)
  PROVE  ~Jenseits(<<q, v>>, a, b)
<1> DEFINE c == b[2] - a[2]
           e == (v - a[2]) * (a[1] - b[1])
<1>1. /\ a[1] \in Int /\ a[2] \in Int /\ b[1] \in Int /\ b[2] \in Int
      /\ c \in Int /\ e \in Int
  OBVIOUS
<1>2. (l - a[1]) * c + e <= 0 /\ (r - a[1]) * c + e <= 0
  BY <1>1 DEF Jenseits
<1> HIDE DEF c, e
<1>3. (q - a[1]) * c + e <= 0
  BY <1>1, <1>2, Linear
<1> QED
  BY <1>1, <1>3 DEF Jenseits, c, e

LEMMA HalbebeneSenkrecht ==
  ASSUME NEW a \in Int \X Int, NEW b \in Int \X Int, NEW v \in Int,
         NEW l \in Int, NEW q \in Int, NEW r \in Int, l <= q, q <= r,
         ~Jenseits(<<v, l>>, a, b), ~Jenseits(<<v, r>>, a, b)
  PROVE  ~Jenseits(<<v, q>>, a, b)
<1> DEFINE c == a[1] - b[1]
           e == (v - a[1]) * (b[2] - a[2])
<1>1. /\ a[1] \in Int /\ a[2] \in Int /\ b[1] \in Int /\ b[2] \in Int
      /\ c \in Int /\ e \in Int
  OBVIOUS
<1>2. (l - a[2]) * c + e <= 0 /\ (r - a[2]) * c + e <= 0
  BY <1>1 DEF Jenseits
<1> HIDE DEF c, e
<1>3. (q - a[2]) * c + e <= 0
  BY <1>1, <1>2, Linear
<1> QED
  BY <1>1, <1>3 DEF Jenseits, c, e

LEMMA InnenWaagrecht ==
  ASSUME NEW b \in Bild, NEW v \in Int, NEW l \in Int, NEW q \in Int, NEW r \in Int,
         l <= q, q <= r, ~Aussen(b, <<l, v>>), ~Aussen(b, <<r, v>>)
  PROVE  ~Aussen(b, <<q, v>>)
<1>1. ASSUME NEW k \in 0 .. 3
      PROVE  ~Jenseits(<<q, v>>, b.P[k], b.P[(k + 1) % 4])
  <2>1. b.P[k] \in Int \X Int /\ b.P[(k + 1) % 4] \in Int \X Int
    BY DEF Bild
  <2>2. ~Jenseits(<<l, v>>, b.P[k], b.P[(k + 1) % 4])
        /\ ~Jenseits(<<r, v>>, b.P[k], b.P[(k + 1) % 4])
    BY DEF Aussen
  <2> QED
    BY <2>1, <2>2, HalbebeneWaagrecht
<1> QED
  BY <1>1 DEF Aussen

LEMMA InnenSenkrecht ==
  ASSUME NEW b \in Bild, NEW v \in Int, NEW l \in Int, NEW q \in Int, NEW r \in Int,
         l <= q, q <= r, ~Aussen(b, <<v, l>>), ~Aussen(b, <<v, r>>)
  PROVE  ~Aussen(b, <<v, q>>)
<1>1. ASSUME NEW k \in 0 .. 3
      PROVE  ~Jenseits(<<v, q>>, b.P[k], b.P[(k + 1) % 4])
  <2>1. b.P[k] \in Int \X Int /\ b.P[(k + 1) % 4] \in Int \X Int
    BY DEF Bild
  <2>2. ~Jenseits(<<v, l>>, b.P[k], b.P[(k + 1) % 4])
        /\ ~Jenseits(<<v, r>>, b.P[k], b.P[(k + 1) % 4])
    BY DEF Aussen
  <2> QED
    BY <2>1, <2>2, HalbebeneSenkrecht
<1> QED
  BY <1>1 DEF Aussen

LEMMA InnenRechteck ==
  ASSUME NEW b \in Bild, NEW l \in Int, NEW r \in Int, NEW u \in Int, NEW o \in Int,
         ~Aussen(b, <<l, u>>), ~Aussen(b, <<l, o>>),
         ~Aussen(b, <<r, u>>), ~Aussen(b, <<r, o>>),
         NEW q \in Int, NEW v \in Int, l <= q, q <= r, u <= v, v <= o
  PROVE  ~Aussen(b, <<q, v>>)
<1>1. ~Aussen(b, <<q, u>>) /\ ~Aussen(b, <<q, o>>)
  BY InnenWaagrecht
<1> QED
  BY <1>1, InnenSenkrecht

-----------------------------------------------------------------------------
(* The picture and the rectangle. *)

LEMMA BildTyp ==
  ASSUME bild \in Bilder
  PROVE  /\ bild \in Bild /\ bild.mf \in Nat \ {0}
         /\ xf \in Nat \ {0} /\ yf \in Nat \ {0}
         /\ bild.zoom[1] \in Nat \ {0} /\ bild.zoom[2] \in Nat \ {0}
         /\ ImErgebnis(bild, bild.mitte) /\ ~Aussen(bild, bild.mitte)
         /\ bild.mitte \in Nat \X Nat
BY BilderAssumption DEF Bild, xf, yf

LEMMA Masse ==
  ASSUME bild \in Bilder
  PROVE  /\ Breite \in Nat /\ Hoehe \in Nat
         /\ Breite * bild.zoom[2] <= xf * bild.zoom[1]
         /\ Hoehe * bild.zoom[2] <= yf * bild.zoom[1]
<1> DEFINE z1 == bild.zoom[1]
           z2 == bild.zoom[2]
<1>1. xf \in Nat /\ yf \in Nat /\ z1 \in Nat /\ z2 \in Nat \ {0}
  BY BildTyp
<1>2. Breite = (xf * z1) \div z2 /\ Hoehe = (yf * z1) \div z2
  BY DEF Breite, Hoehe
<1> HIDE DEF z1, z2
<1>3. xf * z1 \in Nat /\ yf * z1 \in Nat
  BY <1>1, Produkt
<1>4. /\ Breite \in Nat /\ Hoehe \in Nat
      /\ Breite * z2 <= xf * z1 /\ Hoehe * z2 <= yf * z1
  BY <1>1, <1>2, <1>3, Geteilt
<1> QED
  BY <1>4 DEF z1, z2

(* A rectangle within the shown result. *)
Drin(r) ==
  /\ r \in Rechteck
  /\ r.left \in 0 .. Breite /\ r.right \in 0 .. Breite
  /\ r.top \in 0 .. Hoehe /\ r.bottom \in 0 .. Hoehe

LEMMA NormalDrin ==
  ASSUME bild \in Bilder, NEW r, Drin(r)
  PROVE  /\ Drin(Normal(r))
         /\ Normal(r).left <= Normal(r).right
         /\ Normal(r).top <= Normal(r).bottom
BY Masse DEF Drin, Normal, Rechteck

LEMMA KlammerDrin ==
  ASSUME bild \in Bilder, NEW n \in Int
  PROVE  Klammer(n) \in 0 .. Breite
BY Masse DEF Klammer

(* Between two handlers, and in the loops of a handler of the right button,*)
(* which lets the left side alone leave the picture.                       *)
RechteckInv ==
  IF ort \in {"weiten", "verengen"}
  THEN /\ m_rect \in Rechteck /\ m_rect.right \in 0 .. Breite
       /\ m_rect.top \in 0 .. Hoehe /\ m_rect.bottom \in 0 .. Hoehe
       /\ x \in Int /\ y \in 0 .. Hoehe
  ELSE Drin(m_rect)

(* What cutter has reached lies in the result and shows only the photo. *)
RandInv ==
  ort = "cutter" =>
    /\ px \in 1 .. 2 * Einheit - 1
    /\ rand \in Rand
    /\ 0 <= rand.links /\ rand.links <= rand.rechts /\ rand.rechts <= Einheit * xf
    /\ 0 <= rand.unten /\ rand.unten <= rand.oben /\ rand.oben <= Einheit * yf
    /\ ~Aussen(bild, <<rand.links, rand.unten>>) /\ ~Aussen(bild, <<rand.links, rand.oben>>)
    /\ ~Aussen(bild, <<rand.rechts, rand.unten>>) /\ ~Aussen(bild, <<rand.rechts, rand.oben>>)

CropInv ==
  /\ bild \in Bilder
  /\ RechteckInv /\ RandInv
  /\ PasstInPuffer /\ KeinHintergrund

(* Everything but the mouse's own state and the part that is cut. *)
LEMMA MassFest ==
  ASSUME bild' = bild
  PROVE  /\ xf' = xf /\ yf' = yf /\ Breite' = Breite /\ Hoehe' = Hoehe
BY DEF xf, yf, Breite, Hoehe

LEMMA DrinFest ==
  ASSUME bild' = bild, Drin(m_rect'), ort' \notin {"weiten", "verengen"}
  PROVE  RechteckInv'
<1>1. Breite' = Breite /\ Hoehe' = Hoehe
  BY MassFest
<1>2. Drin(m_rect)'
  BY <1>1 DEF Drin, Rechteck
<1> QED
  BY <1>2 DEF RechteckInv

LEMMA SetzeDrin ==
  ASSUME bild \in Bilder,
         NEW a \in Int, NEW b \in 0 .. Hoehe, NEW l \in Int, NEW los \in BOOLEAN,
         m_rect \in Rechteck, m_rect.top \in 0 .. Hoehe, Setze(a, b, l, los)
  PROVE  Drin(m_rect')
<1> DEFINE r == [m_rect EXCEPT !.left = Klammer(l), !.right = Klammer(a), !.bottom = b]
<1>1. Klammer(l) \in 0 .. Breite /\ Klammer(a) \in 0 .. Breite
  BY KlammerDrin
<1>2. Klammer(l) \in Int /\ Klammer(a) \in Int /\ b \in Int
  BY <1>1, Masse
<1>4. /\ r.left = Klammer(l) /\ r.top = m_rect.top
      /\ r.right = Klammer(a) /\ r.bottom = b /\ r \in Rechteck
  BY <1>2 DEF Rechteck
<1>5. Drin(r)
  <2> HIDE DEF r
  <2>1. /\ r.left \in 0 .. Breite /\ r.right \in 0 .. Breite
        /\ r.top \in 0 .. Hoehe /\ r.bottom \in 0 .. Hoehe
    BY <1>1, <1>4
  <2> QED
    BY <1>4, <2>1 DEF Drin
<1>3. m_rect' = r \/ m_rect' = Normal(r)
  BY DEF Setze
<1> HIDE DEF r
<1> QED
  BY <1>3, <1>5, NormalDrin

(* The mouse. *)
LEMMA MausRechteck ==
  ASSUME CropInv, Maus \/ Weiten \/ Verengen
  PROVE  RechteckInv' /\ bild' = bild
<1> USE DEF CropInv
<1>1. ASSUME NEW p \in Punkte, Druecken(p[1], p[2])
      PROVE  RechteckInv' /\ bild' = bild
  <2>1. /\ bild' = bild /\ ort = "frei" /\ ort' = ort
        /\ p[1] \in 0 .. Breite /\ p[2] \in 0 .. Hoehe
    BY <1>1 DEF Druecken, ImBild
  <2>2. Drin(m_rect)
    BY <2>1 DEF RechteckInv
  <2> DEFINE r == [m_rect EXCEPT !.left = p[1], !.top = p[2]]
  <2>3. Drin(r)
    <3>1. p[1] \in Int /\ p[2] \in Int /\ m_rect \in Rechteck
      BY <2>1, <2>2, Masse DEF Drin
    <3>3. /\ r.left = p[1] /\ r.top = p[2]
          /\ r.right = m_rect.right /\ r.bottom = m_rect.bottom /\ r \in Rechteck
      BY <3>1 DEF Rechteck
    <3> HIDE DEF r
    <3>2. /\ r.left \in 0 .. Breite /\ r.right \in 0 .. Breite
          /\ r.top \in 0 .. Hoehe /\ r.bottom \in 0 .. Hoehe
      BY <2>1, <2>2, <3>3 DEF Drin
    <3> QED
      BY <3>2, <3>3 DEF Drin
  <2>4. Drin(m_rect')
    BY <1>1, <2>3, NormalDrin DEF Druecken
  <2> QED
    BY <2>1, <2>4, DrinFest
<1>2. ASSUME NEW p \in Punkte, ZiehenLinks(p[1], p[2])
      PROVE  RechteckInv' /\ bild' = bild
  <2>1. /\ bild' = bild /\ ort = "frei" /\ ort' = ort
        /\ p[1] \in 0 .. Breite /\ p[2] \in 0 .. Hoehe
    BY <1>2 DEF ZiehenLinks, ImBild
  <2>2. Drin(m_rect)
    BY <2>1 DEF RechteckInv
  <2> DEFINE r == [m_rect EXCEPT !.right = p[1], !.bottom = p[2]]
  <2>3. Drin(r)
    <3>1. p[1] \in Int /\ p[2] \in Int /\ m_rect \in Rechteck
      BY <2>1, <2>2, Masse DEF Drin
    <3>3. /\ r.left = m_rect.left /\ r.top = m_rect.top
          /\ r.right = p[1] /\ r.bottom = p[2] /\ r \in Rechteck
      BY <3>1 DEF Rechteck
    <3> HIDE DEF r
    <3>2. /\ r.left \in 0 .. Breite /\ r.right \in 0 .. Breite
          /\ r.top \in 0 .. Hoehe /\ r.bottom \in 0 .. Hoehe
      BY <2>1, <2>2, <3>3 DEF Drin
    <3> QED
      BY <3>2, <3>3 DEF Drin
  <2>4. m_rect' \in {r, Normal(r)}
    BY <1>2 DEF ZiehenLinks
  <2> HIDE DEF r
  <2>5. Drin(m_rect')
    BY <2>3, <2>4, NormalDrin
  <2> QED
    BY <2>1, <2>5, DrinFest
<1>3. ASSUME NEW p \in Punkte, ZiehenRechts(p[1], p[2])
      PROVE  RechteckInv' /\ bild' = bild
  <2>1. /\ bild' = bild /\ ort = "frei"
        /\ p[1] \in 0 .. Breite /\ p[2] \in 0 .. Hoehe
    BY <1>3 DEF ZiehenRechts, ImBild
  <2>2. Drin(m_rect)
    BY <2>1 DEF RechteckInv
  <2>3. \/ ort' = "weiten" /\ x' = p[1] /\ y' = p[2] /\ m_rect' = m_rect
        \/ ort' = ort /\ \E los \in BOOLEAN : Setze(p[1], p[2], m_rect.left, los)
    BY <1>3 DEF ZiehenRechts
  <2>4. CASE ort' = "weiten" /\ x' = p[1] /\ y' = p[2] /\ m_rect' = m_rect
    <3>1. Breite' = Breite /\ Hoehe' = Hoehe
      BY <2>1, MassFest
    <3> QED
      BY <2>1, <2>2, <2>4, <3>1, Masse DEF RechteckInv, Drin, Rechteck
  <2>5. CASE ort' = ort /\ \E los \in BOOLEAN : Setze(p[1], p[2], m_rect.left, los)
    <3>1. Drin(m_rect')
      BY <2>1, <2>2, <2>5, SetzeDrin, Masse DEF Drin, Rechteck
    <3> QED
      BY <2>1, <2>5, <3>1, DrinFest
  <2> QED
    BY <2>1, <2>3, <2>4, <2>5
<1>4. CASE Loslassen
  <2>1. bild' = bild /\ ort = "frei" /\ ort' = ort /\ m_rect' = Normal(m_rect)
    BY <1>4 DEF Loslassen
  <2>2. Drin(m_rect')
    BY <2>1, NormalDrin DEF RechteckInv
  <2> QED
    BY <2>1, <2>2, DrinFest
<1>5. CASE Verwerfen
  <2>1. bild' = bild /\ ort = "frei" /\ ort' = ort /\ m_rect' = KeinRechteck
    BY <1>5 DEF Verwerfen
  <2>2. Drin(m_rect')
    BY <2>1, Masse DEF Drin, KeinRechteck, Rechteck
  <2> QED
    BY <2>1, <2>2, DrinFest
<1>6. CASE Weiten
  <2>1. bild' = bild /\ ort = "weiten" /\ y' = y /\ ort' \in {"weiten", "verengen"}
    BY <1>6 DEF Weiten
  <2>2. Breite' = Breite /\ Hoehe' = Hoehe
    BY <2>1, MassFest
  <2>3. /\ x' \in Int
        /\ m_rect' = m_rect \/ \E n \in Int : m_rect' = [m_rect EXCEPT !.left = n]
    BY <1>6, <2>1 DEF Weiten, Beide, RechteckInv, Rechteck
  <2>4. /\ m_rect' \in Rechteck /\ m_rect'.right = m_rect.right
        /\ m_rect'.top = m_rect.top /\ m_rect'.bottom = m_rect.bottom
    BY <2>1, <2>3 DEF RechteckInv, Rechteck
  <2> QED
    BY <2>1, <2>2, <2>3, <2>4 DEF RechteckInv
<1>7. CASE Verengen
  <2>1. bild' = bild /\ ort = "verengen"
    BY <1>7 DEF Verengen
  <2>2. Breite' = Breite /\ Hoehe' = Hoehe
    BY <2>1, MassFest
  <2>3. CASE Breiter
    <3>1. y' = y /\ ort' = ort
      BY <1>7, <2>3 DEF Verengen
    <3>2. x' \in Int /\ \E n \in Int : m_rect' = [m_rect EXCEPT !.left = n]
      BY <1>7, <2>1, <2>3 DEF Verengen, Beide, RechteckInv, Rechteck
    <3>3. /\ m_rect' \in Rechteck /\ m_rect'.right = m_rect.right
          /\ m_rect'.top = m_rect.top /\ m_rect'.bottom = m_rect.bottom
      BY <2>1, <3>2 DEF RechteckInv, Rechteck
    <3> QED
      BY <2>1, <2>2, <3>1, <3>2, <3>3 DEF RechteckInv
  <2>4. CASE ~Breiter
    <3>1. ort' = "frei" /\ Setze(x, y, m_rect.left, loslassen)
      BY <1>7, <2>4 DEF Verengen
    <3>2. /\ x \in Int /\ y \in 0 .. Hoehe /\ m_rect \in Rechteck
          /\ m_rect.top \in 0 .. Hoehe /\ m_rect.left \in Int
      BY <2>1 DEF RechteckInv, Rechteck
    <3>3. \E los \in BOOLEAN : Setze(x, y, m_rect.left, los)
      BY <3>1 DEF Setze
    <3>4. Drin(m_rect')
      BY <3>2, <3>3, SetzeDrin
    <3> QED
      BY <2>1, <3>1, <3>4, DrinFest
  <2> QED
    BY <2>1, <2>3, <2>4
<1> QED
  BY <1>1, <1>2, <1>3, <1>4, <1>5, <1>6, <1>7 DEF Maus

LEMMA MausSchritt ==
  ASSUME CropInv, Maus \/ Weiten \/ Verengen
  PROVE  CropInv'
<1>1. RechteckInv' /\ bild' = bild
  BY MausRechteck
<1>2. ort' \in {"frei", "weiten", "verengen"}
  BY DEF Maus, Druecken, ZiehenLinks, ZiehenRechts, Loslassen, Verwerfen, Weiten, Verengen
<1> QED
  BY <1>1, <1>2 DEF CropInv, RandInv, PasstInPuffer, KeinHintergrund

-----------------------------------------------------------------------------
(* The selected part. *)

LEMMA PixelMonoton ==
  ASSUME bild \in Bilder, NEW m \in Nat, NEW n \in Nat, m <= n
  PROVE  Pixel(m) \in Nat /\ Pixel(m) <= Pixel(n)
<1> DEFINE z1 == bild.zoom[1]
           z2 == bild.zoom[2]
<1>1. z1 \in Nat \ {0} /\ z2 \in Nat
  BY BildTyp
<1>2. Pixel(m) = (m * z2) \div z1 /\ Pixel(n) = (n * z2) \div z1
  BY DEF Pixel
<1> HIDE DEF z1, z2
<1>3. m * z2 \in Nat /\ n * z2 \in Nat /\ m * z2 <= n * z2
  BY <1>1, Produkt, ProduktMonoton
<1> QED
  BY <1>1, <1>2, <1>3, Geteilt, GeteiltMonoton

LEMMA PixelBreite ==
  ASSUME bild \in Bilder, NEW n \in 0 .. Breite
  PROVE  Pixel(n) <= xf
<1> DEFINE z1 == bild.zoom[1]
           z2 == bild.zoom[2]
<1>1. /\ z1 \in Nat \ {0} /\ z2 \in Nat /\ xf \in Nat
      /\ n \in Nat /\ Breite \in Nat /\ n <= Breite /\ Breite * z2 <= xf * z1
  BY BildTyp, Masse
<1>2. Pixel(n) = (n * z2) \div z1
  BY DEF Pixel
<1> HIDE DEF z1, z2
<1>3. n * z2 \in Nat /\ n * z2 <= Breite * z2 /\ Breite * z2 \in Nat /\ xf * z1 \in Nat
  BY <1>1, Produkt, ProduktMonoton
<1>4. n * z2 <= xf * z1
  BY <1>1, <1>3
<1> QED
  BY <1>1, <1>2, <1>3, <1>4, GeteiltHoechstens

(* A point above the lower edge of the result lies in one of its rows. *)
LEMMA PixelHoehe ==
  ASSUME bild \in Bilder, NEW n \in Nat, n < Hoehe
  PROVE  Pixel(n) < yf
<1> DEFINE z1 == bild.zoom[1]
           z2 == bild.zoom[2]
<1>1. /\ z1 \in Nat \ {0} /\ z2 \in Nat \ {0} /\ yf \in Nat
      /\ Hoehe \in Nat /\ Hoehe * z2 <= yf * z1
  BY BildTyp, Masse
<1>2. Pixel(n) = (n * z2) \div z1
  BY DEF Pixel
<1> HIDE DEF z1, z2
<1>3. (n + 1) * z2 = n * z2 + z2 /\ n * z2 \in Nat
  BY <1>1
<1>4. (n + 1) * z2 <= Hoehe * z2
  BY <1>1, ProduktMonoton
<1>5. Hoehe * z2 \in Nat /\ yf * z1 \in Nat
  BY <1>1, Produkt
<1>6. n * z2 < yf * z1
  BY <1>1, <1>3, <1>4, <1>5
<1> QED
  BY <1>1, <1>2, <1>3, <1>6, GeteiltKleiner

LEMMA AuswahlMass ==
  ASSUME bild \in Bilder, NEW r, Drin(r), Zaehlt(r)
  PROVE  /\ Auswahl(r).art \in {"ganz", "auswahl"}
         /\ Auswahl(r).x_max - Auswahl(r).x_min \in 0 .. xf
         /\ Auswahl(r).y_max - Auswahl(r).y_min \in 0 .. yf
<1> DEFINE p0 == Pixel(r.left)
           p1 == Pixel(r.right)
           q0 == Pixel(r.top)
           q1 == Pixel(r.bottom)
<1>1. /\ r.left \in 0 .. Breite /\ r.right \in Nat /\ r.left <= r.right
      /\ r.top \in Nat /\ r.bottom \in Nat /\ r.top < Hoehe /\ r.top <= r.bottom
      /\ r.left \in Nat /\ xf \in Nat /\ yf \in Nat
  BY Masse, BildTyp DEF Drin, Rechteck, Zaehlt
<1>2. p0 \in Nat /\ p0 <= p1 /\ p0 <= xf /\ p1 \in Nat
  BY <1>1, PixelMonoton, PixelBreite
<1>3. q0 \in Nat /\ q0 <= q1 /\ q0 < yf /\ q1 \in Nat
  BY <1>1, PixelMonoton, PixelHoehe
<1> DEFINE y0 == yf - 2 - q1
           y1 == yf - 1 - q0
           x1 == 1 + p1
           t == [art |-> "auswahl", ifak2 |-> Teiler,
                 y_min |-> IF y0 < 0 THEN 0 ELSE y0,
                 y_max |-> IF y1 > yf THEN yf ELSE y1,
                 x_min |-> p0,
                 x_max |-> IF x1 > xf THEN xf ELSE x1]
<1>4. Auswahl(r) = IF t.x_max = t.x_min \/ t.y_max = t.y_min THEN Ganz ELSE t
  BY DEF Auswahl
<1> HIDE DEF p0, p1, q0, q1
<1>5. t.x_max - t.x_min \in 0 .. xf
  BY <1>1, <1>2
<1>6. t.y_max - t.y_min \in 0 .. yf
  BY <1>1, <1>3
<1>7. t.art = "auswahl"
  OBVIOUS
<1> HIDE DEF t
<1>8. CASE Auswahl(r) = t
  BY <1>5, <1>6, <1>7, <1>8
<1>9. CASE Auswahl(r) = Ganz
  BY <1>1, <1>9 DEF Ganz
<1> QED
  BY <1>4, <1>8, <1>9

(* However the part is enlarged, it stays as large as the result at most. *)
LEMMA HaeltAn ==
  ASSUME bild \in Bilder, NEW t, NEW ifak \in Nat, NEW f \in Nat, HaeltBei(t, f, ifak),
         t.x_max - t.x_min \in 0 .. xf, t.y_max - t.y_min \in 0 .. yf
  PROVE  Zu(t.x_max - t.x_min, f) \in 0 .. xf /\ Zu(t.y_max - t.y_min, f) \in 0 .. yf
<1> DEFINE a == t.x_max - t.x_min
           b == t.y_max - t.y_min
<1>1. a \in Nat /\ b \in Nat /\ a <= xf /\ b <= yf /\ xf \in Nat /\ yf \in Nat
  BY BildTyp
<1>2. f = Teiler \/ (Zu(a, f) < xf /\ Zu(b, f) < yf)
  BY DEF HaeltBei, Weiter
<1> HIDE DEF a, b
<1>3. Zu(a, f) \in Nat /\ Zu(b, f) \in Nat
  BY <1>1, Produkt, Geteilt, TeilerAssumption DEF Zu
<1>4. ASSUME f = Teiler
      PROVE  Zu(a, f) \in 0 .. xf /\ Zu(b, f) \in 0 .. yf
  BY <1>1, <1>4, GeteiltGlatt, TeilerAssumption DEF Zu
<1>5. ASSUME Zu(a, f) < xf, Zu(b, f) < yf
      PROVE  Zu(a, f) \in 0 .. xf /\ Zu(b, f) \in 0 .. yf
  BY <1>1, <1>3, <1>5
<1>6. Zu(a, f) \in 0 .. xf /\ Zu(b, f) \in 0 .. yf
  BY <1>2, <1>4, <1>5
<1> QED
  BY <1>6 DEF a, b

LEMMA SchneideSchritt ==
  ASSUME CropInv, SchneideAuswahl
  PROVE  CropInv'
<1> DEFINE r == Normal(m_rect)
           t == Auswahl(r)
<1>1. /\ bild' = bild /\ bild \in Bilder /\ ort = "frei" /\ ort' = "geschnitten"
      /\ m_rect' = r /\ Zaehlt(r)
  BY DEF CropInv, SchneideAuswahl
<1>2. Drin(r)
  BY <1>1, NormalDrin DEF CropInv, RechteckInv
<1>3. PICK ifak \in Dehnungen \cup {Teiler} :
        \E f \in Teiler .. ifak : HaeltBei(t, f, ifak) /\ schnitt' = [t EXCEPT !.ifak2 = f]
  BY DEF SchneideAuswahl
<1>4. PICK f \in Teiler .. ifak : HaeltBei(t, f, ifak) /\ schnitt' = [t EXCEPT !.ifak2 = f]
  BY <1>3
<1>5. ifak \in Nat /\ f \in Nat
  BY <1>3, <1>4, DehnungenAssumption, TeilerAssumption
<1>6. /\ t.art \in {"ganz", "auswahl"}
      /\ t.x_max - t.x_min \in 0 .. xf /\ t.y_max - t.y_min \in 0 .. yf
  BY <1>1, <1>2, AuswahlMass
<1>7. Zu(t.x_max - t.x_min, f) \in 0 .. xf /\ Zu(t.y_max - t.y_min, f) \in 0 .. yf
  BY <1>1, <1>4, <1>5, <1>6, HaeltAn
<1>8. /\ schnitt'.x_max = t.x_max /\ schnitt'.x_min = t.x_min /\ schnitt'.ifak2 = f
      /\ schnitt'.y_max = t.y_max /\ schnitt'.y_min = t.y_min /\ schnitt'.art = t.art
  BY <1>4 DEF Auswahl, Ganz
<1> HIDE DEF t
<1>9. xf' = xf /\ yf' = yf
  BY <1>1, MassFest
<1>10. PasstInPuffer'
  BY <1>7, <1>8, <1>9 DEF PasstInPuffer, max_statt_i, max_statt_j, Zu
<1>11. KeinHintergrund'
  BY <1>6, <1>8 DEF KeinHintergrund
<1>12. RechteckInv'
  BY <1>1, <1>2, DrinFest
<1>13. RandInv'
  BY <1>1 DEF RandInv
<1> QED
  BY <1>1, <1>10, <1>11, <1>12, <1>13 DEF CropInv

LEMMA GanzSchritt ==
  ASSUME bild \in Bilder, bild' = bild, schnitt' = Ganz
  PROVE  PasstInPuffer' /\ KeinHintergrund'
<1>1. xf \in Nat /\ yf \in Nat /\ xf' = xf /\ yf' = yf
  BY BildTyp, MassFest
<1>2. Zu(xf - 0, Teiler) = xf /\ Zu(yf - 0, Teiler) = yf
  BY <1>1, GeteiltGlatt, TeilerAssumption DEF Zu
<1>3. max_statt_i' = xf /\ max_statt_j' = yf
  <2>1. /\ schnitt'.x_max = xf /\ schnitt'.x_min = 0 /\ schnitt'.ifak2 = Teiler
        /\ schnitt'.y_max = yf /\ schnitt'.y_min = 0
    BY DEF Ganz
  <2> QED
    BY <1>2, <2>1 DEF max_statt_i, max_statt_j, Zu
<1>4. schnitt'.art # "beschnitten"
  BY DEF Ganz
<1> QED
  BY <1>1, <1>3, <1>4 DEF PasstInPuffer, KeinHintergrund

LEMMA OhneSchritt ==
  ASSUME CropInv, OhneAuswahl
  PROVE  CropInv'
<1>1. /\ bild' = bild /\ bild \in Bilder /\ ort = "frei"
      /\ m_rect' = m_rect \/ m_rect' = Normal(m_rect)
  BY DEF CropInv, OhneAuswahl
<1>2. Drin(m_rect')
  BY <1>1, NormalDrin DEF CropInv, RechteckInv
<1>3. CASE ort' = "geschnitten" /\ schnitt' = Ganz
  <2>1. RechteckInv' /\ RandInv'
    BY <1>1, <1>2, <1>3, DrinFest DEF RandInv
  <2> QED
    BY <1>1, <1>3, <2>1, GanzSchritt DEF CropInv
<1>4. CASE /\ ort' = "cutter" /\ px' \in 1 .. 2 * Einheit - 1
           /\ rand' = [links |-> bild.mitte[1], rechts |-> bild.mitte[1],
                       unten |-> bild.mitte[2], oben |-> bild.mitte[2]]
  <2>1. RechteckInv'
    BY <1>1, <1>2, <1>4, DrinFest
  <2>2. PasstInPuffer' /\ KeinHintergrund'
    BY <1>4 DEF PasstInPuffer, KeinHintergrund
  <2>3. /\ bild.mitte[1] \in 0 .. Einheit * xf /\ bild.mitte[2] \in 0 .. Einheit * yf
        /\ bild.mitte[1] \in Nat /\ bild.mitte[2] \in Nat
        /\ ~Aussen(bild, <<bild.mitte[1], bild.mitte[2]>>)
    BY <1>1, BildTyp DEF ImErgebnis, xf, yf
  <2>4. Einheit * xf \in Nat /\ Einheit * yf \in Nat /\ xf' = xf /\ yf' = yf
    BY <1>1, BildTyp, Produkt, EinheitAssumption, MassFest
  <2>5. RandInv'
    BY <1>1, <1>4, <2>3, <2>4 DEF RandInv, Rand
  <2> QED
    BY <1>1, <2>1, <2>2, <2>5 DEF CropInv
<1> QED
  BY <1>3, <1>4 DEF OhneAuswahl

-----------------------------------------------------------------------------
(* cutter. *)

(* Every corner of the next rectangle lies inside the photo: it is one of  *)
(* the wider rectangle, one of the last, or between two of the wider one.  *)
LEMMA EckeInnen ==
  ASSUME bild \in Bilder, RandInv, ort = "cutter",
         NEW w \in Waagrecht, NEW z \in Senkrecht
  PROVE  ~Aussen(bild, <<Neu(w), Neu(z)>>)
<1>1. /\ bild \in Bild /\ px \in Int /\ py \in Int /\ px > 0 /\ py > 0
      /\ rand \in Rand /\ rand.links <= rand.rechts /\ rand.unten <= rand.oben
  BY BildTyp, EinheitAssumption DEF RandInv, py
<1>2. /\ rand.links \in Int /\ rand.rechts \in Int /\ rand.unten \in Int /\ rand.oben \in Int
  BY <1>1 DEF Rand
<1>3. /\ Weit.links = rand.links - px /\ Weit.rechts = rand.rechts + px
      /\ Weit.unten = rand.unten - py /\ Weit.oben = rand.oben + py
  BY DEF Weit
<1>4. /\ rand[w] \in Int /\ rand[z] \in Int /\ Weit[w] \in Int /\ Weit[z] \in Int
      /\ Weit.links \in Int /\ Weit.rechts \in Int /\ Weit.unten \in Int /\ Weit.oben \in Int
      /\ Weit.links <= rand[w] /\ rand[w] <= Weit.rechts
      /\ Weit.unten <= rand[z] /\ rand[z] <= Weit.oben
  BY <1>1, <1>2, <1>3 DEF Waagrecht, Senkrecht
<1>5. w \in Seiten /\ z \in Seiten
  BY DEF Seiten
<1>6. CASE w \in Zurueck /\ z \in Zurueck
  <2>1. Neu(w) = rand[w] /\ Neu(z) = rand[z]
    BY <1>6 DEF Neu
  <2>2. ~Aussen(bild, <<rand[w], rand[z]>>)
    BY DEF RandInv, Waagrecht, Senkrecht
  <2> QED
    BY <2>1, <2>2
<1>7. CASE w \notin Zurueck /\ z \notin Zurueck
  <2>1. Neu(w) = Weit[w] /\ Neu(z) = Weit[z]
    BY <1>7 DEF Neu
  <2>2. ~Aussen(bild, <<Weit[w], Weit[z]>>)
    BY <1>5, <1>7 DEF Zurueck
  <2> QED
    BY <2>1, <2>2
<1>8. CASE w \in Zurueck /\ z \notin Zurueck
  <2>1. Neu(w) = rand[w] /\ Neu(z) = Weit[z]
    BY <1>8 DEF Neu
  <2>2. \A v \in Waagrecht : ~Aussen(bild, <<Weit[v], Weit[z]>>)
    BY <1>5, <1>8 DEF Zurueck
  <2>3. ~Aussen(bild, <<Weit.links, Weit[z]>>) /\ ~Aussen(bild, <<Weit.rechts, Weit[z]>>)
    BY <2>2 DEF Waagrecht
  <2>4. ~Aussen(bild, <<rand[w], Weit[z]>>)
    BY <1>1, <1>4, <2>3, InnenWaagrecht
  <2> QED
    BY <2>1, <2>4
<1>9. CASE w \notin Zurueck /\ z \in Zurueck
  <2>1. Neu(w) = Weit[w] /\ Neu(z) = rand[z]
    BY <1>9 DEF Neu
  <2>2. \A v \in Senkrecht : ~Aussen(bild, <<Weit[w], Weit[v]>>)
    BY <1>5, <1>9 DEF Zurueck
  <2>3. ~Aussen(bild, <<Weit[w], Weit.unten>>) /\ ~Aussen(bild, <<Weit[w], Weit.oben>>)
    BY <2>2 DEF Senkrecht
  <2>4. ~Aussen(bild, <<Weit[w], rand[z]>>)
    BY <1>1, <1>4, <2>3, InnenSenkrecht
  <2> QED
    BY <2>1, <2>4
<1> QED
  BY <1>6, <1>7, <1>8, <1>9

LEMMA RandWeiter ==
  ASSUME bild \in Bilder, RandInv, ort = "cutter", bild' = bild, px' = px,
         rand' = [links |-> Neu("links"), rechts |-> Neu("rechts"),
                  unten |-> Neu("unten"), oben |-> Neu("oben")]
  PROVE  RandInv'
<1> DEFINE l == Neu("links")
           r == Neu("rechts")
           u == Neu("unten")
           o == Neu("oben")
<1>1. /\ px \in Int /\ py \in Int /\ px > 0 /\ py > 0
      /\ rand \in Rand /\ rand.links <= rand.rechts /\ rand.unten <= rand.oben
      /\ 0 <= rand.links /\ rand.rechts <= Einheit * xf
      /\ 0 <= rand.unten /\ rand.oben <= Einheit * yf
      /\ Einheit * xf \in Nat /\ Einheit * yf \in Nat
  BY BildTyp, Produkt, EinheitAssumption DEF RandInv, py
<1>2. /\ rand.links \in Int /\ rand.rechts \in Int /\ rand.unten \in Int /\ rand.oben \in Int
  BY <1>1 DEF Rand
<1>3. /\ Weit.links = rand.links - px /\ Weit.rechts = rand.rechts + px
      /\ Weit.unten = rand.unten - py /\ Weit.oben = rand.oben + py
  BY DEF Weit
<1>4. l \in Int /\ 0 <= l /\ l <= rand.links
  <2>1. CASE "links" \in Zurueck
    BY <1>1, <1>2, <2>1 DEF Neu
  <2>2. CASE "links" \notin Zurueck
    <3>1. ~(Weit.links < 0) /\ l = Weit.links
      BY <2>2 DEF Zurueck, Hinaus, Seiten, Waagrecht, Neu
    <3> QED
      BY <1>1, <1>2, <1>3, <3>1
  <2> QED
    BY <2>1, <2>2
<1>5. r \in Int /\ rand.rechts <= r /\ r <= Einheit * xf
  <2>1. CASE "rechts" \in Zurueck
    BY <1>1, <1>2, <2>1 DEF Neu
  <2>2. CASE "rechts" \notin Zurueck
    <3>1. ~(Weit.rechts > Einheit * xf) /\ r = Weit.rechts
      BY <2>2 DEF Zurueck, Hinaus, Seiten, Waagrecht, Neu
    <3> QED
      BY <1>1, <1>2, <1>3, <3>1
  <2> QED
    BY <2>1, <2>2
<1>6. u \in Int /\ 0 <= u /\ u <= rand.unten
  <2>1. CASE "unten" \in Zurueck
    BY <1>1, <1>2, <2>1 DEF Neu
  <2>2. CASE "unten" \notin Zurueck
    <3>1. ~(Weit.unten < 0) /\ u = Weit.unten
      BY <2>2 DEF Zurueck, Hinaus, Seiten, Senkrecht, Neu
    <3> QED
      BY <1>1, <1>2, <1>3, <3>1
  <2> QED
    BY <2>1, <2>2
<1>7. o \in Int /\ rand.oben <= o /\ o <= Einheit * yf
  <2>1. CASE "oben" \in Zurueck
    BY <1>1, <1>2, <2>1 DEF Neu
  <2>2. CASE "oben" \notin Zurueck
    <3>1. ~(Weit.oben > Einheit * yf) /\ o = Weit.oben
      BY <2>2 DEF Zurueck, Hinaus, Seiten, Senkrecht, Neu
    <3> QED
      BY <1>1, <1>2, <1>3, <3>1
  <2> QED
    BY <2>1, <2>2
<1>8. /\ ~Aussen(bild, <<l, u>>) /\ ~Aussen(bild, <<l, o>>)
      /\ ~Aussen(bild, <<r, u>>) /\ ~Aussen(bild, <<r, o>>)
  BY EckeInnen DEF Waagrecht, Senkrecht
<1>9. xf' = xf /\ yf' = yf
  BY MassFest
<1> HIDE DEF l, r, u, o
<1>10. rand' = [links |-> l, rechts |-> r, unten |-> u, oben |-> o]
  BY DEF l, r, u, o
<1>11. l <= r /\ u <= o
  BY <1>1, <1>2, <1>4, <1>5, <1>6, <1>7
<1>12. rand' \in Rand
  BY <1>4, <1>5, <1>6, <1>7, <1>10 DEF Rand
<1>13. px' \in 1 .. 2 * Einheit - 1
  BY DEF RandInv
<1> QED
  BY <1>4, <1>5, <1>6, <1>7, <1>8, <1>9, <1>10, <1>11, <1>12, <1>13 DEF RandInv

(* The frame of the pixels that are left lies within what cutter reached.  *)
LEMMA Einwaerts ==
  ASSUME NEW e \in Nat \ {0}, NEW l \in Nat, NEW r \in Nat
  PROVE  e * (l \div e + 1) > l /\ e * (r \div e - 1) <= r
<1>1. l \div e \in Nat /\ l < (l \div e) * e + e
  BY Geteilt
<1>2. r \div e \in Nat /\ (r \div e) * e <= r
  BY Geteilt
<1> DEFINE a == l \div e
           b == r \div e
<1> HIDE DEF a, b
<1>3. a \in Nat /\ l < a * e + e /\ b \in Nat /\ b * e <= r
  BY <1>1, <1>2 DEF a, b
<1>4. e * (a + 1) = a * e + e /\ e * (b - 1) = b * e - e
  BY <1>3
<1>5. a * e \in Nat /\ b * e \in Nat
  BY <1>3, Produkt
<1>6. e * (a + 1) > l /\ e * (b - 1) <= r
  BY <1>3, <1>4, <1>5
<1> QED
  BY <1>6 DEF a, b

LEMMA BeschnittSchritt ==
  ASSUME bild \in Bilder, RandInv, ort = "cutter", bild' = bild, schnitt' = Beschnitt
  PROVE  PasstInPuffer' /\ KeinHintergrund'
<1> DEFINE xa == rand.links \div Einheit + 1
           xe == rand.rechts \div Einheit - 1
           ya == rand.unten \div Einheit + 1
           ye == rand.oben \div Einheit - 1
           t == [art |-> "beschnitten", ifak2 |-> Teiler,
                 y_min |-> yf - rand.oben \div Einheit,
                 y_max |-> yf - 2 - rand.unten \div Einheit,
                 x_min |-> xa, x_max |-> xe]
<1>1. /\ rand.links \in Nat /\ rand.rechts \in Nat /\ rand.unten \in Nat /\ rand.oben \in Nat
      /\ rand.rechts <= Einheit * xf /\ rand.oben <= Einheit * yf
      /\ xf \in Nat /\ yf \in Nat /\ Einheit \in Nat \ {0} /\ bild \in Bild
  BY BildTyp, EinheitAssumption DEF RandInv, Rand
<1>2. Beschnitt = IF t.x_max - t.x_min \in 5 .. xf /\ t.y_max - t.y_min \in 5 .. yf
                  THEN t ELSE Ganz
  BY DEF Beschnitt
<1>3. /\ xa \in Int /\ xe \in Int /\ ya \in Int /\ ye \in Int
      /\ t.y_min = yf - 1 - ye /\ t.y_max = yf - 1 - ya
  BY <1>1, Geteilt
<1>4. /\ Einheit * xa > rand.links /\ Einheit * xe <= rand.rechts
      /\ Einheit * ya > rand.unten /\ Einheit * ye <= rand.oben
  BY <1>1, Einwaerts
<1>5. CASE schnitt' = Ganz
  BY <1>5, GanzSchritt
<1>6. CASE schnitt' = t /\ t.x_max - t.x_min \in 5 .. xf /\ t.y_max - t.y_min \in 5 .. yf
  <2>1. /\ schnitt'.x_min = xa /\ schnitt'.x_max = xe /\ schnitt'.ifak2 = Teiler
        /\ schnitt'.y_min = yf - 1 - ye /\ schnitt'.y_max = yf - 1 - ya
    BY <1>3, <1>6
  <2>2. xe - xa \in 5 .. xf /\ ye - ya \in 5 .. yf
    BY <1>1, <1>3, <1>6
  <2> HIDE DEF t, xa, xe, ya, ye
  <2>3. xf' = xf /\ yf' = yf
    BY MassFest
  <2>4. Zu(xe - xa, Teiler) = xe - xa /\ Zu(ye - ya, Teiler) = ye - ya
    <3>1. xe - xa \in Nat /\ ye - ya \in Nat
      BY <1>1, <2>2
    <3> QED
      BY <3>1, GeteiltGlatt, TeilerAssumption DEF Zu
  <2>5. schnitt'.y_max - schnitt'.y_min = ye - ya
    BY <1>1, <1>3, <2>1
  <2>6. max_statt_i' = xe - xa /\ max_statt_j' = ye - ya
    BY <2>1, <2>4, <2>5 DEF max_statt_i, max_statt_j, Zu
  <2>7. PasstInPuffer'
    BY <1>1, <2>2, <2>3, <2>6 DEF PasstInPuffer
  <2>8. /\ xa + (xe - xa) = xe /\ yf - 1 - (yf - 1 - ya) = ya
        /\ ya + (ye - ya) = ye /\ xa <= xe /\ ya <= ye
    BY <1>1, <1>3, <2>2
  <2>9. ASSUME NEW a \in {xa, xe}, NEW b \in {ya, ye}
        PROVE  ImErgebnis(bild, <<Einheit * a, Einheit * b>>)
               /\ ~Aussen(bild, <<Einheit * a, Einheit * b>>)
    <3>1. a \in Int /\ b \in Int /\ xa <= a /\ a <= xe /\ ya <= b /\ b <= ye
      BY <1>3, <2>8
    <3>2. /\ Einheit * a \in Int /\ Einheit * b \in Int
          /\ Einheit * xa <= Einheit * a /\ Einheit * a <= Einheit * xe
          /\ Einheit * ya <= Einheit * b /\ Einheit * b <= Einheit * ye
          /\ Einheit * xa \in Int /\ Einheit * xe \in Int
          /\ Einheit * ya \in Int /\ Einheit * ye \in Int
      <4>1. /\ xa * Einheit <= a * Einheit /\ a * Einheit <= xe * Einheit
            /\ ya * Einheit <= b * Einheit /\ b * Einheit <= ye * Einheit
        BY <1>1, <1>3, <3>1, ProduktMonoton
      <4> QED
        BY <1>1, <1>3, <3>1, <4>1
    <3> DEFINE p == Einheit * a
               q == Einheit * b
    <3>3. /\ p \in Int /\ q \in Int
          /\ rand.links <= p /\ p <= rand.rechts /\ rand.unten <= q /\ q <= rand.oben
      BY <1>1, <1>4, <3>2
    <3> HIDE DEF p, q
    <3>4. ImErgebnis(bild, <<p, q>>)
      BY <1>1, <3>3, Produkt DEF ImErgebnis, xf, yf
    <3>5. ~Aussen(bild, <<p, q>>)
      <4>1. /\ ~Aussen(bild, <<rand.links, rand.unten>>)
            /\ ~Aussen(bild, <<rand.links, rand.oben>>)
            /\ ~Aussen(bild, <<rand.rechts, rand.unten>>)
            /\ ~Aussen(bild, <<rand.rechts, rand.oben>>)
        BY DEF RandInv
      <4>2. /\ rand.links \in Int /\ rand.rechts \in Int
            /\ rand.unten \in Int /\ rand.oben \in Int
        BY <1>1
      <4> QED
        BY <1>1, <3>3, <4>1, <4>2, InnenRechteck
    <3> QED
      BY <3>4, <3>5 DEF p, q
  <2>10. KeinHintergrund'
    BY <2>1, <2>3, <2>6, <2>8, <2>9 DEF KeinHintergrund
  <2> QED
    BY <2>7, <2>10
<1> HIDE DEF t
<1> QED
  BY <1>2, <1>5, <1>6

LEMMA WachsenSchritt ==
  ASSUME CropInv, Wachsen
  PROVE  CropInv'
<1>1. /\ bild \in Bilder /\ bild' = bild /\ ort = "cutter" /\ m_rect' = m_rect /\ px' = px
      /\ RandInv
  BY DEF CropInv, Wachsen, mausvars
<1>2. \/ ort' = "cutter"
      \/ ort' = "geschnitten" /\ schnitt' = Beschnitt
  BY DEF Wachsen
<1>3. RechteckInv'
  BY <1>1, <1>2, DrinFest DEF CropInv, RechteckInv
<1>4. RandInv'
  <2>1. rand' = [links |-> Neu("links"), rechts |-> Neu("rechts"),
                 unten |-> Neu("unten"), oben |-> Neu("oben")]
    BY DEF Wachsen
  <2> QED
    BY <1>1, <2>1, RandWeiter
<1>5. PasstInPuffer' /\ KeinHintergrund'
  <2>1. CASE ort' = "cutter"
    BY <2>1 DEF PasstInPuffer, KeinHintergrund
  <2>2. CASE ort' = "geschnitten" /\ schnitt' = Beschnitt
    BY <1>1, <2>2, BeschnittSchritt
  <2> QED
    BY <1>2, <2>1, <2>2
<1> QED
  BY <1>1, <1>3, <1>4, <1>5 DEF CropInv

(* All that crops: together with CropRuht, a step of any module built on   *)
(* this one.                                                               *)
LEMMA CropAnfang ==
  ASSUME CropInit
  PROVE  CropInv
<1>1. Drin(m_rect)
  BY Masse DEF CropInit, Drin, KeinRechteck, Rechteck
<1> QED
  BY <1>1 DEF CropInit, CropInv, RechteckInv, RandInv, PasstInPuffer, KeinHintergrund

LEMMA CropRuht ==
  ASSUME CropInv, UNCHANGED cropvars
  PROVE  CropInv'
BY DEF cropvars, mausvars, CropInv, RechteckInv, RandInv, PasstInPuffer, KeinHintergrund,
       Drin, Breite, Hoehe, xf, yf, max_statt_i, max_statt_j

-----------------------------------------------------------------------------
(* Sampling and writing. *)

SBreite == max_statt_i * bild.mf
SHoehe == max_statt_j * bild.mf

-----------------------------------------------------------------------------
(* The invariant. *)

(* A column holds what belongs there. *)
Da(t, i) == i \in DOMAIN puffer[t] /\ puffer[t][i] = Id(i)
Voll(t) == \A i \in Spalten : Da(t, i)

(* The columns a thread has behind it in this pass. *)
Geschafft(p) ==
  {i \in Von(p) .. Bis(p) : p \in hCompleted \/ (naechste[p] # KeineSpalte /\ i < naechste[p])}

SchrittInv ==
  /\ schritt \in {"ruht", "pass", "start0", "start1", "warten", "schreiben"}
  /\ tiefe \in {8, 16} /\ DOMAIN puffer = {8, 16}
  /\ hCompleted \subseteq Teile /\ naechste \in [Teile -> Int]
  /\ schritt # "ruht" => ort = "geschnitten"

(* Threads run only between their start and the end of the wait. *)
FadenInv ==
  /\ schritt \in {"ruht", "pass", "start0", "schreiben"} =>
       \A p \in Teile : naechste[p] = KeineSpalte
  /\ schritt = "start0" => hCompleted = {}
  /\ schritt = "start1" => naechste[1] = KeineSpalte /\ 1 \notin hCompleted
  /\ \A p \in Teile : naechste[p] # KeineSpalte =>
       p \notin hCompleted /\ Von(p) <= naechste[p] /\ naechste[p] <= Bis(p) + 1

(* What they have sampled stays until the files are written. *)
PufferInv ==
  /\ schritt \in {"start1", "warten"} =>
       \A p \in Teile : \A i \in Geschafft(p) : Da(tiefe, i)
  /\ schritt \in {"pass", "start0", "start1", "warten"} /\ tiefe = 16 =>
       \A a \in bilderart : Tiefe(a) = 8 => Voll(8)
  /\ schritt = "schreiben" => \A a \in bilderart : Voll(Tiefe(a))

DateiInv ==
  /\ daneben = FALSE
  /\ schritt # "schreiben" => DOMAIN datei = {}
  /\ \A a \in DOMAIN datei :
       datei[a] = [spalten |-> [i \in 1 .. SBreite |-> Id(i - 1)], zeilen |-> Zeilenfolge(a)]

SaveInv == SchrittInv /\ FadenInv /\ PufferInv /\ DateiInv
ResampleInv == CropInv /\ SaveInv

-----------------------------------------------------------------------------
(* Sizes. *)

LEMMA SicherungMass ==
  ASSUME CropInv, ort = "geschnitten"
  PROVE  SBreite \in Nat /\ SHoehe \in Nat
<1>1. max_statt_i \in Nat /\ max_statt_j \in Nat /\ bild.mf \in Nat
  BY BildTyp DEF CropInv, PasstInPuffer
<1> QED
  BY <1>1, Produkt DEF SBreite, SHoehe

LEMMA Haelften ==
  ASSUME CropInv, ort = "geschnitten"
  PROVE  /\ \A p \in Teile : /\ Von(p) \in Nat /\ Bis(p) \in Int /\ Von(p) <= Bis(p) + 1
         /\ \A i \in Spalten : \E p \in Teile : i \in Von(p) .. Bis(p)
         /\ Spalten = 0 .. SBreite - 1
<1>1. SBreite \in Nat
  BY SicherungMass
<1>2. Haelfte = SBreite \div 2 /\ Spalten = 0 .. SBreite - 1
  BY DEF Haelfte, Spalten, SBreite
<1>3. Haelfte \in Nat /\ Haelfte <= SBreite
  BY <1>1, <1>2
<1>4. /\ Von(0) = 0 /\ Bis(0) = Haelfte - 1
      /\ Von(1) = Haelfte /\ Bis(1) = SBreite - 1
  BY DEF Von, Bis, SBreite
<1>5. ASSUME NEW i \in Spalten PROVE \E p \in Teile : i \in Von(p) .. Bis(p)
  <2>1. CASE i < Haelfte
    <3>1. i \in Von(0) .. Bis(0)
      BY <1>1, <1>2, <1>3, <1>4, <2>1
    <3> QED
      BY <3>1 DEF Teile
  <2>2. CASE i >= Haelfte
    <3>1. i \in Von(1) .. Bis(1)
      BY <1>1, <1>2, <1>3, <1>4, <2>2
    <3> QED
      BY <3>1 DEF Teile
  <2> QED
    BY <1>1, <1>2, <1>3, <2>1, <2>2
<1>6. ASSUME NEW p \in Teile
      PROVE  Von(p) \in Nat /\ Bis(p) \in Int /\ Von(p) <= Bis(p) + 1
  BY <1>1, <1>3, <1>4 DEF Teile
<1> QED
  BY <1>2, <1>5, <1>6

(* Neither kernel nor sharpening leaves the picture. *)
LEMMA FensterDrin ==
  ASSUME NEW n \in Nat, NEW k \in Int
  PROVE  Fenster(k, n) \subseteq 0 .. n - 1
BY DEF Fenster

LEMMA GelesenDrin ==
  ASSUME NEW n \in Nat
  PROVE  Gelesen(n) \subseteq 0 .. n - 1
<1>1. ASSUME NEW k \in 0 .. n - 1 PROVE Nachbarn(k, n) \subseteq 0 .. n - 1
  BY DEF Nachbarn
<1> QED
  BY <1>1 DEF Gelesen

(* A step of the main thread or of a thread leaves the part as it is. *)
LEMMA TeilFest ==
  ASSUME UNCHANGED cropvars
  PROVE  /\ ort' = ort /\ Spalten' = Spalten /\ SBreite' = SBreite /\ SHoehe' = SHoehe
         /\ \A p : Von(p)' = Von(p) /\ Bis(p)' = Bis(p)
         /\ \A i : Id(i)' = Id(i)
         /\ \A a : Zeilenfolge(a)' = Zeilenfolge(a)
<1>1. bild' = bild /\ schnitt' = schnitt /\ ort' = ort
  BY DEF cropvars
<1>2. max_statt_i' = max_statt_i /\ max_statt_j' = max_statt_j
  BY <1>1 DEF max_statt_i, max_statt_j
<1>3. Haelfte' = Haelfte /\ Spalten' = Spalten /\ SBreite' = SBreite /\ SHoehe' = SHoehe
  BY <1>1, <1>2 DEF Haelfte, Spalten, SBreite, SHoehe
<1>4. ASSUME NEW p PROVE Von(p)' = Von(p) /\ Bis(p)' = Bis(p)
  BY <1>1, <1>2, <1>3 DEF Von, Bis
<1>5. ASSUME NEW i PROVE Id(i)' = Id(i)
  BY <1>1 DEF Id, Nenner
<1>6. ASSUME NEW a PROVE Zeilenfolge(a)' = Zeilenfolge(a)
  BY <1>1, <1>2 DEF Zeilenfolge
<1> QED
  BY <1>1, <1>3, <1>4, <1>5, <1>6

-----------------------------------------------------------------------------
(* The steps. *)

(* Before a save there is nothing that cropping could disturb. *)
LEMMA BenutzerSchritt ==
  ASSUME SaveInv, ort # "geschnitten", UNCHANGED savevars
  PROVE  SaveInv'
<1>1. schritt = "ruht"
  BY DEF SaveInv, SchrittInv
<1>2. /\ schritt' = "ruht" /\ tiefe' = tiefe /\ puffer' = puffer /\ hCompleted' = hCompleted
      /\ naechste' = naechste /\ bilderart' = bilderart /\ datei' = datei /\ daneben' = daneben
  BY <1>1 DEF savevars
<1>3. SchrittInv'
  BY <1>2 DEF SaveInv, SchrittInv
<1>4. FadenInv'
  <2>1. \A p \in Teile : naechste[p] = KeineSpalte
    BY <1>1 DEF SaveInv, FadenInv
  <2> QED
    BY <1>2, <2>1 DEF FadenInv
<1>5. PufferInv'
  BY <1>2 DEF PufferInv
<1>6. DateiInv'
  <2>1. DOMAIN datei = {} /\ daneben = FALSE
    BY <1>1 DEF SaveInv, DateiInv
  <2> QED
    BY <1>2, <2>1 DEF DateiInv
<1> QED
  BY <1>3, <1>4, <1>5, <1>6 DEF SaveInv

(* What a step that keeps the buffers keeps. *)
LEMMA DaBleibt ==
  ASSUME UNCHANGED cropvars, puffer' = puffer
  PROVE  \A t : Voll(t)' = Voll(t)
<1>1. \A i : Id(i)' = Id(i)
  BY TeilFest
<1>2. ASSUME NEW t, NEW i PROVE Da(t, i)' = Da(t, i)
  BY <1>1 DEF Da
<1>3. Spalten' = Spalten
  BY TeilFest
<1>4. ASSUME NEW t PROVE Voll(t)' = Voll(t)
  BY <1>2, <1>3 DEF Voll
<1> QED
  BY <1>4

LEMMA TiefeBleibt ==
  ASSUME wahl' = wahl
  PROVE  \A a : Tiefe(a)' = Tiefe(a)
BY DEF Tiefe

LEMMA DateiBleibt ==
  ASSUME DateiInv, UNCHANGED <<cropvars, datei, daneben>>,
         schritt' # "schreiben" => DOMAIN datei = {}
  PROVE  DateiInv'
<1>1. SBreite' = SBreite /\ (\A i : Id(i)' = Id(i)) /\ (\A a : Zeilenfolge(a)' = Zeilenfolge(a))
  BY TeilFest
<1>2. daneben' = FALSE /\ datei' = datei
  BY DEF DateiInv
<1>3. ASSUME NEW a \in DOMAIN datei
      PROVE  datei[a] = [spalten |-> [i \in 1 .. SBreite' |-> Id(i - 1)'],
                         zeilen |-> Zeilenfolge(a)']
  BY <1>1 DEF DateiInv
<1> QED
  BY <1>2, <1>3 DEF DateiInv

LEMMA BeginneSchritt ==
  ASSUME ResampleInv, Beginne
  PROVE  SaveInv'
<1>1. /\ SaveInv /\ schritt = "ruht" /\ ort = "geschnitten" /\ ort' = ort
      /\ schritt' = "pass" /\ tiefe' = 8
      /\ UNCHANGED <<cropvars, wahl, naechste, hCompleted, puffer, datei, daneben>>
  BY DEF ResampleInv, Beginne, cropvars
<1>2. SchrittInv'
  BY <1>1 DEF SaveInv, SchrittInv
<1>3. FadenInv'
  <2>1. \A p \in Teile : naechste[p] = KeineSpalte
    BY <1>1 DEF SaveInv, FadenInv
  <2> QED
    BY <1>1, <2>1 DEF FadenInv
<1>4. PufferInv'
  BY <1>1 DEF PufferInv
<1>5. DateiInv'
  BY <1>1, DateiBleibt DEF SaveInv, DateiInv
<1> QED
  BY <1>2, <1>3, <1>4, <1>5 DEF SaveInv

LEMMA DurchgangSchritt ==
  ASSUME ResampleInv, Durchgang
  PROVE  SaveInv'
<1>1. /\ SaveInv /\ schritt = "pass" /\ ort' = ort
      /\ UNCHANGED <<cropvars, wahl, bilderart, naechste, puffer, datei, daneben>>
  BY DEF ResampleInv, Durchgang, cropvars
<1>2. \/ Noetig(tiefe) /\ schritt' = "start0" /\ hCompleted' = {} /\ tiefe' = tiefe
      \/ /\ ~Noetig(8) /\ tiefe = 8 /\ tiefe' = 16 /\ schritt' = "pass"
         /\ hCompleted' = hCompleted
      \/ /\ ~Noetig(16) /\ tiefe = 16 /\ tiefe' = 16 /\ schritt' = "schreiben"
         /\ hCompleted' = hCompleted
  BY <1>1 DEF Durchgang, SaveInv, SchrittInv
<1>3. SchrittInv'
  BY <1>1, <1>2 DEF SaveInv, SchrittInv
<1>4. FadenInv'
  <2>1. \A p \in Teile : naechste[p] = KeineSpalte
    BY <1>1 DEF SaveInv, FadenInv
  <2> QED
    BY <1>1, <1>2, <2>1 DEF FadenInv
<1>5. (\A t : Voll(t)' = Voll(t)) /\ (\A a : Tiefe(a)' = Tiefe(a))
  BY <1>1, DaBleibt, TiefeBleibt
<1>6. PufferInv'
  <2>1. CASE Noetig(tiefe) /\ schritt' = "start0" /\ hCompleted' = {} /\ tiefe' = tiefe
    BY <1>1, <1>5, <2>1 DEF SaveInv, PufferInv
  <2>2. CASE ~Noetig(8) /\ tiefe = 8 /\ tiefe' = 16 /\ schritt' = "pass"
    <3>1. \A a \in bilderart : Tiefe(a) # 8
      BY <2>2 DEF Noetig, Tiefe
    <3> QED
      BY <1>1, <1>5, <2>2, <3>1 DEF PufferInv
  <2>3. CASE ~Noetig(16) /\ tiefe = 16 /\ tiefe' = 16 /\ schritt' = "schreiben"
    <3>1. \A a \in bilderart : Tiefe(a) = 8
      BY <2>3 DEF Noetig, Tiefe
    <3>2. \A a \in bilderart : Voll(Tiefe(a))
      BY <1>1, <2>3, <3>1 DEF SaveInv, PufferInv
    <3> QED
      BY <1>1, <1>5, <2>3, <3>2 DEF PufferInv
  <2> QED
    BY <1>2, <2>1, <2>2, <2>3
<1>7. DateiInv'
  BY <1>1, DateiBleibt DEF SaveInv, DateiInv
<1> QED
  BY <1>3, <1>4, <1>6, <1>7 DEF SaveInv

LEMMA StarteSchritt ==
  ASSUME ResampleInv, NEW p \in Teile, Starte(p)
  PROVE  SaveInv'
<1>1. /\ SaveInv /\ CropInv /\ ort' = ort
      /\ \/ schritt = "start0" /\ p = 0 /\ schritt' = "start1"
         \/ schritt = "start1" /\ p = 1 /\ schritt' = "warten"
      /\ naechste' = [naechste EXCEPT ![p] = Von(p)]
      /\ UNCHANGED <<cropvars, wahl, bilderart, tiefe, hCompleted, puffer, datei, daneben>>
  BY DEF ResampleInv, Starte, cropvars, Teile
<1>2. /\ ort = "geschnitten" /\ naechste \in [Teile -> Int]
      /\ naechste[p] = KeineSpalte /\ p \notin hCompleted
  BY <1>1 DEF SaveInv, SchrittInv, FadenInv
<1>3. \A q \in Teile : Von(q) \in Nat /\ Bis(q) \in Int /\ Von(q) <= Bis(q) + 1
  BY <1>1, <1>2, Haelften
<1>4. naechste' \in [Teile -> Int]
      /\ naechste'[p] = Von(p) /\ \A q \in Teile : q # p => naechste'[q] = naechste[q]
  BY <1>1, <1>2, <1>3
<1>5. \A q : Von(q)' = Von(q) /\ Bis(q)' = Bis(q)
  BY <1>1, TeilFest
<1>6. SchrittInv'
  BY <1>1, <1>4 DEF SaveInv, SchrittInv
<1>7. FadenInv'
  <2>1. \A q \in Teile : naechste'[q] # KeineSpalte =>
          q \notin hCompleted' /\ Von(q)' <= naechste'[q] /\ naechste'[q] <= Bis(q)' + 1
    BY <1>1, <1>2, <1>3, <1>4, <1>5 DEF SaveInv, FadenInv
  <2>2. schritt' = "start1" => naechste'[1] = KeineSpalte /\ 1 \notin hCompleted'
    BY <1>1, <1>4 DEF SaveInv, FadenInv, Teile
  <2> QED
    BY <1>1, <2>1, <2>2 DEF FadenInv
<1>8. /\ (\A t : Voll(t)' = Voll(t)) /\ (\A a : Tiefe(a)' = Tiefe(a))
  BY <1>1, DaBleibt, TiefeBleibt
<1>9. PufferInv'
  <2>1. ASSUME NEW q \in Teile, NEW i \in Geschafft(q)'
        PROVE  Da(tiefe, i)'
    <3>1. /\ i \in Von(q) .. Bis(q)
          /\ q \in hCompleted \/ (naechste'[q] # KeineSpalte /\ i < naechste'[q])
      BY <1>1, <1>5 DEF Geschafft
    <3>2. q # p
      BY <1>2, <1>3, <1>4, <3>1
    <3>3. i \in Geschafft(q)
      BY <1>4, <3>1, <3>2 DEF Geschafft
    <3>4. schritt = "start1"
      BY <1>1, <3>1, <3>2, <1>4 DEF SaveInv, FadenInv
    <3>5. Da(tiefe, i)
      BY <1>1, <3>3, <3>4 DEF SaveInv, PufferInv
    <3>6. Id(i)' = Id(i)
      BY <1>1, TeilFest
    <3> QED
      BY <1>1, <3>5, <3>6 DEF Da
  <2>2. tiefe' = 16 => \A a \in bilderart' : Tiefe(a)' = 8 => Voll(8)'
    BY <1>1, <1>8 DEF SaveInv, PufferInv
  <2> QED
    BY <1>1, <2>1, <2>2 DEF PufferInv
<1>10. DateiInv'
  BY <1>1, DateiBleibt DEF SaveInv, DateiInv
<1> QED
  BY <1>6, <1>7, <1>9, <1>10 DEF SaveInv

LEMMA SpalteSchritt ==
  ASSUME ResampleInv, NEW p \in Teile, Spalte(p)
  PROVE  SaveInv'
<1>1. /\ SaveInv /\ CropInv /\ naechste[p] # KeineSpalte /\ naechste[p] <= Bis(p)
      /\ naechste' = [naechste EXCEPT ![p] = @ + 1]
      /\ puffer' = [puffer EXCEPT ![tiefe] =
                      [i \in DOMAIN @ \cup {naechste[p]} |->
                         IF i = naechste[p] THEN Id(i) ELSE @[i]]]
      /\ UNCHANGED <<cropvars, wahl, bilderart, schritt, tiefe, hCompleted, datei>>
      /\ ort' = ort
  BY DEF ResampleInv, Spalte, cropvars
<1>2. /\ schritt \in {"start1", "warten"} /\ ort = "geschnitten" /\ tiefe \in {8, 16}
      /\ DOMAIN puffer = {8, 16} /\ naechste \in [Teile -> Int]
      /\ p \notin hCompleted /\ Von(p) <= naechste[p]
  BY <1>1 DEF SaveInv, SchrittInv, FadenInv
<1>3. \A q \in Teile : Von(q) \in Nat /\ Bis(q) \in Int
  BY <1>1, <1>2, Haelften
<1>4. PICK n \in Int : n = naechste[p]
  BY <1>2
<1>5. /\ naechste' \in [Teile -> Int] /\ naechste'[p] = n + 1
      /\ \A q \in Teile : q # p => naechste'[q] = naechste[q]
  BY <1>1, <1>2, <1>4
<1>6. /\ \A q : Von(q)' = Von(q) /\ Bis(q)' = Bis(q)
      /\ (\A i : Id(i)' = Id(i)) /\ Spalten' = Spalten
  BY <1>1, TeilFest
<1>7. /\ DOMAIN puffer' = {8, 16}
      /\ \A t \in {8, 16} : t # tiefe => puffer'[t] = puffer[t]
      /\ puffer'[tiefe] = [i \in DOMAIN puffer[tiefe] \cup {n} |->
                             IF i = n THEN Id(i) ELSE puffer[tiefe][i]]
  BY <1>1, <1>2, <1>4
<1>8. ASSUME NEW t \in {8, 16}, NEW i, Da(t, i) \/ (t = tiefe /\ i = n)
      PROVE  Da(t, i)'
  <2>1. i \in DOMAIN puffer'[t] /\ puffer'[t][i] = Id(i)
    <3>1. CASE t # tiefe
      BY <1>7, <1>8, <3>1 DEF Da
    <3>2. CASE t = tiefe
      BY <1>7, <1>8, <3>2 DEF Da
    <3> QED
      BY <3>1, <3>2
  <2> QED
    BY <1>6, <2>1 DEF Da
<1>9. SchrittInv'
  BY <1>1, <1>5, <1>7 DEF SaveInv, SchrittInv
<1>10. FadenInv'
  <2>1. \A q \in Teile : naechste'[q] # KeineSpalte =>
          q \notin hCompleted' /\ Von(q)' <= naechste'[q] /\ naechste'[q] <= Bis(q)' + 1
    BY <1>1, <1>2, <1>3, <1>4, <1>5, <1>6 DEF SaveInv, FadenInv
  <2>2. schritt' = "start1" => naechste'[1] = KeineSpalte /\ 1 \notin hCompleted'
    BY <1>1, <1>5 DEF SaveInv, FadenInv, Teile
  <2> QED
    BY <1>1, <1>2, <2>1, <2>2 DEF FadenInv
<1>11. PufferInv'
  <2>1. ASSUME NEW q \in Teile, NEW i \in Geschafft(q)'
        PROVE  Da(tiefe, i)'
    <3>1. /\ i \in Von(q) .. Bis(q)
          /\ q \in hCompleted \/ (naechste'[q] # KeineSpalte /\ i < naechste'[q])
      BY <1>1, <1>6 DEF Geschafft
    <3>2. i \in Geschafft(q) \/ i = n
      <4>1. CASE q = p
        BY <1>1, <1>2, <1>3, <1>4, <1>5, <3>1, <4>1 DEF Geschafft
      <4>2. CASE q # p
        BY <1>5, <3>1, <4>2 DEF Geschafft
      <4> QED
        BY <4>1, <4>2
    <3>3. Da(tiefe, i) \/ i = n
      BY <1>1, <1>2, <3>2 DEF SaveInv, PufferInv
    <3>4. PICK t \in {8, 16} : t = tiefe
      BY <1>2
    <3>5. Da(t, i)'
      BY <1>8, <3>3, <3>4
    <3> QED
      BY <1>1, <3>4, <3>5 DEF Da
  <2>2. ASSUME tiefe = 16, NEW a \in bilderart, Tiefe(a) = 8
        PROVE  Voll(8)'
    <3>1. Voll(8)
      BY <1>1, <1>2, <2>2 DEF SaveInv, PufferInv
    <3>2. \A i \in Spalten : Da(8, i)'
      BY <1>8, <3>1 DEF Voll
    <3> QED
      BY <1>6, <3>2 DEF Voll
  <2>3. \A a : Tiefe(a)' = Tiefe(a)
    BY <1>1, TiefeBleibt
  <2> QED
    BY <1>1, <1>2, <2>1, <2>2, <2>3 DEF PufferInv
<1>12. daneben' = daneben
  <2>1. bild \in Bilder
    BY <1>1 DEF CropInv
  <2>2. mx \in Nat /\ my \in Nat
    BY <2>1, BildTyp, Produkt DEF mx, my
  <2>3. /\ \A k \in -1 .. mx : Fenster(k, mx) \subseteq 0 .. mx - 1
        /\ \A k \in -1 .. my : Fenster(k, my) \subseteq 0 .. my - 1
    BY <2>2, FensterDrin
  <2>4. daneben = FALSE
    BY <1>1 DEF SaveInv, DateiInv
  <2> QED
    BY <2>3, <2>4 DEF Spalte
<1>13. DateiInv'
  BY <1>1, <1>2, <1>12, DateiBleibt DEF SaveInv, DateiInv
<1> QED
  BY <1>9, <1>10, <1>11, <1>13 DEF SaveInv

LEMMA FertigSchritt ==
  ASSUME ResampleInv, NEW p \in Teile, Fertig(p)
  PROVE  SaveInv'
<1>1. /\ SaveInv /\ CropInv /\ naechste[p] # KeineSpalte /\ naechste[p] > Bis(p)
      /\ naechste' = [naechste EXCEPT ![p] = KeineSpalte]
      /\ hCompleted' = hCompleted \cup {p} /\ ort' = ort
      /\ UNCHANGED <<cropvars, wahl, bilderart, schritt, tiefe, puffer, datei, daneben>>
  BY DEF ResampleInv, Fertig, cropvars
<1>2. /\ schritt \in {"start1", "warten"} /\ ort = "geschnitten"
      /\ naechste \in [Teile -> Int] /\ KeineSpalte \in Int
  BY <1>1 DEF SaveInv, SchrittInv, FadenInv, KeineSpalte
<1>3. \A q \in Teile : Von(q) \in Nat /\ Bis(q) \in Int
  BY <1>1, <1>2, Haelften
<1>4. /\ naechste' \in [Teile -> Int] /\ naechste'[p] = KeineSpalte
      /\ \A q \in Teile : q # p => naechste'[q] = naechste[q]
  BY <1>1, <1>2
<1>5. /\ \A q : Von(q)' = Von(q) /\ Bis(q)' = Bis(q)
      /\ \A i : Id(i)' = Id(i)
  BY <1>1, TeilFest
<1>6. (\A t : Voll(t)' = Voll(t)) /\ (\A a : Tiefe(a)' = Tiefe(a))
  BY <1>1, DaBleibt, TiefeBleibt
<1>7. SchrittInv'
  BY <1>1, <1>4 DEF SaveInv, SchrittInv
<1>8. FadenInv'
  <2>1. \A q \in Teile : naechste'[q] # KeineSpalte =>
          q \notin hCompleted' /\ Von(q)' <= naechste'[q] /\ naechste'[q] <= Bis(q)' + 1
    BY <1>1, <1>4, <1>5 DEF SaveInv, FadenInv
  <2>2. schritt' = "start1" => naechste'[1] = KeineSpalte /\ 1 \notin hCompleted'
    BY <1>1, <1>4 DEF SaveInv, FadenInv, Teile
  <2> QED
    BY <1>1, <1>2, <2>1, <2>2 DEF FadenInv
<1>9. PufferInv'
  <2>1. ASSUME NEW q \in Teile, NEW i \in Geschafft(q)'
        PROVE  Da(tiefe, i)'
    <3>1. /\ i \in Von(q) .. Bis(q)
          /\ q \in hCompleted' \/ (naechste'[q] # KeineSpalte /\ i < naechste'[q])
      BY <1>5 DEF Geschafft
    <3>2. i \in Geschafft(q)
      <4>1. CASE q = p
        BY <1>1, <1>2, <1>3, <3>1, <4>1 DEF Geschafft
      <4>2. CASE q # p
        BY <1>1, <1>4, <3>1, <4>2 DEF Geschafft
      <4> QED
        BY <4>1, <4>2
    <3>3. Da(tiefe, i)
      BY <1>1, <1>2, <3>2 DEF SaveInv, PufferInv
    <3> QED
      BY <1>1, <1>5, <3>3 DEF Da
  <2>2. tiefe' = 16 => \A a \in bilderart' : Tiefe(a)' = 8 => Voll(8)'
    BY <1>1, <1>2, <1>6 DEF SaveInv, PufferInv
  <2> QED
    BY <1>1, <1>2, <2>1, <2>2 DEF PufferInv
<1>10. DateiInv'
  BY <1>1, <1>2, DateiBleibt DEF SaveInv, DateiInv
<1> QED
  BY <1>7, <1>8, <1>9, <1>10 DEF SaveInv

(* Both events are set: the pass has filled its buffer. *)
LEMMA AbgewartetSchritt ==
  ASSUME ResampleInv, Abgewartet
  PROVE  SaveInv'
<1>1. /\ SaveInv /\ CropInv /\ schritt = "warten" /\ hCompleted = Teile /\ ort' = ort
      /\ \/ tiefe = 8 /\ schritt' = "pass" /\ tiefe' = 16
         \/ tiefe = 16 /\ schritt' = "schreiben" /\ tiefe' = 16
      /\ UNCHANGED <<cropvars, wahl, bilderart, naechste, hCompleted, puffer, datei, daneben>>
  BY DEF ResampleInv, Abgewartet, AlleFertig, cropvars, SaveInv, SchrittInv
<1>2. ort = "geschnitten"
  BY <1>1 DEF SaveInv, SchrittInv
<1>3. Voll(tiefe)
  <2>1. ASSUME NEW i \in Spalten PROVE Da(tiefe, i)
    <3>1. PICK p \in Teile : i \in Von(p) .. Bis(p)
      BY <1>1, <1>2, Haelften
    <3>2. i \in Geschafft(p)
      BY <1>1, <3>1 DEF Geschafft
    <3> QED
      BY <1>1, <3>2 DEF SaveInv, PufferInv
  <2> QED
    BY <2>1 DEF Voll
<1>4. (\A t : Voll(t)' = Voll(t)) /\ (\A a : Tiefe(a)' = Tiefe(a))
  BY <1>1, DaBleibt, TiefeBleibt
<1>5. SchrittInv'
  BY <1>1 DEF SaveInv, SchrittInv
<1>6. FadenInv'
  <2>1. \A p \in Teile : naechste[p] = KeineSpalte
    BY <1>1 DEF SaveInv, FadenInv
  <2> QED
    BY <1>1, <2>1 DEF FadenInv
<1>7. PufferInv'
  <2>1. CASE tiefe = 8 /\ schritt' = "pass" /\ tiefe' = 16
    <3>1. Voll(8)
      BY <1>3, <2>1
    <3> QED
      BY <1>1, <1>4, <2>1, <3>1 DEF PufferInv
  <2>2. CASE tiefe = 16 /\ schritt' = "schreiben" /\ tiefe' = 16
    <3>1. Voll(16)
      BY <1>3, <2>2
    <3>2. ASSUME NEW a \in bilderart PROVE Voll(Tiefe(a))
      <4>1. CASE Tiefe(a) = 8
        BY <1>1, <2>2, <4>1 DEF SaveInv, PufferInv
      <4>2. CASE Tiefe(a) = 16
        BY <3>1, <4>2
      <4> QED
        BY <4>1, <4>2 DEF Tiefe
    <3>3. \A a \in bilderart' : Voll(Tiefe(a))'
      <4>1. ASSUME NEW a \in bilderart' PROVE Voll(Tiefe(a))'
        <5>1. Voll(Tiefe(a))
          BY <1>1, <3>2
        <5>2. PICK t : t = Tiefe(a)
          OBVIOUS
        <5>3. Voll(t)' /\ Tiefe(a)' = t
          BY <1>4, <5>1, <5>2
        <5> QED
          BY <5>3 DEF Voll, Da
      <4> QED
        BY <4>1
    <3> QED
      BY <2>2, <3>3 DEF PufferInv
  <2> QED
    BY <1>1, <2>1, <2>2
<1>8. DateiInv'
  BY <1>1, DateiBleibt DEF SaveInv, DateiInv
<1> QED
  BY <1>5, <1>6, <1>7, <1>8 DEF SaveInv

LEMMA SchreibeSchritt ==
  ASSUME ResampleInv, NEW a \in Formate, Schreibe(a)
  PROVE  SaveInv'
<1>1. /\ SaveInv /\ CropInv /\ schritt = "schreiben" /\ a \in bilderart /\ ort' = ort
      /\ bilderart' = bilderart \ {a}
      /\ UNCHANGED <<cropvars, wahl, schritt, tiefe, naechste, hCompleted, puffer>>
  BY DEF ResampleInv, Schreibe, AnDerReihe, cropvars
<1>2. ort = "geschnitten"
  BY <1>1 DEF SaveInv, SchrittInv
<1>3. SBreite \in Nat /\ SHoehe \in Nat
  BY <1>1, <1>2, SicherungMass
<1>4. SchrittInv'
  BY <1>1 DEF SaveInv, SchrittInv
<1>5. FadenInv'
  BY <1>1, TeilFest DEF SaveInv, FadenInv
<1>6. PufferInv'
  <2>1. (\A t : Voll(t)' = Voll(t)) /\ (\A b : Tiefe(b)' = Tiefe(b))
    BY <1>1, DaBleibt, TiefeBleibt
  <2>2. ASSUME NEW b \in bilderart' PROVE Voll(Tiefe(b))'
    <3>1. Voll(Tiefe(b))
      BY <1>1 DEF SaveInv, PufferInv
    <3>2. PICK t : t = Tiefe(b)
      OBVIOUS
    <3>3. Voll(t)' /\ Tiefe(b)' = t
      BY <2>1, <3>1, <3>2
    <3> QED
      BY <3>3 DEF Voll, Da
  <2> QED
    BY <1>1, <2>2 DEF PufferInv
<1>7. DateiInv'
  <2>1. CASE UNCHANGED <<datei, daneben>>
    BY <1>1, <2>1, DateiBleibt DEF SaveInv
  <2>2. CASE /\ datei' = [f \in DOMAIN datei \cup {a} |->
                  IF f = a
                  THEN [spalten |-> [i \in 1 .. max_statt_i * bild.mf |->
                                       puffer[Tiefe(a)][i - 1]],
                        zeilen |-> Zeilenfolge(a)]
                  ELSE datei[f]]
             /\ daneben' = (daneben \/ ~(Gelesen(max_statt_i * bild.mf) \subseteq Spalten)
                                    \/ ~(Gelesen(max_statt_j * bild.mf) \subseteq Zeilen))
    <3>1. Spalten = 0 .. SBreite - 1 /\ Zeilen = 0 .. SHoehe - 1
      BY DEF Spalten, Zeilen, SBreite, SHoehe
    <3>2. daneben' = FALSE
      <4>1. Gelesen(SBreite) \subseteq Spalten /\ Gelesen(SHoehe) \subseteq Zeilen
        BY <1>3, <3>1, GelesenDrin
      <4>2. daneben = FALSE
        BY <1>1 DEF SaveInv, DateiInv
      <4> QED
        BY <2>2, <4>1, <4>2 DEF SBreite, SHoehe
    <3>3. \A i \in 1 .. SBreite : puffer[Tiefe(a)][i - 1] = Id(i - 1)
      <4>1. ASSUME NEW i \in 1 .. SBreite PROVE puffer[Tiefe(a)][i - 1] = Id(i - 1)
        <5>1. i - 1 \in Spalten
          BY <1>3, <3>1
        <5>2. Voll(Tiefe(a))
          BY <1>1 DEF SaveInv, PufferInv
        <5> QED
          BY <5>1, <5>2 DEF Voll, Da
      <4> QED
        BY <4>1
    <3>4. [i \in 1 .. max_statt_i * bild.mf |-> puffer[Tiefe(a)][i - 1]]
          = [i \in 1 .. SBreite |-> Id(i - 1)]
      BY <3>3 DEF SBreite
    <3>5. ASSUME NEW f \in DOMAIN datei'
          PROVE  datei'[f] = [spalten |-> [i \in 1 .. SBreite |-> Id(i - 1)],
                              zeilen |-> Zeilenfolge(f)]
      <4>1. CASE f = a
        BY <2>2, <3>4, <4>1
      <4>2. CASE f # a
        <5>1. f \in DOMAIN datei /\ datei'[f] = datei[f]
          BY <2>2, <4>2
        <5> QED
          BY <1>1, <5>1 DEF SaveInv, DateiInv
      <4> QED
        BY <4>1, <4>2
    <3>6. /\ SBreite' = SBreite /\ (\A i : Id(i)' = Id(i))
          /\ \A f : Zeilenfolge(f)' = Zeilenfolge(f)
      BY <1>1, TeilFest
    <3>7. ASSUME NEW f \in DOMAIN datei'
          PROVE  datei'[f] = [spalten |-> [i \in 1 .. SBreite' |-> Id(i - 1)'],
                              zeilen |-> Zeilenfolge(f)']
      BY <3>5, <3>6
    <3> QED
      BY <1>1, <3>2, <3>7 DEF DateiInv
  <2> QED
    BY <2>1, <2>2 DEF Schreibe
<1> QED
  BY <1>4, <1>5, <1>6, <1>7 DEF SaveInv

LEMMA EndeSchritt ==
  ASSUME ResampleInv, Ende
  PROVE  ResampleInv'
<1>1. /\ SaveInv /\ CropInv /\ schritt = "schreiben" /\ schritt' = "ruht" /\ ort' = "frei"
      /\ tiefe' = 8 /\ hCompleted' = {} /\ puffer' = Leer /\ datei' = <<>>
      /\ UNCHANGED <<naechste, daneben>> /\ bild' = bild /\ m_rect' = m_rect
  BY DEF ResampleInv, Ende, mausvars
<1>2. SchrittInv'
  BY <1>1 DEF SaveInv, SchrittInv, Leer
<1>3. FadenInv'
  <2>1. \A p \in Teile : naechste[p] = KeineSpalte
    BY <1>1 DEF SaveInv, FadenInv
  <2> QED
    BY <1>1, <2>1 DEF FadenInv
<1>4. PufferInv'
  BY <1>1 DEF PufferInv
<1>5. DateiInv'
  BY <1>1 DEF SaveInv, DateiInv
<1>6. ort = "geschnitten" /\ bild \in Bilder
  BY <1>1 DEF SaveInv, SchrittInv, CropInv
<1>7. RechteckInv'
  BY <1>1, <1>6, DrinFest DEF CropInv, RechteckInv
<1>8. CropInv'
  BY <1>1, <1>6, <1>7 DEF CropInv, RandInv, PasstInPuffer, KeinHintergrund
<1> QED
  BY <1>2, <1>3, <1>4, <1>5, <1>8 DEF SaveInv, ResampleInv

-----------------------------------------------------------------------------
(* What a selection samples. *)

LEMMA GeteiltGenau ==
  ASSUME NEW a \in Nat, NEW b \in Nat \ {0}, NEW q \in Nat, q * b <= a, a < q * b + b
  PROVE  a \div b = q
<1> DEFINE d == a \div b
<1>1. d \in Nat /\ d * b <= a /\ a < d * b + b
  BY Geteilt
<1> HIDE DEF d
<1>2. (q + 1) * b = q * b + b /\ (d + 1) * b = d * b + b /\ q * b \in Nat /\ d * b \in Nat
  BY <1>1
<1>3. ASSUME q < d PROVE FALSE
  <2>1. (q + 1) * b <= d * b
    BY <1>1, <1>3, ProduktMonoton
  <2> QED
    BY <1>1, <1>2, <2>1
<1>4. ASSUME d < q PROVE FALSE
  <2>1. (d + 1) * b <= q * b
    BY <1>1, <1>4, ProduktMonoton
  <2> QED
    BY <1>1, <1>2, <2>1
<1>5. d = q
  BY <1>1, <1>3, <1>4
<1> QED
  BY <1>5 DEF d

(* Whole pixels before the place read count in full. *)
(* The pixels that are read for a part w long, at lo, enlarged by          *)
(* f / Teiler with m steps each: inside of the part, and all of it but     *)
(* perhaps its last one.                                                   *)
Entnommen(lo, w, f, m) ==
  {(lo * (m * f) + Teiler * i) \div (m * f) : i \in 0 .. Zu(w, f) * m - 1}

LEMMA LiestTeil ==
  ASSUME NEW lo \in Nat, NEW w \in Nat \ {0}, NEW m \in Nat \ {0},
         NEW f \in Nat, Teiler <= f
  PROVE  /\ Entnommen(lo, w, f, m) \subseteq lo .. lo + w - 1
         /\ lo .. lo + w - 2 \subseteq Entnommen(lo, w, f, m)
         /\ f = Teiler => Entnommen(lo, w, f, m) = lo .. lo + w - 1
<1> DEFINE T == Teiler
           N == m * f
           s == Zu(w, f)
           wf == w * f
<1>1. T \in Nat \ {0} /\ f \in Nat \ {0} /\ wf \in Nat
  BY TeilerAssumption, Produkt
<1>2. s \in Nat /\ s * T <= wf /\ wf < s * T + T
  BY <1>1, Geteilt DEF Zu
<1>3. N \in Nat \ {0} /\ T <= N /\ m * T <= N /\ m <= m * T
  <2>1. m * T <= m * f /\ m * 1 <= m * T /\ 1 * T <= m * T
    BY <1>1
  <2> QED
    BY <1>1, <2>1
<1> DEFINE S == {(lo * N + T * i) \div N : i \in 0 .. s * m - 1}
<1>4. Entnommen(lo, w, f, m) = S
  BY DEF Entnommen
<1> DEFINE sm == s * m
<1>5. sm \in Nat /\ sm * T <= w * N /\ w * N < sm * T + m * T /\ w * N \in Nat
  <2>1. (s * T) * m <= wf * m /\ (wf + 1) * m <= (s * T + T) * m
    BY <1>1, <1>2, Produkt, ProduktMonoton
  <2>2. /\ (s * T) * m = sm * T /\ wf * m = w * N
        /\ (s * T + T) * m = sm * T + m * T /\ (wf + 1) * m = w * N + m
    BY <1>1, <1>2
  <2>3. sm \in Nat /\ w * N \in Nat /\ m * T \in Nat /\ sm * T \in Nat
    BY <1>1, <1>2, <1>3, Produkt
  <2> QED
    BY <2>1, <2>2, <2>3
<1>6. ASSUME NEW i \in Nat
      PROVE  /\ T * i \in Nat /\ (lo * N + T * i) \div N = lo + (T * i) \div N
             /\ (T * i) \div N \in Nat
  <2> DEFINE a == T * i
             z == lo * N + a
             d == a \div N
  <2>1. a \in Nat /\ N \in Nat \ {0}
    BY <1>1, <1>3, Produkt
  <2> HIDE DEF a, N, T, s, wf, S, sm
  <2>2. d \in Nat /\ d * N <= a /\ a < d * N + N
    BY <2>1, Geteilt
  <2> HIDE DEF d
  <2>3. (lo + d) * N = lo * N + d * N /\ lo * N \in Nat /\ d * N \in Nat
    BY <2>1, <2>2
  <2>4. z \in Nat /\ lo + d \in Nat /\ (lo + d) * N <= z /\ z < (lo + d) * N + N
    BY <2>1, <2>2, <2>3
  <2> HIDE DEF z
  <2>5. z \div N = lo + d
    BY <2>1, <2>4, GeteiltGenau
  <2> QED
    BY <2>1, <2>2, <2>5 DEF a, z, d
<1> HIDE DEF T, N, s, wf, sm, S
<1>7. ASSUME NEW i \in 0 .. sm - 1
      PROVE  (lo * N + T * i) \div N \in lo .. lo + w - 1
  <2>1. i \in Nat /\ i + 1 <= sm
    BY <1>5
  <2>2. (i + 1) * T <= sm * T /\ (i + 1) * T = T * i + T /\ sm * T \in Nat
    BY <1>1, <1>5, <2>1, ProduktMonoton
  <2>3. T * i < w * N
    BY <1>1, <1>5, <1>6, <2>1, <2>2
  <2>4. (T * i) \div N < w
    BY <1>3, <1>6, <2>1, <2>3, GeteiltKleiner
  <2> QED
    BY <1>6, <2>1, <2>4
<1>8. ASSUME NEW c \in 0 .. w - 1, NEW i \in Nat, i < sm, c * N <= T * i, T * i < c * N + N
      PROVE  lo + c \in S
  <2>1. (T * i) \div N = c
    <3> DEFINE a == T * i
    <3>1. a \in Nat /\ c \in Nat /\ N \in Nat \ {0} /\ c * N <= a /\ a < c * N + N
      BY <1>3, <1>6, <1>8
    <3> HIDE DEF a
    <3>2. a \div N = c
      BY <3>1, GeteiltGenau
    <3> QED
      BY <3>2 DEF a
  <2>2. (lo * N + T * i) \div N = lo + c /\ i \in 0 .. sm - 1
    BY <1>5, <1>6, <1>8, <2>1
  <2> QED
    BY <2>2 DEF S, sm
<1>9. ASSUME NEW c \in 0 .. w - 2 PROVE lo + c \in S
  <2> DEFINE i == (c * N + (T - 1)) \div T
  <2>1. c \in Nat /\ c + 2 <= w /\ c * N \in Nat
    BY <1>3, Produkt
  <2>2. i \in Nat /\ i * T <= c * N + (T - 1) /\ c * N + (T - 1) < i * T + T
    <3>1. c * N + (T - 1) \in Nat
      BY <1>1, <2>1
    <3> QED
      BY <1>1, <3>1, Geteilt, SMTT(40)
  <2> HIDE DEF i
  <2>3. i * T = T * i
    BY <1>1, <2>2
  <2>4. c * N <= T * i /\ T * i < c * N + N
    BY <1>1, <1>3, <1>6, <2>1, <2>2, <2>3
  <2>5. (c + 2) * N <= w * N /\ (c + 2) * N = c * N + N + N
    BY <1>3, <2>1, ProduktMonoton
  <2>6. T * i < sm * T
    <3>1. m * T \in Nat /\ sm * T \in Nat
      BY <1>1, <1>5, Produkt
    <3> QED
      BY <1>1, <1>3, <1>5, <1>6, <2>1, <2>2, <2>3, <2>5, <3>1
  <2>7. i < sm
    <3>1. ASSUME sm <= i PROVE FALSE
      <4>1. sm * T <= i * T
        BY <1>1, <1>5, <2>2, <3>1, ProduktMonoton
      <4> QED
        BY <1>1, <1>5, <1>6, <2>2, <2>3, <2>6, <4>1
    <3> QED
      BY <1>5, <2>2, <3>1
  <2> QED
    BY <1>8, <2>1, <2>2, <2>4, <2>7
<1>10. ASSUME f = Teiler, NEW c \in 0 .. w - 1 PROVE lo + c \in S
  <2> DEFINE i == c * m
  <2>1. c \in Nat /\ c + 1 <= w /\ i \in Nat /\ N = m * T /\ s = w
    <3>1. (w * T) \div T = w
      BY <1>1, GeteiltGlatt
    <3> QED
      BY <1>10, <3>1, Produkt DEF N, s, T, Zu
  <2>2. T * i = c * N /\ c * N \in Nat
    BY <1>1, <1>3, <2>1
  <2>3. (c + 1) * m <= w * m /\ (c + 1) * m = i + m /\ w * m = sm
    BY <2>1, ProduktMonoton DEF sm
  <2> HIDE DEF i
  <2>4. i < sm
    BY <1>5, <2>1, <2>3
  <2> QED
    BY <1>3, <1>8, <2>1, <2>2, <2>4
<1>11. S \subseteq lo .. lo + w - 1
  BY <1>7 DEF S, sm
<1>12. lo .. lo + w - 2 \subseteq S
  <2>1. ASSUME NEW p \in lo .. lo + w - 2 PROVE p \in S
    <3>1. p - lo \in 0 .. w - 2 /\ lo + (p - lo) = p
      OBVIOUS
    <3> HIDE DEF S
    <3> QED
      BY <1>9, <3>1
  <2> QED
    BY <2>1
<1>13. ASSUME f = Teiler, NEW p \in lo .. lo + w - 1 PROVE p \in S
  <2>1. p - lo \in 0 .. w - 1 /\ lo + (p - lo) = p
    OBVIOUS
  <2> HIDE DEF S
  <2> QED
    BY <1>10, <1>13, <2>1
<1> HIDE DEF S
<1> QED
  BY <1>4, <1>11, <1>12, <1>13

(* A pixel reaches into the interval from a to b of the screen just when   *)
(* it lies between those that a and b fall into.                           *)
LEMMA Beruehrt ==
  ASSUME bild \in Bilder, NEW a \in Nat, NEW b \in Nat, NEW n \in Int
  PROVE  {c \in 0 .. n : /\ c * bild.zoom[1] <= b * bild.zoom[2]
                         /\ (c + 1) * bild.zoom[1] > a * bild.zoom[2]}
         = {c \in 0 .. n : Pixel(a) <= c /\ c <= Pixel(b)}
<1> DEFINE z1 == bild.zoom[1]
           z2 == bild.zoom[2]
<1>1. z1 \in Nat \ {0} /\ z2 \in Nat
  BY BildTyp
<1>2. Pixel(a) = (a * z2) \div z1 /\ Pixel(b) = (b * z2) \div z1
  BY DEF Pixel
<1> HIDE DEF z1, z2
<1> DEFINE A == a * z2
           B == b * z2
<1>3. A \in Nat /\ B \in Nat
  BY <1>1, Produkt
<1> HIDE DEF A, B
<1>4. ASSUME NEW c \in Nat
      PROVE  /\ (c * z1 <= B) <=> (c <= B \div z1)
             /\ ((c + 1) * z1 > A) <=> (A \div z1 <= c)
  <2>1. (c + 1) * z1 = c * z1 + z1 /\ c * z1 \in Nat
    BY <1>1
  <2>2. c * z1 <= B => c <= B \div z1
    <3>1. ASSUME c * z1 <= B PROVE c <= B \div z1
      <4>1. (c * z1) \div z1 = c
        BY <1>1, GeteiltGlatt
      <4> QED
        BY <1>1, <1>3, <2>1, <3>1, <4>1, GeteiltMonoton
    <3> QED
      BY <3>1
  <2>3. c <= B \div z1 => c * z1 <= B
    <3> DEFINE q == B \div z1
    <3>1. q \in Nat /\ q * z1 <= B
      BY <1>1, <1>3, Geteilt
    <3> HIDE DEF q
    <3>2. ASSUME c <= q PROVE c * z1 <= B
      <4>1. c * z1 <= q * z1 /\ q * z1 \in Nat
        BY <1>1, <3>1, <3>2, Produkt, ProduktMonoton
      <4> QED
        BY <1>3, <2>1, <3>1, <4>1
    <3> QED
      BY <3>2 DEF q
  <2>4. (c + 1) * z1 > A => A \div z1 <= c
    <3>1. ASSUME (c + 1) * z1 > A PROVE A \div z1 <= c
      <4>1. A \div z1 < c + 1
        BY <1>1, <1>3, <2>1, <3>1, GeteiltKleiner
      <4>2. A \div z1 \in Nat
        BY <1>1, <1>3, Geteilt
      <4> QED
        BY <4>1, <4>2
    <3> QED
      BY <3>1
  <2>5. A \div z1 <= c => (c + 1) * z1 > A
    <3> DEFINE q == A \div z1
    <3>1. q \in Nat /\ A < q * z1 + z1
      BY <1>1, <1>3, Geteilt
    <3> HIDE DEF q
    <3>2. ASSUME q <= c PROVE (c + 1) * z1 > A
      <4>1. q * z1 <= c * z1 /\ q * z1 \in Nat
        BY <1>1, <3>1, <3>2, Produkt, ProduktMonoton
      <4> QED
        BY <1>1, <1>3, <2>1, <3>1, <4>1
    <3> QED
      BY <3>2 DEF q
  <2> QED
    BY <2>2, <2>3, <2>4, <2>5
<1>5. {c \in 0 .. n : c * z1 <= B /\ (c + 1) * z1 > A}
      = {c \in 0 .. n : A \div z1 <= c /\ c <= B \div z1}
  <2>1. \A c \in 0 .. n : c \in Nat
    OBVIOUS
  <2>2. \A c \in 0 .. n : (c * z1 <= B /\ (c + 1) * z1 > A)
                          <=> (A \div z1 <= c /\ c <= B \div z1)
    BY <1>4, <2>1
  <2> QED
    BY <2>2
<1> QED
  BY <1>2, <1>5 DEF A, B, z1, z2

(* The part is the one that the rectangle, as it still lies on the screen, *)
(* was made into; but for its enlargement.                                 *)
AuswahlInv ==
  ort = "geschnitten" /\ schnitt.art = "auswahl" =>
    /\ Zaehlt(m_rect)
    /\ schnitt.ifak2 \in Nat /\ Teiler <= schnitt.ifak2
    /\ LET t == Auswahl(m_rect)
       IN /\ t.art = "auswahl"
          /\ schnitt.x_min = t.x_min /\ schnitt.x_max = t.x_max
          /\ schnitt.y_min = t.y_min /\ schnitt.y_max = t.y_max

LEMMA SchneideAusgewaehlt ==
  ASSUME CropInv, SchneideAuswahl
  PROVE  AuswahlInv'
<1> DEFINE r == Normal(m_rect)
           t == Auswahl(r)
<1>1. bild' = bild /\ m_rect' = r /\ Zaehlt(r)
  BY DEF SchneideAuswahl
<1>2. PICK ifak \in Dehnungen \cup {Teiler} :
        \E f \in Teiler .. ifak : schnitt' = [t EXCEPT !.ifak2 = f]
  BY DEF SchneideAuswahl
<1>3. PICK f \in Teiler .. ifak : schnitt' = [t EXCEPT !.ifak2 = f]
  BY <1>2
<1>4. f \in Nat /\ Teiler <= f
  BY <1>2, <1>3, DehnungenAssumption, TeilerAssumption
<1>5. /\ schnitt'.x_max = t.x_max /\ schnitt'.x_min = t.x_min /\ schnitt'.ifak2 = f
      /\ schnitt'.y_max = t.y_max /\ schnitt'.y_min = t.y_min /\ schnitt'.art = t.art
  BY <1>3 DEF Auswahl, Ganz
<1> HIDE DEF r
<1>6. Auswahl(m_rect)' = t
  BY <1>1 DEF Auswahl, Ganz, Pixel, xf, yf
<1>7. Zaehlt(m_rect)'
  BY <1>1 DEF Zaehlt
<1> HIDE DEF t
<1> QED
  BY <1>4, <1>5, <1>6, <1>7 DEF AuswahlInv

LEMMA AuswahlFest ==
  ASSUME AuswahlInv, UNCHANGED cropvars
  PROVE  AuswahlInv'
<1>1. bild' = bild /\ m_rect' = m_rect /\ ort' = ort /\ schnitt' = schnitt
  BY DEF cropvars, mausvars
<1>2. Auswahl(m_rect)' = Auswahl(m_rect) /\ Zaehlt(m_rect)' = Zaehlt(m_rect)
  BY <1>1 DEF Auswahl, Ganz, Pixel, xf, yf, Zaehlt
<1> QED
  BY <1>1, <1>2 DEF AuswahlInv

LEMMA AuswahlSchritt ==
  ASSUME CropInv, AuswahlInv, [Next]_vars
  PROVE  AuswahlInv'
<1>1. CASE Maus \/ Weiten \/ Verengen
  <2>1. ort' \in {"frei", "weiten", "verengen"}
    BY <1>1 DEF Maus, Druecken, ZiehenLinks, ZiehenRechts, Loslassen, Verwerfen,
                Weiten, Verengen
  <2> QED
    BY <2>1 DEF AuswahlInv
<1>2. CASE SchneideAuswahl
  BY <1>2, SchneideAusgewaehlt
<1>3. CASE OhneAuswahl
  <2>1. ort' = "cutter" \/ schnitt'.art = "ganz"
    BY <1>3 DEF OhneAuswahl, Ganz
  <2> QED
    BY <2>1 DEF AuswahlInv
<1>4. CASE Wachsen
  <2>1. ort' = "cutter" \/ schnitt'.art \in {"ganz", "beschnitten"}
    BY <1>4 DEF Wachsen, Beschnitt, Ganz
  <2> QED
    BY <2>1 DEF AuswahlInv
<1>5. CASE Ende
  BY <1>5 DEF Ende, AuswahlInv
<1>6. CASE UNCHANGED cropvars
  BY <1>6, AuswahlFest
<1>7. ASSUME Beginne \/ Durchgang \/ (\E p \in Teile : Starte(p)) \/ Abgewartet
             \/ (\E a \in Formate : Schreibe(a)) \/ (\E p \in Teile : Faden(p))
             \/ UNCHANGED vars
      PROVE  UNCHANGED cropvars
  BY <1>7 DEF Beginne, Durchgang, Starte, Abgewartet, Schreibe, Faden, Spalte, Fertig, vars
<1> QED
  BY <1>1, <1>2, <1>3, <1>4, <1>5, <1>6, <1>7 DEF Next, Benutzer, Haupt

(* Where the part of a rectangle lies: its columns from the left, its rows *)
(* from the top.                                                           *)
LEMMA AuswahlLage ==
  ASSUME bild \in Bilder, NEW r, Drin(r), Zaehlt(r), Auswahl(r).art = "auswahl"
  PROVE  LET t == Auswahl(r)
         IN /\ t.x_min = Pixel(r.left) /\ t.x_min \in Nat
            /\ t.x_max - t.x_min \in Nat \ {0} /\ t.x_max \in Int
            /\ {c \in 0 .. xf - 1 : Pixel(r.left) <= c /\ c <= Pixel(r.right)}
               = t.x_min .. t.x_max - 1
            /\ yf - 1 - t.y_max = Pixel(r.top) /\ Pixel(r.top) \in Nat
            /\ t.y_max - t.y_min \in Nat \ {0} /\ t.y_max \in Int /\ t.y_min \in Int
            /\ {c \in 0 .. yf - 2 : Pixel(r.top) <= c /\ c <= Pixel(r.bottom)}
               = Pixel(r.top) .. yf - 2 - t.y_min
<1> DEFINE p0 == Pixel(r.left)
           p1 == Pixel(r.right)
           q0 == Pixel(r.top)
           q1 == Pixel(r.bottom)
<1>1. /\ r.left \in 0 .. Breite /\ r.right \in Nat /\ r.left <= r.right
      /\ r.top \in Nat /\ r.bottom \in Nat /\ r.top < Hoehe /\ r.top <= r.bottom
      /\ r.left \in Nat /\ xf \in Nat /\ yf \in Nat
  BY Masse, BildTyp DEF Drin, Rechteck, Zaehlt
<1>2. p0 \in Nat /\ p0 <= p1 /\ p0 <= xf /\ p1 \in Nat
  BY <1>1, PixelMonoton, PixelBreite
<1>3. q0 \in Nat /\ q0 <= q1 /\ q0 < yf /\ q1 \in Nat
  BY <1>1, PixelMonoton, PixelHoehe
<1> DEFINE y0 == yf - 2 - q1
           y1 == yf - 1 - q0
           x1 == 1 + p1
           t == [art |-> "auswahl", ifak2 |-> Teiler,
                 y_min |-> IF y0 < 0 THEN 0 ELSE y0,
                 y_max |-> IF y1 > yf THEN yf ELSE y1,
                 x_min |-> p0,
                 x_max |-> IF x1 > xf THEN xf ELSE x1]
<1>4. Auswahl(r) = IF t.x_max = t.x_min \/ t.y_max = t.y_min THEN Ganz ELSE t
  BY DEF Auswahl
<1>5. Auswahl(r) = t /\ t.x_max # t.x_min /\ t.y_max # t.y_min
  <2>1. Ganz.art # "auswahl"
    BY DEF Ganz
  <2> HIDE DEF t
  <2> QED
    BY <1>4, <2>1
<1> HIDE DEF p0, p1, q0, q1
<1>6. /\ t.x_min = p0 /\ t.x_max \in Int /\ t.x_max - t.x_min \in Nat \ {0}
      /\ {c \in 0 .. xf - 1 : p0 <= c /\ c <= p1} = t.x_min .. t.x_max - 1
  BY <1>1, <1>2, <1>5
<1>7. /\ yf - 1 - t.y_max = q0 /\ t.y_max \in Int /\ t.y_min \in Int
      /\ t.y_max - t.y_min \in Nat \ {0}
      /\ {c \in 0 .. yf - 2 : q0 <= c /\ c <= q1} = q0 .. yf - 2 - t.y_min
  BY <1>1, <1>3, <1>5
<1> HIDE DEF t
<1> QED
  BY <1>2, <1>3, <1>5, <1>6, <1>7 DEF p0, p1, q0, q1

(* What is sampled, with or without the last pixel of an enlarged part. *)
MitLetztem(lo, w, f, m) ==
  {Entnommen(lo, w, f, m) \cup l :
     l \in SUBSET (IF f = Teiler THEN {} ELSE {lo + w - 1})}

LEMMA FastAlle ==
  ASSUME NEW lo \in Nat, NEW w \in Nat \ {0}, NEW m \in Nat \ {0},
         NEW f \in Nat, Teiler <= f
  PROVE  lo .. lo + w - 1 \in MitLetztem(lo, w, f, m)
<1> DEFINE A == lo .. lo + w - 1
           E == Entnommen(lo, w, f, m)
           L == IF f = Teiler THEN {} ELSE {lo + w - 1}
<1>1. E \subseteq A /\ lo .. lo + w - 2 \subseteq E /\ (f = Teiler => E = A)
  BY LiestTeil
<1> HIDE DEF E
<1>2. A \ E \subseteq L
  BY <1>1
<1>3. A = E \cup (A \ E)
  BY <1>1
<1> HIDE DEF A, L
<1>4. A \in {E \cup l : l \in SUBSET L}
  BY <1>2, <1>3
<1> QED
  BY <1>4 DEF MitLetztem, A, E, L

LEMMA AuswahlZeigt ==
  ASSUME CropInv, AuswahlInv
  PROVE  AusschnittTreu
<1> SUFFICES ASSUME ort = "geschnitten", schnitt.art = "auswahl"
             PROVE  AusschnittTreu
  BY DEF AusschnittTreu
<1> DEFINE f == schnitt.ifak2
           m == bild.mf
           w == schnitt.x_max - schnitt.x_min
           h == schnitt.y_max - schnitt.y_min
           oben == yf - 1 - schnitt.y_max
<1>1. /\ bild \in Bilder /\ Drin(m_rect) /\ Zaehlt(m_rect)
      /\ Auswahl(m_rect).art = "auswahl"
      /\ f \in Nat /\ Teiler <= f /\ m \in Nat \ {0} /\ yf \in Nat
  BY BildTyp DEF CropInv, RechteckInv, AuswahlInv
<1>2. /\ m_rect.left \in Nat /\ m_rect.right \in Nat
      /\ m_rect.top \in Nat /\ m_rect.bottom \in Nat
  BY <1>1, Masse DEF Drin
<1>3. /\ schnitt.x_min \in Nat /\ w \in Nat \ {0} /\ schnitt.x_max \in Int
      /\ {c \in 0 .. xf - 1 : Pixel(m_rect.left) <= c /\ c <= Pixel(m_rect.right)}
         = schnitt.x_min .. schnitt.x_max - 1
      /\ oben \in Nat /\ h \in Nat \ {0} /\ schnitt.y_max \in Int /\ schnitt.y_min \in Int
      /\ {c \in 0 .. yf - 2 : Pixel(m_rect.top) <= c /\ c <= Pixel(m_rect.bottom)}
         = oben .. yf - 2 - schnitt.y_min
  <2>1. /\ schnitt.x_min = Auswahl(m_rect).x_min /\ schnitt.x_max = Auswahl(m_rect).x_max
        /\ schnitt.y_min = Auswahl(m_rect).y_min /\ schnitt.y_max = Auswahl(m_rect).y_max
    BY DEF AuswahlInv
  <2> QED
    BY <1>1, <2>1, AuswahlLage
<1>4. schnitt.x_max - 1 = schnitt.x_min + w - 1 /\ yf - 2 - schnitt.y_min = oben + h - 1
  BY <1>1, <1>3
<1>5. /\ {Id(i) \div Nenner : i \in Spalten} = Entnommen(schnitt.x_min, w, f, m)
      /\ {Jd(j) \div Nenner : j \in Zeilen} = Entnommen(oben, h, f, m)
  BY DEF Id, Jd, Nenner, Spalten, Zeilen, max_statt_i, max_statt_j, Entnommen
<1> HIDE DEF w, h, oben, f, m
<1>6. schnitt.x_min .. schnitt.x_min + w - 1 \in MitLetztem(schnitt.x_min, w, f, m)
  BY <1>1, <1>3, FastAlle
<1>7. oben .. oben + h - 1 \in MitLetztem(oben, h, f, m)
  BY <1>1, <1>3, FastAlle
<1> DEFINE sp == {Id(i) \div Nenner : i \in Spalten}
           ze == {Jd(j) \div Nenner : j \in Zeilen}
           beruehrt(n, a, b) == {c \in 0 .. n : /\ c * bild.zoom[1] <= b * bild.zoom[2]
                                                /\ (c + 1) * bild.zoom[1] > a * bild.zoom[2]}
           letzte(n) == IF f = Teiler THEN {} ELSE {n}
<1>8. /\ beruehrt(xf - 1, m_rect.left, m_rect.right) = schnitt.x_min .. schnitt.x_min + w - 1
      /\ beruehrt(yf - 2, m_rect.top, m_rect.bottom) = oben .. oben + h - 1
  <2>1. xf - 1 \in Int /\ yf - 2 \in Int
    BY <1>1, BildTyp
  <2> QED
    BY <1>1, <1>2, <1>3, <1>4, <2>1, Beruehrt, SMTT(40)
<1>9. beruehrt(xf - 1, m_rect.left, m_rect.right) \in
        {sp \cup l : l \in SUBSET letzte(schnitt.x_max - 1)}
  BY <1>4, <1>5, <1>6, <1>8 DEF MitLetztem
<1>10. beruehrt(yf - 2, m_rect.top, m_rect.bottom) \in
        {ze \cup l : l \in SUBSET letzte(yf - 2 - schnitt.y_min)}
  BY <1>4, <1>5, <1>7, <1>8 DEF MitLetztem
<1> QED
  BY <1>9, <1>10 DEF AusschnittTreu, f

-----------------------------------------------------------------------------
(* Together. *)

LEMMA DateiTeile ==
  ASSUME DateiInv, NEW a \in DOMAIN datei
  PROVE  /\ datei[a].spalten = [i \in 1 .. SBreite |-> Id(i - 1)]
         /\ datei[a].zeilen = Zeilenfolge(a)
<1> DEFINE c == [i \in 1 .. SBreite |-> Id(i - 1)]
<1>1. datei[a] = [spalten |-> c, zeilen |-> Zeilenfolge(a)]
  BY DEF DateiInv
<1> HIDE DEF c
<1>2. datei[a].spalten = c /\ datei[a].zeilen = Zeilenfolge(a)
  BY <1>1
<1> QED
  BY <1>2 DEF c

LEMMA ResampleAnfang ==
  ASSUME Init
  PROVE  ResampleInv
<1>1. CropInv
  BY CropAnfang DEF Init
<1>2. SchrittInv
  BY DEF Init, SchrittInv, KeineSpalte, Leer
<1>3. FadenInv
  BY DEF Init, FadenInv
<1>4. PufferInv
  BY DEF Init, PufferInv
<1>5. DateiInv
  BY DEF Init, DateiInv
<1> QED
  BY <1>1, <1>2, <1>3, <1>4, <1>5 DEF ResampleInv, SaveInv

LEMMA ResampleSchritt ==
  ASSUME ResampleInv, [Next]_vars
  PROVE  ResampleInv'
<1> USE DEF ResampleInv
<1>1. CASE (Maus \/ SchneideAuswahl \/ OhneAuswahl \/ Weiten \/ Verengen \/ Wachsen)
           /\ UNCHANGED savevars
  <2>1. ort # "geschnitten"
    BY <1>1 DEF Maus, Druecken, ZiehenLinks, ZiehenRechts, Loslassen, Verwerfen,
                SchneideAuswahl, OhneAuswahl, Weiten, Verengen, Wachsen
  <2>2. SaveInv'
    BY <1>1, <2>1, BenutzerSchritt
  <2>3. CropInv'
    BY <1>1, MausSchritt, SchneideSchritt, OhneSchritt, WachsenSchritt
  <2> QED
    BY <2>2, <2>3
<1>2. ASSUME Beginne \/ Durchgang \/ (\E p \in Teile : Starte(p)) \/ Abgewartet
             \/ (\E a \in Formate : Schreibe(a)) \/ (\E p \in Teile : Faden(p))
      PROVE  ResampleInv'
  <2>1. CropInv'
    <3>1. UNCHANGED cropvars
      BY <1>2 DEF Beginne, Durchgang, Starte, Abgewartet, Schreibe, Faden, Spalte, Fertig
    <3> QED
      BY <3>1, CropRuht
  <2>2. SaveInv'
    <3>1. CASE Beginne
      BY <3>1, BeginneSchritt
    <3>2. CASE Durchgang
      BY <3>2, DurchgangSchritt
    <3>3. CASE \E p \in Teile : Starte(p)
      BY <3>3, StarteSchritt
    <3>4. CASE Abgewartet
      BY <3>4, AbgewartetSchritt
    <3>5. CASE \E a \in Formate : Schreibe(a)
      BY <3>5, SchreibeSchritt
    <3>6. CASE \E p \in Teile : Faden(p)
      BY <3>6, SpalteSchritt, FertigSchritt DEF Faden
    <3> QED
      BY <1>2, <3>1, <3>2, <3>3, <3>4, <3>5, <3>6
  <2> QED
    BY <2>1, <2>2
<1>3. CASE Ende
  BY <1>3, EndeSchritt
<1>4. CASE UNCHANGED vars
  <2>1. UNCHANGED <<cropvars, savevars>>
    BY <1>4 DEF vars
  <2>2. CropInv'
    BY <2>1, CropRuht
  <2>3. SaveInv'
    <3>1. /\ UNCHANGED <<wahl, bilderart, schritt, tiefe, naechste, hCompleted, puffer>>
          /\ UNCHANGED <<datei, daneben>>
      BY <2>1 DEF savevars
    <3>2. /\ ort' = ort /\ (\A p : Von(p)' = Von(p) /\ Bis(p)' = Bis(p))
          /\ (\A i : Id(i)' = Id(i)) /\ (\A t : Voll(t)' = Voll(t))
          /\ (\A a : Tiefe(a)' = Tiefe(a))
      BY <2>1, <3>1, TeilFest, DaBleibt, TiefeBleibt
    <3>3. SchrittInv'
      BY <3>1, <3>2 DEF SaveInv, SchrittInv
    <3>4. FadenInv'
      BY <3>1, <3>2 DEF SaveInv, FadenInv
    <3>5. PufferInv'
      <4>1. ASSUME NEW p \in Teile, NEW i \in Geschafft(p)', schritt \in {"start1", "warten"}
            PROVE  Da(tiefe, i)'
        <5>1. i \in Geschafft(p)
          BY <3>1, <3>2 DEF Geschafft
        <5>2. Da(tiefe, i)
          BY <4>1, <5>1 DEF SaveInv, PufferInv
        <5> QED
          BY <3>1, <3>2, <5>2 DEF Da
      <4>2. ASSUME NEW a \in bilderart, schritt = "schreiben"
            PROVE  Voll(Tiefe(a))'
        <5>1. PICK t : t = Tiefe(a)
          OBVIOUS
        <5>2. Voll(t)' /\ Tiefe(a)' = t
          BY <3>2, <4>2, <5>1 DEF SaveInv, PufferInv
        <5> QED
          BY <5>2 DEF Voll, Da
      <4>3. schritt \in {"pass", "start0", "start1", "warten"} /\ tiefe = 16 =>
              \A a \in bilderart : Tiefe(a)' = 8 => Voll(8)'
        BY <3>2 DEF SaveInv, PufferInv
      <4> QED
        BY <3>1, <4>1, <4>2, <4>3 DEF PufferInv
    <3>6. DateiInv'
      BY <2>1, <3>1, DateiBleibt DEF SaveInv, DateiInv
    <3> QED
      BY <3>3, <3>4, <3>5, <3>6 DEF SaveInv
  <2> QED
    BY <2>2, <2>3
<1> QED
  BY <1>1, <1>2, <1>3, <1>4 DEF Next, Benutzer, Haupt

LEMMA ResampleImmer == Spec => []ResampleInv
<1>1. Init => ResampleInv
  BY ResampleAnfang
<1>2. ResampleInv /\ [Next]_vars => ResampleInv'
  BY ResampleSchritt
<1> QED
  BY <1>1, <1>2, PTL DEF Spec

(* schreibe_bild never samples more columns or rows than nbild holds,      *)
(* whatever was selected and however much the part is enlarged.            *)
THEOREM PufferGross == Spec => []PasstInPuffer
<1>1. ResampleInv => PasstInPuffer
  BY DEF ResampleInv, CropInv
<1> QED
  BY <1>1, ResampleImmer, PTL

(* cutter's rectangle, made one pixel smaller, shows the photo only, for   *)
(* every position of its corners and every direction.                      *)
THEOREM NurFoto == Spec => []KeinHintergrund
<1>1. ResampleInv => KeinHintergrund
  BY DEF ResampleInv, CropInv
<1> QED
  BY <1>1, ResampleImmer, PTL

(* The files hold what the two threads sampled for this save, whatever the *)
(* order of their steps, and nothing outside of a picture is read.         *)
THEOREM FertigeSpalten == Spec => []LiestFertiges
<1>1. ASSUME ResampleInv PROVE LiestFertiges
  <2>1. daneben = FALSE
    BY <1>1 DEF ResampleInv, SaveInv, DateiInv
  <2>2. ASSUME NEW a \in DOMAIN datei, NEW i \in DOMAIN datei[a].spalten
        PROVE  datei[a].spalten[i] = Id(i - 1)
    <3>1. datei[a].spalten = [k \in 1 .. SBreite |-> Id(k - 1)]
      BY <1>1, DateiTeile DEF ResampleInv, SaveInv
    <3> QED
      BY <3>1
  <2> QED
    BY <2>1, <2>2 DEF LiestFertiges
<1> QED
  BY <1>1, ResampleImmer, PTL

(* The formats that one save writes show the same picture.                 *)
THEOREM GleicheFormate == Spec => []AlleFormateGleich
<1>1. ASSUME ResampleInv PROVE AlleFormateGleich
  <2>1. ASSUME NEW a \in DOMAIN datei
        PROVE  LET d == datei[a]
                   n == Len(d.zeilen)
               IN /\ Len(d.spalten) = max_statt_i * bild.mf /\ n = max_statt_j * bild.mf
                  /\ \A k \in 1 .. n :
                       d.zeilen[IF a \in {"bmp", "clip"} THEN n + 1 - k ELSE k] = k - 1
    <3>1. /\ datei[a].spalten = [k \in 1 .. SBreite |-> Id(k - 1)]
          /\ datei[a].zeilen = Zeilenfolge(a)
      BY <1>1, DateiTeile DEF ResampleInv, SaveInv
    <3>2. ort = "geschnitten"
      BY <1>1 DEF ResampleInv, SaveInv, DateiInv, SchrittInv
    <3>3. SBreite \in Nat /\ SHoehe \in Nat
      BY <1>1, <3>2, SicherungMass DEF ResampleInv
    <3>4. Len(datei[a].spalten) = SBreite
      BY <3>1, <3>3
    <3>5. Zeilenfolge(a) = [k \in 1 .. SHoehe |-> IF a \in {"bmp", "clip"}
                                                  THEN SHoehe - k ELSE k - 1]
      BY DEF Zeilenfolge, SHoehe
    <3>6. Len(datei[a].zeilen) = SHoehe
      BY <3>1, <3>3, <3>5
    <3>7. ASSUME NEW k \in 1 .. SHoehe
          PROVE  datei[a].zeilen[IF a \in {"bmp", "clip"} THEN SHoehe + 1 - k ELSE k] = k - 1
      <4>1. CASE a \in {"bmp", "clip"}
        <5>1. SHoehe + 1 - k \in 1 .. SHoehe /\ SHoehe - (SHoehe + 1 - k) = k - 1
          BY <3>3
        <5> QED
          BY <3>1, <3>5, <4>1, <5>1
      <4>2. CASE a \notin {"bmp", "clip"}
        BY <3>1, <3>5, <4>2
      <4> QED
        BY <4>1, <4>2
    <3> QED
      BY <3>4, <3>6, <3>7 DEF SBreite, SHoehe
  <2> QED
    BY <2>1 DEF AlleFormateGleich
<1> QED
  BY <1>1, ResampleImmer, PTL

(* The save samples just what the rectangle touches on the screen, for     *)
(* every zoom, gesture and enlargement; but for the last row of the result *)
(* and the last row and column of an enlarged part.                        *)
THEOREM AusschnittImmerTreu == Spec => []AusschnittTreu
<1>1. Init => AuswahlInv
  BY DEF Init, CropInit, AuswahlInv
<1>2. ResampleInv /\ AuswahlInv /\ [Next]_vars => AuswahlInv'
  BY AuswahlSchritt DEF ResampleInv
<1>3. ResampleInv /\ AuswahlInv => AusschnittTreu
  BY AuswahlZeigt DEF ResampleInv
<1> QED
  BY <1>1, <1>2, <1>3, ResampleImmer, PTL DEF Spec
=============================================================================
