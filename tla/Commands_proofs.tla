-------------------------- MODULE Commands_proofs ---------------------------
(***************************************************************************)
(* What the user does with a result and with a folder.  Editing lines and  *)
(* selecting the part to save (LineEdit), for every set of lines and every *)
(* number of images and rounds of the fit; and the batch (Batch), for any  *)
(* files, names, extensions, suffixes and settings.                        *)
(***************************************************************************)
EXTENDS LineEdit, Batch, SequenceTheorems, WellFoundedInduction, TLAPS

(***************************************************************************)
(* Editing.  Each property is inductive: the handlers keep it whatever     *)
(* order they are called in, without it having to be known which button    *)
(* went down before which other.                                           *)
(***************************************************************************)

-----------------------------------------------------------------------------
(* The correction and the lines. *)

(* A fit finds the correction for the verdicts it leaves. *)
LEMMA FitPasst ==
  ASSUME NEW u, Fit(u)
  PROVE  KorrekturZuLinien'
BY DEF Fit, KorrekturZuLinien

LEMMA KorrekturSchritt == KorrekturZuLinien /\ [EditNext]_editvars => KorrekturZuLinien'
<1> SUFFICES ASSUME KorrekturZuLinien, [EditNext]_editvars PROVE KorrekturZuLinien'
  OBVIOUS
<1>1. CASE Laden
  BY <1>1 DEF Laden, Leeren, KorrekturZuLinien
<1>2. CASE Go
  <2>1. ASSUME NEW u \in [Linien -> LF!Urteile], Fit(u) PROVE KorrekturZuLinien'
    BY <2>1, FitPasst
  <2>2. CASE Leeren
    BY <2>2 DEF Leeren, KorrekturZuLinien
  <2> QED
    BY <1>2, <2>1, <2>2 DEF Go
<1>3. CASE Reoptimize
  BY <1>3, FitPasst DEF Reoptimize
<1>4. CASE Anpassen
  BY <1>4 DEF Anpassen, Leeren, KorrekturZuLinien
<1>5. CASE Umschalten
  BY <1>5 DEF Umschalten, tabelle, wert, KorrekturZuLinien
<1>6. CASE Aufheben
  BY <1>6 DEF Aufheben, tabelle, wert, KorrekturZuLinien
<1>7. CASE DelMH
  BY <1>7 DEF DelMH, KorrekturZuLinien
<1>8. ASSUME NEW t \in Tasten, ButtonDown(t) PROVE KorrekturZuLinien'
  <2>1. UNCHANGED <<struktur_vorhanden, gefittet>>
        /\ (korrektur' = "null" \/ UNCHANGED <<urteil, korrektur, gezogen>>)
    BY <1>8 DEF ButtonDown
  <2> QED
    BY <2>1 DEF KorrekturZuLinien
<1>9. ASSUME NEW t \in Tasten, ButtonUp(t) PROVE KorrekturZuLinien'
  <2>1. UNCHANGED <<struktur_vorhanden, gefittet>>
        /\ (korrektur' = "null" \/ UNCHANGED <<urteil, korrektur, gezogen>>)
    BY <1>9 DEF ButtonUp, AuswahlWertet, tabelle, wert
  <2> QED
    BY <2>1 DEF KorrekturZuLinien
<1>10. ASSUME NEW gehalten \in SUBSET Tasten, MouseMove(gehalten)
       PROVE  KorrekturZuLinien'
  <2>1. UNCHANGED <<struktur_vorhanden, korrektur, gefittet>>
        /\ (~gezogen' => ~gezogen /\ urteil' = urteil)
    BY <1>10 DEF MouseMove, tabelle, wert
  <2> QED
    BY <2>1 DEF KorrekturZuLinien
<1>11. CASE UNCHANGED editvars
  BY <1>11 DEF editvars, tabelle, wert, KorrekturZuLinien
<1> QED
  BY <1>1, <1>2, <1>3, <1>4, <1>5, <1>6, <1>7, <1>8, <1>9, <1>10, <1>11
     DEF EditNext, OnLButtonDown, OnRButtonDown, OnLButtonUp, OnRButtonUp, Tasten

(* While the lines are those of the last fit, and no drag has coloured     *)
(* some since, a correction that was found is the one for their verdicts   *)
(* (every handler of OnLButtonDown ... OnDelMH that edits sets it to 0).   *)
THEOREM KorrekturImmerZuLinien == EditSpec => []KorrekturZuLinien
<1>1. EditInit => KorrekturZuLinien
  BY DEF EditInit, KorrekturZuLinien
<1> QED
  BY <1>1, KorrekturSchritt, PTL DEF EditSpec

-----------------------------------------------------------------------------
(* The part to save. *)

LEMMA AusschnittSchritt == AusschnittPasst /\ [EditNext]_editvars => AusschnittPasst'
<1> SUFFICES ASSUME AusschnittPasst, [EditNext]_editvars PROVE AusschnittPasst'
  OBVIOUS
<1>1. ASSUME selektion_vorhanden' = 0 PROVE AusschnittPasst'
  BY <1>1 DEF AusschnittPasst
<1>2. CASE Laden \/ Anpassen
  BY <1>1, <1>2 DEF Laden, Anpassen, Leeren
<1>3. CASE Go
  BY <1>1, <1>3 DEF Go, Leeren, auswahl, AusschnittPasst
<1>4. CASE Reoptimize
  BY <1>4 DEF Reoptimize, schnitt, AusschnittPasst
<1>5. CASE Umschalten \/ Aufheben
  BY <1>1, <1>5 DEF Umschalten, Aufheben
<1>6. CASE DelMH
  BY <1>6 DEF DelMH, ansicht, schnitt, AusschnittPasst
<1>7. ASSUME NEW t \in Tasten, ButtonDown(t) PROVE AusschnittPasst'
  <2>1. UNCHANGED <<bild, ergebnis_vorhanden, beforeafter>>
    BY <1>7 DEF ButtonDown, ansicht
  <2>2. \/ ergebnis_vorhanden /\ ~beforeafter /\ schnittbild' = bild
        \/ UNCHANGED <<selektion_vorhanden, schnittbild>>
    BY <1>7 DEF ButtonDown, BeiErgebnis, schnitt
  <2> QED
    BY <2>1, <2>2 DEF AusschnittPasst
<1>8. ASSUME NEW t \in Tasten, ButtonUp(t) PROVE AusschnittPasst'
  <2>1. /\ UNCHANGED <<bild, ergebnis_vorhanden, beforeafter, schnittbild>>
        /\ selektion_vorhanden > 0 \/ UNCHANGED selektion_vorhanden
    BY <1>8 DEF ButtonUp, ansicht, schnitt
  <2> QED
    BY <2>1 DEF AusschnittPasst
<1>9. ASSUME NEW gehalten \in SUBSET Tasten, MouseMove(gehalten)
      PROVE  AusschnittPasst'
  <2>1. /\ UNCHANGED <<bild, ergebnis_vorhanden, beforeafter, schnittbild>>
        /\ selektion_vorhanden > 0 \/ UNCHANGED selektion_vorhanden
    BY <1>9 DEF MouseMove, ansicht, schnitt
  <2> QED
    BY <2>1 DEF AusschnittPasst
<1>10. CASE UNCHANGED editvars
  BY <1>10 DEF editvars, ansicht, schnitt, AusschnittPasst
<1> QED
  BY <1>2, <1>3, <1>4, <1>5, <1>6, <1>7, <1>8, <1>9, <1>10
     DEF EditNext, OnLButtonDown, OnRButtonDown, OnLButtonUp, OnRButtonUp, Tasten

(* A selected part is one of the result of the open image, and the window  *)
(* shows that result: no command of those that load, undo, switch or       *)
(* compute a first result leaves a rectangle behind.                       *)
THEOREM AusschnittPasstImmer == EditSpec => []AusschnittPasst
<1>1. EditInit => AusschnittPasst
  BY DEF EditInit, AusschnittPasst
<1> QED
  BY <1>1, AusschnittSchritt, PTL DEF EditSpec

(***************************************************************************)
(* The batch: its list is in order when it is worked off, and every file   *)
(* is treated as if it were alone.                                         *)
(***************************************************************************)

-----------------------------------------------------------------------------
(* The invariant. *)

Unterwegs == schritt \in {"schreiben", "entfernen", "ersetzen"}

(* What a batch works on is fixed when it begins. *)
ListeInv ==
  /\ \A f \in DOMAIN vorher : f \in Name
  /\ batchname \in Seq(DOMAIN vorher) /\ IsInjective(batchname)
  /\ schritt \in {"sort", "ordner"} => fs = vorher /\ fertig = {}
  /\ schritt = "lesen" => j <= Len(batchname) + 1
  /\ Unterwegs => /\ j <= Len(batchname) /\ offen \subseteq bilderart
                  /\ foto \in [foto : Fotos, mal : Nat]
  /\ schritt \in {"entfernen", "ersetzen"} => Ersetzt("jpg") /\ "jpg" \in bilderart

(* No comparison has found a pair to swap, as far as this pass has come.   *)
Paar(m) == ~Kleiner(Text(batchname[m + 1]), Text(batchname[m]))
SortInv ==
  /\ schritt = "sort" /\ ~ind =>
       \A m \in 1 .. i - 1 : m < Len(batchname) => Paar(m)
  /\ schritt \in {"ordner", "lesen"} \/ Unterwegs =>
       \A m \in 1 .. Len(batchname) - 1 : Paar(m)

(* A result that was written stands under one of its names. *)
Da(f, art) ==
  \E g \in Soll(f, art) \cap DOMAIN fs : fs[g] = Ergebnis(vorher[f])

(* Results are written for files up to the one at work, in the formats     *)
(* that are done for it.                                                   *)
FertigInv ==
  schritt = "lesen" \/ Unterwegs =>
    \A k \in DOMAIN batchname, art \in Arten :
      <<batchname[k], art>> \in fertig =>
        k < j \/ (k = j /\ Unterwegs /\ art \notin offen)

(* Files still to be read are as they were, and so is what was read; what  *)
(* was written is there, as long as the names are apart.                   *)
FrischInv ==
  (schritt = "lesen" \/ Unterwegs) /\ Getrennt =>
    /\ \A k \in DOMAIN batchname :
         k >= (IF Unterwegs THEN j + 1 ELSE j) /\ batchname[k] \in DOMAIN fs =>
           fs[batchname[k]] = vorher[batchname[k]]
    /\ Unterwegs => foto = vorher[batchname[j]]
    /\ \A f \in ToSet(batchname), art \in bilderart :
         <<f, art>> \in fertig => Da(f, art)
    /\ schritt \in {"entfernen", "ersetzen"} /\ <<batchname[j], "jpg">> \in fertig =>
         LET t == Ziel(batchname[j], "jpg")
         IN t \in DOMAIN fs /\ fs[t] = Ergebnis(vorher[batchname[j]])

(* With a suffix only names of results change. *)
NebenanInv ==
  (schritt = "lesen" \/ Unterwegs) /\ m_suffix # <<>> =>
    \A g \in DOMAIN vorher :
      \/ g \in DOMAIN fs /\ fs[g] = vorher[g]
      \/ \E f \in ToSet(batchname), art \in bilderart : g \in Soll(f, art)

IInv == TypeOK /\ ListeInv /\ SortInv /\ FertigInv /\ FrischInv /\ NebenanInv

-----------------------------------------------------------------------------
(* The order of names. *)

LEMMA Kleinste ==
  ASSUME NEW T, T \subseteq Nat, T # {}
  PROVE  \E x \in T : \A y \in T : x <= y
<1>1. PICK x \in T : \A y \in T : ~(<<y, x>> \in OpToRel(<, Nat))
  BY NatLessThanWellFounded, WFMin, Zenon
<1>2. ASSUME NEW y \in T PROVE x <= y
  <2>1. <<y, x>> \notin {ss \in Nat \X Nat : ss[1] < ss[2]}
    BY <1>1 DEF OpToRel
  <2> QED
    BY <2>1
<1> QED
  BY <1>2

LEMMA Schritte ==
  ASSUME NEW T, 0 \in T, \A n \in Nat : n \in T => n + 1 \in T
  PROVE  Nat \subseteq T
<1>1. ASSUME NEW n \in Nat, n \notin T PROVE FALSE
  <2> DEFINE U == Nat \ T
  <2>1. U \subseteq Nat /\ U # {}
    BY <1>1
  <2> HIDE DEF U
  <2>2. PICK x \in U : \A y \in U : x <= y
    BY <2>1, Kleinste
  <2>3. x \in Nat /\ x # 0 /\ x - 1 \in Nat /\ x \notin T
    BY <2>2 DEF U
  <2>4. x - 1 \in T
    BY <2>2, <2>3 DEF U
  <2> QED
    BY <2>3, <2>4
<1> QED
  BY <1>1

(* kleiner, the other way round: b does not have to be before a.           *)
LEMMA KleinerHeisst ==
  ASSUME NEW a \in Zeichenkette, NEW b \in Zeichenkette, ~Kleiner(b, a)
  PROVE  Voran(a, b)
<1> DEFINE V == {q \in DOMAIN b \cap DOMAIN a : b[q] # a[q]}
<1>1. CASE V = {}
  <2>1. ~(Len(b) < Len(a))
    BY <1>1 DEF Kleiner
  <2>2. \A q \in DOMAIN b \cap DOMAIN a : b[q] = a[q]
    BY <1>1
  <2>3. Len(a) <= Len(b) /\ \A q \in 1 .. Len(a) : a[q] = b[q]
    BY <2>1, <2>2 DEF Zeichenkette
  <2>4. SubSeq(a, 1, Len(a)) = SubSeq(b, 1, Len(a))
    BY <2>3 DEF Zeichenkette
  <2> QED
    BY <2>3, <2>4 DEF Voran, IsPrefix
<1>2. CASE V # {}
  <2>1. V \subseteq Nat
    BY DEF Zeichenkette
  <2> DEFINE d == CHOOSE q \in V : \A r \in V : q <= r
  <2>2. d \in V /\ \A r \in V : d <= r
    BY <1>2, <2>1, Kleinste
  <2>3. ~(Len(a) > d /\ (Len(b) = d \/ b[d] < a[d]))
    BY <1>2 DEF Kleiner
  <2> HIDE DEF d
  <2>4. d \in DOMAIN a \cap DOMAIN b /\ a[d] # b[d]
    BY <2>2
  <2>5. ASSUME NEW q \in 1 .. d - 1 PROVE a[q] = b[q]
    <3>0. Len(a) \in Nat /\ Len(b) \in Nat
          /\ DOMAIN a = 1 .. Len(a) /\ DOMAIN b = 1 .. Len(b)
      BY DEF Zeichenkette
    <3>1. q \in DOMAIN a \cap DOMAIN b /\ ~(d <= q)
      BY <3>0, <2>4
    <3> QED
      BY <3>1, <2>2
  <2>6. d = Len(a) \/ (d < Len(b) /\ a[d] < b[d])
    <3>1. d \in 1 .. Len(a) /\ d \in 1 .. Len(b) /\ a[d] \in Nat /\ b[d] \in Nat
      BY <2>4 DEF Zeichenkette
    <3> DEFINE la == Len(a)
               lb == Len(b)
               ad == a[d]
               bd == b[d]
    <3>2. la \in Nat /\ lb \in Nat /\ d \in 1 .. la /\ d \in 1 .. lb
          /\ ad \in Nat /\ bd \in Nat
      BY <3>1 DEF Zeichenkette
    <3>3. ~(la > d /\ (lb = d \/ bd < ad)) /\ ad # bd
      BY <2>3, <2>4
    <3> HIDE DEF la, lb, ad, bd
    <3>4. d = la \/ (d < lb /\ ad < bd)
      BY <3>2, <3>3
    <3> QED
      BY <3>4 DEF la, lb, ad, bd
  <2> QED
    BY <2>4, <2>5, <2>6 DEF Voran
<1> QED
  BY <1>1, <1>2

LEMMA PraefixHeisst ==
  ASSUME NEW a \in Zeichenkette, NEW b \in Zeichenkette
  PROVE  IsPrefix(a, b) <=> Len(a) <= Len(b) /\ \A q \in 1 .. Len(a) : a[q] = b[q]
<1>1. ASSUME IsPrefix(a, b), NEW q \in 1 .. Len(a) PROVE a[q] = b[q]
  <2>1. Len(a) <= Len(b) /\ SubSeq(a, 1, Len(a)) = SubSeq(b, 1, Len(a))
    BY <1>1 DEF IsPrefix
  <2>2. SubSeq(a, 1, Len(a))[q] = a[q] /\ SubSeq(b, 1, Len(a))[q] = b[q]
    BY <1>1, <2>1 DEF Zeichenkette
  <2> QED
    BY <2>1, <2>2
<1>2. ASSUME Len(a) <= Len(b), \A q \in 1 .. Len(a) : a[q] = b[q]
      PROVE  SubSeq(a, 1, Len(a)) = SubSeq(b, 1, Len(a))
  BY <1>2 DEF Zeichenkette
<1>3. IsPrefix(a, b) => Len(a) <= Len(b)
  BY DEF IsPrefix
<1> QED
  BY <1>1, <1>2, <1>3 DEF IsPrefix

(* The order of a dictionary is one of any three names.                    *)
LEMMA VoranTransitiv ==
  ASSUME NEW a \in Zeichenkette, NEW b \in Zeichenkette, NEW c \in Zeichenkette,
         Voran(a, b), Voran(b, c)
  PROVE  Voran(a, c)
<1> DEFINE P(x, y) == Len(x) <= Len(y) /\ \A q \in 1 .. Len(x) : x[q] = y[q]
           D(x, y, d) == /\ d \in 1 .. Len(x) /\ d \in 1 .. Len(y)
                         /\ \A q \in 1 .. d - 1 : x[q] = y[q]
                         /\ d = Len(x) \/ (d < Len(y) /\ x[d] < y[d])
<1>1. ASSUME NEW x \in Zeichenkette, NEW y \in Zeichenkette
      PROVE  Voran(x, y) <=> P(x, y) \/ \E d \in Nat : D(x, y, d)
  <2>1. DOMAIN x \cap DOMAIN y = {d \in Nat : d \in 1 .. Len(x) /\ d \in 1 .. Len(y)}
    BY DEF Zeichenkette
  <2>2. IsPrefix(x, y) <=> P(x, y)
    BY PraefixHeisst
  <2>3. Voran(x, y) <=> \/ IsPrefix(x, y)
                       \/ \E d \in DOMAIN x \cap DOMAIN y : D(x, y, d)
    BY <2>1 DEF Voran
  <2> HIDE DEF P
  <2> QED
    BY <2>1, <2>2, <2>3
<1>2. P(a, b) \/ \E d \in Nat : D(a, b, d)
  BY <1>1
<1>3. P(b, c) \/ \E d \in Nat : D(b, c, d)
  BY <1>1
<1>n. /\ Len(a) \in Nat /\ Len(b) \in Nat /\ Len(c) \in Nat
      /\ \A q \in 1 .. Len(a) : a[q] \in Nat
      /\ \A q \in 1 .. Len(b) : b[q] \in Nat
      /\ \A q \in 1 .. Len(c) : c[q] \in Nat
  BY DEF Zeichenkette
<1>4. CASE P(a, b) /\ P(b, c)
  <2>1. P(a, c)
    BY <1>4, <1>n
  <2> QED
    BY <2>1, <1>1
<1>5. ASSUME P(a, b), NEW d \in Nat, D(b, c, d) PROVE Voran(a, c)
  <2>1. CASE Len(a) < d
    <3>1. P(a, c)
      BY <1>5, <2>1, <1>n
    <3> QED
      BY <3>1, <1>1
  <2>2. CASE d <= Len(a)
    <3>1. D(a, c, d)
      BY <1>5, <2>2, <1>n
    <3> QED
      BY <3>1, <1>1
  <2> QED
    BY <2>1, <2>2, <1>n
<1>6. ASSUME NEW d \in Nat, D(a, b, d), P(b, c) PROVE Voran(a, c)
  <2>1. D(a, c, d)
    BY <1>6, <1>n
  <2> QED
    BY <2>1, <1>1
<1>7. ASSUME NEW d \in Nat, D(a, b, d), NEW e \in Nat, D(b, c, e) PROVE Voran(a, c)
  <2>1. CASE d <= e
    <3>1. D(a, c, d)
      BY <1>7, <2>1, <1>n
    <3> QED
      BY <3>1, <1>1
  <2>2. CASE e < d
    <3>1. D(a, c, e)
      BY <1>7, <2>2, <1>n
    <3> QED
      BY <3>1, <1>1
  <2> QED
    BY <2>1, <2>2
<1> QED
  BY <1>2, <1>3, <1>4, <1>5, <1>6, <1>7

-----------------------------------------------------------------------------
(* Names. *)

LEMMA TextTyp ==
  ASSUME NEW f \in Name
  PROVE  Text(f) \in Zeichenkette
<1>1. f.stamm \in Zeichenkette /\ f.art \in DOMAIN Endung \cup {"ohne"}
  BY DEF Name
<1>2. CASE f.art = "ohne"
  BY <1>1, <1>2 DEF Text, Zeichenkette
<1>3. CASE f.art # "ohne"
  <2>1. Endung[f.art] \in Zeichenkette
    BY <1>1, <1>3, EndungAssumption
  <2>2. <<Punkt>> \in Zeichenkette
    BY PunktAssumption DEF Zeichenkette
  <2> QED
    BY <1>1, <1>3, <2>1, <2>2 DEF Text, Zeichenkette
<1> QED
  BY <1>2, <1>3

Zusammen(m, s, x, e) ==
  /\ m \in Seq(Nat) /\ Len(m) = Len(s) + 1 + Len(e)
  /\ m[Len(s) + 1] = x
  /\ \A q \in 1 .. Len(e) : m[Len(s) + 1 + q] = e[q]
  /\ SubSeq(m, 1, Len(s)) = s

LEMMA Angehaengt ==
  ASSUME NEW s \in Seq(Nat), NEW x \in Nat, NEW e \in Seq(Nat)
  PROVE  Zusammen(s \o (<<x>> \o e), s, x, e)
<1> DEFINE y == <<x>> \o e
<1>1. y \in Seq(Nat) /\ Len(y) = 1 + Len(e) /\ y[1] = x
      /\ \A q \in 1 .. Len(e) : y[1 + q] = e[q]
  OBVIOUS
<1> HIDE DEF y
<1>y. y \in Seq(Nat)
  BY <1>1
<1> DEFINE m == s \o y
<1>2. m \in Seq(Nat) /\ Len(m) = Len(s) + Len(y)
      /\ (\A q \in 1 .. Len(s) : m[q] = s[q])
      /\ \A q \in 1 .. Len(y) : m[Len(s) + q] = y[q]
  BY <1>y
<1> HIDE DEF m
<1>3. Len(s) \in Nat /\ Len(e) \in Nat
  OBVIOUS
<1>4. m[Len(s) + 1] = x
  BY <1>1, <1>2, <1>3
<1>5. ASSUME NEW q \in 1 .. Len(e) PROVE m[Len(s) + 1 + q] = e[q]
  <2>1. 1 + q \in 1 .. Len(y) /\ Len(s) + (1 + q) = Len(s) + 1 + q
    BY <1>1, <1>3
  <2> QED
    BY <2>1, <1>1, <1>2
<1>6. SubSeq(m, 1, Len(s)) = s
  BY <1>2, <1>3
<1>7. Len(m) = Len(s) + 1 + Len(e)
  BY <1>1, <1>2, <1>3
<1>8. Zusammen(m, s, x, e)
  BY <1>2, <1>4, <1>5, <1>6, <1>7, Zenon DEF Zusammen
<1> QED
  BY <1>8 DEF m, y

(* Cutting off the extension leaves the stem, because no extension has a   *)
(* dot and a name without one has none at all.                             *)
LEMMA OhneEndungRichtig ==
  ASSUME NEW f \in Name
  PROVE  OhneEndung(f) = f.stamm
<1> DEFINE t == Text(f)
           p == {q \in DOMAIN t : t[q] = Punkt}
<1>1. f.stamm \in Zeichenkette /\ f.art \in DOMAIN Endung \cup {"ohne"}
  BY DEF Name
<1>2. CASE f.art = "ohne"
  <2>1. t = f.stamm
    BY <1>1, <1>2 DEF Text, Zeichenkette
  <2>2. p = {}
    BY <1>2, <2>1 DEF Name, ToSet
  <2> QED
    BY <2>1, <2>2 DEF OhneEndung
<1>3. CASE f.art # "ohne"
  <2> DEFINE n == Len(f.stamm)
             e == Endung[f.art]
             m == f.stamm \o (<<Punkt>> \o e)
  <2>1. e \in Zeichenkette /\ Punkt \notin ToSet(e)
    BY <1>1, <1>3, EndungAssumption
  <2>2. t = m
    BY <1>3 DEF Text
  <2> HIDE DEF e
  <2>3. n \in Nat /\ f.stamm \in Seq(Nat) /\ e \in Seq(Nat) /\ Punkt \in Nat
    BY <1>1, <2>1, PunktAssumption DEF Zeichenkette
  <2>4. /\ m \in Seq(Nat) /\ Len(m) = n + 1 + Len(e) /\ m[n + 1] = Punkt
        /\ \A q \in 1 .. Len(e) : m[n + 1 + q] = e[q]
        /\ SubSeq(m, 1, n) = f.stamm
    <3>1. Zusammen(m, f.stamm, Punkt, e)
      BY <2>3, Angehaengt
    <3> HIDE DEF m
    <3> QED
      BY <3>1 DEF Zusammen
  <2> HIDE DEF m, n
  <2>5. ASSUME NEW q \in DOMAIN m, q > n + 1 PROVE m[q] # Punkt
    <3>l. Len(e) \in Nat /\ n \in Nat
      BY <2>3
    <3>m. Len(m) = n + 1 + Len(e) /\ q \in 1 .. Len(m) /\ q > n + 1
      BY <2>5, <2>4
    <3> DEFINE a == Len(e)
               b == Len(m)
    <3> HIDE DEF a, b
    <3>1. q \in Nat /\ q - (n + 1) \in 1 .. a /\ n + 1 + (q - (n + 1)) = q
      BY <3>l, <3>m DEF a, b
    <3>2. m[q] = e[q - (n + 1)]
      BY <3>1, <2>4 DEF a
    <3>3. e[q - (n + 1)] \in ToSet(e)
      BY <3>1, <2>3 DEF ToSet, a
    <3> QED
      BY <3>2, <3>3, <2>1
  <2>6. n + 1 \in DOMAIN m /\ DOMAIN m \subseteq Nat
    BY <2>3, <2>4
  <2>7. n + 1 \in p /\ p \subseteq Nat /\ \A r \in p : n + 1 >= r
    BY <2>2, <2>3, <2>4, <2>5, <2>6
  <2> DEFINE c == CHOOSE q \in p : \A r \in p : q >= r
  <2>8. OhneEndung(f) = SubSeq(t, 1, c - 1)
    BY <2>7 DEF OhneEndung
  <2> HIDE DEF p, t
  <2>9. c \in p /\ \A r \in p : c >= r
    BY <2>7
  <2> HIDE DEF c
  <2>10. c - 1 = n
    BY <2>3, <2>7, <2>9
  <2> QED
    BY <2>2, <2>4, <2>8, <2>10
<1> QED
  BY <1>2, <1>3

(* So a result is called as it should be.                                  *)
LEMMA ZielRichtig ==
  ASSUME NEW f \in Name, NEW art \in Arten, m_suffix \in Suffixe, path \in Ordner
  PROVE  /\ Ziel(f, art) \in Name
         /\ Ziel(f, art) \in Soll(f, art)
         /\ Soll(f, art) = {Ziel(f, art)} \cup (IF Ersetzt(art) THEN {f} ELSE {})
         /\ Ersetzt(art) => Ziel(f, art) # f
<1>1. OhneEndung(f) = f.stamm /\ f.stamm \in Zeichenkette
  BY OhneEndungRichtig DEF Name
<1>2. Soll(f, art) = {Ziel(f, art)} \cup (IF Ersetzt(art) THEN {f} ELSE {})
  BY <1>1 DEF Soll, Ziel, Ersetzt
<1>3. m_suffix \in Zeichenkette /\ Tmp \in Zeichenkette /\ Tmp # <<>>
  BY SuffixeAssumption, TmpAssumption
<1> DEFINE z == IF art = "jpg" /\ m_suffix = <<>> THEN Tmp ELSE m_suffix
<1>4. z \in Zeichenkette
  BY <1>3
<1>5. Ziel(f, art) = [ordner |-> path, art |-> art, stamm |-> f.stamm \o z]
  BY <1>1 DEF Ziel
<1>6. f.stamm \o z \in Zeichenkette
  <2> HIDE DEF z
  <2> QED
    BY <1>1, <1>4 DEF Zeichenkette
<1>7. art \in DOMAIN Endung /\ art # "ohne"
  BY EndungAssumption
<1>8. Ziel(f, art) \in Name
  <2> HIDE DEF z
  <2> QED
    BY <1>5, <1>6, <1>7 DEF Name
<1>9. ASSUME Ersetzt(art) PROVE Ziel(f, art) # f
  <2>1. z = Tmp
    BY <1>9 DEF Ersetzt
  <2>2. Len(f.stamm \o Tmp) # Len(f.stamm)
    BY <1>1, <1>3 DEF Zeichenkette
  <2>3. Ziel(f, art).stamm = f.stamm \o Tmp
    <3> HIDE DEF z
    <3>1. Ziel(f, art).stamm = f.stamm \o z
      BY <1>5
    <3> QED
      BY <2>1, <3>1
  <2> QED
    BY <2>2, <2>3
<1> QED
  BY <1>2, <1>8, <1>9

-----------------------------------------------------------------------------
(* What is in order pair by pair is in order altogether.                   *)

LEMMA ListeGeordnet ==
  ASSUME ListeInv, SortInv
  PROVE  GeordneteListe
<1> DEFINE T(k) == Text(batchname[k])
           U == {n \in Nat : \A k \in DOMAIN batchname :
                   k + 1 + n \in DOMAIN batchname => Voran(T(k), T(k + 1 + n))}
<1> SUFFICES ASSUME schritt \in {"ordner", "lesen", "schreiben"},
                    NEW k \in DOMAIN batchname, NEW l \in DOMAIN batchname, k < l
             PROVE  Voran(T(k), T(l))
  BY DEF GeordneteListe
<1>1. /\ Len(batchname) \in Nat /\ DOMAIN batchname = 1 .. Len(batchname)
      /\ \A m \in DOMAIN batchname : batchname[m] \in Name
  BY DEF ListeInv
<1>2. ASSUME NEW m \in DOMAIN batchname PROVE T(m) \in Zeichenkette
  BY <1>1, TextTyp
<1>3. ASSUME NEW m \in DOMAIN batchname, m + 1 \in DOMAIN batchname
      PROVE  Voran(T(m), T(m + 1))
  <2>1. m \in 1 .. Len(batchname) - 1
    BY <1>1, <1>3
  <2>2. ~Kleiner(T(m + 1), T(m))
    BY <2>1 DEF SortInv, Unterwegs, Paar
  <2> QED
    BY <2>2, <1>2, <1>3, KleinerHeisst
<1> HIDE DEF T
<1>4. 0 \in U
  <2>1. \A m \in DOMAIN batchname : m + 1 + 0 = m + 1
    BY <1>1
  <2> QED
    BY <2>1, <1>3
<1>5. ASSUME NEW n \in Nat, n \in U PROVE n + 1 \in U
  <2> SUFFICES ASSUME NEW m \in DOMAIN batchname, m + 1 + (n + 1) \in DOMAIN batchname
               PROVE  Voran(T(m), T(m + 1 + (n + 1)))
    OBVIOUS
  <2>1. m + 1 + n \in DOMAIN batchname /\ (m + 1 + n) + 1 = m + 1 + (n + 1)
    BY <1>1
  <2>2. Voran(T(m), T(m + 1 + n))
    BY <2>1, <1>5
  <2>3. Voran(T(m + 1 + n), T(m + 1 + (n + 1)))
    BY <2>1, <1>3
  <2> QED
    BY <2>1, <2>2, <2>3, <1>2, VoranTransitiv
<1> HIDE DEF U
<1>6. Nat \subseteq U
  BY <1>4, <1>5, Schritte
<1>7. l - k - 1 \in Nat /\ k + 1 + (l - k - 1) = l
  BY <1>1
<1> QED
  BY <1>6, <1>7 DEF U

-----------------------------------------------------------------------------
(* Every action keeps the invariant. *)

(* The file at work, and where its results go.                             *)
LEMMA AmWerk ==
  ASSUME TypeOK, ListeInv, Unterwegs
  PROVE  /\ j \in DOMAIN batchname /\ m_dateiname \in Name
         /\ m_dateiname \in DOMAIN vorher /\ m_dateiname \in ToSet(batchname)
<1>1. j \in DOMAIN batchname
  BY DEF TypeOK, ListeInv
<1> QED
  BY <1>1 DEF ListeInv, m_dateiname, ToSet

LEMMA TypSchritt == TypeOK /\ ListeInv /\ [Next]_vars => TypeOK'
<1> SUFFICES ASSUME TypeOK, ListeInv, [Next]_vars PROVE TypeOK'
  OBVIOUS
<1>1. CASE OnBatch
  <2>1. stapel' \in 0 .. MaxStapel
    BY <1>1, SchrankenAssumption DEF OnBatch, TypeOK
  <2>2. UNCHANGED <<fs, m_suffix, bilderart, path, j, offen>>
    BY <1>1 DEF OnBatch
  <2>3. i' \in Nat \ {0} /\ schritt' = "sort"
    BY <1>1 DEF OnBatch
  <2>4. ind' \in BOOLEAN
    BY <1>1, Zenon DEF OnBatch
  <2> QED
    BY <2>1, <2>2, <2>3, <2>4 DEF TypeOK
<1>2. CASE Vergleiche
  <2>1. UNCHANGED <<fs, m_suffix, bilderart, path, j, offen, stapel>>
    BY <1>2 DEF Vergleiche
  <2>2. i' \in Nat \ {0}
    BY <1>2 DEF Vergleiche, TypeOK
  <2>3. ind' \in BOOLEAN
    BY <1>2, Zenon DEF Vergleiche, TypeOK
  <2>4. schritt' \in {"sort", "ordner"}
    BY <1>2, Zenon DEF Vergleiche
  <2> QED
    BY <2>1, <2>2, <2>3, <2>4 DEF TypeOK
<1>3. CASE Ordnerwahl
  BY <1>3 DEF Ordnerwahl, TypeOK
<1>4. CASE Schluss
  BY <1>4 DEF Schluss, TypeOK
<1>5. CASE Lies
  BY <1>5, FormateAssumption DEF Lies, laufvars, TypeOK
<1>6. ASSUME NEW art \in Arten, Schreibe(art) PROVE TypeOK'
  <2>1. Unterwegs
    BY <1>6 DEF Schreibe, Unterwegs
  <2>2. Ziel(m_dateiname, art) \in Name
    BY <2>1, AmWerk, ZielRichtig DEF TypeOK
  <2>3. Ergebnis(foto) \in [foto : Fotos, mal : Nat]
    BY <2>1 DEF ListeInv, Ergebnis
  <2>4. \A f \in DOMAIN fs' : f \in Name /\ fs'[f] \in [foto : Fotos, mal : Nat]
    BY <1>6, <2>2, <2>3 DEF Schreibe, Dazu, TypeOK
  <2> QED
    BY <1>6, <2>4 DEF Schreibe, laufvars, TypeOK
<1>7. CASE Entfernen
  BY <1>7 DEF Entfernen, Ohne, laufvars, TypeOK
<1>8. CASE Ersetzen
  <2>1. m_dateiname \in Name
    BY <1>8, AmWerk DEF Ersetzen, Unterwegs
  <2>2. \A f \in DOMAIN fs' : f \in Name /\ fs'[f] \in [foto : Fotos, mal : Nat]
    BY <1>8, <2>1 DEF Ersetzen, TypeOK
  <2> QED
    BY <1>8, <2>2 DEF Ersetzen, laufvars, TypeOK
<1>9. CASE Naechste
  BY <1>9 DEF Naechste, laufvars, TypeOK
<1>10. CASE UNCHANGED vars
  BY <1>10 DEF vars, TypeOK
<1> QED
  BY <1>1, <1>2, <1>3, <1>4, <1>5, <1>6, <1>7, <1>8, <1>9, <1>10 DEF Next, Arbeit

LEMMA ListeSchritt == TypeOK /\ ListeInv /\ [Next]_vars => ListeInv'
<1> SUFFICES ASSUME TypeOK, ListeInv, [Next]_vars PROVE ListeInv'
  OBVIOUS
<1> USE DEF Unterwegs, Ersetzt
<1>1. CASE OnBatch
  <2>1. PICK S \in SUBSET {f \in DOMAIN fs : f.ordner = "quelle"} :
          Cardinality(S) \in 1 .. MaxWahl /\ batchname' \in SetToSeqs(S)
    BY <1>1 DEF OnBatch
  <2>2. Cardinality(S) \in Nat
    BY <2>1
  <2>3. batchname' \in [1 .. Cardinality(S) -> S] /\ IsInjective(batchname')
    BY <2>1 DEF SetToSeqs, IsInjective
  <2>4. batchname' \in Seq(DOMAIN fs)
    BY <2>2, <2>3
  <2> QED
    BY <1>1, <2>3, <2>4 DEF OnBatch, ListeInv, TypeOK
<1>2. CASE Vergleiche
  <2>1. CASE i < Len(batchname) /\ Kleiner(Text(batchname[i + 1]), Text(batchname[i]))
    <3>1. batchname' = [batchname EXCEPT ![i] = batchname[i + 1], ![i + 1] = batchname[i]]
      BY <1>2, <2>1 DEF Vergleiche
    <3>2. i \in DOMAIN batchname /\ i + 1 \in DOMAIN batchname
      BY <2>1 DEF ListeInv, TypeOK
    <3>3. batchname' \in Seq(DOMAIN vorher)
      BY <3>1, <3>2 DEF ListeInv
    <3>4. IsInjective(batchname')
      BY <3>1, <3>2 DEF ListeInv, IsInjective
    <3> QED
      BY <1>2, <2>1, <3>3, <3>4 DEF Vergleiche, ListeInv
  <2>2. CASE ~(i < Len(batchname) /\ Kleiner(Text(batchname[i + 1]), Text(batchname[i])))
    BY <1>2, <2>2 DEF Vergleiche, ListeInv
  <2> QED
    BY <2>1, <2>2
<1>3. CASE Ordnerwahl
  BY <1>3 DEF Ordnerwahl, ListeInv
<1>4. CASE Schluss
  BY <1>4 DEF Schluss, ListeInv, IsInjective
<1>5. CASE Lies
  <2>1. CASE schritt' = "schreiben"
    BY <1>5, <2>1 DEF Lies, laufvars, ListeInv, TypeOK
  <2>2. CASE schritt' = "lesen" /\ j' = j + 1
    BY <1>5, <2>2 DEF Lies, laufvars, ListeInv, TypeOK
  <2> QED
    BY <1>5, <2>1, <2>2 DEF Lies
<1>6. ASSUME NEW art \in Arten, Schreibe(art) PROVE ListeInv'
  <2>1. CASE art = "jpg" /\ m_suffix = <<>>
    BY <1>6, <2>1 DEF Schreibe, laufvars, ListeInv
  <2>2. CASE ~(art = "jpg" /\ m_suffix = <<>>)
    BY <1>6, <2>2 DEF Schreibe, laufvars, ListeInv
  <2> QED
    BY <2>1, <2>2
<1>7. CASE Entfernen
  BY <1>7 DEF Entfernen, laufvars, ListeInv
<1>8. CASE Ersetzen
  BY <1>8 DEF Ersetzen, laufvars, ListeInv
<1>9. CASE Naechste
  BY <1>9 DEF Naechste, laufvars, ListeInv, TypeOK
<1>10. CASE UNCHANGED vars
  BY <1>10 DEF vars, ListeInv
<1> QED
  BY <1>1, <1>2, <1>3, <1>4, <1>5, <1>6, <1>7, <1>8, <1>9, <1>10 DEF Next, Arbeit

LEMMA SortSchritt == TypeOK /\ ListeInv /\ SortInv /\ [Next]_vars => SortInv'
<1> SUFFICES ASSUME TypeOK, ListeInv, SortInv, [Next]_vars PROVE SortInv'
  OBVIOUS
<1> USE DEF Unterwegs
<1>1. CASE OnBatch
  BY <1>1 DEF OnBatch, SortInv
<1>2. CASE Vergleiche
  <2>1. CASE i < Len(batchname) /\ Kleiner(Text(batchname[i + 1]), Text(batchname[i]))
    BY <1>2, <2>1 DEF Vergleiche, SortInv
  <2>2. CASE i < Len(batchname) /\ ~Kleiner(Text(batchname[i + 1]), Text(batchname[i]))
    <3>1. /\ schritt = "sort" /\ schritt' = "sort" /\ i' = i + 1
          /\ UNCHANGED <<ind, batchname>>
      BY <1>2, <2>2 DEF Vergleiche
    <3>2. \A m \in 1 .. i' - 1 : m \in 1 .. i - 1 \/ m = i
      BY <3>1 DEF TypeOK
    <3>3. ASSUME ~ind', NEW m \in 1 .. i' - 1, m < Len(batchname') PROVE Paar(m)'
      BY <3>1, <3>2, <3>3, <2>2 DEF SortInv, Paar
    <3> QED
      BY <3>1, <3>3 DEF SortInv
  <2>3. CASE ~(i < Len(batchname))
    <3>1. /\ schritt = "sort" /\ i' = 1 /\ UNCHANGED batchname
          /\ ind' = FALSE /\ (schritt' = "sort" \/ (schritt' = "ordner" /\ ~ind))
      BY <1>2, <2>3 DEF Vergleiche, Nochmal
    <3>2. CASE schritt' = "sort"
      BY <3>1, <3>2 DEF SortInv
    <3>3. CASE schritt' = "ordner" /\ ~ind
      <4>1. \A m \in 1 .. Len(batchname) - 1 : m \in 1 .. i - 1 /\ m < Len(batchname)
        BY <2>3 DEF TypeOK, ListeInv
      <4>2. \A m \in 1 .. Len(batchname) - 1 : Paar(m)
        BY <3>1, <3>3, <4>1 DEF SortInv
      <4> QED
        BY <3>1, <3>3, <4>2 DEF SortInv, Paar
    <3> QED
      BY <3>1, <3>2, <3>3
  <2> QED
    BY <2>1, <2>2, <2>3
<1>3. ASSUME UNCHANGED batchname, schritt \notin {"ruht", "sort"},
             schritt' \notin {"ruht", "sort"}
      PROVE  SortInv'
  BY <1>3 DEF SortInv, Paar, TypeOK
<1>4. CASE Schluss
  BY <1>4 DEF Schluss, SortInv
<1>5. CASE Ordnerwahl \/ Lies
  BY <1>3, <1>5 DEF Ordnerwahl, Lies, laufvars
<1>6. ASSUME NEW art \in Arten, Schreibe(art) PROVE SortInv'
  <2>1. schritt = "schreiben" /\ schritt' \in {"schreiben", "entfernen"}
        /\ UNCHANGED batchname
    BY <1>6, Zenon DEF Schreibe, laufvars
  <2> QED
    BY <2>1, <1>3
<1>7. CASE Entfernen \/ Ersetzen \/ Naechste
  BY <1>3, <1>7 DEF Entfernen, Ersetzen, Naechste, laufvars
<1>8. CASE UNCHANGED vars
  BY <1>8 DEF vars, SortInv, Paar
<1> QED
  BY <1>1, <1>2, <1>4, <1>5, <1>6, <1>7, <1>8 DEF Next, Arbeit

(* Of a list without repetitions no other place names the file at work.    *)
LEMMA Einmal ==
  ASSUME ListeInv, NEW k \in DOMAIN batchname, NEW l \in DOMAIN batchname, k # l
  PROVE  batchname[k] # batchname[l]
BY DEF ListeInv, IsInjective

LEMMA FertigSchritt ==
  TypeOK /\ ListeInv /\ FertigInv /\ [Next]_vars => FertigInv'
<1> SUFFICES ASSUME TypeOK, ListeInv, FertigInv, [Next]_vars PROVE FertigInv'
  OBVIOUS
<1> USE DEF Unterwegs
<1>1. CASE OnBatch \/ Vergleiche \/ Schluss
  BY <1>1 DEF OnBatch, Vergleiche, Schluss, FertigInv
<1>2. CASE Ordnerwahl
  BY <1>2 DEF Ordnerwahl, FertigInv, ListeInv
<1>3. CASE Lies
  BY <1>3 DEF Lies, laufvars, FertigInv, TypeOK, ListeInv
<1>4. ASSUME NEW art \in Arten, Schreibe(art) PROVE FertigInv'
  <2>1. j \in DOMAIN batchname
    BY <1>4, AmWerk DEF Schreibe
  <2>2. fertig' \subseteq fertig \cup {<<batchname[j], art>>}
        /\ offen' = offen \ {art} /\ UNCHANGED <<batchname, j>> /\ schritt = "schreiben"
    BY <1>4 DEF Schreibe, laufvars, m_dateiname
  <2>3. schritt' \in {"schreiben", "entfernen"}
    BY <1>4, Zenon DEF Schreibe
  <2>4. ASSUME NEW k \in DOMAIN batchname, NEW a \in Arten, <<batchname[k], a>> \in fertig'
        PROVE  k < j \/ (k = j /\ a \notin offen')
    <3>1. CASE <<batchname[k], a>> \in fertig
      BY <3>1, <2>2 DEF FertigInv
    <3>2. CASE <<batchname[k], a>> = <<batchname[j], art>>
      BY <3>2, <2>1, <2>2, Einmal
    <3> QED
      BY <2>2, <2>4, <3>1, <3>2
  <2> QED
    BY <2>2, <2>3, <2>4 DEF FertigInv
<1>5. CASE Entfernen \/ Ersetzen
  BY <1>5 DEF Entfernen, Ersetzen, laufvars, FertigInv
<1>6. CASE Naechste
  BY <1>6 DEF Naechste, laufvars, FertigInv, TypeOK, ListeInv
<1>7. CASE UNCHANGED vars
  BY <1>7 DEF vars, FertigInv
<1> QED
  BY <1>1, <1>2, <1>3, <1>4, <1>5, <1>6, <1>7 DEF Next, Arbeit

(* While a batch runs, the names of its results stay what they are.        *)
Fest == UNCHANGED <<batchname, bilderart, path, m_suffix, vorher>>

LEMMA SollFest ==
  ASSUME Fest, NEW f, NEW art
  PROVE  Soll(f, art)' = Soll(f, art) /\ Getrennt' = Getrennt
<1>1. ASSUME NEW g, NEW a PROVE Soll(g, a)' = Soll(g, a)
  BY DEF Fest, Soll, Ersetzt
<1>2. Getrennt' = Getrennt
  BY <1>1 DEF Fest, Getrennt
<1> QED
  BY <1>1, <1>2

(* A result stays when all its names are left alone.                       *)
LEMMA DaBleibt ==
  ASSUME Fest, NEW f, NEW art, Da(f, art),
         \A g \in Soll(f, art) \cap DOMAIN fs : g \in DOMAIN fs' /\ fs'[g] = fs[g]
  PROVE  Da(f, art)'
BY SollFest DEF Da, Fest

LEMMA FrischSchritt ==
  TypeOK /\ ListeInv /\ FertigInv /\ FrischInv /\ [Next]_vars => FrischInv'
<1> SUFFICES ASSUME TypeOK, ListeInv, FertigInv, FrischInv, [Next]_vars PROVE FrischInv'
  OBVIOUS
<1> USE DEF Unterwegs
<1>1. CASE OnBatch \/ Vergleiche \/ Schluss
  BY <1>1 DEF OnBatch, Vergleiche, Schluss, FrischInv
<1>2. CASE Ordnerwahl
  BY <1>2 DEF Ordnerwahl, FrischInv, ListeInv
<1>3. CASE Lies
  <2>1. Fest /\ UNCHANGED <<fs, fertig>> /\ schritt = "lesen"
    BY <1>3 DEF Lies, laufvars, Fest
  <2> SUFFICES ASSUME Getrennt PROVE FrischInv'
    BY <2>1, SollFest DEF FrischInv
  <2>2. ASSUME NEW f \in ToSet(batchname), NEW art \in bilderart, <<f, art>> \in fertig
        PROVE  Da(f, art)'
    <3>1. Da(f, art)
      BY <2>1, <2>2 DEF FrischInv
    <3> QED
      BY <2>1, <3>1, DaBleibt
  <2>3. \A k \in DOMAIN batchname :
          k >= j /\ batchname[k] \in DOMAIN fs => fs[batchname[k]] = vorher[batchname[k]]
    BY <2>1 DEF FrischInv
  <2>4. CASE m_dateiname \in DOMAIN fs /\ foto' = fs[m_dateiname]
             /\ schritt' = "schreiben" /\ UNCHANGED j /\ j <= Len(batchname)
    <3>1. j \in DOMAIN batchname
      BY <2>4 DEF TypeOK, ListeInv
    <3>2. foto' = vorher[batchname[j]]
      BY <2>3, <2>4, <3>1 DEF m_dateiname, TypeOK
    <3>3. \A k \in DOMAIN batchname : k >= j + 1 => k >= j
      BY DEF TypeOK, ListeInv
    <3> QED
      BY <2>1, <2>2, <2>3, <2>4, <3>2, <3>3 DEF FrischInv, Fest
  <2>5. CASE schritt' = "lesen" /\ j' = j + 1
    <3>1. \A k \in DOMAIN batchname : k >= j + 1 => k >= j
      BY DEF TypeOK, ListeInv
    <3> QED
      BY <2>1, <2>2, <2>3, <2>5, <3>1 DEF FrischInv, Fest
  <2> QED
    BY <1>3, <2>1, <2>4, <2>5 DEF Lies
<1>4. ASSUME NEW art \in Arten, Schreibe(art) PROVE FrischInv'
  <2> DEFINE f == batchname[j]
             z == Ziel(f, art)
  <2>1. /\ Fest /\ UNCHANGED <<j, foto>> /\ schritt = "schreiben" /\ art \in offen
        /\ schritt' = (IF art = "jpg" /\ m_suffix = <<>> THEN "entfernen" ELSE "schreiben")
        /\ \/ fs' = Dazu(z, Ergebnis(foto)) /\ fertig' = fertig \cup {<<f, art>>}
           \/ UNCHANGED <<fs, fertig>>
    BY <1>4 DEF Schreibe, laufvars, Fest, m_dateiname
  <2> SUFFICES ASSUME Getrennt PROVE FrischInv'
    BY <2>1, SollFest DEF FrischInv
  <2>2. j \in DOMAIN batchname /\ f \in Name /\ f \in ToSet(batchname) /\ art \in bilderart
    BY <2>1, AmWerk DEF m_dateiname, ListeInv
  <2>3. z \in Soll(f, art)
    BY <2>2, ZielRichtig DEF TypeOK
  <2>4. foto = vorher[f]
    BY <2>1 DEF FrischInv
  <2>5. ASSUME NEW g \in DOMAIN fs, g # z PROVE g \in DOMAIN fs' /\ fs'[g] = fs[g]
    BY <2>1, <2>5 DEF Dazu
  <2> HIDE DEF z, f
  <2>6. ASSUME NEW k \in DOMAIN batchname, k >= j + 1, batchname[k] \in DOMAIN fs'
        PROVE  fs'[batchname[k]] = vorher[batchname[k]]
    <3>1. batchname[k] # f /\ batchname[k] \in ToSet(batchname)
      BY <2>2, <2>6, Einmal DEF ToSet, f, TypeOK, ListeInv
    <3>2. batchname[k] # z
      BY <2>2, <2>3, <3>1 DEF Getrennt
    <3>3. batchname[k] \in DOMAIN fs
      BY <2>1, <2>6, <3>2 DEF Dazu
    <3> QED
      BY <2>1, <2>5, <2>6, <3>2, <3>3 DEF FrischInv
  <2>7. ASSUME NEW h \in ToSet(batchname), NEW a \in bilderart, <<h, a>> \in fertig'
        PROVE  Da(h, a)'
    <3>1. CASE <<h, a>> \in fertig
      <4>1. PICK k \in DOMAIN batchname : h = batchname[k]
        BY DEF ToSet
      <4>2. <<h, a>> # <<f, art>>
        <5>1. a \in Arten /\ (k = j => a \notin offen)
          BY <2>1, <3>1, <4>1, FormateAssumption DEF FertigInv, TypeOK, ListeInv
        <5>2. h = f => k = j
          BY <2>2, <4>1, Einmal DEF f
        <5> QED
          BY <2>1, <5>1, <5>2
      <4>3. z \notin Soll(h, a)
        BY <2>2, <2>3, <4>2 DEF Getrennt
      <4>4. Da(h, a)
        BY <2>1, <3>1 DEF FrischInv
      <4> QED
        BY <2>1, <2>5, <4>3, <4>4, DaBleibt
    <3>2. CASE <<h, a>> \notin fertig
      <4>1. h = f /\ a = art /\ z \in DOMAIN fs' /\ fs'[z] = Ergebnis(vorher[h])
        BY <2>1, <2>4, <2>7, <3>2 DEF Dazu
      <4>2. z \in Soll(h, a)'
        BY <2>1, <2>3, <4>1, SollFest
      <4> QED
        BY <2>1, <4>1, <4>2 DEF Da, Fest
    <3> QED
      BY <3>1, <3>2
  <2>8. ASSUME schritt' = "entfernen", <<f, "jpg">> \in fertig'
        PROVE  z \in DOMAIN fs' /\ fs'[z] = Ergebnis(vorher[f]) /\ z = Ziel(f, "jpg")
    <3>1. art = "jpg"
      BY <2>1, <2>8
    <3>2. <<f, "jpg">> \notin fertig
      BY <2>1, <2>2, <3>1 DEF FertigInv, f, TypeOK, ListeInv
    <3> QED
      BY <2>1, <2>4, <2>8, <3>1, <3>2 DEF Dazu, z
  <2>9. Ziel(f, "jpg")' = Ziel(f, "jpg") /\ f' = f
    BY <2>1 DEF Ziel, Fest, OhneEndung, Text, f
  <2>10. schritt' \in {"schreiben", "entfernen"}
    BY <2>1, Zenon
  <2> QED
    BY <2>1, <2>4, <2>6, <2>7, <2>8, <2>9, <2>10 DEF FrischInv, Fest, f
<1>5. CASE Entfernen
  <2> DEFINE f == batchname[j]
             z == Ziel(f, "jpg")
  <2>1. /\ Fest /\ UNCHANGED <<j, foto, fertig>> /\ schritt = "entfernen"
        /\ schritt' = "ersetzen" /\ fs' \in {fs, Ohne(f)}
    BY <1>5 DEF Entfernen, laufvars, Fest, m_dateiname
  <2> SUFFICES ASSUME Getrennt PROVE FrischInv'
    BY <2>1, SollFest DEF FrischInv
  <2>2. j \in DOMAIN batchname /\ f \in Name /\ f \in ToSet(batchname)
        /\ "jpg" \in bilderart /\ Ersetzt("jpg")
    BY <2>1, AmWerk DEF m_dateiname, ListeInv
  <2>3. z \in Soll(f, "jpg") /\ f \in Soll(f, "jpg") /\ z # f
    BY <2>2, ZielRichtig DEF TypeOK, Arten, Soll
  <2>4. foto = vorher[f]
    BY <2>1 DEF FrischInv
  <2>5. ASSUME NEW g \in DOMAIN fs, g # f PROVE g \in DOMAIN fs' /\ fs'[g] = fs[g]
    BY <2>1, <2>5 DEF Ohne
  <2>6. <<f, "jpg">> \in fertig => z \in DOMAIN fs /\ fs[z] = Ergebnis(vorher[f])
    BY <2>1 DEF FrischInv
  <2> HIDE DEF z, f
  <2>7. ASSUME NEW k \in DOMAIN batchname, k >= j + 1, batchname[k] \in DOMAIN fs'
        PROVE  fs'[batchname[k]] = vorher[batchname[k]]
    <3>1. batchname[k] # f
      BY <2>2, <2>7, Einmal DEF f, TypeOK, ListeInv
    <3>2. batchname[k] \in DOMAIN fs
      BY <2>1, <2>7 DEF Ohne
    <3> QED
      BY <2>1, <2>5, <2>7, <3>1, <3>2 DEF FrischInv
  <2>8. <<f, "jpg">> \in fertig => z \in DOMAIN fs' /\ fs'[z] = Ergebnis(vorher[f])
    BY <2>3, <2>5, <2>6
  <2>9. ASSUME NEW h \in ToSet(batchname), NEW a \in bilderart, <<h, a>> \in fertig
        PROVE  Da(h, a)'
    <3>1. CASE h = f /\ a = "jpg"
      <4>1. z \in Soll(h, a)'
        BY <2>1, <2>3, <3>1, SollFest
      <4> QED
        BY <2>1, <2>8, <2>9, <3>1, <4>1 DEF Da, Fest
    <3>2. CASE ~(h = f /\ a = "jpg")
      <4>1. f \notin Soll(h, a)
        BY <2>2, <2>3, <3>2 DEF Getrennt
      <4>2. Da(h, a)
        BY <2>1, <2>9 DEF FrischInv
      <4> QED
        BY <2>1, <2>5, <4>1, <4>2, DaBleibt
    <3> QED
      BY <3>1, <3>2
  <2>10. Ziel(f, "jpg")' = z /\ f' = f
    BY <2>1 DEF Ziel, Fest, OhneEndung, Text, f, z
  <2> QED
    BY <2>1, <2>4, <2>7, <2>8, <2>9, <2>10 DEF FrischInv, Fest, f
<1>6. CASE Ersetzen
  <2> DEFINE f == batchname[j]
             z == Ziel(f, "jpg")
  <2>1. /\ Fest /\ UNCHANGED <<j, foto, fertig>> /\ schritt = "ersetzen"
        /\ schritt' = "schreiben"
        /\ \/ /\ z \in DOMAIN fs
              /\ fs' = [g \in (DOMAIN fs \ {z}) \cup {f} |-> IF g = f THEN fs[z] ELSE fs[g]]
           \/ UNCHANGED fs
    BY <1>6 DEF Ersetzen, laufvars, Fest, m_dateiname
  <2> SUFFICES ASSUME Getrennt PROVE FrischInv'
    BY <2>1, SollFest DEF FrischInv
  <2>2. j \in DOMAIN batchname /\ f \in Name /\ f \in ToSet(batchname)
        /\ "jpg" \in bilderart /\ Ersetzt("jpg")
    BY <2>1, AmWerk DEF m_dateiname, ListeInv
  <2>3. z \in Soll(f, "jpg") /\ f \in Soll(f, "jpg") /\ z # f
    BY <2>2, ZielRichtig DEF TypeOK, Arten, Soll
  <2>4. foto = vorher[f]
    BY <2>1 DEF FrischInv
  <2>5. <<f, "jpg">> \in fertig => z \in DOMAIN fs /\ fs[z] = Ergebnis(vorher[f])
    BY <2>1 DEF FrischInv
  <2> HIDE DEF z, f
  <2>6. ASSUME NEW g \in DOMAIN fs, g # f, g # z PROVE g \in DOMAIN fs' /\ fs'[g] = fs[g]
    BY <2>1, <2>6
  <2>7. ASSUME NEW k \in DOMAIN batchname, k >= j + 1, batchname[k] \in DOMAIN fs'
        PROVE  fs'[batchname[k]] = vorher[batchname[k]]
    <3>1. batchname[k] # f /\ batchname[k] \in ToSet(batchname)
      BY <2>2, <2>7, Einmal DEF f, TypeOK, ListeInv, ToSet
    <3>2. batchname[k] # z
      BY <2>2, <2>3, <3>1 DEF Getrennt
    <3>3. batchname[k] \in DOMAIN fs
      BY <2>1, <2>7, <3>1
    <3> QED
      BY <2>1, <2>6, <2>7, <3>1, <3>2, <3>3 DEF FrischInv
  <2>8. ASSUME NEW h \in ToSet(batchname), NEW a \in bilderart, <<h, a>> \in fertig
        PROVE  Da(h, a)'
    <3>1. CASE h = f /\ a = "jpg"
      <4>1. \E g \in {f, z} : g \in DOMAIN fs' /\ fs'[g] = Ergebnis(vorher[f])
        BY <2>1, <2>5, <2>8, <3>1
      <4>2. f \in Soll(h, a)' /\ z \in Soll(h, a)'
        BY <2>1, <2>3, <3>1, SollFest
      <4> QED
        BY <2>1, <3>1, <4>1, <4>2 DEF Da, Fest
    <3>2. CASE ~(h = f /\ a = "jpg")
      <4>1. f \notin Soll(h, a) /\ z \notin Soll(h, a)
        BY <2>2, <2>3, <3>2 DEF Getrennt
      <4>2. Da(h, a)
        BY <2>1, <2>8 DEF FrischInv
      <4> QED
        BY <2>1, <2>6, <4>1, <4>2, DaBleibt
    <3> QED
      BY <3>1, <3>2
  <2>9. f' = f
    BY <2>1 DEF Fest, f
  <2> QED
    BY <2>1, <2>4, <2>7, <2>8, <2>9 DEF FrischInv, Fest, f
<1>7. CASE Naechste
  <2>1. /\ Fest /\ UNCHANGED <<fs, fertig>> /\ schritt = "schreiben"
        /\ schritt' = "lesen" /\ j' = j + 1
    BY <1>7 DEF Naechste, laufvars, Fest
  <2> SUFFICES ASSUME Getrennt PROVE FrischInv'
    BY <2>1, SollFest DEF FrischInv
  <2>2. ASSUME NEW f \in ToSet(batchname), NEW art \in bilderart, <<f, art>> \in fertig
        PROVE  Da(f, art)'
    <3>1. Da(f, art)
      BY <2>1, <2>2 DEF FrischInv
    <3> QED
      BY <2>1, <3>1, DaBleibt
  <2> QED
    BY <2>1, <2>2 DEF FrischInv, Fest
<1>8. CASE UNCHANGED vars
  <2>1. Fest /\ UNCHANGED <<fs, fertig, j, foto, schritt>>
    BY <1>8 DEF vars, Fest
  <2> SUFFICES ASSUME Getrennt PROVE FrischInv'
    BY <2>1, SollFest DEF FrischInv
  <2>2. ASSUME NEW f \in ToSet(batchname), NEW art \in bilderart, <<f, art>> \in fertig,
               schritt = "lesen" \/ Unterwegs
        PROVE  Da(f, art)'
    <3>1. Da(f, art)
      BY <2>1, <2>2 DEF FrischInv
    <3> QED
      BY <2>1, <3>1, DaBleibt
  <2>3. Ziel(batchname[j], "jpg")' = Ziel(batchname[j], "jpg")
    BY <2>1 DEF Ziel, Fest, OhneEndung, Text
  <2> QED
    BY <2>1, <2>2, <2>3 DEF FrischInv, Fest
<1> QED
  BY <1>1, <1>2, <1>3, <1>4, <1>5, <1>6, <1>7, <1>8 DEF Next, Arbeit

LEMMA NebenanSchritt ==
  TypeOK /\ ListeInv /\ NebenanInv /\ [Next]_vars => NebenanInv'
<1> SUFFICES ASSUME TypeOK, ListeInv, NebenanInv, [Next]_vars PROVE NebenanInv'
  OBVIOUS
<1> USE DEF Unterwegs
<1>1. CASE OnBatch \/ Vergleiche \/ Schluss
  BY <1>1 DEF OnBatch, Vergleiche, Schluss, NebenanInv
<1>2. CASE Ordnerwahl
  BY <1>2 DEF Ordnerwahl, NebenanInv, ListeInv
<1>3. ASSUME Fest, UNCHANGED fs, schritt = "lesen" \/ Unterwegs PROVE NebenanInv'
  <2>1. \A f, art : Soll(f, art)' = Soll(f, art)
    BY <1>3, SollFest
  <2> QED
    BY <1>3, <2>1 DEF NebenanInv, Fest
<1>4. CASE Lies \/ Naechste
  BY <1>3, <1>4 DEF Lies, Naechste, laufvars, Fest
<1>5. ASSUME NEW art \in Arten, Schreibe(art) PROVE NebenanInv'
  <2> DEFINE f == batchname[j]
             z == Ziel(f, art)
  <2>1. /\ Fest /\ schritt = "schreiben" /\ art \in offen
        /\ fs' = Dazu(z, Ergebnis(foto)) \/ UNCHANGED fs
    BY <1>5 DEF Schreibe, laufvars, Fest, m_dateiname
  <2>2. f \in Name /\ f \in ToSet(batchname) /\ art \in bilderart
    BY <2>1, AmWerk DEF m_dateiname, ListeInv
  <2>3. z \in Soll(f, art)
    BY <2>2, ZielRichtig DEF TypeOK
  <2> HIDE DEF z, f
  <2>4. CASE fs' = Dazu(z, Ergebnis(foto))
    <3> SUFFICES ASSUME m_suffix # <<>>, NEW g \in DOMAIN vorher
                 PROVE  \/ g \in DOMAIN fs' /\ fs'[g] = vorher[g]
                        \/ \E h \in ToSet(batchname), a \in bilderart : g \in Soll(h, a)'
      BY <2>1 DEF NebenanInv, Fest
    <3>1. \A h, a : Soll(h, a)' = Soll(h, a)
      BY <2>1, SollFest
    <3>2. CASE g = z
      BY <2>2, <2>3, <3>1, <3>2
    <3>3. CASE g # z
      <4>1. \/ g \in DOMAIN fs /\ fs[g] = vorher[g]
            \/ \E h \in ToSet(batchname), a \in bilderart : g \in Soll(h, a)
        BY <2>1 DEF NebenanInv
      <4>2. g \in DOMAIN fs => g \in DOMAIN fs' /\ fs'[g] = fs[g]
        BY <2>4, <3>3 DEF Dazu
      <4> QED
        BY <3>1, <4>1, <4>2
    <3> QED
      BY <3>2, <3>3
  <2> QED
    BY <1>3, <2>1, <2>4
<1>6. CASE Entfernen \/ Ersetzen
  <2>1. m_suffix = <<>> /\ UNCHANGED m_suffix
    BY <1>6 DEF Entfernen, Ersetzen, laufvars, ListeInv, Ersetzt
  <2> QED
    BY <2>1 DEF NebenanInv
<1>7. CASE UNCHANGED vars
  <2>1. Fest /\ UNCHANGED <<fs, schritt>>
    BY <1>7 DEF vars, Fest
  <2>2. CASE schritt = "lesen" \/ Unterwegs
    BY <1>3, <2>1, <2>2
  <2> QED
    BY <2>1, <2>2 DEF NebenanInv
<1> QED
  BY <1>1, <1>2, <1>4, <1>5, <1>6, <1>7 DEF Next, Arbeit

LEMMA Anfangs == Init => IInv
<1> SUFFICES ASSUME Init PROVE IInv
  OBVIOUS
<1>1. TypeOK
  <2>1. \A f \in DOMAIN fs : f \in Name /\ fs[f] \in [foto : Fotos, mal : Nat]
    BY FotosAssumption DEF Init
  <2>2. stapel \in 0 .. MaxStapel
    BY SchrankenAssumption DEF Init
  <2>3. ind \in BOOLEAN
    BY Zenon DEF Init
  <2> QED
    BY <2>1, <2>2, <2>3 DEF Init, TypeOK, Ordner
<1>2. ListeInv
  BY FotosAssumption DEF Init, ListeInv, IsInjective, Unterwegs
<1>3. SortInv /\ FertigInv /\ FrischInv /\ NebenanInv
  BY DEF Init, SortInv, FertigInv, FrischInv, NebenanInv, Unterwegs
<1> QED
  BY <1>1, <1>2, <1>3 DEF IInv

LEMMA Induktiv == IInv /\ [Next]_vars => IInv'
BY TypSchritt, ListeSchritt, SortSchritt, FertigSchritt, FrischSchritt, NebenanSchritt
   DEF IInv

LEMMA Erhalten == Spec => []IInv
BY Anfangs, Induktiv, PTL DEF Spec

(* Files keep proper names, and what they show is a photo there was at     *)
(* first, however often OnBatch corrects it.                               *)
THEOREM BatchTypen == Spec => []TypeOK
<1>1. IInv => TypeOK
  BY DEF IInv
<1> QED
  BY <1>1, Erhalten, PTL

(* The list that sort_batch leaves is in order, from any names: kleiner is *)
(* an order in spite of its last step, so comparing neighbours is enough.  *)
THEOREM ListeImmerGeordnet == Spec => []GeordneteListe
<1>1. IInv => GeordneteListe
  BY ListeGeordnet DEF IInv
<1> QED
  BY <1>1, Erhalten, PTL

(* In a batch over any files with names that are apart, every result that  *)
(* schreibe_bild wrote is the corrected photo of its own file, and with a  *)
(* suffix nothing else changes.                                            *)
THEOREM JederImmerFuerSich == Spec => []JederFuerSich
<1>1. ASSUME IInv PROVE JederFuerSich
  <2> SUFFICES ASSUME schritt = "lesen", Getrennt PROVE JederFuerSich
    BY DEF JederFuerSich
  <2>1. ASSUME NEW k \in 1 .. j - 1, NEW art \in bilderart,
               <<batchname[k], art>> \in fertig
        PROVE  \E g \in Soll(batchname[k], art) \cap DOMAIN fs :
                 fs[g] = Ergebnis(vorher[batchname[k]])
    <3>1. batchname[k] \in ToSet(batchname)
      <4>1. k \in DOMAIN batchname
        BY <1>1 DEF IInv, ListeInv, TypeOK
      <4> QED
        BY <4>1 DEF ToSet
    <3>2. Da(batchname[k], art)
      BY <1>1, <2>1, <3>1 DEF IInv, FrischInv
    <3> QED
      BY <3>2 DEF Da
  <2>2. m_suffix # <<>> =>
          \A g \in DOMAIN vorher :
            \/ g \in DOMAIN fs /\ fs[g] = vorher[g]
            \/ \E f \in ToSet(batchname), art \in bilderart : g \in Soll(f, art)
    BY <1>1 DEF IInv, NebenanInv
  <2> QED
    BY <2>1, <2>2 DEF JederFuerSich
<1> QED
  BY <1>1, Erhalten, PTL
=============================================================================
