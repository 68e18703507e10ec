-------------------------- MODULE RegionPass_proofs --------------------------
(***************************************************************************)
(* Proofs about RegionPass, for every set of images.                       *)
(* Typing first, then the layout of the shared array.  What ties the two   *)
(* passes together is the history marke of the first one: marke[p][r] is   *)
(* the room the first r regions of part p need, so the second pass stands  *)
(* at Anfang(p) + marke[p][r] when it has seen r of them.                  *)
(* On the layout rest the walks over struktur: the vote loop, sort_row and *)
(* plane_row stop at record headers only, and no record they meet is       *)
(* longer than the buffers sized by max_g.                                 *)
(* On the walks rests what is left in struktur: nothing but the headers of *)
(* kept regions; the lines plane_row counts are those a paint or the fit   *)
(* will find, and a paint never meets any other table.                     *)
(* Last, a walk is a recursive function; what it finds in a finished table *)
(* is what LineTable asks for.                                             *)
(***************************************************************************)
EXTENDS RegionPass, TLAPS, FiniteSetTheorems, WellFoundedInduction

-----------------------------------------------------------------------------
(* Typing. *)

LEMMA BildTyp ==
  ASSUME NEW b \in Bilder
  PROVE  /\ b.minsize \in Nat
         /\ \A p \in Teile : /\ Len(b.regionen[p]) \in Nat
                             /\ \A r \in 1 .. Len(b.regionen[p]) :
                                  /\ b.regionen[p][r].px \in Nat
                                  /\ b.regionen[p][r].nb \in Nat
<1>1. b \in Bild
  BY BilderAssumption
<1>2. b.minsize \in Nat /\ b.regionen \in [Teile -> Seq(Region)]
  BY <1>1 DEF Bild
<1>3. ASSUME NEW p \in Teile
      PROVE  /\ Len(b.regionen[p]) \in Nat
             /\ \A r \in 1 .. Len(b.regionen[p]) :
                  b.regionen[p][r].px \in Nat /\ b.regionen[p][r].nb \in Nat
  <2>1. b.regionen[p] \in Seq(Region)
    BY <1>2
  <2>2. \A r \in 1 .. Len(b.regionen[p]) : b.regionen[p][r] \in Region
    BY <2>1
  <2>3. QED
    BY <2>1, <2>2, SMTT(40) DEF Region
<1>4. QED
  BY <1>2, <1>3

LEMMA KopfTyp ==
  ASSUME TypStruktur, NEW a
  PROVE  /\ Kopf(a) \in KopfSatz
         /\ Laenge(a) \in Nat
         /\ a \in Nat => Weiter(a) \in Nat /\ Weiter(a) = a + 15 + Laenge(a)
<1>1. Leerkopf \in KopfSatz
  BY DEF Leerkopf, Teile, KopfSatz
<1>2. Kopf(a) \in KopfSatz
  BY <1>1 DEF Kopf, TypStruktur
<1>3. Laenge(a) \in Nat
  BY <1>2 DEF Laenge, KopfSatz
<1>4. QED
  BY <1>2, <1>3 DEF Weiter, Headersize

(* A step that leaves a group of variables alone keeps its type. *)
LEMMA Rahmen ==
  /\ TypThread /\ UNCHANGED thread => TypThread'
  /\ TypZaehler /\ UNCHANGED bild /\ UNCHANGED zaehler => TypZaehler'
  /\ TypStruktur /\ UNCHANGED struktur => TypStruktur'
  /\ TypAblage /\ UNCHANGED <<kp, mitte_offset, struktur_vorhanden>> => TypAblage'
  /\ TypKette /\ UNCHANGED kette => TypKette'
  /\ TypAnzeige /\ UNCHANGED anzeige => TypAnzeige'
<1>1. TypThread /\ UNCHANGED thread => TypThread'
  BY DEF TypThread, thread
<1>2. TypZaehler /\ UNCHANGED bild /\ UNCHANGED zaehler => TypZaehler'
  BY DEF TypZaehler, zaehler, Anzahl
<1>3. TypStruktur /\ UNCHANGED struktur => TypStruktur'
  BY DEF TypStruktur
<1>4. TypAblage /\ UNCHANGED <<kp, mitte_offset, struktur_vorhanden>> => TypAblage'
  BY DEF TypAblage
<1>5. TypKette /\ UNCHANGED kette => TypKette'
  BY DEF TypKette, kette
<1>6. TypAnzeige /\ UNCHANGED anzeige => TypAnzeige'
  BY DEF TypAnzeige, anzeige
<1>7. QED
  BY <1>1, <1>2, <1>3, <1>4, <1>5, <1>6

(* Changing or writing one header keeps the type of the array. *)
LEMMA MitTyp ==
  ASSUME TypStruktur, NEW a \in Nat, NEW kopf \in KopfSatz, struktur' = Mit(a, kopf)
  PROVE  TypStruktur'
BY DEF TypStruktur, Mit

LEMMA SchreibeTyp ==
  ASSUME TypStruktur, NEW a \in Nat, NEW kopf \in KopfSatz, NEW n,
         struktur' = Schreibe(a, kopf, n)
  PROVE  TypStruktur'
BY DEF TypStruktur, Schreibe

LEMMA UrteilTyp ==
  ASSUME NEW kopf \in KopfSatz, NEW u \in {1, 0, -1, -2}
  PROVE  [kopf EXCEPT !.art = u] \in KopfSatz
BY DEF KopfSatz

LEMMA RegionTyp ==
  ASSUME TypeOK, NEW p \in Teile
  PROVE  /\ Anzahl(p) \in Nat
         /\ bild.minsize \in Nat
         /\ \A r \in 1 .. Anzahl(p) : /\ bild.regionen[p][r].px \in Nat
                                      /\ bild.regionen[p][r].nb \in Nat
                                      /\ Groesse(bild.regionen[p][r]) \in Nat
<1>1. bild \in Bilder
  BY DEF TypeOK
<1>2. QED
  BY <1>1, BildTyp, SMTT(40) DEF Anzahl, Groesse

LEMMA InitTyp == Init => TypeOK
<1> SUFFICES ASSUME Init PROVE TypeOK
  OBVIOUS
<1>1. \A p \in Teile : Anzahl(p) \in Nat
  BY BildTyp DEF Init, Anzahl
<1>2. TypZaehler
  BY <1>1 DEF Init, TypZaehler, KeinMarke, Anzahl, NullTeile
<1>3. TypStruktur
  BY DEF Init, TypStruktur
<1>4. TypThread /\ TypAblage /\ TypKette /\ TypAnzeige
  BY DEF Init, TypThread, TypAblage, TypKette, TypAnzeige, NullTeile, Teile
<1>5. QED
  BY <1>2, <1>3, <1>4 DEF Init, TypeOK, Phasen

LEMMA WorkerTyp ==
  ASSUME TypeOK, NEW p \in Teile, Worker(p)
  PROVE  TypeOK'
<1> USE DEF TypeOK
<1>1. CASE CalcRow(p)
  <2>1. TypThread'
    BY <1>1 DEF CalcRow, Melde, TypThread
  <2>2. QED
    BY <1>1, <2>1, Rahmen DEF CalcRow, ablage
<1>2. CASE FillFertig(p)
  <2>1. TypThread'
    BY <1>2 DEF FillFertig, Melde, TypThread
  <2>2. QED
    BY <1>2, <2>1, Rahmen DEF FillFertig, ablage
<1>3. CASE KetteFertig(p)
  <2>1. TypThread'
    BY <1>3 DEF KetteFertig, Melde, TypThread
  <2>2. QED
    BY <1>3, <2>1, Rahmen DEF KetteFertig, ablage
<1>4. CASE FillRow1(p)
  <2> DEFINE r == bild.regionen[p][rpos[p]]
             max_gp == maxp[p] + Groesse(r)
  <2>1. rpos[p] \in 1 .. Anzahl(p) /\ Groesse(r) \in Nat
    BY <1>4, RegionTyp DEF FillRow1, TypThread
  <2>2. countp' \in [Teile -> Nat] /\ maxp' \in [Teile -> Nat]
    <3>1. max_gp \in Nat
      BY <2>1 DEF TypZaehler
    <3>2. \/ /\ countp' = [countp EXCEPT ![p] = @ + 1]
             /\ maxp' = [maxp EXCEPT ![p] = max_gp]
          \/ UNCHANGED <<countp, maxp>>
      BY <1>4 DEF FillRow1
    <3> HIDE DEF max_gp
    <3>3. QED
      BY <3>1, <3>2 DEF TypZaehler
  <2>3. TypZaehler'
    <3>1. countp'[p] * Headersize + maxp'[p] \in Nat
      BY <2>2 DEF Headersize
    <3>2. marke' = [marke EXCEPT ![p] = [marke[p] EXCEPT
                      ![rpos[p]] = countp'[p] * Headersize + maxp'[p]]]
      BY <1>4 DEF FillRow1
    <3>3. Anzahl(p)' = Anzahl(p) /\ \A q \in Teile : Anzahl(q)' = Anzahl(q)
      BY <1>4 DEF FillRow1, Anzahl
    <3>4. [marke[p] EXCEPT ![rpos[p]] = countp'[p] * Headersize + maxp'[p]]
            \in [0 .. Anzahl(p) -> Nat]
      BY <3>1 DEF TypZaehler
    <3>5. QED
      BY <2>2, <3>2, <3>3, <3>4 DEF TypZaehler
  <2>4. TypThread'
    BY <1>4 DEF FillRow1, TypThread
  <2>5. QED
    BY <1>4, <2>3, <2>4, Rahmen DEF FillRow1, ablage
<1>5. CASE FillRow2(p)
  <2> DEFINE r == bild.regionen[p][rpos[p]]
             max_gp == kp[p] + Headersize + Groesse(r)
             kopf == [art |-> 1, px |-> r.px, nb |-> r.nb,
                      teil |-> IF Behalten2(p, max_gp) THEN p ELSE Kopf(kp[p]).teil]
  <2>1. rpos[p] \in 1 .. Anzahl(p)
    BY <1>5, RegionTyp DEF FillRow2, TypThread
  <2>2. r.px \in Nat /\ r.nb \in Nat /\ Groesse(r) \in Nat /\ kp[p] \in Nat
    BY <2>1, RegionTyp DEF TypAblage
  <2>3. kopf \in KopfSatz
    <3>1. Kopf(kp[p]).teil \in Teile
      BY KopfTyp DEF KopfSatz
    <3>2. QED
      BY <2>2, <3>1 DEF KopfSatz
  <2>4. \/ struktur' = Schreibe(kp[p], kopf, Headersize + Groesse(r))
        \/ UNCHANGED struktur
    BY <1>5 DEF FillRow2
  <2>5. TypStruktur'
    <3> HIDE DEF kopf, r
    <3>1. QED
      BY <2>2, <2>3, <2>4, SchreibeTyp, Rahmen
  <2>6. max_gp \in Nat
    BY <2>2 DEF Headersize
  <2>7. /\ kp' = [kp EXCEPT ![p] = max_gp] \/ kp' = kp
        /\ countp' = [countp EXCEPT ![p] = @ + 1] \/ countp' = countp
    BY <1>5 DEF FillRow2
  <2>8. TypAblage' /\ TypZaehler'
    <3> HIDE DEF max_gp
    <3>1. TypAblage'
      BY <1>5, <2>6, <2>7 DEF FillRow2, TypAblage
    <3>2. countp' \in [Teile -> Nat]
      BY <2>7 DEF TypZaehler
    <3>3. QED
      BY <1>5, <3>1, <3>2 DEF FillRow2, TypZaehler, Anzahl
  <2>9. TypThread'
    BY <1>5 DEF FillRow2, TypThread
  <2>10. QED
    BY <1>5, <2>5, <2>8, <2>9, Rahmen DEF FillRow2
<1>6. CASE SortRow(p)
  <2>1. kw[p] \in Nat /\ Weiter(kw[p]) \in Nat
    BY KopfTyp DEF TypKette
  <2>2. TypStruktur'
    <3>1. CASE UNCHANGED struktur
      BY <3>1, Rahmen
    <3>2. CASE struktur' = Mit(kw[p], [Kopf(kw[p]) EXCEPT !.art = 0])
      BY <2>1, <3>2, KopfTyp, UrteilTyp, MitTyp
    <3>3. QED
      BY <1>6, <3>1, <3>2 DEF SortRow
  <2>3. TypKette'
    BY <1>6, <2>1 DEF SortRow, TypKette
  <2>4. QED
    BY <1>6, <2>2, <2>3, Rahmen DEF SortRow
<1>7. CASE PlaneRow(p)
  <2>1. kw[p] \in Nat /\ Weiter(kw[p]) \in Nat
    BY KopfTyp DEF TypKette
  <2>2. TypStruktur'
    <3>1. CASE UNCHANGED struktur
      BY <3>1, Rahmen
    <3>2. ASSUME NEW u \in {1, 0, -1, -2},
                 struktur' = Mit(kw[p], [Kopf(kw[p]) EXCEPT !.art = u])
          PROVE  TypStruktur'
      BY <2>1, <3>2, KopfTyp, UrteilTyp, MitTyp
    <3>3. QED
      BY <1>7, <3>1, <3>2 DEF PlaneRow
  <2>3. TypKette'
    BY <1>7, <2>1 DEF PlaneRow, TypKette
  <2>4. QED
    BY <1>7, <2>2, <2>3, Rahmen DEF PlaneRow
<1>8. QED
  BY <1>1, <1>2, <1>3, <1>4, <1>5, <1>6, <1>7 DEF Worker

LEMMA HauptTyp ==
  ASSUME TypeOK, Haupt \/ OnGo
  PROVE  TypeOK'
<1> USE DEF TypeOK
<1>1. CASE OnGo
  <2>1. bild' \in Bilder
    BY <1>1 DEF OnGo
  <2>2. TypZaehler'
    <3>1. \A p \in Teile : Len(bild'.regionen[p]) \in Nat
      BY <2>1, BildTyp
    <3>2. QED
      BY <1>1, <3>1 DEF OnGo, TypZaehler, KeinMarke, Anzahl
  <2>3. TypStruktur'
    BY <1>1 DEF OnGo, TypStruktur
  <2>4. TypThread' /\ TypAblage' /\ TypAnzeige'
    BY <1>1 DEF OnGo, TypThread, TypAblage, TypAnzeige
  <2>5. QED
    BY <1>1, <2>1, <2>2, <2>3, <2>4, Rahmen DEF OnGo, Phasen
<1>2. CASE Starte
  <2>1. gestartet \in Teile /\ Anfang(gestartet) \in Nat
    BY <1>2 DEF Starte, Anfang, TypThread, TypAblage, Teile
  <2>2. TypThread'
    BY <1>2, <2>1 DEF Starte, TypThread, Teile
  <2>3. TypKette'
    BY <1>2, <2>1 DEF Starte, TypKette
  <2>4. QED
    BY <1>2, <2>2, <2>3, Rahmen DEF Starte, ablage
<1>3. CASE NachCalc
  BY <1>3, Rahmen DEF NachCalc, NullZaehler, NullTeile, TypZaehler, TypThread,
     Phasen, ablage, Anzahl
<1>4. CASE NachFill1
  <2>1. struktur_vorhanden' \in Nat
    BY <1>4 DEF NachFill1, TypZaehler, Headersize, Teile
  <2>2. TypAblage'
    BY <1>4, <2>1 DEF NachFill1, TypAblage
  <2>3. phase' \in Phasen
    BY <1>4 DEF NachFill1, Phasen
  <2>4. QED
    BY <1>4, <2>2, <2>3, Rahmen DEF NachFill1
<1>5. CASE Layout
  <2>1. mitte_offset' \in Nat
    BY <1>5 DEF Layout, TypZaehler, Headersize, Teile
  <2>2. TypAblage'
    BY <1>5, <2>1 DEF Layout, TypAblage, Teile
  <2>3. TypZaehler'
    BY <1>5 DEF Layout, TypZaehler, NullTeile, Anzahl
  <2>4. TypThread'
    BY <1>5 DEF Layout, TypThread
  <2>5. QED
    BY <1>5, <2>2, <2>3, <2>4, Rahmen DEF Layout, Phasen
<1>6. CASE CallocFehlt
  BY <1>6, Rahmen DEF CallocFehlt, TypAblage, Phasen
<1>7. CASE NachFill2
  BY <1>7, Rahmen DEF NachFill2, TypKette, Phasen, ablage
<1>8. CASE Vote
  <2>1. k \in Nat /\ Weiter(k) \in Nat /\ Laenge(k) \in Nat
    BY KopfTyp DEF TypKette
  <2>2. TypStruktur'
    <3>1. CASE UNCHANGED struktur
      BY <3>1, Rahmen
    <3>2. CASE struktur' = Mit(k, [Kopf(k) EXCEPT !.art = 0])
      BY <2>1, <3>2, KopfTyp, UrteilTyp, MitTyp
    <3>3. QED
      BY <1>8, <3>1, <3>2 DEF Vote
  <2>3. TypKette'
    BY <1>8, <2>1 DEF Vote, TypKette
  <2>4. QED
    BY <1>8, <2>2, <2>3, Rahmen DEF Vote
<1>9. CASE NachVote
  BY <1>9, Rahmen DEF NachVote, TypThread, Phasen, ablage
<1>10. CASE NachSort
  BY <1>10, Rahmen DEF NachSort, TypThread, Phasen, ablage
<1>11. CASE NachPlane
  BY <1>11, Rahmen DEF NachPlane, TypAnzeige, Phasen, ablage
<1>12. CASE Urteil
  <2>1. TypStruktur' /\ TypAblage' /\ TypAnzeige'
    BY <1>12 DEF Urteil, TypStruktur, TypAblage, TypAnzeige
  <2>2. QED
    BY <1>12, <2>1, Rahmen DEF Urteil, Phasen
<1>13. CASE GoEnde
  BY <1>13, Rahmen DEF GoEnde, Zeigbar, TypAnzeige, Phasen, ablage
<1>14. QED
  BY <1>1, <1>2, <1>3, <1>4, <1>5, <1>6, <1>7, <1>8, <1>9, <1>10, <1>11,
     <1>12, <1>13 DEF Haupt

(* Type correctness of OnGo's state, with the range of every header field. *)
THEOREM Typing == Spec => []TypeOK
<1>1. TypeOK /\ [Next]_vars => TypeOK'
  <2> SUFFICES ASSUME TypeOK, [Next]_vars PROVE TypeOK'
    OBVIOUS
  <2>1. CASE UNCHANGED vars
    BY <2>1, Rahmen DEF vars, ablage, TypeOK
  <2>2. QED
    BY <2>1, WorkerTyp, HauptTyp DEF Next
<1>2. QED
  BY <1>1, InitTyp, PTL DEF Spec

-----------------------------------------------------------------------------
(* The layout of the array.                                                *)

R(p, s) == bild.regionen[p][s]
GrossGenug(p, s) == Groesse(R(p, s)) >= bild.minsize
Platz(p) == marke[p][Anzahl(p)]

(* What the first pass knows after t regions: every region adds its record *)
(* or nothing, and whoever has not reached the end has a record to come.   *)
Schritt(p, t) ==
  /\ marke[p][0] = 0
  /\ \A s \in 1 .. t : marke[p][s] = marke[p][s - 1]
       + (IF GrossGenug(p, s) THEN Headersize + Groesse(R(p, s)) ELSE 0)

Monoton(p, t) == \A r, s \in 0 .. t : r <= s => marke[p][r] <= marke[p][s]

Nachfolger(p, t) ==
  \A r \in 0 .. t :
    \/ marke[p][r] = marke[p][t]
    \/ \E s \in r + 1 .. t : GrossGenug(p, s) /\ marke[p][s - 1] = marke[p][r]

Gemessen(p, t) == Schritt(p, t) /\ Monoton(p, t) /\ Nachfolger(p, t)

(* A started worker has signalled its event exactly when it has ended.     *)
ThreadInv ==
  \A p \in Teile :
    /\ phase \in Parallel /\ p < gestartet => (hCompleted[p] <=> ~laeuft[p])
    /\ ~(phase \in Parallel /\ p < gestartet) => ~laeuft[p]

MessInv ==
  /\ phase = "calc" => \A p \in Teile : marke[p][0] = 0
  /\ phase = "fill1" =>
       \A p \in Teile :
         IF p < gestartet
         THEN /\ rpos[p] <= Anzahl(p) + 1
              /\ Gemessen(p, rpos[p] - 1)
              /\ countp[p] * Headersize + maxp[p] = marke[p][rpos[p] - 1]
              /\ ~laeuft[p] => rpos[p] = Anzahl(p) + 1
         ELSE countp[p] = 0 /\ maxp[p] = 0 /\ marke[p][0] = 0
  /\ phase = "layout" =>
       /\ \A p \in Teile :
            /\ Gemessen(p, Anzahl(p))
            /\ countp[p] * Headersize + maxp[p] = Platz(p)
       /\ struktur_vorhanden = Platz(0) + Platz(1)

NachLayout == {"fill2", "vote", "sort", "plane", "urteil"}

FuellInv ==
  /\ phase \in NachLayout =>
       /\ \A p \in Teile : Gemessen(p, Anzahl(p))
       /\ mitte_offset = Platz(0)
       /\ struktur_vorhanden = Platz(0) + Platz(1)
  /\ phase = "fill2" =>
       \A p \in Teile :
         IF p < gestartet
         THEN /\ rpos[p] <= Anzahl(p) + 1
              /\ kp[p] = Anfang(p) + marke[p][rpos[p] - 1]
              /\ ~laeuft[p] => rpos[p] = Anzahl(p) + 1
         ELSE kp[p] = Anfang(p)
  /\ phase \in NachLayout \ {"fill2"} => \A p \in Teile : kp[p] = Ende(p)

LayoutInv == ThreadInv /\ MessInv /\ FuellInv

-----------------------------------------------------------------------------
(* The first pass. *)

LEMMA GemessenRahmen ==
  ASSUME NEW p \in Teile, NEW t, Gemessen(p, t), UNCHANGED <<bild, marke>>
  PROVE  Gemessen(p, t)' /\ Anzahl(p)' = Anzahl(p) /\ Platz(p)' = Platz(p)
BY DEF Gemessen, Schritt, Monoton, Nachfolger, GrossGenug, R, Groesse, Anzahl, Platz

LEMMA GemessenNull ==
  ASSUME NEW p \in Teile, marke[p][0] = 0
  PROVE  Gemessen(p, 0)
<1>1. Schritt(p, 0)
  BY DEF Schritt
<1>2. Monoton(p, 0) /\ Nachfolger(p, 0)
  BY DEF Monoton, Nachfolger
<1>3. QED
  BY <1>1, <1>2 DEF Gemessen

(* One more region counted: all three parts of Gemessen move on by one.    *)
LEMMA GemessenWeiter ==
  ASSUME TypeOK, NEW p \in Teile, NEW t \in 0 .. Anzahl(p) - 1, Gemessen(p, t),
         NEW n \in Nat,
         n = (IF GrossGenug(p, t + 1) THEN Headersize + Groesse(R(p, t + 1)) ELSE 0),
         marke'[p] = [marke[p] EXCEPT ![t + 1] = marke[p][t] + n],
         UNCHANGED bild
  PROVE  Gemessen(p, t + 1)'
<1>0. /\ Anzahl(p) \in Nat /\ Anzahl(p)' = Anzahl(p)
      /\ marke[p] \in [0 .. Anzahl(p) -> Nat]
      /\ \A s \in 0 .. Anzahl(p) : marke[p][s] \in Nat
      /\ \A s : GrossGenug(p, s)' = GrossGenug(p, s) /\ R(p, s)' = R(p, s)
      /\ \A s \in 1 .. Anzahl(p) : Groesse(R(p, s)) \in Nat
  BY RegionTyp DEF Anzahl, TypeOK, TypZaehler, GrossGenug, R, Groesse
<1>1. /\ \A s \in 0 .. t : marke'[p][s] = marke[p][s]
      /\ marke'[p][t + 1] = marke[p][t] + n
  BY <1>0
<1>2. Schritt(p, t + 1)'
  <2>1. marke'[p][0] = 0
    BY <1>1 DEF Gemessen, Schritt
  <2>2. ASSUME NEW s \in 1 .. t + 1
        PROVE  marke'[p][s] = marke'[p][s - 1]
                 + (IF GrossGenug(p, s) THEN Headersize + Groesse(R(p, s)) ELSE 0)
    <3>1. CASE s = t + 1
      BY <1>1, <3>1
    <3>2. CASE s \in 1 .. t
      BY <1>1, <3>2 DEF Gemessen, Schritt
    <3>3. QED
      BY <3>1, <3>2
  <2>3. QED
    BY <2>1, <2>2, <1>0 DEF Schritt, Groesse
<1>3. Monoton(p, t + 1)'
  <2> SUFFICES ASSUME NEW r \in 0 .. t + 1, NEW s \in 0 .. t + 1, r <= s
               PROVE  marke'[p][r] <= marke'[p][s]
    BY DEF Monoton
  <2>1. CASE s \in 0 .. t
    BY <1>1, <2>1 DEF Gemessen, Monoton
  <2>2. CASE s = t + 1 /\ r \in 0 .. t
    <3>1. marke[p][r] <= marke[p][t]
      BY <2>2 DEF Gemessen, Monoton
    <3>2. marke[p][r] \in Nat /\ marke[p][t] \in Nat
      <4>1. r \in 0 .. Anzahl(p) /\ t \in 0 .. Anzahl(p)
        BY <1>0, <2>2
      <4>2. QED
        BY <4>1, <1>0
    <3>3. QED
      BY <1>1, <2>2, <3>1, <3>2
  <2>3. CASE r = t + 1
    <3>1. r = s
      BY <2>3
    <3>2. marke'[p][s] \in Int
      BY <1>0, <1>1, <2>3, <3>1
    <3>3. QED
      BY <3>1, <3>2
  <2>4. QED
    BY <2>1, <2>2, <2>3
<1>4. Nachfolger(p, t + 1)'
  <2> SUFFICES ASSUME NEW r \in 0 .. t + 1, marke'[p][r] # marke'[p][t + 1]
               PROVE  \E s \in r + 1 .. t + 1 :
                        GrossGenug(p, s) /\ marke'[p][s - 1] = marke'[p][r]
    BY <1>0 DEF Nachfolger
  <2>1. r \in 0 .. t
    OBVIOUS
  <2>2. CASE marke[p][r] = marke[p][t]
    <3>1. n # 0
      BY <1>0, <1>1, <2>1, <2>2
    <3>2. GrossGenug(p, t + 1)
      BY <3>1
    <3>3. QED
      BY <1>1, <2>1, <2>2, <3>2
  <2>3. CASE marke[p][r] # marke[p][t]
    <3>1. PICK s \in r + 1 .. t : GrossGenug(p, s) /\ marke[p][s - 1] = marke[p][r]
      BY <2>1, <2>3 DEF Gemessen, Nachfolger
    <3>2. s \in r + 1 .. t + 1 /\ s - 1 \in 0 .. t
      BY <2>1
    <3>3. QED
      BY <1>1, <2>1, <3>1, <3>2
  <2>4. QED
    BY <2>2, <2>3
<1>5. QED
  BY <1>2, <1>3, <1>4 DEF Gemessen

(* What a worker needs to know before it writes: a part that has not       *)
(* reached the end of its room still has a whole record's room to go, so   *)
(* even the trial write of a region that is too small fits.                *)
LEMMA PlatzReicht ==
  ASSUME TypeOK, NEW p \in Teile, Gemessen(p, Anzahl(p)), NEW s \in 1 .. Anzahl(p),
         marke[p][s - 1] < Platz(p)
  PROVE  marke[p][s - 1] + Headersize + Groesse(R(p, s)) <= Platz(p)
<1>0. /\ Anzahl(p) \in Nat /\ bild.minsize \in Nat
      /\ \A q \in 1 .. Anzahl(p) : Groesse(R(p, q)) \in Nat
      /\ \A q \in 0 .. Anzahl(p) : marke[p][q] \in Nat
  BY RegionTyp DEF R, TypeOK, TypZaehler
<1>1. CASE GrossGenug(p, s)
  <2>1. marke[p][s] = marke[p][s - 1] + Headersize + Groesse(R(p, s))
    BY <1>0, <1>1 DEF Gemessen, Schritt, Headersize
  <2>2. marke[p][s] <= marke[p][Anzahl(p)]
    BY <1>0 DEF Gemessen, Monoton
  <2>3. QED
    BY <2>1, <2>2 DEF Platz
<1>2. CASE ~GrossGenug(p, s)
  <2>1. s - 1 \in 0 .. Anzahl(p)
    BY <1>0
  <2>2. PICK q \in (s - 1) + 1 .. Anzahl(p) :
          GrossGenug(p, q) /\ marke[p][q - 1] = marke[p][s - 1]
    BY <1>0, <2>1 DEF Gemessen, Nachfolger, Platz
  <2>3. q \in 1 .. Anzahl(p)
    BY <1>0
  <2>4. marke[p][q] = marke[p][q - 1] + Headersize + Groesse(R(p, q))
    <3>1. /\ q - 1 \in 0 .. Anzahl(p) /\ marke[p][q - 1] \in Nat
          /\ Groesse(R(p, q)) \in Nat
      BY <1>0, <2>3
    <3>2. marke[p][q] = marke[p][q - 1] + (Headersize + Groesse(R(p, q)))
      BY <2>2, <2>3 DEF Gemessen, Schritt
    <3>3. QED
      BY <3>1, <3>2 DEF Headersize
  <2>5. marke[p][q] <= marke[p][Anzahl(p)]
    BY <1>0, <2>3 DEF Gemessen, Monoton
  <2>6. Groesse(R(p, s)) <= Groesse(R(p, q))
    BY <1>0, <1>2, <2>2, <2>3 DEF GrossGenug
  <2>7. QED
    BY <1>0, <2>1, <2>2, <2>3, <2>4, <2>5, <2>6 DEF Platz, Headersize
<1>3. QED
  BY <1>1, <1>2

-----------------------------------------------------------------------------
(* The invariant of the array's layout, action by action.                  *)

LEMMA LayoutInit == Init => LayoutInv
BY DEF Init, LayoutInv, ThreadInv, MessInv, FuellInv, NachLayout, Parallel, Teile

(* Steps that leave the image and the history alone keep the measure.      *)
LEMMA MessRahmen ==
  ASSUME UNCHANGED <<bild, marke>>
  PROVE  /\ \A p \in Teile : \A t : Gemessen(p, t) => Gemessen(p, t)'
         /\ \A p \in Teile : Anzahl(p)' = Anzahl(p) /\ Platz(p)' = Platz(p)
<1>1. ASSUME NEW p \in Teile, NEW t, Gemessen(p, t)
      PROVE  Gemessen(p, t)'
  BY <1>1, GemessenRahmen
<1>2. QED
  BY <1>1 DEF Anzahl, Platz

(* A flood worker that counts the next region. *)
LEMMA FillRow1Layout ==
  ASSUME TypeOK, LayoutInv, NEW p \in Teile, FillRow1(p)
  PROVE  LayoutInv'
<1>0. PICK s : s = rpos[p]
  OBVIOUS
<1>a. PICK g : g = Groesse(R(p, s))
  OBVIOUS
<1>b. PICK n : n = IF GrossGenug(p, s) THEN Headersize + g ELSE 0
  OBVIOUS
<1> DEFINE max_gp == maxp[p] + g
<1>1. /\ phase = "fill1" /\ phase' = "fill1" /\ laeuft[p]
      /\ bild' = bild /\ gestartet' = gestartet /\ laeuft' = laeuft
      /\ hCompleted' = hCompleted
      /\ rpos' = [rpos EXCEPT ![p] = @ + 1]
  BY DEF FillRow1
<1>2. p < gestartet /\ ThreadInv'
  BY <1>1 DEF LayoutInv, ThreadInv
<1>3. /\ s \in 1 .. Anzahl(p) /\ g \in Nat /\ bild.minsize \in Nat
      /\ Anzahl(p) \in Nat /\ maxp[p] \in Nat /\ countp[p] \in Nat
      /\ marke[p][s - 1] \in Nat
  <2>1. Anzahl(p) \in Nat /\ rpos[p] \in Nat \ {0} /\ rpos[p] <= Anzahl(p)
    BY RegionTyp DEF FillRow1, TypeOK, TypThread
  <2>2. s \in 1 .. Anzahl(p) /\ s - 1 \in 0 .. Anzahl(p)
    BY <1>0, <2>1
  <2>3. g \in Nat
    BY <1>a, <2>2, RegionTyp DEF R
  <2>4. QED
    BY <2>1, <2>2, <2>3, RegionTyp DEF TypeOK, TypZaehler
<1>4. /\ Gemessen(p, s - 1)
      /\ countp[p] * Headersize + maxp[p] = marke[p][s - 1]
  BY <1>0, <1>1, <1>2 DEF LayoutInv, MessInv
<1>5. Behalten1(p, max_gp) <=> GrossGenug(p, s)
  BY <1>a, <1>3 DEF Behalten1, GrossGenug
<1>6. /\ \A q \in Teile \ {p} : countp'[q] = countp[q] /\ maxp'[q] = maxp[q]
      /\ countp'[p] * Headersize + maxp'[p] = marke[p][s - 1] + n
      /\ n \in Nat
  <2>1. CASE GrossGenug(p, s)
    <3>1. /\ countp' = [countp EXCEPT ![p] = @ + 1]
          /\ maxp' = [maxp EXCEPT ![p] = max_gp]
      BY <1>0, <1>a, <1>5, <2>1 DEF FillRow1, R
    <3>2. countp'[p] = countp[p] + 1 /\ maxp'[p] = maxp[p] + g
      BY <3>1 DEF TypeOK, TypZaehler
    <3>3. n = Headersize + g
      BY <1>b, <2>1
    <3>4. \A q \in Teile \ {p} : countp'[q] = countp[q] /\ maxp'[q] = maxp[q]
      BY <3>1 DEF TypeOK, TypZaehler
    <3>5. QED
      BY <3>2, <3>3, <3>4, <1>3, <1>4 DEF Headersize
  <2>2. CASE ~GrossGenug(p, s)
    <3>1. countp' = countp /\ maxp' = maxp
      BY <1>0, <1>a, <1>5, <2>2 DEF FillRow1, R
    <3>2. QED
      BY <1>b, <2>2, <3>1, <1>3, <1>4
  <2>3. QED
    BY <2>1, <2>2
<1>7. /\ marke' = [marke EXCEPT ![p] = [marke[p] EXCEPT
                     ![s] = countp'[p] * Headersize + maxp'[p]]]
      /\ marke'[p] = [marke[p] EXCEPT ![s] = marke[p][s - 1] + n]
      /\ \A q \in Teile \ {p} : marke'[q] = marke[q]
  <2>1. marke' = [marke EXCEPT ![p] = [marke[p] EXCEPT
                     ![s] = countp'[p] * Headersize + maxp'[p]]]
    BY <1>0 DEF FillRow1
  <2>2. QED
    BY <2>1, <1>6 DEF TypeOK, TypZaehler
<1>8. Gemessen(p, s)'
  <2>1. s - 1 \in 0 .. Anzahl(p) - 1 /\ (s - 1) + 1 = s
    BY <1>3
  <2>2. n = IF GrossGenug(p, (s - 1) + 1)
            THEN Headersize + Groesse(R(p, (s - 1) + 1)) ELSE 0
    BY <1>a, <1>b, <2>1
  <2>3. marke'[p] = [marke[p] EXCEPT ![(s - 1) + 1] = marke[p][s - 1] + n]
    BY <2>1, <1>7
  <2>4. Gemessen(p, (s - 1) + 1)'
    BY <1>1, <1>4, <1>6, <2>1, <2>2, <2>3, GemessenWeiter
  <2>5. QED
    BY <2>1, <2>4
<1>9. /\ rpos'[p] = s + 1
      /\ \A q \in Teile \ {p} : rpos'[q] = rpos[q]
  BY <1>0, <1>1 DEF TypeOK, TypThread
<1>10. \A q \in Teile : Anzahl(q)' = Anzahl(q)
  BY <1>1 DEF Anzahl
<1>11. MessInv'
  <2> SUFFICES ASSUME NEW q \in Teile
               PROVE  IF q < gestartet
                      THEN /\ rpos'[q] <= Anzahl(q) + 1
                           /\ Gemessen(q, rpos[q] - 1)'
                           /\ countp'[q] * Headersize + maxp'[q]
                                = marke'[q][rpos'[q] - 1]
                           /\ ~laeuft'[q] => rpos'[q] = Anzahl(q) + 1
                      ELSE countp'[q] = 0 /\ maxp'[q] = 0 /\ marke'[q][0] = 0
    BY <1>1, <1>10 DEF MessInv
  <2>1. CASE q = p
    <3>1. rpos'[p] - 1 = s
      BY <1>3, <1>9
    <3>2. Gemessen(p, rpos[p] - 1)'
      BY <3>1, <1>8
    <3>3. marke'[p][s] = countp'[p] * Headersize + maxp'[p]
      BY <1>3, <1>7, <1>6 DEF TypeOK, TypZaehler
    <3>4. Gemessen(q, rpos[q] - 1)'
      BY <2>1, <3>2
    <3>5. laeuft'[p]
      BY <1>1
    <3>6. rpos'[p] <= Anzahl(p) + 1
      BY <1>3, <1>9
    <3>7. QED
      BY <2>1, <3>1, <3>3, <3>4, <3>5, <3>6, <1>2
  <2>2. CASE q # p
    <3>1. ASSUME NEW t, Gemessen(q, t) PROVE Gemessen(q, t)'
      <4>1. /\ marke'[q] = marke[q]
            /\ \A u : GrossGenug(q, u)' = GrossGenug(q, u) /\ R(q, u)' = R(q, u)
        BY <2>2, <1>1, <1>7 DEF GrossGenug, R, Groesse
      <4>2. QED
        BY <3>1, <4>1 DEF Gemessen, Schritt, Monoton, Nachfolger, Groesse
    <3>2. rpos'[q] = rpos[q] /\ marke'[q] = marke[q]
          /\ countp'[q] = countp[q] /\ maxp'[q] = maxp[q]
      BY <2>2, <1>6, <1>7, <1>9
    <3>3. QED
      BY <3>1, <3>2, <1>1 DEF LayoutInv, MessInv
  <2>3. QED
    BY <2>1, <2>2
<1>12. FuellInv'
  BY <1>1 DEF FuellInv, NachLayout
<1>13. QED
  BY <1>2, <1>11, <1>12 DEF LayoutInv

(* A flood worker that writes, or skips, the next region: both moves of kp *)
(* keep it where the first pass says.                                      *)
LEMMA FillRow2Layout ==
  ASSUME TypeOK, LayoutInv, NEW p \in Teile, FillRow2(p)
  PROVE  LayoutInv'
<1>0. PICK s : s = rpos[p]
  OBVIOUS
<1>a. PICK g : g = Groesse(R(p, s))
  OBVIOUS
<1>1. /\ phase = "fill2" /\ phase' = "fill2" /\ laeuft[p]
      /\ bild' = bild /\ gestartet' = gestartet /\ laeuft' = laeuft
      /\ hCompleted' = hCompleted /\ marke' = marke
      /\ mitte_offset' = mitte_offset /\ struktur_vorhanden' = struktur_vorhanden
      /\ rpos' = [rpos EXCEPT ![p] = @ + 1]
  BY DEF FillRow2
<1>2. p < gestartet /\ ThreadInv' /\ MessInv'
  BY <1>1 DEF LayoutInv, ThreadInv, MessInv
<1>3. /\ s \in 1 .. Anzahl(p) /\ g \in Nat /\ bild.minsize \in Nat
      /\ Anzahl(p) \in Nat /\ kp[p] \in Nat
      /\ s - 1 \in 0 .. Anzahl(p)
      /\ \A t \in 0 .. Anzahl(p) : marke[p][t] \in Nat
  <2>1. Anzahl(p) \in Nat /\ rpos[p] \in Nat \ {0} /\ rpos[p] <= Anzahl(p)
    BY RegionTyp DEF FillRow2, TypeOK, TypThread
  <2>2. s \in 1 .. Anzahl(p) /\ s - 1 \in 0 .. Anzahl(p)
    BY <1>0, <2>1
  <2>3. g \in Nat
    BY <1>a, <2>2, RegionTyp DEF R
  <2>4. QED
    BY <2>1, <2>2, <2>3, RegionTyp DEF TypeOK, TypZaehler, TypAblage
<1>4. /\ Gemessen(p, Anzahl(p))
      /\ kp[p] = Anfang(p) + marke[p][s - 1]
      /\ mitte_offset = Platz(0)
      /\ struktur_vorhanden = Platz(0) + Platz(1)
  BY <1>0, <1>1, <1>2 DEF LayoutInv, FuellInv, NachLayout
<1>5. Ende(p) = Anfang(p) + Platz(p) /\ Anfang(p) \in Nat /\ Platz(p) \in Nat
  <2>1. Platz(0) \in Nat /\ Platz(1) \in Nat
    BY RegionTyp DEF Platz, TypeOK, TypZaehler, Teile
  <2>2. QED
    BY <1>4, <2>1 DEF Ende, Anfang, Teile
<1>6. /\ marke[p][s] = marke[p][s - 1] +
           (IF GrossGenug(p, s) THEN Headersize + g ELSE 0)
      /\ marke[p][s] <= Platz(p) /\ marke[p][s - 1] \in Nat
  BY <1>a, <1>3, <1>4 DEF Gemessen, Schritt, Monoton, Platz
<1>7. kp'[p] = Anfang(p) + marke[p][s] /\ \A q \in Teile \ {p} : kp'[q] = kp[q]
  <2> DEFINE max_gp == kp[p] + Headersize + g
  <2>1. Behalten2(p, max_gp) <=> GrossGenug(p, s)
    BY <1>a, <1>3 DEF Behalten2, GrossGenug, Headersize
  <2>2. CASE kp[p] < Ende(p)
    <3>1. kp' = IF Behalten2(p, max_gp) THEN [kp EXCEPT ![p] = max_gp] ELSE kp
      BY <1>0, <1>a, <2>2 DEF FillRow2, R
    <3>2. CASE GrossGenug(p, s)
      <4>1. kp' = [kp EXCEPT ![p] = max_gp]
        BY <2>1, <3>1, <3>2
      <4>2. kp'[p] = kp[p] + Headersize + g /\ \A q \in Teile \ {p} : kp'[q] = kp[q]
        BY <4>1 DEF TypeOK, TypAblage
      <4>3. QED
        BY <4>2, <1>3, <1>4, <1>5, <1>6, <3>2 DEF Headersize
    <3>3. CASE ~GrossGenug(p, s)
      BY <2>1, <3>1, <3>3, <1>4, <1>6
    <3>4. QED
      BY <3>2, <3>3
  <2>3. CASE ~(kp[p] < Ende(p))
    <3>1. kp' = kp
      BY <2>3 DEF FillRow2
    <3>2. ~GrossGenug(p, s)
      BY <2>3, <1>3, <1>4, <1>5, <1>6 DEF Headersize
    <3>3. QED
      BY <3>1, <3>2, <1>4, <1>6
  <2>4. QED
    BY <2>2, <2>3
<1>8. /\ \A q \in Teile : Anfang(q)' = Anfang(q)
      /\ \A q \in Teile : Anzahl(q)' = Anzahl(q) /\ Platz(q)' = Platz(q)
      /\ \A q \in Teile : \A t : Gemessen(q, t) => Gemessen(q, t)'
      /\ \A q \in Teile \ {p} : rpos'[q] = rpos[q]
      /\ rpos'[p] = s + 1 /\ rpos'[p] - 1 = s
  <2>1. rpos'[p] = s + 1 /\ \A q \in Teile \ {p} : rpos'[q] = rpos[q]
    BY <1>0, <1>1 DEF TypeOK, TypThread
  <2>2. QED
    BY <2>1, <1>1, <1>3, MessRahmen DEF Anfang
<1>9. FuellInv'
  <2>1. \A q \in Teile : Gemessen(q, Anzahl(q))'
    BY <1>1, <1>8 DEF LayoutInv, FuellInv, NachLayout
  <2>2. mitte_offset' = Platz(0)' /\ struktur_vorhanden' = Platz(0)' + Platz(1)'
    BY <1>1, <1>4, <1>8 DEF Teile
  <2>3. ASSUME NEW q \in Teile
        PROVE  IF q < gestartet
               THEN /\ rpos'[q] <= Anzahl(q)' + 1
                    /\ kp'[q] = Anfang(q)' + marke'[q][rpos'[q] - 1]
                    /\ ~laeuft'[q] => rpos'[q] = Anzahl(q)' + 1
               ELSE kp'[q] = Anfang(q)'
    <3>1. CASE q = p
      BY <3>1, <1>1, <1>2, <1>3, <1>7, <1>8
    <3>2. CASE q # p
      BY <3>2, <1>1, <1>7, <1>8 DEF LayoutInv, FuellInv
    <3>3. QED
      BY <3>1, <3>2
  <2>4. QED
    BY <2>1, <2>2, <2>3, <1>1 DEF FuellInv, NachLayout
<1>10. QED
  BY <1>2, <1>9 DEF LayoutInv

(* The steps of the workers that leave counters and layout alone. *)
LEMMA WorkerLayout ==
  ASSUME TypeOK, LayoutInv, NEW p \in Teile, Worker(p)
  PROVE  LayoutInv'
<1>1. CASE FillRow1(p)
  BY <1>1, FillRow1Layout
<1>2. CASE FillRow2(p)
  BY <1>2, FillRow2Layout
<1>3. CASE SortRow(p) \/ PlaneRow(p)
  <2>1. /\ UNCHANGED <<bild, phase, thread, zaehler, kp, mitte_offset, struktur_vorhanden>>
        /\ phase \in {"sort", "plane"}
    BY <1>3 DEF SortRow, PlaneRow
  <2>2. UNCHANGED <<bild, marke, gestartet, laeuft, hCompleted>>
    BY <2>1 DEF zaehler, thread
  <2>3. FuellInv'
    BY <2>1, <2>2, MessRahmen DEF LayoutInv, FuellInv, NachLayout, Ende, Teile
  <2>4. QED
    BY <2>1, <2>2, <2>3 DEF LayoutInv, ThreadInv, MessInv
<1>4. CASE CalcRow(p) \/ FillFertig(p) \/ KetteFertig(p)
  <2>1. /\ UNCHANGED <<bild, phase, gestartet, rpos, zaehler, ablage, kette, anzeige>>
        /\ laeuft[p] /\ Melde(p)
        /\ phase \in Parallel
        /\ phase \in {"fill1", "fill2"} => rpos[p] > Anzahl(p)
    BY <1>4 DEF CalcRow, FillFertig, KetteFertig, Parallel
  <2>2. /\ UNCHANGED <<bild, marke, countp, maxp, kp, mitte_offset, struktur_vorhanden>>
        /\ \A q \in Teile \ {p} : laeuft'[q] = laeuft[q] /\ hCompleted'[q] = hCompleted[q]
        /\ ~laeuft'[p] /\ hCompleted'[p]
    BY <2>1 DEF zaehler, ablage, Melde, TypeOK, TypThread
  <2>3. p < gestartet
    BY <2>1 DEF LayoutInv, ThreadInv
  <2>4. ThreadInv'
    BY <2>1, <2>2, <2>3 DEF LayoutInv, ThreadInv
  <2>5. /\ \A q \in Teile : \A t : Gemessen(q, t) => Gemessen(q, t)'
        /\ \A q \in Teile : Anzahl(q)' = Anzahl(q) /\ Platz(q)' = Platz(q)
    BY <2>2, MessRahmen
  <2>6. rpos[p] \in Nat /\ Anzahl(p) \in Nat
    BY RegionTyp DEF TypeOK, TypThread
  <2>7. MessInv'
    <3>1. CASE phase = "fill1"
      <4>1. ASSUME NEW q \in Teile
            PROVE  IF q < gestartet
                   THEN /\ rpos'[q] <= Anzahl(q)' + 1
                        /\ Gemessen(q, rpos[q] - 1)'
                        /\ countp'[q] * Headersize + maxp'[q] = marke'[q][rpos'[q] - 1]
                        /\ ~laeuft'[q] => rpos'[q] = Anzahl(q)' + 1
                   ELSE countp'[q] = 0 /\ maxp'[q] = 0 /\ marke'[q][0] = 0
        <5>1. Gemessen(q, rpos[q] - 1) => Gemessen(q, rpos[q] - 1)'
          BY <2>1, <2>2, GemessenRahmen DEF Gemessen, Schritt, Monoton, Nachfolger,
             GrossGenug, R, Groesse
        <5>2. QED
          BY <3>1, <5>1, <2>1, <2>2, <2>5, <2>6 DEF LayoutInv, MessInv
      <4>2. QED
        BY <4>1, <3>1, <2>1 DEF MessInv
    <3>2. CASE phase # "fill1"
      BY <3>2, <2>1, <2>2 DEF LayoutInv, MessInv, Parallel
    <3>3. QED
      BY <3>1, <3>2
  <2>8. FuellInv'
    <3>1. \A q \in Teile : Anfang(q)' = Anfang(q) /\ Ende(q)' = Ende(q)
      BY <2>2 DEF Anfang, Ende
    <3>2. QED
      BY <3>1, <2>1, <2>2, <2>5, <2>6 DEF LayoutInv, FuellInv, NachLayout, Teile
  <2>9. QED
    BY <2>4, <2>7, <2>8 DEF LayoutInv
<1>5. QED
  BY <1>1, <1>2, <1>3, <1>4 DEF Worker

(* The main thread. *)
LEMMA HauptLayout ==
  ASSUME TypeOK, LayoutInv, Haupt \/ OnGo
  PROVE  LayoutInv'
<1> USE DEF LayoutInv
<1>0. /\ \A p \in Teile : Anzahl(p) \in Nat
      /\ \A p \in Teile : marke[p] \in [0 .. Anzahl(p) -> Nat]
      /\ \A p \in Teile : Platz(p) \in Nat
  BY RegionTyp DEF TypeOK, TypZaehler, Platz
<1>1. CASE OnGo
  <2>1. \A p \in Teile : marke'[p][0] = 0
    <3>1. \A p \in Teile : Len(bild'.regionen[p]) \in Nat
      BY <1>1, BildTyp DEF OnGo
    <3>2. QED
      BY <1>1, <3>1 DEF OnGo, KeinMarke
  <2>2. ThreadInv'
    BY <1>1 DEF OnGo, ThreadInv, Parallel, TypeOK, TypThread
  <2>3. QED
    BY <1>1, <2>1, <2>2 DEF OnGo, MessInv, FuellInv, NachLayout
<1>2. CASE Starte
  <2>1. /\ phase \in Parallel /\ phase' = phase /\ gestartet \in Teile
        /\ gestartet' = gestartet + 1
        /\ hCompleted' = [hCompleted EXCEPT ![gestartet] = FALSE]
        /\ laeuft' = [laeuft EXCEPT ![gestartet] = TRUE]
        /\ rpos' = [rpos EXCEPT ![gestartet] = 1]
        /\ UNCHANGED <<bild, marke, countp, maxp, kp, mitte_offset, struktur_vorhanden>>
    BY <1>2 DEF Starte, TypeOK, TypThread, Teile, zaehler, ablage
  <2>2. /\ laeuft'[gestartet] /\ ~hCompleted'[gestartet] /\ rpos'[gestartet] = 1
        /\ \A q \in Teile \ {gestartet} :
             laeuft'[q] = laeuft[q] /\ hCompleted'[q] = hCompleted[q] /\ rpos'[q] = rpos[q]
    BY <2>1 DEF TypeOK, TypThread
  <2>3. \A q \in Teile : q < gestartet' <=> q < gestartet \/ q = gestartet
    BY <2>1 DEF Teile
  <2>4. ThreadInv'
    BY <2>1, <2>2, <2>3 DEF ThreadInv, Teile
  <2>5. /\ \A q \in Teile : \A t : Gemessen(q, t) => Gemessen(q, t)'
        /\ \A q \in Teile : Anzahl(q)' = Anzahl(q) /\ Platz(q)' = Platz(q)
        /\ \A q \in Teile : Anfang(q)' = Anfang(q) /\ Ende(q)' = Ende(q)
    BY <2>1, MessRahmen DEF Anfang, Ende
  <2>6. MessInv'
    <3>1. ASSUME NEW q \in Teile, phase = "fill1"
          PROVE  IF q < gestartet'
                 THEN /\ rpos'[q] <= Anzahl(q)' + 1
                      /\ Gemessen(q, rpos[q] - 1)'
                      /\ countp'[q] * Headersize + maxp'[q] = marke'[q][rpos'[q] - 1]
                      /\ ~laeuft'[q] => rpos'[q] = Anzahl(q)' + 1
                 ELSE countp'[q] = 0 /\ maxp'[q] = 0 /\ marke'[q][0] = 0
      <4>1. CASE q = gestartet
        <5>1. /\ ~(q < gestartet) /\ q < gestartet'
              /\ countp[q] = 0 /\ maxp[q] = 0 /\ marke[q][0] = 0
          BY <4>1, <3>1, <2>1, <2>3 DEF MessInv, Teile
        <5>2. Gemessen(q, 0)'
          BY <5>1, <2>5, GemessenNull
        <5>3. rpos'[q] - 1 = 0
          BY <4>1, <2>2
        <5>4. Gemessen(q, rpos[q] - 1)'
          BY <5>2, <5>3
        <5>5. /\ countp'[q] * Headersize + maxp'[q] = 0 /\ marke'[q][rpos'[q] - 1] = 0
          BY <5>1, <5>3, <2>1 DEF Headersize
        <5>6. rpos'[q] <= Anzahl(q)' + 1 /\ laeuft'[q]
          BY <4>1, <2>2, <2>5, <1>0
        <5>7. QED
          BY <5>1, <5>4, <5>5, <5>6
      <4>2. CASE q # gestartet
        <5>1. Gemessen(q, rpos[q] - 1) => Gemessen(q, rpos[q] - 1)'
          BY <4>2, <2>1, <2>2 DEF Gemessen, Schritt, Monoton, Nachfolger,
             GrossGenug, R, Groesse
        <5>2. QED
          BY <5>1, <4>2, <3>1, <2>1, <2>2, <2>3, <2>5 DEF MessInv
      <4>3. QED
        BY <4>1, <4>2
    <3>2. CASE phase = "fill1"
      BY <3>1, <3>2, <2>1 DEF MessInv
    <3>3. CASE phase # "fill1"
      BY <3>3, <2>1 DEF MessInv, Parallel
    <3>4. QED
      BY <3>2, <3>3
  <2>7. FuellInv'
    <3>1. CASE phase = "fill2"
      <4>1. ASSUME NEW q \in Teile
            PROVE  IF q < gestartet'
                   THEN /\ rpos'[q] <= Anzahl(q)' + 1
                        /\ kp'[q] = Anfang(q)' + marke'[q][rpos'[q] - 1]
                        /\ ~laeuft'[q] => rpos'[q] = Anzahl(q)' + 1
                   ELSE kp'[q] = Anfang(q)'
        <5>1. CASE q = gestartet
          <6>1. kp[q] = Anfang(q) /\ marke[q][0] = 0
            BY <5>1, <3>1, <2>1 DEF FuellInv, NachLayout, Gemessen, Schritt, Teile
          <6>2. Anfang(q) \in Int
            BY DEF Anfang, TypeOK, TypAblage
          <6>3. rpos'[q] - 1 = 0
            BY <5>1, <2>2
          <6>4. QED
            BY <5>1, <6>1, <6>2, <6>3, <2>1, <2>2, <2>3, <2>5, <1>0
        <5>2. CASE q # gestartet
          BY <5>2, <3>1, <2>1, <2>2, <2>3, <2>5 DEF FuellInv
        <5>3. QED
          BY <5>1, <5>2
      <4>2. QED
        BY <4>1, <3>1, <2>1, <2>5 DEF FuellInv, NachLayout, Teile
    <3>2. CASE phase # "fill2"
      BY <3>2, <2>1, <2>5 DEF FuellInv, NachLayout, Teile
    <3>3. QED
      BY <3>1, <3>2
  <2>8. QED
    BY <2>4, <2>6, <2>7
<1>3. ASSUME AlleFertig, phase \in Parallel
      PROVE  \A p \in Teile : p < gestartet /\ ~laeuft[p]
  BY <1>3 DEF AlleFertig, ThreadInv, Teile
<1>4. CASE NachCalc
  <2>1. \A p \in Teile : ~laeuft[p] /\ marke[p][0] = 0
    BY <1>3, <1>4 DEF NachCalc, MessInv, Parallel
  <2>2. /\ phase' = "fill1" /\ gestartet' = 0
        /\ UNCHANGED <<laeuft, marke>>
        /\ \A p \in Teile : maxp'[p] = 0 /\ countp'[p] = 0
    BY <1>4 DEF NachCalc, NullZaehler, NullTeile
  <2>3. QED
    BY <2>1, <2>2 DEF ThreadInv, MessInv, FuellInv, NachLayout, Teile
<1>5. CASE NachFill1
  <2>1. \A p \in Teile : ~laeuft[p] /\ p < gestartet
    BY <1>3, <1>5 DEF NachFill1, Parallel
  <2>2. \A p \in Teile : rpos[p] = Anzahl(p) + 1 /\ rpos[p] - 1 = Anzahl(p)
    BY <1>0, <1>5, <2>1 DEF NachFill1, MessInv
  <2>3. \A p \in Teile : /\ Gemessen(p, Anzahl(p))
                         /\ countp[p] * Headersize + maxp[p] = Platz(p)
    BY <1>5, <2>1, <2>2 DEF NachFill1, MessInv, Platz
  <2>4. /\ phase' = IF struktur_vorhanden' > 0 THEN "layout" ELSE "ende"
        /\ struktur_vorhanden' = (countp[0] + countp[1]) * Headersize + (maxp[0] + maxp[1])
        /\ UNCHANGED <<bild, marke, countp, maxp, laeuft, gestartet>>
    BY <1>5 DEF NachFill1, zaehler, thread
  <2>5. struktur_vorhanden' = Platz(0) + Platz(1)
    BY <2>3, <2>4 DEF Headersize, TypeOK, TypZaehler, Teile
  <2>6. /\ \A p \in Teile : Gemessen(p, Anzahl(p))'
        /\ \A p \in Teile : Platz(p)' = Platz(p)
    BY <2>3, <2>4, MessRahmen
  <2>7. QED
    BY <2>1, <2>3, <2>4, <2>5, <2>6 DEF ThreadInv, MessInv, FuellInv, NachLayout,
       Parallel, Teile
<1>6. CASE Layout
  <2>1. /\ \A p \in Teile : /\ Gemessen(p, Anzahl(p))
                            /\ countp[p] * Headersize + maxp[p] = Platz(p)
        /\ struktur_vorhanden = Platz(0) + Platz(1)
    BY <1>6 DEF Layout, MessInv
  <2>2. /\ phase = "layout" /\ phase' = "fill2" /\ gestartet' = 0
        /\ UNCHANGED <<bild, marke, laeuft, struktur_vorhanden>>
        /\ mitte_offset' = maxp[0] + countp[0] * Headersize
        /\ \A p \in Teile : kp'[p] = Anfang(p)'
    BY <1>6 DEF Layout, Anfang
  <2>3. mitte_offset' = Platz(0)
    BY <2>1, <2>2 DEF TypeOK, TypZaehler, Headersize, Teile
  <2>4. /\ \A p \in Teile : Gemessen(p, Anzahl(p))'
        /\ \A p \in Teile : Platz(p)' = Platz(p)
    BY <2>1, <2>2, MessRahmen
  <2>5. QED
    BY <2>1, <2>2, <2>3, <2>4 DEF ThreadInv, MessInv, FuellInv, NachLayout, Parallel, Teile
<1>7. CASE NachFill2
  <2>1. \A p \in Teile : ~laeuft[p] /\ p < gestartet
    BY <1>3, <1>7 DEF NachFill2, Parallel
  <2>2. \A p \in Teile : rpos[p] - 1 = Anzahl(p)
    BY <1>0, <1>7, <2>1 DEF NachFill2, FuellInv
  <2>3. /\ \A p \in Teile : Gemessen(p, Anzahl(p)) /\ kp[p] = Anfang(p) + Platz(p)
        /\ mitte_offset = Platz(0) /\ struktur_vorhanden = Platz(0) + Platz(1)
    BY <1>7, <2>1, <2>2 DEF NachFill2, FuellInv, NachLayout, Platz
  <2>4. \A p \in Teile : kp[p] = Ende(p)
    BY <2>3, <1>0 DEF Anfang, Ende, Teile
  <2>5. /\ phase' = "vote"
        /\ UNCHANGED <<bild, marke, laeuft, gestartet, kp, mitte_offset, struktur_vorhanden>>
    BY <1>7 DEF NachFill2, thread, zaehler, ablage
  <2>6. /\ \A p \in Teile : Gemessen(p, Anzahl(p))'
        /\ \A p \in Teile : Platz(p)' = Platz(p) /\ Ende(p)' = Ende(p)
    BY <2>3, <2>5, MessRahmen DEF Ende
  <2>7. QED
    BY <2>1, <2>3, <2>4, <2>5, <2>6 DEF ThreadInv, MessInv, FuellInv, NachLayout,
       Parallel, Teile
<1>8. CASE Vote \/ NachVote \/ NachSort \/ NachPlane
  <2>1. /\ UNCHANGED <<bild, marke, laeuft, kp, mitte_offset, struktur_vorhanden>>
        /\ phase \in NachLayout \ {"fill2"} /\ phase' \in NachLayout \ {"fill2"}
        /\ phase' \in Parallel /\ phase' # phase => gestartet' = 0
        /\ phase' = phase => gestartet' = gestartet /\ hCompleted' = hCompleted
    BY <1>8 DEF Vote, NachVote, NachSort, NachPlane, NachLayout, Parallel, thread,
       zaehler, ablage
  <2>2. phase' # phase => \A p \in Teile : ~laeuft[p]
    BY <1>3, <1>8 DEF Vote, NachVote, NachSort, NachPlane, Parallel, ThreadInv
  <2>3. /\ \A p \in Teile : \A t : Gemessen(p, t) => Gemessen(p, t)'
        /\ \A p \in Teile : Anzahl(p)' = Anzahl(p) /\ Platz(p)' = Platz(p) /\ Ende(p)' = Ende(p)
    BY <2>1, MessRahmen DEF Ende
  <2>4. FuellInv'
    BY <2>1, <2>3 DEF FuellInv, Teile
  <2>5. MessInv'
    BY <2>1 DEF MessInv, NachLayout
  <2>6. ThreadInv'
    <3>1. CASE phase' = phase
      BY <3>1, <2>1 DEF ThreadInv
    <3>2. CASE phase' # phase
      BY <3>2, <2>1, <2>2 DEF ThreadInv, Teile
    <3>3. QED
      BY <3>1, <3>2
  <2>7. QED
    BY <2>4, <2>5, <2>6
<1>9. CASE CallocFehlt \/ Urteil \/ GoEnde
  <2>1. /\ laeuft' = laeuft
        /\ phase \notin Parallel /\ phase' \in {"ende", "idle"}
    BY <1>9 DEF CallocFehlt, Urteil, GoEnde, thread, Parallel
  <2>2. QED
    BY <2>1 DEF ThreadInv, MessInv, FuellInv, NachLayout, Parallel
<1>10. QED
  BY <1>1, <1>2, <1>4, <1>5, <1>6, <1>7, <1>8, <1>9 DEF Haupt

(* The layout invariant of every run of OnGo. *)
THEOREM Layoutsatz == Spec => []LayoutInv
<1>1. TypeOK /\ LayoutInv /\ [Next]_vars => LayoutInv'
  <2> SUFFICES ASSUME TypeOK, LayoutInv, [Next]_vars PROVE LayoutInv'
    OBVIOUS
  <2>1. CASE UNCHANGED vars
    <3>1. /\ UNCHANGED <<bild, phase, gestartet, laeuft, hCompleted, rpos, countp,
                         maxp, marke, kp, mitte_offset, struktur_vorhanden>>
      BY <2>1 DEF vars, thread, zaehler, ablage
    <3>2. ThreadInv'
      BY <3>1 DEF LayoutInv, ThreadInv
    <3>3. /\ \A p \in Teile : \A t : Gemessen(p, t) => Gemessen(p, t)'
          /\ \A p \in Teile : Anzahl(p)' = Anzahl(p) /\ Platz(p)' = Platz(p)
          /\ \A p \in Teile : Anfang(p)' = Anfang(p) /\ Ende(p)' = Ende(p)
      BY <3>1, MessRahmen DEF Anfang, Ende
    <3>4. \A p \in Teile : Gemessen(p, rpos[p] - 1) => Gemessen(p, rpos[p] - 1)'
      BY <3>1 DEF Gemessen, Schritt, Monoton, Nachfolger, GrossGenug, R, Groesse
    <3>5. MessInv'
      BY <3>1, <3>3, <3>4 DEF LayoutInv, MessInv, Teile
    <3>6. FuellInv'
      BY <3>1, <3>3 DEF LayoutInv, FuellInv, Teile, NachLayout
    <3>7. QED
      BY <3>2, <3>5, <3>6 DEF LayoutInv
  <2>2. QED
    BY <2>1, WorkerLayout, HauptLayout DEF Next
<1>2. QED
  BY <1>1, LayoutInit, Typing, PTL DEF Spec

LEMMA ImEigenen == TypeOK /\ LayoutInv => EigeneHaelfte
<1> SUFFICES ASSUME TypeOK, LayoutInv, NEW p \in Teile,
                    phase = "fill2", laeuft[p], rpos[p] <= Anzahl(p), kp[p] < Ende(p)
             PROVE  /\ Anfang(p) <= kp[p]
                    /\ kp[p] + Headersize + Groesse(bild.regionen[p][rpos[p]]) <= Ende(p)
  BY DEF EigeneHaelfte
<1>1. p < gestartet
  BY DEF LayoutInv, ThreadInv
<1>2. /\ Gemessen(p, Anzahl(p)) /\ kp[p] = Anfang(p) + marke[p][rpos[p] - 1]
      /\ mitte_offset = Platz(0) /\ struktur_vorhanden = Platz(0) + Platz(1)
  BY <1>1 DEF LayoutInv, FuellInv, NachLayout
<1>3. /\ rpos[p] \in 1 .. Anzahl(p) /\ rpos[p] - 1 \in 0 .. Anzahl(p)
      /\ Anzahl(p) \in Nat
  BY RegionTyp DEF TypeOK, TypThread
<1>4. marke[p][rpos[p] - 1] \in Nat /\ Platz(0) \in Nat /\ Platz(1) \in Nat
  <2>1. /\ \A q \in Teile : marke[q] \in [0 .. Anzahl(q) -> Nat]
        /\ \A q \in Teile : Anzahl(q) \in Nat
    BY RegionTyp DEF TypeOK, TypZaehler
  <2>2. marke[p][rpos[p] - 1] \in Nat
    BY <2>1, <1>3
  <2>3. \A q \in Teile : Platz(q) \in Nat
    BY <2>1 DEF Platz
  <2>4. QED
    BY <2>2, <2>3 DEF Teile
<1>5. Ende(p) = Anfang(p) + Platz(p) /\ Anfang(p) \in Nat
  BY <1>2, <1>4 DEF Anfang, Ende, Teile
<1>6. marke[p][rpos[p] - 1] < Platz(p)
  BY <1>2, <1>4, <1>5 DEF Teile
<1>7. marke[p][rpos[p] - 1] + Headersize + Groesse(R(p, rpos[p])) <= Platz(p)
  BY <1>2, <1>3, <1>6, PlatzReicht
<1>8. Groesse(R(p, rpos[p])) \in Nat
  BY <1>3, RegionTyp DEF R
<1>9. R(p, rpos[p]) = bild.regionen[p][rpos[p]]
  BY DEF R
<1>10. Platz(p) \in Nat /\ kp[p] \in Nat
  BY <1>4 DEF Teile, TypeOK, TypAblage
<1>11. PICK g : g = Groesse(bild.regionen[p][rpos[p]])
  OBVIOUS
<1>12. g \in Nat /\ marke[p][rpos[p] - 1] + 15 + g <= Platz(p)
  BY <1>7, <1>8, <1>9, <1>11 DEF Headersize
<1>13. kp[p] + 15 + g <= Ende(p)
  BY <1>2, <1>4, <1>5, <1>10, <1>12
<1>14. Anfang(p) <= kp[p]
  BY <1>2, <1>4, <1>5
<1>15. QED
  BY <1>11, <1>13, <1>14 DEF Headersize

(* No write of the second pass leaves the half of its worker, whatever the *)
(* image, the threshold and the interleaving of the two threads.           *)
THEOREM SchreibtImEigenen == Spec => []EigeneHaelfte
BY ImEigenen, Typing, Layoutsatz, PTL

(* The second pass fills exactly the room the first one counted.           *)
THEOREM BeideDurchgaengeGleich == Spec => []HaelftenVoll
<1>1. LayoutInv => HaelftenVoll
  BY DEF LayoutInv, FuellInv, HaelftenVoll, NachLayout
<1>2. QED
  BY <1>1, Layoutsatz, PTL

-----------------------------------------------------------------------------
(* The walks: where each header belongs is where it is, and each walk goes *)
(* from one such place to the next.                                        *)

(* The header of the s-th region of part p stands where the first pass     *)
(* left room for it.                                                       *)
Stelle(p, s) == Anfang(p) + marke[p][s - 1]
KopfDa(p, s) ==
  /\ Stelle(p, s) \in DOMAIN struktur
  /\ struktur[Stelle(p, s)].px = R(p, s).px
  /\ struktur[Stelle(p, s)].nb = R(p, s).nb
  /\ struktur[Stelle(p, s)].teil = p

Behaltene(p) == {s \in 1 .. Anzahl(p) : GrossGenug(p, s)}

(* A place where a walk over part p may stop. *)
Halt(p, a) == a = Ende(p) \/ \E s \in Behaltene(p) : a = Stelle(p, s)

SchreibInv ==
  phase = "fill2" =>
    \A p \in Teile : p < gestartet =>
      \A s \in Behaltene(p) : s < rpos[p] => KopfDa(p, s)

KopfInv ==
  phase \in {"vote", "sort", "plane", "urteil"} =>
    \A p \in Teile : \A s \in Behaltene(p) : KopfDa(p, s)

WegInv ==
  /\ phase = "vote" => Halt(1, k) \/ (k < mitte_offset /\ Halt(0, k))
  /\ phase \in {"sort", "plane"} =>
       \A p \in Teile : p < gestartet => Halt(p, kw[p])

(* max_g is no smaller than any record the vote loop has passed. *)
PufferInv ==
  /\ phase = "vote" =>
       \A p \in Teile : \A s \in Behaltene(p) :
         Stelle(p, s) < k => Groesse(R(p, s)) <= max_g
  /\ phase \in {"sort", "plane"} =>
       \A p \in Teile : \A s \in Behaltene(p) : Groesse(R(p, s)) <= max_g

KettenInv == SchreibInv /\ KopfInv /\ WegInv /\ PufferInv

-----------------------------------------------------------------------------
(* Places in the array.                                                    *)

LEMMA Masse ==
  ASSUME TypeOK, NEW p \in Teile
  PROVE  /\ Anzahl(p) \in Nat /\ bild.minsize \in Nat /\ Platz(p) \in Nat
         /\ \A t \in 0 .. Anzahl(p) : marke[p][t] \in Nat
         /\ \A s \in 1 .. Anzahl(p) :
              /\ s - 1 \in 0 .. Anzahl(p) /\ s \in 0 .. Anzahl(p)
              /\ R(p, s).px \in Nat /\ R(p, s).nb \in Nat
              /\ Groesse(R(p, s)) = R(p, s).px + R(p, s).nb
              /\ Groesse(R(p, s)) \in Nat
<1>1. Anzahl(p) \in Nat /\ bild.minsize \in Nat
  BY RegionTyp
<1>2. \A t \in 0 .. Anzahl(p) : marke[p][t] \in Nat
  BY DEF TypeOK, TypZaehler
<1>3. Platz(p) \in Nat
  BY <1>1, <1>2 DEF Platz
<1>4. \A s \in 1 .. Anzahl(p) :
        /\ R(p, s).px \in Nat /\ R(p, s).nb \in Nat
        /\ Groesse(R(p, s)) = R(p, s).px + R(p, s).nb /\ Groesse(R(p, s)) \in Nat
  BY RegionTyp DEF R, Groesse
<1>5. QED
  BY <1>1, <1>2, <1>3, <1>4

LEMMA Haelften ==
  ASSUME TypeOK, LayoutInv, phase \in NachLayout
  PROVE  /\ \A p \in Teile : /\ Gemessen(p, Anzahl(p))
                             /\ Anfang(p) \in Nat
                             /\ Ende(p) = Anfang(p) + Platz(p)
                             /\ Ende(p) \in Nat /\ Ende(p) <= struktur_vorhanden
         /\ Anfang(0) = 0 /\ Ende(0) = mitte_offset
         /\ Anfang(1) = mitte_offset /\ Ende(1) = struktur_vorhanden
         /\ mitte_offset \in Nat /\ struktur_vorhanden \in Nat
         /\ mitte_offset <= struktur_vorhanden
<1>1. /\ \A p \in Teile : Gemessen(p, Anzahl(p))
      /\ mitte_offset = Platz(0) /\ struktur_vorhanden = Platz(0) + Platz(1)
  BY DEF LayoutInv, FuellInv
<1>2. Platz(0) \in Nat /\ Platz(1) \in Nat
  BY Masse DEF Teile
<1>3. QED
  BY <1>1, <1>2 DEF Anfang, Ende, Teile

(* A kept region's record lies inside its half, before those of the later  *)
(* regions.                                                                *)
LEMMA Lage ==
  ASSUME TypeOK, LayoutInv, phase \in NachLayout, NEW p \in Teile, NEW s \in Behaltene(p)
  PROVE  /\ Stelle(p, s) \in Nat /\ Anfang(p) <= Stelle(p, s)
         /\ Stelle(p, s) + 15 + Groesse(R(p, s)) = Anfang(p) + marke[p][s]
         /\ \A t \in s .. Anzahl(p) :
              Stelle(p, s) + 15 + Groesse(R(p, s)) <= Anfang(p) + marke[p][t]
         /\ Stelle(p, s) + 15 + Groesse(R(p, s)) <= Ende(p)
<1>1. PICK g : g = Groesse(R(p, s))
  OBVIOUS
<1>2. /\ s \in 1 .. Anzahl(p) /\ GrossGenug(p, s) /\ Anzahl(p) \in Nat
      /\ g \in Nat /\ \A t \in 0 .. Anzahl(p) : marke[p][t] \in Nat
  BY <1>1, Masse DEF Behaltene
<1>3. /\ Gemessen(p, Anzahl(p)) /\ Anfang(p) \in Nat
      /\ Ende(p) = Anfang(p) + marke[p][Anzahl(p)]
  BY Haelften DEF Platz
<1>4. marke[p][s] = marke[p][s - 1] + (15 + g)
  BY <1>1, <1>2, <1>3 DEF Gemessen, Schritt, Headersize
<1>5. \A t \in s .. Anzahl(p) : marke[p][s] <= marke[p][t]
  BY <1>2, <1>3 DEF Gemessen, Monoton
<1>6. marke[p][s - 1] \in Nat /\ marke[p][s] \in Nat
  BY <1>2
<1>7. Stelle(p, s) + 15 + g = Anfang(p) + marke[p][s]
  BY <1>2, <1>3, <1>4, <1>6 DEF Stelle
<1>8. \A t \in s .. Anzahl(p) : Stelle(p, s) + 15 + g <= Anfang(p) + marke[p][t]
  BY <1>2, <1>3, <1>5, <1>6, <1>7
<1>9. Stelle(p, s) + 15 + g <= Ende(p)
  BY <1>2, <1>3, <1>8
<1>10. QED
  BY <1>1, <1>3, <1>6, <1>7, <1>8, <1>9 DEF Stelle

(* Wherever the first pass stood, a record begins there or the half ends.  *)
LEMMA NaechsterHalt ==
  ASSUME TypeOK, LayoutInv, phase \in NachLayout, NEW p \in Teile,
         NEW t \in 0 .. Anzahl(p)
  PROVE  Halt(p, Anfang(p) + marke[p][t])
<1>1. Gemessen(p, Anzahl(p)) /\ Ende(p) = Anfang(p) + marke[p][Anzahl(p)]
  BY Haelften DEF Platz
<1>2. CASE marke[p][t] = marke[p][Anzahl(p)]
  BY <1>1, <1>2 DEF Halt
<1>3. CASE marke[p][t] # marke[p][Anzahl(p)]
  <2>1. PICK s \in t + 1 .. Anzahl(p) : GrossGenug(p, s) /\ marke[p][s - 1] = marke[p][t]
    BY <1>1, <1>3 DEF Gemessen, Nachfolger
  <2>2. s \in Behaltene(p)
    BY <2>1, Masse DEF Behaltene
  <2>3. QED
    BY <2>1, <2>2 DEF Halt, Stelle
<1>4. QED
  BY <1>2, <1>3

LEMMA ErsterHalt ==
  ASSUME TypeOK, LayoutInv, phase \in NachLayout, NEW p \in Teile
  PROVE  Halt(p, Anfang(p))
<1>1. 0 \in 0 .. Anzahl(p) /\ marke[p][0] = 0 /\ Anfang(p) \in Nat
  BY Masse, Haelften DEF Gemessen, Schritt
<1>2. Halt(p, Anfang(p) + marke[p][0])
  BY <1>1, NaechsterHalt
<1>3. QED
  BY <1>1, <1>2

(* The length in a header that is there leads to the next stop.            *)
LEMMA HaltWeiter ==
  ASSUME TypeOK, LayoutInv, phase \in NachLayout, NEW p \in Teile,
         NEW s \in Behaltene(p), KopfDa(p, s)
  PROVE  /\ Laenge(Stelle(p, s)) = Groesse(R(p, s))
         /\ Weiter(Stelle(p, s)) = Anfang(p) + marke[p][s]
         /\ Halt(p, Weiter(Stelle(p, s)))
<1>1. s \in 1 .. Anzahl(p) /\ s \in 0 .. Anzahl(p)
  BY Masse DEF Behaltene
<1>2. Laenge(Stelle(p, s)) = Groesse(R(p, s))
  BY <1>1, Masse DEF Laenge, Kopf, KopfDa
<1>3. Weiter(Stelle(p, s)) = Stelle(p, s) + 15 + Groesse(R(p, s))
  BY <1>2 DEF Weiter, Headersize
<1>4. Weiter(Stelle(p, s)) = Anfang(p) + marke[p][s]
  BY <1>3, Lage
<1>5. QED
  BY <1>1, <1>2, <1>4, NaechsterHalt

(* Between the beginning of a record and its end no other one begins.      *)
LEMMA Dazwischen ==
  ASSUME TypeOK, LayoutInv, phase \in NachLayout,
         NEW p \in Teile, NEW s \in Behaltene(p), NEW q \in Teile, NEW t \in Behaltene(q),
         ~(Stelle(q, t) < Stelle(p, s)), Stelle(q, t) < Anfang(p) + marke[p][s]
  PROVE  q = p /\ t = s
<1>1. /\ Groesse(R(q, t)) \in Nat /\ t \in 1 .. Anzahl(q) /\ Anzahl(q) \in Nat
      /\ Groesse(R(p, s)) \in Nat /\ s \in 1 .. Anzahl(p) /\ Anzahl(p) \in Nat
  BY Masse DEF Behaltene
<1>2. /\ Stelle(q, t) \in Nat /\ Anfang(q) <= Stelle(q, t)
      /\ Stelle(q, t) + 15 + Groesse(R(q, t)) <= Ende(q)
      /\ Stelle(p, s) \in Nat /\ Anfang(p) <= Stelle(p, s)
      /\ Stelle(p, s) + 15 + Groesse(R(p, s)) <= Ende(p)
      /\ Stelle(p, s) + 15 + Groesse(R(p, s)) = Anfang(p) + marke[p][s]
  BY Lage
<1>3. q = p
  BY <1>1, <1>2, Haelften DEF Teile
<1>4. ~(t < s)
  <2> SUFFICES ASSUME t < s PROVE FALSE
    OBVIOUS
  <2>1. s - 1 \in t .. Anzahl(p)
    BY <1>1, <1>3
  <2>2. Stelle(q, t) + 15 + Groesse(R(q, t)) <= Anfang(p) + marke[p][s - 1]
    BY <1>3, <2>1, Lage
  <2>3. QED
    BY <1>1, <1>2, <2>2 DEF Stelle
<1>5. ~(s < t)
  <2> SUFFICES ASSUME s < t PROVE FALSE
    OBVIOUS
  <2>1. t - 1 \in s .. Anzahl(p)
    BY <1>1, <1>3
  <2>2. Anfang(p) + marke[p][s] <= Stelle(q, t)
    BY <1>2, <1>3, <2>1, Lage DEF Stelle
  <2>3. QED
    BY <1>1, <1>2, <2>2
<1>6. QED
  BY <1>1, <1>3, <1>4, <1>5

-----------------------------------------------------------------------------
(* Steps that leave the layout alone.                                      *)

LEMMA OrteBleiben ==
  ASSUME UNCHANGED <<bild, marke, mitte_offset, struktur_vorhanden>>
  PROVE  \A p \in Teile :
           /\ Anfang(p)' = Anfang(p) /\ Ende(p)' = Ende(p)
           /\ Behaltene(p)' = Behaltene(p)
           /\ \A s : Stelle(p, s)' = Stelle(p, s) /\ R(p, s)' = R(p, s)
                    /\ Groesse(R(p, s))' = Groesse(R(p, s))
           /\ \A a : Halt(p, a) => Halt(p, a)'
BY DEF Anfang, Ende, Behaltene, Stelle, R, Groesse, GrossGenug, Anzahl, Halt

(* Dropping or classifying a record leaves every header where it is.       *)
LEMMA KoepfeBleiben ==
  ASSUME TypStruktur, UNCHANGED <<bild, marke, mitte_offset>>, NEW a, NEW u,
         \/ struktur' = struktur
         \/ struktur' = Mit(a, [Kopf(a) EXCEPT !.art = u]),
         NEW p, NEW s, KopfDa(p, s)
  PROVE  KopfDa(p, s)'
<1>1. Stelle(p, s)' = Stelle(p, s) /\ R(p, s)' = R(p, s)
  BY DEF Stelle, Anfang, R
<1>2. PICK b : b = Stelle(p, s)
  OBVIOUS
<1>3. b \in DOMAIN struktur /\ struktur[b] \in KopfSatz
  BY <1>2 DEF KopfDa, TypStruktur
<1>4. CASE struktur' = struktur
  BY <1>1, <1>4 DEF KopfDa
<1>5. CASE struktur' = Mit(a, [Kopf(a) EXCEPT !.art = u])
  <2>1. b \in DOMAIN struktur'
    BY <1>3, <1>5 DEF Mit
  <2>2. struktur'[b] = IF b = a THEN [struktur[b] EXCEPT !.art = u] ELSE struktur[b]
    BY <1>3, <1>5 DEF Mit, Kopf
  <2>3. /\ struktur'[b].px = struktur[b].px /\ struktur'[b].nb = struktur[b].nb
        /\ struktur'[b].teil = struktur[b].teil
    BY <1>3, <2>2 DEF KopfSatz
  <2>4. QED
    BY <1>1, <1>2, <2>1, <2>3 DEF KopfDa
<1>6. QED
  BY <1>4, <1>5

(* Neither does a write that begins behind a header or ends before it.     *)
LEMMA SchreibtDaneben ==
  ASSUME UNCHANGED <<bild, marke, mitte_offset>>, NEW a \in Nat, NEW kopf, NEW n \in Nat,
         struktur' = Schreibe(a, kopf, n),
         NEW p, NEW s, KopfDa(p, s), Stelle(p, s) \in Nat,
         Stelle(p, s) < a \/ a + n <= Stelle(p, s), n > 0
  PROVE  KopfDa(p, s)'
<1>1. Stelle(p, s)' = Stelle(p, s) /\ R(p, s)' = R(p, s)
  BY DEF Stelle, Anfang, R
<1>2. PICK b : b = Stelle(p, s)
  OBVIOUS
<1>3. b \in (DOMAIN struktur \ (a .. a + n - 1)) /\ b # a
  BY <1>2 DEF KopfDa
<1>4. b \in DOMAIN struktur' /\ struktur'[b] = struktur[b]
  BY <1>3 DEF Schreibe
<1>5. QED
  BY <1>1, <1>2, <1>4 DEF KopfDa

-----------------------------------------------------------------------------
(* The second pass puts the headers in their places.                       *)

LEMMA FillRow2Kette ==
  ASSUME TypeOK, LayoutInv, KettenInv, NEW p \in Teile, FillRow2(p)
  PROVE  KettenInv'
<1>1. /\ phase = "fill2" /\ phase' = "fill2" /\ laeuft[p] /\ phase \in NachLayout
      /\ UNCHANGED <<bild, marke, mitte_offset, struktur_vorhanden, gestartet>>
      /\ rpos' = [rpos EXCEPT ![p] = @ + 1]
  BY DEF FillRow2, NachLayout
<1>2. PICK s, g : s = rpos[p] /\ g = Groesse(R(p, s))
  OBVIOUS
<1>3. /\ s \in 1 .. Anzahl(p) /\ s - 1 \in 0 .. Anzahl(p) /\ g \in Nat
      /\ bild.minsize \in Nat
  BY <1>2, RegionTyp, Masse DEF FillRow2, TypeOK, TypThread
<1>4. p < gestartet /\ kp[p] = Anfang(p) + marke[p][s - 1] /\ kp[p] \in Nat
  BY <1>1, <1>2 DEF LayoutInv, ThreadInv, FuellInv, TypeOK, TypAblage
<1>5. SchreibInv'
  <2> SUFFICES ASSUME NEW q \in Teile, q < gestartet,
                      NEW t \in Behaltene(q), t < rpos'[q]
               PROVE  KopfDa(q, t)'
    BY <1>1, OrteBleiben DEF SchreibInv
  <2>1. t \in 1 .. Anzahl(q) /\ Anzahl(q) \in Nat
    BY Masse DEF Behaltene
  <2>2. /\ Stelle(q, t) \in Nat /\ Anfang(q) <= Stelle(q, t)
        /\ Stelle(q, t) + 15 + Groesse(R(q, t)) <= Ende(q)
        /\ Stelle(q, t) < Ende(q)
    <3>1. Groesse(R(q, t)) \in Nat /\ Ende(q) \in Nat
      BY <1>1, <2>1, Masse, Haelften
    <3>2. QED
      BY <1>1, <3>1, Lage
  <2>3. q = p => t <= s
    BY <1>1, <1>2, <1>3, <2>1 DEF TypeOK, TypThread
  <2>4. ~(q = p /\ t = s) => KopfDa(q, t)
    <3>1. ~(q = p /\ t = s) => t < rpos[q]
      BY <1>1, <1>2, <1>3, <2>1, <2>3 DEF TypeOK, TypThread
    <3>2. QED
      BY <1>1, <3>1 DEF KettenInv, SchreibInv
  <2>5. CASE kp[p] < Ende(p)
    <3> DEFINE neu == Behalten2(p, kp[p] + Headersize + g)
               kopf == [art |-> 1, px |-> R(p, s).px, nb |-> R(p, s).nb,
                        teil |-> IF neu THEN p ELSE Kopf(kp[p]).teil]
    <3>1. struktur' = Schreibe(kp[p], kopf, 15 + g)
      BY <1>2, <2>5 DEF FillRow2, R, Headersize
    <3>2. Anfang(p) <= kp[p] /\ kp[p] + 15 + g <= Ende(p)
      BY <1>1, <1>2, <1>3, <2>5, ImEigenen DEF EigeneHaelfte, R, Headersize
    <3>3. CASE q = p /\ t = s
      <4>1. GrossGenug(p, s)
        BY <3>3 DEF Behaltene
      <4>2. neu
        BY <1>2, <1>3, <1>4, <4>1 DEF Behalten2, GrossGenug, Headersize
      <4>3. Stelle(p, s)' = kp[p] /\ R(p, s)' = R(p, s)
        BY <1>1, <1>4, OrteBleiben DEF Stelle
      <4>4. kp[p] \in DOMAIN struktur' /\ struktur'[kp[p]] = kopf
        BY <3>1 DEF Schreibe
      <4>5. QED
        BY <3>3, <4>2, <4>3, <4>4 DEF KopfDa
    <3>4. CASE ~(q = p /\ t = s)
      <4>1. Stelle(q, t) < kp[p] \/ kp[p] + (15 + g) <= Stelle(q, t)
        <5>1. CASE q = p
          <6>1. s - 1 \in t .. Anzahl(q)
            BY <1>3, <2>1, <2>3, <3>4, <5>1
          <6>2. Stelle(q, t) + 15 + Groesse(R(q, t)) <= Anfang(q) + marke[q][s - 1]
            BY <1>1, <6>1, Lage
          <6>3. Groesse(R(q, t)) \in Nat
            BY <2>1, Masse
          <6>4. QED
            BY <1>4, <2>2, <5>1, <6>2, <6>3
        <5>2. CASE q # p
          BY <1>1, <1>3, <1>4, <2>2, <3>2, <5>2, Haelften DEF Teile
        <5>3. QED
          BY <5>1, <5>2
      <4>2. 15 + g \in Nat /\ 15 + g > 0
        BY <1>3
      <4>3. UNCHANGED <<bild, marke, mitte_offset>> /\ KopfDa(q, t)
        BY <1>1, <2>4, <3>4
      <4>4. QED
        BY <1>4, <2>2, <3>1, <4>1, <4>2, <4>3, SchreibtDaneben
    <3>5. QED
      BY <3>3, <3>4
  <2>6. CASE ~(kp[p] < Ende(p))
    <3>1. struktur' = struktur
      BY <2>6 DEF FillRow2
    <3>2. ~(q = p /\ t = s)
      <4> SUFFICES ASSUME q = p, t = s PROVE FALSE
        OBVIOUS
      <4>1. Stelle(p, s) = kp[p] /\ kp[p] < Ende(p)
        BY <1>4, <2>2 DEF Stelle
      <4>2. QED
        BY <2>6, <4>1
    <3>3. QED
      BY <1>1, <2>4, <3>1, <3>2, OrteBleiben DEF KopfDa
  <2>7. QED
    BY <2>5, <2>6
<1>6. QED
  BY <1>1, <1>5 DEF KettenInv, KopfInv, WegInv, PufferInv

-----------------------------------------------------------------------------
(* The walks.                                                              *)

(* A walk that is not at its end stands at a header that is there.         *)
LEMMA AmKopf ==
  ASSUME KettenInv, phase \in {"vote", "sort", "plane"}, NEW p \in Teile, NEW a,
         Halt(p, a), a # Ende(p)
  PROVE  \E s \in Behaltene(p) : a = Stelle(p, s) /\ KopfDa(p, s)
BY DEF Halt, KettenInv, KopfInv

LEMMA RowKette ==
  ASSUME TypeOK, LayoutInv, KettenInv, NEW p \in Teile, SortRow(p) \/ PlaneRow(p)
  PROVE  KettenInv'
<1>1. /\ phase \in {"sort", "plane"} /\ phase' = phase /\ phase \in NachLayout
      /\ laeuft[p] /\ kw[p] < Ende(p)
      /\ UNCHANGED <<bild, marke, mitte_offset, struktur_vorhanden, gestartet, max_g>>
      /\ kw' = [kw EXCEPT ![p] = Weiter(kw[p])]
  BY DEF SortRow, PlaneRow, NachLayout, thread, zaehler
<1>2. \E u : \/ struktur' = struktur
             \/ struktur' = Mit(kw[p], [Kopf(kw[p]) EXCEPT !.art = u])
  BY DEF SortRow, PlaneRow
<1>3. KopfInv'
  <2> SUFFICES ASSUME NEW q \in Teile, NEW t \in Behaltene(q) PROVE KopfDa(q, t)'
    BY <1>1, OrteBleiben DEF KopfInv
  <2>1. KopfDa(q, t)
    BY <1>1 DEF KettenInv, KopfInv
  <2>2. QED
    BY <1>1, <1>2, <2>1, KoepfeBleiben DEF TypeOK
<1>4. WegInv'
  <2> SUFFICES ASSUME NEW q \in Teile, q < gestartet PROVE Halt(q, kw'[q])
    BY <1>1, OrteBleiben DEF WegInv
  <2>1. Halt(q, kw[q])
    BY <1>1 DEF KettenInv, WegInv
  <2>2. CASE q = p
    <3>1. kw[p] # Ende(p)
      BY <1>1, Haelften DEF TypeOK, TypKette
    <3>2. PICK s \in Behaltene(p) : kw[p] = Stelle(p, s) /\ KopfDa(p, s)
      BY <1>1, <2>1, <2>2, <3>1, AmKopf
    <3>3. Halt(p, Weiter(kw[p]))
      BY <1>1, <3>2, HaltWeiter
    <3>4. QED
      BY <1>1, <2>2, <3>3 DEF TypeOK, TypKette
  <2>3. CASE q # p
    BY <1>1, <2>1, <2>3 DEF TypeOK, TypKette
  <2>4. QED
    BY <2>2, <2>3
<1>5. PufferInv'
  BY <1>1, OrteBleiben DEF KettenInv, PufferInv
<1>6. QED
  BY <1>1, <1>3, <1>4, <1>5 DEF KettenInv, SchreibInv

(* The vote loop goes over both halves, from the first into the second.    *)
LEMMA VoteKette ==
  ASSUME TypeOK, LayoutInv, KettenInv, Vote
  PROVE  KettenInv'
<1>1. /\ phase = "vote" /\ phase' = phase /\ phase \in NachLayout
      /\ k < struktur_vorhanden /\ k' = Weiter(k) /\ k \in Nat
      /\ UNCHANGED <<bild, marke, mitte_offset, struktur_vorhanden, gestartet>>
      /\ max_g' = IF Laenge(k) > max_g THEN Laenge(k) ELSE max_g
      /\ max_g \in Nat
  BY DEF Vote, NachLayout, thread, zaehler, TypeOK, TypKette
<1>2. \E u : \/ struktur' = struktur
             \/ struktur' = Mit(k, [Kopf(k) EXCEPT !.art = u])
  BY DEF Vote
<1>3. PICK p \in Teile : \E s \in Behaltene(p) : k = Stelle(p, s) /\ KopfDa(p, s)
  <2>1. Halt(1, k) \/ (k < mitte_offset /\ Halt(0, k))
    BY <1>1 DEF KettenInv, WegInv
  <2>2. \E p \in Teile : Halt(p, k) /\ k # Ende(p)
    BY <1>1, <2>1, Haelften DEF Teile
  <2>3. QED
    BY <1>1, <2>2, AmKopf
<1>4. PICK s \in Behaltene(p) : k = Stelle(p, s) /\ KopfDa(p, s)
  BY <1>3
<1>5. /\ Laenge(k) = Groesse(R(p, s)) /\ k' = Anfang(p) + marke[p][s]
      /\ Halt(p, k')
  BY <1>1, <1>4, HaltWeiter
<1>6. /\ Groesse(R(p, s)) \in Nat /\ s \in 1 .. Anzahl(p) /\ Anzahl(p) \in Nat
      /\ k + 15 + Groesse(R(p, s)) = k' /\ k' <= Ende(p) /\ k' \in Nat
  <2>1. Groesse(R(p, s)) \in Nat /\ s \in 1 .. Anzahl(p) /\ Anzahl(p) \in Nat
    BY Masse DEF Behaltene
  <2>2. QED
    BY <1>1, <1>4, <1>5, <2>1, Lage
<1>7. KopfInv'
  <2> SUFFICES ASSUME NEW q \in Teile, NEW t \in Behaltene(q) PROVE KopfDa(q, t)'
    BY <1>1, OrteBleiben DEF KopfInv
  <2>1. KopfDa(q, t)
    BY <1>1 DEF KettenInv, KopfInv
  <2>2. QED
    BY <1>1, <1>2, <2>1, KoepfeBleiben DEF TypeOK
<1>8. WegInv'
  <2>1. Halt(1, k') \/ (k' < mitte_offset /\ Halt(0, k'))
    <3>1. CASE p = 1
      BY <1>5, <3>1
    <3>2. CASE p = 0 /\ k' = Ende(0)
      BY <1>1, <3>2, ErsterHalt, Haelften DEF Teile
    <3>3. CASE p = 0 /\ k' # Ende(0)
      BY <1>1, <1>5, <1>6, <3>3, Haelften DEF Teile
    <3>4. QED
      BY <3>1, <3>2, <3>3 DEF Teile
  <2>2. QED
    BY <1>1, <2>1, OrteBleiben DEF WegInv, Teile
<1>9. PufferInv'
  <2> SUFFICES ASSUME NEW q \in Teile, NEW t \in Behaltene(q), Stelle(q, t) < k'
               PROVE  Groesse(R(q, t)) <= max_g'
    BY <1>1, OrteBleiben DEF PufferInv
  <2>1. Groesse(R(q, t)) \in Nat /\ t \in 1 .. Anzahl(q) /\ Anzahl(q) \in Nat
    BY Masse DEF Behaltene
  <2>2. max_g <= max_g' /\ Groesse(R(p, s)) <= max_g' /\ max_g' \in Nat
    BY <1>1, <1>5, <1>6
  <2>3. CASE Stelle(q, t) < k
    BY <1>1, <2>1, <2>2, <2>3 DEF KettenInv, PufferInv
  <2>4. CASE ~(Stelle(q, t) < k)
    <3>1. q = p /\ t = s
      BY <1>1, <1>4, <1>5, <2>4, Dazwischen
    <3>2. QED
      BY <2>2, <3>1
  <2>5. QED
    BY <2>3, <2>4
<1>10. QED
  BY <1>1, <1>7, <1>8, <1>9 DEF KettenInv, SchreibInv

-----------------------------------------------------------------------------
(* All steps.                                                              *)

LEMMA InitKette == Init => KettenInv
BY DEF Init, KettenInv, SchreibInv, KopfInv, WegInv, PufferInv

(* What the chain does not depend on may change. *)
LEMMA RahmenKette ==
  ASSUME KettenInv,
         UNCHANGED <<bild, phase, marke, mitte_offset, struktur_vorhanden, struktur,
                     k, max_g, kw, gestartet, rpos>>
  PROVE  KettenInv'
<1>1. \A p \in Teile : \A s : KopfDa(p, s) => KopfDa(p, s)'
  BY OrteBleiben DEF KopfDa
<1>2. SchreibInv'
  BY <1>1, OrteBleiben DEF KettenInv, SchreibInv
<1>3. KopfInv'
  BY <1>1, OrteBleiben DEF KettenInv, KopfInv
<1>4. WegInv'
  BY OrteBleiben DEF KettenInv, WegInv, Teile
<1>5. PufferInv'
  BY OrteBleiben DEF KettenInv, PufferInv
<1>6. QED
  BY <1>2, <1>3, <1>4, <1>5 DEF KettenInv

LEMMA WorkerKette ==
  ASSUME TypeOK, LayoutInv, KettenInv, NEW p \in Teile, Worker(p)
  PROVE  KettenInv'
<1>1. CASE FillRow2(p)
  BY <1>1, FillRow2Kette
<1>2. CASE SortRow(p) \/ PlaneRow(p)
  BY <1>2, RowKette
<1>3. CASE FillRow1(p)
  BY <1>3 DEF FillRow1, KettenInv, SchreibInv, KopfInv, WegInv, PufferInv
<1>4. CASE CalcRow(p) \/ FillFertig(p) \/ KetteFertig(p)
  BY <1>4, RahmenKette DEF CalcRow, FillFertig, KetteFertig, zaehler, ablage, kette
<1>5. QED
  BY <1>1, <1>2, <1>3, <1>4 DEF Worker

(* A worker that starts has written nothing, or stands at the first stop   *)
(* of its half.                                                            *)
LEMMA StarteKette ==
  ASSUME TypeOK, LayoutInv, KettenInv, Starte
  PROVE  KettenInv'
<1>1. /\ phase' = phase /\ phase \in Parallel /\ gestartet \in Teile
      /\ UNCHANGED <<bild, marke, mitte_offset, struktur_vorhanden, struktur, k, max_g>>
      /\ gestartet' = gestartet + 1
      /\ rpos' = [rpos EXCEPT ![gestartet] = 1]
      /\ kw' = IF phase \in {"sort", "plane"}
               THEN [kw EXCEPT ![gestartet] = Anfang(gestartet)] ELSE kw
  BY DEF Starte, zaehler, ablage, TypeOK, TypThread, Teile
<1>2. \A p \in Teile : \A s : KopfDa(p, s) => KopfDa(p, s)'
  BY <1>1, OrteBleiben DEF KopfDa
<1>3. \A p \in Teile : p < gestartet' => p < gestartet \/ p = gestartet
  BY <1>1 DEF Teile
<1>4. SchreibInv'
  <2> SUFFICES ASSUME phase = "fill2", NEW p \in Teile, p < gestartet',
                      NEW s \in Behaltene(p), s < rpos'[p]
               PROVE  KopfDa(p, s)'
    BY <1>1, OrteBleiben DEF SchreibInv
  <2>1. s \in Nat /\ 1 <= s
    BY Masse DEF Behaltene
  <2>2. p # gestartet
    BY <1>1, <2>1 DEF TypeOK, TypThread
  <2>3. p < gestartet /\ rpos'[p] = rpos[p]
    BY <1>1, <1>3, <2>2 DEF TypeOK, TypThread
  <2>4. QED
    BY <1>2, <2>3 DEF KettenInv, SchreibInv
<1>5. KopfInv'
  BY <1>1, <1>2, OrteBleiben DEF KettenInv, KopfInv
<1>6. WegInv'
  <2>1. phase # "vote"
    BY <1>1 DEF Parallel
  <2> SUFFICES ASSUME phase \in {"sort", "plane"}, NEW p \in Teile, p < gestartet'
               PROVE  Halt(p, kw'[p])
    BY <1>1, <2>1, OrteBleiben DEF WegInv
  <2>2. CASE p = gestartet
    BY <1>1, <2>2, ErsterHalt DEF NachLayout, TypeOK, TypKette
  <2>3. CASE p # gestartet
    BY <1>1, <1>3, <2>3 DEF KettenInv, WegInv, TypeOK, TypKette
  <2>4. QED
    BY <2>2, <2>3
<1>7. PufferInv'
  BY <1>1, OrteBleiben DEF KettenInv, PufferInv
<1>8. QED
  BY <1>4, <1>5, <1>6, <1>7 DEF KettenInv

(* The second pass is joined: all headers are there, the vote begins.      *)
LEMMA NachFill2Kette ==
  ASSUME TypeOK, LayoutInv, KettenInv, NachFill2
  PROVE  KettenInv'
<1>1. /\ phase = "fill2" /\ phase' = "vote" /\ phase \in NachLayout
      /\ k' = 0 /\ gestartet = 2 /\ \A p \in Teile : hCompleted[p]
      /\ UNCHANGED <<bild, marke, mitte_offset, struktur_vorhanden, struktur>>
  BY DEF NachFill2, AlleFertig, NachLayout, zaehler, ablage
<1>2. KopfInv'
  <2> SUFFICES ASSUME NEW p \in Teile, NEW s \in Behaltene(p) PROVE KopfDa(p, s)
    BY <1>1, OrteBleiben DEF KopfInv, KopfDa
  <2>1. p < gestartet /\ rpos[p] = Anzahl(p) + 1
    BY <1>1 DEF LayoutInv, ThreadInv, FuellInv, Parallel, Teile
  <2>2. s < rpos[p]
    BY <2>1, Masse DEF Behaltene
  <2>3. QED
    BY <1>1, <2>1, <2>2 DEF KettenInv, SchreibInv
<1>3. WegInv'
  <2>1. Halt(1, 0) \/ (0 < mitte_offset /\ Halt(0, 0))
    BY <1>1, ErsterHalt, Haelften DEF Teile
  <2>2. QED
    BY <1>1, <2>1, OrteBleiben DEF WegInv, Teile
<1>4. PufferInv'
  <2> SUFFICES ASSUME NEW p \in Teile, NEW s \in Behaltene(p), Stelle(p, s) < 0
               PROVE  FALSE
    BY <1>1, OrteBleiben DEF PufferInv
  <2>1. QED
    BY <1>1, Lage
<1>5. QED
  BY <1>1, <1>2, <1>3, <1>4 DEF KettenInv, SchreibInv

(* The vote loop is done: max_g covers every record.                       *)
LEMMA NachVoteKette ==
  ASSUME TypeOK, LayoutInv, KettenInv, NachVote
  PROVE  KettenInv'
<1>1. /\ phase = "vote" /\ phase' = "sort" /\ phase \in NachLayout
      /\ k >= struktur_vorhanden /\ k \in Nat /\ gestartet' = 0
      /\ UNCHANGED <<bild, marke, mitte_offset, struktur_vorhanden, struktur, max_g>>
  BY DEF NachVote, NachLayout, zaehler, ablage, kette, TypeOK, TypKette
<1>2. KopfInv'
  BY <1>1, OrteBleiben DEF KettenInv, KopfInv, KopfDa
<1>3. WegInv'
  BY <1>1 DEF WegInv, Teile
<1>4. PufferInv'
  <2> SUFFICES ASSUME NEW p \in Teile, NEW s \in Behaltene(p)
               PROVE  Stelle(p, s) < k
    BY <1>1, OrteBleiben DEF KettenInv, PufferInv
  <2>1. Groesse(R(p, s)) \in Nat
    BY Masse DEF Behaltene
  <2>2. /\ Stelle(p, s) \in Nat /\ Stelle(p, s) + 15 + Groesse(R(p, s)) <= Ende(p)
        /\ Ende(p) \in Nat /\ Ende(p) <= struktur_vorhanden /\ struktur_vorhanden \in Nat
    BY <1>1, Lage, Haelften
  <2>3. QED
    BY <1>1, <2>1, <2>2
<1>5. QED
  BY <1>1, <1>2, <1>3, <1>4 DEF KettenInv, SchreibInv

LEMMA HauptKette ==
  ASSUME TypeOK, LayoutInv, KettenInv, Haupt \/ OnGo
  PROVE  KettenInv'
<1>1. CASE Starte
  BY <1>1, StarteKette
<1>2. CASE NachFill2
  BY <1>2, NachFill2Kette
<1>3. CASE Vote
  BY <1>3, VoteKette
<1>4. CASE NachVote
  BY <1>4, NachVoteKette
<1>5. CASE NachSort
  <2>1. /\ phase = "sort" /\ phase' = "plane" /\ gestartet' = 0
        /\ UNCHANGED <<bild, marke, mitte_offset, struktur_vorhanden, struktur, max_g>>
    BY <1>5 DEF NachSort, zaehler, ablage, kette
  <2>2. KopfInv' /\ PufferInv'
    BY <2>1, OrteBleiben DEF KettenInv, KopfInv, PufferInv, KopfDa
  <2>3. QED
    BY <2>1, <2>2 DEF KettenInv, SchreibInv, WegInv, Teile
<1>6. CASE Layout
  BY <1>6 DEF Layout, KettenInv, SchreibInv, KopfInv, WegInv, PufferInv, Teile
<1>7. CASE NachPlane
  <2>1. /\ phase = "plane" /\ phase' = "urteil"
        /\ UNCHANGED <<bild, marke, mitte_offset, struktur_vorhanden, struktur>>
    BY <1>7 DEF NachPlane, zaehler, ablage
  <2>2. KopfInv'
    BY <2>1, OrteBleiben DEF KettenInv, KopfInv, KopfDa
  <2>3. QED
    BY <2>1, <2>2 DEF KettenInv, SchreibInv, WegInv, PufferInv
<1>8. CASE NachCalc \/ NachFill1 \/ CallocFehlt \/ Urteil \/ GoEnde \/ OnGo
  <2>1. phase' \in {"fill1", "layout", "ende", "idle", "calc"}
    BY <1>8 DEF NachCalc, NachFill1, CallocFehlt, Urteil, GoEnde, OnGo
  <2>2. QED
    BY <2>1 DEF KettenInv, SchreibInv, KopfInv, WegInv, PufferInv
<1>9. QED
  BY <1>1, <1>2, <1>3, <1>4, <1>5, <1>6, <1>7, <1>8 DEF Haupt

-----------------------------------------------------------------------------
(* Every header is where the first pass left room for it, each walk stands *)
(* at such a header or at its end, and max_g covers what it has passed.    *)
THEOREM Kettensatz == Spec => []KettenInv
<1>1. TypeOK /\ LayoutInv /\ KettenInv /\ [Next]_vars => KettenInv'
  <2> SUFFICES ASSUME TypeOK, LayoutInv, KettenInv, [Next]_vars PROVE KettenInv'
    OBVIOUS
  <2>1. CASE UNCHANGED vars
    BY <2>1, RahmenKette DEF vars, thread, zaehler, ablage, kette
  <2>2. QED
    BY <2>1, WorkerKette, HauptKette DEF Next
<1>2. QED
  BY <1>1, InitKette, Typing, Layoutsatz, PTL DEF Spec

(* No walk ever reads anything but a record header of its half: neither    *)
(* the remains of a rejected region nor the other worker's records.        *)
THEOREM WegeAufKoepfen == Spec => []KetteAufKopf
<1>1. TypeOK /\ LayoutInv /\ KettenInv => KetteAufKopf
  <2> SUFFICES ASSUME TypeOK, LayoutInv, KettenInv PROVE KetteAufKopf
    OBVIOUS
  <2>1. ASSUME phase \in {"vote", "sort", "plane"}, NEW p \in Teile, NEW a, Halt(p, a)
        PROVE  /\ a <= Ende(p)
               /\ a < Ende(p) => a \in DOMAIN struktur /\ Kopf(a).teil = p
    <3>1. phase \in NachLayout /\ Ende(p) \in Nat
      BY <2>1, Haelften DEF NachLayout
    <3>2. CASE a = Ende(p)
      BY <3>1, <3>2
    <3>3. CASE a # Ende(p)
      <4>1. PICK s \in Behaltene(p) : a = Stelle(p, s) /\ KopfDa(p, s)
        BY <2>1, <3>3, AmKopf
      <4>2. Groesse(R(p, s)) \in Nat
        BY Masse DEF Behaltene
      <4>3. a \in Nat /\ a + 15 + Groesse(R(p, s)) <= Ende(p)
        BY <3>1, <4>1, Lage
      <4>4. QED
        BY <3>1, <4>1, <4>2, <4>3 DEF KopfDa, Kopf
    <3>4. QED
      BY <3>2, <3>3
  <2>2. phase = "vote" =>
          k <= struktur_vorhanden /\ (k < struktur_vorhanden => k \in DOMAIN struktur)
    <3> SUFFICES ASSUME phase = "vote"
                 PROVE  k <= struktur_vorhanden
                        /\ (k < struktur_vorhanden => k \in DOMAIN struktur)
      OBVIOUS
    <3>1. phase \in NachLayout /\ k \in Nat
      BY DEF NachLayout, TypeOK, TypKette
    <3>2. Halt(1, k) \/ (k < mitte_offset /\ Halt(0, k))
      BY DEF KettenInv, WegInv
    <3>3. CASE Halt(1, k)
      BY <2>1, <3>1, <3>3, Haelften DEF Teile
    <3>4. CASE k < mitte_offset /\ Halt(0, k)
      BY <2>1, <3>1, <3>4, Haelften DEF Teile
    <3>5. QED
      BY <3>2, <3>3, <3>4
  <2>3. phase \in {"sort", "plane"} =>
          \A p \in Teile : laeuft[p] =>
            /\ kw[p] <= Ende(p)
            /\ kw[p] < Ende(p) => kw[p] \in DOMAIN struktur /\ Kopf(kw[p]).teil = p
    <3> SUFFICES ASSUME phase \in {"sort", "plane"}, NEW p \in Teile, laeuft[p]
                 PROVE  Halt(p, kw[p])
      BY <2>1
    <3>1. p < gestartet
      BY DEF LayoutInv, ThreadInv
    <3>2. QED
      BY <3>1 DEF KettenInv, WegInv
  <2>4. QED
    BY <2>2, <2>3 DEF KetteAufKopf
<1>2. QED
  BY <1>1, Kettensatz, Typing, Layoutsatz, PTL

(* The scratch buffers of sort_row and plane_row, sized by max_g, hold     *)
(* every record these walks take up.                                       *)
THEOREM PufferGenuegen == Spec => []PufferReicht
<1>1. TypeOK /\ LayoutInv /\ KettenInv => PufferReicht
  <2> SUFFICES ASSUME TypeOK, LayoutInv, KettenInv, phase \in {"sort", "plane"},
                      NEW p \in Teile, laeuft[p], kw[p] < Ende(p)
               PROVE  Kopf(kw[p]).px + Kopf(kw[p]).nb <= max_g
    BY DEF PufferReicht
  <2>1. p < gestartet /\ phase \in NachLayout
    BY DEF LayoutInv, ThreadInv, NachLayout
  <2>2. Halt(p, kw[p]) /\ kw[p] # Ende(p)
    BY <2>1, Haelften DEF KettenInv, WegInv, TypeOK, TypKette
  <2>3. PICK s \in Behaltene(p) : kw[p] = Stelle(p, s) /\ KopfDa(p, s)
    BY <2>2, AmKopf
  <2>4. Laenge(kw[p]) = Groesse(R(p, s))
    BY <2>1, <2>3, HaltWeiter
  <2>5. QED
    BY <2>4 DEF KettenInv, PufferInv, Laenge
<1>2. QED
  BY <1>1, Kettensatz, Typing, Layoutsatz, PTL

-----------------------------------------------------------------------------
(* The table that is left. *)

Positive == {a \in DOMAIN struktur : struktur[a].art > 0}
Gezaehlt(p) == {a \in Positive : Anfang(p) <= a /\ a < kw[p]}

(* The header of a kept region that part p has written, or the trial write *)
(* of one that is too small, where the next kept region will go.           *)
Geschrieben(p, a) ==
  \/ \E s \in Behaltene(p) : s < rpos[p] /\ a = Stelle(p, s)
  \/ a = kp[p] /\ a < Ende(p)

RestInv ==
  /\ IsFiniteSet(DOMAIN struktur)
  /\ phase \in {"calc", "fill1", "layout"} => DOMAIN struktur = {}
  /\ phase \in {"idle", "ende"} /\ ergebnis_vorhanden = 0 => DOMAIN struktur = {}
  /\ phase = "fill2" =>
       \A a \in DOMAIN struktur : \E p \in Teile : p < gestartet /\ Geschrieben(p, a)
  /\ phase \in {"vote", "sort", "plane", "urteil"} =>
       \A a \in DOMAIN struktur : \E p \in Teile : \E s \in Behaltene(p) : a = Stelle(p, s)

ZaehlInv ==
  /\ phase = "plane" =>
       \A p \in Teile : p < gestartet =>
         /\ count3p[p] = Cardinality(Gezaehlt(p))
         /\ ~laeuft[p] => kw[p] = Ende(p)
  /\ LinienGezaehlt

AnzeigeInv ==
  /\ struvo = 1 => phase = "idle" /\ ergvo = 1 /\ ergebnis_vorhanden = 1
                   /\ Cardinality(Positive) >= 2
  /\ phase = "ende" /\ struktur_vorhanden > 0 =>
       ergebnis_vorhanden = 1 /\ Cardinality(Positive) >= 2
  /\ phase = "urteil" => ergebnis_vorhanden = 1

LinienInv == RestInv /\ ZaehlInv /\ AnzeigeInv

-----------------------------------------------------------------------------
(* The headers that are left.                                              *)

LEMMA InitLinien == Init => LinienInv
BY FS_EmptySet DEF Init, LinienInv, RestInv, ZaehlInv, AnzeigeInv, LinienGezaehlt

(* Dropping or classifying a record only touches a header that is there.   *)
LEMMA Klassifiziert ==
  ASSUME NEW a, NEW u, \/ UNCHANGED struktur
                       \/ Zaehlt(a) /\ struktur' = Mit(a, [Kopf(a) EXCEPT !.art = u])
  PROVE  DOMAIN struktur' = DOMAIN struktur
<1>1. Zaehlt(a) => a \in DOMAIN struktur
  BY DEF Zaehlt, Kopf, Leerkopf
<1>2. QED
  BY <1>1 DEF Mit

LEMMA SchreibtRest ==
  ASSUME TypeOK, LayoutInv, RestInv, NEW p \in Teile, FillRow2(p)
  PROVE  RestInv'
<1>1. /\ phase = "fill2" /\ phase' = "fill2" /\ laeuft[p] /\ phase \in NachLayout
      /\ UNCHANGED <<bild, marke, mitte_offset, struktur_vorhanden, gestartet>>
      /\ rpos' = [rpos EXCEPT ![p] = @ + 1]
  BY DEF FillRow2, NachLayout
<1>2. PICK s, g, c : s = rpos[p] /\ g = Groesse(R(p, s)) /\ c = kp[p]
  OBVIOUS
<1>3. /\ s \in 1 .. Anzahl(p) /\ g \in Nat /\ bild.minsize \in Nat /\ kp[p] \in Nat
      /\ p < gestartet /\ kp[p] = Anfang(p) + marke[p][s - 1]
      /\ rpos'[p] = s + 1 /\ \A q \in Teile \ {p} : rpos'[q] = rpos[q]
  <2>1. s \in 1 .. Anzahl(p) /\ g \in Nat /\ bild.minsize \in Nat
    BY <1>2, RegionTyp, Masse DEF FillRow2, TypeOK, TypThread
  <2>2. p < gestartet /\ kp[p] = Anfang(p) + marke[p][s - 1] /\ kp[p] \in Nat
    BY <1>1, <1>2 DEF LayoutInv, ThreadInv, FuellInv, TypeOK, TypAblage
  <2>3. QED
    BY <1>1, <1>2, <2>1, <2>2 DEF TypeOK, TypThread
<1>4. \A q \in Teile : \A t \in Behaltene(q) : t < rpos[q] => t < rpos'[q]
  BY <1>2, <1>3, Masse DEF Behaltene
<1>5. SUFFICES /\ IsFiniteSet(DOMAIN struktur')
               /\ \A a \in DOMAIN struktur' : \E q \in Teile :
                    q < gestartet /\ Geschrieben(q, a)'
  BY <1>1 DEF RestInv
<1>6. CASE kp[p] < Ende(p)
  <2> DEFINE kopf == [art |-> 1, px |-> R(p, s).px, nb |-> R(p, s).nb,
                      teil |-> IF Behalten2(p, kp[p] + Headersize + g)
                               THEN p ELSE Kopf(kp[p]).teil]
  <2>1. struktur' = Schreibe(kp[p], kopf, 15 + g)
    BY <1>2, <1>6 DEF FillRow2, R, Headersize
  <2>2. kp' = IF Behalten2(p, kp[p] + Headersize + g)
              THEN [kp EXCEPT ![p] = kp[p] + Headersize + g] ELSE kp
    BY <1>2, <1>6 DEF FillRow2, R
  <2>3. DOMAIN struktur' = (DOMAIN struktur \ (kp[p] .. kp[p] + (15 + g) - 1)) \cup {kp[p]}
    BY <2>1 DEF Schreibe
  <2>4. IsFiniteSet(DOMAIN struktur')
    <3>1. /\ IsFiniteSet(DOMAIN struktur)
          /\ DOMAIN struktur' \in SUBSET (DOMAIN struktur \cup {kp[p]})
      BY <2>3 DEF RestInv
    <3>2. QED
      BY <3>1, FS_AddElement, FS_Subset
  <2>5. Geschrieben(p, c)'
    <3>1. CASE GrossGenug(p, s)
      <4>1. s \in Behaltene(p) /\ s < rpos'[p] /\ Stelle(p, s) = c
        BY <1>2, <1>3, <3>1 DEF Behaltene, Stelle
      <4>2. QED
        BY <1>1, <4>1, OrteBleiben DEF Geschrieben
    <3>2. CASE ~GrossGenug(p, s)
      <4>1. ~Behalten2(p, kp[p] + Headersize + g)
        BY <1>2, <1>3, <3>2 DEF Behalten2, GrossGenug, Headersize
      <4>2. kp'[p] = c /\ Ende(p)' = Ende(p) /\ c < Ende(p)
        BY <1>1, <1>2, <1>6, <2>2, <4>1, OrteBleiben
      <4>3. QED
        BY <4>2 DEF Geschrieben
    <3>3. QED
      BY <3>1, <3>2
  <2>6. ASSUME NEW a \in DOMAIN struktur', a # c
        PROVE  \E q \in Teile : q < gestartet /\ Geschrieben(q, a)'
    <3>1. a \in DOMAIN struktur
      BY <1>2, <2>3, <2>6
    <3>2. PICK q \in Teile : q < gestartet /\ Geschrieben(q, a)
      BY <1>1, <3>1 DEF RestInv
    <3>3. a = kp[q] /\ a < Ende(q) => q # p /\ kp'[q] = kp[q]
      BY <1>2, <2>2, <2>6 DEF TypeOK, TypAblage
    <3>4. Geschrieben(q, a)'
      BY <1>1, <1>4, <3>2, <3>3, OrteBleiben DEF Geschrieben
    <3>5. QED
      BY <3>2, <3>4
  <2>7. p < gestartet /\ Geschrieben(p, c)'
    BY <1>3, <2>5
  <2>8. ASSUME NEW a \in DOMAIN struktur'
        PROVE  \E q \in Teile : q < gestartet /\ Geschrieben(q, a)'
    <3>1. CASE a = c
      BY <2>7, <3>1
    <3>2. CASE a # c
      BY <2>6, <3>2
    <3>3. QED
      BY <3>1, <3>2
  <2>9. QED
    BY <2>4, <2>8
<1>7. CASE ~(kp[p] < Ende(p))
  <2>1. struktur' = struktur /\ kp' = kp
    BY <1>7 DEF FillRow2
  <2>2. \A q \in Teile : \A a : Geschrieben(q, a) => Geschrieben(q, a)'
    BY <1>1, <1>4, <2>1, OrteBleiben DEF Geschrieben
  <2>3. QED
    BY <1>1, <2>1, <2>2 DEF RestInv
<1>8. QED
  BY <1>6, <1>7

(* When the second pass is joined there is no trial write left.            *)
LEMMA NachFill2Rest ==
  ASSUME TypeOK, LayoutInv, RestInv, NachFill2
  PROVE  RestInv'
<1>1. /\ phase = "fill2" /\ phase' = "vote" /\ phase \in NachLayout
      /\ gestartet = 2 /\ \A p \in Teile : hCompleted[p]
      /\ UNCHANGED <<bild, marke, mitte_offset, struktur_vorhanden, struktur>>
  BY DEF NachFill2, AlleFertig, NachLayout, zaehler, ablage
<1>2. \A p \in Teile : ~laeuft[p]
  BY <1>1 DEF LayoutInv, ThreadInv, Parallel, Teile
<1>3. ASSUME NEW p \in Teile PROVE kp[p] = Ende(p)
  <2>1. /\ rpos[p] = Anzahl(p) + 1 /\ kp[p] = Anfang(p) + marke[p][rpos[p] - 1]
        /\ Anzahl(p) \in Nat
    BY <1>1, <1>2, Masse DEF LayoutInv, FuellInv, Teile
  <2>2. QED
    BY <1>1, <2>1, Haelften DEF Platz
<1>4. ASSUME NEW a \in DOMAIN struktur
      PROVE  \E p \in Teile : \E s \in Behaltene(p) : a = Stelle(p, s)
  <2>1. PICK p \in Teile : Geschrieben(p, a)
    BY <1>1 DEF RestInv
  <2>2. ~(a = kp[p] /\ a < Ende(p))
    BY <1>1, <1>3, Haelften
  <2>3. QED
    BY <2>1, <2>2 DEF Geschrieben
<1>5. QED
  BY <1>1, <1>4, OrteBleiben DEF RestInv

LEMMA StarteRest ==
  ASSUME TypeOK, LayoutInv, RestInv, Starte
  PROVE  RestInv'
<1>1. /\ phase' = phase /\ phase \in Parallel /\ gestartet \in Teile
      /\ UNCHANGED <<bild, marke, mitte_offset, struktur_vorhanden, struktur, kp,
                     ergebnis_vorhanden>>
      /\ gestartet' = gestartet + 1 /\ rpos' = [rpos EXCEPT ![gestartet] = 1]
  BY DEF Starte, zaehler, ablage, anzeige, TypeOK, TypThread, Teile
<1>2. ASSUME NEW p \in Teile, p < gestartet, NEW a, Geschrieben(p, a)
      PROVE  p < gestartet' /\ Geschrieben(p, a)'
  <2>1. p < gestartet' /\ rpos'[p] = rpos[p]
    BY <1>1, <1>2 DEF TypeOK, TypThread, Teile
  <2>2. QED
    BY <1>1, <1>2, <2>1, OrteBleiben DEF Geschrieben
<1>3. phase = "fill2" =>
        \A a \in DOMAIN struktur' : \E p \in Teile : p < gestartet' /\ Geschrieben(p, a)'
  BY <1>1, <1>2 DEF RestInv
<1>4. QED
  BY <1>1, <1>3, OrteBleiben DEF RestInv, Parallel

(* From the vote on headers change, but none comes and none goes.          *)
LEMMA WegRest ==
  ASSUME RestInv, Vote \/ \E p \in Teile : SortRow(p) \/ PlaneRow(p)
  PROVE  RestInv'
<1>1. /\ phase \in {"vote", "sort", "plane"} /\ phase' = phase
      /\ UNCHANGED <<bild, marke, mitte_offset, struktur_vorhanden, ergebnis_vorhanden>>
  BY DEF Vote, SortRow, PlaneRow, zaehler, anzeige
<1>2. \E a, u : \/ UNCHANGED struktur
                \/ Zaehlt(a) /\ struktur' = Mit(a, [Kopf(a) EXCEPT !.art = u])
  BY DEF Vote, SortRow, PlaneRow
<1>3. DOMAIN struktur' = DOMAIN struktur
  BY <1>2, Klassifiziert
<1>4. QED
  BY <1>1, <1>3, OrteBleiben DEF RestInv

LEMMA RahmenRest ==
  ASSUME RestInv,
         UNCHANGED <<bild, phase, marke, mitte_offset, struktur_vorhanden, struktur,
                     kp, gestartet, rpos, ergebnis_vorhanden>>
  PROVE  RestInv'
<1>1. \A p \in Teile : \A a : Geschrieben(p, a) => Geschrieben(p, a)'
  BY OrteBleiben DEF Geschrieben
<1>2. QED
  BY <1>1, OrteBleiben DEF RestInv

LEMMA WorkerRest ==
  ASSUME TypeOK, LayoutInv, RestInv, NEW p \in Teile, Worker(p)
  PROVE  RestInv'
<1>1. CASE FillRow2(p)
  BY <1>1, SchreibtRest
<1>2. CASE SortRow(p) \/ PlaneRow(p)
  BY <1>2, WegRest
<1>3. CASE FillRow1(p)
  BY <1>3 DEF FillRow1, RestInv, ablage
<1>4. CASE CalcRow(p) \/ FillFertig(p) \/ KetteFertig(p)
  BY <1>4, RahmenRest DEF CalcRow, FillFertig, KetteFertig, zaehler, ablage, anzeige
<1>5. QED
  BY <1>1, <1>2, <1>3, <1>4 DEF Worker

(* The array is empty whenever a run begins or gives up.                   *)
LEMMA HauptRest ==
  ASSUME TypeOK, LayoutInv, RestInv, AnzeigeInv, Haupt \/ OnGo
  PROVE  RestInv'
<1>1. CASE Starte
  BY <1>1, StarteRest
<1>2. CASE NachFill2
  BY <1>2, NachFill2Rest
<1>3. CASE Vote
  BY <1>3, WegRest
<1>4. CASE NachVote \/ NachSort \/ NachPlane
  BY <1>4, OrteBleiben DEF NachVote, NachSort, NachPlane, RestInv, zaehler, ablage
<1>5. CASE Urteil
  <2>1. CASE ZuWenig
    BY <1>5, <2>1, FS_EmptySet DEF Urteil, RestInv
  <2>2. CASE ~ZuWenig
    BY <1>5, <2>2 DEF Urteil, RestInv, AnzeigeInv
  <2>3. QED
    BY <2>1, <2>2
<1>6. CASE OnGo
  <2>1. /\ phase = "idle" /\ phase' = "calc" /\ ergebnis_vorhanden \in {0, 1}
        /\ struktur' = IF ergebnis_vorhanden = 1 THEN <<>> ELSE struktur
    BY <1>6 DEF OnGo, TypeOK, TypAnzeige
  <2>2. DOMAIN struktur' = {}
    BY <2>1 DEF RestInv
  <2>3. QED
    BY <2>1, <2>2, FS_EmptySet DEF RestInv
<1>7. CASE NachCalc \/ NachFill1 \/ Layout \/ CallocFehlt
  <2>1. /\ phase \in {"calc", "fill1", "layout"}
        /\ phase' \in {"fill1", "layout", "fill2", "ende"} /\ struktur' = struktur
    BY <1>7 DEF NachCalc, NachFill1, Layout, CallocFehlt, ablage
  <2>2. QED
    BY <2>1 DEF RestInv
<1>8. CASE GoEnde
  BY <1>8 DEF GoEnde, RestInv, ablage
<1>9. QED
  BY <1>1, <1>2, <1>3, <1>4, <1>5, <1>6, <1>7, <1>8 DEF Haupt

-----------------------------------------------------------------------------
(* The lines that are counted.                                             *)

LEMMA HaltImTeil ==
  ASSUME TypeOK, LayoutInv, phase \in NachLayout, NEW p \in Teile, NEW a, Halt(p, a)
  PROVE  a \in Nat /\ Anfang(p) <= a /\ a <= Ende(p)
<1>1. Anfang(p) \in Nat /\ Platz(p) \in Nat /\ Ende(p) = Anfang(p) + Platz(p)
  BY Haelften, Masse
<1>2. CASE a = Ende(p)
  BY <1>1, <1>2
<1>3. CASE a # Ende(p)
  <2>1. PICK s \in Behaltene(p) : a = Stelle(p, s)
    BY <1>3 DEF Halt
  <2>2. Groesse(R(p, s)) \in Nat
    BY Masse DEF Behaltene
  <2>3. a \in Nat /\ Anfang(p) <= a /\ a + 15 + Groesse(R(p, s)) <= Ende(p)
    BY <2>1, Lage
  <2>4. QED
    BY <1>1, <2>2, <2>3
<1>4. QED
  BY <1>2, <1>3

LEMMA Endlich ==
  ASSUME RestInv, NEW p
  PROVE  IsFiniteSet(Positive) /\ IsFiniteSet(Gezaehlt(p))
<1>1. Positive \in SUBSET DOMAIN struktur /\ Gezaehlt(p) \in SUBSET DOMAIN struktur
  BY DEF Positive, Gezaehlt
<1>2. QED
  BY <1>1, FS_Subset DEF RestInv

(* A verdict decides whether the record it is about is positive, and       *)
(* leaves the others alone.                                                *)
LEMMA UrteilZaehlt ==
  ASSUME TypStruktur, NEW a \in DOMAIN struktur, NEW u \in {1, 0, -1, -2},
         IF Zaehlt(a) THEN struktur' = Mit(a, [Kopf(a) EXCEPT !.art = u])
                      ELSE u = 0 /\ UNCHANGED struktur
  PROVE  /\ a \in Positive' <=> u > 0
         /\ \A b : b # a => (b \in Positive' <=> b \in Positive)
<1>1. Kopf(a) = struktur[a] /\ struktur[a] \in KopfSatz
  BY DEF Kopf, TypStruktur
<1>2. CASE Zaehlt(a)
  <2>1. /\ DOMAIN struktur' = DOMAIN struktur
        /\ struktur'[a] = [struktur[a] EXCEPT !.art = u]
        /\ \A b \in DOMAIN struktur : b # a => struktur'[b] = struktur[b]
    BY <1>1, <1>2 DEF Mit
  <2>2. struktur'[a].art = u
    BY <1>1, <2>1 DEF KopfSatz
  <2>3. QED
    BY <2>1, <2>2 DEF Positive
<1>3. CASE ~Zaehlt(a)
  <2>1. u = 0 /\ struktur' = struktur /\ ~(struktur[a].art > 0)
    BY <1>1, <1>3 DEF Zaehlt
  <2>2. QED
    BY <2>1 DEF Positive
<1>4. QED
  BY <1>2, <1>3

(* plane_row counts the record it stands at exactly if it keeps it.        *)
LEMMA PlaneRowZaehlt ==
  ASSUME TypeOK, LayoutInv, KettenInv, RestInv, ZaehlInv,
         NEW p \in Teile, PlaneRow(p)
  PROVE  ZaehlInv'
<1>1. /\ phase = "plane" /\ phase' = "plane" /\ phase \in NachLayout
      /\ laeuft[p] /\ kw[p] < Ende(p) /\ kw' = [kw EXCEPT ![p] = Weiter(kw[p])]
      /\ UNCHANGED <<bild, marke, mitte_offset, struktur_vorhanden, gestartet, laeuft>>
  BY DEF PlaneRow, NachLayout, thread, zaehler
<1>2. PICK u \in {1, 0, -1, -2} :
        /\ IF Zaehlt(kw[p])
           THEN struktur' = Mit(kw[p], [Kopf(kw[p]) EXCEPT !.art = u])
           ELSE u = 0 /\ UNCHANGED struktur
        /\ count3p' = IF u > 0 THEN [count3p EXCEPT ![p] = @ + 1] ELSE count3p
  BY DEF PlaneRow, Linie
<1>3. PICK a : a = kw[p]
  OBVIOUS
<1>4. p < gestartet /\ Halt(p, a) /\ a # Ende(p)
  BY <1>1, <1>3, Haelften DEF LayoutInv, ThreadInv, KettenInv, WegInv, TypeOK, TypKette
<1>5. PICK s \in Behaltene(p) : a = Stelle(p, s) /\ KopfDa(p, s)
  BY <1>1, <1>4, AmKopf
<1>6. /\ kw'[p] = Anfang(p) + marke[p][s] /\ kw'[p] \in Nat /\ a < kw'[p]
      /\ a \in Nat /\ Anfang(p) <= a /\ a \in DOMAIN struktur
  <2>1. kw'[p] = Anfang(p) + marke[p][s]
    BY <1>1, <1>3, <1>5, HaltWeiter DEF TypeOK, TypKette
  <2>2. a + 15 + Groesse(R(p, s)) = Anfang(p) + marke[p][s] /\ a \in Nat /\ Anfang(p) <= a
    BY <1>1, <1>5, Lage
  <2>3. Groesse(R(p, s)) \in Nat
    BY Masse DEF Behaltene
  <2>4. QED
    BY <1>5, <2>1, <2>2, <2>3 DEF KopfDa
<1>7. /\ a \in Positive' <=> u > 0
      /\ \A b : b # a => (b \in Positive' <=> b \in Positive)
  BY <1>2, <1>3, <1>6, UrteilZaehlt DEF TypeOK
<1>8. DOMAIN struktur \subseteq Nat /\ Positive \subseteq DOMAIN struktur
  BY DEF TypeOK, TypStruktur, Positive
<1>9. a \notin Gezaehlt(p)
  BY <1>3, <1>6 DEF Gezaehlt
<1>10. Gezaehlt(p)' = IF u > 0 THEN Gezaehlt(p) \cup {a} ELSE Gezaehlt(p)
  <2>1. ASSUME NEW b \in Positive, Anfang(p) <= b, b < kw'[p], b # a
        PROVE  b < a
    <3>1. PICK q \in Teile : \E t \in Behaltene(q) : b = Stelle(q, t)
      BY <1>1, <1>8, <2>1 DEF RestInv
    <3>2. PICK t \in Behaltene(q) : b = Stelle(q, t)
      BY <3>1
    <3>3. ~(b < a) => q = p /\ t = s
      BY <1>1, <1>5, <1>6, <2>1, <3>2, Dazwischen
    <3>4. QED
      BY <1>5, <2>1, <3>2, <3>3
  <2>2. \A b : b # a => (b \in Gezaehlt(p)' <=> b \in Gezaehlt(p))
    <3> SUFFICES ASSUME NEW b, b # a
                 PROVE  b \in Gezaehlt(p)' <=> b \in Gezaehlt(p)
      OBVIOUS
    <3>1. b \in Gezaehlt(p)' <=> b \in Positive /\ Anfang(p) <= b /\ b < kw'[p]
      BY <1>1, <1>7, OrteBleiben DEF Gezaehlt
    <3>2. b \in Gezaehlt(p) <=> b \in Positive /\ Anfang(p) <= b /\ b < a
      BY <1>3 DEF Gezaehlt
    <3>3. b \in Positive /\ b < a => b < kw'[p]
      BY <1>6, <1>8
    <3>4. QED
      BY <2>1, <3>1, <3>2, <3>3
  <2>3. a \in Gezaehlt(p)' <=> u > 0
    BY <1>1, <1>6, <1>7, OrteBleiben DEF Gezaehlt
  <2>4. QED
    BY <1>9, <2>2, <2>3
<1>11. ASSUME NEW q \in Teile, q # p, q < gestartet
       PROVE  Gezaehlt(q)' = Gezaehlt(q)
  <2>1. kw'[q] = kw[q] /\ Anfang(q)' = Anfang(q)
    BY <1>1, <1>11, OrteBleiben DEF TypeOK, TypKette
  <2>2. ~(Anfang(q) <= a /\ a < kw[q])
    <3>1. kw[q] \in Nat /\ kw[q] <= Ende(q)
      BY <1>1, <1>11, HaltImTeil DEF KettenInv, WegInv
    <3>2. a \in Nat /\ Anfang(p) <= a /\ a < Ende(p)
      BY <1>1, <1>3, <1>6
    <3>3. QED
      BY <1>1, <1>11, <3>1, <3>2, Haelften DEF Teile
  <2>3. QED
    BY <1>7, <2>1, <2>2 DEF Gezaehlt
<1>12. ASSUME NEW q \in Teile, q < gestartet
       PROVE  /\ count3p'[q] = Cardinality(Gezaehlt(q)')
              /\ ~laeuft'[q] => kw'[q] = Ende(q)'
  <2>1. count3p[q] = Cardinality(Gezaehlt(q)) /\ (~laeuft[q] => kw[q] = Ende(q))
    BY <1>1, <1>12 DEF ZaehlInv
  <2>2. count3p \in [Teile -> Nat] /\ kw \in [Teile -> Nat]
    BY DEF TypeOK, TypKette
  <2>3. CASE q = p
    <3>1. count3p'[q] = IF u > 0 THEN count3p[q] + 1 ELSE count3p[q]
      BY <1>2, <2>2, <2>3
    <3>2. Cardinality(Gezaehlt(p) \cup {a}) = Cardinality(Gezaehlt(p)) + 1
      BY <1>9, Endlich, FS_AddElement
    <3>3. QED
      BY <1>1, <1>10, <2>1, <2>3, <3>1, <3>2
  <2>4. CASE q # p
    <3>1. count3p'[q] = count3p[q] /\ kw'[q] = kw[q]
      BY <1>1, <1>2, <2>2, <2>4
    <3>2. Gezaehlt(q)' = Gezaehlt(q)
      BY <1>11, <1>12, <2>4
    <3>3. QED
      BY <1>1, <2>1, <3>1, <3>2, OrteBleiben
  <2>5. QED
    BY <2>3, <2>4
<1>13. QED
  BY <1>1, <1>12 DEF ZaehlInv, LinienGezaehlt

LEMMA RahmenZaehl ==
  ASSUME ZaehlInv,
         UNCHANGED <<phase, mitte_offset, struktur_vorhanden, struktur, kw, count3p,
                     gestartet, laeuft>>
  PROVE  ZaehlInv'
<1>1. \A p \in Teile : Gezaehlt(p)' = Gezaehlt(p) /\ Ende(p)' = Ende(p)
  BY DEF Gezaehlt, Positive, Anfang, Ende
<1>2. QED
  BY <1>1 DEF ZaehlInv, LinienGezaehlt, Teile

(* A worker of the last phase begins with nothing counted.                 *)
LEMMA StarteZaehlt ==
  ASSUME TypeOK, LayoutInv, ZaehlInv, Starte
  PROVE  ZaehlInv'
<1>1. /\ phase' = phase /\ phase \in Parallel /\ gestartet \in Teile
      /\ UNCHANGED <<mitte_offset, struktur_vorhanden, struktur>>
      /\ gestartet' = gestartet + 1 /\ laeuft' = [laeuft EXCEPT ![gestartet] = TRUE]
      /\ phase = "plane" => /\ kw' = [kw EXCEPT ![gestartet] = Anfang(gestartet)]
                            /\ count3p' = [count3p EXCEPT ![gestartet] = 0]
  BY DEF Starte, ablage, TypeOK, TypThread, Teile
<1>2. CASE phase = "plane"
  <2>1. \A q \in Teile : Anfang(q)' = Anfang(q) /\ Ende(q)' = Ende(q) /\ Anfang(q) \in Nat
    BY <1>1, <1>2, Haelften DEF Anfang, Ende, NachLayout
  <2>2. /\ count3p \in [Teile -> Nat] /\ kw \in [Teile -> Nat]
        /\ laeuft \in [Teile -> BOOLEAN] /\ Positive \subseteq Nat /\ Positive' = Positive
    BY <1>1 DEF TypeOK, TypKette, TypThread, TypStruktur, Positive
  <2>3. ASSUME NEW q \in Teile, q < gestartet'
        PROVE  /\ count3p'[q] = Cardinality(Gezaehlt(q)')
               /\ ~laeuft'[q] => kw'[q] = Ende(q)'
    <3>1. CASE q = gestartet
      <4>1. kw'[q] = Anfang(q) /\ count3p'[q] = 0 /\ laeuft'[q]
        BY <1>1, <1>2, <2>2, <3>1
      <4>2. \A a \in Positive' : ~(Anfang(q)' <= a /\ a < kw'[q])
        BY <2>1, <2>2, <4>1
      <4>3. Gezaehlt(q)' = {}
        BY <4>2 DEF Gezaehlt
      <4>4. QED
        BY <4>1, <4>3, FS_EmptySet
    <3>2. CASE q # gestartet
      <4>1. q < gestartet
        BY <1>1, <2>3, <3>2 DEF Teile
      <4>2. kw'[q] = kw[q] /\ count3p'[q] = count3p[q] /\ laeuft'[q] = laeuft[q]
        BY <1>1, <1>2, <2>2, <3>2
      <4>3. Gezaehlt(q)' = Gezaehlt(q)
        BY <2>1, <2>2, <4>2 DEF Gezaehlt
      <4>4. QED
        BY <1>2, <2>1, <4>1, <4>2, <4>3 DEF ZaehlInv
    <3>3. QED
      BY <3>1, <3>2
  <2>4. QED
    BY <1>1, <1>2, <2>3 DEF ZaehlInv, LinienGezaehlt
<1>3. CASE phase # "plane"
  BY <1>1, <1>3 DEF ZaehlInv, LinienGezaehlt, Parallel
<1>4. QED
  BY <1>2, <1>3

LEMMA WorkerZaehlt ==
  ASSUME TypeOK, LayoutInv, KettenInv, RestInv, ZaehlInv, NEW p \in Teile, Worker(p)
  PROVE  ZaehlInv'
<1>1. CASE PlaneRow(p)
  BY <1>1, PlaneRowZaehlt
<1>2. CASE KetteFertig(p) /\ phase = "plane"
  <2>1. /\ phase' = "plane" /\ phase \in NachLayout /\ laeuft[p] /\ kw[p] >= Ende(p)
        /\ UNCHANGED <<mitte_offset, struktur_vorhanden, struktur, kw, count3p, gestartet>>
        /\ laeuft' = [laeuft EXCEPT ![p] = FALSE] /\ laeuft \in [Teile -> BOOLEAN]
    BY <1>2 DEF KetteFertig, Melde, ablage, kette, NachLayout, TypeOK, TypThread
  <2>2. kw[p] = Ende(p)
    <3>1. p < gestartet
      BY <2>1 DEF LayoutInv, ThreadInv
    <3>2. Halt(p, kw[p])
      BY <1>2, <3>1 DEF KettenInv, WegInv
    <3>3. kw[p] \in Nat /\ kw[p] <= Ende(p) /\ Ende(p) \in Nat
      BY <2>1, <3>2, HaltImTeil, Haelften
    <3>4. QED
      BY <2>1, <3>3
  <2>3. \A q \in Teile : Gezaehlt(q)' = Gezaehlt(q) /\ Ende(q)' = Ende(q)
    BY <2>1 DEF Gezaehlt, Positive, Anfang, Ende
  <2>4. QED
    BY <1>2, <2>1, <2>2, <2>3 DEF ZaehlInv, LinienGezaehlt
<1>3. CASE ~PlaneRow(p) /\ phase # "plane"
  <2>1. phase' = phase /\ phase \notin {"plane", "urteil"}
    BY <1>3 DEF Worker, CalcRow, FillRow1, FillRow2, FillFertig, SortRow, KetteFertig
  <2>2. QED
    BY <2>1 DEF ZaehlInv, LinienGezaehlt
<1>4. phase = "plane" => PlaneRow(p) \/ KetteFertig(p)
  BY DEF Worker, CalcRow, FillRow1, FillRow2, FillFertig, SortRow
<1>5. QED
  BY <1>1, <1>2, <1>3, <1>4

(* The two halves together hold all lines, and none of them twice.         *)
LEMMA NachPlaneZaehlt ==
  ASSUME TypeOK, LayoutInv, RestInv, ZaehlInv, NachPlane
  PROVE  ZaehlInv'
<1>1. /\ phase = "plane" /\ phase' = "urteil" /\ phase \in NachLayout
      /\ gestartet = 2 /\ \A p \in Teile : hCompleted[p]
      /\ UNCHANGED <<struktur, count3p>>
  BY DEF NachPlane, AlleFertig, NachLayout, ablage, kette
<1>2. \A p \in Teile : count3p[p] = Cardinality(Gezaehlt(p)) /\ kw[p] = Ende(p)
  BY <1>1 DEF LayoutInv, ThreadInv, ZaehlInv, Parallel, Teile
<1>3. \A a \in Positive :
        /\ a \in Nat
        /\ \E p \in Teile : Anfang(p) <= a /\ a < Ende(p)
  <2> SUFFICES ASSUME NEW a \in Positive
               PROVE  a \in Nat /\ \E p \in Teile : Anfang(p) <= a /\ a < Ende(p)
    OBVIOUS
  <2>1. PICK p \in Teile : \E s \in Behaltene(p) : a = Stelle(p, s)
    BY <1>1 DEF RestInv, Positive
  <2>2. PICK s \in Behaltene(p) : a = Stelle(p, s)
    BY <2>1
  <2>3. Groesse(R(p, s)) \in Nat
    BY Masse DEF Behaltene
  <2>4. a \in Nat /\ Anfang(p) <= a /\ a + 15 + Groesse(R(p, s)) <= Ende(p) /\ Ende(p) \in Nat
    BY <1>1, <2>2, Lage, Haelften
  <2>5. a < Ende(p)
    BY <2>3, <2>4
  <2>6. QED
    BY <2>4, <2>5
<1>4. Positive = Gezaehlt(0) \cup Gezaehlt(1)
  BY <1>2, <1>3 DEF Gezaehlt, Teile
<1>5. Gezaehlt(0) \cap Gezaehlt(1) = {}
  <2>1. \A a \in Gezaehlt(0) \cap Gezaehlt(1) :
          a \in Nat /\ a < mitte_offset /\ mitte_offset <= a
    BY <1>2, <1>3 DEF Gezaehlt, Anfang, Ende, Teile
  <2>2. mitte_offset \in Nat
    BY <1>1, Haelften
  <2>3. QED
    BY <2>1, <2>2
<1>6. Cardinality(Positive) = Cardinality(Gezaehlt(0)) + Cardinality(Gezaehlt(1))
  <2>1. IsFiniteSet(Gezaehlt(0)) /\ IsFiniteSet(Gezaehlt(1))
    BY Endlich
  <2>2. /\ Cardinality(Gezaehlt(0)) \in Nat /\ Cardinality(Gezaehlt(1)) \in Nat
        /\ Cardinality({}) = 0
    BY <2>1, FS_CardinalityType, FS_EmptySet
  <2>3. Cardinality(Gezaehlt(0) \cup Gezaehlt(1))
          = Cardinality(Gezaehlt(0)) + Cardinality(Gezaehlt(1)) - Cardinality({})
    BY <1>5, <2>1, FS_Union
  <2>4. QED
    BY <1>4, <2>2, <2>3
<1>7. LinienGezaehlt'
  BY <1>1, <1>2, <1>6 DEF LinienGezaehlt, Positive, Teile
<1>8. QED
  BY <1>1, <1>7 DEF ZaehlInv

LEMMA HauptZaehlt ==
  ASSUME TypeOK, LayoutInv, RestInv, ZaehlInv, Haupt \/ OnGo
  PROVE  ZaehlInv'
<1>1. CASE Starte
  BY <1>1, StarteZaehlt
<1>2. CASE NachPlane
  BY <1>2, NachPlaneZaehlt
<1>3. CASE NachSort
  BY <1>3 DEF NachSort, ZaehlInv, LinienGezaehlt, Teile
<1>4. CASE \/ OnGo \/ NachCalc \/ NachFill1 \/ Layout \/ CallocFehlt \/ NachFill2
           \/ Vote \/ NachVote \/ Urteil \/ GoEnde
  <2>1. phase' \notin {"plane", "urteil"}
    BY <1>4 DEF OnGo, NachCalc, NachFill1, Layout, CallocFehlt, NachFill2, Vote,
                NachVote, Urteil, GoEnde
  <2>2. QED
    BY <2>1 DEF ZaehlInv, LinienGezaehlt
<1>5. QED
  BY <1>1, <1>2, <1>3, <1>4 DEF Haupt

-----------------------------------------------------------------------------
(* What a paint may meet.                                                  *)

LEMMA WorkerZeigt ==
  ASSUME TypeOK, LayoutInv, AnzeigeInv, NEW p \in Teile, Worker(p)
  PROVE  AnzeigeInv'
<1>1. phase' = phase /\ phase \in Parallel /\ UNCHANGED anzeige
  BY DEF Worker, CalcRow, FillRow1, FillRow2, FillFertig, SortRow, PlaneRow, KetteFertig,
         Parallel
<1>2. QED
  BY <1>1 DEF AnzeigeInv, anzeige, Parallel

(* Only a table that passed the verdict is shown, and only between runs.   *)
LEMMA HauptZeigt ==
  ASSUME TypeOK, LayoutInv, RestInv, ZaehlInv, AnzeigeInv, Haupt \/ OnGo
  PROVE  AnzeigeInv'
<1>1. CASE \/ Starte \/ NachCalc \/ Layout \/ NachFill2 \/ Vote \/ NachVote \/ NachSort
  <2>1. /\ phase \notin {"idle", "ende", "urteil"}
        /\ phase' \notin {"idle", "ende", "urteil"} /\ struvo' = struvo
    BY <1>1 DEF Starte, NachCalc, Layout, NachFill2, Vote, NachVote, NachSort, anzeige,
                Parallel
  <2>2. QED
    BY <2>1 DEF AnzeigeInv
<1>2. CASE NachFill1 \/ CallocFehlt
  <2>1. /\ phase \in {"fill1", "layout"} /\ struvo' = struvo
        /\ phase' \in {"layout", "ende"}
        /\ phase' = "ende" => ~(struktur_vorhanden' > 0)
    BY <1>2 DEF NachFill1, CallocFehlt, anzeige
  <2>2. QED
    BY <2>1 DEF AnzeigeInv
<1>3. CASE NachPlane
  BY <1>3 DEF NachPlane, AnzeigeInv
<1>4. CASE Urteil
  <2>1. phase = "urteil" /\ phase' = "ende" /\ struvo' = struvo /\ struvo # 1
    BY <1>4 DEF Urteil, AnzeigeInv
  <2>2. CASE ZuWenig
    BY <1>4, <2>1, <2>2 DEF Urteil, AnzeigeInv
  <2>3. CASE ~ZuWenig
    <3>1. Cardinality(Positive) = count3p[0] + count3p[1]
      BY <2>1 DEF ZaehlInv, LinienGezaehlt, Positive
    <3>2. count3p[0] + count3p[1] \in Nat
      BY DEF TypeOK, TypKette, Teile
    <3>3. Cardinality(Positive) >= 2
      BY <2>3, <3>1, <3>2 DEF ZuWenig
    <3>4. /\ Positive' = Positive /\ ergebnis_vorhanden' = 1
      BY <1>4, <2>1, <2>3 DEF Urteil, AnzeigeInv, Positive
    <3>5. QED
      BY <2>1, <3>3, <3>4 DEF AnzeigeInv
  <2>4. QED
    BY <2>2, <2>3
<1>5. CASE GoEnde
  <2>1. /\ phase = "ende" /\ phase' = "idle" /\ Positive' = Positive
        /\ ergvo' = ergebnis_vorhanden /\ ergebnis_vorhanden' = ergebnis_vorhanden
        /\ struvo' = 1 => struktur_vorhanden > 0
    BY <1>5 DEF GoEnde, Zeigbar, Positive, ablage
  <2>2. QED
    BY <2>1 DEF AnzeigeInv
<1>6. CASE OnGo
  BY <1>6 DEF OnGo, AnzeigeInv
<1>7. QED
  BY <1>1, <1>2, <1>3, <1>4, <1>5, <1>6 DEF Haupt

-----------------------------------------------------------------------------
(* Nothing but headers of kept regions is left in the table, plane_row's   *)
(* counters agree with it, and a paint only meets one that is complete.    *)
THEOREM Liniensatz == Spec => []LinienInv
<1>1. TypeOK /\ LayoutInv /\ KettenInv /\ LinienInv /\ [Next]_vars => LinienInv'
  <2> SUFFICES ASSUME TypeOK, LayoutInv, KettenInv, LinienInv, [Next]_vars
               PROVE  LinienInv'
    OBVIOUS
  <2>1. RestInv /\ ZaehlInv /\ AnzeigeInv
    BY DEF LinienInv
  <2>2. CASE UNCHANGED vars
    <3>1. RestInv' /\ ZaehlInv'
      BY <2>1, <2>2, RahmenRest, RahmenZaehl
         DEF vars, thread, zaehler, ablage, kette, anzeige
    <3>2. AnzeigeInv'
      BY <2>1, <2>2 DEF AnzeigeInv, Positive, vars, ablage, anzeige
    <3>3. QED
      BY <3>1, <3>2 DEF LinienInv
  <2>3. ASSUME NEW p \in Teile, Worker(p) PROVE LinienInv'
    BY <2>1, <2>3, WorkerRest, WorkerZaehlt, WorkerZeigt DEF LinienInv
  <2>4. CASE Haupt \/ OnGo
    BY <2>1, <2>4, HauptRest, HauptZaehlt, HauptZeigt DEF LinienInv
  <2>5. QED
    BY <2>2, <2>3, <2>4 DEF Next
<1>2. QED
  BY <1>1, InitLinien, Typing, Layoutsatz, Kettensatz, PTL DEF Spec

(* The count that decides whether a correction is tried is the number of   *)
(* lines in the table, whichever worker kept them.                         *)
THEOREM ZaehlungStimmt == Spec => []LinienGezaehlt
<1>1. LinienInv => LinienGezaehlt
  BY DEF LinienInv, ZaehlInv
<1>2. QED
  BY <1>1, Liniensatz, PTL

(* A paint in the middle of a run shows no table; one between two runs     *)
(* finds a finished table with at least two lines and no worker at it.     *)
THEOREM NurFertigesGemalt == Spec => []MalenSicher
<1>1. LayoutInv /\ LinienInv => MalenSicher
  BY DEF LinienInv, AnzeigeInv, Positive, MalenSicher, LayoutInv, ThreadInv, Parallel
<1>2. QED
  BY <1>1, Liniensatz, Layoutsatz, PTL

(* From the vote on no record is lost, and what one test dropped no later  *)
(* one brings back: each test only takes up records that are positive.     *)
THEOREM VerworfeneBleiben == Spec => UrteilBleibt
<1>1. ASSUME TypeOK, Next, phase \in {"vote", "sort", "plane"}, NEW a \in DOMAIN struktur
      PROVE  /\ a \in DOMAIN struktur'
             /\ struktur[a].art <= 0 => struktur'[a] = struktur[a]
  <2>1. CASE Vote \/ \E p \in Teile : SortRow(p) \/ PlaneRow(p)
    <3>1. \E b, u : \/ UNCHANGED struktur
                    \/ Zaehlt(b) /\ struktur' = Mit(b, [Kopf(b) EXCEPT !.art = u])
      BY <2>1 DEF Vote, SortRow, PlaneRow
    <3>2. PICK b, u : \/ UNCHANGED struktur
                      \/ Zaehlt(b) /\ struktur' = Mit(b, [Kopf(b) EXCEPT !.art = u])
      BY <3>1
    <3>3. CASE UNCHANGED struktur
      BY <1>1, <3>3
    <3>4. CASE Zaehlt(b) /\ struktur' = Mit(b, [Kopf(b) EXCEPT !.art = u])
      <4>1. a \in DOMAIN struktur' /\ (a # b => struktur'[a] = struktur[a])
        BY <1>1, <3>4 DEF Mit
      <4>2. a = b => struktur[a].art > 0
        BY <1>1, <3>4 DEF Zaehlt, Kopf
      <4>3. struktur[a].art \in {1, 0, -1, -2}
        BY <1>1 DEF TypeOK, TypStruktur, KopfSatz
      <4>4. CASE a = b
        BY <4>1, <4>2, <4>4, <4>3
      <4>5. CASE a # b
        BY <4>1, <4>5
      <4>6. QED
        BY <4>4, <4>5
    <3>5. QED
      BY <3>2, <3>3, <3>4
  <2>2. CASE ~(Vote \/ \E p \in Teile : SortRow(p) \/ PlaneRow(p))
    <3>1. UNCHANGED struktur
      BY <1>1, <2>2 DEF Next, Haupt, Worker, OnGo, Starte, NachCalc, NachFill1, Layout,
           CallocFehlt, NachFill2, NachVote, NachSort, NachPlane, Urteil, GoEnde, CalcRow,
           FillRow1, FillRow2, FillFertig, KetteFertig, ablage
    <3>2. QED
      BY <1>1, <3>1
  <2>3. QED
    BY <2>1, <2>2
<1>2. TypeOK /\ [Next]_vars =>
        [\A a \in DOMAIN struktur :
           /\ phase \in {"vote", "sort", "plane"} => a \in DOMAIN struktur'
           /\ phase \in {"vote", "sort", "plane"} /\ struktur[a].art <= 0
                => struktur'[a] = struktur[a]]_vars
  BY <1>1
<1>3. QED
  BY <1>2, Typing, PTL DEF Spec, UrteilBleibt

-----------------------------------------------------------------------------
(* What the readers of the table find.  A walk is a recursive function, so *)
(* these lemmas rest on the order of the naturals being well-founded.      *)

(* A set of naturals that is not empty has a least element.                *)
LEMMA Kleinste ==
  ASSUME NEW T, T \subseteq Nat, T # {}
  PROVE  \E x \in T : \A y \in T : x <= y
<1>1. PICK x \in T : \A y \in T : ~(<<y, x>> \in OpToRel(<, Nat))
  BY NatLessThanWellFounded, WFMin, Zenon
<1>2. ASSUME NEW y \in T PROVE x <= y
  <2>1. <<y, x>> \notin {ss \in Nat \X Nat : ss[1] < ss[2]}
    BY <1>1 DEF OpToRel
  <2> QED
    BY <2>1
<1> QED
  BY <1>2

(* Hence one that holds 0 and the successor of each element holds all.     *)
LEMMA Schritte ==
  ASSUME NEW T, 0 \in T, \A n \in Nat : n \in T => n + 1 \in T
  PROVE  Nat \subseteq T
<1>1. ASSUME NEW n \in Nat, n \notin T PROVE FALSE
  <2>1. PICK x \in Nat \ T : \A y \in Nat \ T : x <= y
    <3> DEFINE U == Nat \ T
    <3>1. U \subseteq Nat /\ U # {}
      BY <1>1
    <3> HIDE DEF U
    <3>2. \E x \in U : \A y \in U : x <= y
      BY <3>1, Kleinste
    <3> QED
      BY <3>2 DEF U
  <2>2. x # 0 /\ x - 1 \in Nat
    BY <2>1
  <2>3. x - 1 \in T
    BY <2>1, <2>2
  <2> QED
    BY <2>1, <2>2, <2>3
<1> QED
  BY <1>1

(* What a walk over n addresses finds from stop a on, if f is what it      *)
(* finds from the next stop on: kopf is what it meets, g leads on.         *)
AbHier(n, kopf, g, f, a) ==
  IF a >= n THEN <<>>
  ELSE <<kopf[a]>> \o (IF g[a] > n THEN <<>> ELSE f[g[a]])

(* Such a walk comes to an end: the recursion has a solution.              *)
LEMMA Rueckwaerts ==
  ASSUME NEW n \in Nat, NEW kopf, NEW g,
         \A a \in 0 .. n : g[a] \in Nat /\ a < g[a]
  PROVE  \E f : f = [a \in 0 .. n |-> AbHier(n, kopf, g, f, a)]
<1> DEFINE Ab(m, f) ==
             f = [a \in 0 .. n |-> IF a < n - m THEN <<>> ELSE AbHier(n, kopf, g, f, a)]
           T == {m \in Nat : m <= n => \E f : Ab(m, f)}
<1>1. 0 \in T
  <2>1. Ab(0, [a \in 0 .. n |-> <<>>])
    BY DEF AbHier
  <2>2. QED
    BY <2>1
<1>2. ASSUME NEW m \in Nat, m \in T PROVE m + 1 \in T
  <2> SUFFICES ASSUME m + 1 <= n PROVE \E f : Ab(m + 1, f)
    BY <1>2
  <2>1. PICK f : Ab(m, f)
    BY <1>2
  <2> DEFINE b == n - (m + 1)
             f2 == [f EXCEPT ![b] = AbHier(n, kopf, g, f, b)]
  <2>2. b \in 0 .. n
    OBVIOUS
  <2>3. f = [a \in 0 .. n |-> IF a < n - m THEN <<>> ELSE AbHier(n, kopf, g, f, a)]
    BY <2>1
  <2> HIDE DEF Ab
  <2>4. f2 = [a \in 0 .. n |-> IF a = b THEN AbHier(n, kopf, g, f, b) ELSE f[a]]
    BY <2>3
  <2>5. \A a \in 0 .. n : a # b => f2[a] = f[a]
    BY <2>2, <2>4
  <2>6. f2[b] = AbHier(n, kopf, g, f, b)
    BY <2>2, <2>4
  <2> HIDE DEF f2
  <2>7. ASSUME NEW a \in 0 .. n, ~(a < b) PROVE AbHier(n, kopf, g, f2, a) = AbHier(n, kopf, g, f, a)
    <3>1. g[a] \in Nat /\ a < g[a]
      OBVIOUS
    <3>2. ~(g[a] > n) => f2[g[a]] = f[g[a]]
      BY <2>5, <2>7, <3>1
    <3>3. QED
      BY <3>2 DEF AbHier
  <2>8. ASSUME NEW a \in 0 .. n
        PROVE  f2[a] = IF a < n - (m + 1) THEN <<>> ELSE AbHier(n, kopf, g, f2, a)
    <3>1. CASE a < b
      BY <2>3, <2>5, <3>1
    <3>2. CASE a = b
      BY <2>6, <2>7, <3>2
    <3>3. CASE a > b
      <4>1. f[a] = AbHier(n, kopf, g, f, a)
        BY <2>3, <3>3
      <4>2. QED
        BY <2>5, <2>7, <3>3, <4>1
    <3>4. QED
      BY <3>1, <3>2, <3>3
  <2>9. Ab(m + 1, f2)
    BY <2>4, <2>8 DEF Ab
  <2>10. QED
    BY <2>9
<1>3. n \in T
  <2> HIDE DEF T
  <2>1. QED
    BY <1>1, <1>2, Schritte
<1>4. PICK f : Ab(n, f)
  BY <1>3
<1>5. f = [a \in 0 .. n |-> AbHier(n, kopf, g, f, a)]
  BY <1>4
<1>6. QED
  BY <1>5

(* t lists what stands at the places in S from a on, in order.             *)
Liste(t, a, S, kopf) ==
  \E w \in [1 .. Len(t) -> {b \in S : a <= b}] :
    /\ \A i \in 1 .. Len(t) : t[i] = kopf[w[i]]
    /\ \A i, j \in 1 .. Len(t) : i < j => w[i] < w[j]
    /\ \A b \in S : a <= b => \E i \in 1 .. Len(t) : w[i] = b

(* A walk over the entries of S, which lie below n: g leads from each one  *)
(* to the next, from the last one to n.                                    *)
Folge(n, g, S) ==
  /\ \A a \in S : a \in Nat /\ a < n
  /\ \A a \in S : g[a] \in S \cup {n} /\ a < g[a] /\ g[a] \in Nat /\ g[a] <= n
  /\ \A a, b \in S : ~(a < b /\ b < g[a])

(* It then meets every entry of S from its first stop on, once, in order.  *)
LEMMA Aufgezaehlt ==
  ASSUME NEW n \in Nat, NEW kopf, NEW g, NEW X, NEW S,
         Folge(n, g, S), \A a \in S : kopf[a] \in X,
         NEW f, f[n] = <<>>, \A a \in S : f[a] = <<kopf[a]>> \o f[g[a]]
  PROVE  \A a \in S \cup {n} : f[a] \in Seq(X) /\ Liste(f[a], a, S, kopf)
<1> DEFINE Gut(a) == f[a] \in Seq(X) /\ Liste(f[a], a, S, kopf)
           T == {m \in Nat : \A a \in S \cup {n} : n - a <= m => Gut(a)}
<1> HIDE DEF Gut
<1>1. Gut(n)
  <2>1. f[n] = <<>>
    OBVIOUS
  <2>2. Liste(<<>>, n, S, kopf)
    <3> DEFINE w == [i \in 1 .. 0 |-> n]
    <3>1. w \in [1 .. Len(<<>>) -> {b \in S : n <= b}]
      OBVIOUS
    <3>2. \A b \in S : ~(n <= b)
      BY DEF Folge
    <3>3. QED
      BY <3>1, <3>2 DEF Liste
  <2>3. QED
    BY <2>1, <2>2 DEF Gut
<1>2. 0 \in T
  BY <1>1 DEF Folge
<1>3. ASSUME NEW m \in Nat, m \in T PROVE m + 1 \in T
  <2> SUFFICES ASSUME NEW a \in S, n - a = m + 1 PROVE Gut(a)
    <3>1. ASSUME NEW a \in S \cup {n}, n - a <= m + 1 PROVE Gut(a)
      <4>1. n - a \in Int
        BY DEF Folge
      <4>2. CASE n - a <= m
        BY <1>3, <4>2
      <4>3. CASE a = n
        BY <1>1, <4>3
      <4>4. CASE n - a = m + 1 /\ a # n
        BY <4>4
      <4>5. QED
        BY <1>3, <3>1, <4>1, <4>2, <4>3, <4>4
    <3>2. QED
      BY <1>3, <3>1
  <2>1. g[a] \in S \cup {n} /\ a < g[a] /\ g[a] \in Nat /\ g[a] <= n /\ a \in Nat
    BY DEF Folge
  <2>2. Gut(g[a])
    <3>1. n - g[a] <= m
      BY <2>1
    <3>2. QED
      BY <1>3, <2>1, <3>1
  <2> HIDE DEF T
  <2>3. PICK t : t = f[g[a]]
    OBVIOUS
  <2>4. t \in Seq(X) /\ Len(t) \in Nat /\ kopf[a] \in X
    BY <2>2, <2>3 DEF Gut
  <2>5. f[a] = <<kopf[a]>> \o t
    BY <2>3
  <2>6. /\ f[a] \in Seq(X) /\ Len(f[a]) = Len(t) + 1 /\ f[a][1] = kopf[a]
        /\ \A i \in 2 .. Len(t) + 1 : f[a][i] = t[i - 1]
    BY <2>4, <2>5
  <2>7. PICK w \in [1 .. Len(t) -> {b \in S : g[a] <= b}] :
          /\ \A i \in 1 .. Len(t) : t[i] = kopf[w[i]]
          /\ \A i, j \in 1 .. Len(t) : i < j => w[i] < w[j]
          /\ \A b \in S : g[a] <= b => \E i \in 1 .. Len(t) : w[i] = b
    BY <2>2, <2>3 DEF Liste, Gut
  <2>8. PICK l \in Nat : l = Len(t)
    BY <2>4
  <2> DEFINE v == [i \in 1 .. l + 1 |-> IF i = 1 THEN a ELSE w[i - 1]]
  <2>9. v[1] = a /\ 1 \in 1 .. l + 1 /\ DOMAIN v = 1 .. l + 1
    BY <2>8
  <2>10. ASSUME NEW i \in 1 .. l
         PROVE  /\ i + 1 \in 1 .. l + 1 /\ v[i + 1] = w[i]
                /\ w[i] \in S /\ g[a] <= w[i] /\ w[i] \in Nat
    <3>1. i + 1 \in 1 .. l + 1 /\ (i + 1) - 1 = i /\ i + 1 # 1
      BY <2>8
    <3>2. w[i] \in S /\ g[a] <= w[i]
      BY <2>7, <2>8
    <3>3. QED
      BY <3>1, <3>2 DEF Folge
  <2>11. v = [i \in 1 .. l + 1 |-> v[i]]
    BY <2>8
  <2> HIDE DEF v
  <2>12. \A i \in 1 .. l + 1 : i = 1 \/ \E j \in 1 .. l : i = j + 1
    <3> SUFFICES ASSUME NEW i \in 1 .. l + 1, i # 1 PROVE \E j \in 1 .. l : i = j + 1
      OBVIOUS
    <3>1. i - 1 \in 1 .. l /\ i = (i - 1) + 1
      OBVIOUS
    <3>2. QED
      BY <3>1
  <2>13. v \in [1 .. l + 1 -> {b \in S : a <= b}]
    <3>1. ASSUME NEW i \in 1 .. l + 1 PROVE v[i] \in {b \in S : a <= b}
      <4>1. CASE i = 1
        BY <2>1, <2>9, <4>1
      <4>2. ASSUME NEW j \in 1 .. l, i = j + 1 PROVE v[i] \in {b \in S : a <= b}
        <5>1. v[i] = w[j] /\ w[j] \in S /\ g[a] <= w[j] /\ w[j] \in Nat
          BY <2>10, <4>2
        <5>2. a <= w[j]
          BY <2>1, <5>1
        <5>3. QED
          BY <5>1, <5>2
      <4>3. QED
        BY <2>12, <4>1, <4>2
    <3>2. QED
      BY <2>11, <3>1
  <2>14. ASSUME NEW i \in 1 .. l + 1 PROVE f[a][i] = kopf[v[i]]
    <3>1. CASE i = 1
      BY <2>6, <2>9, <3>1
    <3>2. ASSUME NEW j \in 1 .. l, i = j + 1 PROVE f[a][i] = kopf[v[i]]
      <4>1. i \in 2 .. Len(t) + 1 /\ i - 1 = j /\ j \in 1 .. Len(t)
        BY <2>8, <3>2
      <4>2. f[a][i] = t[j] /\ t[j] = kopf[w[j]]
        BY <2>6, <2>7, <4>1
      <4>3. v[i] = w[j]
        BY <2>10, <3>2
      <4>4. QED
        BY <4>2, <4>3
    <3>3. QED
      BY <2>12, <3>1, <3>2
  <2>15. ASSUME NEW i \in 1 .. l + 1, NEW j \in 1 .. l + 1, i < j PROVE v[i] < v[j]
    <3>1. PICK h \in 1 .. l : j = h + 1
      BY <2>12, <2>15
    <3>2. CASE i = 1
      <4>1. v[j] = w[h] /\ g[a] <= w[h] /\ w[h] \in Nat
        BY <2>10, <3>1
      <4>2. a < w[h]
        BY <2>1, <4>1
      <4>3. QED
        BY <2>9, <3>2, <4>1, <4>2
    <3>3. ASSUME NEW e \in 1 .. l, i = e + 1 PROVE v[i] < v[j]
      <4>1. e < h
        BY <2>15, <3>1, <3>3
      <4>2. w[e] < w[h]
        BY <2>7, <2>8, <4>1
      <4>3. QED
        BY <2>10, <3>1, <3>3, <4>2
    <3>4. QED
      BY <2>12, <3>2, <3>3
  <2>16. ASSUME NEW b \in S, a <= b PROVE \E i \in 1 .. l + 1 : v[i] = b
    <3>1. CASE b = a
      BY <2>9, <3>1
    <3>2. CASE b # a
      <4>1. g[a] <= b
        BY <2>1, <2>16, <3>2 DEF Folge
      <4>2. PICK i \in 1 .. l : w[i] = b
        BY <2>7, <2>8, <4>1
      <4>3. QED
        BY <2>10, <4>2
    <3>3. QED
      BY <3>1, <3>2
  <2>17. Len(f[a]) = l + 1
    BY <2>6, <2>8
  <2>18. Liste(f[a], a, S, kopf)
    BY <2>13, <2>14, <2>15, <2>16, <2>17, SMTT(40) DEF Liste
  <2>19. QED
    BY <2>6, <2>18 DEF Gut
<1>4. Nat \subseteq T
  <2> HIDE DEF T
  <2>1. QED
    BY <1>2, <1>3, Schritte
<1>5. ASSUME NEW a \in S \cup {n} PROVE Gut(a)
  <2>1. n - a \in Nat
    BY DEF Folge
  <2>2. n - a \in T
    BY <1>4, <2>1
  <2>3. QED
    BY <2>2
<1>6. QED
  BY <1>5 DEF Gut

-----------------------------------------------------------------------------
(* The finished table. *)

(* The headers of all kept regions stand in struktur, no others, in the    *)
(* order of the regions, and a walk leads from each one to the next.       *)
TabelleDa ==
  /\ \A p \in Teile : \A s \in Behaltene(p) : KopfDa(p, s)
  /\ \A a \in DOMAIN struktur : \E p \in Teile : \E s \in Behaltene(p) : a = Stelle(p, s)
  /\ \A p, q \in Teile : \A s \in Behaltene(p) : \A t \in Behaltene(q) :
       p < q \/ (p = q /\ s < t) => Stelle(p, s) < Stelle(q, t)
  /\ Folge(struktur_vorhanden, [a \in DOMAIN struktur |-> Weiter(a)], DOMAIN struktur)
  /\ struktur_vorhanden > 0 => 0 \in DOMAIN struktur

(* A result is such a table with two lines; without one there is no array. *)
FertigInv ==
  /\ ergebnis_vorhanden = 1 => phase \in {"urteil", "ende", "idle"}
  /\ phase \in {"ende", "idle"} =>
       IF ergebnis_vorhanden = 1 THEN TabelleDa /\ Cardinality(Positive) >= 2
                                 ELSE struktur_vorhanden = 0

LEMMA TabelleRahmen ==
  ASSUME TabelleDa,
         UNCHANGED <<bild, marke, mitte_offset, struktur_vorhanden, struktur>>
  PROVE  TabelleDa'
<1>1. \A p \in Teile : /\ Behaltene(p)' = Behaltene(p)
                       /\ \A s : Stelle(p, s)' = Stelle(p, s)
                       /\ \A s : KopfDa(p, s) => KopfDa(p, s)'
  BY OrteBleiben DEF KopfDa
<1>2. \A a : Weiter(a)' = Weiter(a)
  BY DEF Weiter, Laenge, Kopf
<1>3. /\ DOMAIN struktur' = DOMAIN struktur
      /\ [a \in DOMAIN struktur |-> Weiter(a)]' = [a \in DOMAIN struktur |-> Weiter(a)]
  BY <1>2
<1>4. Folge(struktur_vorhanden, [a \in DOMAIN struktur |-> Weiter(a)], DOMAIN struktur)'
  BY <1>3 DEF TabelleDa, Folge
<1>5. QED
  BY <1>1, <1>3, <1>4 DEF TabelleDa

(* The order of the headers is that of the regions. *)
LEMMA InReihe ==
  ASSUME TypeOK, LayoutInv, phase \in NachLayout,
         NEW p \in Teile, NEW q \in Teile, NEW s \in Behaltene(p), NEW t \in Behaltene(q),
         p < q \/ (p = q /\ s < t)
  PROVE  Stelle(p, s) < Stelle(q, t)
<1>1. /\ Groesse(R(p, s)) \in Nat /\ s \in 1 .. Anzahl(p) /\ Anzahl(p) \in Nat
      /\ t \in 1 .. Anzahl(q)
  BY Masse DEF Behaltene
<1>2. /\ Stelle(p, s) \in Nat /\ Stelle(q, t) \in Nat /\ Anfang(q) <= Stelle(q, t)
      /\ Stelle(p, s) + 15 + Groesse(R(p, s)) <= Ende(p)
      /\ Anfang(q) \in Nat /\ Ende(p) \in Nat
  BY Lage, Haelften
<1>3. CASE p < q
  <2>1. Ende(p) = Anfang(q)
    BY <1>3, Haelften DEF Teile
  <2>2. QED
    BY <1>1, <1>2, <2>1
<1>4. CASE p = q /\ s < t
  <2>1. t - 1 \in s .. Anzahl(p)
    BY <1>1, <1>4
  <2>2. Stelle(p, s) + 15 + Groesse(R(p, s)) <= Stelle(q, t)
    BY <1>4, <2>1, Lage DEF Stelle
  <2>3. QED
    BY <1>1, <1>2, <2>2
<1>5. QED
  BY <1>3, <1>4

(* Before the verdict the table is complete.                               *)
LEMMA UrteilTabelle ==
  ASSUME TypeOK, LayoutInv, KettenInv, RestInv, phase = "urteil"
  PROVE  TabelleDa
<1>1. phase \in NachLayout
  BY DEF NachLayout
<1>2. \A p \in Teile : \A s \in Behaltene(p) : KopfDa(p, s)
  BY DEF KettenInv, KopfInv
<1>3. \A a \in DOMAIN struktur : \E p \in Teile : \E s \in Behaltene(p) : a = Stelle(p, s)
  BY DEF RestInv
<1>4. \A p, q \in Teile : \A s \in Behaltene(p) : \A t \in Behaltene(q) :
        p < q \/ (p = q /\ s < t) => Stelle(p, s) < Stelle(q, t)
  BY <1>1, InReihe
<1>5. ASSUME NEW p \in Teile, NEW a, Halt(p, a)
      PROVE  a \in DOMAIN struktur \cup {struktur_vorhanden}
  <2>1. ASSUME NEW q \in Teile, NEW b, Halt(q, b), b # Ende(q)
        PROVE  b \in DOMAIN struktur
    BY <1>2, <2>1 DEF Halt, KopfDa
  <2>2. CASE a # Ende(p)
    BY <1>5, <2>1, <2>2
  <2>3. CASE p = 1 /\ a = Ende(p)
    BY <1>1, <2>3, Haelften
  <2>4. CASE p = 0 /\ a = Ende(p)
    <3>1. Halt(1, a)
      BY <1>1, <2>4, ErsterHalt, Haelften DEF Teile
    <3>2. QED
      BY <1>1, <2>1, <3>1, Haelften DEF Teile
  <2>5. QED
    BY <2>2, <2>3, <2>4 DEF Teile
<1>6. ASSUME NEW a \in DOMAIN struktur
      PROVE  /\ a \in Nat /\ a < struktur_vorhanden
             /\ Weiter(a) \in DOMAIN struktur \cup {struktur_vorhanden}
             /\ a < Weiter(a) /\ Weiter(a) \in Nat /\ Weiter(a) <= struktur_vorhanden
             /\ \A b \in DOMAIN struktur : ~(a < b /\ b < Weiter(a))
  <2>1. PICK p \in Teile : \E s \in Behaltene(p) : a = Stelle(p, s)
    BY <1>3
  <2>2. PICK s \in Behaltene(p) : a = Stelle(p, s)
    BY <2>1
  <2>3. KopfDa(p, s)
    BY <1>2
  <2>4. /\ Groesse(R(p, s)) \in Nat /\ a \in Nat
        /\ a + 15 + Groesse(R(p, s)) = Anfang(p) + marke[p][s]
        /\ a + 15 + Groesse(R(p, s)) <= Ende(p)
        /\ Ende(p) \in Nat /\ Ende(p) <= struktur_vorhanden /\ struktur_vorhanden \in Nat
    BY <1>1, <2>2, Lage, Haelften, Masse DEF Behaltene
  <2>5. Weiter(a) = Anfang(p) + marke[p][s] /\ Halt(p, Weiter(a))
    BY <1>1, <2>2, <2>3, HaltWeiter
  <2>6. Weiter(a) \in Nat /\ a < Weiter(a) /\ Weiter(a) <= struktur_vorhanden
    BY <2>4, <2>5
  <2>7. ASSUME NEW b \in DOMAIN struktur, a < b, b < Weiter(a) PROVE FALSE
    <3>1. PICK q \in Teile : \E t \in Behaltene(q) : b = Stelle(q, t)
      BY <1>3
    <3>2. PICK t \in Behaltene(q) : b = Stelle(q, t)
      BY <3>1
    <3>3. b \in Nat
      BY <1>1, <3>2, Lage
    <3>4. ~(Stelle(q, t) < Stelle(p, s)) /\ Stelle(q, t) < Anfang(p) + marke[p][s]
      BY <2>2, <2>4, <2>5, <2>7, <3>2, <3>3
    <3>5. q = p /\ t = s
      BY <1>1, <3>4, Dazwischen
    <3>6. QED
      BY <2>2, <2>4, <2>7, <3>2, <3>5
  <2>8. Weiter(a) \in DOMAIN struktur \cup {struktur_vorhanden}
    BY <1>5, <2>5
  <2>9. QED
    BY <2>4, <2>6, <2>7, <2>8
<1>7. Folge(struktur_vorhanden, [a \in DOMAIN struktur |-> Weiter(a)], DOMAIN struktur)
  BY <1>6 DEF Folge
<1>8. struktur_vorhanden > 0 => 0 \in DOMAIN struktur
  BY <1>1, <1>5, ErsterHalt, Haelften DEF Teile
<1>9. QED
  BY <1>2, <1>3, <1>4, <1>7, <1>8 DEF TabelleDa

LEMMA WorkerFertig ==
  ASSUME FertigInv, NEW p \in Teile, Worker(p)
  PROVE  FertigInv'
<1>1. phase' = phase /\ phase \in Parallel /\ UNCHANGED ergebnis_vorhanden
  BY DEF Worker, CalcRow, FillRow1, FillRow2, FillFertig, SortRow, PlaneRow, KetteFertig,
         Parallel, anzeige
<1>2. QED
  BY <1>1 DEF FertigInv, Parallel

LEMMA HauptFertig ==
  ASSUME TypeOK, LayoutInv, KettenInv, LinienInv, FertigInv, Haupt \/ OnGo
  PROVE  FertigInv'
<1>1. CASE \/ Starte \/ NachCalc \/ Layout \/ NachFill2 \/ Vote \/ NachVote \/ NachSort
  <2>1. /\ phase \notin {"idle", "ende", "urteil"}
        /\ phase' \notin {"idle", "ende"} /\ UNCHANGED ergebnis_vorhanden
    BY <1>1 DEF Starte, NachCalc, Layout, NachFill2, Vote, NachVote, NachSort, anzeige,
                Parallel
  <2>2. QED
    BY <2>1 DEF FertigInv
<1>2. CASE NachFill1 \/ CallocFehlt
  <2>1. /\ phase \in {"fill1", "layout"} /\ UNCHANGED ergebnis_vorhanden
        /\ phase' \in {"layout", "ende"}
        /\ phase' = "ende" => ~(struktur_vorhanden' > 0) /\ struktur_vorhanden' \in Nat
    <3>1. NachFill1 => struktur_vorhanden' \in Nat
      BY DEF NachFill1, TypeOK, TypZaehler, Teile, Headersize
    <3>2. QED
      BY <1>2, <3>1 DEF NachFill1, CallocFehlt, anzeige
  <2>2. QED
    BY <2>1 DEF FertigInv
<1>3. CASE NachPlane
  BY <1>3 DEF NachPlane, FertigInv
<1>4. CASE Urteil
  <2>1. phase = "urteil" /\ phase' = "ende"
    BY <1>4 DEF Urteil
  <2>2. CASE ZuWenig
    BY <1>4, <2>1, <2>2 DEF Urteil, FertigInv
  <2>3. CASE ~ZuWenig
    <3>1. /\ UNCHANGED <<bild, marke, mitte_offset, struktur_vorhanden, struktur>>
          /\ Positive' = Positive
      BY <1>4, <2>3 DEF Urteil, zaehler, Positive
    <3>2. TabelleDa'
      BY <2>1, <3>1, UrteilTabelle, TabelleRahmen DEF LinienInv
    <3>3. Cardinality(Positive) = count3p[0] + count3p[1]
      BY <2>1 DEF LinienInv, ZaehlInv, LinienGezaehlt, Positive
    <3>4. count3p[0] + count3p[1] \in Nat
      BY DEF TypeOK, TypKette, Teile
    <3>5. Cardinality(Positive) >= 2
      BY <2>3, <3>3, <3>4 DEF ZuWenig
    <3>6. ergebnis_vorhanden' = 1
      BY <1>4, <2>1, <2>3 DEF Urteil, LinienInv, AnzeigeInv
    <3>7. QED
      BY <2>1, <3>1, <3>2, <3>5, <3>6 DEF FertigInv
  <2>4. QED
    BY <2>2, <2>3
<1>5. CASE GoEnde
  <2>1. /\ phase = "ende" /\ phase' = "idle" /\ Positive' = Positive
        /\ UNCHANGED <<bild, marke, mitte_offset, struktur_vorhanden, struktur,
                       ergebnis_vorhanden>>
    BY <1>5 DEF GoEnde, Positive, ablage, zaehler
  <2>2. QED
    BY <2>1, TabelleRahmen DEF FertigInv
<1>6. CASE OnGo
  BY <1>6 DEF OnGo, FertigInv
<1>7. QED
  BY <1>1, <1>2, <1>3, <1>4, <1>5, <1>6 DEF Haupt

(* Between two runs there is a complete table with two lines, or none.     *)
THEOREM Fertigsatz == Spec => []FertigInv
<1>1. Init => FertigInv
  BY DEF Init, FertigInv
<1>2. TypeOK /\ LayoutInv /\ KettenInv /\ LinienInv /\ FertigInv /\ [Next]_vars
        => FertigInv'
  <2> SUFFICES ASSUME TypeOK, LayoutInv, KettenInv, LinienInv, FertigInv, [Next]_vars
               PROVE  FertigInv'
    OBVIOUS
  <2>1. CASE UNCHANGED vars
    <3>1. /\ UNCHANGED <<bild, marke, mitte_offset, struktur_vorhanden, struktur, phase,
                         ergebnis_vorhanden>>
          /\ Positive' = Positive
      BY <2>1 DEF vars, zaehler, ablage, anzeige, Positive
    <3>2. QED
      BY <3>1, TabelleRahmen DEF FertigInv
  <2>2. QED
    BY <2>1, WorkerFertig, HauptFertig DEF Next
<1>3. QED
  BY <1>1, <1>2, Typing, Layoutsatz, Kettensatz, Liniensatz, PTL DEF Spec


-----------------------------------------------------------------------------
(* The implementation of LineTable. *)

(* Tabelle is the solution of its recursion.                               *)
LEMMA TabelleRechnet ==
  ASSUME TypeOK
  PROVE  \E f : /\ Tabelle = f[0]
                /\ f = [a \in 0 .. struktur_vorhanden |->
                          IF a >= struktur_vorhanden THEN <<>>
                          ELSE <<Kopf(a)>> \o
                               (IF Weiter(a) > struktur_vorhanden THEN <<>>
                                ELSE f[Weiter(a)])]
<1> DEFINE n == struktur_vorhanden
           kopf == [a \in 0 .. n |-> Kopf(a)]
           g == [a \in 0 .. n |-> Weiter(a)]
           Loest(f) == f = [a \in 0 .. n |->
                              IF a >= n THEN <<>>
                              ELSE <<Kopf(a)>> \o
                                   (IF Weiter(a) > n THEN <<>> ELSE f[Weiter(a)])]
<1>1. n \in Nat
  BY DEF TypeOK, TypAblage
<1>2. \A a \in 0 .. n : Weiter(a) \in Nat /\ a < Weiter(a)
  <2> SUFFICES ASSUME NEW a \in 0 .. n PROVE Weiter(a) \in Nat /\ a < Weiter(a)
    OBVIOUS
  <2>1. Laenge(a) \in Nat /\ Weiter(a) \in Nat /\ Weiter(a) = a + 15 + Laenge(a)
    BY <1>1, KopfTyp DEF TypeOK
  <2>2. QED
    BY <1>1, <2>1
<1>3. \E f : f = [a \in 0 .. n |-> AbHier(n, kopf, g, f, a)]
  <2>1. \A a \in 0 .. n : g[a] \in Nat /\ a < g[a]
    BY <1>2
  <2> HIDE DEF n, kopf, g
  <2>2. QED
    BY <1>1, <2>1, Rueckwaerts
<1>4. PICK f : f = [a \in 0 .. n |-> AbHier(n, kopf, g, f, a)]
  BY <1>3
<1>5. \A a \in 0 .. n : AbHier(n, kopf, g, f, a)
                          = IF a >= n THEN <<>>
                            ELSE <<Kopf(a)>> \o
                                 (IF Weiter(a) > n THEN <<>> ELSE f[Weiter(a)])
  BY DEF AbHier
<1>6. Loest(f)
  <2> HIDE DEF n
  <2>1. QED
    BY <1>4, <1>5, Zenon
<1>7. Tabelle = (CHOOSE h : Loest(h))[0]
  BY DEF Tabelle
<1>8. Loest(CHOOSE h : Loest(h))
  <2> HIDE DEF Loest
  <2>1. QED
    BY <1>6
<1>9. QED
  BY <1>7, <1>8

(* The table lists the headers of struktur, each once, in their order.     *)
LEMMA TabelleListet ==
  ASSUME TypeOK, TabelleDa
  PROVE  Tabelle \in Seq(KopfSatz) /\ Liste(Tabelle, 0, DOMAIN struktur, struktur)
<1> DEFINE n == struktur_vorhanden
           S == DOMAIN struktur
           g == [a \in S |-> Weiter(a)]
<1>1. PICK f : /\ Tabelle = f[0]
               /\ f = [a \in 0 .. n |->
                         IF a >= n THEN <<>>
                         ELSE <<Kopf(a)>> \o
                              (IF Weiter(a) > n THEN <<>> ELSE f[Weiter(a)])]
  BY TabelleRechnet
<1>2. n \in Nat /\ \A a \in S : struktur[a] \in KopfSatz
  BY DEF TypeOK, TypAblage, TypStruktur
<1>3. Folge(n, g, S)
  BY DEF TabelleDa
<1>4. \A a \in 0 .. n : f[a] = IF a >= n THEN <<>>
                               ELSE <<Kopf(a)>> \o
                                    (IF Weiter(a) > n THEN <<>> ELSE f[Weiter(a)])
  BY <1>1
<1>5. f[n] = <<>>
  <2> HIDE DEF n
  <2>1. n \in 0 .. n /\ n >= n
    BY <1>2
  <2>2. QED
    BY <1>4, <2>1
<1>6. ASSUME NEW a \in S PROVE f[a] = <<struktur[a]>> \o f[g[a]]
  <2>1. a \in Nat /\ a < n /\ g[a] = Weiter(a) /\ g[a] \in Nat /\ g[a] <= n
    BY <1>3 DEF Folge
  <2>2. a \in 0 .. n /\ ~(a >= n) /\ ~(Weiter(a) > n)
    BY <1>2, <2>1
  <2>3. Kopf(a) = struktur[a]
    BY DEF Kopf
  <2>4. QED
    BY <1>4, <2>1, <2>2, <2>3
<1>7. 0 \in S \cup {n}
  BY <1>2 DEF TabelleDa
<1> HIDE DEF n, S, g
<1>8. f[0] \in Seq(KopfSatz) /\ Liste(f[0], 0, S, struktur)
  BY <1>2, <1>3, <1>5, <1>6, <1>7, Aufgezaehlt
<1>9. QED
  BY <1>1, <1>8 DEF S


(* A table of the headers of the kept regions is one LineTable allows.     *)
LEMMA TabellePasst ==
  ASSUME TypeOK, TabelleDa
  PROVE  LT!Passt(Tabelle, bild)
<1> DEFINE G == LT!Grosse(bild)
<1>1. \A r : r \in G <=> \E p \in Teile : \E s \in Behaltene(p) : r = <<p, s>>
  <2>1. \A p \in Teile :
          Behaltene(p) = {s \in 1 .. Len(bild.regionen[p]) :
                            bild.regionen[p][s].px + bild.regionen[p][s].nb >= bild.minsize}
    BY DEF Behaltene, GrossGenug, Groesse, R, Anzahl
  <2>2. G = ({0} \X Behaltene(0)) \cup ({1} \X Behaltene(1))
    BY <2>1 DEF LT!Grosse, Teile
  <2>3. QED
    BY <2>2 DEF Teile
<1> HIDE DEF G
<1>2. PICK t : t = Tabelle
  OBVIOUS
<1>3. PICK w \in [1 .. Len(t) -> {b \in DOMAIN struktur : 0 <= b}] :
        /\ \A i \in 1 .. Len(t) : t[i] = struktur[w[i]]
        /\ \A i, j \in 1 .. Len(t) : i < j => w[i] < w[j]
        /\ \A b \in DOMAIN struktur : 0 <= b => \E i \in 1 .. Len(t) : w[i] = b
  BY <1>2, TabelleListet DEF Liste
<1>4. ASSUME NEW i \in 1 .. Len(t)
      PROVE  \E r \in G : Stelle(r[1], r[2]) = w[i]
  <2>1. w[i] \in DOMAIN struktur
    BY <1>3
  <2>2. PICK p \in Teile : \E s \in Behaltene(p) : w[i] = Stelle(p, s)
    BY <2>1 DEF TabelleDa
  <2>3. PICK s \in Behaltene(p) : w[i] = Stelle(p, s)
    BY <2>2
  <2>4. <<p, s>> \in G
    BY <1>1
  <2>5. QED
    BY <2>3, <2>4
<1> DEFINE q == [i \in 1 .. Len(t) |-> CHOOSE r \in G : Stelle(r[1], r[2]) = w[i]]
<1>5. q \in [1 .. Len(t) -> G] /\ \A i \in 1 .. Len(t) : Stelle(q[i][1], q[i][2]) = w[i]
  BY <1>4
<1> HIDE DEF q
<1>6. ASSUME NEW i \in 1 .. Len(t)
      PROVE  q[i] \in G /\ \E p \in Teile : \E s \in Behaltene(p) :
               q[i] = <<p, s>> /\ w[i] = Stelle(p, s) /\ KopfDa(p, s)
  <2>1. q[i] \in G
    BY <1>5
  <2>2. PICK p \in Teile : \E s \in Behaltene(p) : q[i] = <<p, s>>
    BY <1>1, <2>1
  <2>3. PICK s \in Behaltene(p) : q[i] = <<p, s>>
    BY <2>2
  <2>4. w[i] = Stelle(p, s)
    BY <1>5, <2>3
  <2>5. KopfDa(p, s)
    BY DEF TabelleDa
  <2>6. QED
    BY <2>1, <2>3, <2>4, <2>5
<1>7. ASSUME NEW i \in 1 .. Len(t)
      PROVE  LET r == bild.regionen[q[i][1]][q[i][2]]
             IN t[i].teil = q[i][1] /\ t[i].px = r.px /\ t[i].nb = r.nb
  BY <1>3, <1>6 DEF KopfDa, R
<1>8. ASSUME NEW i \in 1 .. Len(t), NEW j \in 1 .. Len(t), i < j
      PROVE  LT!Vor(q[i], q[j])
  <2>1. PICK p \in Teile : \E s \in Behaltene(p) : q[i] = <<p, s>> /\ w[i] = Stelle(p, s)
    BY <1>6
  <2>2. PICK s \in Behaltene(p) : q[i] = <<p, s>> /\ w[i] = Stelle(p, s)
    BY <2>1
  <2>3. PICK p2 \in Teile : \E s2 \in Behaltene(p2) :
          q[j] = <<p2, s2>> /\ w[j] = Stelle(p2, s2)
    BY <1>6
  <2>4. PICK s2 \in Behaltene(p2) : q[j] = <<p2, s2>> /\ w[j] = Stelle(p2, s2)
    BY <2>3
  <2>5. Stelle(p, s) < Stelle(p2, s2)
    BY <1>3, <1>8, <2>2, <2>4
  <2>6. w[i] \in Nat /\ w[j] \in Nat
    BY <1>3 DEF TypeOK, TypStruktur
  <2>7. ~(p2 < p) /\ ~(p = p2 /\ s2 < s) /\ ~(p = p2 /\ s = s2)
    <3>1. ~(Stelle(p2, s2) < Stelle(p, s)) /\ Stelle(p, s) # Stelle(p2, s2)
      BY <2>2, <2>4, <2>5, <2>6
    <3>2. QED
      BY <3>1 DEF TabelleDa
  <2>8. s \in Nat /\ s2 \in Nat
    BY Masse DEF Behaltene
  <2>9. p < p2 \/ (p = p2 /\ s < s2)
    BY <2>7, <2>8 DEF Teile
  <2>10. QED
    BY <2>2, <2>4, <2>9 DEF LT!Vor
<1>9. ASSUME NEW r \in G PROVE \E i \in 1 .. Len(t) : q[i] = r
  <2>1. PICK p \in Teile : \E s \in Behaltene(p) : r = <<p, s>>
    BY <1>1
  <2>2. PICK s \in Behaltene(p) : r = <<p, s>>
    BY <2>1
  <2>3. Stelle(p, s) \in DOMAIN struktur
    BY DEF TabelleDa, KopfDa
  <2>4. Stelle(p, s) \in Nat
    BY <2>3 DEF TypeOK, TypStruktur
  <2>5. PICK i \in 1 .. Len(t) : w[i] = Stelle(p, s)
    BY <1>3, <2>3, <2>4
  <2>6. PICK p2 \in Teile : \E s2 \in Behaltene(p2) :
          q[i] = <<p2, s2>> /\ w[i] = Stelle(p2, s2)
    BY <1>6
  <2>7. PICK s2 \in Behaltene(p2) : q[i] = <<p2, s2>> /\ w[i] = Stelle(p2, s2)
    BY <2>6
  <2>8. /\ p < p2 \/ (p = p2 /\ s < s2) => Stelle(p, s) < Stelle(p2, s2)
        /\ p2 < p \/ (p2 = p /\ s2 < s) => Stelle(p2, s2) < Stelle(p, s)
    BY DEF TabelleDa
  <2>9. s \in Nat /\ s2 \in Nat
    BY Masse DEF Behaltene
  <2>10. p = p2 /\ s = s2
    BY <2>4, <2>5, <2>7, <2>8, <2>9 DEF Teile
  <2>11. QED
    BY <2>2, <2>7, <2>10
<1>10. QED
  BY <1>2, <1>5, <1>7, <1>8, <1>9 DEF LT!Passt, G

(* Two lines in struktur are two lines in the table.                       *)
LEMMA ZweiInTabelle ==
  ASSUME TypeOK, TabelleDa, IsFiniteSet(Positive), Cardinality(Positive) >= 2
  PROVE  \E i, j \in 1 .. Len(Tabelle) :
           i # j /\ Tabelle[i].art > 0 /\ Tabelle[j].art > 0
<1>1. Positive # {} /\ \A a : Positive # {a}
  BY FS_EmptySet, FS_Singleton
<1>2. PICK a \in Positive : TRUE
  BY <1>1
<1>3. PICK b \in Positive : b # a
  BY <1>1, <1>2
<1>4. a \in DOMAIN struktur /\ b \in DOMAIN struktur /\ a \in Nat /\ b \in Nat
  BY DEF Positive, TypeOK, TypStruktur
<1>5. PICK w \in [1 .. Len(Tabelle) -> {c \in DOMAIN struktur : 0 <= c}] :
        /\ \A i \in 1 .. Len(Tabelle) : Tabelle[i] = struktur[w[i]]
        /\ \A c \in DOMAIN struktur : 0 <= c => \E i \in 1 .. Len(Tabelle) : w[i] = c
  BY TabelleListet DEF Liste
<1>6. PICK i \in 1 .. Len(Tabelle) : w[i] = a
  BY <1>4, <1>5
<1>7. PICK j \in 1 .. Len(Tabelle) : w[j] = b
  BY <1>4, <1>5
<1>8. i # j
  BY <1>3, <1>6, <1>7
<1>9. Tabelle[i].art > 0 /\ Tabelle[j].art > 0
  BY <1>5, <1>6, <1>7 DEF Positive
<1>10. QED
  BY <1>8, <1>9

LEMMA LeereTabelle ==
  ASSUME TypeOK, struktur_vorhanden = 0
  PROVE  Tabelle = <<>>
<1>1. PICK f : /\ Tabelle = f[0]
               /\ f = [a \in 0 .. struktur_vorhanden |->
                         IF a >= struktur_vorhanden THEN <<>>
                         ELSE <<Kopf(a)>> \o
                              (IF Weiter(a) > struktur_vorhanden THEN <<>>
                               ELSE f[Weiter(a)])]
  BY TabelleRechnet
<1>2. 0 \in 0 .. struktur_vorhanden /\ 0 >= struktur_vorhanden
  OBVIOUS
<1>3. QED
  BY <1>1, <1>2, Zenon

(* While a run is on, the reader of LineTable sees nothing happen.         *)
LEMMA ImLauf ==
  ASSUME phase # "idle", phase' # "idle", bild' = bild
  PROVE  UNCHANGED LT!vars
BY DEF LT!vars

(* A run begins with another image and no table, and ends with what        *)
(* LineTable asks for; between the two nothing happens.                    *)
THEOREM ImplementiertLineTable == Spec => ErfuelltLineTable
<1>1. TypeOK /\ Init => LT!Init
  <2> SUFFICES ASSUME TypeOK, Init PROVE LT!Init
    OBVIOUS
  <2>1. Tabelle = <<>>
    BY LeereTabelle DEF Init
  <2>2. QED
    BY <2>1 DEF Init, LT!Init
<1>2. TypeOK /\ LinienInv /\ FertigInv /\ [Next]_vars => [LT!Next]_(LT!vars)
  <2> SUFFICES ASSUME TypeOK, LinienInv, FertigInv, [Next]_vars
               PROVE  LT!Next \/ UNCHANGED LT!vars
    OBVIOUS
  <2>1. CASE UNCHANGED vars
    <3>1. /\ UNCHANGED <<bild, phase, ergebnis_vorhanden, struktur, struktur_vorhanden>>
          /\ Tabelle' = Tabelle
      BY <2>1 DEF vars, ablage, anzeige, Tabelle, Kopf, Weiter, Laenge
    <3>2. QED
      BY <3>1 DEF LT!vars
  <2>2. CASE OnGo
    <3>1. phase = "idle" /\ phase' = "calc" /\ bild' \in Bilder
      BY <2>2 DEF OnGo
    <3>2. LT!Beginne
      BY <3>1 DEF LT!Beginne
    <3>3. QED
      BY <3>2 DEF LT!Next
  <2>3. CASE GoEnde
    <3>1. /\ phase = "ende" /\ phase' = "idle"
          /\ UNCHANGED <<bild, ergebnis_vorhanden, struktur, struktur_vorhanden>>
      BY <2>3 DEF GoEnde, ablage
    <3>2. Tabelle' = Tabelle
      BY <3>1 DEF Tabelle, Kopf, Weiter, Laenge
    <3>3. CASE ergebnis_vorhanden = 1
      <4>1. TabelleDa /\ Cardinality(Positive) >= 2
        BY <3>1, <3>3 DEF FertigInv
      <4>2. IsFiniteSet(Positive)
        BY Endlich DEF LinienInv
      <4>3. LT!Passt(Tabelle, bild)
        BY <4>1, TabellePasst
      <4>4. \E i, j \in 1 .. Len(Tabelle) :
              i # j /\ Tabelle[i].art > 0 /\ Tabelle[j].art > 0
        BY <4>1, <4>2, ZweiInTabelle
      <4>5. LT!Ergebnis
        BY <3>1, <3>2, <3>3, <4>3, <4>4 DEF LT!Ergebnis
      <4>6. QED
        BY <4>5 DEF LT!Next
    <3>4. CASE ergebnis_vorhanden # 1
      <4>1. struktur_vorhanden = 0
        BY <3>1, <3>4 DEF FertigInv
      <4>2. Tabelle = <<>>
        BY <4>1, LeereTabelle
      <4>3. LT!KeinErgebnis
        BY <3>1, <3>2, <3>4, <4>2 DEF LT!KeinErgebnis
      <4>4. QED
        BY <4>3 DEF LT!Next
    <3>5. QED
      BY <3>3, <3>4
  <2>4. CASE Haupt /\ ~GoEnde
    <3>1. phase # "idle" /\ phase' # "idle" /\ bild' = bild
      BY <2>4 DEF Haupt, GoEnde, Starte, NachCalc, NachFill1, Layout, CallocFehlt,
                  NachFill2, Vote, NachVote, NachSort, NachPlane, Urteil, Parallel
    <3>2. QED
      BY <3>1, ImLauf
  <2>5. ASSUME NEW p \in Teile, Worker(p) PROVE UNCHANGED LT!vars
    <3>1. phase # "idle" /\ phase' # "idle" /\ bild' = bild
      BY <2>5 DEF Worker, CalcRow, FillRow1, FillRow2, FillFertig, SortRow, PlaneRow,
                  KetteFertig
    <3>2. QED
      BY <3>1, ImLauf
  <2>6. QED
    BY <2>1, <2>2, <2>3, <2>4, <2>5 DEF Next
<1>3. QED
  BY <1>1, <1>2, Typing, Liniensatz, Fertigsatz, PTL
     DEF Spec, ErfuelltLineTable, LT!Spec
=============================================================================
