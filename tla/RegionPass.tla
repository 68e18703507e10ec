----------------------------- MODULE RegionPass -----------------------------
(***************************************************************************)
(* Line detection in CShiftNView::OnGo: five phases, each run by two       *)
(* worker threads (part 0 and part 1) that the main thread starts and then *)
(* joins on two manual-reset events.                                       *)
(*                                                                         *)
(*   calc   calc_row    fills the gradient layers, one half of the rows    *)
(*                      per worker                                         *)
(*   fill1  fill_row1   floods layer 2+part and only adds up how much room *)
(*                      the regions large enough will need                 *)
(*   fill2  fill_row2   floods the twin layer part and writes the regions  *)
(*                      into its half of the shared array struktur         *)
(*   vote   (main)      drops regions the other partition explains better  *)
(*   sort   sort_row    drops regions without contrast                     *)
(*   plane  plane_row   fits a plane and classifies what is left           *)
(*                                                                         *)
(* A region is reduced to its two sizes: px pixels and nb distinct         *)
(* neighbours ("nebenan"); the module FloodFill shows that both passes     *)
(* find the same regions with the same sizes in the same order.  struktur  *)
(* is reduced to the record headers it holds, by address: a write that     *)
(* covers the address of another header destroys that header.              *)
(***************************************************************************)
EXTENDS Integers, Sequences, FiniteSets

CONSTANT Bilder   \* the images: what the two layers of each one contain

Headersize == 15
Teile == {0, 1}

(***************************************************************************)
(* For each part the regions of its layer in scan order, and the smallest  *)
(* size (2*minlen2) a region needs to be kept.                             *)
(***************************************************************************)
Region == [px : Nat \ {0}, nb : Nat]
Bild == [minsize : Nat, regionen : [Teile -> Seq(Region)]]

ASSUME BilderAssumption == Bilder \subseteq Bild

VARIABLES
  bild,               \* the image and parameters of the current run
  phase,              \* what the main thread is doing
  gestartet,          \* workers of this phase started so far
  laeuft,             \* laeuft[p]: the worker thread of part p is running
  hCompleted,         \* hCompleted[p]: the event worker p sets when done
  rpos,               \* rpos[p]: next region of part p in the current scan
  countp, maxp, kp,   \* the globals of the same name
  mitte_offset, struktur_vorhanden, struktur,
  k, max_g,           \* locals of OnGo's vote loop
  kw,                 \* kw[p]: local k of sort_row / plane_row
  count3p,
  ergebnis_vorhanden, ergvo, struvo,
  marke               \* history: marke[p][r] = room needed by the first r
                      \* regions of part p, recorded by the first pass

zaehler == <<countp, maxp, marke>>
ablage  == <<kp, mitte_offset, struktur_vorhanden, struktur>>
kette   == <<k, max_g, kw, count3p>>
anzeige == <<ergebnis_vorhanden, ergvo, struvo>>
thread  == <<gestartet, laeuft, hCompleted, rpos>>
vars == <<bild, phase, thread, zaehler, ablage, kette, anzeige>>

Phasen == {"idle", "calc", "fill1", "layout", "fill2", "vote",
           "sort", "plane", "urteil", "ende"}
Parallel == {"calc", "fill1", "fill2", "sort", "plane"}

Anzahl(p)  == Len(bild.regionen[p])
Groesse(r) == r.px + r.nb

(* The two passes decide on their own whether a region is kept: fill_row1  *)
(* from max_gp = maxp + size, fill_row2 from max_gp = kp + header + size.  *)
Behalten1_Bug(p, max_gp) == max_gp - maxp[p] > bild.minsize
Behalten1(p, max_gp) == max_gp - maxp[p] >= bild.minsize

Behalten2_Bug(p, max_gp) == max_gp - kp[p] - Headersize > bild.minsize
Behalten2(p, max_gp) == max_gp - kp[p] - Headersize >= bild.minsize

(* First address of part p's half, and the address just after it. *)
Anfang(p) == IF p = 0 THEN 0 ELSE mitte_offset
Ende(p)   == IF p = 0 THEN mitte_offset ELSE struktur_vorhanden

(* calloc clears the array: an address nobody wrote reads as zeros. *)
Leerkopf == [art |-> 0, teil |-> 0, px |-> 0, nb |-> 0]
Kopf(a)  == IF a \in DOMAIN struktur THEN struktur[a] ELSE Leerkopf
Laenge_Bug(a) == Kopf(a).px
Laenge(a) == Kopf(a).px + Kopf(a).nb
Weiter_Bug(a) == IF Kopf(a).art > 0 THEN a + Headersize + Laenge(a) ELSE a
Weiter(a) == a + Headersize + Laenge(a)

(* Only a record no earlier test has dropped is tested. *)
Zaehlt_Bug(a) == TRUE
Zaehlt(a) == Kopf(a).art > 0
Mit(a, kopf) == [b \in DOMAIN struktur \cup {a} |->
                   IF b = a THEN kopf ELSE struktur[b]]
(* A record written at a covers n addresses; headers inside are gone. *)
Schreibe(a, kopf, n) ==
  [b \in (DOMAIN struktur \ (a .. a + n - 1)) \cup {a} |->
     IF b = a THEN kopf ELSE struktur[b]]

KeinMarke(b) == [p \in Teile |-> [r \in 0 .. Len(b.regionen[p]) |-> 0]]
NullTeile == [p \in Teile |-> 0]

Init ==
  /\ bild \in Bilder
  /\ phase = "idle"
  /\ gestartet = 0
  /\ laeuft = [p \in Teile |-> FALSE]
  /\ hCompleted = [p \in Teile |-> FALSE]
  /\ rpos = [p \in Teile |-> 1]
  /\ countp = NullTeile /\ maxp = NullTeile /\ kp = NullTeile
  /\ mitte_offset = 0 /\ struktur_vorhanden = 0 /\ struktur = <<>>
  /\ k = 0 /\ max_g = 0 /\ kw = NullTeile /\ count3p = NullTeile
  /\ ergebnis_vorhanden = 0 /\ ergvo = 0 /\ struvo = 0
  /\ marke = KeinMarke(bild)

-----------------------------------------------------------------------------
(* Starting and joining the workers. *)

(* OnGo up to the first worker: paints are muted, an old result is freed, *)
(* the new parameters (and so the regions) may differ from the last run.  *)
OnGo ==
  /\ phase = "idle"
  /\ bild' \in Bilder
  /\ marke' = KeinMarke(bild')
  /\ struvo' = 0 /\ ergvo' = 0 /\ ergebnis_vorhanden' = 0
  /\ IF ergebnis_vorhanden = 1
     THEN struktur_vorhanden' = 0 /\ struktur' = <<>>
     ELSE UNCHANGED <<struktur_vorhanden, struktur>>
  /\ phase' = "calc" /\ gestartet' = 0
  /\ hCompleted' = [p \in Teile |-> FALSE]
  /\ UNCHANGED <<laeuft, rpos, countp, maxp, kp, mitte_offset, kette>>

(* One turn of "ResetEvent; AfxBeginThread": part 0 runs before part 1 is *)
(* started, and may even be done by then.                                 *)
Starte ==
  /\ phase \in Parallel /\ gestartet < 2
  /\ gestartet' = gestartet + 1
  /\ hCompleted' = [hCompleted EXCEPT ![gestartet] = FALSE]
  /\ laeuft' = [laeuft EXCEPT ![gestartet] = TRUE]
  /\ rpos' = [rpos EXCEPT ![gestartet] = 1]
  /\ kw' = IF phase \in {"sort", "plane"}
           THEN [kw EXCEPT ![gestartet] = Anfang(gestartet)] ELSE kw
  /\ count3p' = IF phase = "plane" THEN [count3p EXCEPT ![gestartet] = 0]
                ELSE count3p
  /\ UNCHANGED <<bild, phase, zaehler, ablage, k, max_g, anzeige>>

(* WaitForMultipleObjects(2, hCompleted, TRUE, INFINITE) *)
AlleFertig_Bug == gestartet = 2 /\ \E p \in Teile : hCompleted[p]
AlleFertig == gestartet = 2 /\ \A p \in Teile : hCompleted[p]

(* SetEvent as the worker's last access to anything shared. *)
Melde(p) ==
  /\ hCompleted' = [hCompleted EXCEPT ![p] = TRUE]
  /\ laeuft' = [laeuft EXCEPT ![p] = FALSE]

-----------------------------------------------------------------------------
(* The workers. *)

CalcRow(p) ==
  /\ phase = "calc" /\ laeuft[p]
  /\ Melde(p)
  /\ UNCHANGED <<bild, phase, gestartet, rpos, zaehler, ablage, kette, anzeige>>

(* fill_row1: count what the next region needs, if it is large enough. *)
FillRow1(p) ==
  /\ phase = "fill1" /\ laeuft[p] /\ rpos[p] <= Anzahl(p)
  /\ LET r == bild.regionen[p][rpos[p]]
         max_gp == maxp[p] + Groesse(r)
     IN /\ IF Behalten1(p, max_gp)
           THEN /\ countp' = [countp EXCEPT ![p] = @ + 1]
                /\ maxp' = [maxp EXCEPT ![p] = max_gp]
           ELSE UNCHANGED <<countp, maxp>>
        /\ marke' = [marke EXCEPT ![p][rpos[p]] =
                       countp'[p] * Headersize + maxp'[p]]
  /\ rpos' = [rpos EXCEPT ![p] = @ + 1]
  /\ UNCHANGED <<bild, phase, gestartet, laeuft, hCompleted, ablage, kette,
                 anzeige>>

(* fill_row2: fill2 writes the region at kp before its size is known; only *)
(* a region large enough moves kp past what was written.                   *)
FillRow2(p) ==
  /\ phase = "fill2" /\ laeuft[p] /\ rpos[p] <= Anzahl(p)
  /\ LET r == bild.regionen[p][rpos[p]]
         max_gp == kp[p] + Headersize + Groesse(r)
         neu == Behalten2(p, max_gp)
     IN IF kp[p] < Ende(p)
        THEN /\ struktur' = Schreibe(kp[p],
                  [art |-> 1, px |-> r.px, nb |-> r.nb,
                   teil |-> IF neu THEN p ELSE Kopf(kp[p]).teil],
                  Headersize + Groesse(r))
             /\ kp' = IF neu THEN [kp EXCEPT ![p] = max_gp] ELSE kp
             /\ countp' = IF neu THEN [countp EXCEPT ![p] = @ + 1] ELSE countp
        ELSE UNCHANGED <<struktur, kp, countp>>
  /\ rpos' = [rpos EXCEPT ![p] = @ + 1]
  /\ UNCHANGED <<bild, phase, gestartet, laeuft, hCompleted, maxp, marke,
                 mitte_offset, struktur_vorhanden, kette, anzeige>>

(* A flood worker whose layer is exhausted. *)
FillFertig(p) ==
  /\ phase \in {"fill1", "fill2"} /\ laeuft[p] /\ rpos[p] > Anzahl(p)
  /\ Melde(p)
  /\ UNCHANGED <<bild, phase, gestartet, rpos, zaehler, ablage, kette, anzeige>>

(* sort_row: the records of one half, by the length in their headers. *)
SortRow(p) ==
  /\ phase = "sort" /\ laeuft[p] /\ kw[p] < Ende(p)
  /\ \/ UNCHANGED struktur
     \/ /\ Zaehlt(kw[p])              \* contrast < mincon
        /\ struktur' = Mit(kw[p], [Kopf(kw[p]) EXCEPT !.art = 0])
  /\ kw' = [kw EXCEPT ![p] = Weiter(kw[p])]
  /\ UNCHANGED <<bild, phase, thread, zaehler, kp, mitte_offset,
                 struktur_vorhanden, k, max_g, count3p, anzeige>>

(* Counted is what is still positive after the classification. *)
Linie_Bug(p, urteil) == Kopf(kw[p]).art > 0
Linie(p, urteil) == urteil > 0

(* plane_row: no usable line (0), too short (-1), too slanted (-2), kept. *)
PlaneRow(p) ==
  /\ phase = "plane" /\ laeuft[p] /\ kw[p] < Ende(p)
  /\ \E urteil \in {1, 0, -1, -2} :
       /\ IF Zaehlt(kw[p])
          THEN struktur' = Mit(kw[p], [Kopf(kw[p]) EXCEPT !.art = urteil])
          ELSE urteil = 0 /\ UNCHANGED struktur
       /\ count3p' = IF Linie(p, urteil) THEN [count3p EXCEPT ![p] = @ + 1]
                     ELSE count3p
  /\ kw' = [kw EXCEPT ![p] = Weiter(kw[p])]
  /\ UNCHANGED <<bild, phase, thread, zaehler, kp, mitte_offset,
                 struktur_vorhanden, k, max_g, anzeige>>

KetteFertig(p) ==
  /\ phase \in {"sort", "plane"} /\ laeuft[p] /\ kw[p] >= Ende(p)
  /\ Melde(p)
  /\ UNCHANGED <<bild, phase, gestartet, rpos, zaehler, ablage, kette, anzeige>>

Worker(p) ==
  \/ CalcRow(p) \/ FillRow1(p) \/ FillRow2(p) \/ FillFertig(p)
  \/ SortRow(p) \/ PlaneRow(p) \/ KetteFertig(p)

-----------------------------------------------------------------------------
(* The main thread between the joins. *)

NullZaehler_Bug == UNCHANGED <<maxp, countp>>
NullZaehler == maxp' = NullTeile /\ countp' = NullTeile

NachCalc ==
  /\ phase = "calc" /\ AlleFertig
  /\ NullZaehler
  /\ phase' = "fill1" /\ gestartet' = 0
  /\ UNCHANGED <<bild, laeuft, hCompleted, rpos, marke, ablage, kette, anzeige>>

(* The size of the array; nothing more to do when no region is kept. *)
NachFill1 ==
  /\ phase = "fill1" /\ AlleFertig
  /\ struktur_vorhanden' = (countp[0] + countp[1]) * Headersize
                             + (maxp[0] + maxp[1])
  /\ phase' = IF struktur_vorhanden' > 0 THEN "layout" ELSE "ende"
  /\ UNCHANGED <<bild, thread, zaehler, kp, mitte_offset, struktur, kette,
                 anzeige>>

(* calloc and the split of the array; fresh events for the next phases. *)
Layout ==
  /\ phase = "layout"
  /\ mitte_offset' = maxp[0] + countp[0] * Headersize
  /\ kp' = [p \in Teile |-> IF p = 0 THEN 0 ELSE mitte_offset']
  /\ countp' = NullTeile
  /\ hCompleted' = [p \in Teile |-> FALSE]
  /\ phase' = "fill2" /\ gestartet' = 0
  /\ UNCHANGED <<bild, laeuft, rpos, maxp, marke, struktur_vorhanden, struktur,
                 kette, anzeige>>

(* struktur == NULL: count3 is still 0, so the size is dropped as well. *)
CallocFehlt ==
  /\ phase = "layout"
  /\ struktur_vorhanden' = 0
  /\ phase' = "ende"
  /\ UNCHANGED <<bild, thread, zaehler, kp, mitte_offset, struktur, kette,
                 anzeige>>

NachFill2 ==
  /\ phase = "fill2" /\ AlleFertig
  /\ k' = 0 /\ max_g' = 0
  /\ phase' = "vote"
  /\ UNCHANGED <<bild, thread, zaehler, ablage, kw, count3p, anzeige>>

(* One record of the vote loop: too few of its pixels belong to its own   *)
(* partition (minsup); max_g becomes the largest record, dropped or not.  *)
Vote ==
  /\ phase = "vote" /\ k < struktur_vorhanden
  /\ \/ UNCHANGED struktur
     \/ /\ Zaehlt(k)
        /\ struktur' = Mit(k, [Kopf(k) EXCEPT !.art = 0])
  /\ max_g' = IF Laenge(k) > max_g THEN Laenge(k) ELSE max_g
  /\ k' = Weiter(k)
  /\ UNCHANGED <<bild, phase, thread, zaehler, kp, mitte_offset,
                 struktur_vorhanden, kw, count3p, anzeige>>

NachVote ==
  /\ phase = "vote" /\ k >= struktur_vorhanden
  /\ phase' = "sort" /\ gestartet' = 0
  /\ UNCHANGED <<bild, laeuft, hCompleted, rpos, zaehler, ablage, kette,
                 anzeige>>

NachSort ==
  /\ phase = "sort" /\ AlleFertig
  /\ phase' = "plane" /\ gestartet' = 0
  /\ UNCHANGED <<bild, laeuft, hCompleted, rpos, zaehler, ablage, kette,
                 anzeige>>

NachPlane ==
  /\ phase = "plane" /\ AlleFertig
  /\ ergebnis_vorhanden' = 1
  /\ phase' = "urteil"
  /\ UNCHANGED <<bild, thread, zaehler, ablage, kette, ergvo, struvo>>

ZuWenig_Bug == count3p[0] + count3p[1] < 1
ZuWenig == count3p[0] + count3p[1] < 2

(* Fewer than two lines cannot be corrected: the array is given back. *)
Urteil ==
  /\ phase = "urteil"
  /\ IF ZuWenig
     THEN /\ struktur' = <<>> /\ struktur_vorhanden' = 0
          /\ ergebnis_vorhanden' = 0
     ELSE UNCHANGED <<struktur, struktur_vorhanden, ergebnis_vorhanden>>
  /\ phase' = "ende"
  /\ UNCHANGED <<bild, thread, zaehler, kp, mitte_offset, kette, ergvo, struvo>>

(* The paint flag of the table: if (struktur_vorhanden) struvo=1. *)
Zeigbar == IF struktur_vorhanden > 0 THEN 1 ELSE 0

(* The end of OnGo: paints may show what there is again. *)
GoEnde ==
  /\ phase = "ende"
  /\ ergvo' = ergebnis_vorhanden
  /\ struvo' = Zeigbar
  /\ phase' = "idle"
  /\ UNCHANGED <<bild, thread, zaehler, ablage, kette, ergebnis_vorhanden>>

Haupt ==
  \/ Starte \/ NachCalc \/ NachFill1 \/ Layout \/ CallocFehlt \/ NachFill2
  \/ Vote \/ NachVote \/ NachSort \/ NachPlane \/ Urteil \/ GoEnde

Next == OnGo \/ Haupt \/ \E p \in Teile : Worker(p)

Spec == Init /\ [][Next]_vars

(* Once a run is started both threads and the main thread keep running;   *)
(* pressing Go is up to the user.                                         *)
FairSpec == Spec /\ WF_vars(Haupt) /\ \A p \in Teile : WF_vars(Worker(p))

-----------------------------------------------------------------------------
(* Properties. *)

TypThread ==
  /\ gestartet \in 0 .. 2
  /\ laeuft \in [Teile -> BOOLEAN] /\ hCompleted \in [Teile -> BOOLEAN]
  /\ rpos \in [Teile -> Nat \ {0}]

TypZaehler ==
  /\ countp \in [Teile -> Nat] /\ maxp \in [Teile -> Nat]
  /\ marke = [p \in Teile |-> marke[p]]
  /\ \A p \in Teile : marke[p] \in [0 .. Anzahl(p) -> Nat]

KopfSatz == [art : {1, 0, -1, -2}, teil : Teile, px : Nat, nb : Nat]

TypStruktur ==
  /\ DOMAIN struktur \subseteq Nat
  /\ \A a \in DOMAIN struktur : struktur[a] \in KopfSatz

TypAblage ==
  /\ kp \in [Teile -> Nat]
  /\ mitte_offset \in Nat /\ struktur_vorhanden \in Nat

TypKette ==
  /\ k \in Nat /\ max_g \in Nat
  /\ kw \in [Teile -> Nat] /\ count3p \in [Teile -> Nat]

TypAnzeige ==
  ergebnis_vorhanden \in {0, 1} /\ ergvo \in {0, 1} /\ struvo \in {0, 1}

TypeOK ==
  /\ bild \in Bilder
  /\ phase \in Phasen
  /\ TypThread /\ TypZaehler /\ TypStruktur /\ TypAblage /\ TypKette
  /\ TypAnzeige

(* Every write of fill2 stays inside the writing worker's own half of the  *)
(* array, also the write of a region that turns out too small: neither    *)
(* worker can touch the other's records or the memory after the array.    *)
EigeneHaelfte ==
  \A p \in Teile :
    phase = "fill2" /\ laeuft[p] /\ rpos[p] <= Anzahl(p) /\ kp[p] < Ende(p)
      => /\ Anfang(p) <= kp[p]
         /\ kp[p] + Headersize + Groesse(bild.regionen[p][rpos[p]]) <= Ende(p)

(* When the second pass has been joined, it has filled exactly the room    *)
(* the first pass had counted: no gap is left for a record walk to misread.*)
HaelftenVoll ==
  phase \in {"vote", "sort", "plane", "urteil"} =>
    \A p \in Teile : kp[p] = Ende(p)

(* A walk over the array (vote loop, sort_row, plane_row) reads a record   *)
(* header at every stop and never steps over the end of its half: stale    *)
(* headers of rejected regions and the other half are never read as one.   *)
KetteAufKopf ==
  /\ phase = "vote" =>
       k <= struktur_vorhanden /\ (k < struktur_vorhanden => k \in DOMAIN struktur)
  /\ phase \in {"sort", "plane"} =>
       \A p \in Teile : laeuft[p] =>
         /\ kw[p] <= Ende(p)
         /\ kw[p] < Ende(p) => kw[p] \in DOMAIN struktur /\ Kopf(kw[p]).teil = p

(* The buffers grauwerte (sort_row) and A2 (plane_row) are allocated for   *)
(* max_g entries, the largest record the vote loop met: no record that is  *)
(* sorted or fitted later is longer.                                       *)
PufferReicht ==
  phase \in {"sort", "plane"} =>
    \A p \in Teile : laeuft[p] /\ kw[p] < Ende(p) /\ Kopf(kw[p]).art > 0
      => Kopf(kw[p]).px + Kopf(kw[p]).nb <= max_g

(* The count that decides whether a correction is tried (at least two      *)
(* lines) is the number of records plane_row left positive, over both      *)
(* workers.                                                                *)
LinienGezaehlt ==
  phase = "urteil" =>
    count3p[0] + count3p[1] =
      Cardinality({a \in DOMAIN struktur : struktur[a].art > 0})

(* A paint may run whenever the progress dialog pumps messages; it walks   *)
(* struktur when struvo is set.  It then finds a finished table of at      *)
(* least two usable lines, never one that is being rebuilt or was freed.   *)
MalenSicher ==
  struvo = 1 =>
    /\ phase = "idle" /\ ergebnis_vorhanden = 1 /\ ergvo = 1
    /\ \A p \in Teile : ~laeuft[p]
    /\ Cardinality({a \in DOMAIN struktur : struktur[a].art > 0}) >= 2

(* From the vote on no record is lost or moved, and a region that one test *)
(* dropped is not brought back by a later one.                             *)
UrteilBleibt ==
  [][\A a \in DOMAIN struktur :
       /\ phase \in {"vote", "sort", "plane"} => a \in DOMAIN struktur'
       /\ phase \in {"vote", "sort", "plane"} /\ struktur[a].art <= 0
            => struktur'[a] = struktur[a]]_vars

(* Every Go ends, whatever the order in which threads start and finish:    *)
(* no completion event is lost between the phases.                         *)
GoEndet == phase # "idle" ~> phase = "idle"

-----------------------------------------------------------------------------
(* The table the readers of struktur (paint, fithomography) see. *)
Tabelle ==
  LET f[a \in 0 .. struktur_vorhanden] ==
        IF a >= struktur_vorhanden THEN <<>>
        ELSE <<Kopf(a)>> \o
             (IF Weiter(a) > struktur_vorhanden THEN <<>> ELSE f[Weiter(a)])
  IN f[0]

LT == INSTANCE LineTable WITH
        status <- IF phase # "idle" THEN "arbeit"
                  ELSE IF ergebnis_vorhanden = 1 THEN "fertig" ELSE "leer",
        tabelle <- IF phase = "idle" THEN Tabelle ELSE <<>>

(* OnGo implements LineTable: the two passes, the split of the array and   *)
(* the threads' interleaving never change which regions end up in the      *)
(* table or their order.                                                   *)
ErfuelltLineTable == LT!Spec
=============================================================================
