----------------------------- MODULE FloodFill -----------------------------
(***************************************************************************)
(* The two flood fills of the line detection, for one part: fill_row1 with *)
(* fill on layer 2+part (count only) and fill_row2 with fill2 on layer     *)
(* part (write the records).  RegionPass takes regions as given and needs  *)
(* both passes to find the same ones with the same sizes; here that is     *)
(* what has to hold, pixel by pixel.  One step is one turn of the fill     *)
(* loop: a pixel leaves the stack and its neighbours are examined.         *)
(***************************************************************************)
EXTENDS Integers, Sequences, FiniteSets, SequencesExt

CONSTANTS
  X, Y,        \* x_global, y_global
  Faelle       \* the cases: image as calc_row leaves it, nachbar, minsize

Headersize == 15
Farbe == 0              \* i_char(0): background, and a pixel already popped
Schwarz == 255          \* i_char(255): a pixel waiting on the stack
Pixel == (0 .. X - 1) \X (0 .. Y - 1)

ASSUME GroesseAssumption == X \in Nat \ {0} /\ Y \in Nat \ {0}
ASSUME FaelleAssumption ==
  \A f \in Faelle : /\ f.nachbar \in {0, 1} /\ f.minsize \in Nat
                    /\ f.farben \in [Pixel -> Nat \ {Schwarz}]

VARIABLES
  fall,          \* image and parameters of this run
  pass,          \* 1: fill_row1, 2: fill_row2, 3: both done
  schicht,       \* schicht[n]: the layer pass n works on
  aktiv,         \* inside fill / fill2
  oldcolor, stapel, stapel2,   \* locals of fill / fill2
  besucht,       \* pixels popped so far (stapel3; fill only counts them)
  countp, maxp, kp, ende,      \* ende: end of this part's half of struktur
  l_schicht,
  struktur,      \* the records kept by fill_row2, in address order
  liste          \* history: what fill_row1 counted, in order

fuellen == <<aktiv, oldcolor, stapel, stapel2, besucht>>
zaehler == <<countp, maxp, kp, ende>>
vars == <<fall, pass, schicht, fuellen, zaehler, l_schicht, struktur, liste>>

Init ==
  /\ fall \in Faelle
  /\ pass = 1
  /\ schicht = [n \in {1, 2} |-> fall.farben]
  /\ aktiv = FALSE /\ oldcolor = 0
  /\ stapel = <<>> /\ stapel2 = {} /\ besucht = <<>>
  /\ countp = 0 /\ maxp = 0 /\ kp = 0 /\ ende = 0
  /\ l_schicht = [q \in Pixel |-> 0]
  /\ struktur = <<>> /\ liste = <<>>

-----------------------------------------------------------------------------
(* Both fills look at the neighbours of q in this order; the two copies of *)
(* the code have to agree on it.                                           *)
Versatz4 == << <<0, -1>>, <<0, 1>>, <<-1, 0>>, <<1, 0>> >>
Versatz8_Bug == << <<-1, -1>>, <<-1, 0>>, <<-1, 1>>, <<1, -1>>, <<1, 0>>,
                   <<0, -1>>, <<0, 1>> >>
Versatz8 == << <<-1, -1>>, <<-1, 0>>, <<-1, 1>>, <<1, -1>>, <<1, 0>>, <<1, 1>>,
               <<0, -1>>, <<0, 1>> >>
Plus(q, d) == <<q[1] + d[1], q[2] + d[2]>>

Abfolge_Bug(q) ==
  LET v == IF fall.nachbar = 1 THEN Versatz8 ELSE Versatz4
      n == [i \in 1 .. Len(v) |-> Plus(q, v[i])]
  IN IF pass = 2 THEN Reverse(n) ELSE n
Abfolge(q) ==
  LET v == IF fall.nachbar = 1 THEN Versatz8 ELSE Versatz4
  IN [i \in 1 .. Len(v) |-> Plus(q, v[i])]

(* The entries of s that are in T. *)
Nur(s, T) ==
  LET nur[k \in 0 .. Len(s)] ==
        IF k = 0 THEN <<>>
        ELSE IF s[k] \in T THEN Append(nur[k - 1], s[k]) ELSE nur[k - 1]
  IN nur[Len(s)]

(* Right, lower right, below: pixels of another colour than the region.    *)
(* Pixels of the region itself count too once they are popped or waiting.  *)
Nebenan(layer, q) ==
  {r \in {Plus(q, <<1, 0>>), Plus(q, <<1, 1>>), Plus(q, <<0, 1>>)} \cap Pixel :
     layer[r] # oldcolor}

(* Pushing marks the pixel, so that it cannot be pushed a second time. *)
Markiere(layer, neue) ==
  [r \in Pixel |-> IF r \in neue THEN Schwarz ELSE layer[r]]

(* The scan order: columns from left to right, each from top to bottom.  *)
Vor(q, r) == q[1] < r[1] \/ (q[1] = r[1] /\ q[2] < r[2])
Farbig == {q \in Pixel : schicht[pass][q] > 0}

(* fill_row2 only floods while its half of struktur is not full. *)
Platz == pass = 2 => kp < ende

(* The scan runs on to the next coloured pixel; the fill starts there. *)
Beginne ==
  /\ pass \in {1, 2} /\ ~aktiv /\ Platz
  /\ \E q \in Farbig :
       /\ \A r \in Farbig \ {q} : Vor(q, r)
       /\ oldcolor' = schicht[pass][q]
       /\ stapel' = <<q>>
  /\ aktiv' = TRUE /\ stapel2' = {} /\ besucht' = <<>>
  /\ UNCHANGED <<fall, pass, schicht, zaehler, l_schicht, struktur, liste>>

(* One turn of "while (stapel.pop(pos))". *)
Fuelle ==
  /\ aktiv /\ stapel # <<>>
  /\ LET q == Head(stapel)
         ohne == [schicht[pass] EXCEPT ![q] = Farbe]
         neue == Nur(Abfolge(q), {r \in Pixel : ohne[r] = oldcolor})
     IN /\ stapel2' = stapel2 \cup Nebenan(ohne, q)
        /\ stapel' = Reverse(neue) \o Tail(stapel)
        /\ schicht' = [schicht EXCEPT ![pass] = Markiere(ohne, ToSet(neue))]
        /\ besucht' = Append(besucht, q)
  /\ UNCHANGED <<fall, pass, aktiv, oldcolor, zaehler, l_schicht, struktur,
                 liste>>

Kennung == [px |-> Len(besucht), nb |-> Cardinality(stapel2)]
Genug(max_gp, vorher) == max_gp - vorher >= fall.minsize

(* fill is done: its region is counted if it is large enough. *)
Fertig1 ==
  /\ pass = 1 /\ aktiv /\ stapel = <<>>
  /\ LET max_gp == maxp + Len(besucht) + Cardinality(stapel2)
     IN IF Genug(max_gp, maxp)
        THEN /\ countp' = countp + 1 /\ maxp' = max_gp
             /\ liste' = Append(liste, Kennung)
        ELSE UNCHANGED <<countp, maxp, liste>>
  /\ aktiv' = FALSE
  /\ UNCHANGED <<fall, pass, schicht, oldcolor, stapel, stapel2, besucht,
                 kp, ende, l_schicht, struktur>>

Extrem(S) == LET lo == CHOOSE a \in S : \A b \in S : a <= b
                 hi == CHOOSE a \in S : \A b \in S : a >= b
             IN (hi - lo) * (hi - lo)
(* Squared diagonal of the bounding box. *)
Betrquadr(Q) == Extrem({q[1] : q \in Q}) + Extrem({q[2] : q \in Q})

(* Every pixel that was popped, and no other, gets the new value. *)
Bewertet_Bug(Q) == Q \cup stapel2
Bewertet(Q) == Q

(* fill2 is done: l_schicht is written for the region in any case, the     *)
(* record is kept if it is large enough.                                   *)
Fertig2 ==
  /\ pass = 2 /\ aktiv /\ stapel = <<>>
  /\ LET Q == ToSet(besucht)
         max_gp == kp + Headersize + Len(besucht) + Cardinality(stapel2)
     IN /\ l_schicht' = [q \in Pixel |-> IF q \in Bewertet(Q) THEN Betrquadr(Q)
                                         ELSE l_schicht[q]]
        /\ IF Genug(max_gp, kp + Headersize)
           THEN /\ kp' = max_gp /\ countp' = countp + 1
                /\ struktur' = Append(struktur, [kennung |-> Kennung, pixel |-> Q])
           ELSE UNCHANGED <<kp, countp, struktur>>
  /\ aktiv' = FALSE
  /\ UNCHANGED <<fall, pass, schicht, oldcolor, stapel, stapel2, besucht,
                 maxp, ende, liste>>

(* Nothing coloured is left in the layer of the first pass: OnGo lays out  *)
(* the array and starts the second pass, if anything was counted at all.   *)
PassEnde1 ==
  /\ pass = 1 /\ ~aktiv /\ Farbig = {}
  /\ ende' = countp * Headersize + maxp
  /\ pass' = IF ende' > 0 THEN 2 ELSE 3
  /\ kp' = 0 /\ countp' = 0
  /\ UNCHANGED <<fall, schicht, fuellen, maxp, l_schicht, struktur, liste>>

(* The second scan also goes over what it no longer floods. *)
NichtsMehr_Bug == Farbig = {}
NichtsMehr == Farbig = {} \/ ~Platz

PassEnde2 ==
  /\ pass = 2 /\ ~aktiv /\ NichtsMehr
  /\ pass' = 3
  /\ UNCHANGED <<fall, schicht, fuellen, zaehler, l_schicht, struktur, liste>>

Geschafft == pass = 3 /\ UNCHANGED vars

Next == Beginne \/ Fuelle \/ Fertig1 \/ Fertig2 \/ PassEnde1 \/ PassEnde2
        \/ Geschafft

Spec == Init /\ [][Next]_vars
FairSpec == Spec /\ WF_vars(Next)

-----------------------------------------------------------------------------
(* Properties. *)

TypeOK ==
  /\ fall \in Faelle /\ pass \in 1 .. 3
  /\ schicht \in [{1, 2} -> [Pixel -> Nat]]
  /\ aktiv \in BOOLEAN /\ oldcolor \in Nat
  /\ stapel \in Seq(Pixel) /\ stapel2 \subseteq Pixel /\ besucht \in Seq(Pixel)
  /\ countp \in Nat /\ maxp \in Nat /\ kp \in Nat /\ ende \in Nat
  /\ l_schicht \in [Pixel -> Nat]

(* Two pixels are neighbours for the fill. *)
Nachbarn(q, r) ==
  /\ q[1] - r[1] \in -1 .. 1 /\ q[2] - r[2] \in -1 .. 1
  /\ fall.nachbar = 0 => q[1] = r[1] \/ q[2] = r[2]

(* The connected region of q in the image, by its definition: what rounds  *)
(* of stepping to a neighbour of the same colour reach from q.             *)
Gleich(q) == {r \in Pixel : fall.farben[r] = fall.farben[q]}
Runde(S, M) == S \cup {r \in M : \E s \in S : Nachbarn(r, s)}
Zusammenhang(q) ==
  LET runde[n \in 0 .. Cardinality(Gleich(q))] ==
        IF n = 0 THEN {q} ELSE Runde(runde[n - 1], Gleich(q))
  IN runde[Cardinality(Gleich(q))]

(* A fill takes exactly the connected region of its start pixel in the     *)
(* image calc_row made, whatever earlier fills left behind in the layer.   *)
(* On the way no pixel is ever on the stack twice or pushed again after it *)
(* was popped: no region is counted larger than it is, and the room for    *)
(* struktur, sized by the first pass, is not overrun by a second visit.    *)
GanzeRegion ==
  /\ aktiv => /\ IsInjective(besucht \o stapel)
              /\ \A i \in 2 .. Len(stapel) : schicht[pass][stapel[i]] = Schwarz
  /\ aktiv /\ stapel = <<>> => ToSet(besucht) = Zusammenhang(besucht[1])

(* The second pass keeps the regions the first pass counted, in the same   *)
(* order, with the same numbers of pixels and of neighbours -- although    *)
(* the neighbours found depend on the order in which pixels are visited.   *)
(* At the end none is missing and the half is filled to its last entry.    *)
Kennungen == [i \in DOMAIN struktur |-> struktur[i].kennung]
BeideGleich ==
  /\ pass >= 2 => IsPrefix(Kennungen, liste)
  /\ pass = 3 => Kennungen = liste /\ kp = ende

(* The vote compares l_schicht of both partitions pixel by pixel: at every *)
(* pixel of a kept region it holds the extent of that very region, not of  *)
(* one that was flooded later next to it.                                  *)
AusdehnungStimmt ==
  pass = 3 => \A i \in DOMAIN struktur :
                \A q \in struktur[i].pixel :
                  l_schicht[q] = Betrquadr(struktur[i].pixel)

(* Both passes come to an end for every image. *)
FuellenEndet == <>(pass = 3)
=============================================================================
