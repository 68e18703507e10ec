------------------------------ MODULE LineTable ------------------------------
(***************************************************************************)
(* What OnGo promises of the line detection, without threads, passes or    *)
(* memory: after a run the table holds one entry for every region that is  *)
(* large enough, those of partition 0 first, each partition in scan order, *)
(* at least two of them usable as lines; or there is no result.            *)
(***************************************************************************)
EXTENDS Integers, Sequences

CONSTANT Bilder

VARIABLES bild, status, tabelle

vars == <<bild, status, tabelle>>

(* The regions of b that are large enough, and the order they are met in. *)
Grosse(b) ==
  LET gross(p) == {s \in 1 .. Len(b.regionen[p]) :
                     b.regionen[p][s].px + b.regionen[p][s].nb >= b.minsize}
  IN ({0} \X gross(0)) \cup ({1} \X gross(1))
Vor(r, s) == r[1] < s[1] \/ (r[1] = s[1] /\ r[2] < s[2])

(* The entries of t are those regions of b, each once and in this order,   *)
(* whatever the verdicts: q says which entry is which.                     *)
Passt(t, b) ==
  \E q \in [1 .. Len(t) -> Grosse(b)] :
    /\ \A i \in 1 .. Len(t) :
         LET r == b.regionen[q[i][1]][q[i][2]]
         IN t[i].teil = q[i][1] /\ t[i].px = r.px /\ t[i].nb = r.nb
    /\ \A i, j \in 1 .. Len(t) : i < j => Vor(q[i], q[j])
    /\ \A r \in Grosse(b) : \E i \in 1 .. Len(t) : q[i] = r

Init == bild \in Bilder /\ status = "leer" /\ tabelle = <<>>

Beginne ==
  /\ status # "arbeit"
  /\ status' = "arbeit" /\ tabelle' = <<>>
  /\ bild' \in Bilder

Ergebnis ==
  /\ status = "arbeit"
  /\ status' = "fertig"
  /\ Passt(tabelle', bild)
  /\ \E i, j \in 1 .. Len(tabelle') :
       i # j /\ tabelle'[i].art > 0 /\ tabelle'[j].art > 0
  /\ UNCHANGED bild

KeinErgebnis ==
  /\ status = "arbeit"
  /\ status' = "leer" /\ tabelle' = <<>>
  /\ UNCHANGED bild

Next == Beginne \/ Ergebnis \/ KeinErgebnis

Spec == Init /\ [][Next]_vars
=============================================================================
