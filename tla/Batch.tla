-------------------------------- MODULE Batch --------------------------------
(***************************************************************************)
(* OnBatch on the disk: the selected files are put in order, then each is  *)
(* read, corrected and saved under a name made from its own, from the      *)
(* folder chosen and from m_suffix.  What happens to the open image in the *)
(* meantime is ImageSession's, what a crash leaves behind SaveImage's.     *)
(* Names are sequences of character codes, because order and cutting off   *)
(* the extension depend on them.  Upper and lower case are one.            *)
(***************************************************************************)
EXTENDS Integers, FiniteSets, SequencesExt

CONSTANTS
  Punkt,                \* the code of '.'
  Tmp,                  \* the codes of "_tmp"
  Endung,               \* [kind of file -> its extension's codes]; what is
                        \* not in Arten may be read, but is not written
  Fotos,                \* the files there are at first
  Suffixe, Formate,     \* settings of m_suffix and bilderart that are tried
  MaxWahl, MaxStapel    \* bounds: files in a batch, batches

Arten == {"jpg", "tif", "bmp"}
Zeichenkette == Seq(Nat \ {0})
Ordner == {"quelle", "ziel"}
Name ==
  {f \in [ordner : Ordner, stamm : Zeichenkette, art : DOMAIN Endung \cup {"ohne"}] :
     f.art = "ohne" => Punkt \notin ToSet(f.stamm)}

ASSUME PunktAssumption == Punkt \in Nat \ {0}
ASSUME EndungAssumption ==
  /\ Arten \subseteq DOMAIN Endung /\ "ohne" \notin DOMAIN Endung
  /\ \A a \in DOMAIN Endung : Endung[a] \in Zeichenkette /\ Punkt \notin ToSet(Endung[a])
ASSUME FotosAssumption == Fotos \subseteq Name
ASSUME SuffixeAssumption == Suffixe \subseteq Zeichenkette
ASSUME TmpAssumption == Tmp \in Zeichenkette /\ Tmp # <<>>
ASSUME FormateAssumption == Formate \subseteq SUBSET Arten
ASSUME SchrankenAssumption == MaxWahl \in Nat /\ MaxStapel \in Nat

VARIABLES
  fs,            \* [file -> photo it shows, how often corrected]
  m_suffix,
  bilderart,     \* formats the settings ask for
  batchname,     \* the list
  schritt,       \* where in OnBatch; "ruht" when it is not running
  i, ind,        \* locals of sort_batch
  path,          \* the folder chosen
  j,             \* the file at work
  foto,          \* what was read from it
  offen,         \* formats schreibe_bild has not come to
  stapel,        \* batches so far
  vorher,        \* history: fs when the batch began
  fertig         \* history: <<file, format>> written in this batch

vars == <<fs, m_suffix, bilderart, batchname, schritt, i, ind, path, j, foto,
          offen, stapel, vorher, fertig>>
laufvars == <<m_suffix, bilderart, batchname, path, stapel, vorher>>

KeinFoto == [foto |-> <<>>, mal |-> 0]

Init ==
  /\ fs = [f \in Fotos |-> [foto |-> f, mal |-> 0]]
  /\ m_suffix \in Suffixe /\ bilderart \in Formate
  /\ batchname = <<>> /\ schritt = "ruht"
  /\ i = 1 /\ ind = FALSE
  /\ path = "ziel" /\ j = 1 /\ foto = KeinFoto /\ offen = {}
  /\ stapel = 0 /\ vorher = fs /\ fertig = {}

(* The file dialog; the last settings hold. *)
OnBatch ==
  /\ schritt = "ruht" /\ stapel < MaxStapel
  /\ \E S \in SUBSET {f \in DOMAIN fs : f.ordner = "quelle"} :
       /\ Cardinality(S) \in 1 .. MaxWahl
       /\ batchname' \in SetToSeqs(S)
  /\ schritt' = "sort" /\ i' = 1 /\ ind' = FALSE
  /\ stapel' = stapel + 1 /\ vorher' = fs /\ fertig' = {}
  /\ UNCHANGED <<fs, m_suffix, bilderart, path, j, foto, offen>>

-----------------------------------------------------------------------------
(* sort_batch *)

(* A file's name as the code compares it (all are in one folder). *)
Text(f) == f.stamm \o (IF f.art = "ohne" THEN <<>> ELSE <<Punkt>> \o Endung[f.art])

(* kleiner: after the first difference d one more step is taken, and then a*)
(* name that has come to its end decides.                                  *)
Kleiner_Bug(a, b) ==
  LET verschieden == {q \in DOMAIN a \cap DOMAIN b : a[q] # b[q]}
  IN IF verschieden = {} THEN Len(a) < Len(b)
     ELSE LET d == CHOOSE q \in verschieden : \A r \in verschieden : q <= r
          IN Len(a) = d \/ a[d] < b[d]
Kleiner(a, b) ==
  LET verschieden == {q \in DOMAIN a \cap DOMAIN b : a[q] # b[q]}
  IN IF verschieden = {} THEN Len(a) < Len(b)
     ELSE LET d == CHOOSE q \in verschieden : \A r \in verschieden : q <= r
          IN Len(b) > d /\ (Len(a) = d \/ a[d] < b[d])

(* One comparison; the loop starts again while a pass has swapped. *)
Nochmal_Bug == FALSE
Nochmal == ind

Vergleiche ==
  /\ schritt = "sort"
  /\ IF i < Len(batchname)
     THEN /\ IF Kleiner(Text(batchname[i + 1]), Text(batchname[i]))
             THEN /\ batchname' = [batchname EXCEPT ![i] = batchname[i + 1],
                                                    ![i + 1] = batchname[i]]
                  /\ ind' = TRUE
             ELSE UNCHANGED <<batchname, ind>>
          /\ i' = i + 1 /\ UNCHANGED schritt
     ELSE /\ i' = 1 /\ ind' = FALSE
          /\ schritt' = IF Nochmal THEN "sort" ELSE "ordner"
          /\ UNCHANGED batchname
  /\ UNCHANGED <<fs, m_suffix, bilderart, path, j, foto, offen, stapel, vorher, fertig>>

-----------------------------------------------------------------------------
(* Folder and files. *)

Ordnerwahl ==
  /\ schritt = "ordner"
  /\ path' \in Ordner /\ schritt' = "lesen" /\ j' = 1
  /\ UNCHANGED <<fs, m_suffix, bilderart, batchname, i, ind, foto, offen, stapel, vorher, fertig>>

(* The folder dialog is cancelled, or all files are done. *)
Schluss ==
  /\ \/ schritt = "ordner"
     \/ schritt = "lesen" /\ j > Len(batchname)
  /\ batchname' = <<>> /\ schritt' = "ruht"
  /\ UNCHANGED <<fs, m_suffix, bilderart, i, ind, path, j, foto, offen, stapel, vorher, fertig>>

m_dateiname == batchname[j]

(* lese_bild and OnGo or OnGoB; what cannot be read, or has no lines to go *)
(* by, is left alone.                                                      *)
Lies ==
  /\ schritt = "lesen" /\ j <= Len(batchname)
  /\ \/ /\ m_dateiname \in DOMAIN fs
        /\ foto' = fs[m_dateiname]
        /\ schritt' = "schreiben" /\ offen' = bilderart /\ UNCHANGED j
     \/ j' = j + 1 /\ UNCHANGED <<foto, schritt, offen>>
  /\ UNCHANGED <<fs, laufvars, i, ind, fertig>>

(* The name without its extension: up to the last dot, if there is one. *)
OhneEndung_Bug(f) ==
  LET p == {q \in DOMAIN Text(f) : Text(f)[q] = Punkt}
  IN IF p = {} THEN Text(f)
     ELSE SubSeq(Text(f), 1, (CHOOSE q \in p : \A r \in p : q <= r) - 1)
OhneEndung(f) ==
  LET p == {q \in DOMAIN Text(f) : Text(f)[q] = Punkt}
  IN IF p = {} THEN Text(f)
     ELSE SubSeq(Text(f), 1, (CHOOSE q \in p : \A r \in p : q >= r) - 1)

(* The name of a result.  A JPEG without suffix is to take the original's  *)
(* place and is first called "_tmp".                                       *)
Ziel(f, art) ==
  [ordner |-> path, art |-> art,
   stamm |-> OhneEndung(f) \o
             (IF art = "jpg" /\ m_suffix = <<>> THEN Tmp ELSE m_suffix)]

Ergebnis(alt) == [alt EXCEPT !.mal = @ + 1]

Dazu(f, inhalt) == [g \in DOMAIN fs \cup {f} |-> IF g = f THEN inhalt ELSE fs[g]]
Ohne(f) == [g \in DOMAIN fs \ {f} |-> fs[g]]

(* TIFF, BMP, JPEG in this order; a file that does not open is skipped,    *)
(* but the original is still removed for a JPEG.                           *)
Schreibe(art) ==
  /\ schritt = "schreiben" /\ art \in offen
  /\ art = "bmp" => "tif" \notin offen
  /\ art = "jpg" => offen = {"jpg"}
  /\ \/ /\ fs' = Dazu(Ziel(m_dateiname, art), Ergebnis(foto))
        /\ fertig' = fertig \cup {<<m_dateiname, art>>}
     \/ UNCHANGED <<fs, fertig>>
  /\ offen' = offen \ {art}
  /\ schritt' = IF art = "jpg" /\ m_suffix = <<>> THEN "entfernen" ELSE schritt
  /\ UNCHANGED <<laufvars, i, ind, j, foto>>

(* remove(m_dateiname) *)
Entfernen ==
  /\ schritt = "entfernen"
  /\ fs' \in {fs, Ohne(m_dateiname)}
  /\ schritt' = "ersetzen"
  /\ UNCHANGED <<laufvars, i, ind, j, foto, offen, fertig>>

(* rename to m_dateiname fails when that is still there, and may when the  *)
(* folder is on another drive.                                             *)
Ersetzen ==
  /\ schritt = "ersetzen"
  /\ LET t == Ziel(m_dateiname, "jpg")
     IN \/ /\ t \in DOMAIN fs /\ m_dateiname \notin DOMAIN fs
           /\ fs' = [g \in (DOMAIN fs \ {t}) \cup {m_dateiname} |->
                       IF g = m_dateiname THEN fs[t] ELSE fs[g]]
        \/ UNCHANGED fs
  /\ schritt' = "schreiben"
  /\ UNCHANGED <<laufvars, i, ind, j, foto, offen, fertig>>

(* The image is closed. *)
Naechste ==
  /\ schritt = "schreiben" /\ offen = {}
  /\ j' = j + 1 /\ foto' = KeinFoto /\ schritt' = "lesen"
  /\ UNCHANGED <<fs, laufvars, i, ind, offen, fertig>>

-----------------------------------------------------------------------------
Arbeit == \/ Vergleiche \/ Ordnerwahl \/ Schluss \/ Lies
          \/ (\E art \in Arten : Schreibe(art)) \/ Entfernen \/ Ersetzen \/ Naechste

Next == OnBatch \/ Arbeit

Spec == Init /\ [][Next]_vars

(* The handler runs to its end once it is called. *)
FairSpec == Spec /\ WF_vars(Arbeit)

-----------------------------------------------------------------------------
TypeOK ==
  /\ \A f \in DOMAIN fs : f \in Name /\ fs[f] \in [foto : Fotos, mal : Nat]
  /\ m_suffix \in Suffixe /\ bilderart \in Formate
  /\ schritt \in {"ruht", "sort", "ordner", "lesen", "schreiben", "entfernen", "ersetzen"}
  /\ i \in Nat \ {0} /\ ind \in BOOLEAN /\ path \in Ordner
  /\ j \in Nat \ {0} /\ offen \subseteq Arten /\ stapel \in 0 .. MaxStapel

(* By the time the first file is read the list is in the order of a        *)
(* dictionary, any two files of it, although kleiner looks past the first  *)
(* difference and only neighbours are compared.  The exception is a name   *)
(* that differs from another in its very last letter: it comes first.      *)
Voran(a, b) ==
  \/ IsPrefix(a, b)
  \/ \E d \in DOMAIN a \cap DOMAIN b :
       /\ \A q \in 1 .. d - 1 : a[q] = b[q]
       /\ d = Len(a) \/ (d < Len(b) /\ a[d] < b[d])
GeordneteListe ==
  schritt \in {"ordner", "lesen", "schreiben"} =>
    \A k, l \in DOMAIN batchname :
      k < l => Voran(Text(batchname[k]), Text(batchname[l]))

(* Names that a batch is to give to a file's result: the file's own,       *)
(* without extension; an empty suffix makes a JPEG replace the file.       *)
Ersetzt(art) == art = "jpg" /\ m_suffix = <<>>
Soll(f, art) ==
  {[ordner |-> path, art |-> art,
    stamm |-> f.stamm \o (IF Ersetzt(art) THEN Tmp ELSE m_suffix)]}
  \cup (IF Ersetzt(art) THEN {f} ELSE {})

(* No two results, and no result and another file, share a name. *)
Getrennt ==
  LET gewaehlt == ToSet(batchname)
  IN \A f, g \in gewaehlt : \A a, b \in bilderart :
       /\ <<f, a>> # <<g, b>> => Soll(f, a) \cap Soll(g, b) = {}
       /\ f # g => g \notin Soll(f, a)

(* A batch does to each file what saving it alone would do, however many   *)
(* others fail: as long as the names are apart, every file that was written*)
(* holds the photo it is named for, corrected once more, and with a suffix *)
(* every other file is as it was.                                          *)
JederFuerSich ==
  schritt = "lesen" /\ Getrennt =>
    /\ \A k \in 1 .. j - 1 : \A art \in bilderart :
         LET f == batchname[k]
         IN <<f, art>> \in fertig =>
              \E g \in Soll(f, art) \cap DOMAIN fs : fs[g] = Ergebnis(vorher[f])
    /\ m_suffix # <<>> =>
         \A g \in DOMAIN vorher :
           \/ g \in DOMAIN fs /\ fs[g] = vorher[g]
           \/ \E f \in ToSet(batchname), art \in bilderart : g \in Soll(f, art)

(* A batch comes to its end: the list gets sorted and no file is worked on *)
(* for ever.                                                               *)
StapelEndet == schritt # "ruht" ~> schritt = "ruht"
=============================================================================
