-------------------------- MODULE SaveImage_proofs --------------------------
(***************************************************************************)
(* What a save leaves on the disk, for every original and every number of  *)
(* saves: the original unless it is asked for, a complete picture however  *)
(* the save is interrupted and whichever of most steps fails, the EXIF     *)
(* data, no second turn, no remains.                                       *)
(***************************************************************************)
EXTENDS SaveImage, TLAPS

-----------------------------------------------------------------------------
(* The invariant. *)

InJpg == {"jpg2", "jhead", "umben", "auf", "schreib", "weg", "entfernen", "ersetzen"}
InJhead == {"jhead", "umben", "auf", "schreib", "weg"}
Vorlaeufig == {"bild_tmp", "aus_tmp"}

(* What the step says about the save that is running. *)
JobInv ==
  /\ job.ziel \notin Vorlaeufig
  /\ job.ziel = "bild" => job.saveas \/ ~job.suffix
  /\ Ersetzt => job.ziel = Zielstamm(FALSE)
  /\ schritt \in InJpg => "jpg" \in job.bilderart
  /\ schritt \in InJhead => ist_jpeg
  /\ schritt \in {"entfernen", "ersetzen"} => Ersetzt

(* The new JPEG is there, and whole unless jhead's writing has failed,     *)
(* whenever the next step relies on it; the original only gives way to it, *)
(* and stays under the temporary name when the rename fails.               *)
JpgInv ==
  /\ schritt \in {"jhead", "umben", "weg"} => Da(JpgName)
  /\ fehler \cap {"jpg", "voll"} = {} =>
       /\ schritt \in {"jhead", "umben", "weg", "entfernen", "ersetzen"} =>
            GanzesJpg(JpgName)
       /\ schritt \in {"umben", "auf", "schreib"} => speicher.ganz
       /\ ist_jpeg /\ schritt # "aus" /\ (schritt = "ersetzen" => Da(m_dateiname))
            /\ (AufOriginal => schritt \notin {"jpg2", "auf", "schreib"}) =>
            \/ GanzesJpg(m_dateiname)
            \/ "name" \in fehler /\ (GanzesJpg(TmpName) \/ TmpInArbeit)

(* Where the EXIF section is on its way from the original to the result.   *)
ExifInv ==
  /\ ~ist_jpeg => ~job.exif /\ \A n \in DOMAIN fs : ~fs[n].exif.da
  /\ ist_jpeg /\ ~AufOriginal /\ schritt \notin {"bereit", "entfernen", "ersetzen", "aus"} =>
       (job.exif <=> HatExif)
  /\ schritt = "jhead" /\ pass = 1 => fs[JpgName].exif = KeinExif
  /\ heil /\ ~AufOriginal =>
       /\ schritt \in {"umben", "auf", "schreib"} => (speicher.exif.da <=> job.exif)
       /\ (schritt = "jhead" /\ pass = 2) \/ schritt \in {"weg", "entfernen", "ersetzen"} =>
            (fs[JpgName].exif.da <=> job.exif)
  /\ schritt = "ersetzen" /\ heil => ~Da(m_dateiname)

(* The new file keeps the orientation only until the second pass is over.  *)
DrehInv ==
  exifdreh /\ schritt # "aus" /\ heil =>
    /\ pass = 2 /\ schritt \in {"umben", "auf", "schreib"} => ~speicher.exif.lage
    /\ \A n \in DOMAIN fs :
         fs[n].bild = "ergebnis" /\ fs[n].ganz /\ fs[n].exif.lage =>
           \/ /\ n = JpgName
              /\ \/ pass = 2 /\ schritt \in {"jhead", "umben", "auf"}
                 \/ pass = 1 /\ schritt = "weg"
           \/ n = Sicherung(JpgName)

(* Which temporary and backup files there can be. *)
ResteInv ==
  schritt # "aus" /\ heil =>
    \A n \in DOMAIN fs :
      /\ n.t => n = Sicherung(JpgName) /\ schritt \in {"auf", "schreib", "weg"}
      /\ n.stamm \in Vorlaeufig =>
           Ersetzt /\ schritt \in InJpg /\ n \in {JpgName, Sicherung(JpgName)}

IInv == /\ TypeOK /\ JobInv /\ JpgInv /\ ExifInv /\ DrehInv /\ ResteInv
        /\ BildBleibt /\ ExifKommtMit

-----------------------------------------------------------------------------
(* Names and contents. *)

(* What the other proofs need to know of the names of a save.  *)
LEMMA NamenLemma ==
  ASSUME TypeOK, JobInv
  PROVE  /\ m_dateiname \in Namen /\ ~m_dateiname.t /\ m_dateiname.stamm = "bild"
         /\ JpgName \in Namen /\ ~JpgName.t
         /\ Sicherung(JpgName) \in Namen /\ Sicherung(JpgName).t
         /\ Sicherung(JpgName).stamm = JpgName.stamm
         /\ Ersetzt <=> JpgName.stamm \in Vorlaeufig
         /\ ist_jpeg /\ ~AufOriginal /\ "jpg" \in job.bilderart => JpgName # m_dateiname
         /\ ist_jpeg /\ AufOriginal => JpgName = m_dateiname
         /\ Ersetzt => JpgName # m_dateiname
         /\ job.suffix /\ job.ziel # "bild" => JpgName # m_dateiname
         /\ TmpName \in Namen /\ ~TmpName.t /\ TmpName # m_dateiname
         /\ Ersetzt <=> JpgName = TmpName
<1>1. /\ fall \in Fall /\ fall.art \in Arten
      /\ job.ziel \in Staemme /\ job.saveas \in BOOLEAN /\ job.suffix \in BOOLEAN
  BY FaelleAssumption DEF TypeOK, Fall, Job
<1>2. /\ m_dateiname = [stamm |-> "bild", ext |-> fall.art, t |-> FALSE]
      /\ JpgName.ext = "jpg" /\ JpgName.t = FALSE /\ JpgName.stamm \in Staemme
      /\ JpgName = [stamm |-> JpgName.stamm, ext |-> "jpg", t |-> FALSE]
      /\ JpgName.stamm = IF ~Ersetzt THEN job.ziel
                         ELSE IF job.ziel = "aus" THEN "aus_tmp" ELSE "bild_tmp"
  BY <1>1 DEF m_dateiname, Name, JpgName, Staemme
<1>3. Sicherung(JpgName) = [stamm |-> JpgName.stamm, ext |-> "jpg", t |-> TRUE]
  BY <1>2 DEF Sicherung
<1>4. m_dateiname = JpgName => JpgName.stamm = "bild" /\ ist_jpeg
  BY <1>2 DEF ist_jpeg
<1>5. Ersetzt <=> JpgName.stamm \in Vorlaeufig
  BY <1>2 DEF JobInv, Vorlaeufig
<1>6. JpgName.stamm = "bild" => ~Ersetzt /\ job.ziel = "bild"
  BY <1>2
<1>7. job.ziel = "bild" /\ ~Ersetzt => job.saveas
  BY DEF JobInv, Ersetzt
<1>8. m_dateiname \in Namen /\ JpgName \in Namen /\ Sicherung(JpgName) \in Namen
  <2>1. \A s \in Staemme, e \in Arten, b \in BOOLEAN :
          [stamm |-> s, ext |-> e, t |-> b] \in Namen
    BY DEF Namen
  <2>2. "jpg" \in Arten /\ "bild" \in Staemme
    BY DEF Arten, Staemme
  <2> QED
    BY <1>1, <1>2, <1>3, <2>1, <2>2
<1>9. Ersetzt => JpgName.stamm # "bild"
  BY <1>2
<1>10. /\ m_dateiname.stamm = "bild" /\ ~m_dateiname.t
       /\ Sicherung(JpgName).t /\ Sicherung(JpgName).stamm = JpgName.stamm
  BY <1>2, <1>3
<1>11. /\ ist_jpeg /\ ~AufOriginal /\ "jpg" \in job.bilderart => JpgName # m_dateiname
       /\ Ersetzt => JpgName # m_dateiname
  BY <1>4, <1>6, <1>7, <1>9 DEF AufOriginal, ist_jpeg
<1>12. job.suffix /\ job.ziel # "bild" => JpgName # m_dateiname
  BY <1>4, <1>6
<1>13. ist_jpeg /\ AufOriginal => JpgName = m_dateiname
  BY <1>2 DEF ist_jpeg, AufOriginal, Ersetzt
<1>14. /\ TmpName.stamm = IF fall.direkt THEN "aus_tmp" ELSE "bild_tmp"
       /\ TmpName = [stamm |-> TmpName.stamm, ext |-> "jpg", t |-> FALSE]
       /\ TmpName.t = FALSE
  BY DEF TmpName, Name
<1>15. TmpName \in Namen /\ TmpName.stamm \in Vorlaeufig
  <2>1. TmpName.stamm \in Vorlaeufig /\ TmpName.stamm \in Staemme /\ "jpg" \in Arten
    BY <1>14 DEF Vorlaeufig, Staemme, Arten
  <2>2. \A s \in Staemme, e \in Arten, b \in BOOLEAN :
          [stamm |-> s, ext |-> e, t |-> b] \in Namen
    BY DEF Namen
  <2> QED
    BY <1>14, <2>1, <2>2
<1>16. TmpName # m_dateiname
  BY <1>10, <1>15 DEF Vorlaeufig
<1>17. Ersetzt => JpgName = TmpName
  <2>1. Ersetzt => JpgName.stamm = TmpName.stamm
    BY <1>2, <1>14 DEF JobInv, Zielstamm
  <2> QED
    BY <1>2, <1>14, <2>1
<1>18. JpgName = TmpName => Ersetzt
  BY <1>5, <1>15
<1> QED
  BY <1>2, <1>5, <1>8, <1>10, <1>11, <1>12, <1>13, <1>14, <1>15, <1>16, <1>17, <1>18

(* TIFF and BMP results meet neither the JPEG nor a JPEG original. *)
LEMMA AndereNamen ==
  ASSUME TypeOK, JobInv, NEW art \in {"tif", "bmp"}
  PROVE  /\ Name(job.ziel, art) \in Namen /\ ~Name(job.ziel, art).t
         /\ Name(job.ziel, art).stamm \notin Vorlaeufig
         /\ Name(job.ziel, art) # JpgName /\ Name(job.ziel, art) # TmpName
         /\ ist_jpeg => Name(job.ziel, art) # m_dateiname
         /\ job.ziel # "bild" => Name(job.ziel, art) # m_dateiname
<1>1. job.ziel \in Staemme
  BY DEF TypeOK, Job
<1>2. Name(job.ziel, art).ext = art /\ Name(job.ziel, art).stamm = job.ziel
      /\ Name(job.ziel, art).t = FALSE /\ Name(job.ziel, art) \in Namen
  BY <1>1 DEF Name, Namen, Arten
<1>3. /\ JpgName.ext = "jpg" /\ TmpName.ext = "jpg"
      /\ m_dateiname.ext = fall.art /\ m_dateiname.stamm = "bild"
  BY DEF JpgName, TmpName, Name, m_dateiname
<1> QED
  BY <1>2, <1>3 DEF JobInv, ist_jpeg

(* They stay the same during a save. *)
LEMMA SelberJob ==
  ASSUME UNCHANGED <<fall, job>>
  PROVE  /\ JpgName' = JpgName /\ m_dateiname' = m_dateiname
         /\ Sicherung(JpgName)' = Sicherung(JpgName)
         /\ Ersetzt' = Ersetzt /\ AufOriginal' = AufOriginal
         /\ ist_jpeg' = ist_jpeg /\ exifdreh' = exifdreh
         /\ TmpName' = TmpName /\ Zielstamm(FALSE)' = Zielstamm(FALSE)
BY DEF JpgName, TmpName, Zielstamm, m_dateiname, Ersetzt, AufOriginal, ist_jpeg, exifdreh, Name, Sicherung

LEMMA ErgebnisLemma ==
  ASSUME NEW art \in Arten, NEW ganz \in BOOLEAN, NEW exif \in Exif
  PROVE  /\ Ergebnis(art, ganz, exif) \in Inhalt
         /\ Ergebnis(art, ganz, exif).ganz = ganz
         /\ Ergebnis(art, ganz, exif).art = art
         /\ Ergebnis(art, ganz, exif).exif = exif
BY DEF Ergebnis, Inhalt

LEMMA KeinExifLemma == KeinExif \in Exif /\ ~KeinExif.da /\ ~KeinExif.lage
BY DEF KeinExif, Exif

(* What Mit, Ohne and Verschoben do to a folder. *)
Ordner(f) == DOMAIN f \subseteq Namen /\ \A n \in DOMAIN f : f[n] \in Inhalt

LEMMA MitLemma ==
  ASSUME Ordner(fs), NEW n \in Namen, NEW inhalt \in Inhalt, fs' = Mit(n, inhalt)
  PROVE  /\ Ordner(fs')
         /\ DOMAIN fs' = DOMAIN fs \cup {n}
         /\ fs'[n] = inhalt
         /\ \A q \in DOMAIN fs : q # n => fs'[q] = fs[q]
BY DEF Mit, Ordner

LEMMA OhneLemma ==
  ASSUME Ordner(fs), NEW n \in Namen, fs' = Ohne(n)
  PROVE  /\ Ordner(fs')
         /\ DOMAIN fs' = DOMAIN fs \ {n}
         /\ \A q \in DOMAIN fs : q # n => fs'[q] = fs[q]
BY DEF Ohne, Ordner

LEMMA VerschobenLemma ==
  ASSUME Ordner(fs), NEW n \in DOMAIN fs, NEW m \in Namen, n # m,
         fs' = Verschoben(n, m)
  PROVE  /\ Ordner(fs')
         /\ DOMAIN fs' = (DOMAIN fs \ {n}) \cup {m}
         /\ fs'[m] = fs[n]
         /\ \A q \in DOMAIN fs : q # n /\ q # m => fs'[q] = fs[q]
BY DEF Verschoben, Ordner

-----------------------------------------------------------------------------
(* The steps. *)

(* A save begins. *)
LEMMA AuftragSchritt ==
  ASSUME IInv, schritt = "bereit", schritt' = "tif",
         job' \in Job, job'.ziel \notin Vorlaeufig, job'.exif = HatExif,
         job'.ziel = "bild" => job'.saveas \/ ~job'.suffix,
         Ersetzt' => job'.ziel = Zielstamm(FALSE),
         saves' \in 0 .. MaxSaves, UNCHANGED <<fall, fs, speicher, pass, fehler>>
  PROVE  IInv'
<1> USE DEF IInv
<1>1. /\ m_dateiname' = m_dateiname /\ ist_jpeg' = ist_jpeg /\ exifdreh' = exifdreh
      /\ TmpName' = TmpName /\ Zielstamm(FALSE)' = Zielstamm(FALSE)
  BY DEF m_dateiname, ist_jpeg, exifdreh, TmpName, Zielstamm
<1>2. TypeOK'
  BY <1>1, NamenLemma
     DEF TypeOK, Schritte, Fehler
<1>3. JobInv'
  BY <1>1, NamenLemma
     DEF JobInv, InJpg, InJhead
<1>4. JpgInv'
  BY <1>1, NamenLemma
     DEF JpgInv, GanzesJpg, TmpInArbeit, Da
<1>5. ExifInv'
  BY <1>1, NamenLemma
     DEF ExifInv, HatExif, Da, heil, JpgInv, GanzesJpg
<1>6. DrehInv'
  BY <1>1, NamenLemma
     DEF DrehInv, heil, ResteInv
<1>7. ResteInv'
  BY <1>1, NamenLemma
     DEF ResteInv, InJpg, heil, Vorlaeufig, ExifInv, Da
<1>8. BildBleibt'
  BY <1>1, NamenLemma
     DEF BildBleibt, JpgInv, GanzesJpg, TmpInArbeit, Da
<1>9. ExifKommtMit'
  BY <1>1, NamenLemma
     DEF ExifKommtMit, Gespeichert, Endname, heil, Da, ExifInv, JpgInv, GanzesJpg
<1> QED
  BY <1>2, <1>3, <1>4, <1>5, <1>6, <1>7, <1>8, <1>9

(* A TIFF or BMP file is opened or finished. *)
LEMMA ZuSchritt ==
  ASSUME IInv, NEW art \in {"tif", "bmp"}, NEW ganz \in BOOLEAN,
         schritt \in {"tif", "tif2", "bmp", "bmp2"},
         schritt' \in {"tif2", "bmp", "bmp2", "jpg"},
         fs' = Mit(Name(job.ziel, art), Ergebnis(art, ganz, KeinExif)),
         fehler' \in {fehler, fehler \cup {"sonst"}},
         UNCHANGED <<fall, job, speicher, pass, saves>>
  PROVE  IInv'
<1> USE DEF IInv
<1>1. /\ JpgName' = JpgName /\ m_dateiname' = m_dateiname
      /\ Sicherung(JpgName)' = Sicherung(JpgName)
      /\ Ersetzt' = Ersetzt /\ AufOriginal' = AufOriginal
      /\ ist_jpeg' = ist_jpeg /\ exifdreh' = exifdreh
      /\ TmpName' = TmpName /\ Zielstamm(FALSE)' = Zielstamm(FALSE)
  BY SelberJob
<1> DEFINE n == Name(job.ziel, art)
           c == Ergebnis(art, ganz, KeinExif)
<1>2. /\ c \in Inhalt /\ ~c.exif.da /\ ~c.exif.lage
  BY DEF Ergebnis, KeinExif, Inhalt, Exif, Arten
<1>3. /\ n \in Namen /\ ~n.t /\ n.stamm \notin Vorlaeufig
      /\ n # JpgName /\ n # TmpName /\ (ist_jpeg => n # m_dateiname)
  BY AndereNamen
<1>4. Ordner(fs)
  BY DEF TypeOK, Ordner
<1>5. fs' = Mit(n, c)
  OBVIOUS
<1> HIDE DEF n, c
<1>6. Ordner(fs') /\ DOMAIN fs' = DOMAIN fs \cup {n} /\ fs'[n] = c
      /\ \A q \in DOMAIN fs : q # n => fs'[q] = fs[q]
  BY <1>2, <1>3, <1>4, <1>5, MitLemma
<1>7. TypeOK'
  BY <1>1, <1>2, <1>3, <1>4, <1>5, <1>6, NamenLemma
     DEF TypeOK, Schritte, Fehler
<1>8. JobInv'
  BY <1>1, <1>2, <1>3, <1>4, <1>5, <1>6, NamenLemma
     DEF JobInv, InJpg, InJhead
<1>9. JpgInv'
  BY <1>1, <1>2, <1>3, <1>4, <1>5, <1>6, NamenLemma
     DEF JpgInv, GanzesJpg, TmpInArbeit, Da
<1>10. ExifInv'
  BY <1>1, <1>2, <1>3, <1>4, <1>5, <1>6, NamenLemma
     DEF ExifInv, HatExif, Da, heil, JpgInv, GanzesJpg
<1>11. DrehInv'
  BY <1>1, <1>2, <1>3, <1>4, <1>5, <1>6, NamenLemma
     DEF DrehInv, heil
<1>12. ResteInv'
  BY <1>1, <1>2, <1>3, <1>4, <1>5, <1>6, NamenLemma
     DEF ResteInv, InJpg, heil, Vorlaeufig, ExifInv, Da
<1>13. BildBleibt'
  BY <1>1, <1>2, <1>3, <1>4, <1>5, <1>6, NamenLemma
     DEF BildBleibt, JpgInv, GanzesJpg, TmpInArbeit, Da
<1>14. ExifKommtMit'
  BY <1>1, <1>2, <1>3, <1>4, <1>5, <1>6, NamenLemma
     DEF ExifKommtMit, Gespeichert, Endname, heil, Da, ExifInv, JpgInv, GanzesJpg
<1> QED
  BY <1>7, <1>8, <1>9, <1>10, <1>11, <1>12, <1>13, <1>14

(* A TIFF or BMP file is not written. *)
LEMMA UeberspringenSchritt ==
  ASSUME IInv, schritt \in {"tif", "bmp"}, schritt' \in {"bmp", "jpg"},
         fehler' \in {fehler, fehler \cup {"sonst"}},
         UNCHANGED <<fall, fs, job, speicher, pass, saves>>
  PROVE  IInv'
<1> USE DEF IInv
<1>1. /\ JpgName' = JpgName /\ m_dateiname' = m_dateiname
      /\ Sicherung(JpgName)' = Sicherung(JpgName)
      /\ Ersetzt' = Ersetzt /\ AufOriginal' = AufOriginal
      /\ ist_jpeg' = ist_jpeg /\ exifdreh' = exifdreh
      /\ TmpName' = TmpName /\ Zielstamm(FALSE)' = Zielstamm(FALSE)
  BY SelberJob
<1>2. TypeOK'
  BY <1>1, NamenLemma
     DEF TypeOK, Schritte, Fehler
<1>3. JobInv'
  BY <1>1, NamenLemma
     DEF JobInv, InJpg, InJhead
<1>4. JpgInv'
  BY <1>1, NamenLemma
     DEF JpgInv, GanzesJpg, TmpInArbeit, Da
<1>5. ExifInv'
  BY <1>1, NamenLemma
     DEF ExifInv, HatExif, Da, heil, JpgInv, GanzesJpg
<1>6. DrehInv'
  BY <1>1, NamenLemma
     DEF DrehInv, heil
<1>7. ResteInv'
  BY <1>1, NamenLemma
     DEF ResteInv, InJpg, heil, Vorlaeufig, ExifInv, Da
<1>8. BildBleibt'
  BY <1>1, NamenLemma
     DEF BildBleibt, JpgInv, GanzesJpg, TmpInArbeit, Da
<1>9. ExifKommtMit'
  BY <1>1, NamenLemma
     DEF ExifKommtMit, Gespeichert, Endname, heil, Da, ExifInv, JpgInv, GanzesJpg
<1> QED
  BY <1>2, <1>3, <1>4, <1>5, <1>6, <1>7, <1>8, <1>9

(* The process ends. *)
LEMMA EndeSchritt ==
  ASSUME IInv, schritt \notin {"bereit", "aus"}, schritt' = "aus",
         UNCHANGED <<fall, fs, job, speicher, pass, saves, fehler>>
  PROVE  IInv'
<1> USE DEF IInv
<1>1. /\ JpgName' = JpgName /\ m_dateiname' = m_dateiname
      /\ Sicherung(JpgName)' = Sicherung(JpgName)
      /\ Ersetzt' = Ersetzt /\ AufOriginal' = AufOriginal
      /\ ist_jpeg' = ist_jpeg /\ exifdreh' = exifdreh
      /\ TmpName' = TmpName /\ Zielstamm(FALSE)' = Zielstamm(FALSE)
  BY SelberJob
<1>2. TypeOK'
  BY <1>1, NamenLemma
     DEF TypeOK, Schritte, Fehler
<1>3. JobInv'
  BY <1>1, NamenLemma
     DEF JobInv, InJpg, InJhead
<1>4. JpgInv'
  BY <1>1, NamenLemma
     DEF JpgInv, GanzesJpg, TmpInArbeit, Da
<1>5. ExifInv'
  BY <1>1, NamenLemma
     DEF ExifInv, HatExif, Da, heil, JpgInv, GanzesJpg
<1>6. DrehInv'
  BY <1>1, NamenLemma
     DEF DrehInv, heil
<1>7. ResteInv'
  BY <1>1, NamenLemma
     DEF ResteInv, InJpg, heil, Vorlaeufig, ExifInv, Da
<1>8. BildBleibt'
  BY <1>1, NamenLemma
     DEF BildBleibt, JpgInv, GanzesJpg, TmpInArbeit, Da
<1>9. ExifKommtMit'
  BY <1>1, NamenLemma
     DEF ExifKommtMit, Gespeichert, Endname, heil, Da, ExifInv, JpgInv, GanzesJpg
<1> QED
  BY <1>2, <1>3, <1>4, <1>5, <1>6, <1>7, <1>8, <1>9

(* A save without a JPEG is over. *)
LEMMA OhneJpgSchritt ==
  ASSUME IInv, schritt = "jpg", schritt' = "bereit", "jpg" \notin job.bilderart,
         UNCHANGED <<fall, fs, job, speicher, pass, saves, fehler>>
  PROVE  IInv'
<1> USE DEF IInv
<1>1. /\ JpgName' = JpgName /\ m_dateiname' = m_dateiname
      /\ Sicherung(JpgName)' = Sicherung(JpgName)
      /\ Ersetzt' = Ersetzt /\ AufOriginal' = AufOriginal
      /\ ist_jpeg' = ist_jpeg /\ exifdreh' = exifdreh
      /\ TmpName' = TmpName /\ Zielstamm(FALSE)' = Zielstamm(FALSE)
  BY SelberJob
<1>2. TypeOK'
  BY <1>1, NamenLemma
     DEF TypeOK, Schritte, Fehler
<1>3. JobInv'
  BY <1>1, NamenLemma
     DEF JobInv, InJpg, InJhead
<1>4. JpgInv'
  BY <1>1, NamenLemma
     DEF JpgInv, GanzesJpg, TmpInArbeit, Da
<1>5. ExifInv'
  BY <1>1, NamenLemma
     DEF ExifInv, HatExif, Da, heil, JpgInv, GanzesJpg
<1>6. DrehInv'
  BY <1>1, NamenLemma
     DEF DrehInv, heil
<1>7. ResteInv'
  BY <1>1, NamenLemma
     DEF ResteInv, InJpg, heil, Vorlaeufig, ExifInv, Da
<1>8. BildBleibt'
  BY <1>1, NamenLemma
     DEF BildBleibt, JpgInv, GanzesJpg, TmpInArbeit, Da
<1>9. ExifKommtMit'
  BY <1>1, NamenLemma
     DEF ExifKommtMit, Gespeichert, Endname, heil, Da, ExifInv, JpgInv, GanzesJpg
<1> QED
  BY <1>2, <1>3, <1>4, <1>5, <1>6, <1>7, <1>8, <1>9

(* The JPEG is opened. *)
LEMMA JpgAufSchritt ==
  ASSUME IInv, schritt = "jpg", schritt' = "jpg2", "jpg" \in job.bilderart,
         fs' = Mit(JpgName, Ergebnis("jpg", FALSE, KeinExif)),
         UNCHANGED <<fall, job, speicher, pass, saves, fehler>>
  PROVE  IInv'
<1> USE DEF IInv
<1>1. /\ JpgName' = JpgName /\ m_dateiname' = m_dateiname
      /\ Sicherung(JpgName)' = Sicherung(JpgName)
      /\ Ersetzt' = Ersetzt /\ AufOriginal' = AufOriginal
      /\ ist_jpeg' = ist_jpeg /\ exifdreh' = exifdreh
      /\ TmpName' = TmpName /\ Zielstamm(FALSE)' = Zielstamm(FALSE)
  BY SelberJob
<1> DEFINE c == Ergebnis("jpg", FALSE, KeinExif)
<1>2. c \in Inhalt /\ c.ganz = FALSE /\ ~c.exif.da /\ ~c.exif.lage
  BY DEF Ergebnis, KeinExif, Inhalt, Exif, Arten, TypeOK
<1>3. Ordner(fs)
  BY DEF TypeOK, Ordner
<1>4. fs' = Mit(JpgName, c)
  OBVIOUS
<1> HIDE DEF c
<1>5. Ordner(fs') /\ DOMAIN fs' = DOMAIN fs \cup {JpgName} /\ fs'[JpgName] = c
      /\ \A q \in DOMAIN fs : q # JpgName => fs'[q] = fs[q]
  <2>1. JpgName \in Namen
    BY NamenLemma
  <2> HIDE DEF IInv
  <2> QED
    BY <1>2, <1>3, <1>4, <2>1, MitLemma
<1>6. TypeOK'
  BY <1>1, <1>2, <1>3, <1>4, <1>5, NamenLemma
     DEF TypeOK, Schritte, Fehler
<1>7. JobInv'
  BY <1>1, <1>2, <1>3, <1>4, <1>5, NamenLemma
     DEF JobInv, InJpg, InJhead
<1>8. JpgInv'
  BY <1>1, <1>2, <1>3, <1>4, <1>5, NamenLemma
     DEF JpgInv, GanzesJpg, TmpInArbeit, Da
<1>9. ExifInv'
  BY <1>1, <1>2, <1>3, <1>4, <1>5, NamenLemma
     DEF ExifInv, HatExif, Da, heil, JpgInv, GanzesJpg
<1>10. DrehInv'
  BY <1>1, <1>2, <1>3, <1>4, <1>5, NamenLemma
     DEF DrehInv, heil
<1>11. ResteInv'
  BY <1>1, <1>2, <1>3, <1>4, <1>5, NamenLemma
     DEF ResteInv, InJpg, heil, Vorlaeufig, ExifInv, Da
<1>12. BildBleibt'
  BY <1>1, <1>2, <1>3, <1>4, <1>5, NamenLemma
     DEF BildBleibt, JpgInv, GanzesJpg, TmpInArbeit, Da
<1>13. ExifKommtMit'
  BY <1>1, <1>2, <1>3, <1>4, <1>5, NamenLemma
     DEF ExifKommtMit, Gespeichert, Endname, heil, Da, ExifInv, JpgInv, GanzesJpg
<1> QED
  BY <1>6, <1>7, <1>8, <1>9, <1>10, <1>11, <1>12, <1>13

(* It cannot be opened. *)
LEMMA JpgFehltSchritt ==
  ASSUME IInv, schritt \in {"jpg", "jpg2"}, "jpg" \in job.bilderart,
         schritt' = NachJpg(Ersetzt), fehler' = fehler \cup {"jpg"}, pass' \in {1, 2},
         UNCHANGED <<fall, fs, job, speicher, saves>>
  PROVE  IInv'
<1> USE DEF IInv
<1>1. /\ JpgName' = JpgName /\ m_dateiname' = m_dateiname
      /\ Sicherung(JpgName)' = Sicherung(JpgName)
      /\ Ersetzt' = Ersetzt /\ AufOriginal' = AufOriginal
      /\ ist_jpeg' = ist_jpeg /\ exifdreh' = exifdreh
      /\ TmpName' = TmpName /\ Zielstamm(FALSE)' = Zielstamm(FALSE)
  BY SelberJob
<1>2. schritt' = IF Ersetzt THEN "entfernen" ELSE "bereit"
  BY DEF NachJpg
<1>3. TypeOK'
  BY <1>1, <1>2, NamenLemma
     DEF TypeOK, Schritte, Fehler
<1>4. JobInv'
  BY <1>1, <1>2, NamenLemma
     DEF JobInv, InJpg, InJhead
<1>5. JpgInv'
  BY <1>1, <1>2, NamenLemma
     DEF JpgInv, GanzesJpg, TmpInArbeit, Da
<1>6. ExifInv'
  BY <1>1, <1>2, NamenLemma
     DEF ExifInv, HatExif, Da, heil, JpgInv, GanzesJpg
<1>7. DrehInv'
  BY <1>1, <1>2, NamenLemma
     DEF DrehInv, heil
<1>8. ResteInv'
  BY <1>1, <1>2, NamenLemma
     DEF ResteInv, InJpg, heil, Vorlaeufig, ExifInv, Da
<1>9. BildBleibt'
  BY <1>1, <1>2, NamenLemma
     DEF BildBleibt, JpgInv, GanzesJpg, TmpInArbeit, Da
<1>10. ExifKommtMit'
  BY <1>1, <1>2, NamenLemma
     DEF ExifKommtMit, Gespeichert, Endname, heil, Da, ExifInv, JpgInv, GanzesJpg
<1> QED
  BY <1>3, <1>4, <1>5, <1>6, <1>7, <1>8, <1>9, <1>10

(* It is complete. *)
LEMMA JpgFertigSchritt ==
  ASSUME IInv, schritt = "jpg2", schritt' = (IF ist_jpeg THEN "jhead" ELSE NachJpg(Ersetzt)),
         fs' = Mit(JpgName, Ergebnis("jpg", TRUE, KeinExif)), pass' = 1,
         UNCHANGED <<fall, job, speicher, saves, fehler>>
  PROVE  IInv'
<1> USE DEF IInv
<1>1. /\ JpgName' = JpgName /\ m_dateiname' = m_dateiname
      /\ Sicherung(JpgName)' = Sicherung(JpgName)
      /\ Ersetzt' = Ersetzt /\ AufOriginal' = AufOriginal
      /\ ist_jpeg' = ist_jpeg /\ exifdreh' = exifdreh
      /\ TmpName' = TmpName /\ Zielstamm(FALSE)' = Zielstamm(FALSE)
  BY SelberJob
<1> DEFINE c == Ergebnis("jpg", TRUE, KeinExif)
<1>2. /\ c \in Inhalt /\ c.ganz /\ c.art = "jpg"
      /\ c.exif = KeinExif /\ ~c.exif.da /\ ~c.exif.lage
  BY DEF Ergebnis, KeinExif, Inhalt, Exif, Arten, TypeOK
<1>3. Ordner(fs)
  BY DEF TypeOK, Ordner
<1>4. fs' = Mit(JpgName, c)
  OBVIOUS
<1> HIDE DEF c
<1>5. Ordner(fs') /\ DOMAIN fs' = DOMAIN fs \cup {JpgName} /\ fs'[JpgName] = c
      /\ \A q \in DOMAIN fs : q # JpgName => fs'[q] = fs[q]
  <2>1. JpgName \in Namen
    BY NamenLemma
  <2> HIDE DEF IInv
  <2> QED
    BY <1>2, <1>3, <1>4, <2>1, MitLemma
<1>6. schritt' = IF ist_jpeg THEN "jhead" ELSE IF Ersetzt THEN "entfernen" ELSE "bereit"
  BY DEF NachJpg
<1>7. TypeOK'
  BY <1>1, <1>2, <1>3, <1>4, <1>5, <1>6, NamenLemma
     DEF TypeOK, Schritte, Fehler
<1>8. JobInv'
  BY <1>1, <1>2, <1>3, <1>4, <1>5, <1>6, NamenLemma
     DEF JobInv, InJpg, InJhead
<1>9. JpgInv'
  BY <1>1, <1>2, <1>3, <1>4, <1>5, <1>6, NamenLemma
     DEF JpgInv, GanzesJpg, TmpInArbeit, Da
<1>10. ExifInv'
  <2>1. ist_jpeg /\ ~AufOriginal => (HatExif' <=> HatExif)
    BY <1>1, <1>2, <1>3, <1>4, <1>5, <1>6, NamenLemma DEF JobInv, InJpg, HatExif, Da
  <2>2. /\ ~ist_jpeg => ~job.exif /\ \A n \in DOMAIN fs' : ~fs'[n].exif.da
        /\ ist_jpeg /\ ~AufOriginal => (job.exif <=> HatExif)
    BY <1>1, <1>2, <1>3, <1>4, <1>5, <1>6, NamenLemma DEF ExifInv
  <2>3. schritt' \notin {"umben", "auf", "schreib", "weg"} /\ schritt' # "ersetzen" /\ pass' = 1
    BY <1>6
  <2>4. fs'[JpgName].exif = KeinExif /\ ~fs'[JpgName].exif.da
    BY <1>2, <1>5
  <2>5. schritt' = "entfernen" => ~ist_jpeg
    BY <1>6
  <2>6. (ist_jpeg /\ ~AufOriginal
           /\ schritt \notin {"bereit", "entfernen", "ersetzen", "aus"} => (job.exif <=> HatExif))'
    BY <1>1, <2>1, <2>2
  <2>7. ~AufOriginal' /\ schritt' = "entfernen" => (fs'[JpgName'].exif.da <=> job'.exif)
    BY <1>1, <2>2, <2>4, <2>5
  <2>8. (schritt = "jhead" /\ pass = 1 => fs[JpgName].exif = KeinExif)'
    BY <1>1, <2>4
  <2>9. (~ist_jpeg => ~job.exif /\ \A n \in DOMAIN fs : ~fs[n].exif.da)'
    BY <1>1, <2>2
  <2>10. schritt' # "weg" /\ ~(schritt' = "jhead" /\ pass' = 2)
    BY <2>3
  <2> QED
    BY <2>3, <2>6, <2>7, <2>8, <2>9, <2>10 DEF ExifInv
<1>11. DrehInv'
  BY <1>1, <1>2, <1>3, <1>4, <1>5, <1>6, NamenLemma
     DEF DrehInv, heil
<1>12. ResteInv'
  BY <1>1, <1>2, <1>3, <1>4, <1>5, <1>6, NamenLemma
     DEF ResteInv, InJpg, heil, Vorlaeufig, ExifInv, Da
<1>13. BildBleibt'
  BY <1>1, <1>2, <1>3, <1>4, <1>5, <1>6, NamenLemma
     DEF BildBleibt, JpgInv, GanzesJpg, TmpInArbeit, Da
<1>14. ExifKommtMit'
  BY <1>1, <1>2, <1>3, <1>4, <1>5, <1>6, NamenLemma
     DEF ExifKommtMit, Gespeichert, Endname, heil, Da, ExifInv, JpgInv, GanzesJpg, JobInv, InJpg, ExifInv
<1> QED
  BY <1>7, <1>8, <1>9, <1>10, <1>11, <1>12, <1>13, <1>14

(* jhead takes over the EXIF section of the original.  *)
LEMMA UebertragSchritt ==
  ASSUME IInv, schritt = "jhead", pass = 1, Da(m_dateiname), schritt' = "umben",
         speicher' = [exif |-> fs[m_dateiname].exif, ganz |-> fs[JpgName].ganz],
         UNCHANGED <<fall, fs, job, pass, saves, fehler>>
  PROVE  IInv'
<1> USE DEF IInv
<1>1. /\ JpgName' = JpgName /\ m_dateiname' = m_dateiname
      /\ Sicherung(JpgName)' = Sicherung(JpgName)
      /\ Ersetzt' = Ersetzt /\ AufOriginal' = AufOriginal
      /\ ist_jpeg' = ist_jpeg /\ exifdreh' = exifdreh
      /\ TmpName' = TmpName /\ Zielstamm(FALSE)' = Zielstamm(FALSE)
  BY SelberJob
<1>2. /\ fs[m_dateiname].exif \in Exif /\ fs[JpgName].ganz \in BOOLEAN
      /\ JpgName \in DOMAIN fs
  BY DEF TypeOK, Da, Inhalt, JpgInv
<1>3. /\ speicher' \in [exif : Exif, ganz : BOOLEAN]
      /\ speicher'.exif = fs[m_dateiname].exif /\ speicher'.ganz = fs[JpgName].ganz
  BY <1>2
<1>4. /\ ist_jpeg /\ "jpg" \in job.bilderart
      /\ AufOriginal <=> JpgName = m_dateiname
  BY NamenLemma DEF JobInv, InJpg, InJhead
<1>5. TypeOK'
  BY <1>1, <1>2, <1>3, <1>4, NamenLemma
     DEF TypeOK, Schritte, Fehler
<1>6. JobInv'
  BY <1>1, <1>2, <1>3, <1>4, NamenLemma
     DEF JobInv, InJpg, InJhead
<1>7. JpgInv'
  BY <1>1, <1>2, <1>3, <1>4, NamenLemma
     DEF JpgInv, GanzesJpg, TmpInArbeit, Da
<1>8. ExifInv'
  BY <1>1, <1>2, <1>3, <1>4, NamenLemma
     DEF ExifInv, HatExif, Da, heil, JpgInv, GanzesJpg
<1>9. DrehInv'
  BY <1>1, <1>2, <1>3, <1>4, NamenLemma
     DEF DrehInv, heil
<1>10. ResteInv'
  BY <1>1, <1>2, <1>3, <1>4, NamenLemma
     DEF ResteInv, InJpg, heil, Vorlaeufig, ExifInv, Da
<1>11. BildBleibt'
  BY <1>1, <1>2, <1>3, <1>4, NamenLemma
     DEF BildBleibt, JpgInv, GanzesJpg, TmpInArbeit, Da
<1>12. ExifKommtMit'
  BY <1>1, <1>2, <1>3, <1>4, NamenLemma
     DEF ExifKommtMit, Gespeichert, Endname, heil, Da, ExifInv, JpgInv, GanzesJpg
<1> QED
  BY <1>5, <1>6, <1>7, <1>8, <1>9, <1>10, <1>11, <1>12

(* It cannot read the original or the new file.  *)
LEMMA NichtGelesenSchritt ==
  ASSUME IInv, schritt = "jhead", schritt' = "jhead", pass = 1, pass' = 2,
         fehler' = IF Da(m_dateiname) THEN fehler \cup {"sonst"} ELSE fehler,
         UNCHANGED <<fall, fs, job, speicher, saves>>
  PROVE  IInv'
<1> USE DEF IInv
<1>1. /\ JpgName' = JpgName /\ m_dateiname' = m_dateiname
      /\ Sicherung(JpgName)' = Sicherung(JpgName)
      /\ Ersetzt' = Ersetzt /\ AufOriginal' = AufOriginal
      /\ ist_jpeg' = ist_jpeg /\ exifdreh' = exifdreh
      /\ TmpName' = TmpName /\ Zielstamm(FALSE)' = Zielstamm(FALSE)
  BY SelberJob
<1>2. ~KeinExif.da /\ ~KeinExif.lage
  BY DEF KeinExif
<1>3. /\ ist_jpeg /\ "jpg" \in job.bilderart
      /\ AufOriginal <=> JpgName = m_dateiname
  BY NamenLemma DEF JobInv, InJpg, InJhead
<1>4. TypeOK'
  BY <1>1, <1>2, <1>3, NamenLemma
     DEF TypeOK, Schritte, Fehler
<1>5. JobInv'
  BY <1>1, <1>2, <1>3, NamenLemma
     DEF JobInv, InJpg, InJhead
<1>6. JpgInv'
  BY <1>1, <1>2, <1>3, NamenLemma
     DEF JpgInv, GanzesJpg, TmpInArbeit, Da
<1>7. ExifInv'
  BY <1>1, <1>2, <1>3, NamenLemma
     DEF ExifInv, HatExif, Da, heil, JpgInv, GanzesJpg
<1>8. DrehInv'
  BY <1>1, <1>2, <1>3, NamenLemma
     DEF DrehInv, heil
<1>9. ResteInv'
  BY <1>1, <1>2, <1>3, NamenLemma
     DEF ResteInv, InJpg, heil, Vorlaeufig, ExifInv, Da
<1>10. BildBleibt'
  BY <1>1, <1>2, <1>3, NamenLemma
     DEF BildBleibt, JpgInv, GanzesJpg, TmpInArbeit, Da
<1>11. ExifKommtMit'
  BY <1>1, <1>2, <1>3, NamenLemma
     DEF ExifKommtMit, Gespeichert, Endname, heil, Da, ExifInv, JpgInv, GanzesJpg
<1> QED
  BY <1>4, <1>5, <1>6, <1>7, <1>8, <1>9, <1>10, <1>11

(* The orientation of the new file is set to upright.  *)
LEMMA DrehenSchritt ==
  ASSUME IInv, schritt = "jhead", pass = 2, schritt' = "umben",
         speicher' = [exif |-> [fs[JpgName].exif EXCEPT !.lage = FALSE],
                      ganz |-> fs[JpgName].ganz],
         UNCHANGED <<fall, fs, job, pass, saves, fehler>>
  PROVE  IInv'
<1> USE DEF IInv
<1>1. /\ JpgName' = JpgName /\ m_dateiname' = m_dateiname
      /\ Sicherung(JpgName)' = Sicherung(JpgName)
      /\ Ersetzt' = Ersetzt /\ AufOriginal' = AufOriginal
      /\ ist_jpeg' = ist_jpeg /\ exifdreh' = exifdreh
      /\ TmpName' = TmpName /\ Zielstamm(FALSE)' = Zielstamm(FALSE)
  BY SelberJob
<1>2. fs[JpgName].exif \in Exif /\ fs[JpgName].ganz \in BOOLEAN /\ JpgName \in DOMAIN fs
  BY DEF JpgInv, TypeOK, Da, Inhalt
<1> DEFINE e == [fs[JpgName].exif EXCEPT !.lage = FALSE]
<1>3. e \in Exif /\ ~e.lage /\ e.da = fs[JpgName].exif.da
  BY <1>2 DEF Exif
<1> HIDE DEF e
<1>4. /\ speicher' \in [exif : Exif, ganz : BOOLEAN]
      /\ speicher'.ganz = fs[JpgName].ganz
      /\ speicher'.exif \in Exif /\ ~speicher'.exif.lage
      /\ speicher'.exif.da = fs[JpgName].exif.da
  BY <1>2, <1>3 DEF e
<1>5. /\ ist_jpeg /\ "jpg" \in job.bilderart
      /\ AufOriginal <=> JpgName = m_dateiname
  BY NamenLemma DEF JobInv, InJpg, InJhead
<1>6. TypeOK'
  BY <1>1, <1>2, <1>3, <1>4, <1>5, NamenLemma
     DEF TypeOK, Schritte, Fehler
<1>7. JobInv'
  BY <1>1, <1>2, <1>3, <1>4, <1>5, NamenLemma
     DEF JobInv, InJpg, InJhead
<1>8. JpgInv'
  BY <1>1, <1>2, <1>3, <1>4, <1>5, NamenLemma
     DEF JpgInv, GanzesJpg, TmpInArbeit, Da
<1>9. ExifInv'
  BY <1>1, <1>2, <1>3, <1>4, <1>5, NamenLemma
     DEF ExifInv, HatExif, Da, heil, JpgInv, GanzesJpg
<1>10. DrehInv'
  BY <1>1, <1>2, <1>3, <1>4, <1>5, NamenLemma
     DEF DrehInv, heil
<1>11. ResteInv'
  BY <1>1, <1>2, <1>3, <1>4, <1>5, NamenLemma
     DEF ResteInv, InJpg, heil, Vorlaeufig, ExifInv, Da
<1>12. BildBleibt'
  BY <1>1, <1>2, <1>3, <1>4, <1>5, NamenLemma
     DEF BildBleibt, JpgInv, GanzesJpg, TmpInArbeit, Da
<1>13. ExifKommtMit'
  BY <1>1, <1>2, <1>3, <1>4, <1>5, NamenLemma
     DEF ExifKommtMit, Gespeichert, Endname, heil, Da, ExifInv, JpgInv, GanzesJpg
<1> QED
  BY <1>6, <1>7, <1>8, <1>9, <1>10, <1>11, <1>12, <1>13

(* It needs no change, or the new file cannot be read.  *)
LEMMA NichtGedrehtSchritt ==
  ASSUME IInv, schritt = "jhead", pass = 2, schritt' = NachJpg(Ersetzt),
         fehler' = IF ZuDrehen THEN fehler \cup {"sonst"} ELSE fehler,
         UNCHANGED <<fall, fs, job, pass, speicher, saves>>
  PROVE  IInv'
<1> USE DEF IInv
<1>1. /\ JpgName' = JpgName /\ m_dateiname' = m_dateiname
      /\ Sicherung(JpgName)' = Sicherung(JpgName)
      /\ Ersetzt' = Ersetzt /\ AufOriginal' = AufOriginal
      /\ ist_jpeg' = ist_jpeg /\ exifdreh' = exifdreh
      /\ TmpName' = TmpName /\ Zielstamm(FALSE)' = Zielstamm(FALSE)
  BY SelberJob
<1>2. /\ schritt' = IF Ersetzt THEN "entfernen" ELSE "bereit"
      /\ ZuDrehen <=> exifdreh /\ fs[JpgName].exif.lage
  BY DEF NachJpg, ZuDrehen, Aufrecht
<1>3. JpgName \in DOMAIN fs /\ fs[JpgName].exif \in Exif
  BY DEF JpgInv, TypeOK, Da, Inhalt
<1>4. /\ ist_jpeg /\ "jpg" \in job.bilderart
      /\ AufOriginal <=> JpgName = m_dateiname
  BY NamenLemma DEF JobInv, InJpg, InJhead
<1>5. TypeOK'
  BY <1>1, <1>2, <1>3, <1>4, NamenLemma
     DEF TypeOK, Schritte, Fehler
<1>6. JobInv'
  BY <1>1, <1>2, <1>3, <1>4, NamenLemma
     DEF JobInv, InJpg, InJhead
<1>7. JpgInv'
  BY <1>1, <1>2, <1>3, <1>4, NamenLemma
     DEF JpgInv, GanzesJpg, TmpInArbeit, Da
<1>8. ExifInv'
  BY <1>1, <1>2, <1>3, <1>4, NamenLemma
     DEF ExifInv, HatExif, Da, heil, JpgInv, GanzesJpg
<1>9. DrehInv'
  BY <1>1, <1>2, <1>3, <1>4, NamenLemma
     DEF DrehInv, heil
<1>10. ResteInv'
  BY <1>1, <1>2, <1>3, <1>4, NamenLemma
     DEF ResteInv, InJpg, heil, Vorlaeufig, ExifInv, Da
<1>11. BildBleibt'
  BY <1>1, <1>2, <1>3, <1>4, NamenLemma
     DEF BildBleibt, JpgInv, GanzesJpg, TmpInArbeit, Da
<1>12. ExifKommtMit'
  BY <1>1, <1>2, <1>3, <1>4, NamenLemma
     DEF ExifKommtMit, Gespeichert, Endname, heil, Da, ExifInv, JpgInv, GanzesJpg
<1> QED
  BY <1>5, <1>6, <1>7, <1>8, <1>9, <1>10, <1>11, <1>12

(* The new file becomes a backup. *)
LEMMA SichernSchritt ==
  ASSUME IInv, schritt = "umben", schritt' = "auf",
         fs' = Verschoben(JpgName, Sicherung(JpgName)),
         UNCHANGED <<fall, job, speicher, pass, saves, fehler>>
  PROVE  IInv'
<1> USE DEF IInv
<1>1. /\ JpgName' = JpgName /\ m_dateiname' = m_dateiname
      /\ Sicherung(JpgName)' = Sicherung(JpgName)
      /\ Ersetzt' = Ersetzt /\ AufOriginal' = AufOriginal
      /\ ist_jpeg' = ist_jpeg /\ exifdreh' = exifdreh
      /\ TmpName' = TmpName /\ Zielstamm(FALSE)' = Zielstamm(FALSE)
  BY SelberJob
<1>2. JpgName \in DOMAIN fs /\ Ordner(fs)
  BY DEF JpgInv, GanzesJpg, TypeOK, Ordner, Da
<1>3. /\ Ordner(fs') /\ DOMAIN fs' = (DOMAIN fs \ {JpgName}) \cup {Sicherung(JpgName)}
      /\ fs'[Sicherung(JpgName)] = fs[JpgName]
      /\ \A q \in DOMAIN fs : q # JpgName /\ q # Sicherung(JpgName) => fs'[q] = fs[q]
  <2>1. Sicherung(JpgName) \in Namen /\ JpgName # Sicherung(JpgName)
    BY NamenLemma
  <2> HIDE DEF IInv
  <2> QED
    BY <1>2, <2>1, VerschobenLemma
<1>4. /\ ist_jpeg /\ "jpg" \in job.bilderart
      /\ AufOriginal <=> JpgName = m_dateiname
  BY NamenLemma DEF JobInv, InJpg, InJhead
<1>5. TypeOK'
  BY <1>1, <1>2, <1>3, <1>4, NamenLemma
     DEF TypeOK, Schritte, Fehler
<1>6. JobInv'
  BY <1>1, <1>2, <1>3, <1>4, NamenLemma
     DEF JobInv, InJpg, InJhead
<1>7. JpgInv'
  BY <1>1, <1>2, <1>3, <1>4, NamenLemma
     DEF JpgInv, GanzesJpg, TmpInArbeit, Da
<1>8. ExifInv'
  BY <1>1, <1>2, <1>3, <1>4, NamenLemma
     DEF ExifInv, HatExif, Da, heil, JpgInv, GanzesJpg
<1>9. DrehInv'
  BY <1>1, <1>2, <1>3, <1>4, NamenLemma
     DEF DrehInv, heil
<1>10. ResteInv'
  BY <1>1, <1>2, <1>3, <1>4, NamenLemma
     DEF ResteInv, InJpg, heil, Vorlaeufig, ExifInv, Da
<1>11. BildBleibt'
  BY <1>1, <1>2, <1>3, <1>4, NamenLemma
     DEF BildBleibt, JpgInv, GanzesJpg, TmpInArbeit, Da
<1>12. ExifKommtMit'
  BY <1>1, <1>2, <1>3, <1>4, NamenLemma
     DEF ExifKommtMit, Gespeichert, Endname, heil, Da, ExifInv, JpgInv, GanzesJpg
<1> QED
  BY <1>5, <1>6, <1>7, <1>8, <1>9, <1>10, <1>11, <1>12

(* An open file stays where it is. *)
LEMMA NichtGesichertSchritt ==
  ASSUME IInv, schritt = "umben", schritt' = "auf",
         fs' = Ohne(Sicherung(JpgName)),
         UNCHANGED <<fall, job, speicher, pass, saves, fehler>>
  PROVE  IInv'
<1> USE DEF IInv
<1>1. /\ JpgName' = JpgName /\ m_dateiname' = m_dateiname
      /\ Sicherung(JpgName)' = Sicherung(JpgName)
      /\ Ersetzt' = Ersetzt /\ AufOriginal' = AufOriginal
      /\ ist_jpeg' = ist_jpeg /\ exifdreh' = exifdreh
      /\ TmpName' = TmpName /\ Zielstamm(FALSE)' = Zielstamm(FALSE)
  BY SelberJob
<1>2. Ordner(fs)
  BY DEF TypeOK, Ordner
<1>3. /\ Ordner(fs') /\ DOMAIN fs' = DOMAIN fs \ {Sicherung(JpgName)}
      /\ \A q \in DOMAIN fs : q # Sicherung(JpgName) => fs'[q] = fs[q]
  BY <1>2, NamenLemma, OhneLemma
<1>4. /\ ist_jpeg /\ "jpg" \in job.bilderart
      /\ AufOriginal <=> JpgName = m_dateiname
  BY NamenLemma DEF JobInv, InJpg, InJhead
<1>5. TypeOK'
  BY <1>1, <1>2, <1>3, <1>4, NamenLemma
     DEF TypeOK, Schritte, Fehler
<1>6. JobInv'
  BY <1>1, <1>2, <1>3, <1>4, NamenLemma
     DEF JobInv, InJpg, InJhead
<1>7. JpgInv'
  BY <1>1, <1>2, <1>3, <1>4, NamenLemma
     DEF JpgInv, GanzesJpg, TmpInArbeit, Da
<1>8. ExifInv'
  BY <1>1, <1>2, <1>3, <1>4, NamenLemma
     DEF ExifInv, HatExif, Da, heil, JpgInv, GanzesJpg
<1>9. DrehInv'
  BY <1>1, <1>2, <1>3, <1>4, NamenLemma
     DEF DrehInv, heil
<1>10. ResteInv'
  BY <1>1, <1>2, <1>3, <1>4, NamenLemma
     DEF ResteInv, InJpg, heil, Vorlaeufig, ExifInv, Da
<1>11. BildBleibt'
  BY <1>1, <1>2, <1>3, <1>4, NamenLemma
     DEF BildBleibt, JpgInv, GanzesJpg, TmpInArbeit, Da
<1>12. ExifKommtMit'
  BY <1>1, <1>2, <1>3, <1>4, NamenLemma
     DEF ExifKommtMit, Gespeichert, Endname, heil, Da, ExifInv, JpgInv, GanzesJpg
<1> QED
  BY <1>5, <1>6, <1>7, <1>8, <1>9, <1>10, <1>11, <1>12

(* An old backup that stays keeps the file where it is.  *)
LEMMA AlteSicherungSchritt ==
  ASSUME IInv, schritt = "umben", schritt' = "auf", Da(Sicherung(JpgName)),
         UNCHANGED <<fall, fs, job, speicher, pass, saves, fehler>>
  PROVE  IInv'
<1> USE DEF IInv
<1>1. /\ JpgName' = JpgName /\ m_dateiname' = m_dateiname
      /\ Sicherung(JpgName)' = Sicherung(JpgName)
      /\ Ersetzt' = Ersetzt /\ AufOriginal' = AufOriginal
      /\ ist_jpeg' = ist_jpeg /\ exifdreh' = exifdreh
      /\ TmpName' = TmpName /\ Zielstamm(FALSE)' = Zielstamm(FALSE)
  BY SelberJob
<1>2. /\ ist_jpeg /\ "jpg" \in job.bilderart
      /\ AufOriginal <=> JpgName = m_dateiname
  BY NamenLemma DEF JobInv, InJpg, InJhead
<1>3. TypeOK'
  BY <1>1, <1>2, NamenLemma
     DEF TypeOK, Schritte, Fehler
<1>4. JobInv'
  BY <1>1, <1>2, NamenLemma
     DEF JobInv, InJpg, InJhead
<1>5. JpgInv'
  BY <1>1, <1>2, NamenLemma
     DEF JpgInv, GanzesJpg, TmpInArbeit, Da
<1>6. ExifInv'
  BY <1>1, <1>2, NamenLemma
     DEF ExifInv, HatExif, Da, heil, JpgInv, GanzesJpg
<1>7. DrehInv'
  BY <1>1, <1>2, NamenLemma
     DEF DrehInv, heil
<1>8. ResteInv'
  BY <1>1, <1>2, NamenLemma
     DEF ResteInv, InJpg, heil, Vorlaeufig, ExifInv, Da
<1>9. BildBleibt'
  BY <1>1, <1>2, NamenLemma
     DEF BildBleibt, JpgInv, GanzesJpg, TmpInArbeit, Da
<1>10. ExifKommtMit'
  BY <1>1, <1>2, NamenLemma
     DEF ExifKommtMit, Gespeichert, Endname, heil, Da, ExifInv, JpgInv, GanzesJpg
<1> QED
  BY <1>3, <1>4, <1>5, <1>6, <1>7, <1>8, <1>9, <1>10

(* jhead opens the file again. *)
LEMMA JheadAufSchritt ==
  ASSUME IInv, schritt = "auf", schritt' = "schreib",
         fs' = Mit(JpgName, Ergebnis("jpg", FALSE, speicher.exif)),
         UNCHANGED <<fall, job, speicher, pass, saves, fehler>>
  PROVE  IInv'
<1> USE DEF IInv
<1>1. /\ JpgName' = JpgName /\ m_dateiname' = m_dateiname
      /\ Sicherung(JpgName)' = Sicherung(JpgName)
      /\ Ersetzt' = Ersetzt /\ AufOriginal' = AufOriginal
      /\ ist_jpeg' = ist_jpeg /\ exifdreh' = exifdreh
      /\ TmpName' = TmpName /\ Zielstamm(FALSE)' = Zielstamm(FALSE)
  BY SelberJob
<1> DEFINE c == Ergebnis("jpg", FALSE, speicher.exif)
<1>2. c \in Inhalt /\ ~c.ganz /\ c.exif = speicher.exif
  BY DEF Ergebnis, KeinExif, Inhalt, Exif, Arten, TypeOK
<1>3. Ordner(fs)
  BY DEF TypeOK, Ordner
<1>4. fs' = Mit(JpgName, c)
  OBVIOUS
<1> HIDE DEF c
<1>5. Ordner(fs') /\ DOMAIN fs' = DOMAIN fs \cup {JpgName} /\ fs'[JpgName] = c
      /\ \A q \in DOMAIN fs : q # JpgName => fs'[q] = fs[q]
  <2>1. JpgName \in Namen
    BY NamenLemma
  <2> HIDE DEF IInv
  <2> QED
    BY <1>2, <1>3, <1>4, <2>1, MitLemma
<1>6. /\ ist_jpeg /\ "jpg" \in job.bilderart
      /\ AufOriginal <=> JpgName = m_dateiname
  BY NamenLemma DEF JobInv, InJpg, InJhead
<1>7. TypeOK'
  BY <1>1, <1>2, <1>3, <1>4, <1>5, <1>6, NamenLemma
     DEF TypeOK, Schritte, Fehler
<1>8. JobInv'
  BY <1>1, <1>2, <1>3, <1>4, <1>5, <1>6, NamenLemma
     DEF JobInv, InJpg, InJhead
<1>9. JpgInv'
  BY <1>1, <1>2, <1>3, <1>4, <1>5, <1>6, NamenLemma
     DEF JpgInv, GanzesJpg, TmpInArbeit, Da
<1>10. ExifInv'
  BY <1>1, <1>2, <1>3, <1>4, <1>5, <1>6, NamenLemma
     DEF ExifInv, HatExif, Da, heil, JpgInv, GanzesJpg
<1>11. DrehInv'
  BY <1>1, <1>2, <1>3, <1>4, <1>5, <1>6, NamenLemma
     DEF DrehInv, heil
<1>12. ResteInv'
  BY <1>1, <1>2, <1>3, <1>4, <1>5, <1>6, NamenLemma
     DEF ResteInv, InJpg, heil, Vorlaeufig, ExifInv, Da
<1>13. BildBleibt'
  BY <1>1, <1>2, <1>3, <1>4, <1>5, <1>6, NamenLemma
     DEF BildBleibt, JpgInv, GanzesJpg, TmpInArbeit, Da
<1>14. ExifKommtMit'
  BY <1>1, <1>2, <1>3, <1>4, <1>5, <1>6, NamenLemma
     DEF ExifKommtMit, Gespeichert, Endname, heil, Da, ExifInv, JpgInv, GanzesJpg
<1> QED
  BY <1>7, <1>8, <1>9, <1>10, <1>11, <1>12, <1>13, <1>14

(* jhead writes it, as much of the picture as it has read.  *)
LEMMA JheadSchreibenSchritt ==
  ASSUME IInv, schritt = "schreib", schritt' = "weg",
         fs' = Mit(JpgName, Ergebnis("jpg", speicher.ganz, speicher.exif)),
         UNCHANGED <<fall, job, speicher, pass, saves, fehler>>
  PROVE  IInv'
<1> USE DEF IInv
<1>1. /\ JpgName' = JpgName /\ m_dateiname' = m_dateiname
      /\ Sicherung(JpgName)' = Sicherung(JpgName)
      /\ Ersetzt' = Ersetzt /\ AufOriginal' = AufOriginal
      /\ ist_jpeg' = ist_jpeg /\ exifdreh' = exifdreh
      /\ TmpName' = TmpName /\ Zielstamm(FALSE)' = Zielstamm(FALSE)
  BY SelberJob
<1> DEFINE c == Ergebnis("jpg", speicher.ganz, speicher.exif)
<1>2. c \in Inhalt /\ c.ganz = speicher.ganz /\ c.art = "jpg" /\ c.exif = speicher.exif
  BY DEF Ergebnis, KeinExif, Inhalt, Exif, Arten, TypeOK
<1>3. Ordner(fs)
  BY DEF TypeOK, Ordner
<1>4. fs' = Mit(JpgName, c)
  OBVIOUS
<1> HIDE DEF c
<1>5. Ordner(fs') /\ DOMAIN fs' = DOMAIN fs \cup {JpgName} /\ fs'[JpgName] = c
      /\ \A q \in DOMAIN fs : q # JpgName => fs'[q] = fs[q]
  <2>1. JpgName \in Namen
    BY NamenLemma
  <2> HIDE DEF IInv
  <2> QED
    BY <1>2, <1>3, <1>4, <2>1, MitLemma
<1>6. /\ ist_jpeg /\ "jpg" \in job.bilderart
      /\ AufOriginal <=> JpgName = m_dateiname
  BY NamenLemma DEF JobInv, InJpg, InJhead
<1>7. pass \in {1, 2}
  BY DEF TypeOK
<1>8. TypeOK'
  BY <1>1, <1>2, <1>3, <1>4, <1>5, <1>6, <1>7, NamenLemma
     DEF TypeOK, Schritte, Fehler
<1>9. JobInv'
  BY <1>1, <1>2, <1>3, <1>4, <1>5, <1>6, <1>7, NamenLemma
     DEF JobInv, InJpg, InJhead
<1>10. JpgInv'
  BY <1>1, <1>2, <1>3, <1>4, <1>5, <1>6, <1>7, NamenLemma
     DEF JpgInv, GanzesJpg, TmpInArbeit, Da
<1>11. ExifInv'
  BY <1>1, <1>2, <1>3, <1>4, <1>5, <1>6, <1>7, NamenLemma
     DEF ExifInv, HatExif, Da, heil, JpgInv, GanzesJpg
<1>12. DrehInv'
  BY <1>1, <1>2, <1>3, <1>4, <1>5, <1>6, <1>7, NamenLemma
     DEF DrehInv, heil
<1>13. ResteInv'
  BY <1>1, <1>2, <1>3, <1>4, <1>5, <1>6, <1>7, NamenLemma
     DEF ResteInv, InJpg, heil, Vorlaeufig, ExifInv, Da
<1>14. BildBleibt'
  BY <1>1, <1>2, <1>3, <1>4, <1>5, <1>6, <1>7, NamenLemma
     DEF BildBleibt, JpgInv, GanzesJpg, TmpInArbeit, Da
<1>15. ExifKommtMit'
  BY <1>1, <1>2, <1>3, <1>4, <1>5, <1>6, <1>7, NamenLemma
     DEF ExifKommtMit, Gespeichert, Endname, heil, Da, ExifInv, JpgInv, GanzesJpg
<1> QED
  BY <1>8, <1>9, <1>10, <1>11, <1>12, <1>13, <1>14, <1>15

(* What it writes is cut short.  *)
LEMMA AbgeschnittenSchritt ==
  ASSUME IInv, schritt = "schreib", schritt' = "weg", NEW exif \in {speicher.exif, KeinExif},
         fs' = Mit(JpgName, Ergebnis("jpg", FALSE, exif)),
         fehler' = fehler \cup {"voll"},
         UNCHANGED <<fall, job, speicher, pass, saves>>
  PROVE  IInv'
<1> USE DEF IInv
<1>1. /\ JpgName' = JpgName /\ m_dateiname' = m_dateiname
      /\ Sicherung(JpgName)' = Sicherung(JpgName)
      /\ Ersetzt' = Ersetzt /\ AufOriginal' = AufOriginal
      /\ ist_jpeg' = ist_jpeg /\ exifdreh' = exifdreh
      /\ TmpName' = TmpName /\ Zielstamm(FALSE)' = Zielstamm(FALSE)
  BY SelberJob
<1> DEFINE c == Ergebnis("jpg", FALSE, exif)
<1>2. c \in Inhalt /\ ~c.ganz
  <2>1. "jpg" \in Arten /\ FALSE \in BOOLEAN /\ exif \in Exif
    BY KeinExifLemma DEF Arten, TypeOK
  <2> QED
    BY <2>1, ErgebnisLemma
<1>3. Ordner(fs)
  BY DEF TypeOK, Ordner
<1>4. fs' = Mit(JpgName, c)
  OBVIOUS
<1> HIDE DEF c
<1>5. Ordner(fs') /\ DOMAIN fs' = DOMAIN fs \cup {JpgName} /\ fs'[JpgName] = c
      /\ \A q \in DOMAIN fs : q # JpgName => fs'[q] = fs[q]
  <2>1. JpgName \in Namen
    BY NamenLemma
  <2> HIDE DEF IInv
  <2> QED
    BY <1>2, <1>3, <1>4, <2>1, MitLemma
<1>6. /\ ist_jpeg /\ "jpg" \in job.bilderart
      /\ AufOriginal <=> JpgName = m_dateiname
  BY NamenLemma DEF JobInv, InJpg, InJhead
<1>7. heil' = FALSE /\ "voll" \in fehler'
  BY DEF heil
<1>8. TypeOK'
  BY <1>1, <1>2, <1>3, <1>4, <1>5, <1>6, <1>7, NamenLemma
     DEF TypeOK, Schritte, Fehler
<1>9. JobInv'
  BY <1>1, <1>2, <1>3, <1>4, <1>5, <1>6, <1>7, NamenLemma
     DEF JobInv, InJpg, InJhead
<1>10. JpgInv'
  BY <1>1, <1>2, <1>3, <1>4, <1>5, <1>6, <1>7, NamenLemma
     DEF JpgInv, GanzesJpg, TmpInArbeit, Da
<1>11. ExifInv'
  BY <1>1, <1>2, <1>3, <1>4, <1>5, <1>6, <1>7, NamenLemma
     DEF ExifInv, HatExif, Da, heil, JpgInv, GanzesJpg
<1>12. DrehInv'
  BY <1>1, <1>2, <1>3, <1>4, <1>5, <1>6, <1>7, NamenLemma
     DEF DrehInv, heil
<1>13. ResteInv'
  BY <1>1, <1>2, <1>3, <1>4, <1>5, <1>6, <1>7, NamenLemma
     DEF ResteInv, InJpg, heil, Vorlaeufig, ExifInv, Da
<1>14. BildBleibt'
  BY <1>1, <1>2, <1>3, <1>4, <1>5, <1>6, <1>7, NamenLemma
     DEF BildBleibt, JpgInv, GanzesJpg, TmpInArbeit, Da
<1>15. ExifKommtMit'
  BY <1>1, <1>2, <1>3, <1>4, <1>5, <1>6, <1>7, NamenLemma
     DEF ExifKommtMit, Gespeichert, Endname, heil, Da, ExifInv, JpgInv, GanzesJpg
<1> QED
  BY <1>8, <1>9, <1>10, <1>11, <1>12, <1>13, <1>14, <1>15

(* jhead removes the backup.  *)
LEMMA AufraeumenSchritt ==
  ASSUME IInv, schritt = "weg", fs' = Ohne(Sicherung(JpgName)),
         schritt' = (IF pass = 1 THEN "jhead" ELSE NachJpg(Ersetzt)),
         pass' = 2, speicher' = Leer,
         UNCHANGED <<fall, job, saves, fehler>>
  PROVE  IInv'
<1> USE DEF IInv
<1>1. /\ JpgName' = JpgName /\ m_dateiname' = m_dateiname
      /\ Sicherung(JpgName)' = Sicherung(JpgName)
      /\ Ersetzt' = Ersetzt /\ AufOriginal' = AufOriginal
      /\ ist_jpeg' = ist_jpeg /\ exifdreh' = exifdreh
      /\ TmpName' = TmpName /\ Zielstamm(FALSE)' = Zielstamm(FALSE)
  BY SelberJob
<1>2. Leer \in [exif : Exif, ganz : BOOLEAN]
  BY DEF Leer, KeinExif, Exif
<1>3. Ordner(fs)
  BY DEF TypeOK, Ordner
<1>4. /\ Ordner(fs') /\ DOMAIN fs' = DOMAIN fs \ {Sicherung(JpgName)}
      /\ \A q \in DOMAIN fs : q # Sicherung(JpgName) => fs'[q] = fs[q]
  BY <1>3, NamenLemma, OhneLemma
<1>5. /\ ist_jpeg /\ "jpg" \in job.bilderart
      /\ AufOriginal <=> JpgName = m_dateiname
  BY NamenLemma DEF JobInv, InJpg, InJhead
<1>6. schritt' = IF pass = 1 THEN "jhead" ELSE IF Ersetzt THEN "entfernen" ELSE "bereit"
  BY DEF NachJpg
<1>7. TypeOK'
  BY <1>1, <1>2, <1>3, <1>4, <1>5, <1>6, NamenLemma
     DEF TypeOK, Schritte, Fehler
<1>8. JobInv'
  BY <1>1, <1>2, <1>3, <1>4, <1>5, <1>6, NamenLemma
     DEF JobInv, InJpg, InJhead
<1>9. JpgInv'
  BY <1>1, <1>2, <1>3, <1>4, <1>5, <1>6, NamenLemma
     DEF JpgInv, GanzesJpg, TmpInArbeit, Da
<1>10. ExifInv'
  BY <1>1, <1>2, <1>3, <1>4, <1>5, <1>6, NamenLemma
     DEF ExifInv, HatExif, Da, heil, JpgInv, GanzesJpg
<1>11. DrehInv'
  BY <1>1, <1>2, <1>3, <1>4, <1>5, <1>6, NamenLemma
     DEF DrehInv, heil
<1>12. ResteInv'
  BY <1>1, <1>2, <1>3, <1>4, <1>5, <1>6, NamenLemma
     DEF ResteInv, InJpg, heil, Vorlaeufig, ExifInv, Da
<1>13. BildBleibt'
  BY <1>1, <1>2, <1>3, <1>4, <1>5, <1>6, NamenLemma
     DEF BildBleibt, JpgInv, GanzesJpg, TmpInArbeit, Da
<1>14. ExifKommtMit'
  BY <1>1, <1>2, <1>3, <1>4, <1>5, <1>6, NamenLemma
     DEF ExifKommtMit, Gespeichert, Endname, heil, Da, ExifInv, JpgInv, GanzesJpg
<1> QED
  BY <1>7, <1>8, <1>9, <1>10, <1>11, <1>12, <1>13, <1>14

(* It cannot remove it.  *)
LEMMA NichtAufgeraeumtSchritt ==
  ASSUME IInv, schritt = "weg", fehler' = fehler \cup {"sonst"},
         schritt' = (IF pass = 1 THEN "jhead" ELSE NachJpg(Ersetzt)),
         pass' = 2, speicher' = Leer,
         UNCHANGED <<fall, fs, job, saves>>
  PROVE  IInv'
<1> USE DEF IInv
<1>1. /\ JpgName' = JpgName /\ m_dateiname' = m_dateiname
      /\ Sicherung(JpgName)' = Sicherung(JpgName)
      /\ Ersetzt' = Ersetzt /\ AufOriginal' = AufOriginal
      /\ ist_jpeg' = ist_jpeg /\ exifdreh' = exifdreh
      /\ TmpName' = TmpName /\ Zielstamm(FALSE)' = Zielstamm(FALSE)
  BY SelberJob
<1>2. Leer \in [exif : Exif, ganz : BOOLEAN]
  BY DEF Leer, KeinExif, Exif
<1>3. /\ ist_jpeg /\ "jpg" \in job.bilderart
      /\ AufOriginal <=> JpgName = m_dateiname
  BY NamenLemma DEF JobInv, InJpg, InJhead
<1>4. schritt' = IF pass = 1 THEN "jhead" ELSE IF Ersetzt THEN "entfernen" ELSE "bereit"
  BY DEF NachJpg
<1>5. heil' = FALSE
  BY DEF heil
<1>6. TypeOK'
  BY <1>1, <1>2, <1>3, <1>4, <1>5, NamenLemma
     DEF TypeOK, Schritte, Fehler
<1>7. JobInv'
  BY <1>1, <1>2, <1>3, <1>4, <1>5, NamenLemma
     DEF JobInv, InJpg, InJhead
<1>8. JpgInv'
  BY <1>1, <1>2, <1>3, <1>4, <1>5, NamenLemma
     DEF JpgInv, GanzesJpg, TmpInArbeit, Da
<1>9. ExifInv'
  BY <1>1, <1>2, <1>3, <1>4, <1>5, NamenLemma
     DEF ExifInv, HatExif, Da, heil, JpgInv, GanzesJpg
<1>10. DrehInv'
  BY <1>1, <1>2, <1>3, <1>4, <1>5, NamenLemma
     DEF DrehInv, heil
<1>11. ResteInv'
  BY <1>1, <1>2, <1>3, <1>4, <1>5, NamenLemma
     DEF ResteInv, InJpg, heil, Vorlaeufig, ExifInv, Da
<1>12. BildBleibt'
  BY <1>1, <1>2, <1>3, <1>4, <1>5, NamenLemma
     DEF BildBleibt, JpgInv, GanzesJpg, TmpInArbeit, Da
<1>13. ExifKommtMit'
  BY <1>1, <1>2, <1>3, <1>4, <1>5, NamenLemma
     DEF ExifKommtMit, Gespeichert, Endname, heil, Da, ExifInv, JpgInv, GanzesJpg
<1> QED
  BY <1>6, <1>7, <1>8, <1>9, <1>10, <1>11, <1>12, <1>13

(* The original goes. *)
LEMMA EntferntSchritt ==
  ASSUME IInv, schritt = "entfernen", schritt' = "ersetzen", fs' = Ohne(m_dateiname),
         UNCHANGED <<fall, job, speicher, pass, saves, fehler>>
  PROVE  IInv'
<1> USE DEF IInv
<1>1. /\ JpgName' = JpgName /\ m_dateiname' = m_dateiname
      /\ Sicherung(JpgName)' = Sicherung(JpgName)
      /\ Ersetzt' = Ersetzt /\ AufOriginal' = AufOriginal
      /\ ist_jpeg' = ist_jpeg /\ exifdreh' = exifdreh
      /\ TmpName' = TmpName /\ Zielstamm(FALSE)' = Zielstamm(FALSE)
  BY SelberJob
<1>2. Ordner(fs)
  BY DEF TypeOK, Ordner
<1>3. /\ Ordner(fs') /\ DOMAIN fs' = DOMAIN fs \ {m_dateiname}
      /\ \A q \in DOMAIN fs : q # m_dateiname => fs'[q] = fs[q]
  BY <1>2, NamenLemma, OhneLemma
<1>4. /\ Ersetzt /\ ~job.saveas /\ ~AufOriginal /\ JpgName # m_dateiname
      /\ "jpg" \in job.bilderart
  BY NamenLemma DEF JobInv, InJpg, Ersetzt, AufOriginal
<1>5. TypeOK'
  BY <1>1, <1>2, <1>3, <1>4, NamenLemma
     DEF TypeOK, Schritte, Fehler
<1>6. JobInv'
  BY <1>1, <1>2, <1>3, <1>4, NamenLemma
     DEF JobInv, InJpg, InJhead
<1>7. JpgInv'
  BY <1>1, <1>2, <1>3, <1>4, NamenLemma
     DEF JpgInv, GanzesJpg, TmpInArbeit, Da
<1>8. ExifInv'
  BY <1>1, <1>2, <1>3, <1>4, NamenLemma
     DEF ExifInv, HatExif, Da, heil, JpgInv, GanzesJpg
<1>9. DrehInv'
  BY <1>1, <1>2, <1>3, <1>4, NamenLemma
     DEF DrehInv, heil
<1>10. ResteInv'
  BY <1>1, <1>2, <1>3, <1>4, NamenLemma
     DEF ResteInv, InJpg, heil, Vorlaeufig, ExifInv, Da
<1>11. BildBleibt'
  BY <1>1, <1>2, <1>3, <1>4, NamenLemma
     DEF BildBleibt, JpgInv, GanzesJpg, TmpInArbeit, Da
<1>12. ExifKommtMit'
  BY <1>1, <1>2, <1>3, <1>4, NamenLemma
     DEF ExifKommtMit, Gespeichert, Endname, heil, Da, ExifInv, JpgInv, GanzesJpg
<1> QED
  BY <1>5, <1>6, <1>7, <1>8, <1>9, <1>10, <1>11, <1>12

(* It cannot be removed. *)
LEMMA NichtEntferntSchritt ==
  ASSUME IInv, schritt = "entfernen", schritt' = "ersetzen",
         fehler' = fehler \cup {"sonst"},
         UNCHANGED <<fall, fs, job, speicher, pass, saves>>
  PROVE  IInv'
<1> USE DEF IInv
<1>1. /\ JpgName' = JpgName /\ m_dateiname' = m_dateiname
      /\ Sicherung(JpgName)' = Sicherung(JpgName)
      /\ Ersetzt' = Ersetzt /\ AufOriginal' = AufOriginal
      /\ ist_jpeg' = ist_jpeg /\ exifdreh' = exifdreh
      /\ TmpName' = TmpName /\ Zielstamm(FALSE)' = Zielstamm(FALSE)
  BY SelberJob
<1>2. /\ Ersetzt /\ ~job.saveas /\ ~AufOriginal /\ JpgName # m_dateiname
      /\ "jpg" \in job.bilderart
  BY NamenLemma DEF JobInv, InJpg, Ersetzt, AufOriginal
<1>3. TypeOK'
  BY <1>1, <1>2, NamenLemma
     DEF TypeOK, Schritte, Fehler
<1>4. JobInv'
  BY <1>1, <1>2, NamenLemma
     DEF JobInv, InJpg, InJhead
<1>5. JpgInv'
  BY <1>1, <1>2, NamenLemma
     DEF JpgInv, GanzesJpg, TmpInArbeit, Da
<1>6. ExifInv'
  BY <1>1, <1>2, NamenLemma
     DEF ExifInv, HatExif, Da, heil, JpgInv, GanzesJpg
<1>7. DrehInv'
  BY <1>1, <1>2, NamenLemma
     DEF DrehInv, heil
<1>8. ResteInv'
  BY <1>1, <1>2, NamenLemma
     DEF ResteInv, InJpg, heil, Vorlaeufig, ExifInv, Da
<1>9. BildBleibt'
  BY <1>1, <1>2, NamenLemma
     DEF BildBleibt, JpgInv, GanzesJpg, TmpInArbeit, Da
<1>10. ExifKommtMit'
  BY <1>1, <1>2, NamenLemma
     DEF ExifKommtMit, Gespeichert, Endname, heil, Da, ExifInv, JpgInv, GanzesJpg
<1> QED
  BY <1>3, <1>4, <1>5, <1>6, <1>7, <1>8, <1>9, <1>10

(* The new file takes its place. *)
LEMMA ErsetztSchritt ==
  ASSUME IInv, schritt = "ersetzen", schritt' = "bereit", Da(JpgName), ~Da(m_dateiname),
         fs' = Verschoben(JpgName, m_dateiname),
         UNCHANGED <<fall, job, speicher, pass, saves, fehler>>
  PROVE  IInv'
<1> USE DEF IInv
<1>1. /\ JpgName' = JpgName /\ m_dateiname' = m_dateiname
      /\ Sicherung(JpgName)' = Sicherung(JpgName)
      /\ Ersetzt' = Ersetzt /\ AufOriginal' = AufOriginal
      /\ ist_jpeg' = ist_jpeg /\ exifdreh' = exifdreh
      /\ TmpName' = TmpName /\ Zielstamm(FALSE)' = Zielstamm(FALSE)
  BY SelberJob
<1>2. Ordner(fs) /\ JpgName \in DOMAIN fs /\ m_dateiname \notin DOMAIN fs
  BY DEF TypeOK, Ordner, Da
<1>3. /\ Ordner(fs') /\ DOMAIN fs' = (DOMAIN fs \ {JpgName}) \cup {m_dateiname}
      /\ fs'[m_dateiname] = fs[JpgName]
      /\ \A q \in DOMAIN fs : q # JpgName /\ q # m_dateiname => fs'[q] = fs[q]
  <2>1. m_dateiname \in Namen /\ JpgName # m_dateiname
    BY <1>2, NamenLemma
  <2> HIDE DEF IInv
  <2> QED
    BY <1>2, <2>1, VerschobenLemma
<1>4. /\ Ersetzt /\ ~job.saveas /\ ~AufOriginal /\ JpgName # m_dateiname
      /\ "jpg" \in job.bilderart
  BY NamenLemma DEF JobInv, InJpg, Ersetzt, AufOriginal
<1>5. TypeOK'
  BY <1>1, <1>2, <1>3, <1>4, NamenLemma
     DEF TypeOK, Schritte, Fehler
<1>6. JobInv'
  BY <1>1, <1>2, <1>3, <1>4, NamenLemma
     DEF JobInv, InJpg, InJhead
<1>7. JpgInv'
  BY <1>1, <1>2, <1>3, <1>4, NamenLemma
     DEF JpgInv, GanzesJpg, TmpInArbeit, Da
<1>8. ExifInv'
  BY <1>1, <1>2, <1>3, <1>4, NamenLemma
     DEF ExifInv, HatExif, Da, heil, JpgInv, GanzesJpg
<1>9. DrehInv'
  BY <1>1, <1>2, <1>3, <1>4, NamenLemma
     DEF DrehInv, heil
<1>10. ResteInv'
  BY <1>1, <1>2, <1>3, <1>4, NamenLemma
     DEF ResteInv, InJpg, heil, Vorlaeufig, ExifInv, Da
<1>11. BildBleibt'
  BY <1>1, <1>2, <1>3, <1>4, NamenLemma
     DEF BildBleibt, JpgInv, GanzesJpg, TmpInArbeit, Da
<1>12. ExifKommtMit'
  BY <1>1, <1>2, <1>3, <1>4, NamenLemma
     DEF ExifKommtMit, Gespeichert, Endname, heil, Da, ExifInv, JpgInv, GanzesJpg
<1> QED
  BY <1>5, <1>6, <1>7, <1>8, <1>9, <1>10, <1>11, <1>12

(* It stays under its temporary name.  *)
LEMMA NichtUmbenanntSchritt ==
  ASSUME IInv, schritt = "ersetzen", schritt' = "bereit", Da(JpgName), ~Da(m_dateiname),
         fehler' = fehler \cup {"name"},
         UNCHANGED <<fall, fs, job, speicher, pass, saves>>
  PROVE  IInv'
<1> USE DEF IInv
<1>1. /\ JpgName' = JpgName /\ m_dateiname' = m_dateiname
      /\ Sicherung(JpgName)' = Sicherung(JpgName)
      /\ Ersetzt' = Ersetzt /\ AufOriginal' = AufOriginal
      /\ ist_jpeg' = ist_jpeg /\ exifdreh' = exifdreh
      /\ TmpName' = TmpName /\ Zielstamm(FALSE)' = Zielstamm(FALSE)
  BY SelberJob
<1>2. /\ Ersetzt /\ ~job.saveas /\ ~AufOriginal /\ JpgName # m_dateiname
      /\ JpgName = TmpName /\ "jpg" \in job.bilderart
  BY NamenLemma DEF JobInv, InJpg, Ersetzt, AufOriginal
<1>3. heil' = FALSE
  BY DEF heil
<1>4. TypeOK'
  BY <1>1, <1>2, <1>3, NamenLemma
     DEF TypeOK, Schritte, Fehler
<1>5. JobInv'
  BY <1>1, <1>2, <1>3, NamenLemma
     DEF JobInv, InJpg, InJhead
<1>6. JpgInv'
  BY <1>1, <1>2, <1>3, NamenLemma
     DEF JpgInv, GanzesJpg, TmpInArbeit, Da
<1>7. ExifInv'
  BY <1>1, <1>2, <1>3, NamenLemma
     DEF ExifInv, HatExif, Da, heil, JpgInv, GanzesJpg
<1>8. DrehInv'
  BY <1>1, <1>2, <1>3, NamenLemma
     DEF DrehInv, heil
<1>9. ResteInv'
  BY <1>1, <1>2, <1>3, NamenLemma
     DEF ResteInv, InJpg, heil, Vorlaeufig, ExifInv, Da
<1>10. BildBleibt'
  BY <1>1, <1>2, <1>3, NamenLemma
     DEF BildBleibt, JpgInv, GanzesJpg, TmpInArbeit, Da
<1>11. ExifKommtMit'
  BY <1>1, <1>2, <1>3, NamenLemma
     DEF ExifKommtMit, Gespeichert, Endname, heil, Da, ExifInv, JpgInv, GanzesJpg
<1> QED
  BY <1>4, <1>5, <1>6, <1>7, <1>8, <1>9, <1>10, <1>11

(* It does not. *)
LEMMA NichtErsetztSchritt ==
  ASSUME IInv, schritt = "ersetzen", schritt' = "bereit", ~(Da(JpgName) /\ ~Da(m_dateiname)),
         UNCHANGED <<fall, fs, job, speicher, pass, saves, fehler>>
  PROVE  IInv'
<1> USE DEF IInv
<1>1. /\ JpgName' = JpgName /\ m_dateiname' = m_dateiname
      /\ Sicherung(JpgName)' = Sicherung(JpgName)
      /\ Ersetzt' = Ersetzt /\ AufOriginal' = AufOriginal
      /\ ist_jpeg' = ist_jpeg /\ exifdreh' = exifdreh
      /\ TmpName' = TmpName /\ Zielstamm(FALSE)' = Zielstamm(FALSE)
  BY SelberJob
<1>2. /\ Ersetzt /\ ~job.saveas /\ ~AufOriginal /\ JpgName # m_dateiname
      /\ "jpg" \in job.bilderart
  BY NamenLemma DEF JobInv, InJpg, Ersetzt, AufOriginal
<1>3. TypeOK'
  BY <1>1, <1>2, NamenLemma
     DEF TypeOK, Schritte, Fehler
<1>4. JobInv'
  BY <1>1, <1>2, NamenLemma
     DEF JobInv, InJpg, InJhead
<1>5. JpgInv'
  BY <1>1, <1>2, NamenLemma
     DEF JpgInv, GanzesJpg, TmpInArbeit, Da
<1>6. ExifInv'
  BY <1>1, <1>2, NamenLemma
     DEF ExifInv, HatExif, Da, heil, JpgInv, GanzesJpg
<1>7. DrehInv'
  BY <1>1, <1>2, NamenLemma
     DEF DrehInv, heil
<1>8. ResteInv'
  BY <1>1, <1>2, NamenLemma
     DEF ResteInv, InJpg, heil, Vorlaeufig, ExifInv, Da
<1>9. BildBleibt'
  BY <1>1, <1>2, NamenLemma
     DEF BildBleibt, JpgInv, GanzesJpg, TmpInArbeit, Da
<1>10. ExifKommtMit'
  BY <1>1, <1>2, NamenLemma
     DEF ExifKommtMit, Gespeichert, Endname, heil, Da, ExifInv, JpgInv, GanzesJpg
<1> QED
  BY <1>3, <1>4, <1>5, <1>6, <1>7, <1>8, <1>9, <1>10

-----------------------------------------------------------------------------
(* The theorems. *)

LEMMA AmAnfang == Init => IInv
<1> SUFFICES ASSUME Init PROVE IInv
  OBVIOUS
<1> DEFINE e == [da |-> fall.exif, lage |-> fall.exif /\ fall.lage]
           c == [bild |-> "original", ganz |-> TRUE, art |-> fall.art, exif |-> e]
<1>1. /\ fall \in Faelle /\ fall \in Fall /\ fall.art \in Arten
      /\ fall.exif \in BOOLEAN /\ (fall.exif => ist_jpeg)
      /\ schritt = "bereit" /\ job = KeinJob /\ speicher = Leer /\ pass = 1
      /\ saves = 0 /\ fehler = {}
  BY FaelleAssumption DEF Init, Fall, ist_jpeg
<1>2. e \in Exif
  <2>1. (fall.exif /\ fall.lage) \in BOOLEAN
    OBVIOUS
  <2> QED
    BY <1>1, <2>1 DEF Exif
<1>3. c \in Inhalt /\ c.ganz /\ c.art = fall.art /\ c.exif = e /\ c.bild = "original"
  BY <1>1, <1>2 DEF Inhalt
<1>4. e.da <=> fall.exif
  OBVIOUS
<1>5. m_dateiname \in Namen /\ ~m_dateiname.t /\ m_dateiname.stamm = "bild"
  <2>1. m_dateiname = [stamm |-> "bild", ext |-> fall.art, t |-> FALSE]
    BY DEF m_dateiname, Name
  <2>2. m_dateiname \in Namen
    BY <1>1, <2>1 DEF Namen, Staemme, Arten
  <2> QED
    BY <2>1, <2>2
<1>6. fs = [n \in {m_dateiname} |-> c]
  BY DEF Init
<1> HIDE DEF e, c
<1>7. DOMAIN fs = {m_dateiname} /\ fs[m_dateiname] = c
  BY <1>6
<1>8. KeinJob \in Job /\ Leer \in [exif : Exif, ganz : BOOLEAN]
  BY DEF KeinJob, Job, Leer, KeinExif, Exif, Staemme, Arten
<1>9. job.ziel = "bild_S" /\ ~job.exif /\ ~job.saveas /\ job.suffix /\ job.bilderart = {}
  BY <1>1 DEF KeinJob
<1>10. TypeOK
  BY <1>1, <1>3, <1>5, <1>7, <1>8, MaxSavesAssumption DEF TypeOK, Schritte
<1>11. JobInv
  BY <1>1, <1>9 DEF JobInv, Vorlaeufig, InJpg, InJhead, Ersetzt
<1>12. JpgInv
  BY <1>1, <1>3, <1>7 DEF JpgInv, GanzesJpg, Da, ist_jpeg
<1>13. ExifInv
  BY <1>1, <1>3, <1>4, <1>7, <1>9 DEF ExifInv
<1>14. DrehInv
  BY <1>1, <1>3, <1>7 DEF DrehInv, heil
<1>15. ResteInv
  BY <1>1, <1>5, <1>7 DEF ResteInv, Vorlaeufig
<1>16. BildBleibt
  BY <1>1, <1>3, <1>7 DEF BildBleibt, ist_jpeg, GanzesJpg, Da
<1>17. ExifKommtMit
  BY <1>1 DEF ExifKommtMit, Gespeichert
<1> QED
  BY <1>10, <1>11, <1>12, <1>13, <1>14, <1>15, <1>16, <1>17 DEF IInv

(* Every step of a save is one of those above. *)
LEMMA Erhalten == IInv /\ [Next]_vars => IInv'
<1> SUFFICES ASSUME IInv, [Next]_vars PROVE IInv'
  OBVIOUS
<1>t. TypeOK /\ JobInv
  BY DEF IInv
<1>1. CASE Speichern
  <2> PICK suffix \in BOOLEAN, arten \in SUBSET Arten :
        job' = [suffix |-> suffix, saveas |-> FALSE, ziel |-> Zielstamm(suffix),
                bilderart |-> arten, exif |-> HatExif]
    BY <1>1 DEF Speichern
  <2>1. Zielstamm(suffix) \in Staemme /\ Zielstamm(suffix) \notin Vorlaeufig
        /\ (Zielstamm(suffix) = "bild" => ~suffix)
        /\ (~suffix => Zielstamm(suffix) = Zielstamm(FALSE))
    BY DEF Zielstamm, Staemme, Vorlaeufig
  <2>2. HatExif \in BOOLEAN
    BY <1>t DEF HatExif, TypeOK, Da, Inhalt, Exif
  <2>3. job' \in Job /\ job'.ziel = Zielstamm(suffix) /\ job'.exif = HatExif
        /\ job'.suffix = suffix /\ (Ersetzt' => ~suffix)
    BY <2>1, <2>2 DEF Job, Ersetzt
  <2>4. /\ schritt = "bereit" /\ schritt' = "tif" /\ saves' \in 0 .. MaxSaves
        /\ UNCHANGED <<fall, fs, speicher, pass, fehler>>
    BY <1>1, <1>t, MaxSavesAssumption DEF Speichern, TypeOK
  <2> QED
    BY <2>1, <2>3, <2>4, AuftragSchritt
<1>2. CASE SpeichernUnter
  <2> PICK suffix \in BOOLEAN, arten \in SUBSET Arten :
        \E ziel \in {Zielstamm(suffix), "neu"} :
          job' = [suffix |-> suffix, saveas |-> TRUE, ziel |-> ziel,
                  bilderart |-> arten, exif |-> HatExif]
    BY <1>2 DEF SpeichernUnter
  <2> PICK ziel \in {Zielstamm(suffix), "neu"} :
        job' = [suffix |-> suffix, saveas |-> TRUE, ziel |-> ziel,
                bilderart |-> arten, exif |-> HatExif]
    OBVIOUS
  <2>1. ziel \in Staemme /\ ziel \notin Vorlaeufig
    BY DEF Zielstamm, Staemme, Vorlaeufig
  <2>2. HatExif \in BOOLEAN
    BY <1>t DEF HatExif, TypeOK, Da, Inhalt, Exif
  <2>3. job' \in Job /\ job'.ziel = ziel /\ job'.exif = HatExif /\ job'.saveas
        /\ ~Ersetzt'
    BY <2>1, <2>2 DEF Job, Ersetzt
  <2>4. /\ schritt = "bereit" /\ schritt' = "tif" /\ saves' \in 0 .. MaxSaves
        /\ UNCHANGED <<fall, fs, speicher, pass, fehler>>
    BY <1>2, <1>t, MaxSavesAssumption DEF SpeichernUnter, TypeOK
  <2> QED
    BY <2>1, <2>3, <2>4, AuftragSchritt
<1>3. CASE TifAuf
  BY <1>3, ZuSchritt, UeberspringenSchritt DEF TifAuf, Auf
<1>4. CASE TifZu
  BY <1>4, ZuSchritt DEF TifZu, Zu
<1>5. CASE BmpAuf
  BY <1>5, ZuSchritt, UeberspringenSchritt DEF BmpAuf, Auf
<1>6. CASE BmpZu
  BY <1>6, ZuSchritt DEF BmpZu, Zu
<1>7. CASE JpgAuf
  BY <1>7, <1>t, OhneJpgSchritt, JpgAufSchritt, JpgFehltSchritt DEF JpgAuf, TypeOK
<1>8. CASE JpgSchreiben
  <2>1. "jpg" \in job.bilderart
    BY <1>8, <1>t DEF JpgSchreiben, JobInv, InJpg
  <2> QED
    BY <1>8, <2>1, JpgFertigSchritt, JpgFehltSchritt DEF JpgSchreiben
<1>9. CASE JheadUebertrag
  BY <1>9, UebertragSchritt, NichtGelesenSchritt DEF JheadUebertrag, Quelle
<1>10. CASE JheadDrehen
  BY <1>10, DrehenSchritt, NichtGedrehtSchritt DEF JheadDrehen
<1>11. CASE JheadUmbenennen
  BY <1>11, SichernSchritt, NichtGesichertSchritt, AlteSicherungSchritt DEF JheadUmbenennen
<1>12. CASE JheadAuf
  BY <1>12, JheadAufSchritt, EndeSchritt DEF JheadAuf
<1>13. CASE JheadSchreiben
  BY <1>13, JheadSchreibenSchritt, AbgeschnittenSchritt DEF JheadSchreiben
<1>14. CASE JheadAufraeumen
  BY <1>14, AufraeumenSchritt, NichtAufgeraeumtSchritt DEF JheadAufraeumen, Rest
<1>15. CASE Entfernen
  BY <1>15, EntferntSchritt, NichtEntferntSchritt DEF Entfernen
<1>16. CASE Ersetzen
  BY <1>16, ErsetztSchritt, NichtUmbenanntSchritt, NichtErsetztSchritt DEF Ersetzen
<1>17. CASE Abbruch
  BY <1>17, EndeSchritt DEF Abbruch
<1>18. CASE UNCHANGED vars
  BY <1>18 DEF vars, IInv, TypeOK, JobInv, JpgInv, ExifInv, DrehInv, ResteInv,
     BildBleibt, ExifKommtMit, GanzesJpg, TmpInArbeit, TmpName, Zielstamm, HatExif, Gespeichert, Endname, heil, Da,
     AufOriginal, Ersetzt, JpgName, m_dateiname, Name, Sicherung, ist_jpeg, exifdreh
<1> QED
  BY <1>1, <1>2, <1>3, <1>4, <1>5, <1>6, <1>7, <1>8, <1>9, <1>10, <1>11, <1>12,
     <1>13, <1>14, <1>15, <1>16, <1>17, <1>18 DEF Next

LEMMA Induktiv == Spec => []IInv
BY AmAnfang, Erhalten, PTL DEF Spec

(* The variables of a save keep their types: no step loses a file's name   *)
(* or leaves a file without content (all of SaveImage's steps).            *)
THEOREM Typen == Spec => []TypeOK
<1>1. IInv => TypeOK
  BY DEF IInv
<1> QED
  BY <1>1, Induktiv, PTL

(* However a save of a JPEG is interrupted, a complete picture is on the   *)
(* disk: remove(m_dateiname) only runs when the new file is closed.  Also  *)
(* remove, rename and jhead's reading and unlinking may fail.  Excepted are*)
(* a JPEG that does not open, a rewrite by jhead that is cut short, and the*)
(* writing of a later save over the file a failed rename has left.         *)
THEOREM BildBleibtImmer == Spec => []BildBleibt
<1>1. IInv => BildBleibt
  BY DEF IInv
<1> QED
  BY <1>1, Induktiv, PTL

(* The finished JPEG has EXIF data exactly if the photo had: jhead's first *)
(* pass takes it over before the original is replaced.                     *)
THEOREM ExifKommtImmerMit == Spec => []ExifKommtMit
<1>1. IInv => ExifKommtMit
  BY DEF IInv
<1> QED
  BY <1>1, Induktiv, PTL

(* A picture turned on load is not turned again: jhead's last pass clears  *)
(* the tag in whatever file the result is in.                              *)
THEOREM NieDoppeltGedreht == Spec => []NichtDoppeltGedreht
<1>1. IInv => NichtDoppeltGedreht
  <2> SUFFICES ASSUME IInv, heil, schritt = "bereit", exifdreh, NEW n \in DOMAIN fs,
                      fs[n].bild = "ergebnis", fs[n].ganz
               PROVE  ~fs[n].exif.lage
    BY DEF NichtDoppeltGedreht
  <2>1. ~n.t /\ Sicherung(JpgName).t
    BY NamenLemma DEF IInv, ResteInv
  <2> QED
    BY <2>1 DEF IInv, DrehInv
<1> QED
  BY <1>1, Induktiv, PTL

(* A save without failures leaves neither a temporary nor a backup file.   *)
THEOREM NieReste == Spec => []KeineReste
<1>1. IInv => KeineReste
  BY DEF IInv, ResteInv, KeineReste, InJpg, Vorlaeufig
<1> QED
  BY <1>1, Induktiv, PTL

(* With a suffix nothing writes to the original's name, and the removal    *)
(* that makes room for the new file is not reached.                        *)
LEMMA OriginalSchritt ==
  ASSUME IInv, Next, job.suffix, job.ziel # "bild", Da(m_dateiname)
  PROVE  m_dateiname \in DOMAIN fs' /\ fs'[m_dateiname] = fs[m_dateiname]
<1>1. /\ TypeOK /\ JobInv /\ Ordner(fs) /\ m_dateiname \in DOMAIN fs
      /\ JpgName # m_dateiname /\ Sicherung(JpgName) # m_dateiname
  BY NamenLemma DEF IInv, TypeOK, Ordner, Da
<1>2. schritt \notin {"entfernen", "ersetzen"}
  BY <1>1 DEF JobInv, Ersetzt
<1>3. ASSUME NEW art \in {"tif", "bmp"}, NEW ganz \in BOOLEAN,
             fs' = Mit(Name(job.ziel, art), Ergebnis(art, ganz, KeinExif))
      PROVE  m_dateiname \in DOMAIN fs' /\ fs'[m_dateiname] = fs[m_dateiname]
  <2>1. Name(job.ziel, art) # m_dateiname
    BY <1>1, AndereNamen
  <2> QED
    BY <1>1, <1>3, <2>1 DEF Mit
<1>4. ASSUME NEW c, fs' = Mit(JpgName, c)
      PROVE  m_dateiname \in DOMAIN fs' /\ fs'[m_dateiname] = fs[m_dateiname]
  BY <1>1, <1>4 DEF Mit
<1>5. ASSUME fs' = Ohne(Sicherung(JpgName))
      PROVE  m_dateiname \in DOMAIN fs' /\ fs'[m_dateiname] = fs[m_dateiname]
  BY <1>1, <1>5 DEF Ohne
<1>6. ASSUME fs' = Verschoben(JpgName, Sicherung(JpgName))
      PROVE  m_dateiname \in DOMAIN fs' /\ fs'[m_dateiname] = fs[m_dateiname]
  BY <1>1, <1>6 DEF Verschoben
<1>7. CASE TifAuf \/ TifZu \/ BmpAuf \/ BmpZu
  BY <1>1, <1>3, <1>7 DEF TifAuf, TifZu, BmpAuf, BmpZu, Auf, Zu
<1>8. CASE JpgAuf \/ JpgSchreiben \/ JheadAuf \/ JheadSchreiben
  BY <1>1, <1>4, <1>8 DEF JpgAuf, JpgSchreiben, JheadAuf, JheadSchreiben
<1>9. CASE JheadUmbenennen \/ JheadAufraeumen
  BY <1>1, <1>5, <1>6, <1>9 DEF JheadUmbenennen, JheadAufraeumen, Rest
<1>10. CASE Speichern \/ SpeichernUnter \/ JheadUebertrag \/ JheadDrehen \/ Abbruch
  BY <1>1, <1>10 DEF Speichern, SpeichernUnter, JheadUebertrag, JheadDrehen, Abbruch
<1>11. CASE Entfernen \/ Ersetzen
  BY <1>2, <1>11 DEF Entfernen, Ersetzen
<1> QED
  BY <1>7, <1>8, <1>9, <1>10, <1>11 DEF Next

(* A save with a suffix leaves the original as it is.                      *)
THEOREM OriginalBleibtImmer == Spec => OriginalBleibt
<1>1. IInv /\ [Next]_vars =>
        [(job.suffix /\ job.ziel # "bild") =>
           (Da(m_dateiname) => m_dateiname \in DOMAIN fs'
                               /\ fs'[m_dateiname] = fs[m_dateiname])]_vars
  BY OriginalSchritt
<1> QED
  BY <1>1, Induktiv, PTL DEF Spec, OriginalBleibt
=============================================================================
