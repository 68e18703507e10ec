----------------------------- MODULE SaveImage -----------------------------
(***************************************************************************)
(* What a save does to the disk: schreibe_bild for OnSave / OnSaveExit     *)
(* (Speichern) and OnSaveAs (SpeichernUnter), with write_JPEG_file and     *)
(* jhead's ProcessFile, which rewrites the new JPEG to give it the EXIF    *)
(* data of the original.  Every step is one change of the file system.  Any*)
(* of them may fail; hardly one is checked, and the save goes on.  The     *)
(* process may end after any of them (a crash, ErrFatal, jhead in a cut    *)
(* file, or libjpeg's exit on a write error).  Pixels are left out: a file *)
(* holds the original or the corrected picture, completely or not.         *)
(***************************************************************************)
EXTENDS Integers, FiniteSets

CONSTANTS
  Faelle,       \* originals: [art, exif, lage, rely, direkt]
  MaxSaves,     \* bound on the saves of one session
  OeffnenScheitert   \* whether opening the JPEG for writing may fail

Arten == {"jpg", "tif", "bmp"}
Fall == [art : Arten,
         exif : BOOLEAN,      \* a JPEG with EXIF data
         lage : BOOLEAN,      \* whose orientation tag is not "upright"
         rely : BOOLEAN,      \* relyexifori
         direkt : BOOLEAN]    \* direkt_speichern: name from the command line

ASSUME FaelleAssumption ==
  Faelle \subseteq Fall /\ \A f \in Faelle : f.exif => f.art = "jpg"
ASSUME MaxSavesAssumption == MaxSaves \in Nat
ASSUME OeffnenAssumption == OeffnenScheitert \in BOOLEAN

(* Names without directory: a stem with or without m_suffix or "_tmp", the *)
(* extension, and whether jhead's backup ".t" is appended.                 *)
Staemme == {"bild", "bild_S", "bild_tmp", "aus", "aus_tmp", "neu"}
Namen == [stamm : Staemme, ext : Arten, t : BOOLEAN]
Name(s, e) == [stamm |-> s, ext |-> e, t |-> FALSE]
Sicherung(n) == [stamm |-> n.stamm, ext |-> n.ext, t |-> TRUE]

Exif == [da : BOOLEAN, lage : BOOLEAN]
KeinExif == [da |-> FALSE, lage |-> FALSE]
Leer == [exif |-> KeinExif, ganz |-> FALSE]     \* jhead holds no sections
Inhalt == [bild : {"original", "ergebnis"}, ganz : BOOLEAN, art : Arten,
           exif : Exif]
Ergebnis(art, ganz, exif) ==
  [bild |-> "ergebnis", ganz |-> ganz, art |-> art, exif |-> exif]

VARIABLES
  fall,
  fs,          \* the files there are, and what is in them
  schritt,     \* where in schreibe_bild the process is
  job,         \* the save in progress: suffix, saveas, ziel, bilderart
  speicher,    \* jhead's sections: the EXIF data, the picture whole or cut
  pass,        \* which ProcessFile call of write_JPEG_file
  saves,       \* saves started so far
  fehler       \* history: which kinds of steps have failed so far

vars == <<fall, fs, schritt, job, speicher, pass, saves, fehler>>

(* What has failed: opening the JPEG, jhead's writing (the disk is full),  *)
(* the rename at the end; or something else: a TIFF or BMP file, jhead's   *)
(* reading, unlinking its backup, remove.                                  *)
Fehler == {"jpg", "voll", "name", "sonst"}
heil == fehler = {}

m_dateiname == Name("bild", fall.art)
ist_jpeg == fall.art = "jpg"
exifdreh == fall.exif /\ fall.lage /\ fall.rely   \* exifdreh > 1

Job == [suffix : BOOLEAN, saveas : BOOLEAN, ziel : Staemme,
        bilderart : SUBSET Arten,
        exif : BOOLEAN]     \* history: m_dateiname had EXIF data at the start
KeinJob == [suffix |-> TRUE, saveas |-> FALSE, ziel |-> "bild_S",
            bilderart |-> {}, exif |-> FALSE]
Schritte == {"bereit", "tif", "tif2", "bmp", "bmp2", "jpg", "jpg2", "jhead",
             "umben", "auf", "schreib", "weg", "entfernen", "ersetzen", "aus"}

Init ==
  /\ fall \in Faelle
  /\ fs = [n \in {m_dateiname} |->
             [bild |-> "original", ganz |-> TRUE, art |-> fall.art,
              exif |-> [da |-> fall.exif, lage |-> fall.exif /\ fall.lage]]]
  /\ schritt = "bereit"
  /\ job = KeinJob
  /\ speicher = Leer /\ pass = 1
  /\ saves = 0 /\ fehler = {}

Da(n) == n \in DOMAIN fs
Mit(n, inhalt) == [m \in DOMAIN fs \cup {n} |-> IF m = n THEN inhalt ELSE fs[m]]
Ohne(n) == [m \in DOMAIN fs \ {n} |-> fs[m]]
Verschoben(n, m) == [q \in (DOMAIN fs \ {n}) \cup {m} |->
                       IF q = m THEN fs[n] ELSE fs[q]]

-----------------------------------------------------------------------------
(* The stem handed to schreibe_bild; with an empty suffix it is the        *)
(* original's own.  A name from the command line gets no suffix.           *)
Zielstamm(suffix) == IF fall.direkt THEN "aus"
                     ELSE IF suffix THEN "bild_S" ELSE "bild"

HatExif == Da(m_dateiname) /\ fs[m_dateiname].exif.da

(* OnSave, OnSaveExit: settings as the display dialog left them. *)
Speichern ==
  /\ schritt = "bereit" /\ saves < MaxSaves
  /\ \E suffix \in BOOLEAN, arten \in SUBSET Arten :
       job' = [suffix |-> suffix, saveas |-> FALSE, ziel |-> Zielstamm(suffix),
               bilderart |-> arten, exif |-> HatExif]
  /\ schritt' = "tif" /\ saves' = saves + 1
  /\ UNCHANGED <<fall, fs, speicher, pass, fehler>>

(* OnSaveAs: the dialog proposes the same stem, the user accepts it or     *)
(* types another one.                                                      *)
SpeichernUnter ==
  /\ schritt = "bereit" /\ saves < MaxSaves
  /\ \E suffix \in BOOLEAN, arten \in SUBSET Arten :
       \E ziel \in {Zielstamm(suffix), "neu"} :
         job' = [suffix |-> suffix, saveas |-> TRUE, ziel |-> ziel,
                 bilderart |-> arten, exif |-> HatExif]
  /\ schritt' = "tif" /\ saves' = saves + 1
  /\ UNCHANGED <<fall, fs, speicher, pass, fehler>>

(* TIFF and BMP are written in place, one after the other: opening leaves  *)
(* an unfinished file under the final name.  A file that cannot be opened  *)
(* is skipped; one that is cut short by a full disk goes unnoticed.        *)
Auf(art, hier, danach, weiter) ==
  /\ schritt = hier
  /\ \/ /\ art \in job.bilderart
        /\ fs' = Mit(Name(job.ziel, art), Ergebnis(art, FALSE, KeinExif))
        /\ schritt' = danach
        /\ UNCHANGED fehler
     \/ /\ schritt' = weiter
        /\ fehler' = IF art \in job.bilderart THEN fehler \cup {"sonst"} ELSE fehler
        /\ UNCHANGED fs
  /\ UNCHANGED <<fall, job, speicher, pass, saves>>

Zu(art, hier, danach) ==
  /\ schritt = hier
  /\ \E ganz \in BOOLEAN :
       /\ fs' = Mit(Name(job.ziel, art), Ergebnis(art, ganz, KeinExif))
       /\ fehler' = IF ganz THEN fehler ELSE fehler \cup {"sonst"}
  /\ schritt' = danach
  /\ UNCHANGED <<fall, job, speicher, pass, saves>>

TifAuf == Auf("tif", "tif", "tif2", "bmp")
TifZu  == Zu("tif", "tif2", "bmp")
BmpAuf == Auf("bmp", "bmp", "bmp2", "jpg")
BmpZu  == Zu("bmp", "bmp2", "jpg")

-----------------------------------------------------------------------------
(* The JPEG. *)

Ersetzt_Bug == ~job.saveas
Ersetzt == ~job.saveas /\ ~job.suffix

(* A save that is to replace the original goes to a second file first. *)
JpgName_Bug == Name(job.ziel, "jpg")
JpgName ==
  Name(IF ~Ersetzt THEN job.ziel ELSE IF job.ziel = "aus" THEN "aus_tmp"
       ELSE "bild_tmp", "jpg")

(* Only after the new file is closed. *)
NachJpg_Bug(b) == "bereit"
NachJpg(b) == IF b THEN "entfernen" ELSE "bereit"

JpgAuf ==
  /\ schritt = "jpg"
  /\ \/ /\ "jpg" \notin job.bilderart
        /\ schritt' = "bereit"
        /\ UNCHANGED <<fs, fehler>>
     \/ /\ "jpg" \in job.bilderart
        /\ fs' = Mit(JpgName, Ergebnis("jpg", FALSE, KeinExif))
        /\ schritt' = "jpg2"
        /\ UNCHANGED fehler
     \/ /\ "jpg" \in job.bilderart /\ OeffnenScheitert
        /\ schritt' = NachJpg(Ersetzt)
        /\ fehler' = fehler \cup {"jpg"}
        /\ UNCHANGED fs
  /\ UNCHANGED <<fall, job, speicher, pass, saves>>

(* write_JPEG_file up to fclose; it is silent when it cannot open the file.*)
(* libjpeg checks what it writes and leaves the process when it fails.     *)
JpgSchreiben ==
  /\ schritt = "jpg2"
  /\ \/ /\ fs' = Mit(JpgName, Ergebnis("jpg", TRUE, KeinExif))
        /\ schritt' = IF ist_jpeg THEN "jhead" ELSE NachJpg(Ersetzt)
        /\ UNCHANGED fehler
     \/ /\ OeffnenScheitert
        /\ schritt' = NachJpg(Ersetzt) /\ fehler' = fehler \cup {"jpg"}
        /\ UNCHANGED fs
  /\ pass' = 1
  /\ UNCHANGED <<fall, job, speicher, saves>>

-----------------------------------------------------------------------------
(* ProcessFile, called up to four times; the second and third call change  *)
(* no content.  Call 1 takes over the EXIF section of m_dateiname, call 2  *)
(* here (the fourth) sets the orientation to upright.                      *)

(* The EXIF section is read from the file m_dateiname names at this time.  *)
Quelle_Bug == fs[JpgName]
Quelle == fs[m_dateiname]

(* The picture comes from the new file.  When either cannot be read        *)
(* ProcessFile returns and the next call follows.                          *)
JheadUebertrag ==
  /\ schritt = "jhead" /\ pass = 1
  /\ \/ /\ Da(m_dateiname)
        /\ speicher' = [exif |-> Quelle.exif, ganz |-> fs[JpgName].ganz]
        /\ schritt' = "umben"
        /\ UNCHANGED <<pass, fehler>>
     \/ /\ pass' = 2
        /\ fehler' = IF Da(m_dateiname) THEN fehler \cup {"sonst"} ELSE fehler
        /\ UNCHANGED <<speicher, schritt>>
  /\ UNCHANGED <<fall, fs, job, saves>>

(* The tag is cleared in the new file when the pixels were turned on load. *)
Aufrecht_Bug == FALSE
Aufrecht == exifdreh

ZuDrehen == Aufrecht /\ fs[JpgName].exif.lage

JheadDrehen ==
  /\ schritt = "jhead" /\ pass = 2
  /\ \/ /\ ZuDrehen
        /\ speicher' = [exif |-> [fs[JpgName].exif EXCEPT !.lage = FALSE],
                        ganz |-> fs[JpgName].ganz]
        /\ schritt' = "umben"
        /\ UNCHANGED fehler
     \/ /\ schritt' = NachJpg(Ersetzt)
        /\ fehler' = IF ZuDrehen THEN fehler \cup {"sonst"} ELSE fehler
        /\ UNCHANGED speicher
  /\ UNCHANGED <<fall, fs, job, pass, saves>>

(* unlink(.t) and rename(file, .t).  The rename fails while schreibe_bild  *)
(* still holds the file open, or when an old .t stays; nobody looks at the *)
(* results.                                                                *)
JheadUmbenennen ==
  /\ schritt = "umben"
  /\ \/ fs' = Verschoben(JpgName, Sicherung(JpgName))
     \/ fs' = Ohne(Sicherung(JpgName))
     \/ Da(Sicherung(JpgName)) /\ UNCHANGED fs
  /\ schritt' = "auf"
  /\ UNCHANGED <<fall, job, speicher, pass, saves, fehler>>

(* WriteJpegFile: ErrFatal ends the process when the file does not open.   *)
JheadAuf ==
  /\ schritt = "auf"
  /\ \/ /\ fs' = Mit(JpgName, Ergebnis("jpg", FALSE, speicher.exif))
        /\ schritt' = "schreib"
     \/ OeffnenScheitert /\ schritt' = "aus" /\ UNCHANGED fs
  /\ UNCHANGED <<fall, job, speicher, pass, saves, fehler>>

(* Neither fwrite nor fclose is checked: a file that is cut short, behind  *)
(* its EXIF section or before it, looks like any other.                    *)
JheadSchreiben ==
  /\ schritt = "schreib"
  /\ \/ /\ fs' = Mit(JpgName, Ergebnis("jpg", speicher.ganz, speicher.exif))
        /\ UNCHANGED fehler
     \/ /\ \E exif \in {speicher.exif, KeinExif} :
             fs' = Mit(JpgName, Ergebnis("jpg", FALSE, exif))
        /\ fehler' = fehler \cup {"voll"}
  /\ schritt' = "weg"
  /\ UNCHANGED <<fall, job, speicher, pass, saves>>

(* unlink(.t): the backup goes once the new file is there; DiscardData.    *)
Rest == Ohne(Sicherung(JpgName))

JheadAufraeumen ==
  /\ schritt = "weg"
  /\ \/ fs' = Rest /\ UNCHANGED fehler
     \/ fehler' = fehler \cup {"sonst"} /\ UNCHANGED fs
  /\ schritt' = IF pass = 1 THEN "jhead" ELSE NachJpg(Ersetzt)
  /\ pass' = 2 /\ speicher' = Leer
  /\ UNCHANGED <<fall, job, saves>>

-----------------------------------------------------------------------------
(* remove(m_dateiname), then rename(new, m_dateiname); neither is checked. *)
Entfernen ==
  /\ schritt = "entfernen"
  /\ \/ fs' = Ohne(m_dateiname) /\ UNCHANGED fehler
     \/ fehler' = fehler \cup {"sonst"} /\ UNCHANGED fs    \* read-only or in use
  /\ schritt' = "ersetzen"
  /\ UNCHANGED <<fall, job, speicher, pass, saves>>

(* rename never replaces an existing file here (Windows), and may fail all *)
(* the same: the new file is in use, or the removed one still held by      *)
(* another program.                                                        *)
Ersetzen ==
  /\ schritt = "ersetzen"
  /\ \/ /\ Da(JpgName) /\ ~Da(m_dateiname)
        /\ fs' = Verschoben(JpgName, m_dateiname)
        /\ UNCHANGED fehler
     \/ /\ Da(JpgName) /\ ~Da(m_dateiname)
        /\ fehler' = fehler \cup {"name"}
        /\ UNCHANGED fs
     \/ /\ ~Da(JpgName) \/ Da(m_dateiname)
        /\ UNCHANGED <<fs, fehler>>
  /\ schritt' = "bereit"
  /\ UNCHANGED <<fall, job, speicher, pass, saves>>

(* The process ends in the middle of a save, or the user is done. *)
Abbruch ==
  /\ schritt \notin {"bereit", "aus"}
  /\ schritt' = "aus"
  /\ UNCHANGED <<fall, fs, job, speicher, pass, saves, fehler>>

Next ==
  \/ Speichern \/ SpeichernUnter \/ TifAuf \/ TifZu \/ BmpAuf \/ BmpZu
  \/ JpgAuf \/ JpgSchreiben \/ JheadUebertrag \/ JheadDrehen
  \/ JheadUmbenennen \/ JheadAuf \/ JheadSchreiben \/ JheadAufraeumen
  \/ Entfernen \/ Ersetzen \/ Abbruch

Spec == Init /\ [][Next]_vars

-----------------------------------------------------------------------------
(* Properties. *)

TypeOK ==
  /\ fall \in Faelle
  /\ DOMAIN fs \subseteq Namen /\ \A n \in DOMAIN fs : fs[n] \in Inhalt
  /\ schritt \in Schritte /\ job \in Job
  /\ speicher \in [exif : Exif, ganz : BOOLEAN] /\ pass \in {1, 2}
  /\ saves \in 0 .. MaxSaves /\ fehler \subseteq Fehler

(* The file a finished save of a JPEG left behind. *)
Endname == IF Ersetzt THEN m_dateiname ELSE JpgName
Gespeichert == schritt = "bereit" /\ "jpg" \in job.bilderart /\ saves > 0

(* This save is asked to write over the original. *)
AufOriginal == job.saveas /\ job.ziel = "bild" /\ fall.art \in job.bilderart

(* "If empty, the original file may be overwritten": with a suffix no save *)
(* changes the original, unless the user types its name.                   *)
OriginalBleibt ==
  [][(job.suffix /\ job.ziel # "bild") =>
       (Da(m_dateiname) => m_dateiname \in DOMAIN fs'
                           /\ fs'[m_dateiname] = fs[m_dateiname])]_vars

(* Where a save that is to replace the original writes first.              *)
TmpName == Name(IF fall.direkt THEN "aus_tmp" ELSE "bild_tmp", "jpg")
GanzesJpg(n) == Da(n) /\ fs[n].ganz /\ fs[n].art = "jpg"

(* The rename of an earlier save has failed, so that its temporary file may*)
(* be all there is, and this save, which is to replace the original again, *)
(* is writing to that file or has been ended.                              *)
TmpInArbeit ==
  "name" \in fehler /\ Ersetzt /\ schritt \in {"jpg2", "auf", "schreib", "aus"}

(* However a save of a JPEG photo is interrupted, and whichever other step *)
(* fails, also the removal of the original or the renaming of the new file,*)
(* the disk holds a complete picture: the original, or the corrected one   *)
(* that was to replace it, at the latest under its temporary name.  Three  *)
(* failures are excepted, for the code does lose the picture over them: a  *)
(* JPEG that does not open or a rewrite by jhead that is cut short, each   *)
(* also against ImmerErsetzt, and, after a failed rename, a second save    *)
(* that writes over the temporary file (TmpInArbeit).                      *)
BildBleibt ==
  ist_jpeg /\ ~AufOriginal /\ fehler \cap {"jpg", "voll"} = {} /\ ~TmpInArbeit =>
    \E n \in {m_dateiname, JpgName, TmpName} : GanzesJpg(n)

(* Photos keep their EXIF data: what a finished save of a JPEG wrote, also *)
(* after it has taken the original's place, carries an EXIF section exactly *)
(* if the original had one when the save began.  Saving over the original  *)
(* by name is the exception (see README).                                  *)
ExifKommtMit ==
  Gespeichert /\ heil /\ ~AufOriginal
    => Da(Endname) /\ fs[Endname].ganz /\ (fs[Endname].exif.da <=> job.exif)

(* A picture that was turned upright on load is never turned again by a    *)
(* viewer: no finished result keeps the orientation tag as well.           *)
NichtDoppeltGedreht ==
  schritt = "bereit" /\ heil /\ exifdreh =>
    \A n \in DOMAIN fs :
      fs[n].bild = "ergebnis" /\ fs[n].ganz => ~fs[n].exif.lage

(* A save that went through leaves no temporary and no backup file.        *)
KeineReste ==
  schritt = "bereit" /\ heil =>
    \A n \in DOMAIN fs : ~n.t /\ n.stamm \notin {"bild_tmp", "aus_tmp"}

(* ShiftNView.cpp:4658: a save with an empty suffix in all cases puts the  *)
(* new file in the place of the original.                                  *)
ImmerErsetzt ==
  Gespeichert /\ Ersetzt =>
    Da(m_dateiname) /\ fs[m_dateiname].ganz
=============================================================================
