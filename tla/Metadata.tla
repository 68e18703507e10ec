------------------------------ MODULE Metadata ------------------------------
(***************************************************************************)
(* What a JPEG carries besides its picture, from the photo to the result   *)
(* and on to results of results: the colour profile, which libjpeg hands   *)
(* over in numbered markers, and the sections that jhead's ProcessFile     *)
(* copies.  A file is the sequence of its sections, the compressed picture *)
(* as the last one.  Files that libjpeg refuses never get here.            *)
(***************************************************************************)
EXTENDS Integers, SequencesExt

CONSTANTS
  Fotos,             \* JPEG files that are opened
  MaxBytes,          \* profile data in one marker: 65519 in the code
  MaxNummer,         \* largest value of a byte: 255
  MaxLaden, MaxSichern   \* bounds: images opened, saves of each

Angaben == {"EXIF", "COM", "IPTC", "XMP"}
(* "APP": other sections of programs, APP1 that is neither Exif nor XMP and*)
(* Adobe's among them; "ICC": APP2 with the profile's signature; "REST":   *)
(* all behind SOS.  was is the content, lage an Exif section's orientation *)
(* (0: no tag), nr and von a profile marker's two numbers.                 *)
Typen == Angaben \cup {"JFIF", "APP1", "APP", "ICC", "DQT", "DHT", "SOF", "SOS", "REST"}
Sektion == [typ : Typen, was : Seq(Nat), lage : 0 .. 8,
            nr : 0 .. MaxNummer, von : 0 .. MaxNummer]

(* A file ends with SOS and the rest. *)
Jpeg(f) ==
  LET n == Len(f)
  IN /\ n > 1 /\ f[n - 1].typ = "SOS" /\ f[n].typ = "REST"
     /\ \A k \in 1 .. n - 2 : f[k].typ \notin {"SOS", "REST"}

ASSUME FotosAssumption ==
  /\ Fotos \subseteq Seq(Sektion)
  /\ \A f \in Fotos :
       /\ Jpeg(f)
       /\ \A k \in DOMAIN f : f[k].typ = "ICC" => Len(f[k].was) <= MaxBytes
ASSUME ZahlenAssumption ==
  /\ MaxBytes \in Nat \ {0} /\ MaxNummer \in Nat \ {0}
  /\ MaxLaden \in Nat /\ MaxSichern \in Nat

Neue(typ, was) == [typ |-> typ, was |-> was, lage |-> 0, nr |-> 0, von |-> 0]

VARIABLES
  foto,                \* the file m_dateiname
  icc_data,            \* the profile: <<>> without iccstream_vorhanden
  exifdreh,            \* the orientation the picture was turned by, or 1
  neu,                 \* the result on the disk
  Sections,            \* jhead's sections; its length is SectionsRead
  SectionsAllocated,
  HaveCom,             \* local of ReadJpegSections
  Orientation,         \* ImageInfo.Orientation
  schritt,             \* "offen", or in ProcessFile: "lesen", "gelesen"
  pass,                \* whose call: "laden", "uebertrag", "nochmal", "drehen"
  modus,               \* ReadMode: subset of {"METADATA", "IMAGE"}
  datei, pos,          \* what is read, how far
  geladen, gesichert,  \* for the bounds; gesichert counts saves of foto
  daneben              \* history: a write beyond SectionsAllocated

vars == <<foto, icc_data, exifdreh, neu, Sections, SectionsAllocated, HaveCom, Orientation,
          schritt, pass, modus, datei, pos, geladen, gesichert, daneben>>
bildvars == <<foto, icc_data, geladen, gesichert>>

Init ==
  /\ foto = <<>> /\ icc_data = <<>> /\ exifdreh = 1 /\ neu = <<>>
  /\ Sections = <<>> /\ SectionsAllocated = 5 /\ HaveCom = FALSE /\ Orientation = 0
  /\ schritt = "offen" /\ pass = "laden" /\ modus = {} /\ datei = <<>> /\ pos = 1
  /\ geladen = 0 /\ gesichert = 0 /\ daneben = FALSE

(* Sections of the kinds in T, in their order. *)
Nur(f, T) ==
  LET nur[k \in 0 .. Len(f)] ==
        IF k = 0 THEN <<>>
        ELSE IF f[k].typ \in T THEN Append(nur[k - 1], f[k]) ELSE nur[k - 1]
  IN nur[Len(f)]

-----------------------------------------------------------------------------
(* The profile. *)

Marken(f) == Nur(f, {"ICC"})

(* read_icc_profile: markers in any order, each number once, all agreeing  *)
(* on how many there are; or there is no profile.                          *)
Vollzaehlig(m) ==
  /\ m # <<>>
  /\ \A k \in DOMAIN m : m[k].von = m[1].von /\ m[k].nr \in 1 .. m[1].von
  /\ \A k, l \in DOMAIN m : m[k].nr = m[l].nr => k = l
  /\ \A n \in 1 .. m[1].von : \E k \in DOMAIN m : m[k].nr = n

read_icc_profile(f) ==
  LET m == Marken(f)
      stelle(n) == CHOOSE k \in DOMAIN m : m[k].nr = n
  IN IF Vollzaehlig(m) THEN FlattenSeq([n \in DOMAIN m |-> m[stelle(n)].was])
     ELSE <<>>

num_markers_Bug == Len(icc_data) \div MaxBytes + 1
num_markers == Len(icc_data) \div MaxBytes + (IF Len(icc_data) % MaxBytes = 0 THEN 0 ELSE 1)

(* Both numbers are written as bytes. *)
write_icc_profile ==
  LET ende(k) == IF k * MaxBytes > Len(icc_data) THEN Len(icc_data) ELSE k * MaxBytes
  IN [k \in 1 .. (Len(icc_data) + MaxBytes - 1) \div MaxBytes |->
        [Neue("ICC", SubSeq(icc_data, (k - 1) * MaxBytes + 1, ende(k)))
           EXCEPT !.nr = k % (MaxNummer + 1), !.von = num_markers % (MaxNummer + 1)]]

-----------------------------------------------------------------------------
(* ProcessFile and ReadJpegSections. *)

Lies(f, m) == datei' = f /\ modus' = m /\ pos' = 1 /\ HaveCom' = FALSE /\ schritt' = "lesen"

(* A call of ProcessFile starts, with everything discarded. *)
Rufe(p, f, m) ==
  /\ pass' = p /\ Lies(f, m)
  /\ Sections' = <<>> /\ Orientation' = 0

(* read_JPEG_file: a photo, or the result that was saved last. *)
Laden ==
  /\ schritt = "offen" /\ geladen < MaxLaden
  /\ foto' \in IF neu = <<>> THEN Fotos ELSE Fotos \cup {neu}
  /\ icc_data' = read_icc_profile(foto')
  /\ Rufe("laden", foto', {"METADATA"})
  /\ geladen' = geladen + 1 /\ gesichert' = 0 /\ neu' = <<>>
  /\ UNCHANGED <<exifdreh, SectionsAllocated, daneben>>

(* CheckSectionsAllocated before a section is stored behind n others. *)
Platz_Bug(n, a) == a
Platz(n, a) == IF n >= a THEN a + a \div 2 ELSE a

(* Whether a section stays.  The result's own head and comment are dropped,*)
(* and metadata is not read twice.                                         *)
Bleibt_Bug(s) ==
  CASE s.typ = "COM" -> ~HaveCom /\ "METADATA" \in modus
    [] s.typ \in {"EXIF", "XMP"} -> "METADATA" \in modus
    [] OTHER -> s.typ \notin {"JFIF", "APP1"}
Bleibt(s) ==
  CASE s.typ = "COM" -> ~HaveCom /\ "METADATA" \in modus
    [] s.typ \in {"EXIF", "XMP", "IPTC"} -> "METADATA" \in modus
    [] OTHER -> s.typ \notin {"JFIF", "APP1"}

(* One section; it is stored before it is judged. *)
LiesSektion ==
  /\ schritt = "lesen" /\ datei[pos].typ # "SOS"
  /\ LET s == datei[pos]
         n == Len(Sections)
     IN /\ SectionsAllocated' = Platz(n, SectionsAllocated)
        /\ daneben' = (daneben \/ n >= SectionsAllocated')
        /\ Sections' = IF Bleibt(s) THEN Append(Sections, s) ELSE Sections
        /\ HaveCom' = (HaveCom \/ (s.typ = "COM" /\ Bleibt(s)))
        /\ Orientation' = IF s.typ = "EXIF" /\ Bleibt(s) /\ s.lage # 0
                          THEN s.lage ELSE Orientation
  /\ pos' = pos + 1
  /\ UNCHANGED <<bildvars, exifdreh, neu, schritt, pass, modus, datei>>

(* SOS is the last one read, with all that follows it if the picture is    *)
(* wanted.                                                                 *)
LiesSOS ==
  /\ schritt = "lesen" /\ datei[pos].typ = "SOS"
  /\ LET n == Len(Sections)
         a == Platz(n, SectionsAllocated)
         bild == "IMAGE" \in modus
         mit == Append(Sections, datei[pos])
     IN /\ Sections' = IF bild THEN Append(mit, datei[pos + 1]) ELSE mit
        /\ SectionsAllocated' = IF bild THEN Platz(n + 1, a) ELSE a
        /\ daneben' = (daneben \/ Len(Sections') > SectionsAllocated')
  /\ schritt' = "gelesen"
  /\ UNCHANGED <<bildvars, exifdreh, neu, HaveCom, Orientation, pass, modus, datei, pos>>

(* Nothing changed: DiscardData, and the next call, if any. *)
Entlassen == Sections' = <<>> /\ Orientation' = 0 /\ schritt' = "offen"

(* The photo is open: ShowImageInfo has left its orientation in exifdreh,  *)
(* which counts if relyexifori.                                            *)
Geladen ==
  /\ schritt = "gelesen" /\ pass = "laden"
  /\ exifdreh' \in {1, IF Orientation > 1 THEN Orientation ELSE 1}
  /\ Entlassen
  /\ UNCHANGED <<bildvars, neu, SectionsAllocated, HaveCom, pass, modus, datei, pos, daneben>>

(* write_JPEG_file: libjpeg writes the result, then jhead takes the        *)
(* metadata from m_dateiname.                                              *)
Sichern ==
  /\ schritt = "offen" /\ foto # <<>> /\ gesichert < MaxSichern
  /\ LET inhalt == <<geladen, gesichert>>
     IN neu' = <<Neue("JFIF", inhalt)>> \o write_icc_profile \o
               [k \in 1 .. 5 |-> Neue(<<"DQT", "SOF", "DHT", "SOS", "REST">>[k], inhalt)]
  /\ gesichert' = gesichert + 1
  /\ Rufe("uebertrag", foto, {"METADATA"})
  /\ UNCHANGED <<foto, icc_data, exifdreh, SectionsAllocated, geladen, daneben>>

(* DiscardAllButExif: the first section of each kind, in this order. *)
NurExif(S) ==
  LET erste(t) == LET alle == Nur(S, {t}) IN IF alle = <<>> THEN <<>> ELSE <<alle[1]>>
  IN erste("EXIF") \o erste("COM") \o erste("IPTC") \o erste("XMP")

(* DoAutoRotate: ClearOrientation of the section that was read last. *)
Gedreht(S) ==
  [k \in DOMAIN S |-> IF S[k].typ = "EXIF" /\ S[k].lage # 0 THEN [S[k] EXCEPT !.lage = 1]
                      ELSE S[k]]

(* The picture is read behind the metadata. *)
Behalte ==
  /\ schritt = "gelesen" /\ pass \in {"uebertrag", "drehen"} /\ modus = {"METADATA"}
  /\ Sections' = IF pass = "drehen" /\ Orientation \in 2 .. 8
                 THEN Gedreht(NurExif(Sections)) ELSE NurExif(Sections)
  /\ Lies(neu, {"IMAGE"})
  /\ UNCHANGED <<bildvars, exifdreh, neu, SectionsAllocated, Orientation, pass, daneben>>

(* WriteJpegFile: a file starts with Exif, or gets a JFIF head. *)
Geschrieben ==
  IF Sections[1].typ \in {"EXIF", "JFIF"} THEN Sections
  ELSE <<Neue("JFIF", <<geladen, gesichert>>)>> \o Sections

Schreibe ==
  /\ schritt = "gelesen" /\ pass \in {"uebertrag", "drehen"} /\ modus = {"IMAGE"}
  /\ neu' = IF pass = "uebertrag" \/ Orientation \in 2 .. 8 THEN Geschrieben ELSE neu
  /\ IF pass = "uebertrag"
     THEN Rufe("nochmal", neu', {"METADATA", "IMAGE"})
     ELSE Entlassen /\ UNCHANGED <<HaveCom, pass, modus, datei, pos>>
  /\ UNCHANGED <<bildvars, exifdreh, SectionsAllocated, daneben>>

(* A call that changes nothing, a second one for the file date, then one to*)
(* clear the orientation the picture was turned by.                        *)
Nochmal ==
  /\ schritt = "gelesen" /\ pass = "nochmal"
  /\ \/ Rufe("nochmal", neu, {"METADATA", "IMAGE"})      \* use_exif_date
     \/ IF exifdreh > 1 THEN Rufe("drehen", neu, {"METADATA"})
        ELSE Entlassen /\ UNCHANGED <<HaveCom, pass, modus, datei, pos>>
  /\ UNCHANGED <<bildvars, exifdreh, neu, SectionsAllocated, daneben>>

Next == \/ Laden \/ LiesSektion \/ LiesSOS \/ Geladen \/ Sichern \/ Behalte
        \/ Schreibe \/ Nochmal

Spec == Init /\ [][Next]_vars

-----------------------------------------------------------------------------
TypeOK ==
  /\ foto \in Seq(Sektion) /\ neu \in Seq(Sektion) /\ Sections \in Seq(Sektion)
  /\ icc_data \in Seq(Nat) /\ exifdreh \in 1 .. 8 /\ Orientation \in 0 .. 8
  /\ SectionsAllocated \in Nat /\ HaveCom \in BOOLEAN /\ daneben \in BOOLEAN
  /\ schritt \in {"offen", "lesen", "gelesen"}
  /\ pass \in {"laden", "uebertrag", "nochmal", "drehen"}
  /\ modus \subseteq {"METADATA", "IMAGE"} /\ datei \in Seq(Sektion) /\ pos \in Nat
  /\ geladen \in 0 .. MaxLaden /\ gesichert \in 0 .. MaxSichern

Gesichert == schritt = "offen" /\ gesichert > 0

(* Every result has the colour profile of the photo it was made from,      *)
(* however the photo's markers were cut and ordered, and none if those were*)
(* incomplete or contradictory.                                            *)
ProfilBleibt == Gesichert => read_icc_profile(neu) = read_icc_profile(foto)

(* A result has the photo's first Exif, comment, IPTC and XMP section, once*)
(* each, the Exif upright if the picture was turned; and besides these and *)
(* the profile only its own sections, in libjpeg's order, behind a JFIF    *)
(* head exactly if there is no Exif section.                               *)
AngabenTreu ==
  Gesichert =>
    LET von == NurExif(foto)
    IN /\ Nur(neu, Angaben) = IF exifdreh > 1 THEN Gedreht(von) ELSE von
       /\ LET r == Nur(neu, Typen \ (Angaben \cup {"ICC"}))
              kopf == IF von # <<>> /\ von[1].typ = "EXIF" THEN <<>> ELSE <<"JFIF">>
          IN /\ [k \in DOMAIN r |-> r[k].typ] = kopf \o <<"DQT", "SOF", "DHT", "SOS", "REST">>
             /\ \A k \in DOMAIN r : r[k].typ # "JFIF" => r[k].was = <<geladen, gesichert - 1>>
       /\ neu[1].typ \in {"EXIF", "JFIF"}

(* The array of sections always has room for the one that is stored, though*)
(* it only grows by half when it is full.                                  *)
PlatzReicht == ~daneben /\ Len(Sections) <= SectionsAllocated
=============================================================================
