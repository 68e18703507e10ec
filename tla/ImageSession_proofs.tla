------------------------- MODULE ImageSession_proofs -------------------------
(***************************************************************************)
(* The session, for every number of images, batch files and resolutions:   *)
(* no paint meets memory that is not there or of another image, nothing is *)
(* freed twice, and what is shown and saved is the result of the image and *)
(* the parameters there are.                                               *)
(***************************************************************************)
EXTENDS ImageSession, TLAPS

-----------------------------------------------------------------------------
(* The invariant. *)

(* What is going on, and for which command. *)
AblaufInv ==
  /\ schritt \in {"bereit", "meldung", "dialog", "fit", "anpassen"} => auftrag = "keiner"
  /\ schritt \in {"los", "go"} => auftrag \in {"keiner", "stapel"}
  /\ schritt \in {"sichern", "raeumen", "naechstes", "festlos", "gob"} => auftrag = "stapel"
  /\ schritt \in {"festlos", "gob"} => parlot
  /\ schritt \in {"los", "go"} /\ auftrag = "stapel" => ~parlot
  /\ schritt # "aus" => (batchlot <=> auftrag = "stapel" /\ parlot)

(* speicher_voll says how far the buffers of the open image are.           *)
SpeicherInv ==
  /\ schritt \in Formate \cup {"lesen", "naechstes"} => speicher_voll = 0
  /\ schritt \in {"alloc", "fuellen"} => speicher_voll = 1
  /\ schritt \in {"los", "festlos", "go", "gob", "fit", "dialog", "anpassen"} =>
       speicher_voll # 0
  /\ schritt \in Formate \cup {"lesen"} => nr # 0
  /\ schritt \in Formate \/ speicher_voll # 0 => nr # 0 /\ mbild = nr
  /\ schritt = "fuellen" => arbeit.st = "da" /\ arbeit.mass = Mass /\ l_schicht = "rein"
  /\ speicher_voll = 0 =>
       x_global = KeinMass /\ ergebnis_vorhanden = 0 /\ meta["tiff16"] = 0
  /\ speicher_voll = 2 => Belegt /\ x_global[1] = nr
  /\ l_schicht = "fremd" => x_global = KeinMass \/ schritt = "alloc"

(* Unless something has gone wrong, an image that is open has all of them  *)
(* whenever a command may use or free them.                                *)
HeilInv ==
  ~gestoert =>
    /\ ~schlecht
    /\ speicher_voll = 1 => schritt \in {"alloc", "fuellen"}
    /\ ergebnis_vorhanden = 1 => speicher_voll = 2

(* Everything that is kept belongs to the image that is open.              *)
BildInv ==
  /\ speicher_voll # 0 \/ schritt \in Formate => \A a \in Arten : meta[a] \in {0, nr}
  /\ struktur \in {0, nr}
  /\ struktur # 0 => ergebnis_vorhanden = 1
  /\ ergebnis_vorhanden = 1 => ebild = nr /\ stimmt
  /\ ergebnis_vorhanden = 1 /\ ~(auftrag = "stapel" /\ parlot) => korrektur = nr
  /\ auftrag = "stapel" /\ parlot => korrektur = fest

(* What is shown is there; outside of a few commands also the converse.    *)
AnzeigeInv ==
  /\ ergvo = 1 => ergebnis_vorhanden = 1
  /\ struvo = 1 => struktur # 0
  /\ schritt \notin {"fit", "dialog", "meldung"} =>
       ergvo = ergebnis_vorhanden /\ (struktur # 0 => struvo = 1)
  /\ schritt \in {"go", "gob", "anpassen"} => ergvo = 0

IInv == TypeOK /\ AblaufInv /\ SpeicherInv /\ HeilInv /\ BildInv /\ AnzeigeInv

-----------------------------------------------------------------------------
(* The steps. *)

(* Nothing loaded is a number, too. *)
LEMMA NullIn == 0 \in Nummern
  BY BilderAssumption DEF Nummern

(* Closing the image, from wherever a command does it. *)
LEMMA RaeumeLemma ==
  ASSUME IInv, Raeume, schritt \in {"bereit", "naechstes", "raeumen"}
  PROVE  /\ speicher_voll' = 0 /\ x_global' = KeinMass /\ mbild' \in Nummern
         /\ arbeit' \in [st : {"nie", "da", "frei", "teil"}, mass : Masse]
         /\ meta' \in [Arten -> Nummern] /\ meta'["tiff16"] = 0
         /\ ergebnis_vorhanden' = 0 /\ ergvo' = 0 /\ struktur' = 0 /\ struvo' = 0
         /\ UNCHANGED <<l_schicht, ebild, stimmt>>
         /\ schlecht' \in BOOLEAN /\ (schlecht' => gestoert)
<1> USE DEF IInv
<1>1. CASE speicher_voll = 0
  <2>1. UNCHANGED <<speicher_voll, puffer, lauf, schlecht>>
    BY <1>1 DEF Raeume
  <2>2. /\ x_global = KeinMass /\ ergebnis_vorhanden = 0 /\ meta["tiff16"] = 0
        /\ (schlecht => gestoert)
    BY <1>1 DEF SpeicherInv, HeilInv
  <2>3. ergvo = 0 /\ struktur = 0 /\ struvo = 0
    BY <2>2 DEF AnzeigeInv, BildInv, TypeOK
  <2> QED
    BY <1>1, <2>1, <2>2, <2>3 DEF puffer, lauf, TypeOK
<1>2. CASE speicher_voll # 0
  <2>1. ~gestoert => speicher_voll = 2 /\ Belegt /\ mbild # 0 /\ ~schlecht
    BY <1>2 DEF HeilInv, SpeicherInv, TypeOK
  <2>2. (~gestoert => Freibar /\ mbild # 0) /\ schlecht \in BOOLEAN
    BY <2>1 DEF Freibar, Belegt, TypeOK
  <2>3. /\ speicher_voll' = 0 /\ x_global' = KeinMass /\ mbild' = 0
        /\ arbeit' = [arbeit EXCEPT !.st = "frei"] /\ meta' = [a \in Arten |-> 0]
        /\ ergebnis_vorhanden' = 0 /\ ergvo' = 0 /\ struktur' = 0 /\ struvo' = 0
        /\ UNCHANGED <<l_schicht, ebild, stimmt>>
        /\ schlecht' = (schlecht \/ ~Freibar \/ mbild = 0)
    BY <1>2 DEF Raeume, Marke
  <2>4. 0 \in Nummern
    BY BilderAssumption DEF Nummern
  <2>5. arbeit' \in [st : {"nie", "da", "frei", "teil"}, mass : Masse]
    BY <2>3 DEF TypeOK
  <2>6. meta' \in [Arten -> Nummern] /\ meta'["tiff16"] = 0
    BY <2>3, <2>4 DEF Arten
  <2> QED
    BY <2>1, <2>2, <2>3, <2>4, <2>5, <2>6
<1> QED
  BY <1>1, <1>2

(* OnLoad and OnDrop. *)
LEMMA LadenSchritt ==
  ASSUME IInv, Laden
  PROVE  IInv'
<1> USE DEF IInv
<1>1. /\ speicher_voll' = 0 /\ x_global' = KeinMass /\ mbild' \in Nummern
      /\ arbeit' \in [st : {"nie", "da", "frei", "teil"}, mass : Masse]
      /\ meta' \in [Arten -> Nummern] /\ meta'["tiff16"] = 0
      /\ ergebnis_vorhanden' = 0 /\ ergvo' = 0 /\ struktur' = 0 /\ struvo' = 0
      /\ UNCHANGED <<l_schicht, ebild, stimmt>>
      /\ schlecht' \in BOOLEAN /\ (schlecht' => gestoert)
  BY RaeumeLemma DEF Laden, Oeffne
<1>2. /\ schritt = "bereit" /\ schritt' = "lesen" /\ auftrag' = "oeffnen"
      /\ nr' = nr + 1 /\ nr' \in Nummern /\ nr' # 0 /\ korrektur' \in Nummern
      /\ UNCHANGED <<rest, tuenoch, wahl, fest, gestoert>>
  BY BilderAssumption DEF Laden, Oeffne, TypeOK, Nummern
<1>3. TypeOK'
  BY <1>1, <1>2, NullIn
     DEF TypeOK, Schritte, Formate, wahl, Masse
<1>4. AblaufInv'
  BY <1>1, <1>2
     DEF AblaufInv, Formate, wahl
<1>5. SpeicherInv'
  BY <1>1, <1>2
     DEF SpeicherInv, Belegt, Mass, Formate
<1>6. HeilInv'
  BY <1>1, <1>2
     DEF HeilInv
<1>7. BildInv'
  BY <1>1, <1>2
     DEF BildInv, Formate, SpeicherInv, AblaufInv, wahl
<1>8. AnzeigeInv'
  BY <1>1, <1>2
     DEF AnzeigeInv, BildInv
<1> QED
  BY <1>3, <1>4, <1>5, <1>6, <1>7, <1>8

(* OnCtrlV. *)
LEMMA EinfuegenSchritt ==
  ASSUME IInv, Einfuegen
  PROVE  IInv'
<1> USE DEF IInv
<1>1. /\ speicher_voll' = 0 /\ x_global' = KeinMass /\ mbild' \in Nummern
      /\ arbeit' \in [st : {"nie", "da", "frei", "teil"}, mass : Masse]
      /\ meta' \in [Arten -> Nummern] /\ meta'["tiff16"] = 0
      /\ ergebnis_vorhanden' = 0 /\ ergvo' = 0 /\ struktur' = 0 /\ struvo' = 0
      /\ UNCHANGED <<l_schicht, ebild, stimmt>>
      /\ schlecht' \in BOOLEAN /\ (schlecht' => gestoert)
  BY RaeumeLemma DEF Einfuegen, Oeffne
<1>2. /\ schritt = "bereit" /\ schritt' = "lesen" /\ auftrag' = "einfuegen"
      /\ nr' = nr + 1 /\ nr' \in Nummern /\ nr' # 0 /\ korrektur' \in Nummern
      /\ UNCHANGED <<rest, tuenoch, wahl, fest, gestoert>>
  BY BilderAssumption DEF Einfuegen, Oeffne, TypeOK, Nummern
<1>3. TypeOK'
  BY <1>1, <1>2, NullIn
     DEF TypeOK, Schritte, Formate, wahl, Masse
<1>4. AblaufInv'
  BY <1>1, <1>2
     DEF AblaufInv, Formate, wahl
<1>5. SpeicherInv'
  BY <1>1, <1>2
     DEF SpeicherInv, Belegt, Mass, Formate
<1>6. HeilInv'
  BY <1>1, <1>2
     DEF HeilInv
<1>7. BildInv'
  BY <1>1, <1>2
     DEF BildInv, Formate, SpeicherInv, AblaufInv, wahl
<1>8. AnzeigeInv'
  BY <1>1, <1>2
     DEF AnzeigeInv, BildInv
<1> QED
  BY <1>3, <1>4, <1>5, <1>6, <1>7, <1>8

(* OnCreate. *)
LEMMA StartSchritt ==
  ASSUME IInv, Start
  PROVE  IInv'
<1> USE DEF IInv
<1>1. /\ speicher_voll' = 0 /\ x_global' = KeinMass /\ mbild' \in Nummern
      /\ arbeit' \in [st : {"nie", "da", "frei", "teil"}, mass : Masse]
      /\ meta' \in [Arten -> Nummern] /\ meta'["tiff16"] = 0
      /\ ergebnis_vorhanden' = 0 /\ ergvo' = 0 /\ struktur' = 0 /\ struvo' = 0
      /\ UNCHANGED <<l_schicht, ebild, stimmt>>
      /\ schlecht' \in BOOLEAN /\ (schlecht' => gestoert)
  BY RaeumeLemma DEF Start, Oeffne
<1>2. /\ schritt = "bereit" /\ schritt' = "lesen" /\ auftrag' = "start"
      /\ nr' = nr + 1 /\ nr' \in Nummern /\ nr' # 0 /\ tuenoch' \in BOOLEAN
      /\ UNCHANGED <<rest, wahl, korrektur, fest, gestoert>>
  BY BilderAssumption DEF Start, Oeffne, TypeOK, Nummern
<1>3. TypeOK'
  BY <1>1, <1>2, NullIn
     DEF TypeOK, Schritte, Formate, wahl, Masse
<1>4. AblaufInv'
  BY <1>1, <1>2
     DEF AblaufInv, Formate, wahl
<1>5. SpeicherInv'
  BY <1>1, <1>2
     DEF SpeicherInv, Belegt, Mass, Formate
<1>6. HeilInv'
  BY <1>1, <1>2
     DEF HeilInv
<1>7. BildInv'
  BY <1>1, <1>2
     DEF BildInv, Formate, SpeicherInv, AblaufInv, wahl
<1>8. AnzeigeInv'
  BY <1>1, <1>2
     DEF AnzeigeInv, BildInv
<1> QED
  BY <1>3, <1>4, <1>5, <1>6, <1>7, <1>8

(* OnBatch. *)
LEMMA StapelSchritt ==
  ASSUME IInv, Stapel
  PROVE  IInv'
<1> USE DEF IInv
<1>1. /\ speicher_voll' = 0 /\ x_global' = KeinMass /\ mbild' \in Nummern
      /\ arbeit' \in [st : {"nie", "da", "frei", "teil"}, mass : Masse]
      /\ meta' \in [Arten -> Nummern] /\ meta'["tiff16"] = 0
      /\ ergebnis_vorhanden' = 0 /\ ergvo' = 0 /\ struktur' = 0 /\ struvo' = 0
      /\ UNCHANGED <<l_schicht, ebild, stimmt>>
      /\ schlecht' \in BOOLEAN /\ (schlecht' => gestoert)
  BY RaeumeLemma DEF Stapel
<1>2. /\ schritt = "bereit" /\ schritt' = "naechstes" /\ auftrag' = "stapel"
      /\ rest' \in 0 .. MaxStapel /\ batchlot' = parlot
      /\ korrektur' \in Nummern /\ fest' = korrektur'
      /\ UNCHANGED <<nr, tuenoch, respara, parlot, gestoert>>
  BY BilderAssumption DEF Stapel, TypeOK, Nummern
<1>3. TypeOK'
  BY <1>1, <1>2, NullIn
     DEF TypeOK, Schritte, Formate, wahl, Masse
<1>4. AblaufInv'
  BY <1>1, <1>2
     DEF AblaufInv, Formate, wahl
<1>5. SpeicherInv'
  BY <1>1, <1>2
     DEF SpeicherInv, Belegt, Mass, Formate
<1>6. HeilInv'
  BY <1>1, <1>2
     DEF HeilInv
<1>7. BildInv'
  BY <1>1, <1>2
     DEF BildInv, Formate, SpeicherInv, AblaufInv, wahl
<1>8. AnzeigeInv'
  BY <1>1, <1>2
     DEF AnzeigeInv, BildInv
<1> QED
  BY <1>3, <1>4, <1>5, <1>6, <1>7, <1>8

(* The next file of a batch. *)
LEMMA NaechstesSchritt ==
  ASSUME IInv, Naechstes
  PROVE  IInv'
<1> USE DEF IInv
<1>1. /\ speicher_voll' = 0 /\ x_global' = KeinMass /\ mbild' \in Nummern
      /\ arbeit' \in [st : {"nie", "da", "frei", "teil"}, mass : Masse]
      /\ meta' \in [Arten -> Nummern] /\ meta'["tiff16"] = 0
      /\ ergebnis_vorhanden' = 0 /\ ergvo' = 0 /\ struktur' = 0 /\ struvo' = 0
      /\ UNCHANGED <<l_schicht, ebild, stimmt>>
      /\ schlecht' \in BOOLEAN /\ (schlecht' => gestoert)
  BY RaeumeLemma DEF Naechstes, Oeffne
<1>2. /\ schritt = "naechstes" /\ schritt' = "lesen" /\ auftrag' = "stapel"
      /\ nr' = nr + 1 /\ nr' \in Nummern /\ nr' # 0 /\ rest' \in 0 .. MaxStapel
      /\ UNCHANGED <<tuenoch, wahl, korrektur, fest, gestoert>>
  BY BilderAssumption, StapelAssumption DEF Naechstes, Oeffne, TypeOK, Nummern
<1>3. TypeOK'
  BY <1>1, <1>2, NullIn
     DEF TypeOK, Schritte, Formate, wahl, Masse
<1>4. AblaufInv'
  BY <1>1, <1>2
     DEF AblaufInv, Formate, wahl
<1>5. SpeicherInv'
  BY <1>1, <1>2
     DEF SpeicherInv, Belegt, Mass, Formate
<1>6. HeilInv'
  BY <1>1, <1>2
     DEF HeilInv
<1>7. BildInv'
  BY <1>1, <1>2
     DEF BildInv, Formate, SpeicherInv, AblaufInv, wahl
<1>8. AnzeigeInv'
  BY <1>1, <1>2
     DEF AnzeigeInv, BildInv
<1> QED
  BY <1>3, <1>4, <1>5, <1>6, <1>7, <1>8

(* A batch closes its image. *)
LEMMA StapelRaeumenSchritt ==
  ASSUME IInv, StapelRaeumen
  PROVE  IInv'
<1> USE DEF IInv
<1>1. /\ speicher_voll' = 0 /\ x_global' = KeinMass /\ mbild' \in Nummern
      /\ arbeit' \in [st : {"nie", "da", "frei", "teil"}, mass : Masse]
      /\ meta' \in [Arten -> Nummern] /\ meta'["tiff16"] = 0
      /\ ergebnis_vorhanden' = 0 /\ ergvo' = 0 /\ struktur' = 0 /\ struvo' = 0
      /\ UNCHANGED <<l_schicht, ebild, stimmt>>
      /\ schlecht' \in BOOLEAN /\ (schlecht' => gestoert)
  BY RaeumeLemma DEF StapelRaeumen
<1>2. /\ schritt = "raeumen" /\ schritt' = "naechstes"
      /\ korrektur' \in Nummern /\ (batchlot => korrektur' = korrektur)
      /\ UNCHANGED <<auftrag, nr, rest, tuenoch, wahl, fest, gestoert>>
  BY BilderAssumption DEF StapelRaeumen, TypeOK, Nummern
<1>3. TypeOK'
  BY <1>1, <1>2, NullIn
     DEF TypeOK, Schritte, Formate, wahl, Masse
<1>4. AblaufInv'
  BY <1>1, <1>2
     DEF AblaufInv, Formate, wahl
<1>5. SpeicherInv'
  BY <1>1, <1>2
     DEF SpeicherInv, Belegt, Mass, Formate
<1>6. HeilInv'
  BY <1>1, <1>2
     DEF HeilInv
<1>7. BildInv'
  BY <1>1, <1>2
     DEF BildInv, Formate, SpeicherInv, AblaufInv, wahl
<1>8. AnzeigeInv'
  BY <1>1, <1>2
     DEF AnzeigeInv, BildInv
<1> QED
  BY <1>3, <1>4, <1>5, <1>6, <1>7, <1>8

(* The session ends. *)
LEMMA EndeSchritt ==
  ASSUME IInv, Ende
  PROVE  IInv'
<1> USE DEF IInv
<1>1. /\ speicher_voll' = 0 /\ x_global' = KeinMass /\ mbild' \in Nummern
      /\ arbeit' \in [st : {"nie", "da", "frei", "teil"}, mass : Masse]
      /\ meta' \in [Arten -> Nummern] /\ meta'["tiff16"] = 0
      /\ ergebnis_vorhanden' = 0 /\ ergvo' = 0 /\ struktur' = 0 /\ struvo' = 0
      /\ UNCHANGED <<l_schicht, ebild, stimmt>>
      /\ schlecht' \in BOOLEAN /\ (schlecht' => gestoert)
  BY RaeumeLemma DEF Ende
<1>2. /\ schritt = "bereit" /\ schritt' = "aus"
      /\ korrektur' \in Nummern
      /\ UNCHANGED <<auftrag, nr, rest, tuenoch, wahl, fest, gestoert>>
  BY BilderAssumption DEF Ende, TypeOK, Nummern
<1>3. TypeOK'
  BY <1>1, <1>2, NullIn
     DEF TypeOK, Schritte, Formate, wahl, Masse
<1>4. AblaufInv'
  BY <1>1, <1>2
     DEF AblaufInv, Formate, wahl
<1>5. SpeicherInv'
  BY <1>1, <1>2
     DEF SpeicherInv, Belegt, Mass, Formate
<1>6. HeilInv'
  BY <1>1, <1>2
     DEF HeilInv
<1>7. BildInv'
  BY <1>1, <1>2
     DEF BildInv, Formate, SpeicherInv, AblaufInv, wahl
<1>8. AnzeigeInv'
  BY <1>1, <1>2
     DEF AnzeigeInv, BildInv
<1> QED
  BY <1>3, <1>4, <1>5, <1>6, <1>7, <1>8

(* A batch is over. *)
LEMMA StapelEndeSchritt ==
  ASSUME IInv, StapelEnde
  PROVE  IInv'
<1> USE DEF IInv
<1>1. TypeOK'
  <2>1. korrektur' \in Nummern
    BY NullIn DEF StapelEnde, TypeOK
  <2>2. schritt' = "bereit" /\ auftrag' = "keiner" /\ batchlot' \in BOOLEAN
    BY DEF StapelEnde
  <2>3. UNCHANGED <<nr, rest, tuenoch, respara, parlot, speicher_voll, puffer,
                    lauf, fest, schlecht, gestoert>>
    BY DEF StapelEnde
  <2> QED
    BY <2>1, <2>2, <2>3
       DEF TypeOK, puffer, lauf, Schritte
<1>2. AblaufInv'
  BY DEF StapelEnde, puffer, lauf, chronik, wahl, AblaufInv, Formate,
     SpeicherInv
<1>3. SpeicherInv'
  BY DEF StapelEnde, puffer, lauf, chronik, wahl, SpeicherInv, Belegt, Mass,
     Formate
<1>4. HeilInv'
  BY DEF StapelEnde, puffer, lauf, chronik, wahl, HeilInv
<1>5. BildInv'
  BY DEF StapelEnde, puffer, lauf, chronik, wahl, BildInv, Formate,
     SpeicherInv, AblaufInv
<1>6. AnzeigeInv'
  BY DEF StapelEnde, puffer, lauf, chronik, wahl, AnzeigeInv, BildInv
<1> QED
  BY <1>1, <1>2, <1>3, <1>4, <1>5, <1>6

(* A file is no image. *)
LEMMA UnlesbarSchritt ==
  ASSUME IInv, Unlesbar
  PROVE  IInv'
<1> USE DEF IInv
<1>1. TypeOK'
  <2>1. meta' \in [Arten -> Nummern]
    BY BilderAssumption DEF Unlesbar, Vorab, TypeOK, Nummern, Arten
  <2> QED
    BY <2>1, NullIn
       DEF Unlesbar, puffer, lauf, chronik, wahl, TypeOK, Schritte, Formate
<1>2. AblaufInv'
  BY DEF Unlesbar, puffer, lauf, chronik, wahl, Vorab, AblaufInv, Formate
<1>3. SpeicherInv'
  BY DEF Unlesbar, puffer, lauf, chronik, wahl, Vorab, SpeicherInv, Belegt,
     Mass, Formate, TypeOK, Arten
<1>4. HeilInv'
  BY DEF Unlesbar, puffer, lauf, chronik, wahl, Vorab, HeilInv
<1>5. BildInv'
  BY DEF Unlesbar, puffer, lauf, chronik, wahl, Vorab, BildInv, Formate,
     SpeicherInv
<1>6. AnzeigeInv'
  BY DEF Unlesbar, puffer, lauf, chronik, wahl, Vorab, AnzeigeInv, BildInv
<1> QED
  BY <1>1, <1>2, <1>3, <1>4, <1>5, <1>6

(* A JPEG breaks off. *)
LEMMA JpegFehlerSchritt ==
  ASSUME IInv, JpegFehler
  PROVE  IInv'
<1> USE DEF IInv
<1>1. TypeOK'
  BY NullIn
     DEF JpegFehler, puffer, lauf, chronik, wahl, TypeOK, Schritte, Formate
<1>2. AblaufInv'
  BY DEF JpegFehler, puffer, lauf, chronik, wahl, AblaufInv, Formate
<1>3. SpeicherInv'
  BY DEF JpegFehler, puffer, lauf, chronik, wahl, SpeicherInv, Belegt, Mass,
     Formate
<1>4. HeilInv'
  BY DEF JpegFehler, puffer, lauf, chronik, wahl, HeilInv
<1>5. BildInv'
  BY DEF JpegFehler, puffer, lauf, chronik, wahl, BildInv, Formate, SpeicherInv
<1>6. AnzeigeInv'
  BY DEF JpegFehler, puffer, lauf, chronik, wahl, AnzeigeInv, BildInv
<1> QED
  BY <1>1, <1>2, <1>3, <1>4, <1>5, <1>6

(* It breaks off after its last row. *)
LEMMA JpegSpaetSchritt ==
  ASSUME IInv, JpegSpaet
  PROVE  IInv'
<1> USE DEF IInv
<1>1. TypeOK'
  BY NullIn
     DEF JpegSpaet, puffer, lauf, chronik, wahl, TypeOK, Schritte, Formate
<1>2. AblaufInv'
  BY DEF JpegSpaet, puffer, lauf, chronik, wahl, AblaufInv, Formate
<1>3. SpeicherInv'
  BY DEF JpegSpaet, puffer, lauf, chronik, wahl, SpeicherInv, Belegt, Mass,
     Formate
<1>4. HeilInv'
  BY DEF JpegSpaet, puffer, lauf, chronik, wahl, HeilInv
<1>5. BildInv'
  BY DEF JpegSpaet, puffer, lauf, chronik, wahl, BildInv, Formate, SpeicherInv
<1>6. AnzeigeInv'
  BY DEF JpegSpaet, puffer, lauf, chronik, wahl, AnzeigeInv, BildInv
<1> QED
  BY <1>1, <1>2, <1>3, <1>4, <1>5, <1>6

(* The last row. *)
LEMMA GelesenSchritt ==
  ASSUME IInv, Gelesen
  PROVE  IInv'
<1> USE DEF IInv
<1>1. TypeOK'
  <2>1. meta' \in [Arten -> Nummern]
    BY BilderAssumption DEF Gelesen, Vorab, TypeOK, Nummern, Arten
  <2> QED
    BY <2>1, NullIn
       DEF Gelesen, puffer, lauf, chronik, wahl, TypeOK, Schritte, Formate
<1>2. AblaufInv'
  BY DEF Gelesen, puffer, lauf, chronik, wahl, AblaufInv, Formate
<1>3. SpeicherInv'
  BY DEF Gelesen, puffer, lauf, chronik, wahl, SpeicherInv, Belegt, Mass,
     Formate
<1>4. HeilInv'
  BY DEF Gelesen, puffer, lauf, chronik, wahl, HeilInv, SpeicherInv, TypeOK,
     Belegt
<1>5. BildInv'
  BY DEF Gelesen, puffer, lauf, chronik, wahl, BildInv, Formate, SpeicherInv
<1>6. AnzeigeInv'
  BY DEF Gelesen, puffer, lauf, chronik, wahl, AnzeigeInv, BildInv,
     SpeicherInv, Formate
<1> QED
  BY <1>1, <1>2, <1>3, <1>4, <1>5, <1>6

(* The buffers are allocated. *)
LEMMA BelegeSchritt ==
  ASSUME IInv, Belege
  PROVE  IInv'
<1> USE DEF IInv
<1>1. TypeOK'
  <2>1. Mass \in Masse
    BY DEF TypeOK, Mass, Masse
  <2>2. arbeit' \in [st : {"nie", "da", "frei", "teil"}, mass : Masse]
    BY <2>1 DEF Belege
  <2> QED
    BY <2>2, NullIn
       DEF Belege, Frisch, puffer, lauf, chronik, wahl, TypeOK, Schritte,
           Formate
<1>2. AblaufInv'
  BY DEF Belege, puffer, lauf, chronik, wahl, Frisch, AblaufInv, Formate
<1>3. SpeicherInv'
  BY DEF Belege, puffer, lauf, chronik, wahl, Frisch, SpeicherInv, Belegt,
     Mass, Formate
<1>4. HeilInv'
  BY DEF Belege, puffer, lauf, chronik, wahl, Frisch, HeilInv
<1>5. BildInv'
  BY DEF Belege, puffer, lauf, chronik, wahl, Frisch, BildInv, Formate,
     SpeicherInv
<1>6. AnzeigeInv'
  BY DEF Belege, puffer, lauf, chronik, wahl, Frisch, AnzeigeInv, BildInv
<1> QED
  BY <1>1, <1>2, <1>3, <1>4, <1>5, <1>6

(* Some of them are not. *)
LEMMA BelegeFehltSchritt ==
  ASSUME IInv, BelegeFehlt
  PROVE  IInv'
<1> USE DEF IInv
<1>1. TypeOK'
  <2>1. Mass \in Masse
    BY DEF TypeOK, Mass, Masse
  <2>2. arbeit' \in [st : {"nie", "da", "frei", "teil"}, mass : Masse]
    BY <2>1 DEF BelegeFehlt
  <2> QED
    BY <2>2, NullIn
       DEF BelegeFehlt, Frisch, puffer, lauf, chronik, wahl, TypeOK, Schritte,
           Formate
<1>2. AblaufInv'
  BY DEF BelegeFehlt, puffer, lauf, chronik, wahl, AblaufInv, Formate
<1>3. SpeicherInv'
  BY DEF BelegeFehlt, puffer, lauf, chronik, wahl, SpeicherInv, Belegt, Mass,
     Formate
<1>4. HeilInv'
  BY DEF BelegeFehlt, puffer, lauf, chronik, wahl, HeilInv
<1>5. BildInv'
  BY DEF BelegeFehlt, puffer, lauf, chronik, wahl, BildInv, Formate, SpeicherInv
<1>6. AnzeigeInv'
  BY DEF BelegeFehlt, puffer, lauf, chronik, wahl, AnzeigeInv, BildInv
<1> QED
  BY <1>1, <1>2, <1>3, <1>4, <1>5, <1>6

(* The image is there. *)
LEMMA GefuelltSchritt ==
  ASSUME IInv, Gefuellt
  PROVE  IInv'
<1> USE DEF IInv
<1>1. TypeOK'
  BY NullIn
     DEF Gefuellt, puffer, lauf, chronik, wahl, TypeOK, Schritte, Formate
<1>2. AblaufInv'
  BY DEF Gefuellt, puffer, lauf, chronik, wahl, AblaufInv, Formate
<1>3. SpeicherInv'
  BY DEF Gefuellt, puffer, lauf, chronik, wahl, SpeicherInv, Belegt, Mass,
     Formate
<1>4. HeilInv'
  BY DEF Gefuellt, puffer, lauf, chronik, wahl, HeilInv
<1>5. BildInv'
  BY DEF Gefuellt, puffer, lauf, chronik, wahl, BildInv, Formate, SpeicherInv
<1>6. AnzeigeInv'
  BY DEF Gefuellt, puffer, lauf, chronik, wahl, AnzeigeInv, BildInv
<1> QED
  BY <1>1, <1>2, <1>3, <1>4, <1>5, <1>6

(* A load has failed. *)
LEMMA FehlschlagSchritt ==
  ASSUME IInv, Fehlschlag
  PROVE  IInv'
<1> USE DEF IInv
<1>1. TypeOK'
  BY NullIn
     DEF Fehlschlag, puffer, lauf, chronik, wahl, TypeOK, Schritte, Formate
<1>2. AblaufInv'
  BY DEF Fehlschlag, puffer, lauf, chronik, wahl, AblaufInv, Formate
<1>3. SpeicherInv'
  BY DEF Fehlschlag, puffer, lauf, chronik, wahl, SpeicherInv, Belegt, Mass,
     Formate
<1>4. HeilInv'
  BY DEF Fehlschlag, puffer, lauf, chronik, wahl, HeilInv
<1>5. BildInv'
  BY DEF Fehlschlag, puffer, lauf, chronik, wahl, BildInv, Formate, SpeicherInv
<1>6. AnzeigeInv'
  BY DEF Fehlschlag, puffer, lauf, chronik, wahl, AnzeigeInv, BildInv
<1> QED
  BY <1>1, <1>2, <1>3, <1>4, <1>5, <1>6

(* The line detection begins. *)
LEMMA GoSchritt ==
  ASSUME IInv, Go
  PROVE  IInv'
<1> USE DEF IInv
<1>1. TypeOK'
  <2>1. struktur' \in Nummern /\ l_schicht' \in {"rein", "benutzt", "fremd"}
    BY NullIn DEF Go, Verwerfen, TypeOK
  <2>2. schlecht' \in BOOLEAN
    BY DEF Go, Verwerfen, Lesbar, Belegt, TypeOK
  <2>3. /\ ergebnis_vorhanden' \in {0, 1} /\ ergvo' \in {0, 1} /\ struvo' \in {0, 1}
        /\ schritt' \in Schritte
    BY DEF Go, Verwerfen, TypeOK, Schritte
  <2>4. UNCHANGED <<auftrag, nr, rest, tuenoch, wahl, speicher_voll, x_global, mbild,
                    arbeit, meta, ebild, stimmt, korrektur, fest, gestoert>>
    BY DEF Go
  <2> QED
    BY <2>1, <2>2, <2>3, <2>4
       DEF TypeOK, puffer, wahl, Schritte
<1>2. AblaufInv'
  BY DEF Go, puffer, lauf, chronik, wahl, Verwerfen, Lesbar, AblaufInv,
     Formate, SpeicherInv
<1>3. SpeicherInv'
  BY DEF Go, puffer, lauf, chronik, wahl, Verwerfen, Lesbar, SpeicherInv,
     Belegt, Mass, Formate
<1>4. HeilInv'
  BY DEF Go, puffer, lauf, chronik, wahl, Verwerfen, Lesbar, HeilInv,
     SpeicherInv, TypeOK, Belegt
<1>5. BildInv'
  BY DEF Go, puffer, lauf, chronik, wahl, Verwerfen, Lesbar, BildInv, Formate,
     SpeicherInv
<1>6. AnzeigeInv'
  BY DEF Go, puffer, lauf, chronik, wahl, Verwerfen, Lesbar, AnzeigeInv, BildInv
<1> QED
  BY <1>1, <1>2, <1>3, <1>4, <1>5, <1>6

(* It ends. *)
LEMMA GoEndeSchritt ==
  ASSUME IInv, GoEnde
  PROVE  IInv'
<1> USE DEF IInv
<1>1. TypeOK'
  <2>1. TypeOK
    OBVIOUS
  <2>2. /\ schlecht' \in BOOLEAN /\ tuenoch' \in BOOLEAN /\ stimmt' \in BOOLEAN
        /\ parlot' \in BOOLEAN /\ batchlot' \in BOOLEAN /\ gestoert' \in BOOLEAN
    BY <2>1 DEF GoEnde, wahl, TypeOK
  <2>3. /\ schritt' \in Schritte /\ l_schicht' \in {"rein", "benutzt", "fremd"}
        /\ ergebnis_vorhanden' \in {0, 1}
    BY <2>1 DEF GoEnde, Danach, Schritte, TypeOK
  <2>4. struktur' \in Nummern /\ korrektur' \in Nummern /\ ebild' \in Nummern
    BY <2>1, NullIn DEF GoEnde, TypeOK
  <2>5. ergvo' \in {0, 1} /\ struvo' \in {0, 1}
    BY <2>3 DEF GoEnde, Anzeigen, Zeigbar
  <2> QED
    BY <2>1, <2>2, <2>3, <2>4, <2>5 DEF GoEnde, wahl, TypeOK
<1>2. AblaufInv'
  BY DEF GoEnde, puffer, lauf, chronik, wahl, Anzeigen, Zeigbar, Danach,
     Lesbar, AblaufInv, Formate
<1>3. SpeicherInv'
  BY DEF GoEnde, puffer, lauf, chronik, wahl, Anzeigen, Zeigbar, Danach,
     Lesbar, SpeicherInv, Belegt, Mass, Formate
<1>4. HeilInv'
  BY DEF GoEnde, puffer, lauf, chronik, wahl, Anzeigen, Zeigbar, Danach,
     Lesbar, HeilInv, SpeicherInv, TypeOK, Belegt
<1>5. BildInv'
  BY DEF GoEnde, puffer, lauf, chronik, wahl, Anzeigen, Zeigbar, Danach,
     Lesbar, BildInv, Formate, SpeicherInv, AblaufInv, AnzeigeInv, TypeOK
<1>6. AnzeigeInv'
  BY DEF GoEnde, puffer, lauf, chronik, wahl, Anzeigen, Zeigbar, Danach,
     Lesbar, AnzeigeInv, BildInv
<1> QED
  BY <1>1, <1>2, <1>3, <1>4, <1>5, <1>6

(* A new fit. *)
LEMMA ReoptimizeSchritt ==
  ASSUME IInv, Reoptimize
  PROVE  IInv'
<1> USE DEF IInv
<1>1. TypeOK'
  BY NullIn
     DEF Reoptimize, puffer, lauf, chronik, wahl, TypeOK, Schritte, Formate
<1>2. AblaufInv'
  BY DEF Reoptimize, puffer, lauf, chronik, wahl, AblaufInv, Formate
<1>3. SpeicherInv'
  BY DEF Reoptimize, puffer, lauf, chronik, wahl, SpeicherInv, Belegt, Mass,
     Formate, BildInv, TypeOK
<1>4. HeilInv'
  BY DEF Reoptimize, puffer, lauf, chronik, wahl, HeilInv
<1>5. BildInv'
  BY DEF Reoptimize, puffer, lauf, chronik, wahl, BildInv, Formate, SpeicherInv
<1>6. AnzeigeInv'
  BY DEF Reoptimize, puffer, lauf, chronik, wahl, AnzeigeInv, BildInv
<1> QED
  BY <1>1, <1>2, <1>3, <1>4, <1>5, <1>6

LEMMA ReoptimizeEndeSchritt ==
  ASSUME IInv, ReoptimizeEnde
  PROVE  IInv'
<1> USE DEF IInv
<1>1. TypeOK'
  BY NullIn
     DEF ReoptimizeEnde, puffer, lauf, chronik, wahl, Anzeigen, Zeigbar,
         NeuesBild, TypeOK, Schritte, Formate
<1>2. AblaufInv'
  BY DEF ReoptimizeEnde, puffer, lauf, chronik, wahl, Anzeigen, Zeigbar,
     NeuesBild, AblaufInv, Formate
<1>3. SpeicherInv'
  BY DEF ReoptimizeEnde, puffer, lauf, chronik, wahl, Anzeigen, Zeigbar,
     NeuesBild, SpeicherInv, Belegt, Mass, Formate
<1>4. HeilInv'
  BY DEF ReoptimizeEnde, puffer, lauf, chronik, wahl, Anzeigen, Zeigbar,
     NeuesBild, HeilInv
<1>5. BildInv'
  BY DEF ReoptimizeEnde, puffer, lauf, chronik, wahl, Anzeigen, Zeigbar,
     NeuesBild, BildInv, Formate, SpeicherInv, AblaufInv, AnzeigeInv, TypeOK
<1>6. AnzeigeInv'
  BY DEF ReoptimizeEnde, puffer, lauf, chronik, wahl, Anzeigen, Zeigbar,
     NeuesBild, AnzeigeInv, BildInv
<1> QED
  BY <1>1, <1>2, <1>3, <1>4, <1>5, <1>6

(* The adjust dialog. *)
LEMMA AnpassenSchritt ==
  ASSUME IInv, Anpassen
  PROVE  IInv'
<1> USE DEF IInv
<1>1. TypeOK'
  BY NullIn
     DEF Anpassen, puffer, lauf, chronik, wahl, TypeOK, Schritte, Formate
<1>2. AblaufInv'
  BY DEF Anpassen, puffer, lauf, chronik, wahl, AblaufInv, Formate
<1>3. SpeicherInv'
  BY DEF Anpassen, puffer, lauf, chronik, wahl, SpeicherInv, Belegt, Mass,
     Formate
<1>4. HeilInv'
  BY DEF Anpassen, puffer, lauf, chronik, wahl, HeilInv
<1>5. BildInv'
  BY DEF Anpassen, puffer, lauf, chronik, wahl, BildInv, Formate, SpeicherInv
<1>6. AnzeigeInv'
  BY DEF Anpassen, puffer, lauf, chronik, wahl, AnzeigeInv, BildInv
<1> QED
  BY <1>1, <1>2, <1>3, <1>4, <1>5, <1>6

LEMMA AnpassenOkSchritt ==
  ASSUME IInv, AnpassenOk
  PROVE  IInv'
<1> USE DEF IInv
<1>1. TypeOK'
  <2>1. struktur' \in Nummern /\ l_schicht' \in {"rein", "benutzt", "fremd"}
    BY NullIn DEF AnpassenOk, Verwerfen, TypeOK
  <2>2. schlecht' \in BOOLEAN
    BY DEF AnpassenOk, Verwerfen, Lesbar, Belegt, TypeOK
  <2>3. /\ ergebnis_vorhanden' \in {0, 1} /\ ergvo' \in {0, 1} /\ struvo' \in {0, 1}
        /\ schritt' \in Schritte
    BY DEF AnpassenOk, Verwerfen, TypeOK, Schritte
  <2>4. UNCHANGED <<auftrag, nr, rest, tuenoch, wahl, speicher_voll, x_global, mbild,
                    arbeit, meta, ebild, korrektur, fest, gestoert>>
    BY DEF AnpassenOk
  <2>5. stimmt' \in BOOLEAN
    BY DEF AnpassenOk
  <2> QED
    BY <2>1, <2>2, <2>3, <2>4, <2>5
       DEF TypeOK, puffer, wahl, Schritte
<1>2. AblaufInv'
  BY DEF AnpassenOk, puffer, lauf, chronik, wahl, Verwerfen, Lesbar,
     AblaufInv, Formate
<1>3. SpeicherInv'
  BY DEF AnpassenOk, puffer, lauf, chronik, wahl, Verwerfen, Lesbar,
     SpeicherInv, Belegt, Mass, Formate
<1>4. HeilInv'
  BY DEF AnpassenOk, puffer, lauf, chronik, wahl, Verwerfen, Lesbar, HeilInv,
     SpeicherInv, TypeOK, Belegt
<1>5. BildInv'
  BY DEF AnpassenOk, puffer, lauf, chronik, wahl, Verwerfen, Lesbar, BildInv,
     Formate, SpeicherInv
<1>6. AnzeigeInv'
  BY DEF AnpassenOk, puffer, lauf, chronik, wahl, Verwerfen, Lesbar,
     AnzeigeInv, BildInv
<1> QED
  BY <1>1, <1>2, <1>3, <1>4, <1>5, <1>6

LEMMA AnpassenEndeSchritt ==
  ASSUME IInv, AnpassenEnde
  PROVE  IInv'
<1> USE DEF IInv
<1>1. TypeOK'
  BY NullIn
     DEF AnpassenEnde, puffer, lauf, chronik, wahl, Anzeigen, Zeigbar, Lesbar,
         TypeOK, Schritte, Formate
<1>2. AblaufInv'
  BY DEF AnpassenEnde, puffer, lauf, chronik, wahl, Anzeigen, Zeigbar, Lesbar,
     AblaufInv, Formate
<1>3. SpeicherInv'
  BY DEF AnpassenEnde, puffer, lauf, chronik, wahl, Anzeigen, Zeigbar, Lesbar,
     SpeicherInv, Belegt, Mass, Formate
<1>4. HeilInv'
  BY DEF AnpassenEnde, puffer, lauf, chronik, wahl, Anzeigen, Zeigbar, Lesbar,
     HeilInv, SpeicherInv, TypeOK, Belegt
<1>5. BildInv'
  BY DEF AnpassenEnde, puffer, lauf, chronik, wahl, Anzeigen, Zeigbar, Lesbar,
     BildInv, Formate, SpeicherInv, AblaufInv, AnzeigeInv, TypeOK
<1>6. AnzeigeInv'
  BY DEF AnpassenEnde, puffer, lauf, chronik, wahl, Anzeigen, Zeigbar, Lesbar,
     AnzeigeInv, BildInv
<1> QED
  BY <1>1, <1>2, <1>3, <1>4, <1>5, <1>6

(* A dialog or message is closed. *)
LEMMA AbbrechenSchritt ==
  ASSUME IInv, Abbrechen
  PROVE  IInv'
<1> USE DEF IInv
<1>1. TypeOK'
  <2>1. /\ ergebnis_vorhanden' \in {0, 1} /\ ergvo' \in {0, 1} /\ struvo' \in {0, 1}
        /\ struktur' \in Nummern /\ schritt' \in Schritte
    BY DEF Abbrechen, Zurueck, Anzeigen, Zeigbar, TypeOK, Schritte
  <2>2. tuenoch' \in BOOLEAN
    BY DEF Abbrechen
  <2>3. UNCHANGED <<auftrag, nr, rest, wahl, speicher_voll, puffer, ebild, stimmt,
                    korrektur, chronik>>
    BY DEF Abbrechen
  <2> QED
    BY <2>1, <2>2, <2>3
       DEF TypeOK, puffer, wahl, chronik, Schritte
<1>2. AblaufInv'
  BY DEF Abbrechen, puffer, lauf, chronik, wahl, Anzeigen, Zeigbar, Zurueck,
     AblaufInv, Formate
<1>3. SpeicherInv'
  BY DEF Abbrechen, puffer, lauf, chronik, wahl, Anzeigen, Zeigbar, Zurueck,
     SpeicherInv, Belegt, Mass, Formate
<1>4. HeilInv'
  BY DEF Abbrechen, puffer, lauf, chronik, wahl, Anzeigen, Zeigbar, Zurueck,
     HeilInv
<1>5. BildInv'
  BY DEF Abbrechen, puffer, lauf, chronik, wahl, Anzeigen, Zeigbar, Zurueck,
     BildInv, Formate, SpeicherInv
<1>6. AnzeigeInv'
  BY DEF Abbrechen, puffer, lauf, chronik, wahl, Anzeigen, Zeigbar, Zurueck,
     AnzeigeInv, BildInv
<1> QED
  BY <1>1, <1>2, <1>3, <1>4, <1>5, <1>6

(* Fixed parameters. *)
LEMMA GoBSchritt ==
  ASSUME IInv, GoB
  PROVE  IInv'
<1> USE DEF IInv
<1>1. TypeOK'
  <2>1. struktur' \in Nummern /\ l_schicht' \in {"rein", "benutzt", "fremd"}
    BY NullIn DEF GoB, Verwerfen, TypeOK
  <2>2. schlecht' \in BOOLEAN
    BY DEF GoB, Verwerfen, Lesbar, Belegt, TypeOK
  <2>3. /\ ergebnis_vorhanden' \in {0, 1} /\ ergvo' \in {0, 1} /\ struvo' \in {0, 1}
        /\ schritt' \in Schritte
    BY DEF GoB, Verwerfen, TypeOK, Schritte
  <2>4. UNCHANGED <<auftrag, nr, rest, tuenoch, wahl, speicher_voll, x_global, mbild,
                    arbeit, meta, ebild, stimmt, korrektur, fest, gestoert>>
    BY DEF GoB
  <2> QED
    BY <2>1, <2>2, <2>3, <2>4
       DEF TypeOK, puffer, wahl, Schritte
<1>2. AblaufInv'
  BY DEF GoB, puffer, lauf, chronik, wahl, Verwerfen, Lesbar, AblaufInv, Formate
<1>3. SpeicherInv'
  BY DEF GoB, puffer, lauf, chronik, wahl, Verwerfen, Lesbar, SpeicherInv,
     Belegt, Mass, Formate, TypeOK
<1>4. HeilInv'
  BY DEF GoB, puffer, lauf, chronik, wahl, Verwerfen, Lesbar, HeilInv,
     SpeicherInv, TypeOK, Belegt
<1>5. BildInv'
  BY DEF GoB, puffer, lauf, chronik, wahl, Verwerfen, Lesbar, BildInv,
     Formate, SpeicherInv
<1>6. AnzeigeInv'
  BY DEF GoB, puffer, lauf, chronik, wahl, Verwerfen, Lesbar, AnzeigeInv,
     BildInv
<1> QED
  BY <1>1, <1>2, <1>3, <1>4, <1>5, <1>6

LEMMA GoBEndeSchritt ==
  ASSUME IInv, GoBEnde
  PROVE  IInv'
<1> USE DEF IInv
<1>1. TypeOK'
  BY NullIn
     DEF GoBEnde, puffer, lauf, chronik, wahl, Anzeigen, Zeigbar, Danach,
         Lesbar, TypeOK, Schritte, Formate
<1>2. AblaufInv'
  BY DEF GoBEnde, puffer, lauf, chronik, wahl, Anzeigen, Zeigbar, Danach,
     Lesbar, AblaufInv, Formate
<1>3. SpeicherInv'
  BY DEF GoBEnde, puffer, lauf, chronik, wahl, Anzeigen, Zeigbar, Danach,
     Lesbar, SpeicherInv, Belegt, Mass, Formate
<1>4. HeilInv'
  BY DEF GoBEnde, puffer, lauf, chronik, wahl, Anzeigen, Zeigbar, Danach,
     Lesbar, HeilInv, SpeicherInv, TypeOK, Belegt
<1>5. BildInv'
  BY DEF GoBEnde, puffer, lauf, chronik, wahl, Anzeigen, Zeigbar, Danach,
     Lesbar, BildInv, Formate, SpeicherInv, AblaufInv, AnzeigeInv, TypeOK
<1>6. AnzeigeInv'
  BY DEF GoBEnde, puffer, lauf, chronik, wahl, Anzeigen, Zeigbar, Danach,
     Lesbar, AnzeigeInv, BildInv
<1> QED
  BY <1>1, <1>2, <1>3, <1>4, <1>5, <1>6

(* A result of a batch is saved. *)
LEMMA SichernSchritt ==
  ASSUME IInv, Sichern
  PROVE  IInv'
<1> USE DEF IInv
<1>1. TypeOK'
  BY NullIn
     DEF Sichern, puffer, lauf, chronik, wahl, TypeOK, Schritte, Formate
<1>2. AblaufInv'
  BY DEF Sichern, puffer, lauf, chronik, wahl, AblaufInv, Formate
<1>3. SpeicherInv'
  BY DEF Sichern, puffer, lauf, chronik, wahl, SpeicherInv, Belegt, Mass,
     Formate
<1>4. HeilInv'
  BY DEF Sichern, puffer, lauf, chronik, wahl, HeilInv
<1>5. BildInv'
  BY DEF Sichern, puffer, lauf, chronik, wahl, BildInv, Formate, SpeicherInv
<1>6. AnzeigeInv'
  BY DEF Sichern, puffer, lauf, chronik, wahl, AnzeigeInv, BildInv
<1> QED
  BY <1>1, <1>2, <1>3, <1>4, <1>5, <1>6

(* New parameters. *)
LEMMA ParameterSchritt ==
  ASSUME IInv, Parameter
  PROVE  IInv'
<1> USE DEF IInv
<1>1. TypeOK'
  <2>1. /\ respara' \in Aufloesungen /\ l_schicht' \in {"rein", "benutzt", "fremd"}
        /\ parlot' \in BOOLEAN /\ stimmt' \in BOOLEAN
    BY DEF Parameter
  <2>2. /\ ergebnis_vorhanden' \in {0, 1} /\ ergvo' \in {0, 1} /\ struvo' \in {0, 1}
        /\ struktur' \in Nummern /\ speicher_voll' \in 0 .. 2
    BY NullIn DEF Parameter, Sperre, TypeOK
  <2>3. /\ schritt' \in Schritte
        /\ auftrag' \in {"keiner", "oeffnen", "einfuegen", "start", "stapel", "parameter"}
    BY DEF Parameter, TypeOK, Schritte
  <2>4. arbeit' \in [st : {"nie", "da", "frei", "teil"}, mass : Masse]
    BY DEF Parameter, TypeOK
  <2>5. tuenoch' \in BOOLEAN
    BY DEF Parameter, TypeOK
  <2>6. schlecht' \in BOOLEAN
    BY DEF Parameter, Freibar, Belegt, TypeOK
  <2>7. UNCHANGED <<nr, rest, batchlot, x_global, mbild, meta, ebild, korrektur,
                    fest, gestoert>>
    BY DEF Parameter
  <2> QED
    BY <2>1, <2>2, <2>3, <2>4, <2>5, <2>6, <2>7
       DEF TypeOK, Schritte
<1>2. AblaufInv'
  BY DEF Parameter, puffer, lauf, chronik, wahl, Sperre, Freibar, AblaufInv,
     Formate
<1>3. SpeicherInv'
  BY DEF Parameter, puffer, lauf, chronik, wahl, Sperre, Freibar, SpeicherInv,
     Belegt, Mass, Formate
<1>4. HeilInv'
  BY DEF Parameter, puffer, lauf, chronik, wahl, Sperre, Freibar, HeilInv,
     SpeicherInv, TypeOK, Belegt
<1>5. BildInv'
  BY DEF Parameter, puffer, lauf, chronik, wahl, Sperre, Freibar, BildInv,
     Formate, SpeicherInv, AblaufInv, AnzeigeInv, TypeOK
<1>6. AnzeigeInv'
  BY DEF Parameter, puffer, lauf, chronik, wahl, Sperre, Freibar, AnzeigeInv,
     BildInv
<1> QED
  BY <1>1, <1>2, <1>3, <1>4, <1>5, <1>6

(* Decoding begins. *)
LEMMA DekodiereSchritt ==
  ASSUME IInv, NEW f \in Formate, Dekodiere(f)
  PROVE  IInv'
<1> USE DEF IInv
<1>1. TypeOK'
  <2>1. meta' \in [Arten -> Nummern]
    BY BilderAssumption DEF Dekodiere, NeueKorrektur, Vorab, TypeOK, Nummern,
       Arten
  <2> QED
    BY <2>1, NullIn
       DEF Dekodiere, NeueKorrektur, puffer, lauf, chronik, wahl, TypeOK,
           Schritte, Formate
<1>2. AblaufInv'
  BY DEF Dekodiere, puffer, lauf, chronik, wahl, Vorab, NeueKorrektur,
     AblaufInv, Formate
<1>3. SpeicherInv'
  BY DEF Dekodiere, puffer, lauf, chronik, wahl, Vorab, NeueKorrektur,
     SpeicherInv, Belegt, Mass, Formate, TypeOK, Arten
<1>4. HeilInv'
  BY DEF Dekodiere, puffer, lauf, chronik, wahl, Vorab, NeueKorrektur, HeilInv
<1>5. BildInv'
  BY DEF Dekodiere, puffer, lauf, chronik, wahl, Vorab, NeueKorrektur,
     BildInv, Formate, SpeicherInv, AblaufInv, AnzeigeInv, TypeOK, Arten
<1>6. AnzeigeInv'
  BY DEF Dekodiere, puffer, lauf, chronik, wahl, Vorab, NeueKorrektur,
     AnzeigeInv, BildInv, SpeicherInv
<1> QED
  BY <1>1, <1>2, <1>3, <1>4, <1>5, <1>6

-----------------------------------------------------------------------------
(* The invariant holds. *)

LEMMA Anfang == Init => IInv
<1> SUFFICES ASSUME Init PROVE IInv
  OBVIOUS
<1>1. TypeOK
  <2>1. /\ arbeit \in [st : {"nie", "da", "frei", "teil"}, mass : Masse]
        /\ x_global \in Masse
    BY DEF Init, Leer, Masse
  <2>2. meta \in [Arten -> Nummern]
    BY NullIn DEF Init
  <2>3. /\ tuenoch \in BOOLEAN /\ batchlot \in BOOLEAN /\ stimmt \in BOOLEAN
        /\ schlecht \in BOOLEAN /\ gestoert \in BOOLEAN
    BY DEF Init
  <2>4. rest \in 0 .. MaxStapel
    BY StapelAssumption DEF Init
  <2> QED
    BY <2>1, <2>2, <2>3, <2>4, NullIn DEF Init, TypeOK, Schritte
<1>2. AblaufInv /\ SpeicherInv
  BY DEF Init, AblaufInv, SpeicherInv, Formate, Arten
<1>3. HeilInv /\ BildInv /\ AnzeigeInv
  BY DEF Init, HeilInv, BildInv, AnzeigeInv, Formate
<1> QED
  BY <1>1, <1>2, <1>3 DEF IInv

LEMMA Erhalten == IInv /\ [Next]_vars => IInv'
<1> SUFFICES ASSUME IInv, [Next]_vars PROVE IInv'
  OBVIOUS
<1>1. CASE Laden \/ Einfuegen \/ Start \/ Stapel \/ Naechstes \/ StapelEnde
  BY <1>1, LadenSchritt, EinfuegenSchritt, StartSchritt, StapelSchritt,
     NaechstesSchritt, StapelEndeSchritt
<1>2. ASSUME NEW f \in Formate, Dekodiere(f) PROVE IInv'
  BY <1>2, DekodiereSchritt
<1>3. CASE Unlesbar \/ JpegFehler \/ JpegSpaet \/ Gelesen
  BY <1>3, UnlesbarSchritt, JpegFehlerSchritt, JpegSpaetSchritt, GelesenSchritt
<1>4. CASE Belege \/ BelegeFehlt \/ Gefuellt \/ Fehlschlag
  BY <1>4, BelegeSchritt, BelegeFehltSchritt, GefuelltSchritt, FehlschlagSchritt
<1>5. CASE Go \/ GoEnde \/ Reoptimize \/ ReoptimizeEnde
  BY <1>5, GoSchritt, GoEndeSchritt, ReoptimizeSchritt, ReoptimizeEndeSchritt
<1>6. CASE Anpassen \/ AnpassenOk \/ AnpassenEnde \/ Abbrechen
  BY <1>6, AnpassenSchritt, AnpassenOkSchritt, AnpassenEndeSchritt,
     AbbrechenSchritt
<1>7. CASE GoB \/ GoBEnde \/ Sichern \/ StapelRaeumen \/ Parameter \/ Ende
  BY <1>7, GoBSchritt, GoBEndeSchritt, SichernSchritt, StapelRaeumenSchritt,
     ParameterSchritt, EndeSchritt
<1>8. CASE UNCHANGED vars
  <2>1. TypeOK' /\ AblaufInv'
    BY <1>8 DEF IInv, vars, ablauf, wahl, puffer, lauf, chronik, TypeOK,
       AblaufInv
  <2>2. SpeicherInv' /\ HeilInv'
    BY <1>8 DEF IInv, vars, ablauf, wahl, puffer, lauf, chronik, SpeicherInv,
       HeilInv, Belegt, Mass
  <2>3. BildInv' /\ AnzeigeInv'
    BY <1>8 DEF IInv, vars, ablauf, wahl, puffer, lauf, chronik, BildInv,
       AnzeigeInv
  <2> QED
    BY <2>1, <2>2, <2>3 DEF IInv
<1> QED
  BY <1>1, <1>2, <1>3, <1>4, <1>5, <1>6, <1>7, <1>8 DEF Next

LEMMA Induktiv == Spec => []IInv
  BY Anfang, Erhalten, PTL DEF Spec

-----------------------------------------------------------------------------
(* What it says about a session. *)

(* Every variable keeps the values the code gives it. *)
THEOREM Typen == Spec => []TypeOK
<1>1. IInv => TypeOK
  BY DEF IInv
<1> QED
  BY <1>1, Induktiv, PTL

(* bild_zeichnen, whenever it comes, meets buffers that are allocated, in  *)
(* the size it loops over and of the image that is open; and unless memory *)
(* ran out or a JPEG broke off after its last row, nothing is used or      *)
(* freed that is not there.                                                *)
THEOREM MalImmerSicher == Spec => []MalSicher
<1>1. IInv => MalSicher
  <2> SUFFICES ASSUME IInv PROVE MalSicher
    OBVIOUS
  <2> USE DEF IInv
  <2>1. Bilder # {} => speicher_voll = 2 /\ x_global # KeinMass
    BY DEF Bilder
  <2>2. Bilder # {} => Belegt /\ x_global[1] = nr
    BY <2>1 DEF SpeicherInv
  <2>3. "ebild" \in Bilder => ergvo = 1
    BY DEF Bilder
  <2>4. ASSUME NEW was \in Gezeigt PROVE Herkunft(was) = nr
    <3>1. CASE was \in Bilder
      <4>1. was \in {"sbild", "ebild", "gbild"} /\ (was = "ebild" => ergvo = 1)
        BY <3>1 DEF Bilder
      <4>2. arbeit.mass[1] = nr
        BY <2>2, <3>1 DEF Belegt
      <4>3. ergvo = 1 => ebild = nr
        BY DEF AnzeigeInv, BildInv
      <4> QED
        BY <4>1, <4>2, <4>3 DEF Herkunft
    <3>2. CASE was \in Striche
      <4>1. was = "struktur" /\ struvo = 1
        BY <3>2 DEF Striche
      <4>2. struktur = nr
        BY <4>1 DEF AnzeigeInv, BildInv
      <4> QED
        BY <4>1, <4>2 DEF Herkunft
    <3>3. CASE was \in Texte
      <4>1. was \in {"exif", "iptc"} /\ meta[was] # 0 /\ speicher_voll = 2
        BY <3>3, <2>1 DEF Texte
      <4>2. meta[was] = nr
        BY <4>1 DEF BildInv, Arten
      <4> QED
        BY <4>1, <4>2 DEF Herkunft
    <3> QED
      BY <3>1, <3>2, <3>3 DEF Gezeigt
  <2>5. schlecht => gestoert
    BY DEF HeilInv
  <2>6. "ebild" \in Bilder => schritt # "go"
    BY <2>3 DEF AnzeigeInv
  <2> QED
    BY <2>2, <2>4, <2>5, <2>6 DEF MalSicher
<1> QED
  BY <1>1, Induktiv, PTL

(* Whenever the session waits for a command, the paint flags say exactly   *)
(* what there is: no command that was broken off leaves a result hidden or *)
(* lines shown that are gone.                                              *)
THEOREM AnzeigeImmerWiederDa == Spec => []AnzeigeWiederDa
<1>1. IInv => AnzeigeWiederDa
  BY DEF IInv, AnzeigeWiederDa, AnzeigeInv, BildInv, TypeOK
<1> QED
  BY <1>1, Induktiv, PTL

(* Nothing of an earlier image survives in what is shown or saved, and the *)
(* line detection never starts on the traces of another run.               *)
THEOREM AllesImmerVomBild == Spec => []AllesVomBild
<1>1. IInv => AllesVomBild
  BY DEF IInv, AllesVomBild, SpeicherInv, BildInv
<1> QED
  BY <1>1, Induktiv, PTL

(* A result never outlives the parameters it was computed with.            *)
THEOREM VorschauStimmtImmer == Spec => []VorschauStimmt
<1>1. IInv => VorschauStimmt
  BY DEF IInv, VorschauStimmt, BildInv
<1> QED
  BY <1>1, Induktiv, PTL

(* With fixed parameters a whole batch gets the correction from before it, *)
(* and otherwise each image its own.                                       *)
THEOREM KorrekturPasstImmer == Spec => []KorrekturPasst
<1>1. IInv => KorrekturPasst
  <2> SUFFICES ASSUME IInv, ergebnis_vorhanden = 1
               PROVE  /\ schritt = "bereit" => korrektur = nr
                      /\ schritt = "sichern" => korrektur = IF parlot THEN fest ELSE nr
    BY DEF KorrekturPasst
  <2>1. schritt = "bereit" => korrektur = nr
    BY DEF IInv, AblaufInv, BildInv
  <2>2. schritt = "sichern" => korrektur = IF parlot THEN fest ELSE nr
    BY DEF IInv, AblaufInv, BildInv
  <2> QED
    BY <2>1, <2>2
<1> QED
  BY <1>1, Induktiv, PTL
=============================================================================
