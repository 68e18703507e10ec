CONSTANTS
  Bilder <- MCBilder
  Einheit = 2
  Punkte <- MCPunkte
  MaxZuege = 2
  Teiler = 4
  Dehnungen <- MCDehnungen
  Einstellungen <- MCEinstellungen
SPECIFICATION FairSpec
INVARIANTS KeinHintergrund AusschnittTreu PasstInPuffer LiestFertiges AlleFormateGleich
PROPERTY ImmerWiederFrei
CHECK_DEADLOCK TRUE
