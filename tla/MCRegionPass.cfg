CONSTANT Bilder <- MCBilder
SPECIFICATION FairSpec
INVARIANTS EigeneHaelfte HaelftenVoll KetteAufKopf PufferReicht LinienGezaehlt MalenSicher
PROPERTIES UrteilBleibt GoEndet ErfuelltLineTable
CHECK_DEADLOCK TRUE
