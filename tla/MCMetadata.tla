------------------------------ MODULE MCMetadata ------------------------------
(***************************************************************************)
(* Photos without metadata, with sections of every kind in an unusual      *)
(* order, and with so many that the array grows three times; profiles cut  *)
(* into up to three markers, complete and damaged.                         *)
(***************************************************************************)
EXTENDS Metadata

M(nr, von, was) == [Neue("ICC", was) EXCEPT !.nr = nr, !.von = von]
E(n, lage) == [Neue("EXIF", <<n>>) EXCEPT !.lage = lage]
N(typ, n) == Neue(typ, <<n>>)

Bild == <<N("DQT", 0), N("SOF", 0), N("DHT", 0), N("SOS", 0), N("REST", 0)>>
Viele == <<N("DQT", 0), N("DQT", 1), N("DQT", 2), N("SOF", 0), N("DHT", 0), N("DHT", 1),
           N("DHT", 2), N("DHT", 3), N("SOS", 0), N("REST", 0)>>

(* At most two markers, numbered in every way; then some of three. *)
Marke == {M(nr, von, was) : nr \in 0 .. 2, von \in 0 .. 2, was \in {<<>>, <<1>>, <<2, 3>>}}
Profile == {<<>>} \cup {<<a>> : a \in Marke} \cup {<<a, b>> : a \in Marke, b \in Marke}
           \cup {<<M(3, 3, <<5>>), M(1, 3, <<1, 2>>), M(2, 3, <<3, 4>>)>>,
                 <<M(2, 3, <<3, 4>>), M(3, 3, <<5, 6>>), M(1, 3, <<1, 2>>)>>,
                 <<M(2, 3, <<3>>), M(1, 3, <<1>>), M(3, 3, <<>>)>>}

MCFotos ==
  {<<N("JFIF", 1)>> \o p \o Bild : p \in Profile}
  \cup {<<N("JFIF", 1), N("COM", 1)>> \o Bild,
        <<N("XMP", 1), E(1, 6)>> \o Bild,
        <<E(1, 6), N("COM", 1), E(2, 1), N("IPTC", 1)>> \o Bild,
        <<E(1, 1), E(2, 0), E(3, 8)>> \o Bild,
        <<N("JFIF", 1), N("IPTC", 1), N("COM", 1), N("APP1", 1), N("XMP", 1), E(1, 3),
          N("XMP", 2), N("COM", 2), N("IPTC", 2), N("APP", 1), M(1, 1, <<1, 2>>)>> \o Viele,
        <<N("APP", 1), N("APP", 2), M(2, 2, <<3>>)>> \o Viele}
=============================================================================
