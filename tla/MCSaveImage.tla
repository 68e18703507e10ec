---------------------------- MODULE MCSaveImage ----------------------------
(***************************************************************************)
(* Originals of every format, JPEGs with and without EXIF data and         *)
(* orientation, saved from the window; under a command line name only the  *)
(* photo that is turned, as that name changes nothing but names.           *)
(***************************************************************************)
EXTENDS SaveImage

MCFaelle == {f \in Fall : (f.art # "jpg" => ~f.exif) /\ (f.lage => f.exif)
                          /\ (f.rely \/ f.lage)
                          /\ (f.direkt => f.lage /\ f.rely)}
=============================================================================
