---------------------------- MODULE MCSanitizer ----------------------------
(***************************************************************************)
(* TLC instances of Sanitizer: tags of two and three characters over an    *)
(* alphabet of three.  Both begin with "<", so that what is held back may  *)
(* turn into either, and "/" and "T" alone are ordinary characters.        *)
(***************************************************************************)
EXTENDS Sanitizer

Letters == {"<", "/", "T"}
Open == <<"<", "T">>
Close == <<"<", "/", "T">>
=============================================================================
