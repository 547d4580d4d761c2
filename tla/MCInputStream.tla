--------------------------- MODULE MCInputStream ----------------------------
(* The values TLC gives to the constants of InputStream.                   *)
EXTENDS InputStream

MCSizes == {0, 1, 2, 3, 5}
MCSeekTargets == {0, 4, Length + 1}
=============================================================================
