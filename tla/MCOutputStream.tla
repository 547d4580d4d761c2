--------------------------- MODULE MCOutputStream ---------------------------
(* The values TLC gives to the constants of OutputStream.                  *)
EXTENDS OutputStream

MCSizes == {1, 4}
MCSeekTargets == {1}
=============================================================================
