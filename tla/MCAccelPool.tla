---------------------------- MODULE MCAccelPool -----------------------------
(* The values TLC gives to the constants of AccelPool: two buffers to a    *)
(* worker, small tiles of 2 bytes and large ones of 5, of which a budget   *)
(* of 7 holds one of each.                                                 *)
EXTENDS AccelPool

MCKinds   == {1, 2}
MCDemands == {<<1, 1>>, <<4, 1>>}
=============================================================================
