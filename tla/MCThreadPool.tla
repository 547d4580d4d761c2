---------------------------- MODULE MCThreadPool ----------------------------
(* The values TLC gives to the constants of ThreadPool.                    *)
EXTENDS ThreadPool

MCWaitArgs == {-1, 1}
=============================================================================
