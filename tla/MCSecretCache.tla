--------------------------- MODULE MCSecretCache ---------------------------
(* Three callers, so that two can wait for the load of a third, and two keys. *)
EXTENDS SecretCache, TLC

CONSTANTS t1, t2, t3, k1, k2

MCThreads == {t1, t2, t3}
MCKeys == {k1, k2}
=============================================================================
