--------------------------- MODULE MCBusinessServer ---------------------------
(* One or two IO threads, two users, and ids for a few activities.          *)
EXTENDS BusinessServer, TLC

CONSTANTS t1, t2, u1, u2

MCThreads == {t1, t2}
MCUsers == {u1, u2}
MCCaps == {0, 1}
MCBatches == {<<u1, u2>>}
Symmetry == Permutations(MCThreads)
=============================================================================
