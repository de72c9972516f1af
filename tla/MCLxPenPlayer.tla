--------------------------- MODULE MCLxPenPlayer ---------------------------
(* Values for the constants of LxPenPlayer that a .cfg cannot write.       *)
EXTENDS LxPenPlayer, TLC

CONSTANTS a, b

MCSongs == {a, b}
MCQueues == {<<a, b>>}
MCLiveQueues == {<<a>>, <<b>>}
\* a is short: half of it is less than the misfire window.
MCDuration == [s \in MCSongs |-> IF s = a THEN 2 ELSE 0]

\* Session numbers are only compared for equality.
SessionSymmetry == Permutations(Sessions)
=============================================================================
