---------------------------- MODULE MCSongCache ----------------------------
(* Values for the constants of SongCache that a .cfg cannot write.         *)
EXTENDS SongCache

CONSTANTS a, b, long, short

MCSongs == {a, b}
MCRecordings == {long, short}
MCSize == [r \in MCRecordings |-> IF r = long THEN 2 ELSE 1]
\* a is declared, b is not.
MCDeclared == [s \in MCSongs |-> IF s = a THEN 2 ELSE 0]
\* Links of a lead to the whole song or to a short one.
MCServes == [s \in MCSongs |-> IF s = a THEN {long, short} ELSE {long}]
=============================================================================
