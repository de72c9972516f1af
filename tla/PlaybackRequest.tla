-------------------------- MODULE PlaybackRequest --------------------------
(***************************************************************************)
(* What the player component promises its user, apart from when: the song  *)
(* asked for last is put on, or given up, and no other song ever is.       *)
(*                                                                         *)
(* A request is owed until it is answered (the song plays, or an error is  *)
(* shown) or withdrawn.  It may be put on more than once on the way: from  *)
(* its link, and again from the file.  A downloaded file replaces the      *)
(* request in what is owed, and the song may still follow.                 *)
(***************************************************************************)
CONSTANTS Songs, File, Foreign, None

VARIABLES
  ready,     \* the host has what it takes to play
  wanted,    \* the song that will be put on
  owed,      \* the user waits for an answer
  playing    \* what the host was last given

vars == <<ready, wanted, owed, playing>>

Init == ready \in BOOLEAN /\ wanted = None /\ owed = FALSE /\ playing = None

Ask(s) == wanted' = s /\ owed' = TRUE /\ UNCHANGED playing

PutOn ==
  /\ wanted # None /\ playing' = wanted
  /\ \/ UNCHANGED <<wanted, owed>>
     \/ wanted' = None /\ owed' = FALSE

\* Answered, or withdrawn.
Settle == wanted # None /\ wanted' = None /\ owed' = FALSE /\ UNCHANGED playing

PlayFile ==
  /\ wanted' \in {wanted, None} /\ owed' = FALSE
  /\ playing' = IF ready THEN File ELSE playing

UserPlaysForeign == playing' = Foreign /\ UNCHANGED <<wanted, owed>>

Next ==
  /\ (\E s \in Songs : Ask(s)) \/ PutOn \/ Settle \/ PlayFile \/ UserPlaysForeign
  /\ UNCHANGED ready

Spec == Init /\ [][Next]_vars
=============================================================================
