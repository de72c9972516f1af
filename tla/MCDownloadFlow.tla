--------------------------- MODULE MCDownloadFlow ---------------------------
(* Two qualities of a song, which have one path, and another song.           *)
EXTENDS DownloadFlow

SongPath == [s \in Songs |-> IF s = "other" THEN "q" ELSE "p"]
UserLoads ==
  {[songs |-> {"song", "better"}, kills |-> 1], [songs |-> {"song", "other"}, kills |-> 0]}
=============================================================================
