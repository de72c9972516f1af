---------------------------- MODULE QueueSession ----------------------------
(***************************************************************************)
(* The queue in its four copies: the page's, the settings database, the    *)
(* player component's and the index file in /tmp, through searches,        *)
(* listening with the page closed, and reopened pages                      *)
(* (src/plugin/qml/main.qml, src/player/lxpen_player.cpp).                 *)
(*                                                                         *)
(* The component is LxPenPlayer seen from here: it gets a queue, is        *)
(* fetching a song of it or not, and the host plays.  Indices are the      *)
(* code's, from 0.                                                         *)
(***************************************************************************)
EXTENDS Integers

CONSTANTS
  Lists,     \* results of searches that found something
  Size       \* [Lists -> Nat \ {0}]: songs in each

ASSUME SizeAssumption == Size \in [Lists -> Nat \ {0}] /\ "empty" \notin Lists

VARIABLES
  \* the page and what the database has of it
  open, queue, queueIndex, db,
  \* the component; the song it is fetching; whether the host's session is its
  alive, m_queue, m_index, m_takeover, fetching, ours,
  \* /tmp/lxpen_state.json
  stateIndex,
  \* the host
  playState, playing,
  \* history: the component asked for what the host plays, and for nothing
  \* else since; the page searched or gave the queue up since the last
  \* song was chosen; the user left with nothing playing
  settled, dropped, forgotten

pageVars == <<open, queue, queueIndex>>
playerVars == <<alive, m_queue, m_index, m_takeover, fetching, ours>>
hostVars == <<playState, playing>>
histVars == <<settled, dropped, forgotten>>
vars == <<pageVars, db, playerVars, stateIndex, hostVars, histVars>>

Absent == -1
Length(list) == IF list \in Lists THEN Size[list] ELSE 0
Song(list, i) == <<list, i>>
NoSong == Song("empty", Absent)
File == Song("file", 0)
Foreign == Song("foreign", 0)

isHostActive == playState # "stopped"

-----------------------------------------------------------------------------
(* The page.                                                               *)

\* Mutant: the queue is saved when it is played and at no other time.
SaveNothing == UNCHANGED db

\* saveSettings: every setting at once, the queue among them.
SaveSettings == db' = [queue |-> queue', index |-> queueIndex']

\* doSearch, answered: the history is saved, and with it the queue that was
\* there (a blank word is not saved); then the result is the queue, also one with
\* no song in it.
Search(list) ==
  /\ open
  /\ db' \in {db, [queue |-> queue, index |-> queueIndex]}
  /\ queue' = list /\ queueIndex' = -1
  /\ dropped' = TRUE
  /\ UNCHANGED <<open, playerVars, stateIndex, hostVars, settled, forgotten>>

\* A new platform, quality or script, a cleared history, a new download.
OtherSetting ==
  /\ open
  /\ UNCHANGED <<pageVars, playerVars, stateIndex, hostVars, histVars>>
  /\ SaveSettings

\* playIndex of the component: the index is written before anything is asked
\* for.
PlayIndex(list, i) ==
  /\ m_queue' = list /\ m_index' = i
  /\ stateIndex' = i
  /\ fetching' = Song(list, i) /\ ours' = FALSE
  /\ settled' = FALSE

PlaySong(i) ==
  /\ open
  /\ queueIndex' = i /\ UNCHANGED <<open, queue>>
  /\ SaveSettings
  /\ PlayIndex(queue, i)
  /\ dropped' = FALSE
  /\ UNCHANGED <<alive, m_takeover, hostVars, forgotten>>

\* playDownload: clearQueue and playFile.
PlayDownload ==
  /\ open
  /\ m_queue' = "empty" /\ m_index' = -1
  /\ m_takeover' = TRUE /\ ours' = TRUE
  /\ playState' = "playing" /\ playing' = File
  /\ settled' = FALSE
  /\ UNCHANGED <<pageVars, db, alive, fetching, stateIndex, dropped, forgotten>>

-----------------------------------------------------------------------------
(* The component.                                                          *)

\* Mutant: the page takes the index whatever its own queue is.
TakesAnyIndex(i) == queueIndex' = i

\* onSongStarted, if there is a page to hear it.
TakesIndex(i) == queueIndex' = IF i \in 0..(Length(queue) - 1) THEN i ELSE queueIndex

\* doPlay and finishPlay.
SongStarts ==
  /\ alive /\ fetching # NoSong
  /\ playState' = "playing" /\ playing' = fetching
  /\ fetching' = NoSong /\ m_takeover' = TRUE /\ ours' = TRUE
  /\ settled' = (fetching = Song(m_queue, m_index))
  /\ IF open THEN TakesIndex(m_index) ELSE UNCHANGED queueIndex
  /\ UNCHANGED <<open, queue, db, alive, m_queue, m_index, stateIndex, dropped, forgotten>>

\* No link, no file, or the host does not play it.
SongFails ==
  /\ alive /\ fetching # NoSong
  /\ fetching' = NoSong
  /\ UNCHANGED <<pageVars, db, alive, m_queue, m_index, m_takeover, ours, stateIndex, hostVars, histVars>>

Following == IF m_index + 1 >= Length(m_queue) THEN 0 ELSE m_index + 1
Preceding == IF m_index - 1 < 0 THEN Length(m_queue) - 1 ELSE m_index - 1

\* handleNext and handlePrev, from the host's buttons.
Step(i) ==
  /\ alive /\ m_takeover /\ Length(m_queue) > 0
  /\ PlayIndex(m_queue, i)
  /\ UNCHANGED <<pageVars, db, alive, m_takeover, hostVars, dropped, forgotten>>

\* A track comes to its end; the queue moves on if it was the component's.
TrackEnds ==
  /\ playState = "playing" /\ playState' = "stopped"
  /\ IF alive /\ m_takeover /\ ours /\ Length(m_queue) > 0 /\ m_index >= 0
     THEN PlayIndex(m_queue, Following)
     ELSE UNCHANGED <<m_queue, m_index, fetching, ours, stateIndex, settled>>
  /\ UNCHANGED <<pageVars, db, alive, m_takeover, playing, dropped, forgotten>>

\* What stop and requestRunnerQuit have in common.
LetGo ==
  /\ m_takeover' = FALSE /\ m_queue' = "empty" /\ m_index' = -1
  /\ fetching' = NoSong /\ ours' = FALSE
  /\ stateIndex' = Absent
  /\ settled' = FALSE

\* onIdleTick.
IdleTick ==
  /\ alive /\ ~open /\ m_takeover /\ ~isHostActive
  /\ LetGo
  /\ UNCHANGED <<pageVars, db, alive, hostVars, dropped, forgotten>>

\* destroy_plugin, when the page is closed: nothing of the queue is left.
DestroyPlugin ==
  /\ alive /\ ~open /\ alive' = FALSE
  /\ m_takeover' = FALSE /\ m_queue' = "empty" /\ m_index' = -1
  /\ fetching' = NoSong /\ ours' = FALSE
  /\ stateIndex' = IF isHostActive THEN stateIndex ELSE Absent
  /\ settled' = (settled /\ isHostActive /\ fetching = NoSong)
  /\ UNCHANGED <<pageVars, db, hostVars, dropped, forgotten>>

-----------------------------------------------------------------------------
(* Closing and opening the page.                                           *)

Closed == open' = FALSE /\ queue' = "empty" /\ queueIndex' = -1

\* exitPlugin.
ExitPlugin ==
  /\ open /\ Closed
  /\ IF isHostActive THEN UNCHANGED db ELSE SaveSettings
  /\ forgotten' = ~isHostActive /\ dropped' = (dropped \/ ~isHostActive)
  /\ UNCHANGED <<playerVars, stateIndex, hostVars, settled>>

\* The stop button: stop, then exitPlugin.
StopAndExit ==
  /\ open /\ Closed
  /\ LetGo /\ playState' = "stopped"
  /\ SaveSettings
  /\ forgotten' = TRUE /\ dropped' = TRUE
  /\ UNCHANGED <<alive, playing>>

\* The host closes the page by itself.
PageDestroyed ==
  /\ open /\ Closed
  /\ UNCHANGED <<db, playerVars, stateIndex, hostVars, histVars>>

\* Mutant: the database's index is used although the file has a newer one.
RestoreSaved == db.index

Restore == IF stateIndex >= 0 THEN stateIndex ELSE db.index
Resumes == isHostActive /\ Restore \in 0..(Length(db.queue) - 1)

\* Component.onCompleted: a new component if the former was destroyed;
\* resumeQueue takes the host's session for its own, whatever it plays.
\* Settings are saved if the script that was selected is gone.
OpenPage ==
  /\ ~open /\ open' = TRUE /\ alive' = TRUE
  /\ queue' = db.queue
  /\ IF Resumes
     THEN /\ queueIndex' = Restore
          /\ m_queue' = db.queue /\ m_index' = Restore /\ stateIndex' = Restore
          /\ m_takeover' = TRUE /\ ours' = TRUE
     ELSE /\ queueIndex' = db.index
          /\ UNCHANGED <<m_queue, m_index, stateIndex, m_takeover, ours>>
  /\ SaveSettings \/ UNCHANGED db
  /\ forgotten' = FALSE
  /\ settled' = (settled /\ isHostActive)
  /\ UNCHANGED <<fetching, hostVars, dropped>>

\* /tmp is lost, the database is not.
PowerIsLost ==
  /\ Closed
  /\ alive' = FALSE /\ LetGo
  /\ playState' = "stopped" /\ playing' = NoSong
  /\ UNCHANGED <<db, dropped, forgotten>>

-----------------------------------------------------------------------------
(* The user at the host's own player.                                      *)

HostPauses ==
  /\ playState = "playing" /\ playState' = "paused"
  /\ UNCHANGED <<pageVars, db, playerVars, stateIndex, playing, histVars>>
HostStops ==
  /\ isHostActive /\ playState' = "stopped"
  /\ UNCHANGED <<pageVars, db, playerVars, stateIndex, playing, histVars>>
HostPlays ==
  /\ playState # "playing" /\ playing # NoSong /\ playState' = "playing"
  /\ UNCHANGED <<pageVars, db, playerVars, stateIndex, playing, histVars>>
HostPlaysForeign ==
  /\ playState' = "playing" /\ playing' = Foreign
  /\ ours' = FALSE /\ settled' = FALSE
  /\ UNCHANGED <<pageVars, db, alive, m_queue, m_index, m_takeover, fetching, stateIndex, dropped, forgotten>>

-----------------------------------------------------------------------------
Init ==
  /\ open = FALSE /\ queue = "empty" /\ queueIndex = -1
  /\ db = [queue |-> "empty", index |-> -1]
  /\ alive = TRUE /\ m_queue = "empty" /\ m_index = -1 /\ m_takeover = FALSE
  /\ fetching = NoSong /\ ours = FALSE /\ stateIndex = Absent
  /\ playState = "stopped" /\ playing = NoSong
  /\ settled = FALSE /\ dropped = FALSE /\ forgotten = FALSE

Page ==
  \/ \E l \in Lists \cup {"empty"} : Search(l)
  \/ \E i \in 0..(Length(queue) - 1) : PlaySong(i)
  \/ OtherSetting \/ PlayDownload
  \/ ExitPlugin \/ StopAndExit \/ PageDestroyed \/ OpenPage
Component ==
  SongStarts \/ SongFails \/ Step(Following) \/ Step(Preceding) \/ TrackEnds \/ IdleTick \/ DestroyPlugin
Host == HostPauses \/ HostStops \/ HostPlays \/ HostPlaysForeign

Next == Page \/ Component \/ Host \/ PowerIsLost

Spec == Init /\ [][Next]_vars

-----------------------------------------------------------------------------
Indices == UNION {0..(Size[l] - 1) : l \in Lists}
InList(list, i) == i \in -1..(Length(list) - 1)

FlagTypeOK ==
  /\ open \in BOOLEAN /\ alive \in BOOLEAN /\ m_takeover \in BOOLEAN /\ ours \in BOOLEAN
  /\ settled \in BOOLEAN /\ dropped \in BOOLEAN /\ forgotten \in BOOLEAN
  /\ playState \in {"playing", "paused", "stopped"}
QueueTypeOK ==
  /\ {queue, m_queue, db.queue} \subseteq Lists \cup {"empty"}
  /\ InList(queue, queueIndex) /\ InList(m_queue, m_index) /\ InList(db.queue, db.index)
FileTypeOK == stateIndex \in Indices \cup {Absent}

\* Every copy's index is one of its own list, through every search, reopened
\* page and song that starts: nobody reads a song that is not there.
TypeOK == FlagTypeOK /\ QueueTypeOK /\ FileTypeOK

\* "SO 会把后台连播后的真实索引写到 /tmp/lxpen_state.json": after whatever was
\* played with the page closed, component destroyed or not, the page that is
\* opened again has the queue and the song that the host plays. Not if it was
\* searched for another list since, nor if it was left before the first song
\* began.
ReopenRestoresTheSong ==
  [][OpenPage /\ settled /\ isHostActive /\ ~dropped =>
       playing = Song(queue', queueIndex') /\ playing = Song(m_queue', m_index')]_vars

\* "避免重开还恢复旧队列": whatever the component, the host and the power did
\* since the user left with nothing playing, the page does not bring the old
\* queue back.
ForgottenStaysForgotten ==
  [][OpenPage /\ forgotten => queue' = "empty" /\ queueIndex' = -1]_vars

\* "这里仅保持 UI 状态一致": whoever chose the song, the page, a button of the
\* host or the end of the song before, with the page open or closed, the page
\* that still has that queue shows the song the host plays; not if it was opened
\* on a silent host, which it does not resume.
PageFollowsPlayer ==
  open /\ ~dropped /\ settled => playing = Song(queue, queueIndex)
=============================================================================
