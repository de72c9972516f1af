------------------------- MODULE QueueSessionProofs -------------------------
(***************************************************************************)
(* That the page shows, and a page that is opened again finds, the song    *)
(* the host plays; and that a queue which was given up is not brought      *)
(* back: for any results of searches of any length.  The invariant that    *)
(* carries it says where the song can be found again: its list is the one  *)
(* in the database and its index the one in /tmp/lxpen_state.json,         *)
(* whichever of page and component are there to know it.                   *)
(***************************************************************************)
EXTENDS QueueSession, TLAPS

\* What is being fetched is a song of some result.
SongWanted ==
  fetching # NoSong =>
    \E l \in Lists : \E i \in 0..(Size[l] - 1) : fetching = Song(l, i)

\* The copies of the queue, as long as the page did not search anew.
SameQueue ==
  ~dropped => (open => queue = db.queue) /\ m_queue \in {"empty", db.queue}

\* The component's index is in the file.
IndexIsFiled == m_queue # "empty" => stateIndex = m_index

\* What plays can be found again from the database and the file.
CanBeFound ==
  settled /\ ~dropped =>
    /\ db.queue \in Lists /\ stateIndex \in 0..(Size[db.queue] - 1)
    /\ playing = Song(db.queue, stateIndex)
    /\ open => queueIndex = stateIndex

\* A queue that was given up is nowhere.
IsForgotten == forgotten => ~open /\ db.queue = "empty" /\ db.index = -1

Inv ==
  TypeOK /\ SongWanted /\ SameQueue /\ IndexIsFiled /\ CanBeFound /\ IsForgotten
-----------------------------------------------------------------------------
\* The empty queue has the index -1.
LEMMA EmptyList == InList("empty", -1) /\ "empty" \notin Lists
BY SizeAssumption DEF InList, Length

\* A position of a list is an index.
LEMMA IndicesOfList ==
  ASSUME NEW l \in Lists, NEW i \in 0..(Size[l] - 1)
  PROVE  i \in Indices /\ i \in Nat /\ InList(l, i)
BY SizeAssumption DEF Indices, InList, Length

\* Absent is none of them.
LEMMA IndicesAreNat == Indices \subseteq Nat
BY SizeAssumption DEF Indices

\* Nothing is queued yet.
LEMMA InitInv == Init => Inv
<1>1. Init => TypeOK
  <2>1. Init => FlagTypeOK
    BY DEF Init, FlagTypeOK
  <2>2. Init => QueueTypeOK
    BY EmptyList DEF Init, QueueTypeOK
  <2>3. Init => FileTypeOK
    BY DEF Init, FileTypeOK
  <2> QED BY <2>1, <2>2, <2>3 DEF TypeOK
<1>2. Init => SongWanted /\ SameQueue /\ IndexIsFiled /\ CanBeFound /\ IsForgotten
  BY DEF Init, SongWanted, SameQueue, IndexIsFiled, CanBeFound, IsForgotten
<1> QED BY <1>1, <1>2 DEF Inv

\* The page forgets what was chosen; the player does not.
LEMMA SearchInv == ASSUME Inv, NEW l \in Lists \cup {"empty"}, Search(l) PROVE Inv'
<1>1. FlagTypeOK'
  BY DEF Inv, TypeOK, FlagTypeOK, Search, playerVars, hostVars
<1>2. QueueTypeOK'
  <2>1. InList(l, -1)
    BY SizeAssumption, EmptyList DEF InList, Length
  <2> QED BY <2>1 DEF Inv, TypeOK, QueueTypeOK, Search, playerVars
<1>3. FileTypeOK'
  BY DEF Inv, TypeOK, FileTypeOK, Search, playerVars, hostVars
<1>4. SongWanted'
  BY DEF Inv, TypeOK, SongWanted, Search, playerVars, hostVars
<1>5. SameQueue'
  BY DEF Inv, TypeOK, SameQueue, QueueTypeOK, Search, playerVars, hostVars
<1>6. IndexIsFiled'
  BY DEF Inv, TypeOK, IndexIsFiled, Search, playerVars, hostVars
<1>7. CanBeFound'
  BY EmptyList, IndicesAreNat
  DEF Inv, TypeOK, CanBeFound, SameQueue, FileTypeOK, Absent, Search, playerVars,
     hostVars
<1>8. IsForgotten'
  BY DEF Inv, TypeOK, IsForgotten, SameQueue, Search, playerVars, hostVars
<1> QED BY <1>1, <1>2, <1>3, <1>4, <1>5, <1>6, <1>7, <1>8 DEF Inv, TypeOK

\* Saving any setting saves the queue.
LEMMA OtherSettingInv == ASSUME Inv, OtherSetting PROVE Inv'
<1>1. FlagTypeOK'
  BY DEF Inv, TypeOK, FlagTypeOK, OtherSetting, SaveSettings, pageVars, playerVars,
     hostVars, histVars
<1>2. QueueTypeOK'
  BY EmptyList, SizeAssumption
  DEF Inv, TypeOK, QueueTypeOK, InList, Length, Absent, OtherSetting, SaveSettings,
     pageVars, playerVars, hostVars, histVars
<1>3. FileTypeOK'
  BY DEF Inv, TypeOK, FileTypeOK, OtherSetting, SaveSettings, pageVars, playerVars,
     hostVars, histVars
<1>4. SongWanted'
  BY DEF Inv, TypeOK, SongWanted, OtherSetting, SaveSettings, pageVars, playerVars,
     hostVars, histVars
<1>5. SameQueue'
  BY DEF Inv, TypeOK, SameQueue, QueueTypeOK, OtherSetting, SaveSettings, pageVars,
     playerVars, hostVars, histVars
<1>6. IndexIsFiled'
  BY DEF Inv, TypeOK, IndexIsFiled, OtherSetting, SaveSettings, pageVars, playerVars,
     hostVars, histVars
<1>7. CanBeFound'
  BY EmptyList, IndicesAreNat
  DEF Inv, TypeOK, CanBeFound, SameQueue, FileTypeOK, Absent, QueueTypeOK, InList,
     Length, SongWanted, IndexIsFiled, Song, NoSong, OtherSetting, SaveSettings,
     pageVars, playerVars, hostVars, histVars
<1>8. IsForgotten'
  BY DEF Inv, TypeOK, IsForgotten, SameQueue, OtherSetting, SaveSettings, pageVars,
     playerVars, hostVars, histVars
<1> QED BY <1>1, <1>2, <1>3, <1>4, <1>5, <1>6, <1>7, <1>8 DEF Inv, TypeOK

LEMMA PlayDownloadInv == ASSUME Inv, PlayDownload PROVE Inv'
<1>1. FlagTypeOK'
  BY DEF Inv, TypeOK, FlagTypeOK, PlayDownload, pageVars
<1>2. QueueTypeOK'
  BY EmptyList DEF Inv, TypeOK, QueueTypeOK, PlayDownload, pageVars
<1>3. FileTypeOK'
  BY DEF Inv, TypeOK, FileTypeOK, PlayDownload, pageVars
<1>4. SongWanted'
  BY DEF Inv, TypeOK, SongWanted, PlayDownload, pageVars
<1>5. SameQueue'
  BY DEF Inv, TypeOK, SameQueue, QueueTypeOK, PlayDownload, pageVars
<1>6. IndexIsFiled'
  BY DEF Inv, TypeOK, IndexIsFiled, PlayDownload, pageVars
<1>7. CanBeFound'
  BY EmptyList, IndicesAreNat
  DEF Inv, TypeOK, CanBeFound, SameQueue, FileTypeOK, Absent, PlayDownload, pageVars
<1>8. IsForgotten'
  BY DEF Inv, TypeOK, IsForgotten, SameQueue, PlayDownload, pageVars
<1> QED BY <1>1, <1>2, <1>3, <1>4, <1>5, <1>6, <1>7, <1>8 DEF Inv, TypeOK

\* What starts is the song at the component's index, if that is what was fetched.
LEMMA SongStartsInv == ASSUME Inv, SongStarts PROVE Inv'
<1>1. FlagTypeOK'
  BY DEF Inv, TypeOK, FlagTypeOK, SongStarts, TakesIndex
<1>2. QueueTypeOK'
  BY EmptyList, SizeAssumption
  DEF Inv, TypeOK, QueueTypeOK, InList, Length, Absent, SongStarts, TakesIndex
<1>3. FileTypeOK'
  BY DEF Inv, TypeOK, FileTypeOK, SongStarts, TakesIndex
<1>4. SongWanted'
  BY DEF Inv, TypeOK, SongWanted, SongStarts, TakesIndex
<1>5. SameQueue'
  BY DEF Inv, TypeOK, SameQueue, QueueTypeOK, SongStarts, TakesIndex
<1>6. IndexIsFiled'
  BY DEF Inv, TypeOK, IndexIsFiled, SongStarts, TakesIndex
<1>7. CanBeFound'
  <2> SUFFICES ASSUME settled', ~dropped' PROVE CanBeFound'
    BY DEF CanBeFound
  <2>1. fetching = Song(m_queue, m_index) /\ fetching # NoSong
    BY DEF SongStarts
  <2>2. m_queue \in Lists /\ m_index \in 0..(Size[m_queue] - 1)
    BY <2>1 DEF Inv, SongWanted, Song
  <2>3. db.queue = m_queue /\ stateIndex = m_index /\ (open => queue = m_queue)
    BY <2>2, EmptyList DEF Inv, SameQueue, IndexIsFiled, SongStarts
  <2>4. open => queueIndex' = m_index
    BY <2>2, <2>3 DEF SongStarts, TakesIndex, Length
  <2> QED BY <2>1, <2>2, <2>3, <2>4 DEF SongStarts, CanBeFound
<1>8. IsForgotten'
  BY DEF Inv, TypeOK, IsForgotten, SameQueue, SongStarts, TakesIndex
<1> QED BY <1>1, <1>2, <1>3, <1>4, <1>5, <1>6, <1>7, <1>8 DEF Inv, TypeOK

LEMMA SongFailsInv == ASSUME Inv, SongFails PROVE Inv'
<1>1. FlagTypeOK'
  BY DEF Inv, TypeOK, FlagTypeOK, SongFails, pageVars, hostVars, histVars
<1>2. QueueTypeOK'
  BY EmptyList DEF Inv, TypeOK, QueueTypeOK, SongFails, pageVars, hostVars, histVars
<1>3. FileTypeOK'
  BY DEF Inv, TypeOK, FileTypeOK, SongFails, pageVars, hostVars, histVars
<1>4. SongWanted'
  BY DEF Inv, TypeOK, SongWanted, SongFails, pageVars, hostVars, histVars
<1>5. SameQueue'
  BY DEF Inv, TypeOK, SameQueue, QueueTypeOK, SongFails, pageVars, hostVars, histVars
<1>6. IndexIsFiled'
  BY DEF Inv, TypeOK, IndexIsFiled, SongFails, pageVars, hostVars, histVars
<1>7. CanBeFound'
  BY EmptyList, IndicesAreNat
  DEF Inv, TypeOK, CanBeFound, SameQueue, FileTypeOK, Absent, SongFails, pageVars,
     hostVars, histVars
<1>8. IsForgotten'
  BY DEF Inv, TypeOK, IsForgotten, SameQueue, SongFails, pageVars, hostVars, histVars
<1> QED BY <1>1, <1>2, <1>3, <1>4, <1>5, <1>6, <1>7, <1>8 DEF Inv, TypeOK

LEMMA IdleTickInv == ASSUME Inv, IdleTick PROVE Inv'
<1>1. FlagTypeOK'
  BY DEF Inv, TypeOK, FlagTypeOK, IdleTick, LetGo, pageVars, hostVars
<1>2. QueueTypeOK'
  BY EmptyList DEF Inv, TypeOK, QueueTypeOK, IdleTick, LetGo, pageVars, hostVars
<1>3. FileTypeOK'
  BY DEF Inv, TypeOK, FileTypeOK, IdleTick, LetGo, pageVars, hostVars
<1>4. SongWanted'
  BY DEF Inv, TypeOK, SongWanted, IdleTick, LetGo, pageVars, hostVars
<1>5. SameQueue'
  BY DEF Inv, TypeOK, SameQueue, QueueTypeOK, IdleTick, LetGo, pageVars, hostVars
<1>6. IndexIsFiled'
  BY DEF Inv, TypeOK, IndexIsFiled, IdleTick, LetGo, pageVars, hostVars
<1>7. CanBeFound'
  BY EmptyList, IndicesAreNat
  DEF Inv, TypeOK, CanBeFound, SameQueue, FileTypeOK, Absent, IdleTick, LetGo, pageVars,
     hostVars
<1>8. IsForgotten'
  BY DEF Inv, TypeOK, IsForgotten, SameQueue, IdleTick, LetGo, pageVars, hostVars
<1> QED BY <1>1, <1>2, <1>3, <1>4, <1>5, <1>6, <1>7, <1>8 DEF Inv, TypeOK

\* The component goes, the file stays while the host plays.
LEMMA DestroyPluginInv == ASSUME Inv, DestroyPlugin PROVE Inv'
<1>1. FlagTypeOK'
  BY DEF Inv, TypeOK, FlagTypeOK, DestroyPlugin, pageVars, hostVars
<1>2. QueueTypeOK'
  BY EmptyList DEF Inv, TypeOK, QueueTypeOK, DestroyPlugin, pageVars, hostVars
<1>3. FileTypeOK'
  BY DEF Inv, TypeOK, FileTypeOK, DestroyPlugin, pageVars, hostVars
<1>4. SongWanted'
  BY DEF Inv, TypeOK, SongWanted, DestroyPlugin, pageVars, hostVars
<1>5. SameQueue'
  BY DEF Inv, TypeOK, SameQueue, QueueTypeOK, DestroyPlugin, pageVars, hostVars
<1>6. IndexIsFiled'
  BY DEF Inv, TypeOK, IndexIsFiled, DestroyPlugin, pageVars, hostVars
<1>7. CanBeFound'
  BY EmptyList, IndicesAreNat
  DEF Inv, TypeOK, CanBeFound, SameQueue, FileTypeOK, Absent, DestroyPlugin, pageVars,
     hostVars
<1>8. IsForgotten'
  BY DEF Inv, TypeOK, IsForgotten, SameQueue, DestroyPlugin, pageVars, hostVars
<1> QED BY <1>1, <1>2, <1>3, <1>4, <1>5, <1>6, <1>7, <1>8 DEF Inv, TypeOK

\* The page is left; with a silent host the queue goes from the database.
LEMMA ExitPluginInv == ASSUME Inv, ExitPlugin PROVE Inv'
<1>1. FlagTypeOK'
  BY DEF Inv, TypeOK, FlagTypeOK, ExitPlugin, Closed, SaveSettings, playerVars, hostVars
<1>2. QueueTypeOK'
  BY EmptyList
  DEF Inv, TypeOK, QueueTypeOK, ExitPlugin, Closed, SaveSettings, playerVars, hostVars
<1>3. FileTypeOK'
  BY DEF Inv, TypeOK, FileTypeOK, ExitPlugin, Closed, SaveSettings, playerVars, hostVars
<1>4. SongWanted'
  BY DEF Inv, TypeOK, SongWanted, ExitPlugin, Closed, SaveSettings, playerVars, hostVars
<1>5. SameQueue'
  BY DEF Inv, TypeOK, SameQueue, QueueTypeOK, ExitPlugin, Closed, SaveSettings,
     playerVars, hostVars
<1>6. IndexIsFiled'
  BY DEF Inv, TypeOK, IndexIsFiled, ExitPlugin, Closed, SaveSettings, playerVars,
     hostVars
<1>7. CanBeFound'
  BY EmptyList, IndicesAreNat
  DEF Inv, TypeOK, CanBeFound, SameQueue, FileTypeOK, Absent, ExitPlugin, Closed,
     SaveSettings, playerVars, hostVars
<1>8. IsForgotten'
  <2>1. CASE isHostActive
    BY <2>1 DEF IsForgotten, ExitPlugin
  <2>2. CASE ~isHostActive
    BY <2>2 DEF IsForgotten, ExitPlugin, Closed, SaveSettings
  <2> QED BY <2>1, <2>2
<1> QED BY <1>1, <1>2, <1>3, <1>4, <1>5, <1>6, <1>7, <1>8 DEF Inv, TypeOK

LEMMA StopAndExitInv == ASSUME Inv, StopAndExit PROVE Inv'
<1>1. FlagTypeOK'
  BY DEF Inv, TypeOK, FlagTypeOK, StopAndExit, Closed, SaveSettings, LetGo
<1>2. QueueTypeOK'
  BY EmptyList DEF Inv, TypeOK, QueueTypeOK, StopAndExit, Closed, SaveSettings, LetGo
<1>3. FileTypeOK'
  BY DEF Inv, TypeOK, FileTypeOK, StopAndExit, Closed, SaveSettings, LetGo
<1>4. SongWanted'
  BY DEF Inv, TypeOK, SongWanted, StopAndExit, Closed, SaveSettings, LetGo
<1>5. SameQueue'
  BY DEF Inv, TypeOK, SameQueue, QueueTypeOK, StopAndExit, Closed, SaveSettings, LetGo
<1>6. IndexIsFiled'
  BY DEF Inv, TypeOK, IndexIsFiled, StopAndExit, Closed, SaveSettings, LetGo
<1>7. CanBeFound'
  BY EmptyList, IndicesAreNat
  DEF Inv, TypeOK, CanBeFound, SameQueue, FileTypeOK, Absent, StopAndExit, Closed,
     SaveSettings, LetGo
<1>8. IsForgotten'
  BY DEF Inv, TypeOK, IsForgotten, SameQueue, StopAndExit, Closed, SaveSettings, LetGo
<1> QED BY <1>1, <1>2, <1>3, <1>4, <1>5, <1>6, <1>7, <1>8 DEF Inv, TypeOK

LEMMA PageDestroyedInv == ASSUME Inv, PageDestroyed PROVE Inv'
<1>1. FlagTypeOK'
  BY DEF Inv, TypeOK, FlagTypeOK, PageDestroyed, Closed, playerVars, hostVars, histVars
<1>2. QueueTypeOK'
  BY EmptyList
  DEF Inv, TypeOK, QueueTypeOK, PageDestroyed, Closed, playerVars, hostVars, histVars
<1>3. FileTypeOK'
  BY DEF Inv, TypeOK, FileTypeOK, PageDestroyed, Closed, playerVars, hostVars, histVars
<1>4. SongWanted'
  BY DEF Inv, TypeOK, SongWanted, PageDestroyed, Closed, playerVars, hostVars, histVars
<1>5. SameQueue'
  BY DEF Inv, TypeOK, SameQueue, QueueTypeOK, PageDestroyed, Closed, playerVars,
     hostVars, histVars
<1>6. IndexIsFiled'
  BY DEF Inv, TypeOK, IndexIsFiled, PageDestroyed, Closed, playerVars, hostVars,
     histVars
<1>7. CanBeFound'
  BY EmptyList, IndicesAreNat
  DEF Inv, TypeOK, CanBeFound, SameQueue, FileTypeOK, Absent, PageDestroyed, Closed,
     playerVars, hostVars, histVars
<1>8. IsForgotten'
  BY DEF Inv, TypeOK, IsForgotten, SameQueue, PageDestroyed, Closed, playerVars,
     hostVars, histVars
<1> QED BY <1>1, <1>2, <1>3, <1>4, <1>5, <1>6, <1>7, <1>8 DEF Inv, TypeOK

\* A page that is opened while the host plays gets the index from the file.
LEMMA OpenPageInv == ASSUME Inv, OpenPage PROVE Inv'
<1>1. FlagTypeOK'
  BY DEF Inv, TypeOK, FlagTypeOK, OpenPage, Resumes, Restore, SaveSettings, hostVars
<1>2. QueueTypeOK'
  BY EmptyList, SizeAssumption
  DEF Inv, TypeOK, QueueTypeOK, InList, Length, Absent, OpenPage, Resumes, Restore,
     SaveSettings, hostVars
<1>3. FileTypeOK'
  <2>1. CASE Resumes
    <3>1. db.queue \in Lists /\ Restore \in 0..(Size[db.queue] - 1)
      BY <2>1 DEF Resumes, Length, Inv, TypeOK, QueueTypeOK
    <3> QED BY <2>1, <3>1, IndicesOfList DEF OpenPage, FileTypeOK
  <2>2. CASE ~Resumes
    BY <2>2 DEF OpenPage, FileTypeOK, Inv, TypeOK
  <2> QED BY <2>1, <2>2
<1>4. SongWanted'
  BY DEF Inv, TypeOK, SongWanted, OpenPage, Resumes, Restore, SaveSettings, hostVars
<1>5. SameQueue'
  BY DEF Inv, TypeOK, SameQueue, QueueTypeOK, OpenPage, Resumes, Restore, SaveSettings,
     hostVars
<1>6. IndexIsFiled'
  BY DEF Inv, TypeOK, IndexIsFiled, OpenPage, Resumes, Restore, SaveSettings, hostVars
<1>7. CanBeFound'
  <2> SUFFICES ASSUME settled', ~dropped' PROVE CanBeFound'
    BY DEF CanBeFound
  <2>1. settled /\ ~dropped /\ isHostActive
    BY DEF OpenPage
  <2>2. /\ db.queue \in Lists /\ stateIndex \in 0..(Size[db.queue] - 1)
        /\ playing = Song(db.queue, stateIndex)
    BY <2>1 DEF Inv, CanBeFound
  <2>3. Resumes /\ Restore = stateIndex
    BY <2>1, <2>2, SizeAssumption DEF Resumes, Restore, Length
  <2>4. /\ queue' = db.queue /\ queueIndex' = stateIndex /\ stateIndex' = stateIndex
        /\ db'.queue = db.queue /\ playing' = playing
    BY <2>3 DEF OpenPage, SaveSettings, hostVars
  <2> QED BY <2>2, <2>4 DEF CanBeFound
<1>8. IsForgotten'
  BY DEF Inv, TypeOK, IsForgotten, SameQueue, OpenPage, Resumes, Restore, SaveSettings,
     hostVars
<1> QED BY <1>1, <1>2, <1>3, <1>4, <1>5, <1>6, <1>7, <1>8 DEF Inv, TypeOK

LEMMA PowerIsLostInv == ASSUME Inv, PowerIsLost PROVE Inv'
<1>1. FlagTypeOK'
  BY DEF Inv, TypeOK, FlagTypeOK, PowerIsLost, Closed, LetGo
<1>2. QueueTypeOK'
  BY EmptyList DEF Inv, TypeOK, QueueTypeOK, PowerIsLost, Closed, LetGo
<1>3. FileTypeOK'
  BY DEF Inv, TypeOK, FileTypeOK, PowerIsLost, Closed, LetGo
<1>4. SongWanted'
  BY DEF Inv, TypeOK, SongWanted, PowerIsLost, Closed, LetGo
<1>5. SameQueue'
  BY DEF Inv, TypeOK, SameQueue, QueueTypeOK, PowerIsLost, Closed, LetGo
<1>6. IndexIsFiled'
  BY DEF Inv, TypeOK, IndexIsFiled, PowerIsLost, Closed, LetGo
<1>7. CanBeFound'
  BY EmptyList, IndicesAreNat
  DEF Inv, TypeOK, CanBeFound, SameQueue, FileTypeOK, Absent, PowerIsLost, Closed, LetGo
<1>8. IsForgotten'
  BY DEF Inv, TypeOK, IsForgotten, SameQueue, PowerIsLost, Closed, LetGo
<1> QED BY <1>1, <1>2, <1>3, <1>4, <1>5, <1>6, <1>7, <1>8 DEF Inv, TypeOK

LEMMA HostInv == ASSUME Inv, Host PROVE Inv'
<1>1. FlagTypeOK'
  BY DEF Inv, TypeOK, FlagTypeOK, Host, HostPauses, HostStops, HostPlays,
     HostPlaysForeign, pageVars, playerVars, histVars
<1>2. QueueTypeOK'
  BY EmptyList
  DEF Inv, TypeOK, QueueTypeOK, Host, HostPauses, HostStops, HostPlays,
     HostPlaysForeign, pageVars, playerVars, histVars
<1>3. FileTypeOK'
  BY DEF Inv, TypeOK, FileTypeOK, Host, HostPauses, HostStops, HostPlays,
     HostPlaysForeign, pageVars, playerVars, histVars
<1>4. SongWanted'
  BY DEF Inv, TypeOK, SongWanted, Host, HostPauses, HostStops, HostPlays,
     HostPlaysForeign, pageVars, playerVars, histVars
<1>5. SameQueue'
  BY DEF Inv, TypeOK, SameQueue, QueueTypeOK, Host, HostPauses, HostStops, HostPlays,
     HostPlaysForeign, pageVars, playerVars, histVars
<1>6. IndexIsFiled'
  BY DEF Inv, TypeOK, IndexIsFiled, Host, HostPauses, HostStops, HostPlays,
     HostPlaysForeign, pageVars, playerVars, histVars
<1>7. CanBeFound'
  BY EmptyList, IndicesAreNat
  DEF Inv, TypeOK, CanBeFound, SameQueue, FileTypeOK, Absent, Host, HostPauses,
     HostStops, HostPlays, HostPlaysForeign, pageVars, playerVars, histVars
<1>8. IsForgotten'
  BY DEF Inv, TypeOK, IsForgotten, SameQueue, Host, HostPauses, HostStops, HostPlays,
     HostPlaysForeign, pageVars, playerVars, histVars
<1> QED BY <1>1, <1>2, <1>3, <1>4, <1>5, <1>6, <1>7, <1>8 DEF Inv, TypeOK

\* A stutter.
LEMMA StutterInv == ASSUME Inv, UNCHANGED vars PROVE Inv'
<1>1. FlagTypeOK'
  BY DEF Inv, TypeOK, FlagTypeOK, vars, pageVars, playerVars, hostVars, histVars
<1>2. QueueTypeOK'
  BY EmptyList
  DEF Inv, TypeOK, QueueTypeOK, vars, pageVars, playerVars, hostVars, histVars
<1>3. FileTypeOK'
  BY DEF Inv, TypeOK, FileTypeOK, vars, pageVars, playerVars, hostVars, histVars
<1>4. SongWanted'
  BY DEF Inv, TypeOK, SongWanted, vars, pageVars, playerVars, hostVars, histVars
<1>5. SameQueue'
  BY DEF Inv, TypeOK, SameQueue, QueueTypeOK, vars, pageVars, playerVars, hostVars,
     histVars
<1>6. IndexIsFiled'
  BY DEF Inv, TypeOK, IndexIsFiled, vars, pageVars, playerVars, hostVars, histVars
<1>7. CanBeFound'
  BY EmptyList, IndicesAreNat
  DEF Inv, TypeOK, CanBeFound, SameQueue, FileTypeOK, Absent, vars, pageVars,
     playerVars, hostVars, histVars
<1>8. IsForgotten'
  BY DEF Inv, TypeOK, IsForgotten, SameQueue, vars, pageVars, playerVars, hostVars,
     histVars
<1> QED BY <1>1, <1>2, <1>3, <1>4, <1>5, <1>6, <1>7, <1>8 DEF Inv, TypeOK

\* playIndex of the component with a song of its list.
LEMMA PlayIndexInv ==
  ASSUME Inv, NEW list \in Lists, NEW i \in 0..(Size[list] - 1), PlayIndex(list, i)
  PROVE  /\ m_queue' = list /\ InList(m_queue', m_index')
         /\ ours' \in BOOLEAN /\ settled' \in BOOLEAN /\ ~settled'
         /\ FileTypeOK' /\ SongWanted' /\ IndexIsFiled'
<1>1. m_queue' = list /\ m_index' = i /\ stateIndex' = i /\ fetching' = Song(list, i)
  BY DEF PlayIndex
<1> QED BY <1>1, IndicesOfList DEF PlayIndex, FileTypeOK, SongWanted, IndexIsFiled

\* A chosen song makes all copies agree again.
LEMMA PlaySongInv ==
  ASSUME Inv, NEW i \in 0..(Length(queue) - 1), PlaySong(i)
  PROVE  Inv'
<1>1. queue \in Lists /\ i \in 0..(Size[queue] - 1)
  BY DEF Inv, TypeOK, QueueTypeOK, Length
<1>2. PlayIndex(queue, i)
  BY DEF PlaySong
<1>3. FlagTypeOK'
  BY <1>1, <1>2, PlayIndexInv DEF Inv, TypeOK, FlagTypeOK, PlaySong, hostVars
<1>4. /\ queue' = queue /\ queueIndex' = i /\ open' /\ ~forgotten'
      /\ db'.queue = queue /\ db'.index = i
  BY DEF PlaySong, SaveSettings, Inv, IsForgotten
<1>5. QueueTypeOK'
  BY <1>1, <1>2, <1>4, PlayIndexInv, IndicesOfList DEF QueueTypeOK
<1> QED
  BY <1>1, <1>2, <1>3, <1>4, <1>5, PlayIndexInv
  DEF Inv, TypeOK, SameQueue, CanBeFound, IsForgotten

\* The song before and the song after are songs of the list.
LEMMA NeighboursInList ==
  ASSUME TypeOK, Length(m_queue) > 0
  PROVE  /\ m_queue \in Lists
         /\ Following \in 0..(Size[m_queue] - 1)
         /\ Preceding \in 0..(Size[m_queue] - 1)
BY SizeAssumption DEF TypeOK, QueueTypeOK, InList, Length, Following, Preceding

\* The component goes on in its queue.
LEMMA GoesOnInv ==
  ASSUME Inv, Length(m_queue) > 0,
         PlayIndex(m_queue, Following) \/ PlayIndex(m_queue, Preceding),
         playState' \in {"playing", "paused", "stopped"},
         UNCHANGED <<pageVars, db, alive, m_takeover, dropped, forgotten>>
  PROVE  Inv'
<1>1. PICK i \in 0..(Size[m_queue] - 1) : PlayIndex(m_queue, i)
  BY NeighboursInList DEF Inv
<1>2. m_queue \in Lists
  BY NeighboursInList DEF Inv
<1>3. /\ m_queue' = m_queue /\ InList(m_queue', m_index')
      /\ ours' \in BOOLEAN /\ settled' \in BOOLEAN /\ ~settled'
      /\ FileTypeOK' /\ SongWanted' /\ IndexIsFiled'
  BY <1>1, <1>2, PlayIndexInv
<1>4. FlagTypeOK' /\ QueueTypeOK'
  BY <1>3 DEF Inv, TypeOK, FlagTypeOK, QueueTypeOK, pageVars
<1>5. SameQueue' /\ CanBeFound' /\ IsForgotten'
  BY <1>3 DEF Inv, SameQueue, CanBeFound, IsForgotten, pageVars
<1> QED BY <1>3, <1>4, <1>5 DEF Inv, TypeOK

\* The host's buttons.
LEMMA StepInv == ASSUME Inv, Step(Following) \/ Step(Preceding) PROVE Inv'
BY GoesOnInv DEF Step, hostVars, Inv, TypeOK, FlagTypeOK

\* A track ends: the queue goes on, or stays as it is.
LEMMA TrackEndsInv == ASSUME Inv, TrackEnds PROVE Inv'
<1>1. CASE PlayIndex(m_queue, Following) /\ Length(m_queue) > 0
  BY <1>1, GoesOnInv DEF TrackEnds
<1>2. CASE UNCHANGED <<m_queue, m_index, fetching, ours, stateIndex, settled>>
  <2>1. /\ UNCHANGED <<open, queue, queueIndex, db, alive, m_queue, m_index, m_takeover,
                       fetching, ours, stateIndex, playing, settled, dropped, forgotten>>
        /\ playState' = "stopped"
    BY <1>2 DEF TrackEnds, pageVars
  <2> QED
    BY <2>1 DEF Inv, TypeOK, FlagTypeOK, QueueTypeOK, FileTypeOK, SongWanted, SameQueue,
       IndexIsFiled, CanBeFound, IsForgotten
<1> QED BY <1>1, <1>2 DEF TrackEnds

-----------------------------------------------------------------------------
\* Inv is inductive.
LEMMA NextInv == Inv /\ [Next]_vars => Inv'
<1>1. Inv /\ Page => Inv'
  BY SearchInv, PlaySongInv, OtherSettingInv, PlayDownloadInv, ExitPluginInv,
     StopAndExitInv,
     PageDestroyedInv, OpenPageInv DEF Page
<1>2. Inv /\ Component => Inv'
  BY SongStartsInv, SongFailsInv, StepInv, TrackEndsInv, IdleTickInv, DestroyPluginInv
  DEF Component
<1> QED BY <1>1, <1>2, HostInv, PowerIsLostInv, StutterInv DEF Next

THEOREM Correct == Spec => []Inv
BY InitInv, NextInv, PTL DEF Spec

\* Every copy of the queue has an index of its own list, for any results: no
\* song is read that is not there.
THEOREM TypeCorrect == Spec => []TypeOK
<1>1. Inv => TypeOK
  BY DEF Inv
<1> QED BY Correct, <1>1, PTL

\* The page that still has the queue shows the song the host plays.
THEOREM PageShowsTheSong == Spec => []PageFollowsPlayer
<1>1. Inv => PageFollowsPlayer
  BY DEF Inv, CanBeFound, SameQueue, PageFollowsPlayer
<1> QED BY Correct, <1>1, PTL

\* A page that is opened again restores queue and index in page and component
\* to what the host plays.
THEOREM SongIsRestored == Spec => ReopenRestoresTheSong
<1>1. Inv /\ [Next]_vars =>
        [OpenPage /\ settled /\ isHostActive /\ ~dropped =>
           playing = Song(queue', queueIndex') /\ playing = Song(m_queue', m_index')]_vars
  <2> SUFFICES ASSUME Inv, OpenPage, settled, isHostActive, ~dropped
               PROVE  playing = Song(queue', queueIndex') /\ playing = Song(m_queue', m_index')
    OBVIOUS
  <2>1. /\ db.queue \in Lists /\ stateIndex \in 0..(Size[db.queue] - 1)
        /\ playing = Song(db.queue, stateIndex)
    BY DEF Inv, CanBeFound
  <2>2. Resumes /\ Restore = stateIndex
    BY <2>1, SizeAssumption DEF Resumes, Restore, Length
  <2> QED BY <2>1, <2>2 DEF OpenPage
<1> QED BY Correct, <1>1, PTL DEF Spec, ReopenRestoresTheSong

\* A queue that the user left with nothing playing is not brought back.
THEOREM ForgottenIsForgotten == Spec => ForgottenStaysForgotten
<1>1. Inv /\ [Next]_vars =>
        [OpenPage /\ forgotten => queue' = "empty" /\ queueIndex' = -1]_vars
  <2> SUFFICES ASSUME Inv, OpenPage, forgotten
               PROVE  queue' = "empty" /\ queueIndex' = -1
    OBVIOUS
  <2>1. db.queue = "empty" /\ db.index = -1
    BY DEF Inv, IsForgotten
  <2>2. ~Resumes
    BY <2>1, EmptyList, IndicesAreNat
    DEF Resumes, Restore, Length, Inv, TypeOK, FileTypeOK, Absent
  <2> QED BY <2>1, <2>2 DEF OpenPage
<1> QED BY Correct, <1>1, PTL DEF Spec, ForgottenStaysForgotten
=============================================================================
