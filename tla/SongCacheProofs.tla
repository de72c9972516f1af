-------------------------- MODULE SongCacheProofs --------------------------
(***************************************************************************)
(* First, that a file with the name of a song is whole, for any songs,     *)
(* recordings, sizes, links and numbers of faults: the promise of the      *)
(* comment on do_curl_download (src/runner/penmusic.c).  The invariant     *)
(* that carries it relates curl's position to what is on the disk: the     *)
(* .part that curl writes to has the length of its position, ends with the *)
(* recording being fetched as soon as a piece of it has come, and is gone  *)
(* once it was unlinked under curl's feet.                                 *)
(*                                                                         *)
(* Second, the types, and that the ages of the files are a total order.    *)
(* Third, what the component trusts: as long as it is not re-created       *)
(* beside a working runner (OneLife), the answer it takes is that of the   *)
(* download it waits for, and the file it plays is there.                  *)
(***************************************************************************)
EXTENDS SongCache, FiniteSetTheorems, TLAPS

Typed ==
  /\ mp3 \in [Songs -> Files] /\ part \in [Songs -> Files]
  /\ job \in {NoJob} \cup Transfers \cup Answers
  /\ cmds \in Seq(Commands)
  /\ m_cacheSeq \in Nat /\ asked \in Nat

\* Whatever is under way is about a song.
SongChosen ==
  m_step # "Idle" \/ m_cacheBusy => m_currentSong \in Songs

Position ==
  Fetching =>
    IF job.linked
    THEN /\ Len(part[job.song]) = job.at
         /\ job.at > job.from => Last(part[job.song]) = job.rec
    ELSE part[job.song] = NoFile

Inv == Typed /\ SongChosen /\ Position /\ NoHalfFile

-----------------------------------------------------------------------------
(* Files.                                                                  *)

\* Removing files leaves files.
LEMMA RemovedFiles ==
  ASSUME NEW f \in [Songs -> Files], NEW gone
  PROVE  /\ Removed(f, gone) \in [Songs -> Files]
         /\ \A s \in Songs : Removed(f, gone)[s] # NoFile => Removed(f, gone)[s] = f[s]
         /\ \A s \in Songs : s \in gone => Removed(f, gone)[s] = NoFile
         /\ \A s \in Songs : s \notin gone => Removed(f, gone)[s] = f[s]
BY DEF Removed, Files, NoFile

\* A piece appended is the last one.
LEMMA AppendedPiece ==
  ASSUME NEW f \in Files, NEW r \in Recordings
  PROVE  /\ Append(f, r) \in Files
         /\ Len(Append(f, r)) = Len(f) + 1
         /\ Last(Append(f, r)) = r
BY DEF Files, Last

\* Files that are only removed stay whole.
LEMMA RemovalKeepsWhole ==
  ASSUME Inv, NEW gone, mp3' = Removed(mp3, gone)
  PROVE  mp3' \in [Songs -> Files] /\ NoHalfFile'
BY RemovedFiles DEF Inv, Typed, NoHalfFile, Present

-----------------------------------------------------------------------------
LEMMA InitInv == Init => Inv
<1>1. Init => Typed
  BY DEF Init, Typed, Files, NoFile
<1>2. Init => SongChosen /\ Position
  BY DEF Init, SongChosen, Position, Fetching, NoJob
<1>3. Init => NoHalfFile
  BY DEF Init, NoHalfFile, Present
<1> QED BY <1>1, <1>2, <1>3 DEF Inv

\* The component's steps that touch no file.
LEMMA ComponentInv ==
  ASSUME Inv,
         \/ (\E s \in Songs : Play(s)) \/ Stop \/ CheckCache \/ PlayFile \/ Online
         \/ WaitPlaying \/ CacheAnswerIgnored \/ CacheTimeout
  PROVE  Inv'
<1>1. UNCHANGED <<mp3, part, job>>
  BY DEF Play, Stop, CheckCache, PlayFile, Online, WaitPlaying, CacheAnswerIgnored,
     CacheTimeout, fileVars, runnerVars
<1>2. Position' /\ NoHalfFile'
  BY <1>1 DEF Inv, Position, Fetching, NoHalfFile, Present
<1>3. SongChosen'
  BY DEF Inv, SongChosen, Play, Stop, CheckCache, PlayFile, Online, WaitPlaying,
     CacheAnswerIgnored, CacheTick, CacheTimeout, CancelPlay
<1>4. m_cacheSeq' \in Nat /\ asked' \in Nat
  BY DEF Inv, Typed, Play, Stop, CheckCache, PlayFile, Online, WaitPlaying,
     CacheAnswerIgnored, CacheTick, CacheTimeout, historyVars
<1>5. cmds' \in Seq(Commands)
  <2>1. CASE Online
    <3>1. m_currentSong \in Songs
      BY <2>1 DEF Inv, SongChosen, Online
    <3>2. Serves[m_currentSong] \subseteq Recordings
      BY <3>1, RecordingAssumption
    <3>3. ASSUME NEW r \in Recordings
          PROVE  [id |-> m_cacheSeq', song |-> m_currentSong,
                  rec |-> r, serial |-> asked'] \in Commands
      BY <1>4, <3>1 DEF Commands
    <3>4. \/ UNCHANGED cmds
          \/ \E c \in Commands : cmds' = Append(cmds, c)
      BY <2>1, <3>2, <3>3 DEF Online
    <3> QED BY <3>4 DEF Inv, Typed
  <2>2. CASE ~Online
    BY <2>2 DEF Inv, Typed, Play, Stop, CheckCache, PlayFile, WaitPlaying,
       CacheAnswerIgnored, CacheTick, CacheTimeout, runnerVars
  <2> QED BY <2>1, <2>2
<1> QED BY <1>1, <1>2, <1>3, <1>4, <1>5 DEF Inv, Typed

\* Unlinking a .part leaves curl where it is and its name gone.
LEMMA UnlinkInv ==
  ASSUME Inv, NEW gone, Unlink(gone)
  PROVE  /\ part' \in [Songs -> Files]
         /\ job' \in {NoJob} \cup Transfers \cup Answers
         /\ Position'
<1>1. part' \in [Songs -> Files]
  BY RemovedFiles DEF Inv, Typed, Unlink
<1>2. job' \in {NoJob} \cup Transfers \cup Answers
  BY DEF Inv, Typed, Unlink, Fetching, NoJob, Transfers, Answers
<1>3. ASSUME Fetching'
      PROVE  /\ Fetching /\ job.song \in Songs
             /\ job'.song = job.song /\ job'.at = job.at
             /\ job'.from = job.from /\ job'.rec = job.rec
             /\ job.song \in gone => ~job'.linked
             /\ job.song \notin gone => job' = job
  <2>1. Fetching
    BY <1>3 DEF Unlink, Fetching
  <2>2. job \in Transfers
    BY <2>1 DEF Inv, Typed, Fetching, NoJob, Answers
  <2>3. CASE job.song \in gone
    <3>1. job' = [job EXCEPT !.linked = FALSE]
      BY <2>1, <2>3 DEF Unlink
    <3> QED BY <2>1, <2>2, <2>3, <3>1 DEF Transfers
  <2>4. CASE job.song \notin gone
    <3>1. job' = job
      BY <2>4 DEF Unlink
    <3> QED BY <2>1, <2>2, <2>4, <3>1 DEF Transfers
  <2> QED BY <2>3, <2>4
<1>4. Position'
  <2> SUFFICES ASSUME Fetching'
               PROVE  IF job'.linked
                      THEN /\ Len(part'[job'.song]) = job'.at
                           /\ job'.at > job'.from => Last(part'[job'.song]) = job'.rec
                      ELSE part'[job'.song] = NoFile
    BY DEF Position
  <2>1. part' = Removed(part, gone) /\ part \in [Songs -> Files]
    BY DEF Unlink, Inv, Typed
  <2>2. CASE job.song \in gone
    BY <1>3, <2>1, <2>2, RemovedFiles
  <2>3. CASE job.song \notin gone
    <3>1. part'[job.song] = part[job.song]
      BY <1>3, <2>1, <2>3, RemovedFiles
    <3>2. job' = job
      BY <1>3, <2>3
    <3> QED BY <1>3, <3>1, <3>2 DEF Inv, Position
  <2> QED BY <2>2, <2>3
<1> QED BY <1>1, <1>2, <1>4

\* A good answer prunes, a bad one removes: neither writes to a file.
LEMMA CacheAnswerInv ==
  ASSUME Inv, CacheGood \/ CacheBad
  PROVE  Inv'
<1>1. /\ cmds' = cmds /\ m_cacheSeq' = m_cacheSeq /\ asked' = asked
      /\ m_cacheBusy /\ m_currentSong' = m_currentSong
  BY DEF CacheGood, CacheBad, CacheTick, historyVars
<1>2. SongChosen'
  BY <1>1 DEF Inv, SongChosen
<1>3. mp3' \in [Songs -> Files] /\ NoHalfFile'
  <2>1. \/ mp3' = Removed(mp3, Pruned)
        \/ mp3' = Removed(mp3, {m_cachePath})
    BY DEF CacheGood, CacheBad
  <2> QED BY <2>1, RemovalKeepsWhole
<1>4. /\ part' \in [Songs -> Files]
      /\ job' \in {NoJob} \cup Transfers \cup Answers
      /\ Position'
  <2>1. CASE CacheGood
    BY <2>1 DEF CacheGood, Inv, Typed, Position, Fetching
  <2>2. CASE CacheBad
    BY <2>2, UnlinkInv DEF CacheBad
  <2> QED BY <2>1, <2>2
<1> QED BY <1>1, <1>2, <1>3, <1>4 DEF Inv, Typed

-----------------------------------------------------------------------------
\* The runner's steps.
LEMMA RunnerInv ==
  ASSUME Inv, RunnerStep
  PROVE  Inv'
<1>0. UNCHANGED <<m_step, m_cacheBusy, m_currentSong, m_cacheSeq, asked>>
  BY DEF RunnerStep, TakeCommand, CurlReceives, CurlSucceeds, CurlFails, Answer,
     RunnerStarts, soVars, historyVars
<1>a. SongChosen' /\ m_cacheSeq' \in Nat /\ asked' \in Nat
  BY <1>0 DEF Inv, Typed, SongChosen
<1>1. CASE TakeCommand
  <2>1. Head(cmds) \in Commands /\ cmds' \in Seq(Commands)
    BY <1>1 DEF TakeCommand, Inv, Typed
  <2>2. /\ part' = part /\ mp3' = mp3 /\ job' = FirstAttempt(Head(cmds))
    BY <1>1 DEF TakeCommand, fileVars
  <2>3. job' \in Transfers
    BY <2>1, <2>2 DEF FirstAttempt, Commands, Transfers, Inv, Typed, Files
  <2>4. Position'
    BY <2>1, <2>2 DEF FirstAttempt, Commands, Position, Inv, Typed, Files
  <2> QED BY <1>a, <2>1, <2>2, <2>3, <2>4 DEF Inv, Typed, NoHalfFile, Present
<1>2. CASE CurlReceives
  <2>1. job \in Transfers /\ job.song \in Songs /\ job.rec \in Recordings
    BY <1>2 DEF CurlReceives, Fetching, Inv, Typed, NoJob, Answers, Transfers
  <2>2. cmds' = cmds /\ mp3' = mp3
    BY <1>2 DEF CurlReceives
  <2>3. /\ job' \in Transfers /\ job'.at = job.at + 1 /\ job'.song = job.song
        /\ job'.rec = job.rec /\ job'.linked = job.linked
    BY <1>2, <2>1 DEF CurlReceives, Transfers
  <2>4. CASE job.linked
    <3>1. part' = [part EXCEPT ![job.song] = Append(part[job.song], job.rec)]
      BY <1>2, <2>4 DEF CurlReceives
    <3>2. /\ Len(part[job.song]) = job.at /\ part[job.song] \in Files
      BY <1>2, <2>1, <2>4 DEF CurlReceives, Inv, Typed, Position
    <3>3. /\ part' \in [Songs -> Files]
          /\ Len(part'[job.song]) = job.at + 1
          /\ Last(part'[job.song]) = job.rec
      BY <2>1, <3>1, <3>2, AppendedPiece DEF Inv, Typed
    <3> QED BY <1>a, <2>2, <2>3, <2>4, <3>3 DEF Inv, Typed, Position, NoHalfFile, Present
  <2>5. CASE ~job.linked
    <3>1. part' = part /\ part[job.song] = NoFile
      BY <1>2, <2>5 DEF CurlReceives, Inv, Position
    <3> QED BY <1>a, <2>2, <2>3, <2>5, <3>1 DEF Inv, Typed, Position, NoHalfFile, Present
  <2> QED BY <2>4, <2>5
<1>3. CASE CurlSucceeds
  <2>1. job \in Transfers /\ job.song \in Songs
    BY <1>3 DEF CurlSucceeds, Fetching, Inv, Typed, NoJob, Answers, Transfers
  <2>2. /\ part[job.song] # NoFile /\ job.at = Size[job.rec] /\ job.at > job.from
        /\ Len(part[job.song]) = job.at
    BY <1>3 DEF CurlSucceeds, CurlComplete
  <2>3. Last(part[job.song]) = job.rec
    BY <1>3, <2>2 DEF CurlSucceeds, Inv, Position
  <2>4. /\ mp3' = [mp3 EXCEPT ![job.song] = part[job.song]]
        /\ part' = [part EXCEPT ![job.song] = NoFile]
        /\ cmds' = cmds
    BY <1>3 DEF CurlSucceeds
  <2>5. mp3' \in [Songs -> Files] /\ part' \in [Songs -> Files]
    BY <2>1, <2>4 DEF Inv, Typed, Files, NoFile
  <2>6. job' \in Answers /\ ~Fetching'
    <3>1. Len(part[job.song]) \in Nat
      BY <2>1 DEF Inv, Typed, Files
    <3> QED BY <1>3, <2>1, <3>1 DEF CurlSucceeds, JobAnswers, Answers, Transfers, Fetching
  <2>7. NoHalfFile'
    BY <2>1, <2>2, <2>3, <2>4 DEF Inv, Typed, NoHalfFile, Present
  <2> QED BY <1>a, <2>4, <2>5, <2>6, <2>7 DEF Inv, Typed, Position
<1>4. CASE CurlFails
  <2>1. job \in Transfers /\ job.song \in Songs
    BY <1>4 DEF CurlFails, Fetching, Inv, Typed, NoJob, Answers, Transfers
  <2>2. cmds' = cmds /\ mp3' = mp3
    BY <1>4 DEF CurlFails
  <2>3. CASE job.first
    <3>1. /\ part' = Removed(part, {job.song})
          /\ job' = [job EXCEPT !.first = FALSE, !.linked = TRUE, !.from = 0, !.at = 0]
      BY <1>4, <2>3 DEF CurlFails
    <3>2. part' \in [Songs -> Files] /\ part'[job.song] = NoFile
      BY <2>1, <3>1, RemovedFiles DEF Inv, Typed
    <3>3. /\ job' \in Transfers /\ job'.linked /\ job'.from = 0 /\ job'.at = 0
          /\ job'.song = job.song
      BY <2>1, <3>1 DEF Transfers
    <3>4. Position'
      BY <3>2, <3>3 DEF Position, NoFile
    <3> QED BY <1>a, <2>2, <3>2, <3>3, <3>4 DEF Inv, Typed, NoHalfFile, Present
  <2>4. CASE ~job.first
    <3>1. part' = part /\ job' \in Answers /\ ~Fetching'
      BY <1>4, <2>1, <2>4 DEF CurlFails, JobAnswers, Answers, Transfers, Fetching
    <3> QED BY <1>a, <2>2, <3>1 DEF Inv, Typed, Position, NoHalfFile, Present
  <2> QED BY <2>3, <2>4
<1>5. CASE Answer \/ RunnerStarts
  <2>1. /\ UNCHANGED <<mp3, part>> /\ job' \in {NoJob, job} /\ cmds' \in {<<>>, cmds}
    BY <1>5 DEF Answer, RunnerStarts, fileVars
  <2>2. Typed'
    <3>1. cmds' \in Seq(Commands)
      <4>1. <<>> \in Seq(Commands) /\ cmds \in Seq(Commands)
        BY DEF Inv, Typed
      <4> QED BY <2>1, <4>1
    <3>2. job' \in {NoJob} \cup Transfers \cup Answers
      BY <2>1 DEF Inv, Typed
    <3> QED BY <1>a, <2>1, <3>1, <3>2 DEF Inv, Typed
  <2>3. Position'
    BY <2>1 DEF Inv, Position, Fetching, NoJob
  <2> QED BY <1>a, <2>1, <2>2, <2>3 DEF Inv, NoHalfFile, Present
<1> QED BY <1>1, <1>2, <1>3, <1>4, <1>5 DEF RunnerStep

-----------------------------------------------------------------------------
\* The markers the next component may find: those there are, the marker of a
\* good answer empty, or that marker written.
MarkersLeft(markers) ==
  \/ markers \in {ok, Unmarked(ok, {m_cachePath})}
  \/ AnswerPending /\ GoodAnswer /\ markers = MarkedNow

\* Wherever the power fails, the next component starts from nothing and keeps
\* files and markers as they are or removes them.
LEMMA NewComponentFacts ==
  ASSUME PowerLoss \/ Recreated
  PROVE  /\ m_step' = "Idle" /\ m_currentSong' = NoSong /\ m_cachePath' = NoSong
         /\ m_cacheBusy' = FALSE /\ m_cacheSeq' = 0 /\ m_playAfterCache' = FALSE
         /\ \E bad, markers :
              /\ mp3' = Removed(mp3, bad) /\ newer' = Without(bad)
              /\ ok' = Unmarked(markers, bad) /\ MarkersLeft(markers)
<1>1. \E gone, markers : NewComponent(gone, markers) /\ MarkersLeft(markers)
  <2>1. CASE Recreated
    BY <2>1 DEF Recreated, MarkersLeft
  <2>2. CASE NextComponentAfterPowerLoss
    BY <2>2 DEF NextComponentAfterPowerLoss, MarkersLeft
  <2> QED BY <2>1, <2>2 DEF PowerLoss
<1>2. PICK gone, markers : NewComponent(gone, markers) /\ MarkersLeft(markers)
  BY <1>1
<1>3. CleanInvalidCache(gone, markers)
  BY <1>2 DEF NewComponent
<1>4. \E bad : /\ mp3' = Removed(mp3, bad) /\ newer' = Without(bad)
              /\ ok' = Unmarked(markers, bad)
  BY <1>3 DEF CleanInvalidCache
<1>5. /\ m_step' = "Idle" /\ m_currentSong' = NoSong /\ m_cachePath' = NoSong
      /\ m_cacheBusy' = FALSE /\ m_cacheSeq' = 0 /\ m_playAfterCache' = FALSE
  BY <1>2 DEF NewComponent
<1> QED BY <1>2, <1>4, <1>5

\* Faults.  What curl adds to a .part when its parent is killed makes it
\* longer, and nobody's position depends on it.
LEMMA FaultInv ==
  ASSUME Inv, RunnerKilled \/ PowerLoss \/ Recreated
  PROVE  Inv'
<1>1. CASE RunnerKilled
  <2>1. job' = NoJob /\ cmds' = <<>> /\ mp3' = mp3
    BY <1>1 DEF RunnerKilled
  <2>2. part' \in [Songs -> Files]
    <3>1. CASE Fetching /\ job.linked
      <4>1. job \in Transfers /\ job.rec \in Recordings
        BY <3>1 DEF Fetching, Inv, Typed, NoJob, Answers, Transfers
      <4>2. PICK n \in 0..(Size[job.rec] - job.at) :
              part' = [part EXCEPT ![job.song] = @ \o [i \in 1..n |-> job.rec]]
        BY <1>1, <3>1 DEF RunnerKilled, CurlLingers
      <4>3. Size[job.rec] - job.at \in Int /\ n \in Nat
        BY <4>1, <4>2, RecordingAssumption DEF Transfers
      <4>4. [i \in 1..n |-> job.rec] \in Seq(Recordings)
        BY <4>1, <4>3
      <4>5. \A f \in Files : f \o [i \in 1..n |-> job.rec] \in Files
        BY <4>4 DEF Files
      <4> QED BY <4>2, <4>5 DEF Inv, Typed
    <3>2. CASE ~(Fetching /\ job.linked)
      BY <1>1, <3>2 DEF RunnerKilled, CurlLingers, Inv, Typed
    <3> QED BY <3>1, <3>2
  <2>3. UNCHANGED <<m_step, m_cacheBusy, m_currentSong, m_cacheSeq, asked>>
    BY <1>1 DEF RunnerKilled, soVars, historyVars
  <2> QED BY <2>1, <2>2, <2>3 DEF Inv, Typed, SongChosen, Position, Fetching, NoJob,
             NoHalfFile, Present
<1>2. CASE PowerLoss
  <2>1. /\ m_step' = "Idle" /\ m_cacheBusy' = FALSE /\ m_cacheSeq' = 0 /\ asked' = asked
        /\ job' = NoJob /\ cmds' = <<>> /\ part' = Removed(part, Songs)
    BY <1>2, NewComponentFacts DEF PowerLoss, historyVars
  <2>2. mp3' \in [Songs -> Files] /\ NoHalfFile'
    BY <1>2, NewComponentFacts, RemovalKeepsWhole
  <2>3. part' \in [Songs -> Files]
    BY <2>1, RemovedFiles DEF Inv, Typed
  <2> QED BY <2>1, <2>2, <2>3 DEF Inv, Typed, SongChosen, Position, Fetching, NoJob
<1>3. CASE Recreated
  <2>1. /\ m_step' = "Idle" /\ m_cacheBusy' = FALSE /\ m_cacheSeq' = 0
        /\ cmds' = cmds /\ asked' = asked
    BY <1>3, NewComponentFacts DEF Recreated
  <2>2. mp3' \in [Songs -> Files] /\ NoHalfFile'
    BY <1>3, NewComponentFacts, RemovalKeepsWhole
  <2>3. /\ part' \in [Songs -> Files]
        /\ job' \in {NoJob} \cup Transfers \cup Answers
        /\ Position'
    BY <1>3, UnlinkInv DEF Recreated
  <2> QED BY <2>1, <2>2, <2>3 DEF Inv, Typed, SongChosen
<1> QED BY <1>1, <1>2, <1>3

\* Inv is inductive.
LEMMA NextInv == Inv /\ [Next]_vars => Inv'
<1> SUFFICES ASSUME Inv, [Next]_vars PROVE Inv'
  OBVIOUS
<1>1. CASE Next
  BY <1>1, ComponentInv, CacheAnswerInv, RunnerInv, FaultInv DEF Next, Component
<1>2. CASE UNCHANGED vars
  BY <1>2 DEF vars, soVars, fileVars, runnerVars, historyVars, Inv, Typed,
     SongChosen, Position, Fetching, NoHalfFile, Present
<1> QED BY <1>1, <1>2

LEMMA Correct == Spec => []Inv
BY InitInv, NextInv, PTL DEF Spec

\* A file with the name of a song is the result of one complete transfer, for
\* every number of songs, downloads, kills, power losses and re-creations.
THEOREM FilesAreWhole == Spec => []NoHalfFile
<1>1. Inv => NoHalfFile
  BY DEF Inv
<1> QED BY Correct, <1>1, PTL

-----------------------------------------------------------------------------
(* Types and the order of the files.                                       *)

\* While a download is waited for it is the current song's, and nothing is
\* being started.
Waits == m_cacheBusy => m_cachePath = m_currentSong /\ m_step \in {"Idle", "WaitPlaying"}

Shape == /\ ComponentTypeOK /\ Waits /\ HistoryTypeOK /\ ok \in [Songs -> Nat]
         /\ resp \in Responses /\ runnerUp \in BOOLEAN

LEMMA InitShape == Init => Shape
<1> SUFFICES ASSUME Init PROVE Shape
  OBVIOUS
<1>1. ComponentTypeOK /\ Waits
  BY DEF Init, ComponentTypeOK, Waits
<1>2. HistoryTypeOK /\ runnerUp \in BOOLEAN
  <2>1. asked = 0 /\ waitedFor = 0 /\ reborn = FALSE /\ runnerUp = TRUE
    BY DEF Init
  <2>2. asked \in Nat /\ waitedFor \in 0..asked
    BY <2>1
  <2>3. reborn \in BOOLEAN /\ runnerUp \in BOOLEAN
    BY <2>1
  <2> QED BY <2>2, <2>3 DEF HistoryTypeOK
<1>3. resp \in Responses /\ ok \in [Songs -> Nat]
  BY DEF Init, Responses, NoResp, NoMarker
<1> QED BY <1>1, <1>2, <1>3 DEF Shape

LEMMA ComponentShape ==
  ASSUME Inv, Shape, Component PROVE Shape'
<1>1. ComponentTypeOK' /\ Waits'
  <2>1. CASE (\E s \in Songs : Play(s)) \/ Stop
    BY <2>1 DEF Shape, ComponentTypeOK, Waits, Play, Stop, CancelPlay
  <2>2. CASE CheckCache \/ PlayFile
    BY <2>2 DEF Shape, ComponentTypeOK, Waits, CheckCache, PlayFile
  <2>3. CASE Online
    BY <2>3 DEF Shape, ComponentTypeOK, Waits, Online
  <2>4. CASE WaitPlaying
    BY <2>4 DEF Shape, ComponentTypeOK, Waits, WaitPlaying
  <2>5. CASE CacheAnswerIgnored
    BY <2>5 DEF Shape, ComponentTypeOK, Waits, CacheAnswerIgnored, CacheTick
  <2>8. CASE CacheTimeout
    BY <2>8 DEF Shape, ComponentTypeOK, Waits, CacheTimeout
  <2>6. CASE CacheGood
    BY <2>6 DEF Shape, ComponentTypeOK, Waits, CacheGood, CacheTick
  <2>7. CASE CacheBad
    BY <2>7 DEF Shape, ComponentTypeOK, Waits, CacheBad, CacheTick
  <2> QED BY <2>1, <2>2, <2>3, <2>4, <2>5, <2>6, <2>7, <2>8 DEF Component
<1>2. HistoryTypeOK' /\ runnerUp' \in BOOLEAN
  BY DEF Shape, HistoryTypeOK, Component, Play, Stop, CheckCache, PlayFile, Online,
     WaitPlaying, CacheAnswerIgnored, CacheGood, CacheBad, CacheTick, CacheTimeout,
     historyVars, runnerVars
<1>3. resp' \in Responses
  <2>1. NoResp \in Responses
    BY DEF NoResp, Responses
  <2>2. resp' \in {resp, NoResp}
    BY DEF Component, Play, Stop, CheckCache, PlayFile, Online, WaitPlaying, CancelPlay,
       CacheAnswerIgnored, CacheGood, CacheBad, CacheTick, CacheTimeout
  <2> QED BY <2>1, <2>2 DEF Shape
<1>4. ok' \in [Songs -> Nat]
  <2>1. CASE CacheGood
    <3>1. m_cachePath \in Songs
      BY <2>1 DEF CacheGood, CacheTick, Inv, SongChosen, Shape, Waits
    <3>2. Len(mp3[m_cachePath]) \in Nat
      BY <3>1 DEF Inv, Typed, Files
    <3> QED BY <2>1, <3>1, <3>2 DEF CacheGood, MarkedNow, Shape
  <2>2. CASE CacheBad
    BY <2>2 DEF CacheBad, Shape, Unmarked, NoMarker
  <2>3. CASE ~CacheGood /\ ~CacheBad
    BY <2>3 DEF Shape, Component, Play, Stop, CheckCache, PlayFile, Online, WaitPlaying,
       CacheAnswerIgnored, CacheTimeout, fileVars
  <2> QED BY <2>1, <2>2, <2>3
<1> QED BY <1>1, <1>2, <1>3, <1>4 DEF Shape

LEMMA RunnerShape ==
  ASSUME Inv, Shape, RunnerStep \/ RunnerKilled PROVE Shape'
<1>1. /\ UNCHANGED <<soVars, ok, historyVars>> /\ runnerUp' \in BOOLEAN
  BY DEF RunnerStep, TakeCommand, CurlReceives, CurlSucceeds, CurlFails, Answer,
     RunnerStarts, RunnerKilled, fileVars, Shape
<1>2. resp' \in Responses
  <2>1. CASE Answer
    <3>1. job \in Answers
      BY <2>1 DEF Answer, Inv, Typed, NoJob, Transfers
    <3> QED BY <2>1, <3>1 DEF Answer, Answers, Responses, Failed
  <2>2. CASE ~Answer
    BY <2>2 DEF RunnerStep, TakeCommand, CurlReceives, CurlSucceeds, CurlFails,
       RunnerStarts, RunnerKilled, Shape
  <2> QED BY <2>1, <2>2
<1> QED BY <1>1, <1>2 DEF Shape, ComponentTypeOK, Waits, HistoryTypeOK, soVars,
           historyVars

LEMMA NewComponentShape ==
  ASSUME Inv, Shape, PowerLoss \/ Recreated PROVE Shape'
<1>1. ComponentTypeOK' /\ Waits'
  <2>1. /\ m_step' = "Idle" /\ m_currentSong' = NoSong /\ m_cachePath' = NoSong
        /\ m_cacheBusy' = FALSE /\ m_cacheSeq' = 0 /\ m_playAfterCache' = FALSE
    BY NewComponentFacts
  <2> QED BY <2>1 DEF ComponentTypeOK, Waits
<1>2. HistoryTypeOK' /\ runnerUp' \in BOOLEAN
  BY DEF PowerLoss, Recreated, Shape, HistoryTypeOK, historyVars
<1>3. resp' \in Responses
  BY DEF PowerLoss, Recreated, Shape, NoResp, Responses
<1>4. ok' \in [Songs -> Nat]
  <2>1. PICK bad, markers : ok' = Unmarked(markers, bad) /\ MarkersLeft(markers)
    BY NewComponentFacts
  <2>2. CASE markers \in {ok, Unmarked(ok, {m_cachePath})}
    BY <2>1, <2>2 DEF Shape, Unmarked, NoMarker
  <2>3. CASE AnswerPending /\ markers = MarkedNow
    <3>1. m_cachePath \in Songs
      BY <2>3 DEF AnswerPending, Inv, SongChosen, Shape, Waits
    <3>2. Len(mp3[m_cachePath]) \in Nat
      BY <3>1 DEF Inv, Typed, Files
    <3>3. markers \in [Songs -> Nat]
      BY <2>3, <3>2 DEF MarkedNow, Shape
    <3> QED BY <2>1, <3>3 DEF Unmarked, NoMarker
  <2> QED BY <2>1, <2>2, <2>3 DEF MarkersLeft
<1> QED BY <1>1, <1>2, <1>3, <1>4 DEF Shape

LEMMA NextShape == Inv /\ Shape /\ [Next]_vars => Shape'
<1>1. UNCHANGED vars /\ Shape => Shape'
  BY DEF vars, soVars, fileVars, runnerVars, historyVars, Shape, ComponentTypeOK,
     Waits, HistoryTypeOK
<1> QED BY <1>1, ComponentShape, RunnerShape, NewComponentShape DEF Next

-----------------------------------------------------------------------------
LEMMA OrderFacts ==
  ASSUME OrderOK
  PROVE  /\ Present \subseteq Songs
         /\ \A s \in Songs : \A t \in newer[s] : t \in Songs
         /\ \A s \in Songs : s \notin newer[s]
         /\ \A s \in Songs : \A t \in newer[s] : \A u \in newer[t] : u \in newer[s]
         /\ \A s, t \in Present : s = t \/ t \in newer[s] \/ s \in newer[t]
<1>1. Present \subseteq Songs
  BY DEF Present
<1>2. \A s \in Songs : \A t \in newer[s] : t \in Songs
  BY <1>1 DEF OrderOK
<1>3. \A s \in Songs : s \notin newer[s]
  BY DEF OrderOK
<1>4. ASSUME NEW s \in Songs, NEW t \in newer[s], NEW u \in newer[t] PROVE u \in newer[s]
  <2>1. newer[t] \subseteq newer[s]
    BY DEF OrderOK
  <2> QED BY <2>1
<1>5. \A s, t \in Present : s = t \/ t \in newer[s] \/ s \in newer[t]
  BY DEF OrderOK
<1> QED BY <1>1, <1>2, <1>3, <1>4, <1>5

\* Files that are removed leave the order of the others.
LEMMA RemovalKeepsOrder ==
  ASSUME OrderOK, mp3 \in [Songs -> Files], NEW gone,
         mp3' = Removed(mp3, gone), newer' = Without(gone)
  PROVE  OrderOK'
<1>1. Present' = Present \ gone
  BY DEF Present, Removed
<1>2. \A s \in Songs : newer'[s] = IF s \in gone THEN {} ELSE newer[s] \ gone
  BY DEF Without
<1>3. newer' \in [Songs -> SUBSET Present']
  BY <1>1 DEF Without, OrderOK
<1>4. \A s \in Songs \ Present' : newer'[s] = {}
  BY <1>1, <1>2 DEF OrderOK
<1>5. ASSUME NEW s \in Present', NEW t \in Present', s # t
      PROVE  t \in newer'[s] \/ s \in newer'[t]
  <2>1. s \in Present /\ t \in Present /\ s \notin gone /\ t \notin gone
    BY <1>1
  <2>2. t \in newer[s] \/ s \in newer[t]
    BY <1>5, <2>1, OrderFacts
  <2>3. newer'[s] = newer[s] \ gone /\ newer'[t] = newer[t] \ gone
    BY <1>2, <2>1, OrderFacts
  <2> QED BY <2>1, <2>2, <2>3
<1>6. ASSUME NEW s \in Songs
      PROVE  s \notin newer'[s] /\ \A t \in newer'[s] : newer'[t] \subseteq newer'[s]
  <2>1. s \notin newer'[s]
    BY <1>2, OrderFacts
  <2>2. ASSUME NEW t \in newer'[s], NEW u \in newer'[t] PROVE u \in newer'[s]
    <3>1. t \in newer[s] /\ s \notin gone
      BY <1>2
    <3>2. t \in Songs
      BY <3>1, OrderFacts
    <3>3. u \in newer[t] /\ u \notin gone
      BY <1>2, <3>2
    <3>4. u \in newer[s]
      BY <3>1, <3>3, OrderFacts
    <3> QED BY <1>2, <3>1, <3>3, <3>4
  <2> QED BY <2>1, <2>2
<1> QED BY <1>3, <1>4, <1>5, <1>6 DEF OrderOK

\* A file just completed is newer than all others.
LEMMA CompletionKeepsOrder ==
  ASSUME OrderOK, mp3 \in [Songs -> Files], NEW new \in Songs,
         part[new] # NoFile, mp3' = [mp3 EXCEPT ![new] = part[new]],
         newer' = WithNewest(new)
  PROVE  OrderOK'
<1>1. Present' = Present \cup {new}
  BY DEF Present
<1>2. \A s \in Songs : newer'[s] = IF s \in Present \ {new} THEN newer[s] \cup {new} ELSE {}
  BY DEF WithNewest
<1>3. newer' \in [Songs -> SUBSET Present']
  BY <1>1 DEF WithNewest, OrderOK
<1>4. \A s \in Songs \ Present' : newer'[s] = {}
  BY <1>1, <1>2 DEF OrderOK
<1>5. ASSUME NEW s \in Present', NEW t \in Present', s # t
      PROVE  t \in newer'[s] \/ s \in newer'[t]
  <2>1. s \in Present \cup {new} /\ t \in Present \cup {new}
    BY <1>1
  <2>2. \A u \in Present : u # new => newer'[u] = newer[u] \cup {new}
    BY <1>2, OrderFacts
  <2>3. CASE s = new
    BY <1>5, <2>1, <2>2, <2>3
  <2>4. CASE t = new
    BY <1>5, <2>1, <2>2, <2>4
  <2>5. CASE s # new /\ t # new
    <3>1. s \in Present /\ t \in Present
      BY <2>1, <2>5
    <3>2. t \in newer[s] \/ s \in newer[t]
      BY <1>5, <3>1, OrderFacts
    <3> QED BY <2>2, <2>5, <3>1, <3>2
  <2> QED BY <2>3, <2>4, <2>5
<1>6. ASSUME NEW s \in Songs
      PROVE  s \notin newer'[s] /\ \A t \in newer'[s] : newer'[t] \subseteq newer'[s]
  <2>1. s \notin newer'[s]
    BY <1>2, OrderFacts
  <2>2. ASSUME NEW t \in newer'[s], NEW u \in newer'[t] PROVE u \in newer'[s]
    <3>1. s \in Present \ {new} /\ t \in newer[s] \cup {new}
      BY <1>2
    <3>2. newer'[s] = newer[s] \cup {new}
      BY <1>2, <3>1
    <3>3. newer'[new] = {}
      BY <1>2
    <3>4. t \in newer[s] /\ t # new
      BY <3>1, <3>3
    <3>5. t \in Songs
      BY <3>4, OrderFacts
    <3>6. u \in newer[t] \cup {new}
      BY <1>2, <3>5
    <3>7. u \in newer[t] => u \in newer[s]
      BY <3>4, OrderFacts
    <3> QED BY <3>2, <3>6, <3>7
  <2> QED BY <2>1, <2>2
<1> QED BY <1>3, <1>4, <1>5, <1>6 DEF OrderOK

LEMMA NextOrder == Inv /\ OrderOK /\ [Next]_vars => OrderOK'
<1> SUFFICES ASSUME Inv, OrderOK, [Next]_vars PROVE OrderOK'
  OBVIOUS
<1>0. mp3 \in [Songs -> Files]
  BY DEF Inv, Typed
<1>1. CASE UNCHANGED <<mp3, newer>>
  BY <1>1 DEF OrderOK, Present
<1>2. CASE CacheGood \/ CacheBad \/ PowerLoss \/ Recreated
  <2>1. \E gone : mp3' = Removed(mp3, gone) /\ newer' = Without(gone)
    BY <1>2, NewComponentFacts DEF CacheGood, CacheBad
  <2> QED BY <1>0, <2>1, RemovalKeepsOrder
<1>3. CASE CurlSucceeds
  <2>1. job.song \in Songs
    BY <1>3 DEF CurlSucceeds, Fetching, Inv, Typed, NoJob, Answers, Transfers
  <2> QED BY <1>0, <1>3, <2>1, CompletionKeepsOrder DEF CurlSucceeds, CurlComplete
<1>4. \/ UNCHANGED <<mp3, newer>> \/ CurlSucceeds
      \/ CacheGood \/ CacheBad \/ PowerLoss \/ Recreated
  BY DEF Next, Component, Play, Stop, CheckCache, PlayFile, Online, WaitPlaying,
     CacheAnswerIgnored, CacheTimeout, RunnerStep, TakeCommand, CurlReceives, CurlFails,
     Answer, RunnerStarts, RunnerKilled, vars, fileVars
<1> QED BY <1>1, <1>2, <1>3, <1>4

\* Types, and the order of the files, in every reachable state.
THEOREM TypeCorrect == Spec => []TypeOK
<1>1. Init => OrderOK
  BY DEF Init, OrderOK, Present
<1>2. Inv /\ Shape /\ OrderOK => TypeOK
  BY DEF Inv, Typed, Shape, TypeOK, FileTypeOK, RunnerTypeOK
<1> QED BY Correct, InitShape, NextShape, <1>1, NextOrder, <1>2, PTL DEF Spec
-----------------------------------------------------------------------------
(* What the component trusts.  As long as it is not re-created beside a    *)
(* working runner, the downloads it asked for are numbered in order, each  *)
(* number is under way once, and only the newest is waited for.            *)

HasJob == job.state \in {"transfer", "answer"}

Counted == m_cacheSeq <= asked /\ waitedFor = asked

\* x is the download that has its number, counted from the last power loss.
Numbered(x) == x.id \in 1..m_cacheSeq /\ x.serial = x.id + asked - m_cacheSeq

CommandsOrdered ==
  \A i \in 1..Len(cmds) :
    Numbered(cmds[i]) /\ \A k \in 1..Len(cmds) : i < k => cmds[i].id < cmds[k].id
JobOrdered ==
  HasJob => Numbered(job) /\ \A i \in 1..Len(cmds) : job.id < cmds[i].id
AnswerOrdered ==
  resp.id # 0 => /\ Numbered(resp)
                 /\ HasJob => resp.id < job.id
                 /\ \A i \in 1..Len(cmds) : resp.id < cmds[i].id
Ordered == CommandsOrdered /\ JobOrdered /\ AnswerOrdered

\* The file that is waited for is there, n long, and newer than all others.
NewestIsWhole(n) == Len(mp3[m_cachePath]) = n /\ newer[m_cachePath] = {}

\* The download waited for is of the song waited for; once it was answered
\* well the file is there.
AwaitedIsOurs ==
  /\ m_cacheSeq > 0
  /\ \A i \in 1..Len(cmds) : cmds[i].id = m_cacheSeq => cmds[i].song = m_cachePath
  /\ HasJob /\ job.id = m_cacheSeq => job.song = m_cachePath
AwaitedIsWhole ==
  /\ job.state = "answer" /\ job.id = m_cacheSeq /\ job.size # Failed
       => NewestIsWhole(job.size)
  /\ resp.id = m_cacheSeq /\ resp.size # Failed => NewestIsWhole(resp.size)
Awaited == m_cacheBusy => AwaitedIsOurs /\ AwaitedIsWhole

MarkersFit == \A s \in Songs : ok[s] # NoMarker => ok[s] >= Declared[s]

FileToPlay == m_step = "PlayFile" => mp3[m_currentSong] # NoFile

OneLife ==
  ~reborn => Counted /\ Ordered /\ Awaited /\ MarkersFit /\ FileToPlay

-----------------------------------------------------------------------------
LEMMA JobFacts ==
  ASSUME Inv
  PROVE  /\ HasJob => job.id \in Nat /\ job.serial \in Nat /\ job.song \in Songs
         /\ Fetching => job \in Transfers
         /\ job.state = "answer" => job \in Answers
         /\ job = NoJob => ~HasJob
BY DEF Inv, Typed, HasJob, Fetching, NoJob, Transfers, Answers

LEMMA CommandFacts ==
  ASSUME Inv
  PROVE  \A i \in 1..Len(cmds) :
           cmds[i].id \in Nat /\ cmds[i].serial \in Nat /\ cmds[i].song \in Songs
<1>1. \A i \in 1..Len(cmds) : cmds[i] \in Commands
  BY DEF Inv, Typed
<1> QED BY <1>1 DEF Commands

LEMMA CountFacts ==
  ASSUME Inv, Shape
  PROVE  /\ m_cacheSeq \in Nat /\ asked \in Nat
         /\ resp.id \in Nat /\ resp.serial \in Nat /\ resp.size \in Nat \cup {Failed}
         /\ m_cachePath \in Songs \cup {NoSong}
         /\ m_cacheBusy => /\ m_cachePath = m_currentSong /\ m_cachePath \in Songs
                           /\ m_step \in {"Idle", "WaitPlaying"}
BY DEF Inv, Typed, SongChosen, Shape, ComponentTypeOK, Waits, Responses

\* The steps that leave the runner the work it has.
SameJob ==
  /\ HasJob' <=> HasJob
  /\ HasJob => job'.id = job.id /\ job'.serial = job.serial /\ job'.song = job.song
SameWork ==
  SameJob /\ UNCHANGED <<cmds, m_cacheSeq, asked>> /\ resp' \in {resp, NoResp}

\* A download is asked for.
Asks ==
  /\ UNCHANGED job /\ resp' = NoResp /\ ~m_cacheBusy
  /\ m_cacheSeq' = m_cacheSeq + 1 /\ asked' = asked + 1
  /\ m_cachePath' = m_currentSong /\ m_currentSong \in Songs
  /\ \/ m_cacheBusy' = FALSE /\ UNCHANGED cmds
     \/ \E r \in Recordings :
          cmds' = Append(cmds, [id |-> m_cacheSeq + 1, song |-> m_currentSong,
                                rec |-> r, serial |-> asked + 1])

LEMMA OnlineAsks ==
  ASSUME Inv, Online
  PROVE  Asks \/ UNCHANGED <<m_cacheBusy, m_cacheSeq, resp, cmds, asked, job>>
<1>1. m_currentSong \in Songs /\ job' = job
  BY DEF Online, Inv, SongChosen
<1>2. CASE m_cacheBusy \/ CacheHit(m_currentSong)
  BY <1>1, <1>2 DEF Online
<1>3. CASE ~(m_cacheBusy \/ CacheHit(m_currentSong))
  <2>1. Serves[m_currentSong] \subseteq Recordings
    BY <1>1, RecordingAssumption
  <2>2. /\ resp' = NoResp /\ m_cacheSeq' = m_cacheSeq + 1 /\ asked' = asked + 1
        /\ m_cachePath' = m_currentSong /\ ~m_cacheBusy /\ m_cacheBusy' = runnerUp
    BY <1>3 DEF Online
  <2>3. CASE runnerUp
    <3>1. \E r \in Serves[m_currentSong] :
            cmds' = Append(cmds, [id |-> m_cacheSeq', song |-> m_currentSong,
                                  rec |-> r, serial |-> asked'])
      BY <1>3, <2>3 DEF Online
    <3> QED BY <1>1, <2>1, <2>2, <3>1 DEF Asks
  <2>4. CASE ~runnerUp
    <3>1. UNCHANGED cmds
      BY <1>3, <2>4 DEF Online
    <3>2. m_cacheBusy' = FALSE
      BY <2>2, <2>4
    <3> QED BY <1>1, <2>2, <3>1, <3>2 DEF Asks
  <2> QED BY <2>3, <2>4
<1> QED BY <1>2, <1>3

LEMMA UnlinkKeepsJob ==
  ASSUME Inv, NEW gone, Unlink(gone)
  PROVE  SameJob /\ job'.state = job.state /\ job'.size = job.size
<1>1. CASE Fetching /\ job.song \in gone
  <2>1. job' = [job EXCEPT !.linked = FALSE] /\ job \in Transfers
    BY <1>1, JobFacts DEF Unlink
  <2> QED BY <2>1 DEF SameJob, HasJob, Transfers
<1>2. CASE ~(Fetching /\ job.song \in gone)
  BY <1>2 DEF Unlink, SameJob, HasJob
<1> QED BY <1>1, <1>2

LEMMA CurlKeepsJob ==
  ASSUME Inv, CurlReceives \/ CurlFails \/ CurlSucceeds
  PROVE  SameJob
<1>1. job \in Transfers
  BY JobFacts DEF CurlReceives, CurlFails, CurlSucceeds
<1>2. CASE CurlReceives
  <2>1. job' = [job EXCEPT !.at = job.at + 1]
    BY <1>2 DEF CurlReceives
  <2> QED BY <1>1, <2>1 DEF SameJob, HasJob, Transfers
<1>3. CASE CurlFails /\ job.first
  <2>1. job' = [job EXCEPT !.first = FALSE, !.linked = TRUE, !.from = 0, !.at = 0]
    BY <1>3 DEF CurlFails
  <2> QED BY <1>1, <2>1 DEF SameJob, HasJob, Transfers
<1>4. CASE (CurlFails /\ ~job.first) \/ CurlSucceeds
  <2>1. \E n : JobAnswers(n)
    BY <1>4 DEF CurlFails, CurlSucceeds
  <2> QED BY <1>1, <2>1 DEF JobAnswers, SameJob, HasJob, Transfers
<1> QED BY <1>2, <1>3, <1>4

\* Every step leaves the runner its work, gives it more, or is one of these.
LEMMA WorkCases ==
  ASSUME Inv, [Next]_vars, ~reborn, ~reborn'
  PROVE  \/ SameWork \/ Asks \/ TakeCommand \/ Answer
         \/ cmds' = <<>> /\ SameJob /\ UNCHANGED <<m_cacheSeq, asked, resp>>
         \/ cmds' = <<>> /\ ~HasJob' /\ UNCHANGED <<m_cacheSeq, asked, resp>>
         \/ cmds' = <<>> /\ ~HasJob' /\ resp' = NoResp /\ m_cacheSeq' = 0
            /\ UNCHANGED asked
<1>1. CASE (\E s \in Songs : Play(s)) \/ Stop \/ CheckCache \/ PlayFile \/ WaitPlaying
           \/ CacheAnswerIgnored \/ CacheTimeout \/ CacheGood \/ UNCHANGED vars
  BY <1>1 DEF SameWork, SameJob, HasJob, Play, Stop, CancelPlay, CheckCache, PlayFile,
     WaitPlaying, CacheAnswerIgnored, CacheTimeout, CacheGood, CacheTick, vars, soVars,
     runnerVars, historyVars
<1>2. CASE Online
  BY <1>2, OnlineAsks DEF SameWork, SameJob, HasJob
<1>3. CASE CacheBad
  BY <1>3, UnlinkKeepsJob DEF SameWork, CacheBad, CacheTick, historyVars
<1>4. CASE CurlReceives \/ CurlFails \/ CurlSucceeds
  <2>1. UNCHANGED <<cmds, m_cacheSeq, asked, resp>>
    BY <1>4 DEF CurlReceives, CurlFails, CurlSucceeds, soVars, historyVars
  <2> QED BY <1>4, <2>1, CurlKeepsJob DEF SameWork
<1>5. CASE RunnerStarts
  BY <1>5 DEF RunnerStarts, SameJob, HasJob, soVars, historyVars
<1>6. CASE RunnerKilled
  BY <1>6 DEF RunnerKilled, HasJob, NoJob, soVars, historyVars
<1>7. CASE PowerLoss
  BY <1>7, NewComponentFacts DEF PowerLoss, HasJob, NoJob, historyVars
<1>8. ~Recreated
  BY DEF Recreated
<1> QED BY <1>1, <1>2, <1>3, <1>4, <1>5, <1>6, <1>7, <1>8
        DEF Next, Component, RunnerStep

-----------------------------------------------------------------------------
LEMMA NextCounted ==
  ASSUME Inv, Shape, [Next]_vars, ~reborn, ~reborn', Counted
  PROVE  Counted'
<1>1. m_cacheSeq \in Nat /\ asked \in Nat
  BY CountFacts
<1>2. CASE PowerLoss
  <2>1. m_cacheSeq' = 0
    BY <1>2, NewComponentFacts
  <2> QED BY <1>1, <1>2, <2>1 DEF PowerLoss, historyVars, Counted
<1>3. CASE Online
  BY <1>1, <1>3 DEF Online, Counted
<1>4. CASE UNCHANGED <<m_cacheSeq, asked, waitedFor>>
  BY <1>4 DEF Counted
<1>5. PowerLoss \/ Online \/ UNCHANGED <<m_cacheSeq, asked, waitedFor>>
  BY DEF Next, Component, Play, Stop, CheckCache, PlayFile, WaitPlaying,
     CacheAnswerIgnored, CacheGood, CacheBad, CacheTick, CacheTimeout, RunnerStep,
     TakeCommand, CurlReceives, CurlSucceeds, CurlFails, Answer, RunnerStarts,
     RunnerKilled, Recreated, vars, soVars, historyVars
<1> QED BY <1>2, <1>3, <1>4, <1>5

\* The newest download gets the highest number.
LEMMA AsksOrdered ==
  ASSUME Inv, Shape, Counted, Ordered, Asks
  PROVE  Ordered'
<1>1. m_cacheSeq \in Nat /\ asked \in Nat /\ m_cacheSeq <= asked
  BY CountFacts DEF Counted
<1>2. /\ m_cacheSeq' = m_cacheSeq + 1 /\ asked' = asked + 1
      /\ job' = job /\ resp' = NoResp
  BY DEF Asks
<1>3. AnswerOrdered'
  BY <1>2 DEF AnswerOrdered, NoResp
<1>4. CASE UNCHANGED cmds
  BY <1>1, <1>2, <1>3, <1>4, JobFacts, CommandFacts
     DEF Ordered, CommandsOrdered, JobOrdered, Numbered, HasJob
<1>5. CASE \E r \in Recordings :
             cmds' = Append(cmds, [id |-> m_cacheSeq + 1, song |-> m_currentSong,
                                   rec |-> r, serial |-> asked + 1])
  <2>1. PICK r \in Recordings :
          cmds' = Append(cmds, [id |-> m_cacheSeq + 1, song |-> m_currentSong,
                                rec |-> r, serial |-> asked + 1])
    BY <1>5
  <2>2. /\ Len(cmds') = Len(cmds) + 1 /\ Len(cmds) \in Nat
        /\ \A i \in 1..Len(cmds) : cmds'[i] = cmds[i]
        /\ cmds'[Len(cmds) + 1].id = m_cacheSeq + 1
        /\ cmds'[Len(cmds) + 1].serial = asked + 1
    BY <2>1 DEF Inv, Typed
  <2>3. \A i \in 1..Len(cmds) :
          /\ cmds[i].id \in 1..m_cacheSeq
          /\ cmds[i].serial = cmds[i].id + asked - m_cacheSeq
          /\ \A k \in 1..Len(cmds) : i < k => cmds[i].id < cmds[k].id
    BY DEF Ordered, CommandsOrdered, Numbered
  <2>4. CommandsOrdered'
    <3>1. ASSUME NEW i \in 1..Len(cmds')
          PROVE  /\ Numbered(cmds[i])'
                 /\ \A k \in 1..Len(cmds') : i < k => cmds'[i].id < cmds'[k].id
      <4>1. CASE i = Len(cmds) + 1
        BY <1>1, <1>2, <2>2, <4>1 DEF Numbered
      <4>2. CASE i \in 1..Len(cmds)
        <5>1. cmds'[i] = cmds[i] /\ cmds[i].id \in 1..m_cacheSeq
              /\ cmds[i].serial = cmds[i].id + asked - m_cacheSeq
          BY <2>2, <2>3, <4>2
        <5>2. Numbered(cmds[i])'
          BY <1>1, <1>2, <5>1 DEF Numbered
        <5>3. ASSUME NEW k \in 1..Len(cmds'), i < k PROVE cmds'[i].id < cmds'[k].id
          <6>1. CASE k = Len(cmds) + 1
            BY <1>1, <2>2, <5>1, <6>1
          <6>2. CASE k \in 1..Len(cmds)
            BY <2>2, <2>3, <4>2, <5>3, <6>2
          <6> QED BY <2>2, <6>1, <6>2
        <5> QED BY <5>2, <5>3
      <4> QED BY <2>2, <4>1, <4>2
    <3> QED BY <3>1 DEF CommandsOrdered
  <2>5. JobOrdered'
    <3>1. HasJob => /\ job.id \in 1..m_cacheSeq
                    /\ job.serial = job.id + asked - m_cacheSeq
                    /\ \A i \in 1..Len(cmds) : job.id < cmds[i].id
      BY DEF Ordered, JobOrdered, Numbered
    <3> QED BY <1>1, <1>2, <2>2, <3>1 DEF JobOrdered, Numbered, HasJob
  <2> QED BY <1>3, <2>4, <2>5 DEF Ordered
<1> QED BY <1>4, <1>5 DEF Asks

LEMMA TakeOrdered ==
  ASSUME Inv, Shape, Ordered, TakeCommand
  PROVE  /\ Ordered'
         /\ job'.id = cmds[1].id /\ job'.song = cmds[1].song /\ job'.state = "transfer"
         /\ Len(cmds) \in Nat \ {0} /\ Len(cmds') = Len(cmds) - 1
         /\ \A i \in 1..Len(cmds') : i + 1 \in 1..Len(cmds) /\ cmds'[i] = cmds[i + 1]
<1>1. /\ UNCHANGED <<m_cacheSeq, asked, resp>> /\ job = NoJob
      /\ cmds' = Tail(cmds) /\ cmds # <<>>
      /\ job' = FirstAttempt(Head(cmds))
  BY DEF TakeCommand, soVars, historyVars
<1>2. /\ Len(cmds) \in Nat \ {0} /\ Head(cmds) = cmds[1]
      /\ Len(cmds') = Len(cmds) - 1
      /\ \A i \in 1..Len(cmds') : i + 1 \in 1..Len(cmds) /\ cmds'[i] = cmds[i + 1]
  BY <1>1 DEF Inv, Typed
<1>3. /\ job'.id = cmds[1].id /\ job'.serial = cmds[1].serial
      /\ job'.song = cmds[1].song /\ job'.state = "transfer"
  BY <1>1, <1>2 DEF FirstAttempt
<1>4. 1 \in 1..Len(cmds)
  BY <1>2
<1>5. \A i \in 1..Len(cmds) :
        Numbered(cmds[i]) /\ \A k \in 1..Len(cmds) : i < k => cmds[i].id < cmds[k].id
  BY DEF Ordered, CommandsOrdered
<1>6. CommandsOrdered'
  BY <1>1, <1>2, <1>5 DEF CommandsOrdered, Numbered
<1>7. JobOrdered'
  BY <1>1, <1>2, <1>3, <1>4, <1>5 DEF JobOrdered, Numbered
<1>8. AnswerOrdered'
  <2>1. resp.id # 0 => Numbered(resp) /\ \A i \in 1..Len(cmds) : resp.id < cmds[i].id
    BY DEF Ordered, AnswerOrdered
  <2> QED BY <1>1, <1>2, <1>3, <1>4, <2>1 DEF AnswerOrdered, Numbered
<1> QED BY <1>2, <1>3, <1>6, <1>7, <1>8 DEF Ordered

LEMMA NextOrdered ==
  ASSUME Inv, Shape, [Next]_vars, ~reborn, ~reborn', Counted, Ordered
  PROVE  Ordered'
<1>1. CASE SameWork
  <2>1. /\ UNCHANGED <<cmds, m_cacheSeq, asked>>
        /\ HasJob' <=> HasJob
        /\ HasJob => job'.id = job.id /\ job'.serial = job.serial
    BY <1>1 DEF SameWork, SameJob
  <2>2. CommandsOrdered' /\ JobOrdered'
    BY <2>1 DEF Ordered, CommandsOrdered, JobOrdered, Numbered
  <2>3. resp' = resp => AnswerOrdered'
    BY <2>1 DEF Ordered, AnswerOrdered, Numbered
  <2>4. resp' = NoResp => AnswerOrdered'
    BY DEF AnswerOrdered, NoResp
  <2> QED BY <1>1, <2>2, <2>3, <2>4 DEF SameWork, Ordered
<1>2. CASE Answer
  <2>1. /\ HasJob /\ ~HasJob' /\ UNCHANGED <<cmds, m_cacheSeq, asked>>
        /\ resp'.id \in {job.id, 0} /\ resp'.serial = job.serial
    BY <1>2 DEF Answer, HasJob, NoJob, soVars, historyVars
  <2>2. Numbered(job) /\ \A i \in 1..Len(cmds) : job.id < cmds[i].id
    BY <2>1 DEF Ordered, JobOrdered
  <2>3. AnswerOrdered'
    BY <2>1, <2>2 DEF AnswerOrdered, Numbered
  <2> QED BY <2>1, <2>3 DEF Ordered, CommandsOrdered, JobOrdered, Numbered
<1>3. CASE cmds' = <<>> /\ (SameJob \/ ~HasJob')
           /\ UNCHANGED <<m_cacheSeq, asked, resp>>
  BY <1>3 DEF Ordered, CommandsOrdered, JobOrdered, AnswerOrdered, Numbered, SameJob
<1>4. CASE cmds' = <<>> /\ ~HasJob' /\ resp' = NoResp
  BY <1>4 DEF Ordered, CommandsOrdered, JobOrdered, AnswerOrdered, NoResp
<1> QED BY <1>1, <1>2, <1>3, <1>4, AsksOrdered, TakeOrdered, WorkCases

-----------------------------------------------------------------------------
\* What is waited for, and the files, stay.
SameWait ==
  UNCHANGED <<m_cacheBusy, m_cachePath, m_cacheSeq, mp3, newer>>

LEMMA AwaitedFacts ==
  ASSUME Inv, Shape, Ordered, Awaited, m_cacheBusy
  PROVE  /\ m_cacheSeq \in Nat \ {0}
         /\ \A i \in 1..Len(cmds) : cmds[i].id = m_cacheSeq => cmds[i].song = m_cachePath
         /\ HasJob /\ job.id = m_cacheSeq => job.song = m_cachePath
         /\ job.state = "answer" /\ job.id = m_cacheSeq /\ job.size # Failed
              => Len(mp3[m_cachePath]) = job.size /\ newer[m_cachePath] = {}
         /\ resp.id = m_cacheSeq /\ resp.size # Failed
              => Len(mp3[m_cachePath]) = resp.size /\ newer[m_cachePath] = {}
         /\ HasJob => job.id <= m_cacheSeq /\ (resp.id # 0 => resp.id < job.id)
         /\ \A i \in 1..Len(cmds) : cmds[i].id <= m_cacheSeq
<1>1. /\ m_cacheSeq > 0 /\ m_cacheSeq \in Nat
      /\ \A i \in 1..Len(cmds) : cmds[i].id = m_cacheSeq => cmds[i].song = m_cachePath
      /\ HasJob /\ job.id = m_cacheSeq => job.song = m_cachePath
  BY CountFacts DEF Awaited, AwaitedIsOurs
<1>2. /\ job.state = "answer" /\ job.id = m_cacheSeq /\ job.size # Failed
           => Len(mp3[m_cachePath]) = job.size /\ newer[m_cachePath] = {}
      /\ resp.id = m_cacheSeq /\ resp.size # Failed
           => Len(mp3[m_cachePath]) = resp.size /\ newer[m_cachePath] = {}
  BY DEF Awaited, AwaitedIsWhole, NewestIsWhole
<1>3. /\ HasJob => job.id <= m_cacheSeq /\ (resp.id # 0 => resp.id < job.id)
      /\ \A i \in 1..Len(cmds) : cmds[i].id <= m_cacheSeq
  BY DEF Ordered, CommandsOrdered, JobOrdered, AnswerOrdered, Numbered
<1> QED BY <1>1, <1>2, <1>3

LEMMA AsksAwaited ==
  ASSUME Inv, Shape, Ordered, Asks
  PROVE  Awaited'
<1>1. /\ m_cacheSeq \in Nat /\ m_cacheSeq' = m_cacheSeq + 1 /\ job' = job
      /\ resp' = NoResp /\ m_cachePath' = m_currentSong
  BY CountFacts DEF Asks
<1>2. /\ HasJob => job.id <= m_cacheSeq
      /\ \A i \in 1..Len(cmds) : cmds[i].id <= m_cacheSeq
  BY DEF Ordered, CommandsOrdered, JobOrdered, Numbered
<1>3. AwaitedIsWhole'
  <2>1. job.state = "answer" => job.id <= m_cacheSeq /\ job.id \in Nat
    BY <1>2, JobFacts DEF HasJob
  <2> QED BY <1>1, <2>1 DEF AwaitedIsWhole, NoResp
<1>4. HasJob' /\ job'.id = m_cacheSeq' => job'.song = m_cachePath'
  BY <1>1, <1>2, JobFacts DEF HasJob
<1>5. CASE m_cacheBusy' = FALSE
  BY <1>5 DEF Awaited
<1>6. CASE \E r \in Recordings :
             cmds' = Append(cmds, [id |-> m_cacheSeq + 1, song |-> m_currentSong,
                                   rec |-> r, serial |-> asked + 1])
  <2>1. PICK r \in Recordings :
          cmds' = Append(cmds, [id |-> m_cacheSeq + 1, song |-> m_currentSong,
                                rec |-> r, serial |-> asked + 1])
    BY <1>6
  <2>2. /\ Len(cmds') = Len(cmds) + 1 /\ Len(cmds) \in Nat
        /\ \A i \in 1..Len(cmds) : cmds'[i] = cmds[i]
        /\ cmds'[Len(cmds) + 1].song = m_currentSong
    BY <2>1 DEF Inv, Typed
  <2>3. ASSUME NEW i \in 1..Len(cmds'), cmds'[i].id = m_cacheSeq'
        PROVE  cmds'[i].song = m_cachePath'
    <3>1. CASE i = Len(cmds) + 1
      BY <1>1, <2>2, <3>1
    <3>2. CASE i \in 1..Len(cmds)
      BY <1>1, <1>2, <2>2, <2>3, <3>2, CommandFacts
    <3> QED BY <2>2, <3>1, <3>2
  <2> QED BY <1>1, <1>3, <1>4, <2>3 DEF Awaited, AwaitedIsOurs
<1> QED BY <1>5, <1>6 DEF Asks

LEMMA RunnerAwaited ==
  ASSUME Inv, Shape, Counted, Ordered, Awaited, RunnerStep \/ RunnerKilled
  PROVE  Awaited'
<1> SUFFICES ASSUME m_cacheBusy' PROVE AwaitedIsOurs' /\ AwaitedIsWhole'
  BY DEF Awaited
<1>0. UNCHANGED <<m_cacheBusy, m_cachePath, m_cacheSeq>> /\ m_cacheBusy
  BY DEF RunnerStep, TakeCommand, CurlReceives, CurlSucceeds, CurlFails, Answer,
     RunnerStarts, RunnerKilled, soVars
<1>1. CASE TakeCommand
  <2>1. UNCHANGED <<mp3, newer, resp>>
    BY <1>1 DEF TakeCommand, fileVars
  <2>2. AwaitedIsWhole'
    BY <1>0, <1>1, <2>1, TakeOrdered, AwaitedFacts DEF AwaitedIsWhole, NewestIsWhole
  <2>3. AwaitedIsOurs'
    <3>1. /\ job'.id = cmds[1].id /\ job'.song = cmds[1].song /\ 1 \in 1..Len(cmds)
          /\ \A i \in 1..Len(cmds') : i + 1 \in 1..Len(cmds) /\ cmds'[i] = cmds[i + 1]
      BY <1>1, TakeOrdered
    <3>2. \A i \in 1..Len(cmds) : cmds[i].id = m_cacheSeq => cmds[i].song = m_cachePath
      BY <1>0, AwaitedFacts
    <3>3. m_cacheSeq > 0
      BY <1>0, AwaitedFacts
    <3> QED BY <1>0, <3>1, <3>2, <3>3 DEF AwaitedIsOurs
  <2> QED BY <2>2, <2>3
<1>2. CASE CurlReceives \/ CurlFails
  <2>1. SameJob /\ UNCHANGED <<mp3, newer, resp, cmds>>
    BY <1>2, CurlKeepsJob DEF CurlReceives, CurlFails
  <2>2. job'.state = "answer" => job'.size = Failed
    <3>1. job \in Transfers
      BY <1>2, JobFacts DEF CurlReceives, CurlFails
    <3>2. job'.state = "transfer" \/ \E n \in {Failed} : JobAnswers(n)
      BY <1>2, <3>1 DEF CurlReceives, CurlFails, Transfers
    <3> QED BY <3>2 DEF JobAnswers
  <2>3. AwaitedIsWhole'
    BY <1>0, <2>1, <2>2, AwaitedFacts DEF AwaitedIsWhole, NewestIsWhole
  <2>4. AwaitedIsOurs'
    BY <1>0, <2>1, AwaitedFacts DEF AwaitedIsOurs, SameJob
  <2> QED BY <2>3, <2>4
<1>3. CASE CurlSucceeds
  <2>1. SameJob /\ UNCHANGED <<resp, cmds>>
    BY <1>3, CurlKeepsJob DEF CurlSucceeds
  <2>2. /\ HasJob /\ job'.size = Len(part[job.song]) /\ job.song \in Songs
        /\ mp3'[job.song] = part[job.song] /\ newer'[job.song] = {}
    <3>1. Fetching /\ job \in Transfers /\ HasJob /\ job.song \in Songs
      BY <1>3, JobFacts DEF CurlSucceeds, HasJob, Fetching
    <3>2. job'.size = Len(part[job.song])
      BY <1>3 DEF CurlSucceeds, JobAnswers
    <3>3. mp3'[job.song] = part[job.song]
      BY <1>3, <3>1 DEF CurlSucceeds, Inv, Typed
    <3>4. newer'[job.song] = {}
      BY <1>3, <3>1 DEF CurlSucceeds, WithNewest
    <3> QED BY <3>1, <3>2, <3>3, <3>4
  <2>3. resp.id # m_cacheSeq
    BY <1>0, <2>2, AwaitedFacts, CountFacts, JobFacts
  <2>4. AwaitedIsWhole'
    BY <1>0, <2>1, <2>2, <2>3, AwaitedFacts DEF AwaitedIsWhole, NewestIsWhole, SameJob
  <2>5. AwaitedIsOurs'
    BY <1>0, <2>1, AwaitedFacts DEF AwaitedIsOurs, SameJob
  <2> QED BY <2>4, <2>5
<1>4. CASE Answer
  <2>1. /\ UNCHANGED <<mp3, newer, cmds>> /\ job.state = "answer" /\ ~HasJob'
        /\ job'.state # "answer"
        /\ resp'.id \in {job.id, 0} /\ resp'.size \in {job.size, Failed}
    BY <1>4 DEF Answer, HasJob, NoJob, fileVars
  <2>2. AwaitedIsWhole'
    BY <1>0, <2>1, AwaitedFacts DEF AwaitedIsWhole, NewestIsWhole
  <2>3. AwaitedIsOurs'
    BY <1>0, <2>1, AwaitedFacts DEF AwaitedIsOurs
  <2> QED BY <2>2, <2>3
<1>5. CASE RunnerStarts \/ RunnerKilled
  <2>1. UNCHANGED <<mp3, newer, resp>> /\ cmds' = <<>> /\ job' \in {job, NoJob}
    BY <1>5 DEF RunnerStarts, RunnerKilled, fileVars
  <2>2. AwaitedIsWhole'
    BY <1>0, <2>1, AwaitedFacts DEF AwaitedIsWhole, NewestIsWhole, NoJob
  <2>3. AwaitedIsOurs'
    BY <1>0, <2>1, AwaitedFacts DEF AwaitedIsOurs, HasJob, NoJob
  <2> QED BY <2>2, <2>3
<1> QED BY <1>1, <1>2, <1>3, <1>4, <1>5 DEF RunnerStep

LEMMA NextAwaited ==
  ASSUME Inv, Shape, [Next]_vars, ~reborn, ~reborn', Counted, Ordered, Awaited
  PROVE  Awaited'
<1>1. CASE (\E s \in Songs : Play(s)) \/ Stop \/ CacheGood \/ CacheBad \/ CacheTimeout
           \/ PowerLoss
  <2>1. m_cacheBusy' = FALSE
    BY <1>1, NewComponentFacts DEF Play, Stop, CancelPlay, CacheGood, CacheBad, CacheTimeout
  <2> QED BY <2>1 DEF Awaited
<1>2. ASSUME UNCHANGED <<m_cacheBusy, m_cacheSeq, mp3, newer, cmds, job>>,
             resp' \in {resp, NoResp}, m_cacheBusy => m_cachePath' = m_cachePath
      PROVE  Awaited'
  <2>1. CASE m_cacheBusy
    <3>1. AwaitedIsOurs'
      BY <1>2, <2>1, AwaitedFacts DEF AwaitedIsOurs, HasJob
    <3>2. AwaitedIsWhole'
      BY <1>2, <2>1, AwaitedFacts DEF AwaitedIsWhole, NewestIsWhole, NoResp
    <3> QED BY <3>1, <3>2 DEF Awaited
  <2>2. CASE ~m_cacheBusy
    BY <1>2, <2>2 DEF Awaited
  <2> QED BY <2>1, <2>2
<1>3. CASE CheckCache \/ PlayFile \/ WaitPlaying \/ CacheAnswerIgnored \/ UNCHANGED vars
  BY <1>2, <1>3 DEF CheckCache, PlayFile, WaitPlaying, CacheAnswerIgnored, CacheTick,
     vars, soVars, fileVars, runnerVars
<1>4. CASE Online
  <2>1. UNCHANGED <<mp3, newer>> /\ (m_cacheBusy => m_cachePath' = m_cachePath)
    BY <1>4 DEF Online, fileVars
  <2> QED BY <1>2, <1>4, <2>1, OnlineAsks, AsksAwaited
<1>5. CASE RunnerStep \/ RunnerKilled
  BY <1>5, RunnerAwaited
<1>6. ~Recreated
  BY DEF Recreated
<1> QED BY <1>1, <1>3, <1>4, <1>5, <1>6 DEF Next, Component

-----------------------------------------------------------------------------
\* A good answer finds the file that was waited for, and prune leaves it.
LEMMA GoodAnswerFacts ==
  ASSUME Inv, Shape, Ordered, Awaited, AnswerPending, GoodAnswer
  PROVE  /\ m_cachePath = m_currentSong /\ m_currentSong \in Songs
         /\ Len(mp3[m_currentSong]) = resp.size /\ mp3[m_currentSong] # NoFile
         /\ resp.size >= Declared[m_currentSong]
         /\ m_currentSong \notin Pruned
<1>1. /\ m_cacheBusy /\ resp.id = m_cacheSeq /\ resp.size > MinSize
      /\ ~TooSmall(m_currentSong, resp.size)
  BY DEF AnswerPending, Accepts, GoodAnswer
<1>2. /\ m_cachePath = m_currentSong /\ m_currentSong \in Songs
      /\ resp.size \in Nat \cup {Failed} /\ MinSize \in Nat
  BY <1>1, CountFacts, LimitAssumption
<1>3. resp.size \in Nat /\ resp.size > 0 /\ resp.size # Failed
  BY <1>1, <1>2 DEF Failed
<1>4. Len(mp3[m_currentSong]) = resp.size /\ newer[m_currentSong] = {}
  BY <1>1, <1>2, <1>3, AwaitedFacts
<1>5. mp3[m_currentSong] # NoFile
  BY <1>3, <1>4 DEF NoFile
<1>6. resp.size >= Declared[m_currentSong]
  <2>1. Declared[m_currentSong] \in Nat
    BY <1>2, RecordingAssumption
  <2> QED BY <1>1, <1>3, <2>1 DEF TooSmall
<1>7. m_currentSong \notin Pruned
  <2>1. Cardinality(newer[m_currentSong]) = 0
    BY <1>4, FS_EmptySet
  <2> QED BY <2>1, LimitAssumption DEF Pruned
<1> QED BY <1>2, <1>4, <1>5, <1>6, <1>7

LEMMA NextMarkersFit ==
  ASSUME Inv, Shape, [Next]_vars, ~reborn, ~reborn', Ordered, Awaited, MarkersFit
  PROVE  MarkersFit'
<1>0. ok \in [Songs -> Nat]
  BY DEF Shape
<1>a. ASSUME AnswerPending, GoodAnswer
      PROVE  \A s \in Songs : MarkedNow[s] # NoMarker => MarkedNow[s] >= Declared[s]
  <2>1. MarkedNow \in {ok, [ok EXCEPT ![m_currentSong] = Len(mp3[m_currentSong])]}
    BY <1>a, GoodAnswerFacts DEF MarkedNow
  <2> QED BY <1>0, <1>a, <2>1, GoodAnswerFacts DEF MarkersFit
<1>1. CASE CacheGood
  <2>1. AnswerPending /\ GoodAnswer /\ ok' = MarkedNow
    BY <1>1 DEF CacheGood, CacheTick, AnswerPending
  <2> QED BY <1>a, <2>1 DEF MarkersFit
<1>2. CASE CacheBad
  BY <1>0, <1>2 DEF CacheBad, Unmarked, MarkersFit
<1>3. CASE PowerLoss
  <2>1. PICK bad, markers : ok' = Unmarked(markers, bad) /\ MarkersLeft(markers)
    BY <1>3, NewComponentFacts
  <2>2. \A s \in Songs : markers[s] # NoMarker => markers[s] >= Declared[s]
    BY <1>0, <1>a, <2>1 DEF MarkersLeft, Unmarked, MarkersFit
  <2> QED BY <2>1, <2>2 DEF Unmarked, MarkersFit
<1>4. CASE UNCHANGED ok
  BY <1>4 DEF MarkersFit
<1>5. CacheGood \/ CacheBad \/ PowerLoss \/ UNCHANGED ok
  BY DEF Next, Component, Play, Stop, CheckCache, PlayFile, Online, WaitPlaying,
     CacheAnswerIgnored, CacheTimeout, RunnerStep, TakeCommand, CurlReceives,
     CurlSucceeds, CurlFails, Answer, RunnerStarts, RunnerKilled, Recreated, vars, fileVars
<1> QED BY <1>1, <1>2, <1>3, <1>4, <1>5

LEMMA NextFileToPlay ==
  ASSUME Inv, Shape, [Next]_vars, ~reborn, ~reborn', Ordered, Awaited, FileToPlay
  PROVE  FileToPlay'
<1>1. CASE CacheGood
  <2>1. m_currentSong' = m_currentSong /\ mp3' = Removed(mp3, Pruned)
    BY <1>1 DEF CacheGood, CacheTick
  <2>2. AnswerPending /\ GoodAnswer
    BY <1>1 DEF CacheGood, CacheTick, AnswerPending
  <2>3. mp3'[m_currentSong] = mp3[m_currentSong]
    BY <2>1, <2>2, GoodAnswerFacts DEF Removed
  <2> QED BY <2>1, <2>2, <2>3, GoodAnswerFacts DEF FileToPlay
<1>2. CASE CheckCache
  BY <1>2 DEF CheckCache, CacheHit, Marked, FileToPlay, fileVars
<1>3. CASE CacheBad
  <2>1. m_cacheBusy /\ m_step' = m_step
    BY <1>3 DEF CacheBad, CacheTick
  <2> QED BY <2>1, CountFacts DEF FileToPlay
<1>4. CASE CurlSucceeds
  <2>1. job.song \in Songs /\ mp3 \in [Songs -> Files] /\ part[job.song] # NoFile
    BY <1>4, JobFacts DEF CurlSucceeds, CurlComplete, HasJob, Fetching, Inv, Typed
  <2>2. /\ mp3' = [mp3 EXCEPT ![job.song] = part[job.song]]
        /\ UNCHANGED <<m_step, m_currentSong>>
    BY <1>4 DEF CurlSucceeds, soVars
  <2>3. m_step = "PlayFile" => m_currentSong \in Songs
    BY DEF Inv, SongChosen
  <2> QED BY <2>1, <2>2, <2>3 DEF FileToPlay
<1>5. CASE m_step' \in {"Idle", "CheckCache", "Online", "WaitPlaying"}
  BY <1>5 DEF FileToPlay
<1>6. CASE UNCHANGED <<m_step, m_currentSong, mp3>>
  BY <1>6 DEF FileToPlay
<1>7. \/ CacheGood \/ CheckCache \/ CacheBad \/ CurlSucceeds
      \/ m_step' \in {"Idle", "CheckCache", "Online", "WaitPlaying"}
      \/ UNCHANGED <<m_step, m_currentSong, mp3>>
  BY NewComponentFacts
     DEF Next, Component, Play, Stop, PlayFile, Online, WaitPlaying, CacheAnswerIgnored,
         CacheTick, CacheTimeout, RunnerStep, TakeCommand, CurlReceives, CurlFails, Answer,
         RunnerStarts, RunnerKilled, vars, soVars, fileVars
<1> QED BY <1>1, <1>2, <1>3, <1>4, <1>5, <1>6, <1>7

-----------------------------------------------------------------------------
LEMMA InitOneLife == Init => OneLife
<1> SUFFICES ASSUME Init PROVE Counted /\ Ordered /\ Awaited /\ MarkersFit /\ FileToPlay
  BY DEF OneLife
<1>1. Counted /\ Awaited /\ FileToPlay
  BY DEF Init, Counted, Awaited, FileToPlay
<1>2. Ordered
  BY DEF Init, Ordered, CommandsOrdered, JobOrdered, AnswerOrdered, HasJob, NoJob, NoResp
<1>3. MarkersFit
  BY DEF Init, MarkersFit
<1> QED BY <1>1, <1>2, <1>3

\* OneLife is inductive, given the types and the positions.
LEMMA NextOneLife == Inv /\ Shape /\ OneLife /\ [Next]_vars => OneLife'
<1> SUFFICES ASSUME Inv, Shape, OneLife, [Next]_vars, ~reborn'
             PROVE  Counted' /\ Ordered' /\ Awaited' /\ MarkersFit' /\ FileToPlay'
  BY DEF OneLife
<1>1. ~reborn
  BY DEF Next, Component, Play, Stop, CheckCache, PlayFile, Online, WaitPlaying,
     CacheAnswerIgnored, CacheGood, CacheBad, CacheTick, CacheTimeout, RunnerStep,
     TakeCommand, CurlReceives, CurlSucceeds, CurlFails, Answer, RunnerStarts,
     RunnerKilled, PowerLoss, Recreated, vars, historyVars
<1>2. Counted /\ Ordered /\ Awaited /\ MarkersFit /\ FileToPlay
  BY <1>1 DEF OneLife
<1> QED BY <1>1, <1>2, NextCounted, NextOrdered, NextAwaited, NextMarkersFit,
           NextFileToPlay

LEMMA OneLifeCorrect == Spec => [](Inv /\ Shape /\ OneLife)
BY InitInv, InitShape, InitOneLife, NextInv, NextShape, NextOneLife, PTL DEF Spec

\* A file the component trusts is not smaller than its source declares.
THEOREM TrustedFilesAreLongEnough == Spec => []TrustedIsLongEnough
<1>1. Inv /\ Shape /\ OneLife => TrustedIsLongEnough
  <2> SUFFICES ASSUME Inv, OneLife, ~reborn, NEW s \in Songs, CacheHit(s)
               PROVE  Len(mp3[s]) >= Declared[s]
    BY DEF TrustedIsLongEnough
  <2>1. MarkersFit
    BY DEF OneLife
  <2>2. mp3[s] # NoFile /\ ok[s] = Len(mp3[s])
    BY DEF CacheHit, Marked
  <2>3. Len(mp3[s]) # 0
    BY <2>2 DEF Inv, Typed, Files, NoFile
  <2> QED BY <2>1, <2>2, <2>3 DEF MarkersFit, NoMarker
<1> QED BY OneLifeCorrect, <1>1, PTL

\* The host is given a file that is there and whole.
THEOREM FileIsThereToPlay == Spec => PlayedFileIsThere
<1>1. Inv /\ Shape /\ OneLife /\ [Next]_vars =>
        [~reborn /\ PlayFile =>
           /\ mp3[m_currentSong] # NoFile
           /\ Len(mp3[m_currentSong]) = Size[Last(mp3[m_currentSong])]]_vars
  <2> SUFFICES ASSUME Inv, OneLife, ~reborn, PlayFile
               PROVE  /\ mp3[m_currentSong] # NoFile
                      /\ Len(mp3[m_currentSong]) = Size[Last(mp3[m_currentSong])]
    OBVIOUS
  <2>1. m_step = "PlayFile" /\ m_currentSong \in Songs
    BY DEF PlayFile, Inv, SongChosen
  <2>2. mp3[m_currentSong] # NoFile
    BY <2>1 DEF OneLife, FileToPlay
  <2> QED BY <2>1, <2>2 DEF Inv, NoHalfFile, Present
<1> QED BY OneLifeCorrect, <1>1, PTL DEF Spec, PlayedFileIsThere

\* The answer that ends the wait answers the newest download.
THEOREM AnswersAreOurs == Spec => AnswersAreOursInOneLife
<1>1. Inv /\ Shape /\ OneLife /\ [Next]_vars =>
        [~reborn /\ (CacheGood \/ CacheBad) => resp.serial = waitedFor]_vars
  <2> SUFFICES ASSUME Inv, Shape, OneLife, ~reborn, CacheGood \/ CacheBad
               PROVE  resp.serial = waitedFor
    OBVIOUS
  <2>1. m_cacheBusy /\ resp.id = m_cacheSeq
    BY DEF CacheGood, CacheBad, CacheTick, Accepts
  <2>2. Counted /\ Ordered /\ Awaited
    BY DEF OneLife
  <2>3. m_cacheSeq \in Nat \ {0}
    BY <2>1, <2>2, AwaitedFacts
  <2>4. resp.serial = resp.id + asked - m_cacheSeq /\ asked \in Nat
    BY <2>1, <2>2, <2>3, CountFacts DEF Ordered, AnswerOrdered, Numbered
  <2> QED BY <2>1, <2>2, <2>3, <2>4 DEF Counted
<1> QED BY OneLifeCorrect, <1>1, PTL DEF Spec, AnswersAreOursInOneLife
=============================================================================
