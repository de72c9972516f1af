----------------------------- MODULE SongCache -----------------------------
(***************************************************************************)
(* The song cache: the files under kCacheDir, the component that asks for  *)
(* them (src/player/lxpen_player.cpp) and the runner that fetches them     *)
(* with curl (do_curl_download in src/runner/penmusic.c).                  *)
(*                                                                         *)
(* A song stands for "songmid|quality", which names three files: the song  *)
(* itself, <file>.part while it is being fetched, and the marker <file>.ok *)
(* with the size the file had when it was found complete.  A file is the   *)
(* sequence of its pieces, each named after the recording it belongs to;   *)
(* <<>> is a file that does not exist.  A piece is more than the 5 % by    *)
(* which a file may be smaller than declared.                              *)
(*                                                                         *)
(* The component and the runner are two processes that share the files,    *)
(* a command FIFO and one reply file.  The runner does one download at a   *)
(* time, whatever the component has given up in the meantime.              *)
(***************************************************************************)
EXTENDS Integers, Sequences, FiniteSets, SequencesExt

CONSTANTS
  Songs,
  Recordings,   \* what a link may lead to
  Size,         \* [Recordings -> Nat \ {0}]: pieces of each
  Serves,       \* [Songs -> SUBSET Recordings]: what links of a song lead to
  Declared,     \* [Songs -> Nat]: size the source declares, 0 when unknown
  MinSize,      \* the 100 KB no song is smaller than
  MaxFiles,     \* kCacheMaxFiles
  NoSong,
  MaxPlays,     \* bound: songs the user plays
  MaxFaults     \* bound: runner kills, power losses, re-creations

\* Links of a song lead to recordings, none of them empty.
ASSUME RecordingAssumption ==
  /\ Size \in [Recordings -> Nat \ {0}]
  /\ Serves \in [Songs -> SUBSET Recordings]
  /\ Declared \in [Songs -> Nat]
  /\ NoSong \notin Songs
ASSUME LimitAssumption ==
  MinSize \in Nat /\ MaxFiles \in Nat \ {0} /\ MaxPlays \in Nat /\ MaxFaults \in Nat

VARIABLES
  \* members of LxPenPlayer
  m_step, m_currentSong, m_cachePath, m_cacheBusy, m_cacheSeq, m_playAfterCache,
  \* files: the songs, their markers, what is being fetched; for each song
  \* the songs whose file is newer
  mp3, ok, part, newer,
  \* between component and runner
  cmds, resp,
  \* the runner
  runnerUp, job,
  \* history: downloads asked for, the one waited for, the component was
  \* re-created while a runner was alive; what the bounds count
  asked, waitedFor, reborn, plays, faults

soVars == <<m_step, m_currentSong, m_cachePath, m_cacheBusy, m_cacheSeq, m_playAfterCache>>
fileVars == <<mp3, ok, part, newer>>
runnerVars == <<runnerUp, cmds, job>>
historyVars == <<asked, waitedFor, reborn>>
bounds == <<plays, faults>>
vars == <<soVars, fileVars, resp, runnerVars, historyVars, bounds>>

NoFile == <<>>
NoMarker == 0
Failed == -1
NoJob == [state |-> "none"]
NoResp == [id |-> 0, size |-> 0, serial |-> 0]

-----------------------------------------------------------------------------
(* Pure helpers.                                                           *)

\* Mutant: the test catches files larger than declared instead.
TooBig(s, n) == Declared[s] > 0 /\ n > Declared[s]

\* Smaller than declared, by more than the tolerance.  The runner tests it
\* with the size it was sent, the component again with its own.
TooSmall(s, n) == Declared[s] > 0 /\ n < Declared[s]

Marked(s) == mp3[s] # NoFile /\ ok[s] = Len(mp3[s])

CacheHit(s) == Len(mp3[s]) > MinSize /\ Marked(s)

Present == {s \in Songs : mp3[s] # NoFile}

\* Files that go when only the newest MaxFiles stay.
Pruned == {s \in Present : Cardinality(newer[s]) >= MaxFiles}

\* newer without the files of the songs in gone, and with a file just completed.
Without(gone) == [s \in Songs |-> IF s \in gone THEN {} ELSE newer[s] \ gone]
WithNewest(new) ==
  [s \in Songs |-> IF s \in Present \ {new} THEN newer[s] \cup {new} ELSE {}]

\* f with the files of the songs in gone removed.
Removed(f, gone) == [s \in Songs |-> IF s \in gone THEN NoFile ELSE f[s]]
Unmarked(f, gone) == [s \in Songs |-> IF s \in gone THEN NoMarker ELSE f[s]]

Fetching == job.state = "transfer"

\* curl goes on writing to a .part that was unlinked; nothing will come of it.
Unlink(gone) ==
  /\ part' = Removed(part, gone)
  /\ job' = IF Fetching /\ job.song \in gone THEN [job EXCEPT !.linked = FALSE] ELSE job

-----------------------------------------------------------------------------
(* The component.                                                          *)

\* Mutant: a new song leaves the download of the one before in place.
CancelPlayKeepsDownload ==
  /\ m_playAfterCache' = FALSE
  /\ resp' = IF m_cacheSeq > 0 THEN NoResp ELSE resp
  /\ UNCHANGED m_cacheBusy

\* Mutant: a new song leaves the wait for the download in place.
CancelPlayKeepsWait ==
  /\ m_cacheBusy' = FALSE
  /\ resp' = IF m_cacheSeq > 0 THEN NoResp ELSE resp
  /\ UNCHANGED m_playAfterCache

\* cancelPlay: the download is let go, a reply that is there is removed.  The
\* path of the reply is known from the first download on.
CancelPlay ==
  /\ m_cacheBusy' = FALSE /\ m_playAfterCache' = FALSE
  /\ resp' = IF m_cacheSeq > 0 THEN NoResp ELSE resp

\* playIndex, and the steps up to CheckCache.
Play(s) ==
  /\ plays < MaxPlays /\ plays' = plays + 1
  /\ CancelPlay
  /\ m_currentSong' = s /\ m_step' = "CheckCache"
  /\ UNCHANGED <<m_cachePath, m_cacheSeq, fileVars, runnerVars, historyVars, faults>>

Stop ==
  /\ m_step # "Idle" \/ m_cacheBusy \/ m_playAfterCache
  /\ CancelPlay
  /\ m_step' = "Idle"
  /\ UNCHANGED <<m_currentSong, m_cachePath, m_cacheSeq, fileVars, runnerVars,
                 historyVars, bounds>>

CheckCache ==
  /\ m_step = "CheckCache"
  /\ m_step' = IF CacheHit(m_currentSong) THEN "PlayFile" ELSE "Online"
  /\ UNCHANGED <<m_currentSong, m_cachePath, m_cacheBusy, m_cacheSeq, m_playAfterCache,
                 fileVars, resp, runnerVars, historyVars, bounds>>

\* The host is given the file of the current song.
PlayFile ==
  /\ m_step = "PlayFile" /\ m_step' = "Idle"
  /\ UNCHANGED <<m_currentSong, m_cachePath, m_cacheBusy, m_cacheSeq, m_playAfterCache,
                 fileVars, resp, runnerVars, historyVars, bounds>>

\* The host is given the link; startCacheDownload.
Online ==
  /\ m_step = "Online" /\ m_step' = "WaitPlaying"
  /\ m_cachePath' = IF m_cacheBusy THEN m_cachePath ELSE m_currentSong
  /\ IF m_cacheBusy \/ CacheHit(m_currentSong)
     THEN UNCHANGED <<m_cacheBusy, m_cacheSeq, resp, cmds, asked, waitedFor>>
     ELSE /\ resp' = NoResp
          /\ m_cacheSeq' = m_cacheSeq + 1
          /\ m_cacheBusy' = runnerUp
          /\ asked' = asked + 1 /\ waitedFor' = asked'
          /\ IF runnerUp
             THEN \E r \in Serves[m_currentSong] :
                    cmds' = Append(cmds, [id |-> m_cacheSeq', song |-> m_currentSong,
                                          rec |-> r, serial |-> asked'])
             ELSE UNCHANGED cmds
  /\ UNCHANGED <<m_currentSong, m_playAfterCache, fileVars, runnerUp, job,
                 reborn, bounds>>

\* The host plays, or 5 s pass and the song waits for the download.
WaitPlaying ==
  /\ m_step = "WaitPlaying" /\ m_step' = "Idle"
  /\ \/ UNCHANGED m_playAfterCache
     \/ m_cacheBusy /\ m_playAfterCache' = TRUE
  /\ UNCHANGED <<m_currentSong, m_cachePath, m_cacheBusy, m_cacheSeq, fileVars, resp,
                 runnerVars, historyVars, bounds>>

\* Mutant: every answer is taken for the one waited for.
AcceptsAny(answer) == TRUE

Accepts(answer) == answer.id = m_cacheSeq

\* onCacheTick takes the reply away.  It ignores a reply it cannot read (id 0)
\* and one with another id.
CacheTick ==
  /\ m_cacheBusy /\ resp # NoResp
  /\ resp' = NoResp
  /\ UNCHANGED <<m_currentSong, m_cachePath, m_cacheSeq, runnerUp, cmds, historyVars, bounds>>

CacheAnswerIgnored ==
  /\ CacheTick /\ ~Accepts(resp)
  /\ UNCHANGED <<m_step, m_cacheBusy, m_playAfterCache, fileVars, job>>

GoodAnswer == resp.size > MinSize /\ ~TooSmall(m_currentSong, resp.size)

AnswerPending == m_cacheBusy /\ resp # NoResp /\ Accepts(resp)

MarkedNow ==
  IF mp3[m_cachePath] = NoFile THEN ok ELSE [ok EXCEPT ![m_cachePath] = Len(mp3[m_cachePath])]

\* The marker gets the size the file has now; pruneCache leaves markers alone.
CacheGood ==
  /\ CacheTick /\ Accepts(resp) /\ GoodAnswer
  /\ m_cacheBusy' = FALSE /\ m_playAfterCache' = FALSE
  /\ m_step' = IF m_playAfterCache THEN "PlayFile" ELSE m_step
  /\ ok' = MarkedNow
  /\ mp3' = Removed(mp3, Pruned)
  /\ newer' = Without(Pruned)
  /\ UNCHANGED <<part, job>>

CacheBad ==
  /\ CacheTick /\ Accepts(resp) /\ ~GoodAnswer
  /\ m_cacheBusy' = FALSE /\ UNCHANGED <<m_step, m_playAfterCache>>
  /\ mp3' = Removed(mp3, {m_cachePath}) /\ ok' = Unmarked(ok, {m_cachePath})
  /\ newer' = Without({m_cachePath})
  /\ Unlink({m_cachePath})

\* 90 s have passed.
CacheTimeout ==
  /\ m_cacheBusy /\ m_step # "WaitPlaying"
  /\ m_cacheBusy' = FALSE
  /\ UNCHANGED <<m_step, m_currentSong, m_cachePath, m_cacheSeq, m_playAfterCache, fileVars,
                 resp, runnerVars, historyVars, bounds>>

\* cleanInvalidCache, when the component is created: unfinished files, files
\* without a marker that fits and markers without a file go.  It finds the
\* markers given, and no file of the songs in gone.
CleanInvalidCache(gone, markers) ==
  LET bad == gone \cup {s \in Songs : mp3[s] = NoFile \/ markers[s] # Len(mp3[s])}
  IN  /\ mp3' = Removed(mp3, bad) /\ ok' = Unmarked(markers, bad)
      /\ newer' = Without(bad)

NewComponent(gone, markers) ==
  /\ m_step' = "Idle" /\ m_currentSong' = NoSong /\ m_cachePath' = NoSong /\ m_cacheBusy' = FALSE
  /\ m_cacheSeq' = 0 /\ m_playAfterCache' = FALSE
  /\ CleanInvalidCache(gone, markers)

-----------------------------------------------------------------------------
(* The runner.                                                             *)

\* The first attempt resumes from what is in the .part, the second starts
\* from nothing; at counts the pieces up to which curl has the file.
FirstAttempt(cmd) ==
  [state |-> "transfer", id |-> cmd.id, song |-> cmd.song, rec |-> cmd.rec,
   serial |-> cmd.serial, first |-> TRUE, linked |-> TRUE,
   from |-> Len(part[cmd.song]), at |-> Len(part[cmd.song])]

TakeCommand ==
  /\ runnerUp /\ job = NoJob /\ cmds # <<>>
  /\ job' = FirstAttempt(Head(cmds)) /\ cmds' = Tail(cmds)
  /\ UNCHANGED <<soVars, fileVars, resp, runnerUp, historyVars, bounds>>

\* A piece arrives.
CurlReceives ==
  /\ Fetching /\ job.at < Size[job.rec]
  /\ job' = [job EXCEPT !.at = @ + 1]
  /\ part' = IF job.linked THEN [part EXCEPT ![job.song] = Append(@, job.rec)] ELSE part
  /\ UNCHANGED <<soVars, mp3, ok, newer, resp, runnerUp, cmds, historyVars, bounds>>

\* Mutant: a status of 200 is enough, as it was before the rewrite.
CurlGotStatus(j) == j.at > j.from /\ part[j.song] # NoFile

\* curl's exit code says that the transfer is complete, something was sent,
\* and what was sent accounts for the size of the file.
CurlComplete(j) ==
  /\ j.at = Size[j.rec] /\ j.at > j.from
  /\ part[j.song] # NoFile /\ Len(part[j.song]) = j.at

JobAnswers(size) ==
  job' = [state |-> "answer", id |-> job.id, song |-> job.song,
          serial |-> job.serial, size |-> size]

\* The file gets its name; one that has it is replaced.
CurlSucceeds ==
  /\ Fetching /\ CurlComplete(job)
  /\ mp3' = [mp3 EXCEPT ![job.song] = part[job.song]]
  /\ part' = [part EXCEPT ![job.song] = NoFile]
  /\ newer' = WithNewest(job.song)
  /\ JobAnswers(Len(part[job.song]))
  /\ UNCHANGED <<soVars, ok, resp, runnerUp, cmds, historyVars, bounds>>

\* The network may fail a transfer at any time.  After the second attempt
\* what was fetched stays for the next download to resume.
CurlFails ==
  /\ Fetching
  /\ IF job.first
     THEN /\ part' = Removed(part, {job.song})
          /\ job' = [job EXCEPT !.first = FALSE, !.linked = TRUE, !.from = 0, !.at = 0]
     ELSE JobAnswers(Failed) /\ UNCHANGED part
  /\ UNCHANGED <<soVars, mp3, ok, newer, resp, runnerUp, cmds, historyVars, bounds>>

\* handleDownload checks the size and the answer is written to the reply file,
\* over one that may be there; the poll may find it half-written (id 0).
Answer ==
  /\ job.state = "answer"
  /\ \E id \in {job.id, 0} :
       resp' = [id |-> id, serial |-> job.serial,
                size |-> IF TooSmall(job.song, job.size) THEN Failed ELSE job.size]
  /\ job' = NoJob
  /\ UNCHANGED <<soVars, fileVars, runnerUp, cmds, historyVars, bounds>>

\* Only the page starts the runner, and with a new FIFO.
RunnerStarts ==
  /\ ~runnerUp /\ runnerUp' = TRUE /\ cmds' = <<>>
  /\ UNCHANGED <<soVars, fileVars, resp, job, historyVars, bounds>>

-----------------------------------------------------------------------------
(* Faults.                                                                 *)

Fault == faults < MaxFaults /\ faults' = faults + 1 /\ UNCHANGED plays

\* What curl, which outlives its parent, still adds to the .part.  It is
\* taken to end before another download of the same song begins.
CurlLingers ==
  IF Fetching /\ job.linked
  THEN \E n \in 0..(Size[job.rec] - job.at) :
         part' = [part EXCEPT ![job.song] = @ \o [i \in 1..n |-> job.rec]]
  ELSE UNCHANGED part

RunnerKilled ==
  /\ runnerUp /\ Fault
  /\ runnerUp' = FALSE /\ cmds' = <<>> /\ job' = NoJob
  /\ CurlLingers
  /\ UNCHANGED <<soVars, mp3, ok, newer, resp, historyVars>>

\* What pruneCache, which removes the oldest first, has removed so far.
PruneCutShort(gone) ==
  \A s \in gone, t \in Pruned : s \in newer[t] => t \in gone

\* What the next component finds when the power fails between two calls or in
\* the middle of the handler of an answer: the bad file gone and its marker
\* left, the marker of a good one still empty, or a part of the prune done.
NextComponentAfterPowerLoss ==
  \/ NewComponent({}, ok)
  \/ AnswerPending /\ ~GoodAnswer /\ NewComponent({m_cachePath}, ok)
  \/ /\ AnswerPending /\ GoodAnswer /\ mp3[m_cachePath] # NoFile
     /\ NewComponent({}, Unmarked(ok, {m_cachePath}))
  \/ /\ AnswerPending /\ GoodAnswer
     /\ \E gone \in SUBSET Pruned : PruneCutShort(gone) /\ NewComponent(gone, MarkedNow)

\* The device is switched off: /tmp and the processes are gone, the files of
\* the cache stay.
PowerLoss ==
  /\ Fault
  /\ NextComponentAfterPowerLoss /\ part' = Removed(part, Songs)
  /\ runnerUp' = FALSE /\ cmds' = <<>> /\ job' = NoJob /\ resp' = NoResp
  /\ UNCHANGED historyVars

\* The page is closed and opened while a song plays: the host destroys the
\* component and creates another, and the runner knows nothing of it.
Recreated ==
  /\ Fault
  /\ NewComponent({}, ok) /\ Unlink(Songs)
  /\ reborn' = TRUE
  /\ UNCHANGED <<resp, runnerUp, cmds, asked, waitedFor>>

-----------------------------------------------------------------------------
Init ==
  /\ m_step = "Idle" /\ m_currentSong = NoSong /\ m_cachePath = NoSong /\ m_cacheBusy = FALSE
  /\ m_cacheSeq = 0 /\ m_playAfterCache = FALSE
  /\ mp3 = [s \in Songs |-> NoFile] /\ part = [s \in Songs |-> NoFile]
  /\ ok = [s \in Songs |-> NoMarker] /\ newer = [s \in Songs |-> {}]
  /\ cmds = <<>> /\ resp = NoResp /\ runnerUp = TRUE /\ job = NoJob
  /\ asked = 0 /\ waitedFor = 0 /\ reborn = FALSE /\ plays = 0 /\ faults = 0

Component ==
  \/ (\E s \in Songs : Play(s)) \/ Stop \/ CheckCache \/ PlayFile \/ Online
  \/ WaitPlaying \/ CacheAnswerIgnored \/ CacheGood \/ CacheBad \/ CacheTimeout
RunnerStep ==
  TakeCommand \/ CurlReceives \/ CurlSucceeds \/ CurlFails \/ Answer \/ RunnerStarts

Next == Component \/ RunnerStep \/ RunnerKilled \/ PowerLoss \/ Recreated

Spec == Init /\ [][Next]_vars

-----------------------------------------------------------------------------
(* Properties.                                                             *)

Files == Seq(Recordings)
Commands == [id : Nat, song : Songs, rec : Recordings, serial : Nat]
Transfers ==
  [state : {"transfer"}, id : Nat, song : Songs, rec : Recordings, serial : Nat,
   first : BOOLEAN, linked : BOOLEAN, from : Nat, at : Nat]
Answers ==
  [state : {"answer"}, id : Nat, song : Songs, serial : Nat, size : Nat \cup {Failed}]
Responses == [id : Nat, size : Nat \cup {Failed}, serial : Nat]

\* newer orders the files.
OrderOK ==
  /\ newer \in [Songs -> SUBSET Present]
  /\ \A s \in Songs \ Present : newer[s] = {}
  /\ \A s \in Songs : s \notin newer[s] /\ \A t \in newer[s] : newer[t] \subseteq newer[s]
  /\ \A s, t \in Present : s = t \/ t \in newer[s] \/ s \in newer[t]

ComponentTypeOK ==
  /\ m_step \in {"Idle", "CheckCache", "PlayFile", "Online", "WaitPlaying"}
  /\ m_currentSong \in Songs \cup {NoSong} /\ m_cachePath \in Songs \cup {NoSong}
  /\ m_cacheBusy \in BOOLEAN /\ m_playAfterCache \in BOOLEAN /\ m_cacheSeq \in Nat
  /\ m_playAfterCache => m_step = "Idle"
FileTypeOK ==
  mp3 \in [Songs -> Files] /\ part \in [Songs -> Files] /\ ok \in [Songs -> Nat]
RunnerTypeOK ==
  /\ cmds \in Seq(Commands) /\ runnerUp \in BOOLEAN
  /\ job \in {NoJob} \cup Transfers \cup Answers
  /\ resp \in Responses
HistoryTypeOK == asked \in Nat /\ waitedFor \in 0..asked /\ reborn \in BOOLEAN

\* Types; the component never waits for a download while it does something
\* else.
TypeOK == ComponentTypeOK /\ FileTypeOK /\ OrderOK /\ RunnerTypeOK /\ HistoryTypeOK

\* "半截文件不会冒充完整文件": a file with the name of a song is the result of
\* one complete transfer, whatever was killed, resumed, lost or switched off
\* on the way: it has the size of the recording it ends with.
NoHalfFile == \A s \in Present : Len(mp3[s]) = Size[Last(mp3[s])]

\* A file the component trusts is not smaller than its source declares, also
\* when the download was cancelled, timed out or answered for by another, the
\* marker is left from an earlier file, or the power failed.  A component that
\* was re-created beside a working runner is set apart (AnswersAreOursInOneLife).
TrustedIsLongEnough ==
  ~reborn => \A s \in Songs : CacheHit(s) => Len(mp3[s]) >= Declared[s]

\* The file the component found in the cache, or waited for, is there when the
\* host is given it, and whole: no prune, no failed download and no clean-up
\* comes between.  (It may be another one: pruneCache leaves the marker, and a
\* download of the same song that was given up may still replace the file.)
PlayedFileIsThere ==
  [][~reborn /\ PlayFile =>
       /\ mp3[m_currentSong] # NoFile
       /\ Len(mp3[m_currentSong]) = Size[Last(mp3[m_currentSong])]]_vars

\* The answer that ends the wait for a download is the answer to it, although
\* the runner still answers downloads of songs switched away from.  A component
\* that was re-created counts from 1 again and may take an old answer for new.
AnswersAreOursInOneLife ==
  [][~reborn /\ (CacheGood \/ CacheBad) => resp.serial = waitedFor]_vars

\* A file the component trusts holds one recording.  It may hold two: a .part
\* is resumed with whatever the song's new link leads to.
TrustedIsOneRecording ==
  \A s \in Songs : CacheHit(s) => \A i \in DOMAIN mp3[s] : mp3[s][i] = Last(mp3[s])
=============================================================================
