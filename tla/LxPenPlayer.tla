---------------------------- MODULE LxPenPlayer ----------------------------
(***************************************************************************)
(* The playback component of the plug-in (src/player/lxpen_player.cpp):    *)
(* class LxPenPlayer with its queue, its step machine                      *)
(*   musicUrl -> lyric -> cache check -> file or online playback,          *)
(* its background cache download, the detours on the host's player, and    *)
(* what it talks to: the host player, the runner process and the QML page. *)
(*                                                                         *)
(* All methods of the class run on the host's main thread, so one call of  *)
(* a slot, a detour or a Q_INVOKABLE method (with everything it calls) is  *)
(* one action.  What is concurrent is everything around it: replies of the *)
(* runner, the host's player and its late "sound end" events, the page     *)
(* being closed and reopened, and the four timers.                         *)
(*                                                                         *)
(* Time: m_playStartedAt is kept as sinceStart, the time since it was set  *)
(* (-1 when it is 0), in ticks and capped at Guard, the longest interval   *)
(* the code compares it with.  Deadlines (20 s, 15 s, 40 s, 5 s, 90 s) may *)
(* pass at any poll at which the awaited answer is not there.              *)
(***************************************************************************)
EXTENDS Integers, Sequences, FiniteSets

CONSTANTS
  Songs,      \* the songs the page can put in a queue
  NoSource,   \* those whose "source" field is empty
  Queues,     \* the queues the page may hand over
  Duration,   \* [Songs -> Nat]: declared duration in ticks, 0 when unknown
  Sessions,   \* numbers the host gives its audio sessions
  NoSession,  \* 0, the number when there is none
  File,       \* a file of the downloads page, played directly
  Foreign,    \* a track the user plays in the host without the plug-in
  NoSong,     \* nothing
  Swallow,    \* the 3 s in which one "next" of the host is a misfire
  Guard,      \* the 8 s in which a "sound end" is a misfire
  MaxEnds     \* bound on undelivered "sound end" events

Sources == Songs \cup {File, Foreign, NoSong}

ASSUME SongAssumption ==
  /\ NoSource \subseteq Songs
  /\ {File, Foreign, NoSong} \cap Songs = {}
  /\ File # Foreign /\ File # NoSong /\ Foreign # NoSong
  /\ Queues \subseteq Seq(Songs)
  /\ Duration \in [Songs -> Nat]
ASSUME TimeAssumption == Swallow \in Nat /\ Guard \in Nat /\ Swallow <= Guard
ASSUME BoundAssumption == NoSession \notin Sessions /\ MaxEnds \in Nat

VARIABLES
  \* members of LxPenPlayer
  m_queue, m_index, m_step, m_waitResp, m_timer, sinceStart,
  m_initNextSwallowed, m_advanceHandled, m_cacheBusy, m_cacheTimer,
  m_playAfterCache, m_currentSong, m_takeover, m_uiOpen, m_ourSeq,
  \* files: saved index, wake lock, the replies
  stateFile, musicLock, reply, cacheReply,
  \* the runner: is it alive
  runnerUp,
  \* the host's player
  hostReady, hostState, hostSeq, hostSrc, hostOver, ends,
  \* history: what is owed to the user; was the session adopted by resumeQueue
  goal, adopted

queueVars == <<m_queue, m_index, m_currentSong, stateFile>>
stepVars == <<m_step, m_waitResp, m_timer, reply>>
sessionVars == <<sinceStart, m_initNextSwallowed, m_advanceHandled, m_ourSeq>>
cacheVars == <<m_cacheBusy, m_cacheTimer, m_playAfterCache, cacheReply>>
ownVars == <<m_takeover, musicLock, adopted>>
hostVars == <<hostReady, hostState, hostSeq, hostSrc, hostOver, ends>>
vars == <<queueVars, stepVars, sessionVars, cacheVars, ownVars, m_uiOpen,
          runnerUp, hostVars, goal>>

Steps == {"Idle", "GetUrl", "GetLyric", "Download", "PlayFile", "Online",
          "WaitPlaying", "CheckCache"}
RpcSteps == {"GetUrl", "GetLyric", "Download"}
NotStarted == -1

-----------------------------------------------------------------------------
(* Pure helpers.                                                           *)

NextIndex(q, i) == IF i + 1 >= Len(q) THEN 0 ELSE i + 1
PrevIndex(q, i) == IF i - 1 < 0 THEN Len(q) - 1 ELSE i - 1

\* The misfire window narrows to half the declared duration of a short song.
GuardFor(d) == LET half == d \div 2
               IN  IF half > 0 /\ half < Guard THEN half ELSE Guard

DurationAt(q, i) == IF i \in 0..(Len(q) - 1) THEN Duration[q[i + 1]] ELSE 0

HostActive == hostState \in {"playing", "paused"}

\* Session numbers somebody can still compare with; only equality matters,
\* so a new session takes any number outside this set.
InUse == {hostSeq, m_ourSeq} \cup {e.seq : e \in ends}

EndOfHostTrack(natural) == [seq |-> hostSeq, src |-> hostSrc, natural |-> natural]

\* The host may or may not report the end of a session that is cut short.
CutShort(e) == \/ ends' = ends
               \/ HostActive /\ Cardinality(ends) < MaxEnds /\ ends' = ends \cup {e}

-----------------------------------------------------------------------------
(* Parts of methods.                                                       *)

\* Mutant: the step is set but its timer is not started.
StartStepNoTimer(s) == m_step' = s /\ m_waitResp' = FALSE /\ UNCHANGED m_timer

StartStep(s) == m_step' = s /\ m_waitResp' = FALSE /\ m_timer' = TRUE
GoIdle == m_step' = "Idle" /\ m_waitResp' = FALSE /\ m_timer' = FALSE

\* Mutant: cancelPlay forgets that somebody waits for the cache.
DropRepliesKeepsWaiter ==
  /\ reply' = "none" /\ cacheReply' = "none"
  /\ m_cacheBusy' = FALSE /\ m_cacheTimer' = FALSE /\ UNCHANGED m_playAfterCache

\* cancelPlay, the part after the step machine: the reply file is removed and
\* a later reply goes to a path nobody polls; the cache download is let go.
DropReplies ==
  /\ reply' = "none" /\ cacheReply' = "none"
  /\ m_cacheBusy' = FALSE /\ m_cacheTimer' = FALSE /\ m_playAfterCache' = FALSE

CancelPlay == GoIdle /\ DropReplies

\* The reset of the session fields shared by stop and requestRunnerQuit.
ForgetSession ==
  /\ sinceStart' = NotStarted /\ m_initNextSwallowed' = FALSE
  /\ m_advanceHandled' = FALSE /\ m_ourSeq' = NoSession

\* Mutant: the index outlives the queue.
ForgetQueueKeepsIndex == m_queue' = <<>> /\ UNCHANGED m_index

ForgetQueue == m_queue' = <<>> /\ m_index' = -1

\* Mutant: playIndex leaves the session of the song before.
SessionSurvivesPlayIndex(q, i) == [sinceStart |-> sinceStart, ourSeq |-> m_ourSeq]

\* m_playStartedAt and m_ourSeq after playIndex.
SessionAfterPlayIndex(q, i) ==
  IF i \in 0..(Len(q) - 1)
  THEN [sinceStart |-> NotStarted, ourSeq |-> NoSession]
  ELSE [sinceStart |-> sinceStart, ourSeq |-> m_ourSeq]

\* playIndex on the queue q (the value m_queue has in this step).
PlayIndex(q, i) ==
  IF i \notin 0..(Len(q) - 1)
  THEN UNCHANGED <<m_index, m_currentSong, stateFile, stepVars, sessionVars,
                   cacheVars, goal>>
  ELSE /\ m_index' = i /\ stateFile' = i /\ m_currentSong' = q[i + 1]
       /\ sinceStart' = SessionAfterPlayIndex(q, i).sinceStart
       /\ m_ourSeq' = SessionAfterPlayIndex(q, i).ourSeq
       /\ m_initNextSwallowed' = FALSE /\ m_advanceHandled' = FALSE
       /\ DropReplies
       /\ IF q[i + 1] \in NoSource
          THEN GoIdle /\ goal' = "idle"
          ELSE StartStep("GetUrl") /\ goal' = "song"

\* The host's half of doPlay: the new track replaces the old one.
HostPlays(src) ==
  /\ hostSeq' \in Sessions \ InUse
  /\ hostSrc' = src /\ hostOver' = FALSE
  /\ hostState' \in {"playing", "loading"}
  /\ CutShort(EndOfHostTrack(FALSE))
  /\ UNCHANGED hostReady

\* doPlay, without the writes to sessionVars its callers refine.
DoPlay(src) ==
  /\ musicLock' = TRUE
  /\ IF hostReady
     THEN HostPlays(src) /\ m_takeover' = TRUE /\ adopted' = FALSE
     ELSE UNCHANGED <<m_takeover, adopted, hostVars>>

\* doPlay's writes to the session fields when nothing follows it.
SessionAfterDoPlay ==
  /\ sinceStart' = NotStarted /\ m_initNextSwallowed' = FALSE
  /\ m_advanceHandled' = FALSE
  /\ m_ourSeq' = IF hostReady THEN hostSeq' ELSE m_ourSeq

\* finishPlay; seq is the host's current session.
FinishPlay(seq) ==
  /\ GoIdle
  /\ sinceStart' = 0 /\ m_initNextSwallowed' = FALSE /\ m_advanceHandled' = FALSE
  /\ m_ourSeq' = seq
  /\ goal' = "idle"

FailStep == GoIdle /\ goal' = "idle"

\* The runner exits: what it was asked for is never answered.
RunnerGone ==
  /\ runnerUp' = FALSE
  /\ reply' = IF reply = "sent" THEN "none" ELSE reply
  /\ cacheReply' = IF cacheReply = "sent" THEN "none" ELSE cacheReply

-----------------------------------------------------------------------------
(* The QML page calls the component.                                       *)

\* playSong: setQueue, setQuality, playIndex, in one turn of the event loop.
UiPlaySong ==
  /\ m_uiOpen
  /\ \E q \in Queues : \E i \in 0..(Len(q) - 1) :
       m_queue' = q /\ PlayIndex(q, i)
  /\ UNCHANGED <<ownVars, m_uiOpen, runnerUp, hostVars>>

\* playDownload: clearQueue, then playFile.  Neither calls cancelPlay.
UiPlayDownload ==
  /\ m_uiOpen
  /\ ForgetQueue
  /\ m_playAfterCache' = FALSE
  /\ DoPlay(File)
  /\ sinceStart' = NotStarted /\ m_initNextSwallowed' = FALSE
  /\ m_advanceHandled' = FALSE
  /\ m_ourSeq' = IF hostReady THEN hostSeq' ELSE NoSession
  /\ goal' = "file"
  /\ UNCHANGED <<m_currentSong, stateFile, stepVars, m_cacheBusy, m_cacheTimer,
                 cacheReply, m_uiOpen, runnerUp>>

\* The settings page's stop button: stop(), then exitPlugin, which finds the
\* host stopped and quits the runner.  The host's symbols for pausing and for
\* setting the state are taken to be there.
UiStop ==
  /\ m_uiOpen
  /\ ForgetQueue /\ stateFile' = -1 /\ UNCHANGED m_currentSong
  /\ CancelPlay
  /\ ForgetSession
  /\ m_takeover' = FALSE /\ musicLock' = FALSE /\ UNCHANGED adopted
  /\ hostState' = "stopped" /\ hostOver' = FALSE
  /\ CutShort(EndOfHostTrack(FALSE))
  /\ UNCHANGED <<hostReady, hostSeq, hostSrc>>
  /\ m_uiOpen' = FALSE
  /\ runnerUp' = FALSE
  /\ goal' = "idle"

\* The page goes away: setUiOpen(false).  The back button (exitPlugin) also
\* quits the runner when the host is not active.
UiLeave ==
  /\ m_uiOpen /\ m_uiOpen' = FALSE
  /\ \/ UNCHANGED <<runnerUp, reply, cacheReply>>
     \/ ~HostActive /\ RunnerGone
  /\ UNCHANGED <<queueVars, m_step, m_waitResp, m_timer,
                 sessionVars, m_cacheBusy, m_cacheTimer, m_playAfterCache, ownVars, hostVars, goal>>

\* resumeQueue: the page found the host active and has a saved queue.  The
\* index is the one in the state file, or the page's own if there is none.
Resume(q, i) ==
  /\ m_queue' = q /\ m_index' = i /\ stateFile' = i
  /\ m_takeover' = TRUE
  /\ sinceStart' = 0 /\ m_initNextSwallowed' = FALSE /\ m_advanceHandled' = FALSE
  /\ m_ourSeq' = hostSeq
  /\ adopted' = TRUE
  /\ UNCHANGED <<m_currentSong, musicLock>>

\* The page opens: setUiOpen(true), then resumeQueue if it can.
UiOpen ==
  /\ ~m_uiOpen /\ m_uiOpen' = TRUE
  /\ \/ UNCHANGED <<queueVars, sessionVars, ownVars>>
     \/ /\ HostActive
        /\ \E q \in Queues : \E i \in 0..(Len(q) - 1) :
             (stateFile >= 0 => i = stateFile) /\ Resume(q, i)
  /\ UNCHANGED <<stepVars, cacheVars, runnerUp, hostVars, goal>>

\* Mutant: the runner is told to quit but the wake lock is kept.
IdleTickKeepsLock ==
  /\ ~m_uiOpen /\ m_takeover /\ ~HostActive
  /\ ForgetQueue /\ stateFile' = -1 /\ UNCHANGED m_currentSong
  /\ CancelPlay
  /\ ForgetSession
  /\ m_takeover' = FALSE /\ UNCHANGED <<musicLock, adopted>>
  /\ runnerUp' = FALSE
  /\ goal' = "idle"
  /\ UNCHANGED <<m_uiOpen, hostVars>>

\* onIdleTick: the page is closed and the host silent, so the runner is told
\* to quit (requestRunnerQuit).
IdleTick ==
  /\ ~m_uiOpen /\ m_takeover /\ ~HostActive
  /\ ForgetQueue /\ stateFile' = -1 /\ UNCHANGED m_currentSong
  /\ CancelPlay
  /\ ForgetSession
  /\ m_takeover' = FALSE /\ musicLock' = FALSE /\ UNCHANGED adopted
  /\ runnerUp' = FALSE
  /\ goal' = "idle"
  /\ UNCHANGED <<m_uiOpen, hostVars>>

-----------------------------------------------------------------------------
(* onTick: one disjunct per step.                                          *)

\* sendRpcStep.  When writeRpc gives up (no runner) nothing changes and the
\* next tick tries again: that step is a stuttering step.
SendRpc ==
  /\ m_timer /\ m_step \in RpcSteps /\ ~m_waitResp
  /\ runnerUp
  /\ m_waitResp' = TRUE /\ reply' = "sent"
  /\ UNCHANGED <<queueVars, m_step, m_timer, sessionVars,
                 cacheVars, ownVars, m_uiOpen, runnerUp, hostVars, goal>>

\* onRpcResp for the answer r.
OnRpcResp(r) ==
  \/ m_step = "GetUrl" /\ r = "ok" /\ StartStep("GetLyric") /\ UNCHANGED goal
  \/ m_step = "GetUrl" /\ r = "err" /\ FailStep
  \/ m_step = "GetLyric" /\ StartStep("CheckCache") /\ UNCHANGED goal
  \/ /\ m_step = "Download"
     /\ StartStep(IF r = "err" THEN "Online" ELSE "PlayFile")
     /\ UNCHANGED goal

\* The poll finds the answer, takes the file away and handles it.
PollReply ==
  /\ m_timer /\ m_waitResp
  /\ reply \in {"ok", "err"}
  /\ reply' = "none"
  /\ OnRpcResp(reply)
  /\ UNCHANGED <<queueVars, sessionVars, cacheVars, ownVars, m_uiOpen, runnerUp, hostVars>>

\* Mutant: only the lyric has a deadline.
PollTimeoutLyricOnly ==
  /\ m_timer /\ m_waitResp /\ m_step = "GetLyric"
  /\ reply \in {"none", "sent"}
  /\ StartStep("Download")
  /\ reply' = "none"
  /\ UNCHANGED <<queueVars, sessionVars, cacheVars, ownVars,
                 m_uiOpen, runnerUp, hostVars, goal>>

\* No answer and the deadline has passed.
PollTimeout ==
  /\ m_timer /\ m_waitResp
  /\ reply \in {"none", "sent"}
  /\ IF m_step = "GetLyric" THEN StartStep("Download") /\ UNCHANGED goal
                            ELSE FailStep
  /\ reply' = "none"
  /\ UNCHANGED <<queueVars, sessionVars, cacheVars, ownVars,
                 m_uiOpen, runnerUp, hostVars>>

\* cacheHit looks at the files (see SongCache); either outcome is possible.
CheckCache ==
  /\ m_timer /\ ~m_waitResp /\ m_step = "CheckCache"
  /\ StartStep("PlayFile") \/ StartStep("Online")
  /\ UNCHANGED <<queueVars, reply, sessionVars, cacheVars, ownVars,
                 m_uiOpen, runnerUp, hostVars, goal>>

\* PlayFile does not look at doPlay's result.
PlayFile ==
  /\ m_timer /\ ~m_waitResp /\ m_step = "PlayFile"
  /\ DoPlay(m_currentSong)
  /\ FinishPlay(hostSeq')
  /\ UNCHANGED <<queueVars, reply, cacheVars, m_uiOpen, runnerUp>>

\* startCacheDownload.  From here on only the answer with this download's id
\* counts (SongCache models the ids, the files and the answers of others).
StartCacheDownload ==
  \/ UNCHANGED cacheVars   \* busy, an empty URL, a hit, or no runner
  \/ /\ ~m_cacheBusy /\ runnerUp
     /\ m_cacheBusy' = TRUE /\ m_cacheTimer' = TRUE /\ cacheReply' = "sent"
     /\ UNCHANGED m_playAfterCache

Online ==
  /\ m_timer /\ ~m_waitResp /\ m_step = "Online"
  /\ DoPlay(m_currentSong)
  /\ SessionAfterDoPlay
  /\ IF hostReady
     THEN /\ m_step' = "WaitPlaying" /\ UNCHANGED <<m_waitResp, m_timer, goal>>
          /\ StartCacheDownload
     ELSE FailStep /\ UNCHANGED cacheVars
  /\ UNCHANGED <<queueVars, reply, m_uiOpen, runnerUp>>

\* WaitPlaying, the host is playing.
HostConfirms ==
  /\ m_timer /\ ~m_waitResp /\ m_step = "WaitPlaying"
  /\ hostState = "playing"
  /\ FinishPlay(hostSeq)
  /\ UNCHANGED <<queueVars, reply, cacheVars, ownVars, m_uiOpen,
                 runnerUp, hostVars>>

\* Mutant: the wait for the cache is announced and not recorded.
HostSilentForgetsWaiter ==
  /\ m_timer /\ ~m_waitResp /\ m_step = "WaitPlaying"
  /\ hostState # "playing"
  /\ IF m_cacheBusy THEN GoIdle /\ UNCHANGED goal ELSE FailStep
  /\ UNCHANGED <<queueVars, reply, sessionVars, cacheVars, ownVars,
                 m_uiOpen, runnerUp, hostVars>>

\* WaitPlaying, 5 s have passed without the host playing.
HostSilent ==
  /\ m_timer /\ ~m_waitResp /\ m_step = "WaitPlaying"
  /\ hostState # "playing"
  /\ IF m_cacheBusy
     THEN GoIdle /\ m_playAfterCache' = TRUE /\ UNCHANGED goal
     ELSE FailStep /\ UNCHANGED m_playAfterCache
  /\ UNCHANGED <<queueVars, reply, sessionVars, m_cacheBusy,
                 m_cacheTimer, cacheReply, ownVars, m_uiOpen, runnerUp, hostVars>>

-----------------------------------------------------------------------------
(* onCacheTick.                                                            *)

\* Mutant: every download that completes is played.
CacheGoodAlwaysPlays ==
  /\ m_cacheTimer /\ m_cacheBusy /\ cacheReply = "good"
  /\ cacheReply' = "none" /\ m_cacheBusy' = FALSE /\ m_cacheTimer' = FALSE
  /\ m_playAfterCache' = FALSE
  /\ StartStep("PlayFile")
  /\ UNCHANGED <<queueVars, reply, sessionVars, ownVars, m_uiOpen,
                 runnerUp, hostVars, goal>>

\* The download is complete: mark it, prune (SongCache), and play it if
\* somebody waits.  m_cachePath is still the current song's: playIndex, the
\* only writer of m_currentSong, cancels the download.
CacheGood ==
  /\ m_cacheTimer /\ m_cacheBusy /\ cacheReply = "good"
  /\ cacheReply' = "none" /\ m_cacheBusy' = FALSE /\ m_cacheTimer' = FALSE
  /\ m_playAfterCache' = FALSE
  /\ IF m_playAfterCache
     THEN StartStep("PlayFile")
     ELSE UNCHANGED <<m_step, m_waitResp, m_timer>>
  /\ UNCHANGED <<queueVars, reply, sessionVars, ownVars, m_uiOpen,
                 runnerUp, hostVars, goal>>

\* The download failed or is too small: the files go, nothing else happens.
CacheBad ==
  /\ m_cacheTimer /\ m_cacheBusy /\ cacheReply = "bad"
  /\ cacheReply' = "none" /\ m_cacheBusy' = FALSE /\ m_cacheTimer' = FALSE
  /\ UNCHANGED <<queueVars, stepVars, sessionVars, m_playAfterCache, ownVars,
                 m_uiOpen, runnerUp, hostVars, goal>>

\* 90 s have passed, which is tested before the reply is looked for: one that
\* came since the last tick is left.  WaitPlaying, which started with the
\* download and lasts 5 s, is over.
CacheTimeout ==
  /\ m_cacheTimer /\ m_cacheBusy /\ m_step # "WaitPlaying"
  /\ cacheReply' = "none"
  /\ m_cacheBusy' = FALSE /\ m_cacheTimer' = FALSE
  /\ UNCHANGED <<queueVars, stepVars, sessionVars, m_playAfterCache, ownVars, m_uiOpen, runnerUp, hostVars, goal>>

-----------------------------------------------------------------------------
(* Detours on the host's player.                                           *)

\* handleNext swallows the first "next" of the first 3 s after a start.
SwallowsNext == sinceStart \in 0..(Swallow - 1) /\ ~m_initNextSwallowed

HostButtonsOurs == m_takeover /\ m_queue # <<>>

\* onClickedNextDetour -> handleNext.
ClickNext ==
  /\ HostButtonsOurs
  /\ UNCHANGED m_queue
  /\ IF SwallowsNext
     THEN /\ m_initNextSwallowed' = TRUE
          /\ UNCHANGED <<m_index, m_currentSong, stateFile, stepVars, sinceStart,
                         m_advanceHandled, m_ourSeq, cacheVars, goal>>
     ELSE PlayIndex(m_queue, NextIndex(m_queue, m_index))
  /\ UNCHANGED <<ownVars, m_uiOpen, runnerUp, hostVars>>

\* onClickedPrevDetour -> handlePrev.
ClickPrev ==
  /\ HostButtonsOurs
  /\ UNCHANGED m_queue
  /\ PlayIndex(m_queue, PrevIndex(m_queue, m_index))
  /\ UNCHANGED <<ownVars, m_uiOpen, runnerUp, hostVars>>

\* Mutant: any session's end counts.
EndAcceptedAnySession(e, i, session) ==
  /\ m_takeover /\ session.sinceStart >= 0
  /\ hostState = "playing"
  /\ session.sinceStart >= GuardFor(DurationAt(m_queue, i))
  /\ m_queue # <<>> /\ i >= 0

\* handleSongEnded's tests, for an end event e, when the queue stands at i and
\* the session fields are those of session.
EndAcceptedAt(e, i, session) ==
  /\ m_takeover /\ session.sinceStart >= 0
  /\ hostState = "playing"
  /\ e.seq = session.ourSeq
  /\ session.sinceStart >= GuardFor(DurationAt(m_queue, i))
  /\ m_queue # <<>> /\ i >= 0

EndAccepted(e) ==
  EndAcceptedAt(e, m_index, [sinceStart |-> sinceStart, ourSeq |-> m_ourSeq])

\* handleSongEnded.  m_advanceHandled is read here and nowhere else; swallowed
\* is what m_initNextSwallowed is when it is called.
HandleSongEnded(e, swallowed) ==
  IF EndAccepted(e) /\ ~m_advanceHandled
  THEN PlayIndex(m_queue, NextIndex(m_queue, m_index))
  ELSE /\ m_advanceHandled' = (m_advanceHandled /\ ~EndAccepted(e))
       /\ m_initNextSwallowed' = swallowed
       /\ UNCHANGED <<m_index, m_currentSong, stateFile, stepVars, sinceStart,
                      m_ourSeq, cacheVars, goal>>

\* The host's own onSoundEnd.
HostHandlesEnd(e) ==
  /\ ends' = ends \ {e}
  /\ IF e.natural /\ hostOver
     THEN hostState' = "stopped" /\ hostOver' = FALSE
     ELSE UNCHANGED <<hostState, hostOver>>
  /\ UNCHANGED <<hostReady, hostSeq, hostSrc>>

\* The host's handler has called handleNext, which has moved the queue to i;
\* then handleSongEnded runs.  If it accepts the event it moves on once more.
ClickedThenEnded(e, i) ==
  LET session == SessionAfterPlayIndex(m_queue, i)
  IN  PlayIndex(m_queue, IF EndAcceptedAt(e, i, session)
                         THEN NextIndex(m_queue, i) ELSE i)

\* onSoundEndDetour: the state is read, the host's function runs, and then
\* handleSongEnded.  At the natural end of its track the host may call
\* onClickedNext, which is handleNext if the buttons are ours.
SoundEnd(e) ==
  /\ UNCHANGED m_queue
  /\ HostHandlesEnd(e)
  /\ \/ HandleSongEnded(e, m_initNextSwallowed)
     \/ /\ e.natural /\ hostOver /\ HostButtonsOurs
        /\ IF SwallowsNext
           THEN HandleSongEnded(e, TRUE)
           ELSE ClickedThenEnded(e, NextIndex(m_queue, m_index))
  /\ UNCHANGED <<ownVars, m_uiOpen, runnerUp>>

DeliverEnd == \E e \in ends : SoundEnd(e)

-----------------------------------------------------------------------------
(* The host's player, as the code uses it (external).                      *)

\* A track that was loading starts; its session number may change with it.
HostBegins ==
  /\ hostState = "loading" /\ hostState' = "playing"
  /\ hostSeq' \in {hostSeq} \cup (Sessions \ InUse)
  /\ UNCHANGED <<hostReady, hostSrc, hostOver, ends>>

HostCannotLoad ==
  /\ hostState = "loading" /\ hostState' = "stopped"
  /\ UNCHANGED <<hostReady, hostSeq, hostSrc, hostOver, ends>>

HostPauses ==
  /\ ~hostOver
  /\ \/ hostState = "playing" /\ hostState' = "paused"
     \/ hostState = "paused" /\ hostState' = "playing"
  /\ UNCHANGED <<hostReady, hostSeq, hostSrc, hostOver, ends>>

\* The user stops the host's player, or starts a track of his own in it.
HostTakesOver(src, state) ==
  /\ hostState' = state /\ hostOver' = FALSE /\ hostSrc' = src
  /\ CutShort(EndOfHostTrack(FALSE))
  /\ UNCHANGED hostReady

HostUserStops ==
  HostActive /\ HostTakesOver(hostSrc, "stopped") /\ UNCHANGED hostSeq

HostPlaysForeign ==
  hostSeq' \in Sessions \ InUse /\ HostTakesOver(Foreign, "playing")

\* The track is over: the event is on its way, and the session number may
\* already have moved on when it is delivered.
HostTrackEnds ==
  /\ hostState = "playing" /\ ~hostOver /\ Cardinality(ends) < MaxEnds
  /\ hostOver' = TRUE
  /\ ends' = ends \cup {EndOfHostTrack(TRUE)}
  /\ hostSeq' \in {hostSeq} \cup (Sessions \ InUse)
  /\ UNCHANGED <<hostReady, hostState, hostSrc>>

Host ==
  /\ \/ HostBegins \/ HostCannotLoad \/ HostPauses
     \/ HostUserStops \/ HostPlaysForeign \/ HostTrackEnds
  /\ UNCHANGED <<queueVars, stepVars, sessionVars, cacheVars, ownVars, m_uiOpen,
                 runnerUp, goal>>

-----------------------------------------------------------------------------
(* The runner, as this component sees it; its own loop is a module apart.  *)

\* It answers the request in flight, or the answer is lost: the poll read
\* the file half-written and removed it.
RunnerAnswers ==
  /\ runnerUp /\ reply = "sent"
  /\ reply' \in {"ok", "err", "none"}
  /\ UNCHANGED <<cacheReply, runnerUp>>

RunnerDownloads ==
  /\ runnerUp /\ cacheReply = "sent"
  /\ cacheReply' \in {"good", "bad", "none"}
  /\ UNCHANGED <<runnerUp, reply>>

RunnerDies == runnerUp /\ RunnerGone

\* Only the page starts it.
RunnerStarts ==
  /\ m_uiOpen /\ ~runnerUp /\ runnerUp' = TRUE
  /\ UNCHANGED <<reply, cacheReply>>

Runner ==
  /\ RunnerAnswers \/ RunnerDownloads \/ RunnerDies \/ RunnerStarts
  /\ UNCHANGED <<queueVars, m_step, m_waitResp, m_timer,
                 sessionVars, m_cacheBusy, m_cacheTimer, m_playAfterCache,
                 ownVars, m_uiOpen, hostVars, goal>>

TimePasses ==
  /\ sinceStart \in 0..(Guard - 1) /\ sinceStart' = sinceStart + 1
  /\ UNCHANGED <<queueVars, stepVars, m_initNextSwallowed, m_advanceHandled,
                 m_ourSeq, cacheVars, ownVars, m_uiOpen, runnerUp,
                 hostVars, goal>>

-----------------------------------------------------------------------------
Init ==
  /\ m_queue = <<>> /\ m_index = -1 /\ m_currentSong = NoSong /\ stateFile = -1
  /\ m_step = "Idle" /\ m_waitResp = FALSE /\ m_timer = FALSE
  /\ reply = "none"
  /\ sinceStart = NotStarted /\ m_initNextSwallowed = FALSE
  /\ m_advanceHandled = FALSE /\ m_ourSeq = NoSession
  /\ m_cacheBusy = FALSE /\ m_cacheTimer = FALSE /\ m_playAfterCache = FALSE
  /\ cacheReply = "none"
  /\ m_takeover = FALSE /\ musicLock = FALSE /\ adopted = FALSE
  /\ m_uiOpen = FALSE
  /\ runnerUp = FALSE
  /\ hostReady \in BOOLEAN /\ hostState = "stopped" /\ hostSeq = NoSession
  /\ hostSrc = NoSong /\ hostOver = FALSE /\ ends = {}
  /\ goal = "idle"

Ui == UiPlaySong \/ UiPlayDownload \/ UiStop \/ UiLeave \/ UiOpen
Tick == \/ SendRpc \/ PollReply \/ PollTimeout \/ CheckCache \/ PlayFile
        \/ Online \/ HostConfirms \/ HostSilent
CacheTick == CacheGood \/ CacheBad \/ CacheTimeout
Detour == ClickNext \/ ClickPrev \/ DeliverEnd

Next == Ui \/ IdleTick \/ Tick \/ CacheTick \/ Detour \/ Host \/ Runner \/ TimePasses

Spec == Init /\ [][Next]_vars

\* The host's event loop serves the three timers.  Nothing is assumed of the
\* user, the host's player or the runner: a dead runner may stay dead.
Fairness == WF_vars(Tick) /\ WF_vars(CacheTick) /\ WF_vars(IdleTick)

FairSpec == Spec /\ Fairness

-----------------------------------------------------------------------------
(* Properties.                                                             *)

QueueTypeOK ==
  /\ m_queue \in Seq(Songs) /\ m_index \in -1..(Len(m_queue) - 1)
  /\ stateFile \in Int
  /\ m_currentSong \in Songs \cup {NoSong}
StepTypeOK ==
  /\ m_step \in Steps /\ m_waitResp \in BOOLEAN /\ m_timer \in BOOLEAN
  /\ reply \in {"none", "sent", "ok", "err"}
SessionTypeOK ==
  /\ sinceStart \in NotStarted..Guard
  /\ m_initNextSwallowed \in BOOLEAN /\ m_advanceHandled \in BOOLEAN
  /\ m_ourSeq \in Sessions \cup {NoSession}
CacheTypeOK ==
  /\ m_cacheBusy \in BOOLEAN /\ m_cacheTimer \in BOOLEAN
  /\ m_playAfterCache \in BOOLEAN /\ cacheReply \in {"none", "sent", "good", "bad"}
OwnTypeOK ==
  /\ m_takeover \in BOOLEAN /\ musicLock \in BOOLEAN /\ adopted \in BOOLEAN
  /\ m_uiOpen \in BOOLEAN /\ runnerUp \in BOOLEAN
  /\ goal \in {"idle", "song", "file"}
HostTypeOK ==
  /\ hostReady \in BOOLEAN
  /\ hostState \in {"playing", "loading", "paused", "stopped"}
  /\ hostSeq \in Sessions \cup {NoSession}
  /\ hostSrc \in Sources /\ hostOver \in BOOLEAN
  /\ ends \subseteq [seq : Sessions \cup {NoSession}, src : Sources, natural : BOOLEAN]
TypeOK == /\ QueueTypeOK /\ StepTypeOK /\ SessionTypeOK
          /\ CacheTypeOK /\ OwnTypeOK /\ HostTypeOK

\* The step machine is running, or a cache download is to be played.
Working == m_step # "Idle" \/ m_playAfterCache

\* Every step the component still takes towards playing something answers a
\* request nobody has answered or withdrawn: after stop(), after the idle
\* recycle, after songStarted or playError, no late reply, cache completion
\* or host event starts the host again, and no request is answered twice.
WorkIsOwed == Working => goal # "idle"

\* Waiting for a download that is over.  "等缓存下载完成后再播本地文件": the page
\* is told that the song plays when it is cached; onCacheTick leaves
\* m_playAfterCache set when the download fails or times out, and tells nobody.
Stranded == m_playAfterCache /\ ~m_cacheBusy

\* A timer will take the request further: the step machine runs, or the cache
\* download that is to be played does.
UnderWay == m_step # "Idle" \/ (m_playAfterCache /\ m_cacheBusy)

\* A request (playIndex accepted) that was not answered, withdrawn or replaced
\* stays under way in every step of the component, the page, the host and the
\* runner but two: onCacheTick drops one that waits for its cache download when
\* that fails or exceeds 90 s.  Nothing else strands a request.
RequestIsKept ==
  [][goal' = "song" => \/ UnderWay'
                       \/ goal = "song" /\ Stranded
                       \/ m_playAfterCache /\ (CacheBad \/ CacheTimeout)]_vars

\* A running step is polled, exactly one thing is polled for, and a cache
\* completion never finds a step of another request running.
PollersRun ==
  /\ m_timer <=> m_step # "Idle"
  /\ m_cacheTimer <=> m_cacheBusy
  /\ m_waitResp => m_step \in RpcSteps
  /\ m_cacheBusy => m_step \in {"Idle", "WaitPlaying"}
  /\ m_playAfterCache => m_step = "Idle"

\* One "sound end" of the host moves the queue by at most one song, although
\* the host's own handler may have clicked "next" before handleSongEnded.
OneAdvancePerEnd ==
  [][DeliverEnd => \/ UNCHANGED <<m_index, m_currentSong, m_step>>
                   \/ m_index' = NextIndex(m_queue, m_index)]_vars

\* The queue advances on a "sound end" only if the session that ended played
\* the song the queue stands at: late events of replaced sessions and of the
\* song before are ignored.  Two cases the code cannot tell are left out: a
\* session taken over by resumeQueue and a track of the host's own that it
\* started while a song was being put on.
EndedSongIsCurrent ==
  [][\A e \in ends :
       EndAccepted(e) /\ e.src # Foreign /\ ~adopted => e.src = m_currentSong]_vars

\* A request replaces whatever went before (playIndex).
NewRequest == goal' = "song" /\ m_step' = "GetUrl" /\ ~m_waitResp'

\* The song that will be put on if all goes well.
Wanted == IF Working THEN m_currentSong ELSE NoSong

\* The component seen by its user.
Request == INSTANCE PlaybackRequest
  WITH None <- NoSong,
       ready <- hostReady,
       wanted <- Wanted,
       owed <- goal = "song",
       playing <- hostSrc

\* The host is given a song only when that song is the one asked for last and
\* not yet answered for; a late reply, a completed download or an event of the
\* host asks for nothing, and what is owed ends with an answer only.
PlaysWhatIsWanted == Request!Spec

\* Once the runner stays up and no further request is made, a request is
\* answered by songStarted or playError, or withdrawn: no combination of lost
\* replies, timeouts and host behaviour leaves the step machine waiting for
\* good.  The exception is a wait for a cache download that came to nothing.
RequestIsAnswered ==
  <>[]runnerUp /\ <>[][~NewRequest]_vars
    => [](goal = "song" => <>(goal # "song" \/ Stranded))

\* When the page is closed and the host silent for good, the MUSIC wake lock
\* is given back, whatever was going on when that began.
LockIsReleased ==
  hostReady /\ <>[](~m_uiOpen /\ ~HostActive) => []<>(~musicLock)

-----------------------------------------------------------------------------
(* What comments of the code say and the code does not do.                 *)

\* "避免旧的搜索队列干扰下一首/连播": once a downloaded file was started, no
\* song of the old queue is on its way.  clearQueue and playFile leave the
\* step machine of the song before running.
QueueClearedMeansQuiet == goal = "file" => ~Working

\* "回主页后仍能自动连播": the component's own idle monitor does not withdraw
\* the song it is putting on.  It does when the page is closed, because the
\* host is silent while the next song is being fetched.
AutoAdvanceSurvivesClosedPage == [][IdleTick => goal # "song"]_vars
=============================================================================
