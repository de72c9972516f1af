-------------------------- MODULE EndOfSongProofs --------------------------
(***************************************************************************)
(* What a "sound end" of the host does to the queue of LxPenPlayer.  The   *)
(* host reports the end of any track, also of one the component has given  *)
(* up, and may have clicked "next" itself; handleSongEnded has only the    *)
(* session number to tell which song it is about.                          *)
(***************************************************************************)
EXTENDS LxPenPlayerProofs

\* The position of the queue can be held against what the host plays: there
\* is a queue, and the track was started by doPlay, not found by resumeQueue.
Comparable == hostReady /\ ~adopted /\ m_queue # <<>>

\* What a session taken for ours may have played.
OursOrForeign == {m_currentSong, Foreign}

\* An undelivered end of the host's session is about the host's track.
EndsOfThisSession == \A e \in ends : e.seq = hostSeq => e.src = hostSrc

\* Without the host's symbols nothing is taken over but by resumeQueue.
TakenOver == m_takeover => hostReady \/ adopted

\* The host has the song while the component waits for it to start.
AwaitedIsCurrent ==
  Comparable /\ m_step = "WaitPlaying" => hostSrc \in OursOrForeign

\* The session recorded as ours, as long as the host has it.
SessionIsCurrent ==
  Comparable /\ sinceStart >= 0 /\ hostSeq = m_ourSeq => hostSrc \in OursOrForeign

\* The ends still to come of the session recorded as ours.
EndsAreCurrent ==
  Comparable /\ sinceStart >= 0
    => \A e \in ends : e.seq = m_ourSeq => e.src \in OursOrForeign

SessionInv == /\ EndsOfThisSession /\ TakenOver /\ AwaitedIsCurrent
              /\ SessionIsCurrent /\ EndsAreCurrent

-----------------------------------------------------------------------------
\* A step that neither starts a session nor puts on another song.
LEMMA QuietStep ==
  ASSUME SessionInv, ends' \subseteq ends,
         UNCHANGED <<m_queue, m_currentSong, m_ourSeq, m_takeover, adopted,
                     hostReady, hostSeq, hostSrc>>,
         sinceStart' >= 0 => sinceStart >= 0,
         m_step' = "WaitPlaying" => m_step = "WaitPlaying"
  PROVE  SessionInv'
<1>1. EndsOfThisSession' /\ TakenOver'
  BY DEF SessionInv, EndsOfThisSession, TakenOver
<1>2. AwaitedIsCurrent' /\ SessionIsCurrent' /\ EndsAreCurrent'
  BY DEF SessionInv, AwaitedIsCurrent, SessionIsCurrent, EndsAreCurrent,
     Comparable, OursOrForeign
<1>3. QED
  BY <1>1, <1>2 DEF SessionInv

\* Once no session is recorded as ours and none is waited for, no end counts.
LEMMA NothingStarted ==
  ASSUME EndsOfThisSession', TakenOver', sinceStart' = NotStarted \/ ~Comparable',
         m_step' # "WaitPlaying" \/ ~Comparable'
  PROVE  SessionInv'
BY DEF SessionInv, AwaitedIsCurrent, SessionIsCurrent, EndsAreCurrent, NotStarted

\* playIndex at a position of the queue forgets the session of the song before.
LEMMA PlayIndexForgets ==
  ASSUME NEW q, NEW i \in 0..(Len(q) - 1), PlayIndex(q, i)
  PROVE  sinceStart' = NotStarted /\ m_step' # "WaitPlaying" /\ m_index' = i
BY DEF PlayIndex, SessionAfterPlayIndex, GoIdle, StartStep

\* An end that is recorded is about the host's session and track.
LEMMA RecordedEnd ==
  ASSUME EndsOfThisSession, NEW n, CutShort(EndOfHostTrack(n)), NEW e \in ends',
         e.seq = hostSeq
  PROVE  e.src = hostSrc
BY DEF EndsOfThisSession, CutShort, EndOfHostTrack

\* A session the host starts has a number no end event carries.
LEMMA FreshSession ==
  ASSUME NEW n, CutShort(EndOfHostTrack(n)), NEW s \in Sessions \ InUse,
         NEW e \in ends'
  PROVE  e.seq # s
BY DEF CutShort, EndOfHostTrack, InUse

\* doPlay: the host's new session is about the track it was given.
LEMMA DoPlaySession ==
  ASSUME SessionInv, NEW src, DoPlay(src)
  PROVE  /\ EndsOfThisSession' /\ TakenOver'
         /\ hostReady' = hostReady
         /\ hostReady => /\ hostSrc' = src
                         /\ \A e \in ends' : e.seq # hostSeq'
         /\ ~hostReady => UNCHANGED <<m_takeover, adopted, hostVars>>
<1>1. CASE hostReady
  <2>1. /\ CutShort(EndOfHostTrack(FALSE)) /\ hostSeq' \in Sessions \ InUse
        /\ hostSrc' = src /\ UNCHANGED hostReady
    BY <1>1 DEF DoPlay, HostPlays
  <2>2. \A e \in ends' : e.seq # hostSeq'
    BY <2>1, FreshSession
  <2>3. EndsOfThisSession' /\ TakenOver'
    BY <1>1, <2>1, <2>2 DEF EndsOfThisSession, TakenOver
  <2>4. QED
    BY <1>1, <2>1, <2>2, <2>3
<1>2. CASE ~hostReady
  BY <1>2 DEF DoPlay, hostVars, SessionInv, EndsOfThisSession, TakenOver
<1>3. QED
  BY <1>1, <1>2

-----------------------------------------------------------------------------
LEMMA InitSession == Init => SessionInv
BY DEF Init, SessionInv, EndsOfThisSession, TakenOver, AwaitedIsCurrent,
   SessionIsCurrent, EndsAreCurrent, Comparable, NotStarted

LEMMA UiPlaySongSession == SessionInv /\ UiPlaySong => SessionInv'
<1> SUFFICES ASSUME SessionInv, NEW q \in Queues, NEW i \in 0..(Len(q) - 1),
                    PlayIndex(q, i), UNCHANGED <<ownVars, hostVars>>
             PROVE  SessionInv'
  BY DEF UiPlaySong
<1>1. sinceStart' = NotStarted /\ m_step' # "WaitPlaying"
  BY PlayIndexForgets
<1>2. EndsOfThisSession' /\ TakenOver'
  BY DEF SessionInv, EndsOfThisSession, TakenOver, ownVars, hostVars
<1>3. QED
  BY <1>1, <1>2, NothingStarted

\* handleNext, handlePrev and handleSongEnded move to a position of the queue.
LEMMA AdvanceSession ==
  ASSUME SessionInv, NEW i \in 0..(Len(m_queue) - 1), PlayIndex(m_queue, i),
         UNCHANGED ownVars, UNCHANGED <<hostReady, hostSeq, hostSrc>>,
         ends' \subseteq ends
  PROVE  SessionInv' /\ m_index' = i
<1>1. sinceStart' = NotStarted /\ m_step' # "WaitPlaying" /\ m_index' = i
  BY PlayIndexForgets
<1>2. EndsOfThisSession' /\ TakenOver'
  BY DEF SessionInv, EndsOfThisSession, TakenOver, ownVars
<1>3. QED
  BY <1>1, <1>2, NothingStarted

\* "next" and "previous" lead to a position of a queue that is not empty.
LEMMA MovesInQueue ==
  ASSUME Inv, m_queue # <<>>
  PROVE  /\ NextIndex(m_queue, m_index) \in 0..(Len(m_queue) - 1)
         /\ PrevIndex(m_queue, m_index) \in 0..(Len(m_queue) - 1)
<1>1. /\ m_queue \in Seq(Songs) /\ Len(m_queue) \in Nat
      /\ m_index \in Int /\ m_index >= -1 /\ m_index < Len(m_queue)
  BY DEF Inv, TypeOK, QueueTypeOK
<1>2. NextIndex(m_queue, m_index) \in 0..(Len(m_queue) - 1)
  BY <1>1, NextIndexInQueue
<1>3. PrevIndex(m_queue, m_index) \in 0..(Len(m_queue) - 1)
  BY <1>1, PrevIndexInQueue
<1>4. QED
  BY <1>2, <1>3

LEMMA ClickNextSession == Inv /\ SessionInv /\ ClickNext => SessionInv'
<1> SUFFICES ASSUME Inv, SessionInv, ClickNext PROVE SessionInv'
  OBVIOUS
<1>1. CASE SwallowsNext
  BY <1>1, QuietStep DEF ClickNext, ownVars, hostVars, stepVars
<1>2. CASE ~SwallowsNext
  <2>1. m_queue # <<>>
    BY DEF ClickNext, HostButtonsOurs
  <2>2. NextIndex(m_queue, m_index) \in 0..(Len(m_queue) - 1)
    BY <2>1, MovesInQueue
  <2>3. QED
    BY <1>2, <2>2, AdvanceSession DEF ClickNext, hostVars
<1>3. QED
  BY <1>1, <1>2

LEMMA ClickPrevSession == Inv /\ SessionInv /\ ClickPrev => SessionInv'
<1> SUFFICES ASSUME Inv, SessionInv, ClickPrev PROVE SessionInv'
  OBVIOUS
<1>1. PrevIndex(m_queue, m_index) \in 0..(Len(m_queue) - 1)
  BY MovesInQueue DEF ClickPrev, HostButtonsOurs
<1>2. QED
  BY <1>1, AdvanceSession DEF ClickPrev, hostVars

-----------------------------------------------------------------------------
\* An end the component looks at moves the queue to the next position or not
\* at all, also when the host's own handler has clicked "next" before: the
\* session of the song before is forgotten by then.
LEMMA SoundEndMoves ==
  ASSUME Inv, NEW e \in ends, SoundEnd(e)
  PROVE  \/ UNCHANGED <<m_index, m_currentSong, stepVars, sinceStart, m_ourSeq>>
         \/ /\ NextIndex(m_queue, m_index) \in 0..(Len(m_queue) - 1)
            /\ PlayIndex(m_queue, NextIndex(m_queue, m_index))
<1>1. m_queue # <<>> => NextIndex(m_queue, m_index) \in 0..(Len(m_queue) - 1)
  BY MovesInQueue
<1>2. ASSUME NEW w, HandleSongEnded(e, w)
      PROVE  \/ UNCHANGED <<m_index, m_currentSong, stepVars, sinceStart, m_ourSeq>>
             \/ m_queue # <<>> /\ PlayIndex(m_queue, NextIndex(m_queue, m_index))
  BY <1>2 DEF HandleSongEnded, EndAccepted, EndAcceptedAt
<1>3. CASE HostButtonsOurs /\ ClickedThenEnded(e, NextIndex(m_queue, m_index))
  <2>1. SessionAfterPlayIndex(m_queue, NextIndex(m_queue, m_index)).sinceStart
          = NotStarted
    BY <1>1, <1>3 DEF HostButtonsOurs, SessionAfterPlayIndex
  <2>2. PlayIndex(m_queue, NextIndex(m_queue, m_index))
    BY <1>3, <2>1 DEF ClickedThenEnded, EndAcceptedAt, NotStarted
  <2>3. QED
    BY <1>1, <1>3, <2>2 DEF HostButtonsOurs
<1>4. QED
  BY <1>1, <1>2, <1>3 DEF SoundEnd

LEMMA DeliverEndSession == Inv /\ SessionInv /\ DeliverEnd => SessionInv'
<1> SUFFICES ASSUME Inv, SessionInv, NEW e \in ends, SoundEnd(e) PROVE SessionInv'
  BY DEF DeliverEnd
<1>1. /\ UNCHANGED ownVars /\ UNCHANGED <<hostReady, hostSeq, hostSrc>>
      /\ UNCHANGED m_queue /\ ends' \subseteq ends
  BY DEF SoundEnd, HostHandlesEnd
<1>2. CASE UNCHANGED <<m_index, m_currentSong, stepVars, sinceStart, m_ourSeq>>
  BY <1>1, <1>2, QuietStep DEF ownVars, stepVars
<1>3. CASE /\ NextIndex(m_queue, m_index) \in 0..(Len(m_queue) - 1)
           /\ PlayIndex(m_queue, NextIndex(m_queue, m_index))
  BY <1>1, <1>3, AdvanceSession
<1>4. QED
  BY <1>2, <1>3, SoundEndMoves

-----------------------------------------------------------------------------
LEMMA UiPlayDownloadSession == SessionInv /\ UiPlayDownload => SessionInv'
<1> SUFFICES ASSUME SessionInv, UiPlayDownload PROVE SessionInv'
  OBVIOUS
<1>1. EndsOfThisSession' /\ TakenOver'
  BY DoPlaySession DEF UiPlayDownload
<1>2. ~Comparable'
  BY DEF Comparable, UiPlayDownload, ForgetQueue
<1>3. QED
  BY <1>1, <1>2, NothingStarted

LEMMA UiStopSession == SessionInv /\ UiStop => SessionInv'
<1> SUFFICES ASSUME SessionInv, UiStop PROVE SessionInv'
  OBVIOUS
<1>1. EndsOfThisSession' /\ TakenOver'
  BY RecordedEnd DEF UiStop, SessionInv, EndsOfThisSession, TakenOver
<1>2. ~Comparable'
  BY DEF Comparable, UiStop, ForgetQueue
<1>3. QED
  BY <1>1, <1>2, NothingStarted

LEMMA IdleTickSession == SessionInv /\ IdleTick => SessionInv'
<1> SUFFICES ASSUME SessionInv, IdleTick PROVE SessionInv'
  OBVIOUS
<1>1. EndsOfThisSession' /\ TakenOver'
  BY DEF IdleTick, hostVars, SessionInv, EndsOfThisSession, TakenOver
<1>2. ~Comparable'
  BY DEF Comparable, IdleTick, ForgetQueue
<1>3. QED
  BY <1>1, <1>2, NothingStarted

LEMMA UiOpenSession == SessionInv /\ UiOpen => SessionInv'
<1> SUFFICES ASSUME SessionInv, UiOpen PROVE SessionInv'
  OBVIOUS
<1>1. CASE UNCHANGED <<queueVars, sessionVars, ownVars>>
  BY <1>1, QuietStep DEF UiOpen, queueVars, sessionVars, ownVars, stepVars, hostVars
<1>2. CASE adopted' = TRUE
  <2>1. EndsOfThisSession' /\ TakenOver'
    BY <1>2 DEF UiOpen, hostVars, SessionInv, EndsOfThisSession, TakenOver
  <2>2. ~Comparable'
    BY <1>2 DEF Comparable
  <2>3. QED
    BY <2>1, <2>2, NothingStarted
<1>3. QED
  BY <1>1, <1>2 DEF UiOpen, Resume

LEMMA PlayFileSession == SessionInv /\ PlayFile => SessionInv'
<1> SUFFICES ASSUME SessionInv, PlayFile PROVE SessionInv'
  OBVIOUS
<1>1. /\ EndsOfThisSession' /\ TakenOver'
      /\ hostReady' = hostReady
      /\ hostReady => /\ hostSrc' = m_currentSong
                      /\ \A e \in ends' : e.seq # hostSeq'
  BY DoPlaySession DEF PlayFile
<1>2. m_ourSeq' = hostSeq' /\ m_step' = "Idle" /\ UNCHANGED m_currentSong
  BY DEF PlayFile, FinishPlay, GoIdle, queueVars
<1>3. QED
  BY <1>1, <1>2 DEF SessionInv, AwaitedIsCurrent, SessionIsCurrent, EndsAreCurrent,
     Comparable, OursOrForeign

LEMMA OnlineSession == SessionInv /\ Online => SessionInv'
<1> SUFFICES ASSUME SessionInv, Online PROVE SessionInv'
  OBVIOUS
<1>1. /\ EndsOfThisSession' /\ TakenOver'
      /\ hostReady' = hostReady
      /\ hostReady => hostSrc' = m_currentSong
  BY DoPlaySession DEF Online
<1>2. sinceStart' = NotStarted /\ UNCHANGED m_currentSong
  BY DEF Online, SessionAfterDoPlay, queueVars
<1>3. AwaitedIsCurrent'
  BY <1>1, <1>2 DEF AwaitedIsCurrent, Comparable, OursOrForeign
<1>4. SessionIsCurrent' /\ EndsAreCurrent'
  BY <1>2 DEF SessionIsCurrent, EndsAreCurrent, NotStarted
<1>5. QED
  BY <1>1, <1>3, <1>4 DEF SessionInv

\* The host plays what it was given: its session becomes ours.
LEMMA HostConfirmsSession == SessionInv /\ HostConfirms => SessionInv'
<1> SUFFICES ASSUME SessionInv, HostConfirms PROVE SessionInv'
  OBVIOUS
<1>1. UNCHANGED <<m_queue, m_currentSong, ownVars, hostVars>>
  BY DEF HostConfirms, queueVars
<1>2. EndsOfThisSession' /\ TakenOver'
  BY <1>1 DEF hostVars, ownVars, SessionInv, EndsOfThisSession, TakenOver
<1>3. Comparable' => hostSrc' \in OursOrForeign'
  BY <1>1 DEF hostVars, ownVars, HostConfirms, SessionInv, AwaitedIsCurrent,
     Comparable, OursOrForeign
<1>4. m_ourSeq' = hostSeq' /\ m_step' = "Idle"
  BY <1>1 DEF HostConfirms, FinishPlay, GoIdle, hostVars
<1>5. QED
  BY <1>2, <1>3, <1>4 DEF SessionInv, AwaitedIsCurrent, SessionIsCurrent,
     EndsAreCurrent, EndsOfThisSession

\* Whatever the host does by itself, it does not touch the session recorded as
\* ours without giving it an unused number or leaving its track in place.
LEMMA HostSession == SessionInv /\ Host => SessionInv'
<1> SUFFICES ASSUME SessionInv, Host PROVE SessionInv'
  OBVIOUS
<1>1. /\ UNCHANGED <<m_queue, m_currentSong, m_step, sinceStart, m_ourSeq>>
      /\ UNCHANGED <<m_takeover, adopted, hostReady>>
  BY DEF Host, queueVars, stepVars, sessionVars, ownVars, HostBegins,
     HostCannotLoad, HostPauses, HostUserStops, HostPlaysForeign, HostTakesOver,
     HostTrackEnds
<1>2. CASE UNCHANGED <<hostSeq, hostSrc, ends>>
  BY <1>1, <1>2, QuietStep
<1>3. ASSUME NEW n, CutShort(EndOfHostTrack(n)),
             \/ hostSeq' = hostSeq /\ hostSrc' = hostSrc
             \/ hostSeq' \in Sessions \ InUse /\ hostSrc' \in {hostSrc, Foreign}
      PROVE  SessionInv'
  <2>1. EndsOfThisSession'
    BY <1>3, RecordedEnd, FreshSession DEF SessionInv, EndsOfThisSession
  <2>2. TakenOver'
    BY <1>1 DEF SessionInv, TakenOver
  <2>3. AwaitedIsCurrent'
    BY <1>1, <1>3 DEF SessionInv, AwaitedIsCurrent, Comparable, OursOrForeign
  <2>4. SessionIsCurrent'
    BY <1>1, <1>3 DEF SessionInv, SessionIsCurrent, Comparable, OursOrForeign, InUse
  <2>5. EndsAreCurrent'
    BY <1>1, <1>3 DEF SessionInv, SessionIsCurrent, EndsAreCurrent, Comparable,
       OursOrForeign, CutShort, EndOfHostTrack
  <2>6. QED
    BY <2>1, <2>2, <2>3, <2>4, <2>5 DEF SessionInv
<1>4. CASE HostBegins
  BY <1>3, <1>4 DEF HostBegins, CutShort
<1>5. CASE HostUserStops \/ HostPlaysForeign
  BY <1>3, <1>5 DEF HostUserStops, HostPlaysForeign, HostTakesOver
<1>6. CASE HostTrackEnds
  BY <1>3, <1>6 DEF HostTrackEnds, CutShort, HostActive
<1>7. QED
  BY <1>2, <1>4, <1>5, <1>6 DEF Host, HostCannotLoad, HostPauses

\* The other actions leave the sessions alone.
LEMMA OthersSession ==
  ASSUME SessionInv,
         \/ UiLeave \/ SendRpc \/ PollReply \/ PollTimeout \/ CheckCache
         \/ HostSilent \/ CacheTick \/ Runner \/ TimePasses \/ UNCHANGED vars
  PROVE  SessionInv'
<1>1. /\ UNCHANGED <<queueVars, m_ourSeq, ownVars, hostVars>>
      /\ sinceStart' >= 0 => sinceStart >= 0
      /\ m_step' = "WaitPlaying" => m_step = "WaitPlaying"
  <2>1. CASE UiLeave \/ UNCHANGED vars
    BY <2>1 DEF UiLeave, vars, sessionVars, stepVars
  <2>2. CASE SendRpc \/ PollReply \/ PollTimeout
    BY <2>2 DEF SendRpc, PollReply, PollTimeout, OnRpcResp, StartStep, FailStep,
       GoIdle, sessionVars
  <2>3. CASE CheckCache \/ HostSilent
    BY <2>3 DEF CheckCache, HostSilent, StartStep, FailStep, GoIdle, sessionVars
  <2>4. CASE CacheTick
    BY <2>4 DEF CacheTick, CacheGood, CacheBad, CacheTimeout, StartStep,
       sessionVars, stepVars
  <2>5. CASE Runner
    BY <2>5 DEF Runner, sessionVars
  <2>6. CASE TimePasses
    BY <2>6 DEF TimePasses, stepVars
  <2>7. QED
    BY <2>1, <2>2, <2>3, <2>4, <2>5, <2>6
<1>2. QED
  BY <1>1, QuietStep DEF queueVars, ownVars, hostVars

-----------------------------------------------------------------------------
\* In every reachable state the session recorded as ours, and every end still
\* to come of it, is about the song the queue stands at (or about a track of
\* the user's own that slipped in before the host confirmed the song).
THEOREM SessionsAreCurrent == Spec => []SessionInv
<1>1. Init => SessionInv
  BY InitSession
<1>2. Inv /\ SessionInv /\ [Next]_vars => SessionInv'
  <2> SUFFICES ASSUME Inv, SessionInv, [Next]_vars PROVE SessionInv'
    OBVIOUS
  <2>1. CASE Ui
    BY <2>1, UiPlaySongSession, UiPlayDownloadSession, UiStopSession, UiOpenSession,
       OthersSession DEF Ui
  <2>2. CASE Tick
    BY <2>2, OthersSession, PlayFileSession, OnlineSession, HostConfirmsSession
       DEF Tick
  <2>3. CASE Detour
    BY <2>3, ClickNextSession, ClickPrevSession, DeliverEndSession DEF Detour
  <2>4. QED
    BY <2>1, <2>2, <2>3, IdleTickSession, HostSession, OthersSession DEF Next
<1>3. QED
  BY <1>1, <1>2, Correct, PTL DEF Spec

\* The queue advances on a "sound end" only if the song it stands at has ended:
\* late events of replaced sessions change nothing (handleSongEnded).
THEOREM OnlyTheCurrentSongEnds == Spec => EndedSongIsCurrent
<1> DEFINE A == \A e \in ends :
                  EndAccepted(e) /\ e.src # Foreign /\ ~adopted => e.src = m_currentSong
<1>1. SessionInv => A
  BY DEF SessionInv, TakenOver, EndsAreCurrent, EndAccepted, EndAcceptedAt,
     Comparable, OursOrForeign
<1>2. SessionInv /\ [Next]_vars => [A]_vars
  BY <1>1
<1>3. QED
  BY SessionsAreCurrent, <1>2, PTL DEF Spec, EndedSongIsCurrent

\* One "sound end" moves the queue by at most one song (onSoundEndDetour).
THEOREM OneSongPerEnd == Spec => OneAdvancePerEnd
<1> DEFINE A == DeliverEnd => \/ UNCHANGED <<m_index, m_currentSong, m_step>>
                              \/ m_index' = NextIndex(m_queue, m_index)
<1>1. Inv /\ [Next]_vars => [A]_vars
  <2> SUFFICES ASSUME Inv, NEW e \in ends, SoundEnd(e)
               PROVE  \/ UNCHANGED <<m_index, m_currentSong, m_step>>
                      \/ m_index' = NextIndex(m_queue, m_index)
    BY DEF DeliverEnd
  <2>1. QED
    BY SoundEndMoves, PlayIndexForgets DEF stepVars
<1>2. QED
  BY Correct, <1>1, PTL DEF Spec, OneAdvancePerEnd
=============================================================================
