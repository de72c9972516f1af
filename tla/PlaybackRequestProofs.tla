----------------------- MODULE PlaybackRequestProofs -----------------------
(***************************************************************************)
(* LxPenPlayer implements PlaybackRequest, for every set of songs, queues  *)
(* and sessions: the simulation of each action, from the inductive         *)
(* invariant of LxPenPlayerProofs and the fact that work is about a song.  *)
(***************************************************************************)
EXTENDS LxPenPlayerProofs

\* What is being put on is a song.
SongKnown == Working => m_currentSong \in Songs

\* A step that keeps SongKnown and is one of the abstract specification.
Simulated == SongKnown' /\ (Request!Next \/ UNCHANGED Request!vars)

-----------------------------------------------------------------------------
(* The kinds of steps.                                                     *)

hostView == <<hostReady, hostSrc>>

\* The work goes on, or there is still none.
LEMMA GoesOn ==
  ASSUME SongKnown, Working' <=> Working, (goal = "song")' <=> goal = "song",
         UNCHANGED <<m_currentSong, hostView>>
  PROVE  Simulated
<1>1. Wanted' = Wanted
  BY DEF Wanted
<1>2. (goal = "song")' = (goal = "song")
  OBVIOUS
<1>3. UNCHANGED Request!vars
  BY <1>1, <1>2 DEF Request!vars, hostView
<1>4. SongKnown'
  BY DEF SongKnown
<1>5. QED
  BY <1>3, <1>4 DEF Simulated

\* Answered or withdrawn, or there was nothing to answer.
LEMMA Settles ==
  ASSUME Inv, SongKnown, ~Working', goal' = "idle", UNCHANGED hostView
  PROVE  Simulated
<1>1. Wanted' = NoSong /\ (goal = "song")' = FALSE /\ SongKnown'
  BY DEF Wanted, SongKnown
<1>2. CASE Working
  <2>1. Wanted # NoSong
    BY <1>2, SongAssumption DEF Wanted, SongKnown
  <2>2. Request!Settle
    BY <1>1, <2>1 DEF Request!Settle, hostView
  <2>3. QED
    BY <1>1, <2>2 DEF Simulated, Request!Next, hostView
<1>3. CASE ~Working
  <2>1. Wanted = NoSong /\ (goal = "song") = FALSE
    BY <1>3 DEF Wanted, Inv, OwedWorks
  <2>2. QED
    BY <1>1, <2>1 DEF Simulated, Request!vars, hostView
<1>4. QED
  BY <1>2, <1>3

\* playIndex: another song is asked for, or the request cannot be met.
LEMMA Asks ==
  ASSUME Inv, SongKnown, NEW q \in Seq(Songs), NEW i \in Int, PlayIndex(q, i),
         UNCHANGED hostView
  PROVE  Simulated
<1>1. CASE i \notin 0..(Len(q) - 1)
  BY <1>1, GoesOn DEF PlayIndex, Working, stepVars, cacheVars
<1>2. CASE i \in 0..(Len(q) - 1)
  <2>1. q[i + 1] \in Songs /\ m_currentSong' = q[i + 1] /\ m_playAfterCache' = FALSE
    BY <1>2 DEF PlayIndex, DropReplies
  <2>2. CASE q[i + 1] \in NoSource
    <3>1. ~Working' /\ goal' = "idle"
      BY <1>2, <2>1, <2>2 DEF PlayIndex, GoIdle, Working
    <3>2. QED
      BY <3>1, Settles
  <2>3. CASE q[i + 1] \notin NoSource
    <3>1. Working' /\ goal' = "song"
      BY <1>2, <2>3 DEF PlayIndex, StartStep, Working
    <3>2. Wanted' = q[i + 1] /\ (goal = "song")' = TRUE /\ SongKnown'
      BY <2>1, <3>1 DEF Wanted, SongKnown
    <3>3. Request!Ask(q[i + 1])
      BY <3>2 DEF Request!Ask, hostView
    <3>4. QED
      BY <2>1, <3>2, <3>3 DEF Simulated, Request!Next, hostView
  <2>4. QED
    BY <2>2, <2>3
<1>3. QED
  BY <1>1, <1>2

\* doPlay with the current song.
LEMMA PutsOn ==
  ASSUME Inv, SongKnown, Working, DoPlay(m_currentSong), UNCHANGED m_currentSong,
         \/ Working' /\ UNCHANGED goal
         \/ ~Working' /\ goal' = "idle"
  PROVE  Simulated
<1>1. hostReady' = hostReady
  BY DEF DoPlay, HostPlays, hostVars
<1>2. CASE ~hostReady
  <2>1. UNCHANGED hostView
    BY <1>2 DEF DoPlay, hostVars, hostView
  <2>2. QED
    BY <2>1, GoesOn, Settles
<1>3. CASE hostReady
  <2>1. hostSrc' = m_currentSong
    BY <1>3 DEF DoPlay, HostPlays
  <2>2. Wanted = m_currentSong /\ Wanted # NoSong
    BY SongAssumption DEF Wanted, SongKnown
  <2>3. \/ Wanted' = Wanted /\ (goal = "song")' = (goal = "song")
        \/ Wanted' = NoSong /\ (goal = "song")' = FALSE
    BY <2>2 DEF Wanted
  <2>4. Request!PutOn
    BY <2>1, <2>2, <2>3 DEF Request!PutOn
  <2>5. SongKnown'
    BY DEF SongKnown
  <2>6. QED
    BY <1>1, <2>4, <2>5 DEF Simulated, Request!Next
<1>4. QED
  BY <1>2, <1>3

-----------------------------------------------------------------------------
(* The actions.                                                            *)

LEMMA UiSimulated == Inv /\ SongKnown /\ Ui => Simulated
<1> SUFFICES ASSUME Inv, SongKnown, Ui PROVE Simulated
  OBVIOUS
<1>1. CASE UiPlaySong
  <2>1. PICK q \in Queues : \E i \in 0..(Len(q) - 1) : PlayIndex(q, i)
    BY <1>1 DEF UiPlaySong
  <2>2. q \in Seq(Songs)
    BY <2>1, SongAssumption
  <2>3. UNCHANGED hostView
    BY <1>1 DEF UiPlaySong, hostVars, hostView
  <2>4. PICK i \in Int : PlayIndex(q, i)
    BY <2>1, <2>2
  <2>5. QED
    BY <2>2, <2>3, <2>4, Asks
<1>2. CASE UiPlayDownload
  <2>1. /\ hostReady' = hostReady
        /\ hostSrc' = IF hostReady THEN File ELSE hostSrc
    BY <1>2 DEF UiPlayDownload, DoPlay, HostPlays, hostVars
  <2>2. /\ m_currentSong' = m_currentSong /\ m_step' = m_step
        /\ m_playAfterCache' = FALSE /\ goal' = "file"
    BY <1>2 DEF UiPlayDownload, stepVars
  <2>3. Working' => Working
    BY <2>2 DEF Working
  <2>4. Wanted' \in {Wanted, NoSong} /\ (goal = "song")' = FALSE /\ SongKnown'
    BY <2>2, <2>3 DEF Wanted, SongKnown
  <2>5. Request!PlayFile
    BY <2>1, <2>4 DEF Request!PlayFile
  <2>6. QED
    BY <2>1, <2>4, <2>5 DEF Simulated, Request!Next
<1>3. CASE UiStop
  <2>1. ~Working' /\ goal' = "idle" /\ UNCHANGED hostView
    BY <1>3 DEF UiStop, CancelPlay, GoIdle, DropReplies, Working, hostView
  <2>2. QED
    BY <2>1, Settles
<1>4. CASE UiLeave
  BY <1>4, GoesOn DEF UiLeave, Working, queueVars, hostVars, hostView
<1>5. CASE UiOpen
  BY <1>5, GoesOn DEF UiOpen, Resume, Working, queueVars, stepVars, cacheVars, hostVars, hostView
<1>6. QED
  BY <1>1, <1>2, <1>3, <1>4, <1>5 DEF Ui

LEMMA IdleTickSimulated == Inv /\ SongKnown /\ IdleTick => Simulated
<1> SUFFICES ASSUME Inv, SongKnown, IdleTick PROVE Simulated
  OBVIOUS
<1>1. ~Working' /\ goal' = "idle" /\ UNCHANGED hostView
  BY DEF IdleTick, CancelPlay, GoIdle, DropReplies, Working, hostVars, hostView
<1>2. QED
  BY <1>1, Settles

LEMMA TickSimulated == Inv /\ SongKnown /\ Tick => Simulated
<1> SUFFICES ASSUME Inv, SongKnown, Tick PROVE Simulated
  OBVIOUS
<1> USE DEF Working, queueVars, cacheVars, hostVars, hostView
<1>1. CASE SendRpc
  BY <1>1, GoesOn DEF SendRpc
<1>2. CASE PollReply
  <2>1. CASE FailStep
    <3>1. ~m_playAfterCache'
      BY <1>2 DEF PollReply, Inv, PollersRun, TypeOK, StepTypeOK, RpcSteps
    <3>2. QED
      BY <1>2, <2>1, <3>1, Settles DEF PollReply, FailStep, GoIdle
  <2>2. CASE ~FailStep
    <3>1. Working /\ Working' /\ UNCHANGED goal
      BY <1>2, <2>2 DEF PollReply, OnRpcResp, StartStep
    <3>2. QED
      BY <1>2, <3>1, GoesOn DEF PollReply
  <2>3. QED
    BY <2>1, <2>2
<1>3. CASE PollTimeout
  <2>1. CASE m_step = "GetLyric"
    BY <1>3, <2>1, GoesOn DEF PollTimeout, StartStep
  <2>2. CASE m_step # "GetLyric"
    <3>1. ~m_playAfterCache'
      BY <1>3 DEF PollTimeout, Inv, PollersRun, RpcSteps
    <3>2. QED
      BY <1>3, <2>2, <3>1, Settles DEF PollTimeout, FailStep, GoIdle
  <2>3. QED
    BY <2>1, <2>2
<1>4. CASE CheckCache
  BY <1>4, GoesOn DEF CheckCache, StartStep
<1>5. CASE PlayFile
  <2>1. Working /\ ~Working' /\ goal' = "idle"
    BY <1>5 DEF PlayFile, FinishPlay, GoIdle, Inv, PollersRun
  <2>2. QED
    BY <1>5, <2>1, PutsOn DEF PlayFile
<1>6. CASE Online
  <2>1. Working
    BY <1>6 DEF Online
  <2>2. CASE hostReady
    BY <1>6, <2>1, <2>2, PutsOn DEF Online
  <2>3. CASE ~hostReady
    <3>1. ~Working' /\ goal' = "idle"
      BY <1>6, <2>3 DEF Online, FailStep, GoIdle, Inv, PollersRun
    <3>2. QED
      BY <1>6, <2>1, <3>1, PutsOn DEF Online
  <2>4. QED
    BY <2>2, <2>3
<1>7. CASE HostConfirms
  <2>1. ~Working' /\ goal' = "idle"
    BY <1>7 DEF HostConfirms, FinishPlay, GoIdle, Inv, PollersRun
  <2>2. QED
    BY <1>7, <2>1, Settles DEF HostConfirms
<1>8. CASE HostSilent
  <2>1. CASE m_cacheBusy
    BY <1>8, <2>1, GoesOn DEF HostSilent
  <2>2. CASE ~m_cacheBusy
    <3>1. ~Working' /\ goal' = "idle"
      BY <1>8, <2>2 DEF HostSilent, FailStep, GoIdle, Inv, PollersRun
    <3>2. QED
      BY <1>8, <3>1, Settles DEF HostSilent
  <2>3. QED
    BY <2>1, <2>2
<1>9. QED
  BY <1>1, <1>2, <1>3, <1>4, <1>5, <1>6, <1>7, <1>8 DEF Tick

LEMMA CacheTickSimulated == Inv /\ SongKnown /\ CacheTick => Simulated
<1> SUFFICES ASSUME Inv, SongKnown, CacheTick PROVE Simulated
  OBVIOUS
<1> USE DEF Working, queueVars, stepVars, hostVars, hostView
<1>1. CASE CacheGood
  <2>1. Working' <=> Working
    BY <1>1 DEF CacheGood, StartStep
  <2>2. QED
    BY <1>1, <2>1, GoesOn DEF CacheGood
<1>2. CASE CacheBad
  BY <1>2, GoesOn DEF CacheBad
<1>3. CASE CacheTimeout
  BY <1>3, GoesOn DEF CacheTimeout
<1>4. QED
  BY <1>1, <1>2, <1>3 DEF CacheTick

LEMMA DetourSimulated == Inv /\ SongKnown /\ Detour => Simulated
<1> SUFFICES ASSUME Inv, SongKnown, Detour PROVE Simulated
  OBVIOUS
<1>1. /\ m_queue \in Seq(Songs)
      /\ NextIndex(m_queue, m_index) \in Int /\ PrevIndex(m_queue, m_index) \in Int
  BY DEF Inv, TypeOK, QueueTypeOK, NextIndex, PrevIndex
<1>2. UNCHANGED hostView
  BY DEF Detour, ClickNext, ClickPrev, DeliverEnd, SoundEnd, HostHandlesEnd, hostVars, hostView
<1>3. CASE \E i \in Int : PlayIndex(m_queue, i)
  BY <1>1, <1>2, <1>3, Asks
<1>4. CASE UNCHANGED <<m_currentSong, stepVars, cacheVars, goal>>
  BY <1>2, <1>4, GoesOn DEF Working, stepVars, cacheVars
<1>5. CASE ClickNext
  BY <1>1, <1>3, <1>4, <1>5 DEF ClickNext
<1>6. CASE ClickPrev
  BY <1>1, <1>3, <1>6 DEF ClickPrev
<1>7. ASSUME NEW e \in ends, SoundEnd(e) PROVE Simulated
  <2>1. CASE \E w : HandleSongEnded(e, w)
    BY <1>1, <1>3, <1>4, <2>1 DEF HandleSongEnded
  <2>2. CASE ClickedThenEnded(e, NextIndex(m_queue, m_index))
    <3>1. NextIndex(m_queue, NextIndex(m_queue, m_index)) \in Int
      BY <1>1 DEF NextIndex
    <3>2. QED
      BY <1>1, <1>3, <2>2, <3>1 DEF ClickedThenEnded
  <2>3. QED
    BY <1>7, <2>1, <2>2 DEF SoundEnd
<1>8. QED
  BY <1>5, <1>6, <1>7 DEF Detour, DeliverEnd

LEMMA HostSimulated == Inv /\ SongKnown /\ Host => Simulated
<1> SUFFICES ASSUME Inv, SongKnown, Host PROVE Simulated
  OBVIOUS
<1>1. UNCHANGED <<m_step, m_playAfterCache, m_currentSong, goal>>
  BY DEF Host, queueVars, stepVars, cacheVars
<1>2. hostReady' = hostReady /\ hostSrc' \in {hostSrc, Foreign}
  BY DEF Host, HostBegins, HostCannotLoad, HostPauses, HostUserStops, HostPlaysForeign,
     HostTakesOver, HostTrackEnds
<1>3. CASE hostSrc' = hostSrc
  BY <1>1, <1>2, <1>3, GoesOn DEF Working, hostView
<1>4. CASE hostSrc' = Foreign
  <2>1. Wanted' = Wanted /\ (goal = "song")' = (goal = "song") /\ SongKnown'
    BY <1>1 DEF Wanted, Working, SongKnown
  <2>2. Request!UserPlaysForeign
    BY <1>4, <2>1 DEF Request!UserPlaysForeign
  <2>3. QED
    BY <1>2, <2>1, <2>2 DEF Simulated, Request!Next
<1>5. QED
  BY <1>2, <1>3, <1>4

LEMMA StepSimulated == Inv /\ SongKnown /\ [Next]_vars => Simulated
<1> SUFFICES ASSUME Inv, SongKnown, [Next]_vars PROVE Simulated
  OBVIOUS
<1>1. CASE Runner \/ TimePasses \/ UNCHANGED vars
  <2>1. UNCHANGED <<m_step, m_playAfterCache, m_currentSong, goal, hostView>>
    BY <1>1 DEF Runner, TimePasses, vars, queueVars, stepVars, cacheVars, hostVars, hostView
  <2>2. QED
    BY <2>1, GoesOn DEF Working
<1>2. QED
  BY <1>1, UiSimulated, IdleTickSimulated, TickSimulated, CacheTickSimulated,
     DetourSimulated, HostSimulated DEF Next

-----------------------------------------------------------------------------
\* The component implements its promise: it gives the host a song only if that
\* song is the one asked for last and not answered for, whatever replies,
\* downloads and events of the host come late.
THEOREM ImplementsPlaybackRequest == Spec => PlaysWhatIsWanted
<1>1. Init => SongKnown /\ Request!Init
  BY DEF Init, SongKnown, Working, Wanted, Request!Init
<1>2. Inv /\ SongKnown /\ [Next]_vars => SongKnown' /\ [Request!Next]_(Request!vars)
  BY StepSimulated DEF Simulated
<1>3. QED
  BY <1>1, <1>2, Correct, PTL DEF Spec, PlaysWhatIsWanted, Request!Spec
=============================================================================
