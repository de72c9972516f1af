------------------------- MODULE LxPenPlayerProofs -------------------------
(***************************************************************************)
(* Theorems about LxPenPlayer, for every set of songs, queues, sessions    *)
(* and every value of the time constants.                                  *)
(***************************************************************************)
EXTENDS LxPenPlayer, TLAPS

\* The position playIndex is given by handleNext, handlePrev and
\* handleSongEnded is a position of the queue.
LEMMA NextIndexInQueue ==
  ASSUME NEW q \in Seq(Songs), q # <<>>, NEW i \in Int, i >= -1
  PROVE  NextIndex(q, i) \in 0..(Len(q) - 1)
BY DEF NextIndex

LEMMA PrevIndexInQueue ==
  ASSUME NEW q \in Seq(Songs), q # <<>>, NEW i \in Int, i < Len(q)
  PROVE  PrevIndex(q, i) \in 0..(Len(q) - 1)
BY DEF PrevIndex

\* The misfire window never exceeds the 8 s and is never empty when they are not.
LEMMA GuardForBounds ==
  ASSUME NEW d \in Nat
  PROVE  GuardFor(d) \in 0..Guard /\ (Guard > 0 => GuardFor(d) > 0)
BY TimeAssumption DEF GuardFor

LEMMA StartTimes == NotStarted \in NotStarted..Guard /\ 0 \in NotStarted..Guard
BY TimeAssumption DEF NotStarted

-----------------------------------------------------------------------------
\* The part of RequestIsKept that is an invariant: a request nobody answered is
\* in the step machine or waits for a cache download, running or not.
OwedWorks == goal = "song" => Working

\* The inductive invariant.
Inv == TypeOK /\ PollersRun /\ WorkIsOwed /\ OwedWorks

\* What playIndex does to the fields it writes.
LEMMA PlayIndexInv ==
  ASSUME Inv, NEW q \in Seq(Songs), NEW i \in Int, PlayIndex(q, i)
  PROVE  /\ m_index' = IF i \in 0..(Len(q) - 1) THEN i ELSE m_index
         /\ stateFile' \in Int /\ m_currentSong' \in Songs \cup {NoSong}
         /\ StepTypeOK' /\ SessionTypeOK' /\ CacheTypeOK'
         /\ goal' \in {"idle", "song", "file"}
         /\ PollersRun' /\ WorkIsOwed' /\ OwedWorks'
<1>1. CASE i \notin 0..(Len(q) - 1)
  BY <1>1 DEF PlayIndex, Inv, TypeOK, QueueTypeOK, StepTypeOK, SessionTypeOK,
     CacheTypeOK, OwnTypeOK, PollersRun, WorkIsOwed, OwedWorks,
     Working, stepVars, sessionVars, cacheVars
<1>2. CASE i \in 0..(Len(q) - 1)
  <2>1. q[i + 1] \in Songs
    BY <1>2
  <2>2. /\ m_step' \in {"Idle", "GetUrl"} /\ m_waitResp' = FALSE
        /\ m_step' = "GetUrl" => m_timer' = TRUE /\ goal' = "song"
        /\ m_step' = "Idle" => m_timer' = FALSE /\ goal' = "idle"
        /\ m_cacheBusy' = FALSE /\ m_cacheTimer' = FALSE /\ m_playAfterCache' = FALSE
    BY <1>2 DEF PlayIndex, DropReplies, GoIdle, StartStep
  <2>3. PollersRun' /\ WorkIsOwed' /\ OwedWorks'
    BY <2>2 DEF PollersRun, WorkIsOwed, OwedWorks, Working
  <2>4. /\ m_index' = i /\ stateFile' = i /\ m_currentSong' = q[i + 1]
        /\ reply' = "none" /\ cacheReply' = "none"
        /\ sinceStart' = NotStarted /\ m_initNextSwallowed' = FALSE
        /\ m_advanceHandled' = FALSE /\ m_ourSeq' = NoSession
    BY <1>2 DEF PlayIndex, SessionAfterPlayIndex, DropReplies
  <2>5. QED
    <3>1. StepTypeOK' /\ CacheTypeOK' /\ goal' \in {"idle", "song", "file"}
      BY <2>2, <2>4 DEF Steps, StepTypeOK, CacheTypeOK
    <3>2. SessionTypeOK'
      BY <2>4, StartTimes DEF SessionTypeOK
    <3>3. QED
      BY <1>2, <2>1, <2>3, <2>4, <3>1, <3>2
<1>3. QED
  BY <1>1, <1>2

\* A part of TypeOK whose variables a step leaves alone is preserved.
LEMMA Frames ==
  ASSUME TypeOK
  PROVE  /\ UNCHANGED queueVars => QueueTypeOK'
         /\ UNCHANGED stepVars => StepTypeOK'
         /\ UNCHANGED sessionVars => SessionTypeOK'
         /\ UNCHANGED cacheVars => CacheTypeOK'
         /\ UNCHANGED <<ownVars, m_uiOpen, runnerUp, goal>> => OwnTypeOK'
         /\ UNCHANGED hostVars => HostTypeOK'
<1>1. UNCHANGED queueVars => QueueTypeOK'
  BY DEF TypeOK, QueueTypeOK, queueVars
<1>2. UNCHANGED stepVars => StepTypeOK'
  BY DEF TypeOK, StepTypeOK, stepVars
<1>3. UNCHANGED sessionVars => SessionTypeOK'
  BY DEF TypeOK, SessionTypeOK, sessionVars
<1>4. UNCHANGED cacheVars => CacheTypeOK'
  BY DEF TypeOK, CacheTypeOK, cacheVars
<1>5. UNCHANGED <<ownVars, m_uiOpen, runnerUp, goal>> => OwnTypeOK'
  BY DEF TypeOK, OwnTypeOK, ownVars
<1>6. UNCHANGED hostVars => HostTypeOK'
  BY DEF TypeOK, HostTypeOK, hostVars
<1>7. QED
  BY <1>1, <1>2, <1>3, <1>4, <1>5, <1>6

-----------------------------------------------------------------------------
(* Every action preserves Inv: the parts of TypeOK it writes, the parts it   *)
(* leaves alone (Frames), and the relations between the flags.               *)

LEMMA UiLeaveInv == Inv /\ UiLeave => Inv'
<1> SUFFICES ASSUME Inv, UiLeave PROVE Inv'
  OBVIOUS
<1>1. StepTypeOK'
  BY DEF Inv, TypeOK, StepTypeOK, UiLeave, RunnerGone, Steps, RpcSteps,
     NotStarted, stepVars
<1>2. CacheTypeOK'
  BY DEF Inv, TypeOK, CacheTypeOK, UiLeave, RunnerGone, Steps, RpcSteps,
     NotStarted, cacheVars
<1>3. OwnTypeOK'
  BY DEF Inv, TypeOK, OwnTypeOK, UiLeave, RunnerGone, Steps, RpcSteps,
     NotStarted, ownVars
<1>4. QueueTypeOK' /\ SessionTypeOK' /\ HostTypeOK'
  BY Frames DEF Inv, UiLeave, RunnerGone, queueVars, stepVars, sessionVars,
     cacheVars, ownVars, hostVars
<1>5. PollersRun' /\ WorkIsOwed' /\ OwedWorks'
  BY DEF Inv, TypeOK, StepTypeOK, CacheTypeOK, OwnTypeOK, UiLeave,
     RunnerGone, RpcSteps, Steps, PollersRun, WorkIsOwed, OwedWorks,
     Working, stepVars, cacheVars
<1>6. QED
  BY <1>1, <1>2, <1>3, <1>4, <1>5 DEF Inv, TypeOK

LEMMA SendRpcInv == Inv /\ SendRpc => Inv'
<1> SUFFICES ASSUME Inv, SendRpc PROVE Inv'
  OBVIOUS
<1>1. StepTypeOK'
  BY DEF Inv, TypeOK, StepTypeOK, SendRpc, Steps, RpcSteps, NotStarted,
     stepVars
<1>2. QueueTypeOK' /\ SessionTypeOK' /\ CacheTypeOK' /\ OwnTypeOK' /\ HostTypeOK'
  BY Frames DEF Inv, SendRpc, queueVars, stepVars, sessionVars, cacheVars,
     ownVars, hostVars
<1>3. PollersRun' /\ WorkIsOwed' /\ OwedWorks'
  BY DEF Inv, TypeOK, StepTypeOK, CacheTypeOK, OwnTypeOK, SendRpc, RpcSteps,
     Steps, PollersRun, WorkIsOwed, OwedWorks, Working, stepVars,
     cacheVars
<1>4. QED
  BY <1>1, <1>2, <1>3 DEF Inv, TypeOK

LEMMA PollReplyInv == Inv /\ PollReply => Inv'
<1> SUFFICES ASSUME Inv, PollReply PROVE Inv'
  OBVIOUS
<1>1. StepTypeOK'
  BY DEF Inv, TypeOK, StepTypeOK, PollReply, OnRpcResp, FailStep, StartStep,
     GoIdle, Steps, RpcSteps, NotStarted, stepVars
<1>2. OwnTypeOK'
  BY DEF Inv, TypeOK, OwnTypeOK, PollReply, OnRpcResp, FailStep, StartStep,
     GoIdle, Steps, RpcSteps, NotStarted, ownVars
<1>3. QueueTypeOK' /\ SessionTypeOK' /\ CacheTypeOK' /\ HostTypeOK'
  BY Frames DEF Inv, PollReply, OnRpcResp, FailStep, queueVars, stepVars,
     sessionVars, cacheVars, ownVars, hostVars
<1>4. PollersRun' /\ WorkIsOwed' /\ OwedWorks'
  BY DEF Inv, TypeOK, StepTypeOK, CacheTypeOK, OwnTypeOK, PollReply,
     OnRpcResp, FailStep, StartStep, GoIdle, RpcSteps, Steps, PollersRun,
     WorkIsOwed, OwedWorks, Working, stepVars, cacheVars
<1>5. QED
  BY <1>1, <1>2, <1>3, <1>4 DEF Inv, TypeOK

LEMMA PollTimeoutInv == Inv /\ PollTimeout => Inv'
<1> SUFFICES ASSUME Inv, PollTimeout PROVE Inv'
  OBVIOUS
<1>1. StepTypeOK'
  BY DEF Inv, TypeOK, StepTypeOK, PollTimeout, FailStep, StartStep, GoIdle,
     Steps, RpcSteps, NotStarted, stepVars
<1>2. OwnTypeOK'
  BY DEF Inv, TypeOK, OwnTypeOK, PollTimeout, FailStep, StartStep, GoIdle,
     Steps, RpcSteps, NotStarted, ownVars
<1>3. QueueTypeOK' /\ SessionTypeOK' /\ CacheTypeOK' /\ HostTypeOK'
  BY Frames DEF Inv, PollTimeout, FailStep, queueVars, stepVars, sessionVars,
     cacheVars, ownVars, hostVars
<1>4. PollersRun' /\ WorkIsOwed' /\ OwedWorks'
  BY DEF Inv, TypeOK, StepTypeOK, CacheTypeOK, OwnTypeOK, PollTimeout,
     FailStep, StartStep, GoIdle, RpcSteps, Steps, PollersRun, WorkIsOwed,
     OwedWorks, Working, stepVars, cacheVars
<1>5. QED
  BY <1>1, <1>2, <1>3, <1>4 DEF Inv, TypeOK

LEMMA CheckCacheInv == Inv /\ CheckCache => Inv'
<1> SUFFICES ASSUME Inv, CheckCache PROVE Inv'
  OBVIOUS
<1>1. StepTypeOK'
  BY DEF Inv, TypeOK, StepTypeOK, CheckCache, StartStep, Steps, RpcSteps,
     NotStarted, stepVars
<1>2. QueueTypeOK' /\ SessionTypeOK' /\ CacheTypeOK' /\ OwnTypeOK' /\ HostTypeOK'
  BY Frames DEF Inv, CheckCache, queueVars, stepVars, sessionVars, cacheVars,
     ownVars, hostVars
<1>3. PollersRun' /\ WorkIsOwed' /\ OwedWorks'
  BY DEF Inv, TypeOK, StepTypeOK, CacheTypeOK, OwnTypeOK, CheckCache,
     StartStep, RpcSteps, Steps, PollersRun, WorkIsOwed, OwedWorks,
     Working, stepVars, cacheVars
<1>4. QED
  BY <1>1, <1>2, <1>3 DEF Inv, TypeOK

LEMMA HostConfirmsInv == Inv /\ HostConfirms => Inv'
<1> SUFFICES ASSUME Inv, HostConfirms PROVE Inv'
  OBVIOUS
<1>1. StepTypeOK'
  BY DEF Inv, TypeOK, StepTypeOK, HostConfirms, FinishPlay, GoIdle, Steps,
     RpcSteps, NotStarted, stepVars
<1>2. SessionTypeOK'
  BY StartTimes DEF Inv, TypeOK, SessionTypeOK, HostTypeOK, HostConfirms,
     FinishPlay
<1>3. OwnTypeOK'
  BY DEF Inv, TypeOK, OwnTypeOK, HostConfirms, FinishPlay, GoIdle, Steps,
     RpcSteps, NotStarted, ownVars
<1>4. QueueTypeOK' /\ CacheTypeOK' /\ HostTypeOK'
  BY Frames DEF Inv, HostConfirms, FinishPlay, queueVars, stepVars,
     sessionVars, cacheVars, ownVars, hostVars
<1>5. PollersRun' /\ WorkIsOwed' /\ OwedWorks'
  BY DEF Inv, TypeOK, StepTypeOK, CacheTypeOK, OwnTypeOK, HostConfirms,
     FinishPlay, GoIdle, RpcSteps, Steps, PollersRun, WorkIsOwed,
     OwedWorks, Working, stepVars, cacheVars
<1>6. QED
  BY <1>1, <1>2, <1>3, <1>4, <1>5 DEF Inv, TypeOK

LEMMA HostSilentInv == Inv /\ HostSilent => Inv'
<1> SUFFICES ASSUME Inv, HostSilent PROVE Inv'
  OBVIOUS
<1>1. StepTypeOK'
  BY DEF Inv, TypeOK, StepTypeOK, HostSilent, FailStep, GoIdle, Steps,
     RpcSteps, NotStarted, stepVars
<1>2. CacheTypeOK'
  BY DEF Inv, TypeOK, CacheTypeOK, HostSilent, FailStep, GoIdle, Steps,
     RpcSteps, NotStarted, cacheVars
<1>3. OwnTypeOK'
  BY DEF Inv, TypeOK, OwnTypeOK, HostSilent, FailStep, GoIdle, Steps,
     RpcSteps, NotStarted, ownVars
<1>4. QueueTypeOK' /\ SessionTypeOK' /\ HostTypeOK'
  BY Frames DEF Inv, HostSilent, FailStep, queueVars, stepVars, sessionVars,
     cacheVars, ownVars, hostVars
<1>5. PollersRun' /\ WorkIsOwed' /\ OwedWorks'
  BY DEF Inv, TypeOK, StepTypeOK, CacheTypeOK, OwnTypeOK, HostSilent,
     FailStep, GoIdle, RpcSteps, Steps, PollersRun, WorkIsOwed,
     OwedWorks, Working, stepVars, cacheVars
<1>6. QED
  BY <1>1, <1>2, <1>3, <1>4, <1>5 DEF Inv, TypeOK

LEMMA CacheGoodInv == Inv /\ CacheGood => Inv'
<1> SUFFICES ASSUME Inv, CacheGood PROVE Inv'
  OBVIOUS
<1>1. StepTypeOK'
  BY DEF Inv, TypeOK, StepTypeOK, CacheGood, StartStep, Steps, RpcSteps,
     NotStarted, stepVars
<1>2. CacheTypeOK'
  BY DEF Inv, TypeOK, CacheTypeOK, CacheGood, StartStep, Steps, RpcSteps,
     NotStarted, cacheVars
<1>3. QueueTypeOK' /\ SessionTypeOK' /\ OwnTypeOK' /\ HostTypeOK'
  BY Frames DEF Inv, CacheGood, queueVars, stepVars, sessionVars, cacheVars,
     ownVars, hostVars
<1>4. PollersRun' /\ WorkIsOwed' /\ OwedWorks'
  BY DEF Inv, TypeOK, StepTypeOK, CacheTypeOK, OwnTypeOK, CacheGood,
     StartStep, RpcSteps, Steps, PollersRun, WorkIsOwed, OwedWorks,
     Working, stepVars, cacheVars
<1>5. QED
  BY <1>1, <1>2, <1>3, <1>4 DEF Inv, TypeOK

LEMMA CacheBadInv == Inv /\ CacheBad => Inv'
<1> SUFFICES ASSUME Inv, CacheBad PROVE Inv'
  OBVIOUS
<1>1. CacheTypeOK'
  BY DEF Inv, TypeOK, CacheTypeOK, CacheBad, Steps, RpcSteps, NotStarted,
     cacheVars
<1>2. QueueTypeOK' /\ StepTypeOK' /\ SessionTypeOK' /\ OwnTypeOK' /\ HostTypeOK'
  BY Frames DEF Inv, CacheBad, queueVars, stepVars, sessionVars, cacheVars,
     ownVars, hostVars
<1>3. PollersRun' /\ WorkIsOwed' /\ OwedWorks'
  BY DEF Inv, TypeOK, StepTypeOK, CacheTypeOK, OwnTypeOK, CacheBad, RpcSteps,
     Steps, PollersRun, WorkIsOwed, OwedWorks, Working, stepVars,
     cacheVars
<1>4. QED
  BY <1>1, <1>2, <1>3 DEF Inv, TypeOK

LEMMA CacheTimeoutInv == Inv /\ CacheTimeout => Inv'
<1> SUFFICES ASSUME Inv, CacheTimeout PROVE Inv'
  OBVIOUS
<1>1. CacheTypeOK'
  BY DEF Inv, TypeOK, CacheTypeOK, CacheTimeout, Steps, RpcSteps, NotStarted,
     cacheVars
<1>2. QueueTypeOK' /\ StepTypeOK' /\ SessionTypeOK' /\ OwnTypeOK' /\ HostTypeOK'
  BY Frames DEF Inv, CacheTimeout, queueVars, stepVars, sessionVars,
     cacheVars, ownVars, hostVars
<1>3. PollersRun' /\ WorkIsOwed' /\ OwedWorks'
  BY DEF Inv, TypeOK, StepTypeOK, CacheTypeOK, OwnTypeOK, CacheTimeout,
     RpcSteps, Steps, PollersRun, WorkIsOwed, OwedWorks, Working,
     stepVars, cacheVars
<1>4. QED
  BY <1>1, <1>2, <1>3 DEF Inv, TypeOK

LEMMA RunnerInv == Inv /\ Runner => Inv'
<1> SUFFICES ASSUME Inv, Runner PROVE Inv'
  OBVIOUS
<1>1. StepTypeOK'
  BY DEF Inv, TypeOK, StepTypeOK, Runner, RunnerAnswers, RunnerDownloads,
     RunnerDies, RunnerStarts, RunnerGone, Steps, RpcSteps, NotStarted,
     stepVars
<1>2. CacheTypeOK'
  BY DEF Inv, TypeOK, CacheTypeOK, Runner, RunnerAnswers, RunnerDownloads,
     RunnerDies, RunnerStarts, RunnerGone, Steps, RpcSteps, NotStarted,
     cacheVars
<1>3. OwnTypeOK'
  BY DEF Inv, TypeOK, OwnTypeOK, Runner, RunnerAnswers, RunnerDownloads,
     RunnerDies, RunnerStarts, RunnerGone, Steps, RpcSteps, NotStarted,
     ownVars
<1>4. QueueTypeOK' /\ SessionTypeOK' /\ HostTypeOK'
  BY Frames DEF Inv, Runner, RunnerAnswers, RunnerDownloads, RunnerDies,
     RunnerStarts, RunnerGone, queueVars, stepVars, sessionVars, cacheVars,
     ownVars, hostVars
<1>5. PollersRun' /\ WorkIsOwed' /\ OwedWorks'
  BY DEF Inv, TypeOK, StepTypeOK, CacheTypeOK, OwnTypeOK, Runner,
     RunnerAnswers, RunnerDownloads, RunnerDies, RunnerStarts, RunnerGone,
     RpcSteps, Steps, PollersRun, WorkIsOwed, OwedWorks, Working,
     stepVars, cacheVars
<1>6. QED
  BY <1>1, <1>2, <1>3, <1>4, <1>5 DEF Inv, TypeOK

LEMMA TimePassesInv == Inv /\ TimePasses => Inv'
<1> SUFFICES ASSUME Inv, TimePasses PROVE Inv'
  OBVIOUS
<1>1. SessionTypeOK'
  BY TimeAssumption DEF Inv, TypeOK, SessionTypeOK, TimePasses, Steps,
     RpcSteps, NotStarted, sessionVars
<1>2. QueueTypeOK' /\ StepTypeOK' /\ CacheTypeOK' /\ OwnTypeOK' /\ HostTypeOK'
  BY Frames DEF Inv, TimePasses, queueVars, stepVars, sessionVars, cacheVars,
     ownVars, hostVars
<1>3. PollersRun' /\ WorkIsOwed' /\ OwedWorks'
  BY DEF Inv, TypeOK, StepTypeOK, CacheTypeOK, OwnTypeOK, TimePasses,
     RpcSteps, Steps, PollersRun, WorkIsOwed, OwedWorks, Working,
     stepVars, cacheVars
<1>4. QED
  BY <1>1, <1>2, <1>3 DEF Inv, TypeOK

\* An end event of the host's track is typed, and so is what CutShort adds.
LEMMA CutShortType ==
  ASSUME HostTypeOK, NEW n \in BOOLEAN, CutShort(EndOfHostTrack(n))
  PROVE  ends' \subseteq
           [seq : Sessions \cup {NoSession}, src : Sources, natural : BOOLEAN]
BY DEF HostTypeOK, CutShort, EndOfHostTrack

\* doPlay's effect on the host and on what the component owns.
LEMMA DoPlayType ==
  ASSUME Inv, NEW src \in Sources, DoPlay(src)
  PROVE  /\ HostTypeOK'
         /\ m_takeover' \in BOOLEAN /\ musicLock' \in BOOLEAN /\ adopted' \in BOOLEAN
<1>1. CASE hostReady
  <2>1. HostTypeOK
    BY DEF Inv, TypeOK
  <2>2. CutShort(EndOfHostTrack(FALSE))
    BY <1>1 DEF DoPlay, HostPlays
  <2>3. QED
    BY <1>1, <2>1, <2>2, CutShortType DEF DoPlay, HostPlays, HostTypeOK
<1>2. CASE ~hostReady
  BY <1>2, Frames DEF Inv, TypeOK, OwnTypeOK, DoPlay, hostVars
<1>3. QED
  BY <1>1, <1>2

LEMMA UiPlaySongInv == Inv /\ UiPlaySong => Inv'
<1> SUFFICES ASSUME Inv, UiPlaySong PROVE Inv'
  OBVIOUS
<1>1. PICK q \in Queues : \E i \in 0..(Len(q) - 1) : m_queue' = q /\ PlayIndex(q, i)
  BY DEF UiPlaySong
<1>2. PICK i \in 0..(Len(q) - 1) : m_queue' = q /\ PlayIndex(q, i)
  BY <1>1
<1>3. q \in Seq(Songs) /\ i \in Int
  BY <1>1, <1>2, SongAssumption
<1>4. /\ m_index' = i /\ stateFile' \in Int /\ m_currentSong' \in Songs \cup {NoSong}
      /\ StepTypeOK' /\ SessionTypeOK' /\ CacheTypeOK'
      /\ goal' \in {"idle", "song", "file"}
      /\ PollersRun' /\ WorkIsOwed' /\ OwedWorks'
  BY <1>2, <1>3, PlayIndexInv
<1>5. QueueTypeOK'
  BY <1>2, <1>3, <1>4 DEF QueueTypeOK
<1>6. OwnTypeOK' /\ HostTypeOK'
  BY <1>4, Frames DEF UiPlaySong, Inv, TypeOK, OwnTypeOK, ownVars
<1>7. QED
  BY <1>4, <1>5, <1>6 DEF Inv, TypeOK

\* handleNext, handlePrev and handleSongEnded call playIndex on the queue as it is.
LEMMA AdvanceInv ==
  ASSUME Inv, NEW i \in Int, PlayIndex(m_queue, i), UNCHANGED m_queue,
         UNCHANGED <<ownVars, m_uiOpen, runnerUp>>, HostTypeOK'
  PROVE  Inv'
<1>1. m_queue \in Seq(Songs)
  BY DEF Inv, TypeOK, QueueTypeOK
<1>2. /\ m_index' = IF i \in 0..(Len(m_queue) - 1) THEN i ELSE m_index
      /\ stateFile' \in Int /\ m_currentSong' \in Songs \cup {NoSong}
      /\ StepTypeOK' /\ SessionTypeOK' /\ CacheTypeOK'
      /\ goal' \in {"idle", "song", "file"}
      /\ PollersRun' /\ WorkIsOwed' /\ OwedWorks'
  BY <1>1, PlayIndexInv
<1>3. QueueTypeOK'
  BY <1>1, <1>2 DEF Inv, TypeOK, QueueTypeOK
<1>4. OwnTypeOK'
  BY <1>2 DEF Inv, TypeOK, OwnTypeOK, ownVars
<1>5. QED
  BY <1>2, <1>3, <1>4 DEF Inv, TypeOK

LEMMA ClickNextInv == Inv /\ ClickNext => Inv'
<1> SUFFICES ASSUME Inv, ClickNext PROVE Inv'
  OBVIOUS
<1>1. CASE SwallowsNext
  <2>1. QueueTypeOK' /\ StepTypeOK' /\ CacheTypeOK' /\ OwnTypeOK' /\ HostTypeOK'
    BY <1>1, Frames DEF Inv, ClickNext, queueVars
  <2>2. SessionTypeOK'
    BY <1>1 DEF Inv, TypeOK, SessionTypeOK, ClickNext
  <2>3. PollersRun' /\ WorkIsOwed' /\ OwedWorks'
    BY <1>1 DEF Inv, ClickNext, PollersRun, WorkIsOwed, OwedWorks, Working,
       stepVars, cacheVars
  <2>4. QED
    BY <2>1, <2>2, <2>3 DEF Inv, TypeOK
<1>2. CASE ~SwallowsNext
  <2>1. NextIndex(m_queue, m_index) \in Int
    BY DEF Inv, TypeOK, QueueTypeOK, NextIndex
  <2>2. HostTypeOK'
    BY Frames DEF Inv, ClickNext
  <2>3. QED
    BY <1>2, <2>1, <2>2, AdvanceInv DEF ClickNext
<1>3. QED
  BY <1>1, <1>2

LEMMA ClickPrevInv == Inv /\ ClickPrev => Inv'
<1> SUFFICES ASSUME Inv, ClickPrev PROVE Inv'
  OBVIOUS
<1>1. PrevIndex(m_queue, m_index) \in Int
  BY DEF Inv, TypeOK, QueueTypeOK, PrevIndex
<1>2. HostTypeOK'
  BY Frames DEF Inv, ClickPrev
<1>3. QED
  BY <1>1, <1>2, AdvanceInv DEF ClickPrev

LEMMA HandleSongEndedInv ==
  ASSUME Inv, NEW e, NEW w \in BOOLEAN, HandleSongEnded(e, w), UNCHANGED m_queue,
         UNCHANGED <<ownVars, m_uiOpen, runnerUp>>, HostTypeOK'
  PROVE  Inv'
<1>1. CASE EndAccepted(e) /\ ~m_advanceHandled
  <2>1. NextIndex(m_queue, m_index) \in Int
    BY DEF Inv, TypeOK, QueueTypeOK, NextIndex
  <2>2. QED
    BY <1>1, <2>1, AdvanceInv DEF HandleSongEnded
<1>2. CASE ~(EndAccepted(e) /\ ~m_advanceHandled)
  <2>1. QueueTypeOK' /\ StepTypeOK' /\ CacheTypeOK' /\ OwnTypeOK'
    BY <1>2, Frames DEF Inv, HandleSongEnded, queueVars
  <2>2. SessionTypeOK'
    BY <1>2 DEF Inv, TypeOK, SessionTypeOK, HandleSongEnded
  <2>3. PollersRun' /\ WorkIsOwed' /\ OwedWorks'
    BY <1>2 DEF Inv, HandleSongEnded, PollersRun, WorkIsOwed, OwedWorks,
       Working, stepVars, cacheVars
  <2>4. QED
    BY <2>1, <2>2, <2>3 DEF Inv, TypeOK
<1>3. QED
  BY <1>1, <1>2

LEMMA DeliverEndInv == Inv /\ DeliverEnd => Inv'
<1> SUFFICES ASSUME Inv, NEW e \in ends, SoundEnd(e) PROVE Inv'
  BY DEF DeliverEnd
<1>1. HostTypeOK'
  BY DEF Inv, TypeOK, HostTypeOK, SoundEnd, HostHandlesEnd
<1>2. UNCHANGED m_queue /\ UNCHANGED <<ownVars, m_uiOpen, runnerUp>>
  BY DEF SoundEnd
<1>3. CASE HandleSongEnded(e, m_initNextSwallowed)
  <2>1. m_initNextSwallowed \in BOOLEAN
    BY DEF Inv, TypeOK, SessionTypeOK
  <2>2. QED
    BY <1>1, <1>2, <1>3, <2>1, HandleSongEndedInv
<1>4. CASE HandleSongEnded(e, TRUE)
  BY <1>1, <1>2, <1>4, HandleSongEndedInv
<1>5. CASE ClickedThenEnded(e, NextIndex(m_queue, m_index))
  <2>1. PICK i \in Int : PlayIndex(m_queue, i)
    BY <1>5 DEF ClickedThenEnded, Inv, TypeOK, QueueTypeOK, NextIndex
  <2>2. QED
    BY <1>1, <1>2, <2>1, AdvanceInv
<1>6. QED
  BY <1>3, <1>4, <1>5 DEF SoundEnd

LEMMA UiPlayDownloadInv == Inv /\ UiPlayDownload => Inv'
<1> SUFFICES ASSUME Inv, UiPlayDownload PROVE Inv'
  OBVIOUS
<1>1. File \in Sources
  BY DEF Sources
<1>2. /\ HostTypeOK'
      /\ m_takeover' \in BOOLEAN /\ musicLock' \in BOOLEAN /\ adopted' \in BOOLEAN
  BY <1>1, DoPlayType DEF UiPlayDownload
<1>3. QueueTypeOK'
  BY DEF Inv, TypeOK, QueueTypeOK, UiPlayDownload, ForgetQueue
<1>4. StepTypeOK'
  BY Frames DEF Inv, UiPlayDownload
<1>5. SessionTypeOK'
  BY <1>2, StartTimes DEF UiPlayDownload, SessionTypeOK, HostTypeOK
<1>6. CacheTypeOK'
  BY DEF Inv, TypeOK, CacheTypeOK, UiPlayDownload
<1>7. OwnTypeOK'
  BY <1>2 DEF Inv, TypeOK, OwnTypeOK, UiPlayDownload
<1>8. PollersRun' /\ WorkIsOwed' /\ OwedWorks'
  BY DEF Inv, UiPlayDownload, PollersRun, WorkIsOwed, OwedWorks, stepVars
<1>9. QED
  BY <1>2, <1>3, <1>4, <1>5, <1>6, <1>7, <1>8 DEF Inv, TypeOK

LEMMA UiStopInv == Inv /\ UiStop => Inv'
<1> SUFFICES ASSUME Inv, UiStop PROVE Inv'
  OBVIOUS
<1>1. QueueTypeOK'
  BY DEF Inv, TypeOK, QueueTypeOK, UiStop, ForgetQueue
<1>2. StepTypeOK' /\ CacheTypeOK'
  BY DEF Inv, TypeOK, StepTypeOK, CacheTypeOK, UiStop, CancelPlay, GoIdle,
     DropReplies, Steps
<1>3. SessionTypeOK'
  BY StartTimes DEF SessionTypeOK, UiStop, ForgetSession
<1>4. OwnTypeOK'
  BY DEF Inv, TypeOK, OwnTypeOK, UiStop
<1>5. HostTypeOK'
  <2>1. HostTypeOK /\ CutShort(EndOfHostTrack(FALSE))
    BY DEF Inv, TypeOK, UiStop
  <2>2. QED
    BY <2>1, CutShortType DEF HostTypeOK, UiStop
<1>6. PollersRun' /\ WorkIsOwed' /\ OwedWorks'
  BY DEF UiStop, CancelPlay, GoIdle, DropReplies, PollersRun, WorkIsOwed,
     OwedWorks, Working
<1>7. QED
  BY <1>1, <1>2, <1>3, <1>4, <1>5, <1>6 DEF Inv, TypeOK

LEMMA IdleTickInv == Inv /\ IdleTick => Inv'
<1> SUFFICES ASSUME Inv, IdleTick PROVE Inv'
  OBVIOUS
<1>1. QueueTypeOK'
  BY DEF Inv, TypeOK, QueueTypeOK, IdleTick, ForgetQueue
<1>2. StepTypeOK' /\ CacheTypeOK'
  BY DEF Inv, TypeOK, StepTypeOK, CacheTypeOK, IdleTick, CancelPlay, GoIdle,
     DropReplies, Steps
<1>3. SessionTypeOK'
  BY StartTimes DEF SessionTypeOK, IdleTick, ForgetSession
<1>4. OwnTypeOK'
  BY DEF Inv, TypeOK, OwnTypeOK, IdleTick
<1>5. HostTypeOK'
  BY Frames DEF Inv, IdleTick
<1>6. PollersRun' /\ WorkIsOwed' /\ OwedWorks'
  BY DEF IdleTick, CancelPlay, GoIdle, DropReplies, PollersRun, WorkIsOwed,
     OwedWorks, Working
<1>7. QED
  BY <1>1, <1>2, <1>3, <1>4, <1>5, <1>6 DEF Inv, TypeOK

LEMMA UiOpenInv == Inv /\ UiOpen => Inv'
<1> SUFFICES ASSUME Inv, UiOpen PROVE Inv'
  OBVIOUS
<1>1. StepTypeOK' /\ CacheTypeOK' /\ HostTypeOK'
  BY Frames DEF Inv, UiOpen
<1>2. PollersRun' /\ WorkIsOwed' /\ OwedWorks'
  BY DEF Inv, UiOpen, PollersRun, WorkIsOwed, OwedWorks, Working, stepVars,
     cacheVars
<1>3. QueueTypeOK' /\ SessionTypeOK' /\ OwnTypeOK'
  <2>1. CASE UNCHANGED <<queueVars, sessionVars, ownVars>>
    BY <2>1, Frames DEF Inv, TypeOK, OwnTypeOK, UiOpen, ownVars
  <2>2. ASSUME NEW q \in Queues, NEW i \in 0..(Len(q) - 1), Resume(q, i)
        PROVE  QueueTypeOK' /\ SessionTypeOK' /\ OwnTypeOK'
    <3>1. q \in Seq(Songs) /\ i \in Int
      BY SongAssumption
    <3>2. QueueTypeOK'
      BY <2>2, <3>1 DEF Inv, TypeOK, QueueTypeOK, Resume
    <3>3. SessionTypeOK'
      BY <2>2, StartTimes DEF Inv, TypeOK, SessionTypeOK, HostTypeOK, Resume
    <3>4. OwnTypeOK'
      BY <2>2 DEF Inv, TypeOK, OwnTypeOK, UiOpen, Resume
    <3>5. QED
      BY <3>2, <3>3, <3>4
  <2>3. QED
    BY <2>1, <2>2 DEF UiOpen
<1>4. QED
  BY <1>1, <1>2, <1>3 DEF Inv, TypeOK

LEMMA CurrentSongIsSource == Inv => m_currentSong \in Sources
BY DEF Inv, TypeOK, QueueTypeOK, Sources

LEMMA PlayFileInv == Inv /\ PlayFile => Inv'
<1> SUFFICES ASSUME Inv, PlayFile PROVE Inv'
  OBVIOUS
<1>1. /\ HostTypeOK'
      /\ m_takeover' \in BOOLEAN /\ musicLock' \in BOOLEAN /\ adopted' \in BOOLEAN
  BY CurrentSongIsSource, DoPlayType DEF PlayFile
<1>2. QueueTypeOK' /\ CacheTypeOK'
  BY Frames DEF Inv, PlayFile
<1>3. StepTypeOK'
  BY DEF Inv, TypeOK, StepTypeOK, PlayFile, FinishPlay, GoIdle, Steps
<1>4. SessionTypeOK'
  BY <1>1, StartTimes DEF SessionTypeOK, HostTypeOK, PlayFile, FinishPlay
<1>5. OwnTypeOK'
  BY <1>1 DEF Inv, TypeOK, OwnTypeOK, PlayFile, FinishPlay
<1>6. PollersRun' /\ WorkIsOwed' /\ OwedWorks'
  BY DEF Inv, PlayFile, FinishPlay, GoIdle, PollersRun, WorkIsOwed,
     OwedWorks, Working, cacheVars
<1>7. QED
  BY <1>1, <1>2, <1>3, <1>4, <1>5, <1>6 DEF Inv, TypeOK

LEMMA OnlineInv == Inv /\ Online => Inv'
<1> SUFFICES ASSUME Inv, Online PROVE Inv'
  OBVIOUS
<1>1. /\ HostTypeOK'
      /\ m_takeover' \in BOOLEAN /\ musicLock' \in BOOLEAN /\ adopted' \in BOOLEAN
  BY CurrentSongIsSource, DoPlayType DEF Online
<1>2. QueueTypeOK'
  BY Frames DEF Inv, Online
<1>3. StepTypeOK'
  BY DEF Inv, TypeOK, StepTypeOK, Online, FailStep, GoIdle, Steps
<1>4. SessionTypeOK'
  BY <1>1, StartTimes DEF Inv, TypeOK, SessionTypeOK, HostTypeOK, Online,
     SessionAfterDoPlay
<1>5. CacheTypeOK'
  BY DEF Inv, TypeOK, CacheTypeOK, Online, StartCacheDownload, cacheVars
<1>6. OwnTypeOK'
  BY <1>1 DEF Inv, TypeOK, OwnTypeOK, Online, FailStep
<1>7. PollersRun' /\ WorkIsOwed' /\ OwedWorks'
  BY DEF Inv, Online, FailStep, GoIdle, StartCacheDownload, PollersRun,
     WorkIsOwed, OwedWorks, Working, cacheVars
<1>8. QED
  BY <1>1, <1>2, <1>3, <1>4, <1>5, <1>6, <1>7 DEF Inv, TypeOK

LEMMA HostInv == Inv /\ Host => Inv'
<1> SUFFICES ASSUME Inv, Host PROVE Inv'
  OBVIOUS
<1>1. QueueTypeOK' /\ StepTypeOK' /\ SessionTypeOK' /\ CacheTypeOK' /\ OwnTypeOK'
  BY Frames DEF Inv, Host
<1>2. PollersRun' /\ WorkIsOwed' /\ OwedWorks'
  BY DEF Inv, Host, PollersRun, WorkIsOwed, OwedWorks, Working, stepVars,
     cacheVars
<1>3. HostTypeOK'
  <2>1. HostTypeOK /\ Foreign \in Sources
    BY DEF Inv, TypeOK, Sources
  <2>2. CASE HostBegins \/ HostCannotLoad \/ HostPauses
    BY <2>1, <2>2 DEF HostTypeOK, HostBegins, HostCannotLoad, HostPauses
  <2>3. CASE HostUserStops
    BY <2>1, <2>3, CutShortType DEF HostTypeOK, HostUserStops, HostTakesOver
  <2>4. CASE HostPlaysForeign
    BY <2>1, <2>4, CutShortType DEF HostTypeOK, HostPlaysForeign, HostTakesOver
  <2>5. CASE HostTrackEnds
    <3>1. EndOfHostTrack(TRUE) \in
            [seq : Sessions \cup {NoSession}, src : Sources, natural : BOOLEAN]
      BY <2>1 DEF HostTypeOK, EndOfHostTrack
    <3>2. ends' \subseteq
            [seq : Sessions \cup {NoSession}, src : Sources, natural : BOOLEAN]
      BY <2>1, <2>5, <3>1 DEF HostTypeOK, HostTrackEnds
    <3>3. QED
      BY <2>1, <2>5, <3>2 DEF HostTypeOK, HostTrackEnds
  <2>6. QED
    BY <2>2, <2>3, <2>4, <2>5 DEF Host
<1>4. QED
  BY <1>1, <1>2, <1>3 DEF Inv, TypeOK

-----------------------------------------------------------------------------
LEMMA InitInv == Init => Inv
<1> SUFFICES ASSUME Init PROVE Inv
  OBVIOUS
<1>1. TypeOK
  <2>1. QueueTypeOK
    BY DEF Init, QueueTypeOK
  <2>2. StepTypeOK /\ CacheTypeOK
    BY DEF Init, StepTypeOK, CacheTypeOK, Steps
  <2>3. SessionTypeOK
    BY StartTimes DEF Init, SessionTypeOK
  <2>4. OwnTypeOK
    BY DEF Init, OwnTypeOK
  <2>5. HostTypeOK
    BY DEF Init, HostTypeOK, Sources
  <2>6. QED
    BY <2>1, <2>2, <2>3, <2>4, <2>5 DEF TypeOK
<1>2. PollersRun /\ WorkIsOwed /\ OwedWorks
  BY DEF Init, PollersRun, WorkIsOwed, OwedWorks, Working
<1>3. QED
  BY <1>1, <1>2 DEF Inv

LEMMA StutterInv == Inv /\ UNCHANGED vars => Inv'
<1> SUFFICES ASSUME Inv, UNCHANGED vars PROVE Inv'
  OBVIOUS
<1>1. TypeOK'
  BY Frames DEF Inv, TypeOK, vars
<1>2. PollersRun' /\ WorkIsOwed' /\ OwedWorks'
  BY DEF Inv, vars, PollersRun, WorkIsOwed, OwedWorks, Working, stepVars,
     cacheVars
<1>3. QED
  BY <1>1, <1>2 DEF Inv

\* The step machine is polled exactly while it runs, nothing plays that nobody
\* asked for, and no request is dropped: in every reachable state.
THEOREM Correct == Spec => []Inv
<1>1. Init => Inv
  BY InitInv
<1>2. Inv /\ [Next]_vars => Inv'
  <2> SUFFICES ASSUME Inv, [Next]_vars PROVE Inv'
    OBVIOUS
  <2>1. CASE Ui
    BY <2>1, UiPlaySongInv, UiPlayDownloadInv, UiStopInv, UiLeaveInv, UiOpenInv DEF Ui
  <2>2. CASE IdleTick
    BY <2>2, IdleTickInv
  <2>3. CASE Tick
    BY <2>3, SendRpcInv, PollReplyInv, PollTimeoutInv, CheckCacheInv, PlayFileInv,
       OnlineInv, HostConfirmsInv, HostSilentInv DEF Tick
  <2>4. CASE CacheTick
    BY <2>4, CacheGoodInv, CacheBadInv, CacheTimeoutInv DEF CacheTick
  <2>5. CASE Detour
    BY <2>5, ClickNextInv, ClickPrevInv, DeliverEndInv DEF Detour
  <2>6. CASE Host
    BY <2>6, HostInv
  <2>7. CASE Runner
    BY <2>7, RunnerInv
  <2>8. CASE TimePasses
    BY <2>8, TimePassesInv
  <2>9. CASE UNCHANGED vars
    BY <2>9, StutterInv
  <2>10. QED
    BY <2>1, <2>2, <2>3, <2>4, <2>5, <2>6, <2>7, <2>8, <2>9 DEF Next
<1>3. QED
  BY <1>1, <1>2, PTL DEF Spec

\* Type correctness of the component, its host and its runner.
THEOREM TypeCorrect == Spec => []TypeOK
<1>1. Inv => TypeOK
  BY DEF Inv
<1>2. QED
  BY <1>1, Correct, PTL

\* After stop(), after the idle recycle, after songStarted or playError, no
\* late reply or cache completion starts anything again.
THEOREM NoUnwantedWork == Spec => []WorkIsOwed
<1>1. Inv => WorkIsOwed
  BY DEF Inv
<1>2. QED
  BY <1>1, Correct, PTL

\* What the next theorem promises of a step.
Keeps == goal' = "song" => \/ UnderWay'
                           \/ goal = "song" /\ Stranded
                           \/ m_playAfterCache /\ (CacheBad \/ CacheTimeout)

\* A step keeps a request if it forgets that somebody waits for the cache, or
\* leaves the wait, the download and the request as they are.
LEMMA KeepsIf ==
  ASSUME Inv', \/ m_playAfterCache' = FALSE
               \/ /\ m_playAfterCache' = m_playAfterCache /\ goal' = goal
                  /\ m_cacheBusy' \in {m_cacheBusy, TRUE}
  PROVE  Keeps
BY DEF Keeps, Inv, OwedWorks, Working, UnderWay, Stranded

LEMMA PlayIndexKeeps ==
  ASSUME Inv', NEW q, NEW i, PlayIndex(q, i) PROVE Keeps
BY KeepsIf DEF PlayIndex, DropReplies, cacheVars

LEMMA UiKeeps == ASSUME Inv', Ui PROVE Keeps
<1>1. CASE UiPlaySong
  BY <1>1, PlayIndexKeeps DEF UiPlaySong
<1>2. CASE UiPlayDownload
  BY <1>2, KeepsIf DEF UiPlayDownload
<1>3. CASE UiStop
  BY <1>3, KeepsIf DEF UiStop, CancelPlay, DropReplies
<1>4. CASE UiLeave
  BY <1>4, KeepsIf DEF UiLeave
<1>5. CASE UiOpen
  BY <1>5, KeepsIf DEF UiOpen, cacheVars
<1> QED BY <1>1, <1>2, <1>3, <1>4, <1>5 DEF Ui

\* A song that is put on or fails is not owed any more.
LEMMA TickKeeps == ASSUME Inv', Tick PROVE Keeps
<1>1. CASE SendRpc
  BY <1>1, KeepsIf DEF SendRpc, cacheVars
<1>2. CASE PollReply
  <2>1. UNCHANGED goal \/ goal' = "idle"
    BY <1>2 DEF PollReply, OnRpcResp, FailStep
  <2> QED BY <1>2, <2>1, KeepsIf DEF PollReply, cacheVars, Keeps
<1>3. CASE PollTimeout
  <2>1. UNCHANGED goal \/ goal' = "idle"
    BY <1>3 DEF PollTimeout, FailStep
  <2> QED BY <1>3, <2>1, KeepsIf DEF PollTimeout, cacheVars, Keeps
<1>4. CASE CheckCache
  BY <1>4, KeepsIf DEF CheckCache, cacheVars
<1>5. CASE PlayFile \/ HostConfirms
  BY <1>5 DEF PlayFile, HostConfirms, FinishPlay, Keeps
<1>6. CASE Online
  <2>1. UNCHANGED goal \/ goal' = "idle"
    BY <1>6 DEF Online, FailStep
  <2>2. m_playAfterCache' = m_playAfterCache /\ m_cacheBusy' \in {m_cacheBusy, TRUE}
    BY <1>6 DEF Online, StartCacheDownload, cacheVars
  <2> QED BY <2>1, <2>2, KeepsIf DEF Keeps
<1>7. CASE HostSilent
  BY <1>7 DEF HostSilent, FailStep, UnderWay, Keeps
<1> QED BY <1>1, <1>2, <1>3, <1>4, <1>5, <1>6, <1>7 DEF Tick

LEMMA CacheTickKeeps == ASSUME Inv', CacheTick PROVE Keeps
<1>1. CASE CacheGood
  BY <1>1, KeepsIf DEF CacheGood
<1>2. CASE CacheBad \/ CacheTimeout
  <2>1. m_playAfterCache' = m_playAfterCache
    BY <1>2 DEF CacheBad, CacheTimeout
  <2> QED BY <1>2, <2>1 DEF Inv, OwedWorks, Working, UnderWay, Keeps
<1> QED BY <1>1, <1>2 DEF CacheTick

LEMMA DetourKeeps == ASSUME Inv', Detour PROVE Keeps
<1>1. CASE ClickNext
  <2>1. CASE SwallowsNext
    BY <1>1, <2>1, KeepsIf DEF ClickNext, cacheVars
  <2>2. CASE ~SwallowsNext
    BY <1>1, <2>2, PlayIndexKeeps DEF ClickNext
  <2> QED BY <2>1, <2>2
<1>2. CASE ClickPrev
  BY <1>2, PlayIndexKeeps DEF ClickPrev
<1>3. CASE DeliverEnd
  <2>1. ASSUME NEW e, NEW b, HandleSongEnded(e, b) PROVE Keeps
    BY <2>1, KeepsIf, PlayIndexKeeps DEF HandleSongEnded, cacheVars
  <2>2. ASSUME NEW e, NEW i, ClickedThenEnded(e, i) PROVE Keeps
    BY <2>2, PlayIndexKeeps DEF ClickedThenEnded
  <2> QED BY <1>3, <2>1, <2>2 DEF DeliverEnd, SoundEnd
<1> QED BY <1>1, <1>2, <1>3 DEF Detour

\* No step loses a request that is under way but the end of a cache download
\* that came to nothing (onCacheTick); nothing else leaves one stranded.
THEOREM NoLostRequest == Spec => RequestIsKept
<1>1. Inv' /\ [Next]_vars => Keeps
  <2> SUFFICES ASSUME Inv', [Next]_vars PROVE Keeps
    OBVIOUS
  <2>1. CASE IdleTick
    BY <2>1, KeepsIf DEF IdleTick, CancelPlay, DropReplies
  <2>2. CASE Host \/ Runner \/ TimePasses \/ UNCHANGED vars
    BY <2>2, KeepsIf DEF Host, Runner, TimePasses, vars, cacheVars
  <2> QED BY <2>1, <2>2, UiKeeps, TickKeeps, CacheTickKeeps, DetourKeeps DEF Next
<1>2. QED
  BY <1>1, Correct, PTL DEF Spec, RequestIsKept, Keeps

\* One poller per kind of work, and never a cache completion during a step.
THEOREM PollersMatchWork == Spec => []PollersRun
<1>1. Inv => PollersRun
  BY DEF Inv
<1>2. QED
  BY <1>1, Correct, PTL
=============================================================================
