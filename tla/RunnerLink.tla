----------------------------- MODULE RunnerLink -----------------------------
(***************************************************************************)
(* The page and the runner: the page's requests and their timers           *)
(* (rpcSend, onLine and pollOut in src/plugin/qml/main.qml), how the page  *)
(* starts, finds, watches and replaces the runner, and the runner's side   *)
(* of it: loading the source script, its command FIFO, its one thread that *)
(* a download blocks, and the output file that page and player share       *)
(* (src/runner/penmusic.c, src/plugin/js/runtime.js).                      *)
(*                                                                         *)
(* A call of the page runs to its end on the host's main thread, shell     *)
(* commands included, so it is one action.  The output file is the part of *)
(* it that the page has not read.  Page and player both count their        *)
(* requests from 1; numbers are recycled: a request of the page takes the  *)
(* least that the page is not waiting for.                                 *)
(***************************************************************************)
EXTENDS Integers, Sequences, FiniteSets, Functions

CONSTANTS
  Ids,         \* numbers of requests
  Scripts,     \* source scripts, each of one of the kinds below
  Kind,        \* [Scripts -> {"good", "broken", "stuck"}]: it registers, does
               \* not load, or never says that it is ready
  PingLimit,   \* 6: pings that must fail before the page looks at the process
  MaxLives,    \* bound: times the page is opened
  MaxAsked,    \* bound: requests the runner has or is about to get, but pings
  MaxPings,    \* bound: pings it has or is about to get
  MaxOut       \* bound: unread answers

ASSUME KindAssumption == Kind \in [Scripts -> {"good", "broken", "stuck"}]
ASSUME LimitAssumption ==
  /\ PingLimit \in Nat \ {0} /\ Ids \subseteq Nat
  /\ {MaxLives, MaxAsked, MaxPings, MaxOut} \subseteq Nat

VARIABLES
  \* the page
  open, scriptReady, scriptError, pingFail, pending, startQueued, script,
  \* the runner
  runner, g_inited, fifo, jobs,
  \* unread lines of the output file
  out,
  \* history: which page this is; the last runner was told to go or killed
  life, killed

pageVars == <<open, scriptReady, scriptError, pingFail, pending, startQueued,
              script, life>>
runnerVars == <<runner, g_inited, fifo, jobs>>
vars == <<pageVars, runnerVars, out, killed>>

Requests ==
  [from : {"page", "player"}, life : Nat, id : Ids,
   what : {"ping", "call", "download"}]

AtRunner == jobs \cup Range(fifo)
PingsAtRunner == {r \in AtRunner : r.what = "ping"}
MoreMayCome == Cardinality(AtRunner \ PingsAtRunner) < MaxAsked

Waiting == DOMAIN pending
Pings == {id \in Waiting : pending[id] = "ping"}
Without(ids) == Restrict(pending, Waiting \ ids)
LeastOf(ids) == {id \in ids : \A k \in ids : id <= k}

-----------------------------------------------------------------------------
(* The runner.                                                             *)

Gone == runner' = "none" /\ g_inited' = FALSE /\ fifo' = <<>> /\ jobs' = {}
Killed == Gone /\ killed' = TRUE

\* Nobody has an offset in the file while the page is closed: the next one
\* begins at its end.
Write(line) == out' = IF open THEN Append(out, line) ELSE <<>>

\* A script that does not load: initFailed is queued, and main returns
\* before it flushes the queue.
LoadScript ==
  /\ runner = "loading"
  /\ IF Kind[script] = "broken"
     THEN Gone
     ELSE runner' = "running" /\ UNCHANGED <<g_inited, fifo, jobs>>
  /\ UNCHANGED <<pageVars, out, killed>>

ScriptInited ==
  /\ runner = "running" /\ ~g_inited /\ Kind[script] = "good"
  /\ g_inited' = TRUE
  /\ Write([event |-> "inited"])
  /\ UNCHANGED <<pageVars, runner, fifo, jobs, killed>>

\* Mutant: the runner leaves before its last line is in the file.
InitTimeoutUnflushed ==
  /\ runner = "running" /\ ~g_inited
  /\ Gone /\ UNCHANGED <<pageVars, out, killed>>

\* 60 s have passed.
InitTimeout ==
  /\ runner = "running" /\ ~g_inited
  /\ Write([event |-> "initFailed"])
  /\ Gone /\ UNCHANGED <<pageVars, killed>>

\* A download runs in the loop's own thread: nothing else happens meanwhile.
Blocked == \E j \in jobs : j.what = "download"

ReadCommand ==
  /\ runner = "running" /\ fifo # <<>> /\ ~Blocked
  /\ jobs' = jobs \cup {Head(fifo)} /\ fifo' = Tail(fifo)
  /\ UNCHANGED <<pageVars, runner, g_inited, out, killed>>

\* __lx_on_rpc writes every answer to the shared file, those to the player too.
\* A ping succeeds; whether another call of the page does is all the same here.
Answer ==
  /\ runner = "running" /\ Len(out) < MaxOut
  /\ \E j \in jobs, good \in BOOLEAN :
       /\ Blocked => j.what = "download"
       /\ j.from = "page" => good
       /\ jobs' = jobs \ {j}
       /\ Write([event |-> "answer", from |-> j.from, life |-> j.life,
                 id |-> j.id, ok |-> good])
  /\ UNCHANGED <<pageVars, runner, g_inited, fifo, killed>>

\* Told to quit by the player (requestRunnerQuit), idle for 10 minutes, killed
\* by the system, or crashed.
RunnerDies ==
  /\ runner # "none" /\ Killed
  /\ UNCHANGED <<pageVars, out>>

-----------------------------------------------------------------------------
(* The player's requests.                                                  *)

\* Without a reader the FIFO cannot be opened.
PlayerSends ==
  /\ runner # "none" /\ MoreMayCome
  /\ \A r \in AtRunner : r.from # "player"
  /\ \E id \in Ids, what \in {"call", "download"} :
       fifo' = Append(fifo, [from |-> "player", life |-> 0, id |-> id, what |-> what])
  /\ UNCHANGED <<pageVars, runner, g_inited, jobs, out, killed>>

-----------------------------------------------------------------------------
(* The page.                                                               *)

\* rpcSend.  A command that nobody reads is given up after a second.
RpcSend(id, what) ==
  /\ pending' = [k \in Waiting \cup {id} |->
                   IF k # id THEN pending[k] ELSE IF what = "ping" THEN "ping" ELSE "call"]
  /\ fifo' = IF runner = "none" THEN fifo
             ELSE Append(fifo, [from |-> "page", life |-> life, id |-> id, what |-> what])

\* The user's searches and downloads; one number is left to the pings.
Call ==
  /\ open /\ MoreMayCome
  /\ Cardinality(Waiting \ Pings) + 1 < Cardinality(Ids)
  /\ \E id \in LeastOf(Ids \ Waiting), what \in {"call", "download"} : RpcSend(id, what)
  /\ UNCHANGED <<open, scriptReady, scriptError, pingFail, startQueued, script, life,
                 runner, g_inited, jobs, out, killed>>

\* A runner that is left is killed first, its files are made anew.
StartFresh ==
  /\ runner' = "loading" /\ g_inited' = FALSE /\ fifo' = <<>> /\ jobs' = {}
  /\ killed' = FALSE
LeaveRunner == UNCHANGED <<runnerVars, killed>>

\* startRunner, after restartRunner has killed the runner: pkill does not wait,
\* and pgrep may still find the process, which is then taken for a working one.
\* The ping of startRunner is refused, because runnerStarting is set.
StartRunner ==
  /\ out' = <<>>
  /\ \/ StartFresh /\ scriptReady' = FALSE /\ UNCHANGED scriptError
     \/ LeaveRunner /\ scriptReady' = TRUE /\ scriptError' = FALSE

\* Mutant: a page that reconnects waits for the runner to say that it is ready.
OpenWaits ==
  /\ ~open /\ life < MaxLives /\ life' = life + 1
  /\ open' = TRUE /\ pending' = << >> /\ pingFail' = 0 /\ startQueued' = FALSE
  /\ out' = <<>> /\ scriptReady' = FALSE /\ scriptError' = FALSE
  /\ IF runner = "none" THEN StartFresh ELSE LeaveRunner
  /\ UNCHANGED script

\* Component.onCompleted of a new page, with its startRunner: a living process
\* is taken for a working one and read from the end of its output.
Open ==
  /\ ~open /\ life < MaxLives /\ life' = life + 1
  /\ open' = TRUE /\ pending' = << >> /\ pingFail' = 0 /\ startQueued' = FALSE
  /\ out' = <<>>
  /\ IF runner = "none"
     THEN StartFresh /\ scriptReady' = FALSE /\ scriptError' = FALSE
     ELSE scriptReady' = TRUE /\ scriptError' = FALSE /\ LeaveRunner
  /\ UNCHANGED script

\* Mutant: a restart that was queued is left to a page that is gone.
CloseLeavesRestart ==
  /\ open /\ open' = FALSE
  /\ pending' = << >> /\ pingFail' = 0 /\ UNCHANGED startQueued
  /\ scriptReady' = FALSE /\ scriptError' = FALSE /\ out' = <<>>
  /\ \/ LeaveRunner
     \/ Killed
  /\ UNCHANGED <<script, life>>

\* The page is destroyed; exitPlugin kills the runner when the host is silent.
Close ==
  /\ open /\ open' = FALSE
  /\ pending' = << >> /\ pingFail' = 0 /\ startQueued' = FALSE
  /\ scriptReady' = FALSE /\ scriptError' = FALSE /\ out' = <<>>
  /\ \/ LeaveRunner
     \/ Killed
  /\ UNCHANGED <<script, life>>

\* restartRunner, for another script or the same: stopRunner now, startRunner
\* when the event loop comes to it: after the events that wait already, before
\* any timer.
RestartRunner ==
  /\ open /\ \E s \in Scripts : script' = s
  /\ Killed /\ scriptReady' = FALSE /\ startQueued' = TRUE
  /\ UNCHANGED <<open, scriptError, pingFail, pending, life, out>>

StartQueued ==
  /\ startQueued /\ startQueued' = FALSE
  /\ StartRunner
  /\ UNCHANGED <<open, pingFail, pending, script, life>>

Count(n) == IF n < PingLimit THEN n + 1 ELSE PingLimit

\* A ping failed.  Only a process that is gone is replaced.
PingFailed ==
  IF Count(pingFail) = PingLimit /\ runner = "none"
  THEN pingFail' = 0 /\ StartFresh
  ELSE pingFail' = Count(pingFail) /\ LeaveRunner

\* Mutant: pings begin when the script is ready, errors are not watched.
WatchesReadyOnly == scriptReady

Watches == scriptReady \/ scriptError

\* pingRunner, every 10 s: its last ping has ended, after 5 s at the latest.
\* Those that a busy runner has not read stay in the FIFO, each with a number
\* of its own.
Watchdog ==
  /\ open /\ ~startQueued /\ Watches /\ Pings = {} /\ Cardinality(PingsAtRunner) < MaxPings
  /\ \E id \in LeastOf(Ids \ (Waiting \cup {r.id : r \in PingsAtRunner})) : RpcSend(id, "ping")
  /\ UNCHANGED <<open, scriptReady, scriptError, pingFail, startQueued, script, life,
                 runner, g_inited, jobs, out, killed>>

\* The timer of a request: its callback is called with an error.
PingTimesOut ==
  /\ ~startQueued /\ Pings # {} /\ pending' = Without(Pings)
  /\ PingFailed
  /\ out' = IF runner' = "loading" /\ runner # "loading" THEN <<>> ELSE out
  /\ UNCHANGED <<open, scriptReady, scriptError, startQueued, script, life>>

CallTimesOut ==
  /\ ~startQueued
  /\ \E id \in Waiting \ Pings : pending' = Without({id})
  /\ UNCHANGED <<open, scriptReady, scriptError, pingFail, startQueued, script, life,
                 runnerVars, out, killed>>

\* The unread lines that end a wait: the first with the number.
LinesFor(id) == {i \in DOMAIN out : out[i].event = "answer" /\ out[i].id = id}
FirstFor(id) == out[CHOOSE i \in LinesFor(id) : \A k \in LinesFor(id) : i <= k]
Answered == {id \in Waiting : LinesFor(id) # {}}

\* The last event decides what the page shows.
EventLines == {i \in DOMAIN out : out[i].event # "answer"}
LastEvent == out[CHOOSE i \in EventLines : \A k \in EventLines : k <= i].event

\* pollOut reads to the end of the file; onLine for each line.
PollOut ==
  /\ open /\ ~startQueued /\ out # <<>> /\ out' = <<>>
  /\ pending' = Without(Answered)
  /\ IF EventLines = {} THEN UNCHANGED <<scriptReady, scriptError>>
     ELSE scriptReady' = (LastEvent = "inited") /\ scriptError' = (LastEvent = "initFailed")
  /\ \/ Answered \cap Pings = {} /\ UNCHANGED <<pingFail, runnerVars, killed>>
     \/ \E id \in Answered \cap Pings :
          IF FirstFor(id).ok THEN pingFail' = 0 /\ LeaveRunner
          ELSE PingFailed
  /\ UNCHANGED <<open, startQueued, script, life>>

-----------------------------------------------------------------------------
Init ==
  /\ open = FALSE /\ scriptReady = FALSE /\ scriptError = FALSE /\ pingFail = 0
  /\ pending = << >> /\ startQueued = FALSE /\ script \in Scripts /\ life = 0
  /\ runner = "none" /\ g_inited = FALSE /\ fifo = <<>> /\ jobs = {} /\ out = <<>>
  /\ killed = FALSE

RunnerStep ==
  LoadScript \/ ScriptInited \/ InitTimeout \/ ReadCommand \/ Answer \/ RunnerDies
Page ==
  \/ Open \/ Close \/ Call \/ RestartRunner \/ StartQueued \/ Watchdog
  \/ PingTimesOut \/ CallTimesOut \/ PollOut

Next == RunnerStep \/ PlayerSends \/ Page

Spec == Init /\ [][Next]_vars

\* The page's event loop goes on: a queued call, then the watchdog's timer and
\* that of its ping in turn.  The file is polled, and the runner loads its
\* script and keeps the deadline for it.  Nothing is assumed of the scripts' own
\* requests.
Fairness ==
  /\ WF_vars(StartQueued \/ Watchdog \/ PingTimesOut) /\ WF_vars(PollOut)
  /\ WF_vars(LoadScript \/ InitTimeout)

FairSpec == Spec /\ Fairness

-----------------------------------------------------------------------------
(* Properties.                                                             *)

\* Types; nothing waits for a runner that is gone or in a page that is closed.
TypeOK ==
  /\ {open, scriptReady, scriptError, startQueued, g_inited, killed} \subseteq BOOLEAN
  /\ pingFail \in 0..PingLimit /\ life \in 0..MaxLives /\ script \in Scripts
  /\ Waiting \subseteq Ids /\ \A id \in Waiting : pending[id] \in {"ping", "call"}
  /\ Cardinality(Pings) <= 1
  /\ runner \in {"none", "loading", "running"}
  /\ fifo \in Seq(Requests) /\ jobs \subseteq Requests /\ Len(out) <= MaxOut + 1
  /\ runner = "none" => fifo = <<>> /\ jobs = {} /\ ~g_inited
  /\ ~open => pending = << >> /\ out = <<>> /\ ~startQueued

\* A script that has registered is shown as ready in an open page, or will be
\* when the page has read the file: however often the runner is replaced or
\* the page reopened, and although each of these skips what is unread.
ReadyIsShown ==
  open /\ g_inited =>
    \/ scriptReady /\ ~scriptError
    \/ EventLines # {} /\ LastEvent = "inited"

\* A runner that dies under an open page that has heard of it is replaced.
DeadRunnerIsReplaced ==
  open /\ runner = "none" /\ (scriptReady \/ scriptError)
    ~> runner # "none" \/ ~open \/ startQueued

\* A script that never registers is reported to an open page, or tried again.
InitTimeoutIsReported ==
  open /\ runner = "running" /\ Kind[script] = "stuck"
    ~> scriptError \/ ~open \/ killed \/ runner = "loading"

\* "不要静默失败": a script that does not load is reported too.  It is not: the
\* line is queued and never written.
LoadFailureIsReported ==
  open /\ runner = "loading" /\ Kind[script] = "broken"
    ~> scriptError \/ ~open \/ killed

\* An answer ends the wait for the request it answers: the page's own, and
\* this page's.  It does not: the player's have the same numbers.
AnswersMatchRequests ==
  [][PollOut => \A id \in Answered : /\ FirstFor(id).from = "page"
                                     /\ FirstFor(id).life = life]_vars
=============================================================================
