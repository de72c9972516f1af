-------------------------- MODULE RunnerLinkProofs --------------------------
(***************************************************************************)
(* What RunnerLink promises for any numbers of requests, scripts, lives of *)
(* the page and limits: nothing waits in a page that is closed or is left  *)
(* over from a runner that is gone, the page waits for one ping at most,   *)
(* and it shows a script that has registered as ready.  Both that and the  *)
(* bound on the output file need that a runner says "inited" or            *)
(* "initFailed" once, and that the file of its successor is a new one.     *)
(***************************************************************************)
EXTENDS RunnerLink, FiniteSetTheorems, WellFoundedInduction, TLAPS

Lines ==
  [event : {"inited", "initFailed"}] \cup
  [event : {"answer"}, from : {"page", "player"}, life : Nat, id : Ids, ok : BOOLEAN]

PageOK ==
  /\ {open, scriptReady, scriptError, startQueued} \subseteq BOOLEAN
  /\ pingFail \in 0..PingLimit /\ life \in 0..MaxLives /\ script \in Scripts

\* What the page waits for; its pings come one at a time.
WaitsOK ==
  /\ Waiting \subseteq Ids /\ \A id \in Waiting : pending[id] \in {"ping", "call"}
  /\ \A a, b \in Pings : a = b

RunnerOK ==
  /\ {g_inited, killed} \subseteq BOOLEAN
  /\ runner \in {"none", "loading", "running"}
  /\ fifo \in Seq(Requests) /\ jobs \subseteq Requests
  /\ runner = "none" => fifo = <<>> /\ jobs = {} /\ ~g_inited

\* A runner that has not said whether its script is ready has room to say so.
OutOK ==
  /\ out \in Seq(Lines) /\ Len(out) <= MaxOut + 1
  /\ runner # "none" /\ ~g_inited => Len(out) <= MaxOut

ClosedOK == ~open => pending = << >> /\ out = <<>> /\ ~startQueued

\* The report of a runner that gave up outlives no successor; that of a script
\* that registered is in the file until the page has read it, or known.
ShownOK ==
  /\ \A i \in DOMAIN out : out[i].event = "initFailed" => runner = "none"
  /\ open /\ g_inited =>
       \/ scriptReady /\ ~scriptError
       \/ \E i \in DOMAIN out : out[i].event = "inited"

Inv == PageOK /\ WaitsOK /\ RunnerOK /\ OutOK /\ ClosedOK /\ ShownOK

-----------------------------------------------------------------------------
(* Lemmas about the operators.                                             *)

LEMMA Limits ==
  /\ PingLimit \in Nat /\ PingLimit > 0
  /\ MaxLives \in Nat /\ MaxAsked \in Nat /\ MaxOut \in Nat
BY LimitAssumption

LEMMA NothingWaits == DOMAIN << >> = {} /\ << >> \in Seq(Lines) /\ << >> \in Seq(Requests) /\ Len(<< >>) = 0
OBVIOUS

LEMMA WithoutDomain ==
  ASSUME NEW ids
  PROVE  /\ DOMAIN Without(ids) = Waiting \ ids
         /\ \A id \in Waiting \ ids : Without(ids)[id] = pending[id]
BY DEF Without, Restrict

\* Waits that end leave the others as they are.
LEMMA WithoutOK ==
  ASSUME NEW ids, WaitsOK, pending' = Without(ids)
  PROVE  WaitsOK'
<1>1. Waiting' = Waiting \ ids /\ \A id \in Waiting' : pending'[id] = pending[id]
  BY WithoutDomain DEF Waiting
<1>2. Pings' \subseteq Pings
  BY <1>1 DEF Pings
<1> QED BY <1>1, <1>2 DEF WaitsOK

LEMMA EmptyWaitsOK == ASSUME pending' = << >> PROVE WaitsOK'
<1>1. Waiting' = {}
  BY NothingWaits DEF Waiting
<1> QED BY <1>1 DEF WaitsOK, Pings

\* A new request waits beside the others; of a ping there was none.
LEMMA SendOK ==
  ASSUME Inv, NEW id \in Ids, id \notin Waiting, NEW what \in {"ping", "call", "download"},
         RpcSend(id, what), what = "ping" => Pings = {}
  PROVE  WaitsOK' /\ fifo' \in Seq(Requests) /\ (runner = "none" => fifo' = fifo)
<1> DEFINE kind == IF what = "ping" THEN "ping" ELSE "call"
<1>1. Waiting' = Waiting \cup {id}
  BY DEF RpcSend, Waiting
<1>2. pending'[id] = kind /\ \A k \in Waiting : pending'[k] = pending[k]
  BY DEF RpcSend, Waiting
<1>3. Pings' = IF what = "ping" THEN {id} ELSE Pings
  BY <1>1, <1>2 DEF Pings, RpcSend
<1>4. WaitsOK'
  <2>1. Waiting' \subseteq Ids /\ \A k \in Waiting' : pending'[k] \in {"ping", "call"}
    BY <1>1, <1>2 DEF Inv, WaitsOK
  <2>2. \A a, b \in Pings' : a = b
    BY <1>3 DEF Inv, WaitsOK
  <2> QED BY <2>1, <2>2 DEF WaitsOK
<1>5. [from |-> "page", life |-> life, id |-> id, what |-> what] \in Requests
  BY Limits DEF Inv, PageOK, Requests
<1>6. fifo' \in Seq(Requests)
  BY <1>5 DEF RpcSend, Inv, RunnerOK
<1> QED BY <1>4, <1>6 DEF RpcSend

LEMMA WriteOK ==
  ASSUME Inv, NEW line \in Lines, Write(line)
  PROVE  /\ out' \in Seq(Lines) /\ Len(out') <= Len(out) + 1
         /\ ~open => out' = <<>>
BY DEF Write, Inv, OutOK

\* A line more leaves the others where they are.
LEMMA AppendLine ==
  ASSUME Inv, NEW line \in Lines, out' = Append(out, line)
  PROVE  /\ DOMAIN out' = DOMAIN out \cup {Len(out) + 1}
         /\ \A i \in DOMAIN out : out'[i] = out[i]
         /\ out'[Len(out) + 1] = line
BY DEF Inv, OutOK

\* In a file without lines nothing is reported.
LEMMA NewFileShown ==
  ASSUME out' = <<>>, open' /\ g_inited' => scriptReady' /\ ~scriptError'
  PROVE  ShownOK'
BY NothingWaits DEF ShownOK

Less == {p \in Nat \X Nat : p[1] < p[2]}

LEMMA LessIsWellFounded == IsWellFoundedOn(Less, Nat)
<1>1. OpToRel(<, Nat) = Less
  BY Zenon DEF OpToRel, Less
<1> QED BY <1>1, NatLessThanWellFounded, Zenon

\* Of the unread events one is the last.
LEMMA LastEventIsOne ==
  ASSUME Inv, EventLines # {}
  PROVE  \E i \in EventLines : LastEvent = out[i].event
<1>1. EventLines \subseteq 1..Len(out) /\ Len(out) \in Nat
  BY DEF EventLines, Inv, OutOK
<1> DEFINE After == {n \in Nat : \E i \in EventLines : n = Len(out) - i}
<1>2. After # {} /\ After \subseteq Nat
  <2>1. PICK i \in EventLines : TRUE
    OBVIOUS
  <2>2. Len(out) - i \in Nat
    BY <1>1
  <2> QED BY <2>2
<1>3. PICK n \in After : \A k \in After : <<k, n>> \notin Less
  <2> HIDE DEF After
  <2> QED BY <1>2, LessIsWellFounded, WFMin
<1>4. PICK i \in EventLines : n = Len(out) - i
  OBVIOUS
<1>5. ASSUME NEW k \in EventLines PROVE k <= i
  <2>1. Len(out) - k \in After
    BY <1>1
  <2>2. ~(Len(out) - k < n)
    BY <1>1, <1>3, <1>4, <2>1 DEF Less
  <2> QED BY <1>1, <1>4, <2>2
<1> DEFINE last == CHOOSE j \in EventLines : \A k \in EventLines : k <= j
<1>6. last \in EventLines
  BY <1>5
<1>7. LastEvent = out[last].event
  BY DEF LastEvent
<1> QED BY <1>6, <1>7

LEMMA HeadTail ==
  ASSUME NEW s \in Seq(Requests), s # <<>>
  PROVE  Head(s) \in Requests /\ Tail(s) \in Seq(Requests)
OBVIOUS

\* A ping that failed counts up to the limit.
LEMMA CountOK ==
  ASSUME Inv PROVE Count(pingFail) \in 0..PingLimit
BY Limits DEF Count, Inv, PageOK

LEMMA GoneOK ==
  ASSUME Gone, killed' \in BOOLEAN PROVE RunnerOK'
BY NothingWaits DEF Gone, RunnerOK

LEMMA StartFreshOK ==
  ASSUME StartFresh PROVE RunnerOK'
BY NothingWaits DEF StartFresh, RunnerOK

LEMMA LeaveRunnerOK ==
  ASSUME Inv, LeaveRunner PROVE RunnerOK'
BY DEF LeaveRunner, runnerVars, Inv, RunnerOK

LEMMA PingFailedOK ==
  ASSUME Inv, PingFailed
  PROVE  /\ pingFail' \in 0..PingLimit /\ RunnerOK'
         /\ \/ UNCHANGED <<runner, g_inited>>
            \/ runner = "none" /\ runner' = "loading" /\ ~g_inited'
<1>1. CASE Count(pingFail) = PingLimit /\ runner = "none"
  <2>1. pingFail' = 0 /\ StartFresh
    BY <1>1 DEF PingFailed
  <2>2. RunnerOK' /\ ~g_inited' /\ runner' = "loading"
    BY <2>1, StartFreshOK DEF StartFresh
  <2> QED BY <1>1, <2>1, <2>2, Limits
<1>2. CASE ~(Count(pingFail) = PingLimit /\ runner = "none")
  BY <1>2, CountOK DEF PingFailed, LeaveRunner, runnerVars, Inv, RunnerOK
<1> QED BY <1>1, <1>2

LEMMA NewFileOK == ASSUME out' = <<>> PROVE OutOK'
BY NothingWaits, Limits DEF OutOK

-----------------------------------------------------------------------------
(* The initial states and the steps.                                       *)

LEMMA InitInv == Init => Inv
<1> SUFFICES ASSUME Init PROVE Inv
  OBVIOUS
<1>1. Waiting = {}
  BY NothingWaits DEF Init, Waiting
<1>2. WaitsOK
  BY <1>1 DEF WaitsOK, Pings
<1>3. PageOK
  <2>1. pingFail \in 0..PingLimit /\ life \in 0..MaxLives
    BY Limits DEF Init
  <2> QED BY <2>1 DEF Init, PageOK
<1>4. RunnerOK
  BY NothingWaits DEF Init, RunnerOK
<1>5. OutOK
  BY NothingWaits, Limits DEF Init, OutOK
<1>6. ShownOK
  BY NothingWaits DEF Init, ShownOK
<1> QED BY <1>2, <1>3, <1>4, <1>5, <1>6 DEF Init, Inv, ClosedOK

LEMMA LoadScriptInv == Inv /\ LoadScript => Inv'
<1> SUFFICES ASSUME Inv, LoadScript PROVE Inv'
  OBVIOUS
<1>1. PageOK' /\ WaitsOK' /\ ClosedOK'
  BY DEF LoadScript, pageVars, Inv, PageOK, WaitsOK, Waiting, Pings, ClosedOK
<1>2. RunnerOK'
  BY GoneOK DEF LoadScript, Inv, RunnerOK
<1>3. OutOK'
  BY DEF LoadScript, Inv, OutOK, Gone
<1>4. ShownOK'
  BY DEF LoadScript, pageVars, Gone, Inv, ShownOK
<1> QED BY <1>1, <1>2, <1>3, <1>4 DEF Inv

LEMMA ScriptInitedInv == Inv /\ ScriptInited => Inv'
<1> SUFFICES ASSUME Inv, ScriptInited PROVE Inv'
  OBVIOUS
<1>1. [event |-> "inited"] \in Lines
  BY DEF Lines
<1>2. PageOK' /\ WaitsOK'
  BY DEF ScriptInited, pageVars, Inv, PageOK, WaitsOK, Waiting, Pings
<1>3. RunnerOK'
  BY DEF ScriptInited, Inv, RunnerOK
<1>4. OutOK' /\ ClosedOK'
  BY <1>1, WriteOK, Limits DEF ScriptInited, pageVars, Inv, OutOK, ClosedOK
<1>5. ShownOK'
  <2>1. CASE open
    <3>1. out' = Append(out, [event |-> "inited"])
      BY <2>1 DEF ScriptInited, Write
    <3>2. Len(out) + 1 \in DOMAIN out' /\ out'[Len(out) + 1].event = "inited"
      BY <1>1, <3>1, AppendLine
    <3>3. \A i \in DOMAIN out' : out'[i].event # "initFailed"
      BY <1>1, <3>1, AppendLine DEF ScriptInited, Inv, ShownOK
    <3> QED BY <3>2, <3>3 DEF ShownOK
  <2>2. CASE ~open
    BY <2>2, NewFileShown DEF ScriptInited, Write, pageVars
  <2> QED BY <2>1, <2>2
<1> QED BY <1>2, <1>3, <1>4, <1>5 DEF Inv

LEMMA InitTimeoutInv == Inv /\ InitTimeout => Inv'
<1> SUFFICES ASSUME Inv, InitTimeout PROVE Inv'
  OBVIOUS
<1>1. [event |-> "initFailed"] \in Lines
  BY DEF Lines
<1>2. PageOK' /\ WaitsOK'
  BY DEF InitTimeout, pageVars, Inv, PageOK, WaitsOK, Waiting, Pings
<1>3. RunnerOK'
  BY GoneOK DEF InitTimeout, Inv, RunnerOK
<1>4. OutOK' /\ ClosedOK'
  BY <1>1, WriteOK, Limits DEF InitTimeout, pageVars, Inv, OutOK, ClosedOK, Gone
<1>5. ShownOK'
  BY DEF InitTimeout, Gone, ShownOK
<1> QED BY <1>2, <1>3, <1>4, <1>5 DEF Inv

LEMMA ReadCommandInv == Inv /\ ReadCommand => Inv'
<1> SUFFICES ASSUME Inv, ReadCommand PROVE Inv'
  OBVIOUS
<1>1. PageOK' /\ WaitsOK' /\ ClosedOK' /\ OutOK'
  BY DEF ReadCommand, pageVars, Inv, PageOK, WaitsOK, Waiting, Pings, ClosedOK, OutOK
<1>2. Head(fifo) \in Requests /\ Tail(fifo) \in Seq(Requests)
  BY HeadTail DEF ReadCommand, Inv, RunnerOK
<1>3. RunnerOK'
  BY <1>2 DEF ReadCommand, Inv, RunnerOK
<1>4. ShownOK'
  BY DEF ReadCommand, pageVars, Inv, ShownOK
<1> QED BY <1>1, <1>3, <1>4 DEF Inv

LEMMA AnswerInv == Inv /\ Answer => Inv'
<1> SUFFICES ASSUME Inv, Answer PROVE Inv'
  OBVIOUS
<1>1. PICK j \in jobs, good \in BOOLEAN :
        /\ jobs' = jobs \ {j}
        /\ Write([event |-> "answer", from |-> j.from, life |-> j.life,
                  id |-> j.id, ok |-> good])
  BY DEF Answer
<1>2. [event |-> "answer", from |-> j.from, life |-> j.life, id |-> j.id, ok |-> good] \in Lines
  <2>1. j \in Requests
    BY DEF Inv, RunnerOK
  <2> QED BY <2>1 DEF Requests, Lines
<1>3. PageOK' /\ WaitsOK'
  BY DEF Answer, pageVars, Inv, PageOK, WaitsOK, Waiting, Pings
<1>4. RunnerOK'
  BY <1>1 DEF Answer, Inv, RunnerOK
<1>5. OutOK' /\ ClosedOK'
  BY <1>1, <1>2, WriteOK, Limits DEF Answer, pageVars, Inv, OutOK, ClosedOK
<1>6. ShownOK'
  <2> DEFINE line == [event |-> "answer", from |-> j.from, life |-> j.life, id |-> j.id, ok |-> good]
  <2>1. CASE open
    <3>1. out' = Append(out, line)
      BY <1>1, <2>1 DEF Write
    <3>2. line \in Lines /\ line.event = "answer"
      BY <1>2
    <3> HIDE DEF line
    <3>3. /\ \A i \in DOMAIN out' : out'[i].event = "initFailed" => i \in DOMAIN out /\ out[i].event = "initFailed"
          /\ \A i \in DOMAIN out : i \in DOMAIN out' /\ out'[i] = out[i]
      BY <3>1, <3>2, AppendLine
    <3> QED BY <3>3 DEF Answer, pageVars, Inv, ShownOK
  <2>2. CASE ~open
    BY <1>1, <2>2, NewFileShown DEF Answer, Write, pageVars
  <2> QED BY <2>1, <2>2
<1> QED BY <1>3, <1>4, <1>5, <1>6 DEF Inv

LEMMA RunnerDiesInv == Inv /\ RunnerDies => Inv'
<1> SUFFICES ASSUME Inv, RunnerDies PROVE Inv'
  OBVIOUS
<1>1. PageOK' /\ WaitsOK' /\ ClosedOK'
  BY DEF RunnerDies, pageVars, Inv, PageOK, WaitsOK, Waiting, Pings, ClosedOK
<1>2. RunnerOK' /\ OutOK'
  BY GoneOK DEF RunnerDies, Killed, Gone, Inv, OutOK
<1>3. ShownOK'
  BY DEF RunnerDies, Killed, Gone, ShownOK
<1> QED BY <1>1, <1>2, <1>3 DEF Inv

LEMMA PlayerSendsInv == Inv /\ PlayerSends => Inv'
<1> SUFFICES ASSUME Inv, PlayerSends PROVE Inv'
  OBVIOUS
<1>1. PageOK' /\ WaitsOK' /\ ClosedOK' /\ OutOK'
  BY DEF PlayerSends, pageVars, Inv, PageOK, WaitsOK, Waiting, Pings, ClosedOK, OutOK
<1>2. PICK id \in Ids, what \in {"call", "download"} :
        fifo' = Append(fifo, [from |-> "player", life |-> 0, id |-> id, what |-> what])
  BY DEF PlayerSends
<1>3. [from |-> "player", life |-> 0, id |-> id, what |-> what] \in Requests
  BY DEF Requests
<1>4. RunnerOK'
  BY <1>2, <1>3 DEF PlayerSends, Inv, RunnerOK
<1>5. ShownOK'
  BY DEF PlayerSends, pageVars, Inv, ShownOK
<1> QED BY <1>1, <1>4, <1>5 DEF Inv

LEMMA CallInv == Inv /\ Call => Inv'
<1> SUFFICES ASSUME Inv, Call PROVE Inv'
  OBVIOUS
<1>1. PICK id \in Ids, what \in {"call", "download"} : id \notin Waiting /\ RpcSend(id, what)
  BY DEF Call, LeastOf
<1>2. WaitsOK' /\ fifo' \in Seq(Requests) /\ (runner = "none" => fifo' = fifo)
  BY <1>1, SendOK
<1>3. PageOK' /\ OutOK' /\ ClosedOK'
  BY DEF Call, Inv, PageOK, OutOK, ClosedOK
<1>4. RunnerOK'
  BY <1>2 DEF Call, Inv, RunnerOK
<1>5. ShownOK'
  BY DEF Call, Inv, ShownOK
<1> QED BY <1>2, <1>3, <1>4, <1>5 DEF Inv

LEMMA WatchdogInv == Inv /\ Watchdog => Inv'
<1> SUFFICES ASSUME Inv, Watchdog PROVE Inv'
  OBVIOUS
<1>1. PICK id \in Ids : id \notin Waiting /\ RpcSend(id, "ping")
  BY DEF Watchdog, LeastOf
<1>2. WaitsOK' /\ fifo' \in Seq(Requests) /\ (runner = "none" => fifo' = fifo)
  BY <1>1, SendOK DEF Watchdog
<1>3. PageOK' /\ OutOK' /\ ClosedOK'
  BY DEF Watchdog, Inv, PageOK, OutOK, ClosedOK
<1>4. RunnerOK'
  BY <1>2 DEF Watchdog, Inv, RunnerOK
<1>5. ShownOK'
  BY DEF Watchdog, Inv, ShownOK
<1> QED BY <1>2, <1>3, <1>4, <1>5 DEF Inv

LEMMA OpenInv == Inv /\ Open => Inv'
<1> SUFFICES ASSUME Inv, Open PROVE Inv'
  OBVIOUS
<1>1. PageOK' /\ ClosedOK'
  <2>1. pingFail' \in 0..PingLimit /\ life' \in 0..MaxLives /\ script' \in Scripts
    BY Limits DEF Open, Inv, PageOK
  <2>2. {open', scriptReady', scriptError', startQueued'} \subseteq BOOLEAN
    BY DEF Open, Inv, PageOK
  <2> QED BY <2>1, <2>2 DEF Open, PageOK, ClosedOK
<1>2. WaitsOK' /\ OutOK'
  BY EmptyWaitsOK, NewFileOK DEF Open
<1>3. RunnerOK'
  BY StartFreshOK, LeaveRunnerOK DEF Open
<1>4. ShownOK'
  BY NewFileShown DEF Open, StartFresh
<1> QED BY <1>1, <1>2, <1>3, <1>4 DEF Inv

LEMMA CloseInv == Inv /\ Close => Inv'
<1> SUFFICES ASSUME Inv, Close PROVE Inv'
  OBVIOUS
<1>1. PageOK' /\ ClosedOK'
  <2>1. pingFail' \in 0..PingLimit /\ life' \in 0..MaxLives /\ script' \in Scripts
    BY Limits DEF Close, Inv, PageOK
  <2>2. {open', scriptReady', scriptError', startQueued'} \subseteq BOOLEAN
    BY DEF Close, Inv, PageOK
  <2> QED BY <2>1, <2>2 DEF Close, PageOK, ClosedOK
<1>2. WaitsOK' /\ OutOK'
  BY EmptyWaitsOK, NewFileOK DEF Close
<1>3. RunnerOK'
  BY GoneOK, LeaveRunnerOK DEF Close, Killed
<1>4. ShownOK'
  BY NewFileShown DEF Close
<1> QED BY <1>1, <1>2, <1>3, <1>4 DEF Inv

LEMMA RestartRunnerInv == Inv /\ RestartRunner => Inv'
<1> SUFFICES ASSUME Inv, RestartRunner PROVE Inv'
  OBVIOUS
<1>1. PageOK' /\ WaitsOK' /\ ClosedOK'
  BY DEF RestartRunner, Inv, PageOK, WaitsOK, Waiting, Pings, ClosedOK
<1>2. RunnerOK' /\ OutOK'
  BY GoneOK DEF RestartRunner, Killed, Gone, Inv, OutOK
<1>3. ShownOK'
  BY DEF RestartRunner, Killed, Gone, ShownOK
<1> QED BY <1>1, <1>2, <1>3 DEF Inv

LEMMA StartQueuedInv == Inv /\ StartQueued => Inv'
<1> SUFFICES ASSUME Inv, StartQueued PROVE Inv'
  OBVIOUS
<1>1. PageOK' /\ WaitsOK'
  BY DEF StartQueued, StartRunner, Inv, PageOK, WaitsOK, Waiting, Pings
<1>2. ClosedOK' /\ OutOK'
  BY NewFileOK DEF StartQueued, StartRunner, Inv, ClosedOK
<1>3. RunnerOK'
  BY StartFreshOK, LeaveRunnerOK DEF StartQueued, StartRunner
<1>4. ShownOK'
  BY NewFileShown DEF StartQueued, StartRunner, StartFresh
<1> QED BY <1>1, <1>2, <1>3, <1>4 DEF Inv

LEMMA PingTimesOutInv == Inv /\ PingTimesOut => Inv'
<1> SUFFICES ASSUME Inv, PingTimesOut PROVE Inv'
  OBVIOUS
<1>1. /\ pingFail' \in 0..PingLimit /\ RunnerOK'
      /\ \/ UNCHANGED <<runner, g_inited>>
         \/ runner = "none" /\ runner' = "loading" /\ ~g_inited'
  BY PingFailedOK DEF PingTimesOut
<1>2. open
  BY NothingWaits DEF PingTimesOut, Inv, ClosedOK, Pings, Waiting
<1>3. WaitsOK'
  BY WithoutOK DEF PingTimesOut, Inv
<1>4. PageOK' /\ ClosedOK'
  BY <1>1, <1>2 DEF PingTimesOut, Inv, PageOK, ClosedOK
<1>5. OutOK'
  BY <1>1, NewFileOK DEF PingTimesOut, Inv, OutOK
<1>6. ShownOK'
  <2>1. CASE UNCHANGED <<runner, g_inited>>
    BY <2>1 DEF PingTimesOut, Inv, ShownOK
  <2>2. CASE runner = "none" /\ runner' = "loading" /\ ~g_inited'
    BY <2>2, NewFileShown DEF PingTimesOut
  <2> QED BY <1>1, <2>1, <2>2
<1> QED BY <1>1, <1>3, <1>4, <1>5, <1>6 DEF Inv

LEMMA CallTimesOutInv == Inv /\ CallTimesOut => Inv'
<1> SUFFICES ASSUME Inv, CallTimesOut PROVE Inv'
  OBVIOUS
<1>1. open
  BY NothingWaits DEF CallTimesOut, Inv, ClosedOK, Waiting
<1>2. WaitsOK'
  BY WithoutOK DEF CallTimesOut, Inv
<1>3. PageOK' /\ ClosedOK' /\ OutOK'
  BY <1>1 DEF CallTimesOut, runnerVars, Inv, PageOK, ClosedOK, OutOK
<1>4. RunnerOK'
  BY LeaveRunnerOK DEF CallTimesOut, LeaveRunner
<1>5. ShownOK'
  BY DEF CallTimesOut, runnerVars, Inv, ShownOK
<1> QED BY <1>2, <1>3, <1>4, <1>5 DEF Inv

LEMMA PollOutInv == Inv /\ PollOut => Inv'
<1> SUFFICES ASSUME Inv, PollOut PROVE Inv'
  OBVIOUS
<1>1. pingFail' \in 0..PingLimit /\ RunnerOK'
  <2>1. CASE UNCHANGED <<pingFail, runnerVars, killed>>
    BY <2>1, LeaveRunnerOK DEF LeaveRunner, Inv, PageOK
  <2>2. CASE pingFail' = 0 /\ LeaveRunner
    BY <2>2, LeaveRunnerOK, Limits
  <2>3. CASE PingFailed
    BY <2>3, PingFailedOK
  <2> QED BY <2>1, <2>2, <2>3 DEF PollOut
<1>2. WaitsOK' /\ OutOK'
  BY WithoutOK, NewFileOK DEF PollOut, Inv
<1>3. {scriptReady', scriptError'} \subseteq BOOLEAN
  BY DEF PollOut, Inv, PageOK
<1>4. PageOK' /\ ClosedOK'
  BY <1>1, <1>3 DEF PollOut, Inv, PageOK, ClosedOK
<1>5. g_inited' => g_inited
  BY PingFailedOK DEF PollOut, LeaveRunner, runnerVars
<1>6. ASSUME g_inited PROVE scriptReady' /\ ~scriptError'
  <2>1. runner # "none" /\ open
    BY <1>6 DEF PollOut, Inv, RunnerOK
  <2>2. \A i \in EventLines : out[i].event = "inited"
    <3>1. \A i \in DOMAIN out : out[i] \in Lines /\ out[i].event # "initFailed"
      BY <2>1 DEF Inv, OutOK, ShownOK
    <3> QED BY <3>1 DEF EventLines, Lines
  <2>3. CASE EventLines = {}
    <3>1. ~\E i \in DOMAIN out : out[i].event = "inited"
      BY <2>3 DEF EventLines
    <3> QED BY <1>6, <2>1, <2>3, <3>1 DEF PollOut, Inv, ShownOK
  <2>4. CASE EventLines # {}
    <3>1. LastEvent = "inited"
      BY <2>2, <2>4, LastEventIsOne
    <3> QED BY <2>4, <3>1 DEF PollOut
  <2> QED BY <2>3, <2>4
<1>7. ShownOK'
  BY <1>5, <1>6, NewFileShown DEF PollOut
<1> QED BY <1>1, <1>2, <1>4, <1>7 DEF Inv

LEMMA StutterInv == Inv /\ UNCHANGED vars => Inv'
<1> SUFFICES ASSUME Inv, UNCHANGED vars PROVE Inv'
  OBVIOUS
<1>1. PageOK' /\ WaitsOK' /\ ClosedOK' /\ OutOK'
  BY DEF vars, pageVars, runnerVars, Inv, PageOK, WaitsOK, Waiting, Pings, ClosedOK, OutOK
<1>2. RunnerOK'
  BY LeaveRunnerOK DEF vars, LeaveRunner
<1>3. ShownOK'
  BY DEF vars, pageVars, runnerVars, Inv, ShownOK
<1> QED BY <1>1, <1>2, <1>3 DEF Inv

LEMMA NextInv == Inv /\ [Next]_vars => Inv'
<1>1. Inv /\ RunnerStep => Inv'
  BY LoadScriptInv, ScriptInitedInv, InitTimeoutInv, ReadCommandInv, AnswerInv, RunnerDiesInv
  DEF RunnerStep
<1>2. Inv /\ Page => Inv'
  BY OpenInv, CloseInv, CallInv, RestartRunnerInv, StartQueuedInv, WatchdogInv,
     PingTimesOutInv, CallTimesOutInv, PollOutInv
  DEF Page
<1> QED BY <1>1, <1>2, PlayerSendsInv, StutterInv DEF Next

\* The parts hold together at all times.
THEOREM Correct == Spec => []Inv
BY InitInv, NextInv, PTL DEF Spec

-----------------------------------------------------------------------------

\* Types; one ping at a time is on its way, nothing waits for a runner that is
\* gone or in a page that is closed, and the output file keeps its bound.
THEOREM TypeCorrect == Spec => []TypeOK
<1>1. Inv => TypeOK
  <2> SUFFICES ASSUME Inv PROVE TypeOK
    OBVIOUS
  <2>1. Cardinality(Pings) <= 1
    <3>1. CASE Pings = {}
      BY <3>1, FS_EmptySet
    <3>2. CASE Pings # {}
      <4>1. PICK a : a \in Pings
        BY <3>2
      <4>2. Pings = {a}
        BY <4>1 DEF Inv, WaitsOK
      <4> QED BY <4>2, FS_Singleton
    <3> QED BY <3>1, <3>2
  <2> QED BY <2>1 DEF Inv, PageOK, WaitsOK, RunnerOK, OutOK, ClosedOK, TypeOK
<1> QED BY Correct, <1>1, PTL

\* A page that reconnects, restarts the runner or polls its file never loses the
\* news that the script has registered (startRunner, onLine and pollOut in
\* main.qml): it is shown, or it is the last of the unread events.
THEOREM ReadyScriptIsShown == Spec => []ReadyIsShown
<1>1. Inv => ReadyIsShown
  <2> SUFFICES ASSUME Inv, open, g_inited, ~(scriptReady /\ ~scriptError)
               PROVE  EventLines # {} /\ LastEvent = "inited"
    BY DEF ReadyIsShown
  <2>1. PICK i \in DOMAIN out : out[i].event = "inited"
    BY DEF Inv, ShownOK
  <2>2. i \in EventLines
    BY <2>1 DEF EventLines
  <2>3. \A k \in EventLines : out[k].event = "inited"
    <3>1. \A k \in DOMAIN out : out[k] \in Lines /\ out[k].event # "initFailed"
      BY DEF Inv, OutOK, RunnerOK, ShownOK
    <3> QED BY <3>1 DEF EventLines, Lines
  <2> QED BY <2>2, <2>3, LastEventIsOne
<1> QED BY Correct, <1>1, PTL
=============================================================================
