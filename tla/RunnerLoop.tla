----------------------------- MODULE RunnerLoop -----------------------------
(***************************************************************************)
(* The runner's only thread: main's loop in src/runner/penmusic.c with     *)
(* what it calls, and the promise jobs of src/plugin/js/runtime.js.  One   *)
(* turn is: write what is queued, wait, read commands, poll HTTP, fire     *)
(* timers, run promise jobs until none is left, look at the clock.         *)
(* Composed of TimerTable, HttpTable and the command FIFO with its two     *)
(* writers, which both run on the host's main thread.                      *)
(*                                                                         *)
(* A command is a sequence of pieces and a newline.  Code of scripts runs  *)
(* when the script is loaded, and then in timer callbacks and promise      *)
(* jobs; there it may call setTimeout, clearTimeout, request and cancel in *)
(* any order, and it comes to an end.                                      *)
(***************************************************************************)
EXTENDS TimerTable, HttpTable, FiniteSets, SequencesExt

CONSTANTS
  Commands,
  From,      \* [Commands -> {"page", "component"}]
  What,      \* [Commands -> {"ping", "download", "script", "quit"}]
  Size,      \* [Commands -> pieces]
  ReadMax,   \* pieces that one read takes (4095 bytes) and a pipe takes whole
  Capacity,  \* pieces that the FIFO holds (64 KB)
  Loads,     \* what happens in the life of a runner: commands that are sent,
             \* and bounds on the calls of setTimeout and of request
  Attempts,  \* 20: of writeRpc
  IdleLimit  \* 10 minutes, in units of time

ASSUME LoopAssumption ==
  /\ IsFiniteSet(Commands)
  /\ {"none", "callback", "inited", "initFailed"} \cap Commands = {}
  /\ From \in [Commands -> {"page", "component"}]
  /\ What \in [Commands -> {"ping", "download", "script", "quit"}]
  /\ Size \in [Commands -> Nat \ {0}]
  /\ {ReadMax, Capacity, Attempts, IdleLimit} \subseteq Nat /\ ReadMax > 0
  /\ Loads \subseteq [send : SUBSET Commands, timers : Nat, requests : Nat]

VARIABLES
  \* the FIFO; the command that writeRpc is trying to write and how often it
  \* failed; those not yet tried
  fifo, writing, attempts, todo,
  \* the loop
  pc, g_quit, g_inited, g_inbuf, cursor, jobs, since,
  \* code of a script that runs; what the answers to commands wait for; the
  \* calls that scripts have left (two bounds)
  running, waits, timersLeft, requestsLeft,
  \* the output queue and the output file
  g_outbuf, outFile,
  \* history: lines written whole, commands parsed, tears, commands whose job
  \* threw, and that one did; time since the last line was written; that it was
  \* longer than the limit when the turn began; that the limit ran out in this
  \* turn while a download held the thread
  sent, handled, torn, lost, threw, quietFor, silent, blocked

pipeVars == <<fifo, writing, attempts, todo>>
outVars == <<g_outbuf, outFile>>
callsLeft == <<timersLeft, requestsLeft>>
scriptVars == <<running, waits, callsLeft>>
histVars == <<sent, handled, torn, lost, threw, quietFor, silent, blocked>>
loopVars == <<pc, g_quit, g_inited, g_inbuf, cursor, jobs, since>>
vars == <<pipeVars, loopVars, scriptVars, outVars, histVars, timerVars, httpVars>>

None == "none"
Newline == [of |-> "newline", piece |-> 0]
Pieces(c) == [i \in 1..Size[c] |-> [of |-> c, piece |-> i]]
Line(c) == Append(Pieces(c), Newline)

-----------------------------------------------------------------------------
(* The writers.                                                            *)

Room == Capacity - Len(fifo)
Short(c) == Size[c] < ReadMax

\* The whole line is in the FIFO.
WriteWhole(c) ==
  /\ Room > Size[c]
  /\ fifo' = fifo \o Line(c)
  /\ sent' = Append(sent, c) /\ quietFor' = 0
  /\ UNCHANGED torn

\* rpcSend: one process writes the command, a second one the newline, and the
\* shell of both is killed after a second.
PageWrites(c) ==
  /\ c \in todo /\ From[c] = "page" /\ writing = None
  /\ todo' = todo \ {c}
  /\ \/ WriteWhole(c)
     \/ /\ Room >= Size[c]
        /\ fifo' = fifo \o Pieces(c) /\ torn' = torn + 1
        /\ UNCHANGED <<sent, quietFor>>
  /\ UNCHANGED <<writing, attempts, loopVars, scriptVars, outVars, handled, lost, threw, silent,
                 blocked, timerVars, httpVars>>

\* An attempt of writeRpc.  The pipe takes a short command whole or not at all;
\* of a long one it takes what fits, and the next attempt begins at the start.
ComponentWrites(c) ==
  /\ c \in todo /\ From[c] = "component" /\ writing \in {None, c}
  /\ attempts < Attempts
  /\ \/ WriteWhole(c) /\ writing' = None /\ attempts' = 0 /\ todo' = todo \ {c}
     \/ /\ Room <= Size[c] /\ writing' = c /\ attempts' = attempts + 1
        /\ IF Short(c) \/ Room = 0 THEN UNCHANGED <<fifo, torn>>
           ELSE fifo' = fifo \o SubSeq(Pieces(c), 1, Room) /\ torn' = torn + 1
        /\ UNCHANGED <<todo, sent, quietFor>>
  /\ UNCHANGED <<loopVars, scriptVars, outVars, handled, lost, threw, silent, blocked, timerVars,
                 httpVars>>

\* Mutant: the attempts are counted on.
GivesUpCounting ==
  /\ attempts = Attempts /\ writing' = None
  /\ todo' = todo \ {writing}
  /\ UNCHANGED <<fifo, attempts, loopVars, scriptVars, outVars, histVars, timerVars, httpVars>>

ComponentGivesUp ==
  /\ attempts = Attempts /\ attempts' = 0 /\ writing' = None
  /\ todo' = todo \ {writing}
  /\ UNCHANGED <<fifo, loopVars, scriptVars, outVars, histVars, timerVars, httpVars>>

-----------------------------------------------------------------------------
(* Reading.                                                                *)

\* What has been made of the pieces read so far: the lines that are not empty,
\* the commands among them, those that JavaScript handles, and the piece of a
\* line that is left.
NothingRead(line) == [any |-> FALSE, cmds |-> <<>>, calls |-> <<>>, line |-> line]

\* Anything else is not JSON and is dropped by handle_rpc_line.
CommandIn(line) == IF \E c \in Commands : line = Pieces(c) THEN <<line[1].of>> ELSE <<>>
NotQuit(cmds) == IF cmds # <<>> /\ What[cmds[1]] # "quit" THEN cmds ELSE <<>>

LineRead(read) ==
  [any |-> read.any \/ read.line # <<>>,
   cmds |-> read.cmds \o CommandIn(read.line),
   calls |-> read.calls \o NotQuit(CommandIn(read.line)),
   line |-> <<>>]

PieceRead(read, piece) ==
  IF piece = Newline THEN LineRead(read) ELSE [read EXCEPT !.line = Append(@, piece)]

\* What input_read makes of s, piece by piece, when it kept line.
Scan(line, s) ==
  LET scan[n \in 0..Len(s)] ==
        IF n = 0 THEN NothingRead(line) ELSE PieceRead(scan[n - 1], s[n])
  IN  scan
Read(line, s) == Scan(line, s)[Len(s)]

\* Mutant: a line that is not complete is dropped.
RestDropped(read) == <<>>

\* What input_read keeps for the next time.
Rest(read) == read.line

-----------------------------------------------------------------------------
(* The turn.                                                               *)

Job(what, c) == [what |-> what, of |-> c, id |-> 0]
SettledJob(r) == [what |-> "settled", of |-> None, id |-> r]
JobsFor(cmds) == [k \in DOMAIN cmds |-> Job("handle", cmds[k])]

Later(time) == IF time > IdleLimit THEN time ELSE time + 1

\* Mutant: a command does not count as a sign of life.
SinceIgnoresCommands(any) == IF since < 0 /\ any THEN 0 ELSE since

\* g_last_cmd_ms: handle_rpc_line sets it, for whatever line; -1 before the
\* first.
SinceAfter(any) == IF any THEN 0 ELSE since

\* out_flush and select.  Time passes if there is nothing to read, and a timer
\* comes nearer.
Waits ==
  /\ pc = "top" /\ fifo = <<>>
  /\ since' \in IF since < 0 THEN {since} ELSE {since, Later(since)}
  /\ quietFor' = IF since' = since THEN quietFor ELSE Later(quietFor)
  /\ Elapse(1)
  /\ UNCHANGED <<fifo, g_inbuf, g_quit, jobs, handled>>

\* input_read.  Each line is a command of its own; the JavaScript ones only
\* queue a job.
InputRead ==
  /\ pc = "top" /\ fifo # <<>>
  /\ LET n == IF Len(fifo) < ReadMax THEN Len(fifo) ELSE ReadMax
         read == Read(g_inbuf, SubSeq(fifo, 1, n))
     IN  /\ fifo' = SubSeq(fifo, n + 1, Len(fifo))
         /\ g_inbuf' = Rest(read)
         /\ handled' = handled \o read.cmds
         /\ g_quit' = (\E c \in Range(read.cmds) : What[c] = "quit")
         /\ jobs' = jobs \o JobsFor(read.calls)
         /\ since' = SinceAfter(read.any)
  /\ UNCHANGED <<quietFor, timerVars>>

TurnBegins ==
  /\ Waits \/ InputRead
  /\ pc' = "http"
  /\ outFile' = outFile \o g_outbuf /\ g_outbuf' = <<>>
  /\ silent' = (quietFor' > IdleLimit) /\ blocked' = FALSE
  /\ UNCHANGED <<writing, attempts, todo, g_inited, cursor, scriptVars, sent, torn, lost, threw, httpVars>>

\* http_poll settles a promise; its callbacks are jobs.
HttpDone(r) ==
  /\ pc = "http" /\ r \in multi
  /\ Complete(r)
  /\ jobs' = IF settled' = settled THEN jobs ELSE Append(jobs, SettledJob(r))
  /\ UNCHANGED <<pc, g_quit, g_inited, g_inbuf, cursor, since, pipeVars, scriptVars, outVars,
                 histVars, timerVars>>

HttpPolled ==
  /\ pc = "http" /\ pc' = "timers" /\ cursor' = 1
  /\ UNCHANGED <<g_quit, g_inited, g_inbuf, jobs, since, pipeVars, scriptVars, outVars, histVars,
                 timerVars, httpVars>>

\* The answers that hang on a promise or a callback.
Waiting(for) == {c \in Commands : waits[c] = for}
AnswerAll(cs) == jobs' = jobs \o [k \in 1..Cardinality(cs) |-> Job("answer", SetToSeq(cs)[k])]
NoWait(cs) == waits' = [c \in Commands |-> IF c \in cs THEN <<None, 0>> ELSE waits[c]]

\* The next slot of timers_fire that is due.
TimersFire ==
  /\ pc = "timers" /\ running = None /\ DueFrom(cursor) # {}
  /\ LET i == CHOOSE i \in DueFrom(cursor) : \A k \in DueFrom(cursor) : i <= k
         id == g_timers[i].id
     IN  /\ Fire(i) /\ cursor' = i + 1
         /\ IF id \in callbacks
            THEN /\ running' = "callback"
                 /\ AnswerAll(Waiting(<<"timer", id>>)) /\ NoWait(Waiting(<<"timer", id>>))
            ELSE UNCHANGED <<running, jobs, waits>>
  /\ UNCHANGED <<callsLeft, pc, g_quit, g_inited, g_inbuf, since, pipeVars, outVars, histVars, httpVars>>

TimersFired ==
  /\ pc = "timers" /\ running = None /\ DueFrom(cursor) = {}
  /\ pc' = "jobs" /\ UNCHANGED cursor
  /\ UNCHANGED <<g_quit, g_inited, g_inbuf, jobs, since, pipeVars, scriptVars, outVars, histVars,
                 timerVars, httpVars>>

-----------------------------------------------------------------------------
(* Promise jobs.                                                           *)

NextJob(what) == pc = "jobs" /\ running = None /\ jobs # <<>> /\ Head(jobs).what = what

\* __handleRpc: a ping has its answer, the code of the script runs, and
\* a download keeps the thread for as long as curl takes: two attempts of up to
\* three tries of 300 s each, and the next download may be the next job.
HandlePing ==
  /\ NextJob("handle") /\ What[Head(jobs).of] = "ping"
  /\ jobs' = Append(Tail(jobs), Job("answer", Head(jobs).of))
  /\ UNCHANGED <<pc, g_quit, g_inited, g_inbuf, cursor, since, pipeVars, scriptVars, outVars,
                 histVars, timerVars, httpVars>>

HandleScript ==
  /\ NextJob("handle") /\ What[Head(jobs).of] = "script"
  /\ running' = Head(jobs).of /\ jobs' = Tail(jobs)
  /\ UNCHANGED <<callsLeft, pc, g_quit, g_inited, g_inbuf, cursor, since, pipeVars, waits, outVars,
                 histVars, timerVars, httpVars>>

HandleDownload ==
  /\ NextJob("handle") /\ What[Head(jobs).of] = "download"
  /\ pc' = "download"
  /\ UNCHANGED <<g_quit, g_inited, g_inbuf, cursor, jobs, since, pipeVars, scriptVars, outVars,
                 histVars, timerVars, httpVars>>

\* Nothing is read meanwhile, whatever is written.
DownloadGoesOn ==
  /\ pc = "download" /\ since <= IdleLimit
  /\ since' = Later(since) /\ quietFor' = Later(quietFor)
  /\ blocked' = (blocked \/ since' > IdleLimit)
  /\ Elapse(1)
  /\ UNCHANGED <<pc, g_quit, g_inited, g_inbuf, cursor, jobs, pipeVars, scriptVars, outVars, sent,
                 handled, torn, lost, threw, silent, httpVars>>

DownloadEnds ==
  /\ pc = "download" /\ pc' = "jobs"
  /\ jobs' = Append(Tail(jobs), Job("answer", Head(jobs).of))
  /\ UNCHANGED <<g_quit, g_inited, g_inbuf, cursor, since, pipeVars, scriptVars, outVars, histVars,
                 timerVars, httpVars>>

\* The callbacks of a promise.
Settled ==
  /\ NextJob("settled")
  /\ running' = "callback"
  /\ LET cs == Waiting(<<"request", Head(jobs).id>>) IN
       /\ jobs' = Tail(jobs) \o [k \in 1..Cardinality(cs) |-> Job("answer", SetToSeq(cs)[k])]
       /\ NoWait(cs)
  /\ UNCHANGED <<callsLeft, pc, g_quit, g_inited, g_inbuf, cursor, since, pipeVars, outVars, histVars,
                 timerVars, httpVars>>

\* rpc_done, and the reply file of the component.
Answer ==
  /\ NextJob("answer")
  /\ g_outbuf' = Append(g_outbuf, Head(jobs).of) /\ jobs' = Tail(jobs)
  /\ UNCHANGED <<pc, g_quit, g_inited, g_inbuf, cursor, since, pipeVars, scriptVars, outFile,
                 histVars, timerVars, httpVars>>

\* A job threw, for want of memory: the others wait for the next turn.  Once
\* in the life of a runner here.
JobThrows ==
  /\ pc = "jobs" /\ running = None /\ jobs # <<>>
  /\ ~threw /\ threw' = TRUE
  /\ jobs' = Tail(jobs) /\ pc' = "clock"
  /\ LET job == Head(jobs)
         cs == IF job.what = "settled" THEN Waiting(<<"request", job.id>>) ELSE {job.of}
     IN  lost' = lost \cup cs /\ NoWait(cs)
  /\ UNCHANGED <<callsLeft, g_quit, g_inited, g_inbuf, cursor, since, pipeVars, running, outVars,
                 sent, handled, torn, quietFor, silent, blocked, timerVars, httpVars>>

\* Mutant: one job a turn.
OneJobDone == running = None

AllJobsDone == running = None /\ jobs = <<>>

JobsDone ==
  /\ pc = "jobs" /\ AllJobsDone
  /\ pc' = "clock"
  /\ UNCHANGED <<g_quit, g_inited, g_inbuf, cursor, jobs, since, pipeVars, scriptVars, outVars,
                 histVars, timerVars, httpVars>>

-----------------------------------------------------------------------------
(* The code of a script.                                                   *)

ScriptSetsTimer ==
  /\ running # None /\ timersLeft > 0 /\ timersLeft' = timersLeft - 1
  /\ \E ms \in Delays : SetTimeout(ms)
  /\ UNCHANGED <<loopVars, pipeVars, running, waits, requestsLeft, outVars, histVars, httpVars>>

ScriptClearsTimer ==
  /\ running # None /\ \E id \in callbacks : ClearTimeout(id)
  /\ UNCHANGED <<loopVars, pipeVars, scriptVars, outVars, histVars, httpVars>>

\* A start that throws rejects a promise, and so does a cancel.
ScriptRequests ==
  /\ running # None
  /\ \/ /\ requestsLeft > 0 /\ requestsLeft' = requestsLeft - 1
        /\ RequestStarts \/ RequestRefused \/ RequestFails
     \/ UNCHANGED requestsLeft /\ \E id \in g_reqs : Cancel(id)
  /\ jobs' = IF settled' = settled THEN jobs ELSE Append(jobs, SettledJob(Last(settled')))
  /\ UNCHANGED <<pc, g_quit, g_inited, g_inbuf, cursor, since, pipeVars, running, waits, timersLeft,
                 outVars, histVars, timerVars>>

\* lx.send("inited").
ScriptInited ==
  /\ running # None /\ ~g_inited /\ g_inited' = TRUE
  /\ g_outbuf' = Append(g_outbuf, "inited")
  /\ UNCHANGED <<pc, g_quit, g_inbuf, cursor, jobs, since, pipeVars, scriptVars, outFile,
                 histVars, timerVars, httpVars>>

\* The script is loaded, or main returns at once, with nothing flushed.
ScriptLoaded ==
  /\ pc = "load" /\ running' = None
  /\ pc' \in {"top", "failed"}
  /\ UNCHANGED <<callsLeft, g_quit, g_inited, g_inbuf, cursor, jobs, since, pipeVars, waits, outVars,
                 histVars, timerVars, httpVars>>

\* The code returns.  The handler of a command returns a value, or a promise
\* that hangs on a request or a timer, or one that nothing will settle.
ScriptReturns ==
  /\ running # None /\ pc # "load" /\ running' = None
  /\ IF running = "callback" THEN UNCHANGED <<jobs, waits>>
     ELSE \/ jobs' = Append(jobs, Job("answer", running)) /\ UNCHANGED waits
          \/ /\ UNCHANGED jobs
             /\ \E for \in {<<"request", r>> : r \in g_reqs} \cup
                           {<<"timer", t>> : t \in callbacks} \cup {<<"never", 0>>} :
                  waits' = [waits EXCEPT ![running] = for]
  /\ UNCHANGED <<callsLeft, pc, g_quit, g_inited, g_inbuf, cursor, since, pipeVars, outVars, histVars,
                 timerVars, httpVars>>

-----------------------------------------------------------------------------
(* The end of a turn and of the runner.                                    *)

Idle == since > IdleLimit

\* Idle for 10 minutes; not ready after 60 s.
LooksAtClock ==
  /\ pc = "clock"
  /\ \E tooLate \in BOOLEAN :
       /\ tooLate => ~g_inited
       /\ g_quit' = (g_quit \/ Idle \/ tooLate)
       /\ g_outbuf' = IF tooLate THEN Append(g_outbuf, "initFailed") ELSE g_outbuf
  /\ pc' = IF g_quit' THEN "end" ELSE "top"
  /\ UNCHANGED <<g_inited, g_inbuf, cursor, jobs, since, pipeVars, scriptVars, outFile,
                 histVars, timerVars, httpVars>>

\* Mutant: the loop's end is the end.
EndsUnflushed ==
  /\ pc = "end" /\ pc' = "exited"
  /\ UNCHANGED <<g_quit, g_inited, g_inbuf, cursor, jobs, since, pipeVars, scriptVars, outVars,
                 histVars, timerVars, httpVars>>

\* What is queued is written before the process ends.
Ends ==
  /\ pc = "end" /\ pc' = "exited"
  /\ outFile' = outFile \o g_outbuf /\ g_outbuf' = <<>>
  /\ UNCHANGED <<g_quit, g_inited, g_inbuf, cursor, jobs, since, pipeVars, scriptVars,
                 histVars, timerVars, httpVars>>

-----------------------------------------------------------------------------
\* The script is being loaded.
Init ==
  /\ fifo = <<>> /\ writing = None /\ attempts = 0
  /\ \E load \in Loads :
       /\ todo = load.send
       /\ timersLeft = load.timers /\ requestsLeft = load.requests
  /\ pc = "load" /\ g_quit = FALSE /\ g_inited = FALSE /\ g_inbuf = <<>>
  /\ cursor = 1 /\ jobs = <<>> /\ since = -1
  /\ running = "callback" /\ waits = [c \in Commands |-> <<None, 0>>]
  /\ g_outbuf = <<>> /\ outFile = <<>>
  /\ sent = <<>> /\ handled = <<>> /\ torn = 0 /\ lost = {} /\ threw = FALSE
  /\ quietFor = 0 /\ silent = FALSE /\ blocked = FALSE
  /\ TimerInit /\ HttpInit

ScriptRuns ==
  ScriptSetsTimer \/ ScriptClearsTimer \/ ScriptRequests \/ ScriptInited \/ ScriptLoaded \/
  ScriptReturns
JobRuns ==
  HandlePing \/ HandleScript \/ HandleDownload \/ DownloadGoesOn \/ DownloadEnds \/ Settled \/
  Answer \/ JobThrows \/ JobsDone

Loop ==
  \/ TurnBegins \/ HttpPolled \/ (\E r \in multi : HttpDone(r))
  \/ TimersFire \/ TimersFired
  \/ JobRuns \/ ScriptRuns \/ LooksAtClock \/ Ends

\* The process has ended.
Gone == pc \in {"failed", "exited"}

Writers ==
  ~Gone /\ (ComponentGivesUp \/ \E c \in todo : PageWrites(c) \/ ComponentWrites(c))

Next == Loop \/ Writers

Spec == Init /\ [][Next]_vars

\* The thread runs on, code of scripts included; curl ends every request,
\* because each has a timeout.
Requests == 1..(CHOOSE n \in {l.requests : l \in Loads} : \A l \in Loads : l.requests <= n)
Fairness == WF_vars(Loop) /\ \A r \in Requests : SF_vars(HttpDone(r))

FairSpec == Spec /\ Fairness

-----------------------------------------------------------------------------
(* Properties.                                                             *)

Tokens == [of : Commands \cup {"newline"}, piece : Nat]
Tags == {"none", "request", "timer", "never"}
Said == outFile \o g_outbuf

TypeOK ==
  /\ fifo \in Seq(Tokens) /\ Len(fifo) <= Capacity /\ g_inbuf \in Seq(Tokens)
  /\ todo \subseteq Commands /\ writing \in Commands \cup {None}
  /\ attempts \in 0..Attempts /\ (writing # None <=> attempts > 0) /\ (attempts > 0 => writing \in todo)
  /\ pc \in {"load", "failed", "top", "http", "timers", "jobs", "download", "clock", "end", "exited"}
  /\ {g_quit, g_inited, threw, silent, blocked} \subseteq BOOLEAN
  /\ cursor \in 1..(Slots + 1) /\ {since, quietFor} \subseteq -1..(IdleLimit + 1)
  /\ \A k \in DOMAIN jobs :
       IF jobs[k].what = "settled" THEN jobs[k].id \in 1..reqSeq
       ELSE jobs[k].what \in {"handle", "answer"} /\ jobs[k].of \in Commands
  /\ running \in Commands \cup {None, "callback"}
  /\ {timersLeft, requestsLeft} \subseteq Nat /\ (running # None => pc \in {"load", "timers", "jobs"})
  /\ waits \in [Commands -> Tags \X Nat]
  /\ torn \in Nat /\ lost \subseteq Commands
  /\ {sent, handled} \subseteq Seq(Commands) /\ Said \in Seq(Commands \cup {"inited", "initFailed"})
  /\ TimerTypeOK /\ HttpTypeOK

\* Commands that are parsed, or will be.
Kept == handled \o Read(g_inbuf, fifo).cmds

\* Commands are read once and in the order in which they were written, however
\* reads cut them, and a torn write costs at most one other command: those
\* that are parsed, or will be, are the written ones but for one for each tear.
\* "保证命令送达" of writeRpc is true as long as nothing is torn.
LinesSurvive ==
  /\ IsInjective(sent) /\ IsInjective(Kept) /\ Range(Kept) \subseteq Range(sent)
  /\ Len(sent) - Len(Kept) <= torn
  /\ \A i, k \in DOMAIN Kept : \A x, y \in DOMAIN sent :
       sent[x] = Kept[i] /\ sent[y] = Kept[k] /\ i < k => x < y

\* The loop ends as idle only if, when its last turn began, no line had been
\* written for ten minutes, or if the ten minutes ran out while a download held
\* the thread.  The second case is what the comment over the test denies:
\* "正常使用中 QML watchdog 每 10s ping，不会触发" (penmusic.c:2803).  The pings
\* of a page in use lie unread then, and the runner ends with them.
IdleExitIsAfterSilence == [][LooksAtClock /\ Idle /\ ~g_quit => silent \/ blocked]_vars

\* A command is answered once at most; and a ping or a download that was read
\* has its answer in the file when the runner has ended, whatever ended it,
\* unless a job threw.
AnswersReachTheFile ==
  /\ \A i, k \in DOMAIN Said : Said[i] = Said[k] /\ Said[i] \in Commands => i = k
  /\ Range(Said) \cap Commands \subseteq Range(handled)
  /\ pc = "exited" /\ ~threw =>
       \A c \in Range(handled) : What[c] \in {"ping", "download"} => c \in Range(outFile)

\* The answer waits for what will not come: a promise that the script leaves, a
\* timer that it cleared or that the full table refused, a request whose handle
\* curl refused, a job that threw.
Abandoned(c) ==
  \/ c \in lost \/ waits[c][1] = "never"
  \/ waits[c][1] = "timer" /\ (waits[c][2] \notin callbacks \/ waits[c][2] > Slots)
  \/ waits[c][1] = "request" /\ waits[c][2] \in g_reqs \ multi

\* A command that was written is answered, through all turns, requests and
\* timers it takes, or the runner ends.
CommandIsAnswered ==
  \A c \in Commands :
    c \in Range(sent) /\ What[c] # "quit"
      ~> c \in Range(outFile) \/ Gone \/ torn > 0 \/ Abandoned(c)
=============================================================================
