# LX Pen: TLA+ models of the player, its song cache and the source runner

LX Pen is a music plug-in for a dictionary pen. It has three parts that run
side by side:

* the **page** (`src/plugin/qml/`), QML shown by the host, destroyed when the
  user leaves it and created again when he returns;
* the **component** (`src/player/lxpen_player.cpp`), a C++ object in the host
  process that owns the queue, drives the host's player through detours, and
  outlives the page while music plays;
* the **runner** (`src/runner/penmusic.c` with `src/plugin/js/runtime.js`), a
  process with QuickJS that runs a user's source script and answers commands:
  search, link of a song, lyric, download.

They talk through files under `/tmp/penmusic`: one command FIFO read by the
runner, one output file read by the page, one reply file per request of the
component. Most of what can go wrong lies between them, and that is what the
modules are about.

Contents: [inventory](#inventory) - [modules](#modules-and-their-correspondence-to-the-code) -
[runs](#runs) - [what the code does not do](#what-the-comments-say-and-the-code-does-not-do) -
[proofs](#proofs) - [limits](#what-is-not-modelled) - [plan](#plan) - [usage](#usage)

## Inventory

### Components

**Player: step machine, queue and detours** (`lxpen_player.cpp`).
State: queue and index, step (`Idle GetUrl GetLyric CheckCache Download
PlayFile Online WaitPlaying`), the reply it waits for, the time the song was
put on, the session number of the host that is ours, flags for misfires, the
take-over, the wake lock, a state file with the index.
Operations: `setQueue`, `clearQueue`, `playIndex`, `playFile`, `stop`,
`resumeQueue`, `setUiOpen`; the slots `onTick` (150 ms), `onCacheTick`,
`onIdleTick` (2 s); the detours on the host's next, previous and sound end.
Hard: replies arrive late, twice, or never; the host's sound-end events arrive
late and its own handler may click "next" in the same call; the page comes and
goes. Correct when: every request is answered or withdrawn and nothing runs
that nobody asked for; one end moves the queue by one song, and only the end
of the song the queue stands at.

**Player: song cache** (same file; the runner's `do_curl_download`).
State: files `<song>`, `<song>.part`, `<song>.ok`, one reply file, a sequence
number, a deadline of 90 s. Operations: cache test, background download,
answer, prune to ten files, clean-up at creation. Hard: the runner goes on with
downloads the component has given up; it may be killed, and curl survive it;
power may fail between a rename and a marker. Correct when a file with the name
of a song is whole, and a trusted one is as long as declared.

**Page: queue and calls of the player** (`main.qml`, `HomePage.qml`,
`SettingsPage.qml`). Keeps the list of the last search and saves it to a
database whenever any setting is saved; calls `setQueue`, `setQuality`,
`playIndex` together, `clearQueue` and `playFile` for a downloaded file,
`resumeQueue` when it opens. Hard: there are four copies of the queue or its
index (page, database, component, `/tmp/lxpen_state.json`), and songs follow each
other while the page is away. Correct when the page that comes back has the song
that plays, and does not bring back a queue that was given up.

**Page: RPC client** (`main.qml`). State: number of the next request, table of
callbacks with timers, offset in the output file. Hard: the number 1 of one
page, of the next one and of the component are the same number in one file.

**Page: runner supervision** (`main.qml`). Starts, finds, pings, replaces and
restarts the runner. State: `scriptReady`, `scriptError`, `pingFail`, a start
that is queued. Correct when a dead runner is replaced, a busy one is not, and
a script that does not work is reported.

**Page: download of a song to the user's disk** (`main.qml`,
`DownloadsPage.qml`). Link, first attempt, file and `.part` removed, second
attempt, while the runner may still be in the first. State: the list of
downloads (50 entries), the files. Correct when a file in the list is whole and
nobody but its user touches it, and a failed download leaves nothing.

**Runner: main loop and RPC dispatch** (`penmusic.c`, `runtime.js`). One
thread: output queue, wait, FIFO, HTTP, timers, promise jobs, clock; idle exit
after 10 minutes, 60 s to initialise. A download runs in `system()` and blocks
all of it. Hard: the FIFO is read in pieces and written by two processes that
may leave a line unfinished; the clock is looked at after a blocked turn. Correct
when commands survive all that, are answered once at most, and answers reach the
file before the process ends.

**Runner: download with resume** (`penmusic.c`). Two attempts with curl, the
first with `-C -`; the test of completeness; the rename.

**Runner: timers** (`penmusic.c`, `lx-shim.js`). A table of 512 entries that
is never compacted, and the shim's table of callbacks. Correct when both agree.

**Runner: HTTP requests of scripts** (`penmusic.c`, `lx-shim.js`). curl's
multi interface, a table of callbacks; each must be settled exactly once.

**Runner: mpv control** (`penmusic.c`). Dormant on the device: the page never
passes `--mpv`.

**Runner: natives and Windows back end** (`penmusic.c`). Conversions around
libraries; a development back end.

**Data layer** (`normalize.js`, `lx-music-port/port`). Stateless translation
of what music platforms answer.

**Vendored and generated code**, and **widgets, packaging, tests**: QuickJS,
lx-music's SDK, source scripts, gconv tables; layout and scripts.

### How they interact

| from | to | by | what can happen to it |
|---|---|---|---|
| page | component | `Q_INVOKABLE` calls, host's main thread | nothing: a call runs to its end |
| component | page | signals | lost when the page is gone |
| page, component | runner | lines in one FIFO | given up after about 1 s without a reader; queued behind a download |
| runner | page | lines in one output file | lines of other senders and of former pages |
| runner | component | a reply file per path | read half-written and removed; overwritten; late |
| component | host's player | function calls | host silent, still loading, or taken over by the user |
| host's player | component | detoured calls | late, of a former session, two in one |
| runner | disk | curl in a child process | killed, resumed, unlinked underneath |

`PROJECT.json` lists the hazards one by one, each at its line, with the
properties that cover it or the reason why none does.

## Modules and their correspondence to the code

| module | models | with |
|---|---|---|
| `LxPenPlayer` | the component: all slots, detours and `Q_INVOKABLE` methods | a page, a host and a runner that do what they like |
| `PlaybackRequest` | what the component promises, abstractly; `LxPenPlayer` implements it | |
| `LxPenPlayerProofs` | the component's inductive invariant and theorems | |
| `PlaybackRequestProofs` | the proof of the implementation | |
| `EndOfSongProofs` | what a sound end of the host does to the queue | |
| `SongCache` | the component's cache, the files, the runner's downloads | kills, power losses, re-creation of the component |
| `SongCacheProofs` | that a file is whole, a trusted one long enough, one to be played there, and an answer of the download that is waited for | |
| `QueueSession` | the four copies of queue and index | a page that is closed in every way, a component that is destroyed, power losses |
| `QueueSessionProofs` | that what plays can be found again | |
| `DownloadFlow` | the page's `downloadSong`, its list, the runner's transfer | runners that are killed or replaced, curls that outlive them, reopened pages |
| `DownloadFlowProofs` | who may still touch a path | |
| `RunnerLink` | the page's RPC client and supervision, and the runner's loading, command and answer loop | a player that sends requests of its own |
| `RunnerLinkProofs` | types, and that the page does not lose the news of a ready script | |
| `RunnerLoop` | the runner's thread, one part of a turn at a time | two writers, scripts that call what they like |
| `TimerTable`, `HttpTable` | the tables behind `setTimeout` and requests; extended by `RunnerLoop` | |
| `RunnerLoopProofs` | commands, answers, clock and tables of the runner | |
| `MC...` | values for the constants | |

`PROJECT.json` maps every definition to the lines it stands for. Variables
have the names of the members they model.

### LxPenPlayer

All methods of the class run on the host's main thread, so one call, with
everything it calls, is one action. `UiPlaySong` is the page's `setQueue`,
`setQuality` and `playIndex` in one turn of the event loop; `UiPlayDownload`
is `clearQueue` and `playFile`; `UiStop`, `UiLeave` and `UiOpen` are the stop
button, the page going away and coming back with `resumeQueue`. `SendRpc`,
`PollReply`, `PollTimeout`, `CheckCache`, `PlayFile`, `Online`,
`HostConfirms` and `HostSilent` are the branches of `onTick`; `CacheGood`,
`CacheBad` and `CacheTimeout` those of `onCacheTick`; `IdleTick` is
`onIdleTick`. `ClickNext`, `ClickPrev` and `DeliverEnd` are the detours.
`DeliverEnd` takes both courses the host's own handler may take: it returns, or
it calls `onClickedNext` (which is our `handleNext`) before
`handleSongEnded` runs. `PlayIndex`, `DropReplies`, `DoPlay` and `FinishPlay`
are the functions shared by these.

Abstractions. `m_playStartedAt` is the time since it was set, in ticks, capped
at the longest interval it is compared with. A deadline may pass at any poll
that finds no answer (that of the cache download at any tick, because
`onCacheTick` tests it first). A session number is compared for equality only, so a new
session takes any number nobody remembers. A `writeRpc` that gives up changes
nothing and is a stuttering step. The files of the cache are in `SongCache`:
here a hit is either outcome, and a download has an answer, a bad answer or none.
`goal` and `adopted` are history: what is owed to the user, and whether the
session was taken over by `resumeQueue`.

`PlaybackRequest` is the component as its user sees it: a song is asked for
(`Ask`), given to the host once or more (`PutOn`), and answered for or withdrawn
(`Settle`). The mapping is `wanted <- Wanted`, the current song while the step
machine runs or a download is to be played; `owed <- goal = "song"`; `playing <-
hostSrc`. There is no step by which a song becomes wanted unasked, or the host is
given one that is not wanted: that is what every late reply, completed download and
host event has to keep to. `PlayFile` leaves the song wanted, because the code does
(`player_download`).

### SongCache

A song stands for `songmid|quality`. A file is the sequence of its pieces, each
named after the recording it comes from, so that a mixture of two recordings
can be told from one. A piece is more than the 5 % a file may fall short of
its declared size. `Play`, `Stop`, `CheckCache`, `PlayFile`, `Online`,
`WaitPlaying` and the cache answers are the component; `TakeCommand`,
`CurlReceives`, `CurlSucceeds`, `CurlFails` and `Answer` are `handleDownload`
and `do_curl_download`. `RunnerKilled` leaves curl to finish at once any part of
what it still had to fetch. `PowerLoss` clears `/tmp` and creates the component
anew; it may fall between two calls or into the handler of an answer
(`NextComponentAfterPowerLoss`): after a bad file was removed and before its marker, while the
marker of a good one is still empty, or in the middle of a prune. `Recreated` creates the
component anew beside the working runner, which is what `destroy_plugin` leads to while the
host is playing.

`LxPenPlayer` and `SongCache` share the step machine. `SongCache` keeps of it
only the steps that touch the cache: links and lyrics of `LxPenPlayer` are part
of `Play`, and the host's player is the choice in `WaitPlaying`.

### QueueSession

Lists are results of searches; a song is a list and an index. The component is
`LxPenPlayer` seen from outside: it is given a queue, fetches a song of it, and the
host plays. `Search` saves the queue that was there (`addHistory` is called before
`queue` is replaced) and then replaces it, also with nothing when nothing was found. `PlaySong`, `OtherSetting` and
`PlayDownload` are the page; `ExitPlugin`, `StopAndExit` and `PageDestroyed`
the three ways in which it goes; `OpenPage` is `Component.onCompleted` with
`resumeQueue`. `DestroyPlugin` is `destroy_plugin`, after which the component is
a new one. `PowerIsLost` keeps the database and clears `/tmp`. History: `settled`
(what plays is what the component's queue says), `dropped` (the page searched, or
gave the queue up, since a song was last chosen), `forgotten` (the user left with
nothing playing).

What the properties set apart is what the code does not do: after a search and
any saved setting, the saved list is the new one, and the index file selects a
song of it that is not playing; `onSongStarted` of the old queue moves the page's
index in the new list; a downloaded file that plays when the page is
reopened has the old queue resumed around it, and a track of the user's own is
adopted in the same way; a page that is left while the first song of a queue is
still being fetched forgets the queue, although the song may come. The last case
ends with `ExitPlugin` asking for the runner to stop, but a cached song needs
no runner.

### DownloadFlow

A file is an inode with a name, because curl writes to what it opened whatever is
renamed or removed. `TapDownload`, `LinkOk`, `LinkFails`, `FirstFails`,
`SecondFails`, `AddDownload` and `TimesOut` are `downloadSong`; `RemoveDownload`
and `Reopen` the page; `LinkRuns`, `DownloadBegins`, `CurlOpens`, `CurlFetches`,
`CurlEnds`, `Rename` and `DownloadAnswers` the runner; `OrphanFetches` and
`OrphanEnds` a curl whose runner was killed by `pkill -9 penmusic`. A curl that ends
well may not have fetched everything: its exit code is read from
`/tmp/lxpen_curl_code`, which an orphan writes too, and a server need not tell a
length; the sizes are compared afterwards, as in the code. The path of a
download is made of name and singer, so two qualities of a song share it.

Two curls may write to one `.part`, an orphan and the runner's own: each keeps its
own position, so a piece may be written twice, and a `.part` may grow beyond `Total`.
`Spliced` is the `splice` of `addDownload`: the song is taken out of the list before it is
put at its head.

`late` is the set of paths of downloads whose end the page did not wait for: it
waits 320 s for each attempt, and the runner may take two transfers of 300 s, each
with curl's retries, after what it does for the player. The comment at
`main.qml:495` counts one transfer of 300 s. After that a file or a `.part` may
be left that is in no list, and a later attempt may resume a `.part` of
another quality. A second download of a listed song that fails removes the file of
the first, which stays in the list; `playDownload` then finds it missing. `SelectScript` is
any change of the source script, each of which restarts the runner: `other` stands for all
scripts but the default one.

### RunnerLoop, TimerTable, HttpTable

`pc` is the place in `main`: the loading of the script (`load`), in which its top-level code
may already set timers, send requests and say that it is ready (`ScriptLoaded` ends it, or the
process: `failed`), and then the parts of a turn of the loop. A command is a number of pieces
and a newline; `ReadMax` pieces are what one `read` takes. `PageWrites` and
`ComponentWrites` may leave a command without its newline or cut it where the FIFO
is full (`torn`). `InputRead` is `input_read` with the lines it hands on; jobs are QuickJS's
queue in its order; a script's code in a job, a callback or at its top level may call
`setTimeout`, `clearTimeout`, request and cancel in any order. `HandleDownload` begins a
download, `DownloadGoesOn` is the time `system()` takes, in which writers write and nobody
reads, and `DownloadEnds` its return.

History: `quietFor` is the time since a line was written, `silent` that it was longer than the
idle limit when the turn began, `blocked` that the limit ran out in this turn while a download
held the thread, `lost` the commands whose job threw. A download that takes longer than the
idle limit makes the turn end the loop, and what was written meanwhile is lost.

`TimerTable` has the `g_timers` array (never compacted, refusing beyond its end)
and the shim's `callbacks`; `HttpTable` the list `g_reqs`, the handles in curl's
multi (`multi`) and the shim's callbacks (`pendingReqs`); `settled` is the history
of the promises that were settled, each of which may occur once. A request starts
(`RequestStarts`), throws (`RequestFails`, which leaves its entry in `pendingReqs`), or is
listed although curl refused the handle, because the return of `multi_add_handle` is not
looked at (`RequestRefused`): then only a cancel can settle it.

### RunnerLink

The output file is the part of it the open page has not read. The FIFO is a
sequence of requests; a request that arrives while a download runs stays in it.
`LoadScript`, `ScriptInited` and `InitTimeout` are `main` up to and including
the 60 s check; `ReadCommand` and `Answer` the loop and `__lx_on_rpc`;
`RunnerDies` every way the process can end without the page's doing. `Open` and
`Close` are the page's creation and destruction, `RestartRunner` and
`StartQueued` the two halves of a restart, `Watchdog`, `PingTimesOut` and
`PollOut` the timers. `killed` is history: the last runner was told to go.

The watchdog pings every 10 s whatever the runner does, so pings that a busy
runner has not read pile up in its FIFO (`MaxPings`); each fails after 5 s at the page. Between
`RestartRunner` and `StartQueued` no timer of the page fires, because `Qt.callLater` runs as
soon as the events that wait have been served. `StartRunner` then asks `pgrep`, and may find
the process that `pkill` has just killed: it is taken for a working one, the page shows ready,
and nothing runs until the watchdog has counted its pings.

Numbers are recycled: a request of the page takes the least number the page does not
wait for (`LeastOf`), which stands for any later number.

## Runs

Every run is checked with deadlock detection off: user, host and runner may
each stop for good, and a system at rest is not an error; in `RunnerLink`,
`DownloadFlow` and `RunnerLoop` a bound (lives of the page, taps, commands sent, after
which the runner exits as idle) ends every behaviour.

| run | states | what it shows |
|---|---|---|
| `player_safety` | 884,812 | types; `WorkIsOwed`: after an answer, a stop or the idle recycle nothing starts the host again; `RequestIsKept`: no step drops a request but the failed or expired end of the cache download it waits for; `PollersRun`: a running step is polled, and only one thing is polled for; `OneAdvancePerEnd`; `EndedSongIsCurrent`; `PlaysWhatIsWanted`: the component implements `PlaybackRequest` |
| `player_live` | 76,718 | `RequestIsAnswered`: once the runner stays up, a request is answered or withdrawn (or strands, see below); `LockIsReleased`: the wake lock is given back when page and host are quiet |
| `player_download` | violation | see below |
| `player_idle` | violation | see below |
| `song_cache` | 1,441,221 | types; `NoHalfFile`; `TrustedIsLongEnough`; `PlayedFileIsThere`; `AnswersAreOursInOneLife` |
| `song_cache_mixed` | violation | see below |
| `runner_link` | 252,712 | types; `ReadyIsShown`: an open page shows a script that has registered as ready, or still has to read that it has; `DeadRunnerIsReplaced`: also one that was taken for alive while it was dying; `InitTimeoutIsReported` |
| `runner_link_load` | violation | see below |
| `runner_link_answers` | violation | see below |
| `runner_loop` | 106,031 | types; `LinesSurvive`: a command that was written whole is handled whatever pieces it is read in; `TimersAgree`: of the first `Slots` timers the table of `main` and that of the shim name the same; `RequestsAccounted`: every request is listed or settled, never both, once at most, and curl has handles of listed ones only; `AnswersReachTheFile`; `IdleExitIsAfterSilence`: the loop ends as idle only after silence, or when a download held the thread that long; `CommandIsAnswered` |
| `download_flow` | 655,178 | types; `NothingLeftBehind`: a download that failed leaves neither file nor `.part`; `ListedIsComplete`; `ListedIsLeftAlone`: the file of a listed download is not changed underneath; `DownloadIsDecided`: a tap ends in the list or in a failure |
| `queue_session` | 38,776 | types; `PageFollowsPlayer`: an open page has the song that plays; `ReopenRestoresTheSong`: so does the page that is opened while music plays; `ForgottenStaysForgotten` |

### Bounds

*Player.* One queue of two songs: next, previous and the wrap at both ends
differ already. One song is short (half its duration is below the misfire
window), the other has no declared duration, so both branches of the window
occur. Three session numbers are enough for the host's, the component's and one
in a late event to differ pairwise; they are only compared for equality, so they
are symmetric, and symmetry is not used in the liveness run. `Swallow` 1 and `Guard`
2 give an instant in each window, between them and after. One undelivered
end event: a second one is a further late event of an old session, which meets the
same tests. The liveness run replaces the windows by 0 and drops end events,
since no deadline depends on them, and adds a song without a source.

*Cache.* Two songs and a cache of one file make every download prune. One song is
declared and its links lead to the whole or a shorter recording, the other is
undeclared. Four plays and one fault let a download be given up, resumed by a
second, overtaken by a third and answered for in a fourth. The same
properties were also checked with five plays (6.5 million states) and with three
plays and two faults. `MinSize` is 0: every file of at least one piece is above
the limit, and the declared size makes a file too small.

*Link.* `PingLimit` 2 for the code's 6 distinguishes the first failure from the
last. Two numbers let page and player collide while another request is
waiting. Two lives of the page give late answers to a former one. One request
beside the pings is enough to block them behind a download, and two pings (`MaxPings`) to let a
second wait behind the first.

*Loop.* Seven loads of one to three commands, each with its own bound on the calls of
`setTimeout` and of request. A command is one to three pieces and a newline, and a
read takes `ReadMax` 3 of these, so that reads cut commands within and between. The pipe
holds `Capacity` 6, which is too little for the first load: its last command is cut. `Slots`
2 for the code's 512 lets the table fill up and refuse. `Delays` 0 and 1: a timer
that is due in the turn that set it, and one that is not. `Attempts` 2, `IdleLimit` 1.

*Download.* Two loads: two qualities of a song, which share a path, with one killed
runner, and two songs with none. A transfer of `Total` 2 pieces has a beginning and
an end; two taps; a list of `ListMax` 1 for the code's 50 drops its last entry with
the second. `Inodes` are 8 files, more than exist at once in any behaviour of the run.

*Session.* Two lists of two and three songs: the index into one may lie outside the
other. Nothing else is bounded.

### Fairness

`LxPenPlayer`: weak fairness of `Tick`, `CacheTick` and `IdleTick`, which the
host's event loop serves from repeating timers. Nothing is assumed of the user,
the host's player or the runner; `RequestIsAnswered` has "the runner stays up"
as a hypothesis, because `SendRpc` is retried for ever without one.
`RunnerLink`: weak fairness of the page's event loop (the queued start of a runner, the
watchdog's timer and that of its ping, each of which follows the other; the poll of the file), of loading (`main` runs to
the loop) and of the 60 s check (in the loop, which an uninitialised script does
not block). Nothing is assumed of answers, of the user or of a script.
`RunnerLoop`: weak fairness of the thread, which includes that a script's call
returns, and strong fairness of each request's end, because every handle has
`CURLOPT_TIMEOUT_MS` and curl is served in every turn. `DownloadFlow`: weak fairness
of the page's timers, each of which is one-shot. `QueueSession`: none; it has only
safety properties.

## What the comments say and the code does not do

Each is a run that states the sentence as a property and a short behaviour of
the code that violates it. `PROJECT.json` quotes the lines.

* `player_download`: `clearQueue` is there so that the old queue does not
  interfere with a downloaded file, and leaves the step machine running: the song
  whose link was on its way is put on over the file.
* `player_idle`: the queue is to go on when the page is closed; the idle monitor
  takes the silence between two songs for the end and drops the queue.
* `song_cache_mixed`: a half-written file is never to pass for a whole one; a
  `.part` left by one link is resumed with another, and the sizes add up.
* `runner_link_load`: a script that does not load is to be reported; the line is
  queued, and `main` returns before the queue is flushed.
* `runner_link_answers`: page and player are not to compete for one output file;
  every answer is written to it, and both number their requests from 1.

Four more that the models contain and no run is spent on:

* the page is told that the song plays when its download is complete
  (`lxpen_player.cpp:743`). When the download fails or takes more than 90 s,
  `m_playAfterCache` stays set, nothing is under way, and the page is told nothing.
  These are the two steps `RequestIsKept` excepts, and `Stranded` in `RequestIsAnswered`.
* the pings of a page in use are to keep the runner from ending as idle
  (`penmusic.c:2802-2803`). A download that holds the thread for more than ten minutes lets
  them lie unread, and the turn it ends in is the last: `blocked` in `IdleExitIsAfterSilence`
  is this case. Two attempts of curl, each retried twice, with 300 s for each try, are enough.
* the number in a reply is to tell old downloads from new
  (`lxpen_player.cpp:558`, `runtime.js:246`). A new component counts from 1 again while
  the runner still works for the old one, so `AnswersAreOursInOneLife` is promised only until
  a component is created beside a working runner.
* the page's timeout of 320 s is to cover a slow transfer (`main.qml:495`). The runner makes
  two attempts of 300 s each, which is why `NothingLeftBehind`, `ListedIsComplete` and
  `ListedIsLeftAlone` except the paths in `late`.

## Proofs

TLAPS checks eight proof modules, for all values of the constants that satisfy
the named assumptions. These say of what type a constant is and which values differ from
which; besides, that a search that found something and a recording are not empty, that the commands of a run are finitely many, and that limits are positive. Every
run evaluates them. The bounds `MaxEnds`, `MaxPlays`, `MaxFaults`, `MaxLives`,
`MaxTaps`, `Inodes` and `Loads` are constants too, so the theorems hold for
every bound.

All invariants and all action properties of the passing runs are proved. Each proof
module begins with the invariant that carries it, which is the part worth reading:

**`LxPenPlayerProofs`**: `Correct`, `Spec => []Inv` with

    Inv == TypeOK /\ PollersRun /\ WorkIsOwed /\ OwedWorks

The four are inductive together and not alone. `WorkIsOwed` needs `PollersRun`:
when `CacheGood` starts `PlayFile`, no step of another request may be running, or
the answer to one would be the answer to both. `OwedWorks` (a request nobody answered is
in the step machine or marked as waiting for a download) needs it as well,
because `CacheGood` may only clear the waiter if the step machine takes over.
`PollersRun` needs the types (a step is one of eight), and the types need that
the index is a position of the queue or -1, which `NextIndexInQueue` and
`PrevIndexInQueue` show of the wrap-around. There is one lemma for each action; the
shared functions have lemmas of their own (`PlayIndexInv`, `DoPlayType`,
`CutShortType`). `TypeCorrect`, `NoUnwantedWork` and `PollersMatchWork` follow.
`NoLostRequest`, `Spec => RequestIsKept`, is about steps: `OwedWorks` alone is true of a
stranded request, so the proof goes through the actions that end a download and shows that
only `CacheBad` and `CacheTimeout` strand one. `GuardForBounds` bounds the misfire window for every
duration: it is never negative and never longer than 8 s.

**`PlaybackRequestProofs`**: `ImplementsPlaybackRequest`, `Spec => PlaysWhatIsWanted`,
the refinement `player_safety` checks. It rests on `Inv` above and on `SongKnown`,
`Working => m_currentSong \in Songs`, without which the mapping of `wanted` would
not be a song. A step of the component is of one of four kinds: it goes on
(`GoesOn`: nothing abstract changes), settles (`Settles`), asks (`Asks`), or puts the song on
(`PutsOn`); there is one lemma for each group of actions, and each kind maps to
a step of `PlaybackRequest` or to a stutter (`StepSimulated`).

**`EndOfSongProofs`**: `OnlyTheCurrentSongEnds` and `OneSongPerEnd`. The host's event
has no song in it, only `handleSongEnded`'s look at the session number. Hence an
invariant on sessions, `SessionInv`: an undelivered end of the host's session is about
what the host has (`EndsOfThisSession`), and while the session recorded as ours can be
compared with the queue, what the host has (`SessionIsCurrent`), what it is about to
start (`AwaitedIsCurrent`) and every end still to come of that session
(`EndsAreCurrent`) is the current song, or a track of the user's own. `playIndex` forgets the session
(`PlayIndexForgets`), and this is what separates a late end of the song before. Steps
that neither start a session nor put on a song are settled by one lemma, `QuietStep`.

**`SongCacheProofs`**: five theorems in three layers.
`FilesAreWhole`, `Spec => []NoHalfFile`, with

    Inv == Typed /\ SongChosen /\ Position /\ NoHalfFile

`NoHalfFile` says that a file has the size of the recording it ends with. The rename
of a `.part` keeps it only if the size curl accounts for is the size of the file.
That is `Position`: while a transfer runs on a `.part` that is still linked,
its length is curl's position and, once a piece has come, it ends with the
recording being fetched; after an unlink, it does not exist. It holds for a
resumed `.part` of any earlier content, which is why the theorem
promises the size and not one recording (`song_cache_mixed`).
`TypeCorrect` adds `Shape` and `OrderOK`: the ages of the files are a strict total order of the
files there are, so that a prune is well defined. `TrustedFilesAreLongEnough`,
`FileIsThereToPlay` and `AnswersAreOurs` add `OneLife`: until a component is created beside a
working runner, downloads are numbered in the order of their commands and no number is
under way twice (`Ordered`), the newest is the one waited for (`Counted`), and once it is
answered well its file is there, as long as the answer says and the newest of all, which is why
no prune takes it (`Awaited`); a marker is never below the declared size (`MarkersFit`).

**`QueueSessionProofs`**: `PageShowsTheSong`, `SongIsRestored` and
`ForgottenIsForgotten`. Of the four copies of queue and index two outlive the page,
the database and the index file. `CanBeFound` says that as long as the page did not search
anew, what plays is the song these two name; `SameQueue` and `IndexIsFiled` say which of the
others agree with them meanwhile, `IsForgotten` that a queue given up is in none.

**`RunnerLinkProofs`**: `TypeCorrect` and `ReadyScriptIsShown`. That the output file stays
within its bound needs `OutOK`: a runner that has not said yet whether its script is ready has
room to say so, because it says so once and its successor has a new file. The types of
the page need that nothing waits in a closed page (`ClosedOK`) and that pings come one at
a time (`WaitsOK`). `ReadyIsShown` is part of the invariant: a runner says `inited` once, after
it nothing else that is an event, and whatever skips unread lines (a new file, a page that
reconnects) either starts a runner that has said nothing yet or shows ready at once.

**`RunnerLoopProofs`**: `Correct`, `Spec => []Inv` with

    Inv == TimersOK /\ HttpOK /\ CommandsKept /\ ClockOK /\ AnswersOK

* `TimersOK` and `HttpOK` are inductive within `TimerTable` and `HttpTable`; one lemma for
  each operation, used wherever the loop calls it (`TimersStayTrue`,
  `RequestsStayAccounted`). The first says nothing of the timers a full table refused, but that
  they have no slot; the second does not say that curl took every handle.
* `CommandsKept` (`CommandsSurvive`): what the parser has and would still get from the pipe is
  what was written but for one command for each tear, in order. It is about
  `Read(g_inbuf, fifo)`, so a read of any length changes nothing: parsing two halves one after
  the other is parsing the whole (`ReadParts`). What
  a tear costs is paid by the next line, and until then owed (`Owed`).
* `ClockOK` (`IdleEndIsSilent`): the runner has not been idle longer than nothing was written,
  unless a line waits in the pipe; from the read to the look at the clock it is as idle as the
  turn was silent when it began, unless a download took the time (`silent`, `blocked`).
* `AnswersOK` (`AnswersArrive`): a command that was read is in one place, a job, the code that
  runs, what its answer waits for, or the output (`OnePlace`); a ping or a download is
  never anywhere but in a job or the output (`NativeKept`), and the loop
  ends with no job left and everything written (`Ending`).

`Scan` is a recursive function. The library's induction theorems cannot be used here, so
`StepByStep` derives induction over the pieces of a line from the existence of a least
counterexample in a well-founded relation.

**`DownloadFlowProofs`**: `Correct`, and from it `TypeCorrect`, `NothingLeft`,
`ListedComplete` and `ListedAlone`. The invariant says who may still touch a path that is not
in `late`. The runner works only on the path of the download the page waits for
(`Owned`), and the answer the page waits for is the last thing the runner does
(`AnswerIsLast`), so nothing is under way when the page decides. A `.part` belongs to the
download that is waited for (`PartOwned`), a file to it or to the list
(`FileOwned`). No file has two names (`NamesDiffer`), the runner's curl writes to
the `.part` of its song or to a file without a name (`CurlPlace`, `SecondIsFresh`), and a curl
that outlived its runner has no file that will be renamed (`OrphanPlace`), because the runner's
commands were lost with it. What is in the file follows: at least as long as the runner found it
(`LongEnough`), and the first pieces of the recording in their order (`PartIsBeginning`,
`CurlIsAtEnd`, `FileIsBeginning`), hence complete when the size is right. Steps that write
nothing are settled by one lemma (`QuietStep`), those in which the
runner goes on with a transfer by `GoOn` and `GoOnDisk`.

*Only model-checked* are the liveness properties: `RequestIsAnswered`, `LockIsReleased`,
`DeadRunnerIsReplaced`, `InitTimeoutIsReported`, `CommandIsAnswered` and
`DownloadIsDecided`. Liveness under fairness and `ENABLED` are beyond the prover. The five
violations are behaviours that TLC finds.

## What is not modelled

* In `LxPenPlayer`: the cache's files and the numbers of replies (`SongCache`), the
  component being destroyed with the page (there: `Recreated`), texts of errors
  and lyrics, the quality that goes into a link.
* In `SongCache`: two curls on one `.part` (in `DownloadFlow`), a change of quality
  during a download, a host that cannot play (in `LxPenPlayer`). A runner that
  quits by itself is `RunnerKilled` with no job.
* In `RunnerLink`: the byte offset and lines cut by a poll, lines torn in the
  FIFO and the output queue (in `RunnerLoop`), a script file that is missing, and the
  ping that `startRunner` sends while it is still starting, which is always refused. A process
  that dies slowly is only in `StartRunner`: what it might still read or write is left out.
* In `RunnerLoop`: a write error of `out_flush` when `/tmp` is full; at which point of
  a turn promise reactions run relative to each other; the body of a POST request,
  which is given to curl by reference and freed with the call's arguments
  (`CURLOPT_POSTFIELDS` copies nothing), a question of memory and not of steps.
* In `DownloadFlow`: `curl --retry`, the lower limit of 100 KB.
* In `QueueSession`: the page's own `playNext` and `playPrev`, which nothing calls; the
  time a song takes and the misfire windows (in `LxPenPlayer`).
* Not at all: mpv control (the page never passes `--mpv`), natives (conversions
  around libraries), the Windows branch of `penmusic.c`, the data layer
  (stateless), widgets, packaging and tests. QuickJS with its Unicode and number
  tables is vendored; it is most of the repository's C, and nothing here is about it:
  a script is a choice among the calls it can make.

## Plan

The most important behaviour came first: what the user hears (`LxPenPlayer`), what
is played (`SongCache`), what both depend on (`RunnerLink`); then the copies of
the queue (`QueueSession`), the user's downloads (`DownloadFlow`) and the
inside of the runner (`RunnerLoop`, `TimerTable`, `HttpTable`). All modules of the plan exist,
and all safety properties of the runs are proved. What is left:

1. An abstract *cache of whole files* that `SongCache` implements: a song is absent or
   present whole and appears in one step, only what is present is marked, a prune leaves as
   many files as the limit allows. `Inv` and `OrderOK` of `SongCacheProofs` give the steps;
   that a prune leaves so many needs an induction over the order of the files.
2. An abstract *download* that `DownloadFlow` implements: a tap is listed or failed, and but
   for the paths in `late` a file is there only while it is waited for or listed. `FileOwned` and `PartOwned` give the mapping.

## Usage

    tlc -workers 2 -config MCLxPenPlayer.cfg MCLxPenPlayer
    tlapm LxPenPlayerProofs.tla

`PROJECT.json` names the module and the configuration of every run.
