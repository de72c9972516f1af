---------------------------- MODULE DownloadFlow ----------------------------
(***************************************************************************)
(* A song on its way to the user's disk: downloadSong and the list of      *)
(* downloads in src/plugin/qml/main.qml, and do_curl_download, which       *)
(* serves it, in src/runner/penmusic.c.  The page asks for a link and then *)
(* twice at most for the file; each time it waits 320 s, and the runner    *)
(* may take longer: two transfers of 300 s, after what it does for the     *)
(* player.                                                                 *)
(*                                                                         *)
(* A file is an inode: curl writes to the one it opened, whatever names    *)
(* the page and the runner give and take meanwhile, and it survives the    *)
(* runner.  Of the requests at the runner only the last may be one that    *)
(* the page waits for; numbers of requests are RunnerLink's subject.       *)
(***************************************************************************)
EXTENDS Integers, Sequences, FiniteSets, SequencesExt

CONSTANTS
  Songs,     \* what can be downloaded: songs in a quality
  Path,      \* [Songs -> paths]: made of name and singer only
  Declared,  \* songs whose size the platform tells
  Total,     \* pieces of a recording
  ListMax,   \* 50: entries of the list
  MaxTaps,   \* bound: downloads that are begun
  Inodes,    \* bound: files that exist at the same time
  Loads      \* bound: songs that the user wants, and ends of the runner that no
             \* failed link is the reason of

Paths == {Path[s] : s \in Songs}

ASSUME DownloadAssumption ==
  /\ Songs # {} /\ DOMAIN Path = Songs /\ Declared \subseteq Songs /\ 0 \notin Inodes
  /\ {Total, ListMax} \subseteq Nat \ {0} /\ MaxTaps \in Nat
  /\ Loads \subseteq [songs : SUBSET Songs, kills : Nat]

VARIABLES
  \* the page: where downloadSong is, and with which song; the answer it has
  \* not read; the list; the source script
  stage, song, answer, downloads, selectedScript,
  \* the runner: commands it has not read; the download it is at
  up, commands, working,
  \* curl of that download, and those whose runner is gone
  curl, orphans,
  \* the disk
  data, part, file,
  \* history: paths of downloads whose end the page did not wait for; those the
  \* user removed since the last tap; those that fell off the list
  late, removed, cut,
  \* bounds: taps so far, songs that are wanted, ends of the runner that are left
  taps, wanted, kills

pageVars == <<stage, song, answer, downloads, selectedScript>>
runnerVars == <<up, commands, working, curl>>
diskVars == <<data, part, file>>
histVars == <<late, removed, cut, taps, wanted, kills>>
vars == <<pageVars, runnerVars, orphans, diskVars, histVars>>

None == [none |-> TRUE]
Piece(s, i) == <<s, i>>
Whole(s) == [i \in 1..Total |-> Piece(s, i)]
Here == Path[song]
PathsOf(list) == {list[k].path : k \in DOMAIN list}
Listed == PathsOf(downloads)

-----------------------------------------------------------------------------
(* The page.                                                               *)

Forget(c) == [c EXCEPT !.mine = FALSE]
Forgotten == [k \in DOMAIN commands |-> Forget(commands[k])]
WorkForgotten == IF working = None THEN None ELSE Forget(working)

\* rpcSend: with no reader the shell that writes is killed after a second.
Send(what) ==
  /\ commands' = IF up THEN Append(Forgotten, [what |-> what, song |-> song', mine |-> TRUE])
                 ELSE <<>>
  /\ working' = WorkForgotten
  /\ answer' = None

GiveUpWaiting == commands' = Forgotten /\ working' = WorkForgotten /\ answer' = None

\* pkill -9 penmusic: the FIFO has no reader, and curl lives on.
Killed ==
  /\ up' = FALSE /\ commands' = <<>> /\ working' = None /\ curl' = None
  /\ orphans' = IF curl = None THEN orphans ELSE orphans \cup {curl}
KilledInBounds == kills > 0 /\ kills' = kills - 1 /\ Killed

TapDownload(s) ==
  /\ s \in wanted /\ stage = "idle" /\ taps < MaxTaps /\ taps' = taps + 1
  /\ stage' = "link" /\ song' = s /\ removed' = {}
  /\ Send("link")
  /\ UNCHANGED <<downloads, selectedScript, up, curl, orphans, diskVars, late, cut, wanted, kills>>

LinkOk ==
  /\ stage = "link" /\ answer # None /\ answer.ok
  /\ stage' = "first" /\ UNCHANGED song
  /\ Send("download")
  /\ UNCHANGED <<downloads, selectedScript, up, curl, orphans, diskVars, histVars>>

\* Mutant: downloading stays set after the switch, and nothing is awaited.
SwitchesBusy ==
  /\ selectedScript # "default" /\ selectedScript' = "default"
  /\ stage' = "stuck" /\ answer' = None /\ Killed

\* The next attempt is to be made with the default script, in a new runner.
Switches ==
  /\ selectedScript # "default" /\ selectedScript' = "default"
  /\ stage' = "idle" /\ answer' = None /\ Killed

\* No link, for whatever reason, timeout included.
LinkFails ==
  /\ stage = "link"
  /\ \/ Switches
     \/ /\ selectedScript = "default" /\ stage' = "idle"
        /\ GiveUpWaiting /\ UNCHANGED <<selectedScript, up, curl, orphans>>
  /\ UNCHANGED <<song, downloads, diskVars, histVars>>

\* Mutant: the half file is kept to be resumed.
DiscardFileOnly(p) == file' = [file EXCEPT ![p] = 0] /\ UNCHANGED part

\* rm -f path path.part
Discard(p) == file' = [file EXCEPT ![p] = 0] /\ part' = [part EXCEPT ![p] = 0]

FirstFails ==
  /\ stage = "first" /\ stage' = "second" /\ UNCHANGED song
  /\ Discard(Here) /\ Send("download")
  /\ UNCHANGED <<downloads, selectedScript, up, curl, orphans, data, histVars>>

\* Mutant: the last attempt leaves what it has.
SecondFailsDirty(answered) ==
  /\ stage = "second" /\ stage' = "idle"
  /\ GiveUpWaiting
  /\ late' = IF answered THEN late ELSE late \cup {Here}
  /\ UNCHANGED <<song, downloads, selectedScript, up, curl, orphans, diskVars, removed, cut, taps, wanted, kills>>

\* "下载不完整，已放弃".
SecondFails(answered) ==
  /\ stage = "second" /\ stage' = "idle"
  /\ Discard(Here) /\ GiveUpWaiting
  /\ late' = IF answered THEN late ELSE late \cup {Here}
  /\ UNCHANGED <<song, downloads, selectedScript, up, curl, orphans, data, removed, cut, taps, wanted, kills>>

\* The list without the entry for p, if it has one.
Spliced(p) ==
  LET first == CHOOSE k \in DOMAIN downloads :
                 downloads[k].path = p /\ \A i \in 1..(k - 1) : downloads[i].path # p
  IN  IF p \in Listed THEN RemoveAt(downloads, first) ELSE downloads

\* Mutant: the list grows without end.
WithEntryUncut(entry) == <<entry>> \o Spliced(entry.path)

\* addDownload: one entry for a path, the newest first, at most ListMax.
WithEntry(entry) ==
  LET list == <<entry>> \o Spliced(entry.path)
  IN  SubSeq(list, 1, IF Len(list) > ListMax THEN ListMax ELSE Len(list))

\* What the page makes of the size; sizes under 100 KB are left out.
PageAccepts(size) == song \in Declared => size >= Total

Success == answer # None /\ answer.ok /\ PageAccepts(answer.size)

AddDownload ==
  /\ stage \in {"first", "second"} /\ stage' = "idle"
  /\ Success
  /\ downloads' = WithEntry([path |-> Here, size |-> answer.size])
  /\ cut' = (cut \cup Listed) \ PathsOf(downloads')
  /\ GiveUpWaiting
  /\ late' = IF orphans = {} THEN late \ {Here} ELSE late
  /\ UNCHANGED <<song, selectedScript, up, curl, orphans, diskVars, removed, taps, wanted, kills>>

\* The answer, or the end of the wait for it.
Answered ==
  \/ AddDownload
  \/ answer # None /\ ~Success /\ (FirstFails \/ SecondFails(TRUE))
  \/ LinkOk
  \/ answer # None /\ ~answer.ok /\ LinkFails
TimesOut == LinkFails \/ FirstFails \/ SecondFails(FALSE)

\* The user's delete button, or playDownload that does not find the file.
RemoveDownload(p) ==
  /\ p \in Listed
  /\ downloads' = Spliced(p)
  /\ file' = [file EXCEPT ![p] = 0]
  /\ removed' = removed \cup {p}
  /\ UNCHANGED <<stage, song, answer, selectedScript, runnerVars, orphans, data, part, late, cut, taps, wanted, kills>>

\* Any other script in the settings: "other" stands for all but the default.
SelectScript ==
  /\ selectedScript' \in {"default", "other"}
  /\ selectedScript = "default" => selectedScript' = "other"
  /\ KilledInBounds
  /\ UNCHANGED <<stage, song, answer, downloads, diskVars, late, removed, cut, taps, wanted>>

\* The page is closed and opened again, and reads on from the end of the
\* output file.  It takes the runner along if the host is not playing.
Reopen ==
  /\ stage # "idle" /\ stage' = "idle"
  /\ late' = late \cup {Here}
  /\ answer' = None
  /\ \/ commands' = Forgotten /\ working' = WorkForgotten /\ UNCHANGED <<up, curl, orphans, kills>>
     \/ KilledInBounds
  /\ UNCHANGED <<song, downloads, selectedScript, diskVars, removed, cut, taps, wanted>>

\* Any other end of the runner.
RunnerDies ==
  /\ up /\ KilledInBounds
  /\ UNCHANGED <<pageVars, diskVars, late, removed, cut, taps, wanted>>

\* startFreshRunner, of restartRunner or of the watchdog.
StartFreshRunner ==
  /\ ~up /\ up' = TRUE
  /\ answer' = None
  /\ UNCHANGED <<stage, song, downloads, selectedScript, commands, working, curl, orphans, diskVars, histVars>>

-----------------------------------------------------------------------------
(* The runner.                                                             *)

Respond(mine, ok, size) ==
  answer' = IF mine THEN [ok |-> ok, size |-> size] ELSE answer

LinkRuns ==
  /\ up /\ working = None /\ commands # <<>> /\ Head(commands).what = "link"
  /\ commands' = Tail(commands)
  /\ \E ok \in BOOLEAN : Respond(Head(commands).mine, ok, 0)
  /\ UNCHANGED <<stage, song, downloads, selectedScript, up, working, curl, orphans, diskVars, histVars>>

SizeOf(name) == IF name = 0 THEN 0 ELSE Len(data[name])
There == Path[working.song]

\* do_curl_download and the first attempt of it, with resume: off_before.
DownloadBegins ==
  /\ up /\ working = None /\ commands # <<>> /\ Head(commands).what = "download"
  /\ commands' = Tail(commands)
  /\ working' = [song |-> Head(commands).song, mine |-> Head(commands).mine, attempt |-> 1,
                 at |-> "curl", off |-> SizeOf(part[Path[Head(commands).song]]), size |-> 0]
  /\ UNCHANGED <<pageVars, up, curl, orphans, diskVars, histVars>>

\* Files that have a name, or that an orphan writes to.
InUse == (UNION {{part[p], file[p]} : p \in Paths}) \cup {c.file : c \in orphans}
Free == CHOOSE i \in Inodes \ InUse : TRUE

\* curl opens the .part: at its end if it is to resume, empty if not.
CurlOpens ==
  /\ working # None /\ working.at = "curl" /\ curl = None
  /\ part[There] = 0 => Inodes \ InUse # {}
  /\ LET resumes == working.attempt = 1 /\ part[There] # 0
         f == IF part[There] # 0 THEN part[There] ELSE Free
     IN  /\ part' = [part EXCEPT ![There] = f]
         /\ data' = IF resumes THEN data ELSE [data EXCEPT ![f] = <<>>]
         /\ curl' = [file |-> f, song |-> working.song, appends |-> working.attempt = 1,
                     from |-> IF resumes THEN Len(data[f]) ELSE 0, got |-> 0]
  /\ UNCHANGED <<pageVars, up, commands, working, orphans, file, histVars>>

\* The next piece, at the end of the file or at curl's own place in it.
Written(c) ==
  LET next == c.from + c.got + 1 IN
    IF c.appends \/ next > Len(data[c.file]) THEN Append(data[c.file], Piece(c.song, next))
    ELSE [data[c.file] EXCEPT ![next] = Piece(c.song, next)]
CanFetch(c) == c.from + c.got < Total
Fetched(c) == [c EXCEPT !.got = @ + 1]

CurlFetches ==
  /\ curl # None /\ CanFetch(curl)
  /\ data' = [data EXCEPT ![curl.file] = Written(curl)]
  /\ curl' = Fetched(curl)
  /\ UNCHANGED <<pageVars, up, commands, working, orphans, part, file, histVars>>

OrphanFetches(c) ==
  /\ CanFetch(c)
  /\ data' = [data EXCEPT ![c.file] = Written(c)]
  /\ orphans' = (orphans \ {c}) \cup {Fetched(c)}
  /\ UNCHANGED <<pageVars, runnerVars, part, file, histVars>>

OrphanEnds(c) ==
  /\ orphans' = orphans \ {c}
  /\ UNCHANGED <<pageVars, runnerVars, diskVars, histVars>>

\* The second attempt begins with nothing.
NextAttempt ==
  /\ working.attempt = 1
  /\ working' = [working EXCEPT !.attempt = 2, !.at = "curl", !.off = 0]
  /\ part' = [part EXCEPT ![There] = 0] /\ UNCHANGED answer
Fails ==
  \/ NextAttempt
  \/ /\ working.attempt = 2 /\ working' = None /\ UNCHANGED part
     /\ Respond(working.mine, FALSE, 0)

\* curl has ended.  That it says 0 means that there was a body, and not that
\* it was whole: a server may not tell a length, and the file with the code
\* is shared with curls whose runner is gone.  stat then compares.
CurlEnds ==
  /\ curl # None /\ curl' = None
  /\ LET whole == part[There] # 0 /\ SizeOf(part[There]) = working.off + curl.got IN
       \/ /\ curl.got > 0 /\ whole
          /\ working' = [working EXCEPT !.at = "rename", !.size = SizeOf(part[There])]
          /\ UNCHANGED <<answer, part>>
       \/ Fails
  /\ UNCHANGED <<stage, song, downloads, selectedScript, up, commands, orphans, data, file, histVars>>

Rename ==
  /\ working # None /\ working.at = "rename"
  /\ IF part[There] = 0 THEN Fails /\ UNCHANGED file
     ELSE /\ file' = [file EXCEPT ![There] = part[There]] /\ part' = [part EXCEPT ![There] = 0]
          /\ working' = [working EXCEPT !.at = "answer"] /\ UNCHANGED answer
  /\ UNCHANGED <<stage, song, downloads, selectedScript, up, commands, curl, orphans, data, histVars>>

\* What handleDownload makes of the size, with 5 % tolerance.
RunnerAccepts(s, size) == s \in Declared => size >= Total

DownloadAnswers ==
  /\ working # None /\ working.at = "answer" /\ working' = None
  /\ Respond(working.mine, RunnerAccepts(working.song, working.size), working.size)
  /\ UNCHANGED <<stage, song, downloads, selectedScript, up, commands, curl, orphans, diskVars, histVars>>

-----------------------------------------------------------------------------
Init ==
  /\ stage = "idle" /\ song = (CHOOSE s \in Songs : TRUE) /\ answer = None /\ downloads = <<>>
  /\ selectedScript \in {"default", "other"}
  /\ up = TRUE /\ commands = <<>> /\ working = None /\ curl = None /\ orphans = {}
  /\ data = [i \in Inodes |-> <<>>]
  /\ part = [p \in Paths |-> 0] /\ file = [p \in Paths |-> 0]
  /\ late = {} /\ removed = {} /\ cut = {} /\ taps = 0
  /\ \E load \in Loads : wanted = load.songs /\ kills = load.kills

Page ==
  \/ \E s \in Songs : TapDownload(s)
  \/ Answered \/ TimesOut \/ Reopen \/ SelectScript \/ StartFreshRunner
  \/ \E p \in Paths : RemoveDownload(p)
Runner ==
  LinkRuns \/ DownloadBegins \/ CurlOpens \/ CurlFetches \/ CurlEnds \/ Rename \/ DownloadAnswers
Orphans == \E c \in orphans : OrphanFetches(c) \/ OrphanEnds(c)
Next == Page \/ Runner \/ Orphans \/ RunnerDies

Spec == Init /\ [][Next]_vars

\* The page's timers fire.
Fairness == WF_vars(TimesOut)
FairSpec == Spec /\ Fairness

-----------------------------------------------------------------------------
\* A .part that two curls wrote to may be longer than a recording.
Processes == [file : Inodes, song : Songs, appends : BOOLEAN, from : Nat, got : Nat]

TypeOK ==
  /\ stage \in {"idle", "link", "first", "second"} /\ song \in Songs
  /\ answer \in {None} \cup [ok : BOOLEAN, size : Nat]
  /\ downloads \in Seq([path : Paths, size : Nat]) /\ Len(downloads) <= ListMax
  /\ Cardinality(Listed) = Len(downloads)
  /\ selectedScript \in {"default", "other"} /\ up \in BOOLEAN
  /\ commands \in Seq([what : {"link", "download"}, song : Songs, mine : BOOLEAN])
  /\ working \in {None} \cup [song : Songs, mine : BOOLEAN, attempt : 1..2,
                               at : {"curl", "rename", "answer"}, off : Nat, size : Nat]
  /\ curl \in {None} \cup Processes /\ orphans \subseteq Processes
  /\ (curl # None => working # None) /\ (working # None => up) /\ (commands # <<>> => up)
  /\ \A i \in Inodes : data[i] \in Seq(Songs \X (1..Total))
  /\ {part, file} \subseteq [Paths -> {0} \cup Inodes]
  /\ {late, removed, cut} \subseteq SUBSET Paths
  /\ taps \in 0..MaxTaps /\ wanted \subseteq Songs /\ kills \in Nat

Rest == stage = "idle"
Content(p) == data[file[p]]

\* Where the page waited for the end, it left nothing that is not in the list:
\* no half file, and no whole one but those that fell off the list.
NothingLeftBehind ==
  Rest => \A p \in Paths \ late :
            part[p] = 0 /\ (file[p] # 0 => p \in Listed \cup cut)

\* "只有大小对得上才算下载完成": what is put in the list is on the disk, as long
\* as was declared, unless the user removed it meanwhile; and it is that
\* recording, unless the page did not wait for an earlier one to end.
ListedIsComplete ==
  [][\A s \in Declared :
       AddDownload /\ song = s /\ Here \notin removed =>
         /\ file[Here] # 0 /\ Len(Content(Here)) >= Total
         /\ Here \notin late => Content(Here) = Whole(s)]_vars

\* What is in the list is altered by nobody but the user and the download of the
\* same file that the user began: neither by what a runner still does for
\* an attempt that failed nor by a curl that outlived its runner.
ListedIsLeftAlone ==
  [][\A p \in Listed \ late :
       Rest \/ p # Here =>
         \/ file'[p] = file[p] /\ (file[p] # 0 => data'[file[p]] = data[file[p]])
         \/ RemoveDownload(p)]_vars

\* A tap leads to an end, and the next one is not refused for ever.
DownloadIsDecided == stage # "idle" ~> stage = "idle"
=============================================================================
