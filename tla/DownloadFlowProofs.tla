------------------------- MODULE DownloadFlowProofs -------------------------
(***************************************************************************)
(* What DownloadFlow promises of the user's disk, for any songs, paths,    *)
(* sizes, lists, taps, ends of the runner and numbers of files: a download *)
(* that failed leaves nothing, one that is listed is complete, and what is *)
(* listed is altered by nobody else.                                       *)
(*                                                                         *)
(* All three rest on who may still touch a path.  The runner works on the  *)
(* path of the download the page waits for, or on one whose end the page   *)
(* did not wait for (Owned); the answer the page waits for is the last     *)
(* thing the runner does (AnswerIsLast); and a curl that outlived its      *)
(* runner has an inode that nobody renames into the place of a listed file *)
(* (OrphanPlace), because all commands were lost with the runner.          *)
(***************************************************************************)
EXTENDS DownloadFlow, FiniteSetTheorems, SequenceTheorems, TLAPS

Answers == [ok : BOOLEAN, size : Nat]
Entries == [path : Paths, size : Nat]
Commands == [what : {"link", "download"}, song : Songs, mine : BOOLEAN]
Works == [song : Songs, mine : BOOLEAN, attempt : 1..2,
          at : {"curl", "rename", "answer"}, off : Nat, size : Nat]

-----------------------------------------------------------------------------
(* The invariant.                                                          *)

PageOK ==
  /\ stage \in {"idle", "link", "first", "second"} /\ song \in Songs
  /\ answer \in {None} \cup Answers
  /\ selectedScript \in {"default", "other"}

ListOK ==
  /\ downloads \in Seq(Entries) /\ Len(downloads) <= ListMax
  /\ \A i, k \in DOMAIN downloads : downloads[i].path = downloads[k].path => i = k

RunnerOK ==
  /\ up \in BOOLEAN /\ commands \in Seq(Commands) /\ working \in {None} \cup Works
  /\ (working # None => up) /\ (commands # <<>> => up)

CurlOK == curl \in {None} \cup Processes /\ orphans \subseteq Processes

DiskOK ==
  /\ \A i \in Inodes : data[i] \in Seq(Songs \X (1..Total))
  /\ DOMAIN data = Inodes
  /\ part \in [Paths -> {0} \cup Inodes] /\ file \in [Paths -> {0} \cup Inodes]

HistOK ==
  /\ late \subseteq Paths /\ removed \subseteq Paths /\ cut \subseteq Paths
  /\ taps \in 0..MaxTaps /\ wanted \subseteq Songs /\ kills \in Nat

Typed == PageOK /\ ListOK /\ RunnerOK /\ CurlOK /\ DiskOK /\ HistOK

\* The page waits for a file, and for one with this path.
Active == stage \in {"first", "second"}
Current(p) == Active /\ p = Here

\* The songs that the runner fetches or has been told to fetch.
SongsOf(cs, w) ==
  {cs[k].song : k \in {k \in DOMAIN cs : cs[k].what = "download"}}
    \cup (IF w = None THEN {} ELSE {w.song})
WorkSongs == SongsOf(commands, working)
AtWork(p) == \E s \in WorkSongs : Path[s] = p

\* What the page waits for is the last thing that the runner has been told, and
\* the page is where it expects it.
AnswerIsLast ==
  /\ \A k \in DOMAIN commands :
       commands[k].mine =>
         /\ k = Len(commands)
         /\ IF commands[k].what = "link" THEN stage = "link" ELSE Active /\ commands[k].song = song
  /\ working # None /\ working.mine =>
       commands = <<>> /\ Active /\ working.song = song
  /\ answer # None => commands = <<>> /\ working = None

Owned == \A s \in WorkSongs : Path[s] \in late \/ (Active /\ s = song)

PartOwned == \A p \in Paths \ late : part[p] # 0 => Current(p)

FileOwned == \A p \in Paths \ late : file[p] # 0 => Current(p) \/ p \in Listed \cup cut

\* When the runner answers that it has the file, there is no .part.
PartIsGone ==
  /\ working # None /\ working.at = "answer" => part[There] = 0
  /\ Active /\ answer # None /\ answer.ok => part[Here] = 0

\* A file has one name.
NamesDiffer ==
  /\ \A p, q \in Paths : part[p] # 0 /\ part[p] = part[q] => p = q
  /\ \A p, q \in Paths : file[p] # 0 /\ file[p] = file[q] => p = q
  /\ \A p, q \in Paths : part[p] # 0 => part[p] # file[q]

\* curl writes to the .part of the runner's song, or to a file without a name.
CurlPlace ==
  curl # None =>
    /\ working # None /\ working.at = "curl" /\ curl.song = working.song
    /\ \A p \in Paths : file[p] # curl.file
    /\ \A p \in Paths : part[p] # 0 => (part[p] = curl.file <=> p = There)

SecondIsFresh ==
  working # None /\ working.at = "curl" /\ working.attempt = 2 /\ curl = None => part[There] = 0

OrphanPlace ==
  \A c \in orphans : \A p \in Paths \ late :
    file[p] # c.file /\ (part[p] = c.file => ~AtWork(p))

\* A file does not become shorter than the runner found it.
FileHas(size) == file[Here] # 0 /\ Len(data[file[Here]]) >= size
LongEnough ==
  /\ working # None /\ working.at = "rename" /\ part[There] # 0 =>
       Len(data[part[There]]) >= working.size
  /\ working # None /\ working.at = "answer" /\ working.mine /\ Here \notin removed =>
       FileHas(working.size)
  /\ Active /\ answer # None /\ answer.ok /\ Here \notin removed => FileHas(answer.size)

\* The first pieces of the recording, in their order.
Begins(d, s) == Len(d) <= Total /\ \A i \in 1..Len(d) : d[i] = Piece(s, i)

PartIsBeginning ==
  \A p \in Paths \ late : AtWork(p) /\ part[p] # 0 => Begins(data[part[p]], song)
CurlIsAtEnd ==
  curl # None /\ There \notin late /\ part[There] # 0 => curl.from + curl.got = Len(data[curl.file])
FileIsBeginning ==
  /\ working # None /\ working.at = "answer" /\ working.mine /\ Here \notin late /\ file[Here] # 0 =>
       Begins(data[file[Here]], song)
  /\ Active /\ answer # None /\ answer.ok /\ Here \notin late /\ file[Here] # 0 =>
       Begins(data[file[Here]], song)

Inv ==
  /\ Typed
  /\ AnswerIsLast /\ Owned
  /\ PartOwned /\ FileOwned /\ PartIsGone
  /\ NamesDiffer /\ CurlPlace /\ SecondIsFresh /\ OrphanPlace
  /\ LongEnough
  /\ PartIsBeginning /\ CurlIsAtEnd /\ FileIsBeginning

-----------------------------------------------------------------------------
(* Lemmas about the operators.                                             *)

LEMMA Sizes == Total \in Nat \ {0} /\ ListMax \in Nat \ {0} /\ MaxTaps \in Nat
BY DownloadAssumption

LEMMA NotNone ==
  /\ \A w \in Works : w # None
  /\ \A a \in Answers : a # None
  /\ \A c \in Processes : c # None
  /\ \A w \in {None} \cup Works : w # None => w \in Works
  /\ \A a \in {None} \cup Answers : a # None => a \in Answers
  /\ \A c \in {None} \cup Processes : c # None => c \in Processes
<1>1. \A w \in Works : w # None
  BY DEF Works, None
<1>2. \A a \in Answers : a # None
  BY DEF Answers, None
<1>3. \A c \in Processes : c # None
  BY DEF Processes, None
<1> QED BY <1>1, <1>2, <1>3

LEMMA PathIsPath == \A s \in Songs : Path[s] \in Paths
BY DEF Paths

\* A forgotten command is the same, but for the page that waits for it.
LEMMA ForgetCommand ==
  ASSUME NEW c \in Commands
  PROVE  /\ Forget(c) \in Commands /\ Forget(c).mine = FALSE
         /\ Forget(c).what = c.what /\ Forget(c).song = c.song
BY DEF Forget, Commands

LEMMA ForgetWork ==
  ASSUME NEW w \in Works
  PROVE  /\ Forget(w) \in Works /\ Forget(w).mine = FALSE
         /\ Forget(w).song = w.song /\ Forget(w).at = w.at /\ Forget(w).attempt = w.attempt
         /\ Forget(w).off = w.off /\ Forget(w).size = w.size
BY DEF Forget, Works

\* w is the work of the runner, or what is left of it when it is forgotten.
SameWork(w) ==
  /\ w \in Works /\ working \in Works
  /\ w.song = working.song /\ w.at = working.at /\ w.attempt = working.attempt
  /\ w.off = working.off /\ w.size = working.size
  /\ w.mine => working.mine

LEMMA ForgottenWork ==
  ASSUME RunnerOK
  PROVE  /\ WorkForgotten \in {None} \cup Works
         /\ WorkForgotten = None <=> working = None
         /\ working # None => SameWork(WorkForgotten) /\ WorkForgotten.mine = FALSE
<1>1. CASE working = None
  BY <1>1 DEF WorkForgotten
<1>2. CASE working # None
  <2>1. working \in Works
    BY <1>2 DEF RunnerOK
  <2>2. WorkForgotten = Forget(working)
    BY <1>2 DEF WorkForgotten
  <2> QED BY <1>2, <2>1, <2>2, ForgetWork, NotNone DEF SameWork
<1> QED BY <1>1, <1>2

LEMMA SameUpper ==
  ASSUME NEW m \in Nat, NEW n \in Nat, 1..m = 1..n
  PROVE  m = n
<1>1. m < n => n \in 1..n /\ n \notin 1..m
  OBVIOUS
<1>2. n < m => m \in 1..m /\ m \notin 1..n
  OBVIOUS
<1> QED BY <1>1, <1>2

LEMMA ForgottenCommands ==
  ASSUME RunnerOK
  PROVE  /\ Forgotten \in Seq(Commands) /\ Len(Forgotten) = Len(commands)
         /\ DOMAIN Forgotten = DOMAIN commands
         /\ \A k \in DOMAIN commands :
              /\ Forgotten[k].mine = FALSE
              /\ Forgotten[k].what = commands[k].what /\ Forgotten[k].song = commands[k].song
<1>1. commands \in Seq(Commands) /\ DOMAIN commands = 1..Len(commands) /\ Len(commands) \in Nat
  BY DEF RunnerOK
<1>2. \A k \in 1..Len(commands) : commands[k] \in Commands
  BY <1>1
<1>3. Forgotten = [k \in 1..Len(commands) |-> Forget(commands[k])]
  BY <1>1 DEF Forgotten
<1>4. \A k \in 1..Len(commands) : Forgotten[k] = Forget(commands[k])
  BY <1>3
<1>5. \A k \in 1..Len(commands) : Forgotten[k] \in Commands
  BY <1>4, <1>2, ForgetCommand
<1>6. Forgotten \in Seq(Commands) /\ Len(Forgotten) = Len(commands) /\ DOMAIN Forgotten = 1..Len(commands)
  <2>1. Forgotten \in [1..Len(commands) -> Commands]
    BY <1>3, <1>4, <1>5
  <2>2. Forgotten \in Seq(Commands)
    BY <2>1, <1>1, SeqDef
  <2>3. DOMAIN Forgotten = 1..Len(commands)
    BY <2>1
  <2> HIDE DEF Forgotten
  <2>4. Len(Forgotten) \in Nat /\ DOMAIN Forgotten = 1..Len(Forgotten)
    BY <2>2, LenProperties
  <2>5. Len(Forgotten) = Len(commands)
    BY <2>3, <2>4, <1>1, SameUpper
  <2> QED BY <2>2, <2>3, <2>5
<1>7. \A k \in 1..Len(commands) :
         /\ Forgotten[k].mine = FALSE
         /\ Forgotten[k].what = commands[k].what /\ Forgotten[k].song = commands[k].song
  <2> TAKE k \in 1..Len(commands)
  <2>1. commands[k] \in Commands /\ Forgotten[k] = Forget(commands[k])
    BY <1>2, <1>4
  <2> DEFINE c == commands[k]
  <2>2. c \in Commands /\ Forgotten[k] = Forget(c)
    BY <2>1
  <2> HIDE DEF c
  <2>3. Forget(c).mine = FALSE /\ Forget(c).what = c.what /\ Forget(c).song = c.song
    BY <2>2, ForgetCommand
  <2> QED BY <2>2, <2>3 DEF c
<1> HIDE DEF Forgotten
<1> QED BY <1>1, <1>6, <1>7

LEMMA SameSongs ==
  ASSUME RunnerOK
  PROVE  SongsOf(Forgotten, WorkForgotten) = WorkSongs
<1>1. {Forgotten[k].song : k \in {k \in DOMAIN Forgotten : Forgotten[k].what = "download"}}
      = {commands[k].song : k \in {k \in DOMAIN commands : commands[k].what = "download"}}
  BY ForgottenCommands
<1>2. (IF WorkForgotten = None THEN {} ELSE {WorkForgotten.song})
      = (IF working = None THEN {} ELSE {working.song})
  BY ForgottenWork DEF SameWork
<1> QED BY <1>1, <1>2 DEF SongsOf, WorkSongs

LEMMA NoSongs == SongsOf(<<>>, None) = {}
BY DEF SongsOf

LEMMA SongsAreSongs ==
  ASSUME RunnerOK
  PROVE  WorkSongs \subseteq Songs
<1>1. \A k \in DOMAIN commands : commands[k] \in Commands
  BY DEF RunnerOK
<1>2. \A k \in DOMAIN commands : commands[k].song \in Songs
  BY <1>1 DEF Commands
<1>3. working # None => working.song \in Songs
  BY DEF RunnerOK, Works
<1> QED BY <1>2, <1>3 DEF WorkSongs, SongsOf

\* The song of the work is one of them.
LEMMA ThereIsAtWork ==
  ASSUME RunnerOK, working # None
  PROVE  /\ working \in Works /\ working.song \in WorkSongs /\ working.song \in Songs
         /\ There \in Paths /\ AtWork(There)
<1>1. working \in Works
  BY DEF RunnerOK
<1>2. working.song \in WorkSongs
  BY DEF WorkSongs, SongsOf
<1>3. working.song \in Songs
  BY <1>1 DEF Works
<1> QED BY <1>1, <1>2, <1>3, PathIsPath DEF There, AtWork

\* What a new command adds.
LEMMA SendFacts ==
  ASSUME Typed, NEW what \in {"link", "download"}, song' \in Songs, Send(what)
  PROVE  /\ commands' \in Seq(Commands) /\ (commands' # <<>> => up)
         /\ working' = WorkForgotten /\ answer' = None
         /\ \A k \in DOMAIN commands' :
              commands'[k].mine =>
                k = Len(commands') /\ commands'[k].what = what /\ commands'[k].song = song'
         /\ WorkSongs' \subseteq WorkSongs \cup (IF what = "download" THEN {song'} ELSE {})
<1> DEFINE new == [what |-> what, song |-> song', mine |-> TRUE]
<1>0. RunnerOK
  BY DEF Typed
<1>1. new \in Commands /\ new.what = what /\ new.song = song'
  BY DEF Commands
<1>2. working' = WorkForgotten /\ answer' = None
  BY DEF Send
<1>3. CASE ~up
  <2>1. commands' = <<>> /\ DOMAIN commands' = {}
    BY <1>3 DEF Send
  <2>2. WorkSongs' \subseteq WorkSongs
    BY <2>1, <1>2, <1>0, <1>3, ForgottenWork DEF RunnerOK, WorkSongs, SongsOf
  <2> QED BY <2>1, <2>2, <1>2
<1>4. CASE up
  <2>1. commands' = Append(Forgotten, new)
    BY <1>4 DEF Send
  <2> HIDE DEF new
  <2>2. /\ commands' \in Seq(Commands) /\ Len(commands') = Len(commands) + 1
        /\ DOMAIN commands' = 1..(Len(commands) + 1) /\ DOMAIN Forgotten = 1..Len(commands)
        /\ commands'[Len(commands) + 1] = new
        /\ \A k \in 1..Len(commands) : commands'[k] = Forgotten[k]
    <3>1. Forgotten \in Seq(Commands) /\ Len(Forgotten) = Len(commands) /\ Len(commands) \in Nat
          /\ DOMAIN Forgotten = DOMAIN commands /\ DOMAIN commands = 1..Len(commands)
      <4>1. commands \in Seq(Commands)
        BY <1>0 DEF RunnerOK
      <4>2. Len(commands) \in Nat /\ DOMAIN commands = 1..Len(commands)
        BY <4>1, LenProperties
      <4> QED BY <4>2, <1>0, ForgottenCommands
    <3> HIDE DEF Forgotten
    <3> QED BY <3>1, <2>1, <1>1, AppendProperties
  <2>3. \A k \in 1..Len(commands) : commands'[k].mine = FALSE
    BY <2>2, <1>0, ForgottenCommands
  <2>4. Len(commands) \in Nat
    BY <1>0 DEF RunnerOK
  <2>5. \A k \in DOMAIN commands' : k \in 1..Len(commands) \/ k = Len(commands')
    BY <2>2, <2>4
  <2>6. \A k \in DOMAIN commands' :
              commands'[k].mine =>
                k = Len(commands') /\ commands'[k].what = what /\ commands'[k].song = song'
    BY <2>2, <2>3, <2>5, <1>1
  <2>7. ASSUME NEW s \in WorkSongs'
        PROVE  s \in WorkSongs \cup (IF what = "download" THEN {song'} ELSE {})
    <3>1. CASE \E k \in DOMAIN commands' : commands'[k].what = "download" /\ s = commands'[k].song
      <4>1. PICK k \in DOMAIN commands' : commands'[k].what = "download" /\ s = commands'[k].song
        BY <3>1
      <4>2. CASE k \in 1..Len(commands)
        <5>1. Forgotten[k].what = "download" /\ s = Forgotten[k].song
          BY <4>1, <4>2, <2>2
        <5>2. s \in SongsOf(Forgotten, WorkForgotten)
          BY <5>1, <4>2, <2>2 DEF SongsOf
        <5> QED BY <5>2, <1>0, SameSongs
      <4>3. CASE k = Len(commands')
        BY <4>1, <4>3, <2>2, <1>1
      <4> QED BY <4>2, <4>3, <2>5
    <3>2. CASE working' # None /\ s = working'.song
      BY <3>2, <1>2, <1>0, ForgottenWork DEF SameWork, WorkSongs, SongsOf
    <3> QED BY <3>1, <3>2, <2>7 DEF WorkSongs, SongsOf
  <2> QED BY <2>2, <2>6, <2>7, <1>2, <1>4
<1> QED BY <1>3, <1>4

LEMMA GiveUpFacts ==
  ASSUME Typed, GiveUpWaiting
  PROVE  /\ commands' \in Seq(Commands) /\ (commands' # <<>> => up)
         /\ working' = WorkForgotten /\ answer' = None
         /\ \A k \in DOMAIN commands' : commands'[k].mine = FALSE
         /\ WorkSongs' = WorkSongs
<1>1. RunnerOK /\ commands' = Forgotten /\ working' = WorkForgotten /\ answer' = None
  BY DEF Typed, GiveUpWaiting
<1>2. commands' \in Seq(Commands) /\ Len(commands') = Len(commands) /\ commands \in Seq(Commands)
  BY <1>1, ForgottenCommands DEF RunnerOK
<1>3. \A k \in DOMAIN commands' : commands'[k].mine = FALSE
  BY <1>1, ForgottenCommands
<1>4. commands' # <<>> => commands # <<>>
  BY <1>2, EmptySeq
<1>5. WorkSongs' = WorkSongs
  BY <1>1, SameSongs DEF WorkSongs
<1> QED BY <1>1, <1>2, <1>3, <1>4, <1>5 DEF RunnerOK

LEMMA KilledFacts ==
  ASSUME Killed
  PROVE  /\ up' = FALSE /\ commands' = <<>> /\ working' = None /\ curl' = None
         /\ WorkSongs' = {}
         /\ \A c \in orphans' : c \in orphans \/ (curl # None /\ c = curl)
BY NoSongs DEF Killed, WorkSongs

LEMMA TailFacts ==
  ASSUME RunnerOK, commands # <<>>, commands' = Tail(commands)
  PROVE  /\ Head(commands) \in Commands /\ Head(commands) = commands[1]
         /\ commands' \in Seq(Commands)
         /\ Len(commands) \in Nat /\ Len(commands) >= 1 /\ Len(commands') = Len(commands) - 1
         /\ 1 \in DOMAIN commands
         /\ \A k \in DOMAIN commands' : k + 1 \in DOMAIN commands /\ commands'[k] = commands[k + 1]
<1>1. commands \in Seq(Commands)
  BY DEF RunnerOK
<1> QED BY <1>1, HeadTailProperties, LenProperties, EmptySeq

-----------------------------------------------------------------------------
(* Steps that do not write: the disk loses names at most, and the runner   *)
(* goes on with what it was at, forgotten or not, or is gone.              *)

DiskQuiet ==
  /\ data' = data /\ DiskOK'
  /\ \A p \in Paths : part'[p] \in {0, part[p]} /\ file'[p] \in {0, file[p]}
WorkQuiet ==
  /\ working' # None => working # None /\ SameWork(working')
  /\ curl' # None => curl' = curl /\ working' # None
  /\ curl' = None => curl = None \/ working' = None
OrphansQuiet ==
  \A c \in orphans' : c \in orphans \/ (curl # None /\ c = curl /\ WorkSongs' = {})
NothingNew ==
  \A p \in Paths \ late' : AtWork(p)' => p \notin late /\ (part'[p] = 0 \/ (AtWork(p) /\ song' = song))
LateQuiet == \A p \in Paths \ late' : p \notin late \/ orphans' = {}
AnswerQuiet ==
  \/ /\ answer' = None \/ ~Active'
     /\ working' = None \/ ~working'.mine
  \/ /\ UNCHANGED <<answer, stage, song>> /\ removed \subseteq removed' /\ late \subseteq late'
     /\ file'[Here] = file[Here] \/ Here \in removed'

Quiet == DiskQuiet /\ WorkQuiet /\ OrphansQuiet /\ NothingNew /\ LateQuiet /\ AnswerQuiet

LEMMA DiskFacts ==
  ASSUME Typed
  PROVE  /\ song \in Songs /\ Here \in Paths
         /\ \A p \in Paths : part[p] \in {0} \cup Inodes /\ file[p] \in {0} \cup Inodes
         /\ 0 \notin Inodes
         /\ \A i \in Inodes : data[i] \in Seq(Songs \X (1..Total)) /\ Len(data[i]) \in Nat
         /\ \A c \in orphans : c.file \in Inodes
         /\ curl # None => curl \in Processes /\ curl.file \in Inodes
<1>1. \A c \in Processes : c.file \in Inodes
  BY DEF Processes
<1>2. \A i \in Inodes : data[i] \in Seq(Songs \X (1..Total))
  BY DEF Typed, DiskOK
<1>3. \A i \in Inodes : Len(data[i]) \in Nat
  BY <1>2, LenProperties
<1>4. song \in Songs /\ Here \in Paths
  BY PathIsPath DEF Typed, PageOK, Here
<1>5. \A p \in Paths : part[p] \in {0} \cup Inodes /\ file[p] \in {0} \cup Inodes
  BY DEF Typed, DiskOK
<1>6. 0 \notin Inodes
  BY DownloadAssumption
<1>7. \A c \in orphans : c.file \in Inodes
  BY <1>1 DEF Typed, CurlOK
<1>8. curl # None => curl \in Processes /\ curl.file \in Inodes
  BY <1>1 DEF Typed, CurlOK
<1> QED BY <1>2, <1>3, <1>4, <1>5, <1>6, <1>7, <1>8

LEMMA SameThere ==
  ASSUME NEW w, SameWork(w), working' = w
  PROVE  There' = There
BY DEF SameWork, There

LEMMA ThereIsPath ==
  ASSUME RunnerOK, working # None
  PROVE  There \in Paths /\ AtWork(There)
BY ThereIsAtWork

LEMMA QuietStep ==
  ASSUME Inv, Quiet, RunnerOK'
  PROVE  /\ PartIsGone' /\ NamesDiffer' /\ CurlPlace' /\ SecondIsFresh' /\ OrphanPlace'
         /\ LongEnough' /\ PartIsBeginning' /\ CurlIsAtEnd' /\ FileIsBeginning'
<1>0. Typed /\ RunnerOK
  BY DEF Inv, Typed
<1>d. /\ Here \in Paths
      /\ \A p \in Paths : part[p] \in {0} \cup Inodes /\ file[p] \in {0} \cup Inodes
      /\ 0 \notin Inodes
      /\ \A c \in orphans : c.file \in Inodes
      /\ curl # None => curl.file \in Inodes
  BY <1>0, DiskFacts
<1>q. /\ data' = data
      /\ \A p \in Paths : part'[p] \in {0, part[p]} /\ file'[p] \in {0, file[p]}
  BY DEF Quiet, DiskQuiet
<1>w. working' # None =>
        /\ working # None /\ There' = There /\ There \in Paths /\ AtWork(There) /\ AtWork(There)'
        /\ working'.song = working.song /\ working'.at = working.at
        /\ working'.attempt = working.attempt /\ working'.size = working.size
        /\ (working'.mine => working.mine)
  <2> SUFFICES ASSUME working' # None
               PROVE  /\ working # None /\ There' = There /\ There \in Paths
                      /\ AtWork(There) /\ AtWork(There)'
                      /\ working'.song = working.song /\ working'.at = working.at
                      /\ working'.attempt = working.attempt /\ working'.size = working.size
                      /\ (working'.mine => working.mine)
    OBVIOUS
  <2>1. working # None /\ SameWork(working')
    BY DEF Quiet, WorkQuiet
  <2>2. There' = There
    BY <2>1 DEF SameWork, There
  <2>3. There \in Paths /\ AtWork(There)
    BY <2>1, <1>0, ThereIsAtWork
  <2>4. working'.song \in WorkSongs'
    BY DEF WorkSongs, SongsOf
  <2>5. AtWork(There)'
    BY <2>4 DEF AtWork, There
  <2> QED BY <2>1, <2>2, <2>3, <2>5 DEF SameWork
<1>c. /\ curl' # None => curl' = curl /\ working' # None
      /\ curl' = None => curl = None \/ working' = None
  BY DEF Quiet, WorkQuiet
<1>1. NamesDiffer'
  BY <1>q DEF Inv, NamesDiffer
<1>2. CurlPlace'
  <2> SUFFICES ASSUME curl' # None
               PROVE  /\ working' # None /\ working'.at = "curl" /\ curl'.song = working'.song
                      /\ \A p \in Paths : file'[p] # curl'.file
                      /\ \A p \in Paths : part'[p] # 0 => (part'[p] = curl'.file <=> p = There')
    BY DEF CurlPlace
  <2>1. curl' = curl /\ curl # None /\ working' # None
    BY <1>c
  <2>2. /\ working.at = "curl" /\ curl.song = working.song
        /\ \A p \in Paths : file[p] # curl.file
        /\ \A p \in Paths : part[p] # 0 => (part[p] = curl.file <=> p = There)
    BY <2>1 DEF Inv, CurlPlace
  <2> QED BY <2>1, <2>2, <1>w, <1>q, <1>d
<1>3. SecondIsFresh'
  <2> SUFFICES ASSUME working' # None, working'.at = "curl", working'.attempt = 2, curl' = None
               PROVE  part'[There'] = 0
    BY DEF SecondIsFresh
  <2>1. part[There] = 0
    BY <1>c, <1>w DEF Inv, SecondIsFresh
  <2> QED BY <2>1, <1>w, <1>q
<1>4. OrphanPlace'
  <2> SUFFICES ASSUME NEW c \in orphans', NEW p \in Paths \ late'
               PROVE  file'[p] # c.file /\ (part'[p] = c.file => ~AtWork(p)')
    BY DEF OrphanPlace
  <2>1. CASE c \in orphans
    <3>1. p \notin late
      BY DEF Quiet, LateQuiet
    <3>2. file[p] # c.file /\ (part[p] = c.file => ~AtWork(p)) /\ c.file # 0
      BY <2>1, <3>1, <1>d DEF Inv, OrphanPlace
    <3>3. AtWork(p)' => part'[p] = 0 \/ AtWork(p)
      BY DEF Quiet, NothingNew
    <3> QED BY <3>2, <3>3, <1>q
  <2>2. CASE curl # None /\ c = curl /\ WorkSongs' = {}
    <3>1. ~AtWork(p)'
      BY <2>2 DEF AtWork
    <3>2. file[p] # curl.file /\ curl.file # 0
      BY <2>2, <1>d DEF Inv, CurlPlace
    <3> QED BY <2>2, <3>1, <3>2, <1>q
  <2> QED BY <2>1, <2>2 DEF Quiet, OrphansQuiet
<1>5. PartIsBeginning'
  <2> SUFFICES ASSUME NEW p \in Paths \ late', AtWork(p)', part'[p] # 0
               PROVE  Begins(data'[part'[p]], song')
    BY DEF PartIsBeginning
  <2>1. p \notin late /\ AtWork(p) /\ song' = song
    BY DEF Quiet, NothingNew
  <2>2. part'[p] = part[p]
    BY <1>q
  <2>3. Begins(data[part[p]], song)
    BY <2>1, <2>2 DEF Inv, PartIsBeginning
  <2> QED BY <2>1, <2>2, <2>3, <1>q
<1>6. CurlIsAtEnd'
  <2> SUFFICES ASSUME curl' # None, There' \notin late', part'[There'] # 0
               PROVE  curl'.from + curl'.got = Len(data'[curl'.file])
    BY DEF CurlIsAtEnd
  <2>1. curl' = curl /\ curl # None /\ working' # None
    BY <1>c
  <2>2. There \notin late
    BY <2>1, <1>w DEF Quiet, NothingNew
  <2>3. part[There] # 0
    BY <2>1, <1>w, <1>q
  <2> QED BY <2>1, <2>2, <2>3, <1>q DEF Inv, CurlIsAtEnd
<1>7. working' # None /\ working'.at = "answer" => part'[There'] = 0
  BY <1>w, <1>q DEF Inv, PartIsGone
<1>8. working' # None /\ working'.at = "rename" /\ part'[There'] # 0 =>
        Len(data'[part'[There']]) >= working'.size
  BY <1>w, <1>q DEF Inv, LongEnough
<1>9. CASE (answer' = None \/ ~Active') /\ (working' = None \/ ~working'.mine)
  <2>1. PartIsGone'
    BY <1>7, <1>9 DEF PartIsGone
  <2>2. LongEnough'
    BY <1>8, <1>9 DEF LongEnough
  <2>3. FileIsBeginning'
    BY <1>9 DEF FileIsBeginning
  <2> QED BY <2>1, <2>2, <2>3, <1>1, <1>2, <1>3, <1>4, <1>5, <1>6
<1>10. CASE /\ UNCHANGED <<answer, stage, song>> /\ removed \subseteq removed' /\ late \subseteq late'
            /\ file'[Here] = file[Here] \/ Here \in removed'
  <2>0. answer' = answer /\ Active' = Active /\ Here' = Here /\ song' = song
    BY <1>10 DEF Active, Here
  <2>1. PartIsGone'
    <3>1. Active' /\ answer' # None /\ answer'.ok => part'[Here'] = 0
      BY <2>0, <1>q, <1>d DEF Inv, PartIsGone
    <3> QED BY <3>1, <1>7 DEF PartIsGone
  <2>2. Here' \notin removed' => Here \notin removed /\ file'[Here'] = file[Here]
    BY <2>0, <1>10
  <2>3. LongEnough'
    <3>1. working' # None /\ working'.at = "answer" /\ working'.mine /\ Here' \notin removed' =>
            file'[Here'] # 0 /\ Len(data'[file'[Here']]) >= working'.size
      BY <1>w, <1>q, <2>2 DEF Inv, LongEnough, FileHas
    <3>2. Active' /\ answer' # None /\ answer'.ok /\ Here' \notin removed' =>
            file'[Here'] # 0 /\ Len(data'[file'[Here']]) >= answer'.size
      BY <2>0, <1>q, <2>2 DEF Inv, LongEnough, FileHas
    <3> QED BY <3>1, <3>2, <1>8 DEF LongEnough, FileHas
  <2>4. FileIsBeginning'
    <3>1. Here' \notin late' /\ file'[Here'] # 0 => Here \notin late /\ file'[Here'] = file[Here]
      BY <2>0, <1>10, <1>q, <1>d
    <3>2. working' # None /\ working'.at = "answer" /\ working'.mine /\ Here' \notin late' /\ file'[Here'] # 0 =>
            Begins(data'[file'[Here']], song')
      BY <1>w, <1>q, <2>0, <3>1 DEF Inv, FileIsBeginning
    <3>3. Active' /\ answer' # None /\ answer'.ok /\ Here' \notin late' /\ file'[Here'] # 0 =>
            Begins(data'[file'[Here']], song')
      BY <1>q, <2>0, <3>1 DEF Inv, FileIsBeginning
    <3> QED BY <3>2, <3>3 DEF FileIsBeginning
  <2> QED BY <2>1, <2>3, <2>4, <1>1, <1>2, <1>3, <1>4, <1>5, <1>6
<1> QED BY <1>9, <1>10 DEF Quiet, AnswerQuiet

-----------------------------------------------------------------------------
(* The page asks, gives up waiting, or the runner is killed.               *)

LEMMA SendControl ==
  ASSUME Inv, NEW what \in {"link", "download"}, song' \in Songs, Send(what), up' = up,
         curl' = curl, IF what = "link" THEN stage' = "link" ELSE Active'
  PROVE  /\ RunnerOK' /\ AnswerIsLast' /\ WorkQuiet
         /\ answer' = None /\ (working' = None \/ ~working'.mine)
         /\ WorkSongs' \subseteq WorkSongs \cup (IF what = "download" THEN {song'} ELSE {})
<1>0. Typed /\ RunnerOK
  BY DEF Inv, Typed
<1>1. /\ commands' \in Seq(Commands) /\ (commands' # <<>> => up)
      /\ working' = WorkForgotten /\ answer' = None
      /\ \A k \in DOMAIN commands' :
           commands'[k].mine =>
             k = Len(commands') /\ commands'[k].what = what /\ commands'[k].song = song'
      /\ WorkSongs' \subseteq WorkSongs \cup (IF what = "download" THEN {song'} ELSE {})
  BY <1>0, SendFacts
<1>2. /\ WorkForgotten \in {None} \cup Works
      /\ WorkForgotten = None <=> working = None
      /\ working # None => SameWork(WorkForgotten) /\ WorkForgotten.mine = FALSE
  BY <1>0, ForgottenWork
<1>3. RunnerOK'
  BY <1>0, <1>1, <1>2 DEF RunnerOK
<1>4. AnswerIsLast'
  <2>1. \A k \in DOMAIN commands' :
       commands'[k].mine =>
         /\ k = Len(commands')
         /\ IF commands'[k].what = "link" THEN stage' = "link" ELSE Active' /\ commands'[k].song = song'
    BY <1>1
  <2>2. ~(working' # None /\ working'.mine)
    BY <1>1, <1>2
  <2> QED BY <2>1, <2>2, <1>1 DEF AnswerIsLast
<1>5. WorkQuiet
  BY <1>1, <1>2 DEF WorkQuiet, Inv, CurlPlace
<1> QED BY <1>1, <1>2, <1>3, <1>4, <1>5

LEMMA GiveUpControl ==
  ASSUME Inv, GiveUpWaiting, up' = up, curl' = curl
  PROVE  /\ RunnerOK' /\ AnswerIsLast' /\ WorkQuiet
         /\ answer' = None /\ (working' = None \/ ~working'.mine)
         /\ WorkSongs' = WorkSongs
<1>0. Typed /\ RunnerOK
  BY DEF Inv, Typed
<1>1. /\ commands' \in Seq(Commands) /\ (commands' # <<>> => up)
      /\ working' = WorkForgotten /\ answer' = None
      /\ \A k \in DOMAIN commands' : commands'[k].mine = FALSE
      /\ WorkSongs' = WorkSongs
  BY <1>0, GiveUpFacts
<1>2. /\ WorkForgotten \in {None} \cup Works
      /\ WorkForgotten = None <=> working = None
      /\ working # None => SameWork(WorkForgotten) /\ WorkForgotten.mine = FALSE
  BY <1>0, ForgottenWork
<1>3. RunnerOK'
  BY <1>0, <1>1, <1>2 DEF RunnerOK
<1>4. AnswerIsLast'
  <2>2. ~(working' # None /\ working'.mine)
    BY <1>1, <1>2
  <2> QED BY <2>2, <1>1 DEF AnswerIsLast
<1>5. WorkQuiet
  BY <1>1, <1>2 DEF WorkQuiet, Inv, CurlPlace
<1> QED BY <1>1, <1>2, <1>3, <1>4, <1>5

LEMMA KilledControl ==
  ASSUME Inv, Killed
  PROVE  /\ RunnerOK' /\ AnswerIsLast' /\ Owned' /\ CurlOK' /\ WorkQuiet /\ OrphansQuiet /\ NothingNew
         /\ working' = None /\ WorkSongs' = {}
<1>1. /\ up' = FALSE /\ commands' = <<>> /\ working' = None /\ curl' = None
      /\ WorkSongs' = {}
      /\ \A c \in orphans' : c \in orphans \/ (curl # None /\ c = curl)
  BY KilledFacts
<1>2. commands' \in Seq(Commands) /\ DOMAIN commands' = {}
  BY <1>1, EmptySeq
<1>3. RunnerOK' /\ AnswerIsLast'
  BY <1>1, <1>2 DEF RunnerOK, AnswerIsLast
<1>4. CurlOK'
  BY <1>1 DEF Inv, Typed, CurlOK
<1>5. Owned'
  BY <1>1 DEF Owned
<1>6. \A p : ~AtWork(p)'
  BY <1>1 DEF AtWork
<1>7. WorkQuiet /\ OrphansQuiet /\ NothingNew
  BY <1>1, <1>6 DEF WorkQuiet, OrphansQuiet, NothingNew
<1> QED BY <1>1, <1>3, <1>4, <1>5, <1>7

LEMMA SameDisk ==
  ASSUME Inv, UNCHANGED diskVars
  PROVE  DiskOK' /\ DiskQuiet
<1>1. data' = data /\ part' = part /\ file' = file
  BY DEF diskVars
<1>2. DiskOK'
  BY <1>1 DEF Inv, Typed, DiskOK
<1> QED BY <1>1, <1>2 DEF DiskQuiet

LEMMA Discarded ==
  ASSUME Inv, Discard(Here), UNCHANGED data
  PROVE  /\ DiskOK' /\ DiskQuiet
         /\ part'[Here] = 0 /\ file'[Here] = 0
         /\ \A p \in Paths : p # Here => part'[p] = part[p] /\ file'[p] = file[p]
<1>1. Here \in Paths
  BY DiskFacts DEF Inv
<1>2. /\ part \in [Paths -> {0} \cup Inodes] /\ file \in [Paths -> {0} \cup Inodes]
      /\ \A i \in Inodes : data[i] \in Seq(Songs \X (1..Total))
      /\ DOMAIN data = Inodes
  BY DEF Inv, Typed, DiskOK
<1>3. part' \in [Paths -> {0} \cup Inodes] /\ file' \in [Paths -> {0} \cup Inodes]
  BY <1>1, <1>2 DEF Discard
<1>4. /\ part'[Here] = 0 /\ file'[Here] = 0
      /\ \A p \in Paths : p # Here => part'[p] = part[p] /\ file'[p] = file[p]
  BY <1>1, <1>2 DEF Discard
<1>5. DiskOK'
  BY <1>2, <1>3 DEF DiskOK
<1>6. \A p \in Paths : part'[p] \in {0, part[p]} /\ file'[p] \in {0, file[p]}
  BY <1>4
<1> QED BY <1>4, <1>5, <1>6 DEF DiskQuiet

\* While the page does not wait for a file, what is not in the list belongs to
\* nobody, or to a download whose end it did not wait for.
LEMMA NobodysPaths ==
  ASSUME Inv, ~Active
  PROVE  /\ \A s \in WorkSongs : Path[s] \in late
         /\ \A p \in Paths \ late :
              ~AtWork(p) /\ part[p] = 0 /\ (file[p] # 0 => p \in Listed \cup cut)
<1>1. \A s \in WorkSongs : Path[s] \in late
  BY DEF Inv, Owned
<1>2. \A p \in Paths \ late : ~AtWork(p)
  BY <1>1 DEF AtWork
<1> QED BY <1>1, <1>2 DEF Inv, PartOwned, FileOwned, Current

LEMMA InvFrom ==
  ASSUME Inv, Quiet, Typed', AnswerIsLast', Owned', PartOwned', FileOwned'
  PROVE  Inv'
BY QuietStep DEF Inv, Typed

LEMMA TapDownloadInv ==
  ASSUME Inv, NEW s \in Songs, TapDownload(s)
  PROVE  Inv'
<1>0. Typed /\ ~Active /\ ~Active'
  BY DEF Inv, TapDownload, Active
<1>1. song' \in Songs /\ Send("link") /\ up' = up /\ curl' = curl /\ stage' = "link"
  BY DEF TapDownload
<1>2. /\ RunnerOK' /\ AnswerIsLast' /\ WorkQuiet
      /\ answer' = None /\ (working' = None \/ ~working'.mine)
      /\ WorkSongs' \subseteq WorkSongs
  BY <1>1, SendControl
<1>3. late' = late /\ cut' = cut /\ Listed' = Listed /\ orphans' = orphans
  BY DEF TapDownload, Listed
<1>4. DiskOK' /\ DiskQuiet /\ part' = part /\ file' = file
  BY SameDisk DEF TapDownload, diskVars
<1>5. /\ \A x \in WorkSongs : Path[x] \in late
      /\ \A p \in Paths \ late :
           ~AtWork(p) /\ part[p] = 0 /\ (file[p] # 0 => p \in Listed \cup cut)
  BY <1>0, NobodysPaths
<1>6. Typed'
  <2>1. PageOK' /\ ListOK' /\ CurlOK'
    BY <1>0, <1>1, <1>2 DEF TapDownload, Typed, PageOK, ListOK, CurlOK
  <2>2. HistOK'
    BY <1>0, Sizes DEF TapDownload, Typed, HistOK
  <2> QED BY <2>1, <2>2, <1>2, <1>4 DEF Typed
<1>7. Owned'
  BY <1>2, <1>3, <1>5 DEF Owned
<1>8. PartOwned' /\ FileOwned'
  BY <1>3, <1>4, <1>5 DEF PartOwned, FileOwned
<1>9. Quiet
  <2>1. \A p \in Paths \ late' : ~AtWork(p)'
    BY <1>2, <1>3, <1>5 DEF AtWork
  <2> QED BY <2>1, <1>0, <1>2, <1>3, <1>4 DEF Quiet, OrphansQuiet, NothingNew, LateQuiet, AnswerQuiet
<1> QED BY <1>2, <1>6, <1>7, <1>8, <1>9, InvFrom

LEMMA LinkOkInv ==
  ASSUME Inv, LinkOk
  PROVE  Inv'
<1>0. Typed /\ ~Active /\ Active' /\ song' = song /\ song' \in Songs /\ Here' = Here
  BY DEF Inv, Typed, PageOK, LinkOk, Active, Here
<1>1. song' \in Songs /\ Send("download") /\ up' = up /\ curl' = curl
  BY <1>0 DEF LinkOk
<1>2. /\ RunnerOK' /\ AnswerIsLast' /\ WorkQuiet
      /\ answer' = None /\ (working' = None \/ ~working'.mine)
      /\ WorkSongs' \subseteq WorkSongs \cup {song'}
  BY <1>0, <1>1, SendControl
<1>3. late' = late /\ cut' = cut /\ Listed' = Listed /\ orphans' = orphans
  BY DEF LinkOk, Listed, histVars
<1>4. DiskOK' /\ DiskQuiet /\ part' = part /\ file' = file
  BY SameDisk DEF LinkOk, diskVars
<1>5. /\ \A x \in WorkSongs : Path[x] \in late
      /\ \A p \in Paths \ late :
           ~AtWork(p) /\ part[p] = 0 /\ (file[p] # 0 => p \in Listed \cup cut)
  BY <1>0, NobodysPaths
<1>6. Typed'
  <2>1. PageOK' /\ ListOK' /\ CurlOK' /\ HistOK'
    BY <1>0, <1>1, <1>2 DEF LinkOk, histVars, Typed, PageOK, ListOK, CurlOK, HistOK
  <2> QED BY <2>1, <1>2, <1>4 DEF Typed
<1>7. Owned'
  BY <1>0, <1>2, <1>3, <1>5 DEF Owned
<1>8. PartOwned' /\ FileOwned'
  BY <1>3, <1>4, <1>5 DEF PartOwned, FileOwned
<1>9. Quiet
  <2>1. NothingNew
    BY <1>3, <1>4, <1>5 DEF NothingNew
  <2> QED BY <2>1, <1>2, <1>3, <1>4 DEF Quiet, OrphansQuiet, LateQuiet, AnswerQuiet
<1> QED BY <1>2, <1>6, <1>7, <1>8, <1>9, InvFrom

LEMMA FirstFailsInv ==
  ASSUME Inv, FirstFails
  PROVE  Inv'
<1>0. Typed /\ Active /\ Active' /\ song' = song /\ song' \in Songs /\ Here' = Here
  BY DEF Inv, Typed, PageOK, FirstFails, Active, Here
<1>1. song' \in Songs /\ Send("download") /\ up' = up /\ curl' = curl
  BY <1>0 DEF FirstFails
<1>2. /\ RunnerOK' /\ AnswerIsLast' /\ WorkQuiet
      /\ answer' = None /\ (working' = None \/ ~working'.mine)
      /\ WorkSongs' \subseteq WorkSongs \cup {song'}
  BY <1>0, <1>1, SendControl
<1>3. late' = late /\ cut' = cut /\ Listed' = Listed /\ orphans' = orphans
  BY DEF FirstFails, Listed, histVars
<1>4. /\ DiskOK' /\ DiskQuiet
      /\ part'[Here] = 0 /\ file'[Here] = 0
      /\ \A p \in Paths : p # Here => part'[p] = part[p] /\ file'[p] = file[p]
  BY Discarded DEF FirstFails
<1>6. Typed'
  <2>1. PageOK' /\ ListOK' /\ CurlOK' /\ HistOK'
    BY <1>0, <1>1, <1>2 DEF FirstFails, histVars, Typed, PageOK, ListOK, CurlOK, HistOK
  <2> QED BY <2>1, <1>2, <1>4 DEF Typed
<1>7. Owned'
  BY <1>0, <1>2, <1>3 DEF Owned, Inv
<1>8. PartOwned' /\ FileOwned'
  BY <1>0, <1>3, <1>4 DEF PartOwned, FileOwned, Current, Inv
<1>9. Quiet
  <2>1. NothingNew
    <3>1. ASSUME NEW p \in Paths \ late', AtWork(p)', p # Here
          PROVE  AtWork(p)
      BY <3>1, <1>0, <1>2 DEF AtWork, Here
    <3> QED BY <3>1, <1>0, <1>3, <1>4 DEF NothingNew
  <2> QED BY <2>1, <1>2, <1>3, <1>4 DEF Quiet, OrphansQuiet, LateQuiet, AnswerQuiet
<1> QED BY <1>2, <1>6, <1>7, <1>8, <1>9, InvFrom

LEMMA LinkFailsInv ==
  ASSUME Inv, LinkFails
  PROVE  Inv'
<1>0. Typed /\ ~Active /\ ~Active' /\ song' = song /\ stage' = "idle"
  BY DEF Inv, LinkFails, Switches, Active
<1>3. late' = late /\ cut' = cut /\ Listed' = Listed
  BY DEF LinkFails, Listed, histVars
<1>4. DiskOK' /\ DiskQuiet /\ part' = part /\ file' = file
  BY SameDisk DEF LinkFails, diskVars
<1>5. /\ \A x \in WorkSongs : Path[x] \in late
      /\ \A p \in Paths \ late :
           ~AtWork(p) /\ part[p] = 0 /\ (file[p] # 0 => p \in Listed \cup cut)
  BY <1>0, NobodysPaths
<1>6. ListOK' /\ HistOK'
  BY <1>0 DEF LinkFails, histVars, Typed, ListOK, HistOK
<1>8. PartOwned' /\ FileOwned' /\ LateQuiet
  BY <1>3, <1>4, <1>5 DEF PartOwned, FileOwned, LateQuiet
<1>9. CASE Switches
  <2>1. Killed /\ answer' = None /\ selectedScript' = "default"
    BY <1>9 DEF Switches
  <2>2. /\ RunnerOK' /\ AnswerIsLast' /\ Owned' /\ CurlOK' /\ WorkQuiet /\ OrphansQuiet /\ NothingNew
        /\ working' = None
    BY <2>1, KilledControl
  <2>3. PageOK'
    BY <1>0, <2>1 DEF Typed, PageOK
  <2>4. Typed'
    BY <2>2, <2>3, <1>4, <1>6 DEF Typed
  <2>5. Quiet
    BY <2>1, <2>2, <1>4, <1>8 DEF Quiet, AnswerQuiet
  <2> QED BY <2>2, <2>4, <2>5, <1>8, InvFrom
<1>10. CASE GiveUpWaiting /\ UNCHANGED <<selectedScript, up, curl, orphans>>
  <2>1. /\ RunnerOK' /\ AnswerIsLast' /\ WorkQuiet
        /\ answer' = None /\ (working' = None \/ ~working'.mine)
        /\ WorkSongs' = WorkSongs
    BY <1>10, GiveUpControl
  <2>2. PageOK' /\ CurlOK'
    BY <1>0, <1>10, <2>1 DEF Typed, PageOK, CurlOK
  <2>3. Typed'
    BY <2>1, <2>2, <1>4, <1>6 DEF Typed
  <2>4. Owned'
    BY <2>1, <1>3, <1>5 DEF Owned
  <2>5. \A p \in Paths \ late' : ~AtWork(p)'
    BY <2>1, <1>3, <1>5 DEF AtWork
  <2>6. Quiet
    BY <2>1, <2>5, <1>4, <1>8, <1>10 DEF Quiet, OrphansQuiet, NothingNew, AnswerQuiet
  <2> QED BY <2>1, <2>3, <2>4, <2>6, <1>8, InvFrom
<1> QED BY <1>9, <1>10 DEF LinkFails

\* The page stops waiting for a file: the path is late, or there was an answer
\* and nothing else is under way.
LEMMA NothingAfterAnswer ==
  ASSUME Inv, answer # None
  PROVE  WorkSongs = {} /\ working = None /\ curl = None
<1>1. commands = <<>> /\ working = None
  BY DEF Inv, AnswerIsLast
<1>2. curl = None
  BY <1>1 DEF Inv, CurlPlace
<1> QED BY <1>1, <1>2, NoSongs DEF WorkSongs

LEMMA SecondFailsInv ==
  ASSUME Inv, NEW answered \in BOOLEAN, SecondFails(answered), answered => answer # None
  PROVE  Inv'
<1>0. Typed /\ Active /\ ~Active' /\ song' = song /\ stage' = "idle" /\ Here \in Paths
  BY DiskFacts DEF Inv, SecondFails, Active
<1>1. GiveUpWaiting /\ up' = up /\ curl' = curl
  BY DEF SecondFails
<1>2. /\ RunnerOK' /\ AnswerIsLast' /\ WorkQuiet
      /\ answer' = None /\ (working' = None \/ ~working'.mine)
      /\ WorkSongs' = WorkSongs
  BY <1>1, GiveUpControl
<1>3. /\ late' = (IF answered THEN late ELSE late \cup {Here})
      /\ cut' = cut /\ Listed' = Listed /\ orphans' = orphans
  BY DEF SecondFails, Listed
<1>4. /\ DiskOK' /\ DiskQuiet
      /\ part'[Here] = 0 /\ file'[Here] = 0
      /\ \A p \in Paths : p # Here => part'[p] = part[p] /\ file'[p] = file[p]
  BY Discarded DEF SecondFails
<1>5. \A s \in WorkSongs : Path[s] \in late'
  <2>1. CASE answered
    BY <2>1, NothingAfterAnswer
  <2>2. CASE ~answered
    BY <2>2, <1>3 DEF Inv, Owned, Here
  <2> QED BY <2>1, <2>2
<1>6. Typed'
  <2>1. PageOK' /\ ListOK' /\ CurlOK'
    BY <1>0, <1>1, <1>2 DEF SecondFails, Typed, PageOK, ListOK, CurlOK
  <2>2. HistOK'
    BY <1>0, <1>3 DEF SecondFails, Typed, HistOK
  <2> QED BY <2>1, <2>2, <1>2, <1>4 DEF Typed
<1>7. Owned'
  BY <1>0, <1>2, <1>5 DEF Owned
<1>8. PartOwned' /\ FileOwned'
  BY <1>0, <1>3, <1>4 DEF PartOwned, FileOwned, Current, Inv
<1>9. Quiet
  <2>1. \A p \in Paths \ late' : ~AtWork(p)' /\ p \notin late
    BY <1>2, <1>3, <1>5 DEF AtWork
  <2> QED BY <2>1, <1>2, <1>3, <1>4 DEF Quiet, OrphansQuiet, NothingNew, LateQuiet, AnswerQuiet
<1> QED BY <1>2, <1>6, <1>7, <1>8, <1>9, InvFrom

LEMMA ReopenInv ==
  ASSUME Inv, Reopen
  PROVE  Inv'
<1>0. /\ Typed /\ ~Active' /\ song' = song /\ stage' = "idle" /\ Here \in Paths
      /\ answer' = None
  BY DiskFacts DEF Inv, Reopen, Active
<1>3. late' = late \cup {Here} /\ cut' = cut /\ Listed' = Listed
  BY DEF Reopen, Listed
<1>4. DiskOK' /\ DiskQuiet /\ part' = part /\ file' = file
  BY SameDisk DEF Reopen, diskVars
<1>5. ListOK' /\ PageOK'
  BY <1>0 DEF Reopen, Typed, ListOK, PageOK
<1>8. PartOwned' /\ FileOwned' /\ LateQuiet
  BY <1>3, <1>4 DEF PartOwned, FileOwned, Current, Inv, LateQuiet
<1>9. CASE KilledInBounds
  <2>1. Killed /\ kills' \in Nat
    BY <1>9, <1>0 DEF KilledInBounds, Typed, HistOK
  <2>2. /\ RunnerOK' /\ AnswerIsLast' /\ Owned' /\ CurlOK' /\ WorkQuiet /\ OrphansQuiet /\ NothingNew
        /\ working' = None
    BY <2>1, KilledControl
  <2>3. HistOK'
    BY <1>0, <1>3, <2>1 DEF Reopen, Typed, HistOK
  <2>4. Typed'
    BY <2>2, <2>3, <1>4, <1>5 DEF Typed
  <2>5. Quiet
    BY <2>2, <1>0, <1>4, <1>8 DEF Quiet, AnswerQuiet
  <2> QED BY <2>2, <2>4, <2>5, <1>8, InvFrom
<1>10. CASE commands' = Forgotten /\ working' = WorkForgotten /\ UNCHANGED <<up, curl, orphans, kills>>
  <2>0. GiveUpWaiting
    BY <1>0, <1>10 DEF GiveUpWaiting
  <2>1. /\ RunnerOK' /\ AnswerIsLast' /\ WorkQuiet
        /\ answer' = None /\ (working' = None \/ ~working'.mine)
        /\ WorkSongs' = WorkSongs
    BY <1>10, <2>0, GiveUpControl
  <2>2. CurlOK' /\ HistOK'
    BY <1>0, <1>3, <1>10 DEF Reopen, Typed, CurlOK, HistOK
  <2>3. Typed'
    BY <2>1, <2>2, <1>4, <1>5 DEF Typed
  <2>4. \A s \in WorkSongs : Path[s] \in late'
    BY <1>3 DEF Inv, Owned, Here
  <2>5. Owned'
    BY <2>1, <2>4 DEF Owned
  <2>6. \A p \in Paths \ late' : ~AtWork(p)'
    BY <2>1, <2>4 DEF AtWork
  <2>7. Quiet
    BY <2>1, <2>6, <1>4, <1>8, <1>10 DEF Quiet, OrphansQuiet, NothingNew, AnswerQuiet
  <2> QED BY <2>1, <2>3, <2>5, <2>7, <1>8, InvFrom
<1> QED BY <1>9, <1>10 DEF Reopen

LEMMA RunnerEndsInv ==
  ASSUME Inv, SelectScript \/ RunnerDies
  PROVE  Inv'
<1>0. /\ Typed /\ Active' = Active /\ song' = song /\ stage' = stage /\ Here' = Here
      /\ answer' = answer /\ KilledInBounds
      /\ late' = late /\ cut' = cut /\ Listed' = Listed /\ removed' = removed
  BY DEF Inv, SelectScript, RunnerDies, pageVars, Active, Here, Listed
<1>1. Killed /\ kills' \in Nat
  BY <1>0 DEF KilledInBounds, Typed, HistOK
<1>2. /\ RunnerOK' /\ AnswerIsLast' /\ Owned' /\ CurlOK' /\ WorkQuiet /\ OrphansQuiet /\ NothingNew
      /\ working' = None
  BY <1>1, KilledControl
<1>4. DiskOK' /\ DiskQuiet /\ part' = part /\ file' = file
  BY SameDisk DEF SelectScript, RunnerDies, diskVars
<1>5. ListOK' /\ PageOK' /\ HistOK'
  BY <1>0, <1>1 DEF SelectScript, RunnerDies, pageVars, Typed, ListOK, PageOK, HistOK
<1>6. Typed'
  BY <1>2, <1>4, <1>5 DEF Typed
<1>8. PartOwned' /\ FileOwned' /\ LateQuiet
  BY <1>0, <1>4 DEF PartOwned, FileOwned, Current, Inv, LateQuiet
<1>9. Quiet
  BY <1>0, <1>2, <1>4, <1>8 DEF Quiet, AnswerQuiet
<1> QED BY <1>2, <1>6, <1>8, <1>9, InvFrom

\* Steps in which the runner's commands and work stay as they are.
LEMMA SameControl ==
  ASSUME Inv, UNCHANGED <<up, commands, working, curl, stage, song>>, answer' \in {answer, None},
         late \subseteq late'
  PROVE  /\ RunnerOK' /\ AnswerIsLast' /\ Owned' /\ WorkQuiet
         /\ WorkSongs' = WorkSongs /\ Active' = Active /\ Here' = Here
<1>0. RunnerOK
  BY DEF Inv, Typed
<1>1. Active' = Active /\ Here' = Here /\ WorkSongs' = WorkSongs
  BY DEF Active, Here, WorkSongs
<1>2. RunnerOK'
  BY <1>0 DEF RunnerOK
<1>3. AnswerIsLast'
  BY <1>1 DEF AnswerIsLast, Inv
<1>4. Owned'
  BY <1>1 DEF Owned, Inv
<1>5. working # None => SameWork(working)
  BY <1>0 DEF RunnerOK, SameWork
<1>6. WorkQuiet
  BY <1>5 DEF WorkQuiet, Inv, CurlPlace
<1> QED BY <1>1, <1>2, <1>3, <1>4, <1>6

LEMMA StartFreshRunnerInv ==
  ASSUME Inv, StartFreshRunner
  PROVE  Inv'
<1>0. /\ Typed /\ song' = song /\ stage' = stage /\ answer' = None /\ Active' = Active /\ Here' = Here
      /\ commands' = commands /\ working' = working /\ curl' = curl /\ orphans' = orphans
      /\ late' = late /\ cut' = cut /\ Listed' = Listed
  BY DEF Inv, StartFreshRunner, histVars, Active, Here, Listed
<1>1. commands = <<>> /\ working = None
  BY DEF Inv, Typed, RunnerOK, StartFreshRunner
<1>2. RunnerOK' /\ AnswerIsLast' /\ WorkSongs' = {}
  BY <1>0, <1>1, EmptySeq, NoSongs DEF StartFreshRunner, Typed, RunnerOK, AnswerIsLast, WorkSongs
<1>3. Owned' /\ \A p : ~AtWork(p)'
  BY <1>2 DEF Owned, AtWork
<1>4. DiskOK' /\ DiskQuiet /\ part' = part /\ file' = file
  BY SameDisk DEF StartFreshRunner, diskVars
<1>5. ListOK' /\ PageOK' /\ HistOK' /\ CurlOK'
  BY <1>0 DEF StartFreshRunner, histVars, Typed, ListOK, PageOK, HistOK, CurlOK
<1>6. Typed'
  BY <1>2, <1>4, <1>5 DEF Typed
<1>8. PartOwned' /\ FileOwned'
  BY <1>0, <1>4 DEF PartOwned, FileOwned, Current, Inv
<1>9. Quiet
  <2>1. WorkQuiet
    BY <1>0, <1>1 DEF WorkQuiet, Inv, CurlPlace
  <2> QED BY <2>1, <1>0, <1>1, <1>3, <1>4
      DEF Quiet, OrphansQuiet, NothingNew, LateQuiet, AnswerQuiet
<1> QED BY <1>2, <1>3, <1>6, <1>8, <1>9, InvFrom

LEMMA StutterInv == Inv /\ UNCHANGED vars => Inv'
<1> SUFFICES ASSUME Inv, UNCHANGED vars PROVE Inv'
  OBVIOUS
<1>0. /\ song' = song /\ stage' = stage /\ answer' = answer
      /\ up' = up /\ commands' = commands /\ working' = working /\ curl' = curl /\ orphans' = orphans
      /\ late' = late /\ cut' = cut /\ Listed' = Listed /\ removed' = removed
      /\ UNCHANGED diskVars
  BY DEF vars, pageVars, runnerVars, diskVars, histVars, Listed
<1>1. /\ RunnerOK' /\ AnswerIsLast' /\ Owned' /\ WorkQuiet
      /\ WorkSongs' = WorkSongs /\ Active' = Active /\ Here' = Here
  BY <1>0, SameControl
<1>4. DiskOK' /\ DiskQuiet /\ part' = part /\ file' = file
  BY <1>0, SameDisk DEF diskVars
<1>5. ListOK' /\ PageOK' /\ HistOK' /\ CurlOK'
  <2>1. UNCHANGED <<downloads, selectedScript, taps, wanted, kills>>
    BY DEF vars, pageVars, histVars
  <2> QED BY <1>0, <2>1 DEF Inv, Typed, ListOK, PageOK, HistOK, CurlOK
<1>6. Typed'
  BY <1>1, <1>4, <1>5 DEF Typed
<1>8. PartOwned' /\ FileOwned'
  BY <1>0, <1>1, <1>4 DEF PartOwned, FileOwned, Current, Inv
<1>9. Quiet
  <2>1. \A p : AtWork(p)' = AtWork(p)
    BY <1>1 DEF AtWork
  <2> QED BY <2>1, <1>0, <1>1, <1>4 DEF Quiet, OrphansQuiet, NothingNew, LateQuiet, AnswerQuiet
<1> QED BY <1>1, <1>6, <1>8, <1>9, InvFrom

LEMMA OrphanEndsInv ==
  ASSUME Inv, NEW c \in orphans, OrphanEnds(c)
  PROVE  Inv'
<1>0. /\ song' = song /\ stage' = stage /\ answer' = answer
      /\ up' = up /\ commands' = commands /\ working' = working /\ curl' = curl
      /\ orphans' \subseteq orphans
      /\ late' = late /\ cut' = cut /\ Listed' = Listed /\ removed' = removed
      /\ UNCHANGED diskVars
  BY DEF OrphanEnds, pageVars, runnerVars, diskVars, histVars, Listed
<1>1. /\ RunnerOK' /\ AnswerIsLast' /\ Owned' /\ WorkQuiet
      /\ WorkSongs' = WorkSongs /\ Active' = Active /\ Here' = Here
  BY <1>0, SameControl
<1>4. DiskOK' /\ DiskQuiet /\ part' = part /\ file' = file
  BY <1>0, SameDisk DEF diskVars
<1>5. ListOK' /\ PageOK' /\ HistOK' /\ CurlOK'
  BY <1>0 DEF OrphanEnds, pageVars, histVars, Inv, Typed, ListOK, PageOK, HistOK, CurlOK
<1>6. Typed'
  BY <1>1, <1>4, <1>5 DEF Typed
<1>8. PartOwned' /\ FileOwned'
  BY <1>0, <1>1, <1>4 DEF PartOwned, FileOwned, Current, Inv
<1>9. Quiet
  <2>1. \A p : AtWork(p)' = AtWork(p)
    BY <1>1 DEF AtWork
  <2> QED BY <2>1, <1>0, <1>1, <1>4 DEF Quiet, OrphansQuiet, NothingNew, LateQuiet, AnswerQuiet
<1> QED BY <1>1, <1>6, <1>8, <1>9, InvFrom


-----------------------------------------------------------------------------
(* The list.                                                               *)

\* The list of paths without repetition stays one when an entry is taken out,
\* and has the other paths.
LEMMA SplicedFacts ==
  ASSUME ListOK, NEW p \in Paths
  PROVE  /\ Spliced(p) \in Seq(Entries) /\ Len(Spliced(p)) <= Len(downloads)
         /\ \A i, k \in DOMAIN Spliced(p) : Spliced(p)[i].path = Spliced(p)[k].path => i = k
         /\ PathsOf(Spliced(p)) = Listed \ {p}
<1>1. /\ downloads \in Seq(Entries) /\ Len(downloads) \in Nat
      /\ DOMAIN downloads = 1..Len(downloads)
      /\ \A i \in 1..Len(downloads) : downloads[i] \in Entries
  BY LenProperties, ElementOfSeq DEF ListOK
<1>2. CASE p \notin Listed
  <2>1. Spliced(p) = downloads
    BY <1>2 DEF Spliced
  <2> QED BY <1>1, <1>2, <2>1 DEF ListOK, Listed
<1>3. CASE p \in Listed
  <2> DEFINE First(k) == downloads[k].path = p /\ \A i \in 1..(k - 1) : downloads[i].path # p
             first == CHOOSE k \in DOMAIN downloads : First(k)
             n == Len(downloads)
             t == SubSeq(downloads, 1, first - 1) \o SubSeq(downloads, first + 1, n)
  <2>1. PICK m \in 1..n : downloads[m].path = p
    BY <1>1, <1>3 DEF Listed, PathsOf
  <2>2. First(m)
    <3>1. \A i \in 1..(m - 1) : i \in 1..n /\ i # m
      BY <1>1, <2>1
    <3> QED BY <3>1, <2>1, <1>1 DEF ListOK
  <2>3. first \in 1..n /\ downloads[first].path = p
    BY <1>1, <2>1, <2>2
  <2>4. Spliced(p) = t
    BY <1>3 DEF Spliced, RemoveAt
  <2> HIDE DEF first
  <2>5. /\ t \in Seq(Entries) /\ Len(t) = n - 1 /\ DOMAIN t = 1..(n - 1)
        /\ \A i \in 1..(n - 1) : t[i] = IF i < first THEN downloads[i] ELSE downloads[i + 1]
    <3> DEFINE a == SubSeq(downloads, 1, first - 1)  b == SubSeq(downloads, first + 1, n)
    <3>1. a \in Seq(Entries) /\ Len(a) = first - 1 /\ \A i \in 1..(first - 1) : a[i] = downloads[i]
      BY <1>1, <2>3, SubSeqProperties
    <3>2. b \in Seq(Entries) /\ Len(b) = n - first
          /\ \A i \in 1..(n - first) : b[i] = downloads[first + i]
      <4> DEFINE f == first + 1
      <4>1. n \in Int /\ f \in Int /\ first \in 1..n /\ \A i \in f..n : downloads[i] \in Entries
        BY <1>1, <2>3
      <4>2. f = first + 1 /\ b = SubSeq(downloads, f, n)
        OBVIOUS
      <4> HIDE DEF f, b, n
      <4>3. /\ b \in Seq(Entries) /\ Len(b) = IF f <= n THEN n - f + 1 ELSE 0
            /\ \A i \in 1..(n - f + 1) : b[i] = downloads[f + i - 1]
        BY <4>1, <4>2, SubSeqProperties
      <4>4. Len(b) = n - first
        BY <4>1, <4>2, <4>3
      <4>5. \A i \in 1..(n - first) : i \in 1..(n - f + 1) /\ f + i - 1 = first + i
        BY <4>1, <4>2
      <4> QED BY <4>3, <4>4, <4>5
    <3>3. t = a \o b
      OBVIOUS
    <3> HIDE DEF a, b, t, n
    <3>4. n \in Nat /\ first \in 1..n
      BY <1>1, <2>3 DEF n
    <3>5. /\ t \in Seq(Entries) /\ Len(t) = Len(a) + Len(b)
          /\ \A i \in 1..(Len(a) + Len(b)) : t[i] = IF i <= Len(a) THEN a[i] ELSE b[i - Len(a)]
      BY <3>1, <3>2, <3>3, ConcatProperties
    <3>6. Len(a) + Len(b) = n - 1
      BY <3>1, <3>2, <3>4
    <3>7. DOMAIN t = 1..(n - 1)
      BY <3>5, <3>6, LenProperties
    <3>8. ASSUME NEW i \in 1..(n - 1)
          PROVE  t[i] = IF i < first THEN downloads[i] ELSE downloads[i + 1]
      <4>1. CASE i < first
        <5>1. i \in 1..(first - 1) /\ i <= Len(a)
          BY <4>1, <3>1, <3>4
        <5> QED BY <5>1, <4>1, <3>1, <3>5, <3>6
      <4>2. CASE ~(i < first)
        <5>1. /\ i - (first - 1) \in 1..(n - first) /\ ~(i <= Len(a))
              /\ first + (i - (first - 1)) = i + 1
          BY <4>2, <3>1, <3>4
        <5>2. t[i] = b[i - (first - 1)]
          BY <5>1, <3>1, <3>5, <3>6
        <5> QED BY <5>1, <5>2, <4>2, <3>2
      <4> QED BY <4>1, <4>2
    <3> QED BY <3>5, <3>6, <3>7, <3>8
  <2> HIDE DEF t, n
  <2>6. n = Len(downloads) /\ n \in Nat
    BY <1>1 DEF n
  <2> DEFINE Old(i) == IF i < first THEN i ELSE i + 1
  <2>7. \A i \in 1..(n - 1) : Old(i) \in 1..n /\ Old(i) # first /\ t[i] = downloads[Old(i)]
    BY <2>3, <2>5, <2>6
  <2>8. \A i, k \in 1..(n - 1) : Old(i) = Old(k) => i = k
    BY <2>3, <2>6
  <2>9. \A j \in 1..n : j # first => \E i \in 1..(n - 1) : Old(i) = j
    <3> TAKE j \in 1..n
    <3>1. CASE j < first
      BY <3>1, <2>3, <2>6
    <3>2. CASE j > first
      <4>1. j - 1 \in 1..(n - 1) /\ Old(j - 1) = j
        BY <3>2, <2>3, <2>6
      <4> QED BY <4>1
    <3> QED BY <3>1, <3>2, <2>3, <2>6
  <2> HIDE DEF Old
  <2>10. \A i, k \in 1..(n - 1) : t[i].path = t[k].path => i = k
    <3> TAKE i, k \in 1..(n - 1)
    <3>1. Old(i) \in DOMAIN downloads /\ Old(k) \in DOMAIN downloads
      BY <1>1, <2>6, <2>7
    <3>2. downloads[Old(i)].path = downloads[Old(k)].path => Old(i) = Old(k)
      BY <3>1 DEF ListOK
    <3> QED BY <3>2, <2>7, <2>8
  <2>11. PathsOf(t) = Listed \ {p}
    <3>1. ASSUME NEW q \in PathsOf(t) PROVE q \in Listed \ {p}
      <4>1. PICK i \in 1..(n - 1) : q = t[i].path
        BY <3>1, <2>5 DEF PathsOf
      <4>2. q = downloads[Old(i)].path /\ Old(i) \in DOMAIN downloads /\ Old(i) # first
        BY <4>1, <2>7, <2>6, <1>1
      <4>3. q # p
        BY <4>2, <2>3, <2>6, <1>1 DEF ListOK
      <4> QED BY <4>2, <4>3 DEF Listed, PathsOf
    <3>2. ASSUME NEW q \in Listed \ {p} PROVE q \in PathsOf(t)
      <4>1. PICK j \in 1..n : q = downloads[j].path
        BY <3>2, <1>1, <2>6 DEF Listed, PathsOf
      <4>2. j # first
        BY <4>1, <2>3, <3>2
      <4>3. PICK i \in 1..(n - 1) : Old(i) = j
        BY <4>2, <2>9
      <4>4. t[i].path = q /\ i \in DOMAIN t
        BY <4>1, <4>3, <2>7, <2>5
      <4> QED BY <4>4 DEF PathsOf
    <3> QED BY <3>1, <3>2
  <2>12. Len(t) <= Len(downloads)
    BY <2>5, <2>6
  <2> QED BY <2>4, <2>5, <2>10, <2>11, <2>12
<1> QED BY <1>2, <1>3

LEMMA WithEntryFacts ==
  ASSUME ListOK, NEW e \in Entries
  PROVE  /\ WithEntry(e) \in Seq(Entries) /\ Len(WithEntry(e)) <= ListMax
         /\ \A i, k \in DOMAIN WithEntry(e) : WithEntry(e)[i].path = WithEntry(e)[k].path => i = k
         /\ e.path \in PathsOf(WithEntry(e)) /\ PathsOf(WithEntry(e)) \subseteq Listed \cup {e.path}
<1> DEFINE rest == Spliced(e.path)
           list == <<e>> \o rest
           n == IF Len(list) > ListMax THEN ListMax ELSE Len(list)
           w == SubSeq(list, 1, n)
<1>0. e.path \in Paths
  BY DEF Entries
<1>1. /\ rest \in Seq(Entries)
      /\ \A i, k \in DOMAIN rest : rest[i].path = rest[k].path => i = k
      /\ PathsOf(rest) = Listed \ {e.path}
  BY <1>0, SplicedFacts
<1>2. w = WithEntry(e)
  BY DEF WithEntry
<1> HIDE DEF rest
<1>3. Len(rest) \in Nat /\ DOMAIN rest = 1..Len(rest)
  BY <1>1, LenProperties
<1>4. <<e>> \in Seq(Entries) /\ Len(<<e>>) = 1 /\ <<e>>[1] = e
  OBVIOUS
<1>5. /\ list \in Seq(Entries) /\ Len(list) = Len(rest) + 1
      /\ list[1] = e /\ \A i \in 2..(Len(rest) + 1) : list[i] = rest[i - 1]
  <2> DEFINE one == <<e>>
  <2>1. one \in Seq(Entries) /\ Len(one) = 1 /\ one[1] = e /\ list = one \o rest
    BY <1>4
  <2> HIDE DEF one, list
  <2>2. /\ list \in Seq(Entries) /\ Len(list) = 1 + Len(rest)
        /\ \A i \in 1..(1 + Len(rest)) : list[i] = IF i <= 1 THEN one[i] ELSE rest[i - 1]
    <3>1. /\ one \o rest \in Seq(Entries) /\ Len(one \o rest) = Len(one) + Len(rest)
          /\ \A i \in 1..(Len(one) + Len(rest)) :
               (one \o rest)[i] = IF i <= Len(one) THEN one[i] ELSE rest[i - Len(one)]
      <4>1. one \in Seq(Entries) /\ rest \in Seq(Entries)
        BY <1>1, <2>1
      <4> QED BY ONLY <4>1, ConcatProperties
    <3> QED BY <3>1, <2>1
  <2>3. list[1] = e
    BY <1>3, <2>1, <2>2
  <2>4. \A i \in 2..(Len(rest) + 1) : list[i] = rest[i - 1]
    BY <1>3, <2>2
  <2> QED BY <1>3, <2>2, <2>3, <2>4
<1> HIDE DEF list
<1>6. /\ n \in Nat /\ n >= 1 /\ n <= ListMax /\ n <= Len(rest) + 1
  BY <1>3, <1>5, Sizes
<1> HIDE DEF n
<1>7. /\ w \in Seq(Entries) /\ Len(w) = n /\ DOMAIN w = 1..n
      /\ \A i \in 1..n : w[i] = list[i]
  <2>1. \A i \in 1..n : list[i] \in Entries
    <3>1. \A i \in 1..Len(list) : list[i] \in Entries
      BY <1>5, ElementOfSeq
    <3> QED BY <3>1, <1>5, <1>6, <1>3
  <2>2. n \in Int /\ n - 1 + 1 = n /\ 1 <= n /\ \A i \in 1..n : 1 + i - 1 = i
    BY <1>6
  <2>3. /\ w \in Seq(Entries) /\ Len(w) = (IF 1 <= n THEN n - 1 + 1 ELSE 0)
        /\ \A i \in 1..(n - 1 + 1) : w[i] = list[1 + i - 1]
    BY <2>1, <2>2, SubSeqProperties
  <2> HIDE DEF w
  <2>4. DOMAIN w = 1..n
    BY <2>2, <2>3, LenProperties
  <2> QED BY <2>2, <2>3, <2>4
<1> HIDE DEF w
<1>8. w[1] = e /\ 1 \in DOMAIN w
  BY <1>5, <1>6, <1>7
<1>9. \A i \in 2..n : i - 1 \in DOMAIN rest /\ w[i] = rest[i - 1]
  BY <1>3, <1>5, <1>6, <1>7
<1>10. \A i \in 2..n : w[i].path \in Listed \ {e.path}
  BY <1>9, <1>1 DEF PathsOf
<1>11. \A i \in 1..n : i = 1 \/ i \in 2..n
  BY <1>6
<1>12. ASSUME NEW i \in 1..n, NEW k \in 1..n, w[i].path = w[k].path
       PROVE  i = k
  <2>1. CASE i = 1 /\ k = 1
    BY <2>1
  <2>2. CASE i = 1 /\ k \in 2..n
    BY <2>2, <1>8, <1>10, <1>12
  <2>3. CASE k = 1 /\ i \in 2..n
    BY <2>3, <1>8, <1>10, <1>12
  <2>4. CASE i \in 2..n /\ k \in 2..n
    <3>1. i - 1 = k - 1
      BY <2>4, <1>9, <1>1, <1>12
    <3> QED BY <3>1, <2>4, <1>6
  <2> QED BY <1>11, <2>1, <2>2, <2>3, <2>4
<1>13. e.path \in PathsOf(w)
  BY <1>8 DEF PathsOf
<1>14. PathsOf(w) \subseteq Listed \cup {e.path}
  BY <1>7, <1>8, <1>10, <1>11 DEF PathsOf
<1>15. w \in Seq(Entries) /\ Len(w) <= ListMax
       /\ \A i, k \in DOMAIN w : w[i].path = w[k].path => i = k
  BY <1>7, <1>6, <1>12
<1> QED BY <1>2, <1>13, <1>14, <1>15

\* What is listed now, and what fell off.
LEMMA AddDownloadInv ==
  ASSUME Inv, AddDownload
  PROVE  Inv'
<1> DEFINE e == [path |-> Here, size |-> answer.size]
<1>0. /\ Typed /\ Active /\ ~Active' /\ song' = song /\ stage' = "idle" /\ Here \in Paths
      /\ answer # None /\ answer \in Answers /\ answer.ok
  <2>1. Typed /\ Active /\ ~Active' /\ song' = song /\ stage' = "idle" /\ answer # None /\ answer.ok
    BY DEF Inv, AddDownload, Active, Success
  <2>2. answer \in Answers
    BY <2>1 DEF Typed, PageOK
  <2>3. Here \in Paths
    BY <2>1, DiskFacts
  <2> QED BY <2>1, <2>2, <2>3
<1>1. GiveUpWaiting /\ up' = up /\ curl' = curl /\ orphans' = orphans
  BY DEF AddDownload
<1>2. /\ RunnerOK' /\ AnswerIsLast' /\ WorkQuiet
      /\ answer' = None /\ (working' = None \/ ~working'.mine)
      /\ WorkSongs' = {}
  BY <1>0, <1>1, GiveUpControl, NothingAfterAnswer
<1>3. /\ downloads' \in Seq(Entries) /\ Len(downloads') <= ListMax
      /\ \A i, k \in DOMAIN downloads' : downloads'[i].path = downloads'[k].path => i = k
      /\ Here \in Listed' /\ Listed' \subseteq Listed \cup {Here}
  <2>1. e \in Entries /\ e.path = Here
    BY <1>0 DEF Entries, Answers
  <2>2. downloads' = WithEntry(e)
    BY DEF AddDownload
  <2>3. ListOK
    BY <1>0 DEF Typed
  <2> HIDE DEF e
  <2>4. /\ WithEntry(e) \in Seq(Entries) /\ Len(WithEntry(e)) <= ListMax
        /\ \A i, k \in DOMAIN WithEntry(e) : WithEntry(e)[i].path = WithEntry(e)[k].path => i = k
        /\ e.path \in PathsOf(WithEntry(e)) /\ PathsOf(WithEntry(e)) \subseteq Listed \cup {e.path}
    BY <2>1, <2>3, WithEntryFacts
  <2>5. Listed' = PathsOf(WithEntry(e))
    BY <2>2 DEF Listed
  <2> QED BY <2>1, <2>2, <2>4, <2>5
<1>4. DiskOK' /\ DiskQuiet /\ part' = part /\ file' = file
  BY SameDisk DEF AddDownload, diskVars
<1>5. /\ cut' = (cut \cup Listed) \ Listed'
      /\ late' \subseteq late
      /\ \A p \in Paths \ late' : p \notin late \/ (p = Here /\ orphans = {})
  BY DEF AddDownload, Listed
<1>6. Typed'
  <2>1. ListOK'
    BY <1>3 DEF ListOK
  <2>2. PageOK' /\ CurlOK'
    BY <1>0, <1>1, <1>2 DEF AddDownload, Typed, PageOK, CurlOK
  <2>3. Listed \subseteq Paths
    <3>1. \A k \in DOMAIN downloads : downloads[k] \in Entries
      BY <1>0 DEF Typed, ListOK
    <3>2. \A k \in DOMAIN downloads : downloads[k].path \in Paths
      BY <3>1 DEF Entries
    <3> QED BY <3>2 DEF Listed, PathsOf
  <2>4. HistOK'
    BY <1>0, <1>5, <2>3 DEF AddDownload, Typed, HistOK
  <2> QED BY <2>1, <2>2, <2>4, <1>2, <1>4 DEF Typed
<1>7. Owned' /\ \A p : ~AtWork(p)'
  BY <1>2 DEF Owned, AtWork
<1>8. PartOwned' /\ FileOwned'
  <2>1. part[Here] = 0
    BY <1>0 DEF Inv, PartIsGone
  <2>2. \A p \in Paths \ late' : part[p] = 0
    BY <2>1, <1>5 DEF Inv, PartOwned, Current
  <2>3. \A p \in Paths \ late' : file[p] # 0 => p \in Listed' \cup cut'
    BY <1>3, <1>5 DEF Inv, FileOwned, Current
  <2> QED BY <2>2, <2>3, <1>4 DEF PartOwned, FileOwned
<1>9. Quiet
  BY <1>1, <1>2, <1>4, <1>5, <1>7 DEF Quiet, OrphansQuiet, NothingNew, LateQuiet, AnswerQuiet
<1> QED BY <1>2, <1>6, <1>7, <1>8, <1>9, InvFrom

LEMMA RemoveDownloadInv ==
  ASSUME Inv, NEW p \in Paths, RemoveDownload(p)
  PROVE  Inv'
<1>0. /\ Typed /\ song' = song /\ stage' = stage /\ answer' = answer
      /\ up' = up /\ commands' = commands /\ working' = working /\ curl' = curl /\ orphans' = orphans
      /\ late' = late /\ cut' = cut /\ removed' = removed \cup {p}
  BY DEF Inv, RemoveDownload, runnerVars
<1>1. /\ RunnerOK' /\ AnswerIsLast' /\ Owned' /\ WorkQuiet
      /\ WorkSongs' = WorkSongs /\ Active' = Active /\ Here' = Here
  BY <1>0, SameControl
<1>2. ListOK' /\ Listed' = Listed \ {p}
  <2>1. downloads' = Spliced(p) /\ ListOK
    BY <1>0 DEF RemoveDownload, Typed
  <2>2. /\ Spliced(p) \in Seq(Entries) /\ Len(Spliced(p)) <= Len(downloads)
        /\ \A i, k \in DOMAIN Spliced(p) : Spliced(p)[i].path = Spliced(p)[k].path => i = k
        /\ PathsOf(Spliced(p)) = Listed \ {p}
    BY <2>1, SplicedFacts
  <2>3. Len(Spliced(p)) \in Nat /\ Len(downloads) \in Nat /\ Len(downloads) <= ListMax /\ ListMax \in Nat
    BY <2>1, <2>2, LenProperties, Sizes DEF ListOK
  <2>4. Len(downloads') <= ListMax
    BY <2>1, <2>2, <2>3
  <2>5. ListOK'
    BY <2>1, <2>2, <2>4 DEF ListOK
  <2>6. Listed' = PathsOf(Spliced(p))
    BY <2>1 DEF Listed
  <2> QED BY <2>2, <2>5, <2>6
<1>3. /\ data' = data /\ part' = part /\ file' = [file EXCEPT ![p] = 0]
  BY DEF RemoveDownload
<1>4. /\ DiskOK' /\ DiskQuiet
      /\ file'[p] = 0 /\ \A q \in Paths : q # p => file'[q] = file[q]
  <2>1. DiskOK
    BY <1>0 DEF Typed
  <2>2. file' \in [Paths -> {0} \cup Inodes] /\ file'[p] = 0
        /\ \A q \in Paths : q # p => file'[q] = file[q]
    BY <2>1, <1>3 DEF DiskOK
  <2>3. DiskOK'
    BY <2>1, <2>2, <1>3 DEF DiskOK
  <2> QED BY <2>2, <2>3, <1>3 DEF DiskQuiet
<1>5. PageOK' /\ CurlOK' /\ HistOK'
  BY <1>0 DEF RemoveDownload, Typed, PageOK, CurlOK, HistOK
<1>6. Typed'
  BY <1>1, <1>2, <1>4, <1>5 DEF Typed
<1>8. PartOwned' /\ FileOwned'
  BY <1>0, <1>1, <1>2, <1>3, <1>4 DEF PartOwned, FileOwned, Current, Inv
<1>9. Quiet
  <2>1. \A q : AtWork(q)' = AtWork(q)
    BY <1>1 DEF AtWork
  <2>2. file'[Here] = file[Here] \/ Here \in removed'
    BY <1>0, <1>4, DiskFacts
  <2> QED BY <2>1, <2>2, <1>0, <1>1, <1>4 DEF Quiet, OrphansQuiet, NothingNew, LateQuiet, AnswerQuiet
<1> QED BY <1>1, <1>6, <1>8, <1>9, InvFrom

-----------------------------------------------------------------------------
(* The runner.                                                             *)

\* The command that is read is no longer waiting; nothing else is told or made.
LEMMA NextCommand ==
  ASSUME Inv, working = None, commands # <<>>, commands' = Tail(commands),
         working' # None => working'.song = Head(commands).song /\ Head(commands).what = "download"
  PROVE  /\ Head(commands) \in Commands /\ commands' \in Seq(Commands)
         /\ answer = None /\ curl = None
         /\ \A k \in DOMAIN commands' :
              commands'[k].mine =>
                /\ k = Len(commands')
                /\ IF commands'[k].what = "link" THEN stage = "link" ELSE Active /\ commands'[k].song = song
         /\ Head(commands).mine =>
              /\ commands' = <<>>
              /\ IF Head(commands).what = "link" THEN stage = "link" ELSE Active /\ Head(commands).song = song
         /\ WorkSongs' \subseteq WorkSongs
<1>0. RunnerOK
  BY DEF Inv, Typed
<1>1. /\ Head(commands) \in Commands /\ Head(commands) = commands[1]
      /\ commands' \in Seq(Commands)
      /\ Len(commands) \in Nat /\ Len(commands) >= 1 /\ Len(commands') = Len(commands) - 1
      /\ 1 \in DOMAIN commands
      /\ \A k \in DOMAIN commands' : k + 1 \in DOMAIN commands /\ commands'[k] = commands[k + 1]
  BY <1>0, TailFacts
<1>2. answer = None /\ curl = None
  BY DEF Inv, AnswerIsLast, CurlPlace
<1>3. \A k \in DOMAIN commands :
        commands[k].mine =>
          /\ k = Len(commands)
          /\ IF commands[k].what = "link" THEN stage = "link" ELSE Active /\ commands[k].song = song
  BY DEF Inv, AnswerIsLast
<1>4. DOMAIN commands' \subseteq Nat
  BY <1>1, LenProperties
<1>5. \A k \in DOMAIN commands' :
        commands'[k].mine =>
          /\ k = Len(commands')
          /\ IF commands'[k].what = "link" THEN stage = "link" ELSE Active /\ commands'[k].song = song
  BY <1>1, <1>3, <1>4
<1>6. Head(commands).mine =>
        /\ commands' = <<>>
        /\ IF Head(commands).what = "link" THEN stage = "link" ELSE Active /\ Head(commands).song = song
  <2>1. Head(commands).mine => 1 = Len(commands)
    BY <1>1, <1>3
  <2>2. Len(commands') = 0 => commands' = <<>>
    BY <1>1, EmptySeq
  <2> QED BY <1>1, <1>3, <2>1, <2>2
<1>7. ASSUME NEW s \in WorkSongs' PROVE s \in WorkSongs
  <2>1. CASE \E k \in DOMAIN commands' : commands'[k].what = "download" /\ s = commands'[k].song
    BY <2>1, <1>1 DEF WorkSongs, SongsOf
  <2>2. CASE working' # None /\ s = working'.song
    BY <2>2, <1>1 DEF WorkSongs, SongsOf
  <2> QED BY <2>1, <2>2, <1>7 DEF WorkSongs, SongsOf
<1> QED BY <1>1, <1>2, <1>5, <1>6, <1>7

LEMMA LinkRunsInv ==
  ASSUME Inv, LinkRuns
  PROVE  Inv'
<1>0. /\ Typed /\ song' = song /\ stage' = stage /\ working = None /\ working' = None
      /\ up' = up /\ up /\ curl' = curl /\ orphans' = orphans
      /\ late' = late /\ cut' = cut /\ Listed' = Listed /\ Active' = Active /\ Here' = Here
      /\ commands # <<>> /\ commands' = Tail(commands) /\ Head(commands).what = "link"
  BY DEF Inv, LinkRuns, histVars, Listed, Active, Here
<1>1. /\ commands' \in Seq(Commands) /\ answer = None /\ curl = None
      /\ \A k \in DOMAIN commands' :
           commands'[k].mine =>
             /\ k = Len(commands')
             /\ IF commands'[k].what = "link" THEN stage = "link" ELSE Active /\ commands'[k].song = song
      /\ Head(commands).mine => commands' = <<>> /\ stage = "link"
      /\ WorkSongs' \subseteq WorkSongs
  BY <1>0, NextCommand
<1>2. answer' = None \/ (answer' \in Answers /\ Head(commands).mine)
  BY <1>1 DEF LinkRuns, Respond, Answers
<1>3. answer' = None \/ (commands' = <<>> /\ ~Active')
  BY <1>0, <1>1, <1>2 DEF Active
<1>4. DiskOK' /\ DiskQuiet /\ part' = part /\ file' = file
  BY SameDisk DEF LinkRuns, diskVars
<1>5. ListOK' /\ PageOK' /\ HistOK' /\ CurlOK' /\ RunnerOK'
  BY <1>0, <1>1, <1>2 DEF LinkRuns, histVars, Typed, ListOK, PageOK, HistOK, CurlOK, RunnerOK
<1>6. Typed'
  BY <1>4, <1>5 DEF Typed
<1>7. AnswerIsLast'
  BY <1>0, <1>1, <1>3 DEF AnswerIsLast
<1>8. Owned' /\ PartOwned' /\ FileOwned'
  BY <1>0, <1>1, <1>4 DEF Owned, PartOwned, FileOwned, Current, Inv
<1>9. Quiet
  <2>1. \A p : AtWork(p)' => AtWork(p)
    BY <1>1 DEF AtWork
  <2> QED BY <2>1, <1>0, <1>1, <1>3, <1>4
      DEF Quiet, WorkQuiet, OrphansQuiet, NothingNew, LateQuiet, AnswerQuiet
<1> QED BY <1>5, <1>6, <1>7, <1>8, <1>9, InvFrom

LEMMA DownloadBeginsInv ==
  ASSUME Inv, DownloadBegins
  PROVE  Inv'
<1> DEFINE c == Head(commands)
<1>0. /\ Typed /\ song' = song /\ stage' = stage /\ answer' = answer /\ working = None
      /\ up' = up /\ up /\ curl' = curl /\ orphans' = orphans
      /\ late' = late /\ cut' = cut /\ Listed' = Listed /\ Active' = Active /\ Here' = Here
      /\ commands # <<>> /\ commands' = Tail(commands) /\ Head(commands).what = "download"
      /\ working' = [song |-> Head(commands).song, mine |-> Head(commands).mine, attempt |-> 1,
                 at |-> "curl", off |-> SizeOf(part[Path[Head(commands).song]]), size |-> 0]
  BY DEF Inv, DownloadBegins, pageVars, histVars, Listed, Active, Here
<1>1. /\ Head(commands) \in Commands /\ commands' \in Seq(Commands) /\ answer = None /\ curl = None
      /\ \A k \in DOMAIN commands' :
           commands'[k].mine =>
             /\ k = Len(commands')
             /\ IF commands'[k].what = "link" THEN stage = "link" ELSE Active /\ commands'[k].song = song
      /\ Head(commands).mine => commands' = <<>> /\ Active /\ Head(commands).song = song
      /\ WorkSongs' \subseteq WorkSongs
  BY <1>0, NextCommand
<1>2. /\ working' \in Works /\ working' # None /\ working'.song = Head(commands).song
      /\ working'.mine = Head(commands).mine /\ working'.at = "curl" /\ working'.attempt = 1
  <2>1. c.song \in Songs /\ c.mine \in BOOLEAN
    BY <1>1 DEF Commands
  <2>2. Path[c.song] \in Paths
    BY <2>1, PathIsPath
  <2> DEFINE n == part[Path[c.song]]
  <2>3. n \in {0} \cup Inodes /\ 0 \notin Inodes /\ \A i \in Inodes : Len(data[i]) \in Nat
    BY <2>2, <1>0, DiskFacts
  <2> HIDE DEF n
  <2>4. SizeOf(n) \in Nat
    BY <2>3 DEF SizeOf
  <2> USE DEF n
  <2>5. working' \in Works
    BY <2>1, <2>4, <1>0 DEF Works
  <2> QED BY <2>5, <1>0, NotNone
<1>4. part' = part /\ file' = file /\ data' = data /\ DiskOK'
  BY SameDisk DEF DownloadBegins, diskVars
<1>5. ListOK' /\ PageOK' /\ HistOK' /\ CurlOK'
  BY <1>0 DEF DownloadBegins, pageVars, histVars, Typed, ListOK, PageOK, HistOK, CurlOK
<1>6. RunnerOK'
  BY <1>0, <1>1, <1>2 DEF RunnerOK
<1>7. Typed'
  BY <1>4, <1>5, <1>6 DEF Typed
<1>8. AnswerIsLast'
  BY <1>0, <1>1, <1>2 DEF AnswerIsLast
<1>9. \A p : AtWork(p)' => AtWork(p)
  BY <1>1 DEF AtWork
<1>10. Owned' /\ PartOwned' /\ FileOwned'
  BY <1>0, <1>1, <1>4 DEF Owned, PartOwned, FileOwned, Current, Inv
<1>11. PartIsGone' /\ CurlPlace' /\ SecondIsFresh' /\ LongEnough' /\ CurlIsAtEnd' /\ FileIsBeginning'
  BY <1>0, <1>1, <1>2 DEF PartIsGone, CurlPlace, SecondIsFresh, LongEnough, CurlIsAtEnd, FileIsBeginning
<1>12. NamesDiffer'
  BY <1>4 DEF NamesDiffer, Inv
<1>13. OrphanPlace'
  BY <1>0, <1>4, <1>9 DEF OrphanPlace, Inv
<1>14. PartIsBeginning'
  BY <1>0, <1>4, <1>9 DEF PartIsBeginning, Inv
<1> QED BY <1>7, <1>8, <1>10, <1>11, <1>12, <1>13, <1>14 DEF Inv

-----------------------------------------------------------------------------
(* Those who write.                                                        *)

\* While the runner is at a song, nobody has an answer; what it is at is late, or
\* what the page waits for.
LEMMA AtCurl ==
  ASSUME Inv, working # None
  PROVE  /\ working \in Works /\ There \in Paths /\ AtWork(There) /\ answer = None
         /\ There \in late \/ (Current(There) /\ working.song = song)
<1>1. RunnerOK
  BY DEF Inv, Typed
<1>2. working \in Works /\ working.song \in WorkSongs /\ There \in Paths /\ AtWork(There)
  BY <1>1, ThereIsAtWork
<1>3. Path[working.song] \in late \/ (Active /\ working.song = song)
  BY <1>2 DEF Inv, Owned
<1>4. answer = None
  BY DEF Inv, AnswerIsLast
<1> QED BY <1>2, <1>3, <1>4 DEF There, Current, Here

LEMMA CurlOpensInv ==
  ASSUME Inv, CurlOpens
  PROVE  Inv'
<1> DEFINE resumes == working.attempt = 1 /\ part[There] # 0
           f == IF part[There] # 0 THEN part[There] ELSE Free
<1>0. /\ Typed /\ song' = song /\ stage' = stage /\ answer' = answer /\ working' = working
      /\ up' = up /\ commands' = commands /\ orphans' = orphans /\ file' = file
      /\ late' = late /\ cut' = cut /\ Listed' = Listed /\ removed' = removed
      /\ Active' = Active /\ Here' = Here /\ There' = There /\ WorkSongs' = WorkSongs
      /\ working # None /\ working.at = "curl" /\ curl = None
      /\ UNCHANGED <<downloads, selectedScript, taps, wanted, kills>>
  BY DEF Inv, CurlOpens, pageVars, histVars, Listed, Active, Here, There, WorkSongs
<1>1. /\ working \in Works /\ There \in Paths /\ AtWork(There) /\ answer = None
      /\ There \in late \/ (Current(There) /\ working.song = song)
  BY <1>0, AtCurl
<1>2. /\ part' = [part EXCEPT ![There] = f]
      /\ data' = IF resumes THEN data ELSE [data EXCEPT ![f] = <<>>]
      /\ curl' = [file |-> f, song |-> working.song, appends |-> working.attempt = 1,
                  from |-> IF resumes THEN Len(data[f]) ELSE 0, got |-> 0]
      /\ part[There] = 0 => Inodes \ InUse # {}
  BY DEF CurlOpens
<1>3. /\ \A p \in Paths : part[p] \in {0} \cup Inodes /\ file[p] \in {0} \cup Inodes
      /\ 0 \notin Inodes
      /\ \A i \in Inodes : data[i] \in Seq(Songs \X (1..Total)) /\ Len(data[i]) \in Nat
  BY <1>0, DiskFacts
<1>4. f \in Inodes /\ f # 0
  BY <1>1, <1>2, <1>3 DEF Free
\* The file that is emptied is one that nobody has.
<1>5. part[There] = 0 =>
        /\ \A p \in Paths : part[p] # f /\ file[p] # f
        /\ \A c \in orphans : c.file # f
  <2> SUFFICES ASSUME part[There] = 0
               PROVE  /\ \A p \in Paths : part[p] # f /\ file[p] # f
                      /\ \A c \in orphans : c.file # f
    OBVIOUS
  <2>1. f \notin InUse
    BY <1>2 DEF Free
  <2> HIDE DEF f
  <2> DEFINE names == {{part[p], file[p]} : p \in Paths}
             files == {c.file : c \in orphans}
  <2>2. InUse = (UNION names) \cup files
    BY DEF InUse
  <2>3. \A p \in Paths : {part[p], file[p]} \in names
    OBVIOUS
  <2>4. \A c \in orphans : c.file \in files
    OBVIOUS
  <2> HIDE DEF names, files
  <2>5. f \notin files /\ \A s \in names : f \notin s
    BY <2>1, <2>2
  <2>6. \A p \in Paths : part[p] # f /\ file[p] # f
    BY <2>3, <2>5
  <2> QED BY <2>4, <2>5, <2>6
<1>6. resumes <=> part[There] # 0
  <2>1. working.attempt \in 1..2
    BY <1>1 DEF Works
  <2> QED BY <2>1, <1>0 DEF Inv, SecondIsFresh
<1>7. part[There] # 0 => f = part[There]
  OBVIOUS
<1> HIDE DEF f, resumes
<1>8. /\ DOMAIN data' = Inodes /\ \A i \in Inodes : data'[i] \in Seq(Songs \X (1..Total))
      /\ \A i \in Inodes : i # f => data'[i] = data[i]
      /\ resumes => data' = data
      /\ ~resumes => data'[f] = <<>>
  <2>1. DOMAIN data = Inodes
    BY <1>0 DEF Typed, DiskOK
  <2>2. <<>> \in Seq(Songs \X (1..Total))
    OBVIOUS
  <2> QED BY <2>1, <2>2, <1>2, <1>3, <1>4
<1>9. /\ part' \in [Paths -> {0} \cup Inodes] /\ part'[There] = f
      /\ \A p \in Paths : p # There => part'[p] = part[p]
  <2>1. part \in [Paths -> {0} \cup Inodes]
    BY <1>0 DEF Typed, DiskOK
  <2> QED BY <2>1, <1>1, <1>2, <1>4
<1>10. /\ curl' \in Processes /\ curl' # None /\ curl'.file = f /\ curl'.song = working.song
       /\ curl'.from + curl'.got = Len(data'[f])
  <2>1. working.song \in Songs
    BY <1>1 DEF Works
  <2> DEFINE from == IF resumes THEN Len(data[f]) ELSE 0
             appends == working.attempt = 1
  <2>2. from \in Nat /\ from + 0 = Len(data'[f])
    <3>1. CASE resumes
      BY <3>1, <1>3, <1>4, <1>8
    <3>2. CASE ~resumes
      BY <3>2, <1>8
    <3> QED BY <3>1, <3>2
  <2>3. appends \in BOOLEAN
    OBVIOUS
  <2>4. curl' = [file |-> f, song |-> working.song, appends |-> appends, from |-> from, got |-> 0]
    BY <1>2
  <2> HIDE DEF from, appends
  <2>5. curl' \in Processes
    BY <2>1, <2>2, <2>3, <2>4, <1>4 DEF Processes
  <2> QED BY <2>2, <2>4, <2>5, NotNone
<1>11. Typed'
  <2>1. DiskOK'
    BY <1>0, <1>8, <1>9 DEF DiskOK, Typed
  <2>2. PageOK' /\ ListOK' /\ RunnerOK' /\ HistOK'
    BY <1>0 DEF Typed, PageOK, ListOK, RunnerOK, HistOK
  <2>3. CurlOK'
    BY <1>0, <1>10 DEF Typed, CurlOK
  <2> QED BY <2>1, <2>2, <2>3 DEF Typed
<1>12. AnswerIsLast' /\ Owned' /\ FileOwned'
  BY <1>0 DEF Inv, AnswerIsLast, Owned, FileOwned, Current
<1>13. PartOwned'
  BY <1>0, <1>1, <1>9 DEF Inv, PartOwned, Current
<1>14. PartIsGone' /\ SecondIsFresh' /\ LongEnough' /\ FileIsBeginning'
  BY <1>0, <1>1, <1>10 DEF PartIsGone, SecondIsFresh, LongEnough, FileIsBeginning
<1>15. NamesDiffer'
  <2>1. CASE part[There] # 0
    <3>1. \A p \in Paths : part'[p] = part[p]
      BY <2>1, <1>7, <1>9
    <3> QED BY <3>1, <1>0 DEF Inv, NamesDiffer
  <2>2. CASE part[There] = 0
    <3>1. \A p, q \in Paths : part'[p] # 0 /\ part'[p] = part'[q] => p = q
      BY <2>2, <1>5, <1>9 DEF Inv, NamesDiffer
    <3>2. \A p, q \in Paths : part'[p] # 0 => part'[p] # file[q]
      BY <2>2, <1>5, <1>9 DEF Inv, NamesDiffer
    <3> QED BY <3>1, <3>2, <1>0 DEF Inv, NamesDiffer
  <2> QED BY <2>1, <2>2
<1>16. CurlPlace'
  <2>1. \A p \in Paths : file[p] # f
    BY <1>1, <1>5, <1>7 DEF Inv, NamesDiffer
  <2>2. \A p \in Paths : part'[p] # 0 => (part'[p] = f <=> p = There)
    BY <1>5, <1>7, <1>9, <1>1 DEF Inv, NamesDiffer
  <2> QED BY <2>1, <2>2, <1>0, <1>10 DEF CurlPlace
<1>17. OrphanPlace'
  <2> SUFFICES ASSUME NEW c \in orphans, NEW p \in Paths \ late
               PROVE  file[p] # c.file /\ (part'[p] = c.file => ~AtWork(p)')
    BY <1>0 DEF OrphanPlace
  <2>1. AtWork(p)' = AtWork(p)
    BY <1>0 DEF AtWork
  <2>2. file[p] # c.file /\ (part[p] = c.file => ~AtWork(p))
    BY DEF Inv, OrphanPlace
  <2>3. CASE p # There
    BY <2>1, <2>2, <2>3, <1>9
  <2>4. CASE p = There
    BY <2>1, <2>2, <2>4, <1>1, <1>5, <1>7, <1>9
  <2> QED BY <2>3, <2>4
<1>18. PartIsBeginning'
  <2> SUFFICES ASSUME NEW p \in Paths \ late, AtWork(p)', part'[p] # 0
               PROVE  Begins(data'[part'[p]], song)
    BY <1>0 DEF PartIsBeginning
  <2>1. AtWork(p)
    BY <1>0 DEF AtWork
  <2>2. CASE part[p] # 0 /\ part'[p] = part[p]
    <3>1. Begins(data[part[p]], song)
      BY <2>1, <2>2 DEF Inv, PartIsBeginning
    <3>2. data'[part[p]] = data[part[p]]
      BY <2>2, <1>3, <1>5, <1>6, <1>8
    <3> QED BY <3>1, <3>2, <2>2
  <2>3. CASE p = There /\ part[There] = 0
    <3>1. data'[part'[p]] = <<>>
      BY <2>3, <1>6, <1>8, <1>9
    <3> QED BY <3>1, Sizes DEF Begins
  <2> QED BY <2>2, <2>3, <1>7, <1>9
<1>19. CurlIsAtEnd'
  BY <1>10 DEF CurlIsAtEnd
<1> QED BY <1>11, <1>12, <1>13, <1>14, <1>15, <1>16, <1>17, <1>18, <1>19 DEF Inv

\* A piece that is written makes the file no shorter, and longer by the next
\* piece if that is where curl is.
LEMMA WrittenFacts ==
  ASSUME NEW c \in Processes, CanFetch(c), data[c.file] \in Seq(Songs \X (1..Total))
  PROVE  /\ Written(c) \in Seq(Songs \X (1..Total))
         /\ Len(Written(c)) \in Nat /\ Len(Written(c)) >= Len(data[c.file])
         /\ Fetched(c) \in Processes /\ Fetched(c).file = c.file /\ Fetched(c).song = c.song
         /\ c.from + c.got = Len(data[c.file]) =>
              /\ Fetched(c).from + Fetched(c).got = Len(Written(c))
              /\ Begins(data[c.file], c.song) => Begins(Written(c), c.song)
<1> DEFINE P == Songs \X (1..Total)
           d == data[c.file]
           next == c.from + c.got + 1
           x == Piece(c.song, next)
           w == Written(c)
<1>1. c.from \in Nat /\ c.got \in Nat /\ c.song \in Songs /\ Total \in Nat /\ next \in 1..Total
  BY Sizes DEF Processes, CanFetch
<1>2. x \in P
  BY <1>1 DEF Piece
<1>3. d \in Seq(P) /\ Len(d) \in Nat
  BY LenProperties
<1>4. w = IF c.appends \/ next > Len(d) THEN Append(d, x) ELSE [d EXCEPT ![next] = x]
  BY DEF Written
<1>5. /\ Fetched(c) \in Processes /\ Fetched(c).file = c.file /\ Fetched(c).song = c.song
      /\ Fetched(c).from = c.from /\ Fetched(c).got = c.got + 1
  BY DEF Fetched, Processes
<1> HIDE DEF P, d, x, w
<1>6. CASE c.appends \/ next > Len(d)
  <2>1. w = Append(d, x)
    BY <1>4, <1>6
  <2>2. /\ w \in Seq(P) /\ Len(w) = Len(d) + 1
        /\ \A i \in 1..Len(d) : w[i] = d[i]
        /\ w[Len(d) + 1] = x
    BY <1>2, <1>3, <2>1, AppendProperties
  <2>3. Len(w) \in Nat /\ Len(w) >= Len(d)
    BY <2>2, <1>3
  <2>4. c.from + c.got = Len(d) => Fetched(c).from + Fetched(c).got = Len(w)
    BY <1>1, <1>3, <1>5, <2>2
  <2>5. ASSUME c.from + c.got = Len(d), Begins(d, c.song)
        PROVE  Begins(w, c.song)
    <3>1. next = Len(d) + 1 /\ Len(w) <= Total /\ next = Len(w)
      BY <2>5, <1>1, <2>2
    <3>2. ASSUME NEW i \in 1..Len(w) PROVE w[i] = Piece(c.song, i)
      <4>1. CASE i \in 1..Len(d)
        BY <4>1, <2>2, <2>5 DEF Begins
      <4>2. CASE i = next
        BY <4>2, <3>1, <2>2 DEF x
      <4> QED BY <4>1, <4>2, <3>1, <1>3
    <3> QED BY <3>1, <3>2 DEF Begins
  <2> QED BY <2>2, <2>3, <2>4, <2>5, <1>5 DEF P, d, w
<1>7. CASE ~(c.appends \/ next > Len(d))
  <2>1. w = [d EXCEPT ![next] = x] /\ next \in 1..Len(d)
    BY <1>1, <1>3, <1>4, <1>7
  <2>2. w \in Seq(P) /\ Len(w) = Len(d)
    BY <1>2, <1>3, <2>1, ExceptSeq
  <2>3. c.from + c.got # Len(d)
    BY <2>1, <1>1, <1>3
  <2>4. Len(w) \in Nat /\ Len(w) >= Len(d)
    BY <2>2, <1>3
  <2> QED BY <2>2, <2>3, <2>4, <1>5 DEF P, d, w
<1> QED BY <1>6, <1>7

\* What a write leaves of the disk.
LEMMA WriteFacts ==
  ASSUME Inv, NEW c \in Processes, CanFetch(c), data' = [data EXCEPT ![c.file] = Written(c)],
         part' = part, file' = file
  PROVE  /\ DiskOK'
         /\ data'[c.file] = Written(c)
         /\ \A i \in Inodes : i # c.file => data'[i] = data[i]
         /\ \A i \in Inodes : Len(data[i]) \in Nat /\ Len(data'[i]) \in Nat /\ Len(data'[i]) >= Len(data[i])
<1>1. DiskOK /\ c.file \in Inodes
  BY DEF Inv, Typed, Processes
<1>2. data[c.file] \in Seq(Songs \X (1..Total))
  BY <1>1 DEF DiskOK
<1>3. /\ Written(c) \in Seq(Songs \X (1..Total))
      /\ Len(Written(c)) \in Nat /\ Len(Written(c)) >= Len(data[c.file])
  BY <1>2, WrittenFacts
<1>4. /\ DOMAIN data' = Inodes /\ data'[c.file] = Written(c)
      /\ \A i \in Inodes : i # c.file => data'[i] = data[i]
  BY <1>1 DEF DiskOK
<1>5. \A i \in Inodes : data'[i] \in Seq(Songs \X (1..Total))
  BY <1>1, <1>3, <1>4 DEF DiskOK
<1>6. DiskOK'
  BY <1>1, <1>4, <1>5 DEF DiskOK
<1>7. \A i \in Inodes : Len(data[i]) \in Nat
  <2>1. \A i \in Inodes : data[i] \in Seq(Songs \X (1..Total))
    BY <1>1 DEF DiskOK
  <2> QED BY <2>1, LenProperties
<1>8. ASSUME NEW i \in Inodes
      PROVE  Len(data'[i]) \in Nat /\ Len(data'[i]) >= Len(data[i])
  <2>1. CASE i = c.file
    BY <2>1, <1>3, <1>4
  <2>2. CASE i # c.file
    <3>1. data'[i] = data[i] /\ Len(data[i]) \in Nat
      BY <2>2, <1>4, <1>7
    <3> QED BY <3>1
  <2> QED BY <2>1, <2>2
<1> QED BY <1>4, <1>6, <1>7, <1>8

LEMMA CurlFetchesInv ==
  ASSUME Inv, CurlFetches
  PROVE  Inv'
<1>0. /\ Typed /\ song' = song /\ stage' = stage /\ answer' = answer /\ working' = working
      /\ up' = up /\ commands' = commands /\ orphans' = orphans /\ file' = file /\ part' = part
      /\ late' = late /\ cut' = cut /\ Listed' = Listed /\ removed' = removed
      /\ Active' = Active /\ Here' = Here /\ There' = There /\ WorkSongs' = WorkSongs
      /\ curl # None /\ CanFetch(curl)
      /\ data' = [data EXCEPT ![curl.file] = Written(curl)] /\ curl' = Fetched(curl)
      /\ UNCHANGED <<downloads, selectedScript, taps, wanted, kills>>
  BY DEF Inv, CurlFetches, pageVars, histVars, Listed, Active, Here, There, WorkSongs
<1>1. /\ working # None /\ working.at = "curl" /\ curl.song = working.song
      /\ \A p \in Paths : file[p] # curl.file
      /\ \A p \in Paths : part[p] # 0 => (part[p] = curl.file <=> p = There)
  BY <1>0 DEF Inv, CurlPlace
<1>2. /\ There \in Paths /\ answer = None
      /\ There \in late \/ (Current(There) /\ working.song = song)
  BY <1>1, AtCurl
<1>3. /\ curl \in Processes
      /\ \A p \in Paths : part[p] \in {0} \cup Inodes
      /\ data[curl.file] \in Seq(Songs \X (1..Total))
  BY <1>0, DiskFacts
<1>4. /\ Fetched(curl) \in Processes /\ Fetched(curl).file = curl.file /\ Fetched(curl).song = curl.song
      /\ curl.from + curl.got = Len(data[curl.file]) =>
           /\ Fetched(curl).from + Fetched(curl).got = Len(Written(curl))
           /\ Begins(data[curl.file], curl.song) => Begins(Written(curl), curl.song)
  BY <1>0, <1>3, WrittenFacts
<1>5. /\ DiskOK' /\ data'[curl.file] = Written(curl)
      /\ \A i \in Inodes : i # curl.file => data'[i] = data[i]
  BY <1>0, <1>3, WriteFacts
<1>6. Typed'
  <2>1. PageOK' /\ ListOK' /\ RunnerOK' /\ HistOK'
    BY <1>0 DEF Typed, PageOK, ListOK, RunnerOK, HistOK
  <2>2. CurlOK'
    BY <1>0, <1>4 DEF Typed, CurlOK
  <2> QED BY <2>1, <2>2, <1>5 DEF Typed
<1>7. AnswerIsLast' /\ Owned' /\ PartOwned' /\ FileOwned'
  BY <1>0 DEF Inv, AnswerIsLast, Owned, PartOwned, FileOwned, Current
<1>8. curl' # None
  BY <1>0, <1>4, NotNone
<1>9. PartIsGone' /\ SecondIsFresh' /\ LongEnough' /\ FileIsBeginning'
  BY <1>0, <1>1, <1>2, <1>8 DEF PartIsGone, SecondIsFresh, LongEnough, FileIsBeginning
<1>10. NamesDiffer'
  BY <1>0 DEF Inv, NamesDiffer
<1>11. CurlPlace'
  BY <1>0, <1>1, <1>4 DEF CurlPlace
<1>12. \A p : AtWork(p)' = AtWork(p)
  BY <1>0 DEF AtWork
<1>13. OrphanPlace'
  BY <1>0, <1>12 DEF Inv, OrphanPlace
<1>14. There \notin late /\ part[There] # 0 =>
         /\ part[There] = curl.file /\ curl.song = song
         /\ curl.from + curl.got = Len(data[curl.file])
  BY <1>0, <1>1, <1>2 DEF Inv, CurlIsAtEnd
<1>15. PartIsBeginning'
  <2> SUFFICES ASSUME NEW p \in Paths \ late, AtWork(p), part[p] # 0
               PROVE  Begins(data'[part[p]], song)
    BY <1>0, <1>12 DEF PartIsBeginning
  <2>1. Begins(data[part[p]], song)
    BY DEF Inv, PartIsBeginning
  <2>2. CASE p = There
    BY <2>1, <2>2, <1>4, <1>5, <1>14
  <2>3. CASE p # There
    <3>1. part[p] # curl.file /\ part[p] \in Inodes
      BY <2>3, <1>1, <1>3
    <3> QED BY <3>1, <2>1, <1>5
  <2> QED BY <2>2, <2>3
<1>16. CurlIsAtEnd'
  BY <1>0, <1>4, <1>5, <1>14 DEF CurlIsAtEnd
<1> QED BY <1>6, <1>7, <1>9, <1>10, <1>11, <1>13, <1>15, <1>16 DEF Inv

LEMMA OrphanFetchesInv ==
  ASSUME Inv, NEW c \in orphans, OrphanFetches(c)
  PROVE  Inv'
<1>0. /\ Typed /\ song' = song /\ stage' = stage /\ answer' = answer /\ working' = working
      /\ up' = up /\ commands' = commands /\ curl' = curl /\ file' = file /\ part' = part
      /\ late' = late /\ cut' = cut /\ Listed' = Listed /\ removed' = removed
      /\ Active' = Active /\ Here' = Here /\ There' = There /\ WorkSongs' = WorkSongs
      /\ CanFetch(c)
      /\ data' = [data EXCEPT ![c.file] = Written(c)]
      /\ orphans' = (orphans \ {c}) \cup {Fetched(c)}
      /\ UNCHANGED <<downloads, selectedScript, taps, wanted, kills>>
  BY DEF Inv, OrphanFetches, pageVars, runnerVars, histVars, Listed, Active, Here, There, WorkSongs
<1>1. c \in Processes
  BY <1>0 DEF Typed, CurlOK
<1>2. /\ Here \in Paths
      /\ \A p \in Paths : part[p] \in {0} \cup Inodes /\ file[p] \in {0} \cup Inodes
      /\ c.file \in Inodes /\ data[c.file] \in Seq(Songs \X (1..Total))
  BY <1>0, DiskFacts
<1>3. Fetched(c) \in Processes /\ Fetched(c).file = c.file
  BY <1>0, <1>1, <1>2, WrittenFacts
<1>4. /\ DiskOK'
      /\ \A i \in Inodes : i # c.file => data'[i] = data[i]
      /\ \A i \in Inodes : Len(data[i]) \in Nat /\ Len(data'[i]) \in Nat /\ Len(data'[i]) >= Len(data[i])
  BY <1>0, <1>1, WriteFacts
<1>5. Typed'
  <2>1. PageOK' /\ ListOK' /\ RunnerOK' /\ HistOK'
    BY <1>0 DEF Typed, PageOK, ListOK, RunnerOK, HistOK
  <2>2. CurlOK'
    BY <1>0, <1>3 DEF Typed, CurlOK
  <2> QED BY <2>1, <2>2, <1>4 DEF Typed
<1>6. AnswerIsLast' /\ Owned' /\ PartOwned' /\ FileOwned' /\ PartIsGone'
  BY <1>0 DEF Inv, AnswerIsLast, Owned, PartOwned, FileOwned, PartIsGone, Current
<1>7. NamesDiffer' /\ CurlPlace' /\ SecondIsFresh'
  BY <1>0 DEF Inv, NamesDiffer, CurlPlace, SecondIsFresh
<1>8. \A p : AtWork(p)' = AtWork(p)
  BY <1>0 DEF AtWork
<1>9. \A p \in Paths \ late : file[p] # c.file /\ (part[p] = c.file => ~AtWork(p))
  BY DEF Inv, OrphanPlace
<1>10. OrphanPlace'
  BY <1>0, <1>3, <1>8, <1>9 DEF Inv, OrphanPlace
<1>11. LongEnough'
  <2>1. working' # None /\ working'.at = "rename" /\ part'[There'] # 0 =>
          Len(data'[part'[There']]) >= working'.size
    <3> SUFFICES ASSUME working # None, working.at = "rename", part[There] # 0
                 PROVE  Len(data'[part[There]]) >= working.size
      BY <1>0
    <3>1. There \in Paths /\ working \in Works
      BY AtCurl
    <3> DEFINE i == part[There]
    <3>2. i \in Inodes /\ working.size \in Nat
      BY <3>1, <1>2 DEF Works
    <3>3. Len(data[i]) >= working.size
      BY DEF Inv, LongEnough
    <3> HIDE DEF i
    <3>4. Len(data'[i]) >= working.size
      BY <3>2, <3>3, <1>4
    <3> QED BY <3>4 DEF i
  <2>2. ASSUME NEW size \in Nat, FileHas(size)
        PROVE  FileHas(size)'
    <3> DEFINE i == file[Here]
    <3>1. i \in Inodes /\ i # 0 /\ Len(data[i]) >= size
      BY <2>2, <1>2 DEF FileHas
    <3>2. i = file'[Here']
      BY <1>0
    <3> HIDE DEF i
    <3>3. Len(data'[i]) >= size
      BY <3>1, <1>4
    <3> QED BY <3>1, <3>2, <3>3 DEF FileHas
  <2>3. working # None => working.size \in Nat
    BY AtCurl DEF Works
  <2>4. answer # None => answer.size \in Nat
    <3>1. answer # None => answer \in Answers
      BY <1>0 DEF Typed, PageOK
    <3> QED BY <3>1 DEF Answers
  <2>5. ASSUME working # None, working.at = "answer", working.mine, Here \notin removed
        PROVE  FileHas(working.size)'
    <3>1. FileHas(working.size)
      BY <2>5 DEF Inv, LongEnough
    <3>2. FileHas(working.size)'
      <4> DEFINE z == working.size
      <4>1. z \in Nat /\ FileHas(z)
        BY <3>1, <2>3, <2>5
      <4>2. z' = z
        BY <1>0
      <4> HIDE DEF z
      <4>3. file'[Here'] # 0 /\ Len(data'[file'[Here']]) >= z
        BY <4>1, <2>2 DEF FileHas
      <4> QED BY <4>2, <4>3, <1>0 DEF FileHas, z
    <3> QED BY <3>2
  <2>6. ASSUME Active, answer # None, answer.ok, Here \notin removed
        PROVE  FileHas(answer.size)'
    <3>1. FileHas(answer.size)
      BY <2>6 DEF Inv, LongEnough
    <3>2. FileHas(answer.size)'
      <4> DEFINE z == answer.size
      <4>1. z \in Nat /\ FileHas(z)
        BY <3>1, <2>4, <2>6
      <4>2. z' = z
        BY <1>0
      <4> HIDE DEF z
      <4>3. file'[Here'] # 0 /\ Len(data'[file'[Here']]) >= z
        BY <4>1, <2>2 DEF FileHas
      <4> QED BY <4>2, <4>3, <1>0 DEF FileHas, z
    <3> QED BY <3>2
  <2> QED BY <2>1, <2>5, <2>6, <1>0 DEF LongEnough
<1>12. PartIsBeginning'
  <2> SUFFICES ASSUME NEW p \in Paths \ late, AtWork(p), part[p] # 0
               PROVE  Begins(data'[part[p]], song)
    BY <1>0, <1>8 DEF PartIsBeginning
  <2>1. Begins(data[part[p]], song)
    BY DEF Inv, PartIsBeginning
  <2>2. part[p] # c.file /\ part[p] \in Inodes
    BY <1>2, <1>9
  <2> QED BY <2>1, <2>2, <1>4
<1>13. CurlIsAtEnd'
  <2> SUFFICES ASSUME curl # None, There \notin late, part[There] # 0
               PROVE  curl.from + curl.got = Len(data'[curl.file])
    BY <1>0 DEF CurlIsAtEnd
  <2>1. working # None /\ There \in Paths /\ AtWork(There)
    BY AtCurl DEF Inv, CurlPlace
  <2>2. part[There] = curl.file
    BY <2>1 DEF Inv, CurlPlace
  <2>3. curl.file # c.file /\ curl.file \in Inodes
    BY <2>1, <2>2, <1>2, <1>9
  <2> QED BY <2>3, <1>4 DEF Inv, CurlIsAtEnd
<1>14. FileIsBeginning'
  <2>1. Here \notin late /\ file[Here] # 0 => data'[file[Here]] = data[file[Here]]
    BY <1>2, <1>4, <1>9
  <2> QED BY <2>1, <1>0 DEF Inv, FileIsBeginning
<1> QED BY <1>5, <1>6, <1>7, <1>10, <1>11, <1>12, <1>13, <1>14 DEF Inv

-----------------------------------------------------------------------------
(* The runner goes on, fails or answers.                                   *)

\* The steps in which the runner, at a song, goes on with it or is done: what they
\* have in common.  New names on the disk are for RenameInv to explain.
LEMMA GoOn ==
  ASSUME Inv, working # None,
         UNCHANGED <<stage, song, downloads, selectedScript, up, commands, orphans, data, histVars>>,
         curl' = None,
         working' = None \/ (working' \in Works /\ working'.song = working.song /\ working'.mine = working.mine),
         answer' = None \/ (working' = None /\ working.mine /\ answer' \in Answers)
  PROVE  /\ PageOK' /\ ListOK' /\ RunnerOK' /\ CurlOK' /\ HistOK'
         /\ AnswerIsLast' /\ Owned' /\ CurlPlace' /\ CurlIsAtEnd'
         /\ Active' = Active /\ Here' = Here /\ Listed' = Listed /\ late' = late /\ cut' = cut /\ removed' = removed
         /\ \A p : AtWork(p)' => AtWork(p)
         /\ working.mine => Active /\ working.song = song /\ There = Here
<1>0. /\ Typed
      /\ Active' = Active /\ Here' = Here /\ Listed' = Listed /\ late' = late /\ cut' = cut /\ removed' = removed
      /\ UNCHANGED <<taps, wanted, kills>>
  BY DEF Inv, histVars, Active, Here, Listed
<1>1. /\ working \in Works /\ working.song \in WorkSongs
  BY <1>0, ThereIsAtWork DEF Typed
<1>2. working.mine => commands = <<>> /\ Active /\ working.song = song
  BY DEF Inv, AnswerIsLast
<1>3. WorkSongs' \subseteq WorkSongs
  <2>1. ASSUME NEW s \in WorkSongs' PROVE s \in WorkSongs
    <3>1. CASE \E k \in DOMAIN commands : commands[k].what = "download" /\ s = commands[k].song
      BY <3>1 DEF WorkSongs, SongsOf
    <3>2. CASE working' # None /\ s = working'.song
      BY <3>2, <1>1
    <3> QED BY <3>1, <3>2, <2>1 DEF WorkSongs, SongsOf
  <2> QED BY <2>1
<1>4. \A p : AtWork(p)' => AtWork(p)
  BY <1>3 DEF AtWork
<1>5. PageOK' /\ ListOK' /\ CurlOK' /\ HistOK'
  BY <1>0 DEF Typed, PageOK, ListOK, CurlOK, HistOK
<1>6. RunnerOK'
  BY <1>0 DEF Typed, RunnerOK
<1>7. AnswerIsLast'
  BY <1>0, <1>2 DEF Inv, AnswerIsLast
<1>8. Owned'
  BY <1>0, <1>3 DEF Inv, Owned
<1>9. CurlPlace' /\ CurlIsAtEnd'
  BY DEF CurlPlace, CurlIsAtEnd
<1>10. working.mine => There = Here
  BY <1>2 DEF There, Here
<1> QED BY <1>0, <1>2, <1>4, <1>5, <1>6, <1>7, <1>8, <1>9, <1>10

\* Without a new name on the disk.
LEMMA GoOnDisk ==
  ASSUME Inv, UNCHANGED <<stage, song, orphans, data, late, cut>>, DiskOK',
         Listed' = Listed, \A p : AtWork(p)' => AtWork(p),
         \A p \in Paths : part'[p] \in {0, part[p]} /\ file'[p] = file[p]
  PROVE  PartOwned' /\ FileOwned' /\ NamesDiffer' /\ OrphanPlace' /\ PartIsBeginning'
<1>0. Typed /\ \A p : Current(p)' = Current(p)
  BY DEF Inv, Current, Active, Here
<1>1. PartOwned' /\ FileOwned'
  BY <1>0 DEF Inv, PartOwned, FileOwned
<1>2. NamesDiffer'
  BY DEF Inv, NamesDiffer
<1>3. OrphanPlace'
  <2>1. \A c \in orphans : c.file # 0
    BY <1>0, DiskFacts
  <2> QED BY <2>1 DEF Inv, OrphanPlace
<1>4. PartIsBeginning'
  BY DEF Inv, PartIsBeginning
<1> QED BY <1>1, <1>2, <1>3, <1>4

LEMMA FailsInv ==
  ASSUME Inv, working # None, Fails, curl' = None,
         UNCHANGED <<stage, song, downloads, selectedScript, up, commands, orphans, data, file, histVars>>
  PROVE  Inv'
<1>0. /\ Typed /\ working \in Works /\ There \in Paths /\ answer = None
      /\ late' = late /\ cut' = cut /\ Listed' = Listed
  <2>1. Typed /\ late' = late /\ cut' = cut /\ Listed' = Listed
    BY DEF Inv, histVars, Listed
  <2> QED BY <2>1, AtCurl
<1>1. DiskOK /\ file' = file /\ data' = data
  BY <1>0 DEF Typed
<1>2. CASE NextAttempt
  <2>1. /\ working' \in Works /\ working' # None /\ working'.song = working.song /\ working'.mine = working.mine
        /\ working'.attempt = 2 /\ working'.at = "curl" /\ There' = There
    <3>1. /\ working' \in Works /\ working'.song = working.song /\ working'.mine = working.mine
          /\ working'.attempt = 2 /\ working'.at = "curl"
      <4>1. working' = [working EXCEPT !.attempt = 2, !.at = "curl", !.off = 0]
        BY <1>2 DEF NextAttempt
      <4>2. /\ working'.song = working.song /\ working'.mine = working.mine
            /\ working'.attempt = 2 /\ working'.at = "curl"
        BY <4>1, <1>0 DEF Works
      <4>3. working' = [song |-> working.song, mine |-> working.mine, attempt |-> 2, at |-> "curl",
                        off |-> 0, size |-> working.size]
        BY <4>1, <1>0 DEF Works
      <4>4. working.song \in Songs /\ working.mine \in BOOLEAN /\ working.size \in Nat
        BY <1>0 DEF Works
      <4>5. working' \in Works
        BY <4>3, <4>4 DEF Works
      <4> QED BY <4>2, <4>5
    <3> QED BY <3>1, NotNone DEF There
  <2>2. answer' = None
    BY <1>0, <1>2 DEF NextAttempt
  <2>3. /\ DiskOK' /\ part'[There] = 0
        /\ \A p \in Paths : part'[p] \in {0, part[p]} /\ file'[p] = file[p]
    <3>1. part' \in [Paths -> {0} \cup Inodes] /\ part'[There] = 0
          /\ \A p \in Paths : part'[p] \in {0, part[p]}
      BY <1>0, <1>1, <1>2 DEF NextAttempt, DiskOK
    <3>2. DiskOK'
      BY <1>1, <3>1 DEF DiskOK
    <3> QED BY <3>1, <3>2
  <2>4. /\ PageOK' /\ ListOK' /\ RunnerOK' /\ CurlOK' /\ HistOK'
        /\ AnswerIsLast' /\ Owned' /\ CurlPlace' /\ CurlIsAtEnd'
        /\ \A p : AtWork(p)' => AtWork(p)
    BY <2>1, <2>2, GoOn
  <2>5. PartOwned' /\ FileOwned' /\ NamesDiffer' /\ OrphanPlace' /\ PartIsBeginning'
    BY <1>0, <2>3, <2>4, GoOnDisk
  <2>6. PartIsGone' /\ LongEnough' /\ FileIsBeginning' /\ SecondIsFresh'
    BY <2>1, <2>2, <2>3 DEF PartIsGone, LongEnough, FileIsBeginning, SecondIsFresh
  <2>7. Typed'
    BY <2>3, <2>4 DEF Typed
  <2> QED BY <2>4, <2>5, <2>6, <2>7 DEF Inv
<1>3. CASE working' = None /\ UNCHANGED part /\ Respond(working.mine, FALSE, 0)
  <2>1. answer' = None \/ (working.mine /\ answer' \in Answers /\ ~answer'.ok)
    BY <1>0, <1>3 DEF Respond, Answers
  <2>3. DiskOK' /\ \A p \in Paths : part'[p] \in {0, part[p]} /\ file'[p] = file[p]
    BY <1>1, <1>3 DEF DiskOK
  <2>4. /\ PageOK' /\ ListOK' /\ RunnerOK' /\ CurlOK' /\ HistOK'
        /\ AnswerIsLast' /\ Owned' /\ CurlPlace' /\ CurlIsAtEnd'
        /\ \A p : AtWork(p)' => AtWork(p)
    BY <1>3, <2>1, GoOn
  <2>5. PartOwned' /\ FileOwned' /\ NamesDiffer' /\ OrphanPlace' /\ PartIsBeginning'
    BY <1>0, <2>3, <2>4, GoOnDisk
  <2>6. PartIsGone' /\ LongEnough' /\ FileIsBeginning' /\ SecondIsFresh'
    BY <1>3, <2>1 DEF PartIsGone, LongEnough, FileIsBeginning, SecondIsFresh
  <2>7. Typed'
    BY <2>3, <2>4 DEF Typed
  <2> QED BY <2>4, <2>5, <2>6, <2>7 DEF Inv
<1> QED BY <1>2, <1>3 DEF Fails

LEMMA CurlEndsInv ==
  ASSUME Inv, CurlEnds
  PROVE  Inv'
<1> DEFINE size == SizeOf(part[There])
<1>0. /\ working # None /\ working.at = "curl" /\ curl' = None
      /\ UNCHANGED <<stage, song, downloads, selectedScript, up, commands, orphans, data, file, histVars>>
  BY DEF CurlEnds, Inv, CurlPlace
<1>1. CASE Fails
  BY <1>0, <1>1, FailsInv
<1>2. CASE /\ part[There] # 0
           /\ working' = [working EXCEPT !.at = "rename", !.size = size]
           /\ UNCHANGED <<answer, part>>
  <2>0. /\ Typed /\ working \in Works /\ There \in Paths /\ answer = None
        /\ late' = late /\ cut' = cut /\ Listed' = Listed
    <3>1. Typed /\ late' = late /\ cut' = cut /\ Listed' = Listed
      BY <1>0 DEF Inv, histVars, Listed
    <3> QED BY <1>0, <3>1, AtCurl
  <2>1. size \in Nat /\ size = Len(data[part[There]])
    <3>1. part[There] \in Inodes /\ \A i \in Inodes : Len(data[i]) \in Nat
      BY <1>2, <2>0, DiskFacts
    <3> QED BY <3>1, <1>2 DEF SizeOf
  <2> HIDE DEF size
  <2>2. /\ working' \in Works /\ working'.song = working.song /\ working'.mine = working.mine
        /\ working'.at = "rename" /\ working'.size = size
    BY <1>2, <2>0, <2>1 DEF Works
  <2>3. working' # None /\ There' = There
    BY <2>2, NotNone DEF There
  <2>4. answer' = None
    BY <1>2, <2>0
  <2>5. DiskOK' /\ part' = part /\ file' = file /\ data' = data
    BY <1>0, <1>2, <2>0 DEF Typed, DiskOK
  <2>6. /\ PageOK' /\ ListOK' /\ RunnerOK' /\ CurlOK' /\ HistOK'
        /\ AnswerIsLast' /\ Owned' /\ CurlPlace' /\ CurlIsAtEnd'
        /\ \A p : AtWork(p)' => AtWork(p)
    BY <1>0, <2>2, <2>4, GoOn
  <2>7. PartOwned' /\ FileOwned' /\ NamesDiffer' /\ OrphanPlace' /\ PartIsBeginning'
    BY <1>0, <2>0, <2>5, <2>6, GoOnDisk
  <2>8. PartIsGone' /\ FileIsBeginning' /\ SecondIsFresh'
    BY <2>2, <2>3, <2>4 DEF PartIsGone, FileIsBeginning, SecondIsFresh
  <2>9. LongEnough'
    BY <2>1, <2>2, <2>3, <2>4, <2>5 DEF LongEnough
  <2>10. Typed'
    BY <2>5, <2>6 DEF Typed
  <2> QED BY <2>6, <2>7, <2>8, <2>9, <2>10 DEF Inv
<1> QED BY <1>1, <1>2 DEF CurlEnds

LEMMA RenameInv ==
  ASSUME Inv, Rename
  PROVE  Inv'
<1>0. /\ working # None /\ working.at = "rename" /\ curl = None /\ curl' = None
      /\ UNCHANGED <<stage, song, downloads, selectedScript, up, commands, orphans, data, histVars>>
  BY DEF Rename, Inv, CurlPlace
<1>1. CASE part[There] = 0
  BY <1>0, <1>1, FailsInv DEF Rename
<1>2. CASE part[There] # 0
  <2>0. /\ Typed /\ working \in Works /\ There \in Paths /\ AtWork(There) /\ answer = None
        /\ There \in late \/ (Current(There) /\ working.song = song)
    BY <1>0, AtCurl DEF Inv
  <2>1. /\ file' = [file EXCEPT ![There] = part[There]] /\ part' = [part EXCEPT ![There] = 0]
        /\ working' = [working EXCEPT !.at = "answer"] /\ answer' = None
    BY <1>2, <2>0 DEF Rename
  <2>2. /\ working' \in Works /\ working'.song = working.song /\ working'.mine = working.mine
        /\ working'.at = "answer" /\ working'.size = working.size
    BY <2>0, <2>1 DEF Works
  <2>3. working' # None /\ There' = There
    BY <2>2, NotNone DEF There
  <2>4. /\ PageOK' /\ ListOK' /\ RunnerOK' /\ CurlOK' /\ HistOK'
        /\ AnswerIsLast' /\ Owned' /\ CurlPlace' /\ CurlIsAtEnd'
        /\ Active' = Active /\ Here' = Here /\ Listed' = Listed /\ late' = late /\ cut' = cut /\ removed' = removed
        /\ \A p : AtWork(p)' => AtWork(p)
        /\ working.mine => Active /\ working.song = song /\ There = Here
    BY <1>0, <2>1, <2>2, GoOn
  <2>5. /\ part'[There] = 0 /\ file'[There] = part[There]
        /\ \A p \in Paths : p # There => part'[p] = part[p] /\ file'[p] = file[p]
    BY <2>0, <2>1 DEF Typed, DiskOK
  <2>6. DiskOK'
    <3>1. file' \in [Paths -> {0} \cup Inodes] /\ part' \in [Paths -> {0} \cup Inodes]
      BY <2>0, <2>1 DEF Typed, DiskOK
    <3> QED BY <3>1, <1>0, <2>0 DEF Typed, DiskOK
  <2>7. Typed'
    BY <2>4, <2>6 DEF Typed
  <2>8. \A p : Current(p)' = Current(p)
    BY <2>4 DEF Current
  <2>9. PartOwned' /\ FileOwned'
    BY <2>0, <2>4, <2>5, <2>8 DEF Inv, PartOwned, FileOwned
  <2>10. PartIsGone' /\ SecondIsFresh'
    BY <2>1, <2>2, <2>3, <2>5 DEF PartIsGone, SecondIsFresh
  <2>11. NamesDiffer'
    <3>1. \A p, q \in Paths : part'[p] # 0 /\ part'[p] = part'[q] => p = q
      BY <2>5 DEF Inv, NamesDiffer
    <3>2. \A p, q \in Paths : file'[p] # 0 /\ file'[p] = file'[q] => p = q
      BY <2>0, <2>5, <1>2 DEF Inv, NamesDiffer
    <3>3. \A p, q \in Paths : part'[p] # 0 => part'[p] # file'[q]
      BY <2>0, <2>5 DEF Inv, NamesDiffer
    <3> QED BY <3>1, <3>2, <3>3 DEF NamesDiffer
  <2>12. OrphanPlace'
    <3> SUFFICES ASSUME NEW c \in orphans, NEW p \in Paths \ late
                 PROVE  file'[p] # c.file /\ (part'[p] = c.file => ~AtWork(p)')
      BY <1>0, <2>4 DEF OrphanPlace
    <3>1. file[p] # c.file /\ (part[p] = c.file => ~AtWork(p)) /\ c.file # 0
      BY <2>0, DiskFacts DEF Inv, OrphanPlace
    <3>2. CASE p = There
      BY <3>1, <3>2, <2>0, <2>5
    <3>3. CASE p # There
      BY <3>1, <3>3, <2>4, <2>5
    <3> QED BY <3>2, <3>3
  <2>13. LongEnough'
    <3>1. Len(data[part[There]]) >= working.size
      BY <1>0, <1>2 DEF Inv, LongEnough
    <3>2. working.mine => file'[Here'] # 0 /\ Len(data'[file'[Here']]) >= working'.size
      BY <3>1, <1>0, <1>2, <2>2, <2>4, <2>5
    <3> QED BY <3>2, <2>1, <2>2 DEF LongEnough, FileHas
  <2>14. PartIsBeginning'
    <3> SUFFICES ASSUME NEW p \in Paths \ late, AtWork(p)', part'[p] # 0
                 PROVE  Begins(data[part'[p]], song)
      BY <1>0, <2>4 DEF PartIsBeginning
    <3> QED BY <2>4, <2>5 DEF Inv, PartIsBeginning
  <2>15. FileIsBeginning'
    <3>1. working.mine /\ There \notin late => Begins(data[part[There]], song)
      BY <1>2, <2>0 DEF Inv, PartIsBeginning
    <3>2. working.mine /\ Here' \notin late' => Begins(data'[file'[Here']], song')
      BY <3>1, <1>0, <2>4, <2>5
    <3> QED BY <3>2, <2>1, <2>2 DEF FileIsBeginning
  <2> QED BY <2>4, <2>7, <2>9, <2>10, <2>11, <2>12, <2>13, <2>14, <2>15 DEF Inv
<1> QED BY <1>1, <1>2

LEMMA DownloadAnswersInv ==
  ASSUME Inv, DownloadAnswers
  PROVE  Inv'
<1>0. /\ working # None /\ working.at = "answer" /\ curl = None /\ curl' = None /\ working' = None
      /\ UNCHANGED <<stage, song, downloads, selectedScript, up, commands, orphans, histVars>>
      /\ part' = part /\ file' = file /\ data' = data
  BY DEF DownloadAnswers, Inv, CurlPlace, diskVars
<1>1. Typed /\ working \in Works /\ There \in Paths /\ answer = None
  BY <1>0, AtCurl DEF Inv
<1>2. answer' = None \/ (working.mine /\ answer' \in Answers /\ answer'.size = working.size)
  <2>1. working.size \in Nat
    BY <1>1 DEF Works
  <2> DEFINE ok == RunnerAccepts(working.song, working.size)
  <2>2. ok \in BOOLEAN
    BY DEF RunnerAccepts
  <2>3. answer' = IF working.mine THEN [ok |-> ok, size |-> working.size] ELSE answer
    BY DEF DownloadAnswers, Respond
  <2> HIDE DEF ok
  <2> QED BY <2>1, <2>2, <2>3, <1>1 DEF Answers
<1>3. /\ PageOK' /\ ListOK' /\ RunnerOK' /\ CurlOK' /\ HistOK'
      /\ AnswerIsLast' /\ Owned' /\ CurlPlace' /\ CurlIsAtEnd'
      /\ Active' = Active /\ Here' = Here /\ Listed' = Listed /\ late' = late /\ cut' = cut /\ removed' = removed
      /\ \A p : AtWork(p)' => AtWork(p)
      /\ working.mine => Active /\ working.song = song /\ There = Here
  BY <1>0, <1>2, GoOn
<1>4. DiskOK'
  BY <1>0, <1>1 DEF Typed, DiskOK
<1>5. PartOwned' /\ FileOwned' /\ NamesDiffer' /\ OrphanPlace' /\ PartIsBeginning'
  BY <1>0, <1>3, <1>4, GoOnDisk
<1>6. PartIsGone'
  <2>1. part[There] = 0
    BY <1>0 DEF Inv, PartIsGone
  <2> QED BY <2>1, <1>0, <1>2, <1>3 DEF PartIsGone
<1>7. SecondIsFresh'
  BY <1>0 DEF SecondIsFresh
<1>8. LongEnough'
  <2>1. working.mine /\ Here \notin removed => FileHas(working.size)
    BY <1>0 DEF Inv, LongEnough
  <2> QED BY <2>1, <1>0, <1>2, <1>3 DEF LongEnough, FileHas
<1>9. FileIsBeginning'
  <2>1. working.mine /\ Here \notin late /\ file[Here] # 0 => Begins(data[file[Here]], song)
    BY <1>0 DEF Inv, FileIsBeginning
  <2> QED BY <2>1, <1>0, <1>2, <1>3 DEF FileIsBeginning
<1>10. Typed'
  BY <1>3, <1>4 DEF Typed
<1> QED BY <1>3, <1>5, <1>6, <1>7, <1>8, <1>9, <1>10 DEF Inv

-----------------------------------------------------------------------------
(* The theorems.                                                           *)

LEMMA InitInv == Init => Inv
<1> SUFFICES ASSUME Init PROVE Inv
  OBVIOUS
<1>1. /\ stage = "idle" /\ answer = None /\ downloads = <<>> /\ selectedScript \in {"default", "other"}
      /\ up = TRUE /\ commands = <<>> /\ working = None /\ curl = None /\ orphans = {}
      /\ data = [i \in Inodes |-> <<>>]
      /\ part = [p \in Paths |-> 0] /\ file = [p \in Paths |-> 0]
      /\ late = {} /\ removed = {} /\ cut = {} /\ taps = 0
  BY DEF Init
<1>2. PageOK
  BY <1>1, DownloadAssumption DEF Init, PageOK
<1>3. ListOK
  <2>1. downloads \in Seq(Entries) /\ Len(downloads) = 0 /\ DOMAIN downloads = {}
    BY <1>1
  <2> QED BY <2>1, Sizes DEF ListOK
<1>4. RunnerOK /\ CurlOK
  <2>1. commands \in Seq(Commands)
    BY <1>1
  <2> QED BY <2>1, <1>1 DEF RunnerOK, CurlOK
<1>5. DiskOK
  <2>1. <<>> \in Seq(Songs \X (1..Total))
    OBVIOUS
  <2> QED BY <2>1, <1>1 DEF DiskOK
<1>6. HistOK
  <2>1. PICK load \in Loads : wanted = load.songs /\ kills = load.kills
    BY DEF Init
  <2>2. load \in [songs : SUBSET Songs, kills : Nat]
    BY DownloadAssumption
  <2>3. wanted \subseteq Songs /\ kills \in Nat
    BY <2>1, <2>2
  <2> QED BY <2>3, <1>1, Sizes DEF HistOK
<1>7. Typed
  BY <1>2, <1>3, <1>4, <1>5, <1>6 DEF Typed
<1>8. WorkSongs = {} /\ DOMAIN commands = {}
  BY <1>1, NoSongs DEF WorkSongs
<1>9. \A p \in Paths : part[p] = 0 /\ file[p] = 0
  BY <1>1
<1>10. AnswerIsLast /\ Owned /\ PartOwned /\ FileOwned /\ PartIsGone
  BY <1>1, <1>8, <1>9 DEF AnswerIsLast, Owned, PartOwned, FileOwned, PartIsGone
<1>11. NamesDiffer /\ CurlPlace /\ SecondIsFresh /\ OrphanPlace
  BY <1>1, <1>9 DEF NamesDiffer, CurlPlace, SecondIsFresh, OrphanPlace
<1>12. LongEnough /\ PartIsBeginning /\ CurlIsAtEnd /\ FileIsBeginning
  BY <1>1, <1>9 DEF LongEnough, PartIsBeginning, CurlIsAtEnd, FileIsBeginning
<1> QED BY <1>7, <1>10, <1>11, <1>12 DEF Inv

LEMMA NextInv == Inv /\ [Next]_vars => Inv'
<1> SUFFICES ASSUME Inv, [Next]_vars PROVE Inv'
  OBVIOUS
<1>1. CASE UNCHANGED vars
  BY <1>1, StutterInv
<1>2. ASSUME NEW s \in Songs, TapDownload(s) PROVE Inv'
  BY <1>2, TapDownloadInv
<1>3. CASE Answered
  <2>1. CASE AddDownload
    BY <2>1, AddDownloadInv
  <2>2. CASE answer # None /\ FirstFails
    BY <2>2, FirstFailsInv
  <2>3. CASE answer # None /\ SecondFails(TRUE)
    BY <2>3, SecondFailsInv
  <2>4. CASE LinkOk
    BY <2>4, LinkOkInv
  <2>5. CASE LinkFails
    BY <2>5, LinkFailsInv
  <2> QED BY <1>3, <2>1, <2>2, <2>3, <2>4, <2>5 DEF Answered
<1>4. CASE TimesOut
  <2>1. CASE LinkFails
    BY <2>1, LinkFailsInv
  <2>2. CASE FirstFails
    BY <2>2, FirstFailsInv
  <2>3. CASE SecondFails(FALSE)
    BY <2>3, SecondFailsInv
  <2> QED BY <1>4, <2>1, <2>2, <2>3 DEF TimesOut
<1>5. CASE Reopen \/ SelectScript \/ RunnerDies \/ StartFreshRunner
  BY <1>5, ReopenInv, RunnerEndsInv, StartFreshRunnerInv
<1>6. ASSUME NEW p \in Paths, RemoveDownload(p) PROVE Inv'
  BY <1>6, RemoveDownloadInv
<1>7. CASE Runner
  BY <1>7, LinkRunsInv, DownloadBeginsInv, CurlOpensInv, CurlFetchesInv, CurlEndsInv, RenameInv,
     DownloadAnswersInv DEF Runner
<1>8. ASSUME NEW c \in orphans, OrphanFetches(c) \/ OrphanEnds(c) PROVE Inv'
  BY <1>8, OrphanFetchesInv, OrphanEndsInv
<1> QED BY <1>1, <1>2, <1>3, <1>4, <1>5, <1>6, <1>7, <1>8 DEF Next, Page, Orphans

\* Whoever may touch a path, and how far it is, is as the invariant says.
THEOREM Correct == Spec => []Inv
<1>1. Init => Inv
  BY InitInv
<1>2. Inv /\ [Next]_vars => Inv'
  BY NextInv
<1> QED BY <1>1, <1>2, PTL DEF Spec

LEMMA OneEntryPerPath ==
  ASSUME ListOK
  PROVE  Cardinality(Listed) = Len(downloads)
<1> DEFINE n == Len(downloads)
           F == [k \in 1..n |-> downloads[k].path]
<1>1. DOMAIN downloads = 1..n /\ n \in Nat
  BY LenProperties DEF ListOK
<1>2. Listed = {downloads[k].path : k \in 1..n}
  BY <1>1 DEF Listed, PathsOf
<1>3. \A i, k \in 1..n : F[i] = F[k] => i = k
  BY <1>1 DEF ListOK
<1>4. F \in [1..n -> Listed] /\ \A q \in Listed : \E k \in 1..n : F[k] = q
  BY <1>2
<1> HIDE DEF F, n
<1>5. F \in Bijection(1..n, Listed)
  BY <1>3, <1>4 DEF Bijection, Injection, Surjection, IsInjective
<1>6. ExistsBijection(1..n, Listed)
  BY <1>5 DEF ExistsBijection
<1>7. Cardinality(Listed) = n
  BY <1>1, <1>6, FS_CountingElements
<1> QED BY <1>7 DEF n

\* The variables of the page, of the runner and of the disk have their types, for
\* any songs, paths, sizes and files; a path is listed once, and at most ListMax
\* are (addDownload, main.qml).
THEOREM TypeCorrect == Spec => []TypeOK
<1>1. Inv => TypeOK
  <2> SUFFICES ASSUME Inv PROVE TypeOK
    OBVIOUS
  <2>0. PageOK /\ ListOK /\ RunnerOK /\ CurlOK /\ DiskOK /\ HistOK
    BY DEF Inv, Typed
  <2>1. /\ stage \in {"idle", "link", "first", "second"} /\ song \in Songs
        /\ answer \in {None} \cup [ok : BOOLEAN, size : Nat]
        /\ selectedScript \in {"default", "other"}
    BY <2>0 DEF PageOK, Answers
  <2>2. /\ downloads \in Seq([path : Paths, size : Nat]) /\ Len(downloads) <= ListMax
        /\ Cardinality(Listed) = Len(downloads)
    BY <2>0, OneEntryPerPath DEF ListOK, Entries
  <2>3. /\ up \in BOOLEAN
        /\ commands \in Seq([what : {"link", "download"}, song : Songs, mine : BOOLEAN])
        /\ (working # None => up) /\ (commands # <<>> => up)
    BY <2>0 DEF RunnerOK, Commands
  <2>4. working \in {None} \cup [song : Songs, mine : BOOLEAN, attempt : 1..2,
                               at : {"curl", "rename", "answer"}, off : Nat, size : Nat]
    BY <2>0 DEF RunnerOK, Works
  <2>5. curl \in {None} \cup Processes /\ orphans \subseteq Processes /\ (curl # None => working # None)
    BY <2>0 DEF CurlOK, Inv, CurlPlace
  <2>6. /\ \A i \in Inodes : data[i] \in Seq(Songs \X (1..Total))
        /\ {part, file} \subseteq [Paths -> {0} \cup Inodes]
    BY <2>0 DEF DiskOK
  <2>7. /\ {late, removed, cut} \subseteq SUBSET Paths
        /\ taps \in 0..MaxTaps /\ wanted \subseteq Songs /\ kills \in Nat
    BY <2>0 DEF HistOK
  <2> QED BY <2>1, <2>2, <2>3, <2>4, <2>5, <2>6, <2>7 DEF TypeOK
<1> QED BY <1>1, Correct, PTL

\* When the page rests, no half file and no file without an entry is left of
\* a download whose end it waited for (downloadSong, main.qml; do_curl_download,
\* penmusic.c).
THEOREM NothingLeft == Spec => []NothingLeftBehind
<1>1. Inv => NothingLeftBehind
  BY DEF Inv, PartOwned, FileOwned, Current, Active, NothingLeftBehind, Rest
<1> QED BY <1>1, Correct, PTL

\* A song is put in the list only when the file is there and as long as the
\* platform declared, and it is that recording unless an earlier download of the
\* path was not waited for (downloadSong, handleDownload, do_curl_download).
THEOREM ListedComplete == Spec => ListedIsComplete
<1>1. ASSUME Inv, NEW s \in Declared, AddDownload, song = s, Here \notin removed
      PROVE  /\ file[Here] # 0 /\ Len(Content(Here)) >= Total
             /\ Here \notin late => Content(Here) = Whole(s)
  <2>1. /\ Active /\ answer # None /\ answer.ok /\ answer.size >= Total
    BY <1>1 DEF AddDownload, Success, PageAccepts, Active
  <2>2. answer.size \in Nat /\ Total \in Nat
    <3>1. answer \in Answers
      BY <1>1, <2>1 DEF Inv, Typed, PageOK
    <3> QED BY <3>1, Sizes DEF Answers
  <2>3. Here \in Paths
    BY <1>1, DiskFacts DEF Inv
  <2>4. file[Here] # 0 /\ Len(Content(Here)) >= answer.size
    BY <1>1, <2>1 DEF Inv, LongEnough, FileHas, Content
  <2>5. Content(Here) \in Seq(Songs \X (1..Total)) /\ Len(Content(Here)) \in Nat
    <3>1. file[Here] \in Inodes
      BY <1>1, <2>3, <2>4, DiskFacts DEF Inv
    <3> QED BY <1>1, <3>1, DiskFacts DEF Inv, Content
  <2>6. Len(Content(Here)) >= Total
    BY <2>1, <2>2, <2>4, <2>5
  <2>7. ASSUME Here \notin late
        PROVE  Content(Here) = Whole(s)
    <3> DEFINE d == Content(Here)
    <3>1. Begins(d, s)
      BY <1>1, <2>1, <2>4, <2>7 DEF Inv, FileIsBeginning, Content
    <3>2. d \in Seq(Songs \X (1..Total)) /\ Len(d) = Total
      BY <2>2, <2>5, <2>6, <3>1 DEF Begins
    <3> HIDE DEF d
    <3>3. d = [i \in 1..Total |-> d[i]]
      BY <3>2
    <3>4. \A i \in 1..Total : d[i] = Piece(s, i)
      BY <3>1, <3>2 DEF Begins
    <3>5. d = [i \in 1..Total |-> Piece(s, i)]
      BY <3>3, <3>4
    <3> QED BY <3>5 DEF d, Whole
  <2> QED BY <2>4, <2>6, <2>7
<1>2. Inv => \A s \in Declared :
               AddDownload /\ song = s /\ Here \notin removed =>
                 /\ file[Here] # 0 /\ Len(Content(Here)) >= Total
                 /\ Here \notin late => Content(Here) = Whole(s)
  BY <1>1
<1> QED BY <1>2, Correct, PTL DEF Spec, ListedIsComplete

\* What is listed is altered only by the user who removes it and by the download
\* of that path that the user began: by no attempt that failed, and by no curl
\* that outlived its runner (do_curl_download, penmusic.c).
THEOREM ListedAlone == Spec => ListedIsLeftAlone
<1> DEFINE Same(p) == file'[p] = file[p] /\ (file[p] # 0 => data'[file[p]] = data[file[p]])
<1>1. ASSUME Inv, Inv', [Next]_vars, NEW p \in Listed \ late, Rest \/ p # Here
      PROVE  Same(p) \/ RemoveDownload(p)
  <2>0. Typed /\ p \in Paths /\ p \notin late /\ ~Current(p)
    <3>1. Typed /\ p \notin late /\ ~Current(p)
      BY <1>1 DEF Inv, Rest, Current, Active
    <3>2. \A k \in DOMAIN downloads : downloads[k] \in Entries
      BY <3>1 DEF Typed, ListOK
    <3>3. \A k \in DOMAIN downloads : downloads[k].path \in Paths
      BY <3>2 DEF Entries
    <3> QED BY <1>1, <3>1, <3>3 DEF Listed, PathsOf
  <2>1. Here \in Paths /\ file[p] \in {0} \cup Inodes /\ 0 \notin Inodes
    BY <2>0, DiskFacts
  <2>2. DiskOK
    BY <2>0 DEF Typed
\* Most steps do not touch the disk.
  <2>3. CASE file' = file /\ data' = data
    BY <2>3
\* A step that writes to one file writes to another one.
  <2>4. ASSUME NEW f, NEW d, file' = file, data' = [data EXCEPT ![f] = d], f # file[p]
        PROVE  Same(p)
    <3>1. file[p] # 0 => file[p] \in DOMAIN data
      BY <2>1, <2>2 DEF DiskOK
    <3> QED BY <2>4, <3>1
  <2>5. CASE UNCHANGED vars
    BY <2>3, <2>5 DEF vars, diskVars
  <2>6. ASSUME NEW s \in Songs, TapDownload(s) PROVE Same(p)
    BY <2>3, <2>6 DEF TapDownload, diskVars
  <2>7. CASE AddDownload \/ LinkOk \/ LinkFails \/ Reopen \/ SelectScript \/ StartFreshRunner \/ RunnerDies
    BY <2>3, <2>7 DEF AddDownload, LinkOk, LinkFails, Reopen, SelectScript, StartFreshRunner, RunnerDies,
                      diskVars
\* What is discarded is what the page waits for.
  <2>8. ASSUME Active, Discard(Here), data' = data PROVE Same(p)
    <3>1. p # Here
      BY <2>0, <2>8 DEF Current
    <3> QED BY <2>2, <2>8, <2>0, <3>1 DEF DiskOK, Discard
  <2>9. CASE FirstFails \/ SecondFails(TRUE) \/ SecondFails(FALSE)
    BY <2>8, <2>9 DEF FirstFails, SecondFails, Active
  <2>10. CASE Answered \/ TimesOut
    BY <2>7, <2>9, <2>10 DEF Answered, TimesOut
  <2>11. ASSUME NEW q \in Paths, RemoveDownload(q) PROVE Same(p) \/ RemoveDownload(p)
    <3>1. CASE q = p
      BY <2>11, <3>1
    <3>2. CASE q # p
      BY <2>0, <2>2, <2>11, <3>2 DEF RemoveDownload, DiskOK
    <3> QED BY <3>1, <3>2
  <2>12. CASE LinkRuns \/ DownloadBegins \/ CurlEnds \/ DownloadAnswers
    BY <2>3, <2>12 DEF LinkRuns, DownloadBegins, CurlEnds, DownloadAnswers, diskVars
  <2>13. CASE CurlOpens
    <3>1. file' = file /\ curl' # None /\ (data' = data \/ data' = [data EXCEPT ![curl'.file] = <<>>])
      <4>1. PICK f, b : /\ curl' = [file |-> f, song |-> working.song, appends |-> working.attempt = 1,
                                    from |-> b, got |-> 0]
                        /\ data' = data \/ data' = [data EXCEPT ![f] = <<>>]
        BY <2>13 DEF CurlOpens
      <4>2. curl'.file = f /\ curl' # None
        BY <4>1 DEF None
      <4> QED BY <4>1, <4>2, <2>13 DEF CurlOpens
    <3>2. file'[p] # curl'.file
      BY <1>1, <2>0, <3>1 DEF Inv, CurlPlace
    <3>3. CASE data' = data
      BY <3>1, <3>3, <2>3
    <3>4. CASE data' = [data EXCEPT ![curl'.file] = <<>>]
      <4> DEFINE f == curl'.file
      <4>1. f # file[p] /\ data' = [data EXCEPT ![f] = <<>>]
        BY <3>1, <3>2, <3>4
      <4> HIDE DEF f
      <4>2. file[p] # 0 => file[p] \in DOMAIN data
        BY <2>1, <2>2 DEF DiskOK
      <4> QED BY <4>1, <4>2, <3>1
    <3> QED BY <3>1, <3>3, <3>4
  <2>14. CASE CurlFetches
    <3>1. file' = file /\ data' = [data EXCEPT ![curl.file] = Written(curl)] /\ curl # None
      BY <2>14 DEF CurlFetches
    <3>2. file[p] # curl.file
      BY <1>1, <2>0, <3>1 DEF Inv, CurlPlace
    <3> QED BY <2>4, <3>1, <3>2
\* What is renamed is late, or what the page waits for.
  <2>15. CASE Rename
    <3>1. working # None /\ data' = data /\ (file' = file \/ file' = [file EXCEPT ![There] = part[There]])
      BY <2>15 DEF Rename
    <3>2. There # p
      BY <1>1, <2>0, <3>1, AtCurl
    <3> QED BY <2>0, <2>2, <3>1, <3>2 DEF DiskOK
  <2>16. CASE Runner
    BY <2>12, <2>13, <2>14, <2>15, <2>16 DEF Runner
  <2>17. ASSUME NEW c \in orphans, OrphanFetches(c) \/ OrphanEnds(c) PROVE Same(p)
    <3>1. CASE OrphanFetches(c)
      <4>1. file' = file /\ data' = [data EXCEPT ![c.file] = Written(c)]
        BY <3>1 DEF OrphanFetches
      <4>2. file[p] # c.file
        BY <1>1, <2>0 DEF Inv, OrphanPlace
      <4> QED BY <2>4, <4>1, <4>2
    <3>2. CASE OrphanEnds(c)
      BY <2>3, <3>2 DEF OrphanEnds, diskVars
    <3> QED BY <2>17, <3>1, <3>2
  <2> QED BY <1>1, <2>5, <2>6, <2>7, <2>10, <2>11, <2>16, <2>17 DEF Next, Page, Orphans
<1>2. Inv /\ Inv' /\ [Next]_vars =>
        \A p \in Listed \ late :
          Rest \/ p # Here =>
            \/ file'[p] = file[p] /\ (file[p] # 0 => data'[file[p]] = data[file[p]])
            \/ RemoveDownload(p)
  BY <1>1
<1> QED BY <1>2, Correct, PTL DEF Spec, ListedIsLeftAlone
=============================================================================
