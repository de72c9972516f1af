-------------------------- MODULE RunnerLoopProofs --------------------------
(***************************************************************************)
(* What RunnerLoop promises, for any commands, sizes of reads and of the   *)
(* pipe, numbers of timers and requests, and limits: that commands survive *)
(* the pipe but for one for each tear, that an idle end comes after        *)
(* silence, that answers reach the file, and that the two tables of timers *)
(* and of requests agree.                                                  *)
(*                                                                         *)
(* Lines are parsed piece by piece, by a recursive function; what it       *)
(* computes is proved by induction, as minimality in a well-founded        *)
(* relation.                                                               *)
(***************************************************************************)
EXTENDS RunnerLoop, FiniteSetTheorems, SequenceTheorems, WellFoundedInduction, TLAPS

-----------------------------------------------------------------------------
(* Induction.                                                              *)

Less == {p \in Nat \X Nat : p[1] < p[2]}

LEMMA LessIsWellFounded == IsWellFoundedOn(Less, Nat)
<1>1. OpToRel(<, Nat) = Less
  BY Zenon DEF OpToRel, Less
<1> QED BY <1>1, NatLessThanWellFounded, Zenon

\* What holds of 0 and, step by step, of the next number holds up to n.
LEMMA StepByStep ==
  ASSUME NEW n \in Nat, NEW T, 0 \in T,
         \A k \in Nat : k < n /\ k \in T => k + 1 \in T
  PROVE  \A k \in 0..n : k \in T
<1> DEFINE Missing == {k \in 0..n : k \notin T}
<1> SUFFICES ASSUME Missing # {} PROVE FALSE
  OBVIOUS
<1>1. Missing \subseteq Nat
  OBVIOUS
<1>2. PICK m \in Missing : \A k \in Missing : <<k, m>> \notin Less
  BY <1>1, LessIsWellFounded, WFMin
<1>3. m \in Nat /\ m # 0 /\ m <= n /\ m \notin T
  OBVIOUS
<1>4. m - 1 \in Nat /\ m - 1 < m
  BY <1>3
<1>5. m - 1 \notin Missing
  <2>1. <<m - 1, m>> \in Less
    BY <1>3, <1>4 DEF Less
  <2> QED BY <1>2, <2>1
<1> QED BY <1>3, <1>4, <1>5

-----------------------------------------------------------------------------
(* Reading.                                                                *)

\* The function that Scan defines recursively exists.
LEMMA ScanExists ==
  ASSUME NEW s \in Seq(Tokens), NEW line
  PROVE  \E f : f = [n \in 0..Len(s) |->
                       IF n = 0 THEN NothingRead(line) ELSE PieceRead(f[n - 1], s[n])]
<1> DEFINE At(f, n) == IF n = 0 THEN NothingRead(line) ELSE PieceRead(f[n - 1], s[n])
           T == {k \in 0..Len(s) : \E f : f = [n \in 0..k |-> At(f, n)]}
<1>0. Len(s) \in Nat
  OBVIOUS
<1>1. 0 \in T
  <2> DEFINE f == [n \in 0..0 |-> NothingRead(line)]
  <2>1. f = [n \in 0..0 |-> At(f, n)]
    OBVIOUS
  <2>2. \E g : g = [n \in 0..0 |-> At(g, n)]
    BY <2>1, Zenon
  <2> QED BY <1>0, <2>2
<1>2. ASSUME NEW k \in Nat, k < Len(s), k \in T PROVE k + 1 \in T
  <2>1. PICK f : f = [n \in 0..k |-> At(f, n)]
    BY <1>2, Zenon
  <2>2. \A n \in 0..k : f[n] = At(f, n)
    <3> DEFINE h == [n \in 0..k |-> At(f, n)]
    <3>1. \A n \in 0..k : h[n] = At(f, n)
      OBVIOUS
    <3>2. f = h
      BY <2>1, Zenon
    <3> QED BY <3>1, <3>2, Zenon
  <2> DEFINE g == [n \in 0..(k + 1) |-> IF n = k + 1 THEN PieceRead(f[k], s[k + 1]) ELSE f[n]]
  <2>3. ASSUME NEW n \in 0..(k + 1) PROVE g[n] = At(g, n)
    <3>1. CASE n = k + 1
      BY <3>1
    <3>2. CASE n = 0
      <4>1. 0 \in 0..k
        OBVIOUS
      <4>2. f[0] = At(f, 0)
        BY <2>2, <4>1
      <4> QED BY <3>2, <4>2
    <3>3. CASE n # 0 /\ n # k + 1
      <4>1. n \in 0..k /\ n - 1 \in 0..k
        BY <3>3
      <4>2. f[n] = At(f, n)
        BY <2>2, <4>1
      <4> QED BY <3>3, <4>1, <4>2
    <3> QED BY <3>1, <3>2, <3>3
  <2>4. g = [n \in 0..(k + 1) |-> At(g, n)]
    BY <2>3
  <2>5. \E h : h = [n \in 0..(k + 1) |-> At(h, n)]
    BY <2>4, Zenon
  <2> QED BY <1>0, <1>2, <2>5
<1>3. Len(s) \in T
  <2> HIDE DEF T
  <2>1. \A k \in 0..Len(s) : k \in T
    BY <1>0, <1>1, <1>2, StepByStep
  <2> QED BY <1>0, <2>1
<1> QED BY <1>3, Zenon

\* Scan, piece by piece.
LEMMA ScanSteps ==
  ASSUME NEW s \in Seq(Tokens), NEW line
  PROVE  /\ Scan(line, s)[0] = NothingRead(line)
         /\ \A n \in 1..Len(s) : Scan(line, s)[n] = PieceRead(Scan(line, s)[n - 1], s[n])
<1> DEFINE P(f) == f = [n \in 0..Len(s) |->
                          IF n = 0 THEN NothingRead(line) ELSE PieceRead(f[n - 1], s[n])]
           scan == Scan(line, s)
<1>1. \E f : P(f)
  <2> HIDE DEF P
  <2>1. \E f : f = [n \in 0..Len(s) |->
                      IF n = 0 THEN NothingRead(line) ELSE PieceRead(f[n - 1], s[n])]
    BY ScanExists, Zenon
  <2> QED BY <2>1, Zenon DEF P
<1>2. P(CHOOSE f : P(f))
  BY <1>1, Zenon
<1>3. scan = CHOOSE f : P(f)
  BY Zenon DEF Scan
<1>4. P(scan)
  BY <1>2, <1>3, Zenon
<1> DEFINE h == [n \in 0..Len(s) |->
                   IF n = 0 THEN NothingRead(line) ELSE PieceRead(scan[n - 1], s[n])]
<1>5. scan = h
  BY <1>4, Zenon
<1>6. Len(s) \in Nat
  OBVIOUS
<1> HIDE DEF scan
<1>7. h[0] = NothingRead(line) /\ \A n \in 1..Len(s) : h[n] = PieceRead(scan[n - 1], s[n])
  BY <1>6
<1>8. scan[0] = NothingRead(line) /\ \A n \in 1..Len(s) : scan[n] = PieceRead(scan[n - 1], s[n])
  <2> HIDE DEF h
  <2> QED BY <1>5, <1>7
<1> QED BY <1>8 DEF scan

\* What has been read is commands, calls of JavaScript and pieces.
Reads ==
  [any : BOOLEAN, cmds : Seq(Commands), calls : Seq(Commands), line : Seq(Tokens)]

\* A list of at most one command.
LEMMA CommandInOK ==
  ASSUME NEW line
  PROVE  /\ CommandIn(line) \in Seq(Commands) /\ NotQuit(CommandIn(line)) \in Seq(Commands)
         /\ \/ CommandIn(line) = <<>>
            \/ \E c \in Commands : line = Pieces(c) /\ CommandIn(line) = <<c>>
<1>1. ASSUME NEW c \in Commands, line = Pieces(c) PROVE line[1].of = c
  <2>1. Size[c] \in Nat \ {0}
    BY LoopAssumption
  <2>2. 1 \in 1..Size[c]
    BY <2>1
  <2> QED BY <1>1, <2>2 DEF Pieces
<1>2. \/ CommandIn(line) = <<>>
      \/ \E c \in Commands : line = Pieces(c) /\ CommandIn(line) = <<c>>
  BY <1>1 DEF CommandIn
<1>3. \A c \in Commands : <<c>> \in Seq(Commands)
  OBVIOUS
<1>4. CommandIn(line) \in Seq(Commands)
  <2>1. <<>> \in Seq(Commands)
    OBVIOUS
  <2> QED BY <1>2, <1>3, <2>1
<1>5. NotQuit(CommandIn(line)) \in Seq(Commands)
  <2>1. NotQuit(CommandIn(line)) \in {CommandIn(line), <<>>}
    BY DEF NotQuit
  <2>2. <<>> \in Seq(Commands)
    OBVIOUS
  <2> QED BY <1>4, <2>1, <2>2
<1> QED BY <1>2, <1>4, <1>5

LEMMA StartReads ==
  ASSUME NEW line \in Seq(Tokens) PROVE NothingRead(line) \in Reads
BY DEF NothingRead, Reads

LEMMA PieceReads ==
  ASSUME NEW read \in Reads, NEW piece \in Tokens
  PROVE  PieceRead(read, piece) \in Reads
<1>1. CASE piece = Newline
  <2>1. /\ (read.any \/ read.line # <<>>) \in BOOLEAN
        /\ read.cmds \o CommandIn(read.line) \in Seq(Commands)
        /\ read.calls \o NotQuit(CommandIn(read.line)) \in Seq(Commands)
    BY CommandInOK DEF Reads
  <2> QED BY <1>1, <2>1 DEF PieceRead, LineRead, Reads
<1>2. CASE piece # Newline
  <2>1. Append(read.line, piece) \in Seq(Tokens)
    BY DEF Reads
  <2> QED BY <1>2, <2>1 DEF PieceRead, Reads
<1> QED BY <1>1, <1>2

LEMMA ScanReads ==
  ASSUME NEW line \in Seq(Tokens), NEW s \in Seq(Tokens)
  PROVE  \A n \in 0..Len(s) : Scan(line, s)[n] \in Reads
<1> DEFINE T == {n \in 0..Len(s) : Scan(line, s)[n] \in Reads}
<1>0. Len(s) \in Nat
  OBVIOUS
<1>1. 0 \in T
  BY <1>0, ScanSteps, StartReads
<1>2. ASSUME NEW n \in Nat, n < Len(s), n \in T PROVE n + 1 \in T
  <2>1. Scan(line, s)[n + 1] = PieceRead(Scan(line, s)[n], s[n + 1])
    BY <1>0, <1>2, ScanSteps
  <2>2. s[n + 1] \in Tokens
    BY <1>0, <1>2
  <2> QED BY <1>0, <1>2, <2>1, <2>2, PieceReads
<1>3. \A n \in 0..Len(s) : n \in T
  <2> HIDE DEF T
  <2> QED BY <1>0, <1>1, <1>2, StepByStep
<1> QED BY <1>3

\* First a, then what b found when it began with the line that a left.
Join(a, b) ==
  [any |-> a.any \/ b.any, cmds |-> a.cmds \o b.cmds, calls |-> a.calls \o b.calls,
   line |-> b.line]

LEMMA JoinNothing ==
  ASSUME NEW a \in Reads PROVE Join(a, NothingRead(a.line)) = a
<1>1. a.cmds \o <<>> = a.cmds /\ a.calls \o <<>> = a.calls /\ (a.any \/ FALSE) = a.any
  BY DEF Reads
<1> QED BY <1>1 DEF Join, NothingRead, Reads

LEMMA CommandsConcat ==
  \A x, y, z \in Seq(Commands) : x \o (y \o z) = (x \o y) \o z
OBVIOUS

LEMMA JoinPiece ==
  ASSUME NEW a \in Reads, NEW b \in Reads, NEW piece \in Tokens
  PROVE  Join(a, PieceRead(b, piece)) = PieceRead(Join(a, b), piece)
<1>1. CASE piece = Newline
  <2> DEFINE c == CommandIn(b.line)
             q == NotQuit(c)
  <2>1. c \in Seq(Commands) /\ q \in Seq(Commands)
    BY CommandInOK
  <2> HIDE DEF c, q
  <2>0. /\ a.cmds \in Seq(Commands) /\ b.cmds \in Seq(Commands)
        /\ a.calls \in Seq(Commands) /\ b.calls \in Seq(Commands)
    BY DEF Reads
  <2>2. /\ a.cmds \o (b.cmds \o c) = (a.cmds \o b.cmds) \o c
        /\ a.calls \o (b.calls \o q) = (a.calls \o b.calls) \o q
    <3>1. c \in Seq(Commands)
      BY <2>1
    <3>2. q \in Seq(Commands)
      BY <2>1
    <3> DEFINE ac == a.cmds  bc == b.cmds  aq == a.calls  bq == b.calls
    <3>0. ac \in Seq(Commands) /\ bc \in Seq(Commands) /\ aq \in Seq(Commands) /\ bq \in Seq(Commands)
      BY <2>0
    <3> HIDE DEF ac, bc, aq, bq
    <3>3. ac \o (bc \o c) = (ac \o bc) \o c
      BY <3>0, <3>1, SMTT(30)
    <3>4. aq \o (bq \o q) = (aq \o bq) \o q
      BY <3>0, <3>2, SMTT(30)
    <3> QED BY <3>3, <3>4 DEF ac, bc, aq, bq
  <2>3. (a.any \/ (b.any \/ b.line # <<>>)) = ((a.any \/ b.any) \/ b.line # <<>>)
    BY DEF Reads
  <2> QED BY <1>1, <2>2, <2>3 DEF PieceRead, LineRead, Join, c, q
<1>2. CASE piece # Newline
  BY <1>2 DEF PieceRead, Join, Reads
<1> QED BY <1>1, <1>2

\* The beginning of a stream is read as if it were all.
LEMMA ScanBeginning ==
  ASSUME NEW line \in Seq(Tokens), NEW s \in Seq(Tokens), NEW t \in Seq(Tokens)
  PROVE  \A n \in 0..Len(s) : Scan(line, s \o t)[n] = Scan(line, s)[n]
<1> DEFINE st == s \o t
           T == {n \in 0..Len(s) : Scan(line, st)[n] = Scan(line, s)[n]}
<1>0. /\ st \in Seq(Tokens) /\ Len(s) \in Nat /\ Len(t) \in Nat
      /\ Len(st) = Len(s) + Len(t) /\ \A n \in 1..Len(s) : st[n] = s[n]
  OBVIOUS
<1> HIDE DEF st
<1>1. 0 \in T
  BY <1>0, ScanSteps
<1>2. ASSUME NEW n \in Nat, n < Len(s), n \in T PROVE n + 1 \in T
  <2>1. n + 1 \in 1..Len(s) /\ n + 1 \in 1..Len(st) /\ (n + 1) - 1 = n
    BY <1>0, <1>2
  <2>2. st[n + 1] = s[n + 1]
    BY <1>0, <2>1
  <2>3. Scan(line, s)[n + 1] = PieceRead(Scan(line, s)[n], s[n + 1])
    BY <2>1, ScanSteps
  <2>4. Scan(line, st)[n + 1] = PieceRead(Scan(line, st)[n], st[n + 1])
    <3>1. \A m \in 1..Len(st) : Scan(line, st)[m] = PieceRead(Scan(line, st)[m - 1], st[m])
      BY <1>0, ScanSteps, Zenon
    <3>2. Scan(line, st)[n + 1] = PieceRead(Scan(line, st)[(n + 1) - 1], st[n + 1])
      BY <2>1, <3>1, Zenon
    <3> QED BY <2>1, <3>2, Zenon
  <2>5. Scan(line, st)[n] = Scan(line, s)[n]
    BY <1>2
  <2> QED BY <1>0, <2>1, <2>2, <2>3, <2>4, <2>5
<1>3. \A n \in 0..Len(s) : n \in T
  <2> HIDE DEF T
  <2> QED BY <1>0, <1>1, <1>2, StepByStep
<1> QED BY <1>3 DEF st

LEMMA ReadOK ==
  ASSUME NEW line \in Seq(Tokens), NEW s \in Seq(Tokens)
  PROVE  Read(line, s) \in Reads
<1>1. Len(s) \in 0..Len(s)
  OBVIOUS
<1> QED BY <1>1, ScanReads DEF Read

\* A stream may be read in two parts.
LEMMA ReadParts ==
  ASSUME NEW line \in Seq(Tokens), NEW s \in Seq(Tokens), NEW t \in Seq(Tokens)
  PROVE  Read(line, s \o t) = Join(Read(line, s), Read(Read(line, s).line, t))
<1> DEFINE first == Read(line, s)
           st == s \o t
           all == Scan(line, st)
           second == Scan(first.line, t)
           T == {n \in 0..Len(t) : all[Len(s) + n] = Join(first, second[n])}
<1>0. /\ st \in Seq(Tokens) /\ Len(s) \in Nat /\ Len(t) \in Nat
      /\ Len(st) = Len(s) + Len(t) /\ \A n \in 1..Len(t) : st[Len(s) + n] = t[n]
  OBVIOUS
<1>1. first \in Reads /\ first.line \in Seq(Tokens)
  BY ReadOK DEF Reads
<1>2. all[Len(s)] = first
  BY <1>0, ScanBeginning DEF Read
<1>3. second[0] = NothingRead(first.line) /\ \A n \in 0..Len(t) : second[n] \in Reads
  BY <1>1, ScanSteps, ScanReads
<1> HIDE DEF first, st
<1>4. 0 \in T
  BY <1>0, <1>1, <1>2, <1>3, JoinNothing
<1>5. ASSUME NEW n \in Nat, n < Len(t), n \in T PROVE n + 1 \in T
  <2>1. /\ n + 1 \in 1..Len(t) /\ (n + 1) - 1 = n
        /\ Len(s) + (n + 1) \in 1..Len(st) /\ (Len(s) + (n + 1)) - 1 = Len(s) + n
    BY <1>0, <1>5
  <2>2. st[Len(s) + (n + 1)] = t[n + 1] /\ t[n + 1] \in Tokens
    BY <1>0, <2>1
  <2>3. all[Len(s) + (n + 1)] = PieceRead(all[Len(s) + n], t[n + 1])
    <3>1. \A m \in 1..Len(st) : all[m] = PieceRead(all[m - 1], st[m])
      BY <1>0, ScanSteps
    <3> HIDE DEF all
    <3> QED BY <2>1, <2>2, <3>1
  <2>4. second[n + 1] = PieceRead(second[n], t[n + 1])
    BY <2>1, ScanSteps
  <2>5. all[Len(s) + n] = Join(first, second[n]) /\ second[n] \in Reads
    BY <1>0, <1>3, <1>5
  <2> HIDE DEF all, second
  <2>6. all[Len(s) + (n + 1)] = Join(first, second[n + 1])
    BY <1>1, <2>2, <2>3, <2>4, <2>5, JoinPiece
  <2> QED BY <2>1, <2>6
<1>6. Len(t) \in T
  <2> HIDE DEF T
  <2>1. \A n \in 0..Len(t) : n \in T
    BY <1>0, <1>4, <1>5, StepByStep
  <2> QED BY <1>0, <2>1
<1> QED BY <1>0, <1>6 DEF Read, first, st

LEMMA ReadNothing ==
  ASSUME NEW line PROVE Read(line, <<>>) = NothingRead(line)
<1>1. <<>> \in Seq(Tokens) /\ Len(<<>>) = 0
  OBVIOUS
<1> QED BY <1>1, ScanSteps DEF Read

LEMMA ReadOne ==
  ASSUME NEW line \in Seq(Tokens), NEW piece \in Tokens
  PROVE  Read(line, <<piece>>) = PieceRead(NothingRead(line), piece)
<1>1. /\ <<piece>> \in Seq(Tokens) /\ Len(<<piece>>) = 1 /\ <<piece>>[1] = piece
      /\ 1 \in 1..1 /\ 1 - 1 = 0
  OBVIOUS
<1>2. Scan(line, <<piece>>)[1] = PieceRead(Scan(line, <<piece>>)[0], piece)
  <2>1. \A m \in 1..Len(<<piece>>) :
          Scan(line, <<piece>>)[m] = PieceRead(Scan(line, <<piece>>)[m - 1], <<piece>>[m])
    BY <1>1, ScanSteps, Zenon
  <2>2. Scan(line, <<piece>>)[1] = PieceRead(Scan(line, <<piece>>)[1 - 1], <<piece>>[1])
    BY <1>1, <2>1, Zenon
  <2> QED BY <1>1, <2>2, Zenon
<1> QED BY <1>1, <1>2, ScanSteps DEF Read

\* Pieces without a newline are added to the line.
LEMMA ReadPieces ==
  ASSUME NEW line \in Seq(Tokens), NEW s \in Seq(Tokens),
         \A i \in 1..Len(s) : s[i] # Newline
  PROVE  Read(line, s) = NothingRead(line \o s)
<1> DEFINE upTo(n) == line \o SubSeq(s, 1, n)
           T == {n \in 0..Len(s) : Scan(line, s)[n] = NothingRead(upTo(n))}
<1>0. Len(s) \in Nat
  OBVIOUS
<1>a. upTo(0) = line
  OBVIOUS
<1>b. ASSUME NEW n \in Nat, n < Len(s)
      PROVE  Append(upTo(n), s[n + 1]) = upTo(n + 1)
  <2> DEFINE u == SubSeq(s, 1, n)
  <2>1. u \in Seq(Tokens) /\ s[n + 1] \in Tokens
    BY <1>b
  <2>2. SubSeq(s, 1, n + 1) = Append(u, s[n + 1])
    BY <1>b
  <2> HIDE DEF u
  <2>3. line \o Append(u, s[n + 1]) = Append(line \o u, s[n + 1])
    BY <2>1
  <2> QED BY <2>2, <2>3 DEF u
<1>c. \A n \in 0..Len(s) : upTo(n) \in Seq(Tokens)
  OBVIOUS
<1>d. upTo(Len(s)) = line \o s
  OBVIOUS
<1> HIDE DEF upTo
<1>1. 0 \in T
  BY <1>0, <1>a, ScanSteps
<1>2. ASSUME NEW n \in Nat, n < Len(s), n \in T PROVE n + 1 \in T
  <2>1. n + 1 \in 1..Len(s) /\ (n + 1) - 1 = n
    BY <1>0, <1>2
  <2>2. Scan(line, s)[n + 1] = PieceRead(NothingRead(upTo(n)), s[n + 1])
    BY <1>2, <2>1, ScanSteps
  <2>3. s[n + 1] # Newline
    BY <2>1
  <2>4. PieceRead(NothingRead(upTo(n)), s[n + 1]) = NothingRead(Append(upTo(n), s[n + 1]))
    <3> DEFINE u == upTo(n)  piece == s[n + 1]
    <3>1. piece # Newline
      BY <2>3
    <3> HIDE DEF u, piece
    <3>2. PieceRead(NothingRead(u), piece) = NothingRead(Append(u, piece))
      BY <3>1 DEF PieceRead, NothingRead
    <3> QED BY <3>2 DEF u, piece
  <2>5. Scan(line, s)[n + 1] = NothingRead(upTo(n + 1))
    <3>1. Append(upTo(n), s[n + 1]) = upTo(n + 1)
      BY <1>2, <1>b
    <3> QED BY <2>2, <2>4, <3>1, Zenon
  <2> QED BY <1>0, <1>2, <2>1, <2>5
<1>3. Len(s) \in T
  <2> HIDE DEF T
  <2>1. \A n \in 0..Len(s) : n \in T
    BY <1>0, <1>1, <1>2, StepByStep
  <2> QED BY <1>0, <2>1
<1> QED BY <1>3, <1>d DEF Read

LEMMA LineFacts ==
  ASSUME NEW c \in Commands
  PROVE  /\ Size[c] \in Nat \ {0} /\ Newline \in Tokens
         /\ Pieces(c) \in Seq(Tokens) /\ Len(Pieces(c)) = Size[c]
         /\ \A i \in 1..Size[c] :
              Pieces(c)[i].of = c /\ Pieces(c)[i] # Newline /\ Pieces(c)[i] \in Tokens
         /\ Line(c) = Pieces(c) \o <<Newline>>
<1>1. Size[c] \in Nat \ {0}
  BY LoopAssumption
<1>2. Newline \in Tokens
  BY DEF Newline, Tokens
<1>3. \A i \in 1..Size[c] :
        Pieces(c)[i].of = c /\ Pieces(c)[i] # Newline /\ Pieces(c)[i] \in Tokens
  <2> TAKE i \in 1..Size[c]
  <2>1. Pieces(c)[i] = [of |-> c, piece |-> i] /\ i # 0 /\ i \in Nat
    BY <1>1 DEF Pieces
  <2> QED BY <2>1 DEF Newline, Tokens
<1>4. Pieces(c) \in Seq(Tokens) /\ Len(Pieces(c)) = Size[c]
  <2>1. Pieces(c) \in [1..Size[c] -> Tokens]
    BY <1>3 DEF Pieces
  <2> QED BY <1>1, <2>1
<1>5. Line(c) = Pieces(c) \o <<Newline>>
  <2> DEFINE p == Pieces(c)
  <2>1. p \in Seq(Tokens)
    BY <1>4
  <2> HIDE DEF p
  <2>2. Append(p, Newline) = p \o <<Newline>>
    BY <1>2, <2>1
  <2> QED BY <2>2 DEF p, Line
<1> QED BY <1>1, <1>2, <1>3, <1>4, <1>5

\* A line of a command that follows something is no command.
LEMMA CommandAlone ==
  ASSUME NEW c \in Commands, NEW line \in Seq(Tokens)
  PROVE  CommandIn(line \o Pieces(c)) = IF line = <<>> THEN <<c>> ELSE <<>>
<1> DEFINE all == line \o Pieces(c)
<1>0. Len(line) \in Nat /\ Size[c] \in Nat \ {0} /\ (Len(line) = 0 => line = <<>>)
  BY LineFacts
<1>1. /\ all \in Seq(Tokens) /\ Len(all) = Len(line) + Size[c]
      /\ all[Len(line) + Size[c]].of = c
  <2> DEFINE p == Pieces(c)
  <2>1. p \in Seq(Tokens) /\ Len(p) = Size[c] /\ p[Size[c]].of = c
    BY <1>0, LineFacts
  <2> HIDE DEF p
  <2>2. (line \o p)[Len(line) + Size[c]] = p[Size[c]]
    BY <1>0, <2>1
  <2>3. line \o p \in Seq(Tokens) /\ Len(line \o p) = Len(line) + Size[c]
    BY <1>0, <2>1
  <2> QED BY <2>1, <2>2, <2>3 DEF p
<1>2. ASSUME NEW d \in Commands, all = Pieces(d) PROVE line = <<>> /\ d = c
  <2>1. Len(line) + Size[c] = Size[d]
    BY <1>1, <1>2, LineFacts
  <2>2. Size[d] \in 1..Size[d]
    BY LineFacts
  <2>3. d = c
    BY <1>1, <1>2, <2>1, <2>2, LineFacts
  <2> QED BY <1>0, <2>1, <2>3
<1>3. CASE line = <<>>
  <2>1. all = Pieces(c)
    <3> DEFINE p == Pieces(c)
    <3>1. p \in Seq(Tokens)
      BY LineFacts
    <3> HIDE DEF p
    <3>2. <<>> \o p = p
      BY <3>1
    <3> QED BY <1>3, <3>2 DEF p
  <2>2. all[1].of = c
    BY <1>0, <2>1, LineFacts
  <2> HIDE DEF all
  <2>3. CommandIn(all) = <<c>>
    BY <2>1, <2>2 DEF CommandIn
  <2> QED BY <1>3, <2>3 DEF all
<1>4. CASE line # <<>>
  <2>1. ~ \E d \in Commands : all = Pieces(d)
    BY <1>2, <1>4
  <2> HIDE DEF all
  <2>2. CommandIn(all) = <<>>
    BY <2>1 DEF CommandIn
  <2> QED BY <1>4, <2>2 DEF all
<1> QED BY <1>3, <1>4

\* A whole line is its command if nothing was left before it, and takes the
\* place of what was left otherwise.
LEMMA ReadLine ==
  ASSUME NEW c \in Commands, NEW line \in Seq(Tokens)
  PROVE  /\ Read(line, Line(c)).line = <<>>
         /\ Read(line, Line(c)).cmds = IF line = <<>> THEN <<c>> ELSE <<>>
<1> DEFINE p == Pieces(c)
<1>1. /\ p \in Seq(Tokens) /\ Newline \in Tokens /\ <<Newline>> \in Seq(Tokens)
      /\ \A i \in 1..Len(p) : p[i] # Newline
      /\ Line(c) = p \o <<Newline>>
  BY LineFacts
<1>2. CommandIn(line \o p) = IF line = <<>> THEN <<c>> ELSE <<>>
  BY CommandAlone
<1> HIDE DEF p
<1>3. Read(line, p) = NothingRead(line \o p) /\ line \o p \in Seq(Tokens)
  BY <1>1, ReadPieces
<1>4. Read(line, p).line = line \o p /\ Read(line, p).cmds = <<>>
  BY <1>3 DEF NothingRead
<1>5. Read(line, Line(c)) = Join(Read(line, p), Read(line \o p, <<Newline>>))
  <2>1. Read(line, p \o <<Newline>>) =
          Join(Read(line, p), Read(Read(line, p).line, <<Newline>>))
    BY <1>1, ReadParts
  <2> QED BY <1>1, <1>4, <2>1, Zenon
<1>6. Read(line \o p, <<Newline>>) = LineRead(NothingRead(line \o p))
  BY <1>1, <1>3, ReadOne DEF PieceRead
<1>7. /\ LineRead(NothingRead(line \o p)).line = <<>>
      /\ LineRead(NothingRead(line \o p)).cmds = <<>> \o CommandIn(line \o p)
  BY DEF LineRead, NothingRead
<1>8. <<>> \o CommandIn(line \o p) = CommandIn(line \o p)
  BY <1>2
<1>9. <<>> \o (<<>> \o CommandIn(line \o p)) = CommandIn(line \o p)
  BY <1>8
<1> QED BY <1>2, <1>4, <1>5, <1>6, <1>7, <1>9 DEF Join

\* No newline of s is the first piece of a line.
Solid(line, s) ==
  \A i \in 1..Len(s) : s[i] = Newline => IF i = 1 THEN line # <<>> ELSE s[i - 1] # Newline

\* A newline that is read ends a line that is not empty, and what is left is
\* empty only behind a newline.
LEMMA ReadEnds ==
  ASSUME NEW line \in Seq(Tokens), NEW s \in Seq(Tokens), Solid(line, s),
         \A i \in 1..Len(line) : line[i] # Newline
  PROVE  /\ (\E i \in 1..Len(s) : s[i] = Newline) => Read(line, s).any
         /\ Read(line, s).line = <<>> =>
              IF s = <<>> THEN line = <<>> ELSE s[Len(s)] = Newline
         /\ \A i \in 1..Len(Read(line, s).line) : Read(line, s).line[i] # Newline
<1> DEFINE scan == Scan(line, s)
           Found(n) == (\E i \in 1..n : s[i] = Newline) => scan[n].any
           Left(n) == scan[n].line = <<>> => IF n = 0 THEN line = <<>> ELSE s[n] = Newline
           Clean(n) == \A i \in 1..Len(scan[n].line) : scan[n].line[i] # Newline
           T == {n \in 0..Len(s) : Found(n) /\ Left(n) /\ Clean(n)}
<1>0. Len(s) \in Nat
  OBVIOUS
<1>1. 0 \in T
  <2>0. scan[0] = NothingRead(line)
    BY ScanSteps
  <2>1. scan[0].line = line
    BY <2>0 DEF NothingRead
  <2> HIDE DEF scan
  <2>2. Found(0) /\ Left(0)
    BY <2>1
  <2>3. Clean(0)
    BY <2>1
  <2> QED BY <1>0, <2>2, <2>3
<1>2. ASSUME NEW n \in Nat, n < Len(s), n \in T PROVE n + 1 \in T
  <2>1. n + 1 \in 1..Len(s) /\ (n + 1) - 1 = n /\ n + 1 # 0 /\ n \in 0..Len(s)
    BY <1>0, <1>2
  <2>2. scan[n + 1] = PieceRead(scan[n], s[n + 1]) /\ scan[n] \in Reads
    <3>1. scan[n + 1] = PieceRead(scan[(n + 1) - 1], s[n + 1])
      BY <2>1, ScanSteps
    <3>2. scan[n] \in Reads
      BY <2>1, ScanReads
    <3> QED BY <2>1, <3>1, <3>2
  <2>3. Found(n) /\ Left(n) /\ Clean(n)
    BY <1>2
  <2> HIDE DEF scan
  <2>4. CASE s[n + 1] = Newline
    <3>1. scan[n + 1].any = (scan[n].any \/ scan[n].line # <<>>) /\ scan[n + 1].line = <<>>
      BY <2>2, <2>4 DEF PieceRead, LineRead
    <3>2. scan[n].line # <<>>
      <4>1. IF n + 1 = 1 THEN line # <<>> ELSE s[n] # Newline
        BY <2>1, <2>4 DEF Solid
      <4> QED BY <2>3, <4>1
    <3>3. Found(n + 1)
      BY <3>1, <3>2
    <3>4. Left(n + 1)
      BY <2>1, <2>4
    <3>5. Clean(n + 1)
      BY <3>1
    <3> QED BY <2>1, <3>3, <3>4, <3>5
  <2>5. CASE s[n + 1] # Newline
    <3> DEFINE old == scan[n].line
    <3>1. old \in Seq(Tokens) /\ s[n + 1] \in Tokens
      BY <2>1, <2>2 DEF Reads
    <3>2. scan[n + 1].any = scan[n].any /\ scan[n + 1].line = Append(old, s[n + 1])
      BY <2>2, <2>5 DEF PieceRead, Reads
    <3>3. \A i \in 1..Len(old) : old[i] # Newline
      BY <2>3
    <3> HIDE DEF old
    <3>4. Left(n + 1)
      <4>1. Append(old, s[n + 1]) # <<>>
        BY <3>1
      <4> QED BY <3>2, <4>1
    <3>5. Clean(n + 1)
      BY <2>5, <3>1, <3>2, <3>3
    <3>6. Found(n + 1)
      <4>1. ASSUME NEW i \in 1..(n + 1), s[i] = Newline PROVE i \in 1..n
        BY <2>5, <4>1
      <4> QED BY <2>3, <3>2, <4>1
    <3> QED BY <2>1, <3>4, <3>5, <3>6
  <2> QED BY <2>4, <2>5
<1>3. Len(s) \in T
  <2> HIDE DEF T
  <2>1. \A n \in 0..Len(s) : n \in T
    BY <1>0, <1>1, <1>2, StepByStep
  <2> QED BY <1>0, <2>1
<1>4. scan[Len(s)] = Read(line, s)
  BY DEF Read
<1>5. s = <<>> <=> Len(s) = 0
  OBVIOUS
<1> HIDE DEF scan
<1> QED BY <1>3, <1>4, <1>5

-----------------------------------------------------------------------------
(* Sequences as lists without repetition.                                  *)

LEMMA AppendFacts ==
  ASSUME NEW S, NEW s \in Seq(S), NEW x \in S
  PROVE  /\ Append(s, x) \in Seq(S) /\ Len(Append(s, x)) = Len(s) + 1
         /\ Append(s, x)[Len(s) + 1] = x /\ \A i \in 1..Len(s) : Append(s, x)[i] = s[i]
         /\ Range(Append(s, x)) = Range(s) \cup {x}
         /\ IsInjective(s) /\ x \notin Range(s) => IsInjective(Append(s, x))
<1> DEFINE a == Append(s, x)
<1>1. /\ a \in Seq(S) /\ Len(a) = Len(s) + 1 /\ Len(s) \in Nat
      /\ a[Len(s) + 1] = x /\ \A i \in 1..Len(s) : a[i] = s[i]
      /\ DOMAIN a = 1..(Len(s) + 1) /\ DOMAIN s = 1..Len(s)
  OBVIOUS
<1> HIDE DEF a
<1>2. Range(a) = Range(s) \cup {x}
  <2>1. ASSUME NEW i \in DOMAIN a PROVE a[i] \in Range(s) \cup {x}
    <3>1. CASE i = Len(s) + 1
      BY <1>1, <3>1
    <3>2. CASE i \in 1..Len(s)
      BY <1>1, <3>2 DEF Range
    <3> QED BY <1>1, <3>1, <3>2
  <2>2. ASSUME NEW i \in DOMAIN s PROVE s[i] \in Range(a)
    <3>1. i \in DOMAIN a /\ a[i] = s[i]
      BY <1>1
    <3> QED BY <3>1 DEF Range
  <2>3. x \in Range(a)
    <3>1. Len(s) + 1 \in DOMAIN a
      BY <1>1
    <3> QED BY <1>1, <3>1 DEF Range
  <2> QED BY <2>1, <2>2, <2>3 DEF Range
<1>3. ASSUME IsInjective(s), x \notin Range(s) PROVE IsInjective(a)
  <2>1. \A i \in 1..Len(s) : s[i] # x
    BY <1>1, <1>3 DEF Range
  <2>2. \A i, k \in 1..Len(s) : s[i] = s[k] => i = k
    BY <1>1, <1>3 DEF IsInjective
  <2>3. ASSUME NEW i \in DOMAIN a, NEW k \in DOMAIN a, a[i] = a[k] PROVE i = k
    <3>1. i = Len(s) + 1 \/ i \in 1..Len(s)
      BY <1>1
    <3>2. k = Len(s) + 1 \/ k \in 1..Len(s)
      BY <1>1
    <3> QED BY <1>1, <2>1, <2>2, <2>3, <3>1, <3>2
  <2> QED BY <2>3 DEF IsInjective
<1> QED BY <1>1, <1>2, <1>3 DEF a

-----------------------------------------------------------------------------
(* Timers.                                                                 *)

TimersOK == TimerTypeOK /\ TimersAgree

Timer == [id : Nat, left : Nat, active : BOOLEAN]

LEMMA TimerFacts ==
  ASSUME TimersOK
  PROVE  /\ g_timers \in Seq(Timer) /\ Len(g_timers) \in Nat
         /\ timerSeq \in Nat /\ Slots \in Nat \ {0}
         /\ \A id \in callbacks : id \in 1..timerSeq
         /\ Len(g_timers) = IF timerSeq < Slots THEN timerSeq ELSE Slots
         /\ \A i \in 1..Len(g_timers) :
              /\ g_timers[i] \in Timer /\ g_timers[i].id = i
              /\ g_timers[i].active <=> i \in callbacks
<1>1. g_timers \in Seq(Timer)
  BY DEF TimersOK, TimerTypeOK, Timer
<1>2. timerSeq \in Nat /\ Slots \in Nat \ {0} /\ \A id \in callbacks : id \in 1..timerSeq
  BY TimerAssumption DEF TimersOK, TimerTypeOK
<1>3. /\ Len(g_timers) \in Nat /\ DOMAIN g_timers = 1..Len(g_timers)
      /\ \A i \in 1..Len(g_timers) : g_timers[i] \in Timer
  BY <1>1
<1>4. Len(g_timers) = IF timerSeq < Slots THEN timerSeq ELSE Slots
  BY DEF TimersOK, TimersAgree
<1>5. \A i \in 1..Len(g_timers) : g_timers[i].id = i /\ (g_timers[i].active <=> i \in callbacks)
  BY <1>3 DEF TimersOK, TimersAgree
<1> QED BY <1>1, <1>2, <1>3, <1>4, <1>5

\* The converse, for the next state.
LEMMA TimersFrom ==
  ASSUME g_timers' \in Seq(Timer), timerSeq' \in Nat,
         \A id \in callbacks' : id \in 1..timerSeq',
         Len(g_timers') = IF timerSeq' < Slots THEN timerSeq' ELSE Slots,
         \A i \in 1..Len(g_timers') :
           /\ g_timers'[i].id = i
           /\ g_timers'[i].active <=> i \in callbacks'
  PROVE  TimersOK'
BY DEF TimersOK, TimerTypeOK, TimersAgree, Timer

LEMMA TimerSet ==
  ASSUME TimersOK, NEW ms \in Nat, SetTimeout(ms)
  PROVE  TimersOK'
<1>0. timerSeq' = timerSeq + 1 /\ callbacks' = callbacks \cup {timerSeq + 1}
  BY DEF SetTimeout
<1>1. CASE Len(g_timers) >= Slots
  <2>1. g_timers' = g_timers
    BY <1>1 DEF SetTimeout, TimerAdd
  <2> QED BY <1>0, <1>1, <2>1, TimerFacts, TimersFrom
<1>2. CASE ~(Len(g_timers) >= Slots)
  <2>1. PICK later \in 0..1 :
          g_timers' = Append(g_timers, [id |-> timerSeq + 1, left |-> ms + later, active |-> TRUE])
    BY <1>2 DEF SetTimeout, TimerAdd
  <2> DEFINE new == [id |-> timerSeq + 1, left |-> ms + later, active |-> TRUE]
  <2>2. new \in Timer /\ new.id = timerSeq + 1 /\ new.active
    BY TimerFacts DEF Timer
  <2> HIDE DEF new
  <2>3. /\ g_timers' \in Seq(Timer) /\ Len(g_timers') = Len(g_timers) + 1
        /\ g_timers'[Len(g_timers) + 1] = new
        /\ \A i \in 1..Len(g_timers) : g_timers'[i] = g_timers[i]
    BY <2>1, <2>2, TimerFacts DEF new
  <2>4. Len(g_timers) = timerSeq /\ timerSeq < Slots
    BY <1>2, TimerFacts
  <2>5. ASSUME NEW i \in 1..Len(g_timers')
        PROVE  g_timers'[i].id = i /\ (g_timers'[i].active <=> i \in callbacks')
    <3>1. CASE i = timerSeq + 1
      BY <1>0, <2>2, <2>3, <2>4, <3>1
    <3>2. CASE i \in 1..timerSeq
      BY <1>0, <2>3, <2>4, <3>2, TimerFacts
    <3> QED BY <2>3, <2>4, <3>1, <3>2, TimerFacts
  <2> QED BY <1>0, <2>3, <2>4, <2>5, TimerFacts, TimersFrom
<1> QED BY <1>1, <1>2

LEMMA TimerCleared ==
  ASSUME TimersOK, NEW id, ClearTimeout(id)
  PROVE  TimersOK'
<1>1. /\ timerSeq' = timerSeq /\ callbacks' = callbacks \ {id}
      /\ g_timers' = [i \in 1..Len(g_timers) |->
                        IF g_timers[i].id = id THEN [g_timers[i] EXCEPT !.active = FALSE]
                        ELSE g_timers[i]]
  BY TimerFacts DEF ClearTimeout
<1>2. ASSUME NEW i \in 1..Len(g_timers)
      PROVE  /\ g_timers'[i] \in Timer /\ g_timers'[i].id = i
             /\ g_timers'[i].active <=> i \in callbacks'
  <2>1. g_timers[i] \in Timer /\ g_timers[i].id = i
    BY TimerFacts
  <2>2. CASE i = id
    <3>1. g_timers'[i] = [g_timers[i] EXCEPT !.active = FALSE]
      BY <1>1, <2>1, <2>2
    <3> QED BY <1>1, <2>1, <2>2, <3>1 DEF Timer
  <2>3. CASE i # id
    <3>1. g_timers'[i] = g_timers[i]
      BY <1>1, <2>1, <2>3
    <3> QED BY <1>1, <2>1, <2>3, <3>1, TimerFacts
  <2> QED BY <2>2, <2>3
<1>3. g_timers' \in Seq(Timer) /\ Len(g_timers') = Len(g_timers)
  BY <1>1, <1>2, TimerFacts
<1> QED BY <1>1, <1>2, <1>3, TimerFacts, TimersFrom

LEMMA TimerFired ==
  ASSUME TimersOK, NEW i \in DOMAIN g_timers, Fire(i)
  PROVE  TimersOK'
<1>1. /\ timerSeq' = timerSeq /\ callbacks' = callbacks \ {i} /\ i \in 1..Len(g_timers)
      /\ g_timers' = [g_timers EXCEPT ![i].active = FALSE]
  BY TimerFacts DEF Fire
<1>2. ASSUME NEW k \in 1..Len(g_timers)
      PROVE  /\ g_timers'[k] \in Timer /\ g_timers'[k].id = k
             /\ g_timers'[k].active <=> k \in callbacks'
  <2>1. g_timers[k] \in Timer /\ g_timers[k].id = k
    BY TimerFacts
  <2>2. CASE k = i
    <3>1. g_timers'[k] = [g_timers[k] EXCEPT !.active = FALSE]
      BY <1>1, <2>2, TimerFacts
    <3> QED BY <1>1, <2>1, <2>2, <3>1 DEF Timer
  <2>3. CASE k # i
    <3>1. g_timers'[k] = g_timers[k]
      BY <1>1, <2>3, TimerFacts
    <3> QED BY <1>1, <2>1, <2>3, <3>1, TimerFacts
  <2> QED BY <2>2, <2>3
<1>3. g_timers' \in Seq(Timer) /\ Len(g_timers') = Len(g_timers)
  <2>1. g_timers' \in [1..Len(g_timers) -> Timer]
    <3> DEFINE old == g_timers  slot == [old[i] EXCEPT !.active = FALSE]
    <3>1. old \in [1..Len(g_timers) -> Timer]
      BY TimerFacts
    <3>2. slot \in Timer
      <4>1. old[i] \in Timer
        BY <1>1, TimerFacts
      <4> QED BY <4>1 DEF Timer
    <3>3. g_timers' = [old EXCEPT ![i] = slot]
      BY <1>1
    <3> HIDE DEF old, slot
    <3> QED BY <3>1, <3>2, <3>3
  <2> QED BY <2>1, TimerFacts
<1> QED BY <1>1, <1>2, <1>3, TimerFacts, TimersFrom

LEMMA TimeElapsed ==
  ASSUME TimersOK, NEW time \in Nat, Elapse(time)
  PROVE  TimersOK'
<1>1. /\ timerSeq' = timerSeq /\ callbacks' = callbacks
      /\ g_timers' = [i \in 1..Len(g_timers) |->
                        [g_timers[i] EXCEPT !.left = IF g_timers[i].left > time
                                                     THEN g_timers[i].left - time ELSE 0]]
  BY TimerFacts DEF Elapse
<1>2. ASSUME NEW i \in 1..Len(g_timers)
      PROVE  /\ g_timers'[i] \in Timer /\ g_timers'[i].id = i
             /\ g_timers'[i].active <=> i \in callbacks'
  <2>1. g_timers[i] \in Timer /\ g_timers[i].id = i
    BY TimerFacts
  <2>2. g_timers'[i] = [g_timers[i] EXCEPT !.left = IF g_timers[i].left > time
                                                    THEN g_timers[i].left - time ELSE 0]
    BY <1>1
  <2>3. (IF g_timers[i].left > time THEN g_timers[i].left - time ELSE 0) \in Nat
    BY <2>1 DEF Timer
  <2>4. g_timers'[i] \in Timer /\ g_timers'[i].id = i /\ g_timers'[i].active = g_timers[i].active
    BY <2>1, <2>2, <2>3 DEF Timer
  <2> QED BY <1>1, <2>4, TimerFacts
<1>3. g_timers' \in Seq(Timer) /\ Len(g_timers') = Len(g_timers)
  BY <1>1, <1>2, TimerFacts
<1> QED BY <1>1, <1>2, <1>3, TimerFacts, TimersFrom

\* The slot that fires is one of those that are due.
LEMMA LeastDue ==
  ASSUME TimersOK, DueFrom(cursor) # {}
  PROVE  (CHOOSE i \in DueFrom(cursor) : \A k \in DueFrom(cursor) : i <= k) \in DOMAIN g_timers
<1>1. DueFrom(cursor) \subseteq Nat /\ DueFrom(cursor) \subseteq DOMAIN g_timers
  BY TimerFacts DEF DueFrom
<1>2. PICK i \in DueFrom(cursor) : \A k \in DueFrom(cursor) : <<k, i>> \notin Less
  BY <1>1, LessIsWellFounded, WFMin
<1>3. ASSUME NEW k \in DueFrom(cursor) PROVE i <= k
  <2>1. k \in Nat /\ i \in Nat
    BY <1>1
  <2>2. <<k, i>> \notin Less
    BY <1>2
  <2>3. ~(k < i)
    BY <2>1, <2>2 DEF Less
  <2> QED BY <2>1, <2>3
<1> DEFINE least == CHOOSE j \in DueFrom(cursor) : \A k \in DueFrom(cursor) : j <= k
<1>4. least \in DueFrom(cursor)
  <2>1. \E j \in DueFrom(cursor) : \A k \in DueFrom(cursor) : j <= k
    BY <1>3
  <2> QED BY <2>1, Zenon
<1> QED BY <1>1, <1>4

LEMMA NextTimers == TimersOK /\ [Next]_vars => TimersOK'
<1> SUFFICES ASSUME TimersOK, [Next]_vars PROVE TimersOK'
  OBVIOUS
<1>1. CASE UNCHANGED timerVars
  BY <1>1 DEF timerVars, TimersOK, TimerTypeOK, TimersAgree
<1>2. CASE TurnBegins
  <2>1. CASE Waits
    BY <2>1, TimeElapsed DEF Waits
  <2>2. CASE InputRead
    BY <1>1, <2>2 DEF InputRead
  <2> QED BY <1>2, <2>1, <2>2 DEF TurnBegins
<1>3. CASE TimersFire
  <2> DEFINE i == CHOOSE i \in DueFrom(cursor) : \A k \in DueFrom(cursor) : i <= k
  <2>1. i \in DOMAIN g_timers
    BY <1>3, LeastDue DEF TimersFire
  <2>2. Fire(i)
    BY <1>3 DEF TimersFire
  <2> HIDE DEF i
  <2> QED BY <2>1, <2>2, TimerFired
<1>4. CASE DownloadGoesOn
  BY <1>4, TimeElapsed DEF DownloadGoesOn
<1>5. CASE ScriptSetsTimer
  <2>1. PICK ms \in Delays : SetTimeout(ms)
    BY <1>5 DEF ScriptSetsTimer
  <2>2. ms \in Nat
    BY TimerAssumption
  <2> QED BY <2>1, <2>2, TimerSet
<1>6. CASE ScriptClearsTimer
  BY <1>6, TimerCleared DEF ScriptClearsTimer
<1>7. \/ UNCHANGED timerVars \/ TurnBegins \/ TimersFire \/ DownloadGoesOn
      \/ ScriptSetsTimer \/ ScriptClearsTimer
  BY DEF Next, Loop, Writers, JobRuns, ScriptRuns, HttpPolled, HttpDone, TimersFired,
     HandlePing, HandleScript, HandleDownload, DownloadEnds, Settled, Answer, JobThrows, JobsDone,
     ScriptRequests, ScriptInited, ScriptLoaded, ScriptReturns, LooksAtClock, Ends, ComponentGivesUp, PageWrites,
     ComponentWrites, vars
<1> QED BY <1>1, <1>2, <1>3, <1>4, <1>5, <1>6, <1>7

-----------------------------------------------------------------------------
(* Requests.                                                               *)

HttpOK == HttpTypeOK /\ RequestsAccounted

LEMMA HttpFacts ==
  ASSUME HttpOK
  PROVE  /\ reqSeq \in Nat /\ settled \in Seq(1..reqSeq) /\ settled \in Seq(Nat)
         /\ g_reqs \subseteq 1..reqSeq /\ pendingReqs \subseteq 1..reqSeq
         /\ multi \subseteq g_reqs /\ g_reqs \subseteq pendingReqs
         /\ g_reqs \cap Range(settled) = {} /\ g_reqs \cup Range(settled) = 1..reqSeq
         /\ IsInjective(settled)
<1>1. reqSeq \in Nat /\ settled \in Seq(1..reqSeq)
  BY DEF HttpOK, HttpTypeOK
<1>2. settled \in Seq(Nat)
  BY <1>1
<1>3. g_reqs \subseteq 1..reqSeq /\ pendingReqs \subseteq 1..reqSeq
  BY DEF HttpOK, HttpTypeOK
<1>4. /\ multi \subseteq g_reqs /\ g_reqs \subseteq pendingReqs
      /\ g_reqs \cap Range(settled) = {} /\ g_reqs \cup Range(settled) = 1..reqSeq
      /\ IsInjective(settled)
  BY DEF HttpOK, RequestsAccounted
<1> QED BY <1>1, <1>2, <1>3, <1>4

\* A request is made and the promises of some are settled.
LEMMA HttpFrom ==
  ASSUME reqSeq' \in Nat, settled' \in Seq(1..reqSeq'),
         g_reqs' \subseteq 1..reqSeq', pendingReqs' \subseteq 1..reqSeq',
         multi' \subseteq g_reqs', g_reqs' \subseteq pendingReqs',
         g_reqs' \cap Range(settled') = {}, g_reqs' \cup Range(settled') = 1..reqSeq',
         IsInjective(settled')
  PROVE  HttpOK'
<1>1. HttpTypeOK'
  BY DEF HttpTypeOK
<1>2. RequestsAccounted'
  BY DEF RequestsAccounted
<1> QED BY <1>1, <1>2 DEF HttpOK

LEMMA NextNumber ==
  ASSUME NEW n \in Nat, NEW s \in Seq(1..n)
  PROVE  /\ s \in Seq(1..(n + 1)) /\ 1..(n + 1) = (1..n) \cup {n + 1}
         /\ n + 1 \in Nat /\ n + 1 \notin 1..n /\ Range(s) \subseteq 1..n
<1>1. 1..(n + 1) = (1..n) \cup {n + 1} /\ n + 1 \in Nat /\ n + 1 \notin 1..n
  OBVIOUS
<1>2. s \in Seq(1..(n + 1))
  BY <1>1
<1>3. Range(s) \subseteq 1..n
  BY DEF Range
<1> QED BY <1>1, <1>2, <1>3

LEMMA RequestStarted ==
  ASSUME HttpOK, RequestStarts \/ RequestRefused
  PROVE  HttpOK' /\ settled' = settled /\ reqSeq' = reqSeq + 1
<1>1. /\ reqSeq' = reqSeq + 1 /\ settled' = settled
      /\ g_reqs' = g_reqs \cup {reqSeq + 1} /\ multi' \subseteq multi \cup {reqSeq + 1}
      /\ pendingReqs' = pendingReqs \cup {reqSeq + 1}
  BY DEF RequestStarts, RequestRefused
<1>2. /\ settled \in Seq(1..(reqSeq + 1)) /\ 1..(reqSeq + 1) = (1..reqSeq) \cup {reqSeq + 1}
      /\ reqSeq + 1 \in Nat /\ reqSeq + 1 \notin 1..reqSeq /\ Range(settled) \subseteq 1..reqSeq
  BY HttpFacts, NextNumber
<1>3. HttpOK'
  <2>1. reqSeq' \in Nat /\ settled' \in Seq(1..reqSeq')
    BY <1>1, <1>2
  <2>2. g_reqs' \subseteq 1..reqSeq' /\ pendingReqs' \subseteq 1..reqSeq'
    BY <1>1, <1>2, HttpFacts
  <2>3. multi' \subseteq g_reqs' /\ g_reqs' \subseteq pendingReqs'
    BY <1>1, HttpFacts
  <2>4. g_reqs' \cap Range(settled') = {} /\ g_reqs' \cup Range(settled') = 1..reqSeq'
    BY <1>1, <1>2, HttpFacts
  <2>5. IsInjective(settled')
    BY <1>1, HttpFacts
  <2> QED BY <2>1, <2>2, <2>3, <2>4, <2>5, HttpFrom
<1> QED BY <1>1, <1>3

LEMMA RequestFailed ==
  ASSUME HttpOK, RequestFails
  PROVE  HttpOK' /\ settled' = Append(settled, reqSeq + 1) /\ reqSeq' = reqSeq + 1
<1>1. /\ reqSeq' = reqSeq + 1 /\ settled' = Append(settled, reqSeq + 1)
      /\ g_reqs' = g_reqs /\ multi' = multi
      /\ pendingReqs' = pendingReqs \cup {reqSeq + 1}
  BY DEF RequestFails
<1>2. /\ settled \in Seq(1..(reqSeq + 1)) /\ 1..(reqSeq + 1) = (1..reqSeq) \cup {reqSeq + 1}
      /\ reqSeq + 1 \in Nat /\ reqSeq + 1 \notin 1..reqSeq /\ Range(settled) \subseteq 1..reqSeq
  BY HttpFacts, NextNumber
<1>3. /\ settled' \in Seq(1..(reqSeq + 1))
      /\ Range(settled') = Range(settled) \cup {reqSeq + 1}
      /\ IsInjective(settled')
  <2>1. reqSeq + 1 \in 1..(reqSeq + 1) /\ reqSeq + 1 \notin Range(settled) /\ IsInjective(settled)
    BY <1>2, HttpFacts
  <2> QED BY <1>1, <1>2, <2>1, AppendFacts
<1>4. HttpOK'
  <2>1. reqSeq' \in Nat /\ settled' \in Seq(1..reqSeq')
    BY <1>1, <1>2, <1>3
  <2>2. g_reqs' \subseteq 1..reqSeq' /\ pendingReqs' \subseteq 1..reqSeq'
    BY <1>1, <1>2, HttpFacts
  <2>3. multi' \subseteq g_reqs' /\ g_reqs' \subseteq pendingReqs'
    BY <1>1, HttpFacts
  <2>4. g_reqs' \cap Range(settled') = {} /\ g_reqs' \cup Range(settled') = 1..reqSeq'
    BY <1>1, <1>2, <1>3, HttpFacts
  <2> QED BY <1>3, <2>1, <2>2, <2>3, <2>4, HttpFrom
<1> QED BY <1>1, <1>4

\* Completion and cancelling do the same.
LEMMA RequestLeaves ==
  ASSUME HttpOK, NEW id \in g_reqs, g_reqs' = g_reqs \ {id}, multi' = multi \ {id},
         RequestDone(id), reqSeq' = reqSeq
  PROVE  HttpOK' /\ settled' = Append(settled, id) /\ id \in 1..reqSeq
<1>1. id \in 1..reqSeq /\ id \in pendingReqs /\ id \notin Range(settled)
  BY HttpFacts
<1>2. settled' = Append(settled, id) /\ pendingReqs' = pendingReqs \ {id}
  BY <1>1 DEF RequestDone
<1>3. /\ settled' \in Seq(1..reqSeq) /\ Range(settled') = Range(settled) \cup {id}
      /\ IsInjective(settled')
  <2> DEFINE ids == 1..reqSeq
  <2>1. settled \in Seq(ids) /\ IsInjective(settled) /\ id \in ids
    BY <1>1, HttpFacts
  <2> HIDE DEF ids
  <2>2. /\ Append(settled, id) \in Seq(ids)
        /\ Range(Append(settled, id)) = Range(settled) \cup {id}
        /\ IsInjective(Append(settled, id))
    BY <1>1, <2>1, AppendFacts
  <2> QED BY <1>2, <2>2 DEF ids
<1>4. HttpOK'
  <2>1. reqSeq' \in Nat /\ settled' \in Seq(1..reqSeq')
    BY <1>3, HttpFacts
  <2>2. g_reqs' \subseteq 1..reqSeq' /\ pendingReqs' \subseteq 1..reqSeq'
    BY <1>2, HttpFacts
  <2>3. multi' \subseteq g_reqs' /\ g_reqs' \subseteq pendingReqs'
    BY <1>2, HttpFacts
  <2>4. g_reqs' \cap Range(settled') = {} /\ g_reqs' \cup Range(settled') = 1..reqSeq'
    BY <1>1, <1>3, HttpFacts
  <2> QED BY <1>3, <2>1, <2>2, <2>3, <2>4, HttpFrom
<1> QED BY <1>1, <1>2, <1>4

LEMMA HttpCompletes ==
  ASSUME HttpOK, NEW r \in multi, Complete(r)
  PROVE  HttpOK' /\ settled' = Append(settled, r) /\ r \in 1..reqSeq /\ reqSeq' = reqSeq
<1>1. /\ r \in g_reqs /\ g_reqs' = g_reqs \ {r} /\ multi' = multi \ {r}
      /\ RequestDone(r) /\ reqSeq' = reqSeq
  BY HttpFacts DEF Complete
<1> QED BY <1>1, RequestLeaves

LEMMA HttpCancels ==
  ASSUME HttpOK, NEW id \in g_reqs, Cancel(id)
  PROVE  HttpOK' /\ settled' = Append(settled, id) /\ id \in 1..reqSeq /\ reqSeq' = reqSeq
<1>1. g_reqs' = g_reqs \ {id} /\ multi' = multi \ {id} /\ RequestDone(id) /\ reqSeq' = reqSeq
  BY DEF Cancel
<1> QED BY <1>1, RequestLeaves

\* What a script's request does: nothing is settled, or one more promise is.
LEMMA ScriptRequested ==
  ASSUME HttpOK, ScriptRequests
  PROVE  /\ HttpOK' /\ reqSeq \in Nat /\ reqSeq' \in {reqSeq, reqSeq + 1}
         /\ \/ settled' = settled
            \/ \E r \in 1..reqSeq' : settled' = Append(settled, r)
<1>0. reqSeq \in Nat
  BY HttpFacts
<1>1. CASE RequestStarts \/ RequestRefused
  BY <1>0, <1>1, RequestStarted
<1>2. CASE RequestFails
  <2>1. HttpOK' /\ settled' = Append(settled, reqSeq + 1) /\ reqSeq' = reqSeq + 1
    BY <1>2, RequestFailed
  <2>2. reqSeq + 1 \in 1..reqSeq'
    BY <1>0, <2>1
  <2> QED BY <1>0, <2>1, <2>2
<1>3. CASE \E id \in g_reqs : Cancel(id)
  <2>1. PICK id \in g_reqs : Cancel(id)
    BY <1>3
  <2>2. HttpOK' /\ settled' = Append(settled, id) /\ id \in 1..reqSeq' /\ reqSeq' = reqSeq
    BY <2>1, HttpCancels
  <2> QED BY <1>0, <2>2
<1> QED BY <1>1, <1>2, <1>3 DEF ScriptRequests

LEMMA NextRequests == HttpOK /\ [Next]_vars => HttpOK'
<1> SUFFICES ASSUME HttpOK, [Next]_vars PROVE HttpOK'
  OBVIOUS
<1>1. CASE UNCHANGED httpVars
  BY <1>1 DEF httpVars, HttpOK, HttpTypeOK, RequestsAccounted
<1>2. ASSUME NEW r \in multi, HttpDone(r) PROVE HttpOK'
  BY <1>2, HttpCompletes DEF HttpDone
<1>3. CASE ScriptRequests
  BY <1>3, ScriptRequested
<1>4. \/ UNCHANGED httpVars \/ ScriptRequests \/ \E r \in multi : HttpDone(r)
  BY DEF Next, Loop, Writers, JobRuns, ScriptRuns, HttpPolled, TurnBegins, TimersFire,
     TimersFired, HandlePing, HandleScript, HandleDownload,
     DownloadGoesOn, DownloadEnds, Settled, Answer, JobThrows,
     JobsDone, ScriptSetsTimer, ScriptClearsTimer, ScriptInited, ScriptLoaded, ScriptReturns,
     LooksAtClock, Ends, ComponentGivesUp, PageWrites, ComponentWrites, vars
<1> QED BY <1>1, <1>2, <1>3, <1>4

LEMMA InitTimers == Init => TimersOK
BY TimerAssumption DEF Init, TimerInit, TimersOK, TimerTypeOK, TimersAgree

LEMMA InitRequests == Init => HttpOK
<1> SUFFICES ASSUME HttpInit PROVE HttpOK
  BY DEF Init
<1>1. HttpTypeOK
  BY DEF HttpInit, HttpTypeOK
<1>2. RequestsAccounted
  BY DEF HttpInit, RequestsAccounted, Range, IsInjective
<1> QED BY <1>1, <1>2 DEF HttpOK

\* The table of timers and what the scripts know of it agree.
THEOREM TimersStayTrue == Spec => []TimersAgree
<1>1. TimersOK => TimersAgree
  BY DEF TimersOK
<1> QED BY <1>1, InitTimers, NextTimers, PTL DEF Spec

\* Every request is settled once, or can still be.
THEOREM RequestsStayAccounted == Spec => []RequestsAccounted
<1>1. HttpOK => RequestsAccounted
  BY DEF HttpOK
<1> QED BY <1>1, InitRequests, NextRequests, PTL DEF Spec

-----------------------------------------------------------------------------
(* The pipe.                                                               *)

\* A newline comes after a piece, also where a read has cut the stream.
Unbroken == (\A i \in 1..Len(g_inbuf) : g_inbuf[i] # Newline) /\ Solid(g_inbuf, fifo)

PipeOK ==
  /\ fifo \in Seq(Tokens) /\ Len(fifo) <= Capacity /\ g_inbuf \in Seq(Tokens)
  /\ Unbroken

\* What has been read and what would be.
Got == Read(g_inbuf, fifo)

LEMMA ConcatFacts ==
  ASSUME NEW S, NEW a \in Seq(S), NEW b \in Seq(S)
  PROVE  /\ a \o b \in Seq(S) /\ Len(a \o b) = Len(a) + Len(b)
         /\ \A i \in 1..Len(a) : (a \o b)[i] = a[i]
         /\ \A i \in 1..Len(b) : (a \o b)[Len(a) + i] = b[i]
OBVIOUS

LEMMA GotReads ==
  ASSUME PipeOK
  PROVE  /\ Got \in Reads /\ Got.cmds \in Seq(Commands) /\ Got.line \in Seq(Tokens)
         /\ Len(fifo) \in Nat /\ Capacity \in Nat
<1>1. fifo \in Seq(Tokens) /\ g_inbuf \in Seq(Tokens)
  BY DEF PipeOK
<1>2. Got \in Reads
  BY <1>1, ReadOK DEF Got
<1>3. Capacity \in Nat
  BY LoopAssumption
<1> QED BY <1>1, <1>2, <1>3 DEF Reads

\* A write that was torn adds to the line.
LEMMA PiecesWritten ==
  ASSUME PipeOK, NEW p \in Seq(Tokens), \A i \in 1..Len(p) : p[i] # Newline,
         Len(fifo) + Len(p) <= Capacity, fifo' = fifo \o p, g_inbuf' = g_inbuf
  PROVE  PipeOK' /\ Got'.cmds = Got.cmds
<1>1. /\ fifo \in Seq(Tokens) /\ g_inbuf \in Seq(Tokens) /\ Len(fifo) \in Nat /\ Len(p) \in Nat
      /\ fifo' \in Seq(Tokens) /\ Len(fifo') = Len(fifo) + Len(p)
      /\ \A i \in 1..Len(fifo) : fifo'[i] = fifo[i]
      /\ \A i \in 1..Len(p) : fifo'[Len(fifo) + i] = p[i]
  BY DEF PipeOK
<1>2. Solid(g_inbuf', fifo')
  <2>1. ASSUME NEW i \in 1..Len(fifo'), fifo'[i] = Newline
        PROVE  IF i = 1 THEN g_inbuf # <<>> ELSE fifo'[i - 1] # Newline
    <3>1. i \in 1..Len(fifo)
      <4>1. CASE i > Len(fifo)
        <5>1. i - Len(fifo) \in 1..Len(p) /\ Len(fifo) + (i - Len(fifo)) = i
          BY <1>1, <4>1
        <5> QED BY <1>1, <2>1, <5>1
      <4> QED BY <1>1, <4>1
    <3>2. IF i = 1 THEN g_inbuf # <<>> ELSE fifo[i - 1] # Newline
      BY <1>1, <2>1, <3>1 DEF PipeOK, Unbroken, Solid
    <3>3. i # 1 => i - 1 \in 1..Len(fifo)
      BY <1>1, <3>1
    <3> QED BY <1>1, <3>2, <3>3
  <2> QED BY <2>1 DEF Solid
<1>3. PipeOK'
  BY <1>1, <1>2 DEF PipeOK, Unbroken
<1>4. Got' = Join(Got, Read(Got.line, p))
  <2>1. Read(g_inbuf, fifo \o p) = Join(Read(g_inbuf, fifo), Read(Read(g_inbuf, fifo).line, p))
    BY <1>1, ReadParts
  <2> QED BY <2>1 DEF Got
<1>5. Read(Got.line, p) = NothingRead(Got.line \o p)
  BY GotReads, ReadPieces
<1>6. Got'.cmds = Got.cmds \o <<>>
  BY <1>4, <1>5 DEF Join, NothingRead
<1>7. Got.cmds \o <<>> = Got.cmds
  BY GotReads
<1> QED BY <1>3, <1>6, <1>7

\* A line that was written whole is read as its command, unless it comes after
\* a torn one: then it costs it.
LEMMA LineWritten ==
  ASSUME PipeOK, NEW c \in Commands, Len(fifo) + Size[c] < Capacity,
         fifo' = fifo \o Line(c), g_inbuf' = g_inbuf
  PROVE  /\ PipeOK' /\ Got'.line = <<>>
         /\ Got'.cmds = IF Got.line = <<>> THEN Append(Got.cmds, c) ELSE Got.cmds
         /\ fifo'[Len(fifo')] = Newline /\ Len(fifo') \in Nat \ {0}
<1> DEFINE l == Line(c)
           m == Size[c]
           f == Len(fifo)
<1>0. /\ Size[c] \in Nat \ {0} /\ l \in Seq(Tokens) /\ Len(l) = Size[c] + 1
      /\ \A i \in 1..Size[c] : l[i] # Newline
      /\ l[Size[c] + 1] = Newline
  <2> DEFINE p == Pieces(c)
  <2>1. /\ p \in Seq(Tokens) /\ Newline \in Tokens /\ l = Append(p, Newline)
        /\ Size[c] \in Nat \ {0} /\ Len(p) = Size[c] /\ \A i \in 1..Size[c] : p[i] # Newline
    BY LineFacts DEF Line
  <2> HIDE DEF p, l
  <2> QED BY <2>1, AppendFacts
<1> HIDE DEF l
<1>a. m \in Nat \ {0} /\ f \in Nat /\ Len(l) = m + 1 /\ Capacity \in Nat /\ f + m < Capacity
  BY <1>0, GotReads
<1>1. /\ fifo \in Seq(Tokens) /\ g_inbuf \in Seq(Tokens) /\ Len(fifo) \in Nat
      /\ fifo' \in Seq(Tokens) /\ Len(fifo') = Len(fifo) + (Size[c] + 1)
      /\ \A i \in 1..Len(fifo) : fifo'[i] = fifo[i]
      /\ \A i \in 1..(Size[c] + 1) : fifo'[Len(fifo) + i] = l[i]
  <2>1. fifo' = fifo \o l /\ fifo \in Seq(Tokens) /\ g_inbuf \in Seq(Tokens)
    BY DEF PipeOK, l
  <2>2. l \in Seq(Tokens) /\ Len(l) = Size[c] + 1
    BY <1>0
  <2>3. /\ fifo \o l \in Seq(Tokens) /\ Len(fifo \o l) = Len(fifo) + Len(l)
        /\ \A i \in 1..Len(fifo) : (fifo \o l)[i] = fifo[i]
        /\ \A i \in 1..Len(l) : (fifo \o l)[Len(fifo) + i] = l[i]
    BY <2>1, <2>2, ConcatFacts
  <2>4. Len(fifo) \in Nat
    BY <1>a
  <2> QED BY <2>1, <2>2, <2>3, <2>4, Zenon
<1> HIDE DEF m, f
<1>b. /\ Len(fifo') = f + (m + 1) /\ l[m + 1] = Newline
      /\ \A i \in 1..m : l[i] # Newline
      /\ \A i \in 1..f : fifo'[i] = fifo[i]
      /\ \A i \in 1..(m + 1) : fifo'[f + i] = l[i]
  BY <1>0, <1>1 DEF m, f
<1>2. Solid(g_inbuf', fifo')
  <2>1. ASSUME NEW i \in 1..Len(fifo'), fifo'[i] = Newline
        PROVE  IF i = 1 THEN g_inbuf # <<>> ELSE fifo'[i - 1] # Newline
    <3>1. CASE i \in 1..f
      <4>1. IF i = 1 THEN g_inbuf # <<>> ELSE fifo[i - 1] # Newline
        <5>1. i \in 1..Len(fifo) /\ fifo[i] = Newline
          BY <1>b, <2>1, <3>1 DEF f
        <5> QED BY <5>1 DEF PipeOK, Unbroken, Solid
      <4>2. i # 1 => i - 1 \in 1..f
        BY <1>a, <3>1
      <4> QED BY <1>b, <4>1, <4>2
    <3>2. CASE i = f + (m + 1)
      <4>1. i - 1 = f + m /\ m \in 1..m /\ m \in 1..(m + 1) /\ i # 1
        BY <1>a, <3>2
      <4>2. fifo'[i - 1] = l[m] /\ l[m] # Newline
        BY <1>b, <4>1
      <4> QED BY <4>1, <4>2
    <3>3. CASE i > f /\ i # f + (m + 1)
      <4>1. i - f \in 1..m /\ f + (i - f) = i
        BY <1>a, <1>b, <3>3
      <4>2. i - f \in 1..(m + 1)
        BY <1>a, <4>1
      <4>3. fifo'[f + (i - f)] = l[i - f]
        BY <1>b, <4>2
      <4> QED BY <1>b, <2>1, <4>1, <4>3
    <3> QED BY <1>a, <1>b, <3>1, <3>2, <3>3
  <2> QED BY <2>1 DEF Solid
<1>3. PipeOK'
  <2>1. Len(fifo') <= Capacity
    BY <1>a, <1>b
  <2> QED BY <1>1, <1>2, <2>1 DEF PipeOK, Unbroken
<1>4. Got' = Join(Got, Read(Got.line, l))
  <2>1. Read(g_inbuf, fifo \o l) = Join(Read(g_inbuf, fifo), Read(Read(g_inbuf, fifo).line, l))
    BY <1>0, <1>1, ReadParts
  <2> QED BY <2>1 DEF Got, l
<1>5. /\ Read(Got.line, l).line = <<>>
      /\ Read(Got.line, l).cmds = IF Got.line = <<>> THEN <<c>> ELSE <<>>
  BY GotReads, ReadLine DEF l
<1>6. Got'.line = <<>> /\ Got'.cmds = Got.cmds \o Read(Got.line, l).cmds
  BY <1>4, <1>5 DEF Join
<1>7. Got.cmds \o <<>> = Got.cmds /\ Got.cmds \o <<c>> = Append(Got.cmds, c)
  BY GotReads
<1>8. fifo'[Len(fifo')] = Newline
  <2>1. m + 1 \in 1..(m + 1)
    BY <1>a
  <2> QED BY <1>b, <2>1
<1>9. Len(fifo') \in Nat \ {0}
  BY <1>a, <1>b
<1> QED BY <1>3, <1>5, <1>6, <1>7, <1>8, <1>9

\* A read takes a part, and what has been read and would be is the same.
LEMMA PartRead ==
  ASSUME PipeOK, NEW n \in 1..Len(fifo), handled \in Seq(Commands),
         g_inbuf' = Read(g_inbuf, SubSeq(fifo, 1, n)).line,
         handled' = handled \o Read(g_inbuf, SubSeq(fifo, 1, n)).cmds,
         fifo' = SubSeq(fifo, n + 1, Len(fifo))
  PROVE  /\ PipeOK' /\ Kept' = Kept /\ Got'.line = Got.line
         /\ handled' \in Seq(Commands)
         /\ (\E i \in 1..n : fifo[i] = Newline) => Read(g_inbuf, SubSeq(fifo, 1, n)).any
         /\ Len(fifo') = Len(fifo) - n
         /\ \A i \in 1..Len(fifo') : fifo'[i] = fifo[n + i]
<1> DEFINE s == SubSeq(fifo, 1, n)
           first == Read(g_inbuf, s)
<1>0. fifo \in Seq(Tokens) /\ g_inbuf \in Seq(Tokens) /\ Len(fifo) \in Nat
  BY DEF PipeOK
<1>1. /\ s \in Seq(Tokens) /\ Len(s) = n /\ \A i \in 1..n : s[i] = fifo[i]
      /\ fifo' \in Seq(Tokens) /\ Len(fifo') = Len(fifo) - n
      /\ \A i \in 1..(Len(fifo) - n) : fifo'[i] = fifo[n + i]
  BY <1>0
<1>2. fifo = s \o fifo'
  BY <1>0
<1> HIDE DEF s
<1>3. Solid(g_inbuf, s)
  <2>1. ASSUME NEW i \in 1..Len(s), s[i] = Newline
        PROVE  IF i = 1 THEN g_inbuf # <<>> ELSE s[i - 1] # Newline
    <3>1. i \in 1..Len(fifo) /\ fifo[i] = Newline /\ (i # 1 => i - 1 \in 1..n)
      BY <1>0, <1>1, <2>1
    <3>2. IF i = 1 THEN g_inbuf # <<>> ELSE fifo[i - 1] # Newline
      BY <3>1 DEF PipeOK, Unbroken, Solid
    <3> QED BY <1>1, <3>1, <3>2
  <2> QED BY <2>1 DEF Solid
<1>4. /\ (\E i \in 1..Len(s) : s[i] = Newline) => first.any
      /\ first.line = <<>> => IF s = <<>> THEN g_inbuf = <<>> ELSE s[Len(s)] = Newline
      /\ \A i \in 1..Len(first.line) : first.line[i] # Newline
  <2>1. \A i \in 1..Len(g_inbuf) : g_inbuf[i] # Newline
    BY DEF PipeOK, Unbroken
  <2>2. s \in Seq(Tokens) /\ g_inbuf \in Seq(Tokens)
    BY <1>0, <1>1
  <2> QED BY <1>3, <2>1, <2>2, ReadEnds, Zenon
<1>5. first \in Reads /\ first.line \in Seq(Tokens) /\ first.cmds \in Seq(Commands)
  <2>1. first \in Reads
    BY <1>0, <1>1, ReadOK
  <2> HIDE DEF first
  <2> QED BY <2>1 DEF Reads
<1>6. Got = Join(first, Got')
  <2>1. Read(g_inbuf, s \o fifo') = Join(Read(g_inbuf, s), Read(Read(g_inbuf, s).line, fifo'))
    <3>1. \A t \in Seq(Tokens) :
            Read(g_inbuf, s \o t) = Join(Read(g_inbuf, s), Read(Read(g_inbuf, s).line, t))
      BY <1>0, <1>1, ReadParts
    <3>2. fifo' \in Seq(Tokens)
      BY <1>1
    <3> QED BY <3>1, <3>2, Zenon
  <2>2. Read(first.line, fifo') = Got'
    BY DEF Got, s
  <2> QED BY <1>2, <2>1, <2>2 DEF Got
<1>7. g_inbuf' = first.line /\ handled' = handled \o first.cmds
  BY DEF s
<1> HIDE DEF first
<1>8. PipeOK'
  <2>1. ASSUME NEW i \in 1..Len(fifo'), fifo'[i] = Newline
        PROVE  IF i = 1 THEN g_inbuf' # <<>> ELSE fifo'[i - 1] # Newline
    <3>1. /\ n + i \in 1..Len(fifo) /\ fifo[n + i] = Newline /\ n + i # 1
          /\ (n + i) - 1 = n + (i - 1)
      <4>1. i \in 1..(Len(fifo) - n) /\ fifo'[i] = fifo[n + i]
        BY <1>1, <2>1
      <4> QED BY <1>0, <2>1, <4>1
    <3>2. fifo[n + (i - 1)] # Newline
      BY <3>1 DEF PipeOK, Unbroken, Solid
    <3>3. CASE i = 1
      <4>1. s[Len(s)] # Newline /\ s # <<>>
        BY <1>0, <1>1, <3>2, <3>3
      <4> QED BY <1>4, <1>7, <3>3, <4>1
    <3>4. CASE i # 1
      <4>1. i - 1 \in 1..(Len(fifo) - n)
        BY <1>0, <1>1, <3>4
      <4> QED BY <1>1, <3>2, <3>4, <4>1
    <3> QED BY <3>3, <3>4
  <2>2. Solid(g_inbuf', fifo')
    BY <2>1 DEF Solid
  <2>3. Len(fifo') <= Capacity
    <3>1. Len(fifo) <= Capacity /\ Capacity \in Nat
      BY GotReads DEF PipeOK
    <3> QED BY <1>0, <1>1, <3>1
  <2> QED BY <1>1, <1>4, <1>5, <1>7, <2>2, <2>3 DEF PipeOK, Unbroken
<1>9. Got'.cmds \in Seq(Commands)
  <2>1. Read(g_inbuf', fifo') \in Reads
    BY <1>1, <1>5, <1>7, ReadOK
  <2>2. Got' \in Reads
    BY <2>1 DEF Got
  <2> QED BY <2>2 DEF Reads
<1>10. Got.line = Got'.line /\ Got.cmds = first.cmds \o Got'.cmds
  BY <1>6 DEF Join
<1>11. Kept' = Kept
  <2>1. handled \o (first.cmds \o Got'.cmds) = (handled \o first.cmds) \o Got'.cmds
    BY <1>5, <1>9, CommandsConcat
  <2>2. Kept = handled \o Got.cmds /\ Kept' = handled' \o Got'.cmds
    BY DEF Kept, Got
  <2> QED BY <1>7, <1>10, <2>1, <2>2
<1>12. handled' \in Seq(Commands)
  <2> DEFINE cmds == first.cmds
  <2>1. cmds \in Seq(Commands) /\ handled' = handled \o cmds
    BY <1>5, <1>7
  <2> HIDE DEF cmds
  <2>2. handled \o cmds \in Seq(Commands)
    BY <2>1, ConcatFacts, Zenon
  <2> QED BY <2>1, <2>2, Zenon
<1>13. (\E i \in 1..n : fifo[i] = Newline) => first.any
  BY <1>1, <1>4
<1> QED BY <1>1, <1>8, <1>10, <1>11, <1>12, <1>13 DEF first, s

-----------------------------------------------------------------------------
(* The writers.                                                            *)

\* The same commands in the same order.
InOrder(a, b) ==
  \A i, k \in DOMAIN a : \A x, y \in DOMAIN b :
    b[x] = a[i] /\ b[y] = a[k] /\ i < k => x < y

LEMMA OrderOfOne ==
  ASSUME NEW S, NEW a \in Seq(S), NEW b \in Seq(S), NEW c \in S,
         InOrder(a, b), Range(a) \subseteq Range(b), c \notin Range(b)
  PROVE  InOrder(a, Append(b, c)) /\ InOrder(Append(a, c), Append(b, c))
<1> DEFINE ac == Append(a, c)  bc == Append(b, c)
<1>1. /\ Len(a) \in Nat /\ DOMAIN a = 1..Len(a) /\ DOMAIN ac = 1..(Len(a) + 1)
      /\ ac[Len(a) + 1] = c /\ \A i \in 1..Len(a) : ac[i] = a[i]
  OBVIOUS
<1>2. /\ Len(b) \in Nat /\ DOMAIN b = 1..Len(b) /\ DOMAIN bc = 1..(Len(b) + 1)
      /\ bc[Len(b) + 1] = c /\ \A i \in 1..Len(b) : bc[i] = b[i]
  OBVIOUS
<1> HIDE DEF ac, bc
<1>3. (\A i \in 1..Len(a) : a[i] # c) /\ \A x \in 1..Len(b) : b[x] # c
  BY <1>1, <1>2 DEF Range
<1>4. ASSUME NEW i \in 1..Len(a), NEW x \in DOMAIN bc, bc[x] = a[i]
      PROVE  x \in 1..Len(b) /\ b[x] = a[i]
  BY <1>2, <1>3, <1>4
<1>5. ASSUME NEW i \in DOMAIN a, NEW k \in DOMAIN a, NEW x \in DOMAIN bc, NEW y \in DOMAIN bc,
             bc[x] = a[i], bc[y] = a[k], i < k
      PROVE  x < y
  <2>1. x \in DOMAIN b /\ b[x] = a[i] /\ y \in DOMAIN b /\ b[y] = a[k]
    BY <1>1, <1>2, <1>4, <1>5
  <2> QED BY <1>5, <2>1 DEF InOrder
<1>6. ASSUME NEW i \in DOMAIN ac, NEW k \in DOMAIN ac, NEW x \in DOMAIN bc, NEW y \in DOMAIN bc,
             bc[x] = ac[i], bc[y] = ac[k], i < k
      PROVE  x < y
  <2>1. i \in 1..Len(a) /\ ac[i] = a[i] /\ x \in 1..Len(b)
    <3>1. i \in 1..Len(a)
      BY <1>1, <1>6
    <3> QED BY <1>1, <1>4, <1>6, <3>1
  <2>2. CASE k = Len(a) + 1
    <3>1. bc[y] = c
      BY <1>1, <1>6, <2>2
    <3>2. y = Len(b) + 1
      BY <1>2, <1>3, <3>1
    <3> QED BY <1>2, <2>1, <3>2
  <2>3. CASE k \in 1..Len(a)
    <3>1. ac[k] = a[k] /\ k \in DOMAIN a /\ i \in DOMAIN a
      BY <1>1, <2>1, <2>3
    <3> QED BY <1>5, <1>6, <2>1, <3>1
  <2> QED BY <1>1, <2>2, <2>3
<1>7. InOrder(a, bc)
  BY <1>5 DEF InOrder
<1>8. InOrder(ac, bc)
  BY <1>6 DEF InOrder
<1> QED BY <1>7, <1>8 DEF ac, bc

WritersOK ==
  /\ todo \subseteq Commands /\ writing \in Commands \cup {None}
  /\ attempts \in 0..Attempts
  /\ writing # None <=> attempts > 0
  /\ attempts > 0 => writing \in todo

\* What has been written is not tried again.
SentOK ==
  /\ sent \in Seq(Commands) /\ handled \in Seq(Commands) /\ torn \in Nat
  /\ IsInjective(sent) /\ Range(sent) \cap todo = {}

\* A tear is paid for once: by the line that is written next after it, if any.
Owed == IF Got.line = <<>> THEN 0 ELSE 1

KeptOK ==
  /\ IsInjective(Kept) /\ Range(Kept) \subseteq Range(sent)
  /\ Len(sent) - Len(Kept) + Owed <= torn
  /\ InOrder(Kept, sent)

CommandsKept == PipeOK /\ WritersOK /\ SentOK /\ KeptOK

LEMMA KeptIs ==
  ASSUME PipeOK, SentOK
  PROVE  /\ Kept = handled \o Got.cmds /\ Kept \in Seq(Commands)
         /\ Len(Kept) \in Nat /\ Len(sent) \in Nat
<1>1. Kept = handled \o Got.cmds
  BY DEF Kept, Got
<1> DEFINE cmds == Got.cmds
<1>2. cmds \in Seq(Commands) /\ handled \in Seq(Commands) /\ sent \in Seq(Commands)
  BY GotReads DEF SentOK
<1> HIDE DEF cmds
<1>3. handled \o cmds \in Seq(Commands)
  BY <1>2, ConcatFacts
<1> QED BY <1>1, <1>2, <1>3 DEF cmds

\* A whole line.
LEMMA WholeLine ==
  ASSUME CommandsKept, NEW c \in todo, WriteWhole(c), todo' = todo \ {c},
         handled' = handled, g_inbuf' = g_inbuf
  PROVE  PipeOK' /\ SentOK' /\ KeptOK'
<1>0. PipeOK /\ SentOK /\ KeptOK /\ c \in Commands /\ c \notin Range(sent)
  BY DEF CommandsKept, WritersOK, SentOK
<1>1. /\ Size[c] \in Nat /\ Capacity \in Nat /\ Len(fifo) \in Nat
      /\ Len(fifo) + Size[c] < Capacity
  <2>1. Size[c] \in Nat /\ Capacity \in Nat /\ Len(fifo) \in Nat
    BY <1>0, LineFacts, GotReads
  <2>2. Capacity - Len(fifo) > Size[c]
    BY DEF WriteWhole, Room
  <2> QED BY <2>1, <2>2
<1>2. /\ PipeOK' /\ Got'.line = <<>>
      /\ Got'.cmds = IF Got.line = <<>> THEN Append(Got.cmds, c) ELSE Got.cmds
  BY <1>0, <1>1, LineWritten DEF WriteWhole
<1>3. sent' = Append(sent, c) /\ torn' = torn
  BY DEF WriteWhole
<1>4. /\ sent \in Seq(Commands) /\ IsInjective(sent)
      /\ sent' \in Seq(Commands) /\ Len(sent') = Len(sent) + 1
      /\ Range(sent') = Range(sent) \cup {c} /\ IsInjective(sent')
  <2>1. sent \in Seq(Commands) /\ IsInjective(sent)
    BY <1>0 DEF SentOK
  <2> QED BY <1>0, <1>3, <2>1, AppendFacts
<1>5. SentOK'
  BY <1>0, <1>3, <1>4 DEF SentOK
<1>6. Kept' = IF Got.line = <<>> THEN Append(Kept, c) ELSE Kept
  <2> DEFINE cmds == Got.cmds
  <2>1. cmds \in Seq(Commands) /\ handled \in Seq(Commands) /\ Kept = handled \o cmds
    BY <1>0, GotReads, KeptIs DEF SentOK
  <2>2. Kept' = handled \o Got'.cmds
    BY DEF Kept, Got
  <2> HIDE DEF cmds
  <2>3. handled \o Append(cmds, c) = Append(handled \o cmds, c)
    BY <1>0, <2>1
  <2> QED BY <1>2, <2>1, <2>2, <2>3 DEF cmds
<1>7. Owed' = 0
  BY <1>2 DEF Owed
<1>8. /\ Kept \in Seq(Commands) /\ Len(Kept) \in Nat /\ Len(sent) \in Nat /\ torn \in Nat
      /\ IsInjective(Kept) /\ Range(Kept) \subseteq Range(sent) /\ InOrder(Kept, sent)
      /\ Len(sent) - Len(Kept) + Owed <= torn
  BY <1>0, KeptIs DEF KeptOK, SentOK
<1>9. InOrder(Kept, sent') /\ InOrder(Append(Kept, c), sent')
  BY <1>0, <1>3, <1>4, <1>8, OrderOfOne
<1>10. CASE Got.line = <<>>
  <2>1. Kept' = Append(Kept, c) /\ Owed = 0
    BY <1>6, <1>10 DEF Owed
  <2>2. c \notin Range(Kept)
    BY <1>0, <1>8
  <2>3. /\ Len(Kept') = Len(Kept) + 1 /\ Range(Kept') = Range(Kept) \cup {c}
        /\ IsInjective(Kept')
    BY <1>0, <1>8, <2>1, <2>2, AppendFacts
  <2>4. Len(sent') - Len(Kept') + Owed' <= torn'
    BY <1>3, <1>4, <1>7, <1>8, <2>1, <2>3
  <2>5. Range(Kept') \subseteq Range(sent') /\ InOrder(Kept', sent')
    BY <1>4, <1>8, <1>9, <2>1, <2>3
  <2> QED BY <1>2, <1>5, <2>3, <2>4, <2>5 DEF KeptOK
<1>11. CASE Got.line # <<>>
  <2>1. Kept' = Kept /\ Owed = 1
    BY <1>6, <1>11 DEF Owed
  <2>2. Len(sent') - Len(Kept') + Owed' <= torn'
    BY <1>3, <1>4, <1>7, <1>8, <2>1
  <2>3. IsInjective(Kept') /\ Range(Kept') \subseteq Range(sent') /\ InOrder(Kept', sent')
    BY <1>4, <1>8, <1>9, <2>1
  <2> QED BY <1>2, <1>5, <2>2, <2>3 DEF KeptOK
<1> QED BY <1>10, <1>11

\* A write that was torn, whatever of the line it left.
LEMMA TornLine ==
  ASSUME CommandsKept, NEW p \in Seq(Tokens), \A i \in 1..Len(p) : p[i] # Newline,
         Len(fifo) + Len(p) <= Capacity, fifo' = fifo \o p, torn' = torn + 1,
         handled' = handled, g_inbuf' = g_inbuf, sent' = sent, todo' \subseteq todo
  PROVE  PipeOK' /\ SentOK' /\ KeptOK'
<1>0. PipeOK /\ SentOK /\ KeptOK
  BY DEF CommandsKept
<1>1. PipeOK' /\ Got'.cmds = Got.cmds
  BY <1>0, PiecesWritten
<1>2. SentOK'
  BY <1>0 DEF SentOK
<1>3. Kept' = Kept
  <2>1. Kept = handled \o Got.cmds /\ Kept' = handled \o Got'.cmds
    BY DEF Kept, Got
  <2> QED BY <1>1, <2>1
<1>4. /\ Len(Kept) \in Nat /\ Len(sent) \in Nat /\ torn \in Nat
      /\ Len(sent) - Len(Kept) + Owed <= torn /\ Owed \in {0, 1} /\ Owed' \in {0, 1}
  BY <1>0, KeptIs DEF KeptOK, SentOK, Owed
<1>5. Len(sent') - Len(Kept') + Owed' <= torn'
  BY <1>3, <1>4
<1>6. KeptOK'
  BY <1>0, <1>3, <1>5 DEF KeptOK
<1> QED BY <1>1, <1>2, <1>6

\* The part of a command that a pipe takes.
LEMMA PartOfPieces ==
  ASSUME NEW c \in Commands, NEW n \in 0..Size[c]
  PROVE  LET p == SubSeq(Pieces(c), 1, n)
         IN  p \in Seq(Tokens) /\ Len(p) = n /\ \A i \in 1..Len(p) : p[i] # Newline
<1> DEFINE all == Pieces(c)
<1>1. all \in Seq(Tokens) /\ Len(all) = Size[c] /\ Size[c] \in Nat /\ \A i \in 1..Size[c] : all[i] # Newline
  BY LineFacts
<1> HIDE DEF all
<1>2. /\ SubSeq(all, 1, n) \in Seq(Tokens) /\ Len(SubSeq(all, 1, n)) = n
      /\ \A i \in 1..n : SubSeq(all, 1, n)[i] = all[i] /\ i \in 1..Size[c]
  BY <1>1
<1> QED BY <1>1, <1>2 DEF all

LEMMA NextPageWrites ==
  ASSUME CommandsKept, NEW c \in todo, PageWrites(c)
  PROVE  CommandsKept'
<1>0. PipeOK /\ WritersOK /\ c \in Commands /\ Size[c] \in Nat /\ Len(fifo) \in Nat /\ Capacity \in Nat
  BY LineFacts, GotReads DEF CommandsKept, WritersOK
<1>1. /\ writing = None /\ todo' = todo \ {c} /\ writing' = writing /\ attempts' = attempts
      /\ handled' = handled /\ g_inbuf' = g_inbuf
  BY DEF PageWrites, loopVars
<1>2. WritersOK'
  <2>1. attempts \in 0..Attempts /\ (writing # None <=> attempts > 0) /\ todo \subseteq Commands
    BY <1>0 DEF WritersOK
  <2> QED BY <1>1, <2>1 DEF WritersOK
<1>3. CASE WriteWhole(c)
  <2>1. PipeOK' /\ SentOK' /\ KeptOK'
    BY <1>1, <1>3, WholeLine
  <2> QED BY <1>2, <2>1 DEF CommandsKept
<1>4. CASE Room >= Size[c] /\ fifo' = fifo \o Pieces(c) /\ torn' = torn + 1 /\ sent' = sent
  <2> DEFINE p == Pieces(c)
  <2>0. /\ p \in Seq(Tokens) /\ Len(p) = Size[c]
        /\ \A i \in 1..Size[c] : p[i] # Newline
    BY <1>0, LineFacts
  <2>1. /\ p \in Seq(Tokens) /\ Len(p) = Size[c] /\ \A i \in 1..Len(p) : p[i] # Newline
        /\ fifo' = fifo \o p
    BY <1>4, <2>0
  <2>2. Capacity - Len(fifo) >= Size[c]
    BY <1>4 DEF Room
  <2> HIDE DEF p
  <2>3. Len(fifo) + Len(p) <= Capacity /\ todo' \subseteq todo
    BY <1>0, <1>1, <2>1, <2>2
  <2>4. PipeOK' /\ SentOK' /\ KeptOK'
    BY <1>1, <1>4, <2>1, <2>3, TornLine
  <2> QED BY <1>2, <2>4 DEF CommandsKept
<1> QED BY <1>3, <1>4 DEF PageWrites

LEMMA NextComponentWrites ==
  ASSUME CommandsKept, NEW c \in todo, ComponentWrites(c)
  PROVE  CommandsKept'
<1>0. /\ PipeOK /\ WritersOK /\ SentOK /\ KeptOK /\ c \in Commands /\ c # None
      /\ Size[c] \in Nat /\ Len(fifo) \in Nat /\ Capacity \in Nat /\ Attempts \in Nat
  BY LineFacts, GotReads, LoopAssumption DEF CommandsKept, WritersOK, None
<1>1. attempts < Attempts /\ handled' = handled /\ g_inbuf' = g_inbuf
  BY DEF ComponentWrites, loopVars
<1>2. CASE WriteWhole(c) /\ writing' = None /\ attempts' = 0 /\ todo' = todo \ {c}
  <2>1. PipeOK' /\ SentOK' /\ KeptOK'
    BY <1>1, <1>2, WholeLine
  <2>2. WritersOK'
    BY <1>0, <1>2 DEF WritersOK
  <2> QED BY <2>1, <2>2 DEF CommandsKept
<1>3. CASE /\ Room <= Size[c] /\ writing' = c /\ attempts' = attempts + 1
           /\ todo' = todo /\ sent' = sent
           /\ IF Short(c) \/ Room = 0 THEN UNCHANGED <<fifo, torn>>
              ELSE fifo' = fifo \o SubSeq(Pieces(c), 1, Room) /\ torn' = torn + 1
  <2>1. WritersOK'
    BY <1>0, <1>1, <1>3 DEF WritersOK
  <2>2. CASE Short(c) \/ Room = 0
    <3>1. UNCHANGED <<fifo, g_inbuf, handled, sent, torn, todo>>
      BY <1>1, <1>3, <2>2
    <3>2. PipeOK' /\ SentOK' /\ KeptOK'
      BY <1>0, <3>1 DEF PipeOK, SentOK, KeptOK, Unbroken, Kept, Owed, Got
    <3> QED BY <2>1, <3>2 DEF CommandsKept
  <2>3. CASE ~(Short(c) \/ Room = 0)
    <3> DEFINE p == SubSeq(Pieces(c), 1, Room)
    <3>1. Room \in 0..Size[c] /\ Len(fifo) + Room = Capacity
      BY <1>0, <1>3 DEF Room, PipeOK
    <3>2. p \in Seq(Tokens) /\ Len(p) = Room /\ \A i \in 1..Len(p) : p[i] # Newline
      BY <1>0, <3>1, PartOfPieces
    <3>3. fifo' = fifo \o p /\ torn' = torn + 1
      BY <1>3, <2>3
    <3> HIDE DEF p
    <3>4. Len(fifo) + Len(p) <= Capacity /\ todo' \subseteq todo
      BY <1>0, <1>3, <3>1, <3>2
    <3>5. PipeOK' /\ SentOK' /\ KeptOK'
      BY <1>1, <1>3, <3>2, <3>3, <3>4, TornLine
    <3> QED BY <2>1, <3>5 DEF CommandsKept
  <2> QED BY <2>2, <2>3
<1> QED BY <1>2, <1>3 DEF ComponentWrites

\* How much one read takes.
ReadNow == IF Len(fifo) < ReadMax THEN Len(fifo) ELSE ReadMax

LEMMA InputReads ==
  ASSUME PipeOK, handled \in Seq(Commands), InputRead
  PROVE  /\ PipeOK' /\ Kept' = Kept /\ Got'.line = Got.line
         /\ handled' \in Seq(Commands)
         /\ (\E i \in 1..ReadNow : fifo[i] = Newline) =>
              Read(g_inbuf, SubSeq(fifo, 1, ReadNow)).any
         /\ Len(fifo') = Len(fifo) - ReadNow /\ ReadNow \in 1..Len(fifo)
         /\ \A i \in 1..Len(fifo') : fifo'[i] = fifo[ReadNow + i]
<1>1. ReadNow \in 1..Len(fifo)
  <2>1. fifo \in Seq(Tokens) /\ fifo # <<>>
    BY DEF PipeOK, InputRead
  <2>2. Len(fifo) \in Nat /\ Len(fifo) # 0 /\ ReadMax \in Nat /\ ReadMax > 0
    BY <2>1, LoopAssumption
  <2> QED BY <2>2 DEF ReadNow
<1>2. /\ g_inbuf' = Read(g_inbuf, SubSeq(fifo, 1, ReadNow)).line
      /\ handled' = handled \o Read(g_inbuf, SubSeq(fifo, 1, ReadNow)).cmds
      /\ fifo' = SubSeq(fifo, ReadNow + 1, Len(fifo))
  BY DEF InputRead, ReadNow, Rest
<1> QED BY <1>1, <1>2, PartRead

LEMMA NextCommands == CommandsKept /\ [Next]_vars => CommandsKept'
<1> SUFFICES ASSUME CommandsKept, [Next]_vars PROVE CommandsKept'
  OBVIOUS
<1>1. CASE UNCHANGED <<fifo, g_inbuf, handled, sent, torn, todo, writing, attempts>>
  BY <1>1 DEF CommandsKept, PipeOK, WritersOK, SentOK, KeptOK, Unbroken, Kept, Owed, Got
<1>2. CASE TurnBegins
  <2>1. CASE Waits
    <3>1. UNCHANGED <<fifo, g_inbuf, handled, sent, torn, todo, writing, attempts>>
      BY <1>2, <2>1 DEF Waits, TurnBegins
    <3> QED BY <1>1, <3>1
  <2>2. CASE InputRead
    <3>1. PipeOK /\ WritersOK /\ SentOK /\ KeptOK /\ handled \in Seq(Commands)
      BY DEF CommandsKept, SentOK
    <3>2. UNCHANGED <<sent, torn, todo, writing, attempts>>
      BY <1>2 DEF TurnBegins
    <3>3. PipeOK' /\ Kept' = Kept /\ Got'.line = Got.line /\ handled' \in Seq(Commands)
      BY <2>2, <3>1, InputReads
    <3>4. WritersOK'
      BY <3>1, <3>2 DEF WritersOK
    <3>5. SentOK'
      BY <3>1, <3>2, <3>3 DEF SentOK
    <3>6. Owed' = Owed
      BY <3>3 DEF Owed
    <3>7. KeptOK'
      BY <3>1, <3>2, <3>3, <3>6 DEF KeptOK
    <3> QED BY <3>3, <3>4, <3>5, <3>7 DEF CommandsKept
  <2> QED BY <1>2, <2>1, <2>2 DEF TurnBegins
<1>3. ASSUME NEW c \in todo, PageWrites(c) PROVE CommandsKept'
  BY <1>3, NextPageWrites
<1>4. ASSUME NEW c \in todo, ComponentWrites(c) PROVE CommandsKept'
  BY <1>4, NextComponentWrites
<1>5. CASE ComponentGivesUp
  <2>1. /\ UNCHANGED <<fifo, g_inbuf, handled, sent, torn>>
        /\ attempts' = 0 /\ writing' = None /\ todo' = todo \ {writing}
    BY <1>5 DEF ComponentGivesUp, loopVars, histVars
  <2>2. PipeOK' /\ KeptOK'
    BY <2>1 DEF CommandsKept, PipeOK, KeptOK, Unbroken, Kept, Owed, Got
  <2>3. WritersOK'
    BY <2>1, LoopAssumption DEF CommandsKept, WritersOK
  <2>4. SentOK'
    BY <2>1 DEF CommandsKept, SentOK
  <2> QED BY <2>2, <2>3, <2>4 DEF CommandsKept
<1>6. \/ UNCHANGED <<fifo, g_inbuf, handled, sent, torn, todo, writing, attempts>>
      \/ TurnBegins \/ ComponentGivesUp \/ \E c \in todo : PageWrites(c) \/ ComponentWrites(c)
  BY DEF Next, Loop, Writers, JobRuns, ScriptRuns, HttpPolled, HttpDone, TimersFire,
     TimersFired, HandlePing, HandleScript, HandleDownload,
     DownloadGoesOn, DownloadEnds, Settled, Answer, JobThrows,
     JobsDone, ScriptSetsTimer, ScriptClearsTimer, ScriptRequests, ScriptInited,
     ScriptLoaded, ScriptReturns, LooksAtClock, Ends, vars, pipeVars, loopVars, histVars
<1> QED BY <1>1, <1>2, <1>3, <1>4, <1>5, <1>6

LEMMA InitCommands == Init => CommandsKept
<1> SUFFICES ASSUME Init PROVE CommandsKept
  OBVIOUS
<1>1. /\ fifo = <<>> /\ writing = None /\ attempts = 0 /\ g_inbuf = <<>>
      /\ sent = <<>> /\ handled = <<>> /\ torn = 0
      /\ todo \subseteq Commands
  <2>1. \A load \in Loads : load.send \subseteq Commands
    BY LoopAssumption
  <2> QED BY <2>1 DEF Init
<1>2. <<>> \in Seq(Tokens) /\ Len(<<>>) = 0 /\ <<>> \in Seq(Commands)
  OBVIOUS
<1>3. PipeOK
  <2>1. Capacity \in Nat
    BY LoopAssumption
  <2> QED BY <1>1, <1>2, <2>1 DEF PipeOK, Unbroken, Solid
<1>4. WritersOK
  BY <1>1, LoopAssumption DEF WritersOK
<1>5. IsInjective(<<>>) /\ Range(<<>>) = {}
  BY DEF IsInjective, Range
<1>6. SentOK
  BY <1>1, <1>2, <1>5 DEF SentOK
<1>7. Got = NothingRead(<<>>)
  BY <1>1, ReadNothing DEF Got
<1>8. Kept = <<>> /\ Owed = 0
  <2>1. Got.cmds = <<>> /\ Got.line = <<>>
    BY <1>7 DEF NothingRead
  <2>2. Kept = <<>> \o <<>>
    BY <1>1, <2>1 DEF Kept, Got
  <2> QED BY <2>1, <2>2 DEF Owed
<1>9. KeptOK
  BY <1>1, <1>2, <1>5, <1>8 DEF KeptOK, InOrder
<1> QED BY <1>3, <1>4, <1>6, <1>9 DEF CommandsKept

\* Commands are read once and in the order in which they were written, however
\* reads and writes cut them, and each tear costs one at most.
THEOREM CommandsSurvive == Spec => []LinesSurvive
<1>1. CommandsKept => LinesSurvive
  <2> SUFFICES ASSUME CommandsKept PROVE LinesSurvive
    OBVIOUS
  <2>1. SentOK /\ KeptOK /\ PipeOK
    BY DEF CommandsKept
  <2>2. Len(sent) - Len(Kept) <= torn
    <3>1. Len(sent) \in Nat /\ Len(Kept) \in Nat /\ torn \in Nat
      BY <2>1, KeptIs DEF SentOK
    <3> QED BY <2>1, <3>1 DEF KeptOK, Owed
  <2>3. /\ IsInjective(sent) /\ IsInjective(Kept) /\ Range(Kept) \subseteq Range(sent)
        /\ InOrder(Kept, sent)
    BY <2>1 DEF SentOK, KeptOK
  <2> QED BY <2>2, <2>3, Zenon DEF LinesSurvive, InOrder
<1> QED BY <1>1, InitCommands, NextCommands, PTL DEF Spec

-----------------------------------------------------------------------------
(* The clock.                                                              *)

LineWaits == \E i \in 1..Len(fifo) : fifo[i] = Newline

\* The runner has not been idle for longer than nothing was written, unless a
\* line waits in the pipe; and it is idle for longer than the limit only if
\* the turn began in silence or a download took the time.
ClockOK ==
  /\ since \in -1..(IdleLimit + 1) /\ quietFor \in 0..(IdleLimit + 1)
  /\ pc \in {"load", "top"} => since <= IdleLimit
  /\ LineWaits \/ since <= quietFor
  /\ since > IdleLimit => silent \/ blocked

LEMMA ClockWhole ==
  ASSUME CommandsKept, ClockOK, NEW c \in todo, WriteWhole(c),
         g_inbuf' = g_inbuf, UNCHANGED <<pc, since, silent, blocked>>
  PROVE  ClockOK'
<1>1. PipeOK /\ c \in Commands
  BY DEF CommandsKept, WritersOK
<1>2. Len(fifo) + Size[c] < Capacity
  <2>1. Size[c] \in Nat /\ Capacity \in Nat /\ Len(fifo) \in Nat
    BY <1>1, LineFacts, GotReads
  <2>2. Capacity - Len(fifo) > Size[c]
    BY DEF WriteWhole, Room
  <2> QED BY <2>1, <2>2
<1>3. fifo'[Len(fifo')] = Newline /\ Len(fifo') \in Nat \ {0}
  BY <1>1, <1>2, LineWritten DEF WriteWhole
<1>4. LineWaits'
  <2>1. Len(fifo') \in 1..Len(fifo')
    BY <1>3
  <2> QED BY <1>3, <2>1 DEF LineWaits
<1>5. quietFor' = 0 /\ IdleLimit \in Nat
  BY LoopAssumption DEF WriteWhole
<1> QED BY <1>4, <1>5 DEF ClockOK

LEMMA ClockTorn ==
  ASSUME CommandsKept, ClockOK, NEW p \in Seq(Tokens), fifo' = fifo \o p,
         UNCHANGED <<pc, since, quietFor, silent, blocked>>
  PROVE  ClockOK'
<1>1. fifo \in Seq(Tokens)
  BY DEF CommandsKept, PipeOK
<1>2. /\ Len(fifo) \in Nat /\ Len(p) \in Nat /\ Len(fifo') = Len(fifo) + Len(p)
      /\ \A i \in 1..Len(fifo) : fifo'[i] = fifo[i]
  BY <1>1, ConcatFacts
<1>3. LineWaits => LineWaits'
  BY <1>2 DEF LineWaits
<1> QED BY <1>3 DEF ClockOK

LEMMA ClockWaits ==
  ASSUME ClockOK, Waits, pc' = "http", silent' = (quietFor' > IdleLimit)
  PROVE  ClockOK'
<1>1. IdleLimit \in Nat
  BY LoopAssumption
<1>2. ~LineWaits
  <2>1. Len(fifo) = 0
    BY DEF Waits
  <2> QED BY <2>1 DEF LineWaits
<1>3. /\ since \in -1..IdleLimit /\ quietFor \in 0..(IdleLimit + 1) /\ since <= quietFor
  BY <1>1, <1>2 DEF ClockOK, Waits
<1>4. Later(since) = since + 1
  BY <1>1, <1>3 DEF Later
<1>5. Later(quietFor) \in 0..(IdleLimit + 1) /\ (Later(quietFor) = quietFor + 1 \/ Later(quietFor) > IdleLimit)
  BY <1>1, <1>3 DEF Later
<1>6. since' = since \/ since' = since + 1
  BY <1>4 DEF Waits
<1>7. quietFor' = IF since' = since THEN quietFor ELSE Later(quietFor)
  BY DEF Waits
<1>8. since' \in -1..(IdleLimit + 1) /\ quietFor' \in 0..(IdleLimit + 1) /\ since' <= quietFor'
  BY <1>1, <1>3, <1>5, <1>6, <1>7
<1>9. since' > IdleLimit => silent'
  <2>1. since' > IdleLimit => quietFor' > IdleLimit
    BY <1>1, <1>8
  <2> QED BY <2>1
<1> QED BY <1>8, <1>9 DEF ClockOK

LEMMA ClockReads ==
  ASSUME CommandsKept, ClockOK, InputRead, pc' = "http"
  PROVE  ClockOK'
<1>1. IdleLimit \in Nat
  BY LoopAssumption
<1>2. PipeOK /\ handled \in Seq(Commands)
  BY DEF CommandsKept, SentOK
<1> DEFINE any == Read(g_inbuf, SubSeq(fifo, 1, ReadNow)).any
<1>3. /\ (\E i \in 1..ReadNow : fifo[i] = Newline) => any
      /\ Len(fifo') = Len(fifo) - ReadNow /\ ReadNow \in 1..Len(fifo)
      /\ \A i \in 1..Len(fifo') : fifo'[i] = fifo[ReadNow + i]
  BY <1>2, InputReads
<1>4. since' = SinceAfter(any) /\ quietFor' = quietFor /\ pc = "top"
  BY DEF InputRead, ReadNow
<1> HIDE DEF any
<1>5. /\ since \in -1..IdleLimit /\ quietFor \in 0..(IdleLimit + 1)
      /\ LineWaits \/ since <= quietFor
  BY <1>1, <1>4 DEF ClockOK
<1>6. CASE any
  <2>1. since' = 0
    BY <1>4, <1>6 DEF SinceAfter
  <2> QED BY <1>1, <1>4, <1>5, <2>1 DEF ClockOK
<1>7. CASE ~any
  <2>1. since' = since
    BY <1>4, <1>7 DEF SinceAfter
  <2>2. LineWaits => LineWaits'
    <3>1. ASSUME NEW i \in 1..Len(fifo), fifo[i] = Newline PROVE LineWaits'
      <4> DEFINE k == i - ReadNow
      <4>0. Len(fifo) \in Nat
        BY <1>2, GotReads
      <4>1. ~(i \in 1..ReadNow)
        BY <1>3, <1>7, <3>1
      <4>2. k \in 1..Len(fifo') /\ ReadNow + k = i
        BY <1>3, <4>0, <4>1
      <4> HIDE DEF k
      <4>3. fifo'[k] = Newline
        BY <1>3, <3>1, <4>2
      <4> QED BY <4>2, <4>3 DEF LineWaits
    <3> QED BY <3>1 DEF LineWaits
  <2> QED BY <1>1, <1>4, <1>5, <2>1, <2>2 DEF ClockOK
<1> QED BY <1>6, <1>7

LEMMA NextClock == CommandsKept /\ ClockOK /\ [Next]_vars => ClockOK'
<1> SUFFICES ASSUME CommandsKept, ClockOK, [Next]_vars PROVE ClockOK'
  OBVIOUS
<1>0. IdleLimit \in Nat
  BY LoopAssumption
<1>1. CASE UNCHANGED <<fifo, pc, since, quietFor, silent, blocked>>
  BY <1>1 DEF ClockOK, LineWaits
<1>2. CASE TurnBegins
  BY <1>2, ClockWaits, ClockReads DEF TurnBegins
<1>3. CASE UNCHANGED <<fifo, since, quietFor, silent, blocked>> /\ pc' \notin {"load", "top"}
  <2>1. UNCHANGED LineWaits
    BY <1>3 DEF LineWaits
  <2> QED BY <1>3, <2>1 DEF ClockOK
<1>4. CASE DownloadGoesOn
  <2>1. /\ pc' = "download" /\ UNCHANGED <<fifo, silent>> /\ since <= IdleLimit
        /\ since' = Later(since) /\ quietFor' = Later(quietFor)
        /\ blocked' = (blocked \/ since' > IdleLimit)
    BY <1>4 DEF DownloadGoesOn, pipeVars
  <2>2. since \in -1..IdleLimit /\ quietFor \in 0..(IdleLimit + 1)
    BY <1>0, <2>1 DEF ClockOK
  <2>3. /\ since' \in -1..(IdleLimit + 1) /\ quietFor' \in 0..(IdleLimit + 1)
        /\ since <= quietFor => since' <= quietFor'
    BY <1>0, <2>1, <2>2 DEF Later
  <2>4. UNCHANGED LineWaits
    BY <2>1 DEF LineWaits
  <2> QED BY <2>1, <2>3, <2>4 DEF ClockOK
<1>5. CASE LooksAtClock
  <2>1. /\ UNCHANGED <<fifo, since, quietFor, silent, blocked>>
        /\ g_quit' \in {TRUE, g_quit, Idle} \/ g_quit' = (g_quit \/ Idle)
        /\ pc' \in {"top", "end"} /\ (pc' = "top" => ~Idle)
    BY <1>5 DEF LooksAtClock, pipeVars, histVars
  <2>2. UNCHANGED LineWaits
    BY <2>1 DEF LineWaits
  <2>3. pc' = "top" => since <= IdleLimit
    BY <1>0, <2>1 DEF Idle, ClockOK
  <2> QED BY <2>1, <2>2, <2>3 DEF ClockOK
<1>6. CASE Ends
  BY <1>3, <1>6 DEF Ends, pipeVars, histVars
<1>7. ASSUME NEW c \in todo, PageWrites(c) PROVE ClockOK'
  <2>1. UNCHANGED <<pc, since, g_inbuf, silent, blocked>>
    BY <1>7 DEF PageWrites, loopVars
  <2>2. CASE WriteWhole(c)
    BY <2>1, <2>2, ClockWhole
  <2>3. CASE fifo' = fifo \o Pieces(c) /\ quietFor' = quietFor
    <3>1. Pieces(c) \in Seq(Tokens)
      BY LineFacts DEF CommandsKept, WritersOK
    <3> QED BY <2>1, <2>3, <3>1, ClockTorn
  <2> QED BY <1>7, <2>2, <2>3 DEF PageWrites
<1>8. ASSUME NEW c \in todo, ComponentWrites(c) PROVE ClockOK'
  <2>1. UNCHANGED <<pc, since, g_inbuf, silent, blocked>>
    BY <1>8 DEF ComponentWrites, loopVars
  <2>2. CASE WriteWhole(c)
    BY <2>1, <2>2, ClockWhole
  <2>3. CASE /\ Room <= Size[c] /\ quietFor' = quietFor
             /\ IF Short(c) \/ Room = 0 THEN UNCHANGED <<fifo, torn>>
                ELSE fifo' = fifo \o SubSeq(Pieces(c), 1, Room) /\ torn' = torn + 1
    <3>1. CASE fifo' = fifo
      BY <1>1, <2>1, <2>3, <3>1
    <3>2. CASE fifo' = fifo \o SubSeq(Pieces(c), 1, Room)
      <4>1. PipeOK /\ c \in Commands
        BY DEF CommandsKept, WritersOK
      <4>2. Room \in 0..Size[c]
        BY <2>3, <4>1, LineFacts, GotReads DEF Room, PipeOK
      <4>3. SubSeq(Pieces(c), 1, Room) \in Seq(Tokens)
        BY <4>1, <4>2, PartOfPieces
      <4> QED BY <2>1, <2>3, <3>2, <4>3, ClockTorn
    <3> QED BY <2>3, <3>1, <3>2
  <2> QED BY <1>8, <2>2, <2>3 DEF ComponentWrites
<1>9. CASE Writers
  <2>1. CASE ComponentGivesUp
    BY <1>1, <2>1 DEF ComponentGivesUp, loopVars, histVars
  <2> QED BY <1>7, <1>8, <1>9, <2>1 DEF Writers
<1>10. CASE JobRuns
  <2>1. CASE JobThrows \/ JobsDone \/ HandleDownload \/ DownloadEnds
    BY <1>3, <2>1 DEF JobThrows, JobsDone, HandleDownload, DownloadEnds, pipeVars, histVars
  <2>2. CASE HandlePing \/ HandleScript \/ Settled \/ Answer
    BY <1>1, <2>2 DEF HandlePing, HandleScript, Settled, Answer, pipeVars, histVars
  <2> QED BY <1>4, <1>10, <2>1, <2>2 DEF JobRuns
<1>11. CASE ScriptRuns
  <2>1. CASE ScriptLoaded
    <3>1. UNCHANGED <<fifo, since, quietFor, silent, blocked>> /\ pc = "load"
      BY <2>1 DEF ScriptLoaded, pipeVars, histVars
    <3>2. UNCHANGED LineWaits
      BY <3>1 DEF LineWaits
    <3> QED BY <3>1, <3>2 DEF ClockOK
  <2>2. CASE ~ScriptLoaded
    <3>1. UNCHANGED <<fifo, pc, since, quietFor, silent, blocked>>
      BY <1>11, <2>2 DEF ScriptRuns, ScriptSetsTimer, ScriptClearsTimer, ScriptRequests,
         ScriptInited, ScriptReturns, pipeVars, loopVars, histVars
    <3> QED BY <1>1, <3>1
  <2> QED BY <2>1, <2>2
<1>12. CASE HttpPolled \/ TimersFired
  BY <1>3, <1>12 DEF HttpPolled, TimersFired, pipeVars, histVars
<1>13. CASE TimersFire \/ \E r \in multi : HttpDone(r)
  BY <1>1, <1>13 DEF TimersFire, HttpDone, pipeVars, histVars
<1>14. CASE UNCHANGED vars
  BY <1>1, <1>14 DEF vars, pipeVars, loopVars, histVars
<1> QED BY <1>2, <1>5, <1>6, <1>9, <1>10, <1>11, <1>12, <1>13, <1>14 DEF Next, Loop

LEMMA InitClock == Init => ClockOK
<1> SUFFICES ASSUME Init PROVE ClockOK
  OBVIOUS
<1>1. since = -1 /\ quietFor = 0 /\ IdleLimit \in Nat
  BY LoopAssumption DEF Init
<1> QED BY <1>1 DEF ClockOK

\* The loop ends as idle only after ten minutes of silence, or because a
\* download held the thread while they ran out.
THEOREM IdleEndIsSilent == Spec => IdleExitIsAfterSilence
<1>1. Init => CommandsKept /\ ClockOK
  BY InitCommands, InitClock
<1>2. ClockOK => (LooksAtClock /\ Idle /\ ~g_quit => silent \/ blocked)
  BY DEF Idle, ClockOK
<1>3. CommandsKept /\ ClockOK /\ [Next]_vars => CommandsKept' /\ ClockOK'
  BY NextCommands, NextClock
<1> QED BY <1>1, <1>2, <1>3, PTL DEF Spec, IdleExitIsAfterSilence

-----------------------------------------------------------------------------
(* Lists of commands and lists of jobs.                                    *)

LEMMA ConcatRanges ==
  ASSUME NEW S, NEW a \in Seq(S), NEW b \in Seq(S)
  PROVE  /\ Range(a \o b) = Range(a) \cup Range(b)
         /\ IsInjective(a \o b) =>
              IsInjective(a) /\ IsInjective(b) /\ Range(a) \cap Range(b) = {}
<1> DEFINE ab == a \o b
<1>1. /\ Len(a) \in Nat /\ Len(b) \in Nat /\ DOMAIN a = 1..Len(a) /\ DOMAIN b = 1..Len(b)
      /\ DOMAIN ab = 1..(Len(a) + Len(b))
      /\ \A i \in 1..Len(a) : ab[i] = a[i]
      /\ \A i \in 1..Len(b) : ab[Len(a) + i] = b[i]
  OBVIOUS
<1> HIDE DEF ab
<1>2. (\A i \in DOMAIN a : i \in DOMAIN ab) /\ \A i \in DOMAIN b : Len(a) + i \in DOMAIN ab
  BY <1>1
<1>3. \A i \in DOMAIN ab : i \in DOMAIN a \/ \E k \in DOMAIN b : i = Len(a) + k
  <2> TAKE i \in DOMAIN ab
  <2>1. CASE i > Len(a)
    <3>1. i - Len(a) \in DOMAIN b /\ i = Len(a) + (i - Len(a))
      BY <1>1, <2>1
    <3> QED BY <3>1
  <2> QED BY <1>1, <2>1
<1>4. Range(ab) = Range(a) \cup Range(b)
  <2>1. \A i \in DOMAIN ab : ab[i] \in Range(a) \cup Range(b)
    BY <1>1, <1>3 DEF Range
  <2>2. \A i \in DOMAIN a : a[i] \in Range(ab)
    BY <1>1, <1>2 DEF Range
  <2>3. \A i \in DOMAIN b : b[i] \in Range(ab)
    <3> TAKE i \in DOMAIN b
    <3>1. Len(a) + i \in DOMAIN ab /\ ab[Len(a) + i] = b[i]
      BY <1>1, <1>2
    <3> QED BY <3>1, Zenon DEF Range
  <2> QED BY <2>1, <2>2, <2>3 DEF Range
<1>5. ASSUME IsInjective(ab)
      PROVE  IsInjective(a) /\ IsInjective(b) /\ Range(a) \cap Range(b) = {}
  <2>0. \A i, k \in DOMAIN ab : ab[i] = ab[k] => i = k
    BY <1>5 DEF IsInjective
  <2>1. IsInjective(a)
    BY <1>1, <1>2, <2>0 DEF IsInjective
  <2>2. IsInjective(b)
    <3>1. ASSUME NEW i \in DOMAIN b, NEW k \in DOMAIN b, b[i] = b[k] PROVE i = k
      <4>1. Len(a) + i = Len(a) + k
        BY <1>1, <1>2, <2>0, <3>1
      <4> QED BY <1>1, <4>1
    <3> QED BY <3>1 DEF IsInjective
  <2>3. ASSUME NEW i \in DOMAIN a, NEW k \in DOMAIN b, a[i] = b[k] PROVE FALSE
    <3>1. i = Len(a) + k
      BY <1>1, <1>2, <2>0, <2>3
    <3> QED BY <1>1, <3>1
  <2> QED BY <2>1, <2>2, <2>3 DEF Range
<1> QED BY <1>4, <1>5 DEF ab

\* The calls are the commands but for quit, once each.
LEMMA ReadCalls ==
  ASSUME NEW line \in Seq(Tokens), NEW s \in Seq(Tokens), IsInjective(Read(line, s).cmds)
  PROVE  /\ IsInjective(Read(line, s).calls)
         /\ Range(Read(line, s).calls) = {c \in Range(Read(line, s).cmds) : What[c] # "quit"}
<1> DEFINE scan == Scan(line, s)
           Same(r) == /\ IsInjective(r.cmds) => IsInjective(r.calls)
                      /\ Range(r.calls) = {c \in Range(r.cmds) : What[c] # "quit"}
           T == {n \in 0..Len(s) : Same(scan[n])}
<1>0. Len(s) \in Nat
  OBVIOUS
<1>1. 0 \in T
  <2>1. scan[0].cmds = <<>> /\ scan[0].calls = <<>>
    <3>1. scan[0] = NothingRead(line)
      BY ScanSteps
    <3> HIDE DEF scan
    <3> QED BY <3>1 DEF NothingRead
  <2>2. IsInjective(<<>>) /\ Range(<<>>) = {}
    BY DEF IsInjective, Range
  <2> HIDE DEF scan
  <2> QED BY <1>0, <2>1, <2>2
<1>2. ASSUME NEW n \in Nat, n < Len(s), n \in T PROVE n + 1 \in T
  <2>1. n + 1 \in 1..Len(s) /\ (n + 1) - 1 = n /\ n \in 0..Len(s) /\ n + 1 \in 0..Len(s)
    BY <1>0, <1>2
  <2>2. scan[n + 1] = PieceRead(scan[n], s[n + 1]) /\ scan[n] \in Reads
    <3>1. scan[n + 1] = PieceRead(scan[(n + 1) - 1], s[n + 1])
      BY <2>1, ScanSteps
    <3>2. scan[n] \in Reads
      BY <2>1, ScanReads
    <3> QED BY <2>1, <3>1, <3>2
  <2>3. Same(scan[n])
    BY <1>2
  <2> DEFINE r == scan[n]
             cmds == r.cmds
             calls == r.calls
             new == CommandIn(r.line)
  <2>4. cmds \in Seq(Commands) /\ calls \in Seq(Commands)
    BY <2>2 DEF Reads
  <2>5. CASE s[n + 1] # Newline
    <3>1. scan[n + 1].cmds = cmds /\ scan[n + 1].calls = calls
      BY <2>2, <2>5 DEF PieceRead, Reads
    <3> QED BY <2>1, <2>3, <3>1
  <2>6. CASE s[n + 1] = Newline
    <3>1. scan[n + 1].cmds = cmds \o new /\ scan[n + 1].calls = calls \o NotQuit(new)
      <4>1. scan[n + 1] = LineRead(r)
        BY <2>2, <2>6 DEF PieceRead
      <4> HIDE DEF scan, r
      <4>2. LineRead(r).cmds = r.cmds \o CommandIn(r.line)
        BY Zenon DEF LineRead
      <4>3. LineRead(r).calls = r.calls \o NotQuit(CommandIn(r.line))
        BY Zenon DEF LineRead
      <4> QED BY <4>1, <4>2, <4>3, Zenon
    <3>2. new = <<>> \/ \E c \in Commands : new = <<c>>
      BY CommandInOK
    <3>3. Same(r)
      BY <2>3
    <3> HIDE DEF r, cmds, calls, new, scan
    <3>4. CASE new = <<>>
      <4>1. NotQuit(new) = <<>>
        BY <3>4 DEF NotQuit
      <4>2. cmds \o new = cmds /\ calls \o NotQuit(new) = calls
        BY <2>4, <3>4, <4>1
      <4> QED BY <2>1, <3>1, <3>3, <4>2 DEF cmds, calls
    <3>5. ASSUME NEW c \in Commands, new = <<c>> PROVE Same(scan[n + 1])
      <4>1. cmds \o new = Append(cmds, c)
        BY <2>4, <3>5
      <4>2. <<c>> # <<>> /\ <<c>>[1] = c /\ <<c>> \in Seq(Commands)
        OBVIOUS
      <4>3. Range(Append(cmds, c)) = Range(cmds) \cup {c}
        BY <2>4, AppendFacts
      <4>4. IsInjective(Append(cmds, c)) => IsInjective(cmds) /\ c \notin Range(cmds)
        <5>1. Range(<<c>>) = {c}
          BY DEF Range
        <5>2. IsInjective(cmds \o <<c>>) => IsInjective(cmds) /\ Range(cmds) \cap Range(<<c>>) = {}
          BY <2>4, <4>2, ConcatRanges
        <5> QED BY <3>5, <4>1, <5>1, <5>2
      <4>5. CASE What[c] = "quit"
        <5>1. NotQuit(new) = <<>>
          BY <3>5, <4>2, <4>5 DEF NotQuit
        <5>2. calls \o NotQuit(new) = calls
          BY <2>4, <5>1
        <5> QED BY <3>1, <3>3, <4>1, <4>3, <4>4, <4>5, <5>2 DEF cmds, calls
      <4>6. CASE What[c] # "quit"
        <5>1. NotQuit(new) = <<c>>
          BY <3>5, <4>2, <4>6 DEF NotQuit
        <5>2. calls \o NotQuit(new) = Append(calls, c)
          BY <2>4, <5>1
        <5>3. Range(Append(calls, c)) = Range(calls) \cup {c}
          BY <2>4, AppendFacts
        <5>4. IsInjective(calls) /\ c \notin Range(calls) => IsInjective(Append(calls, c))
          BY <2>4, AppendFacts
        <5> QED BY <3>1, <3>3, <4>1, <4>3, <4>4, <4>6, <5>2, <5>3, <5>4 DEF cmds, calls
      <4> QED BY <4>5, <4>6
    <3> QED BY <2>1, <3>2, <3>4, <3>5
  <2> QED BY <2>5, <2>6
<1>3. Len(s) \in T
  <2> HIDE DEF T
  <2>1. \A n \in 0..Len(s) : n \in T
    BY <1>0, <1>1, <1>2, StepByStep
  <2> QED BY <1>0, <2>1
<1>4. scan[Len(s)] = Read(line, s)
  BY DEF Read
<1> HIDE DEF scan
<1> QED BY <1>3, <1>4

JobsUpTo(r) ==
  {j \in [what : {"handle", "answer", "settled"}, of : Commands \cup {None}, id : Nat] :
     IF j.what = "settled" THEN j.id \in 1..r ELSE j.of \in Commands}

\* The commands that jobs are for, and that there is one job at most for each.
Of(js) == {c \in Commands : \E k \in DOMAIN js : js[k].what # "settled" /\ js[k].of = c}
Once(js) ==
  \A k, l \in DOMAIN js :
    js[k].what # "settled" /\ js[l].what # "settled" /\ js[k].of = js[l].of => k = l

LEMMA JobAdded ==
  ASSUME NEW r, NEW js \in Seq(JobsUpTo(r)), NEW j \in JobsUpTo(r)
  PROVE  LET new == IF j.what = "settled" THEN {} ELSE {j.of}
         IN  /\ Append(js, j) \in Seq(JobsUpTo(r)) /\ Of(Append(js, j)) = Of(js) \cup new
             /\ Once(js) /\ new \cap Of(js) = {} => Once(Append(js, j))
<1> DEFINE a == Append(js, j)
           new == IF j.what = "settled" THEN {} ELSE {j.of}
<1>1. /\ a \in Seq(JobsUpTo(r)) /\ Len(js) \in Nat
      /\ DOMAIN a = 1..(Len(js) + 1) /\ DOMAIN js = 1..Len(js)
      /\ a[Len(js) + 1] = j /\ \A k \in 1..Len(js) : a[k] = js[k]
  OBVIOUS
<1>2. \A k \in DOMAIN a : k \in DOMAIN js \/ k = Len(js) + 1
  BY <1>1
<1>3. (\A k \in DOMAIN js : k \in DOMAIN a /\ a[k] = js[k]) /\ Len(js) + 1 \in DOMAIN a
  BY <1>1
<1>4. j.what # "settled" => j.of \in Commands
  BY DEF JobsUpTo
<1> HIDE DEF a
<1>5. Of(a) = Of(js) \cup new
  <2>1. Of(a) \subseteq Of(js) \cup new
    BY <1>1, <1>2, <1>3 DEF Of
  <2>2. Of(js) \subseteq Of(a)
    BY <1>3 DEF Of
  <2>3. new \subseteq Of(a)
    BY <1>1, <1>3, <1>4 DEF Of
  <2> QED BY <2>1, <2>2, <2>3
<1>6. ASSUME Once(js), new \cap Of(js) = {} PROVE Once(a)
  <2>1. ASSUME NEW k \in DOMAIN js, js[k].what # "settled", j.what # "settled" PROVE js[k].of # j.of
    BY <1>4, <1>6, <2>1 DEF Of
  <2>2. ASSUME NEW k \in DOMAIN a, NEW l \in DOMAIN a,
               a[k].what # "settled", a[l].what # "settled", a[k].of = a[l].of
        PROVE  k = l
    BY <1>1, <1>2, <1>3, <1>6, <2>1, <2>2 DEF Once
  <2> QED BY <2>2 DEF Once
<1> QED BY <1>1, <1>5, <1>6 DEF a

LEMMA JobTaken ==
  ASSUME NEW r, NEW js \in Seq(JobsUpTo(r)), js # <<>>
  PROVE  LET old == IF Head(js).what = "settled" THEN {} ELSE {Head(js).of}
         IN  /\ Head(js) \in JobsUpTo(r) /\ Tail(js) \in Seq(JobsUpTo(r)) /\ old \subseteq Of(js)
             /\ Once(js) => Once(Tail(js)) /\ Of(Tail(js)) = Of(js) \ old
<1> DEFINE t == Tail(js)
           h == Head(js)
           old == IF h.what = "settled" THEN {} ELSE {h.of}
<1>1. /\ t \in Seq(JobsUpTo(r)) /\ Len(js) \in Nat \ {0} /\ h = js[1] /\ h \in JobsUpTo(r)
      /\ DOMAIN t = 1..(Len(js) - 1) /\ DOMAIN js = 1..Len(js)
      /\ \A k \in 1..(Len(js) - 1) : t[k] = js[k + 1]
  OBVIOUS
<1> HIDE DEF t, h
<1>2. \A k \in DOMAIN t : k + 1 \in DOMAIN js /\ t[k] = js[k + 1] /\ k + 1 # 1 /\ k \in Int
  BY <1>1
<1>3. \A k \in DOMAIN js : k = 1 \/ \E l \in DOMAIN t : k = l + 1
  <2> TAKE k \in DOMAIN js
  <2>1. CASE k # 1
    <3>1. k - 1 \in DOMAIN t /\ k = (k - 1) + 1
      BY <1>1, <2>1
    <3> QED BY <3>1
  <2> QED BY <2>1
<1>4. 1 \in DOMAIN js /\ (h.what # "settled" => h.of \in Commands)
  BY <1>1 DEF JobsUpTo
<1>5. old \subseteq Of(js)
  BY <1>1, <1>4 DEF Of
<1>6. ASSUME Once(js) PROVE Once(t) /\ Of(t) = Of(js) \ old
  <2>1. ASSUME NEW k \in DOMAIN t, NEW l \in DOMAIN t,
               t[k].what # "settled", t[l].what # "settled", t[k].of = t[l].of
        PROVE  k = l
    <3>1. k + 1 = l + 1
      BY <1>2, <1>6, <2>1 DEF Once
    <3> QED BY <1>2, <3>1
  <2>2. ASSUME NEW k \in DOMAIN t, t[k].what # "settled" PROVE t[k].of \notin old
    BY <1>1, <1>2, <1>4, <1>6, <2>2 DEF Once
  <2>3. Of(t) \subseteq Of(js) \ old
    BY <1>2, <2>2 DEF Of
  <2>4. Of(js) \ old \subseteq Of(t)
    <3>1. ASSUME NEW c \in Commands, NEW k \in DOMAIN js, js[k].what # "settled", js[k].of = c, c \notin old
          PROVE  c \in Of(t)
      <4>1. PICK l \in DOMAIN t : k = l + 1
        BY <1>1, <1>3, <3>1
      <4> QED BY <1>2, <3>1, <4>1 DEF Of
    <3> QED BY <3>1 DEF Of
  <2> QED BY <2>1, <2>3, <2>4 DEF Once
<1> QED BY <1>1, <1>5, <1>6 DEF t, h

\* A job for each of some commands.
JobsOf(what, q) == [k \in 1..Len(q) |-> Job(what, q[k])]

LEMMA JobsAdded ==
  ASSUME NEW r, NEW js \in Seq(JobsUpTo(r)), NEW what \in {"handle", "answer"},
         NEW q \in Seq(Commands), IsInjective(q)
  PROVE  /\ js \o JobsOf(what, q) \in Seq(JobsUpTo(r))
         /\ Of(js \o JobsOf(what, q)) = Of(js) \cup Range(q)
         /\ Once(js) /\ Range(q) \cap Of(js) = {} => Once(js \o JobsOf(what, q))
<1> DEFINE new == JobsOf(what, q)
           a == js \o new
<1>0. Len(q) \in Nat /\ DOMAIN q = 1..Len(q) /\ \A k \in 1..Len(q) : q[k] \in Commands
  OBVIOUS
<1>1. \A k \in 1..Len(q) :
        new[k] \in JobsUpTo(r) /\ new[k].what # "settled" /\ new[k].of = q[k]
  <2> TAKE k \in 1..Len(q)
  <2>1. new[k] = [what |-> what, of |-> q[k], id |-> 0] /\ q[k] \in Commands
    BY <1>0 DEF Job, JobsOf
  <2> QED BY <2>1 DEF JobsUpTo
<1>2. new \in Seq(JobsUpTo(r)) /\ Len(new) = Len(q)
  <2>1. new \in [1..Len(q) -> JobsUpTo(r)]
    BY <1>1 DEF JobsOf
  <2> HIDE DEF new
  <2> QED BY <1>0, <2>1
<1> HIDE DEF new
<1>3. /\ a \in Seq(JobsUpTo(r)) /\ Len(js) \in Nat
      /\ DOMAIN a = 1..(Len(js) + Len(q)) /\ DOMAIN js = 1..Len(js)
      /\ \A k \in 1..Len(js) : a[k] = js[k]
      /\ \A k \in 1..Len(q) : a[Len(js) + k] = new[k]
  <2>1. new \in Seq(JobsUpTo(r)) /\ Len(new) = Len(q)
    BY <1>2
  <2>2. Len(js) \in Nat /\ DOMAIN js = 1..Len(js)
    OBVIOUS
  <2>3. /\ a \in Seq(JobsUpTo(r)) /\ Len(a) = Len(js) + Len(new)
        /\ \A k \in 1..Len(js) : a[k] = js[k]
        /\ \A k \in 1..Len(new) : a[Len(js) + k] = new[k]
    BY <2>1, ConcatFacts
  <2> HIDE DEF a
  <2> QED BY <1>0, <2>1, <2>2, <2>3
<1> HIDE DEF a
<1>4. /\ \A k \in DOMAIN js : k \in DOMAIN a /\ a[k] = js[k]
      /\ \A k \in DOMAIN q : /\ Len(js) + k \in DOMAIN a
                             /\ a[Len(js) + k].what # "settled" /\ a[Len(js) + k].of = q[k]
  BY <1>0, <1>1, <1>3
<1>5. \A k \in DOMAIN a : k \in DOMAIN js \/ \E l \in DOMAIN q : k = Len(js) + l
  <2> TAKE k \in DOMAIN a
  <2>1. CASE k > Len(js)
    <3>1. k - Len(js) \in DOMAIN q /\ k = Len(js) + (k - Len(js))
      BY <1>0, <1>3, <2>1
    <3> QED BY <3>1
  <2> QED BY <1>3, <2>1
<1>6. Of(a) = Of(js) \cup Range(q)
  <2>1. Of(a) \subseteq Of(js) \cup Range(q)
    <3>1. ASSUME NEW k \in DOMAIN a, a[k].what # "settled", a[k].of \in Commands
          PROVE  a[k].of \in Of(js) \cup Range(q)
      <4>1. CASE k \in DOMAIN js
        BY <1>4, <3>1, <4>1 DEF Of
      <4>2. ASSUME NEW l \in DOMAIN q, k = Len(js) + l PROVE a[k].of \in Range(q)
        BY <1>4, <4>2 DEF Range
      <4> QED BY <1>5, <4>1, <4>2
    <3> QED BY <3>1 DEF Of
  <2>2. Of(js) \subseteq Of(a)
    BY <1>4 DEF Of
  <2>3. \A k \in DOMAIN q : q[k] \in Of(a)
    BY <1>0, <1>4 DEF Of
  <2> QED BY <2>1, <2>2, <2>3 DEF Range
<1>7. ASSUME Once(js), Range(q) \cap Of(js) = {} PROVE Once(a)
  <2>1. \A k \in DOMAIN js, l \in DOMAIN q : js[k].what # "settled" => js[k].of # q[l]
    BY <1>0, <1>7 DEF Of, Range
  <2>2. ASSUME NEW k \in DOMAIN a, NEW l \in DOMAIN a,
               a[k].what # "settled", a[l].what # "settled", a[k].of = a[l].of
        PROVE  k = l
    <3>1. CASE k \in DOMAIN js /\ l \in DOMAIN js
      BY <1>4, <1>7, <2>2, <3>1 DEF Once
    <3>2. ASSUME NEW m \in DOMAIN q, k = Len(js) + m, l \in DOMAIN js PROVE FALSE
      BY <1>4, <2>1, <2>2, <3>2
    <3>3. ASSUME NEW m \in DOMAIN q, l = Len(js) + m, k \in DOMAIN js PROVE FALSE
      BY <1>4, <2>1, <2>2, <3>3
    <3>4. ASSUME NEW m \in DOMAIN q, NEW n \in DOMAIN q, k = Len(js) + m, l = Len(js) + n PROVE k = l
      BY <1>4, <2>2, <3>4 DEF IsInjective
    <3> QED BY <1>5, <3>1, <3>2, <3>3, <3>4
  <2> QED BY <2>2 DEF Once
<1> QED BY <1>3, <1>6, <1>7 DEF a, new

\* A set of commands as a list.
LEMMA SetAsList ==
  ASSUME NEW cs \in SUBSET Commands
  PROVE  /\ SetToSeq(cs) \in Seq(Commands) /\ Len(SetToSeq(cs)) = Cardinality(cs)
         /\ IsInjective(SetToSeq(cs)) /\ Range(SetToSeq(cs)) \subseteq cs
<1>1. Cardinality(cs) \in Nat /\ ExistsBijection(1..Cardinality(cs), cs)
  <2>1. IsFiniteSet(cs)
    BY LoopAssumption, FS_Subset
  <2> QED BY <2>1, FS_CardinalityType
<1>2. \E f \in [1..Cardinality(cs) -> cs] : IsInjective(f)
  BY <1>1 DEF ExistsBijection, Bijection, Injection
<1>3. SetToSeq(cs) \in [1..Cardinality(cs) -> cs] /\ IsInjective(SetToSeq(cs))
  BY <1>2, Zenon DEF SetToSeq
<1>4. Range(SetToSeq(cs)) \subseteq cs
  BY <1>3 DEF Range
<1> DEFINE q == SetToSeq(cs)
<1> HIDE DEF q
<1>5. q \in Seq(cs) /\ Len(q) = Cardinality(cs)
  BY <1>1, <1>3 DEF q
<1>6. q \in Seq(Commands)
  BY <1>5
<1> QED BY <1>3, <1>4, <1>5, <1>6 DEF q

-----------------------------------------------------------------------------
(* Answers.                                                                *)

Words == Commands \cup {"inited", "initFailed"}
SaidOnce(s) == \A i, k \in DOMAIN s : s[i] = s[k] /\ s[i] \in Commands => i = k

LEMMA WordSaid ==
  ASSUME NEW s \in Seq(Words), NEW x \in Words
  PROVE  /\ Append(s, x) \in Seq(Words)
         /\ Range(Append(s, x)) \cap Commands = (Range(s) \cap Commands) \cup ({x} \cap Commands)
         /\ SaidOnce(s) /\ {x} \cap (Range(s) \cap Commands) = {} => SaidOnce(Append(s, x))
<1> DEFINE a == Append(s, x)
<1>1. /\ a \in Seq(Words) /\ Len(s) \in Nat
      /\ DOMAIN a = 1..(Len(s) + 1) /\ DOMAIN s = 1..Len(s)
      /\ a[Len(s) + 1] = x /\ \A k \in 1..Len(s) : a[k] = s[k]
  OBVIOUS
<1>2. Range(a) = Range(s) \cup {x}
  BY AppendFacts
<1> HIDE DEF a
<1>3. ASSUME SaidOnce(s), {x} \cap (Range(s) \cap Commands) = {},
             NEW i \in DOMAIN a, NEW k \in DOMAIN a, a[i] = a[k], a[i] \in Commands
      PROVE  i = k
  <2>1. \A l \in DOMAIN s : s[l] = x => x \notin Commands
    BY <1>3 DEF Range
  <2>2. (i \in DOMAIN s \/ i = Len(s) + 1) /\ (k \in DOMAIN s \/ k = Len(s) + 1)
    BY <1>1
  <2> QED BY <1>1, <1>3, <2>1, <2>2 DEF SaidOnce
<1>4. SaidOnce(s) /\ {x} \cap (Range(s) \cap Commands) = {} => SaidOnce(a)
  BY <1>3 DEF SaidOnce
<1> QED BY <1>1, <1>2, <1>4 DEF a

\* Where a command is that was read: a job waits for the thread, its handler
\* runs, its answer hangs on something, or it was answered.
Queued == Of(jobs)
Running == {running} \cap Commands
Hanging == {c \in Commands : waits[c] # <<None, 0>>}
Answered == Range(Said) \cap Commands
Natives == {c \in Range(handled) : What[c] \in {"ping", "download"}}

JobsOK == jobs \in Seq(JobsUpTo(reqSeq))
SaidOK == outFile \in Seq(Words) /\ g_outbuf \in Seq(Words)
RunningOK ==
  /\ running \in Commands \cup {None, "callback"}
  /\ running # None => pc \in {"load", "timers", "jobs"}
  /\ pc = "load" => running \notin Commands
  /\ pc = "download" => jobs # <<>> /\ Head(jobs).what = "handle"
WaitsOK == waits \in [Commands -> Tags \X Nat]

\* It is in one place only.
OnePlace ==
  /\ Once(jobs) /\ SaidOnce(Said)
  /\ Queued \cap Running = {} /\ Queued \cap Hanging = {} /\ Queued \cap Answered = {}
  /\ Running \cap Hanging = {} /\ Running \cap Answered = {}
  /\ Hanging \cap Answered = {}
OnlyRead == Queued \cup Running \cup Hanging \cup Answered \subseteq Range(handled)

\* What needs no code of a script cannot be left hanging.
NativeKept == ~threw => Natives \subseteq Queued \cup Answered
NoJobLeft == ~threw /\ pc \in {"clock", "end", "exited"} => jobs = <<>>
AllWritten == pc = "exited" => g_outbuf = <<>>

Ending == NoJobLeft /\ AllWritten /\ RunningOK
Shape == JobsOK /\ SaidOK /\ WaitsOK /\ reqSeq \in Nat
Places == OnePlace /\ OnlyRead /\ NativeKept
AnswersOK == Shape /\ Ending /\ Places

\* A later request makes no job wrong.
LEMMA MoreJobs == \A r \in Nat : JobsUpTo(r) \subseteq JobsUpTo(r + 1)
<1> TAKE r \in Nat
<1>1. 1..r \subseteq 1..(r + 1)
  OBVIOUS
<1> QED BY <1>1 DEF JobsUpTo

LEMMA SettledJobOK ==
  ASSUME NEW r \in Nat, NEW id \in 1..r
  PROVE  SettledJob(id) \in JobsUpTo(r) /\ SettledJob(id).what = "settled"
BY DEF SettledJob, JobsUpTo, None

LEMMA AnswerJobOK ==
  ASSUME NEW r, NEW c \in Commands
  PROVE  /\ Job("answer", c) \in JobsUpTo(r) /\ Job("answer", c).what = "answer"
         /\ Job("answer", c).of = c
BY DEF Job, JobsUpTo

\* A flush moves words, and adds none.
LEMMA Flushed ==
  ASSUME SaidOK, outFile' = outFile \o g_outbuf, g_outbuf' = <<>>
  PROVE  SaidOK' /\ Said' = Said
<1>1. outFile \o g_outbuf \in Seq(Words) /\ (outFile \o g_outbuf) \o <<>> = outFile \o g_outbuf
  BY DEF SaidOK
<1>2. <<>> \in Seq(Words)
  OBVIOUS
<1> QED BY <1>1, <1>2 DEF SaidOK, Said

LEMMA Spoken ==
  ASSUME SaidOK, NEW x \in Words, outFile' = outFile, g_outbuf' = Append(g_outbuf, x)
  PROVE  /\ SaidOK' /\ Answered' = Answered \cup ({x} \cap Commands)
         /\ SaidOnce(Said) /\ {x} \cap Answered = {} => SaidOnce(Said')
<1>1. /\ outFile \o Append(g_outbuf, x) = Append(outFile \o g_outbuf, x)
      /\ outFile \o g_outbuf \in Seq(Words) /\ Append(g_outbuf, x) \in Seq(Words)
  BY DEF SaidOK
<1>2. Said' = Append(Said, x) /\ Said \in Seq(Words)
  BY <1>1 DEF Said
<1>3. SaidOK'
  BY <1>1 DEF SaidOK
<1>4. Answered' = Answered \cup ({x} \cap Commands)
  BY <1>2, WordSaid DEF Answered
<1>5. SaidOnce(Said) /\ {x} \cap Answered = {} => SaidOnce(Said')
  BY <1>2, WordSaid DEF Answered
<1> QED BY <1>3, <1>4, <1>5

\* The answers that hang on what has come.
LEMMA AnswersQueued ==
  ASSUME NEW r, NEW js \in Seq(JobsUpTo(r)), NEW for, for # <<None, 0>>, WaitsOK,
         jobs' = js \o [k \in 1..Cardinality(Waiting(for)) |->
                          Job("answer", SetToSeq(Waiting(for))[k])],
         NoWait(Waiting(for))
  PROVE  /\ jobs' \in Seq(JobsUpTo(r)) /\ WaitsOK'
         /\ \E cs \in SUBSET Hanging :
              /\ Queued' = Of(js) \cup cs /\ Hanging' \subseteq Hanging \ cs
              /\ Once(js) /\ cs \cap Of(js) = {} => Once(jobs')
<1> DEFINE cs == Waiting(for)
           q == SetToSeq(cs)
           new == [k \in 1..Cardinality(cs) |-> Job("answer", q[k])]
<1>1. cs \subseteq Hanging
  BY DEF Waiting, Hanging
<1>2. q \in Seq(Commands) /\ Len(q) = Cardinality(cs) /\ IsInjective(q) /\ Range(q) \subseteq cs
  BY <1>1, SetAsList DEF Hanging
<1>3. jobs' = js \o new /\ waits' = [c \in Commands |-> IF c \in cs THEN <<None, 0>> ELSE waits[c]]
  BY DEF NoWait
<1> HIDE DEF cs, q
<1>4. new = JobsOf("answer", q)
  BY <1>2 DEF JobsOf
<1> HIDE DEF new
<1>5. /\ jobs' \in Seq(JobsUpTo(r)) /\ Queued' = Of(js) \cup Range(q)
      /\ Once(js) /\ Range(q) \cap Of(js) = {} => Once(jobs')
  <2>1. /\ js \o new \in Seq(JobsUpTo(r)) /\ Of(js \o new) = Of(js) \cup Range(q)
        /\ Once(js) /\ Range(q) \cap Of(js) = {} => Once(js \o new)
    <3>1. "answer" \in {"handle", "answer"} /\ q \in Seq(Commands) /\ IsInjective(q)
      BY <1>2
    <3>2. LET m == JobsOf("answer", q)
          IN  /\ js \o m \in Seq(JobsUpTo(r)) /\ Of(js \o m) = Of(js) \cup Range(q)
              /\ Once(js) /\ Range(q) \cap Of(js) = {} => Once(js \o m)
      BY <3>1, JobsAdded
    <3> QED BY <1>4, <3>2, Zenon
  <2> QED BY <1>3, <2>1 DEF Queued
<1>6. WaitsOK'
  <2>1. <<None, 0>> \in Tags \X Nat
    BY DEF Tags, None
  <2> QED BY <1>3, <2>1 DEF WaitsOK
<1>7. Hanging' \subseteq Hanging \ cs
  BY <1>3 DEF Hanging
<1> QED BY <1>1, <1>2, <1>5, <1>6, <1>7

\* The parts of AnswersOK, one by one.
LEMMA AnswersFacts ==
  ASSUME AnswersOK
  PROVE  /\ JobsOK /\ SaidOK /\ WaitsOK /\ reqSeq \in Nat
         /\ NoJobLeft /\ AllWritten /\ RunningOK
         /\ Once(jobs) /\ SaidOnce(Said)
         /\ Queued \cap Running = {} /\ Queued \cap Hanging = {} /\ Queued \cap Answered = {}
         /\ Running \cap Hanging = {} /\ Running \cap Answered = {}
         /\ Hanging \cap Answered = {}
         /\ Queued \cup Running \cup Hanging \cup Answered \subseteq Range(handled)
         /\ NativeKept
         /\ None \notin Commands /\ "callback" \notin Commands
         /\ "inited" \notin Commands /\ "initFailed" \notin Commands
BY LoopAssumption DEF AnswersOK, Shape, Ending, Places, OnePlace, OnlyRead, None

LEMMA NobodyMoves ==
  ASSUME AnswersOK, SaidOK', Said' = Said, Ending',
         UNCHANGED <<jobs, running, waits, handled, threw, reqSeq>>
  PROVE  AnswersOK'
<1>1. Shape'
  BY DEF AnswersOK, Shape, JobsOK, WaitsOK
<1>2. Queued' = Queued /\ Running' = Running /\ Hanging' = Hanging /\ Answered' = Answered
  BY DEF Queued, Running, Hanging, Answered
<1>3. OnePlace'
  BY <1>2 DEF AnswersOK, Places, OnePlace
<1>4. OnlyRead'
  BY <1>2 DEF AnswersOK, Places, OnlyRead
<1>5. NativeKept'
  BY <1>2 DEF AnswersOK, Places, NativeKept, Natives
<1> QED BY <1>1, <1>3, <1>4, <1>5 DEF AnswersOK, Places

\* Only the place in the turn changes, and code of scripts does not run.
LEMMA PcMoves ==
  ASSUME AnswersOK, running = None,
         UNCHANGED <<jobs, running, waits, handled, threw, reqSeq, outFile, g_outbuf>>,
         \/ pc' \in {"top", "http", "timers", "jobs"} \/ (pc' = "clock" /\ jobs = <<>>)
         \/ pc' = "download" /\ jobs # <<>> /\ Head(jobs).what = "handle"
  PROVE  AnswersOK'
<1>1. SaidOK' /\ Said' = Said
  BY DEF AnswersOK, Shape, SaidOK, Said
<1>2. Ending'
  BY DEF Ending, NoJobLeft, AllWritten, RunningOK
<1> QED BY <1>1, <1>2, NobodyMoves

LEMMA NothingOfIt ==
  ASSUME AnswersOK,
         UNCHANGED <<pc, jobs, running, waits, handled, threw, reqSeq, outFile, g_outbuf>>
  PROVE  AnswersOK'
<1>1. SaidOK' /\ Said' = Said
  BY DEF AnswersOK, Shape, SaidOK, Said
<1>2. Ending'
  BY DEF AnswersOK, Ending, NoJobLeft, AllWritten, RunningOK
<1> QED BY <1>1, <1>2, NobodyMoves

LEMMA AnswersWait ==
  ASSUME AnswersOK, TurnBegins, Waits PROVE AnswersOK'
<1>1. /\ pc = "top" /\ pc' = "http" /\ outFile' = outFile \o g_outbuf /\ g_outbuf' = <<>>
      /\ UNCHANGED <<jobs, running, waits, handled, threw, reqSeq>>
  BY DEF TurnBegins, Waits, scriptVars, httpVars
<1>2. SaidOK' /\ Said' = Said
  BY <1>1, AnswersFacts, Flushed
<1>3. Ending'
  BY <1>1, AnswersFacts DEF Ending, NoJobLeft, AllWritten, RunningOK
<1> QED BY <1>1, <1>2, <1>3, NobodyMoves

LEMMA AnswersRead ==
  ASSUME CommandsKept, CommandsKept', AnswersOK, TurnBegins, InputRead PROVE AnswersOK'
<1> DEFINE s == SubSeq(fifo, 1, ReadNow)
           read == Read(g_inbuf, s)
           cmds == read.cmds
           calls == read.calls
<1>1. /\ pc = "top" /\ pc' = "http" /\ outFile' = outFile \o g_outbuf /\ g_outbuf' = <<>>
      /\ UNCHANGED <<running, waits, threw, reqSeq>>
  BY DEF TurnBegins, InputRead, scriptVars, httpVars
<1>2. /\ handled' = handled \o cmds /\ jobs' = jobs \o JobsFor(calls)
  BY DEF InputRead, ReadNow
<1>3. s \in Seq(Tokens) /\ g_inbuf \in Seq(Tokens)
  <2>1. PipeOK /\ handled \in Seq(Commands)
    BY DEF CommandsKept, SentOK
  <2>2. ReadNow \in 1..Len(fifo)
    BY <2>1, InputReads
  <2>3. fifo \in Seq(Tokens) /\ g_inbuf \in Seq(Tokens)
    BY <2>1 DEF PipeOK
  <2> QED BY <2>2, <2>3
<1>4. read \in Reads
  BY <1>3, ReadOK
<1>5. cmds \in Seq(Commands) /\ calls \in Seq(Commands)
  BY <1>4 DEF Reads
<1>6. IsInjective(handled')
  <2>1. PipeOK' /\ SentOK' /\ KeptOK'
    BY DEF CommandsKept
  <2>2. Got'.cmds \in Seq(Commands)
    <3>1. Got' \in Reads
      <4>1. fifo' \in Seq(Tokens) /\ g_inbuf' \in Seq(Tokens)
        BY <2>1 DEF PipeOK
      <4> QED BY <4>1, ReadOK DEF Got
    <3> QED BY <3>1 DEF Reads
  <2> DEFINE rest == Got'.cmds
  <2>3. IsInjective(handled' \o rest)
    <3>1. Kept' = handled' \o rest
      BY DEF Kept, Got
    <3> QED BY <2>1, <3>1 DEF KeptOK
  <2>4. handled' \in Seq(Commands) /\ rest \in Seq(Commands)
    BY <2>1, <2>2 DEF SentOK
  <2> HIDE DEF rest
  <2> QED BY <2>3, <2>4, ConcatRanges
<1>7. /\ Range(handled') = Range(handled) \cup Range(cmds)
      /\ IsInjective(cmds) /\ Range(handled) \cap Range(cmds) = {}
  <2> HIDE DEF cmds
  <2>1. handled \in Seq(Commands)
    BY DEF CommandsKept, SentOK
  <2> QED BY <1>2, <1>5, <1>6, <2>1, ConcatRanges
<1>8. IsInjective(calls) /\ Range(calls) = {c \in Range(cmds) : What[c] # "quit"}
  BY <1>3, <1>7, ReadCalls
<1> HIDE DEF s, read, cmds, calls
<1>9. JobsFor(calls) = JobsOf("handle", calls)
  BY <1>5 DEF JobsFor, JobsOf
<1>10. Range(calls) \subseteq Range(cmds) /\ Range(calls) \cap Queued = {}
  BY <1>7, <1>8, AnswersFacts
<1>11. JobsOK' /\ Queued' = Queued \cup Range(calls) /\ Once(jobs')
  <2>1. "handle" \in {"handle", "answer"} /\ jobs \in Seq(JobsUpTo(reqSeq)) /\ Once(jobs)
    BY AnswersFacts DEF JobsOK
  <2>2. /\ jobs \o JobsOf("handle", calls) \in Seq(JobsUpTo(reqSeq))
        /\ Of(jobs \o JobsOf("handle", calls)) = Of(jobs) \cup Range(calls)
        /\ Range(calls) \cap Of(jobs) = {} => Once(jobs \o JobsOf("handle", calls))
    BY <1>5, <1>8, <2>1, JobsAdded
  <2> QED BY <1>1, <1>2, <1>9, <1>10, <2>2 DEF JobsOK, Queued
<1>12. SaidOK' /\ Said' = Said
  BY <1>1, AnswersFacts, Flushed
<1>13. Running' = Running /\ Hanging' = Hanging /\ Answered' = Answered
  BY <1>1, <1>12 DEF Running, Hanging, Answered
<1>14. Shape'
  BY <1>1, <1>11, <1>12, AnswersFacts DEF Shape, WaitsOK
<1>15. Ending'
  BY <1>1, AnswersFacts DEF Ending, NoJobLeft, AllWritten, RunningOK
<1>16. OnePlace'
  BY <1>7, <1>10, <1>11, <1>12, <1>13, AnswersFacts DEF OnePlace
<1>17. OnlyRead'
  BY <1>7, <1>10, <1>11, <1>13, AnswersFacts DEF OnlyRead
<1>18. NativeKept'
  <2>1. Natives' \subseteq Natives \cup Range(calls)
    BY <1>7, <1>8 DEF Natives
  <2> QED BY <1>1, <1>11, <1>13, <2>1, AnswersFacts DEF NativeKept
<1> QED BY <1>14, <1>15, <1>16, <1>17, <1>18 DEF AnswersOK, Places

\* One more job for a promise.
LEMMA AnswersSettled ==
  ASSUME AnswersOK, reqSeq' \in Nat, reqSeq' \in {reqSeq, reqSeq + 1},
         pc' = pc, pc \in {"load", "http", "timers", "jobs"},
         \/ jobs' = jobs
         \/ \E r \in 1..reqSeq' : jobs' = Append(jobs, SettledJob(r)),
         UNCHANGED <<running, waits, handled, threw, outFile, g_outbuf>>
  PROVE  AnswersOK'
<1>1. jobs \in Seq(JobsUpTo(reqSeq'))
  <2>1. JobsUpTo(reqSeq) \subseteq JobsUpTo(reqSeq')
    BY AnswersFacts, MoreJobs
  <2> QED BY <2>1, AnswersFacts DEF JobsOK
<1>2. JobsOK' /\ Queued' = Queued /\ Once(jobs')
  <2>1. CASE jobs' = jobs
    BY <1>1, <2>1, AnswersFacts DEF JobsOK, Queued
  <2>2. ASSUME NEW r \in 1..reqSeq', jobs' = Append(jobs, SettledJob(r))
        PROVE  JobsOK' /\ Queued' = Queued /\ Once(jobs')
    <3>1. SettledJob(r) \in JobsUpTo(reqSeq') /\ SettledJob(r).what = "settled"
      BY SettledJobOK
    <3>2. /\ jobs' \in Seq(JobsUpTo(reqSeq')) /\ Of(jobs') = Of(jobs) \cup {}
          /\ Once(jobs) /\ {} \cap Of(jobs) = {} => Once(jobs')
      BY <1>1, <2>2, <3>1, JobAdded
    <3> QED BY <3>2, AnswersFacts DEF JobsOK, Queued
  <2> QED BY <2>1, <2>2
<1>3. SaidOK' /\ Said' = Said
  BY AnswersFacts DEF SaidOK, Said
<1>4. Running' = Running /\ Hanging' = Hanging /\ Answered' = Answered /\ Natives' = Natives
  BY <1>3 DEF Running, Hanging, Answered, Natives
<1>5. Shape'
  BY <1>2, <1>3, AnswersFacts DEF Shape, WaitsOK
<1>6. Ending'
  BY AnswersFacts DEF Ending, NoJobLeft, AllWritten, RunningOK
<1>7. OnePlace' /\ OnlyRead' /\ NativeKept'
  BY <1>2, <1>3, <1>4, AnswersFacts DEF OnePlace, OnlyRead, NativeKept
<1> QED BY <1>5, <1>6, <1>7 DEF AnswersOK, Places

\* The answers that hang on a timer or a promise become jobs.
LEMMA AnswersCome ==
  ASSUME AnswersOK, NEW js \in Seq(JobsUpTo(reqSeq)), Of(js) = Queued, Once(js),
         NEW for, for # <<None, 0>>,
         jobs' = js \o [k \in 1..Cardinality(Waiting(for)) |->
                          Job("answer", SetToSeq(Waiting(for))[k])],
         NoWait(Waiting(for)),
         running = None, running' = "callback", pc' = pc, pc \in {"timers", "jobs"},
         UNCHANGED <<handled, threw, reqSeq, outFile, g_outbuf>>
  PROVE  AnswersOK'
<1>1. /\ jobs' \in Seq(JobsUpTo(reqSeq)) /\ WaitsOK'
      /\ \E cs \in SUBSET Hanging :
           /\ Queued' = Of(js) \cup cs /\ Hanging' \subseteq Hanging \ cs
           /\ Once(js) /\ cs \cap Of(js) = {} => Once(jobs')
  BY AnswersFacts, AnswersQueued
<1>2. PICK cs \in SUBSET Hanging :
        /\ Queued' = Queued \cup cs /\ Hanging' \subseteq Hanging \ cs
        /\ cs \cap Queued = {} => Once(jobs')
  BY <1>1
<1>3. SaidOK' /\ Said' = Said
  BY AnswersFacts DEF SaidOK, Said
<1>4. Running' = {} /\ Answered' = Answered /\ Natives' = Natives
  BY <1>3, AnswersFacts DEF Running, Answered, Natives
<1>5. Shape'
  BY <1>1, <1>3, AnswersFacts DEF Shape, JobsOK
<1>6. Ending'
  BY AnswersFacts DEF Ending, NoJobLeft, AllWritten, RunningOK
<1>7. OnePlace'
  BY <1>2, <1>3, <1>4, AnswersFacts DEF OnePlace
<1>8. OnlyRead' /\ NativeKept'
  BY <1>2, <1>4, AnswersFacts DEF OnlyRead, NativeKept
<1> QED BY <1>5, <1>6, <1>7, <1>8 DEF AnswersOK, Places

LEMMA AnswersOfTimer ==
  ASSUME AnswersOK, TimersFire PROVE AnswersOK'
<1> DEFINE i == CHOOSE i \in DueFrom(cursor) : \A k \in DueFrom(cursor) : i <= k
           id == g_timers[i].id
           for == <<"timer", id>>
<1>1. /\ pc = "timers" /\ pc' = pc /\ running = None
      /\ UNCHANGED <<handled, threw, reqSeq, outFile, g_outbuf>>
  BY DEF TimersFire, outVars, histVars, httpVars
<1>2. IF id \in callbacks
      THEN /\ running' = "callback"
           /\ AnswerAll(Waiting(for)) /\ NoWait(Waiting(for))
      ELSE UNCHANGED <<running, jobs, waits>>
  BY DEF TimersFire
<1>3. for # <<None, 0>>
  BY DEF None
<1> HIDE DEF i, id, for
<1>4. CASE id \in callbacks
  <2>1. jobs' = jobs \o [k \in 1..Cardinality(Waiting(for)) |->
                           Job("answer", SetToSeq(Waiting(for))[k])]
    BY <1>2, <1>4 DEF AnswerAll
  <2>2. running' = "callback" /\ NoWait(Waiting(for))
    BY <1>2, <1>4
  <2>3. jobs \in Seq(JobsUpTo(reqSeq)) /\ Of(jobs) = Queued /\ Once(jobs)
    BY AnswersFacts DEF JobsOK, Queued
  <2> QED BY <1>1, <1>3, <2>1, <2>2, <2>3, AnswersCome
<1>5. CASE id \notin callbacks
  BY <1>1, <1>2, <1>5, NothingOfIt
<1> QED BY <1>4, <1>5

\* The next job is taken.
LEMMA HeadTaken ==
  ASSUME AnswersOK, jobs # <<>>
  PROVE  LET old == IF Head(jobs).what = "settled" THEN {} ELSE {Head(jobs).of}
         IN  /\ Head(jobs) \in JobsUpTo(reqSeq) /\ Tail(jobs) \in Seq(JobsUpTo(reqSeq))
             /\ old \subseteq Queued /\ Once(Tail(jobs)) /\ Of(Tail(jobs)) = Queued \ old
BY AnswersFacts, JobTaken DEF JobsOK, Queued

LEMMA AnswersSettle ==
  ASSUME AnswersOK, Settled PROVE AnswersOK'
<1> DEFINE for == <<"request", Head(jobs).id>>
<1>1. /\ pc = "jobs" /\ pc' = pc /\ running = None /\ running' = "callback"
      /\ jobs # <<>> /\ Head(jobs).what = "settled"
      /\ UNCHANGED <<handled, threw, reqSeq, outFile, g_outbuf>>
      /\ jobs' = Tail(jobs) \o [k \in 1..Cardinality(Waiting(for)) |->
                                  Job("answer", SetToSeq(Waiting(for))[k])]
      /\ NoWait(Waiting(for))
  BY DEF Settled, NextJob, outVars, histVars, httpVars
<1>2. Tail(jobs) \in Seq(JobsUpTo(reqSeq)) /\ Of(Tail(jobs)) = Queued /\ Once(Tail(jobs))
  BY <1>1, HeadTaken
<1>3. for # <<None, 0>>
  BY DEF None
<1> HIDE DEF for
<1> QED BY <1>1, <1>2, <1>3, AnswersCome

\* An answer for the command whose job is taken comes to the end of the list.
LEMMA AnswersNative ==
  ASSUME AnswersOK, jobs # <<>>, Head(jobs).what = "handle",
         jobs' = Append(Tail(jobs), Job("answer", Head(jobs).of)),
         pc' = "jobs", UNCHANGED <<running, waits, handled, threw, reqSeq, outFile, g_outbuf>>
  PROVE  AnswersOK'
<1> DEFINE c == Head(jobs).of  t == Tail(jobs)
<1>1. /\ t \in Seq(JobsUpTo(reqSeq)) /\ Once(t) /\ Of(t) = Queued \ {c}
      /\ c \in Queued /\ c \in Commands
  BY HeadTaken DEF JobsUpTo
<1> DEFINE j == Job("answer", c)
<1>2. j \in JobsUpTo(reqSeq) /\ j.what # "settled" /\ j.of = c
  BY <1>1, AnswerJobOK
<1> HIDE DEF c, t, j
<1>3. /\ Append(t, j) \in Seq(JobsUpTo(reqSeq)) /\ Of(Append(t, j)) = Of(t) \cup {c}
      /\ Once(t) /\ {c} \cap Of(t) = {} => Once(Append(t, j))
  BY <1>1, <1>2, JobAdded
<1>4. JobsOK' /\ Queued' = Queued /\ Once(jobs')
  <2>1. jobs' = Append(t, j)
    BY DEF t, j, c
  <2> QED BY <1>1, <1>3, <2>1 DEF JobsOK, Queued
<1>5. SaidOK' /\ Said' = Said
  BY AnswersFacts DEF SaidOK, Said
<1>6. Running' = Running /\ Hanging' = Hanging /\ Answered' = Answered /\ Natives' = Natives
  BY <1>5 DEF Running, Hanging, Answered, Natives
<1>7. Shape'
  BY <1>4, <1>5, AnswersFacts DEF Shape, WaitsOK
<1>8. Ending'
  BY AnswersFacts DEF Ending, NoJobLeft, AllWritten, RunningOK
<1>9. OnePlace' /\ OnlyRead' /\ NativeKept'
  BY <1>4, <1>5, <1>6, AnswersFacts DEF OnePlace, OnlyRead, NativeKept
<1> QED BY <1>7, <1>8, <1>9 DEF AnswersOK, Places

LEMMA AnswersScript ==
  ASSUME AnswersOK, HandleScript PROVE AnswersOK'
<1> DEFINE c == Head(jobs).of  t == Tail(jobs)
<1>0. /\ pc = "jobs" /\ pc' = pc /\ running = None /\ running' = c /\ jobs' = t
      /\ jobs # <<>> /\ Head(jobs).what # "settled" /\ What[c] = "script"
      /\ UNCHANGED <<waits, handled, threw, reqSeq, outFile, g_outbuf>>
  BY DEF HandleScript, NextJob, outVars, histVars, httpVars
<1>1. /\ t \in Seq(JobsUpTo(reqSeq)) /\ Once(t) /\ Of(t) = Queued \ {c}
      /\ c \in Queued /\ c \in Commands
  BY <1>0, HeadTaken DEF JobsUpTo
<1> HIDE DEF c, t
<1>2. JobsOK' /\ Queued' = Queued \ {c} /\ Once(jobs')
  BY <1>0, <1>1 DEF JobsOK, Queued
<1>3. SaidOK' /\ Said' = Said
  BY <1>0, AnswersFacts DEF SaidOK, Said
<1>4. /\ Running' = {c} /\ Running = {} /\ Hanging' = Hanging /\ Answered' = Answered
      /\ Natives' = Natives /\ c \notin Natives
  BY <1>0, <1>1, <1>3, AnswersFacts DEF Running, Hanging, Answered, Natives
<1>5. Shape'
  BY <1>0, <1>2, <1>3, AnswersFacts DEF Shape, WaitsOK
<1>6. Ending'
  BY <1>0, <1>1, AnswersFacts DEF Ending, NoJobLeft, AllWritten, RunningOK
<1>7. OnePlace'
  BY <1>1, <1>2, <1>3, <1>4, AnswersFacts DEF OnePlace
<1>8. OnlyRead' /\ NativeKept'
  BY <1>0, <1>1, <1>2, <1>4, AnswersFacts DEF OnlyRead, NativeKept
<1> QED BY <1>5, <1>6, <1>7, <1>8 DEF AnswersOK, Places

LEMMA AnswersSaid ==
  ASSUME AnswersOK, Answer PROVE AnswersOK'
<1> DEFINE c == Head(jobs).of  t == Tail(jobs)
<1>0. /\ pc = "jobs" /\ pc' = pc /\ running = None /\ running' = None /\ jobs' = t
      /\ jobs # <<>> /\ Head(jobs).what # "settled"
      /\ outFile' = outFile /\ g_outbuf' = Append(g_outbuf, c)
      /\ UNCHANGED <<waits, handled, threw, reqSeq>>
  BY DEF Answer, NextJob, scriptVars, histVars, httpVars
<1>1. /\ t \in Seq(JobsUpTo(reqSeq)) /\ Once(t) /\ Of(t) = Queued \ {c}
      /\ c \in Queued /\ c \in Commands
  BY <1>0, HeadTaken DEF JobsUpTo
<1> HIDE DEF c, t
<1>2. JobsOK' /\ Queued' = Queued \ {c} /\ Once(jobs')
  BY <1>0, <1>1 DEF JobsOK, Queued
<1>3. SaidOK' /\ Answered' = Answered \cup {c} /\ SaidOnce(Said')
  <2>1. c \in Words /\ {c} \cap Commands = {c} /\ {c} \cap Answered = {}
    BY <1>1, AnswersFacts DEF Words
  <2> QED BY <1>0, <2>1, AnswersFacts, Spoken
<1>4. Running' = {} /\ Running = {} /\ Hanging' = Hanging /\ Natives' = Natives
  BY <1>0, AnswersFacts DEF Running, Hanging, Natives
<1>5. Shape'
  BY <1>0, <1>2, <1>3, AnswersFacts DEF Shape, WaitsOK
<1>6. Ending'
  BY <1>0, AnswersFacts DEF Ending, NoJobLeft, AllWritten, RunningOK
<1>7. OnePlace'
  BY <1>1, <1>2, <1>3, <1>4, AnswersFacts DEF OnePlace
<1>8. OnlyRead' /\ NativeKept'
  BY <1>0, <1>1, <1>2, <1>3, <1>4, AnswersFacts DEF OnlyRead, NativeKept
<1> QED BY <1>5, <1>6, <1>7, <1>8 DEF AnswersOK, Places

LEMMA AnswersThrown ==
  ASSUME AnswersOK, JobThrows PROVE AnswersOK'
<1> DEFINE t == Tail(jobs)
           cs == IF Head(jobs).what = "settled" THEN Waiting(<<"request", Head(jobs).id>>)
                 ELSE {Head(jobs).of}
<1>0. /\ pc' = "clock" /\ running = None /\ running' = None /\ jobs' = t
      /\ jobs # <<>> /\ threw' = TRUE /\ NoWait(cs)
      /\ UNCHANGED <<handled, reqSeq, outFile, g_outbuf>>
  BY DEF JobThrows, outVars, httpVars
<1>1. t \in Seq(JobsUpTo(reqSeq)) /\ Once(t) /\ Of(t) \subseteq Queued
  BY <1>0, HeadTaken
<1> HIDE DEF t, cs
<1>2. JobsOK' /\ Queued' \subseteq Queued /\ Once(jobs')
  BY <1>0, <1>1 DEF JobsOK, Queued
<1>3. SaidOK' /\ Said' = Said
  BY <1>0, AnswersFacts DEF SaidOK, Said
<1>4. WaitsOK' /\ Hanging' \subseteq Hanging
  <2>1. waits' = [c \in Commands |-> IF c \in cs THEN <<None, 0>> ELSE waits[c]]
    BY <1>0 DEF NoWait
  <2>2. <<None, 0>> \in Tags \X Nat
    BY DEF Tags, None
  <2> QED BY <2>1, <2>2, AnswersFacts DEF WaitsOK, Hanging
<1>5. Running' = {} /\ Answered' = Answered
  BY <1>0, <1>3, AnswersFacts DEF Running, Answered
<1>6. Shape'
  BY <1>0, <1>2, <1>3, <1>4, AnswersFacts DEF Shape
<1>7. Ending'
  BY <1>0, AnswersFacts DEF Ending, NoJobLeft, AllWritten, RunningOK
<1>8. OnePlace'
  BY <1>2, <1>3, <1>4, <1>5, AnswersFacts DEF OnePlace
<1>9. OnlyRead' /\ NativeKept'
  BY <1>0, <1>2, <1>4, <1>5, AnswersFacts DEF OnlyRead, NativeKept
<1> QED BY <1>6, <1>7, <1>8, <1>9 DEF AnswersOK, Places

\* The code of a script ends: its command's answer is a job, or hangs.
LEMMA AnswersReturned ==
  ASSUME AnswersOK, HttpOK, TimersOK, ScriptReturns PROVE AnswersOK'
<1>0. /\ running # None /\ running' = None /\ pc' = pc /\ pc \in {"timers", "jobs"}
      /\ UNCHANGED <<handled, threw, reqSeq, outFile, g_outbuf>>
  BY AnswersFacts DEF ScriptReturns, outVars, histVars, httpVars, RunningOK
<1>1. SaidOK' /\ Said' = Said
  BY <1>0, AnswersFacts DEF SaidOK, Said
<1>2. /\ Running' = {} /\ Answered' = Answered /\ Natives' = Natives
      /\ (running \in Commands => Running = {running})
  BY <1>0, <1>1, AnswersFacts DEF Running, Answered, Natives
<1>3. Ending'
  BY <1>0, AnswersFacts DEF Ending, NoJobLeft, AllWritten, RunningOK
<1>4. CASE jobs' = jobs /\ waits' = waits
  <2>1. JobsOK' /\ Queued' = Queued /\ Once(jobs') /\ Hanging' = Hanging /\ WaitsOK'
    BY <1>0, <1>4, AnswersFacts DEF JobsOK, Queued, Hanging, WaitsOK
  <2>2. Shape'
    BY <1>0, <1>1, <2>1, AnswersFacts DEF Shape
  <2>3. OnePlace' /\ OnlyRead' /\ NativeKept'
    BY <1>0, <1>1, <1>2, <2>1, AnswersFacts DEF OnePlace, OnlyRead, NativeKept
  <2> QED BY <1>3, <2>2, <2>3 DEF AnswersOK, Places
<1>5. CASE running \in Commands /\ jobs' = Append(jobs, Job("answer", running)) /\ waits' = waits
  <2> DEFINE j == Job("answer", running)
  <2>1. j \in JobsUpTo(reqSeq) /\ j.what # "settled" /\ j.of = running
    BY <1>5, AnswerJobOK
  <2> HIDE DEF j
  <2>2. /\ Append(jobs, j) \in Seq(JobsUpTo(reqSeq)) /\ Of(Append(jobs, j)) = Of(jobs) \cup {running}
        /\ Once(jobs) /\ {running} \cap Of(jobs) = {} => Once(Append(jobs, j))
    BY <2>1, AnswersFacts, JobAdded DEF JobsOK
  <2>3. running \notin Queued
    BY <1>2, <1>5, AnswersFacts
  <2>4. JobsOK' /\ Queued' = Queued \cup {running} /\ Once(jobs')
    <3>1. jobs' = Append(jobs, j)
      BY <1>5 DEF j
    <3> QED BY <1>0, <2>2, <2>3, <3>1, AnswersFacts DEF JobsOK, Queued
  <2>5. WaitsOK' /\ Hanging' = Hanging
    BY <1>5, AnswersFacts DEF WaitsOK, Hanging
  <2>6. Shape'
    BY <1>0, <1>1, <2>4, <2>5, AnswersFacts DEF Shape
  <2>7. OnePlace'
    BY <1>1, <1>2, <1>5, <2>4, <2>5, AnswersFacts DEF OnePlace
  <2>8. OnlyRead' /\ NativeKept'
    BY <1>0, <1>2, <1>5, <2>4, <2>5, AnswersFacts DEF OnlyRead, NativeKept
  <2> QED BY <1>3, <2>6, <2>7, <2>8 DEF AnswersOK, Places
<1>6. ASSUME running \in Commands, jobs' = jobs, NEW for \in Tags \X Nat,
             waits' = [waits EXCEPT ![running] = for]
      PROVE  AnswersOK'
  <2>1. JobsOK' /\ Queued' = Queued /\ Once(jobs')
    BY <1>0, <1>6, AnswersFacts DEF JobsOK, Queued
  <2>2. WaitsOK' /\ Hanging' \subseteq Hanging \cup {running}
    BY <1>6, AnswersFacts DEF WaitsOK, Hanging
  <2>3. Shape'
    BY <1>0, <1>1, <2>1, <2>2, AnswersFacts DEF Shape
  <2>4. OnePlace'
    BY <1>1, <1>2, <1>6, <2>1, <2>2, AnswersFacts DEF OnePlace
  <2>5. OnlyRead' /\ NativeKept'
    BY <1>0, <1>2, <1>6, <2>1, <2>2, AnswersFacts DEF OnlyRead, NativeKept
  <2> QED BY <1>3, <2>3, <2>4, <2>5 DEF AnswersOK, Places
<1>7. ASSUME NEW for \in {<<"request", r>> : r \in g_reqs} \cup
                         {<<"timer", t>> : t \in callbacks} \cup {<<"never", 0>>}
      PROVE  for \in Tags \X Nat
  <2>1. g_reqs \subseteq Nat
    BY HttpFacts
  <2>2. callbacks \subseteq Nat
    BY TimerFacts
  <2> QED BY <1>7, <2>1, <2>2 DEF Tags
<1>8. IF running = "callback" THEN jobs' = jobs /\ waits' = waits
      ELSE \/ jobs' = Append(jobs, Job("answer", running)) /\ waits' = waits
           \/ /\ jobs' = jobs
              /\ \E for \in Tags \X Nat : waits' = [waits EXCEPT ![running] = for]
  BY <1>7 DEF ScriptReturns
<1>9. running \in Commands \cup {"callback"}
  BY <1>0, AnswersFacts DEF RunningOK
<1> QED BY <1>4, <1>5, <1>6, <1>8, <1>9

\* The script is loaded: code runs for no command.
LEMMA AnswersLoaded ==
  ASSUME AnswersOK, ScriptLoaded PROVE AnswersOK'
<1>0. /\ pc = "load" /\ pc' \in {"top", "failed"} /\ running' = None
      /\ UNCHANGED <<jobs, waits, handled, threw, reqSeq, outFile, g_outbuf>>
  BY DEF ScriptLoaded, outVars, histVars, httpVars
<1>1. SaidOK' /\ Said' = Said
  BY <1>0, AnswersFacts DEF SaidOK, Said
<1>2. /\ Running' = {} /\ Running = {} /\ Queued' = Queued /\ Hanging' = Hanging
      /\ Answered' = Answered /\ Natives' = Natives
  BY <1>0, <1>1, AnswersFacts DEF Queued, Running, Hanging, Answered, Natives, RunningOK
<1>3. Shape'
  BY <1>0, <1>1, AnswersFacts DEF Shape, JobsOK, WaitsOK
<1>4. Ending'
  BY <1>0, AnswersFacts DEF Ending, NoJobLeft, AllWritten, RunningOK
<1>5. OnePlace' /\ OnlyRead' /\ NativeKept'
  BY <1>0, <1>1, <1>2, AnswersFacts DEF OnePlace, OnlyRead, NativeKept
<1> QED BY <1>3, <1>4, <1>5 DEF AnswersOK, Places

LEMMA AnswersInited ==
  ASSUME AnswersOK, ScriptInited PROVE AnswersOK'
<1>0. /\ running # None /\ UNCHANGED <<pc, jobs, running, waits, handled, threw, reqSeq>>
      /\ outFile' = outFile /\ g_outbuf' = Append(g_outbuf, "inited")
  BY DEF ScriptInited, scriptVars, histVars, httpVars
<1>1. SaidOK' /\ Answered' = Answered /\ SaidOnce(Said')
  <2>1. /\ "inited" \in Words /\ {"inited"} \cap Commands = {}
       /\ {"inited"} \cap Answered = {} /\ SaidOK /\ SaidOnce(Said)
    BY AnswersFacts DEF Words, Answered
  <2>2. SaidOK' /\ Answered' = Answered \cup ({"inited"} \cap Commands) /\ SaidOnce(Said')
    BY <1>0, <2>1, Spoken
  <2> QED BY <2>1, <2>2
<1>2. Queued' = Queued /\ Running' = Running /\ Hanging' = Hanging /\ Natives' = Natives
  BY <1>0 DEF Queued, Running, Hanging, Natives
<1>3. Shape'
  BY <1>0, <1>1, AnswersFacts DEF Shape, JobsOK, WaitsOK
<1>4. Ending'
  BY <1>0, AnswersFacts DEF Ending, NoJobLeft, AllWritten, RunningOK
<1>5. OnePlace' /\ OnlyRead' /\ NativeKept'
  BY <1>0, <1>1, <1>2, AnswersFacts DEF OnePlace, OnlyRead, NativeKept
<1> QED BY <1>3, <1>4, <1>5 DEF AnswersOK, Places

LEMMA AnswersClock ==
  ASSUME AnswersOK, LooksAtClock PROVE AnswersOK'
<1>0. /\ pc = "clock" /\ pc' \in {"end", "top"} /\ outFile' = outFile
      /\ UNCHANGED <<jobs, running, waits, handled, threw, reqSeq>>
      /\ g_outbuf' = g_outbuf \/ g_outbuf' = Append(g_outbuf, "initFailed")
  BY DEF LooksAtClock, scriptVars, histVars, httpVars
<1>1. SaidOK' /\ Answered' = Answered /\ SaidOnce(Said')
  <2>1. CASE g_outbuf' = g_outbuf
    BY <1>0, <2>1, AnswersFacts DEF SaidOK, Answered, Said
  <2>2. CASE g_outbuf' = Append(g_outbuf, "initFailed")
    <3>1. /\ "initFailed" \in Words /\ {"initFailed"} \cap Commands = {}
         /\ {"initFailed"} \cap Answered = {} /\ SaidOK /\ SaidOnce(Said)
      BY AnswersFacts DEF Words, Answered
    <3>2. SaidOK' /\ Answered' = Answered \cup ({"initFailed"} \cap Commands) /\ SaidOnce(Said')
      BY <1>0, <2>2, <3>1, Spoken
    <3> QED BY <3>1, <3>2
  <2> QED BY <1>0, <2>1, <2>2
<1>2. Queued' = Queued /\ Running' = Running /\ Hanging' = Hanging /\ Natives' = Natives
  BY <1>0 DEF Queued, Running, Hanging, Natives
<1>3. Shape'
  BY <1>0, <1>1, AnswersFacts DEF Shape, JobsOK, WaitsOK
<1>4. Ending'
  BY <1>0, AnswersFacts DEF Ending, NoJobLeft, AllWritten, RunningOK
<1>5. OnePlace' /\ OnlyRead' /\ NativeKept'
  BY <1>0, <1>1, <1>2, AnswersFacts DEF OnePlace, OnlyRead, NativeKept
<1> QED BY <1>3, <1>4, <1>5 DEF AnswersOK, Places

LEMMA AnswersEnd ==
  ASSUME AnswersOK, Ends PROVE AnswersOK'
<1>0. /\ pc = "end" /\ pc' = "exited" /\ outFile' = outFile \o g_outbuf /\ g_outbuf' = <<>>
      /\ UNCHANGED <<jobs, running, waits, handled, threw, reqSeq>>
  BY DEF Ends, scriptVars, histVars, httpVars
<1>1. SaidOK' /\ Said' = Said
  BY <1>0, AnswersFacts, Flushed
<1>2. Ending'
  BY <1>0, AnswersFacts DEF Ending, NoJobLeft, AllWritten, RunningOK
<1> QED BY <1>0, <1>1, <1>2, NobodyMoves

\* The inductive invariant.
Inv == TimersOK /\ HttpOK /\ CommandsKept /\ ClockOK /\ AnswersOK

\* A step keeps every command in its one place.
LEMMA NextAnswers == Inv /\ CommandsKept' /\ [Next]_vars => AnswersOK'
<1> SUFFICES ASSUME Inv, CommandsKept', [Next]_vars PROVE AnswersOK'
  OBVIOUS
<1>0. TimersOK /\ HttpOK /\ CommandsKept /\ AnswersOK
  BY DEF Inv
<1>1. CASE TurnBegins
  BY <1>0, <1>1, AnswersWait, AnswersRead DEF TurnBegins
<1>2. ASSUME NEW r \in multi, HttpDone(r) PROVE AnswersOK'
  <2>1. settled' = Append(settled, r) /\ r \in 1..reqSeq /\ reqSeq' = reqSeq
    BY <1>0, <1>2, HttpCompletes DEF HttpDone
  <2>2. jobs' = jobs \/ jobs' = Append(jobs, SettledJob(r))
    BY <1>2 DEF HttpDone
  <2>3. pc = "http" /\ UNCHANGED <<pc, running, waits, handled, threw, outFile, g_outbuf>>
    BY <1>2 DEF HttpDone, scriptVars, outVars, histVars
  <2>4. reqSeq \in Nat
    BY <1>0, HttpFacts
  <2> QED BY <1>0, <2>1, <2>2, <2>3, <2>4, AnswersSettled
<1>3. CASE ScriptRequests
  <2>1. /\ reqSeq \in Nat /\ reqSeq' \in {reqSeq, reqSeq + 1}
        /\ \/ settled' = settled
           \/ \E r \in 1..reqSeq' : settled' = Append(settled, r)
    BY <1>0, <1>3, ScriptRequested
  <2>2. /\ running # None /\ UNCHANGED <<pc, running, waits, handled, threw, outFile, g_outbuf>>
        /\ jobs' = IF settled' = settled THEN jobs ELSE Append(jobs, SettledJob(Last(settled')))
    BY <1>3 DEF ScriptRequests, outVars, histVars
  <2>3. pc \in {"load", "timers", "jobs"}
    BY <1>0, <2>2, AnswersFacts DEF RunningOK
  <2>4. \/ jobs' = jobs
        \/ \E r \in 1..reqSeq' : jobs' = Append(jobs, SettledJob(r))
    <3>1. ASSUME NEW r \in 1..reqSeq', settled' = Append(settled, r) PROVE Last(settled') = r
      <4>1. settled \in Seq(Nat) /\ r \in Nat
        BY <1>0, HttpFacts
      <4>2. Append(settled, r)[Len(Append(settled, r))] = r
        BY <4>1
      <4> QED BY <3>1, <4>2 DEF Last
    <3> QED BY <2>1, <2>2, <3>1
  <2>5. reqSeq' \in Nat
    BY <2>1
  <2> QED BY <1>0, <2>1, <2>2, <2>3, <2>4, <2>5, AnswersSettled
<1>4. CASE HttpPolled \/ TimersFired \/ JobsDone \/ HandleDownload
  <2>1. running = None
    BY <1>0, <1>4, AnswersFacts DEF HttpPolled, TimersFired, JobsDone, AllJobsDone, HandleDownload,
       NextJob, RunningOK
  <2>2. /\ UNCHANGED <<jobs, running, waits, handled, threw, reqSeq, outFile, g_outbuf>>
        /\ \/ pc' \in {"top", "http", "timers", "jobs"} \/ (pc' = "clock" /\ jobs = <<>>)
           \/ pc' = "download" /\ jobs # <<>> /\ Head(jobs).what = "handle"
    BY <1>4 DEF HttpPolled, TimersFired, JobsDone, AllJobsDone, HandleDownload, NextJob,
       scriptVars, outVars, histVars, httpVars
  <2> QED BY <1>0, <2>1, <2>2, PcMoves
<1>5. CASE TimersFire
  BY <1>0, <1>5, AnswersOfTimer
<1>6. CASE HandlePing \/ DownloadEnds
  <2>1. /\ jobs # <<>> /\ Head(jobs).what = "handle" /\ pc' = "jobs"
        /\ jobs' = Append(Tail(jobs), Job("answer", Head(jobs).of))
        /\ UNCHANGED <<running, waits, handled, threw, reqSeq, outFile, g_outbuf>>
    BY <1>0, <1>6, AnswersFacts DEF HandlePing, DownloadEnds, NextJob, RunningOK, scriptVars,
       outVars, histVars, httpVars
  <2> QED BY <1>0, <2>1, AnswersNative
<1>7. CASE HandleScript \/ Settled \/ Answer \/ JobThrows
  BY <1>0, <1>7, AnswersScript, AnswersSettle, AnswersSaid, AnswersThrown
<1>8. CASE ScriptReturns \/ ScriptInited \/ ScriptLoaded
  BY <1>0, <1>8, AnswersReturned, AnswersInited, AnswersLoaded
<1>9. CASE ScriptSetsTimer \/ ScriptClearsTimer \/ DownloadGoesOn
  <2>1. UNCHANGED <<pc, jobs, running, waits, handled, threw, reqSeq, outFile, g_outbuf>>
    BY <1>9 DEF ScriptSetsTimer, ScriptClearsTimer, DownloadGoesOn, loopVars, scriptVars, outVars,
       histVars, httpVars
  <2> QED BY <1>0, <2>1, NothingOfIt
<1>10. CASE LooksAtClock \/ Ends
  BY <1>0, <1>10, AnswersClock, AnswersEnd
<1>11. CASE Writers \/ UNCHANGED vars
  <2>1. UNCHANGED <<pc, jobs, running, waits, handled, threw, reqSeq, outFile, g_outbuf>>
    BY <1>11 DEF Writers, PageWrites, ComponentWrites, ComponentGivesUp, vars, loopVars,
       scriptVars, outVars, histVars, httpVars
  <2> QED BY <1>0, <2>1, NothingOfIt
<1> QED BY <1>1, <1>2, <1>3, <1>4, <1>5, <1>6, <1>7, <1>8, <1>9, <1>10, <1>11
        DEF Next, Loop, JobRuns, ScriptRuns

LEMMA InitAnswers == Init => AnswersOK
<1> SUFFICES ASSUME Init PROVE AnswersOK
  OBVIOUS
<1>1. /\ pc = "load" /\ jobs = <<>> /\ running = "callback"
      /\ waits = [c \in Commands |-> <<None, 0>>]
      /\ g_outbuf = <<>> /\ outFile = <<>> /\ handled = <<>> /\ reqSeq = 0
  BY DEF Init, HttpInit
<1>2. /\ <<>> \in Seq(Words) /\ <<>> \o <<>> = <<>> /\ DOMAIN <<>> = {}
      /\ <<>> \in Seq(JobsUpTo(0)) /\ <<None, 0>> \in Tags \X Nat
  BY DEF Tags, None
<1>3. Shape
  BY <1>1, <1>2 DEF Shape, JobsOK, SaidOK, WaitsOK
<1>4. Ending
  <2>1. "callback" \notin Commands
    BY LoopAssumption
  <2> QED BY <1>1, <2>1 DEF Ending, NoJobLeft, AllWritten, RunningOK
<1>5. /\ Queued = {} /\ Running = {} /\ Hanging = {} /\ Answered = {} /\ Natives = {}
  BY <1>1, <1>2, LoopAssumption DEF Queued, Of, Running, None, Hanging, Answered, Said, Range, Natives
<1>6. Once(jobs) /\ SaidOnce(Said)
  BY <1>1, <1>2 DEF Once, SaidOnce, Said
<1> QED BY <1>3, <1>4, <1>5, <1>6 DEF AnswersOK, Places, OnePlace, OnlyRead, NativeKept

\* What the parts say of the tables, the pipe, the clock and the answers holds
\* together at all times.
THEOREM Correct == Spec => []Inv
<1>1. Init => Inv
  BY InitTimers, InitRequests, InitCommands, InitClock, InitAnswers DEF Inv
<1>2. Inv /\ [Next]_vars => Inv'
  BY NextTimers, NextRequests, NextCommands, NextClock, NextAnswers DEF Inv
<1> QED BY <1>1, <1>2, PTL DEF Spec

\* A command is answered once at most, only when it was read, and what needs no
\* script's code has its answer in the file when the runner has ended.
THEOREM AnswersArrive == Spec => []AnswersReachTheFile
<1>1. Inv => AnswersReachTheFile
  <2> SUFFICES ASSUME AnswersOK PROVE AnswersReachTheFile
    BY DEF Inv
  <2>1. \A i, k \in DOMAIN Said : Said[i] = Said[k] /\ Said[i] \in Commands => i = k
    BY AnswersFacts DEF SaidOnce
  <2>2. Range(Said) \cap Commands \subseteq Range(handled)
    BY AnswersFacts DEF Answered
  <2>3. ASSUME pc = "exited", ~threw, NEW c \in Range(handled), What[c] \in {"ping", "download"}
        PROVE  c \in Range(outFile)
    <3>1. jobs = <<>> /\ g_outbuf = <<>>
      BY <2>3, AnswersFacts DEF NoJobLeft, AllWritten
    <3>2. Queued = {}
      BY <3>1 DEF Queued, Of
    <3>3. Said = outFile
      <4>1. outFile \o <<>> = outFile
        BY AnswersFacts DEF SaidOK
      <4> QED BY <3>1, <4>1 DEF Said
    <3>4. c \in Answered
      BY <2>3, <3>2, AnswersFacts DEF NativeKept, Natives
    <3> QED BY <3>3, <3>4 DEF Answered
  <2> QED BY <2>1, <2>2, <2>3 DEF AnswersReachTheFile
<1> QED BY <1>1, Correct, PTL

-----------------------------------------------------------------------------
(* The rest of the types.                                                  *)

FlagsOK ==
  /\ pc \in {"load", "failed", "top", "http", "timers", "jobs", "download", "clock", "end", "exited"}
  /\ g_quit \in BOOLEAN /\ g_inited \in BOOLEAN /\ threw \in BOOLEAN
  /\ silent \in BOOLEAN /\ blocked \in BOOLEAN
CountsOK == timersLeft \in Nat /\ requestsLeft \in Nat
CursorOK == cursor \in 1..(Slots + 1)
LostOK == lost \subseteq Commands

LEMMA NextFlags == FlagsOK /\ ClockOK' /\ [Next]_vars => FlagsOK'
<1> SUFFICES ASSUME FlagsOK, ClockOK', [Next]_vars PROVE FlagsOK'
  OBVIOUS
<1>1. CASE UNCHANGED <<pc, g_quit, g_inited, threw, silent, blocked>>
  BY <1>1 DEF FlagsOK
<1>2. CASE TurnBegins
  <2>1. /\ pc' = "http" /\ g_inited' = g_inited /\ threw' = threw
        /\ silent' = (quietFor' > IdleLimit) /\ blocked' = FALSE
    BY <1>2 DEF TurnBegins
  <2>2. g_quit' \in BOOLEAN
    BY <1>2 DEF TurnBegins, Waits, InputRead, FlagsOK
  <2>3. silent' \in BOOLEAN
    <3>1. quietFor' \in Int /\ IdleLimit \in Int
      BY LoopAssumption DEF ClockOK
    <3> QED BY <2>1, <3>1
  <2> QED BY <2>1, <2>2, <2>3 DEF FlagsOK
<1>3. CASE \/ HttpPolled \/ TimersFired \/ JobsDone \/ Ends \/ HandleDownload \/ DownloadEnds
         \/ ScriptLoaded
  <2>1. pc' \in {"top", "failed", "timers", "jobs", "download", "clock", "exited"} /\ UNCHANGED <<g_quit, g_inited, threw, silent, blocked>>
    BY <1>3 DEF HttpPolled, TimersFired, JobsDone, Ends, HandleDownload, DownloadEnds, ScriptLoaded,
       histVars
  <2> QED BY <2>1 DEF FlagsOK
<1>4. CASE JobThrows
  BY <1>4 DEF JobThrows, FlagsOK
<1>5. CASE ScriptInited
  BY <1>5 DEF ScriptInited, FlagsOK, histVars
<1>6. CASE LooksAtClock
  BY <1>6 DEF LooksAtClock, FlagsOK, histVars
<1>7. CASE DownloadGoesOn
  BY <1>7 DEF DownloadGoesOn, FlagsOK
<1>8. \/ UNCHANGED <<pc, g_quit, g_inited, threw, silent, blocked>> \/ TurnBegins \/ HttpPolled
      \/ TimersFired \/ JobsDone \/ Ends \/ HandleDownload \/ DownloadEnds \/ ScriptLoaded
      \/ JobThrows \/ ScriptInited \/ LooksAtClock \/ DownloadGoesOn
  BY DEF Next, Loop, Writers, JobRuns, ScriptRuns, HttpDone, TimersFire, HandlePing,
     HandleScript, HandleDownload, DownloadGoesOn, DownloadEnds, Settled, Answer, ScriptSetsTimer, ScriptClearsTimer,
     ScriptRequests, ScriptLoaded, ScriptReturns, ComponentGivesUp, PageWrites, ComponentWrites, vars,
     loopVars, histVars
<1> QED BY <1>1, <1>2, <1>3, <1>4, <1>5, <1>6, <1>7, <1>8

LEMMA NextCounts == CountsOK /\ [Next]_vars => CountsOK'
<1> SUFFICES ASSUME CountsOK, [Next]_vars PROVE CountsOK'
  OBVIOUS
<1>1. CASE UNCHANGED callsLeft
  BY <1>1 DEF CountsOK, callsLeft
<1>2. CASE ScriptSetsTimer \/ ScriptRequests
  BY <1>2 DEF ScriptSetsTimer, ScriptRequests, CountsOK
<1>3. UNCHANGED callsLeft \/ ScriptSetsTimer \/ ScriptRequests
  BY DEF Next, Loop, Writers, JobRuns, ScriptRuns, HttpPolled, HttpDone, TurnBegins,
     TimersFire, TimersFired, HandlePing, HandleScript, HandleDownload,
     DownloadGoesOn, DownloadEnds, Settled, Answer,
     JobThrows, JobsDone, ScriptClearsTimer, ScriptInited, ScriptLoaded, ScriptReturns, LooksAtClock, Ends,
     ComponentGivesUp, PageWrites, ComponentWrites, vars, scriptVars
<1> QED BY <1>1, <1>2, <1>3

LEMMA NextCursor == TimersOK /\ CursorOK /\ [Next]_vars => CursorOK'
<1> SUFFICES ASSUME TimersOK, CursorOK, [Next]_vars PROVE CursorOK'
  OBVIOUS
<1>0. Slots \in Nat \ {0}
  BY TimerAssumption
<1>1. CASE UNCHANGED cursor
  BY <1>1 DEF CursorOK
<1>2. CASE HttpPolled
  BY <1>0, <1>2 DEF HttpPolled, CursorOK
<1>3. CASE TimersFire
  <2> DEFINE i == CHOOSE i \in DueFrom(cursor) : \A k \in DueFrom(cursor) : i <= k
  <2>1. i \in DOMAIN g_timers
    BY <1>3, LeastDue DEF TimersFire
  <2>2. cursor' = i + 1
    BY <1>3 DEF TimersFire
  <2> HIDE DEF i
  <2>3. i \in 1..Slots
    BY <2>1, TimerFacts
  <2> QED BY <1>0, <2>2, <2>3 DEF CursorOK
<1>4. UNCHANGED cursor \/ HttpPolled \/ TimersFire
  BY DEF Next, Loop, Writers, JobRuns, ScriptRuns, HttpDone, TurnBegins, TimersFired,
     HandlePing, HandleScript, HandleDownload,
     DownloadGoesOn, DownloadEnds, Settled, Answer, JobThrows, JobsDone,
     ScriptSetsTimer, ScriptClearsTimer, ScriptRequests, ScriptInited, ScriptLoaded, ScriptReturns,
     LooksAtClock, Ends, ComponentGivesUp, PageWrites, ComponentWrites, vars, loopVars
<1> QED BY <1>1, <1>2, <1>3, <1>4

LEMMA NextLost == AnswersOK /\ LostOK /\ [Next]_vars => LostOK'
<1> SUFFICES ASSUME AnswersOK, LostOK, [Next]_vars PROVE LostOK'
  OBVIOUS
<1>1. CASE UNCHANGED lost
  BY <1>1 DEF LostOK
<1>2. CASE JobThrows
  <2>1. Head(jobs) \in JobsUpTo(reqSeq) /\ jobs # <<>>
    BY <1>2, HeadTaken DEF JobThrows
  <2>2. (IF Head(jobs).what = "settled" THEN Waiting(<<"request", Head(jobs).id>>)
         ELSE {Head(jobs).of}) \subseteq Commands
    BY <2>1 DEF JobsUpTo, Waiting
  <2> QED BY <1>2, <2>2 DEF JobThrows, LostOK
<1>3. UNCHANGED lost \/ JobThrows
  BY DEF Next, Loop, Writers, JobRuns, ScriptRuns, HttpPolled, HttpDone, TurnBegins,
     TimersFire, TimersFired, HandlePing, HandleScript, HandleDownload,
     DownloadGoesOn, DownloadEnds, Settled, Answer,
     JobsDone, ScriptSetsTimer, ScriptClearsTimer, ScriptRequests, ScriptInited,
     ScriptLoaded, ScriptReturns, LooksAtClock, Ends, ComponentGivesUp, PageWrites, ComponentWrites, vars,
     histVars
<1> QED BY <1>1, <1>2, <1>3

\* Every variable has its type.
THEOREM TypeCorrect == Spec => []TypeOK
<1> DEFINE Types == Inv /\ FlagsOK /\ CountsOK /\ CursorOK /\ LostOK
<1>1. Init => Types
  <2>1. Init => FlagsOK /\ CursorOK /\ LostOK
    <3>1. Init => FlagsOK
      BY DEF Init, FlagsOK
    <3>2. Init => CursorOK
      <4>1. Init => cursor = 1
        BY DEF Init
      <4> QED BY <4>1, TimerAssumption DEF CursorOK
    <3>3. Init => LostOK
      BY DEF Init, LostOK
    <3> QED BY <3>1, <3>2, <3>3
  <2>2. Init => CountsOK
    <3>1. \A load \in Loads : load.timers \in Nat /\ load.requests \in Nat
      BY LoopAssumption
    <3> QED BY <3>1 DEF Init, CountsOK
  <2>3. Init => Inv
    BY InitTimers, InitRequests, InitCommands, InitClock, InitAnswers DEF Inv
  <2> QED BY <2>1, <2>2, <2>3
<1>2. Types /\ [Next]_vars => Types'
  <2>1. Inv /\ [Next]_vars => Inv'
    BY NextTimers, NextRequests, NextCommands, NextClock, NextAnswers DEF Inv
  <2> QED BY <2>1, NextFlags, NextCounts, NextCursor, NextLost DEF Inv
<1>3. Types => TypeOK
  <2> SUFFICES ASSUME Types PROVE TypeOK
    OBVIOUS
  <2>0. TimersOK /\ HttpOK /\ CommandsKept /\ ClockOK /\ AnswersOK
    BY DEF Inv
  <2>1. fifo \in Seq(Tokens) /\ Len(fifo) <= Capacity /\ g_inbuf \in Seq(Tokens)
    BY <2>0 DEF CommandsKept, PipeOK
  <2>2. /\ todo \subseteq Commands /\ writing \in Commands \cup {None} /\ attempts \in 0..Attempts
        /\ (writing # None <=> attempts > 0) /\ (attempts > 0 => writing \in todo)
    BY <2>0 DEF CommandsKept, WritersOK
  <2>3. /\ {g_quit, g_inited, threw, silent, blocked} \subseteq BOOLEAN
        /\ pc \in {"load", "failed", "top", "http", "timers", "jobs", "download", "clock", "end",
                  "exited"}
    BY DEF FlagsOK
  <2>4. cursor \in 1..(Slots + 1) /\ {since, quietFor} \subseteq -1..(IdleLimit + 1)
    <3>1. IdleLimit \in Nat
      BY LoopAssumption
    <3> QED BY <2>0, <3>1 DEF CursorOK, ClockOK
  <2>5. \A k \in DOMAIN jobs :
          IF jobs[k].what = "settled" THEN jobs[k].id \in 1..reqSeq
          ELSE jobs[k].what \in {"handle", "answer"} /\ jobs[k].of \in Commands
    <3> TAKE k \in DOMAIN jobs
    <3>1. jobs[k] \in JobsUpTo(reqSeq)
      <4>1. jobs \in Seq(JobsUpTo(reqSeq))
        BY <2>0, AnswersFacts DEF JobsOK
      <4> QED BY <4>1
    <3> QED BY <3>1 DEF JobsUpTo
  <2>6. /\ running \in Commands \cup {None, "callback"} /\ (running # None => pc \in {"load", "timers", "jobs"})
        /\ waits \in [Commands -> Tags \X Nat]
    BY <2>0, AnswersFacts DEF RunningOK, WaitsOK
  <2>7. {timersLeft, requestsLeft} \subseteq Nat /\ lost \subseteq Commands
    BY DEF CountsOK, LostOK
  <2>8. torn \in Nat /\ {sent, handled} \subseteq Seq(Commands)
    BY <2>0 DEF CommandsKept, SentOK, ClockOK
  <2>9. Said \in Seq(Commands \cup {"inited", "initFailed"})
    <3>1. outFile \in Seq(Words) /\ g_outbuf \in Seq(Words)
      BY <2>0, AnswersFacts DEF SaidOK
    <3>2. outFile \o g_outbuf \in Seq(Words)
      BY <3>1
    <3> QED BY <3>2 DEF Said, Words
  <2>10. TimerTypeOK /\ HttpTypeOK
    BY <2>0 DEF TimersOK, HttpOK
  <2> QED BY <2>1, <2>2, <2>3, <2>4, <2>5, <2>6, <2>7, <2>8, <2>9, <2>10 DEF TypeOK
<1> HIDE DEF Types
<1> QED BY <1>1, <1>2, <1>3, PTL DEF Spec
=============================================================================
