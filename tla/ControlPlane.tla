---------------------------- MODULE ControlPlane ----------------------------
(***************************************************************************)
(* The commands of the control port, from the command line that sends them *)
(* (model/src/main.rs) to the registers they reach (Controller::command).  *)
(*                                                                         *)
(* Every request has a connection of its own.  The board serves one        *)
(* connection after the other and makes one register access at a time, at  *)
(* its own pace; the command line waits five seconds for an answer and     *)
(* then ends, which recalls nothing.  A request is a sequence: the command *)
(* byte and its fields.                                                    *)
(***************************************************************************)
EXTENDS CoreSight, SequencesExt

CONSTANTS
  Images,     \* the files load-m3 is run on: sequences of words
  BramSize, ChunkSize, CheckSize, \* M3_BRAM_SIZE, M3_BRAM_CHUNK, 16 bytes; in words
  Counters,   \* the 64-bit counters, in the order of the answer
  WordEnd,    \* 2 ^ 32
  CounterEnd, \* bound: counters stop here
  MaxStale    \* bound: requests nobody waits for any more

ASSUME ControlAssumption ==
  /\ Images \subseteq Seq(Nat) /\ Counters \in Seq(STRING)
  /\ BramSize \in Nat /\ ChunkSize \in Nat \ {0} /\ CheckSize \in Nat \ {0}
  /\ WordEnd \in Nat \ {0} /\ CounterEnd \in Nat /\ MaxStale \in Nat

VARIABLES
  habit,    \* which programs this user runs
  cli,      \* the command line at work: requests left, image, waiting
  pending,  \* requests the board has received and not begun
  serving,  \* the request being executed, or Nothing
  pl,       \* the registers of orbtrace_axi_regs that are written
  bram, counter,
  releasedFor, \* the image load-m3 released the M3 for, else <<>> (an observation)
  report       \* the statistics just printed, with the counters around (an observation)

controlVars == <<habit, cli, pending, serving, pl, bram, counter, releasedFor, report, coresight>>

Nothing == [live |-> FALSE]   \* its other fields are those of a request
Idle == [left |-> <<>>, image |-> <<>>, waiting |-> FALSE]

-----------------------------------------------------------------------------
\* The requests (Command::encode).
GetInfo == <<1>>
Configure(source, format, swo_baud) == <<2, source, format, swo_baud>>
GetStats == <<6>>
LoadM3Chunk(offset, data) == <<7, offset>> \o data
ReadM3Bram(offset, length) == <<8, offset, length>>
M3Control(bits) == <<9, bits>>

\* Mutant: the M3 is not held while it is loaded.
LoadWithoutHold(image) ==
  LET chunks == (Len(image) + ChunkSize - 1) \div ChunkSize
      check == IF Len(image) < CheckSize THEN Len(image) ELSE CheckSize
  IN [i \in 1 .. chunks |->
        LoadM3Chunk((i - 1) * ChunkSize, SubSeq(image, (i - 1) * ChunkSize + 1,
            IF i = chunks THEN Len(image) ELSE i * ChunkSize))]
     \o <<ReadM3Bram(0, check), M3Control(1)>>

\* Hold the core, write the image, read its first words back, release the core.
load_m3(image) ==
  LET chunks == (Len(image) + ChunkSize - 1) \div ChunkSize
      check == IF Len(image) < CheckSize THEN Len(image) ELSE CheckSize
  IN <<M3Control(0)>>
     \o [i \in 1 .. chunks |->
           LoadM3Chunk((i - 1) * ChunkSize, SubSeq(image, (i - 1) * ChunkSize + 1,
               IF i = chunks THEN Len(image) ELSE i * ChunkSize))]
     \o <<ReadM3Bram(0, check), M3Control(1)>>

Plan(requests, image) == [left |-> requests, image |-> image, waiting |-> FALSE]

\* The programs, in three habits that have no state in common but the queue;
\* the last one is another client's, with requests the board refuses.
\* A Configure of source 3, the test pattern, is like one of source 0.
Programs ==
  [load |-> {Plan(load_m3(i), i) : i \in {j \in Images : Len(j) \in 2 .. BramSize}}
              \cup {Plan(<<M3Control(b)>>, <<>>) : b \in {0, 1, 3}},
   configure |-> {Plan(<<Configure(s, 2, 1)>>, <<>>) : s \in 0 .. 2}
                   \cup {Plan(<< <<c>> >>, <<>>) : c \in 3 .. 5},
   observe |-> {Plan(<<r>>, <<>>) : r \in {GetInfo, GetStats, <<2, 1>>, <<7, BramSize, 0>>,
                                           ReadM3Bram(1, BramSize), <<10>>}}]

-----------------------------------------------------------------------------
\* Controller::command: what it refuses, and the accesses it makes.
Refused(r) ==
  CASE r[1] \in {1, 3, 4, 5, 6} -> FALSE
    [] r[1] = 2 -> Len(r) # 4
    [] r[1] = 7 -> Len(r) < 2 \/ r[2] + Len(r) - 2 > BramSize
    [] r[1] = 8 -> Len(r) # 3 \/ r[2] + r[3] > BramSize
    [] r[1] = 9 -> Len(r) # 2
    [] OTHER -> TRUE

\* Mutant: the high halves are read before the low ones.
HighFirst(i) == W("counter", Counters[(i + 1) \div 2], IF i % 2 = 0 THEN "LO" ELSE "HI")

CounterHalf(i) == W("counter", Counters[(i + 1) \div 2], IF i % 2 = 1 THEN "LO" ELSE "HI")

CoreSightOf(source) ==
  CASE source = 1 -> select("r5") \o enable_trace("r5")
    [] source = 2 -> select("a53") \o enable_trace("a53")
    [] OTHER -> <<>>

Accesses(r) ==
  CASE r[1] = 2 -> CoreSightOf(r[2]) \o
                     <<W("pl", "SOURCE_FORMAT", <<r[2], r[3]>>), W("pl", "SWO_BAUD", r[4])>>
    [] r[1] \in 3 .. 5 -> <<W("pl", "CONTROL", r[1])>>
    [] r[1] = 6 -> [i \in 1 .. 2 * Len(Counters) |-> CounterHalf(i)]
    [] r[1] = 7 -> [i \in 1 .. Len(r) - 2 |-> W("bram", r[2] + i, r[i + 2])]
    [] r[1] = 8 -> [i \in 1 .. r[3] |-> W("read", r[2] + i, 0)]
    [] r[1] = 9 -> <<W("pl", "M3_CONTROL", r[2])>>
    [] OTHER -> <<>>

-----------------------------------------------------------------------------
ControlInit ==
  /\ CoreSightInit
  /\ habit \in DOMAIN Programs
  /\ cli = Idle /\ pending = <<>> /\ serving = Nothing
  /\ pl = [source |-> 0, format |-> 0, baud |-> 0, running |-> FALSE, m3 |-> 0]
  /\ bram = [i \in 1 .. BramSize |-> 0] /\ counter = [c \in Range(Counters) |-> 0]
  /\ releasedFor = <<>> /\ report = Nothing

boardVars == <<serving, pl, bram, counter, releasedFor, coresight>>

\* The user starts a program.
Run ==
  /\ cli = Idle
  /\ cli' \in Programs[habit]
  /\ report' = Nothing
  /\ UNCHANGED <<habit, pending, boardVars>>

\* transact: a new connection, the request, and up to five seconds of waiting.
Send ==
  /\ cli.left # <<>> /\ ~cli.waiting
  /\ cli' = [cli EXCEPT !.waiting = TRUE]
  /\ pending' = Append(pending, [live |-> TRUE, request |-> Head(cli.left), image |-> cli.image])
  /\ UNCHANGED <<habit, report, boardVars>>

\* No answer in time: the program ends with an error, and its request may be
\* executed later, or later than that.
GiveUp ==
  /\ cli.waiting /\ Len(pending) <= MaxStale
  /\ cli' = Idle
  /\ pending' = [i \in DOMAIN pending |-> [pending[i] EXCEPT !.live = FALSE]]
  /\ serving' = [serving EXCEPT !.live = FALSE]
  /\ UNCHANGED <<habit, report, pl, bram, counter, releasedFor, coresight>>

\* The request of a connection that was given up never reaches the board.
LoseAnswer ==
  \E i \in DOMAIN pending :
    /\ ~pending[i].live
    /\ pending' = RemoveAt(pending, i)
    /\ UNCHANGED <<habit, cli, report, boardVars>>

\* The next request; one that is refused gets no answer.
Serve ==
  /\ serving = Nothing /\ pending # <<>>
  /\ pending' = Tail(pending)
  /\ LET e == Head(pending) IN
     serving' = IF Refused(e.request) THEN Nothing
                ELSE [live |-> e.live, request |-> e.request, image |-> e.image,
                      todo |-> Accesses(e.request), answer |-> <<>>, before |-> counter]
  /\ UNCHANGED <<habit, cli, report, pl, bram, counter, releasedFor, coresight>>

PlTakes(a) ==
  /\ pl' = CASE a.register = "SOURCE_FORMAT" ->
                  [pl EXCEPT !.source = a.value[1], !.format = a.value[2]]
             [] a.register = "SWO_BAUD" -> [pl EXCEPT !.baud = a.value]
             [] a.register = "CONTROL" -> [pl EXCEPT !.running = a.value = 3]
             [] a.register = "M3_CONTROL" -> [pl EXCEPT !.m3 = a.value]
  /\ releasedFor' = IF a.register # "M3_CONTROL" THEN releasedFor
                    ELSE IF a.value % 2 = 1 THEN serving.image ELSE <<>>

ReadOut(a) ==
  CASE a.to = "counter" -> <<IF a.value = "LO" THEN counter[a.register] % WordEnd
                                               ELSE counter[a.register] \div WordEnd>>
    [] a.to = "read" -> <<bram[a.register]>>
    [] OTHER -> <<>>

\* One access of the request being served.
Access ==
  /\ serving # Nothing /\ serving.todo # <<>>
  /\ LET a == Head(serving.todo) IN
     /\ serving' = [serving EXCEPT !.todo = Tail(@), !.answer = @ \o ReadOut(a)]
     /\ IF a.to = "pl" THEN PlTakes(a) ELSE UNCHANGED <<pl, releasedFor>>
     /\ bram' = IF a.to = "bram" THEN [bram EXCEPT ![a.register] = a.value] ELSE bram
     /\ IF a.to \in {"pl", "bram", "counter", "read"} THEN UNCHANGED coresight
                                                       ELSE CoreSightTakes(a)
  /\ UNCHANGED <<habit, cli, pending, counter, report>>

\* stats_from_le: the words of an answer, two to a counter.
Stats(answer) ==
  [i \in 1 .. Len(Counters) |-> answer[2 * i - 1] + WordEnd * answer[2 * i]]

\* The program gets its answer; load-m3 compares what it reads back.
Answered ==
  LET r == Head(cli.left)
      mismatch == r[1] = 8 /\ serving.answer # SubSeq(cli.image, 1, r[3]) IN
  /\ cli' = IF mismatch \/ Len(cli.left) = 1 THEN Idle
            ELSE [cli EXCEPT !.left = Tail(@), !.waiting = FALSE]
  /\ report' = IF r[1] = 6
                 THEN [live |-> TRUE, value |-> Stats(serving.answer),
                       before |-> serving.before, after |-> counter]
                 ELSE report

Reply ==
  /\ serving # Nothing /\ serving.todo = <<>>
  /\ serving' = Nothing
  /\ IF serving.live THEN Answered ELSE UNCHANGED <<cli, report>>
  /\ UNCHANGED <<habit, pending, pl, bram, counter, releasedFor, coresight>>

\* Trace comes in.  The counters matter while they are read only.
Count(c) ==
  /\ serving # Nothing /\ serving.request = GetStats
  /\ counter[c] < CounterEnd
  /\ counter' = [counter EXCEPT ![c] = @ + 1]
  /\ UNCHANGED <<habit, cli, pending, serving, pl, bram, releasedFor, report, coresight>>

ControlNext ==
  Run \/ Send \/ GiveUp \/ LoseAnswer \/ Serve \/ Access \/ Reply \/ \E c \in DOMAIN counter : Count(c)

ControlSpec == ControlInit /\ [][ControlNext]_controlVars

-----------------------------------------------------------------------------
\* The M3 runs what load-m3 was given, all of it, whatever programs timed out
\* before and left their requests behind: the core is held before the first
\* word changes and released after the last one (main.rs:239-298).
ReleasedImageIsWhole == IsPrefix(releasedFor, bram)

\* The statistics that are printed are never below the truth, and above it only
\* if a counter carried into its high word while the two words were read, low
\* word first (lib.rs:282-291); then by less than one high word.
StatsNearTheTruth ==
  report # Nothing =>
    \A i \in DOMAIN report.value :
      LET v == report.value[i]
          before == report.before[Counters[i]]
          after == report.after[Counters[i]] IN
      /\ before <= v
      /\ \/ v <= after
         \/ before \div WordEnd # after \div WordEnd /\ v < after + WordEnd

\* Once a Configure for the R5 or the A53 is done, its trace unit is on with its
\* own trace ID and every register programmed, the funnels pass on no other, and
\* the formatter emits frames (lib.rs:243-257, 1037-1051), from whatever source
\* the board was switched.
CoreSightFollowsSource ==
  serving = Nothing /\ pl.source \in {1, 2} =>
    Delivers(IF pl.source = 1 THEN "r5" ELSE "a53")
=============================================================================
