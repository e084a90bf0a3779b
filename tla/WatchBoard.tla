----------------------------- MODULE WatchBoard -----------------------------
(***************************************************************************)
(* zub_ctl: boot a core of the board with a tool (OpenOCD, xsct) while a   *)
(* thread reads the serial line and judges what the board prints.          *)
(*                                                                         *)
(* The line carries bytes: those of Text and NewLine are characters, Lead  *)
(* and Trail together are the character Double, and each of them alone is    *)
(* malformed and shown as Lost (U+FFFD).  A pattern is a character that a  *)
(* line contains or not.  The tools, the time and the board are external.  *)
(* What the tools print is left out, and so is the request to stop, which  *)
(* nobody makes.                                                           *)
(***************************************************************************)
EXTENDS Integers, Sequences, Functions

CONSTANTS
  Text, NewLine,      \* bytes that are characters
  Lead, Trail,        \* the two bytes of a character
  Double, Lost,         \* that character, and what is shown for a malformed byte
  Expects,   \* lists of patterns the user may expect
  FailOn,    \* the patterns that mean a failure
  Timeout,   \* in ticks
  MaxText    \* bound: bytes the board prints

ASSUME WatchAssumption ==
  /\ NewLine \notin Text /\ {Double, Lost} \cap (Text \cup {NewLine}) = {} /\ Double # Lost
  /\ {Lead, Trail} \cap (Text \cup {NewLine, Double, Lost}) = {} /\ Lead # Trail
  /\ Expects \subseteq Seq(Text \cup {Double}) /\ FailOn \subseteq Text \cup {Double}
  /\ Timeout \in Nat /\ MaxText \in Nat

VARIABLES
  job,     \* what the user asked for, and where
  main,    \* where the main thread is
  thread,  \* the serial thread: "none", "check", "read" or how it ended
  line_buf, remaining, elapsed,
  tool,    \* the tool: "none", "running", "ok", "bad" or "killed"
  tmp,     \* the script for xsct is on the disk
  rc,      \* the exit code
  heard,   \* all that was read (an observation)
  torn     \* where in it a read ended between Lead and Trail (an observation)

watchVars == <<job, main, thread, line_buf, remaining, elapsed, tool, tmp, rc, heard, torn>>

Byte == Text \cup {NewLine, Lead, Trail}

Running == -1
\* What can be wrong with the arguments or the machine.  The blobs are the
\* bitstream and psu_init.tcl, the ELF is the program for the core, and the disk
\* is where the script for xsct goes.
Lacks == {"nothing", "valid regex", "tty", "permission", "openocd", "xsct", "blobs", "elf",
          "disk"}
Program == {"serial-watch", "watch-r5", "watch-a53"}

\* The requests: psu is watch-r5 with --pre-xsct; one thing at a time is missing.
Jobs ==
  [program : Program, expect : Expects, print_only : BOOLEAN, psu : {FALSE}, lacks : {"nothing"}]
  \cup [program : Program, expect : {<<>>}, print_only : {FALSE}, psu : BOOLEAN, lacks : Lacks]
NoJob == [program |-> "none"]

\* Mutant: the permissions are not tried.
DoctorTrusting(env) == env.lacks \notin {"tty", "openocd", "xsct", "blobs"}

\* run_doctor, asked for everything it can check: the device, its permissions,
\* the tools, and the files of the manifest with their hashes.
run_doctor(env) == env.lacks \notin {"tty", "permission", "openocd", "xsct", "blobs"}

-----------------------------------------------------------------------------
WatchInit ==
  /\ job = NoJob /\ main = "off" /\ thread = "none" /\ tool = "none" /\ tmp = FALSE
  /\ line_buf = <<>> /\ remaining = <<>> /\ elapsed = 0 /\ rc = Running /\ heard = <<>>
  /\ torn = {}

lineVars == <<line_buf, elapsed, heard, torn>>

Exit(code) == main' = "off" /\ rc' = code
GoOn(to) == main' = to /\ UNCHANGED rc

\* The program begins: watch-a53 looks its files up first, and watch-r5 may run
\* xsct before anything else.
Start ==
  /\ job = NoJob
  /\ job' \in Jobs
  /\ CASE job'.program = "watch-r5" /\ job'.psu -> GoOn("psu")
       [] job'.program = "watch-a53" /\ job'.lacks \in {"blobs", "elf"} -> Exit(2)
       [] OTHER -> GoOn("spawn watch")
  /\ UNCHANGED <<thread, remaining, tool, tmp, lineVars>>

\* psu_init by xsct, to its end.
PsuInit ==
  /\ main = "psu" /\ tool # "running"
  /\ CASE tool = "none" /\ job.lacks \notin {"blobs", "xsct"} -> tool' = "running" /\ GoOn("psu")
       [] tool = "none" /\ job.lacks \in {"blobs", "xsct"} -> Exit(2) /\ UNCHANGED tool
       [] tool = "ok" -> tool' = "none" /\ GoOn("spawn watch")
       [] tool = "bad" -> Exit(1) /\ UNCHANGED tool
  /\ UNCHANGED <<job, thread, remaining, tmp, lineVars>>

spawn_serial_watch ==
  /\ main = "spawn watch"
  /\ IF job.lacks \notin {"valid regex", "tty", "permission"}
       THEN /\ thread' = "check" /\ remaining' = job.expect
            /\ GoOn(IF job.program = "serial-watch" THEN "join" ELSE "launch")
       ELSE Exit(2) /\ UNCHANGED <<thread, remaining>>
  /\ UNCHANGED <<job, tool, tmp, lineVars>>

NoScript == job.program = "watch-a53" /\ job.lacks = "disk"

\* The script for xsct cannot be written, or not to its end: TempFileGuard is
\* made after that, and what was written of it stays.
ScriptFails ==
  /\ main = "launch" /\ NoScript
  /\ Exit(2) /\ tmp' \in BOOLEAN
  /\ UNCHANGED <<job, thread, remaining, tool, lineVars>>

\* OpenOCD runs beside the main thread, xsct with a script of its own is waited
\* for.
Launch ==
  /\ main = "launch" /\ ~NoScript
  /\ LET there == IF job.program = "watch-a53" THEN job.lacks # "xsct"
                                               ELSE job.lacks \notin {"openocd", "elf"} IN
     /\ tool' = IF there THEN "running" ELSE tool
     /\ IF ~there THEN Exit(2)
        ELSE GoOn(IF job.program = "watch-a53" THEN "wait tool" ELSE "join")
     /\ tmp' = (job.program = "watch-a53" /\ there)
  /\ UNCHANGED <<job, thread, remaining, lineVars>>

WaitTool ==
  /\ main = "wait tool" /\ tool # "running"
  /\ GoOn("join")
  /\ UNCHANGED <<job, thread, remaining, tool, tmp, lineVars>>

\* Mutant: a tool that still runs is left alone.
ReapedNever(t) == t

\* Of OpenOCD, killed if it is still running.
Reaped(t) == IF t = "running" /\ job.program = "watch-r5" THEN "killed" ELSE t

\* The verdict of the thread, and then the tool's status.  An error of the port
\* ends the program at once.
Join ==
  /\ main = "join" /\ thread \in {"passed", "failed", "error"}
  /\ tool' = IF thread = "error" THEN tool ELSE Reaped(tool)
  /\ Exit(IF thread = "error" THEN 2
          ELSE IF thread = "passed" /\ tool # "bad" THEN 0 ELSE 1)
  /\ tmp' = FALSE
  /\ UNCHANGED <<job, thread, remaining, lineVars>>

-----------------------------------------------------------------------------
\* The character that each of the bytes is part of.  Lead and Trail next to each
\* other are Double, unless they were cut apart there; else each of them is Lost.
Together(bytes, k) == k \in 1 .. Len(bytes) - 1 /\ bytes[k] = Lead /\ bytes[k + 1] = Trail
Shown(bytes, cuts) ==
  [k \in 1 .. Len(bytes) |->
     IF bytes[k] \notin {Lead, Trail} THEN bytes[k]
     ELSE IF \E i \in {k - 1, k} : Together(bytes, i) /\ i \notin cuts THEN Double ELSE Lost]

\* String::from_utf8_lossy, of one read at a time: nothing is kept for the next.
from_utf8_lossy(bytes) == Shown(bytes, {})

\* One more character: a newline completes a line, an empty line is dropped.
Broken(r, character) ==
  IF character # NewLine THEN [r EXCEPT !.rest = Append(r.rest, character)]
  ELSE [lines |-> IF r.rest = <<>> THEN r.lines ELSE Append(r.lines, r.rest), rest |-> <<>>]

\* The lines that the characters complete, and what is left in the buffer.
SplitLines(buf, text) ==
  LET split[k \in 0 .. Len(text)] ==
        IF k = 0 THEN [lines |-> <<>>, rest |-> buf] ELSE Broken(split[k - 1], text[k])
  IN split[Len(text)]

push_bytes_to_lines(buf, bytes) == SplitLines(buf, from_utf8_lossy(bytes))

\* match_line: the failures first, and then the next pattern only.
match_line(s, line) ==
  IF s.verdict # "check" THEN s
  ELSE IF FailOn \cap Range(line) # {} THEN [left |-> s.left, verdict |-> "failed"]
  ELSE IF s.left = <<>> \/ s.left[1] \notin Range(line) THEN s
  ELSE [left |-> Tail(s.left), verdict |-> IF Len(s.left) = 1 THEN "passed" ELSE "check"]

\* The lines of one read, up to a verdict.
MatchLines(left, lines) ==
  LET after[k \in 0 .. Len(lines)] ==
        IF k = 0 THEN [left |-> left, verdict |-> "check"] ELSE match_line(after[k - 1], lines[k])
  IN after[Len(lines)]

watchThreadOnly == <<job, main, tool, tmp, rc>>

\* The top of the loop.
CheckTime ==
  /\ thread = "check"
  /\ thread' = IF elapsed < Timeout THEN "read"
               ELSE IF job.print_only \/ remaining = <<>> THEN "passed" ELSE "failed"
  /\ UNCHANGED <<watchThreadOnly, remaining, lineVars>>

Receive(bytes) ==
  /\ thread = "read" /\ Len(heard) + Len(bytes) <= MaxText
  /\ LET r == push_bytes_to_lines(line_buf, bytes)
         s == IF job.print_only THEN [left |-> remaining, verdict |-> "check"]
              ELSE MatchLines(remaining, r.lines)
     IN line_buf' = r.rest /\ remaining' = s.left /\ thread' = s.verdict
  /\ heard' = heard \o bytes
  /\ torn' = IF heard # <<>> /\ heard[Len(heard)] = Lead /\ bytes[1] = Trail
               THEN torn \cup {Len(heard)} ELSE torn
  /\ UNCHANGED <<watchThreadOnly, elapsed>>

\* Nothing came for 200 ms, or the port is gone.
ReadFails(outcome) ==
  /\ thread = "read"
  /\ thread' = outcome
  /\ UNCHANGED <<watchThreadOnly, remaining, lineVars>>

-----------------------------------------------------------------------------
Tick ==
  /\ thread \in {"check", "read"} /\ elapsed < Timeout
  /\ elapsed' = elapsed + 1
  /\ UNCHANGED <<watchThreadOnly, thread, line_buf, remaining, heard, torn>>

\* A tool ends, well or not.
ToolEnds(status) ==
  /\ tool = "running" /\ main # "off"
  /\ tool' = status
  /\ UNCHANGED <<job, main, thread, remaining, tmp, rc, lineVars>>

Alive == main # "off"

WatchNext ==
  \/ Start
  \/ /\ Alive
     /\ \/ PsuInit \/ spawn_serial_watch \/ ScriptFails \/ Launch \/ WaitTool \/ Join \/ CheckTime
        \/ \E n \in 1 .. MaxText : \E bytes \in [1 .. n -> Byte] : Receive(bytes)
        \/ \E outcome \in {"check", "error"} : ReadFails(outcome)
        \/ Tick \/ \E status \in {"ok", "bad"} : ToolEnds(status)

WatchSpec == WatchInit /\ [][WatchNext]_watchVars

-----------------------------------------------------------------------------
Ended == rc # Running

\* Where the lines of a text end, and what the one that ends at k consists of.
Ends(text) == {k \in DOMAIN text : text[k] = NewLine}
LineAt(text, k) == {text[i] : i \in {i \in 1 .. k - 1 : \A j \in i .. k - 1 : text[j] # NewLine}}

\* Up to e no line contains a failure; lines that end up to e contain the first n
\* patterns, in order and each one on a line of its own.
Fine(text, e) == \A k \in Ends(text) : k <= e => FailOn \cap LineAt(text, k) = {}
Found(text, e, n) ==
  \E f \in [1 .. n -> {k \in Ends(text) : k <= e}] :
    /\ \A i \in 1 .. n : job.expect[i] \in LineAt(text, f[i])
    /\ \A i, j \in 1 .. n : i < j => f[i] < f[j]

\* What the board printed, less the characters that a read cut in two.
Legible == Shown(heard, torn)

\* No failure before the last of the patterns is found; without patterns, none at all.
Satisfied ==
  IF job.expect = <<>> THEN Fine(Legible, Len(Legible))
  ELSE \E e \in Ends(Legible) : Fine(Legible, e) /\ Found(Legible, e, Len(job.expect))

\* The exit code says what the header promises (main.rs:13-17) of the legible
\* text: 0 if and only if all expected patterns came in time, before any failure,
\* and the boot tool did not fail; 2 for an error only, and once the doctor has
\* found everything in order ("preflight check", main.rs:49) only for wrong
\* arguments, a full disk or an error of the serial port.  A character of one
\* byte is legible however the reads cut the text; one of more is not if a read
\* ends inside it, and then its pattern, or the failure it means, is missed.
VerdictRight ==
  /\ rc = 0 => (job.print_only \/ Satisfied) /\ tool # "bad"
  /\ rc = 1 => (~job.print_only /\ ~Satisfied) \/ tool = "bad"
  /\ rc = 2 /\ run_doctor(job) => job.lacks \in {"valid regex", "elf", "disk"} \/ thread = "error"

\* The program leaves no tool and no script of its behind ("5. Reap openocd: kill
\* it if still running", main.rs:419; TempFileGuard, main.rs:476-481), except
\* for a script that could not be written to its end, and for OpenOCD after an
\* error of the serial port.
NothingLeftBehind ==
  Ended => (tmp => job.lacks = "disk") /\ (tool = "running" => thread = "error")

=============================================================================
