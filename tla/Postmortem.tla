----------------------------- MODULE Postmortem -----------------------------
(***************************************************************************)
(* The fault record of the Cortex-R5F (sdk/bsp/rpu/postmortem.c) and the   *)
(* host's decoder of a memory dump (tooling/pm_decode/src/main.rs).  The   *)
(* exception handler stores the record word by word into memory that a     *)
(* warm reset keeps, and seals it with a checksum; the hook prints it and  *)
(* clears its magic.  A reset may come between any two of those stores,    *)
(* and the decoder is given a dump of whatever is then there.              *)
(*                                                                         *)
(* A word is a sequence, so that words of different kinds can be compared; *)
(* the checksum of some words is those words themselves (two records with  *)
(* the same CRC are taken to be the same record), and the thirteen         *)
(* registers are one word.                                                 *)
(***************************************************************************)
EXTENDS Integers, Sequences

CONSTANTS
  Types,      \* the exception types that occur, of 1 .. 3
  Links,      \* the link registers that occur
  Before,     \* what a dump may hold before the record: sequences of words
  MaxFaults   \* bound: the exceptions of a behaviour

VARIABLES
  core,       \* where the R5 is: [at, next]
  pm_record,  \* the record in memory, a word for each field
  faults,     \* the exceptions taken so far
  uart        \* the record last printed, with its tag

faultVars == <<core, pm_record, faults, uart>>

-----------------------------------------------------------------------------
\* The record and the decoder.

PM_MAGIC == <<-1>>
PM_VERSION == <<1>>
Garbage == <<>>

\* The fields in the order of memory.
Fields == <<"magic", "version", "exc_type", "cpsr", "pc", "lr_raw", "r",
            "dfsr", "dfar", "ifsr", "crc32">>
RECORD_SIZE == Len(Fields)

\* No checksum lies before the record: nothing else in a dump is sealed.
ASSUME DumpAssumption ==
  /\ MaxFaults \in Nat
  /\ \A before \in Before : /\ before \in Seq(Seq(Int))
                            /\ \A i \in 1 .. Len(before) : Len(before[i]) < RECORD_SIZE - 1

WordsOf(record) == [i \in 1 .. RECORD_SIZE |-> record[Fields[i]]]

crc32(words) == words

\* Mutant: the checksum is taken for right.
ChecksumIgnored(words) == Len(words) >= RECORD_SIZE

\* The stored checksum is that of all the words before it.
crc_ok(words) == crc32(SubSeq(words, 1, RECORD_SIZE - 1)) = words[RECORD_SIZE]

\* try_parse_and_print at the start of words prints what has the magic and the
\* version, before it returns whether the checksum was right.  (Of a magic with
\* another version it says so on stderr, which is left out.)
Prints(words) ==
  /\ Len(words) >= RECORD_SIZE
  /\ words[1] = PM_MAGIC
  /\ words[2] = PM_VERSION

\* A record as it is printed: in full, with the tag last.
Printed(words) == [words |-> words, tag |-> IF crc_ok(words) THEN "OK" ELSE "BAD"]

\* The offsets the decoder tries, from the first: every word of the dump.
Offsets(dump) == 1 .. Len(dump) - RECORD_SIZE + 1

\* All that is printed of a dump: every record up to the first whose checksum is
\* right.  The exit code says whether there was one.
decode(dump) ==
  LET At(i) == SubSeq(dump, i, i + RECORD_SIZE - 1)
      printed == {i \in Offsets(dump) : Prints(At(i))}
      good == {i \in printed : crc_ok(At(i))}
  IN {Printed(At(i)) : i \in {i \in printed : \A j \in good : i <= j}}

-----------------------------------------------------------------------------
\* The handler.

lr_to_pc_offset(exc_type) == IF exc_type = 3 THEN 8 ELSE 4

\* What exception x leaves in a field, given the record so far.
Value(x, f, record) ==
  CASE f = "magic"    -> PM_MAGIC
    [] f = "version"  -> PM_VERSION
    [] f = "exc_type" -> <<x.exc_type>>
    [] f = "lr_raw"   -> <<x.lr>>
    [] f = "pc"       -> <<x.lr - lr_to_pc_offset(x.exc_type)>>
    [] f = "crc32"    -> crc32(SubSeq(WordsOf(record), 1, RECORD_SIZE - 1))
    [] OTHER          -> <<x.number>>

\* The order of the stores: the program counter after the link register.
Stores == <<"magic", "version", "exc_type", "cpsr", "lr_raw", "pc", "r",
            "dfsr", "dfar", "ifsr", "crc32">>

\* A power-up: the memory holds anything but a sealed record.
FaultInit ==
  /\ core = [at |-> "program", next |-> 0]
  /\ pm_record = [f \in {Fields[i] : i \in 1 .. RECORD_SIZE} |-> Garbage]
  /\ faults = <<>>
  /\ uart = [tag |-> "none", words |-> <<>>]

\* The exception vector enters pm_save_from_exc.
Fault ==
  /\ core.at = "program"
  /\ Len(faults) < MaxFaults
  /\ \E t \in Types, lr \in Links :
       faults' = Append(faults, [exc_type |-> t, lr |-> lr,
                                 number |-> Len(faults) + 1])
  /\ core' = [at |-> "save", next |-> 1]
  /\ UNCHANGED <<pm_record, uart>>

\* pm_save_from_exc stores one more field, the checksum last.
pm_save_from_exc ==
  /\ core.at = "save"
  /\ LET f == Stores[core.next] IN
       pm_record' = [pm_record EXCEPT ![f] =
                       Value(faults[Len(faults)], f, pm_record)]
  /\ core' = IF core.next = Len(Stores) THEN [at |-> "hook", next |-> 0]
             ELSE [core EXCEPT !.next = @ + 1]
  /\ UNCHANGED <<faults, uart>>

\* pm_on_exception calls pm_print, which returns when the magic is not there;
\* a checksum that does not match is only a tag of what is printed.
pm_print ==
  /\ core.at = "hook"
  /\ IF pm_record["magic"] = PM_MAGIC
     THEN /\ uart' = Printed(WordsOf(pm_record))
          /\ core' = [core EXCEPT !.at = "printed"]
     ELSE UNCHANGED uart /\ core' = [core EXCEPT !.at = "spin"]
  /\ UNCHANGED <<pm_record, faults>>

\* The end of pm_print, after which the hook spins.
Invalidate ==
  /\ core.at = "printed"
  /\ pm_record' = [pm_record EXCEPT !["magic"] = <<0>>]
  /\ core' = [core EXCEPT !.at = "spin"]
  /\ UNCHANGED <<faults, uart>>

\* A warm reset, at any point of the handler, keeps the record.
WarmReset ==
  /\ core.at # "program"
  /\ core' = [at |-> "program", next |-> 0]
  /\ UNCHANGED <<pm_record, faults, uart>>

FaultNext == Fault \/ pm_save_from_exc \/ pm_print \/ Invalidate \/ WarmReset

FaultSpec == FaultInit /\ [][FaultNext]_faultVars

-----------------------------------------------------------------------------
\* The record of exception x, whole.
Whole(x) ==
  LET blank == [f \in {Fields[i] : i \in 1 .. RECORD_SIZE} |-> Garbage]
      body == [f \in DOMAIN blank |->
                 IF f = "crc32" THEN Garbage ELSE Value(x, f, blank)]
  IN WordsOf([body EXCEPT !["crc32"] = Value(x, "crc32", body)])

\* The record of some exception, whole.
Real(words) == \E n \in 1 .. Len(faults) : words = Whole(faults[n])

\* Whenever the memory is dumped, and whatever lies before the record, the tag
\* tells the records of one exception from the rest.  A record that a reset has
\* torn, with the registers of one exception under the program counter of another,
\* is printed too, in full, but never as OK; and what is OK is never torn.
\* From the seal to the end of the print exactly one is OK, that of the exception
\* just taken.  The target's own print keeps to the same.
ReportsOneException ==
  /\ \A before \in Before :
       LET out == decode(before \o WordsOf(pm_record))
           reported == {p.words : p \in {p \in out : p.tag = "OK"}}
       IN /\ \A p \in out : p.tag = "OK" <=> Real(p.words)
          /\ core.at \in {"hook", "printed"} => reported = {Whole(faults[Len(faults)])}
  /\ uart.tag = "OK" => Real(uart.words)
=============================================================================
