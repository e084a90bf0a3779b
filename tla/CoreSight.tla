------------------------------ MODULE CoreSight ------------------------------
(***************************************************************************)
(* The trace path of the processing system: two trace units (ETM), three   *)
(* funnels and the TPIU, and the register writes coresight::select and     *)
(* coresight::enable_trace make to start one of the units.  How the        *)
(* components answer a write is external; it is what the comments of the   *)
(* code record of the hardware.                                            *)
(***************************************************************************)
EXTENDS Integers, Sequences

VARIABLE coresight

Core == {"r5", "a53"}
Funnel == {"rpu", "apu", "system"}

W(to, register, value) == [to |-> to, register |-> register, value |-> value]

-----------------------------------------------------------------------------
\* Stop on flush, flush, and continuous formatting once it has stopped.
enable_tpiu_formatter ==
  <<W("tpiu", "FFCR", {"StopFl"}), W("tpiu", "FFCR", {"StopFl", "FOnMan"}),
    W("tpiu", "FFCR", {"EnFCont"})>>

\* A funnel passes on the set of inputs that its control register names.
Route(core) ==
  LET only(c, input) == IF core = c THEN {input} ELSE {} IN
  <<W("rpu", "CONTROL", only("r5", 0)), W("apu", "CONTROL", only("a53", 1)),
    W("system", "CONTROL", IF core = "a53" THEN {1} ELSE {0})>>

select(core) ==
  [i \in 1 .. 5 |-> W(<<core, "rpu", "apu", "system", "tpiu">>[i], "LAR", 0)] \o Route(core)

TraceId(core) == IF core = "a53" THEN 32 ELSE 16

\* What each configuration register of the unit is given, in this order; the
\* synchronisation delay, period and ViewInst values are 8, 8 and 1.
Configuration(core) ==
  <<<<"TRCCONFIGR", 0>>, <<"TRCAUXCTLR", 8>>, <<"TRCEVENTCTL0R", 0>>, <<"TRCEVENTCTL1R", 0>>,
    <<"TRCSTALLCTLR", 0>>, <<"TRCTSCTLR", 0>>, <<"TRCSYNCPR", 8>>, <<"TRCCCCTLR", 0>>,
    <<"TRCBBCTLR", 0>>, <<"TRCTRACEIDR", TraceId(core)>>, <<"TRCVIIECTLR", 0>>,
    <<"TRCVISSCTLR", 0>>, <<"TRCVICTLR", 1>>>>

\* Mutant: the formatter is set up before the unit traces.
EnableFormatterFirst(core) ==
  LET c == Configuration(core) IN
  <<W(core, "TRCOSLAR", 0), W(core, "TRCPRGCTLR", 0)>>
    \o [i \in DOMAIN c |-> W(core, c[i][1], c[i][2])]
    \o enable_tpiu_formatter \o <<W(core, "TRCPRGCTLR", 1)>>

enable_trace(core) ==
  LET c == Configuration(core) IN
  <<W(core, "TRCOSLAR", 0), W(core, "TRCPRGCTLR", 0)>>
    \o [i \in DOMAIN c |-> W(core, c[i][1], c[i][2])]
    \o <<W(core, "TRCPRGCTLR", 1)>> \o enable_tpiu_formatter

-----------------------------------------------------------------------------
\* The components.  A unit's registers hold whatever a boot stage or a debugger
\* left there: `programmed' names the ones written since, while it was off.
CoreSightInit ==
  coresight =
    [open |-> {},
     inputs |-> [f \in Funnel |-> {}],
     locked |-> Core, on |-> {}, programmed |-> [c \in Core |-> {}],
     stopped |-> FALSE, flushed |-> FALSE, formatter |-> "bypass"]

Reaches(core) ==
  IF core = "r5" THEN 0 \in coresight.inputs["rpu"] /\ 0 \in coresight.inputs["system"]
                 ELSE 1 \in coresight.inputs["apu"] /\ 1 \in coresight.inputs["system"]

Traffic == \E c \in coresight.on : Reaches(c)

UnitTakes(core, a) ==
  CASE a.register = "TRCOSLAR" -> [coresight EXCEPT !.locked = @ \ {core}]
    [] a.register = "TRCPRGCTLR" ->
         [coresight EXCEPT !.on = IF a.value = 1 /\ core \notin coresight.locked
                                    THEN @ \cup {core} ELSE @ \ {core}]
    [] OTHER ->   \* while it traces a unit ignores its configuration registers
         IF core \in coresight.on \cup coresight.locked THEN coresight
         ELSE [coresight EXCEPT !.programmed[core] =
                 {p \in @ : p[1] # a.register} \cup {<<a.register, a.value>>}]

\* EnFCont can only be changed while FtStopped is high, which stop-on-flush and
\* a manual flush bring about; a flush with nothing in flight leaves a formatter
\* that emits nothing.
FormatterTakes(value) ==
  IF {"StopFl", "FOnMan"} \subseteq value
    THEN [coresight EXCEPT !.stopped = TRUE, !.flushed = Traffic]
  ELSE IF "EnFCont" \in value /\ coresight.stopped
    THEN [coresight EXCEPT !.stopped = FALSE,
            !.formatter = IF coresight.flushed THEN "framing" ELSE "silent"]
  ELSE coresight

CoreSightTakes(a) ==
  coresight' =
    CASE a.register = "LAR" -> [coresight EXCEPT !.open = @ \cup {a.to}]
      [] a.register # "LAR" /\ a.to \notin coresight.open -> coresight
      [] OTHER -> IF a.to \in Core THEN UnitTakes(a.to, a)
                  ELSE IF a.to \in Funnel THEN [coresight EXCEPT !.inputs[a.to] = a.value]
                  ELSE FormatterTakes(a.value)

\* The unit of this core traces as configured, alone reaches the TPIU, and the
\* TPIU frames what it gets.
Delivers(core) ==
  LET c == Configuration(core) IN
  /\ core \in coresight.on /\ coresight.programmed[core] = {c[i] : i \in DOMAIN c}
  /\ Reaches(core) /\ \A other \in Core \ {core} : ~Reaches(other)
  /\ coresight.formatter = "framing" /\ ~coresight.stopped
=============================================================================
