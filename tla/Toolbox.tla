------------------------------ MODULE Toolbox ------------------------------
(***************************************************************************)
(* The parts around the trace path that have nothing to do with each other *)
(* at run time, in one specification: an initial state chooses one of      *)
(* them, and the others stand still.  They are the control requests with   *)
(* the command line that sends them, the JTAG bridge, the descriptor ring  *)
(* of the firmware library, the decoding of a capture, the tool that runs  *)
(* tests on the board, the fault record of the R5, and the converter of    *)
(* documents with its search for tables.                                   *)
(***************************************************************************)
EXTENDS ControlPlane, JtagBridge, DmaRing, TraceDecode, WatchBoard, Postmortem,
        DocsConvert, DocTables

VARIABLE part  \* the part this behaviour is about

toolboxVars == <<part, controlVars, bridgeVars, ringVars, decodeVars, watchVars,
                 faultVars, convertVars, tableVars>>

\* The part at work may start in any of its initial states, the others in one.
ToolboxInit ==
  /\ part \in {"control", "bridge", "ring", "decode", "watch", "fault",
               "convert", "tables"}
  /\ ControlInit /\ (part # "control" => habit = "load")
  /\ BridgeInit
  /\ RingInit
  /\ DecodeInit /\ (part # "decode" => file = <<>>)
  /\ WatchInit
  /\ FaultInit
  /\ ConvertInit
  /\ (part # "convert" => \A d \in Documents, v \in Versions : source[d] <= v)
  /\ TableInit

ToolboxNext ==
  /\ UNCHANGED part
  /\ \/ part = "control" /\ ControlNext
     \/ part # "control" /\ UNCHANGED controlVars
  /\ \/ part = "bridge" /\ BridgeNext
     \/ part # "bridge" /\ UNCHANGED bridgeVars
  /\ \/ part = "ring" /\ RingNext
     \/ part # "ring" /\ UNCHANGED ringVars
  /\ \/ part = "decode" /\ DecodeNext
     \/ part # "decode" /\ UNCHANGED decodeVars
  /\ \/ part = "watch" /\ WatchNext
     \/ part # "watch" /\ UNCHANGED watchVars
  /\ \/ part = "fault" /\ FaultNext
     \/ part # "fault" /\ UNCHANGED faultVars
  /\ \/ part = "convert" /\ ConvertNext
     \/ part # "convert" /\ UNCHANGED convertVars
  /\ \/ part = "tables" /\ TableNext
     \/ part # "tables" /\ UNCHANGED tableVars

ToolboxSpec == ToolboxInit /\ [][ToolboxNext]_toolboxVars
=============================================================================
