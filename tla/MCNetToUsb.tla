----------------------------- MODULE MCNetToUsb -----------------------------
(***************************************************************************)
(* The SysEx streams used when NetToUsb is model-checked.                  *)
(***************************************************************************)
EXTENDS NetToUsb

SysEx7On(g)    == [mt |-> SysEx7, group |-> g, streamId |-> 0]

Pico  == [WaitsForRoom |-> TRUE,  DropsUnmounted |-> FALSE]
PicoW == [WaitsForRoom |-> FALSE, DropsUnmounted |-> FALSE]
Nxp   == [WaitsForRoom |-> FALSE, DropsUnmounted |-> TRUE]      \* HOST

AllBuilds == {Pico, PicoW, Nxp}

KeysSysEx7 == {SysEx7On(0), SysEx7On(1)}
=============================================================================
