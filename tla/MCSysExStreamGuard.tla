------------------------- MODULE MCSysExStreamGuard -------------------------
(***************************************************************************)
(* The SysEx streams used when SysExStreamGuard is model-checked: SysEx7   *)
(* and two SysEx8 streams, all on one Group.                               *)
(***************************************************************************)
EXTENDS SysExStreamGuard

SysEx7On(g)    == [mt |-> SysEx7, group |-> g, streamId |-> 0]
SysEx8On(g, i) == [mt |-> SysEx8, group |-> g, streamId |-> i]

KeysOneGroup == {SysEx7On(0), SysEx8On(0, 1), SysEx8On(0, 2)}
=============================================================================
