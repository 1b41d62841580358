----------------------------- MODULE MCDisplaySoC -----------------------------
(***************************************************************************)
(* Both displays with words of four bits and bytes of three, which leaves  *)
(* the OLED display the one clock too many of every store and, at twice    *)
(* the period, the room to take a byte of zeros from it.                   *)
(***************************************************************************)
EXTENDS DisplaySoC

MCLedmtxWord == {<<0, 0, 1, 1>>, <<0, 1, 0, 1>>}
MCOledByte   == {<<0, 1, 1>>, <<1, 0, 1>>}
MCOledCntl   == [CS : BOOLEAN, RST : BOOLEAN]

===============================================================================
