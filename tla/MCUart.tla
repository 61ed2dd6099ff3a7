------------------------------- MODULE MCUart -------------------------------
(* Strings without and with line ends, the empty one, and no string at all; *)
(* a tick prints a character and a line end.                                *)
EXTENDS Uart

MCChar == {"x", "y", "t", LF, CR}
MCTexts == {<<"x", LF>>, <<"y">>, <<>>, NULL}
MCTickText == <<"t", LF>>
=============================================================================
