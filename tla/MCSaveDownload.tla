--------------------------- MODULE MCSaveDownload ---------------------------
(* SaveDownload for TLC: the default slot and the slot of one character.   *)
EXTENDS SaveDownload

CONSTANTS main, char

MCSlot == {main, char}
=============================================================================
